SPECIFICATION Spec
CONSTANTS
    m1 = m1
    d1 = d1
    None = None
    Group <- MCGroup
    File <- MCFile
    Upload <- MCUpload
INVARIANT
    UploadedOnce
CHECK_DEADLOCK FALSE
