SPECIFICATION Spec
CONSTANTS
    User = {ann, bob}
    Request = {r1, r2}
    MaxVersion = 3
PROPERTY
    AnOwnerStays
CHECK_DEADLOCK FALSE
