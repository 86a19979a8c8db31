SPECIFICATION Spec
CONSTANTS
    ann = ann
    bob = bob
    u1 = u1
    u2 = u2
    u3 = u3
    l1 = l1
    m1 = m1
    m2 = m2
    m3 = m3
    t1 = t1
    t2 = t2
    r1 = r1
    r2 = r2
    p1 = p1
    p2 = p2
    d1 = d1
    None = None
    Parts <- MCParts
    Item <- MCItem
    Lead <- MCLead
    MessageOf <- MCMessageOf
    ThreadOf <- MCThreadOf
    Mail <- MCMail
    Field <- MCField
    Endpoint <- MCEndpoint
    User <- MCUser
    Account <- MCAccount
    Request <- MCRequest
    Poller <- MCPoller
    Process <- MCProcess
    Page <- MCPage
    State <- MCState
    Deal <- MCDeal
    Renewed <- MCRenewed
    Pipeline <- MCPipeline
    AmoPipeline <- MCAmoPipeline
    Group <- MCGroup
    File <- MCFile
    Upload <- MCUpload
    Types <- MCTypes
    ByEmail = TRUE
    MaxContacts = 1
    Together <- MCTogether
    HandlerSlots = 2
    MaxAttempts = 1
    MaxValidity = 2
    PageSize = 1
    MaxEvent = 3
    MaxReplay = 1
    BatchSize = 1
    MaxVersion = 3
    MaxDealVersion = 2
    MaxStage = 4
    Cap = 1
    MaxRow = 2
    MaxToken = 4
    MaxConnectionVersion = 4
    MaxTime = 2
    ReminderAttempts = 2
SYMMETRY MCAlike
INVARIANTS
    TypeOK
    StoredOnce
    NoMailPassedOver
    NothingStaleIsShown
    CredentialsFit
    OccurrencesHold
PROPERTIES
    
    
    
    ImportsHold
CHECK_DEADLOCK FALSE
