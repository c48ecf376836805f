SPECIFICATION Spec
CONSTANTS
    a = a
    b = b
    alice = alice
    bob = bob
    p1 = p1
    p2 = p2
    t1 = t1
    t2 = t2
    NoPort = NoPort
    NoRecord = NoRecord
    NoId = NoId
    NoOwner = NoOwner
    Id <- One
    Owner <- TwoOwners
    Port <- OnePort
    HasSetupCommand <- One
    PublishesUi <- One
    Task <- TwoTasks
    Budget <- Overlap
    AutoStart = TRUE
    AutoSetup = TRUE
    InspectNamesMissing = TRUE
SYMMETRY Symmetry
INVARIANTS
    TypeOK
    DeletedMeansRemoved
    OnlyOwnerActs
    AckedCreateSurvives
    NoOrphanContainer
CHECK_DEADLOCK FALSE
