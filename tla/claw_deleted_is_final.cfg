SPECIFICATION Spec
CONSTANTS
    a = a
    b = b
    alice = alice
    bob = bob
    p1 = p1
    p2 = p2
    t1 = t1
    t2 = t2
    NoPort = NoPort
    NoRecord = NoRecord
    NoId = NoId
    NoOwner = NoOwner
    Id <- One
    Owner <- OneOwner
    Port <- OnePort
    HasSetupCommand <- One
    PublishesUi <- One
    Task <- TwoTasks
    Budget <- OneDelete
    AutoStart = FALSE
    AutoSetup = FALSE
    InspectNamesMissing = TRUE
SYMMETRY Symmetry
PROPERTIES
    DeletedIsFinal
CHECK_DEADLOCK FALSE
