SPECIFICATION Spec
CONSTANTS
    i1 = i1
    i2 = i2
    r1 = r1
    r2 = r2
    t1 = t1
    t2 = t2
    Key <- Keys
    Val <- Vals
    Thread <- Threads
    NoVal = NoVal
    NoThread = NoThread
    Torn = Torn
    StateDirDurable = TRUE
    MaxFaults = 3
INVARIANTS
    TypeOK
    NoTornFile
    AckedWriteSurvives
PROPERTY
    ImplementsDurableMap
