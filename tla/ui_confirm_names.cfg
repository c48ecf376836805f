SPECIFICATION Spec
CONSTANTS
    i1 = i1  i2 = i2  alice = alice  bob = bob  demo = demo  narrow = narrow  t1 = t1  t2 = t2
    Id = {i1, i2}  Wallet = {alice}  OwnerOf <- MCOneOwner
    ByToken = {i2}  Bearer = {demo, narrow}  DemoToken = demo  Sees <- MCSees  Refused = {narrow}
    DevToken = TRUE  DemoMode = {FALSE}  Task = {t1, t2}  None = None  MaxMoves = 3
PROPERTY JobIsForTheNamed
CHECK_DEADLOCK FALSE
