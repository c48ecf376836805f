SPECIFICATION Spec
CONSTANTS
    i1 = i1  i2 = i2  alice = alice  bob = bob  demo = demo  narrow = narrow  t1 = t1  t2 = t2
    Id = {i1, i2}  Wallet = {alice, bob}  OwnerOf <- MCOwnerOf
    ByToken = {i2}  Bearer = {demo, narrow}  DemoToken = demo  Sees <- MCSees  Refused = {narrow}
    DevToken = TRUE  DemoMode = {TRUE, FALSE}  Task = {t1, t2}  None = None  MaxMoves = 4
INVARIANTS TypeOK SelectionIsListed SessionsOfTheOwner PanelsFollowSelection BusyMeansWork
SYMMETRY Handlers
CHECK_DEADLOCK FALSE
