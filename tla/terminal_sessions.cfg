SPECIFICATION FairSpec
CONSTANTS
    i1 = i1  i2 = i2  alice = alice
    Id = {i1}  Owner = {alice}  OwnerOf <- MCOwnerOf
    Token = {k1}  NoClaims = NoClaims
    Stream = {x1}  Session = {s1, s2}  NoSession = NoSession
    Event <- MCEvent  Capacity = 3
    Request = {r1, r2}  NoTerminal = NoTerminal  Banner = Banner
INVARIANTS TypeOK OutputInOrder
PROPERTIES EveryExitIsShown StreamsOfClosedTerminalsEnd
