SPECIFICATION FairSpec
CONSTANTS
    i1 = i1  i2 = i2  alice = alice
    Id = {i1, i2}  Owner = {alice}  OwnerOf <- MCOwnerOf
    Token = {k1}  NoClaims = NoClaims
    Stream = {x1}  Session = {s1, s2}  NoSession = NoSession
    Event <- MCEvent  Capacity = 2
    Request = {r1, r2}  NoRequest = NoRequest  NoChat = NoChat
    Title = {new, other}  NewChat = new
    HasChatCommand = {i1}  MaxAborts = 1
    NotYet = NotYet  Gone = Gone
INVARIANTS TypeOK HistoryIsPaired MessagesFromOwner StreamsFollowHistory
PROPERTIES ImplementsChatLog EveryAnswerIsShown
