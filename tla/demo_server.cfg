SPECIFICATION FairSpec
CONSTANTS
    Name = {n1, n2, n3, n4}  Instance0 = n1  Session0 = n2
    Client = {a, b}  Viewer = {v}  Wallet = {w1, w2}  None = None
    MaxStarts = 3  MaxLost = 1
INVARIANTS TypeOK ReplyAfterPrompt EventsMirrorHistory SessionAsChallenged
PROPERTY TerminalsAreClosed
CHECK_DEADLOCK FALSE
