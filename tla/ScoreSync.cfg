SPECIFICATION FairSpec
CONSTANTS
    u1 = u1
    u2 = u2
    s1 = s1
    s2 = s2
    s3 = s3
    o1 = o1
    o2 = o2
    NoUser = NoUser
    Users = {u1, u2}
    Linked = {u2}
    Ops = {o1, o2}
    Scores = {s1, s2, s3}
    KindsOf <- MCKindsOf
    Games = {g1}
    Concurrency = 2
    MaxSessions = 1
    MaxErrors = 1
    StartStates <- MCStartStates
INVARIANTS
    TypeOK
    SessionIsOneAccount
    TransfersAddUp
PROPERTY
    SyncEnds
CHECK_DEADLOCK FALSE
