SPECIFICATION Spec
CONSTANTS
    k1 = k1
    k2 = k2
    q1 = q1
    q2 = q2
    q3 = q3
    s1 = s1
    NoKey = NoKey
    Keys <- TwoKeys
    Bots <- OneBot
    Envs <- SomeEnvs
    Posts <- ThreePosts
    Sends <- OneSend
    MaxFaults = 1
INVARIANTS
    TypeOK
    NewestKeyUnlessRaced
    AcceptedSendCanSend
CHECK_DEADLOCK FALSE
