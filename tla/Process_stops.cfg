SPECIFICATION FairSpec
CONSTANTS
    h1 = h1
    h2 = h2
    s1 = s1
    s2 = s2
    Handler = {h1, h2}
    Stream = {s1, s2}
    Buffer = 1
    Denies = {h2}
    DeniedOnly = {s2}
    Configs <- Deployments
    Redis <- RedisAnswers
INVARIANTS NeverSendsOnClosed 
PROPERTIES Exits PublishingEnds
CHECK_DEADLOCK FALSE
