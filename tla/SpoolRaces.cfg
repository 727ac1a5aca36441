SPECIFICATION FairSpec
CONSTANTS
    m1 = m1
    m2 = m2
    m3 = m3
    r1 = r1
    s1 = s1
    s2 = s2
    Senders = {s1, s2}
    Receivers = {r1}
    Messages = {m1, m2, m3}
    Key <- MCKey
    SendsOf <- MCSendsOf
    MayRequeue = TRUE
    MayExpire = {m1}
    MayRevoke = TRUE
    MayDeadLetter = TRUE
    MaxSends = 2
    MaxCrashes = 1
INVARIANT
    ImportsSound
PROPERTIES
    ExpiredStaysDead
    AcksRestored
CHECK_DEADLOCK FALSE
