SPECIFICATION FairSpec
CONSTANTS
    m1 = m1
    m2 = m2
    m3 = m3
    r1 = r1
    s1 = s1
    Senders = {s1}
    Receivers = {r1}
    Messages = {m1, m2}
    Key <- MCKey
    SendsOf <- MCAllSends
    MayRequeue = FALSE
    MayExpire = {m1}
    MayRevoke = FALSE
    MayDeadLetter = FALSE
    MaxSends = 2
    MaxCrashes = 0
PROPERTY
    AtLeastOnce
CHECK_DEADLOCK FALSE
