SPECIFICATION Spec
CONSTANTS
    Tabs = {t1, t2}
    Credentials <- MCCredentials
    Counting <- MCCounting
    Challenges <- MCChallenges
    MaxPasskeys = 1
    MaxCount = 2
CHECK_DEADLOCK FALSE
INVARIANTS
    GenuineAccepted
    CounterBehind
    CapOvershoot
PROPERTIES
    CeremonySettles
