SPECIFICATION Spec
CONSTANTS
    Leaders = {l1, l2}
    Followers = {f1}
    LEADER_LEASE_TTL = 12
    HEARTBEAT_INTERVAL = 2
    JoinTimeout = 2
    RequiredFailures = 3
    MaxDelay = 1
    NoBroker = NoBroker
SYMMETRY Symmetry
INVARIANTS
    TypeOK
    OneLeader
    LeaderKeepsLease
    VacancyBounded
    FailoverBounded
PROPERTY
    ImplementsLeadership
