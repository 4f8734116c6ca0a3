SPECIFICATION FairSpec
CONSTANTS
    Leaders = {l1}
    Followers = {f1}
    LEADER_LEASE_TTL = 6
    HEARTBEAT_INTERVAL = 1
    JoinTimeout = 1
    RequiredFailures = 3
    MaxDelay = 1
    NoBroker = NoBroker
PROPERTIES
    CurrentFollowsLeader
