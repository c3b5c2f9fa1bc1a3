SPECIFICATION Spec
CONSTANTS
    Hosts = {1, 2, 3}
    InstanceId <- MCInstanceId
    MaxValue = 2
    SafeValue = 1
    Earliest = 2
    Ahead = 3
    MaxGateRevision = 2
    Groups <- MCGroups
INVARIANTS
    Agreement
    GateSpreads
    ReplacedNeverReturns
PROPERTIES
    Settles
CHECK_DEADLOCK FALSE
