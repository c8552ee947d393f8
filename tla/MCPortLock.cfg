SPECIFICATION FairSpec
CONSTANTS
    Names = {a, b}
    Ports = {p1, p2}
    Nobody = Nobody
    MaxRestarts = 1
INVARIANTS PortsExclusive
PROPERTIES DeadPortsFreed
\* Every worker may die for good.
CHECK_DEADLOCK FALSE
