SPECIFICATION Spec
CONSTANTS
    Refs = {"main", "dev"}
    Requests = {q1, q2}
    MaxSha = 2
    MaxFaults = 1
    MaxBegins = 3
INVARIANTS
    AcknowledgedKept
CHECK_DEADLOCK FALSE
