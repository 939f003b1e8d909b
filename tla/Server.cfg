SPECIFICATION Spec
CONSTANTS
    None = None
    Garbage = Garbage
    Replicas = {p1, p2}
    Routed = {p1}
    Requests = {q1, q2}
    Environments <- ServerEnvironments
INVARIANTS ServerTypeOK QueuedNotCancelled CauseReported ShutdownBounded CleanExit
PROPERTIES LocksReleased EveryoneSettles
