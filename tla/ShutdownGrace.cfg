SPECIFICATION Spec
CONSTANTS
    None = None
    Garbage = Garbage
    Replicas = {p1}
    Routed = {p1}
    Requests = {q1}
    Environments <- GraceEnvironments
INVARIANTS GraceGiven
