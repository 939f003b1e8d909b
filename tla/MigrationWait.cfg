SPECIFICATION Spec
CONSTANTS
    None = None
    Garbage = Garbage
    Replicas = {p1, p2}
    Routed = {p1}
    Requests = {q1}
    Environments <- StartEnvironments
PROPERTY OthersWait
