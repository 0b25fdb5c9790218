\* Every fault: split and coalesced frames, cancelled subscriptions, restarts.
SPECIFICATION Spec
CONSTANTS
    None = None
    a1 = a1  a2 = a2  w1 = w1  n1 = n1  n2 = n2
    Agents = {a1}
    Others = {}
    Requests = {n1, n2}
    WholeFrames = FALSE
    Faulty = TRUE
    MaxCancels = 1
SYMMETRY Symmetry
INVARIANTS TypeOK SubscribedIsHeard TakenOnce
CHECK_DEADLOCK FALSE
