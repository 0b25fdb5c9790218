\* Whole frames, cancelled subscriptions, a link that may fail, another transport.
SPECIFICATION FairSpec
CONSTANTS
    None = None
    a1 = a1  a2 = a2  w1 = w1  n1 = n1  n2 = n2
    Agents = {a1}
    Others = {w1}
    Requests = {n1, n2}
    WholeFrames = TRUE
    Faulty = FALSE
    MaxCancels = 2
INVARIANT Accounted
PROPERTY Published
CHECK_DEADLOCK FALSE
