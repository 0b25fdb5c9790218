\* No faults but sockets that fail: two agents told apart, two connections.
SPECIFICATION FairSpec
CONSTANTS
    None = None
    Controller = Controller
    a1 = a1  a2 = a2  c1 = c1  c2 = c2  c3 = c3  n1 = n1  n2 = n2
    Agents = {a1, a2}
    Clients = {c1, c2}
    Requests = {n1, n2}
    Rank <- AgentsFirst
    Faulty = FALSE
INVARIANT RequestIsKept
PROPERTIES GoneIsForgotten Answered
CHECK_DEADLOCK FALSE
