\* Two agents whose endpoint ids are told apart, three connections, every fault.
SPECIFICATION Spec
CONSTANTS
    None = None
    Controller = Controller
    a1 = a1  a2 = a2  c1 = c1  c2 = c2  c3 = c3  n1 = n1  n2 = n2
    Agents = {a1, a2}
    Clients = {c1, c2, c3}
    Requests = {n1, n2}
    Rank <- AgentsFirst
    Faulty = TRUE
SYMMETRY Symmetry
INVARIANTS TypeOK MappedIsConnected
PROPERTIES NewerIsKept ImplementsMailbox
CHECK_DEADLOCK FALSE
