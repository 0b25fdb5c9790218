\* The smallest instance in which a timeout races the listener.
SPECIFICATION Spec
CONSTANTS
    None = None
    Error = Error
    r1 = r1  g1 = g1  g2 = g2
    Requests = {r1}
    Gateways = {g1}
    Home <- OneHome
    MaxCopies = 1
    MaxCrashes = 0
    MayStop = FALSE
INVARIANT Listens
