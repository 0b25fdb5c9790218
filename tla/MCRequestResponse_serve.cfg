\* A call at a gateway that may be stopped, data-service restarts and executes
\* it again, and another gateway overhears the responses.
SPECIFICATION FairSpec
CONSTANTS
    None = None
    Error = Error
    r1 = r1  g1 = g1  g2 = g2
    Requests = {r1}
    Gateways = {g1, g2}
    Home <- OneHome
    MaxCopies = 1
    MaxCrashes = 1
    MayStop = TRUE
INVARIANTS TypeOK PendingIsOpen
PROPERTIES Returns KeepsUp ImplementsCalls
