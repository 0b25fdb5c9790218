SPECIFICATION FairSpec
CONSTANTS
    None = None
    e1 = e1  ws = ws  stomp = stomp  i1 = i1  i2 = i2  p1 = p1  p2 = p2
    Endpoints = {e1}
    Protocols = {ws}
    Instances = {i1, i2}
    Partitions = {p1, p2}
    Owner <- TwoOwners
    InactiveAfter = 0
    DisconnectAfter = 1
    MaxDepth = 2
    RedisMode = "down"
    DBMode = "up"
    Drops = TRUE
    MaxRecords = 3
    MaxRestarts = 0
INVARIANT AuditTrail
PROPERTY Registered
