SPECIFICATION Spec
CONSTANTS
    None = None
    e1 = e1  ws = ws  stomp = stomp  i1 = i1  i2 = i2  p1 = p1  p2 = p2
    Endpoints = {e1}
    Protocols = {ws}
    Instances = {i1}
    Partitions = {p1}
    Owner <- OneOwner
    InactiveAfter = 0
    DisconnectAfter = 1
    MaxDepth = 1
    RedisMode = "flaky"
    DBMode = "flaky"
    Drops = FALSE
    MaxRecords = 2
    MaxRestarts = 1
INVARIANTS TypeOK HistoryHasDevice EventHasDevice
