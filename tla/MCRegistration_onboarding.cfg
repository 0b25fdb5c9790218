\* A USP agent and a CWMP device, two reports, one crash, stop or outage.
SPECIFICATION FairSpec
CONSTANTS
    a = a
    b = b
    None = None
    Agents = {a}
    Boxes = {b}
    Identity <- MCIdentity
    MaxReports = 2
    MaxFaults = 1
INVARIANT TypeOK
INVARIANT HistoryRefers
INVARIANT NothingIsLost
PROPERTY IdIsStable
PROPERTY RouteSurvivesUpsert
PROPERTY Registers
CHECK_DEADLOCK FALSE
