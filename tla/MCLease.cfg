SPECIFICATION Spec
CONSTANTS
    Conns = {c1, c2}
    Producers = {}
    SendBuffer = 2
    BatchLimit = 2
    MaxRows = 0
    MaxFaults = 1
    Null = Null
PROPERTIES
    StaleTeardownEvictsNothing
