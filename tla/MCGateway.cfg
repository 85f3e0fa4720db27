SPECIFICATION FairSpec
CONSTANTS
    Conns = {c1, c2}
    Producers = {p1, p2}
    SendBuffer = 2
    BatchLimit = 2
    MaxRows = 2
    MaxFaults = 1
    Null = Null
PROPERTIES
    DeliversInOrder
    OfferDelivered
    LeaseFollowsClient
