SPECIFICATION Spec
CONSTANTS
    Flow <- ReservationFlow
    Routes = {r1, r2}
    Agents = {a1}
    Capacity = 1
    MatcherEnabled = FALSE
    ForcedPatches = FALSE
    OfferTimeout = 1
    WaitTime = 1
    MatchDeadline = 1
    RonaCooldown = 2
    WrapUpTime = 0
    Null = Null
SYMMETRY Symmetry
CONSTRAINT FewParks
PROPERTIES
    MissedAgentRests
