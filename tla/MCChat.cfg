SPECIFICATION Spec
CONSTANTS
    Flow <- ReservationFlow
    Routes = {r1, r2, r3}
    Agents = {a1}
    Capacity = 2
    MatcherEnabled = TRUE
    ForcedPatches = TRUE
    OfferTimeout = 2
    WaitTime = 1
    MatchDeadline = 2
    RonaCooldown = 1
    WrapUpTime = 0
    Null = Null
SYMMETRY Symmetry
INVARIANTS
    CapacityRespected
    MatcherOfferWithinDeadline
