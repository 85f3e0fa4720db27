SPECIFICATION Spec
CONSTANTS
    Flow <- ReservationFlow
    Routes = {r1}
    Agents = {a1, a2}
    Capacity = 1
    MatcherEnabled = TRUE
    ForcedPatches = FALSE
    OfferTimeout = 1
    WaitTime = 1
    MatchDeadline = 1
    RonaCooldown = 1
    WrapUpTime = 0
    Null = Null
SYMMETRY Symmetry
INVARIANTS
    NoAttemptCollision
