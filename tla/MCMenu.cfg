SPECIFICATION Spec
CONSTANTS
    Flow <- MenuFlow
    Routes = {r1}
    Agents = {a1, a2}
    Capacity = 1
    MatcherEnabled = TRUE
    ForcedPatches = FALSE
    OfferTimeout = 1
    WaitTime = 1
    MatchDeadline = 2
    RonaCooldown = 0
    WrapUpTime = 0
    Null = Null
SYMMETRY Symmetry
CONSTRAINT FewParks
INVARIANTS
    IInv
    ParkIsArmed
PROPERTIES
    Implements
