SPECIFICATION Spec
CONSTANTS
    Flow <- MenuFlow
    Routes = {r1}
    Agents = {a1}
    Capacity = 1
    MatcherEnabled = FALSE
    ForcedPatches = FALSE
    OfferTimeout = 1
    WaitTime = 1
    MatchDeadline = 1
    RonaCooldown = 0
    WrapUpTime = 0
    Null = Null
SYMMETRY Symmetry
CONSTRAINT FewParks
PROPERTIES
    AcceptMovesOn
