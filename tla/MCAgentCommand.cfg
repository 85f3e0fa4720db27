SPECIFICATION CommandSpec
CONSTANTS
    r1 = r1
    a1 = a1
    a2 = a2
    m1 = m1
    m2 = m2
    Flow <- ReservationFlow
    Routes = {r1}
    Agents = {a1, a2}
    Capacity = 1
    MatcherEnabled = FALSE
    ForcedPatches = FALSE
    OfferTimeout = 1
    WaitTime = 1
    MatchDeadline = 1
    RonaCooldown = 0
    WrapUpTime = 0
    Sessions = {s1, s2}
    Commands <- Frames
    Null = Null
SYMMETRY Symmetry
INVARIANTS
    StableAnswer
    OutcomeIsRecorded
    OfferIsParked
PROPERTIES
    CommandsAreDecidedOnce
