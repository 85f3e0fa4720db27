SPECIFICATION ProgressSpec
CONSTANTS
    Flow <- ReservationFlow
    Routes = {r1}
    Agents = {a1, a2}
    Capacity = 1
    MatcherEnabled = TRUE
    ForcedPatches = FALSE
    OfferTimeout = 1
    WaitTime = 1
    MatchDeadline = 1
    RonaCooldown = 1
    WrapUpTime = 0
    Null = Null
    None = None
    Services = {"engine", "worker", "wrapup"}
    Timers = {t1, t2}
    Workers = {w1, w2}
    ClaimLimit = 2
    MaxAttempts = 2
    Servers = {s1, s2}
    WrapAgents = {b1}
    MaxStops = 2
INVARIANTS
    NothingRunsAfterStop
    SettledWithCause
PROPERTIES
    RouteEnds
    TimersSettle
    WrapUpEnds
