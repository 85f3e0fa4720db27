--------------------------- MODULE RoutingEngine ---------------------------
(***************************************************************************)
(* The live routing engine of services/api: route requests, reservations,  *)
(* capacity slots, durable timers and agent states, and the transactions   *)
(* of the API handlers, the agent command channel, the continuation worker *)
(* and the matcher that change them.                                       *)
(*                                                                         *)
(* One action is one committed transaction.  What a transaction rolls back *)
(* (a lost guard, a conflict, a unique-index violation) changes nothing    *)
(* and is the action's guard.  `running' and `offering' are therefore not  *)
(* statuses of the model: no transaction commits them.                     *)
(*                                                                         *)
(* A timestamp is kept as the ticks left until it: positive in the future, *)
(* 0 now, negative in the past, and no lower than the code can tell apart. *)
(* A timestamp nothing reads any more is forgotten (Null).                 *)
(***************************************************************************)
EXTENDS RouteFlow, FiniteSets

CONSTANTS
    Routes,           \* route requests, one channel
    Agents,           \* enabled agents that have the skills the flow asks for
    Capacity,         \* concurrent interactions of an agent on the channel
    MatcherEnabled,   \* the deployment's matcher switch
    ForcedPatches,    \* whether supervisors use force on agent states
    OfferTimeout,     \* ticks an offer rings
    WaitTime,         \* ticks of a wait node or of an input's timeout
    MatchDeadline,    \* ticks a route may stay queued
    RonaCooldown,     \* ticks an agent is kept from the matcher after a miss
    WrapUpTime,       \* ticks of wrap-up
    Null

ASSUME EngineAssumption ==
    /\ IsFiniteSet(Agents)
    /\ Capacity \in Nat \ {0}
    /\ MatcherEnabled \in BOOLEAN
    /\ ForcedPatches \in BOOLEAN
    /\ OfferTimeout \in Nat \ {0}
    /\ WaitTime \in Nat
    /\ MatchDeadline \in Nat \ {0}
    /\ RonaCooldown \in Nat
    /\ WrapUpTime \in Nat

\* No row, no timestamp, no reservation: Null is none of them.
ASSUME NullAssumption == Null \notin Int \cup (Routes \X Nat)

VARIABLES
    route,            \* the route_requests rows
    resv,             \* each route's reservations, by attempt number
    slots,            \* the agent_capacity_slots rows
    timers,           \* the continuations not done yet
    agent,            \* the agent_states rows
    connected,        \* the agents that hold a connection lease
    cooldown          \* agent_routing_state: ticks of the RONA hold

vars == <<route, resv, slots, timers, agent, connected, cooldown>>

-----------------------------------------------------------------------------
(* Values *)

Past(t)  == t < 0
Due(t)   == t <= 0
Ahead(t) == t > 0

\* A tick, for a timestamp compared with <= now and for one compared with < now.
Pass(t)   == IF t = Null \/ t <= 0 THEN t ELSE t - 1
PassBy(t) == IF t = Null \/ t < 0 THEN t ELSE t - 1

Terminal == {"completed", "failed"}
Resolved == {"rejected", "timeout"}
Active   == {"offered", "accepted", "completed"}  \* ux_reservations_route_active

NoRoute  == [status |-> "none", run_seq |-> 0, cursor |-> 0, current |-> Null,
             match_attempt_seq |-> 0, excluded |-> {}, deadline |-> Null]
FreeSlot == [holder |-> Null, hold |-> Null]

SlotNos == 1..Capacity

Attempts(r) == 1..Len(resv[r])

-----------------------------------------------------------------------------
(* Capacity.  These operators work on a slot table passed to them, the way *)
(* the queries work on what their own transaction has written so far.      *)

\* Bug: a slot is taken whether or not it is held (no holder IS NULL guard).
AnySlots(table, a) == SlotNos

FreeSlots(table, a) == {k \in SlotNos : table[a][k].holder = Null}

Acquire(table, a, holder, hold) ==
    LET k == CHOOSE k \in FreeSlots(table, a) :
                 \A j \in FreeSlots(table, a) : k <= j
    IN  [table EXCEPT ![a][k] = [holder |-> holder, hold |-> hold]]

\* Bug: a resolved offer keeps its slot.
ReleaseNothing(table, holder) == table

Release(table, holder) ==
    [a \in Agents |-> [k \in SlotNos |->
        IF table[a][k].holder = holder THEN FreeSlot ELSE table[a][k]]]

Confirmable(a, holder) ==
    \E k \in SlotNos : /\ slots[a][k].holder = holder
                       /\ slots[a][k].hold # Null
                       /\ Ahead(slots[a][k].hold)

\* Bug: an accepted offer keeps the expiry of its pending hold.
ConfirmNothing(table, holder) == table

Confirm(table, holder) ==
    [a \in Agents |-> [k \in SlotNos |->
        IF table[a][k].holder = holder
        THEN [table[a][k] EXCEPT !.hold = Null] ELSE table[a][k]]]

\* The committed candidate pool a run reads: Ready, leased, under capacity.
CandidatePool ==
    {a \in connected : agent[a].status = "Ready" /\ FreeSlots(slots, a) # {}}

-----------------------------------------------------------------------------
(* Reservations of one route, as a sequence `rs' indexed by attempt. *)

AgentsIn(rs, states) ==
    {rs[n].agent : n \in {m \in DOMAIN rs : rs[m].state \in states}}

OfferedAgents(rs) == {rs[n].agent : n \in DOMAIN rs}

HasActive(rs) == \E n \in DOMAIN rs : rs[n].state \in Active

Offer(a, ttl) == [agent |-> a, state |-> "offered", ttl |-> ttl]

Resolve(r, n, state) == [resv[r] EXCEPT ![n].state = state, ![n].ttl = Null]

-----------------------------------------------------------------------------
(* Route rows *)

\* Bug: a park that does not advance the fence.
SuspendedUnfenced(row, n, reservation) ==
    [row EXCEPT !.status = "waiting", !.cursor = n, !.current = reservation]

Suspended(row, n, reservation) ==
    [row EXCEPT !.status = "waiting", !.cursor = n, !.current = reservation,
                !.run_seq = @ + 1]

\* Bug: the queue excludes the agents that rejected, not those that missed.
QueuedForgettingMisses(row, n, rs) ==
    [row EXCEPT !.status = "waiting_match", !.cursor = n,
                !.excluded = AgentsIn(rs, {"rejected"}),
                !.deadline = MatchDeadline]

Queued(row, n, rs) ==
    [row EXCEPT !.status = "waiting_match", !.cursor = n,
                !.excluded = AgentsIn(rs, Resolved),
                !.deadline = MatchDeadline]

Finished(row, status) ==
    [row EXCEPT !.status = status, !.cursor = 0, !.current = Null,
                !.deadline = Null]

ReservationTimer(r, n, seq, due) ==
    [kind |-> "reservation_timeout", route |-> r, attempt |-> n,
     seq |-> seq, due |-> due]

WaitTimer(r, seq, due) ==
    [kind |-> "wait", route |-> r, attempt |-> Null, seq |-> seq, due |-> due]

-----------------------------------------------------------------------------
(***************************************************************************)
(* One run of the flow of route r to its next park or end, and its         *)
(* persistence.  rs, table and pending are the route's reservations, the   *)
(* slots and the timers as the handler leaves them before the run.         *)
(***************************************************************************)
Finish(r, status, rs, table, pending) ==
    /\ route' = [route EXCEPT ![r] = Finished(@, status)]
    /\ resv' = [resv EXCEPT ![r] = rs]
    /\ slots' = table
    /\ timers' = pending

ParkOnTimer(r, n, rs, table, pending) ==
    /\ route' = [route EXCEPT ![r] = Suspended(@, n, Null)]
    /\ resv' = [resv EXCEPT ![r] = rs]
    /\ slots' = table
    /\ timers' = pending \cup {WaitTimer(r, route[r].run_seq + 1, WaitTime)}

\* Bug: agents who were offered the route already are offered it again.
OfferableAgain(rs, table) ==
    {a \in CandidatePool : FreeSlots(table, a) # {} /\ ~HasActive(rs)}

\* Agents the live offerer does not skip: never offered this route, with a
\* slot to hold, and no active reservation to collide with.
Offerable(rs, table) ==
    {a \in CandidatePool : /\ a \notin OfferedAgents(rs)
                           /\ FreeSlots(table, a) # {}
                           /\ ~HasActive(rs)}

\* Bug: the offer's timer is not inserted with the offer.
OfferInlineUnarmed(r, n, a, rs, table, pending) ==
    LET attempt == Len(rs) + 1 IN
    /\ route' = [route EXCEPT ![r] = Suspended(@, n, attempt)]
    /\ resv' = [resv EXCEPT ![r] = Append(rs, Offer(a, OfferTimeout))]
    /\ slots' = Acquire(table, a, <<r, attempt>>, OfferTimeout)
    /\ timers' = pending

OfferInline(r, n, a, rs, table, pending) ==
    LET attempt == Len(rs) + 1 IN
    /\ route' = [route EXCEPT ![r] = Suspended(@, n, attempt)]
    /\ resv' = [resv EXCEPT ![r] = Append(rs, Offer(a, OfferTimeout))]
    /\ slots' = Acquire(table, a, <<r, attempt>>, OfferTimeout)
    /\ timers' = pending \cup
           {ReservationTimer(r, attempt, route[r].run_seq + 1, OfferTimeout)}

ParkForMatch(r, n, rs, table, pending) ==
    /\ route' = [route EXCEPT ![r] = Queued(@, n, rs)]
    /\ resv' = [resv EXCEPT ![r] = rs]
    /\ slots' = table
    /\ timers' = pending

RunFlow(r, signal, scripted, rs, table, pending) ==
    LET cursor == route[r].cursor
        n      == StopAt(cursor, signal, scripted)
    IN
    IF n = End \/ GivesUp(n, cursor, signal)
    THEN Finish(r, "completed", rs, table, pending)
    ELSE IF n \in Parkable
    THEN ParkOnTimer(r, n, rs, table, pending)
    ELSE IF n \notin Offering
    THEN Finish(r, "failed", rs, table, pending)
    ELSE IF Offerable(rs, table) # {}
    THEN \E a \in Offerable(rs, table) : OfferInline(r, n, a, rs, table, pending)
    ELSE IF MatcherEnabled
    THEN ParkForMatch(r, n, rs, table, pending)
    ELSE Finish(r, "completed", rs, table, pending)

Resume(r, signal, rs, table, pending) ==
    RunFlow(r, signal, FALSE, rs, table, pending)

-----------------------------------------------------------------------------
(* API handlers and agent commands *)

\* No published flow is bound to the entry point: the request is born failed.
CreateUnboundRoute(r) ==
    /\ route[r].status = "none"
    /\ route' = [route EXCEPT ![r].status = "failed"]
    /\ UNCHANGED <<resv, slots, timers, agent, connected, cooldown>>

CreateRouteRequest(r) ==
    /\ route[r].status = "none"
    /\ RunFlow(r, "", FALSE, resv[r], slots, timers)
    /\ UNCHANGED <<agent, connected, cooldown>>

\* The route is parked on attempt n and that attempt is still on offer.
OnOffer(r, n) ==
    /\ n \in Attempts(r)
    /\ route[r].status = "waiting"
    /\ route[r].current = n
    /\ resv[r][n].state = "offered"

AcceptReservation(r, n) ==
    /\ OnOffer(r, n)
    /\ Ahead(resv[r][n].ttl)
    /\ LET a == resv[r][n].agent IN
       /\ Confirmable(a, <<r, n>>)
       /\ agent' = IF agent[a].status = "Ready"
                   THEN [agent EXCEPT ![a] = [status |-> "Engaged", until |-> Null]]
                   ELSE agent
    /\ Resume(r, "accepted", Resolve(r, n, "accepted"),
              Confirm(slots, <<r, n>>), timers)
    /\ UNCHANGED <<connected, cooldown>>

RejectReservation(r, n) ==
    /\ OnOffer(r, n)
    /\ Resume(r, "rejected", Resolve(r, n, "rejected"),
              Release(slots, <<r, n>>), timers)
    /\ UNCHANGED <<agent, connected, cooldown>>

\* Bug: an offer nobody accepted can be completed.
CompleteUnaccepted(r, n) ==
    /\ n \in Attempts(r)
    /\ resv[r][n].state \in {"offered", "accepted"}
    /\ resv' = [resv EXCEPT ![r] = Resolve(r, n, "completed")]
    /\ slots' = Release(slots, <<r, n>>)
    /\ UNCHANGED <<route, timers, agent, connected, cooldown>>

\* Bug: the agent is not taken out of Engaged when the interaction ends.
CompleteKeepingAgent(r, n) ==
    /\ n \in Attempts(r)
    /\ resv[r][n].state = "accepted"
    /\ resv' = [resv EXCEPT ![r] = Resolve(r, n, "completed")]
    /\ slots' = Release(slots, <<r, n>>)
    /\ UNCHANGED <<route, timers, agent, connected, cooldown>>

CompleteReservation(r, n) ==
    /\ n \in Attempts(r)
    /\ resv[r][n].state = "accepted"
    /\ resv' = [resv EXCEPT ![r] = Resolve(r, n, "completed")]
    /\ slots' = Release(slots, <<r, n>>)
    /\ LET a == resv[r][n].agent IN
       agent' = IF agent[a].status = "Engaged"
                THEN [agent EXCEPT ![a] = [status |-> "WrapUp", until |-> WrapUpTime]]
                ELSE agent
    /\ UNCHANGED <<route, timers, connected, cooldown>>

SubmitRouteInput(r) ==
    /\ route[r].status = "waiting"
    /\ route[r].current = Null
    /\ route[r].cursor \in Parkable
    /\ Flow[route[r].cursor] = "input"
    /\ RunFlow(r, "", TRUE, resv[r], slots, timers)
    /\ UNCHANGED <<agent, connected, cooldown>>

-----------------------------------------------------------------------------
(* The continuation worker.  The lock on the route is fenced by run_seq: a *)
(* timer whose route moved on since it was armed is only marked done.      *)

Current(t) == /\ route[t.route].status = "waiting"
              /\ route[t.route].run_seq = t.seq

DropStaleTimer(t) ==
    /\ Due(t.due)
    /\ \/ ~Current(t)
       \/ /\ t.kind = "reservation_timeout"
          /\ resv[t.route][t.attempt].state # "offered"
    /\ timers' = timers \ {t}
    /\ UNCHANGED <<route, resv, slots, agent, connected, cooldown>>

FireReservationTimeout(t) ==
    /\ t.kind = "reservation_timeout"
    /\ Due(t.due)
    /\ Current(t)
    /\ LET r == t.route
           n == t.attempt
       IN  /\ resv[r][n].state = "offered"
           /\ cooldown' = [cooldown EXCEPT ![resv[r][n].agent] = RonaCooldown]
           /\ Resume(r, "timeout", Resolve(r, n, "timeout"),
                     Release(slots, <<r, n>>), timers \ {t})
    /\ UNCHANGED <<agent, connected>>

FireWait(t) ==
    /\ t.kind = "wait"
    /\ Due(t.due)
    /\ Current(t)
    /\ Resume(t.route, "", resv[t.route], slots, timers \ {t})
    /\ UNCHANGED <<agent, connected, cooldown>>

\* Both sweeps of the worker's tick: holds whose offer elapsed, and slots whose
\* reservation is no longer on offer or accepted.
Reclaimable(slot) ==
    /\ slot.holder # Null
    /\ \/ slot.hold # Null /\ Past(slot.hold)
       \/ resv[slot.holder[1]][slot.holder[2]].state \notin {"offered", "accepted"}

SweepCapacity ==
    /\ \E a \in Agents, k \in SlotNos : Reclaimable(slots[a][k])
    /\ slots' = [a \in Agents |-> [k \in SlotNos |->
           IF Reclaimable(slots[a][k]) THEN FreeSlot ELSE slots[a][k]]]
    /\ UNCHANGED <<route, resv, timers, agent, connected, cooldown>>

-----------------------------------------------------------------------------
(* The matcher *)

Matchable(a) == /\ a \in connected
                /\ agent[a].status = "Ready"
                /\ Due(cooldown[a])

Claimable(r, a) == /\ route[r].status = "waiting_match"
                   /\ Ahead(route[r].deadline)
                   /\ a \notin route[r].excluded

\* The attempt number the matcher gives its offer to route r.
NextAttempt(r) == route[r].match_attempt_seq + 1

\* What ux_reservations_route_attempt and ux_reservations_route_active admit.
Insertable(r, attempt) == /\ attempt \notin Attempts(r)
                          /\ ~HasActive(resv[r])

\* Bug: the offer rings its full time however little the queue has left.
UnclampedWindow(r) == OfferTimeout

\* The matcher rings no longer than the route may stay queued.
OfferWindow(r) ==
    IF route[r].deadline < OfferTimeout THEN route[r].deadline ELSE OfferTimeout

MatcherOffer(r, a) ==
    /\ MatcherEnabled
    /\ Matchable(a)
    /\ Claimable(r, a)
    /\ FreeSlots(slots, a) # {}
    /\ Insertable(r, NextAttempt(r))
    /\ LET attempt == NextAttempt(r)
           ttl     == OfferWindow(r)
       IN
       /\ route' = [route EXCEPT ![r] =
              [Suspended(@, @.cursor, attempt) EXCEPT !.match_attempt_seq = attempt]]
       /\ resv' = [resv EXCEPT ![r] = Append(@, Offer(a, ttl))]
       /\ slots' = Acquire(slots, a, <<r, attempt>>, ttl)
       /\ timers' = timers \cup
              {ReservationTimer(r, attempt, route[r].run_seq + 1, ttl)}
    /\ UNCHANGED <<agent, connected, cooldown>>

\* Bug: the SLA sweep takes any route whose deadline passed, queued or not.
FallbackWhileRinging(r) ==
    /\ MatcherEnabled
    /\ route[r].deadline # Null
    /\ Due(route[r].deadline)
    /\ Resume(r, "no_candidate", resv[r], slots, timers)
    /\ UNCHANGED <<agent, connected, cooldown>>

FallbackExpiredRoute(r) ==
    /\ MatcherEnabled
    /\ route[r].status = "waiting_match"
    /\ Due(route[r].deadline)
    /\ Resume(r, "no_candidate", resv[r], slots, timers)
    /\ UNCHANGED <<agent, connected, cooldown>>

-----------------------------------------------------------------------------
(* Agents, connections and time *)

\* The agent-initiated edges; NotReady stands for Break and Offline as well.
Matrix == {<<"NotReady", "Ready">>, <<"Ready", "NotReady">>,
           <<"WrapUp", "Ready">>, <<"WrapUp", "NotReady">>}

Statuses == {"NotReady", "Ready", "Engaged", "WrapUp"}

\* A patch never sets wrapup_until.
PatchAgentStatus(a, to) ==
    /\ ForcedPatches \/ <<agent[a].status, to>> \in Matrix
    /\ agent' = [agent EXCEPT ![a] = [status |-> to, until |-> Null]]
    /\ UNCHANGED <<route, resv, slots, timers, connected, cooldown>>

\* Every wrap-up that has an end was begun by a completion, which leaves no
\* post_interaction_state: the agent goes NotReady.
ExpireWrapUp(a) ==
    /\ agent[a].status = "WrapUp"
    /\ agent[a].until # Null
    /\ Past(agent[a].until)
    /\ agent' = [agent EXCEPT ![a] = [status |-> "NotReady", until |-> Null]]
    /\ UNCHANGED <<route, resv, slots, timers, connected, cooldown>>

Connect(a) ==
    /\ a \notin connected
    /\ connected' = connected \cup {a}
    /\ UNCHANGED <<route, resv, slots, timers, agent, cooldown>>

Disconnect(a) ==
    /\ a \in connected
    /\ connected' = connected \ {a}
    /\ UNCHANGED <<route, resv, slots, timers, agent, cooldown>>

Tick ==
    /\ route' = [r \in Routes |-> [route[r] EXCEPT !.deadline = Pass(@)]]
    /\ resv' = [r \in Routes |->
           [n \in Attempts(r) |-> [resv[r][n] EXCEPT !.ttl = Pass(@)]]]
    /\ slots' = [a \in Agents |->
           [k \in SlotNos |-> [slots[a][k] EXCEPT !.hold = PassBy(@)]]]
    /\ timers' = {[t EXCEPT !.due = Pass(@)] : t \in timers}
    /\ agent' = [a \in Agents |-> [agent[a] EXCEPT !.until = PassBy(@)]]
    /\ cooldown' = [a \in Agents |-> Pass(cooldown[a])]
    /\ UNCHANGED connected

-----------------------------------------------------------------------------
Init ==
    /\ route = [r \in Routes |-> NoRoute]
    /\ resv = [r \in Routes |-> <<>>]
    /\ slots = [a \in Agents |-> [k \in SlotNos |-> FreeSlot]]
    /\ timers = {}
    /\ agent = [a \in Agents |-> [status |-> "NotReady", until |-> Null]]
    /\ connected = {}
    /\ cooldown = [a \in Agents |-> 0]

Next ==
    \/ \E r \in Routes : CreateUnboundRoute(r)
    \/ \E r \in Routes : CreateRouteRequest(r)
    \/ \E r \in Routes : \E n \in Attempts(r) : AcceptReservation(r, n)
    \/ \E r \in Routes : \E n \in Attempts(r) : RejectReservation(r, n)
    \/ \E r \in Routes : \E n \in Attempts(r) : CompleteReservation(r, n)
    \/ \E r \in Routes : SubmitRouteInput(r)
    \/ \E t \in timers : DropStaleTimer(t)
    \/ \E t \in timers : FireReservationTimeout(t)
    \/ \E t \in timers : FireWait(t)
    \/ SweepCapacity
    \/ \E r \in Routes, a \in Agents : MatcherOffer(r, a)
    \/ \E r \in Routes : FallbackExpiredRoute(r)
    \/ \E a \in Agents, to \in Statuses : PatchAgentStatus(a, to)
    \/ \E a \in Agents : ExpireWrapUp(a)
    \/ \E a \in Agents : Connect(a)
    \/ \E a \in Agents : Disconnect(a)
    \/ Tick

Spec == Init /\ [][Next]_vars

-----------------------------------------------------------------------------
(* Types *)

Countdown(n) == 0..n

RouteStatuses == {"none", "waiting", "waiting_match"} \cup Terminal

RouteRow ==
    [status : RouteStatuses, run_seq : Nat, cursor : 0..Len(Flow),
     current : Nat \cup {Null},
     match_attempt_seq : Nat, excluded : SUBSET Agents,
     deadline : Countdown(MatchDeadline) \cup {Null}]

Reservation ==
    [agent : Agents, state : Active \cup Resolved, ttl : Countdown(OfferTimeout) \cup {Null}]

SlotRow ==
    [holder : (Routes \X Nat) \cup {Null},
     hold : -1..OfferTimeout \cup {Null}]

SlotTable == [Agents -> [SlotNos -> SlotRow]]

Timer ==
    [kind : {"reservation_timeout", "wait"}, route : Routes,
     attempt : Nat \cup {Null}, seq : Nat, due : Nat]

AgentRow ==
    [status : Statuses, until : -1..WrapUpTime \cup {Null}]

\* Every variable holds rows of its table's shape.
TypeOK ==
    /\ route \in [Routes -> RouteRow]
    /\ resv \in [Routes -> Seq(Reservation)]
    /\ slots \in SlotTable
    /\ timers \subseteq Timer
    /\ agent \in [Agents -> AgentRow]
    /\ connected \subseteq Agents
    /\ cooldown \in [Agents -> Countdown(RonaCooldown)]

-----------------------------------------------------------------------------
(* Safety *)

\* A reservation is on offer exactly while its route is parked on it.  An offer
\* no route waits for could be neither accepted nor timed out; a route parked on
\* a resolved reservation would refuse every answer and every input.
OfferIsParked ==
    \A r \in Routes : \A n \in Attempts(r) :
        resv[r][n].state = "offered"
            <=> route[r].status = "waiting" /\ route[r].current = n

ArmedTimers(r) == {t \in timers : t.route = r /\ Current(t)}

\* A parked route has one timer that can still lock it, for the very park it is
\* in: run_seq fences every older one out, and no park is left without one.
ParkIsArmed ==
    \A r \in Routes : route[r].status = "waiting" =>
        \E t \in timers :
            /\ ArmedTimers(r) = {t}
            /\ t.attempt = route[r].current
            /\ IF t.attempt = Null
               THEN t.kind = "wait"
               ELSE /\ t.kind = "reservation_timeout"
                    /\ t.attempt \in Attempts(r)
                    /\ t.due = resv[r][t.attempt].ttl

Holds(a, k, r, n) == slots[a][k].holder = <<r, n>>

\* A slot is held for a reservation of its own agent: as a pending hold while it
\* is on offer, with the offer's own expiry, and confirmed once it is accepted.
SlotFollowsReservation ==
    \A a \in Agents, k \in SlotNos : slots[a][k].holder # Null =>
        LET r == slots[a][k].holder[1]
            n == slots[a][k].holder[2]
        IN  /\ n \in Attempts(r)
            /\ resv[r][n].agent = a
            /\ IF slots[a][k].hold = Null
               THEN resv[r][n].state = "accepted"
               ELSE /\ resv[r][n].state = "offered"
                    /\ resv[r][n].ttl =
                           IF Past(slots[a][k].hold) THEN 0 ELSE slots[a][k].hold

\* No sweep, release or later offer takes the slot of a live interaction or of an
\* offer that can still be accepted, so an accept in time always finds its hold.
LiveKeepsSlot ==
    \A r \in Routes : \A n \in Attempts(r) :
        (\/ resv[r][n].state = "accepted"
         \/ resv[r][n].state = "offered" /\ Ahead(resv[r][n].ttl))
        => \E k \in SlotNos : Holds(resv[r][n].agent, k, r, n)

LiveInteractions(a) ==
    UNION {{<<r, n>> : n \in {m \in Attempts(r) : /\ resv[r][m].agent = a
                                                  /\ resv[r][m].state = "accepted"}}
           : r \in Routes}

\* An agent never has more live interactions than the channel's capacity, and no
\* interaction takes two slots: the slot table is the double-booking guard.
CapacityRespected ==
    \A a \in Agents :
        /\ Cardinality(LiveInteractions(a)) <= Capacity
        /\ \A j, k \in SlotNos :
               (/\ slots[a][j].holder # Null
                /\ slots[a][j].holder = slots[a][k].holder) => j = k

\* An agent who rejected or missed an offer of a route is not asked again for the
\* same route, by the inline re-offer or by the matcher's later claim.
NoRepeatedOffer ==
    \A r \in Routes : \A m, n \in Attempts(r) :
        resv[r][m].agent = resv[r][n].agent => m = n

\* A route has at most one reservation that is on offer or won.
OneWinner ==
    \A r \in Routes : \A m, n \in Attempts(r) :
        (resv[r][m].state \in Active /\ resv[r][n].state \in Active) => m = n

\* An offer the matcher makes does not outlive the deadline at which the route
\* leaves the queue for its fallback.
MatcherOfferWithinDeadline ==
    \A r \in Routes : \A n \in Attempts(r) :
        (/\ resv[r][n].state = "offered"
         /\ route[r].match_attempt_seq = n)
        => resv[r][n].ttl <= route[r].deadline

\* Without force, an agent is Engaged only while it has a live interaction.
EngagedServes ==
    ForcedPatches \/ \A a \in Agents : agent[a].status = "Engaged" =>
        \E r \in Routes : a \in AgentsIn(resv[r], {"accepted"})

-----------------------------------------------------------------------------
(* What a step may never do *)

Legal == {<<"offered", "accepted">>, <<"offered", "rejected">>,
          <<"offered", "timeout">>, <<"accepted", "completed">>}

\* A reservation keeps its attempt number and agent, and only moves along the
\* legal transitions: competing outcomes never overwrite one another.
ReservationLifecycle ==
    [][\A r \in Routes : \A n \in Attempts(r) :
         /\ n \in 1..Len(resv'[r])
         /\ resv'[r][n].agent = resv[r][n].agent
         /\ \/ resv'[r][n].state = resv[r][n].state
            \/ <<resv[r][n].state, resv'[r][n].state>> \in Legal]_vars

\* A late timer, answer or claim never reopens a route that has ended.
TerminalIsFinal ==
    [][\A r \in Routes : route[r].status \in Terminal =>
         /\ route'[r].status = route[r].status
         /\ Len(resv'[r]) = Len(resv[r])]_vars

-----------------------------------------------------------------------------
(***************************************************************************)
(* Progress.  The runtime process runs the worker, the sweep and the       *)
(* matcher's fallback on every tick of its loop, so what stays enabled of  *)
(* them is done; agents and callers owe nothing.                           *)
(***************************************************************************)
WorkerFires(r) ==
    \E t \in timers : /\ t.route = r
                      /\ \/ DropStaleTimer(t)
                         \/ FireReservationTimeout(t)
                         \/ FireWait(t)

Fairness ==
    /\ WF_vars(Tick)
    /\ WF_vars(SweepCapacity)
    /\ \A r \in Routes : /\ WF_vars(WorkerFires(r))
                         /\ WF_vars(FallbackExpiredRoute(r))

FairSpec == Spec /\ Fairness

\* Every route request that was taken in ends, whatever agents do.
RouteEnds ==
    \A r \in Routes :
        route[r].status # "none" ~> route[r].status \in Terminal

-----------------------------------------------------------------------------
(***************************************************************************)
(* Statements of the repository's comments and documents that this engine  *)
(* does not keep.  Each is checked by a run that expects its violation.    *)
(***************************************************************************)

\* matcher.go: "this offer's attempt number is the next one": the attempt the
\* matcher is about to use for a queued route is not taken.
NoAttemptCollision ==
    \A r \in Routes : route[r].status = "waiting_match"
                          => NextAttempt(r) \notin Attempts(r)

\* node_execute.go: "an accept signal ends the offer (accepted port)": the run
\* that an accept resumes goes on behind the reservation node.
AcceptMovesOn ==
    [][\A r \in Routes : \A n \in Attempts(r) :
         (resv[r][n].state = "offered" /\ resv'[r][n].state = "accepted")
         => \/ route'[r].status \in Terminal
            \/ route'[r].cursor > route[r].cursor]_vars

\* design.md: "an offer timeout sets the agent non-routable (Missed/RONA)": no
\* route offers to an agent who is resting after a missed offer.
MissedAgentRests ==
    [][\A r \in Routes : Len(resv'[r]) > Len(resv[r])
         => Due(cooldown[resv'[r][Len(resv'[r])].agent])]_vars
=============================================================================
