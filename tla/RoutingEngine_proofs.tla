------------------------ MODULE RoutingEngine_proofs ------------------------
(***************************************************************************)
(* Theorems about RoutingEngine, for every flow, every set of routes and   *)
(* agents, every capacity and every timing.  IInv holds initially and      *)
(* every action keeps it; the six actions that run a flow are treated by   *)
(* one lemma, FlowStep.  The safety properties follow from IInv, the       *)
(* action properties from IInv and the same lemmas about a run.            *)
(***************************************************************************)
EXTENDS RoutingInvariant, SequenceTheorems, TLAPS

-----------------------------------------------------------------------------
(* What the operators on rows and tables return *)

\* The agents of a route's reservations are agents.
LEMMA AgentsInAgents ==
    ASSUME NEW rs \in Seq(Reservation), NEW states
    PROVE  AgentsIn(rs, states) \subseteq Agents
<1>1. \A n \in DOMAIN rs : rs[n] \in Reservation
  OBVIOUS
<1>2. \A n \in DOMAIN rs : rs[n].agent \in Agents
  BY <1>1 DEF Reservation
<1> QED
  BY <1>2, Zenon DEF AgentsIn

\* A park on a timer or an offer sets the fields it names and advances the fence.
LEMMA SuspendedRow ==
    ASSUME NEW row \in RouteRow, NEW n \in 0..Len(Flow),
           NEW reservation \in Nat \cup {Null}
    PROVE  /\ Suspended(row, n, reservation) \in RouteRow
           /\ Suspended(row, n, reservation).status = "waiting"
           /\ Suspended(row, n, reservation).current = reservation
           /\ Suspended(row, n, reservation).run_seq = row.run_seq + 1
           /\ Suspended(row, n, reservation).match_attempt_seq = row.match_attempt_seq
<1> DEFINE status == "waiting"
           seq    == row.run_seq + 1
           new    == [row EXCEPT !.status = status, !.cursor = n,
                                 !.current = reservation, !.run_seq = seq]
<1>1. status \in RouteStatuses
  BY DEF RouteStatuses
<1>2. seq \in Nat
  BY DEF RouteRow
<1>3. Suspended(row, n, reservation) = new
  BY DEF Suspended
<1> HIDE DEF status, seq
<1>4. /\ new \in RouteRow
      /\ new.status = status /\ new.current = reservation /\ new.run_seq = seq
      /\ new.match_attempt_seq = row.match_attempt_seq
  BY <1>1, <1>2 DEF RouteRow
<1> QED
  BY <1>3, <1>4 DEF status, seq

\* A route that queues excludes exactly the agents of its resolved offers.
LEMMA QueuedRow ==
    ASSUME NEW row \in RouteRow, NEW n \in 0..Len(Flow),
           NEW rs \in Seq(Reservation)
    PROVE  /\ Queued(row, n, rs) \in RouteRow
           /\ Queued(row, n, rs).status = "waiting_match"
           /\ Queued(row, n, rs).excluded = AgentsIn(rs, Resolved)
           /\ Queued(row, n, rs).deadline = MatchDeadline
           /\ Queued(row, n, rs).run_seq = row.run_seq
           /\ Queued(row, n, rs).match_attempt_seq = row.match_attempt_seq
<1> DEFINE status == "waiting_match"
           asked  == AgentsIn(rs, Resolved)
           new    == [row EXCEPT !.status = status, !.cursor = n,
                                 !.excluded = asked, !.deadline = MatchDeadline]
<1>1. status \in RouteStatuses
  BY DEF RouteStatuses
<1>2. MatchDeadline \in Countdown(MatchDeadline) \cup {Null}
  BY EngineAssumption DEF Countdown
<1>3. asked \in SUBSET Agents
  BY AgentsInAgents
<1>4. Queued(row, n, rs) = new
  BY DEF Queued
<1> HIDE DEF status, asked
<1>5. /\ new \in RouteRow
      /\ new.status = status /\ new.excluded = asked
      /\ new.deadline = MatchDeadline /\ new.run_seq = row.run_seq
      /\ new.match_attempt_seq = row.match_attempt_seq
  BY <1>1, <1>2, <1>3 DEF RouteRow
<1> QED
  BY <1>4, <1>5 DEF status, asked

\* A route that ends keeps its fence and forgets what it waited for.
LEMMA FinishedRow ==
    ASSUME NEW row \in RouteRow, NEW status \in Terminal
    PROVE  /\ Finished(row, status) \in RouteRow
           /\ Finished(row, status).status = status
           /\ Finished(row, status).run_seq = row.run_seq
           /\ Finished(row, status).match_attempt_seq = row.match_attempt_seq
<1>1. status \in RouteStatuses
  BY DEF RouteStatuses
<1>2. 0 \in 0..Len(Flow)
  BY FlowAssumption
<1>3. ASSUME NEW c \in 0..Len(Flow)
      PROVE  LET new == [row EXCEPT !.status = status, !.cursor = c,
                                    !.current = Null, !.deadline = Null]
             IN  /\ new \in RouteRow
                 /\ new.status = status
                 /\ new.run_seq = row.run_seq
                 /\ new.match_attempt_seq = row.match_attempt_seq
  BY <1>1 DEF RouteRow
<1> QED
  BY <1>2, <1>3 DEF Finished

\* Resolving attempt n changes the state of n alone, and no agent.
LEMMA ResolveShape ==
    ASSUME TypeOK, NEW r \in Routes, NEW n \in Attempts(r),
           NEW state \in Active \cup Resolved
    PROVE  /\ Resolve(r, n, state) \in Seq(Reservation)
           /\ Len(Resolve(r, n, state)) = Len(resv[r])
           /\ \A i \in Attempts(r) :
                  /\ Resolve(r, n, state)[i].agent = resv[r][i].agent
                  /\ Resolve(r, n, state)[i].state =
                         IF i = n THEN state ELSE resv[r][i].state
<1> DEFINE rs == resv[r]
           new == Resolve(r, n, state)
<1>1. rs \in Seq(Reservation)
  BY DEF TypeOK
<1>2. /\ n \in 1..Len(rs)
      /\ rs[n] \in Reservation
  BY <1>1 DEF Attempts
<1>3. new = [rs EXCEPT ![n] = [[@ EXCEPT !.state = state] EXCEPT !.ttl = Null]]
  BY <1>1, <1>2 DEF Resolve, Reservation
<1>4. [[rs[n] EXCEPT !.state = state] EXCEPT !.ttl = Null] \in Reservation
  BY <1>2 DEF Reservation
<1> QED
  BY <1>1, <1>2, <1>3, <1>4 DEF Attempts, Reservation

\* An offer appended to a route's reservations is one, and leaves the others be.
LEMMA AppendedOffer ==
    ASSUME NEW rs \in Seq(Reservation), NEW a \in Agents,
           NEW ttl \in 0..OfferTimeout
    PROVE  LET new == Append(rs, Offer(a, ttl))
           IN  /\ new \in Seq(Reservation)
               /\ Len(new) = Len(rs) + 1
               /\ \A i \in 1..Len(rs) : new[i] = rs[i]
               /\ new[Len(rs) + 1].agent = a
               /\ new[Len(rs) + 1].state = "offered"
<1>1. Offer(a, ttl) \in Reservation
  BY EngineAssumption DEF Offer, Reservation, Countdown, Active, Resolved
<1>2. Offer(a, ttl).agent = a /\ Offer(a, ttl).state = "offered"
  BY DEF Offer
<1> HIDE DEF Offer
<1> QED
  BY <1>1, <1>2

\* The operators on slot tables return slot tables.
LEMMA ReleaseTable ==
    ASSUME NEW table \in SlotTable, NEW holder
    PROVE  Release(table, holder) \in SlotTable
BY DEF Release, FreeSlot, SlotTable, SlotRow

\* So does confirming a hold ...
LEMMA ConfirmTable ==
    ASSUME NEW table \in SlotTable, NEW holder
    PROVE  Confirm(table, holder) \in SlotTable
BY DEF Confirm, SlotTable, SlotRow

\* ... and acquiring one, where a slot is free.
LEMMA AcquireTable ==
    ASSUME NEW table \in SlotTable, NEW a, NEW holder \in Routes \X Nat,
           NEW hold \in 0..OfferTimeout
    PROVE  Acquire(table, a, holder, hold) \in SlotTable
<1> DEFINE k == CHOOSE k \in FreeSlots(table, a) :
                    \A j \in FreeSlots(table, a) : k <= j
           row == [holder |-> holder, hold |-> hold]
<1>1. row \in SlotRow
  BY EngineAssumption DEF SlotRow
<1> HIDE DEF k, row
<1>2. [table EXCEPT ![a][k] = row] \in SlotTable
  BY <1>1 DEF SlotTable
<1> QED
  BY <1>2 DEF Acquire, k, row

-----------------------------------------------------------------------------
(* A run of the flow *)

\* However the flow looks, a run ends the route, parks it on a timer, offers it,
\* or queues it.
LEMMA RunFlowCases ==
    ASSUME NEW r, NEW signal, NEW scripted, NEW rs, NEW table, NEW pending,
           RunFlow(r, signal, scripted, rs, table, pending)
    PROVE  \/ \E status \in Terminal : Finish(r, status, rs, table, pending)
           \/ \E n \in Parkable : ParkOnTimer(r, n, rs, table, pending)
           \/ \E n \in Offering, a \in Offerable(rs, table) :
                  OfferInline(r, n, a, rs, table, pending)
           \/ \E n \in Offering : ParkForMatch(r, n, rs, table, pending)
<1> DEFINE n == StopAt(route[r].cursor, signal, scripted)
<1>1. {"completed", "failed"} = Terminal
  BY DEF Terminal
<1>2. CASE n = End \/ GivesUp(n, route[r].cursor, signal)
  BY <1>1, <1>2 DEF RunFlow
<1>3. CASE ~(n = End \/ GivesUp(n, route[r].cursor, signal))
  BY <1>1, <1>3 DEF RunFlow
<1> QED
  BY <1>2, <1>3

\* What the handler hands to the run: typed, with no offer pending, at most one
\* winner, and no agent twice.
Settled(rs) ==
    /\ rs \in Seq(Reservation)
    /\ \A n \in 1..Len(rs) : rs[n].state # "offered"
    /\ OneActive(rs)
    /\ AskedOnce(rs)

\* A timer that a run of r adds.
Armed(t, r) ==
    /\ t \in Timer
    /\ t.route = r
    /\ t.seq = route'[r].run_seq
    /\ t.kind = "reservation_timeout" => t.attempt \in 1..Len(resv'[r])
    /\ t.kind = "wait" => route'[r].current = Null

\* A run from settled reservations leaves the route's part of the invariant true,
\* touches no other route, keeps the reservations it was given, and advances the
\* fence whenever it parks the route under a new timer.
RunFlowEffect(r, rs, pending) ==
    /\ route' \in [Routes -> RouteRow]
    /\ resv' \in [Routes -> Seq(Reservation)]
    /\ slots' \in SlotTable
    /\ RouteInv(route'[r], resv'[r])
    /\ \A q \in Routes \ {r} : route'[q] = route[q] /\ resv'[q] = resv[q]
    /\ Len(resv'[r]) >= Len(rs)
    /\ \A n \in 1..Len(rs) : resv'[r][n] = rs[n]
    /\ route'[r].run_seq >= route[r].run_seq
    /\ route'[r].match_attempt_seq = route[r].match_attempt_seq
    /\ route'[r].status = "waiting" => route'[r].run_seq > route[r].run_seq
    /\ \A t \in timers' : t \in pending \/ Armed(t, r)

\* The four ways a run ends a step have the same effect on the route: it ends ...
LEMMA FinishEffect ==
    ASSUME TypeOK, NEW r \in Routes, NEW status \in Terminal, NEW rs, Settled(rs),
           NEW table \in SlotTable, NEW pending,
           Finish(r, status, rs, table, pending)
    PROVE  RunFlowEffect(r, rs, pending)
<1> DEFINE row == Finished(route[r], status)
<1>1. /\ row \in RouteRow
      /\ row.status = status
      /\ row.run_seq = route[r].run_seq
      /\ row.match_attempt_seq = route[r].match_attempt_seq
  BY FinishedRow DEF TypeOK
<1>2. status # "waiting" /\ status # "waiting_match"
  BY DEF Terminal
<1>3. RouteInv(row, rs)
  BY <1>1, <1>2 DEF RouteInv, Parked, QueueRemembers, Settled
<1>4. /\ route' = [route EXCEPT ![r] = row]
      /\ resv' = [resv EXCEPT ![r] = rs]
      /\ slots' = table
      /\ timers' = pending
  BY DEF Finish
<1> HIDE DEF row
<1>5. /\ route'[r] = row
      /\ resv'[r] = rs
  BY <1>4 DEF TypeOK
<1>6. row.run_seq \in Nat /\ Len(rs) \in Nat
  BY <1>1 DEF RouteRow, Settled
<1> QED
  BY <1>1, <1>2, <1>3, <1>4, <1>5, <1>6 DEF TypeOK, RunFlowEffect, Settled

\* ... it queues for the matcher ...
LEMMA ParkForMatchEffect ==
    ASSUME TypeOK, NEW r \in Routes, NEW n \in Offering, NEW rs, Settled(rs),
           NEW table \in SlotTable, NEW pending,
           ParkForMatch(r, n, rs, table, pending)
    PROVE  RunFlowEffect(r, rs, pending)
<1> DEFINE row == Queued(route[r], n, rs)
<1>1. n \in 0..Len(Flow)
  BY FlowAssumption DEF Offering
<1>2. /\ row \in RouteRow
      /\ row.status = "waiting_match"
      /\ row.excluded = AgentsIn(rs, Resolved)
      /\ row.deadline = MatchDeadline
      /\ row.run_seq = route[r].run_seq
      /\ row.match_attempt_seq = route[r].match_attempt_seq
  BY <1>1, QueuedRow DEF TypeOK, Settled
<1>3. MatchDeadline # Null
  BY EngineAssumption, NullAssumption
<1>4. RouteInv(row, rs)
  BY <1>2, <1>3 DEF RouteInv, Parked, QueueRemembers, Settled
<1>5. /\ route' = [route EXCEPT ![r] = row]
      /\ resv' = [resv EXCEPT ![r] = rs]
      /\ slots' = table
      /\ timers' = pending
  BY DEF ParkForMatch
<1> HIDE DEF row
<1>6. /\ route'[r] = row
      /\ resv'[r] = rs
  BY <1>5 DEF TypeOK
<1>7. row.run_seq \in Nat /\ Len(rs) \in Nat
  BY <1>2 DEF RouteRow, Settled
<1> QED
  BY <1>2, <1>4, <1>5, <1>6, <1>7 DEF TypeOK, RunFlowEffect, Settled

\* ... it parks on a timer ...
LEMMA ParkOnTimerEffect ==
    ASSUME TypeOK, NEW r \in Routes, NEW n \in Parkable, NEW rs, Settled(rs),
           NEW table \in SlotTable, NEW pending,
           ParkOnTimer(r, n, rs, table, pending)
    PROVE  RunFlowEffect(r, rs, pending)
<1> DEFINE row == Suspended(route[r], n, Null)
           t == WaitTimer(r, route[r].run_seq + 1, WaitTime)
<1>1. /\ n \in 0..Len(Flow)
      /\ route[r] \in RouteRow
      /\ Null \in Nat \cup {Null}
  BY FlowAssumption DEF Parkable, TypeOK
<1>2. /\ row \in RouteRow
      /\ row.status = "waiting"
      /\ row.current = Null
      /\ row.run_seq = route[r].run_seq + 1
      /\ row.match_attempt_seq = route[r].match_attempt_seq
  <2> DEFINE old == route[r]
  <2>1. old \in RouteRow
    BY <1>1
  <2> HIDE DEF old
  <2>2. \A reservation \in Nat \cup {Null} :
            /\ Suspended(old, n, reservation) \in RouteRow
            /\ Suspended(old, n, reservation).status = "waiting"
            /\ Suspended(old, n, reservation).current = reservation
            /\ Suspended(old, n, reservation).run_seq = old.run_seq + 1
            /\ Suspended(old, n, reservation).match_attempt_seq = old.match_attempt_seq
    BY <1>1, <2>1, SuspendedRow
  <2> QED
    BY <1>1, <2>2 DEF old
<1>3. RouteInv(row, rs)
  <2>1. Null \notin 1..Len(rs)
    BY NullAssumption
  <2> QED
    BY <1>2, <2>1 DEF RouteInv, Parked, QueueRemembers, Settled
<1>4. /\ route' = [route EXCEPT ![r] = row]
      /\ resv' = [resv EXCEPT ![r] = rs]
      /\ slots' = table
      /\ timers' = pending \cup {t}
  BY DEF ParkOnTimer
<1>5. /\ route[r].run_seq \in Nat
      /\ Len(rs) \in Nat
  BY DEF TypeOK, RouteRow, Settled
<1>6. /\ t \in Timer
      /\ t.route = r /\ t.kind = "wait" /\ t.seq = route[r].run_seq + 1
  BY <1>5, EngineAssumption DEF WaitTimer, Timer
<1> HIDE DEF row, t
<1>7. /\ route'[r] = row
      /\ resv'[r] = rs
  BY <1>4 DEF TypeOK
<1>8. Armed(t, r)
  BY <1>2, <1>6, <1>7 DEF Armed
<1> QED
  BY <1>2, <1>3, <1>4, <1>5, <1>7, <1>8 DEF TypeOK, RunFlowEffect, Settled

\* Appending an offer to an agent not asked before, when nobody has the route.
LEMMA OfferedReservations ==
    ASSUME NEW rs, Settled(rs), ~HasActive(rs), NEW a \in Agents,
           a \notin OfferedAgents(rs), NEW ttl \in 0..OfferTimeout
    PROVE  LET new == Append(rs, Offer(a, ttl))
           IN  /\ new \in Seq(Reservation)
               /\ Len(new) = Len(rs) + 1
               /\ \A i \in 1..Len(rs) : new[i] = rs[i]
               /\ \A i \in 1..Len(new) : new[i].state = "offered" <=> i = Len(new)
               /\ OneActive(new)
               /\ AskedOnce(new)
<1> DEFINE new == Append(rs, Offer(a, ttl))
<1>1. /\ new \in Seq(Reservation)
      /\ Len(new) = Len(rs) + 1
      /\ \A i \in 1..Len(rs) : new[i] = rs[i]
      /\ new[Len(rs) + 1].agent = a
      /\ new[Len(rs) + 1].state = "offered"
  BY AppendedOffer DEF Settled
<1>2. /\ Len(rs) \in Nat
      /\ 1..Len(rs) = DOMAIN rs
  BY DEF Settled
<1> HIDE DEF new
<1>3. \A i \in 1..Len(new) : i \in 1..Len(rs) \/ i = Len(new)
  BY <1>1, <1>2
<1>4. \A i \in 1..Len(rs) : /\ new[i].agent # a
                            /\ new[i].state \notin Active
  BY <1>1, <1>2 DEF HasActive, OfferedAgents
<1>5. \A i \in 1..Len(new) : new[i].state = "offered" <=> i = Len(new)
  BY <1>1, <1>2, <1>3 DEF Settled
<1>6. OneActive(new)
  BY <1>3, <1>4 DEF OneActive
<1>7. AskedOnce(new)
  BY <1>1, <1>3, <1>4 DEF AskedOnce, Settled
<1> QED
  BY <1>1, <1>5, <1>6, <1>7 DEF new

\* ... or it parks on a new offer with its timer.
LEMMA OfferInlineEffect ==
    ASSUME TypeOK, NEW r \in Routes, NEW n \in Offering, NEW rs, Settled(rs),
           NEW table \in SlotTable, NEW pending, NEW a \in Offerable(rs, table),
           OfferInline(r, n, a, rs, table, pending)
    PROVE  RunFlowEffect(r, rs, pending)
<1> DEFINE attempt == Len(rs) + 1
           row == Suspended(route[r], n, attempt)
           new == Append(rs, Offer(a, OfferTimeout))
           t == ReservationTimer(r, attempt, route[r].run_seq + 1, OfferTimeout)
           held == Acquire(table, a, <<r, attempt>>, OfferTimeout)
<1>1. /\ n \in 0..Len(Flow)
      /\ a \in Agents
      /\ a \notin OfferedAgents(rs)
      /\ ~HasActive(rs)
  BY FlowAssumption DEF Offering, Offerable, CandidatePool, TypeOK
<1>2. /\ route[r] \in RouteRow
      /\ attempt \in Nat /\ attempt \in Nat \cup {Null}
      /\ Len(rs) \in Nat
      /\ OfferTimeout \in 0..OfferTimeout
      /\ OfferTimeout \in Nat
  BY EngineAssumption DEF Settled, TypeOK
<1>3. /\ row \in RouteRow
      /\ row.status = "waiting"
      /\ row.current = attempt
      /\ row.run_seq = route[r].run_seq + 1
      /\ row.match_attempt_seq = route[r].match_attempt_seq
  <2> DEFINE old == route[r]
  <2>1. old \in RouteRow
    BY <1>2
  <2> HIDE DEF attempt, old
  <2>2. \A reservation \in Nat \cup {Null} :
            /\ Suspended(old, n, reservation) \in RouteRow
            /\ Suspended(old, n, reservation).status = "waiting"
            /\ Suspended(old, n, reservation).current = reservation
            /\ Suspended(old, n, reservation).run_seq = old.run_seq + 1
            /\ Suspended(old, n, reservation).match_attempt_seq = old.match_attempt_seq
    BY <1>1, <2>1, SuspendedRow
  <2> QED
    BY <1>2, <2>2 DEF old
<1>4. /\ new \in Seq(Reservation)
      /\ Len(new) = attempt
      /\ \A i \in 1..Len(rs) : new[i] = rs[i]
      /\ \A i \in 1..Len(new) : new[i].state = "offered" <=> i = Len(new)
      /\ OneActive(new)
      /\ AskedOnce(new)
  BY <1>1, <1>2, OfferedReservations
<1>5. held \in SlotTable
  BY <1>2, AcquireTable
<1>6. /\ route' = [route EXCEPT ![r] = row]
      /\ resv' = [resv EXCEPT ![r] = new]
      /\ slots' = held
      /\ timers' = pending \cup {t}
  BY DEF OfferInline
<1>7. route[r].run_seq \in Nat
  BY DEF TypeOK, RouteRow
<1>8. /\ t \in Timer
      /\ t.route = r /\ t.kind = "reservation_timeout" /\ t.attempt = attempt
      /\ t.seq = route[r].run_seq + 1
  BY <1>2, <1>7 DEF ReservationTimer, Timer
<1> HIDE DEF row, t, new, held
<1>9. /\ route'[r] = row
      /\ resv'[r] = new
  BY <1>6 DEF TypeOK
<1>10. Armed(t, r)
  BY <1>2, <1>3, <1>4, <1>8, <1>9 DEF Armed
<1>11. RouteInv(row, new)
  BY <1>3, <1>4 DEF RouteInv, Parked, QueueRemembers
<1> QED
  BY <1>2, <1>3, <1>4, <1>5, <1>6, <1>7, <1>9, <1>10, <1>11
  DEF TypeOK, RunFlowEffect

\* So every run of the flow of a settled route has that effect.
LEMMA RunFlowSafe ==
    ASSUME TypeOK, NEW r \in Routes, NEW signal, NEW scripted, NEW rs, Settled(rs),
           NEW table \in SlotTable, NEW pending,
           RunFlow(r, signal, scripted, rs, table, pending)
    PROVE  RunFlowEffect(r, rs, pending)
BY RunFlowCases, FinishEffect, ParkOnTimerEffect, OfferInlineEffect,
   ParkForMatchEffect

\* The same with the rest of the invariant, for a step that runs the flow of r on
\* the route's own reservations with at most their states changed.
LEMMA FlowStep ==
    ASSUME IInv, NEW r \in Routes, NEW signal, NEW scripted, NEW rs, Settled(rs),
           Len(rs) = Len(resv[r]),
           NEW table \in SlotTable, NEW pending \in SUBSET timers,
           RunFlow(r, signal, scripted, rs, table, pending),
           agent' \in [Agents -> AgentRow],
           connected' \subseteq Agents,
           cooldown' \in [Agents -> Countdown(RonaCooldown)]
    PROVE  IInv'
<1>1. RunFlowEffect(r, rs, pending)
  BY RunFlowSafe DEF IInv
<1>2. timers' \subseteq Timer
  BY <1>1 DEF RunFlowEffect, Armed, IInv, TypeOK
<1>3. TypeOK'
  BY <1>1, <1>2 DEF RunFlowEffect, TypeOK
<1>4. ASSUME NEW q \in Routes PROVE RouteInv(route[q], resv[q])'
  BY <1>1 DEF RunFlowEffect, IInv
<1>5. ASSUME NEW q \in Routes
      PROVE  route'[q].match_attempt_seq <= Len(resv'[q])
  <2>1. /\ Len(resv'[r]) \in Nat
        /\ Len(resv[r]) \in Nat
        /\ route[r].match_attempt_seq \in Nat
    BY <1>3, SMTT(30) DEF IInv, TypeOK, RouteRow
  <2>2. route[q].match_attempt_seq <= Len(resv[q])
    BY DEF IInv
  <2>3. CASE q = r
    BY <1>1, <2>1, <2>2, <2>3 DEF RunFlowEffect
  <2>4. CASE q # r
    BY <1>1, <2>2, <2>4 DEF RunFlowEffect
  <2> QED
    BY <2>3, <2>4
<1>6. ASSUME NEW t \in timers' PROVE TimerInv(t)'
  <2>1. t \in Timer
    BY <1>2
  <2>2. CASE Armed(t, r)
    <3>1. route'[r].run_seq \in Nat
      BY <1>3 DEF TypeOK, RouteRow
    <3> QED
      BY <2>2, <3>1 DEF Armed, TimerInv, Attempts
  <2>3. CASE t \in timers
    <3>1. TimerInv(t)
      BY <2>3 DEF IInv
    <3>2. CASE t.route = r
      <4>1. /\ route[r].run_seq \in Nat
            /\ route'[r].run_seq \in Nat
            /\ t.seq \in Nat
        BY <1>3, <2>1 DEF IInv, TypeOK, RouteRow, Timer
      <4>2. /\ Len(rs) \in Nat
            /\ Len(resv'[r]) \in Nat
        BY <1>3 DEF TypeOK, Settled
      <4> QED
        BY <1>1, <3>1, <3>2, <4>1, <4>2 DEF TimerInv, RunFlowEffect, Attempts, Current
    <3>3. CASE t.route # r
      <4>1. t.route \in Routes
        BY <2>1 DEF Timer
      <4> QED
        BY <1>1, <3>1, <3>3, <4>1 DEF TimerInv, RunFlowEffect, Attempts, Current
    <3> QED
      BY <3>2, <3>3
  <2> QED
    BY <1>1, <2>2, <2>3 DEF RunFlowEffect
<1> QED
  BY <1>3, <1>4, <1>5, <1>6 DEF IInv

-----------------------------------------------------------------------------
(* What a handler or a sweep finds before it runs the flow *)

\* Answering or timing out the offer a route is parked on settles the route.
LEMMA OfferResolved ==
    ASSUME IInv, NEW r \in Routes, NEW n, OnOffer(r, n),
           NEW state \in {"accepted", "rejected", "timeout"}
    PROVE  /\ Settled(Resolve(r, n, state))
           /\ Len(Resolve(r, n, state)) = Len(resv[r])
<1> DEFINE rs == Resolve(r, n, state)
<1>1. /\ n \in Attempts(r)
      /\ route[r].current = n
      /\ resv[r][n].state = "offered"
      /\ state \in Active \cup Resolved
      /\ state # "offered"
      /\ "offered" \in Active
  BY DEF OnOffer, Active, Resolved
<1>2. /\ rs \in Seq(Reservation)
      /\ Len(rs) = Len(resv[r])
      /\ \A i \in Attempts(r) :
             /\ rs[i].agent = resv[r][i].agent
             /\ rs[i].state = IF i = n THEN state ELSE resv[r][i].state
  BY <1>1, ResolveShape DEF IInv
<1>3. RouteInv(route[r], resv[r])
  BY DEF IInv
<1> HIDE DEF rs
<1>4. \A i \in Attempts(r) : rs[i].state # "offered"
  BY <1>1, <1>2, <1>3 DEF RouteInv, Parked, Attempts
<1>5. OneActive(rs)
  BY <1>1, <1>2, <1>3 DEF RouteInv, OneActive, Attempts
<1>6. AskedOnce(rs)
  BY <1>2, <1>3 DEF RouteInv, AskedOnce, Attempts
<1> QED
  BY <1>2, <1>4, <1>5, <1>6 DEF Settled, Attempts, rs

\* A route that is not parked on an offer has none.
LEMMA NothingOffered ==
    ASSUME IInv, NEW r \in Routes,
           route[r].status # "waiting" \/ route[r].current = Null
    PROVE  Settled(resv[r])
<1>1. resv[r] \in Seq(Reservation)
  BY DEF IInv, TypeOK
<1>2. RouteInv(route[r], resv[r])
  BY DEF IInv
<1>3. Null \notin 1..Len(resv[r])
  BY NullAssumption
<1> QED
  BY <1>1, <1>2, <1>3 DEF Settled, RouteInv, Parked

-----------------------------------------------------------------------------
(* Every action keeps the invariant *)

\* Empty tables satisfy the invariant, whatever the agents' states are.
LEMMA EmptyTables ==
    ASSUME route = [r \in Routes |-> NoRoute],
           resv = [r \in Routes |-> <<>>],
           slots = [a \in Agents |-> [k \in SlotNos |-> FreeSlot]],
           timers = {},
           agent \in [Agents -> AgentRow],
           connected \subseteq Agents,
           cooldown = [a \in Agents |-> 0]
    PROVE  IInv
<1>1. NoRoute \in RouteRow
  <2>1. "none" \in RouteStatuses /\ 0 \in 0..Len(Flow)
    BY FlowAssumption DEF RouteStatuses
  <2> QED
    BY <2>1 DEF NoRoute, RouteRow
<1>2. \A r \in Routes : route[r] = NoRoute /\ resv[r] = <<>>
  OBVIOUS
<1>3. TypeOK
  <2>1. [a \in Agents |-> [k \in SlotNos |-> FreeSlot]] \in SlotTable
    BY DEF SlotTable, SlotRow, FreeSlot
  <2>2. 0 \in Countdown(RonaCooldown)
    BY EngineAssumption DEF Countdown
  <2>3. <<>> \in Seq(Reservation)
    OBVIOUS
  <2> QED
    BY <1>1, <2>1, <2>2, <2>3 DEF TypeOK
<1>4. ASSUME NEW r \in Routes PROVE RouteInv(route[r], resv[r])
  BY <1>2 DEF RouteInv, Parked, OneActive, AskedOnce, QueueRemembers, NoRoute
<1>5. ASSUME NEW r \in Routes PROVE route[r].match_attempt_seq <= Len(resv[r])
  BY <1>2 DEF NoRoute
<1> QED
  BY <1>2, <1>3, <1>4, <1>5 DEF IInv

LEMMA InitInv == Init => IInv
<1>1. [status |-> "NotReady", until |-> Null] \in AgentRow
  BY DEF AgentRow, Statuses
<1> QED
  BY <1>1, EmptyTables DEF Init

\* A request no flow is bound to fails at once.
LEMMA CreateUnboundRouteInv ==
    ASSUME IInv, NEW r \in Routes, CreateUnboundRoute(r)
    PROVE  IInv'
<1> DEFINE failed == "failed"
           row == [route[r] EXCEPT !.status = failed]
<1>1. /\ failed \in RouteStatuses
      /\ failed # "waiting" /\ failed # "waiting_match"
  BY DEF RouteStatuses, Terminal
<1>2. /\ route[r] \in RouteRow
      /\ Settled(resv[r])
      /\ RouteInv(route[r], resv[r])
  BY NothingOffered DEF CreateUnboundRoute, IInv, TypeOK
<1>3. route' = [route EXCEPT ![r] = row]
  BY DEF CreateUnboundRoute
<1> HIDE DEF failed
<1>4. /\ row \in RouteRow
      /\ row.status = failed
      /\ row.run_seq = route[r].run_seq
      /\ row.match_attempt_seq = route[r].match_attempt_seq
  BY <1>1, <1>2 DEF RouteRow
<1> HIDE DEF row
<1>5. RouteInv(row, resv[r])
  BY <1>1, <1>2, <1>4 DEF RouteInv, Parked, QueueRemembers, Settled
<1>6. TypeOK'
  BY <1>3, <1>4 DEF CreateUnboundRoute, IInv, TypeOK
<1>7. ASSUME NEW q \in Routes PROVE RouteInv(route[q], resv[q])'
  BY <1>3, <1>5 DEF CreateUnboundRoute, IInv, TypeOK
<1>8. ASSUME NEW t \in timers' PROVE TimerInv(t)'
  <2>1. t \in timers /\ TimerInv(t) /\ t.route \in Routes
    BY DEF CreateUnboundRoute, IInv, TypeOK, Timer
  <2> QED
    BY <1>1, <1>3, <1>4, <2>1
    DEF CreateUnboundRoute, TimerInv, Current, Attempts, IInv, TypeOK
<1>9. ASSUME NEW q \in Routes
      PROVE  route'[q].match_attempt_seq <= Len(resv'[q])
  BY <1>3, <1>4 DEF CreateUnboundRoute, IInv, TypeOK
<1> QED
  BY <1>6, <1>7, <1>8, <1>9 DEF IInv

\* A new request runs its flow on no reservations.
LEMMA CreateRouteRequestInv ==
    ASSUME IInv, NEW r \in Routes, CreateRouteRequest(r)
    PROVE  IInv'
<1>1. Settled(resv[r])
  BY NothingOffered DEF CreateRouteRequest
<1>2. timers \in SUBSET timers
  OBVIOUS
<1> QED
  BY <1>1, <1>2, FlowStep DEF CreateRouteRequest, IInv, TypeOK

\* An accepted offer settles its route, whose flow then runs.
LEMMA AcceptReservationInv ==
    ASSUME IInv, NEW r \in Routes, NEW n \in Attempts(r), AcceptReservation(r, n)
    PROVE  IInv'
<1> DEFINE rs == Resolve(r, n, "accepted")
           table == Confirm(slots, <<r, n>>)
<1>1. /\ OnOffer(r, n)
      /\ RunFlow(r, "accepted", FALSE, rs, table, timers)
  BY DEF AcceptReservation, Resume
<1>2. Settled(rs) /\ Len(rs) = Len(resv[r])
  BY <1>1, OfferResolved
<1>3. table \in SlotTable
  BY ConfirmTable DEF IInv, TypeOK
<1>4. agent' \in [Agents -> AgentRow]
  <2>1. [status |-> "Engaged", until |-> Null] \in AgentRow
    BY DEF AgentRow, Statuses
  <2> QED
    BY <2>1 DEF AcceptReservation, IInv, TypeOK
<1>5. /\ connected' \subseteq Agents
      /\ cooldown' \in [Agents -> Countdown(RonaCooldown)]
      /\ timers \in SUBSET timers
  BY DEF AcceptReservation, IInv, TypeOK
<1> HIDE DEF rs, table
<1> QED
  BY <1>1, <1>2, <1>3, <1>4, <1>5, FlowStep

\* So does a rejected one.
LEMMA RejectReservationInv ==
    ASSUME IInv, NEW r \in Routes, NEW n \in Attempts(r), RejectReservation(r, n)
    PROVE  IInv'
<1> DEFINE rs == Resolve(r, n, "rejected")
           table == Release(slots, <<r, n>>)
<1>1. /\ OnOffer(r, n)
      /\ RunFlow(r, "rejected", FALSE, rs, table, timers)
  BY DEF RejectReservation, Resume
<1>2. Settled(rs) /\ Len(rs) = Len(resv[r])
  BY <1>1, OfferResolved
<1>3. table \in SlotTable
  BY ReleaseTable DEF IInv, TypeOK
<1>4. /\ agent' \in [Agents -> AgentRow]
      /\ connected' \subseteq Agents
      /\ cooldown' \in [Agents -> Countdown(RonaCooldown)]
      /\ timers \in SUBSET timers
  BY DEF RejectReservation, IInv, TypeOK
<1> HIDE DEF rs, table
<1> QED
  BY <1>1, <1>2, <1>3, <1>4, FlowStep

\* A timer that passes the fence resolves the offer its route is parked on.
LEMMA FireReservationTimeoutInv ==
    ASSUME IInv, NEW t \in timers, FireReservationTimeout(t)
    PROVE  IInv'
<1> DEFINE r == t.route
           n == t.attempt
           rs == Resolve(r, n, "timeout")
           table == Release(slots, <<r, n>>)
           pending == timers \ {t}
<1>1. /\ r \in Routes
      /\ n \in Attempts(r)
  BY DEF FireReservationTimeout, IInv, TypeOK, Timer, TimerInv
<1>2. /\ OnOffer(r, n)
      /\ RunFlow(r, "timeout", FALSE, rs, table, pending)
  BY <1>1 DEF FireReservationTimeout, Resume, OnOffer, Current, IInv, RouteInv,
              Parked, Attempts
<1>3. Settled(rs) /\ Len(rs) = Len(resv[r])
  BY <1>1, <1>2, OfferResolved
<1>4. table \in SlotTable
  BY ReleaseTable DEF IInv, TypeOK
<1>5. cooldown' \in [Agents -> Countdown(RonaCooldown)]
  <2>1. RonaCooldown \in Countdown(RonaCooldown)
    BY EngineAssumption DEF Countdown
  <2> QED
    BY <2>1 DEF FireReservationTimeout, IInv, TypeOK
<1>6. /\ agent' \in [Agents -> AgentRow]
      /\ connected' \subseteq Agents
      /\ pending \in SUBSET timers
  BY DEF FireReservationTimeout, IInv, TypeOK
<1> HIDE DEF r, rs, table, pending
<1> QED
  BY <1>1, <1>2, <1>3, <1>4, <1>5, <1>6, FlowStep

\* A wait timer that passes the fence finds its route parked on no offer.
LEMMA FireWaitInv ==
    ASSUME IInv, NEW t \in timers, FireWait(t)
    PROVE  IInv'
<1> DEFINE r == t.route
           pending == timers \ {t}
<1>1. /\ r \in Routes
      /\ route[r].current = Null
  BY DEF FireWait, IInv, TypeOK, Timer, TimerInv
<1>2. Settled(resv[r])
  BY <1>1, NothingOffered
<1>3. /\ RunFlow(r, "", FALSE, resv[r], slots, pending)
      /\ pending \in SUBSET timers
  BY DEF FireWait, Resume
<1>4. /\ agent' \in [Agents -> AgentRow]
      /\ connected' \subseteq Agents
      /\ cooldown' \in [Agents -> Countdown(RonaCooldown)]
      /\ slots \in SlotTable
  BY DEF FireWait, IInv, TypeOK
<1> HIDE DEF r, pending
<1> QED
  BY <1>1, <1>2, <1>3, <1>4, FlowStep

\* An input is taken only by a route parked on no offer.
LEMMA SubmitRouteInputInv ==
    ASSUME IInv, NEW r \in Routes, SubmitRouteInput(r)
    PROVE  IInv'
<1>1. Settled(resv[r])
  BY NothingOffered DEF SubmitRouteInput
<1>2. timers \in SUBSET timers
  OBVIOUS
<1> QED
  BY <1>1, <1>2, FlowStep DEF SubmitRouteInput, IInv, TypeOK

\* A queued route is settled, so its fallback is a run like any other.
LEMMA FallbackExpiredRouteInv ==
    ASSUME IInv, NEW r \in Routes, FallbackExpiredRoute(r)
    PROVE  IInv'
<1>1. Settled(resv[r])
  BY NothingOffered DEF FallbackExpiredRoute
<1>2. timers \in SUBSET timers
  OBVIOUS
<1> QED
  BY <1>1, <1>2, FlowStep DEF FallbackExpiredRoute, Resume, IInv, TypeOK

\* A step that writes no route and no reservation, and adds no timer.
LEMMA BookkeepingInv ==
    ASSUME IInv, UNCHANGED <<route, resv>>, timers' \subseteq timers,
           slots' \in SlotTable,
           agent' \in [Agents -> AgentRow],
           connected' \subseteq Agents,
           cooldown' \in [Agents -> Countdown(RonaCooldown)]
    PROVE  IInv'
<1>1. TypeOK'
  BY DEF IInv, TypeOK
<1>2. ASSUME NEW t \in timers' PROVE TimerInv(t)'
  BY DEF IInv, TimerInv, Current, Attempts
<1> QED
  BY <1>1, <1>2 DEF IInv

\* Resolving a timer that lost the fence, sweeping slots, and what agents do to
\* their own states and connections touch no route.
LEMMA DropStaleTimerInv ==
    ASSUME IInv, NEW t \in timers, DropStaleTimer(t)
    PROVE  IInv'
BY BookkeepingInv DEF DropStaleTimer, IInv, TypeOK

\* The sweeps write slots only.
LEMMA SweepCapacityInv ==
    ASSUME IInv, SweepCapacity
    PROVE  IInv'
<1>1. slots' \in SlotTable
  BY DEF SweepCapacity, IInv, TypeOK, SlotTable, SlotRow, FreeSlot
<1> QED
  BY <1>1, BookkeepingInv DEF SweepCapacity, IInv, TypeOK

\* A status patch writes an agent row only.
LEMMA PatchAgentStatusInv ==
    ASSUME IInv, NEW a \in Agents, NEW to \in Statuses, PatchAgentStatus(a, to)
    PROVE  IInv'
<1>1. [status |-> to, until |-> Null] \in AgentRow
  BY DEF AgentRow
<1>2. agent' \in [Agents -> AgentRow]
  BY <1>1 DEF PatchAgentStatus, IInv, TypeOK
<1> QED
  BY <1>2, BookkeepingInv DEF PatchAgentStatus, IInv, TypeOK

\* The end of a wrap-up writes an agent row only.
LEMMA ExpireWrapUpInv ==
    ASSUME IInv, NEW a \in Agents, ExpireWrapUp(a)
    PROVE  IInv'
<1>1. [status |-> "NotReady", until |-> Null] \in AgentRow
  BY DEF AgentRow, Statuses
<1>2. agent' \in [Agents -> AgentRow]
  BY <1>1 DEF ExpireWrapUp, IInv, TypeOK
<1> QED
  BY <1>2, BookkeepingInv DEF ExpireWrapUp, IInv, TypeOK

\* A connection opened or closed writes a lease only.
LEMMA ConnectInv ==
    ASSUME IInv, NEW a \in Agents, Connect(a) \/ Disconnect(a)
    PROVE  IInv'
<1>1. connected' \subseteq Agents
  BY DEF Connect, Disconnect, IInv, TypeOK
<1> QED
  BY <1>1, BookkeepingInv DEF Connect, Disconnect, IInv, TypeOK

\* A completion turns the winner from accepted into completed: still the winner.
LEMMA CompleteReservationInv ==
    ASSUME IInv, NEW r \in Routes, NEW n \in Attempts(r), CompleteReservation(r, n)
    PROVE  IInv'
<1> DEFINE rs == Resolve(r, n, "completed")
<1>1. /\ resv' = [resv EXCEPT ![r] = rs]
      /\ resv[r][n].state = "accepted"
      /\ UNCHANGED <<route, timers, connected, cooldown>>
  BY DEF CompleteReservation
<1>2. /\ "completed" \in Active \cup Resolved
      /\ "completed" \in Active /\ "accepted" \in Active
      /\ "completed" \notin Resolved /\ "accepted" \notin Resolved
  BY DEF Active, Resolved
<1>3. /\ rs \in Seq(Reservation)
      /\ Len(rs) = Len(resv[r])
      /\ \A i \in Attempts(r) :
             /\ rs[i].agent = resv[r][i].agent
             /\ rs[i].state = IF i = n THEN "completed" ELSE resv[r][i].state
  BY <1>2, ResolveShape DEF IInv
<1> HIDE DEF rs
<1>4. /\ resv'[r] = rs
      /\ \A q \in Routes : Len(resv'[q]) = Len(resv[q])
  BY <1>1, <1>3 DEF IInv, TypeOK
<1>5. TypeOK'
  <2>1. slots' \in SlotTable
    BY ReleaseTable DEF CompleteReservation, IInv, TypeOK
  <2>2. [status |-> "WrapUp", until |-> WrapUpTime] \in AgentRow
    BY EngineAssumption DEF AgentRow, Statuses
  <2>3. agent' \in [Agents -> AgentRow]
    BY <2>2 DEF CompleteReservation, IInv, TypeOK
  <2> QED
    BY <1>1, <1>3, <2>1, <2>3 DEF IInv, TypeOK
<1>6. RouteInv(route[r], rs)
  <2>1. RouteInv(route[r], resv[r])
    BY DEF IInv
  <2>2. AgentsIn(rs, Resolved) = AgentsIn(resv[r], Resolved)
    <3>1. DOMAIN rs = Attempts(r) /\ DOMAIN resv[r] = Attempts(r)
      BY <1>3 DEF Attempts, IInv, TypeOK
    <3>2. {i \in DOMAIN rs : rs[i].state \in Resolved}
              = {i \in DOMAIN resv[r] : resv[r][i].state \in Resolved}
      BY <1>1, <1>2, <1>3, <3>1
    <3> QED
      BY <1>3, <3>1, <3>2 DEF AgentsIn
  <2> QED
    BY <1>1, <1>2, <1>3, <2>1, <2>2, SMTT(30)
    DEF RouteInv, Parked, OneActive, AskedOnce, QueueRemembers, Attempts
<1>7. ASSUME NEW q \in Routes PROVE RouteInv(route[q], resv[q])'
  BY <1>1, <1>4, <1>6 DEF IInv, TypeOK
<1>8. ASSUME NEW q \in Routes
      PROVE  route'[q].match_attempt_seq <= Len(resv'[q])
  BY <1>1, <1>4 DEF IInv
<1>9. ASSUME NEW t \in timers' PROVE TimerInv(t)'
  BY <1>1, <1>4 DEF IInv, TypeOK, Timer, TimerInv, Current, Attempts
<1> QED
  BY <1>5, <1>7, <1>8, <1>9 DEF IInv

\* The matcher's offer: its attempt is the next one, and its agent was not asked,
\* for the queue excludes everyone who was.
LEMMA MatcherOfferInv ==
    ASSUME IInv, NEW r \in Routes, NEW a \in Agents, MatcherOffer(r, a)
    PROVE  IInv'
<1> DEFINE attempt == NextAttempt(r)
           ttl  == OfferWindow(r)
           rs   == resv[r]
           new  == Append(rs, Offer(a, ttl))
           held == Acquire(slots, a, <<r, attempt>>, ttl)
           park == Suspended(route[r], route[r].cursor, attempt)
           row  == [park EXCEPT !.match_attempt_seq = attempt]
           t    == ReservationTimer(r, attempt, route[r].run_seq + 1, ttl)
<1>1. /\ route[r].status = "waiting_match"
      /\ RouteInv(route[r], rs)
      /\ route[r] \in RouteRow
      /\ rs \in Seq(Reservation)
      /\ Len(rs) \in Nat
  BY DEF MatcherOffer, Claimable, IInv, TypeOK
<1>2. Settled(rs)
  BY <1>1, NothingOffered
<1>3. /\ attempt = Len(rs) + 1
      /\ attempt \in Nat
  BY <1>1, SMTT(30) DEF MatcherOffer, Insertable, NextAttempt, Attempts, IInv, RouteRow
<1>4. ttl \in 0..OfferTimeout
  <2>1. route[r].deadline \in 0..MatchDeadline
    BY <1>1 DEF RouteInv, QueueRemembers, RouteRow, Countdown
  <2> QED
    BY <2>1, EngineAssumption DEF OfferWindow
<1>5. ~HasActive(rs)
  BY DEF MatcherOffer, Insertable
<1>6. a \notin OfferedAgents(rs)
  <2>1. a \notin AgentsIn(rs, Resolved)
    BY <1>1 DEF MatcherOffer, Claimable, RouteInv, QueueRemembers
  <2>2. \A i \in DOMAIN rs : rs[i].state \in Resolved
    <3>1. \A i \in DOMAIN rs : rs[i] \in Reservation
      BY <1>1
    <3> QED
      BY <1>5, <3>1 DEF HasActive, Reservation
  <2>3. {i \in DOMAIN rs : rs[i].state \in Resolved} = DOMAIN rs
    BY <2>2
  <2> QED
    BY <2>1, <2>3 DEF AgentsIn, OfferedAgents
<1>7. /\ new \in Seq(Reservation)
      /\ Len(new) = Len(rs) + 1
      /\ \A i \in 1..Len(new) : new[i].state = "offered" <=> i = Len(new)
      /\ OneActive(new)
      /\ AskedOnce(new)
  BY <1>2, <1>4, <1>5, <1>6, OfferedReservations
<1>8. /\ row \in RouteRow
      /\ row.status = "waiting"
      /\ row.current = attempt
      /\ row.run_seq = route[r].run_seq + 1
      /\ row.match_attempt_seq = attempt
  <2>1. /\ route[r].cursor \in 0..Len(Flow)
        /\ attempt \in Nat \cup {Null}
    BY <1>1, <1>3 DEF RouteRow
  <2>2. /\ park \in RouteRow
        /\ park.status = "waiting"
        /\ park.current = attempt
        /\ park.run_seq = route[r].run_seq + 1
    <3> DEFINE old == route[r]
    <3>1. old \in RouteRow
      BY <1>1
    <3> HIDE DEF attempt, old
    <3>2. \A cursor \in 0..Len(Flow), reservation \in Nat \cup {Null} :
              /\ Suspended(old, cursor, reservation) \in RouteRow
              /\ Suspended(old, cursor, reservation).status = "waiting"
              /\ Suspended(old, cursor, reservation).current = reservation
              /\ Suspended(old, cursor, reservation).run_seq = old.run_seq + 1
      BY <3>1, SuspendedRow
    <3> QED
      BY <2>1, <3>2 DEF old
  <2> HIDE DEF park, attempt
  <2> QED
    BY <1>3, <2>2 DEF RouteRow
<1>9. held \in SlotTable
  <2>1. <<r, attempt>> \in Routes \X Nat
    BY <1>3
  <2> QED
    BY <1>4, <2>1, AcquireTable DEF IInv, TypeOK
<1>10. /\ t \in Timer
       /\ t.route = r /\ t.kind = "reservation_timeout" /\ t.attempt = attempt
       /\ t.seq = route[r].run_seq + 1
  <2>1. route[r].run_seq + 1 \in Nat /\ ttl \in Nat
    BY <1>1, <1>4 DEF RouteRow
  <2> QED
    BY <1>3, <2>1 DEF ReservationTimer, Timer
<1>11. /\ route' = [route EXCEPT ![r] = row]
       /\ resv' = [resv EXCEPT ![r] = new]
       /\ slots' = held
       /\ timers' = timers \cup {t}
       /\ UNCHANGED <<agent, connected, cooldown>>
  BY DEF MatcherOffer
<1> HIDE DEF row, new, held, t, attempt, ttl
<1>12. TypeOK'
  BY <1>7, <1>8, <1>9, <1>10, <1>11 DEF IInv, TypeOK
<1>13. /\ route'[r] = row
       /\ resv'[r] = new
       /\ \A q \in Routes \ {r} : route'[q] = route[q] /\ resv'[q] = resv[q]
  BY <1>11 DEF IInv, TypeOK
<1>14. RouteInv(row, new)
  BY <1>3, <1>7, <1>8 DEF RouteInv, Parked, QueueRemembers
<1>15. ASSUME NEW q \in Routes PROVE RouteInv(route[q], resv[q])'
  BY <1>13, <1>14 DEF IInv
<1>16. ASSUME NEW q \in Routes
       PROVE  route'[q].match_attempt_seq <= Len(resv'[q])
  BY <1>3, <1>7, <1>8, <1>13 DEF IInv
<1>17. ASSUME NEW u \in timers' PROVE TimerInv(u)'
  <2>1. route[r].run_seq \in Nat
    BY <1>1 DEF RouteRow
  <2>2. CASE u = t
    BY <1>1, <1>3, <1>7, <1>8, <1>10, <1>13, <2>1, <2>2, SMTT(30) DEF TimerInv, Attempts
  <2>3. CASE u \in timers
    <3>1. /\ TimerInv(u)
          /\ u.route \in Routes
          /\ u.seq \in Nat
      BY <2>3 DEF IInv, TypeOK, Timer
    <3>2. CASE u.route = r
      BY <1>1, <1>7, <1>8, <1>13, <2>1, <3>1, <3>2 DEF TimerInv, Attempts, Current
    <3>3. CASE u.route # r
      BY <1>13, <3>1, <3>3 DEF TimerInv, Attempts, Current
    <3> QED
      BY <3>2, <3>3
  <2> QED
    BY <1>11, <2>2, <2>3
<1> QED
  BY <1>12, <1>15, <1>16, <1>17 DEF IInv

\* A countdown that a tick passes stays in its range.
LEMMA PassRange ==
    ASSUME NEW n \in Nat, NEW x \in Countdown(n) \cup {Null}
    PROVE  /\ Pass(x) \in Countdown(n) \cup {Null}
           /\ x # Null => Pass(x) \in Countdown(n)
BY NullAssumption DEF Pass, Countdown

\* A tick keeps every agent, state, status and fence, and who is in a sequence.
LEMMA TickKeeps ==
    ASSUME IInv, Tick, NEW r \in Routes
    PROVE  /\ route'[r] \in RouteRow
           /\ route'[r].status = route[r].status
           /\ route'[r].current = route[r].current
           /\ route'[r].run_seq = route[r].run_seq
           /\ route'[r].match_attempt_seq = route[r].match_attempt_seq
           /\ route'[r].excluded = route[r].excluded
           /\ route[r].deadline # Null => route'[r].deadline # Null
           /\ resv'[r] \in Seq(Reservation)
           /\ Len(resv'[r]) = Len(resv[r])
           /\ \A n \in 1..Len(resv[r]) :
                  /\ resv'[r][n].agent = resv[r][n].agent
                  /\ resv'[r][n].state = resv[r][n].state
<1>1. /\ route'[r] \in RouteRow
      /\ route'[r].status = route[r].status
      /\ route'[r].current = route[r].current
      /\ route'[r].run_seq = route[r].run_seq
      /\ route'[r].match_attempt_seq = route[r].match_attempt_seq
      /\ route'[r].excluded = route[r].excluded
      /\ route[r].deadline # Null => route'[r].deadline # Null
  <2> DEFINE d == Pass(route[r].deadline)
  <2>1. /\ route[r] \in RouteRow
        /\ route[r].deadline \in Countdown(MatchDeadline) \cup {Null}
    BY DEF IInv, TypeOK, RouteRow
  <2>2. /\ d \in Countdown(MatchDeadline) \cup {Null}
        /\ route[r].deadline # Null => d # Null
    <3>1. /\ d \in Countdown(MatchDeadline) \cup {Null}
          /\ route[r].deadline # Null => d \in Countdown(MatchDeadline)
      BY <2>1, PassRange, EngineAssumption
    <3>2. Null \notin Countdown(MatchDeadline)
      BY NullAssumption DEF Countdown
    <3> QED
      BY <3>1, <3>2
  <2>3. route'[r] = [route[r] EXCEPT !.deadline = d]
    BY DEF Tick
  <2> HIDE DEF d
  <2> QED
    BY <2>1, <2>2, <2>3 DEF RouteRow
<1>2. /\ resv'[r] \in Seq(Reservation)
      /\ Len(resv'[r]) = Len(resv[r])
      /\ \A n \in 1..Len(resv[r]) :
             /\ resv'[r][n].agent = resv[r][n].agent
             /\ resv'[r][n].state = resv[r][n].state
  <2>1. /\ resv[r] \in Seq(Reservation)
        /\ Len(resv[r]) \in Nat
    BY DEF IInv, TypeOK
  <2>2. resv'[r] = [n \in 1..Len(resv[r]) |->
                       [resv[r][n] EXCEPT !.ttl = Pass(resv[r][n].ttl)]]
    BY DEF Tick, Attempts
  <2>3. ASSUME NEW n \in 1..Len(resv[r])
        PROVE  LET new == [resv[r][n] EXCEPT !.ttl = Pass(resv[r][n].ttl)]
               IN  /\ new \in Reservation
                   /\ new.agent = resv[r][n].agent
                   /\ new.state = resv[r][n].state
    <3>1. resv[r][n] \in Reservation
      BY <2>1
    <3>2. resv[r][n].ttl \in Countdown(OfferTimeout) \cup {Null}
      BY <3>1 DEF Reservation
    <3>3. Pass(resv[r][n].ttl) \in Countdown(OfferTimeout) \cup {Null}
      BY <3>2, PassRange, EngineAssumption
    <3> QED
      BY <3>1, <3>3 DEF Reservation
  <2> QED
    BY <2>1, <2>2, <2>3
<1> QED
  BY <1>1, <1>2

\* ... and brings the end of every offer a tick nearer.
LEMMA TickRings ==
    ASSUME IInv, Tick, NEW r \in Routes, NEW n \in 1..Len(resv[r])
    PROVE  resv'[r][n].ttl = Pass(resv[r][n].ttl)
<1>1. resv[r] \in Seq(Reservation)
  BY DEF IInv, TypeOK
<1>2. resv[r][n] \in Reservation
  BY <1>1
<1>3. resv'[r][n] = [resv[r][n] EXCEPT !.ttl = Pass(resv[r][n].ttl)]
  BY DEF Tick, Attempts
<1> QED
  BY <1>2, <1>3 DEF Reservation

\* So a tick keeps the invariant.
LEMMA TickInv ==
    ASSUME IInv, Tick
    PROVE  IInv'
<1>1. ASSUME NEW n \in Nat, NEW x \in (-1..n) \cup {Null}
      PROVE  PassBy(x) \in (-1..n) \cup {Null}
  BY NullAssumption DEF PassBy
<1>2. slots' \in SlotTable
  <2>1. ASSUME NEW a \in Agents, NEW k \in SlotNos
        PROVE  [slots[a][k] EXCEPT !.hold = PassBy(slots[a][k].hold)] \in SlotRow
    <3>1. /\ slots[a][k] \in SlotRow
          /\ slots[a][k].hold \in (-1..OfferTimeout) \cup {Null}
      BY DEF IInv, TypeOK, SlotTable, SlotRow
    <3>2. PassBy(slots[a][k].hold) \in (-1..OfferTimeout) \cup {Null}
      BY <1>1, <3>1, EngineAssumption
    <3> QED
      BY <3>1, <3>2 DEF SlotRow
  <2> QED
    BY <2>1 DEF Tick, SlotTable
<1>3. ASSUME NEW t \in timers
      PROVE  LET new == [t EXCEPT !.due = Pass(t.due)]
             IN  /\ new \in Timer
                 /\ new.kind = t.kind /\ new.route = t.route
                 /\ new.attempt = t.attempt /\ new.seq = t.seq
  <2>1. t \in Timer /\ t.due \in Nat
    BY DEF IInv, TypeOK, Timer
  <2>2. Pass(t.due) \in Nat
    BY <2>1 DEF Pass
  <2> QED
    BY <2>1, <2>2 DEF Timer
<1>4. timers' \subseteq Timer
  BY <1>3 DEF Tick
<1>5. agent' \in [Agents -> AgentRow]
  <2>1. ASSUME NEW a \in Agents
        PROVE  [agent[a] EXCEPT !.until = PassBy(agent[a].until)] \in AgentRow
    <3>1. /\ agent[a] \in AgentRow
          /\ agent[a].until \in (-1..WrapUpTime) \cup {Null}
      BY DEF IInv, TypeOK, AgentRow
    <3>2. PassBy(agent[a].until) \in (-1..WrapUpTime) \cup {Null}
      BY <1>1, <3>1, EngineAssumption
    <3> QED
      BY <3>1, <3>2 DEF AgentRow
  <2> QED
    BY <2>1 DEF Tick
<1>6. cooldown' \in [Agents -> Countdown(RonaCooldown)]
  <2>1. ASSUME NEW a \in Agents
        PROVE  Pass(cooldown[a]) \in Countdown(RonaCooldown)
    <3>1. cooldown[a] \in Countdown(RonaCooldown) /\ cooldown[a] # Null
      BY NullAssumption, EngineAssumption DEF IInv, TypeOK, Countdown
    <3> QED
      BY <3>1, PassRange, EngineAssumption
  <2> QED
    BY <2>1 DEF Tick
<1>7. TypeOK'
  <2>1. /\ route' \in [Routes -> RouteRow]
        /\ resv' \in [Routes -> Seq(Reservation)]
        /\ connected' \subseteq Agents
    BY TickKeeps DEF Tick, IInv, TypeOK
  <2> QED
    BY <1>2, <1>4, <1>5, <1>6, <2>1 DEF TypeOK
<1>8. ASSUME NEW r \in Routes PROVE RouteInv(route[r], resv[r])'
  <2>1. RouteInv(route[r], resv[r])
    BY DEF IInv
  <2>2. AgentsIn(resv'[r], Resolved) = AgentsIn(resv[r], Resolved)
    <3>1. DOMAIN resv'[r] = 1..Len(resv[r]) /\ DOMAIN resv[r] = 1..Len(resv[r])
      BY TickKeeps DEF IInv, TypeOK
    <3>2. {i \in DOMAIN resv'[r] : resv'[r][i].state \in Resolved}
              = {i \in DOMAIN resv[r] : resv[r][i].state \in Resolved}
      BY <3>1, TickKeeps
    <3> QED
      BY <3>1, <3>2, TickKeeps DEF AgentsIn
  <2> QED
    BY <2>1, <2>2, TickKeeps
    DEF RouteInv, Parked, OneActive, AskedOnce, QueueRemembers
<1>9. ASSUME NEW r \in Routes
       PROVE  route'[r].match_attempt_seq <= Len(resv'[r])
  BY TickKeeps DEF IInv
<1>10. ASSUME NEW u \in timers' PROVE TimerInv(u)'
  <2>1. PICK t \in timers : u = [t EXCEPT !.due = Pass(t.due)]
    BY DEF Tick
  <2>2. /\ u.kind = t.kind /\ u.route = t.route
        /\ u.attempt = t.attempt /\ u.seq = t.seq
        /\ t.route \in Routes
        /\ TimerInv(t)
    BY <1>3, <2>1 DEF IInv, TypeOK, Timer
  <2> QED
    BY <2>2, TickKeeps DEF TimerInv, Current, Attempts
<1> QED
  BY <1>7, <1>8, <1>9, <1>10 DEF IInv

\* Every step keeps the invariant: one case per action of Next.
LEMMA NextInv == IInv /\ [Next]_vars => IInv'
<1> SUFFICES ASSUME IInv, [Next]_vars PROVE IInv'
  OBVIOUS
<1>1. CASE UNCHANGED vars
  BY <1>1, BookkeepingInv DEF vars, IInv, TypeOK
<1>2. ASSUME NEW r \in Routes, CreateUnboundRoute(r) PROVE IInv'
  BY <1>2, CreateUnboundRouteInv
<1>3. ASSUME NEW r \in Routes, CreateRouteRequest(r) PROVE IInv'
  BY <1>3, CreateRouteRequestInv
<1>4. ASSUME NEW r \in Routes, NEW n \in Attempts(r), AcceptReservation(r, n)
      PROVE  IInv'
  BY <1>4, AcceptReservationInv
<1>5. ASSUME NEW r \in Routes, NEW n \in Attempts(r), RejectReservation(r, n)
      PROVE  IInv'
  BY <1>5, RejectReservationInv
<1>6. ASSUME NEW r \in Routes, NEW n \in Attempts(r), CompleteReservation(r, n)
      PROVE  IInv'
  BY <1>6, CompleteReservationInv
<1>7. ASSUME NEW r \in Routes, SubmitRouteInput(r) PROVE IInv'
  BY <1>7, SubmitRouteInputInv
<1>8. ASSUME NEW t \in timers, DropStaleTimer(t) PROVE IInv'
  BY <1>8, DropStaleTimerInv
<1>9. ASSUME NEW t \in timers, FireReservationTimeout(t) PROVE IInv'
  BY <1>9, FireReservationTimeoutInv
<1>10. ASSUME NEW t \in timers, FireWait(t) PROVE IInv'
  BY <1>10, FireWaitInv
<1>11. CASE SweepCapacity
  BY <1>11, SweepCapacityInv
<1>12. ASSUME NEW r \in Routes, NEW a \in Agents, MatcherOffer(r, a) PROVE IInv'
  BY <1>12, MatcherOfferInv
<1>13. ASSUME NEW r \in Routes, FallbackExpiredRoute(r) PROVE IInv'
  BY <1>13, FallbackExpiredRouteInv
<1>14. ASSUME NEW a \in Agents, NEW to \in Statuses, PatchAgentStatus(a, to)
       PROVE  IInv'
  BY <1>14, PatchAgentStatusInv
<1>15. ASSUME NEW a \in Agents, ExpireWrapUp(a) PROVE IInv'
  BY <1>15, ExpireWrapUpInv
<1>16. ASSUME NEW a \in Agents, Connect(a) \/ Disconnect(a) PROVE IInv'
  BY <1>16, ConnectInv
<1>17. CASE Tick
  BY <1>17, TickInv
<1> QED
  BY <1>1, <1>2, <1>3, <1>4, <1>5, <1>6, <1>7, <1>8, <1>9, <1>10, <1>11, <1>12,
     <1>13, <1>14, <1>15, <1>16, <1>17 DEF Next

\* The tables agree with each other in every reachable state.
THEOREM Invariance == Spec => []IInv
<1> QED
  BY InitInv, NextInv, PTL DEF Spec

-----------------------------------------------------------------------------
(* What the invariant says of the code *)

\* Every row has its table's shape whatever the flow, the agents and the timing.
THEOREM TypeCorrect == Spec => []TypeOK
<1>1. IInv => TypeOK
  BY DEF IInv
<1> QED
  BY <1>1, Invariance, PTL

\* A reservation is on offer exactly while its route is parked on it: no answer,
\* timeout or claim leaves an offer that no route waits for.
THEOREM OffersAreParked == Spec => []OfferIsParked
<1>1. IInv => OfferIsParked
  BY DEF IInv, RouteInv, Parked, OfferIsParked, Attempts
<1> QED
  BY <1>1, Invariance, PTL

\* A route never has two reservations on offer or won, however inline offers,
\* matcher offers, replays of the flow and timeouts interleave.
THEOREM OneWinnerPerRoute == Spec => []OneWinner
<1>1. IInv => OneWinner
  BY DEF IInv, RouteInv, OneActive, OneWinner, Attempts
<1> QED
  BY <1>1, Invariance, PTL

\* No agent is offered the same route twice.
THEOREM NoAgentAskedTwice == Spec => []NoRepeatedOffer
<1>1. IInv => NoRepeatedOffer
  BY DEF IInv, RouteInv, AskedOnce, NoRepeatedOffer, Attempts
<1> QED
  BY <1>1, Invariance, PTL

-----------------------------------------------------------------------------
(* What a step may never do *)

\* Reservation n of route r keeps its agent and moves along a legal edge or none.
Keeps(r, n) ==
    /\ n \in 1..Len(resv'[r])
    /\ resv'[r][n].agent = resv[r][n].agent
    /\ \/ resv'[r][n].state = resv[r][n].state
       \/ <<resv[r][n].state, resv'[r][n].state>> \in Legal

Lawful ==
    \A r \in Routes : /\ \A n \in Attempts(r) : Keeps(r, n)
                      /\ route[r].status \in Terminal =>
                             /\ route'[r].status = route[r].status
                             /\ Len(resv'[r]) = Len(resv[r])

\* A run of the flow of a route that has not ended is lawful when the handler
\* changed the route's reservations along legal edges only.
LEMMA FlowLawful ==
    ASSUME TypeOK, NEW r \in Routes, NEW signal, NEW scripted, NEW rs, Settled(rs),
           NEW table \in SlotTable, NEW pending,
           RunFlow(r, signal, scripted, rs, table, pending),
           route[r].status \notin Terminal,
           Len(rs) = Len(resv[r]),
           \A n \in Attempts(r) :
               /\ rs[n].agent = resv[r][n].agent
               /\ \/ rs[n].state = resv[r][n].state
                  \/ <<resv[r][n].state, rs[n].state>> \in Legal
    PROVE  Lawful
<1>1. RunFlowEffect(r, rs, pending)
  BY RunFlowSafe
<1>2. /\ Len(resv[r]) \in Nat
      /\ Len(resv'[r]) \in Nat
  BY <1>1 DEF RunFlowEffect, TypeOK
<1>3. ASSUME NEW n \in Attempts(r) PROVE Keeps(r, n)
  BY <1>1, <1>2 DEF RunFlowEffect, Keeps, Attempts
<1>4. ASSUME NEW q \in Routes \ {r}
      PROVE  /\ route'[q] = route[q]
             /\ \A n \in Attempts(q) : Keeps(q, n)
             /\ resv'[q] = resv[q]
  BY <1>1 DEF RunFlowEffect, Keeps, Attempts
<1> QED
  BY <1>3, <1>4 DEF Lawful

\* An answer or a timeout takes its offer along a legal edge and runs the flow.
LEMMA AnswerLawful ==
    ASSUME IInv, NEW r \in Routes, NEW n, OnOffer(r, n), NEW signal,
           NEW state \in {"accepted", "rejected", "timeout"},
           NEW table \in SlotTable, NEW pending,
           RunFlow(r, signal, FALSE, Resolve(r, n, state), table, pending)
    PROVE  Lawful
<1> DEFINE rs == Resolve(r, n, state)
<1>1. /\ Settled(rs)
      /\ Len(rs) = Len(resv[r])
  BY OfferResolved
<1>2. /\ n \in Attempts(r)
      /\ resv[r][n].state = "offered"
      /\ route[r].status \notin Terminal
      /\ state \in Active \cup Resolved
      /\ <<"offered", state>> \in Legal
  BY DEF OnOffer, Active, Resolved, Terminal, Legal
<1>3. \A i \in Attempts(r) :
          /\ rs[i].agent = resv[r][i].agent
          /\ rs[i].state = IF i = n THEN state ELSE resv[r][i].state
  BY <1>2, ResolveShape DEF IInv
<1> HIDE DEF rs
<1>4. \A i \in Attempts(r) :
          /\ rs[i].agent = resv[r][i].agent
          /\ \/ rs[i].state = resv[r][i].state
             \/ <<resv[r][i].state, rs[i].state>> \in Legal
  BY <1>2, <1>3
<1> USE DEF rs
<1>5. RunFlow(r, signal, FALSE, rs, table, pending)
  OBVIOUS
<1> HIDE DEF rs
<1> QED
  BY <1>1, <1>2, <1>4, <1>5, FlowLawful DEF IInv

\* A step that writes no route and no reservation is lawful.
LEMMA BookkeepingLawful ==
    ASSUME UNCHANGED <<route, resv>>
    PROVE  Lawful
BY DEF Lawful, Keeps, Attempts

\* Every step is lawful: one case per action of Next.
LEMMA NextLawful == IInv /\ [Next]_vars => Lawful
<1> SUFFICES ASSUME IInv, [Next]_vars PROVE Lawful
  OBVIOUS
<1>1. CASE UNCHANGED vars
  BY <1>1, BookkeepingLawful DEF vars
<1>2. ASSUME NEW r \in Routes, CreateUnboundRoute(r) PROVE Lawful
  <2>1. route[r].status \notin Terminal
    BY <1>2 DEF CreateUnboundRoute, Terminal
  <2>2. /\ \A q \in Routes \ {r} : route'[q] = route[q]
        /\ resv' = resv
    BY <1>2 DEF CreateUnboundRoute, IInv, TypeOK
  <2> QED
    BY <2>1, <2>2 DEF Lawful, Keeps, Attempts
<1>3. ASSUME NEW r \in Routes, CreateRouteRequest(r) PROVE Lawful
  <2>1. Settled(resv[r]) /\ route[r].status \notin Terminal
    BY <1>3, NothingOffered DEF CreateRouteRequest, Terminal
  <2> QED
    BY <1>3, <2>1, FlowLawful DEF CreateRouteRequest, IInv, TypeOK
<1>4. ASSUME NEW r \in Routes, NEW n \in Attempts(r), AcceptReservation(r, n)
      PROVE  Lawful
  <2>1. Confirm(slots, <<r, n>>) \in SlotTable
    BY ConfirmTable DEF IInv, TypeOK
  <2> QED
    BY <1>4, <2>1, AnswerLawful DEF AcceptReservation, Resume
<1>5. ASSUME NEW r \in Routes, NEW n \in Attempts(r), RejectReservation(r, n)
      PROVE  Lawful
  <2>1. Release(slots, <<r, n>>) \in SlotTable
    BY ReleaseTable DEF IInv, TypeOK
  <2> QED
    BY <1>5, <2>1, AnswerLawful DEF RejectReservation, Resume
<1>6. ASSUME NEW r \in Routes, NEW n \in Attempts(r), CompleteReservation(r, n)
      PROVE  Lawful
  <2> DEFINE rs == Resolve(r, n, "completed")
  <2>1. /\ "completed" \in Active \cup Resolved
        /\ <<"accepted", "completed">> \in Legal
    BY DEF Active, Legal
  <2>2. /\ Len(rs) = Len(resv[r])
        /\ \A i \in Attempts(r) :
               /\ rs[i].agent = resv[r][i].agent
               /\ rs[i].state = IF i = n THEN "completed" ELSE resv[r][i].state
    BY <2>1, ResolveShape DEF IInv
  <2>3. /\ resv' = [resv EXCEPT ![r] = rs]
        /\ resv[r][n].state = "accepted"
        /\ route' = route
    BY <1>6 DEF CompleteReservation
  <2> HIDE DEF rs
  <2>4. /\ resv'[r] = rs
        /\ \A q \in Routes \ {r} : resv'[q] = resv[q]
    BY <2>3 DEF IInv, TypeOK
  <2> QED
    BY <2>1, <2>2, <2>3, <2>4 DEF Lawful, Keeps, Attempts
<1>7. ASSUME NEW r \in Routes, SubmitRouteInput(r) PROVE Lawful
  <2>1. Settled(resv[r]) /\ route[r].status \notin Terminal
    BY <1>7, NothingOffered DEF SubmitRouteInput, Terminal
  <2> QED
    BY <1>7, <2>1, FlowLawful DEF SubmitRouteInput, IInv, TypeOK
<1>8. ASSUME NEW t \in timers, DropStaleTimer(t) PROVE Lawful
  BY <1>8, BookkeepingLawful DEF DropStaleTimer
<1>9. ASSUME NEW t \in timers, FireReservationTimeout(t) PROVE Lawful
  <2> DEFINE r == t.route
             n == t.attempt
  <2>1. /\ r \in Routes
        /\ n \in Attempts(r)
    BY <1>9 DEF FireReservationTimeout, IInv, TypeOK, Timer, TimerInv
  <2>2. /\ OnOffer(r, n)
        /\ RunFlow(r, "timeout", FALSE, Resolve(r, n, "timeout"),
                   Release(slots, <<r, n>>), timers \ {t})
    BY <1>9, <2>1 DEF FireReservationTimeout, Resume, OnOffer, Current, IInv,
                      RouteInv, Parked, Attempts
  <2>3. Release(slots, <<r, n>>) \in SlotTable
    BY ReleaseTable DEF IInv, TypeOK
  <2> QED
    BY <2>1, <2>2, <2>3, AnswerLawful
<1>10. ASSUME NEW t \in timers, FireWait(t) PROVE Lawful
  <2> DEFINE r == t.route
  <2>1. /\ r \in Routes
        /\ route[r].current = Null
        /\ route[r].status \notin Terminal
    BY <1>10 DEF FireWait, Current, IInv, TypeOK, Timer, TimerInv, Terminal
  <2>2. Settled(resv[r])
    BY <2>1, NothingOffered
  <2> QED
    BY <1>10, <2>1, <2>2, FlowLawful DEF FireWait, Resume, IInv, TypeOK
<1>11. CASE SweepCapacity
  BY <1>11, BookkeepingLawful DEF SweepCapacity
<1>12. ASSUME NEW r \in Routes, NEW a \in Agents, MatcherOffer(r, a) PROVE Lawful
  <2> DEFINE offer == Offer(a, OfferWindow(r))
             new   == Append(resv[r], offer)
  <2>1. /\ route[r].status \notin Terminal
        /\ resv' = [resv EXCEPT ![r] = new]
        /\ \A q \in Routes \ {r} : route'[q] = route[q]
    BY <1>12 DEF MatcherOffer, Claimable, Terminal, IInv, TypeOK
  <2>2. /\ resv[r] \in Seq(Reservation)
        /\ Len(resv[r]) \in Nat
    BY DEF IInv, TypeOK
  <2>3. /\ Len(new) = Len(resv[r]) + 1
        /\ \A i \in 1..Len(resv[r]) : new[i] = resv[r][i]
    BY <2>2, AppendProperties
  <2> HIDE DEF new
  <2>4. /\ resv'[r] = new
        /\ \A q \in Routes \ {r} : resv'[q] = resv[q]
    BY <2>1 DEF IInv, TypeOK
  <2> QED
    BY <2>1, <2>2, <2>3, <2>4 DEF Lawful, Keeps, Attempts
<1>13. ASSUME NEW r \in Routes, FallbackExpiredRoute(r) PROVE Lawful
  <2>1. Settled(resv[r]) /\ route[r].status \notin Terminal
    BY <1>13, NothingOffered DEF FallbackExpiredRoute, Terminal
  <2> QED
    BY <1>13, <2>1, FlowLawful DEF FallbackExpiredRoute, Resume, IInv, TypeOK
<1>14. ASSUME NEW a \in Agents, NEW to \in Statuses, PatchAgentStatus(a, to)
       PROVE  Lawful
  BY <1>14, BookkeepingLawful DEF PatchAgentStatus
<1>15. ASSUME NEW a \in Agents, ExpireWrapUp(a) PROVE Lawful
  BY <1>15, BookkeepingLawful DEF ExpireWrapUp
<1>16. ASSUME NEW a \in Agents, Connect(a) \/ Disconnect(a) PROVE Lawful
  BY <1>16, BookkeepingLawful DEF Connect, Disconnect
<1>17. CASE Tick
  <2>1. ASSUME NEW r \in Routes
        PROVE  /\ route'[r].status = route[r].status
               /\ Len(resv'[r]) = Len(resv[r])
               /\ \A n \in Attempts(r) : Keeps(r, n)
    BY <1>17, TickKeeps DEF Keeps, Attempts
  <2> QED
    BY <2>1 DEF Lawful
<1> QED
  BY <1>1, <1>2, <1>3, <1>4, <1>5, <1>6, <1>7, <1>8, <1>9, <1>10, <1>11, <1>12,
     <1>13, <1>14, <1>15, <1>16, <1>17 DEF Next

\* Competing outcomes of an offer never overwrite one another: accept, reject,
\* timeout and complete only take a reservation along the legal edges.
THEOREM LifecycleIsLegal == Spec => ReservationLifecycle
<1>1. IInv /\ [Next]_vars =>
          [\A r \in Routes : \A n \in Attempts(r) :
             /\ n \in 1..Len(resv'[r])
             /\ resv'[r][n].agent = resv[r][n].agent
             /\ \/ resv'[r][n].state = resv[r][n].state
                \/ <<resv[r][n].state, resv'[r][n].state>> \in Legal]_vars
  BY NextLawful DEF Lawful, Keeps
<1> QED
  BY <1>1, Invariance, PTL DEF Spec, ReservationLifecycle

\* A route that ended stays ended and gets no further offer.
THEOREM EndedStaysEnded == Spec => TerminalIsFinal
<1>1. IInv /\ [Next]_vars =>
          [\A r \in Routes : route[r].status \in Terminal =>
             /\ route'[r].status = route[r].status
             /\ Len(resv'[r]) = Len(resv[r])]_vars
  BY NextLawful DEF Lawful
<1> QED
  BY <1>1, Invariance, PTL DEF Spec, TerminalIsFinal
=============================================================================
