------------------------ MODULE RoutingParks_proofs ------------------------
(***************************************************************************)
(* Parks, deadlines and serving agents, for every flow, every set of       *)
(* routes and agents, every capacity and every timing: a parked route has  *)
(* the one timer that can wake it, an offer of the matcher's ends before   *)
(* its route leaves the queue, and without force an agent is Engaged only  *)
(* while it has an interaction.                                            *)
(***************************************************************************)
EXTENDS RoutingEngine_proofs

-----------------------------------------------------------------------------
(* What a run of the flow leaves behind *)

\* The timer of the park route r is in.
Wakes(t, row, rs) ==
    /\ t.seq = row.run_seq
    /\ t.attempt = row.current
    /\ IF t.attempt = Null
       THEN t.kind = "wait"
       ELSE /\ t.kind = "reservation_timeout"
            /\ t.attempt \in 1..Len(rs)
            /\ t.due = rs[t.attempt].ttl

\* A run parks under one new timer, or adds none and does not wait.
RunParks(r, pending) ==
    \/ /\ route'[r].status # "waiting"
       /\ timers' = pending
    \/ \E t : /\ timers' = pending \cup {t}
              /\ t.route = r
              /\ Wakes(t, route'[r], resv'[r])

LEMMA ParkOnTimerParks ==
    ASSUME TypeOK, NEW r \in Routes, NEW n \in Parkable, NEW rs \in Seq(Reservation),
           NEW table, NEW pending, ParkOnTimer(r, n, rs, table, pending)
    PROVE  RunParks(r, pending)
<1> DEFINE row == Suspended(route[r], n, Null)
           t == WaitTimer(r, route[r].run_seq + 1, WaitTime)
<1>1. /\ route[r] \in RouteRow /\ n \in 0..Len(Flow)
      /\ Null \in Nat \cup {Null}
  BY FlowAssumption DEF TypeOK, Parkable
<1>2. row.current = Null /\ row.run_seq = route[r].run_seq + 1
  BY <1>1, SuspendedRow
<1>3. /\ t.route = r /\ t.kind = "wait" /\ t.attempt = Null
      /\ t.seq = route[r].run_seq + 1
  BY DEF WaitTimer
<1>4. route' = [route EXCEPT ![r] = row] /\ timers' = pending \cup {t}
  BY DEF ParkOnTimer
<1> HIDE DEF row, t
<1>5. route'[r] = row
  BY <1>4 DEF TypeOK
<1> QED
  BY <1>2, <1>3, <1>4, <1>5 DEF RunParks, Wakes

LEMMA OfferInlineParks ==
    ASSUME TypeOK, NEW r \in Routes, NEW n \in Offering, NEW rs \in Seq(Reservation),
           NEW table, NEW pending, NEW a \in Offerable(rs, table),
           OfferInline(r, n, a, rs, table, pending)
    PROVE  RunParks(r, pending)
<1> DEFINE attempt == Len(rs) + 1
           row == Suspended(route[r], n, attempt)
           new == Append(rs, Offer(a, OfferTimeout))
           t == ReservationTimer(r, attempt, route[r].run_seq + 1, OfferTimeout)
<1>1. /\ route[r] \in RouteRow /\ n \in 0..Len(Flow)
      /\ attempt \in Nat \cup {Null} /\ attempt # Null
  BY FlowAssumption, NullAssumption DEF TypeOK, Offering
<1>2. row.current = attempt /\ row.run_seq = route[r].run_seq + 1
  BY <1>1, SuspendedRow
<1>3. /\ t.route = r /\ t.kind = "reservation_timeout" /\ t.attempt = attempt
      /\ t.seq = route[r].run_seq + 1 /\ t.due = OfferTimeout
  BY DEF ReservationTimer
<1>4. Offer(a, OfferTimeout).ttl = OfferTimeout /\ Offer(a, OfferTimeout) \in Reservation
  BY EngineAssumption DEF Offer, Reservation, Active, Resolved, Countdown, Offerable,
                          CandidatePool, TypeOK
<1>5. Len(new) = attempt /\ new[attempt].ttl = OfferTimeout
  BY <1>4, AppendProperties
<1>6. /\ route' = [route EXCEPT ![r] = row]
      /\ resv' = [resv EXCEPT ![r] = new]
      /\ timers' = pending \cup {t}
  BY DEF OfferInline
<1>7. attempt \in 1..attempt
  BY <1>1
<1> HIDE DEF row, t, new, attempt
<1>8. route'[r] = row /\ resv'[r] = new
  BY <1>6 DEF TypeOK
<1> QED
  BY <1>1, <1>2, <1>3, <1>5, <1>6, <1>7, <1>8 DEF RunParks, Wakes

LEMMA FlowParks ==
    ASSUME TypeOK, NEW r \in Routes, NEW signal, NEW scripted,
           NEW rs \in Seq(Reservation), NEW table, NEW pending,
           RunFlow(r, signal, scripted, rs, table, pending)
    PROVE  RunParks(r, pending)
<1>1. ASSUME NEW status \in Terminal, Finish(r, status, rs, table, pending)
      PROVE  RunParks(r, pending)
  <2>1. Finished(route[r], status).status = status
    BY FinishedRow DEF TypeOK
  <2>2. route'[r] = Finished(route[r], status) /\ timers' = pending
    BY <1>1 DEF Finish, TypeOK
  <2> QED
    BY <2>1, <2>2 DEF RunParks, Terminal
<1>2. ASSUME NEW n \in Offering, ParkForMatch(r, n, rs, table, pending)
      PROVE  RunParks(r, pending)
  <2>1. n \in 0..Len(Flow) /\ route[r] \in RouteRow
    BY FlowAssumption DEF Offering, TypeOK
  <2>2. Queued(route[r], n, rs).status = "waiting_match"
    BY <2>1, QueuedRow
  <2>3. route'[r] = Queued(route[r], n, rs) /\ timers' = pending
    BY <1>2 DEF ParkForMatch, TypeOK
  <2> QED
    BY <2>2, <2>3 DEF RunParks
<1>3. ASSUME NEW n \in Parkable, ParkOnTimer(r, n, rs, table, pending)
      PROVE  RunParks(r, pending)
  BY <1>3, ParkOnTimerParks
<1>4. ASSUME NEW n \in Offering, NEW a \in Offerable(rs, table),
             OfferInline(r, n, a, rs, table, pending)
      PROVE  RunParks(r, pending)
  BY <1>4, OfferInlineParks
<1> QED
  BY <1>1, <1>2, <1>3, <1>4, RunFlowCases, Zenon

-----------------------------------------------------------------------------
(* A parked route has the one timer that can wake it *)

\* The only timer of route r that passes the fence is the one of its park.
Parking(r) ==
    route[r].status = "waiting" =>
        \E t \in timers :
            /\ t.route = r
            /\ Wakes(t, route[r], resv[r])
            /\ \A u \in timers : u.route = r /\ u.seq = route[r].run_seq => u = t

ParkInv == \A r \in Routes : Parking(r)

\* A run of r: the timers it was handed are behind the fence, and its own is at it.
LEMMA FlowParked ==
    ASSUME IInv, ParkInv, NEW r \in Routes, NEW signal, NEW scripted, NEW rs, Settled(rs),
           NEW table \in SlotTable, NEW pending \in SUBSET timers,
           \A t \in timers : t.route # r => t \in pending,
           RunFlow(r, signal, scripted, rs, table, pending)
    PROVE  ParkInv'
<1>1. RunFlowEffect(r, rs, pending)
  BY RunFlowSafe DEF IInv
<1>2. RunParks(r, pending)
  BY FlowParks DEF IInv, Settled
<1>3. Parking(r)'
  <2> SUFFICES ASSUME route'[r].status = "waiting" PROVE Parking(r)'
    BY DEF Parking
  <2>1. PICK t : /\ timers' = pending \cup {t}
                 /\ t.route = r
                 /\ Wakes(t, route'[r], resv'[r])
    BY <1>2 DEF RunParks
  <2>2. route'[r].run_seq > route[r].run_seq
    BY <1>1 DEF RunFlowEffect
  <2>3. /\ route[r].run_seq \in Nat
        /\ route'[r].run_seq \in Nat
    BY <1>1 DEF RunFlowEffect, IInv, TypeOK, RouteRow
  <2>4. ASSUME NEW u \in pending, u.route = r PROVE u.seq # route'[r].run_seq
    <3>1. u.seq \in Nat /\ u.seq <= route[r].run_seq
      BY <2>4 DEF IInv, TypeOK, Timer, TimerInv
    <3> QED
      BY <2>2, <2>3, <3>1
  <2> QED
    BY <2>1, <2>4 DEF Parking
<1>4. ASSUME NEW q \in Routes \ {r} PROVE Parking(q)'
  <2>1. route'[q] = route[q] /\ resv'[q] = resv[q]
    BY <1>1 DEF RunFlowEffect
  <2>2. \A t : t.route = q => (t \in timers' <=> t \in timers)
    <3>1. CASE timers' = pending
      BY <3>1
    <3>2. CASE \E t : timers' = pending \cup {t} /\ t.route = r
      BY <3>2
    <3> QED
      BY <1>2, <3>1, <3>2 DEF RunParks
  <2> QED
    BY <2>1, <2>2 DEF ParkInv, Parking
<1> QED
  BY <1>3, <1>4 DEF ParkInv

\* A step that touches neither routes nor timers, nor the offer a route waits for.
LEMMA ParksKept ==
    ASSUME ParkInv, UNCHANGED <<route, timers>>,
           \A r \in Routes :
               /\ Len(resv'[r]) = Len(resv[r])
               /\ \A n \in 1..Len(resv[r]) : route[r].status = "waiting" /\ route[r].current = n
                      => resv'[r][n].ttl = resv[r][n].ttl
    PROVE  ParkInv'
<1> SUFFICES ASSUME NEW r \in Routes, route[r].status = "waiting" PROVE Parking(r)'
  BY DEF ParkInv, Parking
<1>1. PICK t \in timers :
            /\ t.route = r
            /\ Wakes(t, route[r], resv[r])
            /\ \A u \in timers : u.route = r /\ u.seq = route[r].run_seq => u = t
  BY DEF ParkInv, Parking
<1>2. Wakes(t, route[r], resv'[r])
  BY <1>1 DEF Wakes
<1> QED
  BY <1>1, <1>2 DEF Parking

\* A timer is dropped when it is behind the fence, or its offer is resolved, and
\* then no route waits for it.
LEMMA DropParked ==
    ASSUME IInv, ParkInv, NEW t \in timers, DropStaleTimer(t)
    PROVE  ParkInv'
<1> SUFFICES ASSUME NEW r \in Routes, route[r].status = "waiting" PROVE Parking(r)'
  BY DEF ParkInv, Parking, DropStaleTimer
<1>1. PICK u \in timers :
            /\ u.route = r
            /\ Wakes(u, route[r], resv[r])
            /\ \A v \in timers : v.route = r /\ v.seq = route[r].run_seq => v = u
  BY DEF ParkInv, Parking
<1>2. u # t
  <2> SUFFICES ASSUME u = t PROVE FALSE
    OBVIOUS
  <2>1. Current(t)
    BY <1>1 DEF Current, Wakes
  <2>2. t.kind = "reservation_timeout" /\ resv[r][t.attempt].state # "offered"
    BY <1>1, <2>1 DEF DropStaleTimer
  <2>3. t.attempt \in 1..Len(resv[r]) /\ route[r].current = t.attempt
    BY <1>1, <2>2 DEF Wakes
  <2>4. resv[r][t.attempt].state = "offered"
    BY <2>3 DEF IInv, RouteInv, Parked
  <2> QED
    BY <2>2, <2>4
<1> QED
  BY <1>1, <1>2 DEF DropStaleTimer, Parking

\* The matcher's offer comes with its timer.
LEMMA MatcherParked ==
    ASSUME IInv, ParkInv, NEW r \in Routes, NEW a \in Agents, MatcherOffer(r, a)
    PROVE  ParkInv'
<1> DEFINE attempt == NextAttempt(r)
           ttl == OfferWindow(r)
           park == Suspended(route[r], route[r].cursor, attempt)
           row == [park EXCEPT !.match_attempt_seq = attempt]
           new == Append(resv[r], Offer(a, ttl))
           t == ReservationTimer(r, attempt, route[r].run_seq + 1, ttl)
<1>1. /\ route[r] \in RouteRow /\ route[r].run_seq \in Nat
      /\ route[r].cursor \in 0..Len(Flow)
      /\ route[r].match_attempt_seq \in Nat
      /\ resv[r] \in Seq(Reservation) /\ Len(resv[r]) \in Nat
  BY DEF IInv, TypeOK, RouteRow
<1>2. attempt = Len(resv[r]) + 1 /\ attempt \in Nat \cup {Null} /\ attempt # Null
  <2>1. attempt \notin 1..Len(resv[r])
    BY DEF MatcherOffer, Insertable, Attempts
  <2>2. route[r].match_attempt_seq <= Len(resv[r])
    BY DEF IInv
  <2> QED
    BY <1>1, <2>1, <2>2, NullAssumption DEF NextAttempt
<1>3. ttl \in Countdown(OfferTimeout)
  <2>1. route[r].deadline \in Countdown(MatchDeadline) \cup {Null}
    BY <1>1 DEF RouteRow
  <2>2. route[r].deadline # Null
    BY DEF MatcherOffer, Claimable, IInv, RouteInv, QueueRemembers
  <2> QED
    BY <2>1, <2>2, EngineAssumption DEF OfferWindow, Countdown
<1>4. /\ park \in RouteRow /\ park.current = attempt
      /\ park.run_seq = route[r].run_seq + 1
  BY <1>1, <1>2, SuspendedRow
<1>5. /\ t.route = r /\ t.kind = "reservation_timeout" /\ t.attempt = attempt
      /\ t.seq = route[r].run_seq + 1 /\ t.due = ttl
  BY DEF ReservationTimer
<1> HIDE DEF attempt, ttl, park
<1>6. Offer(a, ttl).ttl = ttl /\ Offer(a, ttl) \in Reservation
  BY <1>3 DEF Offer, Reservation, Active, Resolved
<1>7. /\ Len(new) = attempt /\ new[attempt].ttl = ttl
      /\ attempt \in 1..Len(new)
  BY <1>1, <1>2, <1>6, AppendProperties
<1>8. /\ row.current = attempt
      /\ row.run_seq = route[r].run_seq + 1
  BY <1>4 DEF RouteRow
<1>9. /\ route' = [route EXCEPT ![r] = row]
      /\ resv' = [resv EXCEPT ![r] = new]
      /\ timers' = timers \cup {t}
  BY DEF MatcherOffer, attempt, ttl, park
<1> HIDE DEF row, new, t
<1>10. /\ route'[r] = row /\ resv'[r] = new
       /\ \A q \in Routes \ {r} : route'[q] = route[q] /\ resv'[q] = resv[q]
  BY <1>9 DEF IInv, TypeOK
<1>11. ASSUME NEW u \in timers, u.route = r PROVE u.seq # row.run_seq
  <2>1. u.seq \in Nat /\ u.seq <= route[r].run_seq
    BY <1>11 DEF IInv, TypeOK, Timer, TimerInv
  <2> QED
    BY <1>1, <1>8, <2>1
<1>12. Wakes(t, row, new)
  BY <1>2, <1>5, <1>7, <1>8 DEF Wakes
<1>13. Parking(r)'
  BY <1>5, <1>9, <1>10, <1>11, <1>12 DEF Parking
<1>14. ASSUME NEW q \in Routes \ {r} PROVE Parking(q)'
  <2>1. \A u : u.route = q => (u \in timers' <=> u \in timers)
    BY <1>5, <1>9
  <2> QED
    BY <1>10, <2>1 DEF ParkInv, Parking
<1> QED
  BY <1>13, <1>14 DEF ParkInv

\* Time passes alike for an offer and for its timer.
LEMMA TickParked ==
    ASSUME IInv, ParkInv, Tick
    PROVE  ParkInv'
<1> SUFFICES ASSUME NEW r \in Routes, route[r].status = "waiting" PROVE Parking(r)'
  BY TickKeeps DEF ParkInv, Parking
<1>1. PICK t \in timers :
            /\ t.route = r
            /\ Wakes(t, route[r], resv[r])
            /\ \A u \in timers : u.route = r /\ u.seq = route[r].run_seq => u = t
  BY DEF ParkInv, Parking
<1>2. ASSUME NEW u \in timers
      PROVE  LET v == [u EXCEPT !.due = Pass(u.due)]
             IN  /\ v \in timers'
                 /\ v.route = u.route /\ v.kind = u.kind /\ v.attempt = u.attempt
                 /\ v.seq = u.seq /\ v.due = Pass(u.due)
  <2>1. u \in Timer
    BY DEF IInv, TypeOK
  <2> QED
    BY <2>1 DEF Timer, Tick
<1>3. /\ route'[r].run_seq = route[r].run_seq
      /\ route'[r].current = route[r].current
      /\ Len(resv'[r]) = Len(resv[r])
  BY TickKeeps
<1>4. \A w \in timers' : \E u \in timers : w = [u EXCEPT !.due = Pass(u.due)]
  BY DEF Tick
<1> DEFINE v == [t EXCEPT !.due = Pass(t.due)]
<1>5. Wakes(v, route'[r], resv'[r])
  <2>1. /\ v.seq = t.seq /\ v.kind = t.kind /\ v.attempt = t.attempt
        /\ v.due = Pass(t.due)
    BY <1>2
  <2>2. ASSUME t.attempt # Null
        PROVE  /\ t.attempt \in 1..Len(resv[r])
               /\ resv'[r][t.attempt].ttl = Pass(t.due)
    <3>1. t.attempt \in 1..Len(resv[r]) /\ t.due = resv[r][t.attempt].ttl
      BY <1>1, <2>2 DEF Wakes
    <3> QED
      BY <3>1, TickRings
  <2> HIDE DEF v
  <2> QED
    BY <1>1, <1>3, <2>1, <2>2 DEF Wakes
<1>6. ASSUME NEW w \in timers', w.route = r, w.seq = route'[r].run_seq PROVE w = v
  <2>1. PICK u \in timers : w = [u EXCEPT !.due = Pass(u.due)]
    BY <1>4, <1>6
  <2>2. u.route = w.route /\ u.seq = w.seq
    BY <1>2, <2>1
  <2>3. u = t
    BY <1>1, <1>3, <1>6, <2>2
  <2> QED
    BY <2>1, <2>3
<1>7. v \in timers' /\ v.route = r
  BY <1>1, <1>2
<1> HIDE DEF v
<1> QED
  BY <1>5, <1>6, <1>7 DEF Parking

\* Every step keeps the parks armed: one case per action of Next.
LEMMA NextParked == IInv /\ ParkInv /\ [Next]_vars => ParkInv'
<1> SUFFICES ASSUME IInv, ParkInv, [Next]_vars PROVE ParkInv'
  OBVIOUS
<1>1. slots \in SlotTable /\ timers \in SUBSET timers
  BY DEF IInv, TypeOK
<1>2. ASSUME UNCHANGED <<route, resv, timers>> PROVE ParkInv'
  BY <1>2 DEF ParkInv, Parking
<1>3. ASSUME NEW r \in Routes, CreateUnboundRoute(r) PROVE ParkInv'
  <2>1. /\ route'[r].status # "waiting"
        /\ \A q \in Routes \ {r} : route'[q] = route[q]
        /\ UNCHANGED <<resv, timers>>
    BY <1>3 DEF CreateUnboundRoute, IInv, TypeOK, RouteRow
  <2> QED
    BY <2>1 DEF ParkInv, Parking
<1>4. ASSUME NEW r \in Routes,
             CreateRouteRequest(r) \/ SubmitRouteInput(r) \/ FallbackExpiredRoute(r)
      PROVE  ParkInv'
  <2>1. Settled(resv[r])
    BY <1>4, NothingOffered DEF CreateRouteRequest, SubmitRouteInput, FallbackExpiredRoute
  <2>2. \E signal, scripted : RunFlow(r, signal, scripted, resv[r], slots, timers)
    BY <1>4 DEF CreateRouteRequest, SubmitRouteInput, FallbackExpiredRoute, Resume
  <2> QED
    BY <1>1, <2>1, <2>2, FlowParked
<1>5. ASSUME NEW r \in Routes, NEW n \in Attempts(r), AcceptReservation(r, n)
      PROVE  ParkInv'
  <2>1. Settled(Resolve(r, n, "accepted"))
    BY <1>5, OfferResolved DEF AcceptReservation
  <2>2. Confirm(slots, <<r, n>>) \in SlotTable
    BY <1>1, ConfirmTable
  <2> QED
    BY <1>1, <1>5, <2>1, <2>2, FlowParked DEF AcceptReservation, Resume
<1>6. ASSUME NEW r \in Routes, NEW n \in Attempts(r), RejectReservation(r, n)
      PROVE  ParkInv'
  <2>1. Settled(Resolve(r, n, "rejected"))
    BY <1>6, OfferResolved DEF RejectReservation
  <2>2. Release(slots, <<r, n>>) \in SlotTable
    BY <1>1, ReleaseTable
  <2> QED
    BY <1>1, <1>6, <2>1, <2>2, FlowParked DEF RejectReservation, Resume
<1>7. ASSUME NEW r \in Routes, NEW n \in Attempts(r), CompleteReservation(r, n)
      PROVE  ParkInv'
  <2> DEFINE rs == Resolve(r, n, "completed")
  <2>1. "completed" \in Active \cup Resolved
    BY DEF Active
  <2>2. Len(rs) = Len(resv[r])
    BY <2>1, ResolveShape DEF IInv
  <2>3. \A i \in 1..Len(resv[r]) : i # n => rs[i] = resv[r][i]
    <3>1. resv[r] \in Seq(Reservation) /\ DOMAIN resv[r] = 1..Len(resv[r])
      BY DEF IInv, TypeOK
    <3> QED
      BY <3>1 DEF Resolve
  <2>4. /\ resv' = [resv EXCEPT ![r] = rs]
        /\ resv[r][n].state = "accepted"
        /\ UNCHANGED <<route, timers>>
    BY <1>7 DEF CompleteReservation
  <2> HIDE DEF rs
  <2>5. resv'[r] = rs /\ \A q \in Routes \ {r} : resv'[q] = resv[q]
    BY <2>4 DEF IInv, TypeOK
  <2>6. ~(route[r].status = "waiting" /\ route[r].current = n)
    BY <2>4 DEF IInv, RouteInv, Parked, Attempts
  <2> QED
    BY <2>2, <2>3, <2>4, <2>5, <2>6, ParksKept
<1>8. ASSUME NEW t \in timers, DropStaleTimer(t) PROVE ParkInv'
  BY <1>8, DropParked
<1>9. ASSUME NEW t \in timers, FireReservationTimeout(t) PROVE ParkInv'
  <2> DEFINE r == t.route
             n == t.attempt
  <2>1. /\ r \in Routes
        /\ n \in Attempts(r)
    BY <1>9 DEF FireReservationTimeout, IInv, TypeOK, Timer, TimerInv
  <2>2. /\ OnOffer(r, n)
        /\ RunFlow(r, "timeout", FALSE, Resolve(r, n, "timeout"),
                   Release(slots, <<r, n>>), timers \ {t})
    BY <1>9, <2>1 DEF FireReservationTimeout, Resume, OnOffer, Current, IInv,
                      RouteInv, Parked, Attempts
  <2>3. Settled(Resolve(r, n, "timeout"))
    BY <2>1, <2>2, OfferResolved
  <2>4. Release(slots, <<r, n>>) \in SlotTable
    BY <1>1, ReleaseTable
  <2>5. /\ timers \ {t} \in SUBSET timers
        /\ \A u \in timers : u.route # r => u \in timers \ {t}
    OBVIOUS
  <2> HIDE DEF r, n
  <2> QED
    BY <2>1, <2>2, <2>3, <2>4, <2>5, FlowParked
<1>10. ASSUME NEW t \in timers, FireWait(t) PROVE ParkInv'
  <2> DEFINE r == t.route
  <2>1. r \in Routes /\ route[r].current = Null
    BY <1>10 DEF FireWait, IInv, TypeOK, Timer, TimerInv
  <2>2. Settled(resv[r])
    BY <2>1, NothingOffered
  <2>3. RunFlow(r, "", FALSE, resv[r], slots, timers \ {t})
    BY <1>10 DEF FireWait, Resume
  <2>4. /\ timers \ {t} \in SUBSET timers
        /\ \A u \in timers : u.route # r => u \in timers \ {t}
    OBVIOUS
  <2> HIDE DEF r
  <2> QED
    BY <1>1, <2>1, <2>2, <2>3, <2>4, FlowParked
<1>11. ASSUME NEW r \in Routes, NEW a \in Agents, MatcherOffer(r, a) PROVE ParkInv'
  BY <1>11, MatcherParked
<1>12. CASE Tick
  BY <1>12, TickParked
<1>13. ASSUME \/ SweepCapacity
              \/ \E a \in Agents, to \in Statuses : PatchAgentStatus(a, to)
              \/ \E a \in Agents : ExpireWrapUp(a) \/ Connect(a) \/ Disconnect(a)
              \/ UNCHANGED vars
       PROVE  ParkInv'
  BY <1>2, <1>13 DEF SweepCapacity, PatchAgentStatus, ExpireWrapUp, Connect, Disconnect, vars
<1> QED
  BY <1>3, <1>4, <1>5, <1>6, <1>7, <1>8, <1>9, <1>10, <1>11, <1>12, <1>13 DEF Next

\* A parked route has exactly one timer that can still lock it, the one of its
\* park: run_seq fences every older one out, and no park is left without one.
THEOREM ParksAreArmed == Spec => []ParkIsArmed
<1>1. Init => ParkInv
  BY DEF Init, NoRoute, ParkInv, Parking
<1>2. Spec => []ParkInv
  BY <1>1, Invariance, NextParked, PTL DEF Spec
<1>3. ParkInv => ParkIsArmed
  <2> SUFFICES ASSUME ParkInv, NEW r \in Routes, route[r].status = "waiting"
               PROVE  \E t \in timers :
                         /\ ArmedTimers(r) = {t}
                         /\ t.attempt = route[r].current
                         /\ IF t.attempt = Null
                            THEN t.kind = "wait"
                            ELSE /\ t.kind = "reservation_timeout"
                                 /\ t.attempt \in Attempts(r)
                                 /\ t.due = resv[r][t.attempt].ttl
    BY DEF ParkIsArmed
  <2>1. PICK t \in timers :
              /\ t.route = r
              /\ Wakes(t, route[r], resv[r])
              /\ \A u \in timers : u.route = r /\ u.seq = route[r].run_seq => u = t
    BY DEF ParkInv, Parking
  <2>2. ArmedTimers(r) = {t}
    BY <2>1 DEF ArmedTimers, Current, Wakes
  <2> QED
    BY <2>1, <2>2 DEF Wakes, Attempts
<1> QED
  BY <1>2, <1>3, PTL

-----------------------------------------------------------------------------
(* An offer of the matcher ends before its route leaves the queue *)

\* The deadline a queued route had stays in its row while the matcher's offer of
\* it rings, and the two run out together.
RingsInTime(row, rs) ==
    \A n \in 1..Len(rs) :
        (rs[n].state = "offered" /\ row.match_attempt_seq = n)
        => row.deadline \in Nat /\ rs[n].ttl \in Nat /\ rs[n].ttl <= row.deadline

RingInv == \A r \in Routes : RingsInTime(route[r], resv[r])

\* The attempt of an inline offer is ahead of the matcher's counter.
LEMMA FlowRings ==
    ASSUME IInv, RingInv, NEW r \in Routes, NEW signal, NEW scripted, NEW rs,
           Settled(rs), Len(rs) = Len(resv[r]),
           NEW table \in SlotTable, NEW pending,
           RunFlow(r, signal, scripted, rs, table, pending)
    PROVE  RingInv'
<1>1. RunFlowEffect(r, rs, pending)
  BY RunFlowSafe DEF IInv
<1>2. ASSUME NEW n \in 1..Len(resv'[r]), resv'[r][n].state = "offered"
      PROVE  route'[r].match_attempt_seq # n
  <2>1. n \notin 1..Len(rs)
    BY <1>1, <1>2 DEF RunFlowEffect, Settled
  <2>2. route'[r].match_attempt_seq <= Len(rs)
    BY <1>1 DEF RunFlowEffect, IInv
  <2>3. route'[r].match_attempt_seq \in Nat /\ Len(rs) \in Nat /\ n \in Nat
    BY <1>1 DEF RunFlowEffect, Settled, RouteRow
  <2> QED
    BY <2>1, <2>2, <2>3
<1> QED
  BY <1>1, <1>2 DEF RunFlowEffect, RingInv, RingsInTime

\* A step that changes no offer, no counter and no deadline.
LEMMA RingsKept ==
    ASSUME RingInv,
           \A r \in Routes :
               /\ route'[r].match_attempt_seq = route[r].match_attempt_seq
               /\ route'[r].deadline = route[r].deadline
               /\ Len(resv'[r]) = Len(resv[r])
               /\ \A n \in 1..Len(resv[r]) : resv'[r][n].state = "offered"
                      => resv'[r][n] = resv[r][n]
    PROVE  RingInv'
BY DEF RingInv, RingsInTime

\* The matcher rings its offer no longer than the queue has left.
LEMMA MatcherRings ==
    ASSUME IInv, RingInv, NEW r \in Routes, NEW a \in Agents, MatcherOffer(r, a)
    PROVE  RingInv'
<1> DEFINE attempt == NextAttempt(r)
           ttl == OfferWindow(r)
           park == Suspended(route[r], route[r].cursor, attempt)
           row == [park EXCEPT !.match_attempt_seq = attempt]
           new == Append(resv[r], Offer(a, ttl))
<1>1. /\ route[r] \in RouteRow
      /\ resv[r] \in Seq(Reservation) /\ Len(resv[r]) \in Nat
  BY DEF IInv, TypeOK
<1>2. route[r].deadline \in Nat
  <2>1. route[r].deadline \in Countdown(MatchDeadline) \cup {Null}
    BY <1>1 DEF RouteRow
  <2>2. route[r].deadline # Null
    BY DEF MatcherOffer, Claimable, IInv, RouteInv, QueueRemembers
  <2> QED
    BY <2>1, <2>2, EngineAssumption DEF Countdown
<1>3. ttl \in Countdown(OfferTimeout) /\ ttl \in Nat /\ ttl <= route[r].deadline
  BY <1>2, EngineAssumption DEF OfferWindow, Countdown
<1>4. row.match_attempt_seq = attempt /\ row.deadline = route[r].deadline
  BY <1>1 DEF Suspended, RouteRow
<1>5. Settled(resv[r])
  BY NothingOffered DEF MatcherOffer, Claimable
<1>6. /\ route' = [route EXCEPT ![r] = row]
      /\ resv' = [resv EXCEPT ![r] = new]
  BY DEF MatcherOffer
<1> HIDE DEF ttl
<1>7. Offer(a, ttl).ttl = ttl /\ Offer(a, ttl) \in Reservation
  BY <1>3 DEF Offer, Reservation, Active, Resolved
<1>8. /\ Len(new) = Len(resv[r]) + 1
      /\ \A n \in 1..Len(resv[r]) : new[n] = resv[r][n]
      /\ new[Len(resv[r]) + 1].ttl = ttl
  BY <1>1, <1>7, AppendProperties
<1> HIDE DEF row, new, attempt
<1>9. /\ route'[r] = row /\ resv'[r] = new
      /\ \A q \in Routes \ {r} : route'[q] = route[q] /\ resv'[q] = resv[q]
  BY <1>6 DEF IInv, TypeOK
<1>10. ASSUME NEW n \in 1..Len(new), new[n].state = "offered"
       PROVE  n = Len(resv[r]) + 1
  BY <1>1, <1>5, <1>8, <1>10 DEF Settled
<1>11. RingsInTime(row, new)
  BY <1>2, <1>3, <1>4, <1>8, <1>10 DEF RingsInTime
<1> QED
  BY <1>9, <1>11 DEF RingInv

\* The offer and the deadline lose a tick together, as far as zero.
LEMMA TickRingsInTime ==
    ASSUME IInv, RingInv, Tick
    PROVE  RingInv'
<1> SUFFICES ASSUME NEW r \in Routes, NEW n \in 1..Len(resv'[r]),
                    resv'[r][n].state = "offered", route'[r].match_attempt_seq = n
             PROVE  /\ route'[r].deadline \in Nat
                    /\ resv'[r][n].ttl \in Nat
                    /\ resv'[r][n].ttl <= route'[r].deadline
  BY DEF RingInv, RingsInTime
<1>1. n \in 1..Len(resv[r]) /\ resv[r][n].state = "offered"
      /\ route[r].match_attempt_seq = n
  BY TickKeeps
<1>2. /\ route[r].deadline \in Nat /\ resv[r][n].ttl \in Nat
      /\ resv[r][n].ttl <= route[r].deadline
  BY <1>1 DEF RingInv, RingsInTime
<1>3. resv'[r][n].ttl = Pass(resv[r][n].ttl)
  BY <1>1, TickRings
<1>4. route'[r].deadline = Pass(route[r].deadline)
  BY DEF Tick, IInv, TypeOK, RouteRow
<1> QED
  BY <1>2, <1>3, <1>4, NullAssumption, SMTT(30) DEF Pass

\* Every step keeps the matcher's offers in time: one case per action of Next.
LEMMA NextRings == IInv /\ RingInv /\ [Next]_vars => RingInv'
<1> SUFFICES ASSUME IInv, RingInv, [Next]_vars PROVE RingInv'
  OBVIOUS
<1>1. slots \in SlotTable
  BY DEF IInv, TypeOK
<1>2. ASSUME UNCHANGED <<route, resv>> PROVE RingInv'
  BY <1>2 DEF RingInv
<1>3. ASSUME NEW r \in Routes, CreateUnboundRoute(r) PROVE RingInv'
  <2>1. /\ \A q \in Routes : /\ route'[q].match_attempt_seq = route[q].match_attempt_seq
                             /\ route'[q].deadline = route[q].deadline
        /\ UNCHANGED resv
    BY <1>3 DEF CreateUnboundRoute, IInv, TypeOK, RouteRow
  <2> QED
    BY <2>1, RingsKept
<1>4. ASSUME NEW r \in Routes,
             CreateRouteRequest(r) \/ SubmitRouteInput(r) \/ FallbackExpiredRoute(r)
      PROVE  RingInv'
  <2>1. Settled(resv[r])
    BY <1>4, NothingOffered DEF CreateRouteRequest, SubmitRouteInput, FallbackExpiredRoute
  <2>2. \E signal, scripted : RunFlow(r, signal, scripted, resv[r], slots, timers)
    BY <1>4 DEF CreateRouteRequest, SubmitRouteInput, FallbackExpiredRoute, Resume
  <2> QED
    BY <1>1, <2>1, <2>2, FlowRings
<1>5. ASSUME NEW r \in Routes, NEW n \in Attempts(r), AcceptReservation(r, n)
      PROVE  RingInv'
  <2>1. /\ Settled(Resolve(r, n, "accepted"))
        /\ Len(Resolve(r, n, "accepted")) = Len(resv[r])
    BY <1>5, OfferResolved DEF AcceptReservation
  <2>2. Confirm(slots, <<r, n>>) \in SlotTable
    BY <1>1, ConfirmTable
  <2> QED
    BY <1>5, <2>1, <2>2, FlowRings DEF AcceptReservation, Resume
<1>6. ASSUME NEW r \in Routes, NEW n \in Attempts(r), RejectReservation(r, n)
      PROVE  RingInv'
  <2>1. /\ Settled(Resolve(r, n, "rejected"))
        /\ Len(Resolve(r, n, "rejected")) = Len(resv[r])
    BY <1>6, OfferResolved DEF RejectReservation
  <2>2. Release(slots, <<r, n>>) \in SlotTable
    BY <1>1, ReleaseTable
  <2> QED
    BY <1>6, <2>1, <2>2, FlowRings DEF RejectReservation, Resume
<1>7. ASSUME NEW r \in Routes, NEW n \in Attempts(r), CompleteReservation(r, n)
      PROVE  RingInv'
  <2> DEFINE rs == Resolve(r, n, "completed")
  <2>1. /\ Len(rs) = Len(resv[r])
        /\ \A i \in 1..Len(resv[r]) : rs[i].state = IF i = n THEN "completed"
                                                    ELSE resv[r][i].state
    BY ResolveShape DEF IInv, Active, Attempts
  <2>2. \A i \in 1..Len(resv[r]) : i # n => rs[i] = resv[r][i]
    <3>1. resv[r] \in Seq(Reservation) /\ DOMAIN resv[r] = 1..Len(resv[r])
      BY DEF IInv, TypeOK
    <3> QED
      BY <3>1 DEF Resolve
  <2>3. resv' = [resv EXCEPT ![r] = rs] /\ UNCHANGED route
    BY <1>7 DEF CompleteReservation
  <2> HIDE DEF rs
  <2>4. resv'[r] = rs /\ \A q \in Routes \ {r} : resv'[q] = resv[q]
    BY <2>3 DEF IInv, TypeOK
  <2> QED
    BY <2>1, <2>2, <2>3, <2>4, RingsKept
<1>8. ASSUME NEW t \in timers, FireReservationTimeout(t) PROVE RingInv'
  <2> DEFINE r == t.route
             n == t.attempt
  <2>1. /\ r \in Routes
        /\ n \in Attempts(r)
    BY <1>8 DEF FireReservationTimeout, IInv, TypeOK, Timer, TimerInv
  <2>2. /\ OnOffer(r, n)
        /\ RunFlow(r, "timeout", FALSE, Resolve(r, n, "timeout"),
                   Release(slots, <<r, n>>), timers \ {t})
    BY <1>8, <2>1 DEF FireReservationTimeout, Resume, OnOffer, Current, IInv,
                      RouteInv, Parked, Attempts
  <2>3. /\ Settled(Resolve(r, n, "timeout"))
        /\ Len(Resolve(r, n, "timeout")) = Len(resv[r])
    BY <2>1, <2>2, OfferResolved
  <2>4. Release(slots, <<r, n>>) \in SlotTable
    BY <1>1, ReleaseTable
  <2> HIDE DEF r, n
  <2> QED
    BY <2>1, <2>2, <2>3, <2>4, FlowRings
<1>9. ASSUME NEW t \in timers, FireWait(t) PROVE RingInv'
  <2> DEFINE r == t.route
  <2>1. r \in Routes /\ route[r].current = Null
    BY <1>9 DEF FireWait, IInv, TypeOK, Timer, TimerInv
  <2>2. Settled(resv[r])
    BY <2>1, NothingOffered
  <2>3. RunFlow(r, "", FALSE, resv[r], slots, timers \ {t})
    BY <1>9 DEF FireWait, Resume
  <2> HIDE DEF r
  <2> QED
    BY <1>1, <2>1, <2>2, <2>3, FlowRings
<1>10. ASSUME NEW r \in Routes, NEW a \in Agents, MatcherOffer(r, a) PROVE RingInv'
  BY <1>10, MatcherRings
<1>11. CASE Tick
  BY <1>11, TickRingsInTime
<1>12. ASSUME \/ SweepCapacity
              \/ \E t \in timers : DropStaleTimer(t)
              \/ \E a \in Agents, to \in Statuses : PatchAgentStatus(a, to)
              \/ \E a \in Agents : ExpireWrapUp(a) \/ Connect(a) \/ Disconnect(a)
              \/ UNCHANGED vars
       PROVE  RingInv'
  BY <1>2, <1>12 DEF SweepCapacity, DropStaleTimer, PatchAgentStatus, ExpireWrapUp,
                     Connect, Disconnect, vars
<1> QED
  BY <1>3, <1>4, <1>5, <1>6, <1>7, <1>8, <1>9, <1>10, <1>11, <1>12 DEF Next

\* An offer the matcher makes never outlives its route's stay in the queue.
THEOREM OffersEndInTime == Spec => []MatcherOfferWithinDeadline
<1>1. Init => RingInv
  BY DEF Init, RingInv, RingsInTime
<1>2. Spec => []RingInv
  BY <1>1, Invariance, NextRings, PTL DEF Spec
<1>3. RingInv => MatcherOfferWithinDeadline
  BY DEF RingInv, RingsInTime, MatcherOfferWithinDeadline, Attempts
<1> QED
  BY <1>2, <1>3, PTL

-----------------------------------------------------------------------------
(* Without force, an agent is Engaged only while it has an interaction *)

\* Reservation n of route r is agent a's live interaction.
Talks(a, r, n) ==
    /\ n \in Attempts(r)
    /\ resv[r][n].agent = a
    /\ resv[r][n].state = "accepted"

ServeInv ==
    ForcedPatches \/ \A a \in Agents : agent[a].status = "Engaged" =>
        \E r \in Routes : \E n \in Attempts(r) : Talks(a, r, n)

\* Every interaction that is live stays live.
TalksGoOn ==
    \A r \in Routes : \A n \in Attempts(r) :
        resv[r][n].state = "accepted" =>
            /\ n \in 1..Len(resv'[r])
            /\ resv'[r][n].agent = resv[r][n].agent
            /\ resv'[r][n].state = "accepted"

\* Agents engaged before stay with their interaction, and one who is engaged by
\* the step has one.
LEMMA ServesOn ==
    ASSUME ServeInv, TalksGoOn,
           \A a \in Agents : (agent'[a].status = "Engaged" /\ ~ForcedPatches) =>
               \/ agent[a].status = "Engaged"
               \/ \E r \in Routes : \E n \in 1..Len(resv'[r]) :
                      resv'[r][n].agent = a /\ resv'[r][n].state = "accepted"
    PROVE  ServeInv'
<1> SUFFICES ASSUME ~ForcedPatches, NEW a \in Agents, agent'[a].status = "Engaged"
             PROVE  \E r \in Routes : \E n \in 1..Len(resv'[r]) :
                        resv'[r][n].agent = a /\ resv'[r][n].state = "accepted"
  BY DEF ServeInv, Talks, Attempts
<1> QED
  BY DEF ServeInv, TalksGoOn, Talks

\* A run leaves the reservations it was handed as they were.
Hands(r, rs) ==
    \A n \in Attempts(r) : n \in 1..Len(resv'[r]) /\ resv'[r][n] = rs[n]

\* A run of the flow ends no interaction.
LEMMA FlowTalks ==
    ASSUME IInv, NEW r \in Routes, NEW signal, NEW scripted, NEW rs, Settled(rs),
           Len(rs) = Len(resv[r]),
           \A n \in Attempts(r) : /\ rs[n].agent = resv[r][n].agent
                                  /\ resv[r][n].state = "accepted"
                                         => rs[n].state = "accepted",
           NEW table \in SlotTable, NEW pending,
           RunFlow(r, signal, scripted, rs, table, pending)
    PROVE  TalksGoOn /\ Hands(r, rs)
<1>1. RunFlowEffect(r, rs, pending)
  BY RunFlowSafe DEF IInv
<1>2. Hands(r, rs)
  <2>1. Len(resv'[r]) \in Nat /\ Len(rs) \in Nat /\ Len(resv'[r]) >= Len(rs)
    BY <1>1 DEF RunFlowEffect, Settled
  <2> QED
    BY <1>1, <2>1 DEF RunFlowEffect, Attempts, Hands
<1>3. \A q \in Routes \ {r} : resv'[q] = resv[q]
  BY <1>1 DEF RunFlowEffect
<1> QED
  BY <1>2, <1>3 DEF TalksGoOn, Attempts, Hands

\* Nor does an answer to an offer, or its timeout, which settles attempt n only.
LEMMA AnswerTalks ==
    ASSUME IInv, NEW r \in Routes, NEW n, OnOffer(r, n), NEW signal,
           NEW state \in {"accepted", "rejected", "timeout"},
           NEW table \in SlotTable, NEW pending,
           RunFlow(r, signal, FALSE, Resolve(r, n, state), table, pending)
    PROVE  /\ TalksGoOn
           /\ n \in 1..Len(resv'[r])
           /\ resv'[r][n].agent = resv[r][n].agent
           /\ resv'[r][n].state = state
<1> DEFINE rs == Resolve(r, n, state)
<1>1. Settled(rs) /\ Len(rs) = Len(resv[r])
  BY OfferResolved
<1>2. /\ n \in Attempts(r)
      /\ resv[r][n].state = "offered"
      /\ state \in Active \cup Resolved
  BY DEF OnOffer, Active, Resolved
<1>3. \A i \in Attempts(r) :
          /\ rs[i].agent = resv[r][i].agent
          /\ rs[i].state = IF i = n THEN state ELSE resv[r][i].state
  BY <1>2, ResolveShape DEF IInv
<1> HIDE DEF rs
<1>4. \A i \in Attempts(r) : /\ rs[i].agent = resv[r][i].agent
                             /\ resv[r][i].state = "accepted" => rs[i].state = "accepted"
  BY <1>2, <1>3
<1>5. RunFlow(r, signal, FALSE, rs, table, pending)
  BY DEF rs
<1>6. TalksGoOn /\ Hands(r, rs)
  BY <1>1, <1>4, <1>5, FlowTalks
<1> QED
  BY <1>2, <1>3, <1>6 DEF Hands

\* A completion ends an interaction and takes its agent out of Engaged with it.
LEMMA CompleteServes ==
    ASSUME IInv, ServeInv, NEW r \in Routes, NEW n \in Attempts(r),
           CompleteReservation(r, n)
    PROVE  ServeInv'
<1> DEFINE rs == Resolve(r, n, "completed")
           a == resv[r][n].agent
<1>1. resv[r] \in Seq(Reservation) /\ DOMAIN resv[r] = 1..Len(resv[r])
  BY DEF IInv, TypeOK
<1>2. "completed" \in Active \cup Resolved
  BY DEF Active
<1>3. /\ Len(rs) = Len(resv[r])
      /\ \A i \in Attempts(r) :
             /\ rs[i].agent = resv[r][i].agent
             /\ rs[i].state = IF i = n THEN "completed" ELSE resv[r][i].state
  BY <1>2, ResolveShape DEF IInv
<1>4. resv' = [resv EXCEPT ![r] = rs]
  BY DEF CompleteReservation
<1> HIDE DEF rs
<1>5. resv'[r] = rs /\ \A q \in Routes \ {r} : resv'[q] = resv[q]
  BY <1>4 DEF IInv, TypeOK
<1>6. a \in Agents
  <2>1. resv[r][n] \in Reservation
    BY <1>1 DEF Attempts
  <2> QED
    BY <2>1 DEF Reservation
<1>7. /\ agent'[a].status # "Engaged"
      /\ \A b \in Agents \ {a} : agent'[b] = agent[b]
  <2>1. agent \in [Agents -> AgentRow]
    BY DEF IInv, TypeOK
  <2>2. agent' = IF agent[a].status = "Engaged"
                 THEN [agent EXCEPT ![a] = [status |-> "WrapUp", until |-> WrapUpTime]]
                 ELSE agent
    BY DEF CompleteReservation
  <2> HIDE DEF a
  <2>3. CASE agent[a].status = "Engaged"
    BY <1>6, <2>1, <2>2, <2>3
  <2>4. CASE agent[a].status # "Engaged"
    BY <2>2, <2>4
  <2> QED
    BY <2>3, <2>4
<1> SUFFICES ASSUME ~ForcedPatches, NEW b \in Agents, agent'[b].status = "Engaged"
             PROVE  \E q \in Routes : \E i \in 1..Len(resv'[q]) :
                        resv'[q][i].agent = b /\ resv'[q][i].state = "accepted"
  BY DEF ServeInv, Talks, Attempts
<1>8. b # a /\ agent[b].status = "Engaged"
  BY <1>7
<1>9. PICK q \in Routes : \E i \in Attempts(q) : Talks(b, q, i)
  BY <1>8 DEF ServeInv
<1>10. PICK i \in Attempts(q) : Talks(b, q, i)
  BY <1>9
<1>11. CASE q = r
  <2>1. i # n
    BY <1>8, <1>10, <1>11 DEF Talks
  <2> QED
    BY <1>3, <1>5, <1>10, <1>11, <2>1 DEF Talks, Attempts
<1>12. CASE q # r
  BY <1>5, <1>10, <1>12 DEF Talks, Attempts
<1> QED
  BY <1>11, <1>12

\* A patch without force engages nobody.
LEMMA PatchServes ==
    ASSUME IInv, ServeInv, NEW a \in Agents, NEW to \in Statuses, PatchAgentStatus(a, to)
    PROVE  ServeInv'
<1>1. TalksGoOn
  BY DEF PatchAgentStatus, TalksGoOn, Attempts
<1>2. ForcedPatches \/ to # "Engaged"
  BY DEF PatchAgentStatus, Matrix
<1>3. \A b \in Agents : agent'[b].status = IF b = a THEN to ELSE agent[b].status
  BY DEF PatchAgentStatus, IInv, TypeOK
<1> QED
  BY <1>1, <1>2, <1>3, ServesOn

\* Every step keeps engaged agents serving: one case per action of Next.
LEMMA NextServes == IInv /\ ServeInv /\ [Next]_vars => ServeInv'
<1> SUFFICES ASSUME IInv, ServeInv, [Next]_vars PROVE ServeInv'
  OBVIOUS
<1>1. slots \in SlotTable
  BY DEF IInv, TypeOK
<1>2. ASSUME TalksGoOn, UNCHANGED agent PROVE ServeInv'
  BY <1>2, ServesOn
<1>3. ASSUME UNCHANGED resv PROVE TalksGoOn
  BY <1>3 DEF TalksGoOn, Attempts
<1>4. ASSUME NEW r \in Routes,
             CreateRouteRequest(r) \/ SubmitRouteInput(r) \/ FallbackExpiredRoute(r)
      PROVE  ServeInv'
  <2>1. Settled(resv[r])
    BY <1>4, NothingOffered DEF CreateRouteRequest, SubmitRouteInput, FallbackExpiredRoute
  <2>2. \E signal, scripted : RunFlow(r, signal, scripted, resv[r], slots, timers)
    BY <1>4 DEF CreateRouteRequest, SubmitRouteInput, FallbackExpiredRoute, Resume
  <2>3. TalksGoOn
    BY <1>1, <2>1, <2>2, FlowTalks
  <2> QED
    BY <1>2, <1>4, <2>3 DEF CreateRouteRequest, SubmitRouteInput, FallbackExpiredRoute
<1>5. ASSUME NEW r \in Routes, NEW n \in Attempts(r), AcceptReservation(r, n)
      PROVE  ServeInv'
  <2>1. Confirm(slots, <<r, n>>) \in SlotTable
    BY <1>1, ConfirmTable
  <2>2. /\ OnOffer(r, n)
        /\ RunFlow(r, "accepted", FALSE, Resolve(r, n, "accepted"),
                   Confirm(slots, <<r, n>>), timers)
    BY <1>5 DEF AcceptReservation, Resume
  <2>3. /\ TalksGoOn
        /\ n \in 1..Len(resv'[r])
        /\ resv'[r][n].agent = resv[r][n].agent
        /\ resv'[r][n].state = "accepted"
    BY <2>1, <2>2, AnswerTalks
  <2>4. \A b \in Agents \ {resv[r][n].agent} : agent'[b] = agent[b]
    BY <1>5 DEF AcceptReservation, IInv, TypeOK
  <2>5. ASSUME NEW b \in Agents, agent'[b].status = "Engaged"
        PROVE  \/ agent[b].status = "Engaged"
               \/ \E q \in Routes : \E i \in 1..Len(resv'[q]) :
                      resv'[q][i].agent = b /\ resv'[q][i].state = "accepted"
    BY <2>3, <2>4, <2>5
  <2> QED
    BY <2>3, <2>5, ServesOn
<1>6. ASSUME NEW r \in Routes, NEW n \in Attempts(r), RejectReservation(r, n)
      PROVE  ServeInv'
  <2>1. Release(slots, <<r, n>>) \in SlotTable
    BY <1>1, ReleaseTable
  <2>2. TalksGoOn
    BY <1>6, <2>1, AnswerTalks DEF RejectReservation, Resume
  <2> QED
    BY <1>2, <1>6, <2>2 DEF RejectReservation
<1>7. ASSUME NEW r \in Routes, NEW n \in Attempts(r), CompleteReservation(r, n)
      PROVE  ServeInv'
  BY <1>7, CompleteServes
<1>8. ASSUME NEW t \in timers, FireReservationTimeout(t) PROVE ServeInv'
  <2> DEFINE r == t.route
             n == t.attempt
  <2>1. /\ r \in Routes
        /\ n \in Attempts(r)
    BY <1>8 DEF FireReservationTimeout, IInv, TypeOK, Timer, TimerInv
  <2>2. /\ OnOffer(r, n)
        /\ RunFlow(r, "timeout", FALSE, Resolve(r, n, "timeout"),
                   Release(slots, <<r, n>>), timers \ {t})
    BY <1>8, <2>1 DEF FireReservationTimeout, Resume, OnOffer, Current, IInv,
                      RouteInv, Parked, Attempts
  <2>3. Release(slots, <<r, n>>) \in SlotTable
    BY <1>1, ReleaseTable
  <2>4. UNCHANGED agent
    BY <1>8 DEF FireReservationTimeout
  <2> HIDE DEF r, n
  <2>5. TalksGoOn
    BY <2>1, <2>2, <2>3, AnswerTalks
  <2> QED
    BY <1>2, <2>4, <2>5
<1>9. ASSUME NEW t \in timers, FireWait(t) PROVE ServeInv'
  <2> DEFINE r == t.route
  <2>1. r \in Routes /\ route[r].current = Null
    BY <1>9 DEF FireWait, IInv, TypeOK, Timer, TimerInv
  <2>2. Settled(resv[r])
    BY <2>1, NothingOffered
  <2>3. RunFlow(r, "", FALSE, resv[r], slots, timers \ {t})
    BY <1>9 DEF FireWait, Resume
  <2> HIDE DEF r
  <2>4. TalksGoOn
    BY <1>1, <2>1, <2>2, <2>3, FlowTalks
  <2> QED
    BY <1>2, <1>9, <2>4 DEF FireWait
<1>10. ASSUME NEW r \in Routes, NEW a \in Agents, MatcherOffer(r, a) PROVE ServeInv'
  <2>1. resv' = [resv EXCEPT ![r] = Append(resv[r], Offer(a, OfferWindow(r)))]
    BY <1>10 DEF MatcherOffer
  <2>2. /\ resv'[r] = Append(resv[r], Offer(a, OfferWindow(r)))
        /\ \A q \in Routes \ {r} : resv'[q] = resv[q]
    BY <2>1 DEF IInv, TypeOK
  <2>3. TalksGoOn
    <3>1. resv[r] \in Seq(Reservation) /\ Len(resv[r]) \in Nat
      BY DEF IInv, TypeOK
    <3> DEFINE x == Offer(a, OfferWindow(r))
    <3>2. resv[r] \in Seq(Reservation \cup {x}) /\ x \in Reservation \cup {x}
      BY <3>1
    <3> HIDE DEF x
    <3>3. /\ Len(Append(resv[r], x)) = Len(resv[r]) + 1
          /\ \A i \in 1..Len(resv[r]) : Append(resv[r], x)[i] = resv[r][i]
      BY <3>2, AppendProperties
    <3> QED
      BY <2>2, <3>1, <3>3 DEF TalksGoOn, Attempts, x
  <2> QED
    BY <1>2, <1>10, <2>3 DEF MatcherOffer
<1>11. ASSUME NEW a \in Agents, NEW to \in Statuses, PatchAgentStatus(a, to)
       PROVE  ServeInv'
  BY <1>11, PatchServes
<1>12. ASSUME NEW a \in Agents, ExpireWrapUp(a) PROVE ServeInv'
  <2>1. \A b \in Agents : agent'[b].status = "Engaged" => agent[b].status = "Engaged"
    BY <1>12 DEF ExpireWrapUp, IInv, TypeOK
  <2>2. UNCHANGED resv
    BY <1>12 DEF ExpireWrapUp
  <2> QED
    BY <1>3, <2>1, <2>2, ServesOn
<1>13. CASE Tick
  <2>1. \A r \in Routes : /\ Len(resv'[r]) = Len(resv[r])
                          /\ \A n \in 1..Len(resv[r]) :
                                 /\ resv'[r][n].agent = resv[r][n].agent
                                 /\ resv'[r][n].state = resv[r][n].state
    BY <1>13, TickKeeps
  <2>2. TalksGoOn
    BY <2>1 DEF TalksGoOn, Attempts
  <2>3. \A b \in Agents : agent'[b].status = agent[b].status
    BY <1>13 DEF Tick, IInv, TypeOK, AgentRow
  <2> QED
    BY <2>2, <2>3, ServesOn
<1>14. ASSUME \/ SweepCapacity
              \/ \E r \in Routes : CreateUnboundRoute(r)
              \/ \E t \in timers : DropStaleTimer(t)
              \/ \E a \in Agents : Connect(a) \/ Disconnect(a)
              \/ UNCHANGED vars
       PROVE  ServeInv'
  <2>1. UNCHANGED <<resv, agent>>
    BY <1>14 DEF SweepCapacity, CreateUnboundRoute, DropStaleTimer, Connect,
                 Disconnect, vars
  <2> QED
    BY <1>2, <1>3, <2>1
<1> QED
  BY <1>4, <1>5, <1>6, <1>7, <1>8, <1>9, <1>10, <1>11, <1>12, <1>13, <1>14 DEF Next

\* Without force, no agent is left Engaged by a completion, a lost answer or a
\* patch: whoever is Engaged has an accepted interaction.
THEOREM EngagedAgentsServe == Spec => []EngagedServes
<1>1. Init => ServeInv
  BY DEF Init, ServeInv
<1>2. Spec => []ServeInv
  BY <1>1, Invariance, NextServes, PTL DEF Spec
<1>3. IInv /\ ServeInv => EngagedServes
  <2> SUFFICES ASSUME IInv, ServeInv, ~ForcedPatches, NEW a \in Agents,
                      agent[a].status = "Engaged"
               PROVE  \E r \in Routes : a \in AgentsIn(resv[r], {"accepted"})
    BY DEF EngagedServes
  <2>1. PICK r \in Routes : \E n \in Attempts(r) : Talks(a, r, n)
    BY DEF ServeInv
  <2>4. PICK n \in Attempts(r) : Talks(a, r, n)
    BY <2>1
  <2>2. n \in DOMAIN resv[r] /\ resv[r][n].state = "accepted" /\ resv[r][n].agent = a
    BY <2>4 DEF Talks, Attempts, IInv, TypeOK
  <2>3. a \in AgentsIn(resv[r], {"accepted"})
    BY <2>2, Zenon DEF AgentsIn
  <2> QED
    BY <2>3
<1> QED
  BY <1>2, <1>3, Invariance, PTL
=============================================================================
