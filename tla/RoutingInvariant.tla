-------------------------- MODULE RoutingInvariant --------------------------
(***************************************************************************)
(* The inductive invariant.  OfferIsParked, OneWinner and NoRepeatedOffer  *)
(* are not inductive by themselves: a wait timer must not resume a route   *)
(* parked on an offer, which the fence excludes, and what the matcher may  *)
(* not offer again is what the route row remembers, not what the           *)
(* reservations say.                                                       *)
(***************************************************************************)
EXTENDS RoutingEngine

Parked(row, rs) ==
    \A n \in 1..Len(rs) :
        rs[n].state = "offered" <=> row.status = "waiting" /\ row.current = n

OneActive(rs) ==
    \A m, n \in 1..Len(rs) :
        (rs[m].state \in Active /\ rs[n].state \in Active) => m = n

AskedOnce(rs) ==
    \A m, n \in 1..Len(rs) : rs[m].agent = rs[n].agent => m = n

\* The queue remembers, besides a deadline, every agent that was asked in vain.
QueueRemembers(row, rs) ==
    row.status = "waiting_match" => /\ row.deadline # Null
                                    /\ row.excluded = AgentsIn(rs, Resolved)

RouteInv(row, rs) ==
    /\ Parked(row, rs)
    /\ OneActive(rs)
    /\ AskedOnce(rs)
    /\ QueueRemembers(row, rs)

\* No timer is ahead of its route's fence, a timer of an offer names one, and a
\* wait timer that passes the fence finds the route parked on no offer.
TimerInv(t) ==
    /\ t.seq <= route[t.route].run_seq
    /\ t.kind = "reservation_timeout" => t.attempt \in Attempts(t.route)
    /\ t.kind = "wait" /\ Current(t) => route[t.route].current = Null

\* The invariant every transaction keeps: typed rows, each route's row and its
\* reservations in agreement, the matcher's counter never ahead of the attempts
\* made, and every timer fenced.
IInv ==
    /\ TypeOK
    /\ \A r \in Routes : RouteInv(route[r], resv[r])
    /\ \A r \in Routes : route[r].match_attempt_seq <= Len(resv[r])
    /\ \A t \in timers : TimerInv(t)
=============================================================================
