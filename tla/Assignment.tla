----------------------------- MODULE Assignment -----------------------------
(***************************************************************************)
(* What the routing engine promises of the assignment of interactions to   *)
(* agents, with no rows, timers, slots or queue:                           *)
(*                                                                         *)
(*   - a route asks one agent at a time, and no agent twice;               *)
(*   - once an agent has accepted, nobody else is asked;                   *)
(*   - an agent never serves more than Capacity interactions at once;      *)
(*   - a route that has ended asks nobody.                                 *)
(***************************************************************************)
EXTENDS Integers, FiniteSets

CONSTANTS Routes, Agents, Capacity, Nobody

VARIABLES
    asked,      \* the agents each route has asked
    asking,     \* the agent it is asking now, or Nobody
    winner,     \* the agent who accepted it, or Nobody
    serving,    \* the routes whose interaction is live
    ended       \* the routes whose flow has ended

avars == <<asked, asking, winner, serving, ended>>

AInit ==
    /\ asked = [r \in Routes |-> {}]
    /\ asking = [r \in Routes |-> Nobody]
    /\ winner = [r \in Routes |-> Nobody]
    /\ serving = {}
    /\ ended = {}

Load(a) == Cardinality({r \in serving : winner[r] = a})

\* Nobody is asked by r after this step ...
Rest(r) ==
    /\ asking' = [asking EXCEPT ![r] = Nobody]
    /\ UNCHANGED asked

\* ... or one agent who was not asked before is.
Ask(r) ==
    /\ winner[r] = Nobody
    /\ \E a \in Agents \ asked[r] :
           /\ asking' = [asking EXCEPT ![r] = a]
           /\ asked' = [asked EXCEPT ![r] = @ \cup {a}]

\* The agent asked, if any, declined or did not answer: the route asks the next
\* one in the same step, rests, or ends.
Advance(r) ==
    /\ r \notin ended
    /\ \/ Ask(r) /\ UNCHANGED ended
       \/ Rest(r) /\ ended' \in {ended, ended \cup {r}}
    /\ UNCHANGED <<winner, serving>>

Accept(r) ==
    /\ r \notin ended
    /\ asking[r] # Nobody
    /\ winner[r] = Nobody
    /\ Load(asking[r]) < Capacity
    /\ winner' = [winner EXCEPT ![r] = asking[r]]
    /\ serving' = serving \cup {r}
    /\ Rest(r)
    /\ ended' \in {ended, ended \cup {r}}

\* The interaction is over; the flow of the route need not be.
Complete(r) ==
    /\ r \in serving
    /\ serving' = serving \ {r}
    /\ UNCHANGED <<asked, asking, winner, ended>>

ANext == \E r \in Routes : Advance(r) \/ Accept(r) \/ Complete(r)

ASpec == AInit /\ [][ANext]_avars
=============================================================================
