----------------------------- MODULE RouteFlow -----------------------------
(***************************************************************************)
(* The executor's walk over a published flow, as far as it decides what a  *)
(* live route does next.  A flow is reduced to the nodes that can stop a   *)
(* live run, in the order the walk meets them:                             *)
(*                                                                         *)
(*   "reservation"  offers an agent and parks until it answers             *)
(*   "wait"         parks until a timer is due                             *)
(*   "input"        an interactive-input node: parks for a value           *)
(*   "fault"        a node whose domain failure nothing catches            *)
(*                                                                         *)
(* A node that lets the run through leads to the next one.  A reservation  *)
(* left by no_candidate or timeout and an input left by its timeout lead   *)
(* to a fallback that ends the flow, the shape the designer's templates    *)
(* use.  Nodes that only read or compute never stop a run and are left out *)
(* (region bodies too: validateSuspendScope keeps agents and callers out   *)
(* of them).                                                               *)
(***************************************************************************)
EXTENDS Integers, Sequences

CONSTANT Flow         \* the suspending nodes of the flow, in walk order

Kinds == {"reservation", "wait", "input", "fault"}

ASSUME FlowAssumption == Flow \in Seq(Kinds)

End == Len(Flow) + 1  \* the position past the last suspending node

(***************************************************************************)
(* A run is resumed with the cursor it was parked at, the signal of the    *)
(* agent or timer ("", accepted, rejected, timeout or no_candidate), and   *)
(* whether a submitted value is pinned to the cursor's node.  A first run  *)
(* has cursor 0, no node's number.                                         *)
(*                                                                         *)
(* Every resume walks again from the entry.  Only the node the cursor      *)
(* names sees the signal, and only once, so every other node behaves as it *)
(* did on the first run.                                                   *)
(***************************************************************************)
Passes(i, cursor, signal, scripted) ==
    /\ i = cursor
    /\ \/ Flow[i] = "wait"
       \/ Flow[i] = "input" /\ scripted
       \/ Flow[i] = "reservation" /\ signal = "accepted"

\* The node at which the walk from the entry stops, or End.
StopAt(cursor, signal, scripted) ==
    CHOOSE n \in 1..End :
        /\ n = End \/ ~Passes(n, cursor, signal, scripted)
        /\ \A i \in 1..(n - 1) : Passes(i, cursor, signal, scripted)

(***************************************************************************)
(* The parked node gives up: an input whose timer fired takes its timeout  *)
(* port, a reservation told no_candidate by the SLA sweep its no_candidate *)
(* port.  Both reach the fallback and complete the flow.                   *)
(***************************************************************************)
GivesUp(n, cursor, signal) ==
    /\ n = cursor
    /\ \/ Flow[n] = "input"
       \/ Flow[n] = "reservation" /\ signal = "no_candidate"

Parkable == {i \in 1..Len(Flow) : Flow[i] \in {"wait", "input"}}
Offering == {i \in 1..Len(Flow) : Flow[i] = "reservation"}
=============================================================================
