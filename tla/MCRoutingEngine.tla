-------------------------- MODULE MCRoutingEngine --------------------------
(* Instances of RoutingEngine for TLC: the flows, and the interchangeable *)
(* route requests and agents.                                             *)
EXTENDS RoutingInvariant, RoutingRefinement, TLC

ReservationFlow == <<"reservation">>

MenuFlow == <<"input", "reservation", "fault">>

\* A replayed flow parks again and again: the bound on the parks explored.
MaxParks == 4

FewParks == \A r \in Routes : route[r].run_seq <= MaxParks

Symmetry == Permutations(Routes) \cup Permutations(Agents)
=============================================================================
