------------------------- MODULE RoutingRefinement -------------------------
(***************************************************************************)
(* The routing engine implements Assignment.  The reservation rows decide  *)
(* who is asked, who won and whose interaction is live; the route row's    *)
(* status whether the flow has ended.  Slots, timers, sweeps, the queue    *)
(* and the agents' own states are the engine's business: their steps       *)
(* stutter here.                                                           *)
(***************************************************************************)
EXTENDS RoutingEngine

\* Where no agent is, none is named.
ASSUME NobodyAssumption == Null \notin Agents

\* The agent of the one reservation of r in one of `states', or Null.
AgentOf(r, states) ==
    IF AgentsIn(resv[r], states) = {} THEN Null
    ELSE CHOOSE a \in AgentsIn(resv[r], states) : TRUE

InState(r, state) == \E n \in Attempts(r) : resv[r][n].state = state

A == INSTANCE Assignment WITH
         Nobody  <- Null,
         asked   <- [r \in Routes |-> OfferedAgents(resv[r])],
         asking  <- [r \in Routes |-> AgentOf(r, {"offered"})],
         winner  <- [r \in Routes |-> AgentOf(r, {"accepted", "completed"})],
         serving <- {r \in Routes : InState(r, "accepted")},
         ended   <- {r \in Routes : route[r].status \in Terminal}

\* The engine keeps the promises of Assignment, step by step.
Implements == A!ASpec
=============================================================================
