--------------------------- MODULE MCAgentCommand ---------------------------
(* One route, two agents and the frames their clients send: duplicates, an *)
(* id reused for another command, an answer to the other agent's offer and *)
(* an answer with an old token.                                            *)
EXTENDS CommandRefinement, TLC

CONSTANTS r1, a1, a2, m1, m2

ReservationFlow == <<"reservation">>

Frame(a, m, kind, n, lease) ==
    [agent |-> a, client_msg_id |-> m, kind |-> kind, route |-> r1,
     attempt |-> n, lease |-> lease]

Symmetry == Permutations(Sessions)

Frames ==
    {Frame(a1, m1, "accept", 1, TRUE), Frame(a1, m1, "reject", 1, TRUE),
     Frame(a1, m2, "complete", 1, TRUE), Frame(a2, m1, "accept", 1, TRUE),
     Frame(a2, m2, "accept", 2, TRUE), Frame(a2, m2, "accept", 2, FALSE)}
=============================================================================
