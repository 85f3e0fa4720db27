---------------------------- MODULE CommandOnce ----------------------------
(***************************************************************************)
(* What the agents' command channel promises, with no connections,         *)
(* transactions, claims, routes or timers: a command is decided at one     *)
(* moment, once for all the times it is sent.  At that moment              *)
(*                                                                         *)
(*   - an accept or a reject decides a reservation nobody had decided, for *)
(*     the agent who sent it, and a complete finishes one that agent had   *)
(*     accepted, or the command is refused and decides nothing;            *)
(*   - what came of it becomes what every repetition is told.              *)
(*                                                                         *)
(* Nothing else decides a reservation, and no decision is taken back.      *)
(***************************************************************************)
CONSTANTS
    Ids,         \* what names a command: <<agent, client_msg_id>>
    Sent,        \* the commands clients send, each an id and what it asks:
                 \* <<kind, route, attempt>>
    None

VARIABLES
    outcome,     \* what each command was decided to be, or None
    decided,     \* the reservations decided: <<route, attempt, agent, state>>
    told         \* the answers given

ovars == <<outcome, decided, told>>

OInit ==
    /\ outcome = [k \in Ids |-> None]
    /\ decided = {}
    /\ told = {}

Tell(k, q, status) ==
    told' = told \cup {[key |-> k, hash |-> q, status |-> status]}

\* The one moment of command k.
Settle(k, q, status) ==
    /\ outcome[k] = None
    /\ outcome' = [outcome EXCEPT ![k] = [hash |-> q, result |-> status]]
    /\ Tell(k, q, status)

Decision(k, q, state) == <<q[2], q[3], k[1], state>>

\* An answer to an offer nobody has decided.
Answer(k, q, kind, state) ==
    /\ q[1] = kind
    /\ Settle(k, q, state)
    /\ \A d \in decided : <<d[1], d[2]>> # <<q[2], q[3]>>
    /\ decided' = decided \cup {Decision(k, q, state)}

Complete(k, q) ==
    /\ q[1] = "complete"
    /\ Settle(k, q, "completed")
    /\ Decision(k, q, "accepted") \in decided
    /\ decided' = (decided \ {Decision(k, q, "accepted")})
                  \cup {Decision(k, q, "completed")}

Refuse(k, q) ==
    /\ \E status \in {"conflict", "not_found", "not_owner", "lease_mismatch"} :
           Settle(k, q, status)
    /\ UNCHANGED decided

\* Sent again: the answer is the one it had, unless another command used the id.
Repeat(k, q) ==
    /\ outcome[k] # None
    /\ Tell(k, q, IF outcome[k].hash = q THEN outcome[k].result ELSE "reused_id")
    /\ UNCHANGED <<outcome, decided>>

\* Over a revoked session nothing is decided: the command may come again.
TurnAway(k, q) ==
    /\ outcome[k] = None
    /\ Tell(k, q, "session_revoked")
    /\ UNCHANGED <<outcome, decided>>

ONext ==
    \E f \in Sent :
        LET k == f[1]
            q == f[2]
        IN  \/ Answer(k, q, "accept", "accepted")
            \/ Answer(k, q, "reject", "rejected")
            \/ Complete(k, q)
            \/ Refuse(k, q)
            \/ Repeat(k, q)
            \/ TurnAway(k, q)

OSpec == OInit /\ [][ONext]_ovars
=============================================================================
