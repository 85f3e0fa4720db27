---------------------------- MODULE AgentCommand ----------------------------
(***************************************************************************)
(* The agents' command channel over the routing engine: an agent's accept, *)
(* reject or complete reaches the gateway over one of its connections and  *)
(* runs in one transaction with the row that makes it idempotent.  A       *)
(* client that has no answer, or lost its connection, sends the command    *)
(* again, on any connection and while the first one may still be running.  *)
(*                                                                         *)
(* A command transaction is two steps.  It begins by claiming the          *)
(* command's id, which other transactions wait for, and by looking at its  *)
(* session; what it does to the route and the reservation is decided under *)
(* the route's row lock and visible at its commit.                         *)
(*                                                                         *)
(* The agents here answer over the command channel only, are Ready and     *)
(* connected at first, and change no status by hand.                       *)
(***************************************************************************)
EXTENDS RoutingEngine

CONSTANTS
    Sessions,    \* session ids, each of one connection
    Commands     \* the command frames clients send: [agent, client_msg_id,
                 \* kind, route, attempt, lease]

ASSUME CommandsAssumption ==
    \A c \in Commands : /\ c.agent \in Agents
                        /\ c.kind \in {"accept", "reject", "complete"}
                        /\ c.route \in Routes
                        /\ c.attempt \in Nat
                        /\ c.lease \in BOOLEAN   \* echoes the offer's token

VARIABLES
    session,     \* the agent_sessions row of each session id
    work,        \* what the connection's read loop is running, or Null
    command,     \* the ws_command_dedupe rows, by agent and client_msg_id
    answers      \* the acknowledgements computed so far

engine == <<route, resv, slots, timers, agent, connected, cooldown>>
channel == <<session, work, command, answers>>
commandVars == <<engine, channel>>

-----------------------------------------------------------------------------
NoSession == [agent |-> Null, open |-> FALSE, live |-> FALSE]

Key(c) == <<c.agent, c.client_msg_id>>

Keys == {Key(c) : c \in Commands}

\* The hash binds an id to the frame's type and reservation, not to its token.
RequestHash(c) == <<c.kind, c.route, c.attempt>>

\* A command's row: what its id was claimed for and how that came out.
CommandRow ==
    [hash : {RequestHash(c) : c \in Commands},
     result : {"accepted", "rejected", "completed", "conflict", "not_found",
               "not_owner", "lease_mismatch"}]

\* No row: Null is none.
ASSUME NoRowAssumption == Null \notin CommandRow

Claimed(s) == work[s] # Null /\ work[s].claimed

\* Bug: the id is looked up without waiting for a claim still uncommitted.
UnclaimedOrNot(c) == TRUE

\* No open transaction holds the id: its unique index makes a duplicate wait.
Unclaimed(c) == \A s \in Sessions : Claimed(s) => Key(work[s].cmd) # Key(c)

-----------------------------------------------------------------------------
(* Connections *)

OpenSession(s, a) ==
    /\ session[s] = NoSession
    /\ session' = [session EXCEPT ![s] = [agent |-> a, open |-> TRUE, live |-> TRUE]]
    /\ UNCHANGED <<engine, work, command, answers>>

\* The read loop has returned: the handler it was in has answered or given up.
CloseSession(s) ==
    /\ session[s].open
    /\ work[s] = Null
    /\ session' = [session EXCEPT ![s].open = FALSE, ![s].live = FALSE]
    /\ UNCHANGED <<engine, work, command, answers>>

\* The session inventory is shared: a session can be ended under a connection.
RevokeSession(s) ==
    /\ session[s].live
    /\ session' = [session EXCEPT ![s].live = FALSE]
    /\ UNCHANGED <<engine, work, command, answers>>

\* A frame arrives, for the first time or again.
ReceiveCommand(s, c) ==
    /\ session[s].open
    /\ session[s].agent = c.agent
    /\ work[s] = Null
    /\ work' = [work EXCEPT ![s] = [cmd |-> c, claimed |-> FALSE]]
    /\ UNCHANGED <<engine, session, command, answers>>

-----------------------------------------------------------------------------
(* The command transaction *)

Answer(s, c, status) ==
    /\ work' = [work EXCEPT ![s] = Null]
    /\ answers' = answers \cup {[key |-> Key(c), hash |-> RequestHash(c), status |-> status]}

ReplayCommand(s) ==
    /\ work[s] # Null
    /\ ~work[s].claimed
    /\ LET c == work[s].cmd IN
       /\ Unclaimed(c)
       /\ command[Key(c)] # Null
       /\ Answer(s, c, IF command[Key(c)].hash = RequestHash(c)
                       THEN command[Key(c)].result ELSE "reused_id")
    /\ UNCHANGED <<engine, session, command>>

\* A revoked session's claim is rolled back, so a later connection can retry.
RefuseCommand(s) ==
    /\ work[s] # Null
    /\ ~work[s].claimed
    /\ LET c == work[s].cmd IN
       /\ Unclaimed(c)
       /\ command[Key(c)] = Null
       /\ ~session[s].live
       /\ Answer(s, c, "session_revoked")
    /\ UNCHANGED <<engine, session, command>>

BeginCommand(s) ==
    /\ work[s] # Null
    /\ ~work[s].claimed
    /\ LET c == work[s].cmd IN
       /\ Unclaimed(c)
       /\ command[Key(c)] = Null
    /\ session[s].live
    /\ work' = [work EXCEPT ![s].claimed = TRUE]
    /\ UNCHANGED <<engine, session, command, answers>>

\* A lost connection or an infrastructure error rolls the transaction back.
AbortCommand(s) ==
    /\ work[s] # Null
    /\ work' = [work EXCEPT ![s] = Null]
    /\ UNCHANGED <<engine, session, command, answers>>

\* Bug: what came of the command is not kept under its id.
FinishUnrecorded(s, status) ==
    /\ Answer(s, work[s].cmd, status)
    /\ UNCHANGED <<session, command>>

\* The row and the answer of a command commit with whatever it changed.
FinishCommand(s, status) ==
    LET c == work[s].cmd IN
    /\ command' = [command EXCEPT ![Key(c)] = [hash |-> RequestHash(c), result |-> status]]
    /\ Answer(s, c, status)
    /\ UNCHANGED session

\* Bug: any agent may answer an offer whose id it knows.
KnownReservation(c) == c.attempt \in Attempts(c.route)

OwnReservation(c) ==
    /\ c.attempt \in Attempts(c.route)
    /\ resv[c.route][c.attempt].agent = c.agent

Addressed(s) == Claimed(s) /\ OwnReservation(work[s].cmd) /\ work[s].cmd.lease

\* A command that names no reservation, another agent's, or echoes an old token.
MisaddressedCommand(s) ==
    /\ Claimed(s)
    /\ LET c == work[s].cmd IN
       \/ c.attempt \notin Attempts(c.route) /\ FinishCommand(s, "not_found")
       \/ /\ c.attempt \in Attempts(c.route)
          /\ ~OwnReservation(c)
          /\ FinishCommand(s, "not_owner")
       \/ OwnReservation(c) /\ ~c.lease /\ FinishCommand(s, "lease_mismatch")
    /\ UNCHANGED engine

AcceptCommand(s) ==
    /\ Addressed(s)
    /\ work[s].cmd.kind = "accept"
    /\ AcceptReservation(work[s].cmd.route, work[s].cmd.attempt)
    /\ FinishCommand(s, "accepted")

RejectCommand(s) ==
    /\ Addressed(s)
    /\ work[s].cmd.kind = "reject"
    /\ RejectReservation(work[s].cmd.route, work[s].cmd.attempt)
    /\ FinishCommand(s, "rejected")

CompleteCommand(s) ==
    /\ Addressed(s)
    /\ work[s].cmd.kind = "complete"
    /\ CompleteReservation(work[s].cmd.route, work[s].cmd.attempt)
    /\ FinishCommand(s, "completed")

\* What the reservation and the route must be for the command to take effect.
Effective(c) ==
    LET r == c.route
        n == c.attempt
    IN  CASE c.kind = "accept" -> /\ OnOffer(r, n)
                                  /\ Ahead(resv[r][n].ttl)
                                  /\ Confirmable(c.agent, <<r, n>>)
          [] c.kind = "reject" -> OnOffer(r, n)
          [] c.kind = "complete" -> resv[r][n].state = "accepted"

\* Bug: no savepoint: the lock the conflicting command took is committed.
RollbackNothing(r) ==
    /\ route' = [route EXCEPT ![r].status = IF @ = "waiting" THEN "running" ELSE @]
    /\ UNCHANGED <<resv, slots, timers, agent, connected, cooldown>>

\* The savepoint undoes the lock on the route with everything under it.
RollbackToSavepoint(r) == UNCHANGED <<route, resv, slots, timers, agent, connected, cooldown>>

ConflictingCommand(s) ==
    /\ Addressed(s)
    /\ ~Effective(work[s].cmd)
    /\ RollbackToSavepoint(work[s].cmd.route)
    /\ FinishCommand(s, "conflict")

-----------------------------------------------------------------------------
(* What goes on beside the channel: routes, the worker, the sweep and time. *)
EngineStep ==
    \/ \E r \in Routes : CreateRouteRequest(r)
    \/ \E t \in timers : DropStaleTimer(t)
    \/ \E t \in timers : FireReservationTimeout(t)
    \/ SweepCapacity
    \/ Tick

CommandInit ==
    /\ route = [r \in Routes |-> NoRoute]
    /\ resv = [r \in Routes |-> <<>>]
    /\ slots = [a \in Agents |-> [k \in SlotNos |-> FreeSlot]]
    /\ timers = {}
    /\ agent = [a \in Agents |-> [status |-> "Ready", until |-> Null]]
    /\ connected = Agents
    /\ cooldown = [a \in Agents |-> 0]
    /\ session = [s \in Sessions |-> NoSession]
    /\ work = [s \in Sessions |-> Null]
    /\ command = [k \in Keys |-> Null]
    /\ answers = {}

CommandNext ==
    \/ EngineStep /\ UNCHANGED channel
    \/ \E s \in Sessions, a \in Agents : OpenSession(s, a)
    \/ \E s \in Sessions : CloseSession(s)
    \/ \E s \in Sessions : RevokeSession(s)
    \/ \E s \in Sessions, c \in Commands : ReceiveCommand(s, c)
    \/ \E s \in Sessions : ReplayCommand(s)
    \/ \E s \in Sessions : RefuseCommand(s)
    \/ \E s \in Sessions : BeginCommand(s)
    \/ \E s \in Sessions : AbortCommand(s)
    \/ \E s \in Sessions : MisaddressedCommand(s)
    \/ \E s \in Sessions : AcceptCommand(s)
    \/ \E s \in Sessions : RejectCommand(s)
    \/ \E s \in Sessions : CompleteCommand(s)
    \/ \E s \in Sessions : ConflictingCommand(s)

CommandSpec == CommandInit /\ [][CommandNext]_commandVars

-----------------------------------------------------------------------------
\* However often and over however many connections a command is sent, all its
\* answers agree (a revoked session's refusal is no answer to the command).
StableAnswer ==
    \A x, y \in answers :
        (/\ x.key = y.key
         /\ x.hash = y.hash
         /\ {x.status, y.status} \cap {"session_revoked", "reused_id"} = {})
        => x.status = y.status

\* The ids whose command had the given outcome on attempt n of route r.
Recorded(r, n, kind, status) ==
    {k \in Keys : /\ command[k] # Null
                  /\ command[k].hash = <<kind, r, n>>
                  /\ command[k].result = status}

OneOwnCommand(r, n, kind, status) ==
    \E k \in Keys : /\ Recorded(r, n, kind, status) = {k}
                    /\ k[1] = resv[r][n].agent

\* The command rows and the reservations tell one story: each outcome is recorded
\* for exactly one command of the agent who was asked, and no row claims an
\* outcome its reservation does not have.
OutcomeIsRecorded ==
    \A r \in Routes : \A n \in Attempts(r) :
        /\ IF resv[r][n].state \in {"accepted", "completed"}
           THEN OneOwnCommand(r, n, "accept", "accepted")
           ELSE Recorded(r, n, "accept", "accepted") = {}
        /\ IF resv[r][n].state = "completed"
           THEN OneOwnCommand(r, n, "complete", "completed")
           ELSE Recorded(r, n, "complete", "completed") = {}
        /\ IF resv[r][n].state = "rejected"
           THEN OneOwnCommand(r, n, "reject", "rejected")
           ELSE Recorded(r, n, "reject", "rejected") = {}
=============================================================================
