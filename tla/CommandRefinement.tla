------------------------- MODULE CommandRefinement -------------------------
(***************************************************************************)
(* What the command channel implements.  Towards the routes it is the      *)
(* routing engine, and keeps what the engine promises.  Towards the agents *)
(* it is CommandOnce: the dedupe row is the command's outcome, and the     *)
(* reservation rows hold the decisions; sessions, claims, aborts and what  *)
(* goes on beside the channel stutter.                                     *)
(***************************************************************************)
EXTENDS AgentCommand, RoutingRefinement

Outcomes == {"accepted", "rejected", "completed"}

\* What attempt n of route r was decided to be.
DecidedAs(r, n) == <<r, n, resv[r][n].agent, resv[r][n].state>>

Decisions ==
    UNION {{DecidedAs(r, n) : n \in {m \in Attempts(r) : resv[r][m].state \in Outcomes}} :
           r \in Routes}

O == INSTANCE CommandOnce WITH
         Ids     <- Keys,
         Sent    <- {<<Key(c), RequestHash(c)>> : c \in Commands},
         None    <- Null,
         outcome <- command,
         decided <- Decisions,
         told    <- answers

\* Every command is decided once, whatever is lost, repeated or interleaved, and
\* whoever else works on its reservation meanwhile (command.go).
CommandsAreDecidedOnce == O!OSpec
=============================================================================
