------------------------- MODULE GatewayRefinement -------------------------
(***************************************************************************)
(* The gateway implements OrderedDelivery: the committed outbox rows are   *)
(* the log, what the relay has put on a connection is what it sent, the    *)
(* send buffer is the line, and the client's rows are what it got.         *)
(* Uncommitted rows, hellos, batches, heartbeats and the lease stutter.    *)
(***************************************************************************)
EXTENDS Gateway

D == INSTANCE OrderedDelivery WITH
         Numbers  <- 1..MaxRows,
         Greeting <- Welcome,
         log      <- outbox,
         sent     <- [c \in Conns |-> conn[c].sent],
         line     <- [c \in Conns |-> conn[c].send],
         got      <- client.received

\* Whatever order the offers commit in, and however connections overlap, overflow,
\* break and are replayed, the client sees the rows in order, with none left out, and
\* none twice on one connection (gateway.go, ws.sql).
DeliversInOrder == D!DSpec
=============================================================================
