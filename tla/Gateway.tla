------------------------------ MODULE Gateway ------------------------------
(***************************************************************************)
(* The WebSocket gateway of one agent: the outbox the offer transactions   *)
(* append to, the relay and the writer of each connection, the agent's     *)
(* client, and the connection lease in the presence store.                 *)
(*                                                                         *)
(* A client that is logged on reconnects whenever it has no connection,    *)
(* holds one at a time, and as long as it does sends heartbeats well       *)
(* inside the lease's time to live.  The server learns later that a        *)
(* connection is gone, and may still read from it what the client had      *)
(* sent; connection slots are reused once torn down.  Bytes written to a   *)
(* socket reach the client unless the connection is cut first, in which    *)
(* case the client has not seen them.  Acknowledgements, which share the   *)
(* send buffer, and a presence store that fails are left out.              *)
(***************************************************************************)
EXTENDS Integers, Sequences, FiniteSets, FiniteSetsExt

CONSTANTS
    Conns,        \* connection slots
    Producers,    \* transactions that offer the agent a reservation
    SendBuffer,   \* frames a connection buffers
    BatchLimit,   \* rows the relay reads at once
    MaxRows,      \* bound: rows ever appended
    MaxFaults,    \* bound: cut connections and gateway crashes
    Null

ASSUME GatewayAssumption ==
    /\ SendBuffer \in Nat \ {0}
    /\ BatchLimit \in Nat \ {0}
    /\ MaxRows \in Nat
    /\ MaxFaults \in Nat
    /\ Null \notin Conns \cup Nat

VARIABLES
    outbox,       \* server_seq of the committed agent_outbox rows
    appending,    \* the server_seq of each producer's uncommitted row, or Null
    conn,         \* the server's side of each connection
    client,       \* the agent's client: whether it is logged on, its connection,
                  \* the last_server_seq it would say hello with, and the rows
                  \* it has received
    lease,        \* the connection the presence lease is stamped with, or Null
    faults        \* cuts and crashes so far

vars == <<outbox, appending, conn, client, lease, faults>>

-----------------------------------------------------------------------------
Welcome == 0      \* the welcome frame carries no server_seq

Idle == [state |-> "closed", beat |-> FALSE, hello |-> Null, started |-> FALSE,
         lastSeq |-> 0, rows |-> {}, send |-> <<>>, sent |-> {}]

Open(c) == conn[c].state = "open"

Serving(c) == Open(c) /\ client.conn = c

Detached == [client EXCEPT !.conn = Null]

-----------------------------------------------------------------------------
(* The offer transactions *)

\* Bug: server_seq from a global sequence: numbers in the order of the inserts,
\* rows visible in the order of the commits.
AppendNumbered(p) ==
    appending' = [appending EXCEPT ![p] =
        1 + Max({0} \cup outbox \cup ({appending[q] : q \in Producers} \ {Null}))]

\* The agent's advisory lock, held until the transaction ends, then MAX + 1.
AppendLocked(p) ==
    /\ \A q \in Producers : appending[q] = Null
    /\ appending' = [appending EXCEPT ![p] = 1 + Max({0} \cup outbox)]

AppendAgentOutbox(p) ==
    /\ appending[p] = Null
    /\ Cardinality(outbox) < MaxRows
    /\ AppendLocked(p)
    /\ UNCHANGED <<outbox, conn, client, lease, faults>>

CommitOffer(p) ==
    /\ appending[p] # Null
    /\ outbox' = outbox \cup {appending[p]}
    /\ appending' = [appending EXCEPT ![p] = Null]
    /\ UNCHANGED <<conn, client, lease, faults>>

RollbackOffer(p) ==
    /\ appending[p] # Null
    /\ appending' = [appending EXCEPT ![p] = Null]
    /\ UNCHANGED <<outbox, conn, client, lease, faults>>

-----------------------------------------------------------------------------
(* The client *)

\* The client says hello with the highest row it has seen; the server may read it
\* late.  A second hello on one connection is ignored by the read loop.
Connect(c) ==
    /\ client.on
    /\ client.conn = Null
    /\ conn[c].state = "closed"
    /\ conn' = [conn EXCEPT ![c] = [Idle EXCEPT !.state = "open", !.hello = client.last,
                                               !.send = <<Welcome>>]]
    /\ client' = [client EXCEPT !.conn = c]
    /\ lease' = c
    /\ UNCHANGED <<outbox, appending, faults>>

\* To log off from a connection is to cut it and to log off then.
LogOff ==
    /\ client.on
    /\ client.conn = Null
    /\ client' = [client EXCEPT !.on = FALSE]
    /\ UNCHANGED <<outbox, appending, conn, lease, faults>>

LogOn ==
    /\ ~client.on
    /\ client' = [client EXCEPT !.on = TRUE]
    /\ UNCHANGED <<outbox, appending, conn, lease, faults>>

SendHeartbeat(c) ==
    /\ Serving(c)
    /\ ~conn[c].beat
    /\ conn' = [conn EXCEPT ![c].beat = TRUE]
    /\ UNCHANGED <<outbox, appending, client, lease, faults>>

-----------------------------------------------------------------------------
(* The connection's goroutines *)

\* Bug: a heartbeat only extends a lease that is there.
RenewExisting(c) == lease' = IF lease = Null THEN Null ELSE c

\* A plain SET with the time to live: whoever renews last holds the lease.
Renew(c) == lease' = c

ReadHeartbeat(c) ==
    /\ Open(c)
    /\ conn[c].beat
    /\ conn' = [conn EXCEPT ![c].beat = FALSE]
    /\ Renew(c)
    /\ UNCHANGED <<outbox, appending, client, faults>>

\* Bug: the floor of a late hello rewinds behind what was sent already.
FloorAsTold(c) == conn[c].hello

\* A hello, even a late one, only ever raises the floor.
Floor(c) == Max({conn[c].hello, conn[c].lastSeq})

TakeHello(c) ==
    /\ Open(c)
    /\ conn[c].rows = {}
    /\ conn[c].hello # Null
    /\ conn' = [conn EXCEPT ![c].hello = Null, ![c].lastSeq = Floor(c),
                            ![c].started = TRUE]
    /\ UNCHANGED <<outbox, appending, client, lease, faults>>

\* A second without a hello: replay from the start.
Fallback(c) ==
    /\ Open(c)
    /\ ~conn[c].started
    /\ conn' = [conn EXCEPT ![c].started = TRUE]
    /\ UNCHANGED <<outbox, appending, client, lease, faults>>

Unread(c) == {n \in outbox : n > conn[c].lastSeq}

\* ORDER BY server_seq LIMIT n, taken in that order.
Batch(c) == {n \in Unread(c) : Cardinality({m \in Unread(c) : m <= n}) <= BatchLimit}

ReadAgentOutboxSince(c) ==
    /\ Open(c)
    /\ conn[c].started
    /\ conn[c].rows = {}
    /\ Unread(c) # {}
    /\ conn' = [conn EXCEPT ![c].rows = Batch(c)]
    /\ UNCHANGED <<outbox, appending, client, lease, faults>>

Enqueued(row) ==
    LET n == Min(row.rows)
    IN  [row EXCEPT !.send = Append(@, n), !.sent = @ \cup {n},
                    !.lastSeq = n, !.rows = @ \ {n}]

EnqueueFrame(c) ==
    /\ Open(c)
    /\ conn[c].rows # {}
    /\ Len(conn[c].send) < SendBuffer
    /\ conn' = [conn EXCEPT ![c] = Enqueued(@)]
    /\ UNCHANGED <<outbox, appending, client, lease, faults>>

\* Bug: the frame is dropped instead of its consumer.
DropFrame(c) ==
    LET n == Min(conn[c].rows)
    IN  conn' = [conn EXCEPT ![c].lastSeq = n, ![c].rows = @ \ {n}]

\* A slow consumer is dropped: it reconnects and has the rows replayed.
DropConsumer(c) == conn' = [conn EXCEPT ![c].state = "closing"]

Overflow(c) ==
    /\ Open(c)
    /\ conn[c].rows # {}
    /\ Len(conn[c].send) >= SendBuffer
    /\ DropConsumer(c)
    /\ UNCHANGED <<outbox, appending, client, lease, faults>>

Received(n) == [client EXCEPT !.last = Max({@, n}), !.received = @ \cup {n}]

WriteFrame(c) ==
    /\ Open(c)
    /\ conn[c].send # <<>>
    /\ conn' = [conn EXCEPT ![c].send = Tail(@)]
    /\ client' = IF client.conn # c \/ Head(conn[c].send) = Welcome
                 THEN client ELSE Received(Head(conn[c].send))
    /\ UNCHANGED <<outbox, appending, lease, faults>>

\* A read fails: the client is gone, at once or after the idle deadline.
ReadFails(c) ==
    /\ Open(c)
    /\ client.conn # c
    /\ conn' = [conn EXCEPT ![c].state = "closing"]
    /\ UNCHANGED <<outbox, appending, client, lease, faults>>

\* Drop is a compare-and-delete on the session the lease is stamped with.
Drop(c) == IF lease = c THEN Null ELSE lease

Teardown(c) ==
    /\ conn[c].state = "closing"
    /\ conn' = [conn EXCEPT ![c] = Idle]
    /\ client' = IF client.conn = c THEN Detached ELSE client
    /\ lease' = Drop(c)
    /\ UNCHANGED <<outbox, appending, faults>>

-----------------------------------------------------------------------------
(* Faults and time *)

CutConnection ==
    /\ client.conn # Null
    /\ faults < MaxFaults
    /\ client' = Detached
    /\ faults' = faults + 1
    /\ UNCHANGED <<outbox, appending, conn, lease>>

\* The gateway process dies: no teardown runs, the lease outlives it.
CrashGateway ==
    /\ faults < MaxFaults
    /\ \E c \in Conns : conn[c] # Idle
    /\ conn' = [c \in Conns |-> Idle]
    /\ client' = Detached
    /\ faults' = faults + 1
    /\ UNCHANGED <<outbox, appending, lease>>

\* Nobody renews: the lease's time to live passes.
Lapses == lease # Null /\ client.conn = Null

ExpireLease ==
    /\ Lapses
    /\ lease' = Null
    /\ UNCHANGED <<outbox, appending, conn, client, faults>>

-----------------------------------------------------------------------------
Init ==
    /\ outbox = {}
    /\ appending = [p \in Producers |-> Null]
    /\ conn = [c \in Conns |-> Idle]
    /\ client = [on |-> TRUE, conn |-> Null, last |-> 0, received |-> {}]
    /\ lease = Null
    /\ faults = 0

Relay(c) ==
    \/ TakeHello(c)
    \/ Fallback(c)
    \/ ReadAgentOutboxSince(c)
    \/ EnqueueFrame(c)
    \/ Overflow(c)

Next ==
    \/ \E p \in Producers : AppendAgentOutbox(p)
    \/ \E p \in Producers : CommitOffer(p)
    \/ \E p \in Producers : RollbackOffer(p)
    \/ \E c \in Conns : Connect(c)
    \/ LogOff
    \/ LogOn
    \/ \E c \in Conns : SendHeartbeat(c)
    \/ \E c \in Conns : ReadHeartbeat(c)
    \/ \E c \in Conns : Relay(c)
    \/ \E c \in Conns : WriteFrame(c)
    \/ \E c \in Conns : ReadFails(c)
    \/ \E c \in Conns : Teardown(c)
    \/ CutConnection
    \/ CrashGateway
    \/ ExpireLease

Spec == Init /\ [][Next]_vars

(***************************************************************************)
(* Go's select takes any ready case with some probability and goroutines   *)
(* are preempted, so what is ready again and again is taken: a hello, the  *)
(* write of a frame.  Offers owe no commit, and no fault owes to happen.     *)
(***************************************************************************)
WriteRow(n) ==
    \E c \in Conns : /\ conn[c].send # <<>>
                     /\ Head(conn[c].send) = n
                     /\ WriteFrame(c)

Fairness ==
    /\ WF_vars(\E c \in Conns : Connect(c))
    /\ WF_vars(\E c \in Conns : SendHeartbeat(c) \/ ReadHeartbeat(c))
    /\ WF_vars(\E c \in Conns : ReadAgentOutboxSince(c) \/ EnqueueFrame(c))
    /\ WF_vars(\E c \in Conns : ReadFails(c) \/ Teardown(c))
    /\ WF_vars(ExpireLease)
    /\ SF_vars(\E c \in Conns : TakeHello(c))
    /\ \A n \in 0..MaxRows : SF_vars(WriteRow(n))

FairSpec == Spec /\ Fairness

-----------------------------------------------------------------------------
\* The agent's client has received every committed row up to the highest it has
\* seen: no commit order, overflow, cut or late hello makes the relay skip one.
NoRowSkipped ==
    \A n \in outbox : n <= client.last => n \in client.received

\* No row goes out twice on one connection, however late its hello.
NoRowTwice ==
    \A c \in Conns : conn[c].rows \cap conn[c].sent = {}

\* While faults come to an end, every committed offer reaches a client that stays
\* logged on.
OfferDelivered ==
    \A n \in 1..MaxRows : n \in outbox ~> n \in client.received \/ ~client.on

LeaseLapses == ~client.on ~> lease = Null \/ client.on

LeaseHeals == (client.conn # Null) ~> (lease # Null \/ client.conn = Null)

\* The lease comes to agree with the client: an agent who has logged off stops being
\* offerable, whatever became of the gateway that held the connection, and one who
\* stays connected is offerable again, even if an older connection took the lease.
LeaseFollowsClient == LeaseLapses /\ LeaseHeals

-----------------------------------------------------------------------------
\* presence.go: "a stale teardown cannot evict a newer reconnect's lease": the
\* lease is not lost while the client is connected over the connection it has.
StaleTeardownEvictsNothing ==
    [][(/\ client.conn # Null
        /\ client'.conn = client.conn
        /\ lease # Null)
       => lease' # Null]_vars
=============================================================================
