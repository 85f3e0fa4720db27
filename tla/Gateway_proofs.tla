--------------------------- MODULE Gateway_proofs ---------------------------
(***************************************************************************)
(* Theorems about Gateway, for any number of connections and producers,    *)
(* any buffer and batch and any number of faults: the relay never makes    *)
(* the client skip a row, and sends none twice on a connection.            *)
(*                                                                         *)
(* That the numbers in the outbox leave no gap is what makes it work, and  *)
(* is what the advisory lock is for; that what lies between the client and *)
(* the connection's floor is in the send buffer, in order, is what the     *)
(* hello's floor and the dropping of a slow consumer have to preserve.     *)
(***************************************************************************)
EXTENDS GatewayRefinement, FiniteSetTheorems, SequenceTheorems, TLAPS

-----------------------------------------------------------------------------
(* The inductive invariant *)

Top == Cardinality(outbox)

Rows == [state : {"closed", "open", "closing"}, beat : BOOLEAN, hello : Nat \cup {Null},
         started : BOOLEAN, lastSeq : Nat, rows : SUBSET Nat, send : Seq(Nat),
         sent : SUBSET Nat]

Clients == [on : BOOLEAN, conn : Conns \cup {Null}, last : Nat, received : SUBSET Nat]

\* The relay's batch continues where it stands, what was sent is behind it, and
\* nothing is ahead of the outbox.
ConnFits(row, top) ==
    /\ row \in Rows
    /\ row.lastSeq <= top
    /\ row.hello # Null => row.hello <= top
    /\ \A n \in row.sent : n <= row.lastSeq
    /\ row.rows = {} \/ \E m \in 0..top : row.rows = (row.lastSeq + 1)..m
    /\ \A i \in 1..Len(row.send) : row.send[i] <= top

\* The client has all up to the highest it has seen.
ClientFits(cl, top) ==
    /\ cl \in Clients
    /\ cl.last <= top
    /\ 1..cl.last \subseteq cl.received

Before(send, i, n) == \E j \in 1..(i - 1) : send[j] = n

\* What the relay has passed has been received or is in the buffer, and whatever
\* precedes a frame of the buffer has been received or is in front of it.
Covered(row, cl) ==
    /\ row.hello # Null => row.hello <= cl.last
    /\ \A n \in 1..row.lastSeq :
          n \in cl.received \/ Before(row.send, Len(row.send) + 1, n)
    /\ \A i \in 1..Len(row.send) : \A n \in 1..(row.send[i] - 1) :
          n \in cl.received \/ Before(row.send, i, n)

GatewayInv ==
    /\ Top \in Nat /\ outbox = 1..Top
    /\ appending \in [Producers -> {Null, Top + 1}]
    /\ \A p, q \in Producers : appending[p] # Null /\ appending[q] # Null => p = q
    /\ ClientFits(client, Top)
    /\ conn = [c \in Conns |-> conn[c]]
    /\ \A c \in Conns : ConnFits(conn[c], Top)
    /\ client.conn # Null => Covered(conn[client.conn], client)

-----------------------------------------------------------------------------
(* The outbox *)

\* The greatest of the first numbers.
LEMMA MaxOfInterval ==
    ASSUME NEW k \in Nat
    PROVE  Max({0} \cup 1..k) = k
<1>1. k \in {0} \cup 1..k /\ \A y \in {0} \cup 1..k : k >= y
  OBVIOUS
<1>2. \A x \in {0} \cup 1..k : (\A y \in {0} \cup 1..k : x >= y) => x = k
  BY <1>1
<1> QED
  BY <1>1, <1>2 DEF Max

LEMMA MinOfInterval ==
    ASSUME NEW a \in Nat, NEW b \in Nat, a <= b
    PROVE  Min(a..b) = a
<1>1. a \in a..b /\ \A y \in a..b : a <= y
  OBVIOUS
<1>2. \A x \in a..b : (\A y \in a..b : x <= y) => x = a
  BY <1>1
<1> QED
  BY <1>1, <1>2 DEF Min

LEMMA MaxOfTwo ==
    ASSUME NEW a \in Nat, NEW b \in Nat
    PROVE  Max({a, b}) = IF a >= b THEN a ELSE b
<1> DEFINE m == IF a >= b THEN a ELSE b
<1>1. m \in {a, b} /\ \A y \in {a, b} : m >= y
  OBVIOUS
<1>2. \A x \in {a, b} : (\A y \in {a, b} : x >= y) => x = m
  BY <1>1
<1> QED
  BY <1>1, <1>2 DEF Max

\* A batch continues where the relay stands, without a gap.
LEMMA BatchIsInterval ==
    ASSUME GatewayInv, NEW c \in Conns
    PROVE  Batch(c) = {} \/ \E m \in 0..Top : Batch(c) = (conn[c].lastSeq + 1)..m
<1> DEFINE l == conn[c].lastSeq
           m == IF l + BatchLimit <= Top THEN l + BatchLimit ELSE Top
<1>1. l \in Nat /\ Top \in Nat /\ BatchLimit \in Nat /\ outbox = 1..Top /\ l <= Top
  BY GatewayAssumption DEF GatewayInv, ConnFits, Rows
<1> HIDE DEF l
<1>2. Unread(c) = (l + 1)..Top
  BY <1>1 DEF Unread, l
<1>3. ASSUME NEW n \in (l + 1)..Top
      PROVE  Cardinality({k \in Unread(c) : k <= n}) = n - l
  <2> DEFINE S == {k \in Unread(c) : k <= n}
  <2>1. S = (l + 1)..n
    BY <1>1, <1>2, <1>3
  <2> HIDE DEF S
  <2>2. Cardinality((l + 1)..n) = IF l + 1 > n THEN 0 ELSE n - (l + 1) + 1
    BY <1>1, <1>3, FS_Interval
  <2>3. Cardinality(S) = n - l
    BY <1>1, <1>3, <2>1, <2>2
  <2> QED
    BY <2>3 DEF S
<1>4. Batch(c) = {n \in (l + 1)..Top : n - l <= BatchLimit}
  BY <1>2, <1>3 DEF Batch
<1>5. Batch(c) = (l + 1)..m /\ m \in 0..Top
  BY <1>1, <1>4
<1> QED
  BY <1>5 DEF l

-----------------------------------------------------------------------------
(* Offers *)

\* What fits an outbox fits a longer one.
LEMMA FitsLongerOutbox ==
    ASSUME NEW top \in Nat, NEW row, NEW cl
    PROVE  /\ ConnFits(row, top) => ConnFits(row, top + 1)
           /\ ClientFits(cl, top) => ClientFits(cl, top + 1)
<1>1. ASSUME ConnFits(row, top) PROVE ConnFits(row, top + 1)
  <2>1. /\ row \in Rows /\ row.lastSeq <= top + 1
        /\ row.hello # Null => row.hello <= top + 1
    BY <1>1 DEF ConnFits, Rows
  <2>2. \A i \in 1..Len(row.send) : row.send[i] \in Nat
    BY <2>1 DEF Rows
  <2>3. \A i \in 1..Len(row.send) : row.send[i] <= top + 1
    BY <1>1, <2>2 DEF ConnFits
  <2>4. 0..top \subseteq 0..(top + 1)
    OBVIOUS
  <2> QED
    BY <1>1, <2>1, <2>3, <2>4 DEF ConnFits
<1>2. ASSUME ClientFits(cl, top) PROVE ClientFits(cl, top + 1)
  BY <1>2 DEF ClientFits, Clients
<1> QED
  BY <1>1, <1>2

LEMMA AppendKeeps ==
    ASSUME GatewayInv, NEW p \in Producers, AppendAgentOutbox(p)
    PROVE  GatewayInv'
<1>1. appending' = [appending EXCEPT ![p] = Top + 1]
  <2>1. Top \in Nat /\ Max({0} \cup outbox) = Top
    BY MaxOfInterval DEF GatewayInv
  <2>2. 1 + Max({0} \cup outbox) = Top + 1
    BY <2>1
  <2> QED
    BY <2>2 DEF AppendAgentOutbox, AppendLocked
<1>2. Top' = Top
  BY DEF Top, AppendAgentOutbox
<1>3. \A q \in Producers : appending[q] = Null
  BY DEF AppendAgentOutbox, AppendLocked
<1>4. /\ appending' \in [Producers -> {Null, Top' + 1}]
      /\ \A q, s \in Producers : appending'[q] # Null /\ appending'[s] # Null => q = s
  BY <1>1, <1>2, <1>3 DEF GatewayInv
<1> QED
  BY <1>2, <1>4 DEF GatewayInv, AppendAgentOutbox

LEMMA CommitKeeps ==
    ASSUME GatewayInv, NEW p \in Producers, CommitOffer(p)
    PROVE  GatewayInv'
<1>1. Top \in Nat /\ outbox' = 1..(Top + 1)
  BY DEF GatewayInv, CommitOffer
<1>2. Top' = Top + 1
  BY <1>1, FS_Interval DEF Top
<1>3. \A q \in Producers : appending'[q] = Null
  BY DEF GatewayInv, CommitOffer
<1>4. /\ appending' \in [Producers -> {Null, Top' + 1}]
      /\ \A q, s \in Producers : appending'[q] # Null /\ appending'[s] # Null => q = s
  BY <1>3 DEF GatewayInv, CommitOffer
<1>5. UNCHANGED <<conn, client>>
  BY DEF CommitOffer
<1>6. ClientFits(client, Top + 1) /\ \A c \in Conns : ConnFits(conn[c], Top + 1)
  BY <1>1, FitsLongerOutbox DEF GatewayInv
<1> QED
  BY <1>1, <1>2, <1>4, <1>5, <1>6 DEF GatewayInv

LEMMA RollbackKeeps ==
    ASSUME GatewayInv, NEW p \in Producers, RollbackOffer(p)
    PROVE  GatewayInv'
BY DEF GatewayInv, RollbackOffer, Top

-----------------------------------------------------------------------------
(* The client *)

\* A connection nobody has used fits any outbox.
LEMMA IdleFits ==
    ASSUME NEW top \in Nat
    PROVE  ConnFits(Idle, top)
<1>1. Idle \in Rows
  BY DEF Idle, Rows
<1>2. Len(Idle.send) = 0 /\ Idle.sent = {} /\ Idle.hello = Null /\ Idle.lastSeq = 0 /\ Idle.rows = {}
  BY DEF Idle
<1> QED
  BY <1>1, <1>2 DEF ConnFits

\* What the client sees may only change by growing.
LEMMA DetachKeeps ==
    ASSUME GatewayInv, UNCHANGED <<outbox, appending>>,
           client' = Detached, conn' = [c \in Conns |-> conn'[c]],
           \A c \in Conns : ConnFits(conn'[c], Top)
    PROVE  GatewayInv'
<1>1. /\ client' \in Clients /\ client'.conn = Null
      /\ client'.last = client.last /\ client'.received = client.received
  BY DEF Detached, Clients, GatewayInv, ClientFits
<1>2. ClientFits(client', Top)
  BY <1>1 DEF GatewayInv, ClientFits
<1>3. Top' = Top
  BY DEF Top
<1> QED
  BY <1>1, <1>2, <1>3 DEF GatewayInv

LEMMA ConnectKeeps ==
    ASSUME GatewayInv, NEW c \in Conns, Connect(c)
    PROVE  GatewayInv'
<1> DEFINE row == [Idle EXCEPT !.state = "open", !.hello = client.last, !.send = <<Welcome>>]
<1>1. client.last \in Nat /\ client.last <= Top /\ Top \in Nat /\ client \in Clients
  BY DEF GatewayInv, ClientFits, Clients
<1>2. /\ row \in Rows /\ row.lastSeq = 0 /\ row.hello = client.last /\ row.sent = {}
      /\ row.rows = {} /\ row.send = <<0>>
  <2> DEFINE send == <<0>>
  <2>1. send \in Seq(Nat)
    OBVIOUS
  <2>2. Idle \in Rows /\ Idle.lastSeq = 0 /\ Idle.sent = {} /\ Idle.rows = {}
    BY DEF Idle, Rows
  <2> HIDE DEF send
  <2>3. /\ row \in Rows /\ row.lastSeq = 0 /\ row.hello = client.last /\ row.sent = {}
        /\ row.rows = {} /\ row.send = send
    <3>1. row = [Idle EXCEPT !.state = "open", !.hello = client.last, !.send = send]
      BY DEF send, Welcome
    <3> HIDE DEF row
    <3> QED
      BY <1>1, <2>1, <2>2, <3>1 DEF Rows
  <2> QED
    BY <2>3 DEF send
<1>3. conn' = [conn EXCEPT ![c] = row] /\ UNCHANGED <<outbox, appending>>
  BY DEF Connect
<1> HIDE DEF row
<1>4. Len(row.send) = 1 /\ row.send[1] = 0
  BY <1>2
<1>5. ConnFits(row, Top)
  BY <1>1, <1>2, <1>4 DEF ConnFits
<1>6. /\ client' \in Clients /\ client'.conn = c
      /\ client'.last = client.last /\ client'.received = client.received
  BY <1>1 DEF Connect, Clients
<1>7. ClientFits(client', Top)
  BY <1>6 DEF GatewayInv, ClientFits
<1>8. Covered(row, client')
  BY <1>1, <1>2, <1>4, <1>6 DEF Covered
<1>9. Top' = Top
  BY <1>3 DEF Top
<1>10. conn' = [d \in Conns |-> conn'[d]] /\ conn'[c] = row
       /\ \A d \in Conns : ConnFits(conn'[d], Top)
  BY <1>3, <1>5 DEF GatewayInv
<1> QED
  BY <1>3, <1>6, <1>7, <1>8, <1>9, <1>10 DEF GatewayInv

LEMMA LogKeeps ==
    ASSUME GatewayInv, LogOff \/ LogOn
    PROVE  GatewayInv'
<1>1. client \in Clients
  BY DEF GatewayInv, ClientFits
<1>2. /\ client' \in Clients /\ client'.conn = client.conn
      /\ client'.last = client.last /\ client'.received = client.received
  BY <1>1 DEF LogOff, LogOn, Clients
<1>3. UNCHANGED <<outbox, appending, conn>> /\ Top' = Top
  BY DEF LogOff, LogOn, Top
<1>4. ClientFits(client', Top)
  BY <1>2 DEF GatewayInv, ClientFits
<1>5. client.conn # Null => Covered(conn[client.conn], client')
  BY <1>2 DEF GatewayInv, Covered
<1> QED
  BY <1>2, <1>3, <1>4, <1>5 DEF GatewayInv

-----------------------------------------------------------------------------
(* The connection's goroutines *)

\* A step of one connection keeps the invariant if its row fits and, where it is
\* the client's, covers what the client has not received.
LEMMA ConnStep ==
    ASSUME GatewayInv, UNCHANGED <<outbox, appending, client>>,
           NEW c \in Conns, NEW row, conn' = [conn EXCEPT ![c] = row],
           ConnFits(row, Top),
           Covered(conn[c], client) => Covered(row, client)
    PROVE  GatewayInv'
<1>1. Top' = Top
  BY DEF Top
<1>2. conn' = [d \in Conns |-> conn'[d]] /\ \A d \in Conns : ConnFits(conn'[d], Top)
  BY DEF GatewayInv
<1>3. client.conn # Null => Covered(conn'[client.conn], client)
  <2>1. client.conn \in Conns \cup {Null}
    BY DEF GatewayInv, ClientFits, Clients
  <2> QED
    BY <2>1 DEF GatewayInv
<1> QED
  BY <1>1, <1>2, <1>3 DEF GatewayInv

\* What neither the relay nor the writer looks at may change.
LEMMA OtherFields ==
    ASSUME NEW row, NEW new \in Rows, NEW top, NEW cl, ConnFits(row, top),
           new.hello = row.hello, new.lastSeq = row.lastSeq, new.rows = row.rows,
           new.send = row.send, new.sent = row.sent
    PROVE  ConnFits(new, top) /\ (Covered(row, cl) => Covered(new, cl))
BY DEF ConnFits, Covered

\* Such a step leaves the row's part in the relay alone.
LEMMA QuietRow ==
    ASSUME GatewayInv, NEW c \in Conns,
           SendHeartbeat(c) \/ ReadHeartbeat(c) \/ Fallback(c) \/ Overflow(c) \/ ReadFails(c)
    PROVE  /\ UNCHANGED <<outbox, appending, client>>
           /\ \E row \in Rows :
                  /\ conn' = [conn EXCEPT ![c] = row]
                  /\ row.hello = conn[c].hello /\ row.lastSeq = conn[c].lastSeq
                  /\ row.rows = conn[c].rows /\ row.send = conn[c].send
                  /\ row.sent = conn[c].sent
<1>1. conn[c] \in Rows /\ ConnFits(conn[c], Top) /\ Top \in Nat
  BY DEF GatewayInv, ConnFits
<1>2. PICK row \in {[conn[c] EXCEPT !.beat = TRUE], [conn[c] EXCEPT !.beat = FALSE],
                    [conn[c] EXCEPT !.started = TRUE], [conn[c] EXCEPT !.state = "closing"]} :
          conn' = [conn EXCEPT ![c] = row]
  BY DEF SendHeartbeat, ReadHeartbeat, Fallback, Overflow, DropConsumer, ReadFails, GatewayInv
<1>3. /\ row \in Rows /\ row.hello = conn[c].hello /\ row.lastSeq = conn[c].lastSeq
      /\ row.rows = conn[c].rows /\ row.send = conn[c].send /\ row.sent = conn[c].sent
  <2> DEFINE old == conn[c]
  <2>1. old \in Rows
    BY <1>1
  <2> HIDE DEF old
  <2>2. \A new \in {[old EXCEPT !.beat = TRUE], [old EXCEPT !.beat = FALSE],
                     [old EXCEPT !.started = TRUE], [old EXCEPT !.state = "closing"]} :
            /\ new \in Rows /\ new.hello = old.hello /\ new.lastSeq = old.lastSeq
            /\ new.rows = old.rows /\ new.send = old.send /\ new.sent = old.sent
    <3> TAKE new \in {[old EXCEPT !.beat = TRUE], [old EXCEPT !.beat = FALSE],
                      [old EXCEPT !.started = TRUE], [old EXCEPT !.state = "closing"]}
    <3>1. CASE new = [old EXCEPT !.beat = TRUE]
      BY <2>1, <3>1 DEF Rows
    <3>2. CASE new = [old EXCEPT !.beat = FALSE]
      BY <2>1, <3>2 DEF Rows
    <3>3. CASE new = [old EXCEPT !.started = TRUE]
      BY <2>1, <3>3 DEF Rows
    <3>4. CASE new = [old EXCEPT !.state = "closing"]
      BY <2>1, <3>4 DEF Rows
    <3> QED
      BY <3>1, <3>2, <3>3, <3>4
  <2> QED
    BY <1>2, <2>2 DEF old
<1>4. UNCHANGED <<outbox, appending, client>>
  BY DEF SendHeartbeat, ReadHeartbeat, Fallback, Overflow, ReadFails
<1> QED
  BY <1>2, <1>3, <1>4

LEMMA QuietKeeps ==
    ASSUME GatewayInv, NEW c \in Conns,
           SendHeartbeat(c) \/ ReadHeartbeat(c) \/ Fallback(c) \/ Overflow(c) \/ ReadFails(c)
    PROVE  GatewayInv'
<1>1. PICK row \in Rows :
          /\ conn' = [conn EXCEPT ![c] = row]
          /\ row.hello = conn[c].hello /\ row.lastSeq = conn[c].lastSeq
          /\ row.rows = conn[c].rows /\ row.send = conn[c].send /\ row.sent = conn[c].sent
  BY QuietRow
<1>2. ConnFits(conn[c], Top) /\ Top \in Nat
  BY DEF GatewayInv
<1>3. ConnFits(row, Top) /\ (Covered(conn[c], client) => Covered(row, client))
  BY <1>1, <1>2, OtherFields
<1> QED
  BY <1>1, <1>3, QuietRow, ConnStep

\* A hello only raises the floor.
LEMMA HelloRow ==
    ASSUME GatewayInv, NEW c \in Conns, TakeHello(c)
    PROVE  /\ UNCHANGED <<outbox, appending, client>>
           /\ conn[c].hello \in Nat /\ conn[c].rows = {}
           /\ \E row \in Rows, f \in Nat :
                  /\ conn' = [conn EXCEPT ![c] = row]
                  /\ f \in {conn[c].hello, conn[c].lastSeq} /\ f >= conn[c].lastSeq
                  /\ row.hello = Null /\ row.lastSeq = f /\ row.rows = {}
                  /\ row.send = conn[c].send /\ row.sent = conn[c].sent
<1> DEFINE old == conn[c]
           f == Floor(c)
           row == [old EXCEPT !.hello = Null, !.lastSeq = f, !.started = TRUE]
<1>1. /\ old \in Rows /\ ConnFits(old, Top) /\ Top \in Nat /\ old.rows = {}
      /\ old.hello \in Nat /\ old.lastSeq \in Nat
  BY DEF GatewayInv, ConnFits, TakeHello, Rows
<1>2. f = (IF old.hello >= old.lastSeq THEN old.hello ELSE old.lastSeq)
  BY <1>1, MaxOfTwo DEF Floor
<1>3. conn' = [conn EXCEPT ![c] = row] /\ UNCHANGED <<outbox, appending, client>>
  BY DEF TakeHello, GatewayInv
<1> HIDE DEF f
<1>4. f \in Nat /\ f >= old.lastSeq /\ f \in {old.hello, old.lastSeq}
  BY <1>1, <1>2
<1>5. /\ row \in Rows /\ row.hello = Null /\ row.lastSeq = f /\ row.rows = {}
      /\ row.send = old.send /\ row.sent = old.sent
  BY <1>1, <1>4 DEF Rows
<1> HIDE DEF row
<1> QED
  BY <1>1, <1>3, <1>4, <1>5

\* A hello is of rows the client has seen, so that what it skips is received.
LEMMA TakeHelloKeeps ==
    ASSUME GatewayInv, NEW c \in Conns, TakeHello(c)
    PROVE  GatewayInv'
<1> DEFINE old == conn[c]
<1>1. /\ old \in Rows /\ ConnFits(old, Top) /\ Top \in Nat /\ old.rows = {}
      /\ old.hello \in Nat /\ old.lastSeq \in Nat
  BY DEF GatewayInv, ConnFits, TakeHello, Rows
<1>2. PICK row \in Rows, f \in Nat :
          /\ conn' = [conn EXCEPT ![c] = row]
          /\ f \in {old.hello, old.lastSeq} /\ f >= old.lastSeq
          /\ row.hello = Null /\ row.lastSeq = f /\ row.rows = {}
          /\ row.send = old.send /\ row.sent = old.sent
  BY HelloRow
<1>4. f <= Top
  BY <1>1, <1>2, GatewayAssumption DEF ConnFits
<1>6. \A n \in old.sent : n \in Nat /\ n <= f
  BY <1>1, <1>2 DEF ConnFits, Rows
<1>7. ConnFits(row, Top)
  BY <1>1, <1>2, <1>4, <1>6 DEF ConnFits
<1>8. ASSUME Covered(old, client) PROVE Covered(row, client)
  <2>1. 1..client.last \subseteq client.received /\ client.last \in Nat
    BY DEF GatewayInv, ClientFits, Clients
  <2>2. old.hello <= client.last
    BY <1>1, <1>8, GatewayAssumption DEF Covered
  <2>3. ASSUME NEW n \in 1..f
        PROVE  n \in client.received \/ Before(old.send, Len(old.send) + 1, n)
    BY <1>1, <1>2, <1>8, <2>1, <2>2, <2>3 DEF Covered
  <2> QED
    BY <1>2, <1>8, <2>3 DEF Covered
<1> QED
  BY <1>2, <1>7, <1>8, HelloRow, ConnStep

LEMMA ReadKeeps ==
    ASSUME GatewayInv, NEW c \in Conns, ReadAgentOutboxSince(c)
    PROVE  GatewayInv'
<1> DEFINE row == [conn[c] EXCEPT !.rows = Batch(c)]
<1>1. conn[c] \in Rows /\ ConnFits(conn[c], Top) /\ Top \in Nat
  BY DEF GatewayInv, ConnFits
<1>2. Batch(c) \in SUBSET Nat
  BY DEF Batch, Unread, GatewayInv
<1>3. /\ row \in Rows /\ row.hello = conn[c].hello /\ row.lastSeq = conn[c].lastSeq
      /\ row.rows = Batch(c) /\ row.send = conn[c].send /\ row.sent = conn[c].sent
  BY <1>1, <1>2 DEF Rows
<1>4. conn' = [conn EXCEPT ![c] = row] /\ UNCHANGED <<outbox, appending, client>>
  BY DEF ReadAgentOutboxSince, GatewayInv
<1> HIDE DEF row
<1>5. ConnFits(row, Top)
  BY <1>1, <1>3, BatchIsInterval DEF ConnFits
<1>6. Covered(conn[c], client) => Covered(row, client)
  BY <1>3 DEF Covered
<1> QED
  BY <1>4, <1>5, <1>6, ConnStep

\* The frame that is put in the buffer is the one after the last that was sent.
LEMMA EnqueueRow ==
    ASSUME GatewayInv, NEW c \in Conns, EnqueueFrame(c)
    PROVE  /\ UNCHANGED <<outbox, appending, client>>
           /\ \E row \in Rows, m \in 0..Top :
                  /\ conn' = [conn EXCEPT ![c] = row]
                  /\ conn[c].lastSeq + 1 <= m
                  /\ row.hello = conn[c].hello /\ row.lastSeq = conn[c].lastSeq + 1
                  /\ row.rows = (conn[c].lastSeq + 2)..m
                  /\ row.send = Append(conn[c].send, conn[c].lastSeq + 1)
                  /\ row.sent = conn[c].sent \cup {conn[c].lastSeq + 1}
<1> DEFINE old == conn[c]
           n == old.lastSeq + 1
           row == Enqueued(old)
<1>1. /\ old \in Rows /\ ConnFits(old, Top) /\ Top \in Nat /\ old.lastSeq \in Nat
      /\ old.send \in Seq(Nat)
  BY DEF GatewayInv, ConnFits, Rows
<1>2. PICK m \in 0..Top : old.rows = n..m /\ n <= m
  BY <1>1 DEF ConnFits, EnqueueFrame
<1>3. Min(old.rows) = n
  BY <1>1, <1>2, MinOfInterval
<1>4. old.rows \ {n} = (n + 1)..m
  BY <1>1, <1>2
<1>5. /\ row \in Rows /\ row.hello = old.hello /\ row.lastSeq = n
      /\ row.rows = (n + 1)..m /\ row.send = Append(old.send, n) /\ row.sent = old.sent \cup {n}
  <2> DEFINE send == Append(old.send, n)
             sent == old.sent \cup {n}
             rest == (n + 1)..m
  <2>1. send \in Seq(Nat) /\ sent \in SUBSET Nat /\ rest \in SUBSET Nat /\ n \in Nat
    BY <1>1, <1>2 DEF Rows
  <2>2. row = [old EXCEPT !.send = send, !.sent = sent, !.lastSeq = n, !.rows = rest]
    BY <1>3, <1>4 DEF Enqueued
  <2> HIDE DEF send, sent, rest, n, row
  <2>3. /\ row \in Rows /\ row.hello = old.hello /\ row.lastSeq = n
        /\ row.rows = rest /\ row.send = send /\ row.sent = sent
    BY <1>1, <2>1, <2>2 DEF Rows
  <2> QED
    BY <2>3 DEF send, sent, rest, n
<1>6. conn' = [conn EXCEPT ![c] = row] /\ UNCHANGED <<outbox, appending, client>>
  BY DEF EnqueueFrame, GatewayInv
<1>7. n + 1 = old.lastSeq + 2
  BY <1>1
<1> HIDE DEF row
<1> QED
  BY <1>2, <1>5, <1>6, <1>7

LEMMA EnqueueKeeps ==
    ASSUME GatewayInv, NEW c \in Conns, EnqueueFrame(c)
    PROVE  GatewayInv'
<1> DEFINE old == conn[c]
           n == old.lastSeq + 1
<1>1. /\ old \in Rows /\ ConnFits(old, Top) /\ Top \in Nat /\ old.lastSeq \in Nat
      /\ old.send \in Seq(Nat)
  BY DEF GatewayInv, ConnFits, Rows
<1>2. PICK row \in Rows, m \in 0..Top :
          /\ conn' = [conn EXCEPT ![c] = row]
          /\ n <= m
          /\ row.hello = old.hello /\ row.lastSeq = n
          /\ row.rows = (n + 1)..m /\ row.send = Append(old.send, n)
          /\ row.sent = old.sent \cup {n}
  <2>1. n + 1 = old.lastSeq + 2
    BY <1>1
  <2> QED
    BY <2>1, EnqueueRow
<1>6. UNCHANGED <<outbox, appending, client>>
  BY EnqueueRow
<1> DEFINE len == Len(old.send)
<1>7. /\ len \in Nat /\ Len(row.send) = len + 1 /\ row.send[len + 1] = n
      /\ \A i \in 1..len : row.send[i] = old.send[i] /\ old.send[i] \in Nat
  <2>1. n \in Nat /\ old.send \in Seq(Nat)
    BY <1>1
  <2>2. /\ Len(Append(old.send, n)) = Len(old.send) + 1 /\ Len(old.send) \in Nat
        /\ Append(old.send, n)[Len(old.send) + 1] = n
        /\ \A i \in 1..Len(old.send) : Append(old.send, n)[i] = old.send[i] /\ old.send[i] \in Nat
    <3> DEFINE send == old.send
    <3>1. send \in Seq(Nat) /\ n \in Nat
      BY <2>1
    <3> HIDE DEF send, n
    <3>2. /\ Len(Append(send, n)) = Len(send) + 1
          /\ Append(send, n)[Len(send) + 1] = n
          /\ \A i \in 1..Len(send) : Append(send, n)[i] = send[i]
      BY <3>1, AppendProperties
    <3>3. Len(send) \in Nat /\ \A i \in 1..Len(send) : send[i] \in Nat
      BY <3>1
    <3> QED
      BY <3>2, <3>3 DEF send
  <2> QED
    BY <1>2, <2>2
<1> HIDE DEF len
<1>8. ConnFits(row, Top)
  <2>1. \A i \in 1..Len(row.send) : row.send[i] <= Top
    <3> SUFFICES ASSUME NEW i \in 1..(len + 1) PROVE row.send[i] <= Top
      BY <1>7
    <3>1. CASE i = len + 1
      BY <1>1, <1>2, <1>7, <3>1
    <3>2. CASE i # len + 1
      <4>1. i \in 1..len
        BY <1>7, <3>2
      <4> QED
        BY <1>1, <1>7, <4>1 DEF ConnFits, len
    <3> QED
      BY <3>1, <3>2
  <2>2. \A k \in row.sent : k <= n
    BY <1>1, <1>2, SMTT(30) DEF ConnFits, Rows
  <2> QED
    BY <1>1, <1>2, <2>1, <2>2, SMTT(30) DEF ConnFits
<1>9. ASSUME Covered(old, client) PROVE Covered(row, client)
  <2>1. \A i \in 1..(len + 1) : \A k : Before(old.send, i, k) => Before(row.send, i, k)
    BY <1>7 DEF Before
  <2>2. Before(row.send, len + 2, n)
    BY <1>7 DEF Before
  <2>3. ASSUME NEW k \in 1..(n - 1)
        PROVE  k \in client.received \/ Before(row.send, len + 1, k)
    <3>1. k \in 1..old.lastSeq
      BY <1>1, <2>3
    <3>2. k \in client.received \/ Before(old.send, len + 1, k)
      BY <1>9, <3>1 DEF Covered, len
    <3>3. len + 1 \in 1..(len + 1)
      BY <1>7
    <3> QED
      BY <2>1, <3>2, <3>3
  <2>4. ASSUME NEW k \in 1..n
        PROVE  k \in client.received \/ Before(row.send, len + 2, k)
    <3>1. \A j : Before(row.send, len + 1, j) => Before(row.send, len + 2, j)
      BY <1>7 DEF Before
    <3>2. k \in 1..(n - 1) \/ k = n
      BY <1>1, <2>4
    <3> QED
      BY <2>2, <2>3, <3>1, <3>2
  <2>5. ASSUME NEW i \in 1..(len + 1), NEW k \in 1..(row.send[i] - 1)
        PROVE  k \in client.received \/ Before(row.send, i, k)
    <3>1. CASE i = len + 1
      BY <1>7, <2>3, <2>5, <3>1
    <3>2. CASE i # len + 1
      <4>1. i \in 1..len
        BY <1>7, <2>5, <3>2
      <4>2. k \in 1..(old.send[i] - 1)
        BY <1>7, <2>5, <4>1
      <4>3. k \in client.received \/ Before(old.send, i, k)
        BY <1>9, <4>1, <4>2 DEF Covered, len
      <4> QED
        BY <2>1, <2>5, <4>3
    <3> QED
      BY <3>1, <3>2
  <2>6. row.hello # Null => row.hello <= client.last
    BY <1>2, <1>9 DEF Covered
  <2>7. Len(row.send) + 1 = len + 2
    BY <1>7
  <2> QED
    BY <1>2, <1>7, <2>4, <2>5, <2>6, <2>7 DEF Covered
<1> QED
  BY <1>2, <1>6, <1>8, <1>9, ConnStep

\* What leaves the buffer reaches the client it is for: nothing before it is
\* missing there, and nothing behind it has less in front of it than before.
LEMMA WriteKeeps ==
    ASSUME GatewayInv, NEW c \in Conns, WriteFrame(c)
    PROVE  GatewayInv'
<1> DEFINE old == conn[c]
           row == [old EXCEPT !.send = Tail(old.send)]
           h == Head(old.send)
<1>1. /\ old \in Rows /\ ConnFits(old, Top) /\ Top \in Nat
      /\ old.send \in Seq(Nat) /\ old.send # <<>>
  BY DEF GatewayInv, ConnFits, Rows, WriteFrame
<1> DEFINE len == Len(Tail(old.send))
<1>2. /\ Tail(old.send) \in Seq(Nat) /\ len \in Nat /\ Len(old.send) = len + 1
      /\ h = old.send[1] /\ h \in Nat
      /\ \A i \in 1..len : Tail(old.send)[i] = old.send[i + 1] /\ Tail(old.send)[i] \in Nat
  BY <1>1
<1>3. /\ row \in Rows /\ row.hello = old.hello /\ row.lastSeq = old.lastSeq
      /\ row.rows = old.rows /\ row.sent = old.sent /\ row.send = Tail(old.send)
  BY <1>1, <1>2 DEF Rows
<1>4. conn' = [conn EXCEPT ![c] = row] /\ UNCHANGED <<outbox, appending>>
  BY DEF WriteFrame, GatewayInv
<1> HIDE DEF row, len
<1>5. ConnFits(row, Top)
  <2>1. \A i \in 1..Len(row.send) : row.send[i] <= Top
    BY <1>1, <1>2, <1>3 DEF ConnFits, len
  <2> QED
    BY <1>1, <1>3, <2>1 DEF ConnFits
<1>6. Top' = Top
  BY <1>4 DEF Top
<1>7. conn' = [d \in Conns |-> conn'[d]] /\ conn'[c] = row
      /\ (\A d \in Conns : d # c => conn'[d] = conn[d])
      /\ \A d \in Conns : ConnFits(conn'[d], Top)
  BY <1>4, <1>5 DEF GatewayInv
<1>8. client \in Clients /\ client.last \in Nat /\ client.last <= Top
      /\ 1..client.last \subseteq client.received
  BY DEF GatewayInv, ClientFits, Clients
<1>9. CASE client.conn # c
  <2>1. client' = client
    BY <1>9 DEF WriteFrame
  <2>2. client.conn # Null => conn'[client.conn] = conn[client.conn]
    BY <1>7, <1>8, <1>9 DEF Clients
  <2> QED
    BY <1>4, <1>6, <1>7, <2>1, <2>2 DEF GatewayInv
<1>10. CASE client.conn = c
  <2>1. c # Null
    BY GatewayAssumption
  <2>2. Covered(old, client)
    BY <1>10, <2>1 DEF GatewayInv
  <2>3. /\ client' \in Clients /\ client'.conn = c
        /\ client.received \subseteq client'.received /\ client.last <= client'.last
        /\ client'.last \in {client.last, h} /\ (h = 0 \/ h \in client'.received)
    <3>1. CASE h = Welcome
      BY <1>8, <1>10, <3>1 DEF WriteFrame, Welcome
    <3>2. CASE h # Welcome
      <4> DEFINE last     == Max({client.last, h})
                 received == client.received \cup {h}
      <4>1. client' = [client EXCEPT !.last = last, !.received = received]
        BY <1>10, <3>2 DEF WriteFrame, Received
      <4>2. last \in {client.last, h} /\ last \in Nat /\ client.last <= last
        BY <1>2, <1>8, MaxOfTwo, SMTT(30)
      <4>3. received \in SUBSET Nat /\ client.received \subseteq received /\ h \in received
        BY <1>2, <1>8 DEF Clients
      <4> HIDE DEF last, received
      <4>4. /\ client' \in Clients /\ client'.conn = client.conn
            /\ client'.last = last /\ client'.received = received
        BY <1>8, <4>1, <4>2, <4>3 DEF Clients
      <4> QED
        BY <1>10, <4>2, <4>3, <4>4
    <3> QED
      BY <3>1, <3>2
  <2>4. \A n \in 1..(h - 1) : n \in client.received
    BY <1>2, <2>2 DEF Covered, Before
  <2>5. ClientFits(client', Top)
    <3>1. h <= Top
      BY <1>1, <1>2 DEF ConnFits
    <3>2. 1..client'.last \subseteq client'.received
      BY <1>2, <1>8, <2>3, <2>4, SMTT(30)
    <3> QED
      BY <1>2, <1>8, <2>3, <3>1, <3>2 DEF ClientFits
  <2>6. ASSUME NEW i \in 1..(len + 1), NEW n \in Nat \ {0}, Before(old.send, i + 1, n)
        PROVE  n \in client'.received \/ Before(row.send, i, n)
    <3>1. PICK j \in 1..i : old.send[j] = n
      BY <1>2, <2>6 DEF Before
    <3>2. CASE j = 1
      BY <1>2, <2>3, <2>6, <3>1, <3>2
    <3>3. CASE j # 1
      <4>1. j - 1 \in 1..(i - 1) /\ j - 1 \in 1..len
        BY <1>2, <2>6, <3>1, <3>3
      <4>2. row.send[j - 1] = n
        BY <1>2, <1>3, <3>1, <4>1
      <4> QED
        BY <4>1, <4>2 DEF Before
    <3> QED
      BY <3>2, <3>3
  <2>7. Covered(row, client')
    <3>1. Len(row.send) = len
      BY <1>3 DEF len
    <3>2. ASSUME NEW n \in 1..row.lastSeq
          PROVE  n \in client'.received \/ Before(row.send, Len(row.send) + 1, n)
      <4>1. n \in client.received \/ Before(old.send, (len + 1) + 1, n)
        BY <1>2, <1>3, <2>2, <3>2 DEF Covered
      <4>2. n \in Nat \ {0} /\ len + 1 \in 1..(len + 1)
        BY <1>2, <1>3, <3>2
      <4> QED
        BY <2>3, <2>6, <3>1, <4>1, <4>2
    <3>3. ASSUME NEW i \in 1..Len(row.send), NEW n \in 1..(row.send[i] - 1)
          PROVE  n \in client'.received \/ Before(row.send, i, n)
      <4>1. /\ i \in 1..len /\ i \in 1..(len + 1) /\ i + 1 \in 1..Len(old.send)
            /\ row.send[i] = old.send[i + 1]
        BY <1>2, <1>3, <3>1, <3>3
      <4>2. n \in client.received \/ Before(old.send, i + 1, n)
        BY <2>2, <3>3, <4>1 DEF Covered
      <4>3. n \in Nat \ {0}
        BY <3>3
      <4> QED
        BY <2>3, <2>6, <4>1, <4>2, <4>3
    <3>4. row.hello # Null => row.hello \in Nat /\ row.hello <= client'.last
      BY <1>2, <1>3, <1>8, <2>2, <2>3 DEF Covered, Rows, Clients
    <3> QED
      BY <3>2, <3>3, <3>4 DEF Covered
  <2> QED
    BY <1>4, <1>6, <1>7, <2>3, <2>5, <2>7 DEF GatewayInv
<1> QED
  BY <1>9, <1>10

-----------------------------------------------------------------------------
(* Ends of connections *)

LEMMA TeardownKeeps ==
    ASSUME GatewayInv, NEW c \in Conns, Teardown(c)
    PROVE  GatewayInv'
<1>1. ConnFits(Idle, Top)
  BY IdleFits DEF GatewayInv
<1>2. conn' = [d \in Conns |-> conn'[d]] /\ \A d \in Conns : ConnFits(conn'[d], Top)
  BY <1>1 DEF Teardown, GatewayInv
<1>3. UNCHANGED <<outbox, appending>> /\ Top' = Top
  BY DEF Teardown, Top
<1>4. CASE client.conn = c
  BY <1>2, <1>3, <1>4, DetachKeeps DEF Teardown
<1>5. CASE client.conn # c
  <2>1. client' = client
    BY <1>5 DEF Teardown
  <2>2. client.conn \in Conns \cup {Null}
    BY DEF GatewayInv, ClientFits, Clients
  <2>3. client.conn # Null => conn'[client.conn] = conn[client.conn]
    BY <1>5, <2>2 DEF Teardown, GatewayInv
  <2> QED
    BY <1>2, <1>3, <2>1, <2>3 DEF GatewayInv
<1> QED
  BY <1>4, <1>5

LEMMA FaultKeeps ==
    ASSUME GatewayInv, CutConnection \/ CrashGateway
    PROVE  GatewayInv'
<1>1. ConnFits(Idle, Top)
  BY IdleFits DEF GatewayInv
<1>2. conn' = [c \in Conns |-> conn'[c]] /\ \A c \in Conns : ConnFits(conn'[c], Top)
  BY <1>1 DEF CutConnection, CrashGateway, GatewayInv
<1>3. UNCHANGED <<outbox, appending>> /\ client' = Detached
  BY DEF CutConnection, CrashGateway
<1> QED
  BY <1>2, <1>3, DetachKeeps

-----------------------------------------------------------------------------
(* The theorems *)

LEMMA GatewayInitInv ==
    ASSUME Init
    PROVE  GatewayInv
<1>1. outbox = 1..0 /\ Top = 0
  BY FS_EmptySet DEF Init, Top
<1>2. ConnFits(Idle, 0)
  BY IdleFits
<1>3. ClientFits(client, 0)
  BY DEF Init, ClientFits, Clients
<1>4. client.conn = Null
  BY DEF Init
<1> QED
  BY <1>1, <1>2, <1>3, <1>4 DEF Init, GatewayInv

LEMMA GatewayStepInv ==
    ASSUME GatewayInv, [Next]_vars
    PROVE  GatewayInv'
<1>1. CASE UNCHANGED <<outbox, appending, conn, client>>
  BY <1>1 DEF GatewayInv, Top
<1>2. CASE ExpireLease
  BY <1>1, <1>2 DEF ExpireLease
<1>3. ASSUME NEW p \in Producers, AppendAgentOutbox(p) \/ CommitOffer(p) \/ RollbackOffer(p)
      PROVE  GatewayInv'
  BY <1>3, AppendKeeps, CommitKeeps, RollbackKeeps
<1>4. ASSUME NEW c \in Conns,
             \/ Connect(c) \/ SendHeartbeat(c) \/ ReadHeartbeat(c) \/ Relay(c)
             \/ WriteFrame(c) \/ ReadFails(c) \/ Teardown(c)
      PROVE  GatewayInv'
  BY <1>4, ConnectKeeps, QuietKeeps, TakeHelloKeeps, ReadKeeps, EnqueueKeeps, WriteKeeps,
     TeardownKeeps DEF Relay
<1> QED
  BY <1>1, <1>2, <1>3, <1>4, LogKeeps, FaultKeeps DEF Next, vars

\* GatewayInv holds in every reachable state.
THEOREM GatewayInvariance == Spec => []GatewayInv
<1>1. Init => GatewayInv
  BY GatewayInitInv
<1>2. GatewayInv /\ [Next]_vars => GatewayInv'
  BY GatewayStepInv
<1> QED
  BY <1>1, <1>2, PTL DEF Spec

\* No committed row is ever missing below the highest the client has seen,
\* whatever is cut, torn down, dropped or said hello late.
THEOREM NothingSkipped == Spec => []NoRowSkipped
<1>1. GatewayInv => NoRowSkipped
  <2> SUFFICES ASSUME GatewayInv, NEW n \in outbox, n <= client.last
               PROVE  n \in client.received
    BY DEF NoRowSkipped
  <2>1. n \in 1..client.last
    BY DEF GatewayInv, ClientFits, Clients
  <2> QED
    BY <2>1 DEF GatewayInv, ClientFits
<1> QED
  BY <1>1, GatewayInvariance, PTL

\* What waits to go out on a connection has not gone out on it.
THEOREM SentOnce == Spec => []NoRowTwice
<1>1. GatewayInv => NoRowTwice
  <2> SUFFICES ASSUME GatewayInv, NEW c \in Conns
               PROVE  conn[c].rows \cap conn[c].sent = {}
    BY DEF NoRowTwice
  <2> QED
    BY DEF GatewayInv, ConnFits, Rows
<1> QED
  BY <1>1, GatewayInvariance, PTL

-----------------------------------------------------------------------------
(* The gateway implements OrderedDelivery *)

\* What a connection has passed it has sent, or the client had it when it said
\* hello; and what waits in the buffer counts as sent.
Passed(row, cl) ==
    /\ row.hello # Null => row.hello <= cl.last
    /\ \A n \in 1..row.lastSeq : n \in row.sent \/ n <= cl.last
    /\ \A i \in 1..Len(row.send) : row.send[i] = 0 \/ row.send[i] \in row.sent
    /\ 0 \notin row.sent

\* GatewayInv does not say how the client's rows, an old connection's and the
\* outbox's relate: the client has all up to its last and nothing else, and a
\* number that is taken has room.
OrderInv ==
    /\ client.received = 1..client.last
    /\ \A p \in Producers : appending[p] # Null => Top < MaxRows
    /\ \A c \in Conns : Passed(conn[c], client)

\* A step of one connection keeps it if its row still agrees with the client.
LEMMA OrderStep ==
    ASSUME GatewayInv, OrderInv, UNCHANGED <<outbox, appending>>,
           client'.received = client.received, client'.last = client.last,
           NEW c \in Conns, NEW row, conn' = [conn EXCEPT ![c] = row],
           Passed(row, client)
    PROVE  OrderInv'
<1>1. Top' = Top
  BY DEF Top
<1>2. \A r : Passed(r, client) => Passed(r, client')
  BY DEF Passed
<1>3. \A d \in Conns : Passed(conn'[d], client')
  BY <1>2 DEF GatewayInv, OrderInv
<1> QED
  BY <1>1, <1>3 DEF OrderInv

\* What the writer takes from the buffer, and what the client makes of it.
LEMMA WrittenFrame ==
    ASSUME GatewayInv, OrderInv, NEW c \in Conns, WriteFrame(c)
    PROVE  /\ UNCHANGED <<outbox, appending>>
           /\ \E row \in Rows :
                  /\ conn' = [conn EXCEPT ![c] = row]
                  /\ row.hello = conn[c].hello /\ row.lastSeq = conn[c].lastSeq
                  /\ row.sent = conn[c].sent /\ Passed(row, client)
                  /\ conn[c].send # <<>> /\ row.send = Tail(conn[c].send)
           /\ \/ client'.received = client.received /\ client'.last = client.last
              \/ \E h \in conn[c].sent :
                     /\ h \in Nat \ {0} /\ h = Head(conn[c].send)
                     /\ 1..(h - 1) \subseteq client.received
                     /\ client'.received = client.received \cup {h}
                     /\ client'.last = IF client.last >= h THEN client.last ELSE h
<1> DEFINE old == conn[c]
           row == [old EXCEPT !.send = Tail(old.send)]
           h == Head(old.send)
           len == Len(Tail(old.send))
<1>1. /\ old \in Rows /\ Passed(old, client)
      /\ old.send \in Seq(Nat) /\ old.send # <<>>
  BY DEF GatewayInv, OrderInv, ConnFits, Rows, WriteFrame
<1>2. /\ Tail(old.send) \in Seq(Nat) /\ len \in Nat /\ Len(old.send) = len + 1
      /\ h = old.send[1] /\ h \in Nat
      /\ \A i \in 1..len : Tail(old.send)[i] = old.send[i + 1]
  BY <1>1
<1>3. /\ row \in Rows /\ row.hello = old.hello /\ row.lastSeq = old.lastSeq
      /\ row.sent = old.sent /\ row.send = Tail(old.send)
  BY <1>1, <1>2 DEF Rows
<1>4. conn' = [conn EXCEPT ![c] = row] /\ UNCHANGED <<outbox, appending>>
  BY DEF WriteFrame, GatewayInv
<1> HIDE DEF row, len
<1>5. Passed(row, client)
  <2>1. \A i \in 1..Len(row.send) : row.send[i] = 0 \/ row.send[i] \in row.sent
    BY <1>1, <1>2, <1>3 DEF Passed, len
  <2> QED
    BY <1>1, <1>3, <2>1 DEF Passed
<1>6. CASE client.conn # c \/ h = Welcome
  BY <1>1, <1>3, <1>4, <1>5, <1>6 DEF WriteFrame
<1>7. CASE client.conn = c /\ h # Welcome
  <2> DEFINE last     == Max({client.last, h})
             received == client.received \cup {h}
  <2>1. client \in Clients /\ client.last \in Nat /\ c # Null
    BY GatewayAssumption DEF GatewayInv, ClientFits, Clients
  <2>2. client' = [client EXCEPT !.last = last, !.received = received]
    BY <1>7 DEF WriteFrame, Received
  <2>3. last = IF client.last >= h THEN client.last ELSE h
    BY <1>2, <2>1, MaxOfTwo
  <2>4. client'.last = last /\ client'.received = received
    <3> HIDE DEF last, received
    <3> QED
      BY <2>1, <2>2 DEF Clients
  <2>5. h \in old.sent /\ h \in Nat \ {0} /\ h = Head(old.send)
    BY <1>1, <1>2, <1>7 DEF Passed, Welcome
  <2>6. Covered(old, client)
    BY <1>7, <2>1 DEF GatewayInv
  <2>7. 1..(h - 1) \subseteq client.received
    BY <1>2, <2>6 DEF Covered, Before
  <2> HIDE DEF h
  <2> QED
    BY <1>1, <1>3, <1>4, <1>5, <2>3, <2>4, <2>5, <2>7
<1> QED
  BY <1>6, <1>7

\* What the client has seen for good it has in order.
LEMMA WriteOrder ==
    ASSUME GatewayInv, OrderInv, NEW c \in Conns, WriteFrame(c)
    PROVE  OrderInv'
<1>1. PICK row \in Rows : /\ conn' = [conn EXCEPT ![c] = row]
                          /\ Passed(row, client)
  BY WrittenFrame
<1>2. UNCHANGED <<outbox, appending>> /\ Top' = Top
  BY WrittenFrame DEF Top
<1>3. CASE client'.received = client.received /\ client'.last = client.last
  BY <1>1, <1>2, <1>3, OrderStep
<1>4. ASSUME NEW h \in Nat \ {0}, 1..(h - 1) \subseteq client.received,
             client'.received = client.received \cup {h},
             client'.last = IF client.last >= h THEN client.last ELSE h
      PROVE  OrderInv'
  <2>1. client.last \in Nat /\ client.received = 1..client.last
    BY DEF GatewayInv, ClientFits, Clients, OrderInv
  <2>2. client'.received = 1..client'.last /\ client.last <= client'.last /\ client'.last \in Nat
    BY <1>4, <2>1, SMTT(30)
  <2>3. \A d \in Conns : conn'[d] \in Rows /\ Passed(conn'[d], client)
    BY <1>1 DEF GatewayInv, ConnFits, OrderInv
  <2>4. ASSUME NEW d \in Conns PROVE Passed(conn'[d], client')
    <3>1. conn'[d].hello \in Nat \cup {Null} /\ conn'[d].lastSeq \in Nat
      BY <2>3 DEF Rows
    <3> QED
      BY <2>1, <2>2, <2>3, <3>1, SMTT(30) DEF Passed
  <2> QED
    BY <1>2, <2>2, <2>4 DEF OrderInv
<1> QED
  BY <1>3, <1>4, WrittenFrame

\* A new connection has passed nothing, and its hello is the client's last.
LEMMA ConnectOrder ==
    ASSUME GatewayInv, OrderInv, NEW c \in Conns, Connect(c)
    PROVE  /\ OrderInv'
           /\ conn'[c].sent = {} /\ conn'[c].send = <<Welcome>>
           /\ \A d \in Conns \ {c} : conn'[d] = conn[d]
           /\ client'.received = client.received
<1> DEFINE send == <<Welcome>>
           row == [Idle EXCEPT !.state = "open", !.hello = client.last, !.send = send]
<1>1. Len(send) = 1 /\ send[1] = 0
  BY DEF Welcome
<1> HIDE DEF send
<1>2. /\ row.hello = client.last /\ row.lastSeq = 0 /\ row.sent = {} /\ row.send = send
  BY DEF Idle
<1>3. conn' = [conn EXCEPT ![c] = row] /\ UNCHANGED <<outbox, appending>>
  BY DEF Connect, send
<1> HIDE DEF row
<1>4. client \in Clients /\ client.last \in Nat
  BY DEF GatewayInv, ClientFits, Clients
<1>5. client'.received = client.received /\ client'.last = client.last
  BY <1>4 DEF Connect, Clients
<1>6. Passed(row, client)
  <2>1. \A n \in 1..row.lastSeq : n \in row.sent \/ n <= client.last
    BY <1>2
  <2>2. Len(row.send) = 1 /\ row.send[1] = 0
    BY <1>1, <1>2
  <2>3. \A i \in 1..Len(row.send) : row.send[i] = 0
    BY <2>2
  <2> QED
    BY <1>2, <1>4, <2>1, <2>3 DEF Passed
<1>7. OrderInv'
  BY <1>3, <1>5, <1>6, OrderStep
<1> QED
  BY <1>2, <1>3, <1>5, <1>7 DEF GatewayInv, send

\* So does one that is torn down, cut or lost with the gateway.
LEMMA IdlePassed ==
    ASSUME NEW cl
    PROVE  Passed(Idle, cl)
<1>1. /\ Idle.hello = Null /\ Idle.lastSeq = 0 /\ Len(Idle.send) = 0 /\ Idle.sent = {}
  BY DEF Idle
<1> QED
  BY <1>1 DEF Passed

LEMMA EndOrder ==
    ASSUME GatewayInv, OrderInv, CutConnection \/ CrashGateway \/ \E c \in Conns : Teardown(c)
    PROVE  /\ OrderInv'
           /\ UNCHANGED outbox
           /\ client'.received = client.received
           /\ \A c \in Conns : \/ conn'[c].sent = conn[c].sent /\ conn'[c].send = conn[c].send
                               \/ conn'[c].sent = {} /\ conn'[c].send = <<>>
<1>1. /\ UNCHANGED <<outbox, appending>>
      /\ client' \in {client, Detached}
      /\ \A c \in Conns : conn'[c] \in {conn[c], Idle}
  BY DEF GatewayInv, CutConnection, CrashGateway, Teardown
<1>2. client'.received = client.received /\ client'.last = client.last
  <2>1. client \in Clients
    BY DEF GatewayInv, ClientFits
  <2> QED
    BY <1>1, <2>1 DEF Detached, Clients
<1>3. \A r : Passed(r, client) => Passed(r, client')
  BY <1>2 DEF Passed
<1>4. \A c \in Conns : Passed(conn'[c], client')
  BY <1>1, <1>3, IdlePassed DEF OrderInv
<1>5. Top' = Top
  BY <1>1 DEF Top
<1>6. Idle.sent = {} /\ Idle.send = <<>>
  BY DEF Idle
<1>7. OrderInv'
  BY <1>1, <1>2, <1>4, <1>5 DEF OrderInv
<1>8. ASSUME NEW c \in Conns
      PROVE  \/ conn'[c].sent = conn[c].sent /\ conn'[c].send = conn[c].send
             \/ conn'[c].sent = {} /\ conn'[c].send = <<>>
  <2>1. conn'[c] = conn[c] \/ conn'[c] = Idle
    BY <1>1
  <2> QED
    BY <1>6, <2>1, Zenon
<1> QED
  BY <1>1, <1>2, <1>7, <1>8

\* Nothing is said of the relay's progress or the client by an offer, a heartbeat or
\* a read, nor by the lease.
LEMMA OfferOrder ==
    ASSUME GatewayInv, OrderInv, NEW p \in Producers,
           AppendAgentOutbox(p) \/ CommitOffer(p) \/ RollbackOffer(p)
    PROVE  /\ OrderInv'
           /\ UNCHANGED <<conn, client>>
           /\ \/ UNCHANGED outbox
              \/ Top < MaxRows /\ outbox' = outbox \cup {Top + 1}
<1>1. UNCHANGED <<conn, client>>
  BY DEF AppendAgentOutbox, CommitOffer, RollbackOffer
<1>2. CASE AppendAgentOutbox(p)
  <2>1. Top < MaxRows /\ UNCHANGED outbox /\ Top' = Top
    BY <1>2 DEF AppendAgentOutbox, Top
  <2> QED
    BY <1>1, <2>1 DEF OrderInv
<1>3. CASE CommitOffer(p)
  <2>1. appending[p] = Top + 1 /\ Top < MaxRows
    BY <1>3 DEF CommitOffer, GatewayInv, OrderInv
  <2>2. \A q \in Producers : appending'[q] = Null
    BY <1>3 DEF CommitOffer, GatewayInv
  <2> QED
    BY <1>1, <1>3, <2>1, <2>2 DEF CommitOffer, OrderInv
<1>4. CASE RollbackOffer(p)
  <2>1. UNCHANGED outbox /\ Top' = Top
    BY <1>4 DEF RollbackOffer, Top
  <2>2. \A q \in Producers : appending'[q] # Null => appending[q] # Null
    BY <1>4 DEF RollbackOffer, GatewayInv
  <2> QED
    BY <1>1, <2>1, <2>2 DEF OrderInv
<1> QED
  BY <1>2, <1>3, <1>4

LEMMA QuietOrder ==
    ASSUME GatewayInv, OrderInv, NEW c \in Conns,
           \/ SendHeartbeat(c) \/ ReadHeartbeat(c) \/ Fallback(c) \/ Overflow(c)
           \/ ReadFails(c) \/ TakeHello(c) \/ ReadAgentOutboxSince(c)
    PROVE  /\ OrderInv'
           /\ UNCHANGED <<outbox, client>>
           /\ \A d \in Conns : conn'[d].sent = conn[d].sent /\ conn'[d].send = conn[d].send
<1>1. Passed(conn[c], client) /\ conn[c] \in Rows
  BY DEF OrderInv, GatewayInv, ConnFits
<1>2. CASE SendHeartbeat(c) \/ ReadHeartbeat(c) \/ Fallback(c) \/ Overflow(c) \/ ReadFails(c)
  <2>1. UNCHANGED <<outbox, appending, client>>
    BY <1>2, QuietRow
  <2>2. PICK row \in Rows :
            /\ conn' = [conn EXCEPT ![c] = row]
            /\ row.hello = conn[c].hello /\ row.lastSeq = conn[c].lastSeq
            /\ row.send = conn[c].send /\ row.sent = conn[c].sent
    BY <1>2, QuietRow
  <2>3. Passed(row, client)
    BY <1>1, <2>2 DEF Passed
  <2>4. OrderInv'
    BY <2>1, <2>2, <2>3, OrderStep
  <2> QED
    BY <2>1, <2>2, <2>4 DEF GatewayInv
<1>3. CASE TakeHello(c)
  <2>1. UNCHANGED <<outbox, appending, client>> /\ conn[c].hello \in Nat
    BY <1>3, HelloRow
  <2>2. PICK row \in Rows, f \in Nat :
            /\ conn' = [conn EXCEPT ![c] = row]
            /\ f \in {conn[c].hello, conn[c].lastSeq}
            /\ row.hello = Null /\ row.lastSeq = f
            /\ row.send = conn[c].send /\ row.sent = conn[c].sent
    BY <1>3, HelloRow
  <2>3. conn[c].hello <= client.last /\ client.last \in Nat
    BY <1>1, <2>1, GatewayAssumption DEF Passed, GatewayInv, ClientFits, Clients
  <2>4. Passed(row, client)
    BY <1>1, <2>1, <2>2, <2>3 DEF Passed
  <2>5. OrderInv'
    BY <2>1, <2>2, <2>4, OrderStep
  <2> QED
    BY <2>1, <2>2, <2>5 DEF GatewayInv
<1>4. CASE ReadAgentOutboxSince(c)
  <2> DEFINE row == [conn[c] EXCEPT !.rows = Batch(c)]
  <2>1. /\ row.hello = conn[c].hello /\ row.lastSeq = conn[c].lastSeq
        /\ row.send = conn[c].send /\ row.sent = conn[c].sent
    BY <1>1 DEF Rows
  <2>2. conn' = [conn EXCEPT ![c] = row] /\ UNCHANGED <<outbox, appending, client>>
    BY <1>4 DEF ReadAgentOutboxSince, GatewayInv
  <2> HIDE DEF row
  <2>3. Passed(row, client)
    BY <1>1, <2>1 DEF Passed
  <2>4. OrderInv'
    BY <2>2, <2>3, OrderStep
  <2> QED
    BY <2>1, <2>2, <2>4 DEF GatewayInv
<1> QED
  BY <1>2, <1>3, <1>4

\* What the relay enqueues is the next row: all before it were sent or received.
LEMMA EnqueueOrder ==
    ASSUME GatewayInv, OrderInv, NEW c \in Conns, EnqueueFrame(c)
    PROVE  /\ OrderInv'
           /\ UNCHANGED <<outbox, client>>
           /\ \E n \in outbox :
                  /\ \A m \in conn[c].sent : m < n
                  /\ \A m \in outbox : m < n => m \in conn[c].sent \cup client.received
                  /\ conn'[c].sent = conn[c].sent \cup {n}
                  /\ conn'[c].send = Append(conn[c].send, n)
           /\ \A d \in Conns \ {c} : conn'[d] = conn[d]
<1> DEFINE old == conn[c]
           n == old.lastSeq + 1
<1>1. /\ Passed(old, client) /\ old \in Rows /\ ConnFits(old, Top)
      /\ old.lastSeq \in Nat /\ old.send \in Seq(Nat) /\ outbox = 1..Top /\ Top \in Nat
      /\ client.last \in Nat /\ client.received = 1..client.last
  BY DEF OrderInv, GatewayInv, ConnFits, Rows, ClientFits, Clients
<1>2. UNCHANGED <<outbox, appending, client>>
  BY EnqueueRow
<1>3. PICK row \in Rows, m \in 0..Top :
          /\ conn' = [conn EXCEPT ![c] = row]
          /\ n <= m
          /\ row.hello = old.hello /\ row.lastSeq = n
          /\ row.send = Append(old.send, n) /\ row.sent = old.sent \cup {n}
  BY EnqueueRow
<1>4. n \in outbox /\ n \in Nat \ {0}
  BY <1>1, <1>3
<1>5. \A k \in old.sent : k < n
  BY <1>1 DEF ConnFits, Rows
<1>6. \A k \in outbox : k < n => k \in old.sent \cup client.received
  BY <1>1, SMTT(30) DEF Passed
<1> DEFINE send == old.send
<1>7. /\ Len(Append(send, n)) = Len(send) + 1 /\ Len(send) \in Nat
      /\ Append(send, n)[Len(send) + 1] = n
      /\ \A i \in 1..Len(send) : Append(send, n)[i] = send[i]
  <2>1. send \in Seq(Nat) /\ n \in Nat
    BY <1>1
  <2> HIDE DEF send, n
  <2> QED
    BY <2>1, AppendProperties
<1> HIDE DEF n
<1>8. Passed(row, client)
  <2>1. ASSUME NEW i \in 1..Len(row.send) PROVE row.send[i] = 0 \/ row.send[i] \in row.sent
    <3>1. CASE i = Len(send) + 1
      BY <1>3, <1>7, <3>1
    <3>2. CASE i # Len(send) + 1
      <4>1. i \in 1..Len(send) /\ row.send[i] = send[i]
        BY <1>3, <1>7, <2>1, <3>2
      <4> QED
        BY <1>1, <1>3, <4>1 DEF Passed
    <3> QED
      BY <3>1, <3>2
  <2>2. ASSUME NEW k \in 1..n PROVE k \in row.sent \/ k <= client.last
    BY <1>1, <1>3, <2>2, SMTT(30) DEF Passed, n
  <2> QED
    BY <1>1, <1>3, <1>4, <2>1, <2>2 DEF Passed
<1>9. OrderInv'
  BY <1>2, <1>3, <1>8, OrderStep
<1> QED
  BY <1>2, <1>3, <1>4, <1>5, <1>6, <1>9 DEF GatewayInv

SentOn == [c \in Conns |-> conn[c].sent]
Line == [c \in Conns |-> conn[c].send]

\* Every step of the gateway publishes the next row, sends the next one on a
\* connection, takes one off for the client or for nobody, begins or ends
\* connections, or does none of these.
LEMMA GatewayStepMaps ==
    GatewayInv /\ OrderInv /\ [Next]_vars => OrderInv' /\ [D!DNext]_(D!dvars)
<1> SUFFICES ASSUME GatewayInv, OrderInv, [Next]_vars
             PROVE  OrderInv' /\ (D!DNext \/ UNCHANGED D!dvars)
  OBVIOUS
<1>1. outbox = 1..Top /\ Top \in Nat
  BY DEF GatewayInv
<1>2. ASSUME NEW p \in Producers, AppendAgentOutbox(p) \/ CommitOffer(p) \/ RollbackOffer(p)
      PROVE  OrderInv' /\ (D!DNext \/ UNCHANGED D!dvars)
  <2>1. UNCHANGED <<SentOn, Line, client>>
    BY <1>2, OfferOrder DEF SentOn, Line
  <2>2. CASE UNCHANGED outbox
    BY <1>2, <2>1, <2>2, OfferOrder DEF D!dvars, SentOn, Line
  <2>3. CASE Top < MaxRows /\ outbox' = outbox \cup {Top + 1}
    <3>1. Top + 1 \in (1..MaxRows) \ outbox /\ \A m \in outbox : m < Top + 1
      BY <1>1, <2>3, GatewayAssumption
    <3>2. D!Publish
      BY <2>1, <2>3, <3>1 DEF D!Publish, SentOn, Line
    <3> QED
      BY <1>2, <3>2, OfferOrder DEF D!DNext
  <2> QED
    BY <1>2, <2>2, <2>3, OfferOrder
<1>4. ASSUME NEW c \in Conns, Connect(c) PROVE OrderInv' /\ D!DNext
  <2>1. UNCHANGED outbox
    BY <1>4 DEF Connect
  <2>2. /\ OrderInv'
        /\ conn'[c].sent = {} /\ conn'[c].send = <<Welcome>>
        /\ \A d \in Conns \ {c} : conn'[d] = conn[d]
        /\ client'.received = client.received
    BY <1>4, ConnectOrder
  <2>3. [d \in Conns |-> conn'[d].sent] = [SentOn EXCEPT ![c] = {}]
    BY <2>2 DEF SentOn
  <2>4. [d \in Conns |-> conn'[d].send] = [Line EXCEPT ![c] = <<Welcome>>]
    BY <2>2 DEF Line
  <2>5. D!Begin(c)
    BY <2>1, <2>2, <2>3, <2>4 DEF D!Begin, SentOn, Line
  <2> QED
    BY <2>2, <2>5 DEF D!DNext
<1>5. ASSUME CutConnection \/ CrashGateway \/ \E c \in Conns : Teardown(c)
      PROVE  OrderInv' /\ D!DNext
  <2> DEFINE C == {c \in Conns : conn'[c].sent = {} /\ conn'[c].send = <<>>}
  <2>1. /\ OrderInv' /\ UNCHANGED outbox
        /\ client'.received = client.received
        /\ \A c \in Conns : /\ conn'[c].sent = IF c \in C THEN {} ELSE conn[c].sent
                            /\ conn'[c].send = IF c \in C THEN <<>> ELSE conn[c].send
    BY <1>5, EndOrder
  <2> HIDE DEF C
  <2>2. C \in SUBSET Conns
    BY DEF C
  <2>3. [c \in Conns |-> conn'[c].sent] = [c \in Conns |-> IF c \in C THEN {} ELSE SentOn[c]]
    BY <2>1 DEF SentOn
  <2>4. [c \in Conns |-> conn'[c].send] = [c \in Conns |-> IF c \in C THEN <<>> ELSE Line[c]]
    BY <2>1 DEF Line
  <2>5. D!End
    BY <2>1, <2>2, <2>3, <2>4 DEF D!End, SentOn, Line
  <2> QED
    BY <2>1, <2>5 DEF D!DNext
<1>6. ASSUME NEW c \in Conns,
             \/ SendHeartbeat(c) \/ ReadHeartbeat(c) \/ Fallback(c) \/ Overflow(c)
             \/ ReadFails(c) \/ TakeHello(c) \/ ReadAgentOutboxSince(c)
      PROVE  OrderInv' /\ UNCHANGED D!dvars
  <2>1. /\ OrderInv'
        /\ UNCHANGED <<outbox, client>>
        /\ \A d \in Conns : conn'[d].sent = conn[d].sent /\ conn'[d].send = conn[d].send
    BY <1>6, QuietOrder
  <2> QED
    BY <2>1 DEF D!dvars
<1>7. ASSUME NEW c \in Conns, EnqueueFrame(c) PROVE OrderInv' /\ D!DNext
  <2>1. /\ OrderInv'
        /\ UNCHANGED <<outbox, client>>
        /\ \A d \in Conns \ {c} : conn'[d] = conn[d]
    BY <1>7, EnqueueOrder
  <2>2. PICK n \in outbox :
            /\ \A m \in conn[c].sent : m < n
            /\ \A m \in outbox : m < n => m \in conn[c].sent \cup client.received
            /\ conn'[c].sent = conn[c].sent \cup {n}
            /\ conn'[c].send = Append(conn[c].send, n)
    BY <1>7, EnqueueOrder
  <2>3. [d \in Conns |-> conn'[d].sent] =
            [SentOn EXCEPT ![c] = SentOn[c] \cup {n}]
    BY <2>1, <2>2 DEF SentOn
  <2>4. [d \in Conns |-> conn'[d].send] =
            [Line EXCEPT ![c] = Append(Line[c], n)]
    BY <2>1, <2>2 DEF Line
  <2>5. D!Send(c)
    BY <2>1, <2>2, <2>3, <2>4 DEF D!Send, D!Before, SentOn, Line
  <2> QED
    BY <2>1, <2>5 DEF D!DNext
<1>8. ASSUME NEW c \in Conns, WriteFrame(c)
      PROVE  OrderInv' /\ D!DNext
  <2>1. OrderInv'
    BY <1>8, WriteOrder
  <2>2. PICK row \in Rows :
            /\ conn' = [conn EXCEPT ![c] = row]
            /\ row.sent = conn[c].sent
            /\ conn[c].send # <<>> /\ row.send = Tail(conn[c].send)
    BY <1>8, WrittenFrame
  <2>3. UNCHANGED <<outbox, SentOn>>
    BY <1>8, <2>2, WrittenFrame DEF GatewayInv, SentOn
  <2>4. [d \in Conns |-> conn'[d].send] = [Line EXCEPT ![c] = Tail(Line[c])]
    BY <2>2 DEF GatewayInv, Line
  <2>5. D!TakeOff(c)
    BY <2>2, <2>4 DEF D!TakeOff, Line
  <2>6. ASSUME client'.received = client.received
        PROVE  D!Lose(c)
    BY <2>3, <2>5, <2>6 DEF D!Lose, SentOn
  <2>7. ASSUME NEW h \in conn[c].sent, h = Head(conn[c].send),
               1..(h - 1) \subseteq client.received, h \in Nat,
               client'.received = client.received \cup {h}
        PROVE  D!Receive(c)
    <3>1. \A m \in outbox : m < h => m \in client.received
      BY <1>1, <2>7
    <3> QED
      BY <2>3, <2>5, <2>7, <3>1 DEF D!Receive, D!Before, SentOn, Line
  <2> QED
    BY <1>8, <2>1, <2>6, <2>7, WrittenFrame DEF D!DNext
<1>9. CASE LogOff \/ LogOn \/ ExpireLease \/ UNCHANGED vars
  <2>1. client \in Clients
    BY DEF GatewayInv, ClientFits
  <2>2. UNCHANGED <<outbox, appending, conn>>
    BY <1>9 DEF LogOff, LogOn, ExpireLease, vars
  <2>3. client'.received = client.received /\ client'.last = client.last
    BY <1>9, <2>1 DEF LogOff, LogOn, ExpireLease, vars, Clients
  <2>4. \A r : Passed(r, client) => Passed(r, client')
    BY <2>3 DEF Passed
  <2>5. OrderInv'
    BY <2>2, <2>3, <2>4 DEF OrderInv, Top
  <2> QED
    BY <2>2, <2>3, <2>5 DEF D!dvars
<1> QED
  BY <1>2, <1>4, <1>5, <1>6, <1>7, <1>8, <1>9 DEF Next, Relay

\* The gateway implements OrderedDelivery: whatever order offers commit in, however
\* late a hello is read, and whatever is cut, dropped or crashes, each connection is
\* sent the rows in order, none twice and none that the client lacks left out, and
\* the client never sees a row before one that precedes it.
THEOREM GatewayDeliversInOrder == Spec => DeliversInOrder
<1>1. Init => OrderInv /\ D!DInit
  <2> SUFFICES ASSUME Init PROVE OrderInv /\ D!DInit
    OBVIOUS
  <2>1. client.received = 1..client.last /\ \A p \in Producers : appending[p] = Null
    BY DEF Init
  <2>2. \A c \in Conns : conn[c] = Idle
    BY DEF Init
  <2>3. OrderInv
    BY <2>1, <2>2, IdlePassed DEF OrderInv
  <2>4. D!DInit
    BY DEF Init, D!DInit, Idle
  <2> QED
    BY <2>3, <2>4
<1> QED
  BY <1>1, GatewayInvariance, GatewayStepMaps, PTL DEF Spec, DeliversInOrder, D!DSpec
=============================================================================
