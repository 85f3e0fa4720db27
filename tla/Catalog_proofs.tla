--------------------------- MODULE Catalog_proofs ---------------------------
(* The proofs about the catalog: its read-through cache, publishing a flow and
   imports, and the console's create forms, detail pages and list pages.  Each
   part is about one module; none uses another's. *)
EXTENDS CatalogAPI, FlowPublish, ImportPage, CatalogForm, CatalogDetail, CatalogList,
        SequenceTheorems, NaturalsInduction, WellFoundedInduction, TLAPS

-----------------------------------------------------------------------------
(***************************************************************************)
(* Theorem about CatalogAPI, for any number of requests at once and any    *)
(* bodies: whoever holds a copy at the row's version holds the body of     *)
(* that version.  The property is not inductive: it says nothing of the    *)
(* copies that are older than the row, of the row a request has read or    *)
(* written and not answered yet, nor of a load between its two statements. *)
(* ApiInv says of each that it is faithful to the committed row, and that  *)
(* an open transaction's row is its successor.                             *)
(***************************************************************************)

-----------------------------------------------------------------------------
(* The inductive invariant *)

\* A copy is not ahead of the row, and at its version is the same.
FaithfulTo(copy, e) ==
    copy # Null =>
        /\ e # Null /\ copy.version <= e.version
        /\ copy.version = e.version /\ copy.body # Absent => copy.body = e.body

\* What a write may make of the row.
Grows(e, f) ==
    e # Null => e.version < f.version \/ (e.version = f.version /\ e.body = f.body)

Requests ==
    [op : {"none", "get", "create", "update", "delete", "import"},
     stage : {"idle", "sent", "waits", "written", "committed", "conflict", "reload"},
     copy : Copies \cup {Null}, body : Bodies \cup {Null}, seen : Rows \cup {Null}]

LoadStates == [stage : {"row", "skills", "loaded"}, copy : Copies \cup {Null}]

Sources == {"miss", "refresh"}

LoadFits(load, e) ==
    load # Null =>
        /\ load \in LoadStates
        /\ FaithfulTo(load.copy, e)
        /\ load.stage = "skills" => load.copy # Null
        /\ load.stage = "loaded" => load.copy # Null

ClientFits(c, x, e, w) ==
    /\ x \in Requests
    /\ FaithfulTo(x.copy, e)
    /\ x.op \in {"create", "import"} => x.body # Null
    /\ x.stage \in {"written", "committed", "conflict", "reload"} => x.seen # Null
    /\ x.stage = "written" => w # Null /\ w.by = c /\ w.row = x.seen
    /\ x.stage # "written" => FaithfulTo(x.seen, e)

WrittenFits(w, e) == w # Null => w \in Writes /\ Grows(e, w.row)

ApiInv ==
    /\ entity \in Rows \cup {Null}
    /\ entry \in Copies \cup {Null} /\ FaithfulTo(entry, entity)
    /\ WrittenFits(written, entity)
    /\ loads = [f \in Sources |-> loads[f]]
    /\ \A f \in Sources : LoadFits(loads[f], entity)
    /\ client = [c \in Clients |-> client[c]]
    /\ \A c \in Clients : ClientFits(c, client[c], entity, written)

-----------------------------------------------------------------------------
(* Faithfulness *)

\* What is faithful to the row stays faithful to what a write makes of it.
LEMMA StaysFaithful ==
    ASSUME NEW e \in Rows \cup {Null}, NEW f \in Rows, Grows(e, f),
           NEW copy \in Rows \cup Copies \cup {Null}, FaithfulTo(copy, e)
    PROVE  FaithfulTo(copy, f)
<1>1. CASE copy = Null
  BY <1>1 DEF FaithfulTo
<1>2. CASE copy # Null
  <2>1. /\ e \in Rows /\ copy.version \in Nat /\ e.version \in Nat /\ f.version \in Nat
        /\ copy.version <= e.version
        /\ copy.version = e.version /\ copy.body # Absent => copy.body = e.body
    BY <1>2, ApiAssumption DEF FaithfulTo, Rows, Copies
  <2>2. f # Null
    BY ApiAssumption
  <2> QED
    BY <2>1, <2>2, ApiAssumption DEF FaithfulTo, Grows
<1> QED
  BY <1>1, <1>2

\* A row's copies, whole or without its body, are faithful to whatever it is.
LEMMA CopiesOfRows ==
    ASSUME NEW r \in Rows, NEW e \in Rows \cup {Null}, FaithfulTo(r, e)
    PROVE  /\ RowCopy(r) \in Copies /\ FaithfulTo(RowCopy(r), e)
           /\ BareCopy(r) \in Copies /\ FaithfulTo(BareCopy(r), e)
<1>1. r # Null /\ r.version \in 1..MaxRowVersion /\ r.body \in Bodies
  BY ApiAssumption DEF Rows
<1>2. RowCopy(r) \in Copies /\ BareCopy(r) \in Copies
  BY <1>1 DEF RowCopy, BareCopy, Copies
<1>3. FaithfulTo(RowCopy(r), e)
  BY <1>1 DEF RowCopy, FaithfulTo
<1>4. FaithfulTo(BareCopy(r), e)
  BY <1>1 DEF BareCopy, FaithfulTo
<1> QED
  BY <1>2, <1>3, <1>4

\* The row is faithful to itself.
LEMMA RowIsFaithful ==
    ASSUME NEW r \in Rows
    PROVE  FaithfulTo(r, r)
BY ApiAssumption DEF FaithfulTo, Rows

\* A client that is answered a faithful copy fits.
LEMMA IdleFits ==
    ASSUME NEW c, NEW copy \in Copies \cup {Null}, NEW e, NEW w, FaithfulTo(copy, e)
    PROVE  ClientFits(c, IdleClient(copy), e, w)
BY DEF ClientFits, IdleClient, Requests, FaithfulTo

\* A request that is sent with a faithful copy, and with the body it needs, fits.
LEMMA SentFits ==
    ASSUME NEW op \in {"get", "create", "update", "delete", "import"},
           NEW copy \in Copies \cup {Null}, NEW body \in Bodies \cup {Null},
           op \in {"create", "import"} => body # Null,
           NEW c, NEW e, NEW w, FaithfulTo(copy, e)
    PROVE  ClientFits(c, Sent(op, copy, body), e, w)
BY DEF ClientFits, Sent, IdleClient, Requests, FaithfulTo

-----------------------------------------------------------------------------
(* Steps that leave the row and the transaction as they are *)

\* Such a step keeps the invariant if what it puts in the cache, in the loads
\* and in one client's hands is faithful.
LEMMA KeptRow ==
    ASSUME ApiInv, UNCHANGED <<entity, written>>,
           entry' \in Copies \cup {Null}, FaithfulTo(entry', entity),
           loads' = [f \in Sources |-> loads'[f]],
           \A f \in Sources : LoadFits(loads'[f], entity),
           client' = [c \in Clients |-> client'[c]],
           \A c \in Clients : ClientFits(c, client'[c], entity, written)
    PROVE  ApiInv'
BY DEF ApiInv

\* The same where one client changes and nothing else does but the entry.
LEMMA OneClientMoves ==
    ASSUME ApiInv, UNCHANGED <<entity, written, loads>>, entry' \in {entry, Null},
           NEW c \in Clients, NEW x, client' = [client EXCEPT ![c] = x],
           ClientFits(c, x, entity, written)
    PROVE  ApiInv'
<1>1. entry' \in Copies \cup {Null} /\ FaithfulTo(entry', entity)
  BY DEF ApiInv, FaithfulTo
<1>2. client' = [d \in Clients |-> client'[d]]
  BY DEF ApiInv
<1>3. \A d \in Clients : ClientFits(d, client'[d], entity, written)
  BY DEF ApiInv
<1>4. loads' = [f \in Sources |-> loads'[f]]
  BY DEF ApiInv
<1>5. \A f \in Sources : LoadFits(loads'[f], entity)
  BY DEF ApiInv
<1> QED
  BY <1>1, <1>2, <1>3, <1>4, <1>5, KeptRow

LEMMA AskKeeps ==
    ASSUME ApiInv, NEW c \in Clients, Ask(c)
    PROVE  ApiInv'
<1>1. ClientFits(c, client[c], entity, written)
  BY DEF ApiInv
<1>2. ASSUME NEW op \in {"get", "delete"}
      PROVE  ClientFits(c, Sent(op, Null, Null), entity, written)
  BY <1>2, SentFits DEF FaithfulTo
<1>3. ASSUME NEW op \in {"create", "import"}, NEW b \in Bodies
      PROVE  ClientFits(c, Sent(op, Null, b), entity, written)
  BY <1>3, SentFits, ApiAssumption DEF FaithfulTo
<1>4. ASSUME NEW b \in Bodies \cup {Null}
      PROVE  ClientFits(c, Sent("update", client[c].copy, b), entity, written)
  <2>1. client[c].copy \in Copies \cup {Null} /\ FaithfulTo(client[c].copy, entity)
    BY <1>1 DEF ClientFits, Requests
  <2>2. "update" \notin {"create", "import"}
    OBVIOUS
  <2> QED
    BY <2>1, <2>2, SentFits
<1>5. PICK x : ClientFits(c, x, entity, written) /\ client' = [client EXCEPT ![c] = x]
  BY <1>2, <1>3, <1>4, Zenon DEF Ask
<1> QED
  BY <1>5, OneClientMoves DEF Ask

\* A get is at its own stages, so its client has nothing in a transaction.
LEMMA GetOrSetKeeps ==
    ASSUME ApiInv, NEW c \in Clients, GetOrSet(c)
    PROVE  ApiInv'
<1>1. ClientFits(c, client[c], entity, written)
  BY DEF ApiInv
<1>2. LoadFits(NewLoad, entity)
  BY DEF LoadFits, NewLoad, LoadStates, FaithfulTo
<1>3. /\ loads' = [f \in Sources |-> loads'[f]]
      /\ \A f \in Sources : LoadFits(loads'[f], entity)
  <2>1. loads' \in {loads} \cup
            {[loads EXCEPT ![f] = IF @ = Null THEN NewLoad ELSE @] : f \in Sources}
    BY DEF GetOrSet, CacheHit, CacheMiss, Sources
  <2> QED
    BY <1>2, <2>1 DEF ApiInv
<1>4. PICK x : ClientFits(c, x, entity, written) /\ client' = [client EXCEPT ![c] = x]
  <2>1. CASE CacheHit(c)
    BY <2>1, IdleFits DEF CacheHit, AnswersClient, ApiInv
  <2>2. CASE CacheMiss(c)
    <3>1. ClientFits(c, [client[c] EXCEPT !.stage = "waits"], entity, written)
      BY <1>1, <2>2 DEF ClientFits, CacheMiss, IsAt, Requests
    <3> QED
      BY <2>2, <3>1 DEF CacheMiss, Step, ApiInv
  <2> QED
    BY <2>1, <2>2 DEF GetOrSet
<1>5. UNCHANGED <<entity, written, entry>>
  BY DEF GetOrSet, CacheHit, CacheMiss
<1>6. /\ client' = [d \in Clients |-> client'[d]]
      /\ \A d \in Clients : ClientFits(d, client'[d], entity, written)
  BY <1>4 DEF ApiInv
<1>7. entry' \in Copies \cup {Null} /\ FaithfulTo(entry', entity)
  BY <1>5 DEF ApiInv
<1> QED
  BY <1>3, <1>5, <1>6, <1>7, KeptRow

-----------------------------------------------------------------------------
(* Loads *)

\* One load changes, and no client.
LEMMA OneLoadMoves ==
    ASSUME ApiInv, UNCHANGED <<entity, written, entry, client>>,
           NEW f \in Sources, NEW load, loads' = [loads EXCEPT ![f] = load],
           LoadFits(load, entity)
    PROVE  ApiInv'
<1>1. loads' = [g \in Sources |-> loads'[g]]
  BY DEF ApiInv
<1>2. \A g \in Sources : LoadFits(loads'[g], entity)
  BY DEF ApiInv
<1> QED
  BY <1>1, <1>2, KeptRow DEF ApiInv

\* One load ends: whoever waits for it is answered with what it has come to.
LEMMA ResolveKeeps ==
    ASSUME ApiInv, UNCHANGED <<entity, written>>, NEW f \in Sources,
           NEW copy \in Copies \cup {Null}, FaithfulTo(copy, entity),
           Resolve(f, copy), entry' \in {copy, entry}
    PROVE  ApiInv'
<1>1. entry' \in Copies \cup {Null} /\ FaithfulTo(entry', entity)
  BY DEF ApiInv
<1>2. LoadFits(Null, entity)
  BY DEF LoadFits
<1>3. /\ loads' = [g \in Sources |-> loads'[g]]
      /\ \A g \in Sources : LoadFits(loads'[g], entity)
  BY <1>2 DEF Resolve, ApiInv
<1>4. /\ client' = [c \in Clients |-> client'[c]]
      /\ \A c \in Clients : ClientFits(c, client'[c], entity, written)
  <2>1. \A c \in Clients : ClientFits(c, IdleClient(copy), entity, written)
    BY IdleFits
  <2> QED
    BY <2>1 DEF Resolve, ApiInv
<1> QED
  BY <1>1, <1>3, <1>4, KeptRow

LEMMA LoadKeeps ==
    ASSUME ApiInv, NEW f \in Sources, Load(f)
    PROVE  ApiInv'
<1>1. LoadFits(loads[f], entity) /\ entity \in Rows \cup {Null}
  BY DEF ApiInv
<1>2. CASE LoadRow(f)
  <2>1. entity \in Rows /\ FaithfulTo(entity, entity)
    BY <1>1, <1>2, RowIsFaithful DEF LoadRow
  <2>2. /\ RowCopy(entity) \in Copies /\ FaithfulTo(RowCopy(entity), entity)
        /\ BareCopy(entity) \in Copies /\ FaithfulTo(BareCopy(entity), entity)
    BY <2>1, CopiesOfRows
  <2>3. RowCopy(entity) # Null /\ BareCopy(entity) # Null
    BY <2>2, ApiAssumption
  <2>4. /\ LoadFits([stage |-> "skills", copy |-> BareCopy(entity)], entity)
        /\ LoadFits([stage |-> "loaded", copy |-> RowCopy(entity)], entity)
    BY <2>2, <2>3 DEF LoadFits, LoadStates
  <2>5. PICK load : LoadFits(load, entity) /\ loads' = [loads EXCEPT ![f] = load]
    BY <1>2, <2>4 DEF LoadRow
  <2> QED
    BY <1>2, <2>5, OneLoadMoves DEF LoadRow, LoadIs
<1>3. CASE LoadSkills(f)
  <2> DEFINE copy == loads[f].copy
             full == [copy EXCEPT !.body = entity.body]
  <2>1. /\ copy \in Copies /\ FaithfulTo(copy, entity) /\ copy # Null
    BY <1>1, <1>3 DEF LoadSkills, LoadIs, LoadFits, LoadStates
  <2>2. entity \in Rows /\ entity.body \in Bodies
    BY <1>1, <2>1 DEF FaithfulTo, Rows
  <2>3. full \in Copies /\ full.version = copy.version /\ full.body = entity.body
    BY <2>1, <2>2 DEF Copies
  <2>4. full # Null
    BY <2>3, ApiAssumption
  <2>5. FaithfulTo(full, entity)
    BY <2>1, <2>3 DEF FaithfulTo
  <2>6. loads' = [loads EXCEPT ![f] = [stage |-> "loaded", copy |-> full]]
    BY <1>3 DEF LoadSkills, ApiInv
  <2> HIDE DEF full
  <2>7. LoadFits([stage |-> "loaded", copy |-> full], entity)
    BY <2>3, <2>4, <2>5 DEF LoadFits, LoadStates
  <2> QED
    BY <1>3, <2>6, <2>7, OneLoadMoves DEF LoadSkills, LoadIs
<1>4. CASE LoadFails(f)
  BY <1>4, ResolveKeeps DEF LoadFails, FaithfulTo
<1>5. CASE SetEntry(f)
  <2>1. loads[f].copy \in Copies /\ FaithfulTo(loads[f].copy, entity)
    BY <1>1, <1>5 DEF SetEntry, LoadIs, LoadFits, LoadStates
  <2> QED
    BY <1>5, <2>1, ResolveKeeps DEF SetEntry, LoadIs
<1> QED
  BY <1>2, <1>3, <1>4, <1>5 DEF Load, LoadAgent

LEMMA EntryExpiresKeeps ==
    ASSUME ApiInv, EntryExpires
    PROVE  ApiInv'
<1>1. entry' \in Copies \cup {Null} /\ FaithfulTo(entry', entity)
  BY DEF EntryExpires, FaithfulTo
<1> QED
  BY <1>1, KeptRow DEF EntryExpires, ApiInv

-----------------------------------------------------------------------------
(* Answers *)

LEMMA ReadStoredKeeps ==
    ASSUME ApiInv, NEW c \in Clients, ReadStored(c)
    PROVE  ApiInv'
<1>1. ClientFits(c, client[c], entity, written) /\ entity \in Rows
  BY DEF ApiInv, ReadStored
<1>2. FaithfulTo(entity, entity)
  BY <1>1, RowIsFaithful
<1>3. ClientFits(c, [client[c] EXCEPT !.seen = entity], entity, written)
  BY <1>1, <1>2, ApiAssumption DEF ClientFits, ReadStored, IsAt, Requests
<1> QED
  BY <1>3, OneClientMoves DEF ReadStored

LEMMA MismatchKeeps ==
    ASSUME ApiInv, NEW c \in Clients, Mismatch(c)
    PROVE  ApiInv'
<1> DEFINE seen == IF client[c].seen = Null THEN entity ELSE client[c].seen
           x == [client[c] EXCEPT !.stage = "conflict", !.seen = seen]
<1>1. ClientFits(c, client[c], entity, written) /\ entity \in Rows
  BY DEF ApiInv, Mismatch
<1>2. FaithfulTo(entity, entity) /\ entity # Null
  BY <1>1, RowIsFaithful, ApiAssumption
<1>3. seen \in Rows \cup {Null} /\ seen # Null /\ FaithfulTo(seen, entity)
  BY <1>1, <1>2 DEF ClientFits, Mismatch, IsAt, Requests
<1>4. client' = [client EXCEPT ![c] = x]
  BY DEF Mismatch, ApiInv
<1>5. ClientFits(c, x, entity, written)
  <2> HIDE DEF seen
  <2>1. x \in Requests /\ x.copy = client[c].copy /\ x.op = client[c].op
        /\ x.body = client[c].body /\ x.stage = "conflict" /\ x.seen = seen
    BY <1>1, <1>3 DEF ClientFits, Requests
  <2> QED
    BY <1>1, <1>3, <2>1 DEF ClientFits
<1> HIDE DEF x
<1> QED
  BY <1>4, <1>5, OneClientMoves DEF Mismatch

LEMMA DelKeeps ==
    ASSUME ApiInv, NEW c \in Clients, Del(c)
    PROVE  ApiInv'
<1>1. ClientFits(c, client[c], entity, written) /\ entity \in Rows \cup {Null}
  BY DEF ApiInv
<1>2. client[c].seen \in Rows /\ FaithfulTo(client[c].seen, entity)
  BY <1>1 DEF Del, ClientFits, Requests
<1>3. ClientFits(c, IdleClient(Null), entity, written)
  BY IdleFits DEF FaithfulTo
<1>4. ClientFits(c, IdleClient(BareCopy(client[c].seen)), entity, written)
  <2>1. /\ BareCopy(client[c].seen) \in Copies
        /\ FaithfulTo(BareCopy(client[c].seen), entity)
    BY <1>1, <1>2, CopiesOfRows
  <2> QED
    BY <2>1, IdleFits
<1>5. ClientFits(c, [client[c] EXCEPT !.stage = "reload"], entity, written)
  BY <1>1, <1>2 DEF Del, ClientFits, Requests
<1>6. \/ client' = [client EXCEPT ![c] = IdleClient(Null)]
      \/ client' = [client EXCEPT ![c] = IdleClient(BareCopy(client[c].seen))]
      \/ client' = [client EXCEPT ![c] = [client[c] EXCEPT !.stage = "reload"]]
  BY DEF Del, AnswersClient, Step, ApiInv
<1>7. UNCHANGED <<entity, written, loads>> /\ entry' \in {entry, Null}
  BY DEF Del
<1> QED
  BY <1>3, <1>4, <1>5, <1>6, <1>7, OneClientMoves

LEMMA ReloadKeeps ==
    ASSUME ApiInv, NEW c \in Clients, Reload(c)
    PROVE  ApiInv'
<1>1. ClientFits(c, client[c], entity, written) /\ entity \in Rows \cup {Null}
  BY DEF ApiInv
<1>2. /\ client[c].seen \in Rows /\ FaithfulTo(client[c].seen, entity)
      /\ client[c].seen # Null
  BY <1>1, ApiAssumption DEF Reload, ClientFits, Requests
<1>3. entity \in Rows /\ client[c].seen.version <= entity.version
  BY <1>1, <1>2 DEF FaithfulTo
<1>4. ASSUME NEW body \in {entity.body, Absent}
      PROVE  ClientFits(c, IdleClient([version |-> client[c].seen.version, body |-> body]),
                        entity, written)
  <2> DEFINE copy == [version |-> client[c].seen.version, body |-> body]
  <2>1. copy \in Copies
    BY <1>2, <1>3 DEF Rows, Copies
  <2>2. FaithfulTo(copy, entity)
    BY <1>2, <1>3, ApiAssumption DEF FaithfulTo
  <2> QED
    BY <2>1, <2>2, IdleFits
<1>5. PICK body \in {entity.body, Absent} :
          client' = [client EXCEPT ![c] =
              IdleClient([version |-> client[c].seen.version, body |-> body])]
  BY DEF Reload, AnswersClient
<1> QED
  BY <1>4, <1>5, OneClientMoves DEF Reload

-----------------------------------------------------------------------------
(* Writes *)

\* What is about stays faithful to the row a write makes.
LEMMA GrownRow ==
    ASSUME ApiInv, NEW r \in Rows, Grows(entity, r)
    PROVE  /\ FaithfulTo(entry, r)
           /\ \A f \in Sources : LoadFits(loads[f], r)
           /\ \A c \in Clients :
                 /\ FaithfulTo(client[c].copy, r)
                 /\ client[c].stage # "written" => FaithfulTo(client[c].seen, r)
<1>1. entity \in Rows \cup {Null}
  BY DEF ApiInv
<1>2. FaithfulTo(entry, r)
  BY <1>1, StaysFaithful DEF ApiInv
<1>3. ASSUME NEW f \in Sources PROVE LoadFits(loads[f], r)
  <2>1. LoadFits(loads[f], entity)
    BY DEF ApiInv
  <2>2. loads[f] # Null => loads[f].copy \in Copies \cup {Null} /\ FaithfulTo(loads[f].copy, entity)
    BY <2>1 DEF LoadFits, LoadStates
  <2>3. loads[f] # Null => FaithfulTo(loads[f].copy, r)
    BY <1>1, <2>2, StaysFaithful
  <2> QED
    BY <2>1, <2>3 DEF LoadFits
<1>4. ASSUME NEW c \in Clients
      PROVE  /\ FaithfulTo(client[c].copy, r)
             /\ client[c].stage # "written" => FaithfulTo(client[c].seen, r)
  <2>1. ClientFits(c, client[c], entity, written)
    BY DEF ApiInv
  <2>2. /\ client[c].copy \in Copies \cup {Null} /\ FaithfulTo(client[c].copy, entity)
        /\ client[c].seen \in Rows \cup {Null}
        /\ client[c].stage # "written" => FaithfulTo(client[c].seen, entity)
    BY <2>1 DEF ClientFits, Requests
  <2> QED
    BY <1>1, <2>2, StaysFaithful
<1> QED
  BY <1>2, <1>3, <1>4

\* A request that writes a successor of the row keeps the invariant, whether it
\* does so at once or in a transaction.
LEMMA WriteKeeps ==
    ASSUME ApiInv, NEW c \in Clients, NEW r \in Rows, Grows(entity, r),
           NEW inTransaction, client[c].stage = "sent", Write(c, r, inTransaction)
    PROVE  ApiInv'
<1> DEFINE stage == IF inTransaction THEN "written" ELSE "committed"
           x     == [client[c] EXCEPT !.seen = r, !.stage = stage]
<1>1. written = Null /\ UNCHANGED <<loads, entry>> /\ client' = [client EXCEPT ![c] = x]
  BY DEF Write, ApiInv
<1>2. \A d \in Clients : client[d].stage # "written" /\ ClientFits(d, client[d], entity, written)
  BY <1>1 DEF ApiInv, ClientFits
<1>3. /\ x \in Requests /\ x.copy = client[c].copy /\ x.op = client[c].op
      /\ x.body = client[c].body /\ x.seen = r /\ x.stage = stage
  BY <1>2 DEF ClientFits, Requests
<1> HIDE DEF x, stage
<1>4. r # Null /\ FaithfulTo(r, r)
  BY RowIsFaithful, ApiAssumption
<1>5. CASE inTransaction
  <2>1. entity' = entity /\ written' = [by |-> c, row |-> r] /\ stage = "written"
    BY <1>5 DEF Write, stage
  <2>2. written' \in Writes /\ written' # Null /\ written'.by = c /\ written'.row = r
    BY <2>1, ApiAssumption DEF Writes
  <2>3. ClientFits(c, x, entity, written')
    BY <1>2, <1>3, <1>4, <2>1, <2>2 DEF ClientFits
  <2>4. ASSUME NEW d \in Clients PROVE ClientFits(d, client'[d], entity, written')
    <3>1. CASE d = c
      BY <1>1, <2>3, <3>1 DEF ApiInv
    <3>2. CASE d # c
      <4>1. client'[d] = client[d]
        BY <1>1, <3>2 DEF ApiInv
      <4> QED
        BY <1>2, <4>1 DEF ClientFits
    <3> QED
      BY <3>1, <3>2
  <2>5. WrittenFits(written', entity)
    BY <2>2 DEF WrittenFits
  <2> QED
    BY <1>1, <2>1, <2>4, <2>5 DEF ApiInv
<1>6. CASE ~inTransaction
  <2>1. entity' = r /\ written' = Null /\ stage = "committed"
    BY <1>1, <1>6 DEF Write, stage
  <2>2. ASSUME NEW d \in Clients PROVE ClientFits(d, client'[d], r, Null)
    <3>1. FaithfulTo(client[d].copy, r) /\ FaithfulTo(client[d].seen, r)
      BY <1>2, GrownRow
    <3>2. CASE d = c
      <4>1. client'[d] = x
        BY <1>1, <3>2 DEF ApiInv
      <4> QED
        BY <1>2, <1>3, <1>4, <2>1, <3>1, <3>2, <4>1 DEF ClientFits
    <3>3. CASE d # c
      <4>1. client'[d] = client[d]
        BY <1>1, <3>3 DEF ApiInv
      <4> QED
        BY <1>2, <3>1, <4>1 DEF ClientFits
    <3> QED
      BY <3>2, <3>3
  <2>3. FaithfulTo(entry, r) /\ \A f \in Sources : LoadFits(loads[f], r)
    BY GrownRow
  <2>4. WrittenFits(Null, r)
    BY DEF WrittenFits
  <2> QED
    BY <1>1, <2>1, <2>2, <2>3, <2>4 DEF ApiInv
<1> QED
  BY <1>5, <1>6

\* A row made from the stored one has the next version, so it grows.
LEMMA NextRowGrows ==
    ASSUME ApiInv, NEW c \in Clients, NEW on \in BOOLEAN,
           entity # Null, entity.version < MaxRowVersion
    PROVE  NextRow(c, on) \in Rows /\ Grows(entity, NextRow(c, on))
<1>1. entity \in Rows /\ client[c].body \in Bodies \cup {Null}
  BY DEF ApiInv, ClientFits, Requests
<1>2. entity.version + 1 \in 1..MaxRowVersion /\ entity.version \in Nat
  BY <1>1, ApiAssumption DEF Rows
<1> DEFINE body == IF client[c].body = Null THEN entity.body ELSE client[c].body
<1>3. body \in Bodies
  BY <1>1 DEF Rows
<1>4. NextRow(c, on) = [version |-> entity.version + 1, on |-> on, body |-> body]
  BY DEF NextRow, Row
<1> HIDE DEF body
<1> QED
  BY <1>2, <1>3, <1>4 DEF Rows, Grows

\* The row of a code that is not there yet.
LEMMA FirstRowGrows ==
    ASSUME ApiInv, NEW c \in Clients, NEW on \in BOOLEAN,
           entity = Null, client[c].op \in {"create", "import"}
    PROVE  Row(1, on, client[c].body) \in Rows /\ Grows(entity, Row(1, on, client[c].body))
<1>1. client[c].body \in Bodies
  BY DEF ApiInv, ClientFits, Requests
<1>2. 1 \in 1..MaxRowVersion
  BY ApiAssumption
<1> QED
  BY <1>1, <1>2 DEF Row, Rows, Grows

LEMMA CreateKeeps ==
    ASSUME ApiInv, NEW c \in Clients, Create(c)
    PROVE  ApiInv'
<1>1. CASE entity = Null
  <2>1. PICK on \in BOOLEAN : Write(c, Row(1, on, client[c].body), Agent)
    BY <1>1 DEF Create
  <2> QED
    BY <1>1, <2>1, FirstRowGrows, WriteKeeps DEF Create, IsAt
<1>2. CASE entity # Null
  <2>1. ClientFits(c, IdleClient(Null), entity, written)
    BY IdleFits DEF FaithfulTo
  <2> QED
    BY <1>2, <2>1, OneClientMoves DEF Create, AnswersClient
<1> QED
  BY <1>1, <1>2

LEMMA UpdateRowKeeps ==
    ASSUME ApiInv, NEW c \in Clients, UpdateRow(c)
    PROVE  ApiInv'
<1>1. PICK on \in BOOLEAN : Write(c, NextRow(c, on), Agent)
  BY DEF UpdateRow
<1>2. NextRow(c, on) \in Rows /\ Grows(entity, NextRow(c, on))
  BY NextRowGrows DEF UpdateRow
<1> QED
  BY <1>1, <1>2, WriteKeeps DEF UpdateRow, IsAt

LEMMA DeleteRowKeeps ==
    ASSUME ApiInv, NEW c \in Clients, DeleteRow(c)
    PROVE  ApiInv'
<1>1. CASE entity # Null /\ entity.on
  <2>1. entity \in Rows
    BY <1>1 DEF ApiInv
  <2>2. [entity EXCEPT !.on = FALSE] \in Rows /\ Grows(entity, [entity EXCEPT !.on = FALSE])
    BY <2>1 DEF Rows, Grows
  <2> QED
    BY <1>1, <2>2, WriteKeeps DEF DeleteRow, IsAt
<1>2. CASE ~(entity # Null /\ entity.on)
  <2>1. ClientFits(c, IdleClient(Null), entity, written)
    BY IdleFits DEF FaithfulTo
  <2> QED
    BY <1>2, <2>1, OneClientMoves DEF DeleteRow, AnswersClient
<1> QED
  BY <1>1, <1>2

LEMMA ImportKeeps ==
    ASSUME ApiInv, NEW c \in Clients, Import(c)
    PROVE  ApiInv'
<1>1. PICK on \in BOOLEAN :
          Write(c, IF entity = Null THEN Row(1, on, client[c].body) ELSE NextRow(c, on), TRUE)
  BY DEF Import
<1>2. CASE entity = Null
  BY <1>1, <1>2, FirstRowGrows, WriteKeeps DEF Import, IsAt
<1>3. CASE entity # Null
  <2>1. NextRow(c, on) \in Rows /\ Grows(entity, NextRow(c, on))
    BY <1>3, NextRowGrows DEF Import
  <2> QED
    BY <1>1, <1>3, <2>1, WriteKeeps DEF Import, IsAt
<1> QED
  BY <1>2, <1>3

\* Only the client of the transaction is at the stage that commits.
LEMMA CommitKeeps ==
    ASSUME ApiInv, NEW c \in Clients, Commit(c)
    PROVE  ApiInv'
<1> DEFINE r == written.row
           x == [client[c] EXCEPT !.stage = "committed"]
<1>1. \A d \in Clients : ClientFits(d, client[d], entity, written)
  BY DEF ApiInv
<1>2. written # Null /\ written.by = c /\ r = client[c].seen
  BY <1>1 DEF Commit, ClientFits
<1>3. r \in Rows /\ Grows(entity, r) /\ FaithfulTo(r, r)
  BY <1>2, RowIsFaithful DEF ApiInv, WrittenFits, Writes
<1>4. \A d \in Clients : d # c => client[d].stage # "written"
  BY <1>1, <1>2 DEF ClientFits
<1>5. client' = [client EXCEPT ![c] = x] /\ entity' = r /\ written' = Null
      /\ UNCHANGED <<entry, loads>>
  BY DEF Commit, Step, ApiInv
<1>6. /\ x \in Requests /\ x.copy = client[c].copy /\ x.op = client[c].op
      /\ x.body = client[c].body /\ x.seen = client[c].seen /\ x.stage = "committed"
  BY <1>1 DEF ClientFits, Requests
<1> HIDE DEF r, x
<1>7. ASSUME NEW d \in Clients PROVE ClientFits(d, client'[d], r, Null)
  <2>1. FaithfulTo(client[d].copy, r)
    BY <1>3, GrownRow
  <2>2. CASE d = c
    <3>1. client'[d] = x
      BY <1>5, <2>2 DEF ApiInv
    <3> QED
      BY <1>1, <1>2, <1>3, <1>6, <2>1, <2>2, <3>1, ApiAssumption DEF ClientFits
  <2>3. CASE d # c
    <3>1. client'[d] = client[d] /\ client[d].stage # "written"
      BY <1>4, <1>5, <2>3 DEF ApiInv
    <3>2. FaithfulTo(client[d].seen, r)
      BY <1>3, <3>1, GrownRow
    <3> QED
      BY <1>1, <2>1, <3>1, <3>2 DEF ClientFits
  <2> QED
    BY <2>2, <2>3
<1>8. FaithfulTo(entry, r) /\ \A f \in Sources : LoadFits(loads[f], r)
  BY <1>3, GrownRow
<1>9. WrittenFits(Null, r)
  BY DEF WrittenFits
<1> QED
  BY <1>3, <1>5, <1>7, <1>8, <1>9 DEF ApiInv

LEMMA RefuseKeeps ==
    ASSUME ApiInv, NEW c \in Clients, Refuse(c)
    PROVE  ApiInv'
<1>1. \A d \in Clients : ClientFits(d, client[d], entity, written)
  BY DEF ApiInv
<1>2. ClientFits(c, IdleClient(Null), entity, written')
  BY IdleFits DEF FaithfulTo
<1>3. client' = [client EXCEPT ![c] = IdleClient(Null)] /\ UNCHANGED <<entity, entry, loads>>
  BY DEF Refuse, AnswersClient
<1>4. ASSUME NEW d \in Clients PROVE ClientFits(d, client'[d], entity, written')
  <2>1. CASE d = c
    BY <1>2, <1>3, <2>1 DEF ApiInv
  <2>2. CASE d # c
    <3>1. client'[d] = client[d]
      BY <1>3, <2>2 DEF ApiInv
    <3>2. client[d].stage = "written" => written' = written
      BY <1>1, <2>2 DEF Refuse, ClientFits
    <3> QED
      BY <1>1, <3>1, <3>2 DEF ClientFits
  <2> QED
    BY <2>1, <2>2
<1>5. WrittenFits(written', entity)
  BY DEF Refuse, ApiInv, WrittenFits
<1> QED
  BY <1>3, <1>4, <1>5 DEF ApiInv

-----------------------------------------------------------------------------
(* The theorem *)

LEMMA ApiInitInv ==
    ASSUME ApiInit
    PROVE  ApiInv
<1>1. \A c \in Clients : ClientFits(c, IdleClient(Null), Null, Null)
  BY IdleFits DEF FaithfulTo
<1> QED
  BY <1>1 DEF ApiInit, ApiInv, FaithfulTo, WrittenFits, LoadFits, Sources

LEMMA ApiStepInv ==
    ASSUME ApiInv, [ApiNext]_apiVars
    PROVE  ApiInv'
<1>1. CASE UNCHANGED apiVars
  BY <1>1 DEF apiVars, ApiInv
<1>2. ASSUME NEW c \in Clients,
             \/ Ask(c) \/ GetOrSet(c)
             \/ Create(c) \/ Update(c) \/ DeleteRow(c) \/ Import(c)
             \/ Commit(c) \/ Del(c) \/ Reload(c) \/ Refuse(c)
      PROVE  ApiInv'
  BY <1>2, AskKeeps, GetOrSetKeeps, CreateKeeps, ReadStoredKeeps, UpdateRowKeeps,
     MismatchKeeps, DeleteRowKeeps, ImportKeeps, CommitKeeps, DelKeeps, ReloadKeeps,
     RefuseKeeps DEF Update
<1>3. ASSUME NEW f \in Sources, Load(f)
      PROVE  ApiInv'
  BY <1>3, LoadKeeps
<1> QED
  BY <1>1, <1>2, <1>3, EntryExpiresKeeps DEF ApiNext, Sources

\* Every copy at the row's version that names a body has the row's, in every
\* state the catalog's handlers, its imports and its cache reach.
THEOREM CopiesAreFaithful == ApiSpec => []CopyIsOfItsVersion
<1>1. ApiInit => ApiInv
  BY ApiInitInv
<1>2. ApiInv /\ [ApiNext]_apiVars => ApiInv'
  BY ApiStepInv
<1>3. ApiInv => CopyIsOfItsVersion
  <2> SUFFICES ASSUME ApiInv, NEW copy \in Known \ {Null}
               PROVE  copy.version = entity.version /\ copy.body # Absent
                          => copy.body = entity.body
    BY DEF CopyIsOfItsVersion
  <2>1. FaithfulTo(copy, entity)
    BY DEF ApiInv, Known, ClientFits, LoadFits, Sources
  <2> QED
    BY <2>1 DEF FaithfulTo
<1> QED
  BY <1>1, <1>2, <1>3, PTL DEF ApiSpec

-----------------------------------------------------------------------------
(***************************************************************************)
(* Publishing, for any flows, publishers and bindings: an entry point has  *)
(* at most one active binding, no two publishes of a flow are past its     *)
(* lock, and what is bound is what was compiled, and the binding replaced  *)
(* the one that was expected.  The locks of a transaction's statements     *)
(* decide: PublishInv says at which stage who holds which row.             *)
(***************************************************************************)

Stages == {"idle", "compiled", "locked", "numbered", "waiting", "flipped", "bound"}

RequestRow ==
    [op : {"none", "publish", "rollback"}, at : Stages, flow : Flows \cup {Null},
     version : Nat \cup {Null}, expected : Nat \cup {Null}, graph : FlowGraphs \cup {Null},
     number : Nat \cup {Null}, target : Nat \cup {Null}, row : Nat \cup {Null}]

DraftRow == [graph : FlowGraphs, version : Nat, on : BOOLEAN]

PublishedRow == [flow : Flows, number : Nat, graph : FlowGraphs]

BindingRow == [version : Nat, active : BOOLEAN]

PublishTypeOK ==
    /\ draft \in [Flows -> DraftRow]
    /\ published \in Seq(PublishedRow)
    /\ \A i \in 1..Len(published) : published[i].number <= i
    /\ binding \in Seq(BindingRow)
    /\ request \in [Publishers -> RequestRow]

\* A request that has locked its draft, has its number, has its row.
HasDraft(r) ==
    r.op = "publish" /\ r.at \in {"locked", "numbered", "waiting", "flipped", "bound"}

HasNumber(r) == r.op = "publish" /\ r.at \in {"numbered", "waiting", "flipped", "bound"}

HasRow(r) == r.at \in {"flipped", "bound"}

\* What kind of request is at what stage.
Staged(r) ==
    /\ r.op = "none" <=> r.at = "idle"
    /\ r.op = "publish" =>
           r.flow \in Flows /\ r.version \in Nat /\ r.graph \in FlowGraphs
    /\ r.op = "rollback" =>
           r.target \in Nat /\ r.at \notin {"compiled", "locked"}
    /\ r.at \notin {"waiting", "flipped", "bound"} => r.row = Null
    /\ r.at = "waiting" => r.row # Null

\* A draft that has the version which was compiled is what was compiled, and a
\* locked one has that version.
Compiled(r) ==
    r.op = "publish" =>
        /\ r.version <= draft[r.flow].version
        /\ r.version = draft[r.flow].version => r.graph = draft[r.flow].graph
        /\ HasDraft(r) => draft[r.flow].on /\ r.version = draft[r.flow].version

\* The number a publish has taken is still free.
NumberFree(r) ==
    HasNumber(r) =>
        /\ r.number \in 1..(Len(published) + 1)
        /\ r.number \notin NumbersOf(r.flow, published)

\* The row a transaction has deactivated is the one its caller expects, and active
\* for everyone else.
RowHeld(r) ==
    HasRow(r) =>
        /\ r.row # Null => /\ r.row \in Actives(binding)
                           /\ r.expected \in {Null, binding[r.row].version}
        /\ r.expected # Null => r.row # Null
        /\ r.at = "bound" => Actives(binding) \subseteq {r.row}

RequestInv(r) == Staged(r) /\ Compiled(r) /\ NumberFree(r) /\ RowHeld(r)

\* Two transactions have no draft in common, and nobody who is about to bind
\* meets one that has deactivated a row.
Apart(r, q) ==
    /\ HasDraft(r) /\ HasDraft(q) => r.flow # q.flow
    /\ r.at = "bound" => q.at # "bound" /\ (q.at = "flipped" => q.row = Null)

PublishInv ==
    /\ PublishTypeOK
    /\ \A t \in Publishers : RequestInv(request[t])
    /\ \A t, u \in Publishers : t # u => Apart(request[t], request[u])
    /\ \A i, j \in Actives(binding) : i = j

-----------------------------------------------------------------------------
(* Numbers *)

\* Every set of naturals has a least one.
LEMMA LeastNumber ==
    ASSUME NEW S \in SUBSET Nat, S # {}
    PROVE  \E x \in S : \A y \in S : x <= y
<1> DEFINE R == OpToRel(<, Nat)
<1>1. /\ IsWellFoundedOn(R, Nat)
      /\ \A x, y \in Nat : <<y, x>> \in R <=> y < x
  <2>1. \A x, y \in Nat : <<y, x>> \in OpToRel(<, Nat) <=> y < x
    BY Zenon DEF OpToRel
  <2> QED
    BY <2>1, NatLessThanWellFounded
<1>2. PICK x \in S : \A y \in S : ~ (<<y, x>> \in R)
  BY <1>1, WFMin, Zenon
<1>3. \A y \in S : ~ (y < x)
  BY <1>1, <1>2
<1> QED
  BY <1>3

\* Max finds the largest of a bounded set of naturals.
LEMMA MaxOfBounded ==
    ASSUME NEW b \in Nat, NEW S \in SUBSET (0..b), 0 \in S
    PROVE  Max(S) \in S /\ \A y \in S : Max(S) >= y
<1> DEFINE bounds == {x \in Nat : \A y \in S : y <= x}
<1>1. bounds \in SUBSET Nat /\ b \in bounds
  OBVIOUS
<1>2. PICK m \in bounds : \A x \in bounds : m <= x
  <2> HIDE DEF bounds
  <2> QED
    BY <1>1, LeastNumber
<1>3. m \in S
  <2>1. CASE m = 0
    BY <2>1
  <2>2. CASE m # 0
    <3>1. m - 1 \in Nat /\ m - 1 \notin bounds
      BY <1>2, <2>2
    <3>2. PICK y \in S : ~(y <= m - 1)
      BY <3>1
    <3>3. y = m
      BY <1>2, <3>2
    <3> QED
      BY <3>3
  <2> QED
    BY <2>1, <2>2
<1>4. m \in S /\ \A y \in S : m >= y
  BY <1>2, <1>3
<1> HIDE DEF bounds
<1> QED
  BY <1>4 DEF Max

\* So the number after the largest of a flow's is no version's yet.
LEMMA NextNumberIsFree ==
    ASSUME PublishTypeOK, NEW f \in Flows,
           NEW number, number = 1 + Max({0} \cup NumbersOf(f, published))
    PROVE  number \in 1..(Len(published) + 1) /\ number \notin NumbersOf(f, published)
<1> DEFINE S == {0} \cup NumbersOf(f, published)
<1>1. /\ Len(published) \in Nat /\ DOMAIN published = 1..Len(published)
      /\ \A i \in 1..Len(published) : published[i].number \in Nat /\ published[i].number <= i
  <2>1. /\ published \in Seq(PublishedRow)
        /\ \A i \in 1..Len(published) : published[i].number <= i
    BY DEF PublishTypeOK
  <2>2. /\ Len(published) \in Nat /\ DOMAIN published = 1..Len(published)
        /\ \A i \in 1..Len(published) : published[i] \in PublishedRow
    BY <2>1
  <2>3. \A i \in 1..Len(published) : published[i].number \in Nat
    BY <2>2 DEF PublishedRow
  <2> QED
    BY <2>1, <2>2, <2>3
<1>2. S \in SUBSET (0..Len(published)) /\ 0 \in S
  BY <1>1 DEF NumbersOf
<1> HIDE DEF S
<1>3. Max(S) \in S /\ \A y \in S : Max(S) >= y
  BY <1>1, <1>2, MaxOfBounded
<1>4. Max(S) \in 0..Len(published) /\ number = 1 + Max(S)
  BY <1>2, <1>3 DEF S
<1>5. number \in 1..(Len(published) + 1) /\ number \notin S
  BY <1>1, <1>2, <1>3, <1>4
<1> QED
  BY <1>5 DEF S

-----------------------------------------------------------------------------
(* Steps that change one request *)

\* A step that gives one request a state of which the invariant holds, apart from
\* the others, and leaves the rows alone preserves the invariant.
LEMMA RequestStep ==
    ASSUME PublishInv, NEW t \in Publishers, NEW q \in RequestRow,
           request' = [request EXCEPT ![t] = q],
           UNCHANGED <<draft, published, binding>>,
           RequestInv(q),
           \A u \in Publishers \ {t} : Apart(q, request[u]) /\ Apart(request[u], q)
    PROVE  PublishInv'
<1>1. \A u \in Publishers : request'[u] = IF u = t THEN q ELSE request[u]
  BY DEF PublishInv, PublishTypeOK
<1>2. PublishTypeOK'
  BY DEF PublishInv, PublishTypeOK
<1>3. \A r : RequestInv(r) => RequestInv(r)'
  <2>1. \A r : NumberFree(r) => NumberFree(r)'
    BY DEF NumberFree, NumbersOf
  <2>2. \A r : RowHeld(r) => RowHeld(r)'
    BY DEF RowHeld, Actives
  <2>3. \A r : Compiled(r) => Compiled(r)'
    BY DEF Compiled
  <2> QED
    BY <2>1, <2>2, <2>3 DEF RequestInv
<1>4. \A u \in Publishers : RequestInv(request'[u])
  BY <1>1 DEF PublishInv
<1>5. \A u \in Publishers : RequestInv(request[u])'
  BY <1>3, <1>4
<1>6. \A u, v \in Publishers : u # v => Apart(request'[u], request'[v])
  BY <1>1 DEF PublishInv
<1>7. \A i, j \in Actives(binding)' : i = j
  BY DEF PublishInv, Actives
<1> QED
  BY <1>2, <1>5, <1>6, <1>7 DEF PublishInv

\* What has no part in the entry point disturbs nobody.
LEMMA NoRequestIsHarmless ==
    ASSUME PublishAssumption
    PROVE  /\ NoRequest \in RequestRow
           /\ RequestInv(NoRequest)
           /\ \A r : Apart(NoRequest, r) /\ Apart(r, NoRequest)
<1>1. NoRequest \in RequestRow
  BY DEF NoRequest, RequestRow, Stages
<1>2. RequestInv(NoRequest)
  BY DEF NoRequest, RequestInv, Staged, Compiled, NumberFree, RowHeld, HasDraft, HasNumber, HasRow
<1>3. \A r : Apart(NoRequest, r) /\ Apart(r, NoRequest)
  BY DEF NoRequest, Apart, HasDraft
<1> QED
  BY <1>1, <1>2, <1>3

\* A request that ends without a commit has left nothing.
LEMMA RefusalKeepsPublishInv ==
    ASSUME PublishInv, NEW t \in Publishers,
           request' = [request EXCEPT ![t] = NoRequest],
           UNCHANGED <<draft, published, binding>>
    PROVE  PublishInv'
BY PublishAssumption, NoRequestIsHarmless, RequestStep

\* A request of either kind begins with what it has read.
LEMMA PublishFlowKeepsInv ==
    ASSUME PublishInv, NEW t \in Publishers, PublishFlow(t)
    PROVE  PublishInv'
<1>1. PICK f \in Flows, expected \in {Null} \cup DOMAIN published :
        /\ draft[f].on
        /\ request' = [request EXCEPT ![t] =
             [NoRequest EXCEPT !.op = "publish", !.at = "compiled", !.flow = f,
                               !.version = draft[f].version, !.graph = draft[f].graph,
                               !.expected = expected]]
  BY DEF PublishFlow
<1> DEFINE q == [NoRequest EXCEPT !.op = "publish", !.at = "compiled", !.flow = f,
                                  !.version = draft[f].version, !.graph = draft[f].graph,
                                  !.expected = expected]
<1>2. /\ draft[f] \in DraftRow /\ DOMAIN published = 1..Len(published)
      /\ Len(published) \in Nat
  BY DEF PublishInv, PublishTypeOK
<1>3. expected \in Nat \cup {Null} /\ draft[f].version \in Nat /\ draft[f].graph \in FlowGraphs
  BY <1>1, <1>2 DEF DraftRow
<1>4. q \in RequestRow
  BY <1>3, NoRequestIsHarmless, PublishAssumption DEF RequestRow, Stages
<1>5. /\ q.op = "publish" /\ q.at = "compiled" /\ q.flow = f /\ q.row = Null
      /\ q.version = draft[f].version /\ q.graph = draft[f].graph /\ q.target = Null
  BY NoRequestIsHarmless, PublishAssumption DEF RequestRow, NoRequest
<1>6. request' = [request EXCEPT ![t] = q] /\ UNCHANGED <<draft, published, binding>>
  BY <1>1 DEF PublishFlow
<1> HIDE DEF q
<1>7. RequestInv(q)
  BY <1>3, <1>5 DEF RequestInv, Staged, Compiled, NumberFree, RowHeld, HasDraft, HasNumber, HasRow
<1>8. \A r : Apart(q, r) /\ Apart(r, q)
  BY <1>5 DEF Apart, HasDraft
<1> QED
  BY <1>4, <1>7, <1>8, <1>6, RequestStep

LEMMA RollbackFlowKeepsInv ==
    ASSUME PublishInv, NEW t \in Publishers, RollbackFlow(t)
    PROVE  PublishInv'
<1>1. PICK target \in DOMAIN published, expected \in {Null} \cup DOMAIN published :
        request' = [request EXCEPT ![t] =
          [NoRequest EXCEPT !.op = "rollback", !.at = "numbered",
                            !.flow = published[target].flow,
                            !.target = target, !.expected = expected]]
  BY DEF RollbackFlow
<1> DEFINE q == [NoRequest EXCEPT !.op = "rollback", !.at = "numbered",
                                  !.flow = published[target].flow,
                                  !.target = target, !.expected = expected]
<1>2. /\ DOMAIN published = 1..Len(published)
      /\ Len(published) \in Nat
      /\ published \in Seq(PublishedRow)
  BY DEF PublishInv, PublishTypeOK
<1>3. expected \in Nat \cup {Null} /\ target \in Nat /\ published[target] \in PublishedRow
  BY <1>1, <1>2
<1>a. published[target].flow \in Flows
  BY <1>3 DEF PublishedRow
<1>4. q \in RequestRow
  BY <1>3, <1>a, NoRequestIsHarmless, PublishAssumption DEF RequestRow, Stages
<1>5. /\ q.op = "rollback" /\ q.at = "numbered" /\ q.flow = published[target].flow /\ q.row = Null
      /\ q.version = Null /\ q.graph = Null /\ q.target = target
  BY NoRequestIsHarmless, PublishAssumption DEF RequestRow, NoRequest
<1>6. request' = [request EXCEPT ![t] = q] /\ UNCHANGED <<draft, published, binding>>
  BY <1>1 DEF RollbackFlow
<1> HIDE DEF q
<1>7. RequestInv(q)
  BY <1>3, <1>5 DEF RequestInv, Staged, Compiled, NumberFree, RowHeld, HasDraft, HasNumber, HasRow
<1>8. \A r : Apart(q, r) /\ Apart(r, q)
  BY <1>5 DEF Apart, HasDraft
<1> QED
  BY <1>4, <1>7, <1>8, <1>6, RequestStep

\* The draft that is locked is the one that was compiled, and nobody else's.
LEMMA LockFlowForPublishKeepsInv ==
    ASSUME PublishInv, NEW t \in Publishers, LockFlowForPublish(t)
    PROVE  PublishInv'
<1> DEFINE r == request[t]
           q == [r EXCEPT !.at = "locked"]
<1>1. r \in RequestRow /\ RequestInv(r)
  BY DEF PublishInv, PublishTypeOK
<1>2. /\ r.op = "publish" /\ r.at = "compiled"
      /\ \A u \in Publishers : ~(HasDraft(request[u]) /\ request[u].flow = r.flow)
      /\ UNCHANGED <<draft, published, binding>>
  BY DEF LockFlowForPublish, DraftLocked, HasDraft
<1>3. CASE ~DraftIsCurrent(t)
  <2>1. request' = [request EXCEPT ![t] = NoRequest]
    BY <1>3 DEF LockFlowForPublish
  <2> QED
    BY <2>1, <1>2, RefusalKeepsPublishInv
<1>4. CASE DraftIsCurrent(t)
  <2>1. request' = [request EXCEPT ![t] = q]
    BY <1>4 DEF LockFlowForPublish, To, PublishInv, PublishTypeOK
  <2>2. draft[r.flow].on /\ draft[r.flow].version = r.version
    BY <1>4 DEF DraftIsCurrent
  <2> HIDE DEF r
  <2>3. q \in RequestRow
    BY <1>1 DEF RequestRow, Stages
  <2>4. /\ q.op = r.op /\ q.at = "locked" /\ q.flow = r.flow /\ q.version = r.version
        /\ q.graph = r.graph /\ q.row = r.row /\ q.number = r.number
    BY <1>1 DEF RequestRow
  <2> HIDE DEF q
  <2>5. Staged(q)
    BY <1>1, <1>2, <2>4 DEF RequestInv, Staged
  <2>6. Compiled(q)
    BY <1>1, <1>2, <2>2, <2>4 DEF RequestInv, Compiled
  <2>7. NumberFree(q) /\ RowHeld(q)
    BY <2>4 DEF NumberFree, HasNumber, RowHeld, HasRow
  <2>8. \A u \in Publishers : Apart(q, request[u]) /\ Apart(request[u], q)
    BY <1>2, <2>4 DEF Apart, HasDraft
  <2> QED
    BY <1>2, <2>1, <2>3, <2>5, <2>6, <2>7, <2>8, RequestStep DEF RequestInv
<1> QED
  BY <1>3, <1>4

LEMMA InsertFlowVersionKeepsInv ==
    ASSUME PublishInv, NEW t \in Publishers, InsertFlowVersion(t)
    PROVE  PublishInv'
<1> DEFINE r == request[t]
           number == 1 + Max({0} \cup NumbersOf(r.flow, published))
           q == [r EXCEPT !.at = "numbered", !.number = number]
<1>1. /\ r \in RequestRow /\ RequestInv(r)
      /\ \A u \in Publishers \ {t} : Apart(r, request[u]) /\ Apart(request[u], r)
  BY DEF PublishInv, PublishTypeOK
<1>2. r.at = "locked" /\ UNCHANGED <<draft, published, binding>>
  BY DEF InsertFlowVersion
<1>3. r.op = "publish" /\ r.flow \in Flows
  <2>1. r.op \in {"none", "publish", "rollback"}
    BY <1>1 DEF RequestRow
  <2> QED
    BY <2>1, <1>1, <1>2 DEF RequestInv, Staged
<1>4. request' = [request EXCEPT ![t] = q]
  BY <1>2 DEF InsertFlowVersion, PublishInv, PublishTypeOK
<1>5. number \in 1..(Len(published) + 1) /\ number \notin NumbersOf(r.flow, published)
  <2> HIDE DEF r
  <2>1. PublishTypeOK
    BY DEF PublishInv
  <2> QED
    BY <1>3, <2>1, NextNumberIsFree
<1>a. number \in Nat
  BY <1>5 DEF PublishInv, PublishTypeOK
<1> HIDE DEF r, number
<1>6. q \in RequestRow
  BY <1>1, <1>a DEF RequestRow, Stages
<1>7. /\ q.op = r.op /\ q.at = "numbered" /\ q.flow = r.flow /\ q.version = r.version
      /\ q.graph = r.graph /\ q.row = r.row /\ q.number = number
  BY <1>1 DEF RequestRow
<1> HIDE DEF q
<1>8. Staged(q) /\ Compiled(q)
  BY <1>1, <1>2, <1>3, <1>7 DEF RequestInv, Staged, Compiled, HasDraft
<1>9. NumberFree(q) /\ RowHeld(q)
  BY <1>5, <1>7 DEF NumberFree, RowHeld, HasRow
<1>10. \A u \in Publishers \ {t} : Apart(q, request[u]) /\ Apart(request[u], q)
  BY <1>1, <1>2, <1>3, <1>7 DEF Apart, HasDraft
<1> QED
  BY <1>2, <1>4, <1>6, <1>8, <1>9, <1>10, RequestStep DEF RequestInv

-----------------------------------------------------------------------------
(* bindActive *)

\* How far a request is, with its row: all else stands.
RowOf(r, held, at) == [r EXCEPT !.row = held, !.at = at]

\* A request that has its row is one of those its stage is for, if its row is.
LEMMA RowStep ==
    ASSUME PublishInv, NEW t \in Publishers, request[t].at \in {"numbered", "waiting", "flipped"},
           NEW held \in Nat \cup {Null}, NEW at \in {"waiting", "flipped", "bound"},
           request' = [request EXCEPT ![t] = RowOf(@, held, at)],
           UNCHANGED <<draft, published, binding>>,
           at = "waiting" => held # Null,
           RowHeld(RowOf(request[t], held, at)),
           \A u \in Publishers \ {t} :
               /\ at = "bound" => request[u].at # "bound"
                                  /\ (request[u].at = "flipped" => request[u].row = Null)
               /\ request[u].at = "bound" => at # "bound" /\ (at = "flipped" => held = Null)
    PROVE  PublishInv'
<1> DEFINE r == request[t]
           q == RowOf(r, held, at)
<1>1. /\ r \in RequestRow /\ RequestInv(r)
      /\ \A u \in Publishers \ {t} : Apart(r, request[u]) /\ Apart(request[u], r)
  BY DEF PublishInv, PublishTypeOK
<1>2. request' = [request EXCEPT ![t] = q]
  BY DEF PublishInv, PublishTypeOK
<1>3. r.at \in {"numbered", "waiting", "flipped"} /\ RowHeld(q)
  OBVIOUS
<1> HIDE DEF r
<1>4. q \in RequestRow
  BY <1>1 DEF RequestRow, Stages, RowOf
<1>5. /\ q.op = r.op /\ q.at = at /\ q.flow = r.flow /\ q.version = r.version
      /\ q.graph = r.graph /\ q.row = held /\ q.number = r.number /\ q.target = r.target
  BY <1>1 DEF RequestRow, RowOf
<1> HIDE DEF q
<1>6. Staged(q)
  BY <1>1, <1>3, <1>5 DEF RequestInv, Staged
<1>7. Compiled(q) /\ NumberFree(q)
  BY <1>1, <1>3, <1>5 DEF RequestInv, Compiled, NumberFree, HasDraft, HasNumber
<1>8. \A u \in Publishers \ {t} : Apart(q, request[u]) /\ Apart(request[u], q)
  BY <1>1, <1>3, <1>5 DEF Apart, HasDraft
<1> QED
  BY <1>2, <1>3, <1>4, <1>6, <1>7, <1>8, RequestStep DEF RequestInv

\* The fields of a request that moves on.
LEMMA RowOfFields ==
    ASSUME NEW r \in RequestRow, NEW held, NEW at
    PROVE  /\ RowOf(r, held, at).row = held
           /\ RowOf(r, held, at).at = at
           /\ RowOf(r, held, at).expected = r.expected
BY DEF RowOf, RequestRow

\* A row that someone who is about to bind has deactivated is the only one there
\* is to deactivate: whoever flips another meets nobody who is.
LEMMA DeactivateBindingKeepsInv ==
    ASSUME PublishInv, NEW t \in Publishers, DeactivateBinding(t)
    PROVE  PublishInv'
<1> DEFINE r == request[t]
<1>1. r \in RequestRow /\ RequestInv(r)
  BY DEF PublishInv, PublishTypeOK
<1>2. r.at = "numbered" /\ UNCHANGED <<draft, published, binding>> /\ r.row = Null
  BY <1>1 DEF DeactivateBinding, RequestInv, Staged
<1>3. /\ request \in [Publishers -> RequestRow]
      /\ DOMAIN binding \in SUBSET Nat
  BY DEF PublishInv, PublishTypeOK
<1>4. CASE Sought(t) = {} /\ r.expected # Null
  <2>1. request' = [request EXCEPT ![t] = NoRequest]
    BY <1>4 DEF DeactivateBinding, NoneFlipped
  <2> QED
    BY <2>1, <1>2, RefusalKeepsPublishInv
<1>5. CASE Sought(t) = {} /\ r.expected = Null
  <2>1. request' = [request EXCEPT ![t].at = "flipped"]
    BY <1>5 DEF DeactivateBinding, NoneFlipped, To
  <2>2. RowOf(r, Null, "flipped") = [r EXCEPT !.at = "flipped"]
    BY <1>1, <1>2 DEF RowOf, RequestRow
  <2>3. request' = [request EXCEPT ![t] = RowOf(@, Null, "flipped")]
    BY <1>3, <2>1, <2>2
  <2>4. RowHeld(RowOf(r, Null, "flipped"))
    BY <1>1, <1>5, RowOfFields DEF RowHeld
  <2> QED
    BY <1>2, <2>3, <2>4, RowStep
<1>6. CASE Sought(t) # {}
  <2> DEFINE i == CHOOSE j \in Sought(t) : TRUE
             at == IF RowTaken(i) THEN "waiting" ELSE "flipped"
  <2>1. i \in Sought(t)
    BY <1>6
  <2>2. i \in Nat /\ i \in Actives(binding) /\ r.expected \in {Null, binding[i].version}
    BY <2>1, <1>3 DEF Sought, Actives
  <2>3. request' = [request EXCEPT ![t].row = i, ![t].at = at]
    BY <1>6 DEF DeactivateBinding
  <2> HIDE DEF i
  <2>4. at \in {"waiting", "flipped"} /\ (at = "flipped" => ~ RowTaken(i))
    OBVIOUS
  <2> HIDE DEF at
  <2>5. request' = [request EXCEPT ![t] = RowOf(@, i, at)]
    BY <1>3, <2>3 DEF RowOf
  <2>6. RowHeld(RowOf(r, i, at))
    BY <1>1, <2>2, <2>4, PublishAssumption, RowOfFields DEF RowHeld, HasRow
  <2>7. ASSUME NEW u \in Publishers, request[u].at = "bound"
        PROVE  at = "waiting"
    <3>1. Actives(binding) \subseteq {request[u].row}
      BY <2>7 DEF PublishInv, RequestInv, RowHeld, HasRow
    <3>2. RowTaken(i)
      BY <2>2, <2>7, <3>1 DEF RowTaken
    <3> QED
      BY <2>4, <3>2
  <2>8. \A u \in Publishers \ {t} :
           request[u].at = "bound" => at # "bound" /\ (at = "flipped" => i = Null)
    BY <2>7
  <2>9. i \in Nat \cup {Null} /\ i # Null /\ at \in {"waiting", "flipped", "bound"} /\ at # "bound"
    BY <2>2, <2>4, PublishAssumption
  <2>10. request[t].at \in {"numbered", "waiting", "flipped"}
    BY <1>2
  <2> QED
    BY <1>2, <2>5, <2>6, <2>8, <2>9, <2>10, RowStep
<1> QED
  BY <1>4, <1>5, <1>6

LEMMA DeactivateAfterWaitKeepsInv ==
    ASSUME PublishInv, NEW t \in Publishers, DeactivateAfterWait(t)
    PROVE  PublishInv'
<1> DEFINE r == request[t]
<1>1. r \in RequestRow /\ RequestInv(r) /\ request \in [Publishers -> RequestRow]
  BY DEF PublishInv, PublishTypeOK
<1>2. /\ r.at = "waiting" /\ ~ RowTaken(r.row) /\ r.row # Null /\ r.row \in Nat \cup {Null}
      /\ UNCHANGED <<draft, published, binding>>
  BY <1>1 DEF DeactivateAfterWait, RequestInv, Staged, RequestRow
<1>3. CASE r.row \in Sought(t)
  <2>1. request' = [request EXCEPT ![t].at = "flipped"]
    BY <1>3 DEF DeactivateAfterWait, To
  <2>2. RowOf(r, r.row, "flipped") = [r EXCEPT !.at = "flipped"]
    BY <1>1 DEF RowOf, RequestRow
  <2>3. request' = [request EXCEPT ![t] = RowOf(@, r.row, "flipped")]
    BY <1>1, <2>1, <2>2
  <2>4. r.row \in Actives(binding) /\ r.expected \in {Null, binding[r.row].version}
    BY <1>3 DEF Sought
  <2>5. RowHeld(RowOf(r, r.row, "flipped"))
    BY <1>1, <1>2, <2>4, RowOfFields DEF RowHeld, HasRow
  <2>6. \A u \in Publishers : request[u].at # "bound"
    <3>1. SUFFICES ASSUME NEW u \in Publishers, request[u].at = "bound"
                   PROVE  FALSE
      OBVIOUS
    <3>2. Actives(binding) \subseteq {request[u].row}
      BY <3>1 DEF PublishInv, RequestInv, RowHeld, HasRow
    <3> QED
      BY <1>2, <2>4, <3>1, <3>2 DEF RowTaken
  <2> QED
    BY <1>2, <2>3, <2>5, <2>6, RowStep
<1>4. CASE r.row \notin Sought(t) /\ r.expected = Null
  <2>1. request' = [request EXCEPT ![t].row = Null, ![t].at = "flipped"]
    BY <1>4 DEF DeactivateAfterWait
  <2>2. request' = [request EXCEPT ![t] = RowOf(@, Null, "flipped")]
    BY <1>1, <2>1 DEF RowOf
  <2>3. RowHeld(RowOf(r, Null, "flipped"))
    BY <1>1, <1>4, RowOfFields DEF RowHeld
  <2> QED
    BY <1>2, <2>2, <2>3, RowStep
<1>5. CASE r.row \notin Sought(t) /\ r.expected # Null
  <2>1. request' = [request EXCEPT ![t] = NoRequest]
    BY <1>5 DEF DeactivateAfterWait
  <2> QED
    BY <2>1, <1>2, RefusalKeepsPublishInv
<1> QED
  BY <1>3, <1>4, <1>5

\* Who is about to bind waits for all who have deactivated a row, and finds no
\* other active.
LEMMA InsertActiveBindingKeepsInv ==
    ASSUME PublishInv, NEW t \in Publishers, InsertActiveBinding(t)
    PROVE  PublishInv'
<1> DEFINE r == request[t]
<1>1. r \in RequestRow /\ RequestInv(r) /\ request \in [Publishers -> RequestRow]
  BY DEF PublishInv, PublishTypeOK
<1>2. /\ r.at = "flipped" /\ r.row \in Nat \cup {Null}
      /\ \A u \in Publishers \ {t} : /\ request[u].at # "bound"
                                     /\ request[u].at = "flipped" => request[u].row = Null
      /\ UNCHANGED <<draft, published, binding>>
  BY <1>1 DEF InsertActiveBinding, RequestRow
<1>3. CASE Actives(binding) \subseteq {r.row}
  <2>1. request' = [request EXCEPT ![t].at = "bound"]
    BY <1>3 DEF InsertActiveBinding, To
  <2>2. RowOf(r, r.row, "bound") = [r EXCEPT !.at = "bound"]
    BY <1>1 DEF RowOf, RequestRow
  <2>3. request' = [request EXCEPT ![t] = RowOf(@, r.row, "bound")]
    BY <1>1, <2>1, <2>2
  <2>4. RowHeld(RowOf(r, r.row, "bound"))
    BY <1>1, <1>2, <1>3, RowOfFields DEF RowHeld, HasRow, RequestInv
  <2> QED
    BY <1>2, <2>3, <2>4, RowStep
<1>4. CASE ~ (Actives(binding) \subseteq {r.row})
  <2>1. request' = [request EXCEPT ![t] = NoRequest]
    BY <1>4 DEF InsertActiveBinding
  <2> QED
    BY <2>1, <1>2, RefusalKeepsPublishInv
<1> QED
  BY <1>3, <1>4

-----------------------------------------------------------------------------
(* Steps that change the rows *)

\* A draft that nobody has locked may change: what was compiled of it is then of
\* an older version, or the graph is the same.
LEMMA DraftStep ==
    ASSUME PublishInv, NEW f \in Flows, NEW d \in DraftRow,
           ~ DraftLocked(f),
           draft' = [draft EXCEPT ![f] = d],
           UNCHANGED <<published, binding, request>>,
           \/ d.version = draft[f].version + 1
           \/ d.version = draft[f].version /\ d.graph = draft[f].graph
    PROVE  PublishInv'
<1>1. /\ draft[f] \in DraftRow
      /\ \A g \in Flows : draft'[g] = IF g = f THEN d ELSE draft[g]
  BY DEF PublishInv, PublishTypeOK
<1>2. PublishTypeOK'
  BY DEF PublishInv, PublishTypeOK
<1>3. ASSUME NEW t \in Publishers
      PROVE  RequestInv(request[t])'
  <2> DEFINE r == request[t]
  <2>1. RequestInv(r) /\ r' = r
    BY DEF PublishInv
  <2>2. r.op = "publish" => r.flow \in Flows /\ r.version \in Nat /\ Staged(r)
    BY <2>1 DEF RequestInv, Staged
  <2>3. HasDraft(r) => r.flow # f
    BY DEF DraftLocked, HasDraft
  <2>4. d.version \in Nat /\ draft[f].version \in Nat
    BY <1>1 DEF DraftRow
  <2>5. Compiled(r)
    BY <2>1 DEF RequestInv
  <2> HIDE DEF r
  <2>6. Compiled(r)'
    <3>1. CASE r.op = "publish" /\ r.flow = f
      BY <1>1, <2>1, <2>2, <2>3, <2>4, <2>5, <3>1 DEF Compiled, HasDraft
    <3>2. CASE ~ (r.op = "publish" /\ r.flow = f)
      BY <1>1, <2>1, <2>2, <2>5, <3>2 DEF Compiled, HasDraft
    <3> QED
      BY <3>1, <3>2
  <2>7. Staged(r)' /\ NumberFree(r)' /\ RowHeld(r)'
    <3>1. Staged(r) /\ NumberFree(r) /\ RowHeld(r)
      BY <2>1 DEF RequestInv
    <3>2. published' = published /\ binding' = binding
      OBVIOUS
    <3>3. Staged(r)'
      BY <2>1, <3>1 DEF Staged
    <3>4. NumberFree(r)'
      BY <2>1, <3>1, <3>2 DEF NumberFree, HasNumber, NumbersOf
    <3>5. RowHeld(r)'
      BY <2>1, <3>1, <3>2 DEF RowHeld, HasRow, Actives
    <3> QED
      BY <3>3, <3>4, <3>5
  <2> QED
    BY <2>6, <2>7 DEF RequestInv, r
<1>4. \A t, u \in Publishers : t # u => Apart(request[t], request[u])'
  BY DEF PublishInv, Apart, HasDraft
<1>5. \A i, j \in Actives(binding)' : i = j
  BY DEF PublishInv, Actives
<1> QED
  BY <1>2, <1>3, <1>4, <1>5 DEF PublishInv

LEMMA UpdateFlowKeepsInv ==
    ASSUME PublishInv, NEW f \in Flows, UpdateFlow(f)
    PROVE  PublishInv'
<1>1. PICK g \in FlowGraphs, on \in BOOLEAN :
        draft' = [draft EXCEPT ![f] = [graph |-> g, version |-> @.version + 1, on |-> on]]
  BY DEF UpdateFlow
<1> DEFINE d == [graph |-> g, version |-> draft[f].version + 1, on |-> on]
<1>2. draft[f] \in DraftRow
  BY DEF PublishInv, PublishTypeOK
<1>3. d \in DraftRow /\ d.version = draft[f].version + 1
  BY <1>2 DEF DraftRow
<1>4. draft' = [draft EXCEPT ![f] = d]
  BY <1>1 DEF PublishInv, PublishTypeOK
<1>5. ~ DraftLocked(f) /\ UNCHANGED <<published, binding, request>>
  BY DEF UpdateFlow
<1> HIDE DEF d
<1> QED
  BY <1>3, <1>4, <1>5, DraftStep

LEMMA SoftDeleteFlowKeepsInv ==
    ASSUME PublishInv, NEW f \in Flows, SoftDeleteFlow(f)
    PROVE  PublishInv'
<1> DEFINE d == [draft[f] EXCEPT !.on = FALSE]
<1>1. draft[f] \in DraftRow
  BY DEF PublishInv, PublishTypeOK
<1>2. d \in DraftRow /\ d.version = draft[f].version /\ d.graph = draft[f].graph
  BY <1>1 DEF DraftRow
<1>3. draft' = [draft EXCEPT ![f] = d]
  BY DEF SoftDeleteFlow, PublishInv, PublishTypeOK
<1>4. ~ DraftLocked(f) /\ UNCHANGED <<published, binding, request>>
  BY DEF SoftDeleteFlow
<1> HIDE DEF d
<1> QED
  BY <1>2, <1>3, <1>4, DraftStep

\* The row that was active, if there was one, is the one that is deactivated: the
\* new one is then alone.
LEMMA NewBindingIsAlone ==
    ASSUME PublishInv, NEW t \in Publishers, CommitBinding(t)
    PROVE  /\ Actives(binding') = {Len(binding')}
           /\ binding' \in Seq(BindingRow)
<1> DEFINE r == request[t]
           id == IF r.op = "publish" THEN Len(published) + 1 ELSE r.target
           rest == [i \in DOMAIN binding |-> IF i = r.row
                      THEN [binding[i] EXCEPT !.active = FALSE] ELSE binding[i]]
           new == [version |-> id, active |-> TRUE]
<1>1. /\ binding \in Seq(BindingRow) /\ Len(binding) \in Nat
      /\ DOMAIN binding = 1..Len(binding)
      /\ \A i \in 1..Len(binding) : binding[i] \in BindingRow
      /\ Len(published) \in Nat
      /\ RequestInv(r) /\ r \in RequestRow
  BY DEF PublishInv, PublishTypeOK
<1>2. r.at = "bound" /\ binding' = Append(rest, new)
  BY DEF CommitBinding
<1>3. id \in Nat
  <2>1. r.op \in {"publish", "rollback"}
    BY <1>1, <1>2 DEF RequestInv, Staged, RequestRow
  <2> QED
    BY <1>1, <2>1 DEF RequestInv, Staged
<1>4. Actives(binding) \subseteq {r.row}
  BY <1>1, <1>2 DEF RequestInv, RowHeld, HasRow
<1> HIDE DEF r, id
<1>5. rest \in Seq(BindingRow) /\ Len(rest) = Len(binding)
  <2>1. \A i \in 1..Len(binding) : rest[i] \in BindingRow
    BY <1>1 DEF BindingRow
  <2>2. rest \in [1..Len(binding) -> BindingRow]
    BY <1>1, <2>1
  <2> HIDE DEF rest
  <2> QED
    BY <1>1, <2>2
<1>6. \A i \in 1..Len(binding) : ~ rest[i].active
  <2>1. SUFFICES ASSUME NEW i \in 1..Len(binding)
                 PROVE  ~ rest[i].active
    OBVIOUS
  <2>2. CASE i = r.row
    BY <1>1, <2>2 DEF BindingRow
  <2>3. CASE i # r.row
    <3>1. i \notin Actives(binding)
      BY <1>4, <2>3
    <3> QED
      BY <1>1, <2>3, <3>1 DEF Actives
  <2> QED
    BY <2>2, <2>3
<1>7. new \in BindingRow /\ new.active
  BY <1>3 DEF BindingRow
<1> HIDE DEF rest, new
<1>8. /\ binding' \in Seq(BindingRow)
      /\ Len(binding') = Len(binding) + 1
      /\ \A i \in 1..Len(binding) : binding'[i] = rest[i]
      /\ binding'[Len(binding) + 1] = new
  BY <1>1, <1>2, <1>5, <1>7, AppendProperties
<1>9. DOMAIN binding' = 1..(Len(binding) + 1)
  BY <1>8
<1>10. Actives(binding') = {Len(binding) + 1}
  <2>1. Len(binding) + 1 \in Actives(binding')
    BY <1>1, <1>7, <1>8, <1>9 DEF Actives
  <2>2. ASSUME NEW i \in Actives(binding')
        PROVE  i = Len(binding) + 1
    <3>1. i \in 1..(Len(binding) + 1) /\ binding'[i].active
      BY <1>9 DEF Actives
    <3>2. i \notin 1..Len(binding)
      BY <1>6, <1>8, <3>1
    <3> QED
      BY <1>1, <3>1, <3>2
  <2> QED
    BY <2>1, <2>2
<1> QED
  BY <1>8, <1>10

\* A publish adds one version, with the number it has taken.
LEMMA NewVersion ==
    ASSUME PublishInv, NEW t \in Publishers, CommitBinding(t)
    PROVE  /\ published' \in Seq(PublishedRow)
           /\ Len(published') >= Len(published)
           /\ \A i \in 1..Len(published') : published'[i].number <= i
           /\ \A f \in Flows : ~ (request[t].op = "publish" /\ request[t].flow = f) =>
                 NumbersOf(f, published') = NumbersOf(f, published)
<1> DEFINE r == request[t]
           new == [flow |-> r.flow, number |-> r.number, graph |-> r.graph]
<1>1. /\ published \in Seq(PublishedRow) /\ Len(published) \in Nat
      /\ DOMAIN published = 1..Len(published)
      /\ \A i \in 1..Len(published) : published[i].number <= i
      /\ RequestInv(r) /\ r.at = "bound"
  <2>1. RequestInv(r) /\ r.at = "bound"
    BY DEF PublishInv, CommitBinding
  <2>2. published \in Seq(PublishedRow) /\ \A i \in 1..Len(published) : published[i].number <= i
    BY DEF PublishInv, PublishTypeOK
  <2> QED
    BY <2>1, <2>2
<1>2. CASE r.op # "publish"
  BY <1>1, <1>2 DEF CommitBinding
<1>3. CASE r.op = "publish"
  <2>1. published' = Append(published, new)
    BY <1>3 DEF CommitBinding
  <2>2. r.flow \in Flows /\ r.graph \in FlowGraphs /\ r.number \in 1..(Len(published) + 1)
    BY <1>1, <1>3 DEF RequestInv, Staged, NumberFree, HasNumber
  <2>3. new \in PublishedRow /\ new.flow = r.flow /\ new.number = r.number
    BY <1>1, <2>2 DEF PublishedRow
  <2> HIDE DEF new
  <2>4. /\ published' \in Seq(PublishedRow)
        /\ Len(published') = Len(published) + 1
        /\ \A i \in 1..Len(published) : published'[i] = published[i]
        /\ published'[Len(published) + 1] = new
    BY <1>1, <2>1, <2>3, AppendProperties
  <2>5. \A i \in 1..Len(published') : published'[i].number <= i
    BY <1>1, <2>2, <2>3, <2>4
  <2>6. ASSUME NEW f \in Flows, r.flow # f
        PROVE  NumbersOf(f, published') = NumbersOf(f, published)
    <3>1. DOMAIN published' = 1..(Len(published) + 1)
      BY <2>4
    <3>2. {j \in DOMAIN published' : published'[j].flow = f} =
            {j \in DOMAIN published : published[j].flow = f}
      BY <1>1, <2>3, <2>4, <2>6, <3>1
    <3>3. \A j \in DOMAIN published : published'[j].number = published[j].number
      BY <1>1, <2>4
    <3> QED
      BY <3>2, <3>3 DEF NumbersOf
  <2>7. Len(published') >= Len(published)
    BY <1>1, <2>4
  <2> QED
    BY <1>3, <2>4, <2>5, <2>6, <2>7
<1> QED
  BY <1>2, <1>3

LEMMA CommitBindingKeepsInv ==
    ASSUME PublishInv, NEW t \in Publishers, CommitBinding(t)
    PROVE  PublishInv'
<1>1. /\ request \in [Publishers -> RequestRow]
      /\ draft' = draft /\ request[t].at = "bound"
      /\ request' = [request EXCEPT ![t] = NoRequest]
      /\ NoRequest \in RequestRow
  BY PublishAssumption, NoRequestIsHarmless DEF CommitBinding, PublishInv, PublishTypeOK
<1>2. \A u \in Publishers : request'[u] = IF u = t THEN NoRequest ELSE request[u]
  BY <1>1
<1>3. PublishTypeOK'
  BY <1>1, NewBindingIsAlone, NewVersion DEF PublishInv, PublishTypeOK
<1>4. RequestInv(NoRequest)'
  BY DEF NoRequest, RequestInv, Staged, Compiled, NumberFree, RowHeld, HasDraft, HasNumber, HasRow
<1>5. ASSUME NEW u \in Publishers, u # t
      PROVE  RequestInv(request[u])'
  <2> DEFINE q == request[u]
  <2>1. RequestInv(q) /\ Apart(request[t], q) /\ q' = q
    BY <1>2, <1>5 DEF PublishInv
  <2>2. /\ q.at # "bound" /\ (q.at = "flipped" => q.row = Null)
    BY <1>1, <2>1 DEF Apart
  <2>3. HasDraft(request[t]) <=> request[t].op = "publish"
    BY <1>1 DEF HasDraft
  <2>4. /\ Len(published) \in Nat /\ Len(published') \in Nat
        /\ Len(published') >= Len(published)
    BY NewVersion DEF PublishInv, PublishTypeOK
  <2> HIDE DEF q
  <2>5. Staged(q)' /\ Compiled(q)'
    BY <1>1, <2>1 DEF RequestInv, Staged, Compiled, HasDraft
  <2>6. RowHeld(q)'
    BY <2>1, <2>2 DEF RequestInv, RowHeld, HasRow
  <2>7. NumberFree(q)'
    <3>1. SUFFICES ASSUME HasNumber(q)
                   PROVE  /\ q.number \in 1..(Len(published') + 1)
                          /\ q.number \notin NumbersOf(q.flow, published')
      BY <2>1 DEF NumberFree, HasNumber, NumbersOf
    <3>2. HasDraft(q) /\ q.flow \in Flows
      BY <2>1, <3>1 DEF HasNumber, HasDraft, RequestInv, Staged
    <3>3. NumbersOf(q.flow, published') = NumbersOf(q.flow, published)
      BY <2>1, <2>3, <3>2, NewVersion DEF Apart
    <3>4. q.number \in 1..(Len(published) + 1) /\ q.number \notin NumbersOf(q.flow, published)
      BY <2>1, <3>1 DEF RequestInv, NumberFree
    <3> QED
      BY <2>4, <3>3, <3>4
  <2> QED
    BY <2>5, <2>6, <2>7 DEF RequestInv, q
<1>6. ASSUME NEW u \in Publishers
      PROVE  RequestInv(request[u])'
  <2>1. CASE u = t
    <3>1. request'[u] = NoRequest
      BY <1>2, <2>1
    <3> QED
      BY <1>4, <3>1 DEF RequestInv, Staged, Compiled, NumberFree, RowHeld, HasDraft, HasNumber, HasRow, NoRequest
  <2> QED
    BY <2>1, <1>5
<1>7. \A u, v \in Publishers : u # v => Apart(request'[u], request'[v])
  BY <1>2, PublishAssumption, NoRequestIsHarmless DEF PublishInv
<1>8. \A i, j \in Actives(binding') : i = j
  BY NewBindingIsAlone
<1> QED
  BY <1>3, <1>6, <1>7, <1>8 DEF PublishInv, Apart, HasDraft, Actives

-----------------------------------------------------------------------------
\* Whatever is asked of a flow and its entry point, at once and in whatever order:
\* the entry point has at most one active binding, two transactions that publish
\* have no flow in common, whoever has locked a draft holds the version that was
\* compiled, the number it has taken is free, and nobody is about to bind while
\* another has deactivated a row.
THEOREM PublishInvariance ==
    PublishSpec => []PublishInv
<1>1. PublishInit => PublishInv
  <2> SUFFICES ASSUME PublishInit PROVE PublishInv
    OBVIOUS
  <2>1. \A t \in Publishers : request[t] = NoRequest
    BY DEF PublishInit
  <2>2. PublishTypeOK
    <3>1. draft \in [Flows -> DraftRow]
      <4>1. {[graph |-> g, version |-> 1, on |-> TRUE] : g \in FlowGraphs} \subseteq DraftRow
        <5>1. \A g \in FlowGraphs : [graph |-> g, version |-> 1, on |-> TRUE] \in DraftRow
          BY DEF DraftRow
        <5> QED
          BY <5>1
      <4> QED
        BY <4>1 DEF PublishInit
    <3>2. request \in [Publishers -> RequestRow]
      BY PublishAssumption, NoRequestIsHarmless DEF PublishInit
    <3> QED
      BY <3>1, <3>2 DEF PublishInit, PublishTypeOK
  <2>3. Actives(binding) = {}
    BY DEF PublishInit, Actives
  <2> QED
    BY <2>1, <2>2, <2>3, PublishAssumption, NoRequestIsHarmless DEF PublishInv
<1>2. PublishInv /\ [PublishNext]_publishVars => PublishInv'
  <2> SUFFICES ASSUME PublishInv, [PublishNext]_publishVars PROVE PublishInv'
    OBVIOUS
  <2>1. CASE UNCHANGED publishVars
    BY <2>1 DEF publishVars, PublishInv, PublishTypeOK, RequestInv, Staged, Compiled,
       NumberFree, RowHeld, HasDraft, HasNumber, HasRow, NumbersOf, Actives, Apart
  <2>2. ASSUME NEW f \in Flows, UpdateFlow(f) \/ SoftDeleteFlow(f) PROVE PublishInv'
    BY <2>2, UpdateFlowKeepsInv, SoftDeleteFlowKeepsInv
  <2>3. ASSUME NEW t \in Publishers,
               PublishFlow(t) \/ LockFlowForPublish(t) \/ InsertFlowVersion(t) \/ RollbackFlow(t)
        PROVE  PublishInv'
    BY <2>3, PublishFlowKeepsInv, LockFlowForPublishKeepsInv, InsertFlowVersionKeepsInv,
       RollbackFlowKeepsInv
  <2>4. ASSUME NEW t \in Publishers, BindActive(t) PROVE PublishInv'
    BY <2>4, DeactivateBindingKeepsInv, DeactivateAfterWaitKeepsInv,
       InsertActiveBindingKeepsInv, CommitBindingKeepsInv DEF BindActive
  <2>5. ASSUME NEW t \in Publishers, GiveUp(t) PROVE PublishInv'
    BY <2>5, RefusalKeepsPublishInv DEF GiveUp, RefuseTransaction
  <2> QED
    BY <2>1, <2>2, <2>3, <2>4, <2>5 DEF PublishNext
<1> QED
  BY <1>1, <1>2, PTL DEF PublishSpec

\* A publish or a rollback that commits has replaced what its caller expected,
\* leaves only its own binding active, and publishes the draft as it then stands,
\* under a number its flow has not used.
THEOREM PublishesWhatStands ==
    PublishSpec => PublishTakesEffectOnWhatItSaw
<1> DEFINE Effect(t) ==
      binding' # binding /\ request'[t] # request[t] =>
        LET r == request[t]
        IN  /\ Actives(binding') = {Len(binding')}
            /\ r.expected # Null =>
                 \E i \in Actives(binding) : binding[i].version = r.expected
            /\ r.op = "publish" =>
                 /\ draft[r.flow].on
                 /\ draft[r.flow].graph = r.graph
                 /\ r.number \notin NumbersOf(r.flow, published)
<1>1. PublishInv /\ [PublishNext]_publishVars =>
        [\A t \in Publishers : Effect(t)]_publishVars
  <2> SUFFICES ASSUME PublishInv, PublishNext, NEW t \in Publishers,
                      binding' # binding, request'[t] # request[t]
               PROVE  Effect(t)
    OBVIOUS
  <2>1. PICK u \in Publishers : CommitBinding(u)
    BY DEF PublishNext, UpdateFlow, SoftDeleteFlow, PublishFlow, LockFlowForPublish,
       InsertFlowVersion, RollbackFlow, BindActive, DeactivateBinding,
       DeactivateAfterWait, InsertActiveBinding, GiveUp, RefuseTransaction
  <2>2. u = t
    BY <2>1 DEF CommitBinding, PublishInv, PublishTypeOK
  <2> DEFINE r == request[t]
  <2>3. RequestInv(r) /\ r.at = "bound"
    BY <2>1, <2>2 DEF PublishInv, CommitBinding
  <2>4. Actives(binding') = {Len(binding')}
    BY <2>1, NewBindingIsAlone
  <2> HIDE DEF r
  <2>5. r.expected # Null => \E i \in Actives(binding) : binding[i].version = r.expected
    BY <2>3 DEF RequestInv, RowHeld, HasRow
  <2>6. r.op = "publish" => /\ draft[r.flow].on
                            /\ draft[r.flow].graph = r.graph
                            /\ r.number \notin NumbersOf(r.flow, published)
    BY <2>3 DEF RequestInv, Compiled, NumberFree, HasDraft, HasNumber
  <2> QED
    BY <2>4, <2>5, <2>6 DEF r
<1> HIDE DEF Effect
<1>2. PublishSpec => [][\A t \in Publishers : Effect(t)]_publishVars
  BY <1>1, PublishInvariance, PTL DEF PublishSpec
<1> QED
  BY <1>2 DEF PublishTakesEffectOnWhatItSaw, Effect

-----------------------------------------------------------------------------
(***************************************************************************)
(* Retry-safe import, for any files, keys and number of POSTs at work, and *)
(* whatever is lost, crashes or is swept: a key imports once.  The reason  *)
(* is not the lookup, which a second POST passes while the first has no    *)
(* job yet, but that rows land only under a job row, and that two job rows *)
(* never have one key.                                                     *)
(***************************************************************************)

-----------------------------------------------------------------------------
(* Shapes *)

MaybeKey == ImportKeys \cup {Null}

Job == [key : MaybeKey, status : {"pending", "completed", "failed"},
        ok : BOOLEAN, bad : BOOLEAN]

Post ==
    [stage : {"sent", "parse", "chunks", "answered"}, key : MaybeKey,
     file : Files \cup {Null}, job : Nat \cup {Null}, left : Nat,
     ok : BOOLEAN, bad : BOOLEAN, answer : {"result", "refusal", Null}]

Upload ==
    [step : 1..3, entity : BOOLEAN, format : Formats, file : Files \cup {Null},
     key : MaybeKey, post : Nat \cup {Null}, result : BOOLEAN]

ImportTypeOK ==
    /\ upload \in Upload
    /\ imports \in [1..MaxImports -> Post \cup {Null}]
    /\ jobs \in Seq(Job)

\* A POST that may still be parsed has its file, and one that writes chunks has
\* its job.
PostInv(post) ==
    post # Null => /\ post.stage \in {"sent", "parse"} => post.file \in Files
                   /\ post.stage = "chunks" => post.job \in 1..Len(jobs)

KeysAreUnique ==
    \A i, j \in 1..Len(jobs) : jobs[i].key # Null /\ jobs[i].key = jobs[j].key => i = j

ImportInv ==
    /\ ImportTypeOK
    /\ upload.step = 3 => upload.file \in Files
    /\ \A i \in 1..MaxImports : PostInv(imports[i])
    /\ KeysAreUnique
    /\ landed \subseteq 1..Len(jobs)

-----------------------------------------------------------------------------
(* The server *)

LEMMA NewPostType ==
    ASSUME NEW key \in MaybeKey, NEW file \in Files \cup {Null}
    PROVE  /\ NewPost(key, file) \in Post
           /\ NewPost(key, file).stage = "sent"
           /\ NewPost(key, file).file = file
BY DEF NewPost, Post

\* A step of one POST: it goes on, on the job rows it leaves.
LEMMA PostStep ==
    ASSUME ImportInv, NEW i \in 1..MaxImports, NEW post \in Post,
           imports' = [imports EXCEPT ![i] = post],
           PostInv(post)', UNCHANGED upload,
           jobs' \in Seq(Job), Len(jobs') >= Len(jobs), KeysAreUnique',
           landed' \subseteq 1..Len(jobs')
    PROVE  ImportInv'
<1>1. imports' \in [1..MaxImports -> Post \cup {Null}]
  BY DEF ImportInv, ImportTypeOK
<1>2. ASSUME NEW k \in 1..MaxImports PROVE PostInv(imports[k])'
  <2>1. CASE k = i
    BY <2>1 DEF ImportInv, ImportTypeOK
  <2>2. CASE k # i
    <3>1. imports'[k] = imports[k] /\ PostInv(imports[k])
      BY <2>2 DEF ImportInv, ImportTypeOK
    <3>2. Len(jobs) \in Nat /\ Len(jobs') \in Nat
      BY DEF ImportInv, ImportTypeOK
    <3> QED
      BY <3>1, <3>2 DEF PostInv
  <2> QED
    BY <2>1, <2>2
<1> QED
  BY <1>1, <1>2 DEF ImportInv, ImportTypeOK

\* The answer ends the work, so it is owed no file and no job.
LEMMA AnsweredStep ==
    ASSUME ImportInv, NEW i \in 1..MaxImports, NEW answer \in {"result", "refusal"},
           Answered(i, answer), UNCHANGED <<upload, landed>>,
           jobs' \in Seq(Job), Len(jobs') = Len(jobs), KeysAreUnique'
    PROVE  ImportInv'
<1> DEFINE post == [NewPost(Null, Null) EXCEPT !.stage = "answered", !.answer = answer]
<1>1. post \in Post /\ post.stage = "answered"
  BY DEF NewPost, Post, MaybeKey
<1>2. imports' = [imports EXCEPT ![i] = post]
  BY DEF Answered
<1> HIDE DEF post
<1>3. PostInv(post)'
  BY <1>1 DEF PostInv
<1>4. Len(jobs') >= Len(jobs) /\ landed' \subseteq 1..Len(jobs')
  BY DEF ImportInv, ImportTypeOK
<1> QED
  BY <1>1, <1>2, <1>3, <1>4, PostStep

LEMMA PostFields ==
    ASSUME ImportInv, NEW i \in 1..MaxImports, NEW stage, At(i, stage)
    PROVE  /\ imports[i] \in Post
           /\ imports[i].stage = stage
           /\ PostInv(imports[i])
           /\ imports[i] # Null
BY DEF ImportInv, ImportTypeOK, At

\* A new job has a key that no job has, or none.
LEMMA CreateJobStep ==
    ASSUME ImportInv, NEW i \in 1..MaxImports, createJob(i)
    PROVE  ImportInv'
<1>1. /\ imports[i] \in Post
      /\ imports[i].file \in Files
      /\ imports[i].key \in MaybeKey
      /\ jobs \in Seq(Job) /\ Len(jobs) \in Nat
      /\ UNCHANGED <<upload, landed>>
  BY PostFields DEF createJob, ServerOnly, PostInv, Post, ImportInv, ImportTypeOK
<1>2. CASE Answered(i, "refusal") /\ UNCHANGED jobs
  BY <1>1, <1>2, AnsweredStep DEF ImportInv, KeysAreUnique
<1>3. CASE ~(Answered(i, "refusal") /\ UNCHANGED jobs)
  <2> DEFINE job == [key |-> imports[i].key, status |-> "pending",
                     ok |-> FALSE, bad |-> FALSE]
             chunks == imports[i].file.chunks
  <2>1. /\ ~KeyUsed(imports[i].key)
        /\ jobs' = Append(jobs, job)
        /\ imports' = [imports EXCEPT ![i].stage = "chunks", ![i].job = Len(jobs'),
                                      ![i].left = chunks, ![i].file = Null]
    BY <1>3 DEF createJob
  <2>2. job \in Job /\ job.key = imports[i].key
    BY <1>1 DEF Job
  <2>3. chunks \in Nat
    BY <1>1, ImportAssumption
  <2> HIDE DEF job, chunks
  <2>4. /\ jobs' \in Seq(Job) /\ Len(jobs') = Len(jobs) + 1
        /\ \A j \in 1..Len(jobs) : jobs'[j] = jobs[j]
        /\ jobs'[Len(jobs) + 1] = job
    BY <1>1, <2>1, <2>2, AppendProperties
  <2>5. PICK number \in Nat : number = Len(jobs')
    BY <1>1, <2>4
  <2>6. PICK post \in Post : /\ imports' = [imports EXCEPT ![i] = post]
                             /\ post.stage = "chunks" /\ post.job = number
    <3> DEFINE new == [imports[i] EXCEPT !.stage = "chunks", !.job = number,
                                         !.left = chunks, !.file = Null]
    <3>1. imports' = [imports EXCEPT ![i] = new]
      BY <1>1, <2>1, <2>5 DEF ImportInv, ImportTypeOK
    <3>2. new \in Post /\ new.stage = "chunks" /\ new.job = number
      BY <1>1, <2>3, <2>5 DEF Post
    <3> HIDE DEF new
    <3> QED
      BY <3>1, <3>2
  <2>7. PostInv(post)'
    BY <1>1, <2>4, <2>5, <2>6 DEF PostInv
  <2>8. KeysAreUnique'
    <3> SUFFICES ASSUME NEW j \in 1..Len(jobs'), NEW k \in 1..Len(jobs'),
                        jobs'[j].key # Null, jobs'[j].key = jobs'[k].key
                 PROVE  j = k
      BY DEF KeysAreUnique
    <3>1. DOMAIN jobs = 1..Len(jobs)
      BY <1>1
    <3>2. \A l \in 1..Len(jobs) : imports[i].key # Null => jobs[l].key # imports[i].key
      BY <2>1, <3>1 DEF KeyUsed
    <3>3. CASE j \in 1..Len(jobs) /\ k \in 1..Len(jobs)
      BY <2>4, <3>3 DEF ImportInv, KeysAreUnique
    <3>4. Len(jobs) \in Nat
      BY <1>1
    <3>5. \A l \in 1..Len(jobs') : l \notin 1..Len(jobs) => l = Len(jobs) + 1
      BY <2>4, <3>4
    <3>6. jobs'[Len(jobs) + 1].key = imports[i].key
      BY <2>2, <2>4
    <3>7. CASE j \in 1..Len(jobs) /\ k \notin 1..Len(jobs)
      <4>1. jobs[j].key = imports[i].key /\ imports[i].key # Null
        BY <2>4, <3>5, <3>6, <3>7, Zenon
      <4> QED
        BY <3>2, <3>7, <4>1, Zenon
    <3>8. CASE j \notin 1..Len(jobs) /\ k \in 1..Len(jobs)
      <4>1. jobs[k].key = imports[i].key /\ imports[i].key # Null
        BY <2>4, <3>5, <3>6, <3>8, Zenon
      <4> QED
        BY <3>2, <3>8, <4>1, Zenon
    <3>9. CASE j \notin 1..Len(jobs) /\ k \notin 1..Len(jobs)
      BY <3>5, <3>9
    <3> QED
      BY <3>3, <3>7, <3>8, <3>9
  <2>9. Len(jobs') >= Len(jobs) /\ landed' \subseteq 1..Len(jobs')
    BY <1>1, <2>4 DEF ImportInv
  <2> QED
    BY <1>1, <2>4, <2>6, <2>7, <2>8, <2>9, PostStep
<1> QED
  BY <1>2, <1>3

\* Rows land under the job of the POST that writes them.
LEMMA ProcessChunkStep ==
    ASSUME ImportInv, NEW i \in 1..MaxImports, processChunk(i)
    PROVE  ImportInv'
<1>1. /\ imports[i] \in Post /\ imports[i].stage = "chunks"
      /\ imports[i].job \in 1..Len(jobs)
      /\ imports[i].left > 0
      /\ UNCHANGED <<upload, jobs>>
  BY PostFields DEF processChunk, ServerOnly, PostInv
<1>2. PICK outcome \in [ok : BOOLEAN, bad : BOOLEAN] :
        /\ imports' = [imports EXCEPT ![i].left = @ - 1, ![i].ok = @ \/ outcome.ok,
                                      ![i].bad = @ \/ outcome.bad]
        /\ landed' = IF outcome.ok THEN landed \cup {imports[i].job} ELSE landed
  BY DEF processChunk
<1> DEFINE left == imports[i].left - 1
           ok == imports[i].ok \/ outcome.ok
           bad == imports[i].bad \/ outcome.bad
<1>3. left \in Nat /\ ok \in BOOLEAN /\ bad \in BOOLEAN
  BY <1>1 DEF Post
<1>4. imports' = [imports EXCEPT ![i] = [imports[i] EXCEPT !.left = left, !.ok = ok, !.bad = bad]]
  BY <1>2 DEF ImportInv, ImportTypeOK
<1> HIDE DEF left, ok, bad
<1>5. PICK post \in Post : /\ imports' = [imports EXCEPT ![i] = post]
                           /\ post.stage = "chunks" /\ post.job = imports[i].job
  <2> DEFINE new == [imports[i] EXCEPT !.left = left, !.ok = ok, !.bad = bad]
  <2>1. new \in Post /\ new.stage = "chunks" /\ new.job = imports[i].job
    BY <1>1, <1>3 DEF Post
  <2> HIDE DEF new
  <2> QED
    BY <1>4, <2>1 DEF new
<1>6. PostInv(post)'
  BY <1>1, <1>5 DEF PostInv
<1>7. landed' \subseteq 1..Len(jobs')
  BY <1>1, <1>2 DEF ImportInv
<1>8. /\ jobs' \in Seq(Job) /\ Len(jobs') >= Len(jobs)
      /\ KeysAreUnique'
  BY <1>1 DEF ImportInv, ImportTypeOK, KeysAreUnique
<1> QED
  BY <1>1, <1>5, <1>6, <1>7, <1>8, PostStep

\* The end of a job, or its sweep, leaves its key.
LEMMA JobEnds ==
    ASSUME ImportInv, NEW j \in 1..Len(jobs), NEW status \in {"completed", "failed"},
           NEW ok \in BOOLEAN, NEW bad \in BOOLEAN,
           jobs' = [jobs EXCEPT ![j] = [jobs[j] EXCEPT !.status = status, !.ok = ok,
                                                       !.bad = bad]]
    PROVE  jobs' \in Seq(Job) /\ Len(jobs') = Len(jobs) /\ KeysAreUnique'
<1> DEFINE job == [jobs[j] EXCEPT !.status = status, !.ok = ok, !.bad = bad]
<1>1. jobs \in Seq(Job) /\ jobs[j] \in Job
  BY DEF ImportInv, ImportTypeOK
<1>2. job \in Job /\ job.key = jobs[j].key
  BY <1>1 DEF Job
<1> HIDE DEF job
<1>3. jobs' = [jobs EXCEPT ![j] = job]
  BY DEF job
<1>4. /\ jobs' \in Seq(Job) /\ Len(jobs') = Len(jobs)
      /\ \A k \in 1..Len(jobs) : jobs'[k].key = jobs[k].key
  BY <1>1, <1>2, <1>3
<1> QED
  BY <1>4 DEF ImportInv, KeysAreUnique

LEMMA FinaliseJobStep ==
    ASSUME ImportInv, NEW i \in 1..MaxImports, finaliseJob(i)
    PROVE  ImportInv'
<1>1. /\ imports[i] \in Post
      /\ imports[i].job \in 1..Len(jobs)
      /\ UNCHANGED <<upload, landed>>
  BY PostFields DEF finaliseJob, ServerOnly, PostInv
<1>2. CASE Answered(i, "refusal") /\ UNCHANGED jobs
  BY <1>1, <1>2, AnsweredStep DEF ImportInv, ImportTypeOK, KeysAreUnique
<1>3. CASE ~(Answered(i, "refusal") /\ UNCHANGED jobs)
  <2> DEFINE ok == imports[i].ok
             bad == imports[i].bad
             job == imports[i].job
             status == IF ok THEN "completed" ELSE "failed"
  <2>1. /\ jobs' = [jobs EXCEPT ![job].status = status, ![job].ok = ok, ![job].bad = bad]
        /\ Answered(i, "result")
    BY <1>3 DEF finaliseJob
  <2>2. /\ ok \in BOOLEAN /\ bad \in BOOLEAN
        /\ status \in {"completed", "failed"}
        /\ job \in 1..Len(jobs)
    BY <1>1 DEF Post
  <2>3. jobs \in Seq(Job)
    BY DEF ImportInv, ImportTypeOK
  <2> HIDE DEF ok, bad, job, status
  <2>4. jobs' = [jobs EXCEPT ![job] = [jobs[job] EXCEPT !.status = status, !.ok = ok,
                                                       !.bad = bad]]
    BY <2>1, <2>2, <2>3
  <2>5. jobs' \in Seq(Job) /\ Len(jobs') = Len(jobs) /\ KeysAreUnique'
    BY <2>2, <2>4, JobEnds
  <2> QED
    BY <1>1, <2>1, <2>5, AnsweredStep
<1> QED
  BY <1>2, <1>3

\* The steps of one POST.
LEMMA BulkImportKeeps ==
    ASSUME ImportInv, NEW i \in 1..MaxImports, BulkImportCatalog(i)
    PROVE  ImportInv'
<1>1. CASE lookupIdempotentReplay(i)
  <2>1. /\ imports[i] \in Post /\ imports[i].stage = "sent" /\ imports[i].file \in Files
        /\ UNCHANGED <<upload, jobs, landed>>
    BY <1>1, PostFields DEF lookupIdempotentReplay, ServerOnly, PostInv
  <2>2. /\ jobs' \in Seq(Job) /\ Len(jobs') = Len(jobs) /\ Len(jobs') >= Len(jobs)
        /\ KeysAreUnique' /\ landed' \subseteq 1..Len(jobs')
    BY <2>1 DEF ImportInv, ImportTypeOK, KeysAreUnique
  <2>3. CASE Answered(i, "result") \/ Answered(i, "refusal")
    BY <2>1, <2>2, <2>3, AnsweredStep
  <2>4. CASE imports' = [imports EXCEPT ![i].stage = "parse"]
    <3>1. PICK post \in Post : /\ imports' = [imports EXCEPT ![i] = post]
                               /\ post.stage = "parse" /\ post.file = imports[i].file
      <4> DEFINE new == [imports[i] EXCEPT !.stage = "parse"]
      <4>1. new \in Post /\ new.stage = "parse" /\ new.file = imports[i].file
        BY <2>1 DEF Post
      <4>2. imports' = [imports EXCEPT ![i] = new]
        BY <2>4
      <4> HIDE DEF new
      <4> QED
        BY <4>1, <4>2
    <3>2. PostInv(post)'
      BY <2>1, <3>1 DEF PostInv
    <3> QED
      BY <2>1, <2>2, <3>1, <3>2, PostStep
  <2> QED
    BY <1>1, <2>3, <2>4 DEF lookupIdempotentReplay
<1>2. CASE ParseFile(i)
  <2>1. /\ UNCHANGED <<upload, jobs, landed>>
        /\ Answered(i, "result") \/ Answered(i, "refusal")
    BY <1>2 DEF ParseFile, ServerOnly
  <2>2. jobs' \in Seq(Job) /\ Len(jobs') = Len(jobs) /\ KeysAreUnique'
    BY <2>1 DEF ImportInv, ImportTypeOK, KeysAreUnique
  <2> QED
    BY <2>1, <2>2, AnsweredStep
<1> QED
  BY <1>1, <1>2, CreateJobStep, ProcessChunkStep, FinaliseJobStep DEF BulkImportCatalog

\* A crash forgets the POSTs, not the rows.
LEMMA ImportCrashKeeps == ImportInv /\ ImportCrash => ImportInv'
<1> SUFFICES ASSUME ImportInv, ImportCrash PROVE ImportInv'
  OBVIOUS
<1>1. imports' = [i \in 1..MaxImports |-> Null]
  BY DEF ImportCrash, ImportInv, ImportTypeOK
<1>2. upload' \in Upload /\ upload'.step = upload.step /\ upload'.file = upload.file
  BY DEF ImportCrash, ImportInv, ImportTypeOK, Upload
<1> QED
  BY <1>1, <1>2 DEF ImportCrash, ImportInv, ImportTypeOK, PostInv, KeysAreUnique

LEMMA SweepKeeps == ImportInv /\ SweepCrashedImportJobs => ImportInv'
<1> SUFFICES ASSUME ImportInv, SweepCrashedImportJobs PROVE ImportInv'
  OBVIOUS
<1>1. jobs \in Seq(Job) /\ DOMAIN jobs = 1..Len(jobs)
  BY DEF ImportInv, ImportTypeOK
<1>2. PICK j \in 1..Len(jobs) : jobs' = [jobs EXCEPT ![j].status = "failed"]
  BY <1>1 DEF SweepCrashedImportJobs
<1>3. jobs[j] \in Job
  BY <1>1
<1>4. ASSUME NEW job \in Job
      PROVE  /\ job.ok \in BOOLEAN /\ job.bad \in BOOLEAN
             /\ [job EXCEPT !.status = "failed"] =
                    [job EXCEPT !.status = "failed", !.ok = job.ok, !.bad = job.bad]
  BY DEF Job
<1>5. jobs' = [jobs EXCEPT ![j] = [jobs[j] EXCEPT !.status = "failed", !.ok = jobs[j].ok,
                                                  !.bad = jobs[j].bad]]
  BY <1>2, <1>3, <1>4
<1>6. jobs[j].ok \in BOOLEAN /\ jobs[j].bad \in BOOLEAN
  BY <1>3, <1>4
<1>7. jobs' \in Seq(Job) /\ Len(jobs') = Len(jobs) /\ KeysAreUnique'
  BY <1>5, <1>6, JobEnds
<1> QED
  BY <1>7 DEF SweepCrashedImportJobs, ImportInv, ImportTypeOK, PostInv

-----------------------------------------------------------------------------
(* The pages *)

\* A step of the upload page that sends nothing.
PageTo(u) == Page(u) /\ u \in Upload /\ (u.step = 3 => u.file \in Files)

LEMMA PageStep ==
    ASSUME ImportInv, NEW u, PageTo(u)
    PROVE  ImportInv'
BY DEF PageTo, Page, ImportInv, ImportTypeOK, PostInv, KeysAreUnique

\* Leaving the page.
LEMMA NavigatePage == NewUpload \in Upload /\ NewUpload.step = 1
BY DEF NewUpload, Upload, Formats, MaybeKey

\* The second step: the file, its format and the key.
LEMMA Step2Keeps == ImportInv /\ renderStep2 => ImportInv'
<1> SUFFICES ASSUME ImportInv, renderStep2 PROVE ImportInv'
  OBVIOUS
<1>1. upload \in Upload /\ upload.step = 2
  BY DEF renderStep2, ImportInv, ImportTypeOK
<1>2. CASE handleFileChosen
  <2>1. PICK file \in Files \cup {Null} : Page([upload EXCEPT !.file = file])
    BY <1>2 DEF handleFileChosen
  <2>2. PageTo([upload EXCEPT !.file = file])
    BY <1>1, <2>1 DEF Upload, PageTo
  <2> QED
    BY <2>2, PageStep
<1>3. CASE FormatToggle
  <2>1. PICK format \in Formats : Page([upload EXCEPT !.format = format, !.file = Null])
    BY <1>3 DEF FormatToggle
  <2> DEFINE u == [upload EXCEPT !.format = format, !.file = Null]
  <2>2. Page(u)
    BY <2>1
  <2>3. u \in Upload /\ u.step = 2
    BY <1>1 DEF Upload
  <2> HIDE DEF u
  <2> QED
    BY <2>2, <2>3, PageStep DEF PageTo
<1>4. CASE RemoveFile
  <2>1. PageTo([upload EXCEPT !.file = Null])
    BY <1>1, <1>4 DEF Upload, PageTo, RemoveFile
  <2> QED
    BY <2>1, PageStep
<1>5. CASE handleIdempotencyToggle
  <2>1. PICK key \in MaybeKey : Page([upload EXCEPT !.key = key])
    BY <1>5 DEF handleIdempotencyToggle, FreshKeys, MaybeKey
  <2>2. PageTo([upload EXCEPT !.key = key])
    BY <1>1, <2>1 DEF Upload, PageTo
  <2> QED
    BY <2>2, PageStep
<1>6. CASE stepBack
  <2>1. Page([upload EXCEPT !.step = 1])
    BY <1>1, <1>6 DEF stepBack
  <2>2. PageTo([upload EXCEPT !.step = 1])
    BY <1>1, <2>1 DEF Upload, PageTo
  <2> QED
    BY <2>2, PageStep
<1>7. CASE stepNext
  <2>1. Page([upload EXCEPT !.step = 3]) /\ upload.file # Null
    BY <1>1, <1>7 DEF stepNext
  <2>2. PageTo([upload EXCEPT !.step = 3])
    BY <1>1, <2>1 DEF Upload, PageTo
  <2> QED
    BY <2>2, PageStep
<1> QED
  BY <1>2, <1>3, <1>4, <1>5, <1>6, <1>7 DEF renderStep2

\* A POST takes the page's key and file to the server.
LEMMA DoImportKeeps == ImportInv /\ upload.step = 3 /\ doImport => ImportInv'
<1> SUFFICES ASSUME ImportInv, upload.step = 3, doImport PROVE ImportInv'
  OBVIOUS
<1>1. /\ upload \in Upload /\ upload.key \in MaybeKey /\ upload.file \in Files
      /\ imports \in [1..MaxImports -> Post \cup {Null}]
  BY DEF ImportInv, ImportTypeOK, Upload
<1>2. PICK i \in 1..MaxImports :
        /\ imports' = [imports EXCEPT ![i] = NewPost(upload.key, upload.file)]
        /\ upload' = [upload EXCEPT !.post = i]
        /\ UNCHANGED <<jobs, landed, jobView>>
  BY <1>1 DEF doImport
<1> DEFINE post == NewPost(upload.key, upload.file)
<1>3. post \in Post /\ post.stage = "sent" /\ post.file \in Files
  BY <1>1, NewPostType
<1>4. upload' \in Upload /\ upload'.step = 3 /\ upload'.file = upload.file
  BY <1>1, <1>2 DEF Upload
<1> HIDE DEF post
<1>5. /\ imports' \in [1..MaxImports -> Post \cup {Null}]
      /\ \A k \in 1..MaxImports : imports'[k] = IF k = i THEN post ELSE imports[k]
  BY <1>1, <1>2, <1>3 DEF post
<1>6. \A k \in 1..MaxImports : PostInv(imports[k])'
  BY <1>2, <1>3, <1>5 DEF PostInv, ImportInv
<1> QED
  BY <1>1, <1>2, <1>4, <1>5, <1>6 DEF ImportInv, ImportTypeOK, KeysAreUnique

LEMMA ScreenKeeps == ImportInv /\ ImportScreen => ImportInv'
<1> SUFFICES ASSUME ImportInv, ImportScreen PROVE ImportInv'
  OBVIOUS
<1>1. upload \in Upload
  BY DEF ImportInv, ImportTypeOK
<1>2. CASE UploadNavigate
  BY <1>2, NavigatePage, PageStep DEF UploadNavigate, PageTo
<1>3. CASE renderStep1
  <2>1. CASE Page([upload EXCEPT !.entity = TRUE])
    <3> DEFINE u == [upload EXCEPT !.entity = TRUE]
    <3>1. Page(u)
      BY <2>1
    <3>2. u \in Upload /\ u.step = 1
      BY <1>1, <1>3 DEF renderStep1, Upload
    <3> HIDE DEF u
    <3> QED
      BY <3>1, <3>2, PageStep DEF PageTo
  <2>2. CASE stepNext
    <3>1. Page([upload EXCEPT !.step = 2])
      BY <1>3, <2>2 DEF renderStep1, stepNext
    <3>2. PageTo([upload EXCEPT !.step = 2])
      BY <1>1, <3>1 DEF Upload, PageTo
    <3> QED
      BY <3>2, PageStep
  <2> QED
    BY <1>3, <2>1, <2>2 DEF renderStep1
<1>4. CASE renderStep2
  BY <1>4, Step2Keeps
<1>5. CASE renderStep3
  <2>1. upload.step = 3
    BY <1>5 DEF renderStep3
  <2>2. CASE stepBack
    <3>1. Page([upload EXCEPT !.step = 2])
      BY <1>1, <2>1, <2>2 DEF stepBack
    <3>2. PageTo([upload EXCEPT !.step = 2])
      BY <1>1, <3>1 DEF Upload, PageTo
    <3> QED
      BY <3>2, PageStep
  <2> QED
    BY <1>5, <2>1, <2>2, DoImportKeeps DEF renderStep3
<1>6. CASE renderInlineResult
  <2>1. CASE Page([NewUpload EXCEPT !.key = upload.key, !.format = upload.format])
    <3> DEFINE u == [NewUpload EXCEPT !.key = upload.key, !.format = upload.format]
    <3>1. Page(u)
      BY <2>1
    <3>2. u \in Upload /\ u.step = 1
      BY <1>1, NavigatePage DEF Upload
    <3> HIDE DEF u
    <3> QED
      BY <3>1, <3>2, PageStep DEF PageTo
  <2> QED
    BY <1>2, <1>6, <2>1 DEF renderInlineResult
<1> QED
  BY <1>2, <1>3, <1>4, <1>5, <1>6 DEF ImportScreen

\* The answer reaches the page or is dropped.
LEMMA AnswerKeeps ==
    ASSUME ImportInv, NEW i \in 1..MaxImports, importCatalog(i)
    PROVE  ImportInv'
<1>1. imports' = [imports EXCEPT ![i] = Null] /\ UNCHANGED <<jobs, landed>>
  BY DEF importCatalog
<1>2. upload' \in Upload /\ upload'.step = upload.step /\ upload'.file = upload.file
  BY DEF importCatalog, ImportInv, ImportTypeOK, Upload
<1>3. /\ imports' \in [1..MaxImports -> Post \cup {Null}]
      /\ \A k \in 1..MaxImports : imports'[k] = IF k = i THEN Null ELSE imports[k]
  BY <1>1 DEF ImportInv, ImportTypeOK
<1> QED
  BY <1>1, <1>2, <1>3 DEF ImportInv, ImportTypeOK, PostInv, KeysAreUnique

-----------------------------------------------------------------------------
\* Every step keeps the invariant.
LEMMA ImportNextKeeps == ImportInv /\ [ImportNext]_importVars => ImportInv'
<1> SUFFICES ASSUME ImportInv, [ImportNext]_importVars PROVE ImportInv'
  OBVIOUS
<1>1. DOMAIN imports = 1..MaxImports /\ upload \in Upload
  BY DEF ImportInv, ImportTypeOK
<1>2. CASE UNCHANGED <<upload, imports, jobs, landed>>
  BY <1>2 DEF ImportInv, ImportTypeOK, PostInv, KeysAreUnique
<1>3. CASE ConnectionLost
  <2>1. Page([upload EXCEPT !.post = Null]) /\ (upload.step = 3 => upload.file \in Files)
    BY <1>3 DEF ConnectionLost, ImportInv
  <2>2. PageTo([upload EXCEPT !.post = Null])
    BY <1>1, <2>1 DEF Upload, PageTo
  <2> QED
    BY <2>2, PageStep
<1>4. ASSUME NEW i \in 1..MaxImports, BulkImportCatalog(i) \/ importCatalog(i)
      PROVE  ImportInv'
  BY <1>4, BulkImportKeeps, AnswerKeeps
<1>5. CASE ImportScreen \/ ImportCrash \/ SweepCrashedImportJobs
  BY <1>5, ScreenKeeps, ImportCrashKeeps, SweepKeeps
<1>6. CASE ImportResultScreen
  BY <1>2, <1>6 DEF ImportResultScreen
<1> QED
  BY <1>1, <1>2, <1>3, <1>4, <1>5, <1>6 DEF ImportNext, importVars

THEOREM ImportInvariance == ImportSpec => []ImportInv
<1>1. ImportInit => ImportInv
  BY NavigatePage DEF ImportInit, ImportInv, ImportTypeOK, PostInv, KeysAreUnique
<1> QED
  BY <1>1, ImportNextKeeps, PTL DEF ImportSpec

\* Under one key the rows of at most one POST reach the catalog, whatever retries
\* there are, while the first is at work, after its answer was lost, after the
\* server died and after the sweep.
THEOREM AKeyImportsOnce == ImportSpec => []KeyImportsOnce
<1>1. ImportInv => KeyImportsOnce
  BY DEF ImportInv, KeysAreUnique, KeyImportsOnce
<1> QED
  BY <1>1, ImportInvariance, PTL

-----------------------------------------------------------------------------
(***************************************************************************)
(* The create forms, for any names and codes that can be typed and any     *)
(* length a code is cut to: the code is what nameToCode makes of the name  *)
(* until the user saves one of his own, and nothing but a code is carried  *)
(* past the first step or posted.                                          *)
(***************************************************************************)

-----------------------------------------------------------------------------
(* Shapes *)

\* What can be in the code field: made of a name, or typed.
CodesHeld == {nameToCode(name) : name \in FormNames \cup {<<>>}} \cup Drafts \cup {<<>>}

FormRow ==
    [kind : FormKinds, step : Nat, name : FormNames \cup {<<>>}, code : CodesHeld,
     auto : BOOLEAN, editing : BOOLEAN, draft : CodesHeld, touched : BOOLEAN,
     filled : BOOLEAN, submitting : BOOLEAN]

FormOK(f) ==
    /\ f \in FormRow /\ f.step \in 0..LastStep[f.kind]
    /\ f.auto => f.code = nameToCode(f.name)
    /\ f.step > 0 => IsCode(f.code) /\ ~f.editing

PostsOK(sent) == sent \in Seq(CodesHeld) /\ \A i \in DOMAIN sent : IsCode(sent[i])

FormInv == FormOK(form) /\ PostsOK(posts)

\* No code is made of no name.
LEMMA NoNameNoCode == nameToCode(<<>>) = <<>>
<1> DEFINE Plain(c) == CASE c = "A" -> "a" [] c = " " -> "_" [] OTHER -> c
           Join(code, c) ==
               CASE c = "'" -> code
                 [] Plain(c) = "_" /\ (code = <<>> \/ Last(code) = "_") -> code
                 [] Plain(c) = "1" /\ code = <<>> -> code
                 [] OTHER -> Append(code, Plain(c))
           joined == FoldLeft(Join, <<>>, <<>>)
           iter == CHOOSE f : f = [s \in SUBSET (DOMAIN <<>>) |->
                       IF s = {} THEN <<>> ELSE Join(f[s \ {Max(s)}], <<>>[Max(s)])]
           cut == IF joined # <<>> /\ Last(joined) = "_" THEN Front(joined) ELSE joined
<1>1. joined = iter[DOMAIN <<>>]
  BY Zenon DEF FoldLeft, MapThenFoldSet
<1>2. joined = <<>>
  <2> DEFINE g == [s \in SUBSET (DOMAIN <<>>) |-> <<>>]
  <2>1. DOMAIN <<>> = {}
    OBVIOUS
  <2> HIDE DEF Join
  <2>2. g = [s \in SUBSET (DOMAIN <<>>) |->
               IF s = {} THEN <<>> ELSE Join(g[s \ {Max(s)}], <<>>[Max(s)])]
    BY <2>1
  <2>3. iter = [s \in SUBSET (DOMAIN <<>>) |->
                  IF s = {} THEN <<>> ELSE Join(iter[s \ {Max(s)}], <<>>[Max(s)])]
    BY <2>2, Zenon
  <2> HIDE DEF iter
  <2>4. iter[DOMAIN <<>>] = <<>>
    BY <2>1, <2>3
  <2> QED
    BY <1>1, <2>4
<1>3. nameToCode(<<>>) = SubSeq(cut, 1, IF Len(cut) < MaxCode THEN Len(cut) ELSE MaxCode)
  BY Zenon DEF nameToCode
<1> HIDE DEF joined
<1>4. cut = <<>>
  BY <1>2
<1> HIDE DEF cut
<1>5. (IF Len(cut) < MaxCode THEN Len(cut) ELSE MaxCode) = 0
  <2>1. Len(cut) = 0
    BY <1>4
  <2>2. MaxCode \in Nat /\ MaxCode # 0
    BY FormAssumption
  <2>3. 0 < MaxCode
    BY <2>2
  <2> QED
    BY <2>1, <2>3, Zenon
<1>6. nameToCode(<<>>) = SubSeq(cut, 1, 0)
  BY <1>3, <1>5
<1> QED
  BY <1>6, SubSeqEmpty

LEMMA NewFormOK ==
    ASSUME NEW kind \in FormKinds
    PROVE  FormOK(NewForm(kind))
<1>1. <<>> \in CodesHeld /\ <<>> \in FormNames \cup {<<>>}
  BY DEF CodesHeld
<1>2. LastStep[kind] \in Nat
  BY DEF LastStep
<1> QED
  BY <1>1, <1>2, NoNameNoCode DEF NewForm, FormOK, FormRow

-----------------------------------------------------------------------------
(* The form *)

\* The forms on one page stay on it.
LEMMA FormTypes ==
    ASSUME FormInv
    PROVE  /\ form \in FormRow /\ form.kind \in FormKinds
           /\ LastStep[form.kind] \in Nat /\ 0 \in 0..LastStep[form.kind]
           /\ form.kind \notin {"agent", "channel"} => form.step = 0
BY DEF FormInv, FormOK, FormRow, LastStep

LEMMA MadeOfAName ==
    ASSUME NEW name \in FormNames \cup {<<>>}
    PROVE  nameToCode(name) \in CodesHeld
BY DEF CodesHeld

LEMMA NameInputKeeps ==
    ASSUME FormInv, form.step = 0, NameInput
    PROVE  FormInv'
<1>1. PICK name \in FormNames :
        /\ form' = [form EXCEPT
             !.name = name,
             !.code = IF form.auto THEN nameToCode(name) ELSE @,
             !.draft = IF form.editing /\ form.auto /\ ~form.touched THEN nameToCode(name) ELSE @]
        /\ UNCHANGED posts
  BY DEF NameInput, Sets
<1>2. nameToCode(name) \in CodesHeld
  BY MadeOfAName
<1>3. form' \in FormRow /\ form'.step = 0 /\ form'.kind = form.kind
      /\ (form'.auto => form'.code = nameToCode(form'.name))
  BY <1>1, <1>2, FormTypes DEF FormRow
<1>4. FormOK(form')
  BY <1>3, FormTypes DEF FormOK
<1> QED
  BY <1>1, <1>4 DEF FormInv, FormOK, PostsOK

LEMMA CodeFieldKeeps ==
    ASSUME FormInv, form.step = 0, CodeField
    PROVE  FormInv'
<1>1. form.auto => form.code = nameToCode(form.name)
  BY DEF FormInv, FormOK
<1>2. nameToCode(form.name) \in CodesHeld /\ <<>> \in CodesHeld
  BY FormTypes, MadeOfAName DEF FormRow, CodesHeld
<1>3. /\ form' \in FormRow /\ form'.step = 0 /\ form'.kind = form.kind
      /\ form'.auto => form'.code = nameToCode(form'.name)
  <2>1. CASE CodeEdit
    BY <1>1, <1>2, <2>1, FormTypes DEF CodeEdit, Sets, FormRow
  <2>2. CASE CodeInput
    <3>1. PICK draft1 \in Drafts : form' = [form EXCEPT !.draft = draft1, !.touched = TRUE]
      BY <2>2 DEF CodeInput, Sets
    <3>2. draft1 \in CodesHeld
      BY DEF CodesHeld
    <3> QED
      BY <1>1, <3>1, <3>2, FormTypes DEF FormRow
  <2>3. CASE CodeSave
    BY <1>1, <1>2, <2>3, FormTypes DEF CodeSave, Sets, FormRow
  <2>4. CASE CodeCancel
    BY <1>1, <1>2, <2>4, FormTypes DEF CodeCancel, Sets, FormRow
  <2> QED
    BY <2>1, <2>2, <2>3, <2>4 DEF CodeField
<1>4. FormOK(form')
  BY <1>3, FormTypes DEF FormOK
<1>5. UNCHANGED posts
  BY DEF CodeField, CodeEdit, CodeInput, CodeSave, CodeCancel, Sets
<1> QED
  BY <1>4, <1>5 DEF FormInv, FormOK, PostsOK

\* The other fields; and the steps.
LEMMA WalkKeeps ==
    ASSUME FormInv, FillIn \/ NextStep \/ StepBack
    PROVE  FormInv'
<1>1. FormOK(form')
  <2>1. CASE FillIn
    BY <2>1, FormTypes DEF FillIn, Sets, FormRow, FormInv, FormOK
  <2>2. CASE NextStep
    BY <2>2, FormTypes DEF NextStep, Sets, FormRow, FormInv, FormOK
  <2>3. CASE StepBack
    BY <2>3, FormTypes DEF StepBack, Sets, FormRow, FormInv, FormOK
  <2> QED
    BY <2>1, <2>2, <2>3
<1>2. UNCHANGED posts
  BY DEF FillIn, NextStep, StepBack, Sets
<1> QED
  BY <1>1, <1>2 DEF FormInv, FormOK, PostsOK

LEMMA FormNavigateKeeps ==
    ASSUME FormInv, FormNavigate
    PROVE  FormInv'
<1>1. FormOK(form') /\ posts' = <<>>
  BY FormTypes, NewFormOK DEF FormNavigate
<1>2. PostsOK(<<>>)
  BY DEF PostsOK
<1> QED
  BY <1>1, <1>2 DEF FormInv, FormOK, PostsOK

LEMMA SubmitKeeps ==
    ASSUME FormInv, NEW failing, FormOK(failing), Submit(failing)
    PROVE  FormInv'
<1>1. CASE form' \in {[form EXCEPT !.step = 0], failing} /\ UNCHANGED posts
  <2>1. FormOK([form EXCEPT !.step = 0])
    BY FormTypes DEF FormRow, FormInv, FormOK
  <2>2. FormOK(form')
    BY <1>1, <2>1
  <2> QED
    BY <1>1, <2>2 DEF FormInv, FormOK, PostsOK
<1>2. CASE /\ IsCode(form.code) /\ form' = [form EXCEPT !.submitting = TRUE]
           /\ posts' = Append(posts, form.code)
  <2>1. FormOK(form')
    BY <1>2, FormTypes DEF FormRow, FormInv, FormOK
  <2>2. form.code \in CodesHeld
    BY FormTypes DEF FormRow
  <2>3. PostsOK(posts')
    BY <1>2, <2>2, AppendProperties DEF FormInv, PostsOK
  <2> QED
    BY <2>1, <2>3 DEF FormInv, FormOK, PostsOK
<1> QED
  BY <1>1, <1>2 DEF Submit, Sets

LEMMA PostAnsweredKeeps ==
    ASSUME FormInv, PostAnswered
    PROVE  FormInv'
<1>1. FormOK(form')
  <2>1. CASE form' = NewForm(form.kind)
    BY <2>1, FormTypes, NewFormOK
  <2>2. CASE form' = [form EXCEPT !.step = 0, !.submitting = FALSE]
    <3>1. /\ form' \in FormRow /\ form'.step = 0 /\ form'.kind = form.kind
          /\ form'.auto = form.auto /\ form'.code = form.code /\ form'.name = form.name
      BY <2>2, FormTypes DEF FormRow
    <3> QED
      BY <3>1, FormTypes DEF FormInv, FormOK
  <2>3. CASE form' = [form EXCEPT !.submitting = FALSE]
    BY <2>3, FormTypes DEF FormRow, FormInv, FormOK
  <2> QED
    BY <2>1, <2>2, <2>3 DEF PostAnswered
<1>2. PostsOK(posts')
  <2>1. PostsOK(<<>>)
    BY DEF PostsOK
  <2>2. PostsOK(Tail(posts))
    <3>1. posts \in Seq(CodesHeld) /\ posts # <<>> /\ \A i \in DOMAIN posts : IsCode(posts[i])
      BY DEF PostAnswered, FormInv, PostsOK
    <3>2. /\ Tail(posts) \in Seq(CodesHeld) /\ Len(Tail(posts)) = Len(posts) - 1
          /\ \A i \in 1..Len(Tail(posts)) : Tail(posts)[i] = posts[i + 1]
      BY <3>1, HeadTailProperties
    <3> QED
      BY <3>1, <3>2 DEF PostsOK
  <2> QED
    BY <2>1, <2>2 DEF PostAnswered
<1> QED
  BY <1>1, <1>2 DEF FormInv, FormOK, PostsOK

LEMMA FormUserKeeps ==
    ASSUME FormInv, FormUser
    PROVE  FormInv'
<1>1. FormOK(form) /\ FormOK([form EXCEPT !.step = 0])
  BY FormTypes DEF FormRow, FormInv, FormOK
<1>2. CASE AgentFormScreen
  BY <1>1, <1>2, NameInputKeeps, CodeFieldKeeps, WalkKeeps, FormNavigateKeeps, SubmitKeeps
     DEF AgentFormScreen, AgentBasicsStep, AgentSkillsStep, AgentReviewStep, AgentNameInput,
         AgentCode, AgentNext, AgentBack, AgentSubmit
<1>3. CASE ChannelFormScreen
  BY <1>1, <1>3, NameInputKeeps, CodeFieldKeeps, WalkKeeps, FormNavigateKeeps, SubmitKeeps
     DEF ChannelFormScreen, ChannelBasicsStep, ChannelQueueStep, ChannelReviewStep,
         ChannelNameInput, ChannelCode, ChannelNext, ChannelBack, ChannelSubmit
<1>4. CASE form.step = 0 /\ (NameInput \/ CodeField \/ FillIn \/ FormNavigate \/ Submit(form))
  BY <1>1, <1>4, NameInputKeeps, CodeFieldKeeps, WalkKeeps, FormNavigateKeeps, SubmitKeeps
<1> QED
  BY <1>2, <1>3, <1>4, FormTypes
     DEF FormUser, QueueFormScreen, SkillFormScreen, AdapterFormScreen, BreakReasonFormScreen,
         SkillBasicsStep, AdapterBasicsStep, QueueNameInput, QueueCode, QueueSubmit,
         SkillNameInput, SkillCode, SkillSubmit, AdapterNameInput, AdapterCode, AdapterSubmit,
         BreakReasonNameInput, BreakReasonCode, BreakReasonSubmit

-----------------------------------------------------------------------------
\* Whatever is typed, saved and cancelled, and however the steps are walked while
\* a POST is out: the code is the name's until it is the user's, and what is past
\* the first step or posted is a code.
THEOREM CodeIsKept == FormSpec => []CodeIsTheUsersOrTheNames
<1>1. FormInit => FormInv
  <2>1. PostsOK(<<>>)
    BY DEF PostsOK
  <2> QED
    BY <2>1, NewFormOK DEF FormInit, FormInv
<1>2. FormInv /\ [FormNext]_formVars => FormInv'
  <2> SUFFICES ASSUME FormInv, [FormNext]_formVars
               PROVE  FormInv'
    OBVIOUS
  <2>1. CASE UNCHANGED formVars
    BY <2>1 DEF formVars, FormInv, FormOK, PostsOK
  <2> QED
    BY <2>1, FormUserKeeps, PostAnsweredKeeps DEF FormNext
<1>3. FormInv => CodeIsTheUsersOrTheNames
  BY DEF FormInv, FormOK, PostsOK, CodeIsTheUsersOrTheNames
<1> QED
  BY <1>1, <1>2, <1>3, PTL DEF FormSpec

-----------------------------------------------------------------------------
(***************************************************************************)
(* The detail pages, for any values of the fields, number of requests and  *)
(* other editors.  That a clean page shows what it holds is not inductive: *)
(* an Enable or a Disable takes in the row the server answers with and     *)
(* leaves the other fields of the form, so the row has to be, but for the  *)
(* flag, the one the page held when it asked.  That in turn rests on the   *)
(* version: the server takes the request only at the version the page has, *)
(* and no copy of the row at its version has other contents.               *)
(***************************************************************************)

-----------------------------------------------------------------------------
(* Shapes *)

DetailForm(kind) ==
    [name : Names[kind], enabled : Flags,
     extra : Extras[kind] \cup (IF kind = "adapter" THEN {Invalid} ELSE {})]

DetailPage(kind) ==
    [kind : {kind}, state : {"loading", "ready", "failed", "blank", "left"},
     entity : DetailRow(kind) \cup {Null}, form : DetailForm(kind) \cup {Null},
     dirty : BOOLEAN, saving : BOOLEAN, banner : DetailRow(kind) \cup {Null},
     excused : BOOLEAN, overlapped : BOOLEAN]

\* Of the row r, the page p and the requests w.
DetailTypeOK(r, p, w) ==
    /\ p.kind \in DetailKinds /\ p \in DetailPage(p.kind) /\ r \in DetailRow(p.kind)
    /\ w \in [Slots -> DetailRequest(p.kind) \cup {Null}]
    /\ p.state = "ready" => p.entity \in DetailRow(p.kind) /\ p.form \in DetailForm(p.kind)

-----------------------------------------------------------------------------
(* The invariant *)

Own(q) == q # Null /\ q.op # "load"

Carries(q) == q.reply # Null /\ q.reply.kind # "error"

Done(q) == q.reply # Null /\ q.reply.kind = "ok"

\* A request is of the page that is open, or a write of one that was left.
SessionOK(p, q) ==
    q # Null =>
        /\ ~q.stray => p.state = (IF q.op = "load" THEN "loading" ELSE "ready")
        /\ q.stray => /\ q.op # "load" /\ q.reply = Null
                      /\ p.state # "left" => p.overlapped

\* An agent's skills are outside, and the flag, which a delete switches off.
SameContent(kind, c, d) == c.name = d.name /\ (kind # "agent" => c.extra = d.extra)

CopyOfRow(kind, copy, r) ==
    /\ copy.version <= r.version
    /\ copy.version = r.version => SameContent(kind, copy.content, r.content)

\* A save, an Enable and a Disable are for a version; the last two are of the flag.
BodyOK(q) ==
    /\ q.op \in {"save", "enable", "disable"} => q.base \in Nat
    /\ q.op = "enable" => q.body = FlagBody("on")
    /\ q.op = "disable" => q.body = FlagBody("off")

\* What has been accepted holds what was sent.
StoredOK(kind, q) ==
    Done(q) /\ q.op \in {"save", "enable", "disable"} =>
        /\ q.body.name # Null => q.reply.row.content.name = q.body.name
        /\ q.body.enabled # Null => q.reply.row.content.enabled = q.body.enabled
        /\ q.body.extra # Null /\ kind # "agent" => q.reply.row.content.extra = q.body.extra

\* The write of a page that has no other out: what it will take in is not older
\* than what the page holds, and a flag's is the same but for the flag.
AloneOK(r, p, q) ==
    /\ q.op = "save" => p.dirty
    /\ Carries(q) /\ q.op # "delete" => p.entity.version <= q.reply.row.version
    /\ q.op \in {"enable", "disable"} /\ q.reply = Null =>
           /\ q.base <= r.version
           /\ q.base = r.version => SameContent(p.kind, p.entity.content, r.content)
    /\ q.op \in {"enable", "disable"} /\ Done(q) =>
           SameContent(p.kind, q.reply.row.content, p.entity.content)

RequestOK(r, p, q) ==
    q # Null =>
        /\ BodyOK(q) /\ StoredOK(p.kind, q)
        /\ Carries(q) /\ q.op # "delete" => CopyOfRow(p.kind, q.reply.row, r)
        /\ Own(q) /\ p.state = "ready" /\ ~p.overlapped /\ p.kind # "break_reason" =>
               AloneOK(r, p, q)

\* One load is out at a time, and, unless they overlapped, one write.
SingleOK(p, w) ==
    /\ \A s, t \in Slots : w[s] # Null /\ w[t] # Null /\ w[s].op = "load" /\ w[t].op = "load" => s = t
    /\ p.state = "ready" /\ ~p.overlapped => \A s, t \in Slots : Own(w[s]) /\ Own(w[t]) => s = t

\* What the page holds is a copy of the row; the banner's is not the newer.
HeldOK(r, p) ==
    /\ p.state = "loading" => p.banner = Null
    /\ p.banner # Null => CopyOfRow(p.kind, p.banner, r)
    /\ p.state = "ready" /\ ~p.overlapped => CopyOfRow(p.kind, p.entity, r)
    /\ p.state = "ready" /\ ~p.overlapped /\ p.kind = "skill" /\ p.banner # Null =>
           p.banner.version <= p.entity.version
    /\ p.overlapped => p.excused

ShownOK(p) ==
    p.state = "ready" /\ ~p.overlapped /\ ~p.dirty /\ p.kind # "break_reason" =>
        p.form.enabled = p.entity.content.enabled /\ SameContent(p.kind, p.form, p.entity.content)

\* Nothing but a write of its own, accepted and not heard of yet, makes the
\* page's version another than the row's.
NotHeard(q) == Own(q) /\ q.op # "delete" /\ Done(q)

CurrentOK(r, p, w) ==
    p.state = "ready" /\ ~p.excused /\ p.kind \notin {"skill", "break_reason"} =>
        /\ \A s \in Slots : NotHeard(w[s]) => w[s].reply.row.version = r.version
        /\ (\A s \in Slots : ~NotHeard(w[s])) => p.entity.version = r.version

DetailOK(r, p, w) ==
    /\ DetailTypeOK(r, p, w)
    /\ \A s \in Slots : SessionOK(p, w[s]) /\ RequestOK(r, p, w[s])
    /\ SingleOK(p, w) /\ HeldOK(r, p) /\ ShownOK(p) /\ CurrentOK(r, p, w)

DetailInv == DetailOK(row, page, wire)

-----------------------------------------------------------------------------
(* Fields *)

LEMMA KindFields ==
    ASSUME NEW kind \in DetailKinds
    PROVE  /\ Names[kind] # {} /\ Null \notin Names[kind]
           /\ Null \notin Flags /\ Null \notin Extras[kind]
           /\ Null \notin DetailReply(kind) /\ Null \notin DetailRequest(kind)
BY DetailAssumption, FieldsAssumption

LEMMA ExtraFields ==
    /\ DetailKinds = {"agent", "queue", "skill", "channel", "adapter", "break_reason"}
    /\ Extras["agent"] = AgentForm /\ Extras["channel"] = ChannelForm
    /\ Extras["adapter"] = AdapterForm
BY DEF DetailKinds, Extras

LEMMA PatchedFields ==
    ASSUME NEW kind \in DetailKinds, NEW c \in Contents(kind), NEW b \in DetailBody(kind)
    PROVE  /\ Patched(c, b) \in Contents(kind)
           /\ Patched(c, b).name = (IF b.name = Null THEN c.name ELSE b.name)
           /\ Patched(c, b).enabled = (IF b.enabled = Null THEN c.enabled ELSE b.enabled)
           /\ Patched(c, b).extra = (IF b.extra = Null THEN c.extra ELSE b.extra)
<1>1. DOMAIN c = {"name", "enabled", "extra"}
  BY DEF Contents
<1> DEFINE q == Patched(c, b)
<1>2. q = [f \in {"name", "enabled", "extra"} |-> IF b[f] = Null THEN c[f] ELSE b[f]]
  BY <1>1 DEF Patched
<1>3. /\ q.name = (IF b.name = Null THEN c.name ELSE b.name)
      /\ q.enabled = (IF b.enabled = Null THEN c.enabled ELSE b.enabled)
      /\ q.extra = (IF b.extra = Null THEN c.extra ELSE b.extra)
  BY <1>2
<1>4. q.name \in Names[kind] /\ q.enabled \in Flags /\ q.extra \in Extras[kind]
  BY <1>3 DEF Contents, DetailBody
<1>5. q = [name |-> q.name, enabled |-> q.enabled, extra |-> q.extra]
  BY <1>2
<1>6. q \in Contents(kind)
  <2> HIDE DEF q
  <2> QED
    BY <1>4, <1>5 DEF Contents
<1> QED
  BY <1>3, <1>6

\* What a form may be reset to.
LEMMA ContentIsForm ==
    ASSUME NEW kind \in DetailKinds, NEW c \in Contents(kind)
    PROVE  c \in DetailForm(kind)
BY DEF Contents, DetailForm

LEMMA DetailFormTypes ==
    ASSUME NEW kind \in DetailKinds, NEW f \in DetailForm(kind)
    PROVE  /\ kind # "adapter" \/ f.extra # Invalid => f \in DetailBody(kind)
           /\ kind # "adapter" \/ f.extra # Invalid =>
                 [f EXCEPT !.extra = IF @ = "none" THEN Null ELSE @] \in DetailBody(kind)
           /\ \A n \in Names[kind] : [f EXCEPT !["name"] = n] \in DetailForm(kind)
           /\ \A v \in Flags : [f EXCEPT !["enabled"] = v] \in DetailForm(kind)
           /\ \A x \in Extras[kind] \cup (IF kind = "adapter" THEN {Invalid} ELSE {}) :
                 [f EXCEPT !["extra"] = x] \in DetailForm(kind)
BY DEF DetailForm, DetailBody

LEMMA BodyTypes ==
    ASSUME NEW kind \in DetailKinds
    PROVE  /\ NoBody \in DetailBody(kind)
           /\ \A v \in Flags : FlagBody(v) \in DetailBody(kind)
           /\ \A v \in Flags : FlagBody(v).name = Null /\ FlagBody(v).enabled = v
                               /\ FlagBody(v).extra = Null
BY DEF NoBody, FlagBody, DetailBody

-----------------------------------------------------------------------------
(* The row grows *)

\* The row moves to a later version, or only its flag moves.
Grown(kind, r, r2) ==
    \/ r.version < r2.version
    \/ r.version = r2.version /\ SameContent(kind, r.content, r2.content)

LEMMA GrownCopy ==
    ASSUME NEW kind, NEW r \in DetailRow(kind), NEW r2 \in DetailRow(kind), Grown(kind, r, r2),
           NEW copy, copy.version \in Nat, CopyOfRow(kind, copy, r)
    PROVE  CopyOfRow(kind, copy, r2)
<1>1. r.version \in Nat /\ r2.version \in Nat
  BY DEF DetailRow
<1> QED
  BY <1>1 DEF Grown, CopyOfRow, SameContent

-----------------------------------------------------------------------------
(* The requests of a page that changes *)

WireOK(r, p, w) ==
    /\ \A s \in Slots : SessionOK(p, w[s]) /\ RequestOK(r, p, w[s])
    /\ SingleOK(p, w)

NoneOwn(w) == \A s \in Slots : ~Own(w[s])

LEMMA NoneOwnWrites == NoneOwn(wire) <=> OwnWrites = {}
BY DEF NoneOwn, Own, OwnWrites

\* Nothing is out, or the page has overlapped, or it holds what it held.
LEMMA PageMoves ==
    ASSUME NEW r, NEW p, NEW w, NEW p2, DetailOK(r, p, w), p.state = "ready",
           p2 \in DetailPage(p.kind), p2.state = "ready", p.overlapped => p2.overlapped,
           \/ NoneOwn(w) \/ p2.overlapped \/ p.kind = "break_reason"
           \/ /\ p.dirty => p2.dirty
              /\ p2.entity.content = p.entity.content
              /\ p2.entity.version \in Nat /\ p2.entity.version <= p.entity.version
    PROVE  WireOK(r, p2, w)
<1>1. p2.kind = p.kind /\ p.entity \in DetailRow(p.kind) /\ r \in DetailRow(p.kind)
  BY DEF DetailOK, DetailTypeOK, DetailPage
<1>2. SingleOK(p2, w)
  BY DEF DetailOK, SingleOK
<1>3. ASSUME NEW s \in Slots
      PROVE  SessionOK(p2, w[s]) /\ RequestOK(r, p2, w[s])
  <2>1. SessionOK(p, w[s]) /\ RequestOK(r, p, w[s])
    BY DEF DetailOK
  <2>2. SessionOK(p2, w[s])
    BY <2>1 DEF SessionOK
  <2>3. w[s] # Null =>
            /\ BodyOK(w[s]) /\ StoredOK(p2.kind, w[s])
            /\ Carries(w[s]) /\ w[s].op # "delete" => CopyOfRow(p2.kind, w[s].reply.row, r)
    BY <1>1, <2>1 DEF RequestOK
  <2>4. ASSUME w[s] # Null, Own(w[s]), ~p2.overlapped, p2.kind # "break_reason"
        PROVE  AloneOK(r, p2, w[s])
    <3>1. AloneOK(r, p, w[s])
      BY <1>1, <2>1, <2>4 DEF RequestOK
    <3>2. /\ p.dirty => p2.dirty
          /\ p2.entity.content = p.entity.content
          /\ p2.entity.version \in Nat /\ p2.entity.version <= p.entity.version
      BY <1>1, <2>4 DEF NoneOwn
    <3>3. p.entity.version \in Nat
      BY <1>1 DEF DetailRow
    <3>4. w[s].reply # Null /\ Carries(w[s]) => w[s].reply.row.version \in Nat
      <4>1. w[s] \in DetailRequest(p.kind)
        BY <2>4 DEF DetailOK, DetailTypeOK
      <4> QED
        BY <4>1 DEF DetailRequest, DetailReply, Refused, Carries, DetailRow
    <3>5. Carries(w[s]) /\ w[s].op # "delete" => p2.entity.version <= w[s].reply.row.version
      BY <3>1, <3>2, <3>3, <3>4 DEF AloneOK, Carries
    <3> QED
      BY <1>1, <3>1, <3>2, <3>5 DEF AloneOK
  <2> QED
    BY <2>2, <2>3, <2>4 DEF RequestOK
<1> QED
  BY <1>2, <1>3 DEF WireOK

\* The other request of an open page is of a page that was left.
LEMMA OthersOverlap ==
    ASSUME NEW r, NEW p, NEW w, DetailOK(r, p, w), NEW s \in Slots, NEW t \in Slots, t # s,
           w[s] # Null, ~w[s].stray, Own(w[t])
    PROVE  p.overlapped
<1>1. SessionOK(p, w[s]) /\ SessionOK(p, w[t]) /\ w[t] # Null
  BY DEF DetailOK, Own
<1>2. p.state = (IF w[s].op = "load" THEN "loading" ELSE "ready")
  BY <1>1 DEF SessionOK
<1>3. CASE w[s].op = "load"
  BY <1>1, <1>2, <1>3 DEF SessionOK, Own
<1>4. CASE w[s].op # "load"
  <2>1. Own(w[s])
    BY <1>4 DEF Own
  <2> QED
    BY <1>2, <1>4, <2>1 DEF DetailOK, SingleOK
<1> QED
  BY <1>3, <1>4

\* A request of the open page is settled; what is left was left, or overlapped.
LEMMA WireSettles ==
    ASSUME NEW r, NEW p, NEW w, NEW p2, NEW s \in Slots, DetailOK(r, p, w),
           w[s] # Null, ~w[s].stray, p2 \in DetailPage(p.kind), p2.overlapped = p.overlapped,
           \/ w[s].op = "load" /\ p2.state \in {"ready", "failed", "blank"}
           \/ w[s].op # "load" /\ p2.state = "ready"
    PROVE  WireOK(r, p2, [w EXCEPT ![s] = Null])
<1> DEFINE w2 == [w EXCEPT ![s] = Null]
<1>1. w2[s] = Null /\ \A t \in Slots \ {s} : w2[t] = w[t]
  BY DEF DetailOK, DetailTypeOK
<1>2. \A t \in Slots : w2[t] # Null => t # s /\ w2[t] = w[t]
  BY <1>1
<1>3. p2.kind = p.kind
  BY DEF DetailPage
<1> HIDE DEF w2
<1>4. ASSUME NEW t \in Slots, w2[t] # Null
      PROVE  /\ w2[t] = w[t] /\ SessionOK(p, w[t]) /\ RequestOK(r, p, w[t])
             /\ Own(w[t]) => p.overlapped
    BY <1>2, <1>4, OthersOverlap DEF DetailOK
<1>5. ASSUME NEW t \in Slots, w2[t] # Null
      PROVE  SessionOK(p2, w2[t]) /\ RequestOK(r, p2, w2[t])
  <2>1. RequestOK(r, p2, w2[t])
    BY <1>3, <1>4, <1>5 DEF RequestOK
  <2>2. t # s /\ w2[t] = w[t] /\ w[t] # Null
    BY <1>2, <1>5
  <2>3. SessionOK(p, w[s]) /\ SessionOK(p, w[t])
    BY DEF DetailOK
  <2>4. SessionOK(p2, w[t])
    <3>1. CASE w[s].op # "load"
      BY <2>2, <2>3, <3>1 DEF SessionOK
    <3>2. CASE w[s].op = "load"
      <4>1. w[t].op # "load"
        BY <2>2, <3>2 DEF DetailOK, SingleOK
      <4> QED
        BY <2>2, <2>3, <3>2, <4>1 DEF SessionOK
    <3> QED
      BY <3>1, <3>2
  <2> QED
    BY <2>1, <2>2, <2>4
<1>6. SingleOK(p2, w2)
  <2>1. ASSUME NEW t \in Slots, NEW u \in Slots, w2[t] # Null, w2[u] # Null,
               w2[t].op = "load", w2[u].op = "load"
        PROVE  t = u
    BY <1>2, <2>1 DEF DetailOK, SingleOK
  <2>2. ASSUME NEW t \in Slots, Own(w2[t])
        PROVE  p2.overlapped
    BY <1>4, <2>2 DEF Own
  <2> QED
    BY <2>1, <2>2 DEF SingleOK
<1>7. \A t \in Slots : w2[t] = Null => SessionOK(p2, w2[t]) /\ RequestOK(r, p2, w2[t])
  BY DEF SessionOK, RequestOK
<1> QED
  BY <1>5, <1>6, <1>7 DEF WireOK, w2

LEMMA WireTypes ==
    ASSUME NEW r, NEW p, NEW w, DetailOK(r, p, w), NEW s \in Slots,
           NEW q \in DetailRequest(p.kind) \cup {Null}
    PROVE  [w EXCEPT ![s] = q] \in [Slots -> DetailRequest(p.kind) \cup {Null}]
BY DEF DetailOK, DetailTypeOK

-----------------------------------------------------------------------------
(* A page is left, and comes back *)

LeftOf(kind) == [NewPage(kind, FALSE) EXCEPT !.state = "left"]

Strayed(q) == [q EXCEPT !.stray = TRUE]

LEMMA LeavesOK ==
    ASSUME NEW r, NEW p, NEW w, NEW p2, NEW w2, DetailOK(r, p, w),
           p2 = LeftOf(p.kind),
           w2 \in [Slots -> DetailRequest(p.kind) \cup {Null}],
           \A s \in Slots :
              \/ w2[s] = Null
              \/ /\ Own(w[s]) /\ w[s].reply = Null /\ w2[s] = Strayed(w[s])
    PROVE  DetailOK(r, p2, w2)
<1>1. /\ p2 \in DetailPage(p.kind) /\ p2.kind = p.kind /\ p2.state = "left"
      /\ p2.banner = Null /\ ~p2.overlapped
  BY DEF LeftOf, NewPage, DetailPage
<1>2. DetailTypeOK(r, p2, w2)
  BY <1>1 DEF DetailOK, DetailTypeOK
<1>3. ASSUME NEW s \in Slots, w2[s] # Null
      PROVE  SessionOK(p2, w2[s]) /\ RequestOK(r, p2, w2[s])
  <2>1. /\ w[s] # Null /\ w[s].op # "load" /\ w[s].reply = Null
        /\ w2[s] = Strayed(w[s])
    BY <1>3 DEF Own
  <2>2. w[s] \in DetailRequest(p.kind) /\ RequestOK(r, p, w[s])
    BY <2>1 DEF DetailOK, DetailTypeOK
  <2>3. /\ w2[s].op = w[s].op /\ w2[s].base = w[s].base /\ w2[s].body = w[s].body
        /\ w2[s].reply = Null /\ w2[s].stray
    BY <2>1, <2>2 DEF DetailRequest, Strayed
  <2>4. BodyOK(w2[s])
    BY <2>1, <2>2, <2>3 DEF RequestOK, BodyOK
  <2> QED
    BY <1>1, <2>1, <2>3, <2>4 DEF SessionOK, RequestOK, StoredOK, Done, Carries
<1>4. \A s \in Slots : w2[s] # Null => w2[s].op # "load"
  <2> SUFFICES ASSUME NEW s \in Slots, w2[s] # Null
               PROVE  w2[s].op # "load"
    OBVIOUS
  <2>1. w2[s] \in DetailRequest(p.kind) /\ SessionOK(p2, w2[s])
    BY <1>3
  <2>2. w2[s].stray \/ ~w2[s].stray
    OBVIOUS
  <2> QED
    BY <1>1, <2>1 DEF SessionOK
<1>5. \A s \in Slots : SessionOK(p2, w2[s]) /\ RequestOK(r, p2, w2[s])
  BY <1>3 DEF SessionOK, RequestOK
<1>6. SingleOK(p2, w2) /\ HeldOK(r, p2) /\ ShownOK(p2) /\ CurrentOK(r, p2, w2)
  BY <1>1, <1>4 DEF SingleOK, HeldOK, ShownOK, CurrentOK
<1> QED
  BY <1>2, <1>5, <1>6 DEF DetailOK

LEMMA StraysOK ==
    ASSUME DetailInv
    PROVE  /\ Strays \in [Slots -> DetailRequest(page.kind) \cup {Null}]
           /\ \A s \in Slots :
                 \/ Strays[s] = Null
                 \/ /\ Own(wire[s]) /\ wire[s].reply = Null
                    /\ Strays[s] = Strayed(wire[s])
<1> SUFFICES ASSUME NEW s \in Slots, Strays[s] # Null
             PROVE  /\ Own(wire[s]) /\ wire[s].reply = Null
                    /\ Strays[s] = Strayed(wire[s])
                    /\ Strays[s] \in DetailRequest(page.kind)
  BY DEF Strays, Strayed
<1>1. s \in OwnWrites /\ wire[s].reply = Null /\ Strays[s] = Strayed(wire[s])
  BY DEF Strays, Strayed
<1>2. wire[s] \in DetailRequest(page.kind)
  BY <1>1 DEF OwnWrites, DetailInv, DetailOK, DetailTypeOK
<1>3. Strayed(wire[s]) \in DetailRequest(page.kind)
  BY <1>2 DEF DetailRequest, Strayed
<1> QED
  BY <1>1, <1>3 DEF OwnWrites, Own

LEMMA NavigateKeeps ==
    ASSUME DetailInv, DetailNavigate
    PROVE  DetailInv'
<1>1. DetailOK(row, page, wire)
  BY DEF DetailInv
<1>2. LeftPage = LeftOf(page.kind)
  BY DEF LeftPage, LeftOf
<1>3. /\ Strays \in [Slots -> DetailRequest(page.kind) \cup {Null}]
      /\ \A s \in Slots :
            \/ Strays[s] = Null
            \/ /\ Own(wire[s]) /\ wire[s].reply = Null
               /\ Strays[s] = Strayed(wire[s])
  BY StraysOK
<1>4. DetailOK(row, LeftPage, Strays)
  BY <1>1, <1>2, <1>3, LeavesOK
<1> QED
  BY <1>4 DEF DetailInv, DetailNavigate

LEMMA ConnectedKeeps ==
    ASSUME DetailInv, Connected
    PROVE  DetailInv'
<1> DEFINE q == NewRequest("load", Null, NoBody)
           p == NewPage(page.kind, OwnWrites # {})
<1>1. DetailOK(row, page, wire) /\ page.state = "left" /\ row' = row /\ page' = p
  BY DEF DetailInv, Connected, Request
<1>2. PICK s \in Slots : wire[s] = Null /\ wire' = [wire EXCEPT ![s] = q]
  BY DEF Connected, Request, FreeSlots
<1>3. page.kind \in DetailKinds /\ row \in DetailRow(page.kind)
      /\ wire \in [Slots -> DetailRequest(page.kind) \cup {Null}]
  BY <1>1 DEF DetailOK, DetailTypeOK
<1>4. /\ q \in DetailRequest(page.kind) /\ q.op = "load" /\ q.reply = Null /\ ~q.stray
  BY <1>3, BodyTypes DEF NewRequest, DetailRequest
<1>5. /\ p \in DetailPage(page.kind) /\ p.kind = page.kind /\ p.state = "loading"
      /\ p.banner = Null /\ (p.overlapped <=> ~NoneOwn(wire)) /\ (p.excused <=> p.overlapped)
  BY NoneOwnWrites DEF NewPage, DetailPage
<1> HIDE DEF q, p
<1>6. wire'[s] = q /\ (\A t \in Slots \ {s} : wire'[t] = wire[t])
      /\ wire' \in [Slots -> DetailRequest(page.kind) \cup {Null}]
  BY <1>2, <1>3, <1>4
<1>7. DetailTypeOK(row, p, wire')
  BY <1>3, <1>5, <1>6 DEF DetailTypeOK
<1>8. ASSUME NEW t \in Slots, t # s, wire[t] # Null
      PROVE  /\ wire[t].stray /\ wire[t].op # "load" /\ wire[t].reply = Null
             /\ Own(wire[t])
  <2>1. SessionOK(page, wire[t])
    BY <1>1 DEF DetailOK
  <2> QED
    BY <1>1, <1>8, <2>1 DEF SessionOK, Own
<1>9. ASSUME NEW t \in Slots
      PROVE  SessionOK(p, wire'[t]) /\ RequestOK(row, p, wire'[t])
  <2>1. CASE t = s
    BY <1>4, <1>5, <1>6, <2>1
       DEF SessionOK, RequestOK, BodyOK, StoredOK, Done, Carries, Own
  <2>2. CASE t # s
    <3>1. RequestOK(row, page, wire[t])
      BY <1>1 DEF DetailOK
    <3> QED
      BY <1>5, <1>6, <1>8, <2>2, <3>1
         DEF SessionOK, RequestOK, StoredOK, Done, Carries, NoneOwn
  <2> QED
    BY <2>1, <2>2
<1>10. SingleOK(p, wire')
  BY <1>5, <1>6, <1>8 DEF SingleOK
<1>11. HeldOK(row, p) /\ ShownOK(p) /\ CurrentOK(row, p, wire')
  BY <1>5 DEF HeldOK, ShownOK, CurrentOK
<1> QED
  BY <1>1, <1>7, <1>9, <1>10, <1>11 DEF DetailInv, DetailOK

-----------------------------------------------------------------------------
(* What the user does on an open page *)

LEMMA PageIs ==
    ASSUME DetailInv
    PROVE  /\ DetailOK(row, page, wire) /\ page.kind \in DetailKinds
           /\ page \in DetailPage(page.kind) /\ row \in DetailRow(page.kind)
           /\ wire \in [Slots -> DetailRequest(page.kind) \cup {Null}]
           /\ page.state = "ready" => /\ page.entity \in DetailRow(page.kind)
                                      /\ page.entity.content \in Contents(page.kind)
                                      /\ page.entity.version \in Nat
                                      /\ page.form \in DetailForm(page.kind)
BY DEF DetailInv, DetailOK, DetailTypeOK, DetailRow

LEMMA OverlapsFields ==
    ASSUME DetailInv
    PROVE  /\ Overlaps \in DetailPage(page.kind)
           /\ Overlaps.kind = page.kind /\ Overlaps.state = page.state
           /\ Overlaps.entity = page.entity /\ Overlaps.form = page.form
           /\ Overlaps.dirty = page.dirty /\ Overlaps.banner = page.banner
           /\ Overlaps.saving = page.saving
           /\ Overlaps.overlapped <=> page.overlapped \/ ~NoneOwn(wire)
           /\ Overlaps.excused <=> page.excused \/ ~NoneOwn(wire)
<1>1. page \in DetailPage(page.kind)
  BY PageIs
<1>2. CASE OwnWrites = {}
  BY <1>1, <1>2, NoneOwnWrites DEF Overlaps
<1>3. CASE OwnWrites # {}
  BY <1>1, <1>3, NoneOwnWrites DEF Overlaps, DetailPage
<1> QED
  BY <1>2, <1>3

LEMMA EditKeeps ==
    ASSUME DetailInv, page.state = "ready", NEW f \in {"name", "enabled", "extra"}, NEW v,
           [page.form EXCEPT ![f] = v] \in DetailForm(page.kind), DetailEdit(f, v)
    PROVE  DetailInv'
<1> DEFINE g == [page.form EXCEPT ![f] = v]
<1>1. /\ page' \in DetailPage(page.kind) /\ page'.kind = page.kind /\ page'.state = "ready"
      /\ page'.entity = page.entity /\ page'.form = g /\ page'.dirty /\ page'.banner = Null
      /\ page'.excused = page.excused /\ page'.overlapped = page.overlapped
      /\ row' = row /\ wire' = wire
  <2>1. page' = [page EXCEPT !.form = g, !.dirty = TRUE, !.banner = Null]
    BY DEF DetailEdit
  <2>2. g \in DetailForm(page.kind) /\ page \in DetailPage(page.kind)
    BY PageIs
  <2> HIDE DEF g
  <2> QED
    BY <2>1, <2>2 DEF DetailEdit, DetailPage
<1>2. WireOK(row, page', wire)
  BY <1>1, PageIs, PageMoves
<1>3. DetailTypeOK(row, page', wire)
  BY <1>1, PageIs DEF DetailTypeOK
<1>4. HeldOK(row, page') /\ ShownOK(page') /\ CurrentOK(row, page', wire)
  BY <1>1, PageIs DEF DetailOK, HeldOK, ShownOK, CurrentOK
<1> QED
  BY <1>1, <1>2, <1>3, <1>4 DEF DetailInv, DetailOK, WireOK

\* Cancel and Discard: the form shows the entity.
LEMMA ResetKeeps ==
    ASSUME DetailInv, page.state = "ready", UNCHANGED <<row, wire>>,
           NEW e \in DetailRow(page.kind), NEW f \in DetailForm(page.kind),
           NEW b \in DetailRow(page.kind) \cup {Null},
           page' \in DetailPage(page.kind), page'.state = "ready", page'.entity = e,
           page'.form = f, ~page'.dirty, page'.banner = b,
           page'.excused = Overlaps.excused, page'.overlapped = Overlaps.overlapped,
           page.kind # "break_reason" =>
              f.enabled = e.content.enabled /\ SameContent(page.kind, f, e.content),
           \/ e = page.entity
           \/ page.banner # Null /\ e = page.banner /\ page.kind \in {"skill", "break_reason"},
           b = Null \/ (b = page.banner /\ e = page.entity)
    PROVE  DetailInv'
<1>1. /\ page' \in DetailPage(page.kind) /\ page'.kind = page.kind /\ page'.state = "ready"
      /\ page'.entity = e /\ page'.form = f /\ ~page'.dirty /\ page'.banner = b
      /\ page'.excused <=> page.excused \/ ~NoneOwn(wire)
      /\ page'.overlapped <=> page.overlapped \/ ~NoneOwn(wire)
      /\ row' = row /\ wire' = wire
  BY OverlapsFields DEF DetailPage
<1>2. WireOK(row, page', wire)
  BY <1>1, PageIs, PageMoves
<1>3. DetailTypeOK(row, page', wire)
  BY <1>1, PageIs DEF DetailTypeOK
<1>4. HeldOK(row, page')
  <2>1. HeldOK(row, page)
    BY PageIs DEF DetailOK
  <2> QED
    BY <1>1, <2>1 DEF HeldOK
<1>5. ShownOK(page') /\ CurrentOK(row, page', wire)
  BY <1>1, PageIs DEF DetailOK, ShownOK, CurrentOK
<1> QED
  BY <1>1, <1>2, <1>3, <1>4, <1>5 DEF DetailInv, DetailOK, WireOK

LEMMA ReviewKeeps ==
    ASSUME DetailInv, page.state = "ready", NEW e \in DetailRow(page.kind), Review(e),
           \/ e = page.entity
           \/ page.kind = "skill" /\ page.banner # Null
              /\ e.content = page.entity.content /\ e.version = page.banner.version
           \/ page.kind = "break_reason" /\ page.banner # Null /\ e = page.banner
    PROVE  DetailInv'
<1>1. /\ page' \in DetailPage(page.kind) /\ page'.kind = page.kind /\ page'.state = "ready"
      /\ page'.entity = e /\ page'.form = page.form /\ page'.dirty = page.dirty
      /\ page'.banner = Null /\ page'.excused = page.excused
      /\ page'.overlapped = page.overlapped /\ row' = row /\ wire' = wire
  BY PageIs DEF Review, DetailPage
<1>2. page.banner # Null => page.banner \in DetailRow(page.kind) /\ page.banner.version \in Nat
  BY PageIs DEF DetailPage, DetailRow
<1>3. e.version \in Nat /\ row.version \in Nat
  BY PageIs DEF DetailRow
<1>4. HeldOK(row, page) /\ ShownOK(page) /\ CurrentOK(row, page, wire)
  BY PageIs DEF DetailOK
<1>5. ~page.overlapped => CopyOfRow(page.kind, e, row)
  <2> SUFFICES ASSUME ~page.overlapped
               PROVE  CopyOfRow(page.kind, e, row)
    OBVIOUS
  <2>1. CopyOfRow(page.kind, page.entity, row)
    BY <1>4 DEF HeldOK
  <2>2. CASE page.kind = "skill" /\ page.banner # Null /\ e.content = page.entity.content
             /\ e.version = page.banner.version
    <3>1. page.banner.version <= page.entity.version
      BY <1>4, <2>2 DEF HeldOK
    <3>2. page.entity.version <= row.version /\ page.entity.version \in Nat
      BY <2>1, PageIs DEF CopyOfRow
    <3> QED
      BY <1>2, <1>3, <2>1, <2>2, <3>1, <3>2 DEF CopyOfRow
  <2> QED
    BY <1>4, <2>1, <2>2 DEF HeldOK
<1>6. WireOK(row, page', wire)
  <2>1. \/ page.kind = "break_reason" \/ page'.overlapped
        \/ /\ page'.entity.content = page.entity.content
           /\ page'.entity.version \in Nat /\ page'.entity.version <= page.entity.version
    <3>1. page.entity.version \in Nat
      BY PageIs
    <3>2. page.kind = "skill" /\ page.banner # Null /\ ~page.overlapped =>
             page.banner.version <= page.entity.version
      BY <1>4 DEF HeldOK
    <3> QED
      BY <1>1, <1>3, <3>1, <3>2
  <2> QED
    BY <1>1, <2>1, PageIs, PageMoves
<1>7. DetailTypeOK(row, page', wire)
  BY <1>1, PageIs DEF DetailTypeOK
<1>8. HeldOK(row, page')
  BY <1>1, <1>4, <1>5 DEF HeldOK
<1>9. ShownOK(page') /\ CurrentOK(row, page', wire)
  BY <1>1, <1>4 DEF ShownOK, CurrentOK
<1> QED
  BY <1>1, <1>6, <1>7, <1>8, <1>9 DEF DetailInv, DetailOK, WireOK

\* Save, Enable, Disable and Delete.
LEMMA SendKeeps ==
    ASSUME DetailInv, page.state = "ready", NEW op \in {"save", "enable", "disable", "delete"},
           NEW base \in Nat \cup {Null}, NEW body \in DetailBody(page.kind),
           BodyOK(NewRequest(op, base, body)), op # "delete" => base = page.entity.version,
           op = "save" => page.dirty, Request(op, base, body),
           page' = Overlaps \/ page' = [Overlaps EXCEPT !.saving = TRUE]
    PROVE  DetailInv'
<1> DEFINE q == NewRequest(op, base, body)
<1>1. /\ page' \in DetailPage(page.kind) /\ page'.kind = page.kind /\ page'.state = "ready"
      /\ page'.entity = page.entity /\ page'.form = page.form /\ page'.dirty = page.dirty
      /\ page'.banner = page.banner
      /\ page'.excused <=> page.excused \/ ~NoneOwn(wire)
      /\ page'.overlapped <=> page.overlapped \/ ~NoneOwn(wire)
      /\ row' = row
  BY OverlapsFields DEF DetailPage, Request
<1>2. /\ q \in DetailRequest(page.kind) /\ q.op = op /\ q.base = base /\ q.body = body
      /\ q.reply = Null /\ ~q.stray /\ BodyOK(q)
  BY DEF NewRequest, DetailRequest
<1>3. PICK s \in Slots : wire[s] = Null /\ wire' = [wire EXCEPT ![s] = q]
  BY DEF Request, FreeSlots
<1> HIDE DEF q
<1>4. /\ wire'[s] = q /\ \A t \in Slots \ {s} : wire'[t] = wire[t]
      /\ wire' \in [Slots -> DetailRequest(page.kind) \cup {Null}]
  BY <1>2, <1>3, PageIs
<1>5. WireOK(row, page', wire)
  BY <1>1, PageIs, PageMoves
<1>6. DetailTypeOK(row, page', wire')
  BY <1>1, <1>4, PageIs DEF DetailTypeOK
<1>7. AloneOK(row, page', q) \/ page'.overlapped
  <2> SUFFICES ASSUME ~page'.overlapped
               PROVE  AloneOK(row, page', q)
    OBVIOUS
  <2>1. CopyOfRow(page.kind, page.entity, row)
    BY <1>1, PageIs DEF DetailOK, HeldOK
  <2>2. ~Carries(q) /\ ~Done(q)
    BY <1>2 DEF Carries, Done
  <2> QED
    BY <1>1, <1>2, <2>1, <2>2 DEF AloneOK, CopyOfRow
<1>8. SessionOK(page', q) /\ RequestOK(row, page', q)
  BY <1>1, <1>2, <1>7 DEF SessionOK, RequestOK, StoredOK, Done, Carries
<1>9. \A t \in Slots : SessionOK(page', wire'[t]) /\ RequestOK(row, page', wire'[t])
  BY <1>4, <1>5, <1>8 DEF WireOK
<1>10. SingleOK(page', wire')
  <2>1. \A t, u \in Slots : wire'[t] # Null /\ wire'[u] # Null /\ wire'[t].op = "load"
                            /\ wire'[u].op = "load" => t = u
    BY <1>2, <1>4, PageIs DEF DetailOK, SingleOK
  <2>2. ~page'.overlapped => \A t, u \in Slots : Own(wire'[t]) /\ Own(wire'[u]) => t = u
    BY <1>1, <1>4 DEF NoneOwn
  <2> QED
    BY <2>1, <2>2 DEF SingleOK
<1>11. HeldOK(row, page') /\ ShownOK(page')
  BY <1>1, PageIs DEF DetailOK, HeldOK, ShownOK
<1>12. CurrentOK(row, page', wire')
  <2>1. ~NotHeard(q) /\ ~NotHeard(Null)
    BY <1>2 DEF NotHeard, Own, Done
  <2>2. \A t \in Slots : NotHeard(wire'[t]) => NotHeard(wire[t]) /\ wire'[t] = wire[t]
    BY <1>4, <2>1
  <2>3. \A t \in Slots : NotHeard(wire[t]) => NotHeard(wire'[t])
    BY <1>3, <1>4, <2>1
  <2>4. CurrentOK(row, page, wire)
    BY PageIs DEF DetailOK
  <2> QED
    BY <1>1, <2>2, <2>3, <2>4 DEF CurrentOK
<1> QED
  BY <1>1, <1>6, <1>9, <1>10, <1>11, <1>12 DEF DetailInv, DetailOK

-----------------------------------------------------------------------------
(* The server and the other editors *)

LEMMA GrownRequest ==
    ASSUME NEW r, NEW p, NEW w, DetailOK(r, p, w), NEW r2 \in DetailRow(p.kind),
           Grown(p.kind, r, r2), NEW q \in DetailRequest(p.kind), RequestOK(r, p, q)
    PROVE  RequestOK(r2, p, q)
<1> SUFFICES ASSUME q # Null
             PROVE  RequestOK(r2, p, q)
  BY DEF RequestOK
<1>1. r \in DetailRow(p.kind) /\ r.version \in Nat /\ r2.version \in Nat
  BY DEF DetailOK, DetailTypeOK, DetailRow
<1>2. Carries(q) => q.reply.row.version \in Nat
  BY DEF DetailRequest, DetailReply, Refused, Carries, DetailRow
<1>3. Carries(q) /\ q.op # "delete" => CopyOfRow(p.kind, q.reply.row, r2)
  BY <1>1, <1>2, GrownCopy DEF RequestOK
<1>4. ASSUME Own(q), p.state = "ready", ~p.overlapped, p.kind # "break_reason"
      PROVE  AloneOK(r2, p, q)
  <2>1. AloneOK(r, p, q) /\ BodyOK(q)
    BY <1>4 DEF RequestOK
  <2>2. ASSUME q.op \in {"enable", "disable"}, q.reply = Null
        PROVE  /\ q.base <= r2.version
               /\ q.base = r2.version => SameContent(p.kind, p.entity.content, r2.content)
    <3>1. q.base \in Nat /\ q.base <= r.version
      BY <2>1, <2>2 DEF BodyOK, AloneOK
    <3>2. q.base <= r2.version
      BY <1>1, <3>1 DEF Grown
    <3>3. ASSUME q.base = r2.version
          PROVE  SameContent(p.kind, p.entity.content, r2.content)
      <4>1. ~(r.version < r2.version)
        BY <1>1, <3>1, <3>3
      <4>2. r.version = r2.version /\ SameContent(p.kind, r.content, r2.content)
        BY <4>1 DEF Grown
      <4>3. SameContent(p.kind, p.entity.content, r.content)
        BY <2>1, <2>2, <3>3, <4>2 DEF AloneOK
      <4> QED
        BY <4>2, <4>3 DEF SameContent
    <3> QED
      BY <3>2, <3>3
  <2> QED
    BY <2>1, <2>2 DEF AloneOK
<1> QED
  BY <1>3, <1>4 DEF RequestOK

LEMMA GrownHeld ==
    ASSUME NEW r, NEW p, NEW w, DetailOK(r, p, w), NEW r2 \in DetailRow(p.kind),
           Grown(p.kind, r, r2)
    PROVE  HeldOK(r2, p)
<1>1. /\ r \in DetailRow(p.kind) /\ p \in DetailPage(p.kind)
      /\ p.state = "ready" => p.entity \in DetailRow(p.kind)
  BY DEF DetailOK, DetailTypeOK
<1>2. /\ p.banner # Null => p.banner.version \in Nat
      /\ p.state = "ready" => p.entity.version \in Nat
  BY <1>1 DEF DetailPage, DetailRow
<1>3. HeldOK(r, p)
  BY DEF DetailOK
<1>4. p.banner # Null => CopyOfRow(p.kind, p.banner, r2)
  BY <1>1, <1>2, <1>3, GrownCopy DEF HeldOK
<1>5. p.state = "ready" /\ ~p.overlapped => CopyOfRow(p.kind, p.entity, r2)
  BY <1>1, <1>2, <1>3, GrownCopy DEF HeldOK
<1> QED
  BY <1>3, <1>4, <1>5 DEF HeldOK

Replied(q, reply) == [q EXCEPT !.reply = reply]

LEMMA ServeKeeps ==
    ASSUME DetailInv, NEW s \in Slots, wire[s] # Null, wire[s].reply = Null, page' = page,
           row' \in DetailRow(page.kind), Grown(page.kind, row, row'),
           NEW reply \in DetailReply(page.kind), Reply(s, reply),
           ~wire[s].stray => RequestOK(row', page, Replied(wire[s], reply)),
           \/ row'.version = row.version /\ ~NotHeard(Replied(wire[s], reply))
           \/ NotHeard(Replied(wire[s], reply)) /\ reply.row.version = row'.version
    PROVE  DetailInv'
<1> DEFINE q == IF wire[s].stray THEN Null ELSE Replied(wire[s], reply)
<1>1. wire' = [wire EXCEPT ![s] = q]
  BY PageIs DEF Reply, Replied
<1>2. wire[s] \in DetailRequest(page.kind)
  BY PageIs
<1>3. /\ Replied(wire[s], reply) \in DetailRequest(page.kind)
      /\ Replied(wire[s], reply).op = wire[s].op /\ Replied(wire[s], reply).stray = wire[s].stray
  BY <1>2 DEF Replied, DetailRequest
<1>4. /\ q \in DetailRequest(page.kind) \cup {Null}
      /\ q # Null => q = Replied(wire[s], reply) /\ ~wire[s].stray
      /\ q # Null => q.op = wire[s].op /\ q.stray = wire[s].stray
  BY <1>3
<1>5. RequestOK(row', page, q)
  BY DEF RequestOK
<1> HIDE DEF q
<1>6. /\ wire'[s] = q /\ \A t \in Slots \ {s} : wire'[t] = wire[t]
      /\ wire' \in [Slots -> DetailRequest(page.kind) \cup {Null}]
  BY <1>1, <1>4, PageIs
<1>7. DetailTypeOK(row', page, wire')
  BY <1>6, PageIs DEF DetailOK, DetailTypeOK
<1>8. \A t \in Slots : SessionOK(page, wire[t]) /\ RequestOK(row, page, wire[t])
  BY PageIs DEF DetailOK
<1>9. ASSUME NEW t \in Slots
      PROVE  SessionOK(page, wire'[t]) /\ RequestOK(row', page, wire'[t])
  <2>1. CASE t = s
    <3>1. SessionOK(page, wire[s])
      BY <1>8
    <3>2. SessionOK(page, q)
      BY <1>4, <3>1 DEF SessionOK
    <3> QED
      BY <1>5, <1>6, <2>1, <3>2
  <2>2. CASE t # s
    <3>1. wire'[t] = wire[t] /\ wire[t] \in DetailRequest(page.kind) \cup {Null}
      BY <1>6, <2>2, PageIs
    <3>2. wire[t] # Null => RequestOK(row', page, wire[t])
      BY <1>8, <3>1, PageIs, GrownRequest
    <3>3. wire[t] = Null => RequestOK(row', page, wire[t])
      BY DEF RequestOK
    <3> QED
      BY <1>8, <3>1, <3>2, <3>3
  <2> QED
    BY <2>1, <2>2
<1>10. \A t \in Slots : wire'[t] # Null => wire[t] # Null /\ wire'[t].op = wire[t].op
  BY <1>4, <1>6
<1>11. SingleOK(page, wire')
  BY <1>10, PageIs DEF DetailOK, SingleOK, Own
<1>12. HeldOK(row', page) /\ ShownOK(page)
  BY PageIs, GrownHeld DEF DetailOK
<1>13. CurrentOK(row', page, wire')
  <2> SUFFICES ASSUME page.state = "ready", ~page.excused,
                      page.kind \notin {"skill", "break_reason"}
               PROVE  /\ \A t \in Slots : NotHeard(wire'[t]) =>
                                             wire'[t].reply.row.version = row'.version
                      /\ (\A t \in Slots : ~NotHeard(wire'[t])) => page.entity.version = row'.version
    BY DEF CurrentOK
  <2>1. ~page.overlapped /\ CurrentOK(row, page, wire)
    BY PageIs DEF DetailOK, HeldOK
  <2>2. ~wire[s].stray
    BY <1>8, <2>1 DEF SessionOK
  <2>3. ~NotHeard(wire[s]) /\ ~NotHeard(Null)
    BY DEF NotHeard, Done, Own
  <2>4. CASE row'.version = row.version /\ ~NotHeard(Replied(wire[s], reply))
    <3>1. ~NotHeard(q)
      BY <1>4, <2>3, <2>4
    <3>2. \A t \in Slots : NotHeard(wire'[t]) <=> NotHeard(wire[t])
      BY <1>6, <2>3, <3>1
    <3>3. \A t \in Slots : NotHeard(wire'[t]) => wire'[t] = wire[t]
      BY <1>6, <3>1
    <3> QED
      BY <2>1, <2>4, <3>2, <3>3 DEF CurrentOK
  <2>5. CASE NotHeard(Replied(wire[s], reply)) /\ reply.row.version = row'.version
    <3>1. q = Replied(wire[s], reply) /\ q.reply = reply
      BY <1>2, <2>2 DEF q, Replied, DetailRequest
    <3>2. \A t \in Slots \ {s} : ~NotHeard(wire'[t])
      <4>1. \A t \in Slots \ {s} : ~Own(wire[t])
        BY <2>1, <2>2, PageIs, OthersOverlap
      <4> QED
        BY <1>6, <4>1 DEF NotHeard
    <3> QED
      BY <1>6, <2>5, <3>1, <3>2
  <2> QED
    BY <2>4, <2>5
<1> QED
  BY <1>7, <1>9, <1>11, <1>12, <1>13 DEF DetailInv, DetailOK

LEMMA GrowsNot ==
    ASSUME NEW kind, NEW r, r.version \in Nat
    PROVE  Grown(kind, r, r) /\ CopyOfRow(kind, r, r)
BY DEF Grown, CopyOfRow, SameContent

\* What a request is once it is answered.
LEMMA RepliedFields ==
    ASSUME NEW kind, NEW q \in DetailRequest(kind), NEW reply \in DetailReply(kind)
    PROVE  /\ Replied(q, reply) \in DetailRequest(kind)
           /\ Replied(q, reply).op = q.op /\ Replied(q, reply).base = q.base
           /\ Replied(q, reply).body = q.body /\ Replied(q, reply).reply = reply
BY DEF Replied, DetailRequest

LEMMA ReplyTypes ==
    ASSUME NEW kind \in DetailKinds, NEW r \in DetailRow(kind), NEW k \in {"ok", "conflict"}
    PROVE  /\ [kind |-> k, row |-> r] \in DetailReply(kind)
           /\ [kind |-> k, row |-> r] # Null
           /\ [kind |-> k, row |-> r].kind = k /\ [kind |-> k, row |-> r].row = r
<1>1. [kind |-> k, row |-> r] \in DetailReply(kind)
  BY DEF DetailReply
<1>2. [kind |-> k, row |-> r] # Null
  BY <1>1, KindFields
<1> QED
  BY <1>1, <1>2

LEMMA ServeLoadKeeps ==
    ASSUME DetailInv, NEW s \in Slots, wire[s] # Null, wire[s].reply = Null, page' = page,
           ServeLoad(s)
    PROVE  DetailInv'
<1> DEFINE reply == [kind |-> "ok", row |-> row]
           q == Replied(wire[s], reply)
<1>1. /\ page.kind \in DetailKinds /\ row \in DetailRow(page.kind) /\ row.version \in Nat
      /\ wire[s] \in DetailRequest(page.kind) /\ row' = row
  BY PageIs DEF ServeLoad, DetailRow
<1>2. /\ reply \in DetailReply(page.kind) /\ reply.row = row /\ Reply(s, reply)
  BY <1>1, ReplyTypes DEF ServeLoad
<1>3. q.op = "load" /\ q.reply = reply
  BY <1>1, <1>2, RepliedFields DEF ServeLoad
<1>4. Grown(page.kind, row, row') /\ CopyOfRow(page.kind, row, row)
  BY <1>1, GrowsNot
<1> HIDE DEF reply, q
<1>5. RequestOK(row', page, q)
  BY <1>1, <1>2, <1>3, <1>4 DEF RequestOK, BodyOK, StoredOK, Own
<1>6. ~NotHeard(q)
  BY <1>3 DEF NotHeard, Own
<1> QED
  BY <1>1, <1>2, <1>4, <1>5, <1>6, ServeKeeps DEF q

LEMMA ServeRefusalKeeps ==
    ASSUME DetailInv, NEW s \in Slots, wire[s] # Null, wire[s].reply = Null, page' = page,
           ServeRefusal(s)
    PROVE  DetailInv'
<1> DEFINE q == Replied(wire[s], Refused)
<1>1. /\ row \in DetailRow(page.kind) /\ row.version \in Nat
      /\ wire[s] \in DetailRequest(page.kind) /\ row' = row
      /\ RequestOK(row, page, wire[s])
  BY PageIs DEF ServeRefusal, DetailRow, DetailOK
<1>2. Refused \in DetailReply(page.kind) /\ Refused.kind = "error" /\ Reply(s, Refused)
  BY DEF DetailReply, Refused, ServeRefusal
<1>3. q.op = wire[s].op /\ q.base = wire[s].base /\ q.body = wire[s].body /\ q.reply = Refused
  BY <1>1, <1>2, RepliedFields
<1>4. Grown(page.kind, row, row')
  BY <1>1, GrowsNot
<1> HIDE DEF q
<1>5. ~Carries(q) /\ ~Done(q)
  BY <1>2, <1>3 DEF Carries, Done
<1>6. Own(q) => Own(wire[s])
  BY <1>3 DEF Own
<1>7. AloneOK(row, page, wire[s]) => AloneOK(row, page, q)
  BY <1>3, <1>5 DEF AloneOK
<1>8. BodyOK(q)
  BY <1>1, <1>3 DEF RequestOK, BodyOK
<1>9. RequestOK(row', page, q)
  BY <1>1, <1>5, <1>6, <1>7, <1>8 DEF RequestOK, StoredOK
<1>10. ~NotHeard(q)
  BY <1>5 DEF NotHeard
<1> QED
  BY <1>1, <1>2, <1>4, <1>9, <1>10, ServeKeeps DEF q

LEMMA SwitchedOffGrows ==
    ASSUME DetailInv, SwitchedOff
    PROVE  /\ row' \in DetailRow(page.kind) /\ row'.version = row.version
           /\ Grown(page.kind, row, row')
<1>1. row \in DetailRow(page.kind)
  BY PageIs
<1> QED
  BY <1>1 DEF SwitchedOff, DetailRow, Contents, Flags, Grown, SameContent

LEMMA ServeDeleteKeeps ==
    ASSUME DetailInv, NEW s \in Slots, wire[s] # Null, wire[s].reply = Null, page' = page,
           ServeDelete(s)
    PROVE  DetailInv'
<1> DEFINE reply == [kind |-> "ok", row |-> row]
           q == Replied(wire[s], reply)
<1>1. /\ page.kind \in DetailKinds /\ row \in DetailRow(page.kind)
      /\ wire[s] \in DetailRequest(page.kind)
  BY PageIs
<1>2. /\ reply \in DetailReply(page.kind) /\ reply.row = row /\ Reply(s, reply)
  BY <1>1, ReplyTypes DEF ServeDelete
<1>3. q.op = "delete" /\ q.reply = reply
  BY <1>1, <1>2, RepliedFields DEF ServeDelete
<1>4. /\ row' \in DetailRow(page.kind) /\ row'.version = row.version
      /\ Grown(page.kind, row, row')
  BY SwitchedOffGrows DEF ServeDelete
<1> HIDE DEF reply, q
<1>5. RequestOK(row', page, q)
  BY <1>3 DEF RequestOK, BodyOK, StoredOK, AloneOK
<1>6. ~NotHeard(q)
  BY <1>3 DEF NotHeard
<1> QED
  BY <1>2, <1>4, <1>5, <1>6, ServeKeeps DEF q

\* The copy in an answer is the row, but for an agent's skills.
WithSkills(r, x) == [r EXCEPT !.content.extra = x]

LEMMA ReadRows ==
    ASSUME NEW kind \in DetailKinds, NEW r \in DetailRow(kind), NEW x \in AgentForm,
           NEW read, read = r \/ (kind = "agent" /\ read = WithSkills(r, x))
    PROVE  /\ read \in DetailRow(kind) /\ read.version = r.version
           /\ SameContent(kind, read.content, r.content)
           /\ read.content.name = r.content.name /\ read.content.enabled = r.content.enabled
           /\ kind # "agent" => read = r
BY ExtraFields DEF WithSkills, DetailRow, Contents, SameContent

\* What AloneOK asks of an answered write.
LEMMA AnsweredAlone ==
    ASSUME DetailInv, NEW q \in DetailRequest(page.kind), NEW s \in Slots, NEW r2,
           Own(wire[s]), q.op = wire[s].op, q.reply # Null, page.state = "ready",
           ~page.overlapped, page.kind # "break_reason", Carries(q),
           q.reply.row.version \in Nat, row.version <= q.reply.row.version,
           q.op \in {"enable", "disable"} /\ Done(q) =>
              SameContent(page.kind, q.reply.row.content, page.entity.content)
    PROVE  AloneOK(r2, page, q)
<1>1. RequestOK(row, page, wire[s]) /\ CopyOfRow(page.kind, page.entity, row)
  BY PageIs DEF DetailOK, HeldOK
<1>2. AloneOK(row, page, wire[s])
  BY <1>1 DEF RequestOK, Own
<1>3. page.entity.version \in Nat /\ row.version \in Nat /\ page.entity.version <= row.version
  BY <1>1, PageIs DEF CopyOfRow, DetailRow
<1> QED
  BY <1>2, <1>3 DEF AloneOK

LEMMA BareRow ==
    ASSUME DetailInv
    PROVE  /\ AgentBare(row) \in DetailRow(page.kind) /\ AgentBare(row).version = row.version
           /\ SameContent(page.kind, AgentBare(row).content, row.content)
<1> DEFINE read == AgentBare(row)
<1>1. read = IF page.kind = "agent" THEN WithSkills(row, "no skill") ELSE row
  BY Zenon DEF AgentBare, WithSkills
<1> HIDE DEF read
<1>2. PICK x \in AgentForm :
          read = row \/ (page.kind = "agent" /\ read = WithSkills(row, x))
  <2>1. "no skill" \in AgentForm
    BY DEF AgentForm
  <2> QED
    BY <1>1, <2>1
<1>3. /\ read \in DetailRow(page.kind) /\ read.version = row.version
      /\ SameContent(page.kind, read.content, row.content)
  BY <1>2, PageIs, ReadRows
<1> QED
  BY <1>3 DEF read

\* The row a patch makes, and what is read of it.
LEMMA AcceptedRow ==
    ASSUME DetailInv, NEW b \in DetailBody(page.kind),
           row' = [version |-> row.version + 1, content |-> Patched(row.content, b)],
           NEW read \in AgentRead(row')
    PROVE  /\ row'.version = row.version + 1 /\ row'.content \in Contents(page.kind)
           /\ row'.content.name = (IF b.name = Null THEN row.content.name ELSE b.name)
           /\ row'.content.enabled =
                 (IF b.enabled = Null THEN row.content.enabled ELSE b.enabled)
           /\ row'.content.extra = (IF b.extra = Null THEN row.content.extra ELSE b.extra)
           /\ row' \in DetailRow(page.kind)
           /\ read \in DetailRow(page.kind) /\ read.version = row.version + 1
           /\ SameContent(page.kind, read.content, row'.content)
           /\ read.content.name = row'.content.name
           /\ read.content.enabled = row'.content.enabled
           /\ page.kind # "agent" => read = row'
<1>1. /\ page.kind \in DetailKinds /\ row.version \in Nat
      /\ row.content \in Contents(page.kind)
  BY PageIs DEF DetailRow
<1>2. /\ row'.version = row.version + 1 /\ row'.content \in Contents(page.kind)
      /\ row'.content.name = (IF b.name = Null THEN row.content.name ELSE b.name)
      /\ row'.content.enabled = (IF b.enabled = Null THEN row.content.enabled ELSE b.enabled)
      /\ row'.content.extra = (IF b.extra = Null THEN row.content.extra ELSE b.extra)
      /\ row' \in DetailRow(page.kind)
  <2> DEFINE c == Patched(row.content, b)
  <2>1. /\ c \in Contents(page.kind)
        /\ c.name = (IF b.name = Null THEN row.content.name ELSE b.name)
        /\ c.enabled = (IF b.enabled = Null THEN row.content.enabled ELSE b.enabled)
        /\ c.extra = (IF b.extra = Null THEN row.content.extra ELSE b.extra)
    BY <1>1, PatchedFields
  <2>2. row' = [version |-> row.version + 1, content |-> c]
    OBVIOUS
  <2> HIDE DEF c
  <2> QED
    BY <1>1, <2>1, <2>2 DEF DetailRow
<1>3. /\ read \in DetailRow(page.kind) /\ read.version = row.version + 1
      /\ SameContent(page.kind, read.content, row'.content)
      /\ read.content.name = row'.content.name /\ read.content.enabled = row'.content.enabled
      /\ page.kind # "agent" => read = row'
  <2>1. PICK x \in AgentForm :
            read = row' \/ (page.kind = "agent" /\ read = WithSkills(row', x))
    <3>1. "skill" \in AgentForm
      BY DEF AgentForm
    <3>2. read \in IF page.kind = "agent"
                   THEN {WithSkills(row', x) : x \in AgentForm} ELSE {row'}
      BY Zenon DEF AgentRead, WithSkills
    <3> QED
      BY Zenon, <3>1, <3>2
  <2> QED
    BY <1>1, <1>2, <2>1, ReadRows
<1> QED
  BY <1>2, <1>3

LEMMA ServeConflictKeeps ==
    ASSUME DetailInv, NEW s \in Slots, wire[s] # Null, wire[s].reply = Null, page' = page,
           wire[s].op \in {"save", "enable", "disable"}, row' = row,
           Reply(s, [kind |-> "conflict", row |-> AgentBare(row)])
    PROVE  DetailInv'
<1> DEFINE read == AgentBare(row)
           reply == [kind |-> "conflict", row |-> read]
           q == Replied(wire[s], reply)
<1>1. /\ page.kind \in DetailKinds /\ row \in DetailRow(page.kind) /\ row.version \in Nat
      /\ wire[s] \in DetailRequest(page.kind) /\ RequestOK(row, page, wire[s])
  BY PageIs DEF DetailOK, DetailRow
<1>2. /\ read \in DetailRow(page.kind) /\ read.version = row.version
      /\ SameContent(page.kind, read.content, row.content)
  BY BareRow
<1> HIDE DEF read
<1>3. /\ reply \in DetailReply(page.kind) /\ reply # Null /\ reply.kind = "conflict"
      /\ reply.row = read
  BY <1>1, <1>2, ReplyTypes
<1> HIDE DEF reply
<1>4. /\ q \in DetailRequest(page.kind) /\ q.op = wire[s].op /\ q.base = wire[s].base
      /\ q.body = wire[s].body /\ q.reply = reply
  BY <1>1, <1>3, RepliedFields
<1>5. Grown(page.kind, row, row') /\ CopyOfRow(page.kind, read, row)
  BY <1>1, <1>2, GrowsNot DEF CopyOfRow
<1> HIDE DEF q
<1>6. ~Done(q) /\ Carries(q)
  BY <1>3, <1>4 DEF Done, Carries
<1>7. BodyOK(q)
  BY <1>1, <1>4 DEF RequestOK, BodyOK
<1>8. Own(q) /\ page.state = "ready" /\ ~page.overlapped /\ page.kind # "break_reason" =>
         AloneOK(row, page, q)
  <2>1. Own(wire[s])
    BY DEF Own
  <2> QED
    BY <1>1, <1>2, <1>3, <1>4, <1>6, <2>1, AnsweredAlone
<1>9. RequestOK(row', page, q)
  BY <1>3, <1>4, <1>5, <1>6, <1>7, <1>8 DEF RequestOK, StoredOK
<1>10. ~NotHeard(q)
  BY <1>6 DEF NotHeard
<1>11. Reply(s, reply)
  BY DEF reply, read
<1> QED
  BY <1>1, <1>3, <1>5, <1>9, <1>10, <1>11, ServeKeeps DEF q

LEMMA ServeAcceptedKeeps ==
    ASSUME DetailInv, NEW s \in Slots, wire[s] # Null, wire[s].reply = Null, page' = page,
           wire[s].op \in {"save", "enable", "disable"}, wire[s].base = row.version,
           row' = [version |-> row.version + 1,
                   content |-> Patched(row.content, wire[s].body)],
           NEW read \in AgentRead(row'), Reply(s, [kind |-> "ok", row |-> read])
    PROVE  DetailInv'
<1> DEFINE reply == [kind |-> "ok", row |-> read]
           q == Replied(wire[s], reply)
           b == wire[s].body
<1>1. /\ page.kind \in DetailKinds /\ row \in DetailRow(page.kind) /\ row.version \in Nat
      /\ row.content \in Contents(page.kind)
      /\ wire[s] \in DetailRequest(page.kind) /\ RequestOK(row, page, wire[s])
      /\ b \in DetailBody(page.kind)
  BY PageIs DEF DetailOK, DetailRow, DetailRequest
<1>2. /\ row'.version = row.version + 1 /\ row'.content \in Contents(page.kind)
      /\ row'.content.name = (IF b.name = Null THEN row.content.name ELSE b.name)
      /\ row'.content.enabled = (IF b.enabled = Null THEN row.content.enabled ELSE b.enabled)
      /\ row'.content.extra = (IF b.extra = Null THEN row.content.extra ELSE b.extra)
      /\ row' \in DetailRow(page.kind)
  BY <1>1, AcceptedRow
<1>3. /\ read \in DetailRow(page.kind) /\ read.version = row.version + 1
      /\ SameContent(page.kind, read.content, row'.content)
      /\ read.content.name = row'.content.name /\ read.content.enabled = row'.content.enabled
      /\ page.kind # "agent" => read = row'
  BY <1>1, AcceptedRow
<1>4. /\ reply \in DetailReply(page.kind) /\ reply # Null /\ reply.kind = "ok"
      /\ reply.row = read
  <2>1. page.kind \in DetailKinds /\ read \in DetailRow(page.kind)
    BY <1>1, <1>3
  <2>2. "ok" \in {"ok", "conflict"}
    OBVIOUS
  <2> QED
    BY <2>1, <2>2, ReplyTypes, ZenonT(30)
<1> HIDE DEF reply
<1>5. /\ q \in DetailRequest(page.kind) /\ q.op = wire[s].op /\ q.base = wire[s].base
      /\ q.body = b /\ q.reply = reply
  BY <1>1, <1>4, RepliedFields
<1>6. Grown(page.kind, row, row') /\ CopyOfRow(page.kind, read, row')
  BY <1>1, <1>2, <1>3 DEF Grown, CopyOfRow
<1> HIDE DEF q
<1>7. Done(q) /\ Carries(q)
  BY <1>4, <1>5 DEF Done, Carries
<1>8. BodyOK(q)
  BY <1>1, <1>5 DEF RequestOK, BodyOK
<1>9. StoredOK(page.kind, q)
  BY <1>2, <1>3, <1>4, <1>5 DEF StoredOK
<1>10. ASSUME page.state = "ready", ~page.overlapped, page.kind # "break_reason"
       PROVE  AloneOK(row', page, q)
  <2>1. Own(wire[s])
    BY DEF Own
  <2>2. q.op \in {"enable", "disable"} =>
           SameContent(page.kind, read.content, page.entity.content)
    <3> SUFFICES ASSUME q.op \in {"enable", "disable"}
                 PROVE  SameContent(page.kind, read.content, page.entity.content)
      OBVIOUS
    <3>1. AloneOK(row, page, wire[s])
      BY <1>1, <1>10, <2>1 DEF RequestOK
    <3>2. SameContent(page.kind, page.entity.content, row.content)
      BY <1>5, <3>1 DEF AloneOK
    <3>3. b.name = Null /\ b.extra = Null
      BY <1>5, <1>8, BodyTypes, PageIs DEF BodyOK, Flags
    <3>4. SameContent(page.kind, row'.content, row.content)
      BY <1>2, <3>3 DEF SameContent
    <3> QED
      BY <1>3, <3>2, <3>4 DEF SameContent
  <2>3. row.version <= read.version /\ read.version \in Nat
    BY <1>1, <1>3
  <2> QED
    BY <1>4, <1>5, <1>7, <1>10, <2>1, <2>2, <2>3, AnsweredAlone
<1>11. RequestOK(row', page, q)
  BY <1>4, <1>5, <1>6, <1>8, <1>9, <1>10 DEF RequestOK
<1>12. NotHeard(q) /\ reply.row.version = row'.version
  <2>1. q # Null
    BY <1>1, <1>5, KindFields
  <2> QED
    BY <1>2, <1>3, <1>4, <1>5, <1>7, <2>1 DEF NotHeard, Own
<1>13. Reply(s, reply)
  BY DEF reply
<1> QED
  BY <1>2, <1>4, <1>6, <1>11, <1>12, <1>13, ServeKeeps DEF q

LEMMA OtherEditorKeeps ==
    ASSUME DetailInv, OtherEditorSaves \/ OtherEditorDeletes
    PROVE  DetailInv'
<1>1. /\ row \in DetailRow(page.kind) /\ row.version \in Nat /\ page \in DetailPage(page.kind)
      /\ wire' = wire
  BY PageIs DEF DetailRow, OtherEditorSaves, OtherEditorDeletes
<1>2. /\ row' \in DetailRow(page.kind) /\ Grown(page.kind, row, row')
      /\ \/ page' = page /\ row'.version = row.version
         \/ page' = [page EXCEPT !.excused = TRUE]
  <2>1. CASE OtherEditorSaves
    BY <1>1, <2>1 DEF OtherEditorSaves, Grown, DetailRow
  <2>2. CASE OtherEditorDeletes
    BY <2>2, SwitchedOffGrows DEF OtherEditorDeletes
  <2> QED
    BY <2>1, <2>2
<1>3. /\ page' \in DetailPage(page.kind) /\ page'.kind = page.kind /\ page'.state = page.state
      /\ page'.entity = page.entity /\ page'.form = page.form /\ page'.dirty = page.dirty
      /\ page'.banner = page.banner /\ page'.overlapped = page.overlapped
      /\ page'.excused \/ (page'.excused = page.excused /\ row'.version = row.version)
  BY <1>1, <1>2 DEF DetailPage
<1>4. DetailOK(row, page, wire) /\ HeldOK(row', page)
  BY <1>2, PageIs, GrownHeld
<1>5. ASSUME NEW s \in Slots
      PROVE  SessionOK(page', wire[s]) /\ RequestOK(row', page', wire[s])
  <2>1. SessionOK(page, wire[s]) /\ RequestOK(row, page, wire[s])
    BY <1>4 DEF DetailOK
  <2>2. SessionOK(page', wire[s])
    BY <1>3, <2>1 DEF SessionOK
  <2>3. RequestOK(row', page, wire[s])
    <3>1. CASE wire[s] = Null
      BY <3>1 DEF RequestOK
    <3>2. CASE wire[s] # Null
      BY <1>2, <1>4, <2>1, <3>2, PageIs, GrownRequest
    <3> QED
      BY <3>1, <3>2
  <2>4. AloneOK(row', page, wire[s]) => AloneOK(row', page', wire[s])
    BY <1>3 DEF AloneOK
  <2>5. RequestOK(row', page', wire[s])
    BY <1>3, <2>3, <2>4 DEF RequestOK
  <2> QED
    BY <2>2, <2>5
<1>6. DetailTypeOK(row', page', wire)
  BY <1>2, <1>3, PageIs DEF DetailTypeOK
<1>7. SingleOK(page', wire) /\ HeldOK(row', page') /\ ShownOK(page')
  BY <1>3, <1>4 DEF DetailOK, SingleOK, HeldOK, ShownOK
<1>8. CurrentOK(row', page', wire)
  BY <1>3, <1>4 DEF DetailOK, CurrentOK
<1> QED
  BY <1>1, <1>5, <1>6, <1>7, <1>8 DEF DetailInv, DetailOK

LEMMA ServerKeeps ==
    ASSUME DetailInv, NEW s \in Slots, Serve(s)
    PROVE  DetailInv'
<1>1. wire[s] # Null /\ wire[s].reply = Null /\ page' = page
  BY DEF Serve
<1>2. CASE ServeLoad(s)
  BY <1>1, <1>2, ServeLoadKeeps
<1>3. CASE ServePatch(s)
  <2>1. wire[s].op \in {"save", "enable", "disable"}
    BY <1>3 DEF ServePatch
  <2>2. CASE /\ wire[s].base = row.version
             /\ row' = [version |-> row.version + 1,
                        content |-> Patched(row.content, wire[s].body)]
             /\ \E read \in AgentRead(row') : Reply(s, [kind |-> "ok", row |-> read])
    <3>1. PICK read \in AgentRead(row') : Reply(s, [kind |-> "ok", row |-> read])
      BY <2>2
    <3> QED
      BY <1>1, <2>1, <2>2, <3>1, ServeAcceptedKeeps
  <2>3. CASE Reply(s, [kind |-> "conflict", row |-> AgentBare(row)]) /\ row' = row
    BY <1>1, <2>1, <2>3, ServeConflictKeeps
  <2> QED
    BY Zenon, <1>3, <2>2, <2>3 DEF ServePatch
<1>4. CASE ServeDelete(s)
  BY <1>1, <1>4, ServeDeleteKeeps
<1>5. CASE ServeRefusal(s)
  BY <1>1, <1>5, ServeRefusalKeeps
<1> QED
  BY <1>2, <1>3, <1>4, <1>5 DEF Serve

-----------------------------------------------------------------------------
(* The answers *)

\* The request in slot s is of the open page, and its slot is free afterwards.
Settles(s) ==
    /\ wire[s] # Null /\ ~wire[s].stray
    /\ wire' = [wire EXCEPT ![s] = Null] /\ row' = row

LEMMA SettlesFacts ==
    ASSUME DetailInv, NEW s \in Slots, Settles(s)
    PROVE  /\ wire[s] \in DetailRequest(page.kind)
           /\ SessionOK(page, wire[s]) /\ RequestOK(row, page, wire[s])
           /\ page.state = (IF wire[s].op = "load" THEN "loading" ELSE "ready")
           /\ wire'[s] = Null /\ \A t \in Slots \ {s} : wire'[t] = wire[t]
           /\ wire' \in [Slots -> DetailRequest(page.kind) \cup {Null}]
           /\ OwnWrites \ {s} # {} => page.overlapped
<1>1. wire \in [Slots -> DetailRequest(page.kind) \cup {Null}]
  BY PageIs
<1>2. SessionOK(page, wire[s]) /\ RequestOK(row, page, wire[s])
  BY PageIs DEF DetailOK
<1>3. OwnWrites \ {s} # {} => page.overlapped
  <2> SUFFICES ASSUME NEW t \in OwnWrites, t # s
               PROVE  page.overlapped
    OBVIOUS
  <2> QED
    BY PageIs, OthersOverlap DEF Settles, OwnWrites, Own
<1> QED
  BY <1>1, <1>2, <1>3 DEF Settles, SessionOK

\* The page keeps its copy, and the answer makes no difference to it.
LEMMA SettlesAsItWas ==
    ASSUME DetailInv, NEW s \in Slots, Settles(s), page' \in DetailPage(page.kind),
           page'.overlapped = page.overlapped,
           \/ wire[s].op = "load" /\ page'.state \in {"failed", "blank"}
           \/ wire[s].op # "load" /\ page'.state = "ready",
           page.state = "ready" => page'.entity = page.entity /\ page'.form = page.form
                                   /\ page'.dirty = page.dirty,
           page'.excused \/ (page'.excused = page.excused /\ ~NotHeard(wire[s])),
           \/ page'.banner = page.banner
           \/ /\ page.kind = "break_reason" /\ page'.state = "ready"
              /\ page'.banner \in DetailRow(page.kind)
              /\ CopyOfRow(page.kind, page'.banner, row)
    PROVE  DetailInv'
<1>1. page'.kind = page.kind /\ row' = row /\ wire' = [wire EXCEPT ![s] = Null]
  BY DEF Settles, DetailPage
<1>2. WireOK(row, page', wire')
  <2>1. wire[s] # Null /\ ~wire[s].stray
    BY DEF Settles
  <2>2. \/ wire[s].op = "load" /\ page'.state \in {"ready", "failed", "blank"}
        \/ wire[s].op # "load" /\ page'.state = "ready"
    OBVIOUS
  <2>3. WireOK(row, page', [wire EXCEPT ![s] = Null])
    BY Zenon, <2>1, <2>2, PageIs, WireSettles
  <2> QED
    BY <1>1, <2>3
<1>3. page'.state = "ready" => page.state = "ready" /\ wire[s].op # "load"
  BY SettlesFacts
<1>4. DetailTypeOK(row, page', wire')
  BY <1>1, <1>3, PageIs, SettlesFacts DEF DetailTypeOK
<1>5. HeldOK(row, page')
  BY <1>1, <1>3, PageIs DEF DetailOK, HeldOK
<1>6. ShownOK(page')
  BY <1>1, <1>3, PageIs DEF DetailOK, ShownOK
<1>7. CurrentOK(row, page', wire')
  <2> SUFFICES ASSUME page'.state = "ready", ~page'.excused
               PROVE  CurrentOK(row, page', wire')
    BY DEF CurrentOK
  <2>1. ~NotHeard(Null) /\ ~NotHeard(wire[s])
    BY DEF NotHeard, Own
  <2>2. \A t \in Slots : NotHeard(wire'[t]) <=> NotHeard(wire[t])
    BY <2>1, SettlesFacts
  <2>3. \A t \in Slots : NotHeard(wire'[t]) => wire'[t] = wire[t]
    BY <2>1, SettlesFacts
  <2>4. CurrentOK(row, page, wire)
    BY PageIs DEF DetailOK
  <2> QED
    BY <1>1, <1>3, <2>2, <2>3, <2>4 DEF CurrentOK
<1> QED
  BY <1>1, <1>2, <1>4, <1>5, <1>6, <1>7 DEF DetailInv, DetailOK, WireOK

\* The page takes in the row of the answer.
LEMMA SettlesWithRow ==
    ASSUME DetailInv, NEW s \in Slots, Settles(s), Carries(wire[s]), wire[s].op # "delete",
           page' \in DetailPage(page.kind), page'.state = "ready",
           page'.overlapped = page.overlapped, page'.entity = Answer(s).row,
           page'.form \in DetailForm(page.kind),
           page'.excused = (page.overlapped \/ Outdated(s)),
           \/ page'.banner = Null \/ page'.banner = page.banner \/ page'.banner = Answer(s).row,
           page'.banner = page.banner /\ ~page.overlapped /\ page.banner # Null
              /\ page.kind = "skill" /\ page.state = "ready" =>
                 page.entity.version <= Answer(s).row.version,
           ShownOK(page')
    PROVE  DetailInv'
<1> DEFINE e == Answer(s).row
<1>1. page'.kind = page.kind /\ row' = row /\ wire' = [wire EXCEPT ![s] = Null]
  BY DEF Settles, DetailPage
<1>2. WireOK(row, page', wire')
  <2>1. wire[s] # Null /\ ~wire[s].stray
    BY DEF Settles
  <2>2. \/ wire[s].op = "load" /\ page'.state \in {"ready", "failed", "blank"}
        \/ wire[s].op # "load" /\ page'.state = "ready"
    OBVIOUS
  <2>3. WireOK(row, page', [wire EXCEPT ![s] = Null])
    BY Zenon, <2>1, <2>2, PageIs, WireSettles
  <2> QED
    BY <1>1, <2>3
<1>3. e \in DetailRow(page.kind) /\ e.version \in Nat
  BY SettlesFacts DEF Answer, Carries, DetailRequest, DetailReply, Refused, DetailRow
<1>4. CopyOfRow(page.kind, e, row)
  BY SettlesFacts DEF RequestOK, Settles, Answer
<1>5. page.state = "loading" \/ page.state = "ready"
  BY SettlesFacts
<1>6. page.state = "ready" => page.entity.version \in Nat
  BY PageIs
<1>7. page.banner # Null => page.banner.version \in Nat
  BY PageIs DEF DetailPage, DetailRow
<1>8. page'.entity = e /\ (page'.banner \in {Null, page.banner} \/ page'.banner = e)
  BY DEF e
<1>9. page'.banner = page.banner /\ ~page.overlapped /\ page.banner # Null
         /\ page.kind = "skill" /\ page.state = "ready" => page.entity.version <= e.version
  BY DEF e
<1> HIDE DEF e
<1>10. DetailTypeOK(row, page', wire')
  BY <1>1, <1>3, <1>8, PageIs, SettlesFacts DEF DetailTypeOK
<1>11. HeldOK(row, page')
  <2>1. HeldOK(row, page)
    BY PageIs DEF DetailOK
  <2>2. page'.overlapped => page'.excused
    OBVIOUS
  <2>3. page'.banner # Null => CopyOfRow(page.kind, page'.banner, row)
    BY <1>4, <1>8, <2>1 DEF HeldOK
  <2>4. ASSUME ~page.overlapped, page.kind = "skill", page'.banner # Null
        PROVE  page'.banner.version <= e.version
    <3>1. CASE page'.banner = e
      BY <1>3, <3>1
    <3>2. CASE page'.banner = page.banner
      BY <1>3, <1>5, <1>6, <1>7, <1>9, <2>1, <2>4, <3>2 DEF HeldOK
    <3> QED
      BY <1>8, <2>4, <3>1, <3>2
  <2> QED
    BY <1>1, <1>4, <1>8, <2>2, <2>3, <2>4 DEF HeldOK
<1>12. CurrentOK(row, page', wire')
  <2> SUFFICES ASSUME ~page'.excused
               PROVE  CurrentOK(row, page', wire')
    BY DEF CurrentOK
  <2>1. e.version = row.version /\ OwnWrites \ {s} = {}
    BY DEF Outdated, e
  <2>2. \A t \in Slots : ~NotHeard(wire'[t])
    BY <2>1, SettlesFacts DEF NotHeard, Own, OwnWrites
  <2> QED
    BY <1>1, <1>8, <2>1, <2>2 DEF CurrentOK
<1> QED
  BY <1>1, <1>2, <1>10, <1>11, <1>12 DEF DetailInv, DetailOK, WireOK

LEMMA ArrivesFacts ==
    ASSUME DetailInv, NEW s \in Slots, NEW op, Arrives(s, op), Settled(s)
    PROVE  /\ Settles(s) /\ wire[s].op = op /\ Answer(s) \in DetailReply(page.kind)
           /\ Answer(s).kind \in {"ok", "conflict"} =>
                 /\ Carries(wire[s]) /\ Answer(s).row \in DetailRow(page.kind)
                 /\ Answer(s).row.content \in Contents(page.kind)
                 /\ Answer(s).row.content \in DetailForm(page.kind)
           /\ page \in DetailPage(page.kind)
<1>1. Settles(s) /\ wire[s].op = op /\ Answer(s) # Null /\ Answer(s) = wire[s].reply
  BY DEF Arrives, Settled, Settles, Answer
<1>2. Answer(s) \in DetailReply(page.kind)
  BY <1>1, SettlesFacts DEF DetailRequest
<1>3. Answer(s).kind \in {"ok", "conflict"} =>
         Answer(s).kind # "error" /\ Answer(s).row \in DetailRow(page.kind)
  BY <1>2 DEF DetailReply, Refused
<1>4. Answer(s).row \in DetailRow(page.kind) =>
         /\ Answer(s).row.content \in Contents(page.kind)
         /\ Answer(s).row.content \in DetailForm(page.kind)
  BY PageIs, ContentIsForm DEF DetailRow
<1> QED
  BY <1>1, <1>2, <1>3, <1>4, PageIs DEF Carries

\* The page after an accepted load or save.
LEMMA FilledPage ==
    ASSUME DetailInv, NEW s \in Slots, page \in DetailPage(page.kind),
           Answer(s).row \in DetailRow(page.kind),
           Answer(s).row.content \in DetailForm(page.kind)
    PROVE  /\ Filled(s, page) \in DetailPage(page.kind)
           /\ Filled(s, page).state = page.state
           /\ Filled(s, page).overlapped = page.overlapped
           /\ Filled(s, page).entity = Answer(s).row
           /\ Filled(s, page).form = Answer(s).row.content
           /\ Filled(s, page).excused = (page.overlapped \/ Outdated(s))
           /\ Filled(s, page).banner = page.banner
           /\ ~Filled(s, page).dirty
<1> DEFINE a == Answer(s).row
           x == page.overlapped \/ Outdated(s)
<1>1. Filled(s, page) = [[page EXCEPT !.entity = a, !.excused = x]
                            EXCEPT !.form = a.content, !.dirty = FALSE]
  BY DEF Filled, Takes
<1>2. x \in BOOLEAN
  BY DEF DetailPage, Outdated
<1> HIDE DEF a, x
<1>3. a \in DetailRow(page.kind) /\ a.content \in DetailForm(page.kind)
  BY DEF a
<1> DEFINE g == Filled(s, page)
<1>4. /\ g \in DetailPage(page.kind) /\ g.state = page.state /\ g.overlapped = page.overlapped
      /\ g.entity = a /\ g.form = a.content /\ g.excused = x /\ g.banner = page.banner
      /\ ~g.dirty
  <2> DEFINE q == [page EXCEPT !.entity = a, !.excused = x]
             f == a.content
  <2>1. /\ q \in DetailPage(page.kind) /\ q.state = page.state /\ q.overlapped = page.overlapped
        /\ q.entity = a /\ q.excused = x /\ q.banner = page.banner
    BY <1>2, <1>3 DEF DetailPage
  <2>2. g = [q EXCEPT !.form = f, !.dirty = FALSE]
    BY <1>1
  <2>3. f \in DetailForm(page.kind)
    BY <1>3
  <2> HIDE DEF q, g
  <2>4. /\ g \in DetailPage(page.kind) /\ g.state = q.state /\ g.overlapped = q.overlapped
        /\ g.entity = q.entity /\ g.form = f /\ g.excused = q.excused /\ g.banner = q.banner
        /\ ~g.dirty
    BY <2>1, <2>2, <2>3 DEF DetailPage
  <2> HIDE DEF f
  <2> QED
    BY <2>1, <2>4 DEF f
<1> QED
  BY <1>4 DEF a, x

\* The page after the row of an answer is taken in, its form as it was.
LEMMA TakesPage ==
    ASSUME DetailInv, NEW s \in Slots, page \in DetailPage(page.kind),
           Answer(s).row \in DetailRow(page.kind)
    PROVE  /\ Takes(s, page) \in DetailPage(page.kind)
           /\ Takes(s, page).state = page.state
           /\ Takes(s, page).overlapped = page.overlapped
           /\ Takes(s, page).entity = Answer(s).row
           /\ Takes(s, page).form = page.form
           /\ Takes(s, page).excused = (page.overlapped \/ Outdated(s))
           /\ Takes(s, page).banner = page.banner
           /\ Takes(s, page).dirty = page.dirty
<1> DEFINE a == Answer(s).row
           x == page.overlapped \/ Outdated(s)
<1>1. Takes(s, page) = [page EXCEPT !.entity = a, !.excused = x]
  BY DEF Takes
<1>2. x \in BOOLEAN
  BY DEF DetailPage, Outdated
<1> HIDE DEF a, x
<1>3. a \in DetailRow(page.kind)
  BY DEF a
<1> DEFINE g == Takes(s, page)
<1>4. /\ g \in DetailPage(page.kind) /\ g.state = page.state /\ g.overlapped = page.overlapped
      /\ g.entity = a /\ g.form = page.form /\ g.excused = x /\ g.banner = page.banner
      /\ g.dirty = page.dirty
  BY <1>1, <1>2, <1>3 DEF DetailPage
<1> QED
  BY <1>4 DEF a, x

LEMMA ShowsRow ==
    ASSUME NEW p, p.form = p.entity.content
    PROVE  ShownOK(p)
BY DEF ShownOK, SameContent

LEMMA LoadAnsweredKeeps ==
    ASSUME DetailInv, NEW s \in Slots, LoadAnswered(s)
    PROVE  DetailInv'
<1>1. Arrives(s, "load") /\ Settled(s)
  BY DEF LoadAnswered
<1>2. CASE Answer(s).kind = "ok" /\ page' = [Filled(s, page) EXCEPT !.state = "ready"]
  <2> DEFINE g == Filled(s, page)
  <2>1. /\ g \in DetailPage(page.kind) /\ g.overlapped = page.overlapped
        /\ g.entity = Answer(s).row /\ g.form = Answer(s).row.content
        /\ g.excused = (page.overlapped \/ Outdated(s)) /\ g.banner = page.banner
    BY <1>1, <1>2, ArrivesFacts, FilledPage
  <2>2. page' = [g EXCEPT !.state = "ready"]
    BY <1>2
  <2> HIDE DEF g
  <2>3. /\ page' \in DetailPage(page.kind) /\ page'.state = "ready"
        /\ page'.overlapped = page.overlapped /\ page'.entity = Answer(s).row
        /\ page'.form = Answer(s).row.content
        /\ page'.excused = (page.overlapped \/ Outdated(s)) /\ page'.banner = page.banner
    BY <2>1, <2>2 DEF DetailPage
  <2>4. ShownOK(page')
    BY <2>3, ShowsRow
  <2>5. page.state = "loading"
    BY <1>1, ArrivesFacts, SettlesFacts
  <2> QED
    BY <1>1, <1>2, <2>3, <2>4, <2>5, ArrivesFacts, SettlesWithRow
<1>3. CASE Answer(s).kind = "error" /\ page' = [page EXCEPT !.state = "failed"]
  <2>1. /\ page' \in DetailPage(page.kind) /\ page'.state = "failed"
        /\ page'.overlapped = page.overlapped /\ page'.excused = page.excused
        /\ page'.banner = page.banner
    BY <1>3, PageIs DEF DetailPage
  <2>2. wire[s].op = "load" /\ Settles(s) /\ page.state = "loading"
    BY <1>1, ArrivesFacts, SettlesFacts
  <2>3. ~NotHeard(wire[s])
    BY <2>2 DEF NotHeard, Own
  <2> QED
    BY <2>1, <2>2, <2>3, SettlesAsItWas
<1> QED
  BY <1>2, <1>3 DEF LoadAnswered

LEMMA SaveAnsweredKeeps ==
    ASSUME DetailInv, NEW s \in Slots,
           \/ SaveAnswered(s, Adopted(s))
           \/ page.kind = "break_reason" /\ SaveAnswered(s, OnlyShown(s))
    PROVE  DetailInv'
<1>1. Arrives(s, "save") /\ Settled(s)
  BY DEF SaveAnswered
<1>2. /\ Settles(s) /\ wire[s].op = "save" /\ page.state = "ready"
      /\ page \in DetailPage(page.kind)
  BY <1>1, ArrivesFacts, SettlesFacts
<1>3. CASE Answer(s).kind = "ok"
           /\ page' = [Filled(s, page) EXCEPT !.saving = FALSE, !.banner = Null]
  <2> DEFINE g == Filled(s, page)
  <2>1. /\ g \in DetailPage(page.kind) /\ g.overlapped = page.overlapped
        /\ g.state = "ready" /\ g.entity = Answer(s).row /\ g.form = Answer(s).row.content
        /\ g.excused = (page.overlapped \/ Outdated(s))
    BY <1>1, <1>2, <1>3, ArrivesFacts, FilledPage
  <2>2. page' = [g EXCEPT !.saving = FALSE, !.banner = Null]
    BY <1>3
  <2> HIDE DEF g
  <2>3. /\ page' \in DetailPage(page.kind) /\ page'.state = "ready"
        /\ page'.overlapped = page.overlapped /\ page'.entity = Answer(s).row
        /\ page'.form = Answer(s).row.content
        /\ page'.excused = (page.overlapped \/ Outdated(s)) /\ page'.banner = Null
    BY <2>1, <2>2 DEF DetailPage
  <2>4. ShownOK(page')
    BY <2>3, ShowsRow
  <2>5. Carries(wire[s]) /\ Answer(s).row.content \in DetailForm(page.kind)
    BY <1>1, <1>3, ArrivesFacts
  <2> QED
    BY <1>2, <2>3, <2>4, <2>5, SettlesWithRow
<1>4. CASE Answer(s).kind = "conflict" /\ page' = [Adopted(s) EXCEPT !.saving = FALSE]
  <2> DEFINE g == Takes(s, page)
             a == Answer(s).row
  <2>1. /\ g \in DetailPage(page.kind) /\ g.overlapped = page.overlapped
        /\ g.state = "ready" /\ g.entity = a /\ g.form = page.form
        /\ g.excused = (page.overlapped \/ Outdated(s)) /\ g.dirty = page.dirty
    BY <1>1, <1>2, <1>4, ArrivesFacts, TakesPage
  <2>2. page' = [[g EXCEPT !.banner = a] EXCEPT !.saving = FALSE]
    BY <1>4 DEF Adopted
  <2>3. Carries(wire[s]) /\ a \in DetailRow(page.kind)
    BY <1>1, <1>4, ArrivesFacts
  <2>4. a = Answer(s).row
    OBVIOUS
  <2> HIDE DEF g, a
  <2>5. /\ page' \in DetailPage(page.kind) /\ page'.state = "ready"
        /\ page'.overlapped = page.overlapped /\ page'.entity = a
        /\ page'.form = page.form /\ page'.dirty = page.dirty
        /\ page'.excused = (page.overlapped \/ Outdated(s)) /\ page'.banner = a
    BY <2>1, <2>2, <2>3 DEF DetailPage
  <2>6. page.form \in DetailForm(page.kind)
    BY <1>2, PageIs
  <2>7. ShownOK(page')
    <3> SUFFICES ASSUME ~page.overlapped, page.kind # "break_reason"
                 PROVE  page'.dirty
      <4>1. page'.kind = page.kind
        BY <2>5 DEF DetailPage
      <4> QED
        BY <2>5, <4>1 DEF ShownOK
    <3>1. RequestOK(row, page, wire[s]) /\ Own(wire[s])
      BY <1>2, SettlesFacts DEF Settles, Own
    <3> QED
      BY <1>2, <2>5, <3>1 DEF RequestOK, AloneOK, Settles
  <2>8. page.state = "ready" /\ page'.banner = page.banner /\ page'.banner = a
           /\ page.banner # Null /\ ~page.overlapped /\ page.kind = "skill" =>
              page.entity.version <= a.version
    <3> SUFFICES ASSUME ~page.overlapped, page.kind = "skill"
                 PROVE  page.entity.version <= a.version
      OBVIOUS
    <3>1. RequestOK(row, page, wire[s]) /\ Own(wire[s])
      BY <1>2, SettlesFacts DEF Settles, Own
    <3>2. AloneOK(row, page, wire[s])
      BY <1>2, <3>1 DEF RequestOK, Settles
    <3> QED
      BY <1>2, <2>3, <2>4, <3>2 DEF AloneOK, Answer
  <2> QED
    BY <1>2, <2>3, <2>4, <2>5, <2>6, <2>7, <2>8, SettlesWithRow
<1>5. CASE /\ Answer(s).kind = "conflict" /\ page' = [OnlyShown(s) EXCEPT !.saving = FALSE]
           /\ page.kind = "break_reason"
  <2> DEFINE a == Answer(s).row
  <2>1. page' = [[page EXCEPT !.banner = a] EXCEPT !.saving = FALSE]
    BY <1>5 DEF OnlyShown
  <2>2. Carries(wire[s]) /\ a \in DetailRow(page.kind) /\ a = wire[s].reply.row
    BY <1>1, <1>5, ArrivesFacts DEF Answer
  <2> HIDE DEF a
  <2>3. /\ page' \in DetailPage(page.kind) /\ page'.state = "ready"
        /\ page'.overlapped = page.overlapped /\ page'.entity = page.entity
        /\ page'.form = page.form /\ page'.dirty = page.dirty
        /\ page'.excused = page.excused /\ page'.banner = a
    BY <1>2, <2>1, <2>2 DEF DetailPage
  <2>4. CopyOfRow(page.kind, a, row)
    BY <1>2, <2>2, SettlesFacts DEF RequestOK, Settles
  <2>5. ~NotHeard(wire[s])
    BY <1>5 DEF NotHeard, Done, Answer
  <2> QED
    BY <1>2, <1>5, <2>2, <2>3, <2>4, <2>5, SettlesAsItWas
<1>6. CASE Answer(s).kind = "error" /\ page' = [page EXCEPT !.saving = FALSE]
  <2>1. /\ page' \in DetailPage(page.kind) /\ page'.state = "ready"
        /\ page'.overlapped = page.overlapped /\ page'.entity = page.entity
        /\ page'.form = page.form /\ page'.dirty = page.dirty
        /\ page'.excused = page.excused /\ page'.banner = page.banner
    BY <1>2, <1>6 DEF DetailPage
  <2>2. ~NotHeard(wire[s])
    BY <1>6 DEF NotHeard, Done, Answer
  <2> QED
    BY <1>2, <2>1, <2>2, SettlesAsItWas
<1> QED
  BY Zenon, <1>3, <1>4, <1>5, <1>6 DEF SaveAnswered

LEMMA FlagAnsweredKeeps ==
    ASSUME DetailInv, NEW s \in Slots,
           NEW op \in {"enable", "disable"}, NEW flag \in Flags,
           (op = "enable" /\ flag = "on") \/ (op = "disable" /\ flag = "off"),
           FlagAnswered(s, op, flag)
    PROVE  DetailInv'
<1>1. Arrives(s, op) /\ Settled(s)
  BY DEF FlagAnswered
<1>2. /\ Settles(s) /\ wire[s].op = op /\ page.state = "ready"
      /\ page \in DetailPage(page.kind) /\ page.form \in DetailForm(page.kind)
  BY <1>1, ArrivesFacts, SettlesFacts, PageIs
<1>3. CASE Answer(s).kind = "ok" /\ page' = [Takes(s, page) EXCEPT !.form.enabled = flag]
  <2> DEFINE g == Takes(s, page)
             a == Answer(s).row
             f == [page.form EXCEPT !.enabled = flag]
  <2>1. /\ g \in DetailPage(page.kind) /\ g.overlapped = page.overlapped
        /\ g.state = "ready" /\ g.entity = a /\ g.form = page.form
        /\ g.excused = (page.overlapped \/ Outdated(s)) /\ g.dirty = page.dirty
        /\ g.banner = page.banner
    BY <1>1, <1>2, <1>3, ArrivesFacts, TakesPage
  <2>2. page' = [g EXCEPT !.form.enabled = flag]
    BY <1>3
  <2>3. /\ Carries(wire[s]) /\ Done(wire[s]) /\ a \in DetailRow(page.kind)
        /\ a = wire[s].reply.row
    BY <1>1, <1>3, ArrivesFacts DEF Answer, Carries, Done
  <2>4. a = Answer(s).row
    OBVIOUS
  <2>5. /\ f \in DetailForm(page.kind) /\ f.enabled = flag /\ f.name = page.form.name
        /\ f.extra = page.form.extra
    BY <1>2 DEF DetailForm
  <2> HIDE DEF g, a
  <2>6. page' = [g EXCEPT !.form = f]
    BY <2>1, <2>2
  <2> HIDE DEF f
  <2>7. /\ page' \in DetailPage(page.kind) /\ page'.state = "ready"
        /\ page'.overlapped = page.overlapped /\ page'.entity = a
        /\ page'.form = f /\ page'.dirty = page.dirty
        /\ page'.excused = (page.overlapped \/ Outdated(s)) /\ page'.banner = page.banner
    BY <2>1, <2>5, <2>6 DEF DetailPage
  <2>8. RequestOK(row, page, wire[s]) /\ Own(wire[s])
    BY <1>2, SettlesFacts DEF Settles, Own
  <2>9. ~page.overlapped /\ page.kind # "break_reason" => AloneOK(row, page, wire[s])
    BY <1>2, <2>8 DEF RequestOK, Settles
  <2>10. ~page.overlapped /\ page.kind # "break_reason" =>
            /\ page.entity.version <= a.version
            /\ SameContent(page.kind, a.content, page.entity.content)
    BY <1>2, <2>3, <2>9 DEF AloneOK
  <2>11. a.content.enabled = flag
    <3>1. wire[s].body = FlagBody(flag) /\ StoredOK(page.kind, wire[s])
      BY <1>2, <2>8 DEF RequestOK, BodyOK, Own
    <3>2. wire[s].body.enabled = flag /\ flag # Null
      BY <3>1, BodyTypes, KindFields, PageIs
    <3> QED
      BY <1>2, <2>3, <3>1, <3>2 DEF StoredOK
  <2>12. ShownOK(page')
    <3>1. page'.kind = page.kind
      BY <2>7 DEF DetailPage
    <3>2. ShownOK(page)
      BY PageIs DEF DetailOK
    <3>3. ~page.overlapped /\ ~page.dirty /\ page.kind # "break_reason" =>
             SameContent(page.kind, f, a.content)
      BY <1>2, <2>5, <2>10, <3>2 DEF ShownOK, SameContent
    <3> QED
      BY <2>5, <2>7, <2>11, <3>1, <3>3 DEF ShownOK
  <2> QED
    BY <1>2, <2>3, <2>4, <2>5, <2>7, <2>10, <2>12, SettlesWithRow
<1>4. CASE Answer(s).kind # "ok" /\ page' = page
  <2>1. ~NotHeard(wire[s])
    BY <1>4 DEF NotHeard, Done, Answer
  <2> QED
    BY <1>2, <1>4, <2>1, SettlesAsItWas
<1> QED
  BY <1>3, <1>4 DEF FlagAnswered

LEMMA DeleteAnsweredKeeps ==
    ASSUME DetailInv, NEW s \in Slots, DeleteAnswered(s)
    PROVE  DetailInv'
<1>1. CASE Answer(s).kind = "ok" /\ page' = LeftPage /\ wire' = [Strays EXCEPT ![s] = Null]
  <2> DEFINE w2 == [Strays EXCEPT ![s] = Null]
  <2>1. DetailOK(row, page, wire) /\ LeftPage = LeftOf(page.kind)
    BY DEF DetailInv, LeftPage, LeftOf
  <2>2. Strays \in [Slots -> DetailRequest(page.kind) \cup {Null}]
    BY StraysOK
  <2>3. /\ w2 \in [Slots -> DetailRequest(page.kind) \cup {Null}]
        /\ \A t \in Slots : w2[t] = Null \/ w2[t] = Strays[t]
    BY <2>2
  <2> HIDE DEF w2
  <2>4. \A t \in Slots :
           \/ w2[t] = Null
           \/ /\ Own(wire[t]) /\ wire[t].reply = Null /\ w2[t] = Strayed(wire[t])
    BY <2>3, StraysOK
  <2>5. DetailOK(row, LeftPage, w2)
    BY <2>1, <2>3, <2>4, LeavesOK
  <2>6. row' = row /\ wire' = w2
    BY <1>1 DEF w2, DeleteAnswered, Arrives
  <2> QED
    BY <1>1, <2>5, <2>6 DEF DetailInv
<1>2. CASE Answer(s).kind = "error" /\ Settled(s) /\ page' = page
  <2>1. Arrives(s, "delete")
    BY DEF DeleteAnswered
  <2>2. /\ Settles(s) /\ wire[s].op = "delete" /\ page.state = "ready"
        /\ page \in DetailPage(page.kind)
    BY <1>2, <2>1, ArrivesFacts, SettlesFacts
  <2>3. ~NotHeard(wire[s])
    BY <2>2 DEF NotHeard
  <2> QED
    BY <1>2, <2>2, <2>3, SettlesAsItWas
<1> QED
  BY <1>1, <1>2 DEF DeleteAnswered

LEMMA LostKeeps ==
    ASSUME DetailInv, NEW s \in Slots, Lost(s)
    PROVE  DetailInv'
<1>1. Settles(s)
  BY DEF Lost, Settles, Settled
<1>2. page \in DetailPage(page.kind)
      /\ page.state = (IF wire[s].op = "load" THEN "loading" ELSE "ready")
  BY <1>1, SettlesFacts, PageIs
<1>3. page' = [page EXCEPT
                  !.state = IF wire[s].op = "load" THEN "blank" ELSE page.state,
                  !.saving = IF wire[s].op = "save" THEN FALSE ELSE page.saving,
                  !.excused = TRUE]
  BY DEF Lost
<1>4. /\ page' \in DetailPage(page.kind) /\ page'.overlapped = page.overlapped
      /\ page'.state = (IF wire[s].op = "load" THEN "blank" ELSE "ready")
      /\ page'.entity = page.entity /\ page'.form = page.form /\ page'.dirty = page.dirty
      /\ page'.excused /\ page'.banner = page.banner
  BY <1>2, <1>3 DEF DetailPage
<1> QED
  BY <1>1, <1>4, SettlesAsItWas

-----------------------------------------------------------------------------
(* The controls *)

LEMMA EditsKeep ==
    ASSUME DetailInv, page.state = "ready",
           \/ \E n \in Names[page.kind] : DetailEdit("name", n)
           \/ \E v \in Flags : DetailEdit("enabled", v)
           \/ \E x \in Extras[page.kind] \cup (IF page.kind = "adapter" THEN {Invalid} ELSE {}) :
                 DetailEdit("extra", x)
    PROVE  DetailInv'
<1>1. page.kind \in DetailKinds /\ page.form \in DetailForm(page.kind)
  BY PageIs
<1>2. ASSUME NEW n \in Names[page.kind], DetailEdit("name", n)
      PROVE  DetailInv'
  <2>1. [page.form EXCEPT !["name"] = n] \in DetailForm(page.kind)
    BY <1>1, DetailFormTypes
  <2> QED
    BY <1>2, <2>1, EditKeeps
<1>3. ASSUME NEW v \in Flags, DetailEdit("enabled", v)
      PROVE  DetailInv'
  <2>1. [page.form EXCEPT !["enabled"] = v] \in DetailForm(page.kind)
    BY <1>1, DetailFormTypes
  <2> QED
    BY <1>3, <2>1, EditKeeps
<1>4. ASSUME NEW x \in Extras[page.kind] \cup (IF page.kind = "adapter" THEN {Invalid} ELSE {}),
             DetailEdit("extra", x)
      PROVE  DetailInv'
  <2>1. [page.form EXCEPT !["extra"] = x] \in DetailForm(page.kind)
    BY <1>1, DetailFormTypes
  <2> QED
    BY <1>4, <2>1, EditKeeps
<1> QED
  BY <1>2, <1>3, <1>4

LEMMA SavesKeep ==
    ASSUME DetailInv, page.state = "ready",
           \/ page.kind # "adapter" /\ Save(page.form)
           \/ (page.kind # "adapter" \/ page.form.extra # Invalid) /\ Save(NullWhenEmpty)
    PROVE  DetailInv'
<1>1. /\ page.kind \in DetailKinds /\ page.form \in DetailForm(page.kind)
      /\ page.entity.version \in Nat
  BY PageIs
<1>2. ASSUME NEW body \in DetailBody(page.kind), Save(body)
      PROVE  DetailInv'
  <2>1. BodyOK(NewRequest("save", page.entity.version, body))
    BY <1>1 DEF BodyOK, NewRequest
  <2>2. /\ page.dirty /\ Request("save", page.entity.version, body)
        /\ page' = [Overlaps EXCEPT !.saving = TRUE]
    BY <1>2 DEF Save
  <2> QED
    BY <1>1, <2>1, <2>2, SendKeeps
<1>3. page.kind # "adapter" \/ page.form.extra # Invalid =>
         page.form \in DetailBody(page.kind) /\ NullWhenEmpty \in DetailBody(page.kind)
  BY <1>1, DetailFormTypes DEF NullWhenEmpty
<1> QED
  BY <1>2, <1>3

LEMMA SetFlagKeeps ==
    ASSUME DetailInv, page.state = "ready",
           SetFlag("enable", "on") \/ SetFlag("disable", "off")
    PROVE  DetailInv'
<1>1. /\ FlagBody("on") \in DetailBody(page.kind) /\ FlagBody("off") \in DetailBody(page.kind)
      /\ page.entity.version \in Nat
  BY PageIs, BodyTypes DEF Flags
<1>2. /\ BodyOK(NewRequest("enable", page.entity.version, FlagBody("on")))
      /\ BodyOK(NewRequest("disable", page.entity.version, FlagBody("off")))
  <2> HIDE DEF FlagBody
  <2> QED
    BY <1>1 DEF BodyOK, NewRequest
<1>3. CASE SetFlag("enable", "on")
  BY <1>1, <1>2, <1>3, SendKeeps DEF SetFlag
<1>4. CASE SetFlag("disable", "off")
  BY <1>1, <1>2, <1>4, SendKeeps DEF SetFlag
<1> QED
  BY <1>3, <1>4

LEMMA DeleteKeeps ==
    ASSUME DetailInv, page.state = "ready", Delete
    PROVE  DetailInv'
<1>1. BodyOK(NewRequest("delete", Null, NoBody))
  BY DEF BodyOK, NewRequest
<1> QED
  BY <1>1, PageIs, BodyTypes, SendKeeps DEF Delete

LEMMA HeaderKeeps ==
    ASSUME DetailInv, page.state = "ready",
           Header(SetFlag("enable", "on"), SetFlag("disable", "off"))
    PROVE  DetailInv'
BY NavigateKeeps, SetFlagKeeps DEF Header

LEMMA ResetForms ==
    ASSUME DetailInv, page.state = "ready"
    PROVE  /\ Whole \in DetailForm(page.kind) /\ Whole.enabled = page.entity.content.enabled
           /\ SameContent(page.kind, Whole, page.entity.content)
           /\ page.kind = "agent" =>
                 /\ ButSkills \in DetailForm(page.kind)
                 /\ ButSkills.enabled = page.entity.content.enabled
                 /\ SameContent(page.kind, ButSkills, page.entity.content)
<1> DEFINE c == page.entity.content
<1>1. c \in Contents(page.kind) /\ page.form \in DetailForm(page.kind)
  BY PageIs
<1>2. Whole = c /\ ButSkills = [c EXCEPT !.extra = page.form.extra]
  BY DEF Whole, ButSkills
<1> HIDE DEF c
<1> DEFINE b == ButSkills
<1>3. Whole \in DetailForm(page.kind) /\ Whole.enabled = c.enabled
      /\ SameContent(page.kind, Whole, c)
  BY <1>1, <1>2, PageIs, ContentIsForm DEF SameContent
<1>4. page.kind = "agent" =>
         b \in DetailForm(page.kind) /\ b.enabled = c.enabled /\ SameContent(page.kind, b, c)
  BY <1>1, <1>2 DEF SameContent, Contents, DetailForm
<1> QED
  BY <1>3, <1>4 DEF c

LEMMA CancelKeeps ==
    ASSUME DetailInv, page.state = "ready",
           Cancel(Whole) \/ (page.kind = "agent" /\ Cancel(ButSkills))
    PROVE  DetailInv'
<1>1. ASSUME NEW f \in DetailForm(page.kind), f.enabled = page.entity.content.enabled,
             SameContent(page.kind, f, page.entity.content), Cancel(f)
      PROVE  DetailInv'
  <2>1. CASE DetailNavigate
    BY <2>1, NavigateKeeps
  <2>2. CASE /\ page' = [Overlaps EXCEPT !.form = f, !.dirty = FALSE]
             /\ UNCHANGED <<row, wire>>
    <3> DEFINE g == Overlaps
    <3>1. /\ g \in DetailPage(page.kind) /\ g.state = "ready" /\ g.entity = page.entity
          /\ g.banner = page.banner
      BY OverlapsFields
    <3>2. page' = [g EXCEPT !.form = f, !.dirty = FALSE]
      BY <2>2
    <3> HIDE DEF g
    <3>3. /\ page' \in DetailPage(page.kind) /\ page'.state = "ready"
          /\ page'.entity = page.entity /\ page'.form = f /\ ~page'.dirty
          /\ page'.banner = page.banner /\ page'.excused = g.excused
          /\ page'.overlapped = g.overlapped
      BY <3>1, <3>2 DEF DetailPage
    <3>4. page.entity \in DetailRow(page.kind) /\ page.banner \in DetailRow(page.kind) \cup {Null}
      BY PageIs DEF DetailPage
    <3> QED
      BY <1>1, <2>2, <3>3, <3>4, ResetKeeps DEF g
  <2> QED
    BY <1>1, <2>1, <2>2 DEF Cancel
<1> QED
  BY <1>1, ResetForms

LEMMA DiscardKeeps ==
    ASSUME DetailInv, page.state = "ready",
           \/ Discard(page.entity, Whole)
           \/ page.kind = "agent" /\ Discard(page.entity, ButSkills)
           \/ /\ page.kind \in {"skill", "break_reason"} /\ page.banner # Null
              /\ Discard(page.banner, page.banner.content)
    PROVE  DetailInv'
<1>1. ASSUME NEW e \in DetailRow(page.kind), NEW f \in DetailForm(page.kind),
             f.enabled = e.content.enabled, SameContent(page.kind, f, e.content),
             \/ e = page.entity
             \/ page.banner # Null /\ e = page.banner /\ page.kind \in {"skill", "break_reason"},
             Discard(e, f)
      PROVE  DetailInv'
  <2> DEFINE g == Overlaps
  <2>1. g \in DetailPage(page.kind) /\ g.state = "ready"
    BY OverlapsFields
  <2>2. page' = [g EXCEPT !.entity = e, !.form = f, !.dirty = FALSE, !.banner = Null]
    BY <1>1 DEF Discard
  <2> HIDE DEF g
  <2>3. /\ page' \in DetailPage(page.kind) /\ page'.state = "ready"
        /\ page'.entity = e /\ page'.form = f /\ ~page'.dirty
        /\ page'.banner = Null /\ page'.excused = g.excused
        /\ page'.overlapped = g.overlapped
    BY <1>1, <2>1, <2>2 DEF DetailPage
  <2>4. UNCHANGED <<row, wire>>
    BY <1>1 DEF Discard
  <2> QED
    BY <1>1, <2>3, <2>4, ResetKeeps DEF g
<1>2. page.entity \in DetailRow(page.kind) /\ page.kind \in DetailKinds
  BY PageIs
<1>3. CASE Discard(page.entity, Whole)
  BY <1>1, <1>2, <1>3, ResetForms
<1>4. CASE page.kind = "agent" /\ Discard(page.entity, ButSkills)
  BY <1>1, <1>2, <1>4, ResetForms
<1>5. CASE /\ page.kind \in {"skill", "break_reason"} /\ page.banner # Null
           /\ Discard(page.banner, page.banner.content)
  <2>1. page.banner \in DetailRow(page.kind)
    BY <1>5, PageIs DEF DetailPage
  <2>2. page.banner.content \in DetailForm(page.kind)
    BY <1>2, <2>1, ContentIsForm DEF DetailRow
  <2>3. SameContent(page.kind, page.banner.content, page.banner.content)
    BY DEF SameContent
  <2> QED
    BY <1>1, <1>5, <2>1, <2>2, <2>3
<1> QED
  BY <1>3, <1>4, <1>5

LEMMA ReviewsKeep ==
    ASSUME DetailInv, page.state = "ready",
           \/ Review(page.entity)
           \/ /\ page.kind = "skill" /\ page.banner # Null
              /\ Review([page.entity EXCEPT !.version = page.banner.version])
           \/ page.kind = "break_reason" /\ page.banner # Null /\ Review(page.banner)
    PROVE  DetailInv'
<1>1. /\ page.entity \in DetailRow(page.kind)
      /\ page.banner # Null => page.banner \in DetailRow(page.kind)
  BY PageIs DEF DetailPage
<1>2. CASE Review(page.entity)
  BY <1>1, <1>2, ReviewKeeps
<1>3. CASE /\ page.kind = "skill" /\ page.banner # Null
           /\ Review([page.entity EXCEPT !.version = page.banner.version])
  <2> DEFINE e == [page.entity EXCEPT !.version = page.banner.version]
  <2>1. /\ e \in DetailRow(page.kind) /\ e.content = page.entity.content
        /\ e.version = page.banner.version
    BY <1>1, <1>3 DEF DetailRow
  <2>2. Review(e)
    BY <1>3
  <2> HIDE DEF e
  <2> QED
    BY <1>3, <2>1, <2>2, ReviewKeeps
<1>4. CASE page.kind = "break_reason" /\ page.banner # Null /\ Review(page.banner)
  BY <1>1, <1>4, ReviewKeeps
<1> QED
  BY <1>2, <1>3, <1>4

-----------------------------------------------------------------------------
(* The six pages *)

\* What the pages do, and on which of them.
AnyControl ==
    /\ page.state = "ready"
    /\ \/ Header(SetFlag("enable", "on"), SetFlag("disable", "off"))
       \/ \E n \in Names[page.kind] : DetailEdit("name", n)
       \/ \E v \in Flags : DetailEdit("enabled", v)
       \/ \E x \in Extras[page.kind] \cup (IF page.kind = "adapter" THEN {Invalid} ELSE {}) :
             DetailEdit("extra", x)
       \/ page.kind # "adapter" /\ Save(page.form)
       \/ (page.kind # "adapter" \/ page.form.extra # Invalid) /\ Save(NullWhenEmpty)
       \/ Cancel(Whole) \/ (page.kind = "agent" /\ Cancel(ButSkills))
       \/ Delete
       \/ Discard(page.entity, Whole)
       \/ page.kind = "agent" /\ Discard(page.entity, ButSkills)
       \/ /\ page.kind \in {"skill", "break_reason"} /\ page.banner # Null
          /\ Discard(page.banner, page.banner.content)
       \/ Review(page.entity)
       \/ /\ page.kind = "skill" /\ page.banner # Null
          /\ Review([page.entity EXCEPT !.version = page.banner.version])
       \/ page.kind = "break_reason" /\ page.banner # Null /\ Review(page.banner)

AnyAnswer(s) ==
    \/ LoadAnswered(s)
    \/ SaveAnswered(s, Adopted(s))
    \/ page.kind = "break_reason" /\ SaveAnswered(s, OnlyShown(s))
    \/ FlagAnswered(s, "enable", "on") \/ FlagAnswered(s, "disable", "off")
    \/ DeleteAnswered(s)

LEMMA ControlKeeps ==
    ASSUME DetailInv, AnyControl
    PROVE  DetailInv'
BY HeaderKeeps, EditsKeep, SavesKeep, CancelKeeps, DeleteKeeps, DiscardKeeps, ReviewsKeep
   DEF AnyControl

LEMMA AnyAnswerKeeps ==
    ASSUME DetailInv, NEW s \in Slots, AnyAnswer(s)
    PROVE  DetailInv'
<1>1. ASSUME FlagAnswered(s, "enable", "on") \/ FlagAnswered(s, "disable", "off")
      PROVE  DetailInv'
  BY <1>1, FlagAnsweredKeeps DEF Flags
<1> QED
  BY <1>1, LoadAnsweredKeeps, SaveAnsweredKeeps, DeleteAnsweredKeeps DEF AnyAnswer

LEMMA ScreensAreControls ==
    ASSUME AgentScreen \/ QueueScreen \/ SkillScreen \/ ChannelScreen \/ AdapterScreen
           \/ BreakReasonScreen
    PROVE  AnyControl
<1>1. CASE AgentScreen
  BY <1>1, ExtraFields
     DEF AnyControl, AgentScreen, On, AgentHeader, AgentEnable, AgentDisable, AgentBanner,
         AgentAcknowledged, AgentIdentity, AgentSkills, AgentStatus, AgentFormActions, AgentSave,
         AgentDeleteDialog
<1>2. CASE QueueScreen
  BY <1>2
     DEF AnyControl, QueueScreen, On, QueueHeader, QueueEnable, QueueDisable, QueueBanner,
         QueueAcknowledged, QueueIdentity, QueueStatus, QueueFormActions, QueueSave,
         QueueDeleteDialog
<1>3. CASE SkillScreen
  BY <1>3
     DEF AnyControl, SkillScreen, On, SkillHeader, SkillEnable, SkillDisable, SkillBanner,
         SkillAcknowledged, SkillIdentity, SkillStatus, SkillFormActions, SkillSave,
         SkillDeleteDialog
<1>4. CASE ChannelScreen
  BY <1>4, ExtraFields
     DEF AnyControl, ChannelScreen, On, ChannelHeader, ChannelEnable, ChannelDisable,
         ChannelBanner, ChannelAcknowledged, ChannelIdentity, ChannelQueue, ChannelStatus,
         ChannelFormActions, ChannelSave, ChannelDeleteDialog
<1>5. CASE AdapterScreen
  BY <1>5, ExtraFields
     DEF AnyControl, AdapterScreen, On, AdapterHeader, AdapterEnable, AdapterDisable,
         AdapterBanner, AdapterAcknowledged, AdapterIdentity, AdapterConfig, AdapterStatus,
         AdapterFormActions, AdapterSave, AdapterDeleteDialog
<1>6. CASE BreakReasonScreen
  BY <1>6
     DEF AnyControl, BreakReasonScreen, On, BreakReasonHeader, BreakReasonEnable,
         BreakReasonDisable, BreakReasonBanner, BreakReasonAcknowledged, BreakReasonIdentity,
         BreakReasonStatus, BreakReasonFormActions, BreakReasonSave, BreakReasonDeleteDialog
<1> QED
  BY <1>1, <1>2, <1>3, <1>4, <1>5, <1>6

LEMMA AnswersAreAny ==
    ASSUME NEW s, DetailAnswered(s)
    PROVE  AnyAnswer(s)
BY DEF AnyAnswer, DetailAnswered, AgentAnswered, QueueAnswered, SkillAnswered,
       ChannelAnswered, AdapterAnswered, BreakReasonAnswered,
       AgentLoaded, AgentSaveAnswered, AgentEnableAnswered, AgentDisableAnswered,
       AgentDeleteAnswered, QueueLoaded, QueueSaveAnswered, QueueEnableAnswered,
       QueueDisableAnswered, QueueDeleteAnswered, SkillLoaded, SkillSaveAnswered,
       SkillEnableAnswered, SkillDisableAnswered, SkillDeleteAnswered, ChannelLoaded,
       ChannelSaveAnswered, ChannelEnableAnswered, ChannelDisableAnswered,
       ChannelDeleteAnswered, AdapterLoaded, AdapterSaveAnswered, AdapterEnableAnswered,
       AdapterDisableAnswered, AdapterDeleteAnswered, BreakReasonLoaded,
       BreakReasonSaveAnswered, BreakReasonEnableAnswered, BreakReasonDisableAnswered,
       BreakReasonDeleteAnswered

-----------------------------------------------------------------------------
(* The theorems *)

LEMMA DetailInitOK == DetailInit => DetailInv
<1> SUFFICES ASSUME DetailInit
             PROVE  DetailInv
  OBVIOUS
<1>1. PICK kind \in DetailKinds : page = NewPage(kind, FALSE)
  BY DEF DetailInit
<1>2. /\ page \in DetailPage(kind) /\ page.kind = kind /\ page.state = "loading"
      /\ page.banner = Null /\ ~page.overlapped
  BY <1>1 DEF NewPage, DetailPage
<1>3. row \in DetailRow(kind)
  <2> DEFINE first == CHOOSE n \in Names[kind] : TRUE
  <2>1. first \in Names[kind]
    BY KindFields
  <2>2. row \in [version : {1}, content : [name : {first}, enabled : {"on"}, extra : Extras[kind]]]
    BY <1>2 DEF DetailInit, FirstRow
  <2> HIDE DEF first
  <2> QED
    BY <2>1, <2>2 DEF DetailRow, Contents, Flags
<1> DEFINE q == NewRequest("load", Null, NoBody)
<1>4. /\ q \in DetailRequest(kind) /\ q.op = "load" /\ q.reply = Null /\ ~q.stray
  BY BodyTypes DEF NewRequest, DetailRequest
<1>5. PICK first \in Slots : wire = [s \in Slots |-> IF s = first THEN q ELSE Null]
  BY DEF DetailInit
<1> HIDE DEF q
<1>6. /\ wire \in [Slots -> DetailRequest(kind) \cup {Null}]
      /\ wire[first] = q /\ \A s \in Slots : wire[s] = Null \/ s = first
  BY <1>4, <1>5
<1>7. DetailTypeOK(row, page, wire)
  BY <1>2, <1>3, <1>6 DEF DetailTypeOK
<1>8. SessionOK(page, q) /\ RequestOK(row, page, q) /\ ~Own(q) /\ ~Own(Null)
  BY <1>2, <1>4 DEF SessionOK, RequestOK, BodyOK, StoredOK, Done, Carries, Own
<1>9. \A s \in Slots : SessionOK(page, wire[s]) /\ RequestOK(row, page, wire[s])
  BY <1>6, <1>8 DEF SessionOK, RequestOK
<1>10. SingleOK(page, wire)
  BY <1>2, <1>6 DEF SingleOK
<1>11. HeldOK(row, page) /\ ShownOK(page) /\ CurrentOK(row, page, wire)
  BY <1>2 DEF HeldOK, ShownOK, CurrentOK
<1> QED
  BY <1>7, <1>9, <1>10, <1>11 DEF DetailInv, DetailOK

LEMMA UserSteps ==
    ASSUME DetailUser
    PROVE  AnyControl \/ Connected \/ DetailNavigate
BY ScreensAreControls
   DEF DetailUser, AgentConnected, QueueConnected, SkillConnected, ChannelConnected,
       AdapterConnected, BreakReasonConnected, SidebarLeave

LEMMA DetailNextKeeps ==
    ASSUME DetailInv, [DetailNext]_detailVars
    PROVE  DetailInv'
<1>1. CASE UNCHANGED detailVars
  BY <1>1 DEF detailVars, DetailInv
<1>2. CASE DetailUser
  BY <1>2, UserSteps, ControlKeeps, ConnectedKeeps, NavigateKeeps
<1>3. ASSUME NEW s \in Slots, Serve(s) \/ DetailAnswered(s) \/ Lost(s)
      PROVE  DetailInv'
  BY <1>3, ServerKeeps, AnswersAreAny, AnyAnswerKeeps, LostKeeps
<1>4. CASE OtherEditorSaves \/ OtherEditorDeletes
  BY <1>4, OtherEditorKeeps
<1> QED
  BY <1>1, <1>2, <1>3, <1>4 DEF DetailNext

\* The page, the row and the requests fit together at every step.
THEOREM DetailInvariance == DetailSpec => []DetailInv
<1>1. DetailInv /\ [DetailNext]_detailVars => DetailInv'
  BY DetailNextKeeps
<1> QED
  BY DetailInitOK, <1>1, PTL DEF DetailSpec

\* On every detail page but a break reason's, a page that is not dirty shows the
\* entity it holds, whatever the user, the answers and the other editors did, as
\* long as no two of its writes overlapped.
THEOREM CleanPageShowsItsEntity == DetailSpec => []CleanMeansShown
<1>1. DetailInv => CleanMeansShown
  BY DEF DetailInv, DetailOK, ShownOK, SameContent, CleanMeansShown, Quiet
<1> QED
  BY DetailInvariance, <1>1, PTL

\* The version a page saves with is the row's, unless another editor, a lost
\* answer or an overlapping write came between.
THEOREM OnlyAChangeConflicts == DetailSpec => []ConflictMeansChange
<1>1. DetailInv => ConflictMeansChange
  <2> SUFFICES ASSUME DetailInv, Quiet, ~page.excused,
                      page.kind \notin {"skill", "break_reason"}
               PROVE  page.entity.version = row.version
    BY DEF ConflictMeansChange
  <2>1. \A s \in Slots : ~NotHeard(wire[s])
    BY NoneOwnWrites DEF Quiet, NoneOwn, NotHeard
  <2> QED
    BY <2>1 DEF DetailInv, DetailOK, CurrentOK, Quiet
<1> QED
  BY DetailInvariance, <1>1, PTL

-----------------------------------------------------------------------------
(* What an answer does to the form *)

\* The user's controls settle no request: they take a free slot, or leave.
LEMMA ControlsSettleNothing ==
    ASSUME DetailInv, AnyControl \/ Connected \/ DetailNavigate, NEW s \in Slots
    PROVE  ~Settling(s)
<1> SUFFICES ASSUME wire[s] # Null, page.state = "ready"
             PROVE  wire'[s] = wire[s] \/ page'.state = "left"
  BY DEF Settling
<1>1. ASSUME NEW op, NEW base, NEW body, Request(op, base, body)
      PROVE  wire'[s] = wire[s]
  <2> DEFINE q == NewRequest(op, base, body)
  <2>1. PICK t \in Slots : wire[t] = Null /\ wire' = [wire EXCEPT ![t] = q]
    BY <1>1 DEF Request, FreeSlots
  <2> HIDE DEF q
  <2> QED
    BY <2>1, PageIs
<1>2. CASE DetailNavigate
  <2>1. page' = LeftOf(page.kind)
    BY <1>2 DEF DetailNavigate, LeftPage, LeftOf
  <2> QED
    BY <2>1 DEF LeftOf, NewPage
<1>3. CASE Connected
  BY <1>3 DEF Connected
<1>4. CASE wire' = wire
  BY <1>4
<1>5. CASE AnyControl
  BY Zenon, <1>1, <1>2, <1>4, <1>5
     DEF AnyControl, Header, SetFlag, Save, Delete, DetailEdit, Cancel, Discard, Review
<1> QED
  BY <1>2, <1>3, <1>5

\* A request that settles while the page is open is the one that is answered.
LEMMA SettlingIs ==
    ASSUME DetailInv, [DetailNext]_detailVars, NEW s \in Slots, Settling(s)
    PROVE  AnyAnswer(s) \/ Lost(s)
<1>1. /\ wire[s] # Null /\ wire'[s] = Null /\ ~wire[s].stray /\ page.state = "ready"
      /\ page'.state = "ready"
      /\ wire \in [Slots -> DetailRequest(page.kind) \cup {Null}]
      /\ page.kind \in DetailKinds
  BY PageIs DEF Settling
<1>2. ~UNCHANGED detailVars /\ ~DetailUser /\ ~OtherEditorSaves /\ ~OtherEditorDeletes
  BY <1>1, UserSteps, ControlsSettleNothing
     DEF detailVars, OtherEditorSaves, OtherEditorDeletes
<1>3. PICK t \in Slots : Serve(t) \/ DetailAnswered(t) \/ Lost(t)
  BY <1>2 DEF DetailNext
<1>4. ASSUME t # s
      PROVE  FALSE
  <2>1. CASE wire'[s] = wire[s]
    BY <1>1, <2>1
  <2>2. CASE wire' = [wire EXCEPT ![t] = Null]
    BY <1>1, <1>4, <2>2
  <2>3. CASE page' = LeftPage
    <3>1. page' = LeftOf(page.kind)
      BY <2>3 DEF LeftPage, LeftOf
    <3> QED
      BY <1>1, <3>1 DEF LeftOf, NewPage
  <2>4. CASE Serve(t)
    <3>1. ASSUME NEW reply, Reply(t, reply)
          PROVE  wire'[s] = wire[s]
      <4> DEFINE q == IF wire[t].stray THEN Null ELSE Replied(wire[t], reply)
      <4>1. wire' = [wire EXCEPT ![t] = q]
        BY <1>1, <3>1 DEF Reply, Replied
      <4> HIDE DEF q
      <4> QED
        BY <1>1, <1>4, <4>1
    <3> QED
      BY Zenon, <2>1, <2>4, <3>1 DEF Serve, ServeLoad, ServePatch, ServeDelete, ServeRefusal
  <2>5. CASE AnyAnswer(t) \/ Lost(t)
    BY Zenon, <2>2, <2>3, <2>5
       DEF AnyAnswer, LoadAnswered, SaveAnswered, FlagAnswered, DeleteAnswered, Lost, Settled
  <2> QED
    BY <1>3, <2>4, <2>5, AnswersAreAny
<1>5. ~Serve(s)
  <2>1. ASSUME NEW reply \in DetailReply(page.kind), Reply(s, reply)
        PROVE  FALSE
    <3> DEFINE q == Replied(wire[s], reply)
    <3>1. wire' = [wire EXCEPT ![s] = q]
      BY <1>1, <2>1 DEF Reply, Replied
    <3>2. q \in DetailRequest(page.kind)
      BY <1>1, RepliedFields
    <3> HIDE DEF q
    <3> QED
      BY <1>1, <3>1, <3>2, KindFields
  <2> SUFFICES ASSUME Serve(s)
               PROVE  \E reply \in DetailReply(page.kind) : Reply(s, reply)
    BY <2>1
  <2>2. CASE ServeRefusal(s)
    BY <2>2 DEF ServeRefusal, DetailReply
  <2>3. CASE ServeLoad(s) \/ ServeDelete(s)
    <3>1. [kind |-> "ok", row |-> row] \in DetailReply(page.kind)
      BY <1>1, PageIs, ReplyTypes
    <3>2. Reply(s, [kind |-> "ok", row |-> row])
      BY <2>3 DEF ServeLoad, ServeDelete
    <3> QED
      BY <3>1, <3>2
  <2>4. CASE ServePatch(s)
    <3>1. ASSUME NEW x \in DetailRow(page.kind), NEW k \in {"ok", "conflict"},
                 Reply(s, [kind |-> k, row |-> x])
          PROVE  \E reply \in DetailReply(page.kind) : Reply(s, reply)
      <4>1. [kind |-> k, row |-> x] \in DetailReply(page.kind)
        BY <1>1, ReplyTypes
      <4> QED
        BY <3>1, <4>1
    <3>2. CASE /\ row' = [version |-> row.version + 1,
                          content |-> Patched(row.content, wire[s].body)]
               /\ \E read \in AgentRead(row') : Reply(s, [kind |-> "ok", row |-> read])
      <4>1. wire[s].body \in DetailBody(page.kind)
        BY <1>1 DEF DetailRequest
      <4>2. PICK read \in AgentRead(row') : Reply(s, [kind |-> "ok", row |-> read])
        BY <3>2
      <4>3. read \in DetailRow(page.kind)
        BY <3>2, <4>1, AcceptedRow
      <4> QED
        BY <3>1, <4>2, <4>3
    <3>3. CASE Reply(s, [kind |-> "conflict", row |-> AgentBare(row)])
      BY <3>1, <3>3, BareRow
    <3> QED
      BY Zenon, <2>4, <3>2, <3>3 DEF ServePatch
  <2> QED
    BY <2>2, <2>3, <2>4 DEF Serve
<1> QED
  BY <1>3, <1>4, <1>5, AnswersAreAny

\* A settled request leaves the form, or is a save that was accepted, or sets
\* the flag.
LEMMA SettlingMeans ==
    ASSUME DetailInv, [DetailNext]_detailVars, NEW s \in Slots, Settling(s)
    PROVE  \/ page'.form = page.form /\ page'.dirty = page.dirty
           \/ /\ wire[s].op = "save" /\ Accepted(s)
              /\ page'.form = Answer(s).row.content
           \/ /\ wire[s].op \in {"enable", "disable"} /\ page'.dirty = page.dirty
              /\ page'.form.name = page.form.name /\ page'.form.extra = page.form.extra
<1>1. /\ page.state = "ready" /\ page'.state = "ready" /\ page \in DetailPage(page.kind)
      /\ page.form \in DetailForm(page.kind)
  BY PageIs DEF Settling
<1>2. CASE LoadAnswered(s)
  <2>1. Arrives(s, "load") /\ Settled(s)
    BY <1>2 DEF LoadAnswered
  <2> QED
    BY <1>1, <2>1, ArrivesFacts, SettlesFacts
<1>3. CASE SaveAnswered(s, Adopted(s)) \/ SaveAnswered(s, OnlyShown(s))
  <2>1. Arrives(s, "save") /\ Settled(s)
    BY <1>3 DEF SaveAnswered
  <2>2. wire[s].op = "save" /\ Answer(s) # Null
    BY <2>1 DEF Arrives
  <2>3. CASE Answer(s).kind = "ok"
             /\ page' = [Filled(s, page) EXCEPT !.saving = FALSE, !.banner = Null]
    <3> DEFINE g == Filled(s, page)
    <3>1. g \in DetailPage(page.kind) /\ g.form = Answer(s).row.content
      BY <2>1, <2>3, ArrivesFacts, FilledPage
    <3>2. page' = [g EXCEPT !.saving = FALSE, !.banner = Null]
      BY <2>3
    <3> HIDE DEF g
    <3>3. page'.form = Answer(s).row.content
      BY <3>1, <3>2 DEF DetailPage
    <3> QED
      BY <2>2, <2>3, <3>3 DEF Accepted
  <2>4. CASE Answer(s).kind = "conflict" /\ page' = [Adopted(s) EXCEPT !.saving = FALSE]
    <3> DEFINE g == Takes(s, page)
               a == Answer(s).row
    <3>1. g \in DetailPage(page.kind) /\ g.form = page.form /\ g.dirty = page.dirty
      BY <2>1, <2>4, ArrivesFacts, TakesPage
    <3>2. page' = [[g EXCEPT !.banner = a] EXCEPT !.saving = FALSE]
      BY <2>4 DEF Adopted
    <3> HIDE DEF g, a
    <3> QED
      BY <3>1, <3>2 DEF DetailPage
  <2>5. CASE page' = [OnlyShown(s) EXCEPT !.saving = FALSE]
    <3> DEFINE a == Answer(s).row
    <3>1. page' = [[page EXCEPT !.banner = a] EXCEPT !.saving = FALSE]
      BY <2>5 DEF OnlyShown
    <3> HIDE DEF a
    <3> QED
      BY <1>1, <3>1 DEF DetailPage
  <2>6. CASE page' = [page EXCEPT !.saving = FALSE]
    BY <1>1, <2>6 DEF DetailPage
  <2> QED
    BY Zenon, <1>3, <2>3, <2>4, <2>5, <2>6 DEF SaveAnswered
<1>4. ASSUME NEW op \in {"enable", "disable"}, NEW flag \in Flags, FlagAnswered(s, op, flag)
      PROVE  \/ page'.form = page.form /\ page'.dirty = page.dirty
             \/ /\ wire[s].op \in {"enable", "disable"} /\ page'.dirty = page.dirty
                /\ page'.form.name = page.form.name /\ page'.form.extra = page.form.extra
  <2>1. Arrives(s, op) /\ Settled(s)
    BY <1>4 DEF FlagAnswered
  <2>2. wire[s].op = op
    BY <2>1 DEF Arrives
  <2>3. CASE Answer(s).kind = "ok" /\ page' = [Takes(s, page) EXCEPT !.form.enabled = flag]
    <3> DEFINE g == Takes(s, page)
               f == [page.form EXCEPT !.enabled = flag]
    <3>1. g \in DetailPage(page.kind) /\ g.form = page.form /\ g.dirty = page.dirty
      BY <2>1, <2>3, ArrivesFacts, TakesPage
    <3>2. page' = [g EXCEPT !.form.enabled = flag]
      BY <2>3
    <3>3. f.name = page.form.name /\ f.extra = page.form.extra
      BY <1>1 DEF DetailForm
    <3> HIDE DEF g
    <3>4. page' = [g EXCEPT !.form = f]
      BY <3>1, <3>2
    <3> HIDE DEF f
    <3>5. page'.form = f /\ page'.dirty = page.dirty
      BY <3>1, <3>4 DEF DetailPage
    <3> QED
      BY <2>2, <3>3, <3>5
  <2> QED
    BY <1>4, <2>3 DEF FlagAnswered
<1>5. CASE DeleteAnswered(s)
  <2>1. CASE page' = LeftPage
    <3>1. page' = LeftOf(page.kind)
      BY <2>1 DEF LeftPage, LeftOf
    <3> QED
      BY <1>1, <3>1 DEF LeftOf, NewPage
  <2> QED
    BY <1>5, <2>1 DEF DeleteAnswered
<1>6. CASE Lost(s)
  BY <1>1, <1>6 DEF Lost, DetailPage
<1> QED
  BY <1>2, <1>3, <1>4, <1>5, <1>6, SettlingIs DEF AnyAnswer, Flags

\* What the user has typed is replaced only by the answer to an accepted save.
THEOREM AnswersLeaveTheForm == DetailSpec => AnswersKeepEdits
<1>1. ASSUME DetailInv, [DetailNext]_detailVars, NEW s \in Slots, Settling(s)
      PROVE  IF wire[s].op = "save"
             THEN Accepted(s)
                  \/ (page'.dirty = page.dirty /\ SameFields({"name", "enabled", "extra"}))
             ELSE page'.dirty = page.dirty /\ SameFields({"name", "extra"})
  BY <1>1, SettlingMeans DEF SameFields
<1>2. DetailInv /\ [DetailNext]_detailVars =>
         [\A s \in Slots : Settling(s) =>
             IF wire[s].op = "save"
             THEN Accepted(s)
                  \/ (page'.dirty = page.dirty /\ SameFields({"name", "enabled", "extra"}))
             ELSE page'.dirty = page.dirty /\ SameFields({"name", "extra"})]_detailVars
  BY <1>1
<1> QED
  BY DetailInvariance, <1>2, PTL DEF DetailSpec, AnswersKeepEdits

\* An accepted save of the form as it stands gives the form back unchanged, on
\* the pages without a field that the server keeps when it is cleared.
THEOREM SavedFormIsStored == DetailSpec => SavedIsStored
<1>1. ASSUME DetailInv, [DetailNext]_detailVars, NEW s \in Slots,
             Settling(s), wire[s].op = "save", Accepted(s),
             page.kind \notin {"channel", "adapter"}, wire[s].body = page.form
      PROVE  SameFields({"name", "enabled"}
                        \cup (IF page.kind = "agent" THEN {} ELSE {"extra"}))
  <2>1. CASE page'.form = page.form
    BY <2>1 DEF SameFields
  <2>2. CASE page'.form = Answer(s).row.content
    <3>1. page.form \in DetailForm(page.kind) /\ page.kind \in DetailKinds
      BY <1>1, PageIs DEF Settling
    <3>2. page.form.name # Null /\ page.form.enabled # Null /\ page.form.extra # Null
      BY <1>1, <3>1, KindFields DEF DetailForm
    <3>3. StoredOK(page.kind, wire[s]) /\ Done(wire[s])
      BY <1>1 DEF DetailInv, DetailOK, RequestOK, Settling, Accepted, Answer, Done
    <3>4. /\ page'.form.name = page.form.name /\ page'.form.enabled = page.form.enabled
          /\ page.kind # "agent" => page'.form.extra = page.form.extra
      BY <1>1, <2>2, <3>2, <3>3 DEF StoredOK, Answer
    <3> QED
      BY <3>4 DEF SameFields
  <2> QED
    BY <1>1, <2>1, <2>2, SettlingMeans
<1>2. DetailInv /\ [DetailNext]_detailVars =>
         [\A s \in Slots :
            /\ Settling(s) /\ wire[s].op = "save" /\ Accepted(s)
            /\ page.kind \notin {"channel", "adapter"} /\ ~page'.dirty
            /\ wire[s].body = page.form
            => SameFields({"name", "enabled"}
                          \cup (IF page.kind = "agent" THEN {} ELSE {"extra"}))]_detailVars
  BY <1>1
<1> QED
  BY DetailInvariance, <1>2, PTL DEF DetailSpec, SavedIsStored

-----------------------------------------------------------------------------
(***************************************************************************)
(* The list pages, for any searches, page sizes and number of pages.  Both *)
(* properties speak of a page whose fetch is complete and follow from what *)
(* holds of it at any time: what is asked is what the filters say, and the *)
(* cursor of a flow list, unless Next was pressed too early, is one past   *)
(* its stack, whatever has been fetched of it.  Next leads to the following *)
(* page because a flow list's answer is never replaced by a late one.      *)
(***************************************************************************)

-----------------------------------------------------------------------------
(* The inductive invariant *)

AskedRow ==
    [search : Searches \cup {""}, disabled : BOOLEAN, limit : Limits, cursor : Nat]

ListRow ==
    [kind : ListKinds, typed : Searches \cup {"", Null}, search : Searches \cup {""},
     disabled : BOOLEAN, limit : Limits, cursor : Nat, stack : Seq(Nat), next : Nat,
     page : Nat, hurried : BOOLEAN, acting : BOOLEAN,
     status : {"pending", "bindings", "complete", "error"},
     shown : AskedRow \cup {Null}, asked : AskedRow]

\* Follow, for the list l.
FollowIn(l, cursor) == IF cursor < Pages[l.kind] THEN cursor + 1 ELSE None

\* The stack is the pages before the cursor's, in order.
WayBack(l) ==
    /\ l.cursor = Len(l.stack) + 1
    /\ \A i \in 1..Len(l.stack) : l.stack[i] = i

\* What is asked, shown and next agrees with the filters.
AskedOK(l) ==
    /\ l.status = "complete" => l.shown = l.asked
    /\ l.kind = "flows" /\ l.status \in {"bindings", "complete"} =>
           l.next = FollowIn(l, l.asked.cursor)

WalkOK(l) == l.kind = "flows" /\ ~l.hurried => WayBack(l)

ListOK ==
    /\ list \in ListRow
    /\ list.asked = Args(list)
    /\ AskedOK(list) /\ WalkOK(list)

ListInv == ListOK /\ stale \subseteq Nat

-----------------------------------------------------------------------------
(* Runs *)

LEMMA ArgsType ==
    ASSUME NEW l \in ListRow
    PROVE  Args(l) \in AskedRow
BY DEF Args, ListRow, AskedRow

LEMMA StartKeeps ==
    ASSUME NEW l \in ListRow, WalkOK(l), Start(l)
    PROVE  ListOK'
<1> DEFINE a == Args(l)
<1>1. a \in AskedRow
  BY ArgsType
<1>2. list' = [l EXCEPT !.asked = a, !.status = "pending", !.shown = Null]
  BY DEF Start
<1>3. a = [search |-> l.search, disabled |-> l.disabled, limit |-> l.limit, cursor |-> l.cursor]
  BY DEF Args
<1> DEFINE q == list'
<1> HIDE DEF a
<1>4. /\ q \in ListRow /\ q.asked = a /\ q.status = "pending" /\ q.kind = l.kind
      /\ q.search = l.search /\ q.disabled = l.disabled /\ q.limit = l.limit
      /\ q.cursor = l.cursor /\ q.stack = l.stack /\ q.hurried = l.hurried
  BY <1>1, <1>2 DEF ListRow
<1>5. q.asked = Args(q)
  BY <1>3, <1>4 DEF Args
<1>6. AskedOK(q) /\ WalkOK(q)
  BY <1>4 DEF AskedOK, WalkOK, WayBack
<1> QED
  BY <1>4, <1>5, <1>6 DEF ListOK

\* The page's state changes, and a run starts if its arguments did.
LEMMA UpdatedKeeps ==
    ASSUME NEW l \in ListRow, WalkOK(l), AskedOK(l), Updated(l)
    PROVE  ListOK'
<1>1. CASE Args(l) # l.asked
  BY <1>1, StartKeeps DEF Updated
<1>2. CASE Args(l) = l.asked
  BY <1>2 DEF Updated, ListOK
<1> QED
  BY <1>1, <1>2

-----------------------------------------------------------------------------
(* What the user does *)

LEMMA FirstPageOK ==
    ASSUME NEW l \in ListRow, AskedOK(l)
    PROVE  FirstPage(l) \in ListRow /\ WalkOK(FirstPage(l)) /\ AskedOK(FirstPage(l))
<1> DEFINE q == FirstPage(l)
<1>1. <<>> \in Seq(Nat) /\ Len(<<>>) = 0
  OBVIOUS
<1>2. /\ q \in ListRow /\ q.kind = l.kind /\ q.cursor = 1 /\ q.stack = <<>> /\ ~q.hurried
      /\ q.status = l.status /\ q.shown = l.shown /\ q.asked = l.asked /\ q.next = l.next
  BY <1>1 DEF FirstPage, First, ListRow
<1> HIDE DEF q
<1>3. WalkOK(q) /\ AskedOK(q)
  BY <1>1, <1>2 DEF WalkOK, WayBack, AskedOK, FollowIn
<1> QED
  BY <1>2, <1>3 DEF q

\* A change of what the walk does not depend on.
Same(l, q) ==
    /\ q \in ListRow /\ q.kind = l.kind /\ q.status = l.status /\ q.shown = l.shown
    /\ q.asked = l.asked /\ q.next = l.next

LEMMA SameAsked ==
    ASSUME NEW l, NEW q, AskedOK(l), Same(l, q)
    PROVE  AskedOK(q)
BY DEF Same, AskedOK, FollowIn

LEMMA FilterKeeps ==
    ASSUME ListOK, NEW q, Same(list, q), Updated(FirstPage(q))
    PROVE  ListOK'
<1>1. q \in ListRow /\ AskedOK(q)
  BY SameAsked DEF ListOK, Same
<1> QED
  BY <1>1, FirstPageOK, UpdatedKeeps

LEMMA TypedKeeps ==
    ASSUME ListOK, Typed
    PROVE  ListOK'
<1>1. PICK text \in Searches \cup {""} : list' = [list EXCEPT !.typed = text]
  BY DEF Typed
<1>2. /\ Same(list, list') /\ Args(list') = Args(list) /\ list'.stack = list.stack
      /\ list'.cursor = list.cursor /\ list'.hurried = list.hurried
  BY <1>1 DEF ListOK, ListRow, Same, Args
<1>3. AskedOK(list') /\ WalkOK(list')
  BY <1>2, SameAsked DEF ListOK, WalkOK, WayBack, Same
<1> QED
  BY <1>2, <1>3 DEF ListOK, Same

LEMMA TimerKeeps ==
    ASSUME ListOK, TimerFires
    PROVE  ListOK'
<1> DEFINE q == [list EXCEPT !.search = list.typed, !.typed = Null]
<1>1. Same(list, q)
  BY DEF ListOK, ListRow, Same, TimerFires
<1>2. Updated(FirstPage(q))
  BY DEF TimerFires
<1> HIDE DEF q
<1> QED
  BY <1>1, <1>2, FilterKeeps

LEMMA ClearKeeps ==
    ASSUME ListOK, ClearSearch(list) \/ FlowsClearSearch
    PROVE  ListOK'
<1> DEFINE q == [list EXCEPT !.search = ""]
           u == [list EXCEPT !.typed = Null]
           v == [u EXCEPT !.search = ""]
<1>1. Same(list, q) /\ u \in ListRow /\ Same(list, v)
  BY DEF ListOK, ListRow, Same
<1>2. Updated(FirstPage(q)) \/ Updated(FirstPage(v))
  BY DEF ClearSearch, FlowsClearSearch
<1> HIDE DEF q, v
<1> QED
  BY <1>1, <1>2, FilterKeeps

LEMMA DisabledKeeps ==
    ASSUME ListOK, IncludeDisabled
    PROVE  ListOK'
<1> DEFINE q == [list EXCEPT !.disabled = ~list.disabled]
<1>1. Same(list, q)
  BY DEF ListOK, ListRow, Same
<1>2. Updated(FirstPage(q))
  BY DEF IncludeDisabled
<1> HIDE DEF q
<1> QED
  BY <1>1, <1>2, FilterKeeps

LEMMA FirstPageIsBack ==
    ASSUME NEW l, l.cursor = 1, Len(l.stack) = 0
    PROVE  WayBack(l)
BY DEF WayBack

LEMMA NewRow ==
    ASSUME NEW kind \in ListKinds, NEW limit \in Limits, NEW a \in AskedRow, NEW st \in Seq(Nat),
           a = [search |-> "", disabled |-> FALSE, limit |-> limit, cursor |-> 1],
           Len(st) = 0, NEW q,
           q = [kind |-> kind, typed |-> Null, search |-> "", disabled |-> FALSE,
                limit |-> limit, cursor |-> 1, stack |-> st, next |-> 0, page |-> 1,
                hurried |-> FALSE, acting |-> FALSE, status |-> "pending", shown |-> Null,
                asked |-> a]
    PROVE  q \in ListRow /\ q.asked = Args(q) /\ AskedOK(q) /\ WalkOK(q)
<1>1. q \in ListRow
  BY DEF ListRow
<1>2. q.asked = Args(q)
  BY DEF Args
<1>3. AskedOK(q)
  BY DEF AskedOK
<1>4. q.stack = st
  BY Zenon
<1>5. q.cursor = 1
  BY Zenon
<1> QED
  BY <1>1, <1>2, <1>3, <1>4, <1>5, FirstPageIsBack, Zenon DEF WalkOK

LEMMA NewListOK ==
    ASSUME NEW kind \in ListKinds, NEW limit \in Limits
    PROVE  LET q == NewList(kind, limit)
           IN  q \in ListRow /\ q.asked = Args(q) /\ AskedOK(q) /\ WalkOK(q)
<1> DEFINE a == [search |-> "", disabled |-> FALSE, limit |-> limit, cursor |-> 1]
<1>1. <<>> \in Seq(Nat) /\ Len(<<>>) = 0
  BY EmptySeq, Zenon
<1>2. a \in AskedRow
  BY DEF AskedRow
<1>3. a = [search |-> "", disabled |-> FALSE, limit |-> limit, cursor |-> 1]
  OBVIOUS
<1> HIDE DEF a
<1> DEFINE q == [kind |-> kind, typed |-> Null, search |-> "", disabled |-> FALSE,
                 limit |-> limit, cursor |-> 1, stack |-> <<>>, next |-> 0, page |-> 1,
                 hurried |-> FALSE, acting |-> FALSE, status |-> "pending", shown |-> Null,
                 asked |-> a]
<1>4. q \in ListRow /\ q.asked = Args(q) /\ AskedOK(q) /\ WalkOK(q)
  BY <1>1, <1>2, <1>3, NewRow, Zenon
<1>5. q = NewList(kind, limit)
  BY <1>3, Zenon DEF NewList, First, None
<1> QED
  BY <1>4, <1>5, Zenon

LEMMA ListNavigateKeeps ==
    ASSUME ListOK, ListNavigate
    PROVE  ListOK'
<1>1. list.kind \in ListKinds /\ list.limit \in Limits
  BY DEF ListOK, ListRow
<1> QED
  BY <1>1, NewListOK DEF ListOK, ListNavigate

LEMMA ActingKeeps ==
    ASSUME ListOK, NEW on \in BOOLEAN, list' = [list EXCEPT !.acting = on]
    PROVE  ListOK'
<1>1. /\ Same(list, list') /\ Args(list') = Args(list) /\ list'.stack = list.stack
      /\ list'.cursor = list.cursor /\ list'.hurried = list.hurried
  BY DEF ListOK, ListRow, Same, Args
<1>2. AskedOK(list') /\ WalkOK(list')
  BY <1>1, SameAsked DEF ListOK, WalkOK, WayBack, Same
<1> QED
  BY <1>1, <1>2 DEF ListOK, Same

LEMMA RefreshKeeps ==
    ASSUME ListOK, Refresh \/ RowAnswered
    PROVE  ListOK'
<1>1. CASE Refresh
  BY <1>1, StartKeeps DEF ListOK, Refresh
<1>2. CASE RowAnswered
  <2> DEFINE q == [list EXCEPT !.acting = FALSE]
  <2>1. q \in ListRow /\ q.kind = list.kind /\ q.stack = list.stack
        /\ q.cursor = list.cursor /\ q.hurried = list.hurried
    BY DEF ListOK, ListRow
  <2>2. Start(q)
    BY <1>2 DEF RowAnswered
  <2> HIDE DEF q
  <2>3. WalkOK(q)
    BY <2>1 DEF ListOK, WalkOK, WayBack
  <2> QED
    BY <2>1, <2>2, <2>3, StartKeeps
<1> QED
  BY <1>1, <1>2

LEMMA RowsKeep ==
    ASSUME ListOK,
           RowMenu \/ RowAnswered \/ FlowsRowAction \/ RowClick
           \/ NoRows(ClearSearch(list)) \/ NoRows(FlowsClearSearch)
    PROVE  ListOK'
BY ListNavigateKeeps, ActingKeeps, RefreshKeeps, ClearKeeps
   DEF RowMenu, FlowsRowAction, RowClick, NoRows

-----------------------------------------------------------------------------
(* The walk *)

LEMMA BackOK ==
    ASSUME NEW l \in ListRow, WalkOK(l), AskedOK(l)
    PROVE  Back(l) \in ListRow /\ WalkOK(Back(l)) /\ AskedOK(Back(l))
<1> DEFINE q == Back(l)
           c == IF l.stack = <<>> THEN First ELSE Last(l.stack)
           st == IF l.stack = <<>> THEN <<>> ELSE Front(l.stack)
<1>1. l.stack \in Seq(Nat)
  BY DEF ListRow
<1>2. CASE l.stack = <<>>
  <2>1. c = 1 /\ st = <<>> /\ Len(<<>>) = 0 /\ <<>> \in Seq(Nat)
    BY <1>2 DEF First
  <2> HIDE DEF c, st
  <2>2. /\ q \in ListRow /\ q.kind = l.kind /\ q.cursor = 1 /\ q.stack = <<>>
        /\ Same(l, q)
    <3>1. q = [l EXCEPT !.cursor = c, !.stack = st]
      BY DEF Back, c, st
    <3> HIDE DEF q
    <3> QED
      BY <2>1, <3>1 DEF ListRow, Same
  <2> HIDE DEF q
  <2>3. WalkOK(q) /\ AskedOK(q)
    BY <2>1, <2>2, SameAsked DEF WalkOK, WayBack
  <2> QED
    BY <2>2, <2>3 DEF q
<1>3. CASE l.stack # <<>>
  <2>1. /\ Len(l.stack) \in Nat \ {0}
        /\ \A i \in 1..Len(l.stack) : l.stack[i] \in Nat
    BY <1>1, <1>3
  <2>2. c = l.stack[Len(l.stack)] /\ st = SubSeq(l.stack, 1, Len(l.stack) - 1)
    BY <1>3 DEF Last, Front
  <2>3. /\ st \in Seq(Nat) /\ Len(st) = Len(l.stack) - 1
        /\ \A i \in 1..Len(st) : st[i] = l.stack[i]
    <3> DEFINE seq == l.stack
               n == Len(seq) - 1
    <3>1. seq \in Seq(Nat) /\ n \in Nat /\ n <= Len(seq) /\ st = SubSeq(seq, 1, n)
      BY <1>1, <2>1, <2>2
    <3> HIDE DEF seq, n, st
    <3>2. st \in Seq(Nat) /\ Len(st) = n /\ \A i \in 1..n : st[i] = seq[i]
      BY <3>1
    <3> QED
      BY <3>2 DEF seq, n
  <2>4. c \in Nat
    BY <2>1, <2>2
  <2>5. q = [l EXCEPT !.cursor = c, !.stack = st]
    BY DEF Back
  <2> HIDE DEF c, st, q
  <2>6. Same(l, q) /\ q.cursor = c /\ q.stack = st /\ q.hurried = l.hurried
    BY <2>3, <2>4, <2>5 DEF ListRow, Same
  <2>7. WayBack(l) => WayBack(q)
    <3> SUFFICES ASSUME WayBack(l)
                 PROVE  WayBack(q)
      OBVIOUS
    <3>1. \A i \in 1..Len(l.stack) : l.stack[i] = i
      BY DEF WayBack
    <3>2. c = Len(st) + 1 /\ \A i \in 1..Len(st) : st[i] = i
      BY <2>1, <2>2, <2>3, <3>1
    <3> QED
      BY <2>6, <3>2 DEF WayBack
  <2> QED
    BY <2>6, <2>7, SameAsked DEF WalkOK, Same, q
<1> QED
  BY <1>2, <1>3

\* One step on, with the cursor left put on the stack.
LEMMA StackGrows ==
    ASSUME NEW l, l.stack \in Seq(Nat), l.cursor \in Nat, WayBack(l)
    PROVE  /\ Len(Append(l.stack, l.cursor)) = Len(l.stack) + 1
           /\ \A i \in 1..(Len(l.stack) + 1) : Append(l.stack, l.cursor)[i] = i
BY DEF WayBack

LEMMA FollowsNat ==
    ASSUME ListOK, NEW cursor \in Nat
    PROVE  Follow(cursor) \in Nat /\ Follow(cursor) = FollowIn(list, cursor)
BY DEF Follow, FollowIn, None

LEMMA PressedFacts ==
    ASSUME ListOK, NEW e \in Paginator
    PROVE  /\ e.direction \in {"prev", "next"} /\ e.limit \in Limits /\ e.page \in Nat
           /\ e.direction = "next" /\ e.limit = list.limit => list.next # None
<1>1. list.page \in Nat /\ list.limit \in Limits
  BY DEF ListOK, ListRow
<1>2. CASE e \in PrevPressed
  <2>1. e = Event("prev", IF list.page > 1 THEN list.page - 1 ELSE 1, list.limit)
    BY <1>2 DEF PrevPressed
  <2> QED
    BY <1>1, <2>1 DEF Event
<1>3. CASE e \in NextPressed
  <2>1. e = Event("next", list.page + 1, list.limit) /\ list.next # None
    BY <1>3 DEF NextPressed
  <2> QED
    BY <1>1, <2>1 DEF Event
<1>4. CASE e \in LimitChosen
  <2>1. PICK limit \in Limits \ {list.limit} : e = Event("next", 1, limit)
    BY <1>4 DEF LimitChosen
  <2> QED
    BY <1>1, <2>1 DEF Event
<1> QED
  BY <1>2, <1>3, <1>4 DEF Paginator

\* The six pages: none is a flow list, and nothing is said of their walk.
LEMMA PageChangedKeeps ==
    ASSUME ListOK, list.kind # "flows", NEW e \in Paginator, PageChanged(e)
    PROVE  ListOK'
<1> DEFINE l == [list EXCEPT !.limit = e.limit, !.page = e.page]
           st == IF l.cursor = First THEN l.stack ELSE Append(l.stack, l.cursor)
           ahead == [l EXCEPT !.stack = st, !.cursor = Ahead(l)]
<1>1. e.limit \in Limits /\ e.page \in Nat
  BY PressedFacts
<1>2. Updated(IF e.direction = "prev" THEN Back(l) ELSE ahead)
  BY DEF PageChanged
<1>3. Same(list, l) /\ l.kind # "flows"
  BY <1>1 DEF ListOK, ListRow, Same
<1>4. ahead = [l EXCEPT !.stack = st, !.cursor = Ahead(l)]
  OBVIOUS
<1>5. st = IF l.cursor = First THEN l.stack ELSE Append(l.stack, l.cursor)
  OBVIOUS
<1> HIDE DEF l, st, ahead
<1>6. st \in Seq(Nat) /\ Ahead(l) \in Nat
  <2>1. l.stack \in Seq(Nat) /\ l.cursor \in Nat /\ l.next \in Nat
    BY <1>3 DEF Same, ListRow
  <2>2. Append(l.stack, l.cursor) \in Seq(Nat)
    BY <2>1
  <2> QED
    BY <1>5, <2>1, <2>2 DEF Ahead, First
<1>7. Same(l, ahead) /\ ahead.kind # "flows"
  BY <1>3, <1>4, <1>6 DEF ListRow, Same
<1>8. AskedOK(l) /\ WalkOK(l) /\ AskedOK(ahead) /\ WalkOK(ahead)
  BY <1>3, <1>7, SameAsked DEF ListOK, WalkOK
<1>9. Back(l) \in ListRow /\ WalkOK(Back(l)) /\ AskedOK(Back(l))
  BY <1>3, <1>8, BackOK DEF Same
<1>10. CASE e.direction = "prev"
  BY <1>2, <1>9, <1>10, UpdatedKeeps
<1>11. CASE e.direction # "prev"
  BY <1>2, <1>7, <1>8, <1>11, UpdatedKeeps DEF Same
<1> QED
  BY <1>10, <1>11

LEMMA FlowsPageChangedKeeps ==
    ASSUME ListOK, NEW e \in Paginator, FlowsPageChanged(e)
    PROVE  ListOK'
<1> DEFINE l == [list EXCEPT !.page = e.page]
           m == [l EXCEPT !.limit = e.limit]
           st == Append(l.stack, l.cursor)
           hu == l.hurried \/ l.status # "complete"
           ahead == [l EXCEPT !.stack = st, !.cursor = Ahead(l), !.hurried = hu]
<1>1. /\ e.limit \in Limits /\ e.page \in Nat /\ e.direction \in {"prev", "next"}
      /\ e.direction = "next" /\ e.limit = list.limit => list.next # None
  BY PressedFacts
<1>2. \/ Updated(FirstPage(m))
      \/ e.direction = "prev" /\ Updated(Back(l))
      \/ e.direction # "prev" /\ e.limit = list.limit /\ Updated(ahead)
  BY DEF FlowsPageChanged
<1>3. /\ Same(list, l) /\ Same(list, m) /\ l.cursor = list.cursor /\ l.stack = list.stack
      /\ l.hurried = list.hurried
  BY <1>1 DEF ListOK, ListRow, Same
<1>4. ahead = [l EXCEPT !.stack = st, !.cursor = Ahead(l), !.hurried = hu]
  OBVIOUS
<1>5. st = Append(l.stack, l.cursor) /\ hu = (l.hurried \/ l.status # "complete")
  OBVIOUS
<1> HIDE DEF l, m, st, hu, ahead
<1>6. l \in ListRow /\ AskedOK(l) /\ WalkOK(l)
  BY <1>3, SameAsked DEF ListOK, Same, WalkOK, WayBack
<1>7. CASE Updated(FirstPage(m))
  BY <1>3, <1>7, FilterKeeps
<1>8. CASE Updated(Back(l))
  BY <1>6, <1>8, BackOK, UpdatedKeeps
<1>9. CASE e.direction # "prev" /\ e.limit = list.limit /\ Updated(ahead)
  <2>1. l.stack \in Seq(Nat) /\ l.cursor \in Nat /\ l.next \in Nat
    BY <1>6 DEF ListRow
  <2>2. st \in Seq(Nat) /\ Ahead(l) \in Nat /\ hu \in BOOLEAN
    BY <1>5, <2>1 DEF Ahead, First, None
  <2>3. Same(l, ahead) /\ ahead.stack = st /\ ahead.cursor = Ahead(l) /\ ahead.hurried = hu
    BY <1>4, <1>6, <2>2 DEF ListRow, Same
  <2>4. WalkOK(ahead)
    <3> SUFFICES ASSUME l.kind = "flows", ~hu
                 PROVE  WayBack(ahead)
      BY <2>3 DEF WalkOK, Same
    <3>1. WayBack(l) /\ l.status = "complete"
      BY <1>5, <1>6 DEF WalkOK
    <3>2. list.next # None /\ list.asked = Args(list)
      BY <1>1, <1>9 DEF ListOK
    <3>3. l.next = FollowIn(l, l.cursor) /\ l.next # 0
      BY <1>3, <1>6, <3>1, <3>2 DEF AskedOK, Same, Args, None
    <3>4. Ahead(l) = l.cursor + 1
      BY <3>3 DEF Ahead, None, FollowIn
    <3>5. /\ Len(st) = Len(l.stack) + 1 /\ Len(l.stack) \in Nat
          /\ \A i \in 1..(Len(l.stack) + 1) : st[i] = i
      BY <1>5, <2>1, <3>1, StackGrows
    <3> QED
      BY <2>3, <3>1, <3>4, <3>5 DEF WayBack
  <2> QED
    BY <1>6, <1>9, <2>3, <2>4, SameAsked, UpdatedKeeps DEF Same
<1> QED
  BY <1>2, <1>7, <1>8, <1>9

-----------------------------------------------------------------------------
(* The answers *)

\* The fetch's fields change, those that are asked do not.
LEMMA AnsweredKeeps ==
    ASSUME ListOK, NEW next \in Nat, NEW shown \in AskedRow \cup {Null},
           NEW status \in {"pending", "bindings", "complete", "error"},
           list' = [list EXCEPT !.next = next, !.shown = shown, !.status = status],
           status = "complete" => shown = list.asked,
           list.kind = "flows" /\ status \in {"bindings", "complete"} =>
               next = FollowIn(list, list.asked.cursor)
    PROVE  ListOK'
<1>1. /\ list' \in ListRow /\ list'.kind = list.kind /\ list'.asked = list.asked
      /\ Args(list') = Args(list) /\ list'.stack = list.stack /\ list'.cursor = list.cursor
      /\ list'.hurried = list.hurried /\ list'.status = status /\ list'.shown = shown
      /\ list'.next = next
  BY DEF ListOK, ListRow, Args
<1>2. AskedOK(list') /\ WalkOK(list')
  BY <1>1 DEF ListOK, AskedOK, WalkOK, WayBack, FollowIn
<1> QED
  BY <1>1, <1>2 DEF ListOK

LEMMA ListTypes ==
    ASSUME ListOK
    PROVE  /\ list \in ListRow /\ list.asked \in AskedRow /\ list.asked.cursor \in Nat
           /\ list.next \in Nat /\ list.shown \in AskedRow \cup {Null}
           /\ list.status \in {"pending", "bindings", "complete", "error"}
           /\ AskedOK(list)
BY DEF ListOK, ListRow, AskedRow

LEMMA FetchedKeeps ==
    ASSUME ListOK, stale \subseteq Nat, list.kind # "flows", Fetched
    PROVE  ListOK'
<1>1. CASE list' = [list EXCEPT !.next = Follow(list.asked.cursor), !.shown = list.asked,
                                !.status = "complete"]
  BY <1>1, ListTypes, FollowsNat, AnsweredKeeps
<1>2. ASSUME NEW cursor \in stale, list' = [list EXCEPT !.next = Follow(cursor)]
      PROVE  ListOK'
  <2>1. list' = [list EXCEPT !.next = Follow(cursor), !.shown = list.shown,
                             !.status = list.status]
    BY <1>2, ListTypes DEF ListRow
  <2> QED
    BY <2>1, ListTypes, FollowsNat, AnsweredKeeps DEF AskedOK
<1> QED
  BY <1>1, <1>2 DEF Fetched

LEMMA FlowsFetchedKeeps ==
    ASSUME ListOK, FlowsFetched
    PROVE  ListOK'
<1>1. CASE list' = [list EXCEPT !.next = Follow(list.asked.cursor), !.status = "bindings"]
  <2>1. list' = [list EXCEPT !.next = Follow(list.asked.cursor), !.shown = list.shown,
                             !.status = "bindings"]
    BY <1>1, ListTypes DEF ListRow
  <2> QED
    BY <2>1, ListTypes, FollowsNat, AnsweredKeeps
<1>2. CASE /\ list.status = "bindings"
           /\ list' = [list EXCEPT !.shown = list.asked, !.status = "complete"]
  <2>1. list' = [list EXCEPT !.next = list.next, !.shown = list.asked, !.status = "complete"]
    BY <1>2, ListTypes DEF ListRow
  <2> QED
    BY <1>2, <2>1, ListTypes, AnsweredKeeps DEF AskedOK
<1> QED
  BY <1>1, <1>2 DEF FlowsFetched

LEMMA FetchFailedKeeps ==
    ASSUME ListOK, FetchFailed
    PROVE  ListOK'
<1>1. CASE list' = [list EXCEPT !.status = "error"]
  <2>1. list' = [list EXCEPT !.next = list.next, !.shown = list.shown, !.status = "error"]
    BY <1>1, ListTypes DEF ListRow
  <2> QED
    BY <2>1, ListTypes, AnsweredKeeps
<1>2. CASE list' = list
  BY <1>2 DEF ListOK
<1> QED
  BY <1>1, <1>2 DEF FetchFailed

-----------------------------------------------------------------------------
(* The theorems *)

LEMMA ListUserKeeps ==
    ASSUME ListOK, ListUser
    PROVE  ListOK'
<1>1. ASSUME Typed \/ ClearSearch(list) \/ FlowsClearSearch \/ IncludeDisabled \/ Refresh
      PROVE  ListOK'
  BY <1>1, TypedKeeps, ClearKeeps, DisabledKeeps, RefreshKeeps
<1>2. CASE AgentsScreen
  BY Zenon, <1>1, <1>2, RowsKeep, PageChangedKeeps
     DEF AgentsScreen, Frame, AgentsSearch, AgentsIncludeDisabled, AgentsRefresh, AgentsEmpty,
         AgentsRowClick, AgentsRowAction, AgentsPageChanged
<1>3. CASE QueuesScreen
  BY Zenon, <1>1, <1>3, RowsKeep, PageChangedKeeps
     DEF QueuesScreen, Frame, QueuesSearch, QueuesIncludeDisabled, QueuesRefresh, QueuesEmpty,
         QueuesRowClick, QueuesRowAction, QueuesPageChanged
<1>4. CASE SkillsScreen
  BY Zenon, <1>1, <1>4, RowsKeep, PageChangedKeeps
     DEF SkillsScreen, Frame, SkillsSearch, SkillsIncludeDisabled, SkillsRefresh, SkillsEmpty,
         SkillsRowClick, SkillsRowAction, SkillsPageChanged
<1>5. CASE ChannelsScreen
  BY Zenon, <1>1, <1>5, RowsKeep, PageChangedKeeps
     DEF ChannelsScreen, Frame, ChannelsSearch, ChannelsIncludeDisabled, ChannelsRefresh,
         ChannelsEmpty, ChannelsRowClick, ChannelsRowAction, ChannelsPageChanged
<1>6. CASE AdaptersScreen
  BY Zenon, <1>1, <1>6, RowsKeep, PageChangedKeeps
     DEF AdaptersScreen, Frame, AdaptersSearch, AdaptersIncludeDisabled, AdaptersRefresh,
         AdaptersEmpty, AdaptersRowClick, AdaptersRowAction, AdaptersPageChanged
<1>7. CASE BreakReasonsScreen
  BY Zenon, <1>1, <1>7, RowsKeep, PageChangedKeeps
     DEF BreakReasonsScreen, Frame, BreakReasonsSearch, BreakReasonsIncludeDisabled,
         BreakReasonsRefresh, BreakReasonsEmpty, BreakReasonsRowClick, BreakReasonsRowAction,
         BreakReasonsPageChanged
<1>8. CASE FlowsScreen
  BY Zenon, <1>1, <1>8, RowsKeep, FlowsPageChangedKeeps
     DEF FlowsScreen, FlowsSearch, FlowsIncludeDisabled, FlowsRefresh, FlowsEmpty,
         FlowsRowClick
<1> QED
  BY <1>2, <1>3, <1>4, <1>5, <1>6, <1>7, <1>8 DEF ListUser

LEMMA ListAnsweredKeeps ==
    ASSUME ListInv, ListAnswered
    PROVE  ListOK'
<1>1. CASE Frame("flows") /\ FlowsFetched
  BY <1>1, FlowsFetchedKeeps DEF ListInv
<1>2. CASE ~Frame("flows") /\ Fetched
  BY <1>2, FetchedKeeps DEF ListInv, Frame
<1>3. (Frame("flows") /\ FlowsFetched) \/ (~Frame("flows") /\ Fetched)
  BY DEF ListAnswered, Frame, AgentsFetched, QueuesFetched, SkillsFetched, ChannelsFetched,
         AdaptersFetched, BreakReasonsFetched
<1> QED
  BY <1>1, <1>2, <1>3

\* What is superseded joins the fetches out, and what is answered leaves them.
LEMMA StaleStays ==
    ASSUME ListInv, ListNext
    PROVE  stale' \subseteq Nat
<1>1. stale \subseteq Nat /\ list.asked.cursor \in Nat
  BY ListTypes DEF ListInv
<1>2. ASSUME NEW l, Start(l)
      PROVE  stale' \subseteq Nat
  BY <1>1, <1>2 DEF Start
<1>3. ASSUME NEW l, Updated(l)
      PROVE  stale' \subseteq Nat
  BY <1>1, <1>2, <1>3 DEF Updated
<1>4. CASE stale' = stale \/ stale' = {} \/ \E cursor \in stale : stale' = stale \ {cursor}
  BY <1>1, <1>4
<1>5. CASE \/ Typed \/ ListNavigate \/ RowMenu \/ RowAnswered \/ FlowsRowAction \/ RowClick
           \/ NoRows(ClearSearch(list)) \/ NoRows(FlowsClearSearch)
           \/ ClearSearch(list) \/ FlowsClearSearch \/ IncludeDisabled \/ Refresh
           \/ TimerFires
  BY Zenon, <1>2, <1>3, <1>4, <1>5
     DEF Typed, ListNavigate, RowMenu, RowAnswered, FlowsRowAction, RowClick, NoRows,
         ClearSearch, FlowsClearSearch, IncludeDisabled, Refresh, TimerFires
<1>6. ASSUME NEW e, PageChanged(e) \/ FlowsPageChanged(e)
      PROVE  stale' \subseteq Nat
  BY Zenon, <1>3, <1>6 DEF PageChanged, FlowsPageChanged
<1>7. CASE Fetched \/ FlowsFetched \/ FetchFailed
  BY Zenon, <1>4, <1>7 DEF Fetched, FlowsFetched, FetchFailed
<1>8. CASE ListUser
  BY Zenon, <1>5, <1>6, <1>8
     DEF ListUser, AgentsScreen, QueuesScreen, SkillsScreen, ChannelsScreen, AdaptersScreen,
         BreakReasonsScreen, FlowsScreen, AgentsSearch, AgentsIncludeDisabled, AgentsRefresh,
         AgentsEmpty, AgentsRowClick, AgentsRowAction, AgentsPageChanged, QueuesSearch,
         QueuesIncludeDisabled, QueuesRefresh, QueuesEmpty, QueuesRowClick, QueuesRowAction,
         QueuesPageChanged, SkillsSearch, SkillsIncludeDisabled, SkillsRefresh, SkillsEmpty,
         SkillsRowClick, SkillsRowAction, SkillsPageChanged, ChannelsSearch,
         ChannelsIncludeDisabled, ChannelsRefresh, ChannelsEmpty, ChannelsRowClick,
         ChannelsRowAction, ChannelsPageChanged, AdaptersSearch, AdaptersIncludeDisabled,
         AdaptersRefresh, AdaptersEmpty, AdaptersRowClick, AdaptersRowAction,
         AdaptersPageChanged, BreakReasonsSearch, BreakReasonsIncludeDisabled,
         BreakReasonsRefresh, BreakReasonsEmpty, BreakReasonsRowClick, BreakReasonsRowAction,
         BreakReasonsPageChanged, FlowsSearch, FlowsIncludeDisabled, FlowsRefresh, FlowsEmpty,
         FlowsRowClick
<1>9. CASE ListAnswered
  BY <1>7, <1>9
     DEF ListAnswered, AgentsFetched, QueuesFetched, SkillsFetched, ChannelsFetched,
         AdaptersFetched, BreakReasonsFetched
<1> QED
  BY <1>5, <1>7, <1>8, <1>9 DEF ListNext

\* What is asked is what the filters say, and the walk of a flow list is in order.
THEOREM ListInvariance == ListSpec => []ListInv
<1>1. ListInit => ListInv
  <2> SUFFICES ASSUME ListInit
               PROVE  ListInv
    OBVIOUS
  <2> DEFINE limit == CHOOSE limit \in Limits : TRUE
  <2>1. limit \in Limits
    BY ListAssumption
  <2>2. PICK kind \in ListKinds : list = NewList(kind, limit)
    BY DEF ListInit
  <2> HIDE DEF limit
  <2> QED
    BY <2>1, <2>2, NewListOK DEF ListInv, ListOK, ListInit
<1>2. ListInv /\ [ListNext]_listVars => ListInv'
  <2> SUFFICES ASSUME ListInv, [ListNext]_listVars
               PROVE  ListInv'
    OBVIOUS
  <2>1. CASE UNCHANGED listVars
    BY <2>1 DEF listVars, ListInv, ListOK
  <2>2. CASE ListNext
    <3>1. ListOK'
      BY <2>2, ListUserKeeps, ListAnsweredKeeps, FetchFailedKeeps, TimerKeeps
         DEF ListNext, ListInv
    <3>2. stale' \subseteq Nat
      BY <2>2, StaleStays
    <3> QED
      BY <3>1, <3>2 DEF ListInv
  <2> QED
    BY <2>1, <2>2
<1> QED
  BY <1>1, <1>2, PTL DEF ListSpec

\* The rows shown are the ones asked for, and on the flow list Next leads from
\* the page shown to the one after it, however the answers were ordered.
THEOREM RowsAreAsked == ListSpec => []ShownIsAsked
<1>1. ListInv => ShownIsAsked
  <2> SUFFICES ASSUME ListInv, list.status = "complete"
               PROVE  /\ list.shown = Args(list)
                      /\ list.kind = "flows" => list.next = Follow(list.shown.cursor)
    BY DEF ShownIsAsked
  <2>1. list.shown = list.asked /\ list.asked = Args(list)
    BY DEF ListInv, ListOK, AskedOK
  <2>2. list.kind = "flows" => list.next = FollowIn(list, list.asked.cursor)
    BY DEF ListInv, ListOK, AskedOK
  <2>3. Follow(list.asked.cursor) = FollowIn(list, list.asked.cursor)
    BY ListTypes, FollowsNat DEF ListInv
  <2> QED
    BY <2>1, <2>2, <2>3
<1> QED
  BY ListInvariance, <1>1, PTL

\* The flow list's stack is the pages before the one shown, in order, unless Next
\* was pressed when there was no page to see.
THEOREM StackLeadsBack == ListSpec => []StackIsTheWayBack
<1>1. ListInv => StackIsTheWayBack
  <2> SUFFICES ASSUME ListInv, list.kind = "flows", ~list.hurried
               PROVE  /\ list.cursor = Len(list.stack) + 1
                      /\ \A i \in DOMAIN list.stack : list.stack[i] = i
    BY DEF StackIsTheWayBack
  <2>1. WayBack(list) /\ list.stack \in Seq(Nat)
    BY DEF ListInv, ListOK, ListRow, WalkOK
  <2>2. DOMAIN list.stack = 1..Len(list.stack)
    BY <2>1
  <2> QED
    BY <2>1, <2>2 DEF WayBack
<1> QED
  BY ListInvariance, <1>1, PTL

=============================================================================
