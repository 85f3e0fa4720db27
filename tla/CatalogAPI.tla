------------------------------ MODULE CatalogAPI ------------------------------
(***************************************************************************)
(* The catalog's handlers on one entity: create, get, update and delete,   *)
(* and the row of a bulk import that writes the same entity.  A write      *)
(* empties the cache's entry once it is committed; a get serves the entry, *)
(* or loads it, and loads of one kind are shared by all who wait for them. *)
(*                                                                         *)
(* A row is its version, whether it is enabled, and its body: the fields   *)
(* that are written together.  An agent's body is its skills, which are    *)
(* rows of another table: written in the transaction of the agent's row,   *)
(* and read by a statement of their own.  The other entities' are one row. *)
(* Every answer a client has got is a copy it may base its next update on. *)
(*                                                                         *)
(* Left out is what only refuses a request whatever the row and the cache  *)
(* are (formats, ranges, references to other entities): a request may be   *)
(* refused at any time before it is committed.                             *)
(***************************************************************************)
EXTENDS Naturals, ConsoleCommon

CONSTANTS
    ApiKinds,        \* kinds of entity; agents are the ones of two tables
    Clients,         \* bound: requests at once
    Bodies,          \* what a body can be
    MaxRowVersion    \* bound: version of the row

Absent == "absent"   \* an agent as an answer that does not name its skills

Rows == [version : 1..MaxRowVersion, on : BOOLEAN, body : Bodies]
Copies == [version : 1..MaxRowVersion, body : Bodies \cup {Absent}]
Writes == [by : Clients, row : Rows]

ASSUME ApiAssumption ==
    /\ Null \notin Bodies \cup Rows \cup Copies \cup Writes
    /\ Absent \notin Bodies
    /\ MaxRowVersion \in Nat \ {0}

VARIABLES
    served,    \* the kind of the entity
    entity,    \* its committed row, or Null before it is created
    written,   \* the row as an open transaction has written it, and whose, or Null
    entry,     \* the cache's entry, or Null
    loads,     \* the loads of the entry that are under way
    client     \* by client: the request that is out, or the last answer

apiVars == <<served, entity, written, entry, loads, client>>

Agent == served = "agent"

-----------------------------------------------------------------------------
(* Requests and answers *)

\* copy: the last answer, which an update is made from; body: what a write
\* wants, Null where an update omits it; seen: the row an update has read, or a
\* write has written.
IdleClient(copy) ==
    [op |-> "none", stage |-> "idle", copy |-> copy, body |-> Null, seen |-> Null]

Sent(op, copy, body) ==
    [IdleClient(copy) EXCEPT !.op = op, !.stage = "sent", !.body = body]

Ask(c) ==
    /\ client[c].op = "none"
    /\ \/ \E op \in {"get", "delete"} : client' = [client EXCEPT ![c] = Sent(op, Null, Null)]
       \/ \E op \in {"create", "import"}, b \in Bodies :
             client' = [client EXCEPT ![c] = Sent(op, Null, b)]
       \/ \E b \in Bodies \cup {Null} :
             /\ client[c].copy # Null
             /\ client' = [client EXCEPT ![c] = Sent("update", @.copy, b)]
    /\ UNCHANGED <<served, entity, written, entry, loads>>

IsAt(c, op, stage) == client[c].op = op /\ client[c].stage = stage

Step(c, stage) == client' = [client EXCEPT ![c].stage = stage]

AnswersClient(c, copy) == client' = [client EXCEPT ![c] = IdleClient(copy)]

-----------------------------------------------------------------------------
(* Reading *)

RowCopy(r) == [version |-> r.version, body |-> r.body]

\* mapAgent(row, nil)
BareCopy(r) == [version |-> r.version, body |-> IF Agent THEN Absent ELSE r.body]

NewLoad == [stage |-> "row", copy |-> Null]

\* The entry is served; where it soon expires a load of its own renews it.
CacheHit(c) ==
    /\ IsAt(c, "get", "sent") /\ entry # Null
    /\ AnswersClient(c, entry)
    /\ loads' \in {loads, [loads EXCEPT !["refresh"] = IF @ = Null THEN NewLoad ELSE @]}
    /\ UNCHANGED <<served, entity, written, entry>>

\* No entry, or the cache cannot be read: wait for the load, and begin it if
\* nobody has.
CacheMiss(c) ==
    /\ IsAt(c, "get", "sent")
    /\ Step(c, "waits")
    /\ loads' = [loads EXCEPT !["miss"] = IF @ = Null THEN NewLoad ELSE @]
    /\ UNCHANGED <<served, entity, written, entry>>

GetOrSet(c) == CacheHit(c) \/ CacheMiss(c)

\* Whoever waits for the load gets what it has come to.
Resolve(f, copy) ==
    /\ loads' = [loads EXCEPT ![f] = Null]
    /\ client' = [c \in Clients |->
          IF f = "miss" /\ IsAt(c, "get", "waits") THEN IdleClient(copy) ELSE client[c]]

LoadIs(f, stage) ==
    /\ loads[f] # Null /\ loads[f].stage = stage
    /\ UNCHANGED <<served, entity, written>>

LoadRow(f) ==
    /\ LoadIs(f, "row")
    /\ entity # Null /\ entity.on
    /\ loads' = [loads EXCEPT ![f] =
          IF Agent THEN [stage |-> "skills", copy |-> BareCopy(entity)]
                   ELSE [stage |-> "loaded", copy |-> RowCopy(entity)]]
    /\ UNCHANGED <<entry, client>>

LoadSkills(f) ==
    /\ LoadIs(f, "skills")
    /\ loads' = [loads EXCEPT ![f] = [stage |-> "loaded", copy |-> [@.copy EXCEPT !.body = entity.body]]]
    /\ UNCHANGED <<entry, client>>

LoadSkillsFirst(f) ==
    \/ /\ LoadIs(f, "row")
       /\ entity # Null /\ entity.on
       /\ loads' = [loads EXCEPT ![f] = [stage |-> "skills", copy |-> RowCopy(entity)]]
       /\ UNCHANGED <<entry, client>>
    \/ /\ LoadIs(f, "skills")
       /\ loads' = [loads EXCEPT ![f] =
             [stage |-> "loaded", copy |-> [@.copy EXCEPT !.version = entity.version]]]
       /\ UNCHANGED <<entry, client>>

\* A row first, and then its skills, which may be newer.
LoadAgent(f) == LoadRow(f) \/ LoadSkills(f)

\* Nothing is put in the cache for a row that is not there, or is disabled, nor
\* if the load fails.
LoadFails(f) ==
    /\ loads[f] # Null
    /\ Resolve(f, Null)
    /\ UNCHANGED <<served, entity, written, entry>>

\* The entry is written, unless the cache fails.
SetEntry(f) ==
    /\ LoadIs(f, "loaded")
    /\ entry' \in {loads[f].copy, entry}
    /\ Resolve(f, loads[f].copy)

Load(f) ==
    \/ IF Agent THEN LoadAgent(f) ELSE LoadRow(f)
    \/ LoadFails(f) \/ SetEntry(f)

EntryExpires ==
    /\ entry # Null
    /\ entry' = Null
    /\ UNCHANGED <<served, entity, written, loads, client>>

-----------------------------------------------------------------------------
(* Writing *)

Row(version, on, body) == [version |-> version, on |-> on, body |-> body]

\* What the write of client c makes of the row: a body it omits stays as it is.
NextRow(c, on) ==
    Row(entity.version + 1, on, IF client[c].body = Null THEN entity.body ELSE client[c].body)

\* An agent's row and skills, and an import's chunk, are written in a
\* transaction that holds the row's lock; the others in one statement.
Write(c, row, inTransaction) ==
    /\ written = Null
    /\ IF inTransaction
       THEN written' = [by |-> c, row |-> row] /\ UNCHANGED entity
       ELSE entity' = row /\ UNCHANGED written
    /\ client' = [client EXCEPT ![c].seen = row,
                                ![c].stage = IF inTransaction THEN "written" ELSE "committed"]
    /\ UNCHANGED <<served, entry, loads>>

\* The insert waits for another's of the same code, and is refused if there is one.
Create(c) ==
    /\ IsAt(c, "create", "sent")
    /\ \/ /\ entity = Null
          /\ \E on \in BOOLEAN : Write(c, Row(1, on, client[c].body), Agent)
       \/ /\ entity # Null
          /\ AnswersClient(c, Null)
          /\ UNCHANGED <<served, entity, written, entry, loads>>

\* A body that names the code: the row is read to compare it.
ReadStored(c) ==
    /\ IsAt(c, "update", "sent") /\ client[c].seen = Null /\ entity # Null
    /\ client' = [client EXCEPT ![c].seen = entity]
    /\ UNCHANGED <<served, entity, written, entry, loads>>

\* UPDATE ... WHERE version = expected, which waits for the row's lock and then
\* looks again.
UpdateRow(c) ==
    /\ IsAt(c, "update", "sent") /\ entity # Null
    /\ entity.version = client[c].copy.version /\ entity.version < MaxRowVersion
    /\ \E on \in BOOLEAN : Write(c, NextRow(c, on), Agent)

\* Zero rows: the answer is a conflict with the row read before, or now.
Mismatch(c) ==
    /\ IsAt(c, "update", "sent") /\ entity # Null
    /\ entity.version # client[c].copy.version
    /\ client' = [client EXCEPT ![c].stage = "conflict", ![c].seen = IF @ = Null THEN entity ELSE @]
    /\ UNCHANGED <<served, entity, written, entry, loads>>

Update(c) == ReadStored(c) \/ UpdateRow(c) \/ Mismatch(c)

\* A soft delete keeps the version.
DeleteRow(c) ==
    /\ IsAt(c, "delete", "sent")
    /\ IF entity # Null /\ entity.on
       THEN Write(c, [entity EXCEPT !.on = FALSE], FALSE)
       ELSE AnswersClient(c, Null) /\ UNCHANGED <<served, entity, written, entry, loads>>

\* Upsert by code, whatever the version; an agent's skills are merged.
Import(c) ==
    /\ IsAt(c, "import", "sent")
    /\ entity # Null => entity.version < MaxRowVersion
    /\ \E on \in BOOLEAN :
          Write(c, IF entity = Null THEN Row(1, on, client[c].body) ELSE NextRow(c, on), TRUE)

Commit(c) ==
    /\ client[c].stage = "written"
    /\ entity' = written.row /\ written' = Null
    /\ Step(c, "committed")
    /\ UNCHANGED <<served, entry, loads>>

\* The entry goes after the commit, and on a conflict; unless the cache fails.
Del(c) ==
    /\ client[c].stage \in {"committed", "conflict"}
    /\ entry' \in {Null, entry}
    /\ CASE client[c].op \in {"delete", "import"} -> AnswersClient(c, Null)
         [] client[c].stage = "committed" /\ client[c].op = "update" /\ Agent -> Step(c, "reload")
         [] OTHER -> AnswersClient(c, BareCopy(client[c].seen))
    /\ UNCHANGED <<served, entity, written, loads>>

\* An updated agent is answered with its skills as they are now; they are left
\* out if they cannot be read.
Reload(c) ==
    /\ client[c].stage = "reload"
    /\ \E body \in {entity.body, Absent} :
          AnswersClient(c, [version |-> client[c].seen.version, body |-> body])
    /\ UNCHANGED <<served, entity, written, entry, loads>>

\* A request is refused, and a transaction rolled back.
Refuse(c) ==
    /\ client[c].op # "get" /\ client[c].stage \in {"sent", "written"}
    /\ written' = IF client[c].stage = "written" THEN Null ELSE written
    /\ AnswersClient(c, Null)
    /\ UNCHANGED <<served, entity, entry, loads>>

-----------------------------------------------------------------------------
ApiInit ==
    /\ served \in ApiKinds
    /\ entity = Null /\ written = Null /\ entry = Null
    /\ loads = [f \in {"miss", "refresh"} |-> Null]
    /\ client = [c \in Clients |-> IdleClient(Null)]

ApiNext ==
    \/ \E c \in Clients :
          \/ Ask(c) \/ GetOrSet(c)
          \/ Create(c) \/ Update(c) \/ DeleteRow(c) \/ Import(c)
          \/ Commit(c) \/ Del(c) \/ Reload(c) \/ Refuse(c)
    \/ \E f \in {"miss", "refresh"} : Load(f)
    \/ EntryExpires

ApiSpec == ApiInit /\ [][ApiNext]_apiVars

-----------------------------------------------------------------------------
(* Properties *)

\* Every copy that is about: with a client, whether idle or basing an update on
\* it, in the cache, and loaded.
Known ==
    {client[c].copy : c \in Clients} \cup {entry}
        \cup {loads[f].copy : f \in {g \in {"miss", "refresh"} :
                  loads[g] # Null /\ loads[g].stage = "loaded"}}

\* Who holds a copy at the row's version holds the body of that version, and
\* not one an earlier transaction wrote: an update the version check lets pass
\* then replaces the skills its author saw.  A copy may be older than the row, by
\* its version; and skills may be newer than the version they came with.
CopyIsOfItsVersion ==
    \A copy \in Known \ {Null} :
        copy.version = entity.version /\ copy.body # Absent => copy.body = entity.body

=============================================================================
