----------------------------- MODULE FlowPublish -----------------------------
(***************************************************************************)
(* Publishing a draft and rolling back, for the flows that share one entry *)
(* point: statements of several transactions, at read committed, on the    *)
(* drafts, the published versions and the bindings of the entry point.     *)
(*                                                                         *)
(* A statement acts on the rows that are committed when it begins; one     *)
(* that meets a row another transaction has written waits, and then looks  *)
(* at that row again, at no other.  An insert that meets the index entry   *)
(* of an open transaction waits for its end.  What a transaction has       *)
(* written stays with it until it commits.  Validation, which refuses a    *)
(* graph or not, and errors may end a request at any time.                 *)
(***************************************************************************)
EXTENDS Naturals, Sequences, FiniteSetsExt, ConsoleCommon

CONSTANTS
    Flows,            \* flows that are published to the entry point
    Publishers,       \* bound: requests at once
    FlowGraphs,       \* what a graph can be
    MaxDraftVersion,  \* bound: version of a draft
    MaxBindings       \* bound: bindings the entry point has had

ASSUME PublishAssumption ==
    /\ MaxDraftVersion \in Nat \ {0}
    /\ MaxBindings \in Nat
    /\ Null \notin Nat

VARIABLES
    draft,       \* of each row of flows: graph, version, whether it is enabled
    published,   \* rows of flow_versions, in the order of their commits
    binding,     \* rows of flow_entry_bindings, likewise: a version and a flag
    request      \* of each request: what it asks and how far it is

publishVars == <<draft, published, binding, request>>

-----------------------------------------------------------------------------
NoRequest == [op |-> "none", at |-> "idle", flow |-> Null, version |-> Null,
              expected |-> Null, graph |-> Null, number |-> Null, target |-> Null,
              row |-> Null]

To(t, stage) == request' = [request EXCEPT ![t].at = stage]

RefuseTransaction(t) ==
    /\ request' = [request EXCEPT ![t] = NoRequest]
    /\ UNCHANGED <<draft, published, binding>>

\* The row lock of LockFlowForPublish is held until the transaction ends.
DraftLocked(f) ==
    \E t \in Publishers : /\ request[t].op = "publish" /\ request[t].flow = f
                          /\ request[t].at \in {"locked", "numbered", "waiting",
                                                "flipped", "bound"}

\* The binding a transaction has deactivated is its own until then.
RowTaken(i) == \E t \in Publishers : /\ request[t].at \in {"flipped", "bound"}
                                     /\ request[t].row = i

NumbersOf(f, rows) == {rows[i].number : i \in {j \in DOMAIN rows : rows[j].flow = f}}

Actives(rows) == {i \in DOMAIN rows : rows[i].active}

-----------------------------------------------------------------------------
(* The drafts' other writers *)

\* Every update advances the version; what it turns off or on counts as one.
UpdateFlow(f) ==
    /\ ~DraftLocked(f)
    /\ draft[f].version < MaxDraftVersion
    /\ \E g \in FlowGraphs, on \in BOOLEAN :
         draft' = [draft EXCEPT ![f] = [graph |-> g, version |-> @.version + 1, on |-> on]]
    /\ UNCHANGED <<published, binding, request>>

SoftDeleteFlow(f) ==
    /\ ~DraftLocked(f)
    /\ draft[f].on
    /\ draft' = [draft EXCEPT ![f].on = FALSE]
    /\ UNCHANGED <<published, binding, request>>

-----------------------------------------------------------------------------
(* A publish, up to its version *)

\* The draft is read and compiled before the transaction.
PublishFlow(t) ==
    /\ request[t].op = "none"
    /\ Len(binding) < MaxBindings
    /\ \E f \in Flows, expected \in {Null} \cup DOMAIN published :
         /\ draft[f].on
         /\ request' = [request EXCEPT ![t] =
              [NoRequest EXCEPT !.op = "publish", !.at = "compiled", !.flow = f,
                                !.version = draft[f].version, !.graph = draft[f].graph,
                                !.expected = expected]]
    /\ UNCHANGED <<draft, published, binding>>

\* Bug: the row is locked, and its version is not compared again.
DraftStands(t) == draft[request[t].flow].on

\* The draft is what was compiled, and not deleted since.
DraftIsCurrent(t) ==
    LET d == draft[request[t].flow] IN d.on /\ d.version = request[t].version

LockFlowForPublish(t) ==
    /\ request[t].op = "publish"
    /\ request[t].at = "compiled"
    /\ ~DraftLocked(request[t].flow)
    /\ IF DraftIsCurrent(t) THEN To(t, "locked")
       ELSE request' = [request EXCEPT ![t] = NoRequest]
    /\ UNCHANGED <<draft, published, binding>>

\* The next number of the flow; its transactions come one at a time.
InsertFlowVersion(t) ==
    /\ request[t].at = "locked"
    /\ request' = [request EXCEPT ![t].at = "numbered",
          ![t].number = 1 + Max({0} \cup NumbersOf(request[t].flow, published))]
    /\ UNCHANGED <<draft, published, binding>>

-----------------------------------------------------------------------------
(* A rollback, up to the same point: no lock on the draft, no look at it *)

RollbackFlow(t) ==
    /\ request[t].op = "none"
    /\ Len(binding) < MaxBindings
    /\ \E target \in DOMAIN published, expected \in {Null} \cup DOMAIN published :
         request' = [request EXCEPT ![t] =
              [NoRequest EXCEPT !.op = "rollback", !.at = "numbered",
                                !.flow = published[target].flow,
                                !.target = target, !.expected = expected]]
    /\ UNCHANGED <<draft, published, binding>>

-----------------------------------------------------------------------------
(* bindActive *)

\* The rows the deactivation is about: the active one, of the version expected.
Sought(t) ==
    {i \in Actives(binding) : request[t].expected \in {Null, binding[i].version}}

\* None was deactivated: a conflict if one was expected.
NoneFlipped(t) ==
    IF request[t].expected = Null THEN To(t, "flipped")
    ELSE request' = [request EXCEPT ![t] = NoRequest]

DeactivateBinding(t) ==
    /\ request[t].at = "numbered"
    /\ IF Sought(t) = {} THEN NoneFlipped(t)
       ELSE LET i == CHOOSE j \in Sought(t) : TRUE
            IN  request' = [request EXCEPT ![t].row = i,
                             ![t].at = IF RowTaken(i) THEN "waiting" ELSE "flipped"]
    /\ UNCHANGED <<draft, published, binding>>

\* The other transaction has ended: the row it had is looked at again.
DeactivateAfterWait(t) ==
    /\ request[t].at = "waiting"
    /\ ~RowTaken(request[t].row)
    /\ IF request[t].row \in Sought(t) THEN To(t, "flipped")
       ELSE IF request[t].expected = Null
            THEN request' = [request EXCEPT ![t].row = Null, ![t].at = "flipped"]
            ELSE request' = [request EXCEPT ![t] = NoRequest]
    /\ UNCHANGED <<draft, published, binding>>

\* ux_flow_bindings_active: wait for whoever may free or take the place, and give
\* way to an active row that is not one's own to replace.
InsertActiveBinding(t) ==
    /\ request[t].at = "flipped"
    /\ \A u \in Publishers \ {t} : /\ request[u].at # "bound"
                                   /\ request[u].at = "flipped" => request[u].row = Null
    /\ IF Actives(binding) \subseteq {request[t].row} THEN To(t, "bound")
       ELSE request' = [request EXCEPT ![t] = NoRequest]
    /\ UNCHANGED <<draft, published, binding>>

CommitBinding(t) ==
    LET r == request[t]
        id == IF r.op = "publish" THEN Len(published) + 1 ELSE r.target
        rest == [i \in DOMAIN binding |-> IF i = r.row
                   THEN [binding[i] EXCEPT !.active = FALSE] ELSE binding[i]]
    IN  /\ r.at = "bound"
        /\ published' = IF r.op # "publish" THEN published
             ELSE Append(published, [flow |-> r.flow, number |-> r.number, graph |-> r.graph])
        /\ binding' = Append(rest, [version |-> id, active |-> TRUE])
        /\ request' = [request EXCEPT ![t] = NoRequest]
        /\ UNCHANGED draft

\* An invalid graph, an error, a client that is gone: everything is undone.
GiveUp(t) == request[t].op # "none" /\ RefuseTransaction(t)

-----------------------------------------------------------------------------
PublishInit ==
    /\ draft \in [Flows -> {[graph |-> g, version |-> 1, on |-> TRUE] : g \in FlowGraphs}]
    /\ published = <<>>
    /\ binding = <<>>
    /\ request = [t \in Publishers |-> NoRequest]

BindActive(t) ==
    \/ DeactivateBinding(t)
    \/ DeactivateAfterWait(t)
    \/ InsertActiveBinding(t)
    \/ CommitBinding(t)

PublishNext ==
    \/ \E f \in Flows : UpdateFlow(f)
    \/ \E f \in Flows : SoftDeleteFlow(f)
    \/ \E t \in Publishers : PublishFlow(t) \/ LockFlowForPublish(t) \/ InsertFlowVersion(t)
    \/ \E t \in Publishers : RollbackFlow(t)
    \/ \E t \in Publishers : BindActive(t)
    \/ \E t \in Publishers : GiveUp(t)

PublishSpec == PublishInit /\ [][PublishNext]_publishVars

-----------------------------------------------------------------------------
\* Whatever publishes and rollbacks meet on an entry point, one that commits has
\* replaced what its caller expected to replace, leaves exactly its own binding
\* active, and, if it publishes, publishes the draft as it then stands, under a
\* number that its flow has not used.
PublishTakesEffectOnWhatItSaw ==
    [][\A t \in Publishers : binding' # binding /\ request'[t] # request[t] =>
        LET r == request[t]
        IN  /\ Actives(binding') = {Len(binding')}
            /\ r.expected # Null =>
                 \E i \in Actives(binding) : binding[i].version = r.expected
            /\ r.op = "publish" =>
                 /\ draft[r.flow].on
                 /\ draft[r.flow].graph = r.graph
                 /\ r.number \notin NumbersOf(r.flow, published)]_publishVars
=============================================================================
