--------------------------- MODULE Console_proofs ---------------------------
(* The proofs about the other screens of the console.  Each part is about one
   module; none uses another's. *)
EXTENDS AgentStatus, RouteTester, FlowBuilder, CatalogShell, FlowCanvas, SequenceTheorems,
        WellFoundedInduction, TLAPS

-----------------------------------------------------------------------------
(***************************************************************************)
(* The status pages, for any statuses the others give the agent, any       *)
(* number of polls that are out and any order of their answers: a move     *)
(* without force takes an edge of the matrix from the status the row has   *)
(* when it is written, and the board never shows an older row after a      *)
(* newer one.                                                              *)
(***************************************************************************)

-----------------------------------------------------------------------------
(* Shapes *)

StatusRow == [version : Nat, status : AgentStatuses]

MaybeRow == StatusRow \cup {Null}

Watch ==
    [kind : {"panel", "board"}, shown : MaybeRow, loading : BOOLEAN,
     conflict : BOOLEAN, transitioning : BOOLEAN, polling : BOOLEAN, hidden : BOOLEAN]

Get == [then : {"none", "resume", "settle"}, reply : MaybeRow]

Patch ==
    [to : AgentStatuses, force : BOOLEAN,
     stage : {"sent", "read", "updated", "answered"},
     from : AgentStatuses \cup {Null}, row : MaybeRow,
     reply : {"ok", "conflict", "error", Null}]

StatusTypeOK ==
    /\ agent \in StatusRow
    /\ cache \in MaybeRow
    /\ watch \in Watch
    /\ gets \in [1..MaxGets -> Get \cup {Null}]
    /\ patch \in Patch \cup {Null}

\* A move whose edge has been checked is an edge, from the status that was read.
CheckedEdge ==
    (Patching("read") /\ ~patch.force) =>
        patch.from \in AgentStatuses /\ patch.to \in matrix[patch.from]

StatusInv == StatusTypeOK /\ CheckedEdge

-----------------------------------------------------------------------------
(* Requests *)

LEMMA NewGetType ==
    ASSUME NEW then \in {"none", "resume", "settle"}
    PROVE  NewGet(then) \in Get
BY DEF NewGet, Get, MaybeRow

\* A read that is sent takes a free place.
LEMMA GetsType ==
    ASSUME StatusTypeOK, NEW then \in {"none", "resume", "settle"}, Gets(then)
    PROVE  gets' \in [1..MaxGets -> Get \cup {Null}]
BY NewGetType DEF Gets, StatusTypeOK

\* A move that is sent has not been checked.
LEMMA PatchStatusKeeps ==
    ASSUME StatusInv, NEW to \in AgentStatuses, NEW force \in BOOLEAN,
           patchStatus(to, force)
    PROVE  StatusInv'
<1> DEFINE new == [to |-> to, force |-> force, stage |-> "sent", from |-> Null,
                   row |-> Null, reply |-> Null]
<1>1. patch' = new /\ UNCHANGED <<agent, cache, gets>>
  BY DEF patchStatus
<1>2. new \in Patch /\ new.stage = "sent"
  BY DEF Patch, MaybeRow
<1>3. watch' \in Watch
  BY DEF patchStatus, StatusInv, StatusTypeOK, Watch
<1> HIDE DEF new
<1> QED
  BY <1>1, <1>2, <1>3 DEF StatusInv, StatusTypeOK, CheckedEdge, Patching

\* A step of a page that sends no move.
LEMMA PageKeeps ==
    ASSUME StatusInv, UNCHANGED <<agent, cache, patch>>, watch' \in Watch,
           gets' \in [1..MaxGets -> Get \cup {Null}]
    PROVE  StatusInv'
BY DEF StatusInv, StatusTypeOK, CheckedEdge, Patching

\* A move that is done with, or is where no check counts.
LEMMA PatchKeeps ==
    ASSUME StatusInv, agent' \in StatusRow, cache' \in MaybeRow, watch' \in Watch,
           gets' \in [1..MaxGets -> Get \cup {Null}],
           patch' \in Patch, patch'.stage # "read"
    PROVE  StatusInv'
BY DEF StatusInv, StatusTypeOK, CheckedEdge, Patching

LEMMA NoPatchKeeps ==
    ASSUME StatusInv, UNCHANGED <<agent, cache>>, watch' \in Watch,
           gets' \in [1..MaxGets -> Get \cup {Null}], patch' = Null
    PROVE  StatusInv'
BY DEF StatusInv, StatusTypeOK, CheckedEdge, Patching

-----------------------------------------------------------------------------
(* The server *)

LEMMA PatchFields ==
    ASSUME StatusInv, patch # Null
    PROVE  patch \in Patch
BY DEF StatusInv, StatusTypeOK

LEMMA RepliedKeeps ==
    ASSUME StatusInv, patch # Null, NEW reply \in {"ok", "conflict", "error"},
           Replied(reply), agent' \in StatusRow, cache' \in MaybeRow,
           UNCHANGED <<watch, gets>>
    PROVE  StatusInv'
<1>1. patch' \in Patch /\ patch'.stage = "answered"
  BY PatchFields DEF Replied, Patch
<1> QED
  BY <1>1, PatchKeeps DEF StatusInv, StatusTypeOK

LEMMA MovedType ==
    ASSUME StatusInv, NEW to \in AgentStatuses, Moved(to)
    PROVE  agent' \in StatusRow
BY DEF StatusInv, StatusTypeOK, StatusRow, Moved

\* The check and the update of a move.
LEMMA PatchAgentStatusKeeps == StatusInv /\ PatchAgentStatus => StatusInv'
<1> SUFFICES ASSUME StatusInv, PatchAgentStatus PROVE StatusInv'
  OBVIOUS
<1>1. /\ agent \in StatusRow /\ cache \in MaybeRow /\ watch \in Watch
      /\ gets \in [1..MaxGets -> Get \cup {Null}]
      /\ patch \in Patch /\ patch # Null
  BY PatchFields DEF PatchAgentStatus, PatchRead, PatchUpdate, PatchMisses, PatchDone,
                     PatchFails, Patching, StatusInv, StatusTypeOK
<1>2. CASE PatchRead
  <2>1. CASE patch.force \/ validateTransition(agent.status, patch.to)
    <3>1. /\ patch' = [patch EXCEPT !.stage = "read", !.from = agent.status]
          /\ UNCHANGED <<agent, cache, watch, gets>>
      BY <1>2, <2>1 DEF PatchRead
    <3>2. /\ patch' \in Patch /\ patch'.to = patch.to /\ patch'.force = patch.force
          /\ patch'.from = agent.status /\ agent.status \in AgentStatuses
      BY <1>1, <3>1 DEF Patch, StatusRow
    <3> QED
      BY <1>1, <2>1, <3>1, <3>2
         DEF StatusInv, StatusTypeOK, CheckedEdge, validateTransition
  <2>2. CASE ~(patch.force \/ validateTransition(agent.status, patch.to))
    BY <1>1, <1>2, <2>2, RepliedKeeps DEF PatchRead
  <2> QED
    BY <2>1, <2>2
<1>3. CASE PatchUpdate
  <2>1. patch.to \in AgentStatuses
    BY <1>1 DEF Patch
  <2>2. agent' \in StatusRow
    BY <1>3, <2>1, MovedType DEF PatchUpdate
  <2>3. patch' \in Patch /\ patch'.stage = "updated"
    BY <1>1, <1>3, <2>2 DEF PatchUpdate, Patch, MaybeRow
  <2> QED
    BY <1>1, <1>3, <2>2, <2>3, PatchKeeps DEF PatchUpdate
<1>4. CASE PatchMisses
  BY <1>1, <1>4, RepliedKeeps DEF PatchMisses, MaybeRow
<1>5. CASE PatchDone
  BY <1>1, <1>5, RepliedKeeps DEF PatchDone, MaybeRow
<1>6. CASE PatchFails
  BY <1>1, <1>6, RepliedKeeps DEF PatchFails
<1> QED
  BY <1>2, <1>3, <1>4, <1>5, <1>6 DEF PatchAgentStatus

\* A read is answered from the cache or with the row.
LEMMA GetAgentStatusKeeps == StatusInv /\ GetAgentStatus => StatusInv'
<1> SUFFICES ASSUME StatusInv, GetAgentStatus PROVE StatusInv'
  OBVIOUS
<1>1. /\ agent \in MaybeRow /\ cache \in MaybeRow
      /\ gets \in [1..MaxGets -> Get \cup {Null}]
  BY DEF StatusInv, StatusTypeOK, MaybeRow
<1> DEFINE row == IF cache = Null THEN agent ELSE cache
<1>2. row \in MaybeRow
  BY <1>1
<1>3. cache' = row /\ UNCHANGED <<agent, watch, patch>>
  BY DEF GetAgentStatus
<1>4. PICK g \in 1..MaxGets : gets[g] # Null /\ gets' = [gets EXCEPT ![g].reply = row]
  BY <1>1 DEF GetAgentStatus
<1> HIDE DEF row
<1>5. [gets[g] EXCEPT !.reply = row] \in Get
  BY <1>1, <1>2, <1>4 DEF Get
<1>6. gets' \in [1..MaxGets -> Get \cup {Null}]
  BY <1>1, <1>4, <1>5
<1> QED
  BY <1>2, <1>3, <1>6 DEF StatusInv, StatusTypeOK, CheckedEdge, Patching

-----------------------------------------------------------------------------
(* The pages *)

\* Opening the page again forgets its reads.
LEMMA NavigateKeeps == StatusInv /\ StatusNavigate => StatusInv'
<1> SUFFICES ASSUME StatusInv, StatusNavigate PROVE StatusInv'
  OBVIOUS
<1>1. watch' \in Watch
  BY DEF StatusNavigate, NewWatch, StatusInv, StatusTypeOK, Watch, MaybeRow
<1>2. gets' \in [1..MaxGets -> Get \cup {Null}]
  BY NewGetType DEF StatusNavigate, FirstGet, StatusInv, StatusTypeOK
<1> QED
  BY <1>1, <1>2, PageKeeps DEF StatusNavigate

LEMMA PanelTakesType ==
    ASSUME StatusInv, NEW row \in MaybeRow
    PROVE  PanelTakes(row) \in Watch
BY DEF PanelTakes, StatusInv, StatusTypeOK, Watch, MaybeRow

\* The panel's timers, buttons and dialogs.
LEMMA PanelKeeps == StatusInv /\ PanelScreen => StatusInv'
<1> SUFFICES ASSUME StatusInv, PanelScreen PROVE StatusInv'
  OBVIOUS
<1>1. watch \in Watch /\ gets \in [1..MaxGets -> Get \cup {Null}]
  BY DEF StatusInv, StatusTypeOK
<1>2. CASE StatusNavigate
  BY <1>2, NavigateKeeps
<1>3. CASE handleVisibilityChange
  <2>1. watch' \in Watch /\ UNCHANGED <<agent, cache, patch>>
    BY <1>1, <1>3 DEF handleVisibilityChange, Sees, Watch
  <2>2. gets' \in [1..MaxGets -> Get \cup {Null}]
    BY <1>1, <1>3, GetsType DEF handleVisibilityChange, Sees, StatusInv
  <2> QED
    BY <2>1, <2>2, PageKeeps
<1>4. CASE PollTimer \/ WrapupOver
  BY <1>1, <1>4, GetsType, PageKeeps DEF PollTimer, WrapupOver, fetchStatus, StatusInv
<1>5. CASE ConflictAcknowledged
  <2>1. watch' \in Watch
    BY <1>1, <1>5 DEF ConflictAcknowledged, Watch
  <2> QED
    BY <1>5, <2>1, GetsType, PageKeeps DEF ConflictAcknowledged, StatusInv
<1>6. CASE renderTransitionButtons
  <2>1. {"Ready", "NotReady", "Break", "Engaged"} \subseteq AgentStatuses
    BY DEF AgentStatuses
  <2>2. CASE renderBreakPicker
    BY <2>1, <2>2, PatchStatusKeeps DEF renderBreakPicker
  <2>3. CASE ~renderBreakPicker
    <3>1. PICK to \in {"Ready", "NotReady", "Engaged"} : patchStatus(to, FALSE)
      BY <1>6, <2>3 DEF renderTransitionButtons
    <3> QED
      BY <2>1, <3>1, PatchStatusKeeps
  <2> QED
    BY <2>2, <2>3
<1>7. CASE renderForceFlagSection
  <2>1. ForceTargets \subseteq AgentStatuses
    BY StatusAssumption DEF AgentStatuses
  <2> QED
    BY <1>7, <2>1, PatchStatusKeeps DEF renderForceFlagSection
<1> QED
  BY <1>2, <1>3, <1>4, <1>5, <1>6, <1>7 DEF PanelScreen

\* The board's timer and its quick actions.
LEMMA BoardKeeps == StatusInv /\ BoardScreen => StatusInv'
<1> SUFFICES ASSUME StatusInv, BoardScreen PROVE StatusInv'
  OBVIOUS
<1>1. watch \in Watch
  BY DEF StatusInv, StatusTypeOK
<1>2. CASE fetchStatus
  BY <1>1, <1>2, GetsType, PageKeeps DEF fetchStatus, StatusInv
<1>3. CASE StatusNavigate
  BY <1>3, NavigateKeeps
<1>4. CASE renderQuickActions /\ ~StatusNavigate
  <2>1. {"Ready", "NotReady"} \subseteq AgentStatuses
    BY DEF AgentStatuses
  <2>2. \E to \in {"Ready", "NotReady"}, force \in BOOLEAN : patchStatus(to, force)
    BY <1>4 DEF renderQuickActions
  <2> QED
    BY <2>1, <2>2, PatchStatusKeeps
<1> QED
  BY <1>2, <1>3, <1>4 DEF BoardScreen

\* The answers to reads.
LEMMA FetchedKeeps ==
    ASSUME StatusInv, NEW g \in DOMAIN gets,
           PanelFetched(g) \/ startPolling(g) \/ BoardFetched(g)
    PROVE  StatusInv'
<1>1. /\ g \in 1..MaxGets /\ gets[g] \in Get /\ gets[g].reply \in MaybeRow
      /\ watch \in Watch
      /\ UNCHANGED <<agent, cache, patch>>
  BY DEF StatusInv, StatusTypeOK, PanelFetched, startPolling, BoardFetched, Received, Get
<1>2. gets' \in [1..MaxGets -> Get \cup {Null}]
  BY <1>1, NewGetType DEF PanelFetched, startPolling, BoardFetched, StatusInv, StatusTypeOK
<1>3. watch' \in Watch
  <2>1. CASE PanelFetched(g)
    BY <1>1, <2>1, PanelTakesType DEF PanelFetched
  <2>2. CASE startPolling(g)
    <3>1. PanelTakes(gets[g].reply) \in Watch
      BY <1>1, PanelTakesType
    <3>2. watch' = [PanelTakes(gets[g].reply) EXCEPT !.polling = TRUE]
      BY <2>2 DEF startPolling
    <3> QED
      BY <3>1, <3>2 DEF Watch
  <2>3. CASE BoardFetched(g)
    BY <1>1, <2>3 DEF BoardFetched, Watch, MaybeRow
  <2> QED
    BY <2>1, <2>2, <2>3
<1> QED
  BY <1>1, <1>2, <1>3, PageKeeps

\* The answers to moves, or their loss.
LEMMA PatchedKeeps ==
    ASSUME StatusInv, PanelPatched \/ BoardPatched \/ PatchLost
    PROVE  StatusInv'
<1>1. /\ patch' = Null /\ UNCHANGED <<agent, cache>>
      /\ watch \in Watch /\ patch \in Patch
      /\ gets \in [1..MaxGets -> Get \cup {Null}]
  BY PatchFields DEF PanelPatched, BoardPatched, PatchLost, Patching, StatusInv, StatusTypeOK
<1>2. gets' \in [1..MaxGets -> Get \cup {Null}]
  BY <1>1, GetsType DEF PanelPatched, BoardPatched, PatchLost, StatusInv
<1>3. watch' \in Watch
  <2>1. CASE PanelPatched
    <3> DEFINE done == [watch EXCEPT !.transitioning = FALSE]
    <3>1. done \in Watch /\ patch.row \in MaybeRow
      BY <1>1 DEF Watch, Patch
    <3>2. watch' = CASE patch.reply = "ok" -> [done EXCEPT !.shown = patch.row]
                     [] patch.reply = "conflict" -> [done EXCEPT !.conflict = TRUE]
                     [] OTHER -> done
      BY <2>1 DEF PanelPatched
    <3> HIDE DEF done
    <3>3. /\ [done EXCEPT !.shown = patch.row] \in Watch
          /\ [done EXCEPT !.conflict = TRUE] \in Watch
      BY <3>1 DEF Watch
    <3> QED
      BY <3>1, <3>2, <3>3
  <2>2. CASE BoardPatched \/ PatchLost
    BY <1>1, <2>2 DEF BoardPatched, PatchLost, Watch
  <2> QED
    BY <2>1, <2>2
<1> QED
  BY <1>1, <1>2, <1>3, NoPatchKeeps

-----------------------------------------------------------------------------
\* Every step keeps the invariant.
LEMMA StatusNextKeeps == StatusInv /\ [StatusNext]_statusVars => StatusInv'
<1> SUFFICES ASSUME StatusInv, [StatusNext]_statusVars PROVE StatusInv'
  OBVIOUS
<1>1. CASE UNCHANGED statusVars
  BY <1>1 DEF statusVars, StatusInv, StatusTypeOK, CheckedEdge, Patching
<1>2. CASE PanelScreen \/ BoardScreen
  BY <1>2, PanelKeeps, BoardKeeps
<1>3. ASSUME NEW g \in DOMAIN gets, PanelFetched(g) \/ startPolling(g) \/ BoardFetched(g)
      PROVE  StatusInv'
  BY <1>3, FetchedKeeps
<1>4. CASE PanelPatched \/ BoardPatched \/ PatchLost
  BY <1>4, PatchedKeeps
<1>5. CASE GetAgentStatus \/ PatchAgentStatus
  BY <1>5, GetAgentStatusKeeps, PatchAgentStatusKeeps
<1>6. CASE CacheExpires
  BY <1>6 DEF CacheExpires, StatusInv, StatusTypeOK, CheckedEdge, Patching, MaybeRow
<1>7. CASE OthersMove
  <2>1. PICK to \in AgentStatuses : Moved(to)
    BY <1>7, StatusAssumption DEF OthersMove
  <2>2. agent' \in StatusRow
    BY <2>1, MovedType
  <2> QED
    BY <1>7, <2>2 DEF OthersMove, StatusInv, StatusTypeOK, CheckedEdge, Patching, MaybeRow
<1> QED
  BY <1>1, <1>2, <1>3, <1>4, <1>5, <1>6, <1>7 DEF StatusNext

THEOREM StatusInvariance == StatusSpec => []StatusInv
<1>1. StatusInit => StatusInv
  <2> SUFFICES ASSUME StatusInit PROVE StatusInv
    OBVIOUS
  <2>1. agent \in StatusRow /\ cache \in MaybeRow /\ patch = Null
    BY StatusAssumption DEF StatusInit, StatusRow, MaybeRow
  <2>2. watch \in Watch
    <3>1. NewWatch("panel") \in Watch /\ NewWatch("board") \in Watch
      BY DEF NewWatch, Watch, MaybeRow
    <3> QED
      BY <3>1 DEF StatusInit
  <2>3. gets \in [1..MaxGets -> Get \cup {Null}]
    BY NewGetType DEF StatusInit
  <2> QED
    BY <2>1, <2>2, <2>3 DEF StatusInv, StatusTypeOK, CheckedEdge, Patching
<1> QED
  BY <1>1, StatusNextKeeps, PTL DEF StatusSpec

\* The check reads the row before the transaction begins, and the update wants the
\* status that was read: whatever moves the agent in between, a move without
\* force takes an edge from the status the row has then.
THEOREM MovesFollowTheMatrix == StatusSpec => PatchFollowsTheMatrix
<1>1. StatusInv /\ [StatusNext]_statusVars =>
          [Patching("read") /\ patch'.stage = "updated" /\ ~patch.force
              => agent'.status \in matrix[agent.status]]_<<agent, patch>>
  <2> SUFFICES ASSUME StatusInv, [StatusNext]_statusVars, Patching("read"),
                      patch'.stage = "updated", ~patch.force
               PROVE  agent'.status \in matrix[agent.status]
    OBVIOUS
  <2>1. patch # Null /\ patch.stage = "read" /\ patch \in Patch
    BY PatchFields DEF Patching
  <2>2. patch' # patch
    BY <2>1
  <2>3. PatchAgentStatus
    BY <2>1, <2>2 DEF StatusNext, statusVars, PanelScreen, BoardScreen, StatusNavigate,
       handleVisibilityChange, PollTimer, WrapupOver, ConflictAcknowledged,
       renderTransitionButtons, renderBreakPicker, renderForceFlagSection,
       renderQuickActions, patchStatus, fetchStatus, Sees, PanelFetched, startPolling,
       BoardFetched, Received, PanelPatched, BoardPatched, PatchLost, Patching,
       GetAgentStatus, CacheExpires, OthersMove
  <2>4. PatchUpdate
    BY <2>1, <2>3 DEF PatchAgentStatus, PatchRead, PatchUpdate, PatchMisses, PatchDone,
       PatchFails, Patching, Replied, Patch
  <2>5. agent'.status = patch.to /\ patch.from = agent.status
    BY <2>1, <2>4 DEF PatchUpdate, Moved
  <2> QED
    BY <2>5 DEF StatusInv, CheckedEdge
<1> QED
  BY <1>1, StatusInvariance, PTL DEF StatusSpec, PatchFollowsTheMatrix

\* However polls, moves, the reads after them and the cache's older entries are
\* ordered, a line of the board is only ever replaced by a row as new.
THEOREM BoardOnlyAdvances == StatusSpec => BoardNeverGoesBack
<1>1. StatusInv /\ [StatusNext]_statusVars =>
          [Board /\ watch.shown # Null /\ watch'.shown # Null
              => watch'.shown.version >= watch.shown.version]_statusVars
  <2> SUFFICES ASSUME StatusInv, [StatusNext]_statusVars, Board,
                      watch.shown # Null, watch'.shown # Null
               PROVE  watch'.shown.version >= watch.shown.version
    OBVIOUS
  <2>1. watch \in Watch /\ watch.shown.version \in Nat
    BY DEF StatusInv, StatusTypeOK, Watch, MaybeRow, StatusRow
  <2>2. CASE watch'.shown = watch.shown
    BY <2>1, <2>2
  <2>3. ~Panel
    BY DEF Board, Panel
  <2>4. ASSUME NEW g \in DOMAIN gets, BoardFetched(g)
        PROVE  watch'.shown.version >= watch.shown.version
    <3> DEFINE reply == gets[g].reply
    <3>1. watch'.shown = IF reply # Null /\ reply.version >= watch.shown.version
                         THEN reply ELSE watch.shown
      BY <2>1, <2>4 DEF BoardFetched, Watch
    <3> QED
      BY <2>1, <3>1
  <2>5. CASE /\ watch'.shown # watch.shown
             /\ ~ \E g \in DOMAIN gets : BoardFetched(g)
    <3>1. ~StatusNavigate
      BY DEF StatusNavigate, NewWatch
    <3>2. \A to, force : ~patchStatus(to, force)
      BY <2>1, <2>5 DEF patchStatus, Watch
    <3>3. watch' # watch
      BY <2>5
    <3>4. ~BoardScreen
      BY <3>1, <3>2, <3>3 DEF BoardScreen, fetchStatus, renderQuickActions
    <3>5. ~BoardPatched /\ ~PatchLost
      BY <2>1, <2>5 DEF BoardPatched, PatchLost, Watch
    <3> QED
      BY <2>3, <2>5, <3>3, <3>4, <3>5 DEF StatusNext, statusVars, PanelScreen, PanelFetched,
         startPolling, PanelPatched, GetAgentStatus, CacheExpires, OthersMove,
         PatchAgentStatus, PatchRead, PatchUpdate, PatchMisses, PatchDone, PatchFails
  <2> QED
    BY <2>2, <2>4, <2>5
<1> QED
  BY <1>1, StatusInvariance, PTL DEF StatusSpec, BoardNeverGoesBack

-----------------------------------------------------------------------------
(***************************************************************************)
(* The route tester, for any number of routes, and of reads that are out   *)
(* and end in any order: one timer runs, the one the page can stop.  A     *)
(* timer is started only after the one before it was stopped, and the page *)
(* never follows a route it does not show.                                 *)
(***************************************************************************)

-----------------------------------------------------------------------------
(* Shapes *)

RouteRequest == [live : BOOLEAN, offer : BOOLEAN]

RouteShown == [id : Routes, live : BOOLEAN]

PostState == {"no", "out", "reads"}

Tester ==
    [open : BOOLEAN, entry : BOOLEAN, fetched : BOOLEAN, route : RouteShown \cup {Null},
     offer : BOOLEAN, creating : PostState, busy : PostState, submitting : PostState,
     intervals : SUBSET (1..4), handle : (1..4) \cup {Null}]

ReadOut ==
    [then : {"create", "resolve", "input", "poll"}, id : Routes, born : BOOLEAN,
     stage : {"sent", "read", "trace"}, answer : RouteRequest \cup {Null}]

Timed(t) == t.intervals = {t.handle} \ {Null}

\* Whoever has a button to press, or has pressed it, has a route.
Routed(t) ==
    t.offer \/ t.busy = "out" \/ t.submitting = "out" => t.route \in RouteShown

PageOK(t) == t \in Tester /\ Timed(t) /\ Routed(t)

TesterTypeOK ==
    /\ requests \in [Routes -> RouteRequest \cup {Null}]
    /\ tester \in Tester
    /\ reads \in [Reads -> ReadOut \cup {Null}]

TesterInv ==
    /\ TesterTypeOK
    /\ PageOK(tester)
    /\ \A r \in Reads : reads[r] # Null => tester.route \in RouteShown

-----------------------------------------------------------------------------
(* The timer *)

LEMMA StopKeeps ==
    ASSUME NEW t, PageOK(t)
    PROVE  /\ PageOK(stopPolling(t))
           /\ stopPolling(t).intervals = {} /\ stopPolling(t).handle = Null
           /\ stopPolling(t).route = t.route
BY TesterAssumption DEF PageOK, Timed, Routed, Tester, stopPolling

LEMMA StartKeeps ==
    ASSUME NEW t, PageOK(t)
    PROVE  PageOK(startRoutePolling(t)) /\ startRoutePolling(t).route = t.route
<1> DEFINE u == stopPolling(t)
           new == CHOOSE i \in 1..4 : i \notin u.intervals
<1>1. PageOK(u) /\ u.intervals = {} /\ u.route = t.route
  BY StopKeeps
<1>2. new \in 1..4
  <2>1. \E i \in 1..4 : i \notin u.intervals
    <3>1. 1 \in 1..4 /\ 1 \notin u.intervals
      BY <1>1
    <3> QED
      BY <3>1
  <2> QED
    BY <2>1, Zenon
<1>3. startRoutePolling(t) = [u EXCEPT !.intervals = @ \cup {new}, !.handle = new]
  BY Zenon DEF startRoutePolling, Started
<1> HIDE DEF u, new
<1>4. new # Null
  BY <1>2, TesterAssumption
<1> DEFINE v == [u EXCEPT !.intervals = @ \cup {new}, !.handle = new]
<1>5. /\ v \in Tester /\ v.intervals = {new} /\ v.handle = new
      /\ v.route = u.route /\ v.offer = u.offer /\ v.busy = u.busy
      /\ v.submitting = u.submitting
  BY <1>1, <1>2 DEF PageOK, Tester
<1> HIDE DEF v
<1>6. PageOK(v)
  BY <1>1, <1>4, <1>5 DEF PageOK, Timed, Routed
<1> QED
  BY <1>1, <1>3, <1>5, <1>6 DEF v

\* However a read ends, the page is sound, and shows the route it showed.
LEMMA FinallyKeeps ==
    ASSUME NEW t, PageOK(t), NEW read \in ReadOut
    PROVE  PageOK(Finally(t, read)) /\ Finally(t, read).route = t.route
BY DEF Finally, PageOK, Timed, Routed, Tester, PostState, ReadOut

LEMMA AfterReadKeeps ==
    ASSUME NEW t, PageOK(t), NEW read \in ReadOut
    PROVE  PageOK(AfterRead(t, read)) /\ AfterRead(t, read).route = t.route
<1> DEFINE u == IF read.answer # Null /\ ~read.answer.live THEN stopPolling(t) ELSE t
           starts == \/ read.then = "create" /\ read.born
                     \/ read.then \in {"resolve", "input"} /\ u.route.live /\ u.handle = Null
           v == IF starts THEN startRoutePolling(u) ELSE u
<1>1. PageOK(u) /\ u.route = t.route
  BY StopKeeps
<1>2. PageOK(v) /\ v.route = t.route
  <2> HIDE DEF u
  <2> QED
    BY <1>1, StartKeeps
<1>3. AfterRead(t, read) = Finally(v, read)
  BY Zenon DEF AfterRead
<1> HIDE DEF v
<1> QED
  BY <1>2, <1>3, FinallyKeeps

-----------------------------------------------------------------------------
(* Steps of the page *)

\* What a step of the page has to keep where the reads stay.
LEMMA PageStep ==
    ASSUME TesterInv, PageOK(tester'), tester.route \in RouteShown => tester'.route \in RouteShown,
           requests' \in [Routes -> RouteRequest \cup {Null}], UNCHANGED reads
    PROVE  TesterInv'
<1>1. tester' \in Tester
  BY DEF PageOK
<1> QED
  BY <1>1 DEF TesterInv, TesterTypeOK, PageOK, Timed, Routed

\* What it has to keep where a read is sent, goes on or ends.
LEMMA ReadStep ==
    ASSUME TesterInv, NEW t, PageOK(t), tester' = t, NEW r \in Reads,
           NEW read \in ReadOut \cup {Null}, reads' = [reads EXCEPT ![r] = read],
           tester.route \in RouteShown => t.route \in RouteShown,
           read # Null => t.route \in RouteShown,
           requests' \in [Routes -> RouteRequest \cup {Null}]
    PROVE  TesterInv'
<1>1. PageOK(t)' /\ t \in Tester
  BY DEF PageOK
<1>2. PageOK(tester')
  OBVIOUS
<1>3. reads' \in [Reads -> ReadOut \cup {Null}]
  BY DEF TesterInv, TesterTypeOK
<1>4. ASSUME NEW s \in Reads, reads'[s] # Null
      PROVE  tester'.route \in RouteShown
  BY <1>4 DEF TesterInv, TesterTypeOK
<1> QED
  BY <1>1, <1>2, <1>3, <1>4 DEF TesterInv, TesterTypeOK, PageOK, Timed, Routed

LEMMA ReadType ==
    ASSUME NEW then \in {"create", "resolve", "input", "poll"}, NEW id \in Routes,
           NEW born \in BOOLEAN
    PROVE  Read(then, id, born) \in ReadOut
BY DEF Read, ReadOut

\* TypeOK of the reads, of one that is out, and of its route.
LEMMA ReadIsOut ==
    ASSUME TesterInv, NEW r \in Reads, reads[r] # Null
    PROVE  reads[r] \in ReadOut /\ tester.route \in RouteShown
BY DEF TesterInv, TesterTypeOK

LEMMA RefreshReadKeeps ==
    ASSUME TesterInv, NEW r \in Reads, RefreshRead(r)
    PROVE  TesterInv'
<1>1. PICK answer \in {requests[reads[r].id], Null} :
        reads' = [reads EXCEPT ![r].stage = "read", ![r].answer = answer]
  BY DEF RefreshRead
<1>2. reads[r] \in ReadOut /\ tester.route \in RouteShown /\ UNCHANGED <<requests, tester>>
  BY ReadIsOut DEF RefreshRead
<1> DEFINE read == [reads[r] EXCEPT !.stage = "read", !.answer = answer]
<1>3. answer \in RouteRequest \cup {Null}
  BY <1>2 DEF TesterInv, TesterTypeOK, ReadOut
<1>4. read \in ReadOut
  BY <1>2, <1>3 DEF ReadOut
<1>5. reads' = [reads EXCEPT ![r] = read]
  BY <1>1, Zenon
<1> HIDE DEF read
<1>6. PageOK(tester) /\ requests \in [Routes -> RouteRequest \cup {Null}]
  BY DEF TesterInv, TesterTypeOK
<1> QED
  BY <1>2, <1>4, <1>5, <1>6, ReadStep

LEMMA RefreshShownKeeps ==
    ASSUME TesterInv, NEW r \in Reads, RefreshShown(r)
    PROVE  TesterInv'
<1> DEFINE answer == reads[r].answer
           shown == IF answer = Null THEN [tester EXCEPT !.offer = FALSE]
                    ELSE [tester EXCEPT !.route = [id |-> reads[r].id, live |-> answer.live],
                                        !.offer = answer.offer]
<1>1. reads[r] \in ReadOut /\ tester.route \in RouteShown /\ UNCHANGED requests
  BY ReadIsOut DEF RefreshShown
<1>2. PageOK(tester) /\ requests \in [Routes -> RouteRequest \cup {Null}]
  BY DEF TesterInv, TesterTypeOK
<1>3. PageOK(shown) /\ shown.route \in RouteShown
  <2>1. CASE answer = Null
    BY <1>1, <1>2, <2>1 DEF PageOK, Timed, Routed, Tester
  <2>2. CASE answer # Null
    <3>1. answer \in RouteRequest /\ reads[r].id \in Routes
      BY <1>1, <2>2 DEF ReadOut
    <3> DEFINE route == [id |-> reads[r].id, live |-> answer.live]
    <3>2. route \in RouteShown /\ answer.offer \in BOOLEAN
      BY <3>1 DEF RouteShown, RouteRequest
    <3>3. shown = [tester EXCEPT !.route = route, !.offer = answer.offer]
      BY <2>2
    <3> HIDE DEF route, shown, answer
    <3> QED
      BY <1>2, <3>2, <3>3 DEF PageOK, Timed, Routed, Tester
  <2> QED
    BY <2>1, <2>2
<1>4. \/ /\ tester' = shown
         /\ reads' = [reads EXCEPT ![r] = [reads[r] EXCEPT !.stage = "trace"]]
      \/ /\ tester' = AfterRead(shown, reads[r])
         /\ reads' = [reads EXCEPT ![r] = Null]
  BY Zenon DEF RefreshShown
<1> HIDE DEF shown
<1>5. CASE /\ tester' = shown
           /\ reads' = [reads EXCEPT ![r] = [reads[r] EXCEPT !.stage = "trace"]]
  <2>1. [reads[r] EXCEPT !.stage = "trace"] \in ReadOut
    BY <1>1 DEF ReadOut
  <2> QED
    BY <1>1, <1>2, <1>3, <1>5, <2>1, ReadStep
<1>6. CASE /\ tester' = AfterRead(shown, reads[r])
           /\ reads' = [reads EXCEPT ![r] = Null]
  <2>1. PageOK(AfterRead(shown, reads[r])) /\ AfterRead(shown, reads[r]).route \in RouteShown
    BY <1>1, <1>3, AfterReadKeeps
  <2> QED
    BY <1>1, <1>2, <1>6, <2>1, ReadStep
<1> QED
  BY <1>4, <1>5, <1>6

LEMMA TraceReadKeeps ==
    ASSUME TesterInv, NEW r \in Reads, TraceRead(r)
    PROVE  TesterInv'
<1>1. /\ reads[r] \in ReadOut /\ tester.route \in RouteShown /\ UNCHANGED requests
      /\ tester' = AfterRead(tester, reads[r]) /\ reads' = [reads EXCEPT ![r] = Null]
  BY ReadIsOut DEF TraceRead
<1>2. PageOK(tester) /\ requests \in [Routes -> RouteRequest \cup {Null}]
  BY DEF TesterInv, TesterTypeOK
<1>3. /\ PageOK(AfterRead(tester, reads[r]))
      /\ AfterRead(tester, reads[r]).route \in RouteShown
  BY <1>1, <1>2, AfterReadKeeps
<1> QED
  BY <1>1, <1>2, <1>3, ReadStep

LEMMA ReadThrowsKeeps ==
    ASSUME TesterInv, NEW r \in Reads, ReadThrows(r)
    PROVE  TesterInv'
<1>1. /\ reads[r] \in ReadOut /\ tester.route \in RouteShown /\ UNCHANGED requests
      /\ tester' = Finally(tester, reads[r]) /\ reads' = [reads EXCEPT ![r] = Null]
  BY ReadIsOut DEF ReadThrows
<1>2. PageOK(tester) /\ requests \in [Routes -> RouteRequest \cup {Null}]
  BY DEF TesterInv, TesterTypeOK
<1>3. PageOK(Finally(tester, reads[r])) /\ Finally(tester, reads[r]).route \in RouteShown
  BY <1>1, <1>2, FinallyKeeps
<1> QED
  BY <1>1, <1>2, <1>3, ReadStep

\* A read of a page is sent, of the route it then shows.
LEMMA RefreshKeeps ==
    ASSUME TesterInv, NEW t, PageOK(t), tester' = t, t.route \in RouteShown,
           NEW then \in {"create", "resolve", "input", "poll"}, NEW id \in Routes,
           NEW born \in BOOLEAN, RefreshRoute(Read(then, id, born)),
           requests' \in [Routes -> RouteRequest \cup {Null}]
    PROVE  TesterInv'
<1>1. PICK r \in Reads : reads' = [reads EXCEPT ![r] = Read(then, id, born)]
  BY DEF RefreshRoute
<1>2. Read(then, id, born) \in ReadOut \cup {Null}
  BY ReadType
<1> QED
  BY <1>1, <1>2, ReadStep

-----------------------------------------------------------------------------
(* Steps of the user, of the server, and answers to what is posted *)

\* What the invariant says of the page by itself.
LEMMA TesterIsSound ==
    ASSUME TesterInv
    PROVE  /\ PageOK(tester) /\ tester \in Tester
           /\ requests \in [Routes -> RouteRequest \cup {Null}]
           /\ \A id \in Routes : requests[id] # Null => requests[id] \in RouteRequest
BY DEF TesterInv, TesterTypeOK

LEMMA PollTickKeeps ==
    ASSUME TesterInv, PollTick
    PROVE  TesterInv'
<1>1. /\ tester.route \in RouteShown /\ UNCHANGED <<requests, tester>>
      /\ RefreshRoute(Read("poll", tester.route.id, FALSE))
  BY TesterIsSound DEF PollTick, Tester
<1>2. tester.route.id \in Routes
  BY <1>1 DEF RouteShown
<1> QED
  BY <1>1, <1>2, TesterIsSound, RefreshKeeps

LEMMA createRouteKeeps ==
    ASSUME TesterInv, createRoute
    PROVE  TesterInv'
<1> DEFINE u == stopPolling(tester)
           v == [u EXCEPT !.creating = "out", !.offer = FALSE]
<1>1. tester' = v /\ UNCHANGED <<requests, reads>>
  BY DEF createRoute
<1>2. PageOK(u) /\ u.route = tester.route
  BY TesterIsSound, StopKeeps
<1> HIDE DEF u
<1>3. PageOK(v) /\ v.route = tester.route
  BY <1>2 DEF PageOK, Timed, Routed, Tester, PostState
<1> HIDE DEF v
<1> QED
  BY <1>1, <1>3, TesterIsSound, PageStep

LEMMA disconnectedKeeps ==
    ASSUME TesterInv, disconnected
    PROVE  TesterInv'
<1> DEFINE u == stopPolling(tester)
           v == [u EXCEPT !.open = FALSE]
<1>1. tester' = v /\ UNCHANGED <<requests, reads>>
  BY DEF disconnected
<1>2. PageOK(u) /\ u.route = tester.route
  BY TesterIsSound, StopKeeps
<1> HIDE DEF u
<1>3. PageOK(v) /\ v.route = tester.route
  BY <1>2 DEF PageOK, Timed, Routed, Tester
<1> HIDE DEF v
<1> QED
  BY <1>1, <1>3, TesterIsSound, PageStep

\* The steps that change a flag of the page and nothing else.
LEMMA FlagStepKeeps ==
    ASSUME TesterInv,
           fetchBindings \/ selectBinding \/ resolve \/ submitInput \/ PostThrows
    PROVE  TesterInv'
<1>1. PageOK(tester') /\ tester'.route = tester.route
  <2>1. CASE fetchBindings \/ selectBinding
    BY <2>1, TesterIsSound DEF fetchBindings, selectBinding, PageOK, Timed, Routed, Tester
  <2>2. CASE resolve
    BY <2>2, TesterIsSound DEF resolve, PageOK, Timed, Routed, Tester, PostState
  <2>3. CASE submitInput
    BY <2>3, TesterIsSound DEF submitInput, PageOK, Timed, Routed, Tester, PostState
  <2>4. CASE PostThrows
    BY <2>4, TesterIsSound DEF PostThrows, PageOK, Timed, Routed, Tester, PostState
  <2> QED
    BY <2>1, <2>2, <2>3, <2>4
<1>2. UNCHANGED <<requests, reads>>
  BY DEF fetchBindings, selectBinding, resolve, submitInput, PostThrows
<1> QED
  BY <1>1, <1>2, TesterIsSound, PageStep

LEMMA CreateAnsweredKeeps ==
    ASSUME TesterInv, CreateAnswered
    PROVE  TesterInv'
<1>1. CASE \E live \in BOOLEAN, id \in Routes :
             /\ requests' = [requests EXCEPT ![id] = [live |-> live, offer |-> FALSE]]
             /\ tester' = [tester EXCEPT !.creating = "reads",
                                          !.route = [id |-> id, live |-> live]]
             /\ RefreshRoute(Read("create", id, live))
  <2>1. PICK live \in BOOLEAN, id \in Routes :
             /\ requests' = [requests EXCEPT ![id] = [live |-> live, offer |-> FALSE]]
             /\ tester' = [tester EXCEPT !.creating = "reads",
                                          !.route = [id |-> id, live |-> live]]
             /\ RefreshRoute(Read("create", id, live))
    BY <1>1
  <2> DEFINE route == [id |-> id, live |-> live]
             request == [live |-> live, offer |-> FALSE]
             v == [tester EXCEPT !.creating = "reads", !.route = route]
  <2>2. route \in RouteShown /\ request \in RouteRequest
    BY DEF RouteShown, RouteRequest
  <2>3. tester' = v /\ requests' = [requests EXCEPT ![id] = request]
    BY <2>1
  <2> HIDE DEF route, request
  <2>4. PageOK(v) /\ v.route \in RouteShown
    BY <2>2, TesterIsSound DEF PageOK, Timed, Routed, Tester, PostState
  <2>5. requests' \in [Routes -> RouteRequest \cup {Null}]
    BY <2>2, <2>3, TesterIsSound
  <2> HIDE DEF v
  <2> QED
    BY <2>1, <2>3, <2>4, <2>5, RefreshKeeps
<1>2. CASE tester' = [tester EXCEPT !.creating = "no"] /\ UNCHANGED <<requests, reads>>
  <2>1. PageOK(tester') /\ tester'.route = tester.route
    BY <1>2, TesterIsSound DEF PageOK, Timed, Routed, Tester, PostState
  <2> QED
    BY <1>2, <2>1, TesterIsSound, PageStep
<1> QED
  BY <1>1, <1>2 DEF CreateAnswered

LEMMA ResolveAnsweredKeeps ==
    ASSUME TesterInv, ResolveAnswered
    PROVE  TesterInv'
<1>1. PICK id \in Routes :
        /\ requests[id] # Null
        /\ \E request \in Resolved(requests[id]) : requests' = [requests EXCEPT ![id] = request]
  BY DEF ResolveAnswered
<1>2. PICK request \in Resolved(requests[id]) : requests' = [requests EXCEPT ![id] = request]
  BY <1>1
<1>3. request \in RouteRequest
  <2>1. requests[id] \in RouteRequest
    BY <1>1, TesterIsSound
  <2>2. Ended \in RouteRequest /\ [requests[id] EXCEPT !.offer = FALSE] \in RouteRequest
    BY <2>1 DEF Ended, RouteRequest
  <2> QED
    BY <1>2, <2>1, <2>2 DEF Resolved
<1>4. requests' \in [Routes -> RouteRequest \cup {Null}]
  BY <1>2, <1>3, TesterIsSound
<1> DEFINE v == [tester EXCEPT !.busy = "reads"]
<1>5. /\ tester' = v /\ tester.route \in RouteShown
      /\ RefreshRoute(Read("resolve", tester.route.id, FALSE))
  BY TesterIsSound DEF ResolveAnswered, PageOK, Routed
<1>6. PageOK(v) /\ v.route \in RouteShown
  BY <1>5, TesterIsSound DEF PageOK, Timed, Routed, Tester, PostState
<1>7. tester.route.id \in Routes
  BY <1>5 DEF RouteShown
<1> HIDE DEF v
<1> QED
  BY <1>4, <1>5, <1>6, <1>7, RefreshKeeps

LEMMA InputAnsweredKeeps ==
    ASSUME TesterInv, InputAnswered
    PROVE  TesterInv'
<1> DEFINE v == [tester EXCEPT !.submitting = "reads"]
<1>1. /\ tester' = v /\ tester.route \in RouteShown /\ UNCHANGED requests
      /\ RefreshRoute(Read("input", tester.route.id, FALSE))
  BY TesterIsSound DEF InputAnswered, PageOK, Routed
<1>2. PageOK(v) /\ v.route \in RouteShown
  BY <1>1, TesterIsSound DEF PageOK, Timed, Routed, Tester, PostState
<1>3. tester.route.id \in Routes
  BY <1>1 DEF RouteShown
<1> HIDE DEF v
<1> QED
  BY <1>1, <1>2, <1>3, TesterIsSound, RefreshKeeps

LEMMA ProceedsKeeps ==
    ASSUME TesterInv, Proceeds
    PROVE  TesterInv'
<1>1. PICK id \in Routes :
        /\ requests[id] # Null
        /\ requests' = [requests EXCEPT ![id] =
               IF @.offer THEN Ended ELSE [@ EXCEPT !.offer = TRUE]]
  BY DEF Proceeds
<1>2. requests[id] \in RouteRequest
  BY <1>1, TesterIsSound
<1>3. requests' \in [Routes -> RouteRequest \cup {Null}]
  BY <1>1, <1>2, TesterIsSound DEF Ended, RouteRequest
<1>4. UNCHANGED <<tester, reads>>
  BY DEF Proceeds
<1> QED
  BY <1>3, <1>4, TesterIsSound, PageStep

-----------------------------------------------------------------------------
\* Every step keeps the invariant.
LEMMA TesterNextKeeps == TesterInv /\ [TesterNext]_testerVars => TesterInv'
<1> SUFFICES ASSUME TesterInv, [TesterNext]_testerVars
             PROVE  TesterInv'
  OBVIOUS
<1>1. CASE fetchBindings \/ selectBinding \/ resolve \/ submitInput \/ PostThrows
  BY <1>1, FlagStepKeeps
<1>2. CASE createRoute \/ CreateAnswered \/ disconnected
  BY <1>2, createRouteKeeps, CreateAnsweredKeeps, disconnectedKeeps
<1>3. CASE ResolveAnswered \/ InputAnswered
  BY <1>3, ResolveAnsweredKeeps, InputAnsweredKeeps
<1>4. CASE PollTick \/ Proceeds
  BY <1>4, PollTickKeeps, ProceedsKeeps
<1>5. CASE \E r \in Reads : RefreshRead(r) \/ RefreshShown(r) \/ TraceRead(r) \/ ReadThrows(r)
  BY <1>5, RefreshReadKeeps, RefreshShownKeeps, TraceReadKeeps, ReadThrowsKeeps
<1>6. CASE UNCHANGED testerVars
  BY <1>6 DEF testerVars, TesterInv, TesterTypeOK, PageOK, Timed, Routed
<1> QED
  BY <1>1, <1>2, <1>3, <1>4, <1>5, <1>6 DEF TesterNext

\* The invariant of the route tester: the shapes of the page, the reads and the
\* routes; the timer; and that a button pressed or a read sent has its route.
THEOREM TesterInvariance == TesterSpec => []TesterInv
<1>1. TesterInit => TesterInv
  BY TesterAssumption
     DEF TesterInit, TesterInv, TesterTypeOK, NewTester, Tester, PostState, PageOK, Timed, Routed
<1> QED
  BY <1>1, TesterNextKeeps, PTL DEF TesterSpec

\* Whatever order the reads and the answers of the page come in, and however many
\* are out, the timer the page can stop is the only one that runs.
THEOREM OneTimerRuns == TesterSpec => []OneTimer
<1>1. TesterInv => OneTimer
  BY DEF TesterInv, PageOK, Timed, OneTimer
<1> QED
  BY <1>1, TesterInvariance, PTL

-----------------------------------------------------------------------------
(***************************************************************************)
(* The flow builder, for any graphs, number of requests at once and other  *)
(* editors: what a publish puts live is what was shown when it was asked   *)
(* for.  The answer carries whatever draft the server then has, so the     *)
(* invariant follows the graph from the screen to the draft and back: a    *)
(* clean page shows the row it has loaded, a save that is out carries the  *)
(* graph on the screen, and whoever has a copy of the draft at its version *)
(* has its graph, a publish that is out included.                          *)
(***************************************************************************)

-----------------------------------------------------------------------------
(* The invariant: of a page b, the requests cs and the server's draft d *)

SavedDraft == [version : Nat, graph : Graphs]

AnswerRow == [ok : BOOLEAN, draft : SavedDraft \cup {Null}]

CallRow ==
    [graph : Graphs \cup {Null}, version : Nat \cup {Null},
     then : {"none", "validate", "publish", "restart", "end", "submit"},
     reply : AnswerRow \cup {Null}]

BuilderPage ==
    [status : {"loading", "ready", "failed"}, create : BOOLEAN,
     loaded : SavedDraft \cup {Null}, graph : Graphs, dirty : BOOLEAN, saving : BOOLEAN,
     validation : BOOLEAN, popover : BOOLEAN, publishing : BOOLEAN, mode : {"edit", "sim"},
     trace : Nat \cup {Null}, step : Int, running : BOOLEAN, overlapped : BOOLEAN]

\* A copy is not ahead of the draft, and at its version has its graph.
CopyOf(copy, d) ==
    /\ d \in SavedDraft
    /\ copy.version <= d.version
    /\ copy.version = d.version => copy.graph = d.graph

Succeeded(k) == k.reply # Null /\ k.reply.ok

LoadOK(k, d) ==
    k # Null /\ Succeeded(k) => k.reply.draft \in SavedDraft /\ CopyOf(k.reply.draft, d)

SaveOK(b, k, d) ==
    k # Null =>
        /\ b.saving /\ k.graph \in Graphs
        /\ ~b.overlapped => k.graph = b.graph
        /\ Succeeded(k) =>
               /\ k.reply.draft \in SavedDraft /\ CopyOf(k.reply.draft, d)
               /\ k.reply.draft.graph = k.graph

PublishOK(b, k, d) ==
    k # Null =>
        /\ d \in SavedDraft /\ k.version \in Nat
        /\ ~b.overlapped => /\ CopyOf(k, d)
                            /\ Succeeded(k) => k.reply.draft.graph = k.graph

ShowsItsRow(b, d) ==
    /\ b.loaded # Null => CopyOf(b.loaded, d)
    /\ b.loaded # Null /\ ~b.dirty /\ ~b.overlapped => b.graph = b.loaded.graph
    /\ b.mode = "sim" => b.trace # Null

\* A page that loads does nothing else.
LoadsAlone(b, cs) ==
    /\ cs["load"] # Null => \A c \in Calls \ {"load"} : cs[c] = Null
    /\ b.status = "ready" => cs["load"] = Null

BuilderOK(b, cs, d) ==
    /\ b \in BuilderPage /\ cs \in [Calls -> CallRow \cup {Null}]
    /\ d \in SavedDraft \cup {Null}
    /\ ShowsItsRow(b, d) /\ LoadsAlone(b, cs)
    /\ LoadOK(cs["load"], d) /\ SaveOK(b, cs["save"], d) /\ PublishOK(b, cs["publish"], d)

BuilderInv == BuilderOK(builder, calls, draft)

-----------------------------------------------------------------------------
(* What changes keep it *)

\* What the page does for itself.
LEMMA PageMoves ==
    ASSUME NEW b, NEW cs, NEW d, BuilderOK(b, cs, d), NEW b2 \in BuilderPage,
           b2.status = b.status, b2.loaded = b.loaded, b2.graph = b.graph,
           b2.dirty = b.dirty, b2.overlapped = b.overlapped,
           cs["save"] = Null \/ b.saving = b2.saving \/ b2.saving,
           b2.mode = "sim" => b2.trace # Null
    PROVE  BuilderOK(b2, cs, d)
BY DEF BuilderOK, ShowsItsRow, LoadsAlone, SaveOK, PublishOK

LEMMA CallEnds ==
    ASSUME NEW b, NEW cs, NEW d, BuilderOK(b, cs, d), NEW c \in Calls
    PROVE  BuilderOK(b, [cs EXCEPT ![c] = Null], d)
BY DEF BuilderOK, LoadsAlone, LoadOK, SaveOK, PublishOK, Calls

\* A request that carries no graph goes out.
LEMMA PlainCallGoesOut ==
    ASSUME NEW b, NEW cs, NEW d, BuilderOK(b, cs, d), NEW k \in CallRow,
           NEW c \in {"validate", "simulate", "resimulate"}, cs["load"] = Null
    PROVE  BuilderOK(b, [cs EXCEPT ![c] = k], d)
BY DEF BuilderOK, LoadsAlone, LoadOK, SaveOK, PublishOK, Calls

LEMMA SaveGoesOut ==
    ASSUME NEW b, NEW cs, NEW d, BuilderOK(b, cs, d), NEW k \in CallRow,
           cs["load"] = Null, b.saving, k.graph = b.graph, k.reply = Null
    PROVE  BuilderOK(b, [cs EXCEPT !["save"] = k], d)
BY DEF BuilderOK, LoadsAlone, LoadOK, SaveOK, PublishOK, Calls, Succeeded, BuilderPage

LEMMA PublishGoesOut ==
    ASSUME NEW b, NEW cs, NEW d, BuilderOK(b, cs, d), NEW k \in CallRow,
           cs["load"] = Null, k.version \in Nat, k.reply = Null, d \in SavedDraft,
           ~b.overlapped => CopyOf(k, d)
    PROVE  BuilderOK(b, [cs EXCEPT !["publish"] = k], d)
BY DEF BuilderOK, LoadsAlone, LoadOK, SaveOK, PublishOK, Calls, Succeeded

\* The draft is created, or goes up by a version.
LEMMA DraftGrows ==
    ASSUME NEW b, NEW cs, NEW d, BuilderOK(b, cs, d), NEW d2 \in SavedDraft,
           d \in SavedDraft => d.version < d2.version
    PROVE  BuilderOK(b, cs, d2)
<1>1. ASSUME NEW copy, copy.version \in Nat, CopyOf(copy, d)
      PROVE  CopyOf(copy, d2)
  BY <1>1 DEF CopyOf, SavedDraft
<1>2. cs["load"] \in CallRow \cup {Null} /\ cs["save"] \in CallRow \cup {Null}
  BY DEF BuilderOK, Calls
<1>3. ShowsItsRow(b, d2)
  BY <1>1 DEF BuilderOK, ShowsItsRow, BuilderPage, SavedDraft
<1>4. LoadOK(cs["load"], d2)
  BY <1>1 DEF BuilderOK, LoadOK, SavedDraft
<1>5. SaveOK(b, cs["save"], d2)
  BY <1>1 DEF BuilderOK, SaveOK, SavedDraft
<1>6. PublishOK(b, cs["publish"], d2)
  BY <1>1 DEF BuilderOK, PublishOK
<1> QED
  BY <1>3, <1>4, <1>5, <1>6 DEF BuilderOK

\* A request is answered.
LEMMA CallAnswered ==
    ASSUME NEW b, NEW cs, NEW d, BuilderOK(b, cs, d), NEW c \in Calls, cs[c] # Null,
           NEW a \in AnswerRow,
           a.ok /\ c = "load" => a.draft \in SavedDraft /\ CopyOf(a.draft, d),
           a.ok /\ c = "save" => /\ a.draft \in SavedDraft /\ CopyOf(a.draft, d)
                                 /\ a.draft.graph = cs["save"].graph,
           a.ok /\ c = "publish" /\ ~b.overlapped => a.draft.graph = cs["publish"].graph
    PROVE  BuilderOK(b, [cs EXCEPT ![c] = [cs[c] EXCEPT !.reply = a]], d)
<1> DEFINE k == [cs[c] EXCEPT !.reply = a]
<1>1. cs[c] \in CallRow
  BY DEF BuilderOK
<1>2. /\ k \in CallRow /\ k.graph = cs[c].graph /\ k.version = cs[c].version
      /\ k.reply = a
  BY <1>1 DEF CallRow
<1> HIDE DEF k
<1>3. [cs EXCEPT ![c] = k] \in [Calls -> CallRow \cup {Null}]
  BY <1>2 DEF BuilderOK
<1>4. LoadsAlone(b, [cs EXCEPT ![c] = k])
  BY <1>2 DEF BuilderOK, LoadsAlone, Calls
<1>5. LoadOK([cs EXCEPT ![c] = k]["load"], d)
  BY <1>2 DEF BuilderOK, LoadOK, Calls, Succeeded
<1>6. SaveOK(b, [cs EXCEPT ![c] = k]["save"], d)
  BY <1>2 DEF BuilderOK, SaveOK, Calls, Succeeded
<1>7. PublishOK(b, [cs EXCEPT ![c] = k]["publish"], d)
  BY <1>2 DEF BuilderOK, PublishOK, Calls, Succeeded, CopyOf
<1>8. BuilderOK(b, [cs EXCEPT ![c] = k], d)
  BY <1>3, <1>4, <1>5, <1>6, <1>7 DEF BuilderOK
<1> QED
  BY <1>8 DEF k

-----------------------------------------------------------------------------
(* The user *)

Thens == {"none", "validate", "publish", "restart", "end", "submit"}

LEMMA BuilderTypes ==
    ASSUME BuilderInv
    PROVE  /\ builder \in BuilderPage /\ calls \in [Calls -> CallRow \cup {Null}]
           /\ draft \in SavedDraft \cup {Null}
           /\ builder.loaded # Null => builder.loaded \in SavedDraft /\ draft \in SavedDraft
           /\ builder.mode = "sim" => builder.trace \in Nat
           /\ \A c \in Calls : calls[c] # Null => calls[c] \in CallRow
           /\ Ready => calls["load"] = Null
BY DEF BuilderInv, BuilderOK, ShowsItsRow, CopyOf, BuilderPage, LoadsAlone, Ready

LEMMA BodyType ==
    ASSUME NEW graph \in Graphs \cup {Null}, NEW version \in Nat \cup {Null}, NEW then \in Thens
    PROVE  /\ Body(graph, version, then) \in CallRow
           /\ Body(graph, version, then).graph = graph
           /\ Body(graph, version, then).version = version
           /\ Body(graph, version, then).reply = Null
BY DEF Body, CallRow, Thens

\* A page that is opened loads, and nothing else is out.
LEMMA NewPageKeeps ==
    ASSUME NEW d \in SavedDraft \cup {Null}
    PROVE  BuilderOK(NewBuilder(FALSE), Loading, d)
<1>1. (CHOOSE g \in Graphs : TRUE) \in Graphs
  BY BuilderAssumption
<1>2. NewBuilder(FALSE) \in BuilderPage /\ NewBuilder(FALSE).loaded = Null
      /\ NewBuilder(FALSE).status = "loading" /\ NewBuilder(FALSE).mode = "edit"
  BY <1>1 DEF NewBuilder, BuilderPage
<1>3. Body(Null, Null, "none") \in CallRow /\ Body(Null, Null, "none").reply = Null
  BY BodyType DEF Thens
<1>4. /\ Loading \in [Calls -> CallRow \cup {Null}]
      /\ \A c \in Calls \ {"load"} : Loading[c] = Null
      /\ Loading["load"] = Body(Null, Null, "none")
  BY <1>3 DEF Loading, Calls
<1> QED
  BY <1>2, <1>3, <1>4
     DEF BuilderOK, ShowsItsRow, LoadsAlone, LoadOK, SaveOK, PublishOK, Calls, Succeeded

LEMMA markDirtyKeeps ==
    ASSUME BuilderInv, markDirty
    PROVE  BuilderInv'
<1>1. PICK g \in Graphs :
        builder' = [builder EXCEPT !.graph = g, !.validation = FALSE, !.dirty = TRUE,
                                   !.overlapped = @ \/ builder.saving]
  BY DEF markDirty
<1>2. /\ builder' \in BuilderPage /\ builder'.dirty
      /\ builder'.overlapped = (builder.overlapped \/ builder.saving)
      /\ builder'.loaded = builder.loaded /\ builder'.status = builder.status
      /\ builder'.mode = builder.mode /\ builder'.trace = builder.trace
      /\ builder'.saving = builder.saving
  <2> DEFINE over == builder.overlapped \/ builder.saving
  <2>1. builder \in BuilderPage
    BY BuilderTypes
  <2>2. over \in BOOLEAN
    OBVIOUS
  <2>3. builder' = [builder EXCEPT !.graph = g, !.validation = FALSE, !.dirty = TRUE,
                                   !.overlapped = over]
    BY <1>1
  <2>4. over = (builder.overlapped \/ builder.saving)
    OBVIOUS
  <2> HIDE DEF over
  <2> QED
    BY <2>1, <2>2, <2>3, <2>4 DEF BuilderPage
<1>3. BuilderOK(builder', calls, draft)
  BY <1>2 DEF BuilderInv, BuilderOK, ShowsItsRow, LoadsAlone, SaveOK, PublishOK
<1>4. UNCHANGED <<draft, calls>>
  BY DEF markDirty
<1> QED
  BY <1>3, <1>4 DEF BuilderInv

LEMMA saveDraftKeeps ==
    ASSUME BuilderInv, Ready, NEW then \in Thens, saveDraft(then)
    PROVE  BuilderInv'
<1> DEFINE k == Body(builder.graph, IF IsCreate THEN Null ELSE builder.loaded.version, then)
           b == [builder EXCEPT !.saving = TRUE]
<1>1. /\ IsCreate \/ builder.loaded # Null
      /\ builder' = b /\ calls' = [calls EXCEPT !["save"] = k] /\ draft' = draft
  BY DEF saveDraft, Requests, Sends
<1>2. /\ b \in BuilderPage /\ b.status = builder.status /\ b.loaded = builder.loaded
      /\ b.graph = builder.graph /\ b.dirty = builder.dirty /\ b.saving
      /\ b.overlapped = builder.overlapped /\ b.mode = builder.mode /\ b.trace = builder.trace
  BY BuilderTypes DEF BuilderPage
<1>3. (IF IsCreate THEN Null ELSE builder.loaded.version) \in Nat \cup {Null}
  BY <1>1, BuilderTypes DEF SavedDraft
<1>4. k \in CallRow /\ k.graph = b.graph /\ k.reply = Null
  BY <1>2, <1>3, BuilderTypes, BodyType DEF BuilderPage
<1> HIDE DEF b, k
<1>5. BuilderOK(b, calls, draft)
  BY <1>2, PageMoves DEF BuilderInv, BuilderOK, ShowsItsRow
<1>6. calls["load"] = Null
  BY BuilderTypes
<1>7. BuilderOK(b, [calls EXCEPT !["save"] = k], draft)
  BY <1>2, <1>4, <1>5, <1>6, SaveGoesOut
<1> QED
  BY <1>1, <1>7 DEF BuilderInv

LEMMA validateFlowKeeps ==
    ASSUME BuilderInv, Ready, validateFlow
    PROVE  BuilderInv'
<1>1. CASE saveDraft("validate")
  BY <1>1, saveDraftKeeps DEF Thens
<1>2. CASE Requests("validate", Body(Null, Null, "none")) /\ UNCHANGED <<draft, builder>>
  <2>1. calls' = [calls EXCEPT !["validate"] = Body(Null, Null, "none")]
    BY <1>2 DEF Requests, Sends
  <2>2. Body(Null, Null, "none") \in CallRow
    BY BodyType DEF Thens
  <2> QED
    BY <1>2, <2>1, <2>2, BuilderTypes, PlainCallGoesOut DEF BuilderInv
<1> QED
  BY <1>1, <1>2 DEF validateFlow, Flushed

LEMMA publishFlowKeeps ==
    ASSUME BuilderInv, Ready, publishFlow
    PROVE  BuilderInv'
<1>1. CASE saveDraft("publish")
  BY <1>1, saveDraftKeeps DEF Thens
<1>2. CASE /\ builder.loaded # Null /\ ~builder.dirty
           /\ builder' = [builder EXCEPT !.publishing = TRUE]
           /\ Requests("publish", Body(builder.graph, builder.loaded.version, "none"))
           /\ UNCHANGED draft
  <2> DEFINE k == Body(builder.graph, builder.loaded.version, "none")
             b == [builder EXCEPT !.publishing = TRUE]
  <2>1. calls' = [calls EXCEPT !["publish"] = k] /\ builder' = b /\ draft' = draft
    BY <1>2 DEF Requests, Sends
  <2>2. /\ b \in BuilderPage /\ b.status = builder.status /\ b.loaded = builder.loaded
        /\ b.graph = builder.graph /\ b.dirty = builder.dirty /\ b.saving = builder.saving
        /\ b.overlapped = builder.overlapped /\ b.mode = builder.mode /\ b.trace = builder.trace
    BY BuilderTypes DEF BuilderPage
  <2>3. builder.loaded \in SavedDraft /\ draft \in SavedDraft /\ builder.loaded.version \in Nat
    BY <1>2, BuilderTypes DEF SavedDraft
  <2>4. /\ k \in CallRow /\ k.graph = builder.graph /\ k.version = builder.loaded.version
        /\ k.reply = Null
    BY <2>3, BuilderTypes, BodyType DEF BuilderPage, Thens
  <2> HIDE DEF b, k
  <2>5. BuilderOK(b, calls, draft)
    BY <2>2, PageMoves DEF BuilderInv, BuilderOK, ShowsItsRow
  <2>6. ~b.overlapped => CopyOf(k, draft)
    BY <1>2, <2>2, <2>4 DEF BuilderInv, BuilderOK, ShowsItsRow, CopyOf
  <2>7. BuilderOK(b, [calls EXCEPT !["publish"] = k], draft)
    BY <2>3, <2>4, <2>5, <2>6, BuilderTypes, PublishGoesOut
  <2> QED
    BY <2>1, <2>7 DEF BuilderInv
<1> QED
  BY <1>1, <1>2 DEF publishFlow, Flushed

LEMMA runSimulationKeeps ==
    ASSUME BuilderInv, Ready, NEW then \in Thens, runSimulation(then)
    PROVE  BuilderInv'
<1>1. CASE saveDraft(then)
  BY <1>1, saveDraftKeeps
<1>2. CASE \E c \in Runs : /\ builder' = [builder EXCEPT !.running = TRUE]
                           /\ Requests(c, Body(Null, Null, then))
                           /\ UNCHANGED draft
  <2>1. PICK c \in Runs : /\ builder' = [builder EXCEPT !.running = TRUE]
                         /\ Requests(c, Body(Null, Null, then))
                         /\ UNCHANGED draft
    BY <1>2
  <2> DEFINE k == Body(Null, Null, then)
             b == [builder EXCEPT !.running = TRUE]
  <2>2. calls' = [calls EXCEPT ![c] = k] /\ builder' = b /\ draft' = draft
    BY <2>1 DEF Requests, Sends
  <2>3. /\ b \in BuilderPage /\ b.status = builder.status /\ b.loaded = builder.loaded
        /\ b.graph = builder.graph /\ b.dirty = builder.dirty /\ b.saving = builder.saving
        /\ b.overlapped = builder.overlapped /\ b.mode = builder.mode /\ b.trace = builder.trace
    BY BuilderTypes DEF BuilderPage
  <2>4. k \in CallRow
    BY BodyType
  <2> HIDE DEF b, k
  <2>5. BuilderOK(b, calls, draft)
    BY <2>3, PageMoves DEF BuilderInv, BuilderOK, ShowsItsRow
  <2>6. BuilderOK(b, [calls EXCEPT ![c] = k], draft)
    BY <2>4, <2>5, BuilderTypes, PlainCallGoesOut DEF Runs
  <2> QED
    BY <2>2, <2>6 DEF BuilderInv
<1> QED
  BY <1>1, <1>2 DEF runSimulation, Flushed

\* Playback, and what is opened and closed, leave the graph and the requests alone.
LEMMA PlaysKeeps ==
    ASSUME BuilderInv, NEW b \in BuilderPage, Plays(b),
           b.status = builder.status, b.loaded = builder.loaded, b.graph = builder.graph,
           b.dirty = builder.dirty, b.overlapped = builder.overlapped,
           b.saving = builder.saving, b.mode = "sim" => b.trace # Null
    PROVE  BuilderInv'
<1>1. BuilderOK(b, calls, draft)
  BY PageMoves DEF BuilderInv
<1> QED
  BY <1>1 DEF BuilderInv, Plays

LEMMA SteppedKeeps ==
    ASSUME BuilderInv, Simulating, NEW delta \in {-1, 1}, stepBy(delta)
    PROVE  BuilderInv'
<1> DEFINE b == Stepped(builder, delta)
<1>1. builder \in BuilderPage /\ builder.trace \in Nat
  BY BuilderTypes DEF Simulating
<1>2. builder.step \in Int /\ builder.trace \in Int
  BY <1>1 DEF BuilderPage
<1>3. PICK step \in Int : b = [builder EXCEPT !.step = step]
  <2> DEFINE to == builder.step + delta
             last == builder.trace - 1
             step == IF to > last THEN last ELSE IF to < -1 THEN -1 ELSE to
  <2>1. step \in Int
    BY <1>2
  <2>2. b = [builder EXCEPT !.step = step]
    BY Zenon DEF Stepped
  <2> QED
    BY <2>1, <2>2
<1> HIDE DEF b
<1>4. /\ b \in BuilderPage /\ b.status = builder.status /\ b.loaded = builder.loaded
      /\ b.graph = builder.graph /\ b.dirty = builder.dirty /\ b.saving = builder.saving
      /\ b.overlapped = builder.overlapped /\ b.mode = builder.mode /\ b.trace = builder.trace
  BY <1>1, <1>3 DEF BuilderPage
<1>5. b.mode = "sim" => b.trace # Null
  BY <1>4 DEF BuilderInv, BuilderOK, ShowsItsRow
<1>6. Plays(b)
  BY DEF stepBy, b
<1> QED
  BY <1>4, <1>5, <1>6, PlaysKeeps

LEMMA SimControlsKeep ==
    ASSUME BuilderInv, Simulating, restartSim \/ runAllSim
    PROVE  BuilderInv'
<1>1. PICK step \in Int : Plays([builder EXCEPT !.step = step])
  <2>1. builder.trace - 1 \in Int /\ -1 \in Int
    BY BuilderTypes DEF Simulating
  <2> QED
    BY <2>1 DEF restartSim, runAllSim
<1> DEFINE b == [builder EXCEPT !.step = step]
<1>2. /\ b \in BuilderPage /\ b.status = builder.status /\ b.loaded = builder.loaded
      /\ b.graph = builder.graph /\ b.dirty = builder.dirty /\ b.saving = builder.saving
      /\ b.overlapped = builder.overlapped /\ b.mode = builder.mode /\ b.trace = builder.trace
  BY BuilderTypes DEF BuilderPage
<1>3. Plays(b)
  BY <1>1
<1> HIDE DEF b
<1>4. b.mode = "sim" => b.trace # Null
  BY <1>2 DEF BuilderInv, BuilderOK, ShowsItsRow
<1> QED
  BY <1>2, <1>3, <1>4, PlaysKeeps

LEMMA toggleSimModeKeeps ==
    ASSUME BuilderInv, toggleSimMode
    PROVE  BuilderInv'
<1>1. CASE Simulating /\ Plays([builder EXCEPT !.mode = "edit", !.trace = Null, !.step = -1])
  <2> DEFINE b == [builder EXCEPT !.mode = "edit", !.trace = Null, !.step = -1]
  <2>1. /\ b \in BuilderPage /\ b.status = builder.status /\ b.loaded = builder.loaded
        /\ b.graph = builder.graph /\ b.dirty = builder.dirty /\ b.saving = builder.saving
        /\ b.overlapped = builder.overlapped /\ b.mode = "edit"
    <3>1. Null \in Nat \cup {Null} /\ -1 \in Int
      OBVIOUS
    <3> QED
      BY <3>1, BuilderTypes DEF BuilderPage
  <2>2. Plays(b)
    BY <1>1
  <2> HIDE DEF b
  <2> QED
    BY <2>1, <2>2, PlaysKeeps
<1>2. CASE Editing /\ runSimulation("restart")
  BY <1>2, runSimulationKeeps DEF Editing, Thens
<1> QED
  BY <1>1, <1>2 DEF toggleSimMode

\* The popover and the panel.
LEMMA OpenedKeeps ==
    ASSUME BuilderInv, Editing, NEW open \in BOOLEAN,
           \/ Plays([builder EXCEPT !.popover = open])
           \/ Plays([builder EXCEPT !.validation = open])
    PROVE  BuilderInv'
<1>1. PICK b : /\ Plays(b)
               /\ \/ b = [builder EXCEPT !.popover = open]
                  \/ b = [builder EXCEPT !.validation = open]
  OBVIOUS
<1>2. /\ b \in BuilderPage /\ b.status = builder.status /\ b.loaded = builder.loaded
      /\ b.graph = builder.graph /\ b.dirty = builder.dirty /\ b.saving = builder.saving
      /\ b.overlapped = builder.overlapped /\ b.mode = builder.mode
  BY <1>1, BuilderTypes DEF BuilderPage
<1>3. builder.mode = "edit"
  BY DEF Editing
<1> QED
  BY <1>1, <1>2, <1>3, PlaysKeeps

LEMMA EditScreenKeeps ==
    ASSUME BuilderInv, Editing,
           \/ validateFlow \/ saveDraft("none")
           \/ Plays([builder EXCEPT !.popover = ~@])
           \/ renderPublishPopover \/ renderValidationPanel
    PROVE  BuilderInv'
<1>1. Ready /\ builder.popover \in BOOLEAN /\ builder.validation \in BOOLEAN
  BY BuilderTypes DEF Editing, BuilderPage
<1>2. CASE validateFlow \/ saveDraft("none") \/ publishFlow
  BY <1>1, <1>2, validateFlowKeeps, saveDraftKeeps, publishFlowKeeps DEF Thens
<1>3. CASE Plays([builder EXCEPT !.popover = ~@]) \/ Plays([builder EXCEPT !.popover = FALSE])
  <2>1. PICK open \in BOOLEAN : Plays([builder EXCEPT !.popover = open])
    BY <1>1, <1>3
  <2> QED
    BY <2>1, OpenedKeeps
<1>4. CASE Plays([builder EXCEPT !.validation = FALSE])
  BY <1>4, OpenedKeeps
<1> QED
  BY <1>2, <1>3, <1>4 DEF renderPublishPopover, renderValidationPanel

LEMMA SimScreenKeeps ==
    ASSUME BuilderInv, Simulating, renderSimControls \/ renderSimRunPanel
    PROVE  BuilderInv'
<1>1. CASE \/ runSimulation("restart") \/ runSimulation("end") \/ runSimulation("submit")
  BY <1>1, runSimulationKeeps DEF Simulating, Thens
<1>2. CASE stepBy(-1) \/ stepBy(1)
  BY <1>2, SteppedKeeps
<1>3. CASE restartSim \/ runAllSim
  BY <1>3, SimControlsKeep
<1> QED
  BY <1>1, <1>2, <1>3
     DEF renderSimControls, renderSimRunPanel, toggleNodeOutcome, renderSimStepCard,
         submitNodeInput, setNodeInput, renderTestCases, runTestCase

LEMMA BuilderNavigateKeeps ==
    ASSUME BuilderInv, BuilderNavigate
    PROVE  BuilderInv'
<1>1. draft' \in SavedDraft \cup {Null}
  <2>1. CASE UNCHANGED draft
    BY <2>1, BuilderTypes
  <2>2. CASE StraySave
    <3>1. calls["save"].graph \in Graphs
      BY <2>2 DEF StraySave, BuilderInv, BuilderOK, SaveOK
    <3>2. draft.version + 1 \in Nat
      BY BuilderTypes DEF BuilderNavigate, SavedDraft
    <3> QED
      BY <2>2, <3>1, <3>2 DEF StraySave, SavedDraft
  <2> QED
    BY <2>1, <2>2 DEF BuilderNavigate
<1>2. builder' = NewBuilder(FALSE) /\ calls' = Loading
  BY DEF BuilderNavigate
<1> QED
  BY <1>1, <1>2, NewPageKeeps DEF BuilderInv

LEMMA renderBuilderKeeps ==
    ASSUME BuilderInv, renderBuilder
    PROVE  BuilderInv'
BY BuilderNavigateKeeps, EditScreenKeeps, toggleSimModeKeeps, SimScreenKeeps DEF renderBuilder

LEMMA RetryKeeps ==
    ASSUME BuilderInv, Retry
    PROVE  BuilderInv'
<1>1. builder' = NewBuilder(FALSE) /\ calls' = Loading /\ draft' = draft
  BY DEF Retry
<1> QED
  BY <1>1, BuilderTypes, NewPageKeeps DEF BuilderInv

-----------------------------------------------------------------------------
(* The server *)

\* An answer is given to a request that is out.
LEMMA RespondsKeeps ==
    ASSUME BuilderInv, NEW c \in Calls, NEW ok \in BOOLEAN, NEW row \in SavedDraft \cup {Null},
           Out(c), Responds(c, ok, row), NEW d, draft' = d, BuilderOK(builder, calls, d),
           ok /\ c \in {"load", "save"} => row \in SavedDraft /\ CopyOf(row, d),
           ok /\ c = "save" => row.graph = calls["save"].graph,
           ok /\ c = "publish" /\ ~builder.overlapped => row.graph = calls["publish"].graph
    PROVE  BuilderInv'
<1> DEFINE a == [ok |-> ok, draft |-> row]
<1>1. a \in AnswerRow /\ a.ok = ok /\ a.draft = row
  BY DEF AnswerRow
<1>2. /\ calls' = [calls EXCEPT ![c] = [calls[c] EXCEPT !.reply = a]]
      /\ builder' = builder /\ calls[c] # Null
  BY DEF Responds, Sends, Out
<1> HIDE DEF a
<1>3. BuilderOK(builder, [calls EXCEPT ![c] = [calls[c] EXCEPT !.reply = a]], d)
  BY <1>1, <1>2, CallAnswered
<1> QED
  BY <1>2, <1>3 DEF BuilderInv

LEMMA HandleLoadKeeps ==
    ASSUME BuilderInv, HandleLoad
    PROVE  BuilderInv'
<1>1. draft \in SavedDraft /\ CopyOf(draft, draft)
  BY BuilderTypes DEF HandleLoad, CopyOf, SavedDraft
<1>2. Out("load") /\ Responds("load", TRUE, draft) /\ draft' = draft
  BY DEF HandleLoad
<1> QED
  BY <1>1, <1>2, RespondsKeeps DEF Calls, BuilderInv

LEMMA HandleSaveKeeps ==
    ASSUME BuilderInv, HandleSave
    PROVE  BuilderInv'
<1> DEFINE save == calls["save"]
           version == IF draft = Null THEN 0 ELSE draft.version
           d == [version |-> version + 1, graph |-> save.graph]
<1>1. Out("save") /\ "save" \in Calls
  BY DEF HandleSave, Calls
<1>2. CASE /\ draft' = d
           /\ Responds("save", TRUE, draft') \/ Responds("save", FALSE, Null)
  <2>1. save.graph \in Graphs
    BY <1>1 DEF Out, BuilderInv, BuilderOK, SaveOK
  <2>2. version \in Nat /\ (draft \in SavedDraft => draft.version < version + 1)
    <3>1. CASE draft = Null
      BY <3>1, BuilderAssumption DEF SavedDraft
    <3>2. CASE draft # Null
      BY <3>2, BuilderTypes DEF SavedDraft
    <3> QED
      BY <3>1, <3>2
  <2>3. d \in SavedDraft /\ d.version = version + 1 /\ d.graph = save.graph
    BY <2>1, <2>2 DEF SavedDraft
  <2> HIDE DEF d
  <2>4. BuilderOK(builder, calls, d)
    BY <2>2, <2>3, DraftGrows DEF BuilderInv
  <2>5. CopyOf(d, d)
    BY <2>3 DEF CopyOf, SavedDraft
  <2> QED
    BY <1>1, <1>2, <2>3, <2>4, <2>5, RespondsKeeps
<1>3. CASE Responds("save", FALSE, Null) /\ UNCHANGED draft
  BY <1>1, <1>3, RespondsKeeps DEF BuilderInv
<1> QED
  BY <1>2, <1>3 DEF HandleSave

LEMMA HandlePublishKeeps ==
    ASSUME BuilderInv, HandlePublish
    PROVE  BuilderInv'
<1>1. /\ Out("publish") /\ Responds("publish", TRUE, draft) /\ draft' = draft
      /\ calls["publish"].version = draft.version
  BY DEF HandlePublish
<1>2. draft \in SavedDraft /\ (~builder.overlapped => draft.graph = calls["publish"].graph)
  BY <1>1 DEF Out, BuilderInv, BuilderOK, PublishOK, CopyOf
<1> QED
  BY <1>1, <1>2, RespondsKeeps DEF Calls, BuilderInv

LEMMA PlainAnswerKeeps ==
    ASSUME BuilderInv, HandleValidate \/ HandleSimulate \/ HandleFailure
    PROVE  BuilderInv'
<1>1. PICK c \in Calls, ok \in BOOLEAN :
        /\ Out(c) /\ Responds(c, ok, Null) /\ draft' = draft
        /\ ok => c \notin {"load", "save", "publish"}
  <2>1. CASE HandleValidate
    BY <2>1 DEF HandleValidate, Calls
  <2>2. CASE HandleSimulate
    BY <2>2 DEF HandleSimulate, Runs, Calls
  <2>3. CASE HandleFailure
    BY <2>3 DEF HandleFailure
  <2> QED
    BY <2>1, <2>2, <2>3
<1> QED
  BY <1>1, RespondsKeeps DEF BuilderInv

LEMMA OtherEditorKeeps ==
    ASSUME BuilderInv, OtherEditor
    PROVE  BuilderInv'
<1>1. PICK g \in Graphs : draft' = [version |-> draft.version + 1, graph |-> g]
  BY DEF OtherEditor
<1>2. draft \in SavedDraft /\ UNCHANGED <<builder, calls>>
  BY BuilderTypes DEF OtherEditor
<1>3. draft' \in SavedDraft /\ draft.version < draft'.version
  BY <1>1, <1>2 DEF SavedDraft
<1> QED
  BY <1>2, <1>3, DraftGrows DEF BuilderInv

-----------------------------------------------------------------------------
(* Answers *)

LEMMA loadTaskKeeps ==
    ASSUME BuilderInv, loadTask
    PROVE  BuilderInv'
<1> DEFINE k == calls["load"]
           row == k.reply.draft
           cs == [calls EXCEPT !["load"] = Null]
           b == [NewBuilder(FALSE) EXCEPT !.status = "ready", !.loaded = row, !.graph = row.graph]
<1>1. k # Null /\ k.reply # Null /\ calls' = cs /\ draft' = draft
  BY DEF loadTask, Heard, Ends
<1>2. cs \in [Calls -> CallRow \cup {Null}] /\ \A c \in Calls : cs[c] = Null
  BY <1>1 DEF BuilderInv, BuilderOK, LoadsAlone, Calls
<1>3. CASE k.reply.ok /\ builder' = b
  <2>1. row \in SavedDraft /\ CopyOf(row, draft)
    BY <1>1, <1>3 DEF BuilderInv, BuilderOK, LoadOK, Succeeded
  <2>2. NewBuilder(FALSE) \in BuilderPage /\ NewBuilder(FALSE).mode = "edit"
    <3>1. (CHOOSE g \in Graphs : TRUE) \in Graphs
      BY BuilderAssumption
    <3> QED
      BY <3>1 DEF NewBuilder, BuilderPage
  <2>3. row.graph \in Graphs
    BY <2>1 DEF SavedDraft
  <2> HIDE DEF row
  <2>4. b \in BuilderPage /\ b.loaded = row /\ b.graph = row.graph /\ b.mode = "edit"
    BY <2>1, <2>2, <2>3 DEF BuilderPage
  <2> HIDE DEF b, cs
  <2>5. draft \in SavedDraft
    BY <2>1 DEF CopyOf
  <2>6. BuilderOK(b, cs, draft)
    BY <1>2, <2>1, <2>4, <2>5
       DEF BuilderOK, ShowsItsRow, LoadsAlone, LoadOK, SaveOK, PublishOK, Calls
  <2> QED
    BY <1>1, <1>3, <2>6 DEF BuilderInv
<1>4. CASE builder' = [builder EXCEPT !.status = "failed"]
  <2>1. /\ builder' \in BuilderPage /\ builder'.status = "failed"
        /\ builder'.loaded = builder.loaded /\ builder'.graph = builder.graph
        /\ builder'.dirty = builder.dirty /\ builder'.overlapped = builder.overlapped
        /\ builder'.mode = builder.mode /\ builder'.trace = builder.trace
    BY <1>4, BuilderTypes DEF BuilderPage
  <2>2. ShowsItsRow(builder', draft) /\ draft \in SavedDraft \cup {Null}
    BY <2>1 DEF BuilderInv, BuilderOK, ShowsItsRow
  <2> HIDE DEF cs
  <2>3. BuilderOK(builder', cs, draft)
    BY <1>2, <2>1, <2>2 DEF BuilderOK, LoadsAlone, LoadOK, SaveOK, PublishOK, Calls
  <2> QED
    BY <1>1, <2>3 DEF BuilderInv
<1> QED
  BY <1>3, <1>4 DEF loadTask, Ok

LEMMA draftSavedKeeps ==
    ASSUME BuilderInv, draftSaved
    PROVE  BuilderInv'
<1> DEFINE save == calls["save"]
           row == save.reply.draft
           cs == [calls EXCEPT !["save"] = Null]
           clean == [builder EXCEPT !.saving = FALSE, !.loaded = row,
                                    !.validation = FALSE, !.dirty = FALSE]
           k(version) == Body(save.graph, version, save.then)
<1>1. /\ save # Null /\ save.reply # Null /\ draft' = draft /\ save \in CallRow
      /\ "save" \in Calls
  BY BuilderTypes DEF draftSaved, Heard, Calls
<1>2. BuilderOK(builder, cs, draft) /\ cs["save"] = Null /\ cs["load"] = Null
  <2>1. BuilderOK(builder, cs, draft)
    BY <1>1, CallEnds DEF BuilderInv
  <2>2. calls["load"] = Null
    BY <1>1 DEF BuilderInv, BuilderOK, LoadsAlone
  <2> QED
    BY <1>1, <2>1, <2>2, BuilderTypes DEF Calls
<1>3. CASE builder' = [builder EXCEPT !.saving = FALSE] /\ calls' = cs
  <2> DEFINE b == [builder EXCEPT !.saving = FALSE]
  <2>1. /\ b \in BuilderPage /\ b.status = builder.status /\ b.loaded = builder.loaded
        /\ b.graph = builder.graph /\ b.dirty = builder.dirty
        /\ b.overlapped = builder.overlapped /\ b.mode = builder.mode /\ b.trace = builder.trace
    BY BuilderTypes DEF BuilderPage
  <2>2. builder' = b
    BY <1>3
  <2> HIDE DEF b, cs
  <2>3. b.mode = "sim" => b.trace # Null
    BY <2>1 DEF BuilderInv, BuilderOK, ShowsItsRow
  <2>4. BuilderOK(b, cs, draft)
    BY <1>2, <2>1, <2>3, PageMoves
  <2> QED
    BY <1>1, <1>3, <2>2, <2>4 DEF BuilderInv
<1>4. CASE builder' = NewBuilder(FALSE) /\ calls' = Loading
  BY <1>1, <1>4, BuilderTypes, NewPageKeeps DEF BuilderInv
<1>5. ASSUME save.reply.ok
      PROVE  /\ BuilderOK(clean, cs, draft) /\ clean.loaded = row
             /\ row \in SavedDraft /\ draft \in SavedDraft /\ CopyOf(row, draft)
             /\ row.graph = save.graph /\ save.graph \in Graphs /\ clean \in BuilderPage
  <2>1. /\ row \in SavedDraft /\ CopyOf(row, draft) /\ row.graph = save.graph
        /\ save.graph \in Graphs /\ (~builder.overlapped => save.graph = builder.graph)
    BY <1>1, <1>5 DEF BuilderInv, BuilderOK, SaveOK, Succeeded
  <2> HIDE DEF row
  <2>2. /\ clean \in BuilderPage /\ clean.status = builder.status /\ clean.loaded = row
        /\ clean.graph = builder.graph /\ clean.overlapped = builder.overlapped
        /\ clean.mode = builder.mode /\ clean.trace = builder.trace
    BY <2>1, BuilderTypes DEF BuilderPage
  <2> HIDE DEF clean, cs
  <2>3. ShowsItsRow(clean, draft)
    BY <2>1, <2>2 DEF BuilderInv, BuilderOK, ShowsItsRow
  <2>4. BuilderOK(clean, cs, draft)
    BY <1>2, <2>2, <2>3 DEF BuilderOK, LoadsAlone, SaveOK, PublishOK
  <2> QED
    BY <2>1, <2>2, <2>4 DEF CopyOf
<1>6. CASE save.reply.ok /\ builder' = clean /\ calls' = cs
  BY <1>1, <1>5, <1>6 DEF BuilderInv
<1>7. CASE /\ save.reply.ok /\ builder' = clean
           /\ calls' = [calls EXCEPT !["save"] = Null, !["validate"] = k(Null)]
  <2>1. k(Null) \in CallRow
    BY <1>1, <1>5, <1>7, BodyType DEF CallRow, Thens
  <2>2. calls' = [cs EXCEPT !["validate"] = k(Null)]
    BY <1>7, Zenon
  <2> HIDE DEF k, cs, clean
  <2>3. BuilderOK(clean, [cs EXCEPT !["validate"] = k(Null)], draft)
    BY <1>2, <1>5, <1>7, <2>1, PlainCallGoesOut
  <2> QED
    BY <1>1, <1>7, <2>2, <2>3 DEF BuilderInv
<1>8. CASE /\ save.reply.ok /\ builder' = [clean EXCEPT !.publishing = TRUE]
           /\ calls' = [calls EXCEPT !["save"] = Null, !["publish"] = k(clean.loaded.version)]
  <2> DEFINE b == [clean EXCEPT !.publishing = TRUE]
             new == k(clean.loaded.version)
  <2> HIDE DEF clean
  <2>1. /\ b \in BuilderPage /\ b.status = clean.status /\ b.loaded = clean.loaded
        /\ b.graph = clean.graph /\ b.dirty = clean.dirty /\ b.saving = clean.saving
        /\ b.overlapped = clean.overlapped /\ b.mode = clean.mode /\ b.trace = clean.trace
    BY <1>5, <1>8 DEF BuilderPage
  <2>2. row.version \in Nat
    BY <1>5, <1>8 DEF SavedDraft
  <2>3. /\ new \in CallRow /\ new.version = row.version /\ new.graph = row.graph
        /\ new.reply = Null
    BY <1>1, <1>5, <1>8, <2>2, BodyType DEF CallRow, Thens
  <2>4. calls' = [cs EXCEPT !["publish"] = new]
    BY <1>8, Zenon
  <2> HIDE DEF b, cs, new, row
  <2>5. BuilderOK(b, cs, draft)
    <3>1. b.mode = "sim" => b.trace # Null
      BY <1>5, <1>8, <2>1 DEF BuilderOK, ShowsItsRow
    <3> QED
      BY <1>5, <1>8, <2>1, <3>1, PageMoves
  <2>6. CopyOf(new, draft)
    BY <1>5, <1>8, <2>3 DEF CopyOf
  <2>7. BuilderOK(b, [cs EXCEPT !["publish"] = new], draft)
    BY <1>2, <1>5, <1>8, <2>2, <2>3, <2>5, <2>6, PublishGoesOut
  <2>8. builder' = b
    BY <1>8 DEF b
  <2> QED
    BY <1>1, <2>4, <2>7, <2>8 DEF BuilderInv
<1>9. ASSUME save.reply.ok, builder' = [clean EXCEPT !.running = TRUE], NEW c \in Runs,
             calls' = [calls EXCEPT !["save"] = Null, ![c] = k(Null)]
      PROVE  BuilderInv'
  <2> DEFINE b == [clean EXCEPT !.running = TRUE]
  <2> HIDE DEF clean
  <2>1. /\ b \in BuilderPage /\ b.status = clean.status /\ b.loaded = clean.loaded
        /\ b.graph = clean.graph /\ b.dirty = clean.dirty /\ b.saving = clean.saving
        /\ b.overlapped = clean.overlapped /\ b.mode = clean.mode /\ b.trace = clean.trace
    BY <1>5, <1>9 DEF BuilderPage
  <2>2. k(Null) \in CallRow
    BY <1>1, <1>5, <1>9, BodyType DEF CallRow, Thens
  <2>3. calls' = [cs EXCEPT ![c] = k(Null)]
    BY <1>9, Zenon
  <2> HIDE DEF b, cs, k, row
  <2>4. BuilderOK(b, cs, draft)
    <3>1. b.mode = "sim" => b.trace # Null
      BY <1>5, <1>9, <2>1 DEF BuilderOK, ShowsItsRow
    <3> QED
      BY <1>5, <1>9, <2>1, <3>1, PageMoves
  <2>5. BuilderOK(b, [cs EXCEPT ![c] = k(Null)], draft)
    BY <1>2, <2>2, <2>4, PlainCallGoesOut DEF Runs
  <2>6. builder' = b
    BY <1>9 DEF b
  <2> QED
    BY <1>1, <2>3, <2>5, <2>6 DEF BuilderInv
<1>10. \/ builder' = [builder EXCEPT !.saving = FALSE] /\ calls' = cs
       \/ builder' = NewBuilder(FALSE) /\ calls' = Loading
       \/ save.reply.ok /\ builder' = clean /\ calls' = cs
       \/ /\ save.reply.ok /\ builder' = clean
          /\ calls' = [calls EXCEPT !["save"] = Null, !["validate"] = k(Null)]
       \/ /\ save.reply.ok /\ builder' = [clean EXCEPT !.publishing = TRUE]
          /\ calls' = [calls EXCEPT !["save"] = Null, !["publish"] = k(clean.loaded.version)]
       \/ /\ save.reply.ok /\ builder' = [clean EXCEPT !.running = TRUE]
          /\ \E c \in Runs : calls' = [calls EXCEPT !["save"] = Null, ![c] = k(Null)]
  BY Zenon DEF draftSaved, Ok, Ends
<1> QED
  BY <1>3, <1>4, <1>6, <1>7, <1>8, <1>9, <1>10

LEMMA flowAnsweredKeeps ==
    ASSUME BuilderInv, flowValidated \/ flowPublished
    PROVE  BuilderInv'
<1>1. PICK c \in Calls : calls' = [calls EXCEPT ![c] = Null] /\ draft' = draft
  BY DEF flowValidated, flowPublished, Ends, Heard, Calls
<1>2. BuilderOK(builder, calls', draft)
  BY <1>1, CallEnds DEF BuilderInv
<1>3. /\ builder' \in BuilderPage /\ builder'.status = builder.status
      /\ builder'.loaded = builder.loaded /\ builder'.graph = builder.graph
      /\ builder'.dirty = builder.dirty /\ builder'.saving = builder.saving
      /\ builder'.overlapped = builder.overlapped /\ builder'.mode = builder.mode
      /\ builder'.trace = builder.trace
  <2>1. builder \in BuilderPage
    BY BuilderTypes
  <2>2. CASE flowValidated
    <3>1. builder' = [builder EXCEPT !.validation = TRUE] \/ builder' = builder
      BY <2>2 DEF flowValidated
    <3> QED
      BY <2>1, <3>1 DEF BuilderPage
  <2>3. CASE flowPublished
    <3>1. CASE builder' = [builder EXCEPT !.publishing = FALSE, !.popover = FALSE,
                                          !.validation = TRUE]
      BY <2>1, <3>1 DEF BuilderPage
    <3>2. CASE builder' = [builder EXCEPT !.publishing = FALSE]
      BY <2>1, <3>2 DEF BuilderPage
    <3> QED
      BY <2>3, <3>1, <3>2 DEF flowPublished
  <2> QED
    BY <2>2, <2>3
<1>4. builder'.mode = "sim" => builder'.trace # Null
  BY <1>3 DEF BuilderInv, BuilderOK, ShowsItsRow
<1>5. BuilderOK(builder', calls', draft)
  BY <1>2, <1>3, <1>4, PageMoves
<1> QED
  BY <1>1, <1>5 DEF BuilderInv

\* The trace of a simulation, and where playback lands in it.
LEMMA SteppedPage ==
    ASSUME NEW b \in BuilderPage, NEW trace \in Nat, b.trace = trace
    PROVE  \E step \in Int : Stepped(b, 1) = [b EXCEPT !.step = step]
<1> DEFINE to == b.step + 1
           last == b.trace - 1
           step == IF to > last THEN last ELSE IF to < -1 THEN -1 ELSE to
<1>1. b.step \in Int
  BY DEF BuilderPage
<1>2. step \in Int
  BY <1>1
<1>3. Stepped(b, 1) = [b EXCEPT !.step = step]
  BY Zenon DEF Stepped
<1> QED
  BY <1>2, <1>3

LEMMA simulatedKeeps ==
    ASSUME BuilderInv, NEW c \in Runs, simulated(c)
    PROVE  BuilderInv'
<1>1. PICK n \in 1..MaxTrace :
        LET run == calls[c]
            landed == IF run.then = "restart" THEN -1 ELSE n - 1
            played == IF Ok(c) THEN [builder EXCEPT !.mode = "sim", !.trace = n,
                                                    !.step = landed, !.running = FALSE]
                      ELSE [builder EXCEPT !.running = FALSE]
        IN  \/ builder' = played
            \/ /\ played.trace # Null
               /\ \E at \in {played.step} \cup 0..(played.trace - 1) :
                     builder' = Stepped([played EXCEPT !.step = at], 1)
  BY Zenon DEF simulated
<1> DEFINE landed == IF calls[c].then = "restart" THEN -1 ELSE n - 1
           played == IF Ok(c) THEN [builder EXCEPT !.mode = "sim", !.trace = n,
                                                   !.step = landed, !.running = FALSE]
                     ELSE [builder EXCEPT !.running = FALSE]
           Like(b) ==
               /\ b \in BuilderPage /\ b.status = builder.status /\ b.loaded = builder.loaded
               /\ b.graph = builder.graph /\ b.dirty = builder.dirty
               /\ b.saving = builder.saving /\ b.overlapped = builder.overlapped
               /\ b.mode = "sim" => b.trace # Null
<1>2. n \in Nat /\ n # Null /\ landed \in Int
  BY TesterAssumption, BuilderAssumption
<1>3. Like(played)
  <2> HIDE DEF landed
  <2>1. CASE Ok(c)
    BY <1>2, <2>1, BuilderTypes DEF BuilderPage
  <2>2. CASE ~Ok(c)
    BY <2>2, BuilderTypes DEF BuilderPage, BuilderInv, BuilderOK, ShowsItsRow
  <2> QED
    BY <2>1, <2>2
<1>4. \/ builder' = played
      \/ /\ played.trace # Null
         /\ \E at \in {played.step} \cup 0..(played.trace - 1) :
               builder' = Stepped([played EXCEPT !.step = at], 1)
  BY <1>1, Zenon
<1> HIDE DEF played
<1>5. Like(builder')
  <2>1. CASE builder' = played
    BY <1>3, <2>1
  <2>2. ASSUME played.trace # Null, NEW at \in {played.step} \cup 0..(played.trace - 1),
               builder' = Stepped([played EXCEPT !.step = at], 1)
        PROVE  Like(builder')
    <3>1. played.trace \in Nat /\ played.step \in Int
      BY <1>3, <2>2 DEF BuilderPage
    <3>2. at \in Int
      BY <3>1
    <3> DEFINE b == [played EXCEPT !.step = at]
    <3>3. Like(b) /\ b.trace = played.trace
      BY <1>3, <3>2 DEF BuilderPage
    <3> HIDE DEF b
    <3>4. PICK step \in Int : Stepped(b, 1) = [b EXCEPT !.step = step]
      BY <3>1, <3>3, SteppedPage
    <3>5. builder' = [b EXCEPT !.step = step]
      BY <2>2, <3>4 DEF b
    <3> QED
      BY <3>3, <3>5 DEF BuilderPage
  <2> QED
    BY <1>4, <2>1, <2>2
<1>6. calls' = [calls EXCEPT ![c] = Null] /\ draft' = draft /\ c \in Calls
  BY DEF simulated, Ends, Heard, Runs, Calls
<1>7. BuilderOK(builder, calls', draft)
  BY <1>6, CallEnds DEF BuilderInv
<1>8. BuilderOK(builder', calls', draft)
  BY <1>5, <1>7, PageMoves
<1> QED
  BY <1>6, <1>8 DEF BuilderInv

-----------------------------------------------------------------------------
\* Every step keeps the invariant.
LEMMA BuilderNextKeeps == BuilderInv /\ [BuilderNext]_builderVars => BuilderInv'
<1> SUFFICES ASSUME BuilderInv, [BuilderNext]_builderVars
             PROVE  BuilderInv'
  OBVIOUS
<1>1. CASE markDirty \/ renderBuilder \/ Retry
  BY <1>1, markDirtyKeeps, renderBuilderKeeps, RetryKeeps
<1>2. CASE Server
  BY <1>2, HandleLoadKeeps, HandleSaveKeeps, HandlePublishKeeps, PlainAnswerKeeps, OtherEditorKeeps
     DEF Server
<1>3. CASE Answers
  BY <1>3, loadTaskKeeps, draftSavedKeeps, flowAnsweredKeeps, simulatedKeeps DEF Answers
<1>4. CASE UNCHANGED builderVars
  BY <1>4 DEF builderVars, BuilderInv
<1> QED
  BY <1>1, <1>2, <1>3, <1>4 DEF BuilderNext

\* The invariant of the flow builder: a clean page shows the row it has loaded, a
\* save that is out carries what is on the screen, and no copy of the draft at its
\* version has another graph.
THEOREM BuilderInvariance == BuilderSpec => []BuilderInv
<1>1. BuilderInit => BuilderInv
  <2>1. CASE /\ draft \in [version : {1}, graph : Graphs]
             /\ builder = NewBuilder(FALSE) /\ calls = Loading
    <3>1. draft \in SavedDraft \cup {Null}
      BY <2>1 DEF SavedDraft
    <3> QED
      BY <2>1, <3>1, NewPageKeeps DEF BuilderInv
  <2>2. CASE /\ draft = Null /\ builder = NewBuilder(TRUE)
             /\ calls = [c \in Calls |-> Null]
    <3>1. (CHOOSE g \in Graphs : TRUE) \in Graphs
      BY BuilderAssumption
    <3>2. /\ builder \in BuilderPage /\ builder.loaded = Null /\ builder.mode = "edit"
      BY <2>2, <3>1 DEF NewBuilder, BuilderPage
    <3> QED
      BY <2>2, <3>2
         DEF BuilderInv, BuilderOK, ShowsItsRow, LoadsAlone, LoadOK, SaveOK, PublishOK, Calls
  <2> QED
    BY <2>1, <2>2 DEF BuilderInit
<1> QED
  BY <1>1, BuilderNextKeeps, PTL DEF BuilderSpec

\* What a publish puts live is the graph on the screen when it was asked for,
\* through the save it starts and whatever else is out, unless the user has
\* edited while a save was out.
THEOREM PublishesWhatWasShown == BuilderSpec => []PublishedIsWhatWasShown
<1>1. BuilderInv => PublishedIsWhatWasShown
  BY DEF BuilderInv, BuilderOK, PublishOK, Succeeded, PublishedIsWhatWasShown, Ok
<1> QED
  BY <1>1, BuilderInvariance, PTL

-----------------------------------------------------------------------------
(***************************************************************************)
(* The shell, for any organisations, modules and number of loads at once.  *)
(* AddressIsShown speaks of a shell that is not loading.  What leads there *)
(* is that a load which is out is of a page the modules allow and, if the  *)
(* page last gone to was undisturbed, of that page and no other; and that  *)
(* no import page of another organisation is shown meanwhile, whose render *)
(* would take the requests along.                                          *)
(***************************************************************************)

-----------------------------------------------------------------------------
(* The inductive invariant *)

Orgs == ShellOrgs \cup {BadOrg, Null}

ShellRow ==
    [mode : {"history", "hash"}, modules : Seq(STRING), address : Paths \cup {Null},
     shown : Paths \cup {Null}, org : Orgs, label : Orgs, client : BOOLEAN,
     booting : BOOLEAN, pending : BOOLEAN, alone : BOOLEAN]

LoadRow == [Loads -> Paths \cup {Null}]

XRow == [sh : ShellRow, ld : LoadRow]

\* A page that is loaded is one the modules allow, of an organisation.
MayLoad(modules, path) ==
    path.page # "home" /\ path.org # BadOrg /\ ~Guarded(modules, path.page)

LoadsMay(x) == \A l \in LoadsOut(x.ld) : MayLoad(x.sh.modules, x.ld[l])

\* The page named is being loaded or shown, and the requests will be its own.
Comes(x, named) ==
    /\ \A l \in LoadsOut(x.ld) : x.ld[l] = named
    /\ LoadsOut(x.ld) = {} => x.sh.shown = named
    /\ x.sh.mode = "history" /\ named.org # Null => x.sh.org = named.org /\ x.sh.client
    /\ x.sh.shown # Null /\ x.sh.shown.page = "imports" => x.sh.shown.org = named.org

GoesWell(x) ==
    LET named == Named(x.sh.modules, x.sh.address)
    IN  x.sh.alone /\ named # Null => Comes(x, named)

\* No page is gone to yet, or one will be.
Unsettled(sh) == sh.pending \/ (sh.mode = "history" /\ sh.booting)

Fits(x) == x \in XRow /\ LoadsMay(x) /\ (Unsettled(x.sh) \/ GoesWell(x))

EmbedRow ==
    [org : Orgs, modules : Seq(STRING), hash : Paths \cup {Null}, wired : BOOLEAN]

ShellInv ==
    /\ embed \in EmbedRow \cup {Null}
    /\ loading \in LoadRow
    /\ shell # Null => Fits(Now)

-----------------------------------------------------------------------------
(* Steps of the shell alone *)

Put(x, s) == [x EXCEPT !.sh = s]
Entered(s, org) == [s EXCEPT !.org = org, !.label = org, !.client = TRUE]
Left(s) == [s EXCEPT !.org = Null, !.label = Null, !.client = FALSE]

\* The fields that the organisation is not one of.
Kept(t, s) ==
    /\ t.mode = s.mode /\ t.modules = s.modules /\ t.address = s.address /\ t.shown = s.shown
    /\ t.booting = s.booting /\ t.pending = s.pending /\ t.alone = s.alone

LEMMA PutIs ==
    ASSUME NEW x \in XRow, NEW s \in ShellRow
    PROVE  Put(x, s) \in XRow /\ Put(x, s).sh = s /\ Put(x, s).ld = x.ld
BY DEF XRow, Put

LEMMA OrgsNull == Null \in Orgs /\ Null \notin Paths
BY ShellAssumption DEF Orgs

LEMMA EnteredIs ==
    ASSUME NEW s \in ShellRow, NEW org \in Orgs
    PROVE  /\ Entered(s, org) \in ShellRow /\ Kept(Entered(s, org), s)
           /\ Entered(s, org).org = org /\ Entered(s, org).client = TRUE
BY DEF ShellRow, Entered, Kept

LEMMA LeftIs ==
    ASSUME NEW s \in ShellRow
    PROVE  Left(s) \in ShellRow /\ Kept(Left(s), s)
BY OrgsNull DEF ShellRow, Left, Kept

LEMMA EnterIs ==
    ASSUME NEW x \in XRow, NEW org \in Orgs
    PROVE  OrgRouteEnter(x, org) = Put(x, Entered(x.sh, org))
BY DEF XRow, ShellRow, OrgRouteEnter, Put, Entered

\* What a change of the organisation leaves.
Same(y, x) == y \in XRow /\ y.ld = x.ld /\ Kept(y.sh, x.sh)

LEMMA EnterFacts ==
    ASSUME NEW x \in XRow, NEW org \in Orgs
    PROVE  /\ Same(OrgRouteEnter(x, org), x)
           /\ OrgRouteEnter(x, org).sh.org = org /\ OrgRouteEnter(x, org).sh.client = TRUE
<1>1. x.sh \in ShellRow
  BY DEF XRow
<1> DEFINE s == Entered(x.sh, org)
<1>2. s \in ShellRow /\ Kept(s, x.sh) /\ s.org = org /\ s.client = TRUE
  BY <1>1, EnteredIs
<1>3. OrgRouteEnter(x, org) = Put(x, s)
  BY EnterIs
<1> HIDE DEF s
<1>4. Put(x, s) \in XRow /\ Put(x, s).sh = s /\ Put(x, s).ld = x.ld
  BY <1>2, PutIs
<1> QED
  BY <1>2, <1>3, <1>4 DEF Same

LEMMA SyncFacts ==
    ASSUME NEW x \in XRow
    PROVE  Same(SyncOrgIdFromUrl(x), x)
<1>1. x.sh \in ShellRow
  BY DEF XRow
<1>2. CASE x.sh.mode = "history" /\ x.sh.address # Null /\ x.sh.address.org # Null
  <2>1. x.sh.address.org \in Orgs
    BY <1>1, <1>2, OrgsNull DEF ShellRow, Paths, Home, Playground, Path, Orgs
  <2>2. PICK o \in Orgs : SyncOrgIdFromUrl(x) = OrgRouteEnter(x, o)
    BY <1>2, <2>1 DEF SyncOrgIdFromUrl
  <2> QED
    BY <2>2, EnterFacts
<1>3. CASE ~(x.sh.mode = "history" /\ x.sh.address # Null /\ x.sh.address.org # Null)
  <2>1. SyncOrgIdFromUrl(x) = Put(x, Left(x.sh))
    BY <1>1, <1>3 DEF SyncOrgIdFromUrl, Put, Left, XRow, ShellRow
  <2>2. Left(x.sh) \in ShellRow /\ Kept(Left(x.sh), x.sh)
    BY <1>1, LeftIs
  <2>3. /\ Put(x, Left(x.sh)) \in XRow /\ Put(x, Left(x.sh)).sh = Left(x.sh)
        /\ Put(x, Left(x.sh)).ld = x.ld
    BY <2>2, PutIs
  <2> QED
    BY <2>1, <2>2, <2>3 DEF Same
<1> QED
  BY <1>2, <1>3

-----------------------------------------------------------------------------
(* Loads *)

LEMMA LoadFacts ==
    ASSUME NEW x \in XRow, NEW path \in Paths, LoadsOut(x.ld) # Loads
    PROVE  /\ LoadPage(x, path) \in XRow /\ LoadPage(x, path).sh = x.sh
           /\ \E l \in Loads : /\ x.ld[l] = Null
                              /\ LoadPage(x, path).ld = [x.ld EXCEPT ![l] = path]
<1> DEFINE y == LoadPage(x, path)
           l == CHOOSE m \in Loads : x.ld[m] = Null
           d == [x.ld EXCEPT ![l] = path]
<1>1. x.ld \in LoadRow /\ x.sh \in ShellRow
  BY DEF XRow
<1>2. \E m \in Loads : x.ld[m] = Null
  BY <1>1 DEF LoadsOut, LoadRow
<1>3. l \in Loads /\ x.ld[l] = Null
  BY <1>2
<1>4. y = [x EXCEPT !.ld = d]
  BY <1>1 DEF LoadPage, XRow, LoadRow
<1> HIDE DEF l
<1>5. d \in LoadRow
  BY <1>1, <1>3 DEF LoadRow
<1> HIDE DEF d
<1>6. y \in XRow /\ y.sh = x.sh /\ y.ld = d
  BY <1>4, <1>5 DEF XRow
<1> QED
  BY <1>3, <1>6 DEF d

LEMMA LoadMay ==
    ASSUME NEW x \in XRow, NEW path \in Paths, LoadsOut(x.ld) # Loads, LoadsMay(x),
           MayLoad(x.sh.modules, path)
    PROVE  LoadPage(x, path) \in XRow /\ LoadsMay(LoadPage(x, path))
<1>1. /\ LoadPage(x, path) \in XRow /\ LoadPage(x, path).sh = x.sh
      /\ \E l \in Loads : LoadPage(x, path).ld = [x.ld EXCEPT ![l] = path]
  BY LoadFacts
<1>2. x.ld \in LoadRow
  BY DEF XRow
<1> QED
  BY <1>1, <1>2 DEF LoadsMay, LoadsOut, LoadRow

LEMMA LoadComes ==
    ASSUME NEW x \in XRow, NEW path \in Paths, LoadsOut(x.ld) # Loads,
           \A l \in LoadsOut(x.ld) : x.ld[l] = path,
           x.sh.mode = "history" /\ path.org # Null => x.sh.org = path.org /\ x.sh.client,
           x.sh.shown # Null /\ x.sh.shown.page = "imports" => x.sh.shown.org = path.org
    PROVE  Comes(LoadPage(x, path), path)
<1>1. /\ LoadPage(x, path) \in XRow /\ LoadPage(x, path).sh = x.sh
  BY LoadFacts
<1>2. PICK l \in Loads : LoadPage(x, path).ld = [x.ld EXCEPT ![l] = path]
  BY LoadFacts
<1>3. x.ld \in LoadRow /\ path # Null
  BY OrgsNull DEF XRow
<1>4. l \in LoadsOut(LoadPage(x, path).ld)
  BY <1>2, <1>3 DEF LoadsOut, LoadRow
<1>5. \A m \in LoadsOut(LoadPage(x, path).ld) : LoadPage(x, path).ld[m] = path
  BY <1>2, <1>3 DEF LoadsOut, LoadRow
<1> QED
  BY <1>1, <1>4, <1>5 DEF Comes

-----------------------------------------------------------------------------
(* Going to a page *)

XOK(x) == x \in XRow /\ LoadsMay(x) /\ GoesWell(x)

LEMMA Pages ==
    /\ Home \in Paths /\ Playground \in Paths
    /\ Home.page = "home" /\ Home.org = Null
    /\ Playground.page = "playground" /\ Playground.org = Null
    /\ "home" \notin Entities /\ "playground" \notin Entities /\ "imports" \notin Entities
    /\ Home # Null /\ Playground # Null /\ Null # BadOrg
BY ShellAssumption DEF Paths, Home, Playground, Path, Entities

LEMMA OrgPath ==
    ASSUME NEW path \in Paths, path # Home, path # Playground
    PROVE  /\ path \in [org : ShellOrgs \cup {BadOrg}, page : OrgPages]
           /\ path.org \in Orgs /\ path.org # Null /\ path.page # "home"
BY ShellAssumption DEF Paths, OrgPages, Entities, Orgs

LEMMA FirstModuleMay ==
    ASSUME NEW modules \in Seq(STRING), NEW page, Guarded(modules, page)
    PROVE  ~Guarded(modules, modules[1])
<1>1. modules # <<>> => 1 \in 1..Len(modules)
  OBVIOUS
<1> QED
  BY <1>1 DEF Guarded

LEMMA GotoHome ==
    ASSUME NEW x \in XRow, LoadsMay(x), x.sh.address = Home,
           x.sh.alone => \A l \in LoadsOut(x.ld) : x.ld[l] = Home
    PROVE  XOK(ShowHome(x))
<1>1. x.sh \in ShellRow /\ x.ld \in LoadRow
  BY DEF XRow
<1> DEFINE s == [x.sh EXCEPT !.shown = Home]
<1>2. /\ s \in ShellRow /\ s.shown = Home /\ s.alone = x.sh.alone /\ s.modules = x.sh.modules
      /\ s.address = Home
  BY <1>1, Pages DEF ShellRow
<1>3. ShowHome(x) = Put(x, s)
  BY DEF ShowHome, Put, XRow
<1> HIDE DEF s
<1>4. ShowHome(x) \in XRow /\ ShowHome(x).sh = s /\ ShowHome(x).ld = x.ld
  BY <1>2, <1>3, PutIs
<1>5. LoadsMay(ShowHome(x))
  BY <1>2, <1>4 DEF LoadsMay
<1>6. Named(s.modules, s.address) = Home
  BY <1>2, Pages DEF Named, Guarded
<1>7. s.alone => LoadsOut(x.ld) = {}
  BY <1>2, Pages DEF LoadsMay, MayLoad
<1>8. s.alone => Comes(ShowHome(x), Home)
  BY <1>2, <1>4, <1>7, Pages DEF Comes
<1>9. GoesWell(ShowHome(x))
  BY <1>4, <1>6, <1>8 DEF GoesWell
<1> QED
  BY <1>4, <1>5, <1>9 DEF XOK

\* The undisturbed: what Goto records before it goes to path.
Told(x, path) == [x EXCEPT !.sh.alone = Undisturbed(x, path)]

\* What Goto knows when it goes to path.
Tells(x, path) ==
    /\ x \in XRow /\ LoadsMay(x) /\ LoadsOut(x.ld) # Loads /\ x.sh.address = path
    /\ x.sh.alone =>
           /\ \A l \in LoadsOut(x.ld) : x.ld[l] = path
           /\ x.sh.shown # Null /\ x.sh.shown.page = "imports" => x.sh.shown.org = path.org

LEMMA ToldTells ==
    ASSUME NEW x \in XRow, LoadsMay(x), LoadsOut(x.ld) # Loads, NEW path \in Paths,
           x.sh.address = path
    PROVE  Tells(Told(x, path), path)
<1>1. x.sh \in ShellRow /\ x.ld \in LoadRow
  BY DEF XRow
<1> DEFINE u == Undisturbed(x, path)
           s == [x.sh EXCEPT !.alone = u]
<1>2. /\ u \in BOOLEAN
      /\ u => /\ \A l \in LoadsOut(x.ld) : x.ld[l] = path
              /\ x.sh.shown # Null /\ x.sh.shown.page = "imports" => x.sh.shown.org = path.org
  BY DEF Undisturbed
<1>3. Told(x, path) = Put(x, s)
  BY DEF Told, Put, XRow
<1> HIDE DEF u
<1>4. /\ s \in ShellRow /\ s.alone = u /\ s.modules = x.sh.modules /\ s.address = path
      /\ s.shown = x.sh.shown
  BY <1>1, <1>2 DEF ShellRow
<1> HIDE DEF s
<1>5. Told(x, path) \in XRow /\ Told(x, path).sh = s /\ Told(x, path).ld = x.ld
  BY <1>3, <1>4, PutIs
<1> QED
  BY <1>2, <1>4, <1>5 DEF Tells, LoadsMay

LEMMA GotoPlayground ==
    ASSUME NEW x, Tells(x, Playground)
    PROVE  XOK(LoadPage(x, Playground))
<1> DEFINE y == LoadPage(x, Playground)
<1>1. MayLoad(x.sh.modules, Playground)
  BY Pages DEF MayLoad, Guarded
<1>2. y \in XRow /\ LoadsMay(y) /\ y.sh = x.sh
  BY <1>1, Pages, LoadMay, LoadFacts DEF Tells
<1>3. x.sh.alone => Comes(y, Playground)
  BY Pages, LoadComes DEF Tells
<1>4. Named(x.sh.modules, x.sh.address) = Playground
  BY Pages DEF Tells, Named, Guarded
<1> QED
  BY <1>2, <1>3, <1>4 DEF XOK, GoesWell

LEMMA RejectedOK ==
    ASSUME NEW x, NEW path \in Paths, path.org = BadOrg, Tells(x, path)
    PROVE  XOK(Rejected(x))
<1> DEFINE s == [x.sh EXCEPT !.address = Home]
           z == [x EXCEPT !.sh.address = Home]
           h == ShowHome(z)
<1>1. x \in XRow /\ x.sh \in ShellRow /\ x.ld \in LoadRow
  BY DEF Tells, XRow
<1>2. /\ s \in ShellRow /\ s.address = Home /\ s.modules = x.sh.modules /\ s.alone = x.sh.alone
      /\ s.mode = x.sh.mode
  BY <1>1, Pages DEF ShellRow
<1>3. z = Put(x, s)
  BY <1>1 DEF Put, XRow
<1> HIDE DEF s
<1>4. z \in XRow /\ z.sh = s /\ z.ld = x.ld
  BY <1>1, <1>2, <1>3, PutIs
<1>5. LoadsMay(z)
  BY <1>2, <1>4 DEF LoadsMay, Tells
<1>6. x.sh.alone => LoadsOut(x.ld) = {}
  BY DEF Tells, LoadsMay, MayLoad
<1> HIDE DEF z
<1>7. XOK(h)
  BY <1>2, <1>4, <1>5, <1>6, GotoHome
<1>8. h \in XRow /\ h.sh.address = Home
  <2>1. h \in XRow
    BY <1>7 DEF XOK
  <2>2. h.sh.address = z.sh.address
    BY <1>4 DEF ShowHome, XRow, ShellRow
  <2> QED
    BY <1>2, <1>4, <2>1, <2>2
<1> HIDE DEF h
<1>9. Same(SyncOrgIdFromUrl(h), h)
  BY <1>8, SyncFacts
<1>10. XOK(SyncOrgIdFromUrl(h))
  <2> DEFINE y == SyncOrgIdFromUrl(h)
  <2>1. y \in XRow /\ y.ld = h.ld /\ Kept(y.sh, h.sh)
    BY <1>9 DEF Same
  <2> HIDE DEF y
  <2>2. LoadsMay(y)
    BY <1>7, <2>1 DEF XOK, LoadsMay, Kept
  <2>3. Named(y.sh.modules, y.sh.address) = Home
    BY <1>8, <2>1, Pages DEF Named, Guarded, Kept
  <2>4. Named(h.sh.modules, h.sh.address) = Home
    BY <1>8, Pages DEF Named, Guarded
  <2>5. y.sh.alone => Comes(y, Home)
    BY <1>7, <2>1, <2>4, Pages DEF XOK, GoesWell, Comes, Kept
  <2> QED
    BY <2>1, <2>2, <2>3, <2>5 DEF XOK, GoesWell, y
<1>11. Rejected(x) = h \/ Rejected(x) = SyncOrgIdFromUrl(h)
  BY DEF Rejected, h, z
<1> QED
  BY <1>7, <1>10, <1>11

LEMMA SameTells ==
    ASSUME NEW x, NEW path \in Paths, Tells(x, path), NEW y, Same(y, x)
    PROVE  Tells(y, path)
BY DEF Same, Kept, Tells, LoadsMay

\* A page of an organisation, by the way of the guard.
LEMMA EnteredOK ==
    ASSUME NEW x, NEW path \in Paths, path # Home, path # Playground, path.org # BadOrg,
           Tells(x, path), x.sh.org = path.org, x.sh.client = TRUE
    PROVE  XOK(IF Guarded(x.sh.modules, path.page) THEN ToFirstModule(x, path.org)
               ELSE LoadPage(x, path))
<1>1. path.org \in ShellOrgs /\ path.org # Null /\ path.page \in OrgPages
      /\ path.page # "home" /\ path # Null
  BY OrgPath, OrgsNull
<1>2. x \in XRow /\ x.sh.modules \in Seq(STRING) /\ x.sh.address = path
  BY DEF Tells, XRow, ShellRow
<1>3. CASE ~Guarded(x.sh.modules, path.page)
  <2> DEFINE y == LoadPage(x, path)
  <2>1. MayLoad(x.sh.modules, path)
    BY <1>1, <1>3 DEF MayLoad
  <2>2. y \in XRow /\ LoadsMay(y) /\ y.sh = x.sh
    BY <2>1, LoadMay, LoadFacts DEF Tells
  <2>3. x.sh.alone => Comes(y, path)
    BY LoadComes DEF Tells
  <2>4. Named(x.sh.modules, x.sh.address) = path
    BY <1>2, <1>3 DEF Named
  <2> HIDE DEF y
  <2>5. XOK(y)
    BY <2>2, <2>3, <2>4 DEF XOK, GoesWell
  <2> QED
    BY <1>3, <2>5 DEF y
<1>4. CASE Guarded(x.sh.modules, path.page)
  <2> DEFINE m == x.sh.modules[1]
             q == Path(path.org, m)
             y == LoadPage(x, q)
  <2>1. x.sh.alone => LoadsOut(x.ld) = {}
    BY <1>4 DEF Tells, LoadsMay, MayLoad
  <2>2. ~Guarded(x.sh.modules, m)
    BY <1>2, <1>4, FirstModuleMay
  <2>3. CASE m \in RoutedModules
    <3>1. q \in Paths /\ q.org = path.org /\ q.page = m /\ m # "home"
      BY <1>1, <2>3 DEF Path, Paths, RoutedModules, OrgPages, Entities
    <3>2. Named(x.sh.modules, x.sh.address) = q
      BY <1>1, <1>2, <1>4, <2>3 DEF Named
    <3>3. ToFirstModule(x, path.org) = y
      BY <2>3 DEF ToFirstModule
    <3> HIDE DEF q, m
    <3>4. MayLoad(x.sh.modules, q)
      BY <2>2, <3>1 DEF MayLoad
    <3>5. y \in XRow /\ LoadsMay(y) /\ y.sh = x.sh
      BY <3>1, <3>4, LoadMay, LoadFacts DEF Tells
    <3>6. x.sh.alone => Comes(y, q)
      BY <2>1, <3>1, LoadComes DEF Tells
    <3> HIDE DEF y
    <3>7. XOK(y)
      BY <3>2, <3>5, <3>6 DEF XOK, GoesWell
    <3> QED
      BY <1>4, <3>3, <3>7
  <2>4. CASE m \notin RoutedModules
    <3>1. ToFirstModule(x, path.org) = x
      BY <2>4 DEF ToFirstModule
    <3>2. Named(x.sh.modules, x.sh.address) = Null
      BY <1>1, <1>2, <1>4, <2>4 DEF Named
    <3>3. XOK(x)
      BY <3>2 DEF XOK, GoesWell, Tells
    <3> QED
      BY <1>4, <3>1, <3>3
  <2> QED
    BY <2>3, <2>4
<1> QED
  BY <1>3, <1>4

LEMMA ComposedEnterOK ==
    ASSUME NEW x, NEW path \in Paths, path # Home, path # Playground, Tells(x, path)
    PROVE  XOK(ComposedEnter(x, path))
<1>1. CASE path.org = BadOrg
  BY <1>1, RejectedOK DEF ComposedEnter
<1>2. CASE path.org # BadOrg
  <2> DEFINE y == OrgRouteEnter(x, path.org)
  <2>1. Same(y, x) /\ y.sh.org = path.org /\ y.sh.client = TRUE
    BY OrgPath, EnterFacts DEF Tells
  <2>2. Tells(y, path)
    BY <2>1, SameTells
  <2>3. ComposedEnter(x, path) = IF Guarded(y.sh.modules, path.page)
                                 THEN ToFirstModule(y, path.org) ELSE LoadPage(y, path)
    BY <1>2 DEF ComposedEnter
  <2> HIDE DEF y
  <2> QED
    BY <1>2, <2>1, <2>2, <2>3, EnteredOK
<1> QED
  BY <1>1, <1>2

LEMMA GotoOK ==
    ASSUME NEW x \in XRow, LoadsMay(x), LoadsOut(x.ld) # Loads, NEW path \in Paths \cup {Null},
           x.sh.address = path
    PROVE  XOK(Goto(x, path))
<1>1. CASE path = Null
  <2>1. Goto(x, path) = x /\ Named(x.sh.modules, x.sh.address) = Null
    BY <1>1 DEF Goto, Named
  <2> QED
    BY <2>1 DEF XOK, GoesWell
<1>2. CASE path # Null
  <2> DEFINE y == Told(x, path)
  <2>1. Tells(y, path)
    BY <1>2, ToldTells
  <2>2. Goto(x, path) = CASE path = Home -> ShowHome(y)
                          [] path = Playground -> LoadPage(y, path)
                          [] OTHER -> ComposedEnter(y, path)
    BY <1>2 DEF Goto, Told
  <2> HIDE DEF y
  <2>3. CASE path = Home
    <3>1. /\ y \in XRow /\ LoadsMay(y) /\ y.sh.address = Home
          /\ y.sh.alone => \A l \in LoadsOut(y.ld) : y.ld[l] = Home
      BY <2>1, <2>3 DEF Tells
    <3>2. XOK(ShowHome(y))
      BY <3>1, GotoHome
    <3>3. Goto(x, path) = ShowHome(y)
      BY <2>2, <2>3, Pages
    <3> QED
      BY <3>2, <3>3
  <2>4. CASE path = Playground
    BY <2>1, <2>2, <2>4, Pages, GotoPlayground DEF Home, Playground, Path
  <2>5. CASE path # Home /\ path # Playground
    BY <1>2, <2>1, <2>2, <2>5, ComposedEnterOK
  <2> QED
    BY <2>3, <2>4, <2>5
<1> QED
  BY <1>1, <1>2

\* The address and what is to come of it.
Readdressed(y, x, path) ==
    /\ y \in XRow /\ y.ld = x.ld /\ y.sh.address = path
    /\ y.sh.modules = x.sh.modules

LEMMA ReaddressedMay ==
    ASSUME NEW x \in XRow, LoadsMay(x), NEW path, NEW y, Readdressed(y, x, path)
    PROVE  LoadsMay(y)
BY DEF Readdressed, LoadsMay

LEMMA NavigateOK ==
    ASSUME NEW x \in XRow, LoadsMay(x), LoadsOut(x.ld) # Loads, NEW path \in Paths \cup {Null}
    PROVE  XOK(Navigate(x, path))
<1>1. x.sh \in ShellRow /\ x.ld \in LoadRow
  BY DEF XRow
<1> DEFINE u == [x EXCEPT !.sh.address = path]
           v == [x EXCEPT !.sh.address = path, !.sh.pending = TRUE]
           w == SyncOrgIdFromUrl(v)
<1>2. Readdressed(u, x, path)
  <2> DEFINE s == [x.sh EXCEPT !.address = path]
  <2>1. s \in ShellRow /\ s.address = path /\ s.modules = x.sh.modules
    BY <1>1 DEF ShellRow
  <2>2. u = Put(x, s)
    BY DEF Put, XRow
  <2> HIDE DEF s, u
  <2> QED
    BY <2>1, <2>2, PutIs DEF Readdressed
<1>3. Readdressed(v, x, path)
  <2> DEFINE s == [x.sh EXCEPT !.address = path, !.pending = TRUE]
  <2>1. s \in ShellRow /\ s.address = path /\ s.modules = x.sh.modules
    BY <1>1 DEF ShellRow
  <2>2. v = Put(x, s)
    BY DEF Put, XRow
  <2> HIDE DEF s, v
  <2> QED
    BY <2>1, <2>2, PutIs DEF Readdressed
<1> HIDE DEF u, v
<1>4. Readdressed(w, x, path)
  BY <1>3, SyncFacts DEF Readdressed, Same, Kept
<1>5. \/ Navigate(x, path) = Goto(u, path)
      \/ x.sh.address = path /\ Navigate(x, path) = Goto(x, path)
      \/ Navigate(x, path) = Goto(w, path)
  BY DEF Navigate, u, v
<1> HIDE DEF w
<1>6. \A y : Readdressed(y, x, path) => XOK(Goto(y, path))
  <2> TAKE y
  <2> HAVE Readdressed(y, x, path)
  <2>1. LoadsMay(y)
    BY ReaddressedMay
  <2> QED
    BY <2>1, GotoOK DEF Readdressed
<1>7. x.sh.address = path => XOK(Goto(x, path))
  BY GotoOK
<1> QED
  BY <1>2, <1>4, <1>5, <1>6, <1>7

-----------------------------------------------------------------------------
(* Steps *)

LEMMA Becoming ==
    ASSUME NEW x, Fits(x), Becomes(x), embed' \in EmbedRow \cup {Null}
    PROVE  ShellInv'
<1>1. shell' = x.sh /\ loading' = x.ld /\ x \in XRow
  BY DEF Fits, Becomes
<1>2. Now' = x
  BY <1>1 DEF Now, XRow
<1>3. loading' \in LoadRow
  BY <1>1 DEF XRow
<1>4. Fits(Now)'
  BY <1>2 DEF Fits, Unsettled, LoadsMay, GoesWell, Comes, Named, Guarded, MayLoad, LoadsOut
<1> QED
  BY <1>3, <1>4 DEF ShellInv

LEMMA BecomingOK ==
    ASSUME NEW x, XOK(x), Becomes(x), UNCHANGED embed, ShellInv
    PROVE  ShellInv'
<1>1. Fits(x)
  BY DEF XOK, Fits
<1>2. embed' \in EmbedRow \cup {Null}
  BY DEF ShellInv
<1> QED
  BY <1>1, <1>2, Becoming

LEMMA NowFits ==
    ASSUME ShellInv, shell # Null
    PROVE  /\ Now \in XRow /\ LoadsMay(Now) /\ Now.sh = shell /\ Now.ld = loading
           /\ shell \in ShellRow /\ loading \in LoadRow
           /\ (Unsettled(shell) \/ GoesWell(Now))
<1>1. Fits(Now) /\ Now.sh = shell /\ Now.ld = loading
  BY DEF ShellInv, Now
<1> QED
  BY <1>1 DEF Fits, XRow

LEMMA ConnectedKeeps ==
    ASSUME ShellInv, ConnectedShell
    PROVE  ShellInv'
<1> DEFINE x == [Now EXCEPT !.sh.booting = FALSE]
           s == [shell EXCEPT !.booting = FALSE]
<1>1. /\ Now \in XRow /\ LoadsMay(Now) /\ Now.sh = shell /\ Now.ld = loading
      /\ shell \in ShellRow /\ (Unsettled(shell) \/ GoesWell(Now))
  BY NowFits DEF ConnectedShell, MayGoto
<1>2. /\ s \in ShellRow /\ s.address = shell.address /\ s.modules = shell.modules
      /\ s.pending = shell.pending /\ s.mode = shell.mode /\ s.alone = shell.alone
      /\ s.shown = shell.shown /\ s.org = shell.org /\ s.client = shell.client
  BY <1>1 DEF ShellRow
<1>3. x = Put(Now, s)
  BY <1>1 DEF Put, XRow
<1>4. /\ LoadsOut(loading) # Loads /\ UNCHANGED embed
      /\ Becomes(IF shell.mode = "history" THEN Goto(x, shell.address) ELSE x)
  BY DEF ConnectedShell, MayGoto
<1> HIDE DEF s, x
<1>5. x \in XRow /\ x.sh = s /\ x.ld = loading
  BY <1>1, <1>2, <1>3, PutIs
<1>6. LoadsMay(x)
  BY <1>1, <1>2, <1>5 DEF LoadsMay
<1>7. CASE shell.mode = "history"
  <2>1. shell.address \in Paths \cup {Null} /\ x.sh.address = shell.address
    BY <1>1, <1>2, <1>5 DEF ShellRow
  <2>2. XOK(Goto(x, shell.address))
    BY <1>4, <1>5, <1>6, <2>1, GotoOK
  <2> QED
    BY <1>4, <1>7, <2>2, BecomingOK
<1>8. CASE shell.mode # "history"
  <2>1. Unsettled(s) \/ GoesWell(x)
    BY <1>1, <1>2, <1>5, <1>8 DEF Unsettled, GoesWell, Comes
  <2>2. Fits(x)
    BY <1>5, <1>6, <2>1 DEF Fits
  <2>3. Becomes(x) /\ embed' \in EmbedRow \cup {Null}
    BY <1>4, <1>8 DEF ShellInv
  <2> QED
    BY <2>2, <2>3, Becoming
<1> QED
  BY <1>7, <1>8

LEMMA ImportKeeps ==
    ASSUME ShellInv, ImportRendered
    PROVE  ShellInv'
<1> DEFINE x == [Now EXCEPT !.sh.org = shell.shown.org]
           s == [shell EXCEPT !.org = shell.shown.org]
<1>1. /\ Now \in XRow /\ LoadsMay(Now) /\ Now.sh = shell /\ Now.ld = loading
      /\ shell \in ShellRow /\ (Unsettled(shell) \/ GoesWell(Now))
  BY NowFits DEF ImportRendered
<1>2. shell.shown # Null /\ shell.shown.page = "imports" /\ Becomes(x) /\ UNCHANGED embed
  BY DEF ImportRendered
<1>3. shell.shown.org \in Orgs
  BY <1>1, <1>2, Pages, OrgPath DEF ShellRow
<1>4. /\ s \in ShellRow /\ s.address = shell.address /\ s.modules = shell.modules
      /\ s.pending = shell.pending /\ s.mode = shell.mode /\ s.alone = shell.alone
      /\ s.shown = shell.shown /\ s.org = shell.shown.org /\ s.client = shell.client
      /\ s.booting = shell.booting
  BY <1>1, <1>3 DEF ShellRow
<1>5. x = Put(Now, s)
  BY <1>1 DEF Put, XRow
<1> HIDE DEF s, x
<1>6. x \in XRow /\ x.sh = s /\ x.ld = loading
  BY <1>1, <1>4, <1>5, PutIs
<1>7. LoadsMay(x)
  BY <1>1, <1>4, <1>6 DEF LoadsMay
<1>8. Unsettled(s) \/ GoesWell(x)
  BY <1>1, <1>2, <1>4, <1>6 DEF Unsettled, GoesWell, Comes
<1>9. Fits(x)
  BY <1>6, <1>7, <1>8 DEF Fits
<1> QED
  BY <1>2, <1>9, Becoming DEF ShellInv

LEMMA LandedKeeps ==
    ASSUME ShellInv, NEW l \in Loads, Landed(l)
    PROVE  ShellInv'
<1> DEFINE d == [loading EXCEPT ![l] = Null]
           x == [Now EXCEPT !.ld[l] = Null, !.sh.shown = loading[l]]
           y == [Now EXCEPT !.ld[l] = Null, !.sh.alone = FALSE]
           s == [shell EXCEPT !.shown = loading[l]]
           t == [shell EXCEPT !.alone = FALSE]
<1>1. /\ Now \in XRow /\ LoadsMay(Now) /\ Now.sh = shell /\ Now.ld = loading
      /\ shell \in ShellRow /\ (Unsettled(shell) \/ GoesWell(Now)) /\ loading \in LoadRow
  BY NowFits DEF Landed
<1>2. loading[l] # Null /\ (Becomes(x) \/ Becomes(y)) /\ UNCHANGED embed
  BY DEF Landed
<1>3. loading[l] \in Paths /\ l \in LoadsOut(loading)
  BY <1>1, <1>2 DEF LoadRow, LoadsOut
<1>4. /\ d \in LoadRow /\ LoadsOut(d) = LoadsOut(loading) \ {l}
      /\ \A m \in LoadsOut(d) : d[m] = loading[m]
  BY <1>1 DEF LoadRow, LoadsOut
<1>5. x = [sh |-> s, ld |-> d] /\ y = [sh |-> t, ld |-> d]
  <2>1. Now = [sh |-> shell, ld |-> loading]
    BY DEF Now
  <2>2. x = [[Now EXCEPT !.ld = d] EXCEPT !.sh = s]
    BY <1>1, <2>1
  <2>3. y = [[Now EXCEPT !.ld = d] EXCEPT !.sh = t]
    BY <1>1, <2>1
  <2> HIDE DEF x, y, s, t, d
  <2> QED
    BY <2>1, <2>2, <2>3
<1> HIDE DEF x, y, d
<1>6. CASE Becomes(x)
  <2>1. /\ s \in ShellRow /\ s.address = shell.address /\ s.modules = shell.modules
        /\ s.pending = shell.pending /\ s.mode = shell.mode /\ s.alone = shell.alone
        /\ s.shown = loading[l] /\ s.org = shell.org /\ s.client = shell.client
        /\ s.booting = shell.booting
    BY <1>1, <1>3 DEF ShellRow
  <2> HIDE DEF s
  <2>2. x \in XRow /\ x.sh = s /\ x.ld = d
    BY <1>4, <1>5, <2>1 DEF XRow
  <2>3. LoadsMay(x)
    BY <1>1, <1>4, <2>1, <2>2 DEF LoadsMay
  <2>4. Unsettled(s) \/ GoesWell(x)
    BY <1>1, <1>3, <1>4, <2>1, <2>2 DEF Unsettled, GoesWell, Comes
  <2>5. Fits(x)
    BY <2>2, <2>3, <2>4 DEF Fits
  <2> QED
    BY <1>2, <1>6, <2>5, Becoming DEF ShellInv
<1>7. CASE Becomes(y)
  <2>1. t \in ShellRow /\ t.modules = shell.modules /\ t.alone = FALSE
    BY <1>1 DEF ShellRow
  <2> HIDE DEF t
  <2>2. y \in XRow /\ y.sh = t /\ y.ld = d
    BY <1>4, <1>5, <2>1 DEF XRow
  <2>3. LoadsMay(y)
    BY <1>1, <1>4, <2>1, <2>2 DEF LoadsMay
  <2>4. Fits(y)
    BY <2>1, <2>2, <2>3 DEF Fits, GoesWell
  <2> QED
    BY <1>2, <1>7, <2>4, Becoming DEF ShellInv
<1> QED
  BY <1>2, <1>6, <1>7

LEMMA GoesToKeeps ==
    ASSUME ShellInv, shell # Null, LoadsOut(loading) # Loads, UNCHANGED embed,
           NEW path \in Paths \cup {Null}, Becomes(Navigate(Now, path))
    PROVE  ShellInv'
<1>1. Now \in XRow /\ LoadsMay(Now) /\ Now.ld = loading
  BY NowFits
<1>2. XOK(Navigate(Now, path))
  BY <1>1, NavigateOK
<1> QED
  BY <1>2, BecomingOK

LEMMA HandleNavigateKeeps ==
    ASSUME ShellInv, HandleNavigate
    PROVE  ShellInv'
<1>1. shell # Null /\ LoadsOut(loading) # Loads /\ UNCHANGED embed /\ shell \in ShellRow
  BY NowFits DEF HandleNavigate, MayGoto
<1>2. \A org \in Orgs, page \in OrgPages : org # Null => Path(org, page) \in Paths
  BY DEF Orgs, Path, Paths
<1>3. VisibleEntries(shell.modules) \subseteq OrgPages
  BY DEF VisibleEntries, OrgPages, Entities
<1>4. \E path \in Paths \cup {Null} : Becomes(Navigate(Now, path))
  <2>1. CASE \E page \in VisibleEntries(shell.modules) :
                Becomes(Navigate(Now, IF shell.label = Null THEN Null
                                      ELSE Path(shell.label, page)))
    <3>1. PICK page \in OrgPages :
              Becomes(Navigate(Now, IF shell.label = Null THEN Null ELSE Path(shell.label, page)))
      BY <1>3, <2>1
    <3>2. shell.label \in Orgs
      BY <1>1 DEF ShellRow
    <3>3. CASE shell.label = Null
      BY <3>1, <3>3
    <3>4. CASE shell.label # Null
      BY <1>2, <3>1, <3>2, <3>4
    <3> QED
      BY <3>3, <3>4
  <2>2. CASE \E page \in OrgPages :
                /\ shell.shown # Null /\ shell.shown.org # Null
                /\ Becomes(Navigate(Now, Path(shell.shown.org, page)))
    <3>1. PICK page \in OrgPages :
              /\ shell.shown # Null /\ shell.shown.org # Null
              /\ Becomes(Navigate(Now, Path(shell.shown.org, page)))
      BY <2>2
    <3>2. shell.shown.org \in Orgs
      <4>1. shell.shown \in Paths
        BY <1>1, <3>1 DEF ShellRow
      <4> QED
        BY <3>1, <4>1, Pages, OrgPath
    <3> QED
      BY <1>2, <3>1, <3>2
  <2> QED
    BY <2>1, <2>2 DEF HandleNavigate
<1> QED
  BY <1>1, <1>4, GoesToKeeps

LEMMA PopStateKeeps ==
    ASSUME ShellInv, HandlePopState
    PROVE  ShellInv'
<1>1. /\ Now \in XRow /\ LoadsMay(Now) /\ Now.sh = shell /\ Now.ld = loading
      /\ shell \in ShellRow
  BY NowFits DEF HandlePopState, MayGoto
<1>2. LoadsOut(loading) # Loads /\ UNCHANGED embed
  BY DEF HandlePopState, MayGoto
<1>3. PICK path \in Addresses :
          LET x == SyncOrgIdFromUrl([Now EXCEPT !.sh.address = path])
          IN  Becomes(IF shell.mode = "history" THEN Goto(x, path)
                      ELSE [x EXCEPT !.sh.pending = TRUE])
  BY DEF HandlePopState
<1>4. path \in Paths \cup {Null}
  BY ShellAssumption
<1> DEFINE s == [shell EXCEPT !.address = path]
           u == [Now EXCEPT !.sh.address = path]
           x == SyncOrgIdFromUrl(u)
           v == [x EXCEPT !.sh.pending = TRUE]
<1>5. s \in ShellRow /\ s.address = path /\ s.modules = shell.modules
  BY <1>1, <1>4 DEF ShellRow
<1>6. u = Put(Now, s)
  BY <1>1 DEF Put, XRow
<1> HIDE DEF s, u
<1>7. u \in XRow /\ u.sh = s /\ u.ld = loading
  BY <1>1, <1>5, <1>6, PutIs
<1>8. x \in XRow /\ x.ld = loading /\ x.sh.address = path /\ x.sh.modules = shell.modules
  BY <1>5, <1>7, SyncFacts DEF Same, Kept
<1> HIDE DEF x
<1>9. LoadsMay(x)
  BY <1>1, <1>8 DEF LoadsMay
<1>10. CASE shell.mode = "history"
  <2>1. XOK(Goto(x, path))
    BY <1>2, <1>4, <1>8, <1>9, GotoOK
  <2>2. Becomes(Goto(x, path))
    BY <1>3, <1>10 DEF u, x
  <2> QED
    BY <1>2, <2>1, <2>2, BecomingOK
<1>11. CASE shell.mode # "history"
  <2> DEFINE t == [x.sh EXCEPT !.pending = TRUE]
  <2>1. Becomes(v)
    BY <1>3, <1>11 DEF u, x
  <2>2. x.sh \in ShellRow
    BY <1>8 DEF XRow
  <2>3. t \in ShellRow /\ t.pending = TRUE /\ t.modules = shell.modules
    BY <1>8, <2>2 DEF ShellRow
  <2>4. v = Put(x, t)
    BY <1>8 DEF Put, XRow
  <2> HIDE DEF t, v
  <2>5. v \in XRow /\ v.sh = t /\ v.ld = loading
    BY <1>8, <2>3, <2>4, PutIs
  <2>6. LoadsMay(v)
    BY <1>1, <2>3, <2>5 DEF LoadsMay
  <2>7. Fits(v)
    BY <2>3, <2>5, <2>6 DEF Fits, Unsettled
  <2> QED
    BY <1>2, <2>1, <2>7, Becoming DEF ShellInv
<1> QED
  BY <1>10, <1>11

LEMMA HashChangeKeeps ==
    ASSUME ShellInv, OnHashChange
    PROVE  ShellInv'
<1>1. /\ Now \in XRow /\ LoadsMay(Now) /\ Now.sh = shell /\ Now.ld = loading
      /\ shell \in ShellRow
  BY NowFits DEF OnHashChange, MayGoto
<1> DEFINE s == [shell EXCEPT !.pending = FALSE]
           x == [Now EXCEPT !.sh.pending = FALSE]
<1>2. /\ LoadsOut(loading) # Loads /\ UNCHANGED embed /\ Becomes(Goto(x, shell.address))
  BY DEF OnHashChange, MayGoto
<1>3. /\ s \in ShellRow /\ s.address = shell.address /\ s.modules = shell.modules
      /\ shell.address \in Paths \cup {Null}
  BY <1>1 DEF ShellRow
<1>4. x = Put(Now, s)
  BY <1>1 DEF Put, XRow
<1> HIDE DEF s, x
<1>5. x \in XRow /\ x.sh = s /\ x.ld = loading
  BY <1>1, <1>3, <1>4, PutIs
<1>6. LoadsMay(x)
  BY <1>1, <1>3, <1>5 DEF LoadsMay
<1>7. XOK(Goto(x, shell.address))
  BY <1>2, <1>3, <1>5, <1>6, GotoOK
<1> QED
  BY <1>2, <1>7, BecomingOK

LEMMA SwitchKeeps ==
    ASSUME ShellInv, SwitchOrg
    PROVE  ShellInv'
<1>1. /\ Now \in XRow /\ LoadsMay(Now) /\ Now.sh = shell /\ Now.ld = loading
      /\ shell \in ShellRow
  BY NowFits DEF SwitchOrg, MayGoto
<1> DEFINE x == [Now EXCEPT !.sh.org = Null, !.sh.label = Null, !.sh.client = FALSE]
<1>2. LoadsOut(loading) # Loads /\ UNCHANGED embed /\ Becomes(Navigate(x, Home))
  BY DEF SwitchOrg, MayGoto
<1>3. x = Put(Now, Left(shell))
  BY <1>1 DEF Put, Left, XRow, ShellRow
<1> HIDE DEF x
<1>4. Left(shell) \in ShellRow /\ Kept(Left(shell), shell)
  BY <1>1, LeftIs
<1>5. x \in XRow /\ x.sh = Left(shell) /\ x.ld = loading
  BY <1>1, <1>3, <1>4, PutIs
<1>6. LoadsMay(x)
  BY <1>1, <1>4, <1>5 DEF LoadsMay, Kept
<1>7. XOK(Navigate(x, Home))
  BY <1>2, <1>5, <1>6, Pages, NavigateOK
<1> QED
  BY <1>2, <1>7, BecomingOK

LEMMA SubmitKeeps ==
    ASSUME ShellInv, HandleSubmit
    PROVE  ShellInv'
<1>1. /\ Now \in XRow /\ LoadsMay(Now) /\ Now.sh = shell /\ Now.ld = loading
  BY NowFits DEF HandleSubmit, MayGoto
<1>2. LoadsOut(loading) # Loads /\ UNCHANGED embed
  BY DEF HandleSubmit, MayGoto
<1>3. PICK org \in ShellOrgs : Becomes(Navigate(OrgRouteEnter(Now, org), Path(org, "agents")))
  BY DEF HandleSubmit
<1> DEFINE x == OrgRouteEnter(Now, org)
           path == Path(org, "agents")
<1>4. org \in Orgs /\ path \in Paths
  BY DEF Orgs, Path, Paths, OrgPages, Entities
<1>5. Same(x, Now)
  BY <1>1, <1>4, EnterFacts
<1>6. Becomes(Navigate(x, path))
  BY <1>3
<1> HIDE DEF x, path
<1>7. x \in XRow /\ LoadsMay(x) /\ LoadsOut(x.ld) # Loads
  BY <1>1, <1>2, <1>5 DEF Same, Kept, LoadsMay
<1>8. XOK(Navigate(x, path))
  BY <1>4, <1>7, NavigateOK
<1> QED
  BY <1>2, <1>6, <1>8, BecomingOK

-----------------------------------------------------------------------------
(* New shells *)

LEMMA NewShellIs ==
    ASSUME NEW mode \in {"history", "hash"}, NEW modules \in Seq(STRING),
           NEW address \in Paths \cup {Null}
    PROVE  /\ NewShell(mode, modules, address) \in ShellRow
           /\ NewShell(mode, modules, address).mode = mode
           /\ NewShell(mode, modules, address).address = address
           /\ NewShell(mode, modules, address).booting = TRUE
BY OrgsNull DEF NewShell, ShellRow

LEMMA MountedFits ==
    ASSUME NEW modules \in Seq(STRING), NEW address \in Paths \cup {Null}, NEW wired \in BOOLEAN
    PROVE  Fits(Mounted(modules, address, wired))
<1> DEFINE mode == IF wired THEN "history" ELSE "hash"
           at == IF wired THEN Null ELSE address
           new == NewShell(mode, modules, at)
           s == [new EXCEPT !.client = TRUE]
           d == [l \in Loads |-> Null]
           x == [sh |-> s, ld |-> d]
<1>1. /\ new \in ShellRow /\ new.booting = TRUE
      /\ wired => new.mode = "history"
      /\ ~wired => new.address = address
  <2>1. /\ mode \in {"history", "hash"} /\ at \in Paths \cup {Null}
        /\ wired => mode = "history"
        /\ ~wired => at = address
    OBVIOUS
  <2> HIDE DEF mode, at
  <2> QED
    BY <2>1, NewShellIs, ZenonT(30)
<1>2. Mounted(modules, address, wired) = IF wired THEN x ELSE Goto(x, address)
  BY DEF Mounted
<1> HIDE DEF new, mode, at
<1>3. /\ s \in ShellRow /\ s.booting = TRUE /\ s.mode = new.mode /\ s.address = new.address
  BY <1>1 DEF ShellRow
<1>4. d \in LoadRow /\ LoadsOut(d) = {}
  BY DEF LoadRow, LoadsOut
<1> HIDE DEF s, d
<1>5. x \in XRow /\ x.sh = s /\ x.ld = d
  BY <1>3, <1>4 DEF XRow
<1> HIDE DEF x
<1>6. LoadsMay(x) /\ LoadsOut(x.ld) # Loads
  BY <1>4, <1>5, ShellAssumption DEF LoadsMay
<1>7. CASE wired
  BY <1>1, <1>2, <1>3, <1>5, <1>6, <1>7 DEF Fits, Unsettled
<1>8. CASE ~wired
  <2>1. XOK(Goto(x, address))
    BY <1>1, <1>3, <1>5, <1>6, <1>8, GotoOK
  <2> QED
    BY <1>2, <1>8, <2>1 DEF XOK, Fits
<1> QED
  BY <1>7, <1>8

LEMMA ValidateKeeps ==
    ASSUME ShellInv, ValidateAndBuildClient
    PROVE  ShellInv'
<1>1. PICK org \in (ShellOrgs \cup {BadOrg}) \ {embed.org} :
          /\ embed' = [embed EXCEPT !.org = org, !.wired = @ \/ org # BadOrg]
          /\ IF org = BadOrg
             THEN shell' = Null /\ loading' = [l \in Loads |-> Null]
             ELSE IF shell = Null
             THEN LET x == Mounted(embed.modules, embed.hash, embed.wired)
                  IN  shell' = x.sh /\ loading' = x.ld
             ELSE /\ shell' = [shell EXCEPT !.label = org, !.client = TRUE]
                  /\ UNCHANGED loading
  BY DEF ValidateAndBuildClient
<1>2. embed \in EmbedRow /\ org \in Orgs
  BY DEF ShellInv, ValidateAndBuildClient, Orgs
<1>3. embed' \in EmbedRow
  <2> DEFINE w == embed.wired \/ org # BadOrg
  <2>1. w \in BOOLEAN
    OBVIOUS
  <2>2. embed' = [embed EXCEPT !.org = org, !.wired = w]
    BY <1>1
  <2> HIDE DEF w
  <2> QED
    BY <1>2, <2>1, <2>2 DEF EmbedRow
<1>4. CASE org = BadOrg
  <2>1. shell' = Null /\ loading' \in LoadRow
    BY <1>1, <1>4 DEF LoadRow
  <2> QED
    BY <1>3, <2>1 DEF ShellInv
<1>5. CASE org # BadOrg /\ shell = Null
  <2> DEFINE x == Mounted(embed.modules, embed.hash, embed.wired)
  <2>1. embed.modules \in Seq(STRING) /\ embed.hash \in Paths \cup {Null}
        /\ embed.wired \in BOOLEAN
    BY <1>2 DEF EmbedRow
  <2>2. Fits(x)
    BY <2>1, MountedFits
  <2>3. Becomes(x)
    BY <1>1, <1>5 DEF Becomes
  <2> HIDE DEF x
  <2> QED
    BY <1>3, <2>2, <2>3, Becoming
<1>6. CASE org # BadOrg /\ shell # Null
  <2> DEFINE s == [shell EXCEPT !.label = org, !.client = TRUE]
             x == Put(Now, s)
  <2>1. /\ Now \in XRow /\ LoadsMay(Now) /\ Now.sh = shell /\ Now.ld = loading
        /\ shell \in ShellRow /\ (Unsettled(shell) \/ GoesWell(Now))
    BY <1>6, NowFits
  <2>2. shell' = s /\ loading' = loading
    BY <1>1, <1>6
  <2>3. /\ s \in ShellRow /\ s.address = shell.address /\ s.modules = shell.modules
        /\ s.pending = shell.pending /\ s.mode = shell.mode /\ s.alone = shell.alone
        /\ s.shown = shell.shown /\ s.org = shell.org /\ s.client = TRUE
        /\ s.booting = shell.booting
    BY <1>2, <2>1 DEF ShellRow
  <2> HIDE DEF s
  <2>4. x \in XRow /\ x.sh = s /\ x.ld = loading
    BY <2>1, <2>3, PutIs
  <2> HIDE DEF x
  <2>5. LoadsMay(x)
    BY <2>1, <2>3, <2>4 DEF LoadsMay
  <2>6. Unsettled(s) \/ GoesWell(x)
    BY <2>1, <2>3, <2>4 DEF Unsettled, GoesWell, Comes
  <2>7. Fits(x) /\ Becomes(x)
    BY <2>2, <2>4, <2>5, <2>6 DEF Fits, Becomes
  <2> QED
    BY <1>3, <2>7, Becoming
<1> QED
  BY <1>4, <1>5, <1>6

LEMMA ShellBegins ==
    ASSUME ShellInit
    PROVE  ShellInv
<1>1. loading = [l \in Loads |-> Null]
  BY DEF ShellInit
<1>2. loading \in LoadRow /\ LoadsOut(loading) = {}
  BY <1>1 DEF LoadRow, LoadsOut
<1>3. PICK modules \in ModuleLists, address \in Addresses :
          \/ /\ embed = Null
             /\ shell = SyncOrgIdFromUrl([sh |-> NewShell("history", modules, address)]).sh
          \/ /\ shell = Null
             /\ embed = [org |-> Null, modules |-> modules, hash |-> address, wired |-> FALSE]
  BY DEF ShellInit
<1>4. modules \in Seq(STRING) /\ address \in Paths \cup {Null}
  BY ShellAssumption
<1>5. CASE embed = Null
           /\ shell = SyncOrgIdFromUrl([sh |-> NewShell("history", modules, address)]).sh
  <2> DEFINE new == NewShell("history", modules, address)
             x == [sh |-> new]
  <2>1. /\ new \in ShellRow /\ new.mode = "history" /\ new.booting = TRUE
        /\ new.address = address
    <3>1. "history" \in {"history", "hash"}
      OBVIOUS
    <3> QED
      BY <1>4, <3>1, NewShellIs, ZenonT(30)
  <2> HIDE DEF new
  <2>2. ASSUME address # Null, address.org # Null
        PROVE  shell \in ShellRow /\ Kept(shell, new)
    <3> DEFINE o == address.org
    <3>1. o \in Orgs
      BY <1>4, <2>2, Pages, OrgPath
    <3>2. SyncOrgIdFromUrl(x).sh = Entered(new, o)
      BY <2>1, <2>2 DEF SyncOrgIdFromUrl, OrgRouteEnter, Entered, ShellRow
    <3> HIDE DEF o
    <3>3. Entered(new, o) \in ShellRow /\ Kept(Entered(new, o), new)
      BY <2>1, <3>1, EnteredIs
    <3>4. shell = Entered(new, o)
      BY <1>5, <3>2 DEF new
    <3> QED
      BY <3>3, <3>4
  <2>3. ASSUME ~(address # Null /\ address.org # Null)
        PROVE  shell \in ShellRow /\ Kept(shell, new)
    <3>1. SyncOrgIdFromUrl(x).sh = Left(new)
      BY <2>1, <2>3 DEF SyncOrgIdFromUrl, Left, ShellRow
    <3>2. Left(new) \in ShellRow /\ Kept(Left(new), new)
      BY <2>1, LeftIs
    <3>3. shell = Left(new)
      BY <1>5, <3>1 DEF new
    <3> QED
      BY <3>2, <3>3
  <2>4. shell \in ShellRow /\ shell.mode = "history" /\ shell.booting = TRUE
    BY <2>1, <2>2, <2>3 DEF Kept
  <2>5. Now \in XRow /\ Now.sh = shell /\ Now.ld = loading
    BY <1>2, <2>4 DEF Now, XRow
  <2>6. Fits(Now)
    BY <1>2, <2>4, <2>5 DEF Fits, Unsettled, LoadsMay
  <2> QED
    BY <1>2, <1>5, <2>6 DEF ShellInv
<1>6. CASE shell = Null
           /\ embed = [org |-> Null, modules |-> modules, hash |-> address, wired |-> FALSE]
  <2>1. embed \in EmbedRow
    BY <1>4, <1>6, OrgsNull DEF EmbedRow
  <2> QED
    BY <1>2, <1>6, <2>1 DEF ShellInv
<1> QED
  BY <1>3, <1>5, <1>6

-----------------------------------------------------------------------------
(* The theorems *)

\* The shell's invariant holds throughout: every load that is out is of a page
\* the modules allow, and unless a load was disturbed the page named by the
\* address is the one loading or shown.
THEOREM ShellInvariance == ShellSpec => []ShellInv
<1>1. ShellInit => ShellInv
  BY ShellBegins
<1>2. ShellInv /\ [ShellNext]_shellVars => ShellInv'
  <2> SUFFICES ASSUME ShellInv, [ShellNext]_shellVars
               PROVE  ShellInv'
    OBVIOUS
  <2>1. CASE ShellNext
    BY <2>1, ConnectedKeeps, HandleNavigateKeeps, PopStateKeeps, HashChangeKeeps, SwitchKeeps,
       ImportKeeps, SubmitKeeps, ValidateKeeps, LandedKeeps DEF ShellNext
  <2>2. CASE UNCHANGED shellVars
    BY <2>2 DEF shellVars, ShellInv, Fits, Now, Unsettled, LoadsMay, GoesWell, Comes, Named,
                Guarded, MayLoad, LoadsOut
  <2> QED
    BY <2>1, <2>2
<1> QED
  BY <1>1, <1>2, PTL DEF ShellSpec

\* Once nothing loads and nothing but the page last gone to did, the page shown
\* is the one the address names, and in the admin app its requests are of its
\* organisation.
THEOREM TheAddressIsShown == ShellSpec => []AddressIsShown
<1>1. ShellInv => AddressIsShown
  <2> SUFFICES ASSUME ShellInv, shell # Null, shell.alone, ~shell.booting, ~shell.pending,
                      LoadsOut(loading) = {}, Named(shell.modules, shell.address) # Null
               PROVE  LET named == Named(shell.modules, shell.address)
                      IN  /\ shell.shown = named
                          /\ shell.mode = "history" /\ named.org # Null =>
                                 shell.org = named.org /\ shell.client
    BY DEF AddressIsShown
  <2>1. Now.sh = shell /\ Now.ld = loading /\ GoesWell(Now)
    BY NowFits DEF Unsettled
  <2> QED
    BY <2>1 DEF GoesWell, Comes
<1> QED
  BY <1>1, ShellInvariance, PTL

-----------------------------------------------------------------------------
(***************************************************************************)
(* The canvas's history, for any drafts, any cap and any number of edits.  *)
(* Undo and redo read the history wherever it has been cut, so the         *)
(* invariant says of each of its entries, and of the graph on the canvas,  *)
(* what is wanted of the one at the position: that it is a graph of known  *)
(* nodes.  Which regions they are in comes after.                          *)
(***************************************************************************)

-----------------------------------------------------------------------------
(* The inductive invariant *)

IsGraph(g) ==
    /\ g = [nodes |-> g.nodes, edges |-> g.edges, rest |-> g.rest]
    /\ DOMAIN g.nodes \subseteq Ids

HistoryOK(h) ==
    /\ \E S : h \in Seq(S)
    /\ \A i \in 1..Len(h) : IsGraph(h[i])

IsCanvas(c) ==
    c = [graph |-> c.graph, history |-> c.history, at |-> c.at, draft |-> c.draft,
         drag |-> c.drag, edits |-> c.edits, torn |-> c.torn]

Drags == [id : Ids, moved : BOOLEAN]

\* Whatever the pointer is doing.
Sound(c) ==
    /\ IsCanvas(c) /\ IsGraph(c.graph) /\ HistoryOK(c.history)
    /\ c.at \in 1..Len(c.history)

AtPosition(c) == c.history[c.at] = c.graph

CanvasOK(c) ==
    /\ Sound(c) /\ c.drag \in Drags \cup {Null}
    /\ (c.drag = Null \/ ~c.drag.moved) => AtPosition(c)

CanvasInv == CanvasOK(canvas)

-----------------------------------------------------------------------------
(* The history *)

\* The history up to n, and then g.
UpTo(h, n, g) == Append(SubSeq(h, 1, n), g)

LEMMA UpToHistory ==
    ASSUME NEW h, HistoryOK(h), NEW n \in 1..Len(h), NEW g, IsGraph(g)
    PROVE  /\ HistoryOK(UpTo(h, n, g)) /\ Len(UpTo(h, n, g)) = n + 1
           /\ UpTo(h, n, g)[n + 1] = g
<1> DEFINE past == UpTo(h, n, g)
<1>1. PICK S : h \in Seq(S)
  BY DEF HistoryOK
<1>2. Len(h) \in Nat /\ n \in Nat /\ n <= Len(h) /\ 1 <= n
  BY <1>1
<1> DEFINE s == SubSeq(h, 1, n)
<1>3. s \in Seq(S) /\ Len(s) = n /\ \A i \in 1..n : s[i] = h[i]
  BY <1>1, <1>2
<1> HIDE DEF s
<1>4. past = Append(s, g)
  BY DEF s, UpTo
<1> HIDE DEF past
<1> DEFINE T == S \cup {g}
<1>5. s \in Seq(T) /\ g \in T
  BY <1>3
<1> HIDE DEF T
<1>6. past \in Seq(T) /\ Len(past) = n + 1 /\ past[n + 1] = g
      /\ \A i \in 1..n : past[i] = s[i]
  BY <1>3, <1>4, <1>5, AppendProperties
<1>7. \A i \in 1..Len(past) : IsGraph(past[i])
  <2> TAKE i \in 1..Len(past)
  <2>1. CASE i = n + 1
    BY <1>6, <2>1
  <2>2. CASE i # n + 1
    <3>1. i \in 1..n
      BY <1>2, <1>6, <2>2
    <3>2. i \in 1..Len(h) /\ past[i] = h[i]
      BY <1>2, <1>3, <1>6, <3>1
    <3> QED
      BY <3>2 DEF HistoryOK
  <2> QED
    BY <2>1, <2>2
<1> QED
  BY <1>6, <1>7 DEF HistoryOK, past

LEMMA TailHistory ==
    ASSUME NEW h, HistoryOK(h), Len(h) > 1
    PROVE  HistoryOK(Tail(h)) /\ Len(Tail(h)) = Len(h) - 1 /\ Tail(h)[Len(h) - 1] = h[Len(h)]
<1>1. PICK S : h \in Seq(S)
  BY DEF HistoryOK
<1>2. Len(h) \in Nat /\ h # <<>>
  BY <1>1
<1>3. Tail(h) \in Seq(S) /\ Len(Tail(h)) = Len(h) - 1
      /\ \A i \in 1..(Len(h) - 1) : Tail(h)[i] = h[i + 1]
  BY <1>1, <1>2, HeadTailProperties
<1>4. \A i \in 1..Len(Tail(h)) : IsGraph(Tail(h)[i])
  BY <1>2, <1>3 DEF HistoryOK
<1>5. Tail(h)[Len(h) - 1] = h[Len(h)]
  BY <1>2, <1>3
<1> QED
  BY <1>3, <1>4, <1>5 DEF HistoryOK

LEMMA CommitKeeps ==
    ASSUME NEW c, Sound(c)
    PROVE  /\ Sound(commitHistory(c)) /\ AtPosition(commitHistory(c))
           /\ commitHistory(c).drag = c.drag
<1> DEFINE past == UpTo(c.history, c.at, c.graph)
           kept == IF Len(past) > HistoryCap THEN Tail(past) ELSE past
           q == commitHistory(c)
<1>1. HistoryOK(past) /\ Len(past) = c.at + 1 /\ past[c.at + 1] = c.graph
  <2>1. HistoryOK(c.history) /\ c.at \in 1..Len(c.history) /\ IsGraph(c.graph)
    BY DEF Sound
  <2> QED
    BY <2>1, UpToHistory
<1>2. c.at \in Nat /\ c.at >= 1 /\ HistoryCap \in Nat \ {0}
  <2>1. PICK S : c.history \in Seq(S)
    BY DEF Sound, HistoryOK
  <2> QED
    BY <2>1, CanvasAssumption DEF Sound
<1>3. q = [c EXCEPT !.history = kept, !.at = Len(kept), !.edits = @ + 1]
  BY DEF commitHistory, UpTo
<1> HIDE DEF past
<1>4. HistoryOK(kept) /\ Len(kept) \in 1..Len(kept) /\ kept[Len(kept)] = c.graph
  <2>1. CASE Len(past) > HistoryCap
    <3>1. Len(past) > 1
      BY <1>1, <1>2
    <3>2. HistoryOK(Tail(past)) /\ Len(Tail(past)) = c.at /\ Tail(past)[c.at] = c.graph
      BY <1>1, <1>2, <3>1, TailHistory
    <3> QED
      BY <1>2, <2>1, <3>2
  <2>2. CASE ~(Len(past) > HistoryCap)
    BY <1>1, <1>2, <2>2
  <2> QED
    BY <2>1, <2>2
<1> HIDE DEF kept, q
<1>5. /\ q.history = kept /\ q.at = Len(kept) /\ q.graph = c.graph /\ q.drag = c.drag
      /\ IsCanvas(q)
  BY <1>3 DEF Sound, IsCanvas
<1>6. Sound(q) /\ AtPosition(q)
  BY <1>4, <1>5 DEF Sound, AtPosition
<1> QED
  BY <1>5, <1>6 DEF q

\* A change that ends or leaves the drag alone.
LEMMA ChangeKeeps ==
    ASSUME NEW c, Sound(c), c.drag \in Drags \cup {Null}, NEW g, IsGraph(g), Change(c, g)
    PROVE  CanvasInv'
<1> DEFINE d == [c EXCEPT !.graph = g]
<1>1. Sound(d) /\ d.drag = c.drag
  <2>1. /\ d.graph = g /\ d.history = c.history /\ d.at = c.at /\ d.drag = c.drag
        /\ IsCanvas(d)
    BY DEF Sound, IsCanvas
  <2> HIDE DEF d
  <2> QED
    BY <2>1 DEF Sound
<1>2. canvas' = commitHistory(d)
  BY DEF Change
<1> HIDE DEF d
<1>3. Sound(canvas') /\ AtPosition(canvas') /\ canvas'.drag = c.drag
  BY <1>1, <1>2, CommitKeeps
<1> QED
  BY <1>3 DEF CanvasInv, CanvasOK

LEMMA RestoreKeeps ==
    ASSUME CanvasInv, NEW at \in 1..Len(canvas.history), restoreHistory(at)
    PROVE  CanvasInv'
<1> DEFINE h == canvas.history
           u == canvas.torn \/ canvas.draft # Null
<1>1. Sound(canvas) /\ canvas.drag \in Drags \cup {Null}
  BY DEF CanvasInv, CanvasOK
<1>2. IsGraph(h[at])
  BY <1>1 DEF Sound, HistoryOK
<1>3. canvas' = [canvas EXCEPT !.graph = h[at], !.at = at, !.torn = u]
  BY DEF restoreHistory
<1> DEFINE g == h[at]
<1> HIDE DEF u, g
<1>4. canvas' = [canvas EXCEPT !.graph = g, !.at = at, !.torn = u]
  BY <1>3 DEF g
<1>5. /\ canvas'.graph = g /\ canvas'.history = h /\ canvas'.at = at /\ canvas'.drag = canvas.drag
      /\ IsCanvas(canvas')
  BY <1>1, <1>4 DEF Sound, IsCanvas
<1>6. Sound(canvas') /\ AtPosition(canvas')
  BY <1>1, <1>2, <1>5 DEF Sound, AtPosition, g
<1> QED
  BY <1>1, <1>5, <1>6 DEF CanvasInv, CanvasOK

LEMMA UndoRedoKeep ==
    ASSUME CanvasInv, undo \/ redo
    PROVE  CanvasInv'
<1>1. PICK S : canvas.history \in Seq(S)
  BY DEF CanvasInv, CanvasOK, Sound, HistoryOK
<1>2. canvas.at \in 1..Len(canvas.history) /\ Len(canvas.history) \in Nat
  BY <1>1 DEF CanvasInv, CanvasOK, Sound
<1>3. CASE undo
  <2>1. canvas.at - 1 \in 1..Len(canvas.history)
    BY <1>2, <1>3 DEF undo
  <2> QED
    BY <1>3, <2>1, RestoreKeeps DEF undo
<1>4. CASE redo
  <2>1. canvas.at + 1 \in 1..Len(canvas.history)
    BY <1>2, <1>4 DEF redo
  <2> QED
    BY <1>4, <2>1, RestoreKeeps DEF redo
<1> QED
  BY <1>3, <1>4

-----------------------------------------------------------------------------
(* Graphs *)

LEMMA WithEdges ==
    ASSUME NEW g, IsGraph(g), NEW es
    PROVE  IsGraph([g EXCEPT !.edges = es]) /\ DOMAIN [g EXCEPT !.edges = es].nodes = DOMAIN g.nodes
BY DEF IsGraph

LEMMA WithNodes ==
    ASSUME NEW g, IsGraph(g), NEW ns, DOMAIN ns \subseteq Ids
    PROVE  IsGraph([g EXCEPT !.nodes = ns])
BY DEF IsGraph

LEMMA WithNodesAndEdges ==
    ASSUME NEW g, IsGraph(g), NEW ns, DOMAIN ns \subseteq Ids, NEW es
    PROVE  IsGraph([g EXCEPT !.nodes = ns, !.edges = es])
<1> DEFINE d == [g EXCEPT !.nodes = ns]
<1>1. IsGraph(d)
  BY WithNodes
<1>2. [g EXCEPT !.nodes = ns, !.edges = es] = [d EXCEPT !.edges = es]
  OBVIOUS
<1> HIDE DEF d
<1>3. IsGraph([d EXCEPT !.edges = es])
  BY <1>1, WithEdges
<1> QED
  BY <1>2, <1>3

LEMMA Recomputed ==
    ASSUME NEW g, IsGraph(g)
    PROVE  IsGraph(recomputeRegions(g))
<1> DEFINE ns == [id \in DOMAIN g.nodes |-> [g.nodes[id] EXCEPT !.region = Flooded(g)[id]]]
<1>1. recomputeRegions(g) = [g EXCEPT !.nodes = ns]
  BY DEF recomputeRegions
<1>2. DOMAIN ns \subseteq Ids
  BY DEF IsGraph
<1> HIDE DEF ns
<1> QED
  BY <1>1, <1>2, WithNodes

LEMMA AlteredGraph ==
    ASSUME NEW g, IsGraph(g)
    PROVE  IsGraph(Altered(g))
BY DEF IsGraph, Altered

LEMMA WithNodeGraph ==
    ASSUME NEW g, IsGraph(g), NEW id \in Ids, NEW node
    PROVE  IsGraph(WithNode(g, id, node))
<1> DEFINE ns == [n \in DOMAIN g.nodes \cup {id} |-> IF n = id THEN node ELSE g.nodes[n]]
<1>1. WithNode(g, id, node) = [g EXCEPT !.nodes = ns]
  BY DEF WithNode
<1>2. DOMAIN ns \subseteq Ids
  BY DEF IsGraph
<1> HIDE DEF ns
<1> QED
  BY <1>1, <1>2, WithNodes

LEMMA Wired ==
    ASSUME NEW g, IsGraph(g), NEW r, NEW id, NEW q \in wireIntoBody(g, r, id)
    PROVE  IsGraph(q)
<1>1. q = g \/ \E es : q = [g EXCEPT !.edges = es]
  BY DEF wireIntoBody
<1>2. \A es : IsGraph([g EXCEPT !.edges = es])
  BY WithEdges
<1> QED
  BY <1>1, <1>2, Zenon

LEMMA JoinedGraph ==
    ASSUME NEW g, IsGraph(g), NEW from, NEW port, NEW to
    PROVE  IsGraph(Joined(g, from, port, to))
<1>1. \E es : Joined(g, from, port, to) = recomputeRegions([g EXCEPT !.edges = es])
  BY DEF Joined
<1> QED
  BY <1>1, WithEdges, Recomputed

LEMMA WithoutEdgeGraph ==
    ASSUME NEW g, IsGraph(g), NEW e
    PROVE  IsGraph(WithoutEdge(g, e))
<1>1. \E es : WithoutEdge(g, e) = recomputeRegions([g EXCEPT !.edges = es])
  BY DEF WithoutEdge
<1> QED
  BY <1>1, WithEdges, Recomputed

LEMMA WithoutNodeGraph ==
    ASSUME NEW g, IsGraph(g), NEW id
    PROVE  IsGraph(WithoutNode(g, id))
<1> DEFINE ns == [n \in DOMAIN g.nodes \ {id} |-> g.nodes[n]]
           es == Filtered(g.edges, Clear(g, id))
           q == [g EXCEPT !.nodes = ns, !.edges = es]
<1>1. WithoutNode(g, id) = recomputeRegions(q)
  BY DEF WithoutNode
<1>2. DOMAIN ns \subseteq Ids
  BY DEF IsGraph
<1> HIDE DEF ns, es
<1>3. IsGraph(q)
  BY <1>2, WithNodesAndEdges
<1> HIDE DEF q
<1> QED
  BY <1>1, <1>3, Recomputed

LEMMA EjectedGraph ==
    ASSUME NEW g, IsGraph(g), NEW id
    PROVE  IsGraph(Ejected(g, id))
<1>1. \E es : Ejected(g, id) = recomputeRegions([g EXCEPT !.edges = es])
  BY DEF Ejected
<1> QED
  BY <1>1, WithEdges, Recomputed

LEMMA ResizedGraph ==
    ASSUME NEW g, IsGraph(g), NEW id, NEW size
    PROVE  IsGraph(Resized(g, id, size))
<1> DEFINE ns == [g.nodes EXCEPT ![id].size = size]
           sized == [g EXCEPT !.nodes[id].size = size]
<1>1. sized = [g EXCEPT !.nodes = ns]
  BY DEF IsGraph
<1>2. DOMAIN ns \subseteq Ids
  BY DEF IsGraph
<1> HIDE DEF ns, sized
<1>3. IsGraph(sized)
  BY <1>1, <1>2, WithNodes
<1>4. Resized(g, id, size) = recomputeRegions([sized EXCEPT !.edges = pruneEdges(sized)])
  BY DEF Resized, sized
<1> QED
  BY <1>3, <1>4, WithEdges, Recomputed

-----------------------------------------------------------------------------
(* Handlers *)

LEMMA Holds ==
    ASSUME CanvasInv
    PROVE  /\ Sound(canvas) /\ canvas.drag \in Drags \cup {Null} /\ IsGraph(Graph)
           /\ \A i \in DOMAIN canvas.history : IsGraph(canvas.history[i])
           /\ FreshIds \subseteq Ids
<1>1. Sound(canvas) /\ canvas.drag \in Drags \cup {Null}
  BY DEF CanvasInv, CanvasOK
<1>2. PICK S : canvas.history \in Seq(S)
  BY <1>1 DEF Sound, HistoryOK
<1>3. DOMAIN canvas.history = 1..Len(canvas.history)
  BY <1>2
<1> QED
  BY <1>1, <1>3 DEF Sound, HistoryOK, Graph, FreshIds

LEMMA EditKeeps ==
    ASSUME CanvasInv, NEW g, IsGraph(g), Change(canvas, g)
    PROVE  CanvasInv'
BY Holds, ChangeKeeps

LEMMA DropKeeps ==
    ASSUME CanvasInv, onCanvasDrop
    PROVE  CanvasInv'
<1>1. PICK id \in FreshIds, kind \in PaletteKinds :
          LET added == WithNode(Graph, id, NewNode(kind, MinSize[kind]))
              wired == {added} \cup
                       (IF kind = "end" THEN {}
                        ELSE UNION {wireIntoBody(added, r, id) : r \in bodyDropContext(Graph)})
          IN  \E g \in wired : Change(canvas, recomputeRegions(g))
  BY DEF onCanvasDrop
<1> DEFINE added == WithNode(Graph, id, NewNode(kind, MinSize[kind]))
<1>2. IsGraph(added)
  BY Holds, WithNodeGraph
<1>3. \E g : /\ g = added \/ \E r : g \in wireIntoBody(added, r, id)
            /\ Change(canvas, recomputeRegions(g))
  BY <1>1
<1> HIDE DEF added
<1>4. PICK g : /\ g = added \/ \E r : g \in wireIntoBody(added, r, id)
               /\ Change(canvas, recomputeRegions(g))
  BY <1>3
<1>5. IsGraph(g)
  BY <1>2, <1>4, Wired
<1>6. IsGraph(recomputeRegions(g))
  BY <1>5, Recomputed
<1> QED
  BY <1>4, <1>6, EditKeeps

LEMMA PortDownKeeps ==
    ASSUME CanvasInv, onPortPointerDown
    PROVE  CanvasInv'
<1>1. PICK d : canvas' = [canvas EXCEPT !.draft = d]
  BY DEF onPortPointerDown
<1>2. /\ canvas'.graph = canvas.graph /\ canvas'.history = canvas.history
      /\ canvas'.at = canvas.at /\ canvas'.drag = canvas.drag /\ IsCanvas(canvas')
  BY <1>1 DEF CanvasInv, CanvasOK, Sound, IsCanvas
<1> QED
  BY <1>2 DEF CanvasInv, CanvasOK, Sound, AtPosition

LEMMA FinishKeeps ==
    ASSUME CanvasInv, finishEdgeDraft
    PROVE  CanvasInv'
<1> DEFINE done == [canvas EXCEPT !.draft = Null]
<1>1. /\ done.graph = canvas.graph /\ done.history = canvas.history
      /\ done.at = canvas.at /\ done.drag = canvas.drag /\ IsCanvas(done)
  BY DEF CanvasInv, CanvasOK, Sound, IsCanvas
<1>2. \/ canvas' = done
      \/ \E from, port, to : Change(done, Joined(Graph, from, port, to))
  BY DEF finishEdgeDraft
<1> HIDE DEF done
<1>3. CanvasOK(done)
  BY <1>1 DEF CanvasInv, CanvasOK, Sound, AtPosition
<1>4. ASSUME NEW from, NEW port, NEW to, Change(done, Joined(Graph, from, port, to))
      PROVE  CanvasInv'
  <2>1. IsGraph(Joined(Graph, from, port, to))
    BY Holds, JoinedGraph
  <2> QED
    BY <1>3, <1>4, <2>1, ChangeKeeps DEF CanvasOK
<1>5. canvas' = done => CanvasInv'
  BY <1>3 DEF CanvasInv
<1> QED
  BY <1>2, <1>4, <1>5

LEMMA NodeDownKeeps ==
    ASSUME CanvasInv, onNodePointerDown
    PROVE  CanvasInv'
<1>1. PICK id \in DOMAIN Graph.nodes : canvas' = [canvas EXCEPT !.drag = [id |-> id, moved |-> FALSE]]
  BY DEF onNodePointerDown
<1> DEFINE d == [id |-> id, moved |-> FALSE]
<1>2. d \in Drags
  BY Holds DEF IsGraph, Drags
<1>3. canvas.drag = Null /\ canvas' = [canvas EXCEPT !.drag = d]
  BY <1>1 DEF onNodePointerDown, Idle
<1> HIDE DEF d
<1>4. /\ canvas'.graph = canvas.graph /\ canvas'.history = canvas.history
      /\ canvas'.at = canvas.at /\ canvas'.drag = d /\ IsCanvas(canvas')
  BY <1>3 DEF CanvasInv, CanvasOK, Sound, IsCanvas
<1> QED
  BY <1>2, <1>3, <1>4 DEF CanvasInv, CanvasOK, Sound, AtPosition

LEMMA NodeMoveKeeps ==
    ASSUME CanvasInv, onNodePointerMove
    PROVE  CanvasInv'
<1> DEFINE g == IF Exists(Graph, canvas.drag.id) THEN Altered(Graph) ELSE Graph
           d == [canvas.drag EXCEPT !.moved = TRUE]
<1>1. /\ canvas' = [canvas EXCEPT !.drag = d, !.graph = g]
      /\ canvas.drag \in Drags
  BY Holds DEF onNodePointerMove, Graph, CanvasInv, CanvasOK, Sound, IsCanvas
<1>2. IsGraph(g)
  BY Holds, AlteredGraph
<1>3. d \in Drags /\ d.moved = TRUE
  BY <1>1 DEF Drags
<1> HIDE DEF g, d
<1>4. /\ canvas'.graph = g /\ canvas'.history = canvas.history
      /\ canvas'.at = canvas.at /\ canvas'.drag = d /\ IsCanvas(canvas')
  BY <1>1 DEF CanvasInv, CanvasOK, Sound, IsCanvas
<1>5. Null \notin Drags
  BY CanvasAssumption DEF Drags
<1> QED
  BY <1>2, <1>3, <1>4, <1>5 DEF CanvasInv, CanvasOK, Sound

LEMMA NodeUpKeeps ==
    ASSUME CanvasInv, onNodePointerUp
    PROVE  CanvasInv'
<1> DEFINE done == [canvas EXCEPT !.drag = Null]
<1>1. /\ done.graph = canvas.graph /\ done.history = canvas.history
      /\ done.at = canvas.at /\ done.drag = Null /\ IsCanvas(done)
  BY DEF CanvasInv, CanvasOK, Sound, IsCanvas
<1>2. IF canvas.drag.moved THEN Change(done, Graph) ELSE canvas' = done
  BY DEF onNodePointerUp
<1> HIDE DEF done
<1>3. Sound(done)
  BY <1>1, Holds DEF Sound
<1>4. CASE canvas.drag.moved
  BY <1>1, <1>2, <1>3, <1>4, Holds, ChangeKeeps
<1>5. CASE ~canvas.drag.moved
  <2>1. AtPosition(canvas)
    BY <1>5 DEF CanvasInv, CanvasOK
  <2> QED
    BY <1>1, <1>2, <1>3, <1>5, <2>1 DEF CanvasInv, CanvasOK, AtPosition
<1> QED
  BY <1>4, <1>5

LEMMA KeysKeep ==
    ASSUME CanvasInv, onKeyDown
    PROVE  CanvasInv'
<1>1. ASSUME pasteNode PROVE CanvasInv'
  <2>1. PICK id \in FreshIds : \E node : Change(canvas, WithNode(Graph, id, node))
    BY <1>1 DEF pasteNode
  <2> QED
    BY <2>1, Holds, WithNodeGraph, EditKeeps
<1>2. ASSUME deleteEdge PROVE CanvasInv'
  BY <1>2, Holds, WithoutEdgeGraph, EditKeeps DEF deleteEdge
<1>3. ASSUME deleteNode PROVE CanvasInv'
  <2> DEFINE u == canvas.torn \/ canvas.draft # Null
             c == [canvas EXCEPT !.torn = u]
  <2>1. PICK id : Change(c, WithoutNode(Graph, id))
    BY <1>3 DEF deleteNode
  <2> HIDE DEF u
  <2>2. /\ c.graph = canvas.graph /\ c.history = canvas.history
        /\ c.at = canvas.at /\ c.drag = canvas.drag /\ IsCanvas(c)
    BY DEF CanvasInv, CanvasOK, Sound, IsCanvas
  <2> HIDE DEF c
  <2>3. Sound(c) /\ c.drag \in Drags \cup {Null}
    BY <2>2, Holds DEF Sound
  <2>4. IsGraph(WithoutNode(Graph, id))
    BY Holds, WithoutNodeGraph
  <2> QED
    BY <2>1, <2>3, <2>4, ChangeKeeps
<1> QED
  BY <1>1, <1>2, <1>3, UndoRedoKeep DEF onKeyDown

LEMMA InspectorKeeps ==
    ASSUME CanvasInv, renderInspector
    PROVE  CanvasInv'
<1>1. ASSUME ejectFromRegion PROVE CanvasInv'
  BY <1>1, Holds, EjectedGraph, EditKeeps DEF ejectFromRegion
<1>2. ASSUME updateSize PROVE CanvasInv'
  <2>1. \E id, size : Change(canvas, Resized(Graph, id, size))
    BY <1>2 DEF updateSize
  <2> QED
    BY <2>1, Holds, ResizedGraph, EditKeeps
<1>3. ASSUME updateNodeParam PROVE CanvasInv'
  BY <1>3, Holds, AlteredGraph, EditKeeps DEF updateNodeParam
<1> QED
  BY <1>1, <1>2, <1>3 DEF renderInspector, renderField

LEMMA CanvasBegins ==
    ASSUME CanvasInit
    PROVE  CanvasInv
<1>1. PICK loaded \in CanvasDrafts : canvas = NewCanvas(Loaded(loaded))
  BY DEF CanvasInit
<1> DEFINE ns == [id \in DOMAIN loaded.nodes |-> NewNode(loaded.nodes[id].kind, loaded.nodes[id].size)]
           bare == [nodes |-> ns, edges |-> loaded.edges, rest |-> 0]
           g == Loaded(loaded)
<1>2. DOMAIN ns \subseteq Ids
  BY CanvasAssumption
<1>3. g = recomputeRegions([bare EXCEPT !.edges = pruneEdges(bare)])
  BY DEF Loaded
<1> HIDE DEF ns
<1>4. IsGraph(bare)
  BY <1>2 DEF IsGraph
<1> HIDE DEF bare, g
<1>5. IsGraph(g)
  BY <1>3, <1>4, WithEdges, Recomputed
<1>6. canvas = [graph |-> g, history |-> <<g>>, at |-> 1, draft |-> Null, drag |-> Null,
                edits |-> 0, torn |-> FALSE]
  BY <1>1 DEF NewCanvas, g
<1> DEFINE h == <<g>>
<1>7. h \in Seq({g}) /\ Len(h) = 1 /\ h[1] = g
  OBVIOUS
<1> HIDE DEF h
<1>8. /\ canvas.graph = g /\ canvas.history = h /\ canvas.at = 1 /\ canvas.drag = Null
      /\ IsCanvas(canvas)
  BY <1>6 DEF IsCanvas, h
<1>9. HistoryOK(h)
  BY <1>5, <1>7 DEF HistoryOK
<1>10. canvas.at \in 1..Len(canvas.history) /\ canvas.history[canvas.at] = canvas.graph
  <2>1. Len(canvas.history) = 1 /\ canvas.history[1] = canvas.graph
    BY <1>7, <1>8, Zenon
  <2>2. canvas.at = 1
    BY <1>8
  <2>3. canvas.history[canvas.at] = canvas.graph
    BY <2>1, <2>2, Zenon
  <2>4. 1 \in 1..1
    OBVIOUS
  <2> QED
    BY <2>1, <2>2, <2>3, <2>4, Zenon
<1>11. Sound(canvas) /\ AtPosition(canvas)
  BY <1>5, <1>8, <1>9, <1>10 DEF Sound, AtPosition
<1> QED
  BY <1>8, <1>11 DEF CanvasInv, CanvasOK

-----------------------------------------------------------------------------
(* The theorems *)

\* The position is always within the history, every entry of it is a graph that
\* may be shown, and unless a node is being dragged the one at the position is.
THEOREM CanvasInvariance == CanvasSpec => []CanvasInv
<1>1. CanvasInit => CanvasInv
  BY CanvasBegins
<1>2. CanvasInv /\ [CanvasNext]_canvas => CanvasInv'
  <2> SUFFICES ASSUME CanvasInv, [CanvasNext]_canvas PROVE CanvasInv'
    OBVIOUS
  <2>1. CASE UNCHANGED canvas
    BY <2>1 DEF CanvasInv
  <2>2. CASE doAutoArrange
    BY <2>2, Holds, AlteredGraph, EditKeeps DEF doAutoArrange
  <2>3. CASE renderCanvas
    BY <2>3, DropKeeps, PortDownKeeps, FinishKeeps, NodeDownKeeps, NodeMoveKeeps, NodeUpKeeps
       DEF renderCanvas, renderNodes
  <2> QED
    BY <2>1, <2>2, <2>3, KeysKeep, InspectorKeeps DEF CanvasNext
<1> QED
  BY <1>1, <1>2, PTL DEF CanvasSpec

\* Undo and redo move along what the user did: unless a node is being dragged the
\* canvas shows the graph at the history's position, through every change, every
\* branch dropped and every one shifted out.
THEOREM HistoryIsShown == CanvasSpec => []HistoryIsCurrent
<1>1. CanvasInv => HistoryIsCurrent
  <2> SUFFICES ASSUME CanvasInv, canvas.drag = Null \/ ~canvas.drag.moved
               PROVE  canvas.at \in DOMAIN canvas.history /\ canvas.history[canvas.at] = Graph
    BY DEF HistoryIsCurrent
  <2>1. PICK S : canvas.history \in Seq(S)
    BY Holds DEF Sound, HistoryOK
  <2> QED
    BY <2>1 DEF CanvasInv, CanvasOK, Sound, AtPosition, Graph
<1> QED
  BY <1>1, CanvasInvariance, PTL

-----------------------------------------------------------------------------
(***************************************************************************)
(* The regions of the canvas, for any drafts, edges and edits.  They are   *)
(* what a walk over the edges finds, and the walk is a recursive function: *)
(* what it finds is known by looking at the first of its values that would *)
(* not be as it should.  The regions say nothing of the next change by     *)
(* themselves: an edge may lose its port, and a body edge bring in an end. *)
(* So the invariant also says that every edge is legal, that this holds of *)
(* every graph of the history, which undo and redo bring back, and that    *)
(* the port an edge is being drawn from is still there.                    *)
(***************************************************************************)

-----------------------------------------------------------------------------
(* Recursion *)

LEMMA Least ==
    ASSUME NEW S, S \subseteq Nat, S # {}
    PROVE  \E k \in S : \A j \in S : k <= j
<1>1. PICK R : /\ IsWellFoundedOn(R, Nat)
               /\ \A x, y \in Nat : <<y, x>> \in R <=> y < x
  <2>1. \A x, y \in Nat : <<y, x>> \in OpToRel(<, Nat) <=> y < x
    BY Zenon DEF OpToRel
  <2> QED
    BY <2>1, NatLessThanWellFounded
<1>2. PICK x \in S : \A y \in S : ~ (<<y, x>> \in R)
  BY <1>1, WFMin, Zenon
<1>3. \A y \in S : ~ (y < x)
  BY <1>1, <1>2
<1> QED
  BY <1>3

\* What holds of the first, and of each after the one before it, holds of all.
LEMMA Throughout ==
    ASSUME NEW n \in Nat, NEW B, 0 \in B, \A i \in 1..n : i - 1 \in B => i \in B
    PROVE  0..n \subseteq B
<1> SUFFICES ASSUME (0..n) \ B # {} PROVE FALSE
  OBVIOUS
<1> DEFINE left == (0..n) \ B
<1>0. left \subseteq Nat /\ left # {}
  OBVIOUS
<1> HIDE DEF left
<1>1. PICK k \in left : \A j \in left : k <= j
  BY <1>0, Least
<1> USE DEF left
<1>2. k \in 1..n /\ k - 1 \in 0..n /\ ~(k <= k - 1)
  BY <1>1
<1>3. k - 1 \in B
  BY <1>1, <1>2
<1> QED
  BY <1>1, <1>2, <1>3

\* The graph of a walk over the edges, and of what a list keeps: there is one.
IsWalk(walk, g, n) == walk = [i \in 0..n |-> IF i = 0 THEN Start ELSE Walk(g, walk[i - 1])]

LEMMA WalkExists ==
    ASSUME NEW g, NEW n \in Nat
    PROVE  \E walk : IsWalk(walk, g, n)
<1> DEFINE Has(m) == \E walk : walk = [i \in 0..m |-> IF i = 0 THEN Start ELSE Walk(g, walk[i - 1])]
           B == {m \in 0..n : Has(m)}
<1>1. 0 \in B
  <2> DEFINE walk == [i \in 0..0 |-> Start]
  <2>1. walk = [i \in 0..0 |-> IF i = 0 THEN Start ELSE Walk(g, walk[i - 1])]
    OBVIOUS
  <2> HIDE DEF walk
  <2>2. Has(0)
    BY <2>1
  <2> HIDE DEF Has
  <2> QED
    BY <2>2
<1>2. ASSUME NEW m \in 1..n, m - 1 \in B PROVE m \in B
  <2>1. PICK old : old = [i \in 0..(m - 1) |-> IF i = 0 THEN Start ELSE Walk(g, old[i - 1])]
    BY <1>2
  <2> DEFINE walk == [i \in 0..m |-> IF i = m THEN Walk(g, old[m - 1]) ELSE old[i]]
  <2>2. \A i \in 0..m : walk[i] = IF i = 0 THEN Start ELSE Walk(g, walk[i - 1])
    <3> TAKE i \in 0..m
    <3>1. CASE i = m
      BY <3>1
    <3>2. CASE i # m
      <4>1. i \in 0..(m - 1) /\ walk[i] = old[i]
        BY <3>2
      <4>2. CASE i = 0
        BY <2>1, <4>1, <4>2
      <4>3. CASE i # 0
        <5>1. i - 1 \in 0..m /\ i - 1 # m
          BY <4>1, <4>3
        <5>2. walk[i - 1] = old[i - 1]
          BY <5>1
        <5>3. old[i] = Walk(g, old[i - 1])
          BY <2>1, <4>1, <4>3
        <5> QED
          BY <4>1, <4>3, <5>2, <5>3
      <4> QED
        BY <4>2, <4>3
    <3> QED
      BY <3>1, <3>2
  <2>3. walk = [i \in 0..m |-> IF i = 0 THEN Start ELSE Walk(g, walk[i - 1])]
    <3>1. walk = [i \in 0..m |-> walk[i]]
      OBVIOUS
    <3> HIDE DEF walk
    <3> QED
      BY <2>2, <3>1
  <2> HIDE DEF walk
  <2>4. Has(m)
    BY <2>3
  <2> QED
    BY <2>4
<1> HIDE DEF Has, B
<1>3. n \in B
  BY <1>1, <1>2, Throughout
<1> QED
  BY <1>3 DEF Has, B, IsWalk

IsFilter(upTo, es, T, n) ==
    upTo = [i \in 0..n |-> IF i = 0 THEN <<>>
                           ELSE IF es[i] \in T THEN Append(upTo[i - 1], es[i])
                           ELSE upTo[i - 1]]

LEMMA FilterExists ==
    ASSUME NEW es, NEW T, NEW n \in Nat
    PROVE  \E f : IsFilter(f, es, T, n)
<1> DEFINE Next1(s, i) == IF es[i] \in T THEN Append(s, es[i]) ELSE s
           Has(m) == \E upTo : upTo = [i \in 0..m |-> IF i = 0 THEN <<>> ELSE Next1(upTo[i - 1], i)]
           B == {m \in 0..n : Has(m)}
<1> HIDE DEF Next1
<1>1. 0 \in B
  <2> DEFINE upTo == [i \in 0..0 |-> <<>>]
  <2>1. upTo = [i \in 0..0 |-> IF i = 0 THEN <<>> ELSE Next1(upTo[i - 1], i)]
    OBVIOUS
  <2> HIDE DEF upTo
  <2>2. Has(0)
    BY <2>1
  <2> HIDE DEF Has
  <2> QED
    BY <2>2
<1>2. ASSUME NEW m \in 1..n, m - 1 \in B PROVE m \in B
  <2>1. PICK old : old = [i \in 0..(m - 1) |-> IF i = 0 THEN <<>> ELSE Next1(old[i - 1], i)]
    BY <1>2
  <2> DEFINE upTo == [i \in 0..m |-> IF i = m THEN Next1(old[m - 1], m) ELSE old[i]]
  <2>2. \A i \in 0..m : upTo[i] = IF i = 0 THEN <<>> ELSE Next1(upTo[i - 1], i)
    <3> TAKE i \in 0..m
    <3>1. CASE i = m
      BY <3>1
    <3>2. CASE i # m
      <4>1. i \in 0..(m - 1) /\ upTo[i] = old[i]
        BY <3>2
      <4>2. CASE i = 0
        BY <2>1, <4>1, <4>2
      <4>3. CASE i # 0
        <5>1. i - 1 \in 0..m /\ i - 1 # m
          BY <4>1, <4>3
        <5>2. upTo[i - 1] = old[i - 1]
          BY <5>1
        <5>3. old[i] = Next1(old[i - 1], i)
          BY <2>1, <4>1, <4>3
        <5> QED
          BY <4>1, <4>3, <5>2, <5>3
      <4> QED
        BY <4>2, <4>3
    <3> QED
      BY <3>1, <3>2
  <2>3. upTo = [i \in 0..m |-> IF i = 0 THEN <<>> ELSE Next1(upTo[i - 1], i)]
    <3>1. upTo = [i \in 0..m |-> upTo[i]]
      OBVIOUS
    <3> HIDE DEF upTo
    <3> QED
      BY <2>2, <3>1
  <2> HIDE DEF upTo
  <2>4. Has(m)
    BY <2>3
  <2> QED
    BY <2>4
<1> HIDE DEF Has, B
<1>3. n \in B
  BY <1>1, <1>2, Throughout
<1> QED
  BY <1>3 DEF Has, B, Next1, IsFilter

LEMMA FilterSteps ==
    ASSUME NEW es, Len(es) \in Nat, NEW T
    PROVE  \E f : /\ f[0] = <<>> /\ Filtered(es, T) = f[Len(es)]
                  /\ \A i \in 1..Len(es) :
                        f[i] = IF es[i] \in T THEN Append(f[i - 1], es[i]) ELSE f[i - 1]
<1> DEFINE h == CHOOSE f : IsFilter(f, es, T, Len(es))
<1>1. IsFilter(h, es, T, Len(es))
  BY FilterExists, Zenon
<1>2. Filtered(es, T) = h[Len(es)]
  BY DEF Filtered, IsFilter
<1> HIDE DEF h
<1> DEFINE s == [i \in 0..Len(es) |-> IF i = 0 THEN <<>>
                                      ELSE IF es[i] \in T THEN Append(h[i - 1], es[i])
                                      ELSE h[i - 1]]
<1>3. h = s
  BY <1>1, Zenon DEF IsFilter
<1>4. s[0] = <<>>
  OBVIOUS
<1>5. \A i \in 1..Len(es) : s[i] = IF es[i] \in T THEN Append(h[i - 1], es[i]) ELSE h[i - 1]
  OBVIOUS
<1> HIDE DEF s
<1> QED
  BY <1>2, <1>3, <1>4, <1>5

\* What is kept of a list is in the list and in the set it is kept by.
LEMMA FilteredList ==
    ASSUME NEW S, NEW es \in Seq(S), NEW T
    PROVE  Filtered(es, T) \in Seq(ToSet(es) \cap T)
<1> DEFINE n == Len(es)
           K == ToSet(es) \cap T
<1>1. n \in Nat /\ \A i \in 1..n : es[i] \in ToSet(es)
  BY DEF ToSet
<1>2. PICK f : /\ f[0] = <<>> /\ Filtered(es, T) = f[n]
               /\ \A i \in 1..n : f[i] = IF es[i] \in T THEN Append(f[i - 1], es[i]) ELSE f[i - 1]
  BY <1>1, FilterSteps
<1> HIDE DEF n
<1> DEFINE P(i) == f[i] \in Seq(K)
           B == {i \in 0..n : P(i)}
<1>3. \A i \in 1..n : es[i] \in T => es[i] \in K
  BY <1>1
<1> HIDE DEF K
<1>4. P(0)
  BY <1>2
<1>5. ASSUME NEW i \in 1..n, P(i - 1) PROVE P(i)
  <2>1. es[i] \in T => Append(f[i - 1], es[i]) \in Seq(K)
    BY <1>3, <1>5, AppendProperties
  <2> QED
    BY <1>2, <1>5, <2>1
<1> HIDE DEF P
<1>7. 0 \in B /\ \A i \in 1..n : i - 1 \in B => i \in B
  BY <1>1, <1>4, <1>5
<1> HIDE DEF B
<1>6. n \in B
  <2>1. n \in Nat /\ n \in 0..n
    BY <1>1
  <2>2. 0..n \subseteq B
    BY <1>7, <2>1, Throughout, Zenon
  <2> QED
    BY <2>1, <2>2
<1> QED
  BY <1>2, <1>6 DEF B, P, K

LEMMA WalkSteps ==
    ASSUME NEW g, Steps(g) \in Nat
    PROVE  \E w : /\ w[0] = Start /\ Flooded(g) = w[Steps(g)].region
                  /\ \A i \in 1..Steps(g) : w[i] = Walk(g, w[i - 1])
<1> DEFINE h == CHOOSE w : IsWalk(w, g, Steps(g))
<1>1. IsWalk(h, g, Steps(g))
  BY WalkExists, Zenon
<1>2. Flooded(g) = h[Steps(g)].region
  BY DEF Flooded, IsWalk
<1> HIDE DEF h
<1> DEFINE s == [i \in 0..Steps(g) |-> IF i = 0 THEN Start ELSE Walk(g, h[i - 1])]
<1>3. h = s
  BY <1>1, Zenon DEF IsWalk
<1>4. s[0] = Start
  OBVIOUS
<1>5. \A i \in 1..Steps(g) : s[i] = Walk(g, h[i - 1])
  OBVIOUS
<1> HIDE DEF s
<1> QED
  BY <1>2, <1>3, <1>4, <1>5

-----------------------------------------------------------------------------
(* Regions *)

IsNode(node) ==
    /\ node = [kind |-> node.kind, size |-> node.size, region |-> node.region]
    /\ IsKindAndSize(node)

LegalEdge(g, e) ==
    /\ Exists(g, e.from) /\ Exists(g, e.to)
    /\ IsBodyEdge(g, e) =>
          e.port \in ToSet(Ports(g, e.from)) /\ g.nodes[e.to].kind # "end"

\* Both ends of every edge are there, and a body edge leaves by a port that is there
\* for a node that is no end.
Legal(g) ==
    /\ IsGraph(g)
    /\ \A id \in DOMAIN g.nodes : IsNode(g.nodes[id])
    /\ \E S : g.edges \in Seq(S)
    /\ \A i \in 1..Len(g.edges) : LegalEdge(g, g.edges[i])

\* A region that was found comes from a body edge whose target is in it; while the
\* entries are looked for only they have one.
ComesFrom(g, region, seeding, m, i) ==
    LET e == g.edges[i] IN
    /\ IsBodyEdge(g, e) /\ Exists(g, e.to)
    /\ regionIdForPort(e.from, e.port) = region[m] /\ region[e.to] = region[m]
    /\ m = e.to \/ g.nodes[m].kind # "end"
    /\ seeding => m = e.to

Found(g, region, seeding) ==
    /\ region = [id \in Ids |-> region[id]]
    /\ \A m \in Ids : region[m] # Top => \E i \in 1..Len(g.edges) : ComesFrom(g, region, seeding, m, i)

WalkInv(g, w) ==
    /\ w = [region |-> w.region, queue |-> w.queue, at |-> w.at, seeding |-> w.seeding]
    /\ w.seeding \in BOOLEAN /\ w.at \in 1..Len(g.edges)
    /\ Found(g, w.region, w.seeding)

LEMMA SeedFinds ==
    ASSUME NEW g, NEW region, Found(g, region, TRUE), NEW i \in 1..Len(g.edges),
           g.edges[i].to \in Ids, IsBodyEdge(g, g.edges[i]), Exists(g, g.edges[i].to)
    PROVE  Found(g, [region EXCEPT ![g.edges[i].to] = regionIdForPort(g.edges[i].from, g.edges[i].port)],
                 TRUE)
<1> DEFINE e == g.edges[i]
           r == regionIdForPort(e.from, e.port)
           new == [region EXCEPT ![e.to] = r]
<1>1. new = [id \in Ids |-> IF id = e.to THEN r ELSE region[id]]
  BY DEF Found
<1>2. ASSUME NEW m \in Ids, new[m] # Top
      PROVE  \E k \in 1..Len(g.edges) : ComesFrom(g, new, TRUE, m, k)
  <2>1. CASE m = e.to
    <3>1. ComesFrom(g, new, TRUE, m, i)
      BY <1>1, <2>1 DEF ComesFrom
    <3> QED
      BY <3>1
  <2>2. CASE m # e.to
    <3>1. new[m] = region[m]
      BY <1>1, <2>2
    <3>2. PICK k \in 1..Len(g.edges) : ComesFrom(g, region, TRUE, m, k)
      BY <1>2, <3>1 DEF Found
    <3>3. ComesFrom(g, new, TRUE, m, k)
      BY <3>1, <3>2 DEF ComesFrom
    <3> QED
      BY <3>3
  <2> QED
    BY <2>1, <2>2
<1>3. new = [id \in Ids |-> new[id]]
  BY <1>1
<1> QED
  BY <1>2, <1>3 DEF Found

LEMMA FlowFinds ==
    ASSUME NEW g, NEW region, Found(g, region, FALSE), NEW n \in Ids, NEW to \in Ids,
           region[to] = Top, g.nodes[to].kind # "end"
    PROVE  Found(g, [region EXCEPT ![to] = region[n]], FALSE)
<1> DEFINE new == [region EXCEPT ![to] = region[n]]
<1>1. new = [id \in Ids |-> IF id = to THEN region[n] ELSE region[id]]
  BY DEF Found
<1>2. ASSUME NEW m \in Ids, new[m] # Top
      PROVE  \E k \in 1..Len(g.edges) : ComesFrom(g, new, FALSE, m, k)
  <2> DEFINE src == IF m = to THEN n ELSE m
  <2>1. src \in Ids /\ region[src] = new[m] /\ region[src] # Top
    BY <1>1, <1>2
  <2>2. PICK k \in 1..Len(g.edges) : ComesFrom(g, region, FALSE, src, k)
    BY <2>1 DEF Found
  <2>3. region[g.edges[k].to] = region[src]
    BY <2>2 DEF ComesFrom
  <2>4. g.edges[k].to # to
    BY <2>1, <2>3
  <2>5. new[g.edges[k].to] = region[g.edges[k].to]
    BY <2>4
  <2>6. m = g.edges[k].to \/ g.nodes[m].kind # "end"
    BY <2>2 DEF ComesFrom
  <2> HIDE DEF new
  <2>7. ComesFrom(g, new, FALSE, m, k)
    BY <2>1, <2>2, <2>5, <2>6 DEF ComesFrom
  <2> QED
    BY <2>7
<1>3. new = [id \in Ids |-> new[id]]
  BY <1>1
<1> QED
  BY <1>2, <1>3 DEF Found

\* What a walk is.
Walker(region, queue, at, seeding) ==
    [region |-> region, queue |-> queue, at |-> at, seeding |-> seeding]

LEMMA WalkIsWalker ==
    ASSUME NEW g, NEW region, NEW queue, NEW at \in 1..Len(g.edges), NEW seeding \in BOOLEAN,
           Found(g, region, seeding)
    PROVE  WalkInv(g, Walker(region, queue, at, seeding))
BY DEF Walker, WalkInv

IsWalker(w) == w = [region |-> w.region, queue |-> w.queue, at |-> w.at, seeding |-> w.seeding]

LEMMA EntersWalker ==
    ASSUME NEW w, IsWalker(w), NEW id, NEW r
    PROVE  Enter(w, id, r) = Walker([w.region EXCEPT ![id] = r], Append(w.queue, id), w.at, w.seeding)
<1> DEFINE entered == [w.region EXCEPT ![id] = r]
           v == [w EXCEPT !.region = entered]
<1>1. Enter(w, id, r) = [v EXCEPT !.queue = Append(w.queue, id)]
  BY DEF IsWalker, Enter
<1>2. v = [region |-> entered, queue |-> w.queue, at |-> w.at, seeding |-> w.seeding]
  BY DEF IsWalker
<1> HIDE DEF v, entered
<1>3. [v EXCEPT !.queue = Append(w.queue, id)] = Walker(entered, Append(w.queue, id), w.at, w.seeding)
  BY <1>2 DEF Walker
<1> QED
  BY <1>1, <1>3 DEF entered

LEMMA SeedKeeps ==
    ASSUME NEW g, Legal(g), NEW w, WalkInv(g, w), w.seeding
    PROVE  \E region, queue :
               /\ Seed(g, w, g.edges[w.at]) = Walker(region, queue, w.at, w.seeding)
               /\ Found(g, region, TRUE)
<1> DEFINE e == g.edges[w.at]
           r == regionIdForPort(e.from, e.port)
<1>1. /\ w = Walker(w.region, w.queue, w.at, w.seeding) /\ IsWalker(w)
      /\ Found(g, w.region, TRUE) /\ w.at \in 1..Len(g.edges)
  <2>1. w.seeding = TRUE
    BY DEF WalkInv
  <2> QED
    BY <2>1 DEF WalkInv, Walker, IsWalker
<1>2. CASE IsBodyEdge(g, e) /\ Exists(g, e.to)
  <2>1. e.to \in Ids
    BY <1>2 DEF Legal, IsGraph, Exists
  <2>2. Found(g, [w.region EXCEPT ![e.to] = r], TRUE)
    BY <1>1, <1>2, <2>1, SeedFinds
  <2>3. Seed(g, w, e) = Enter(w, e.to, r)
    BY <1>2 DEF Seed
  <2> HIDE DEF e, r
  <2>4. Seed(g, w, e) = Walker([w.region EXCEPT ![e.to] = r], Append(w.queue, e.to), w.at, w.seeding)
    BY <1>1, <2>3, EntersWalker
  <2> QED
    BY <2>2, <2>4 DEF e
<1>3. CASE ~(IsBodyEdge(g, e) /\ Exists(g, e.to))
  <2>1. Seed(g, w, e) = w
    BY <1>3 DEF Seed
  <2> QED
    BY <1>1, <2>1
<1> QED
  BY <1>2, <1>3

LEMMA FlowKeeps ==
    ASSUME NEW g, Legal(g), NEW w, WalkInv(g, w), ~w.seeding
    PROVE  \E region, queue :
               /\ Flow(g, w, g.edges[w.at]) = Walker(region, queue, w.at, w.seeding)
               /\ Found(g, region, FALSE)
<1> DEFINE e == g.edges[w.at]
<1>1. /\ w = Walker(w.region, w.queue, w.at, w.seeding) /\ IsWalker(w)
      /\ Found(g, w.region, FALSE) /\ w.at \in 1..Len(g.edges)
  <2>1. w.seeding = FALSE
    BY DEF WalkInv
  <2> QED
    BY <2>1 DEF WalkInv, Walker, IsWalker
<1>2. e.from \in Ids /\ e.to \in Ids
  <2>1. Exists(g, e.from) /\ Exists(g, e.to)
    BY <1>1 DEF Legal, LegalEdge
  <2> QED
    BY <2>1 DEF Legal, IsGraph, Exists
<1> DEFINE C == /\ e.from = Head(w.queue) /\ ~IsBodyEdge(g, e)
                /\ Exists(g, e.to) /\ g.nodes[e.to].kind # "end" /\ w.region[e.to] = Top
<1>3. CASE C
  <2>1. Found(g, [w.region EXCEPT ![e.to] = w.region[e.from]], FALSE)
    BY <1>1, <1>2, <1>3, FlowFinds
  <2>2. Flow(g, w, e) = Enter(w, e.to, w.region[e.from])
    BY <1>3 DEF Flow
  <2> HIDE DEF e
  <2>3. Flow(g, w, e) = Walker([w.region EXCEPT ![e.to] = w.region[e.from]], Append(w.queue, e.to),
                               w.at, w.seeding)
    BY <1>1, <2>2, EntersWalker
  <2> QED
    BY <2>1, <2>3 DEF e
<1>4. CASE ~C
  <2>1. Flow(g, w, e) = w
    BY <1>4 DEF Flow
  <2> QED
    BY <1>1, <2>1
<1> QED
  BY <1>3, <1>4

LEMMA WalkKeeps ==
    ASSUME NEW g, Legal(g), NEW w, WalkInv(g, w)
    PROVE  WalkInv(g, Walk(g, w))
<1> DEFINE e == g.edges[w.at]
           last == w.at = Len(g.edges)
           next == IF last THEN 1 ELSE w.at + 1
<1>1. next \in 1..Len(g.edges) /\ last \in BOOLEAN /\ w.seeding \in BOOLEAN
  BY DEF Legal, WalkInv
<1>2. CASE w.seeding
  <2>1. PICK region, queue : /\ Seed(g, w, e) = Walker(region, queue, w.at, w.seeding)
                             /\ Found(g, region, TRUE)
    BY <1>2, SeedKeeps
  <2>2. Walk(g, w) = [Seed(g, w, e) EXCEPT !.at = next, !.seeding = ~last]
    BY <1>2 DEF Walk
  <2> HIDE DEF next, last, e
  <2> DEFINE u == Seed(g, w, e)
             v == [u EXCEPT !.at = next]
  <2>5. Walk(g, w) = [v EXCEPT !.seeding = ~last]
    BY <2>1, <2>2 DEF Walker
  <2> HIDE DEF u
  <2>6. u = Walker(region, queue, w.at, w.seeding)
    BY <2>1 DEF u
  <2>7. v = Walker(region, queue, next, w.seeding)
    BY <2>6 DEF Walker
  <2> HIDE DEF v
  <2>3. Walk(g, w) = Walker(region, queue, next, ~last)
    BY <2>5, <2>7 DEF Walker
  <2>4. Found(g, region, ~last)
    BY <2>1 DEF Found, ComesFrom
  <2> QED
    BY <1>1, <2>3, <2>4, WalkIsWalker
<1>3. CASE ~w.seeding /\ w.queue = <<>>
  BY <1>3 DEF Walk
<1>4. CASE ~w.seeding /\ w.queue # <<>>
  <2>1. PICK region, queue : /\ Flow(g, w, e) = Walker(region, queue, w.at, w.seeding)
                             /\ Found(g, region, FALSE)
    BY <1>4, FlowKeeps
  <2> DEFINE left(q) == IF last THEN Tail(q) ELSE q
  <2>2. Walk(g, w) = [Flow(g, w, e) EXCEPT !.at = next, !.queue = left(@)]
    BY <1>4 DEF Walk
  <2> HIDE DEF next, last, e, left
  <2> DEFINE u == Flow(g, w, e)
             v == [u EXCEPT !.at = next]
  <2>5. Walk(g, w) = [v EXCEPT !.queue = left(queue)]
    BY <2>1, <2>2 DEF Walker
  <2> HIDE DEF u
  <2>6. u = Walker(region, queue, w.at, w.seeding)
    BY <2>1 DEF u
  <2>7. v = Walker(region, queue, next, w.seeding)
    BY <2>6 DEF Walker
  <2> HIDE DEF v
  <2>3. Walk(g, w) = Walker(region, left(queue), next, w.seeding)
    BY <2>5, <2>7 DEF Walker
  <2>4. w.seeding = FALSE
    BY <1>1, <1>4
  <2> QED
    BY <1>1, <2>1, <2>3, <2>4, WalkIsWalker
<1> QED
  BY <1>2, <1>3, <1>4

\* What the regions of a graph are for.
LEMMA FloodedFinds ==
    ASSUME NEW g, Legal(g)
    PROVE  Found(g, Flooded(g), FALSE)
<1> DEFINE n == Len(g.edges)
<1>1. n \in Nat
  BY DEF Legal
<1>2. Steps(g) \in Nat
  BY <1>1 DEF Steps
<1>3. PICK w : /\ w[0] = Start /\ Flooded(g) = w[Steps(g)].region
               /\ \A i \in 1..Steps(g) : w[i] = Walk(g, w[i - 1])
  BY <1>2, WalkSteps
<1>4. Found(g, Start.region, TRUE) /\ Found(g, Start.region, FALSE)
  BY DEF Found, Start
<1>5. CASE n = 0
  <2>1. Steps(g) = 0
    BY <1>5 DEF Steps
  <2> QED
    BY <1>3, <1>4, <2>1
<1>6. CASE n # 0
  <2> DEFINE P(i) == WalkInv(g, w[i])
             B == {i \in 0..Steps(g) : P(i)}
  <2>1. P(0)
    <3>1. Start = Walker(Start.region, <<>>, 1, TRUE)
      BY DEF Start, Walker
    <3>2. 1 \in 1..Len(g.edges)
      BY <1>1, <1>6
    <3> QED
      BY <1>3, <1>4, <3>1, <3>2, WalkIsWalker
  <2>2. ASSUME NEW i \in 1..Steps(g), P(i - 1) PROVE P(i)
    BY <1>3, <2>2, WalkKeeps
  <2> HIDE DEF P
  <2>3. 0 \in B /\ \A i \in 1..Steps(g) : i - 1 \in B => i \in B
    BY <1>2, <2>1, <2>2
  <2> HIDE DEF B
  <2>4. 0..Steps(g) \subseteq B
    BY <1>2, <2>3, Throughout, Zenon
  <2>5. P(Steps(g))
    BY <1>2, <2>4 DEF B
  <2>6. Found(g, w[Steps(g)].region, w[Steps(g)].seeding)
    BY <2>5 DEF P, WalkInv
  <2>7. Found(g, w[Steps(g)].region, FALSE)
    BY <2>6 DEF Found, ComesFrom
  <2> QED
    BY <1>3, <2>7
<1> QED
  BY <1>5, <1>6

-----------------------------------------------------------------------------
(* Graphs whose regions are as they should be *)

Good(g) == Legal(g) /\ NoOrphans(g)

\* A node that is in both graphs, with the same ports.
Alike(g, h, id) ==
    /\ Exists(g, id) /\ Exists(h, id)
    /\ g.nodes[id].kind = h.nodes[id].kind /\ g.nodes[id].size = h.nodes[id].size

LEMMA SamePorts ==
    ASSUME NEW g, NEW h, NEW id, Alike(g, h, id)
    PROVE  Ports(g, id) = Ports(h, id)
BY DEF Alike, Ports, outputsForNode

LEMMA SameEdge ==
    ASSUME NEW g, NEW h, NEW e, Alike(g, h, e.from), Alike(g, h, e.to)
    PROVE  /\ LegalEdge(g, e) => LegalEdge(h, e)
           /\ IsBodyEdge(g, e) <=> IsBodyEdge(h, e)
<1>1. Ports(g, e.from) = Ports(h, e.from)
  BY SamePorts
<1>2. IsBodyEdge(g, e) <=> IsBodyEdge(h, e)
  BY DEF Alike, IsBodyEdge
<1> QED
  BY <1>1, <1>2 DEF Alike, LegalEdge

LEMMA RecomputedIsGood ==
    ASSUME NEW g, Legal(g)
    PROVE  /\ Good(recomputeRegions(g))
           /\ \A id \in DOMAIN g.nodes : Alike(g, recomputeRegions(g), id)
<1> DEFINE f == Flooded(g)
           ns == [id \in DOMAIN g.nodes |-> [g.nodes[id] EXCEPT !.region = f[id]]]
           q == recomputeRegions(g)
<1>1. q = [g EXCEPT !.nodes = ns] /\ IsGraph(g)
  BY DEF recomputeRegions, Legal
<1>2. Found(g, f, FALSE)
  BY FloodedFinds
<1>3. DOMAIN ns = DOMAIN g.nodes
  OBVIOUS
<1>4. ASSUME NEW id \in DOMAIN g.nodes
      PROVE  /\ IsNode(ns[id]) /\ ns[id].region = f[id]
             /\ ns[id].kind = g.nodes[id].kind /\ ns[id].size = g.nodes[id].size
  <2> DEFINE node == g.nodes[id]
             new == [node EXCEPT !.region = f[id]]
  <2>1. node = [kind |-> node.kind, size |-> node.size, region |-> node.region] /\ IsKindAndSize(node)
    BY DEF Legal, IsNode
  <2>2. ns[id] = new
    OBVIOUS
  <2> HIDE DEF node, ns, f
  <2>3. new = [kind |-> node.kind, size |-> node.size, region |-> f[id]]
    BY <2>1
  <2> HIDE DEF new
  <2>4. new.kind = node.kind /\ new.size = node.size /\ new.region = f[id]
    BY <2>3
  <2>5. IsNode(new)
    BY <2>1, <2>3, <2>4 DEF IsNode, IsKindAndSize
  <2> QED
    BY <2>2, <2>4, <2>5 DEF node
<1> HIDE DEF ns, f, q
<1>5. IsGraph(q) /\ q.nodes = ns /\ q.edges = g.edges
  BY <1>1, <1>3 DEF IsGraph
<1>6. ASSUME NEW id \in DOMAIN g.nodes PROVE Alike(g, q, id)
  BY <1>3, <1>4, <1>5 DEF Alike, Exists
<1>7. ASSUME NEW i \in 1..Len(g.edges) PROVE LegalEdge(q, g.edges[i])
  <2>1. LegalEdge(g, g.edges[i])
    BY DEF Legal
  <2>2. Alike(g, q, g.edges[i].from) /\ Alike(g, q, g.edges[i].to)
    BY <1>6, <2>1 DEF LegalEdge, Exists
  <2> QED
    BY <2>1, <2>2, SameEdge
<1>8. Legal(q)
  BY <1>3, <1>4, <1>5, <1>7 DEF Legal
<1>9. DOMAIN g.edges = 1..Len(g.edges)
  BY DEF Legal
<1>10. ASSUME NEW id \in DOMAIN q.nodes, Region(q, id) # Top
       PROVE  /\ q.nodes[id].kind # "end"
              /\ \E i \in DOMAIN q.edges :
                    LET e == q.edges[i] IN
                    /\ IsBodyEdge(q, e)
                    /\ e.port \in ToSet(Ports(q, e.from))
                    /\ regionIdForPort(e.from, e.port) = Region(q, id)
                    /\ Region(q, e.to) = Region(q, id)
  <2>1. id \in DOMAIN g.nodes /\ id \in Ids /\ f[id] # Top /\ Region(q, id) = f[id]
    BY <1>3, <1>4, <1>5, <1>10 DEF Legal, IsGraph, Region
  <2>2. PICK i \in 1..Len(g.edges) : ComesFrom(g, f, FALSE, id, i)
    BY <1>2, <2>1 DEF Found
  <2> DEFINE e == g.edges[i]
  <2>3. /\ IsBodyEdge(g, e) /\ Exists(g, e.to) /\ regionIdForPort(e.from, e.port) = f[id]
        /\ f[e.to] = f[id] /\ (id = e.to \/ g.nodes[id].kind # "end")
    BY <2>2 DEF ComesFrom
  <2>4. LegalEdge(g, e) /\ LegalEdge(q, e)
    BY <1>7 DEF Legal
  <2>5. Alike(g, q, e.from) /\ Alike(g, q, e.to)
    BY <1>6, <2>4 DEF LegalEdge, Exists
  <2>6. IsBodyEdge(q, e)
    BY <2>3, <2>5, SameEdge
  <2>7. e.port \in ToSet(Ports(q, e.from)) /\ g.nodes[e.to].kind # "end"
    BY <2>3, <2>4, <2>6 DEF LegalEdge
  <2>8. Region(q, e.to) = f[id]
    BY <1>4, <1>5, <2>3 DEF Region, Exists
  <2>9. q.nodes[id].kind # "end"
    BY <1>4, <1>5, <2>1, <2>3, <2>7
  <2> QED
    BY <1>5, <1>9, <2>1, <2>3, <2>6, <2>7, <2>8, <2>9
<1>11. NoOrphans(q)
  BY <1>10 DEF NoOrphans
<1> QED
  BY <1>6, <1>8, <1>11 DEF Good, q

-----------------------------------------------------------------------------
(* Edges *)

LEMMA FilteredEdges ==
    ASSUME NEW S, NEW es \in Seq(S), NEW T
    PROVE  /\ \E K : Filtered(es, T) \in Seq(K)
           /\ \A i \in 1..Len(Filtered(es, T)) :
                 Filtered(es, T)[i] \in T /\ \E j \in 1..Len(es) : Filtered(es, T)[i] = es[j]
<1> DEFINE K == ToSet(es) \cap T
           kept == Filtered(es, T)
<1>1. kept \in Seq(K)
  BY FilteredList
<1>2. \A x \in K : x \in T /\ \E j \in 1..Len(es) : x = es[j]
  BY DEF ToSet
<1> HIDE DEF K, kept
<1>3. \A i \in 1..Len(kept) : kept[i] \in K
  BY <1>1
<1> QED
  BY <1>1, <1>2, <1>3 DEF kept

Longer(es, e) == Append(es, e)

LEMMA AppendedEdges ==
    ASSUME NEW S, NEW es \in Seq(S), NEW e
    PROVE  /\ \E K : Longer(es, e) \in Seq(K)
           /\ \A i \in 1..Len(Longer(es, e)) :
                 Longer(es, e)[i] = e \/ \E j \in 1..Len(es) : Longer(es, e)[i] = es[j]
<1> DEFINE K == S \cup {e}
           more == Append(es, e)
<1>1. es \in Seq(K) /\ e \in K
  OBVIOUS
<1> HIDE DEF K
<1>2. more \in Seq(K) /\ Len(more) = Len(es) + 1 /\ more[Len(es) + 1] = e
      /\ \A i \in 1..Len(es) : more[i] = es[i]
  BY <1>1, AppendProperties
<1>3. Len(es) \in Nat
  OBVIOUS
<1> HIDE DEF more, Longer
<1>4. \A i \in 1..Len(more) : more[i] = e \/ \E j \in 1..Len(es) : more[i] = es[j]
  <2> TAKE i \in 1..Len(more)
  <2>1. i = Len(es) + 1 \/ i \in 1..Len(es)
    BY <1>2, <1>3
  <2> QED
    BY <1>2, <2>1
<1> QED
  BY <1>2, <1>4 DEF more, Longer

\* Other legal edges for the same nodes.
LEMMA LegalEdges ==
    ASSUME NEW g, Legal(g), NEW S, NEW es \in Seq(S), \A i \in 1..Len(es) : LegalEdge(g, es[i])
    PROVE  Legal([g EXCEPT !.edges = es])
<1> DEFINE q == [g EXCEPT !.edges = es]
<1>1. IsGraph(g)
  BY DEF Legal
<1>2. IsGraph(q) /\ q.nodes = g.nodes /\ q.edges = es
  BY <1>1 DEF IsGraph
<1> HIDE DEF q
<1>3. ASSUME NEW i \in 1..Len(es) PROVE LegalEdge(q, es[i])
  <2>1. LegalEdge(g, es[i])
    OBVIOUS
  <2>2. Alike(g, q, es[i].from) /\ Alike(g, q, es[i].to)
    BY <1>2, <2>1 DEF LegalEdge, Alike, Exists
  <2> QED
    BY <2>1, <2>2, SameEdge
<1>4. Legal(q)
  BY <1>2, <1>3 DEF Legal
<1> QED
  BY <1>4 DEF q

LEMMA FilteredIsLegal ==
    ASSUME NEW g, Legal(g), NEW T
    PROVE  Legal([g EXCEPT !.edges = Filtered(g.edges, T)])
<1>1. PICK S : g.edges \in Seq(S)
  BY DEF Legal
<1> DEFINE es == Filtered(g.edges, T)
<1>2. /\ \E K : es \in Seq(K)
      /\ \A i \in 1..Len(es) : \E j \in 1..Len(g.edges) : es[i] = g.edges[j]
  BY <1>1, FilteredEdges
<1> HIDE DEF es
<1>3. \A i \in 1..Len(es) : LegalEdge(g, es[i])
  BY <1>2 DEF Legal
<1>4. Legal([g EXCEPT !.edges = es])
  BY <1>2, <1>3, LegalEdges
<1> QED
  BY <1>4 DEF es

LEMMA AppendedIsLegal ==
    ASSUME NEW g, Legal(g), NEW e, LegalEdge(g, e)
    PROVE  Legal([g EXCEPT !.edges = Append(g.edges, e)])
<1>1. PICK S : g.edges \in Seq(S)
  BY DEF Legal
<1> DEFINE es == Longer(g.edges, e)
<1>2. /\ \E K : es \in Seq(K)
      /\ \A i \in 1..Len(es) : es[i] = e \/ \E j \in 1..Len(g.edges) : es[i] = g.edges[j]
  BY <1>1, AppendedEdges
<1> HIDE DEF es
<1>3. \A i \in 1..Len(es) : LegalEdge(g, es[i])
  BY <1>2 DEF Legal
<1>4. Legal([g EXCEPT !.edges = es])
  BY <1>2, <1>3, LegalEdges
<1> QED
  BY <1>4 DEF es, Longer

-----------------------------------------------------------------------------
(* What each change makes of a graph *)

LEMMA AlteredIsGood ==
    ASSUME NEW g, Good(g)
    PROVE  Good(Altered(g)) /\ \A id \in DOMAIN g.nodes : Alike(g, Altered(g), id)
<1> DEFINE q == Altered(g)
<1>1. IsGraph(q) /\ q.nodes = g.nodes /\ q.edges = g.edges
  BY DEF Altered, Good, Legal, IsGraph
<1> HIDE DEF q
<1>2. \A id \in DOMAIN g.nodes : Alike(g, q, id)
  BY <1>1 DEF Alike, Exists
<1>3. \A i \in 1..Len(g.edges) : LegalEdge(q, g.edges[i])
  BY <1>2, SameEdge DEF Good, Legal, LegalEdge, Exists
<1>4. Legal(q)
  BY <1>1, <1>3 DEF Good, Legal
<1>5. \A id : Ports(q, id) = Ports(g, id) /\ Region(q, id) = Region(g, id)
  BY <1>1 DEF Ports, Exists, Region
<1>6. \A e : IsBodyEdge(q, e) <=> IsBodyEdge(g, e)
  BY <1>1 DEF IsBodyEdge, Exists
<1>7. NoOrphans(q)
  BY <1>1, <1>5, <1>6 DEF Good, NoOrphans
<1> QED
  BY <1>2, <1>4, <1>7 DEF Good, q

\* A new node, in no region yet.
LEMMA WithNodeIsGood ==
    ASSUME NEW g, Good(g), NEW id \in Ids \ DOMAIN g.nodes,
           NEW node, IsNode(node), node.region = Top
    PROVE  /\ Good(WithNode(g, id, node))
           /\ WithNode(g, id, node).nodes[id] = node
           /\ DOMAIN WithNode(g, id, node).nodes = DOMAIN g.nodes \cup {id}
           /\ \A n \in DOMAIN g.nodes : Alike(g, WithNode(g, id, node), n)
<1> DEFINE ns == [n \in DOMAIN g.nodes \cup {id} |-> IF n = id THEN node ELSE g.nodes[n]]
           q == WithNode(g, id, node)
<1>1. q = [g EXCEPT !.nodes = ns] /\ IsGraph(g)
  BY DEF WithNode, Good, Legal
<1>2. DOMAIN ns = DOMAIN g.nodes \cup {id} /\ ns[id] = node /\ \A n \in DOMAIN g.nodes : ns[n] = g.nodes[n]
  OBVIOUS
<1>3. DOMAIN ns \subseteq Ids
  BY <1>1, <1>2 DEF IsGraph
<1> HIDE DEF ns, q
<1>4. IsGraph(q) /\ q.nodes = ns /\ q.edges = g.edges
  BY <1>1, <1>3 DEF IsGraph
<1>5. \A n \in DOMAIN g.nodes : Alike(g, q, n)
  BY <1>2, <1>4 DEF Alike, Exists
<1>6. \A i \in 1..Len(g.edges) : LegalEdge(q, g.edges[i]) /\ LegalEdge(g, g.edges[i])
  BY <1>5, SameEdge DEF Good, Legal, LegalEdge, Exists
<1>7. Legal(q)
  BY <1>2, <1>4, <1>6 DEF Good, Legal
<1>8. DOMAIN g.edges = 1..Len(g.edges)
  BY DEF Good, Legal
<1>9. ASSUME NEW m \in DOMAIN q.nodes, Region(q, m) # Top
      PROVE  /\ q.nodes[m].kind # "end"
             /\ \E i \in DOMAIN q.edges :
                   LET e == q.edges[i] IN
                   /\ IsBodyEdge(q, e)
                   /\ e.port \in ToSet(Ports(q, e.from))
                   /\ regionIdForPort(e.from, e.port) = Region(q, m)
                   /\ Region(q, e.to) = Region(q, m)
  <2>1. m \in DOMAIN g.nodes /\ q.nodes[m] = g.nodes[m]
    BY <1>2, <1>4, <1>9 DEF Region
  <2>2. Region(g, m) = Region(q, m) /\ Region(g, m) # Top
    BY <1>9, <2>1 DEF Region
  <2>3. g.nodes[m].kind # "end"
    BY <2>1, <2>2 DEF Good, NoOrphans
  <2>4. PICK i \in 1..Len(g.edges) :
          /\ IsBodyEdge(g, g.edges[i])
          /\ regionIdForPort(g.edges[i].from, g.edges[i].port) = Region(g, m)
          /\ Region(g, g.edges[i].to) = Region(g, m)
    BY <1>8, <2>1, <2>2 DEF Good, NoOrphans
  <2> DEFINE e == g.edges[i]
  <2>5. LegalEdge(q, e) /\ LegalEdge(g, e)
    BY <1>6
  <2>6. e.from \in DOMAIN g.nodes /\ e.to \in DOMAIN g.nodes
    BY <2>5 DEF LegalEdge, Exists
  <2>7. IsBodyEdge(q, e)
    BY <1>5, <2>4, <2>6, SameEdge
  <2>8. e.port \in ToSet(Ports(q, e.from))
    BY <2>5, <2>7 DEF LegalEdge
  <2>9. Region(q, e.to) = Region(g, e.to)
    BY <1>2, <1>4, <2>6 DEF Region
  <2> QED
    BY <1>4, <1>8, <2>1, <2>2, <2>3, <2>4, <2>7, <2>8, <2>9
<1>10. NoOrphans(q)
  BY <1>9 DEF NoOrphans
<1> QED
  BY <1>2, <1>4, <1>5, <1>7, <1>10 DEF Good, q

\* The first port of a control node opens a body.
LEMMA ControlPorts ==
    ASSUME NEW g, NEW id, Exists(g, id), IsNode(g.nodes[id]), g.nodes[id].kind \in ControlKinds
    PROVE  /\ Ports(g, id) # <<"done">> /\ Ports(g, id) # <<>>
           /\ Ports(g, id)[1] \in ToSet(Ports(g, id))
<1> DEFINE node == g.nodes[id]
           Names == {"body:0", "body:1", "body:2", "done"}
<1>1. Ports(g, id) = outputsForNode(node)
  BY DEF Ports
<1>2. CASE node.kind = "loop"
  <2>1. Ports(g, id) = <<"body", "done">>
    BY <1>1, <1>2 DEF outputsForNode
  <2>2. Len(<<"body", "done">>) = 2 /\ DOMAIN <<"body", "done">> = 1..2
        /\ Len(<<"done">>) = 1 /\ Len(<< >>) = 0
    OBVIOUS
  <2> DEFINE p == Ports(g, id)
  <2>3. Len(p) = 2 /\ DOMAIN p = 1..2
    BY <2>1, <2>2
  <2>6. Len(p) # 1 /\ Len(p) # 0
    BY <2>3
  <2> HIDE DEF p
  <2>4. 1 \in DOMAIN p /\ p[1] \in ToSet(p)
    BY <2>3 DEF ToSet
  <2>5. p # <<"done">> /\ p # << >>
    <3>1. Len(<<"done">>) = 1 /\ Len(<< >>) = 0
      OBVIOUS
    <3> QED
      BY <2>6, <3>1
  <2> QED
    BY <2>4, <2>5 DEF p
<1>3. CASE node.kind = "parallel"
  <2>1. node.size \in 2..3
    BY <1>3 DEF IsNode, IsKindAndSize, MinSize, MaxSize, Kinds
  <2> DEFINE n == node.size
             p == Longer(SubSeq(BodyPorts, 1, n), "done")
  <2>2. Ports(g, id) = p
    BY <1>1, <1>3 DEF outputsForNode, Longer
  <2>3. BodyPorts \in Seq(Names) /\ Len(BodyPorts) = 3
    BY DEF BodyPorts
  <2>4. n \in 2..3 /\ "done" \in Names
    BY <2>1
  <2> HIDE DEF n, Names
  <2>5. p \in Seq(Names) /\ Len(p) = n + 1
    <3> DEFINE s == SubSeq(BodyPorts, 1, n)
               b == BodyPorts
    <3>3. b \in Seq(Names) /\ Len(b) = 3
      BY <2>3
    <3> HIDE DEF b
    <3>4. ASSUME NEW i \in 1..n PROVE b[i] \in Names
      <4>1. i \in 1..Len(b)
        BY <2>4, <3>3
      <4> QED
        BY <3>3, <4>1, ElementOfSeq
    <3>5. SubSeq(b, 1, n) \in Seq(Names) /\ Len(SubSeq(b, 1, n)) = n
      BY <2>4, <3>4, SubSeqProperties
    <3>1. s \in Seq(Names) /\ Len(s) = n
      BY <3>5 DEF b
    <3> HIDE DEF s
    <3>2. Append(s, "done") \in Seq(Names) /\ Len(Append(s, "done")) = n + 1
      BY <2>4, <3>1
    <3> QED
      BY <3>2 DEF s, Longer
  <2> HIDE DEF p
  <2>6. Len(p) # 1 /\ Len(p) # 0 /\ 1 \in 1..Len(p) /\ DOMAIN p = 1..Len(p)
    BY <2>4, <2>5
  <2>7. p # <<"done">> /\ p # << >>
    <3>1. Len(<<"done">>) = 1 /\ Len(<< >>) = 0
      OBVIOUS
    <3> QED
      BY <2>6, <3>1
  <2> QED
    BY <2>2, <2>6, <2>7 DEF ToSet
<1> QED
  BY <1>2, <1>3 DEF ControlKinds

Wiring(g, r, id) == Edge(r[1], r[2], id)

\* What a body can be dropped on is a port that opens one.
LEMMA DropsOnPorts ==
    ASSUME NEW g, Good(g), NEW r \in bodyDropContext(g)
    PROVE  r[1] \in DOMAIN g.nodes /\ r[2] \in ToSet(Ports(g, r[1]))
<1>1. CASE \E id \in DOMAIN g.nodes : r = Region(g, id) /\ r # Top
  <2>1. PICK id \in DOMAIN g.nodes : r = Region(g, id) /\ r # Top
    BY <1>1
  <2>2. PICK i \in DOMAIN g.edges :
          /\ IsBodyEdge(g, g.edges[i])
          /\ g.edges[i].port \in ToSet(Ports(g, g.edges[i].from))
          /\ regionIdForPort(g.edges[i].from, g.edges[i].port) = r
    BY <2>1 DEF Good, NoOrphans
  <2>3. r[1] = g.edges[i].from /\ r[2] = g.edges[i].port
    BY <2>2 DEF regionIdForPort
  <2> QED
    BY <2>2, <2>3 DEF IsBodyEdge, Exists
<1>2. CASE \E id \in DOMAIN g.nodes :
             g.nodes[id].kind \in ControlKinds /\ r = regionIdForPort(id, Ports(g, id)[1])
  <2>1. PICK id \in DOMAIN g.nodes :
          g.nodes[id].kind \in ControlKinds /\ r = regionIdForPort(id, Ports(g, id)[1])
    BY <1>2
  <2>2. r[1] = id /\ r[2] = Ports(g, id)[1]
    BY <2>1 DEF regionIdForPort
  <2>3. Exists(g, id) /\ IsNode(g.nodes[id])
    BY DEF Good, Legal, Exists
  <2> QED
    BY <2>1, <2>2, <2>3, ControlPorts
<1> QED
  BY <1>1, <1>2 DEF bodyDropContext

\* A node of a kind that may be in a body is wired into one.
LEMMA WiredIsLegal ==
    ASSUME NEW g, Legal(g), NEW r, r[1] \in DOMAIN g.nodes, r[2] \in ToSet(Ports(g, r[1])),
           NEW id \in DOMAIN g.nodes, g.nodes[id].kind # "end", NEW q \in wireIntoBody(g, r, id)
    PROVE  Legal(q)
<1> DEFINE port(tail) == IF Ports(g, tail) = <<>> THEN "done" ELSE Ports(g, tail)[1]
<1>1. \/ q = g
      \/ q = [g EXCEPT !.edges = Append(g.edges, Wiring(g, r, id))]
      \/ \E tail \in Tails(g, r) : q = [g EXCEPT !.edges = Append(g.edges, Edge(tail, port(tail), id))]
  BY DEF wireIntoBody, Wiring
<1>2. LegalEdge(g, Wiring(g, r, id))
  <2>1. Wiring(g, r, id).from = r[1] /\ Wiring(g, r, id).port = r[2] /\ Wiring(g, r, id).to = id
    BY DEF Wiring, Edge
  <2> QED
    BY <2>1 DEF LegalEdge, Exists
<1>3. ASSUME NEW tail \in Tails(g, r) PROVE LegalEdge(g, Edge(tail, port(tail), id))
  <2> DEFINE e == Edge(tail, port(tail), id)
  <2>1. e.from = tail /\ e.port = port(tail) /\ e.to = id
    BY DEF Edge
  <2>2. Exists(g, tail)
    BY DEF Tails, Members, Exists
  <2> HIDE DEF e
  <2>3. ASSUME IsBodyEdge(g, e) PROVE e.port \in ToSet(Ports(g, tail))
    <3>1. g.nodes[tail].kind \in ControlKinds /\ IsNode(g.nodes[tail])
      BY <2>1, <2>2, <2>3 DEF IsBodyEdge, Legal, Exists
    <3>2. Ports(g, tail) # <<>> /\ Ports(g, tail)[1] \in ToSet(Ports(g, tail))
      BY <2>2, <3>1, ControlPorts
    <3> QED
      BY <2>1, <3>2
  <2>4. LegalEdge(g, e)
    BY <2>1, <2>2, <2>3 DEF LegalEdge, Exists
  <2> QED
    BY <2>4 DEF e
<1> HIDE DEF port
<1>4. ASSUME NEW tail \in Tails(g, r), q = [g EXCEPT !.edges = Append(g.edges, Edge(tail, port(tail), id))]
      PROVE  Legal(q)
  <2> DEFINE e == Edge(tail, port(tail), id)
  <2>1. LegalEdge(g, e)
    BY <1>3
  <2> HIDE DEF e
  <2>2. Legal([g EXCEPT !.edges = Append(g.edges, e)])
    BY <2>1, AppendedIsLegal
  <2> QED
    BY <1>4, <2>2 DEF e
<1>5. ASSUME q = [g EXCEPT !.edges = Append(g.edges, Wiring(g, r, id))] PROVE Legal(q)
  <2>1. Legal([g EXCEPT !.edges = Append(g.edges, Wiring(g, r, id))])
    BY <1>2, AppendedIsLegal
  <2> QED
    BY <1>5, <2>1
<1> QED
  BY <1>1, <1>4, <1>5

LEMMA JoinedIsGood ==
    ASSUME NEW g, Good(g), NEW from \in DOMAIN g.nodes, NEW to \in DOMAIN g.nodes,
           NEW port \in ToSet(Ports(g, from)), ~connectionError(g, from, port, to)
    PROVE  Good(Joined(g, from, port, to))
<1> DEFINE T == {e \in ToSet(g.edges) : e.from # from \/ (Len(Ports(g, from)) > 1 /\ e.port # port)}
           e1 == Edge(from, port, to)
           kept == Filtered(g.edges, T)
           h == [g EXCEPT !.edges = kept]
           q == [g EXCEPT !.edges = Append(kept, e1)]
<1>1. Joined(g, from, port, to) = recomputeRegions(q)
  BY DEF Joined
<1>2. e1.from = from /\ e1.port = port /\ e1.to = to
  BY DEF Edge
<1>3. IsBodyEdge(g, e1) => g.nodes[to].kind # "end"
  BY DEF connectionError
<1>4. LegalEdge(g, e1)
  BY <1>2, <1>3 DEF LegalEdge, Exists
<1> HIDE DEF T, e1
<1>5. Legal(h)
  BY FilteredIsLegal DEF Good
<1>6. h.nodes = g.nodes /\ h.edges = kept /\ q = [h EXCEPT !.edges = Append(kept, e1)]
  BY DEF Good, Legal, IsGraph
<1> HIDE DEF kept, h, q
<1>7. Alike(g, h, e1.from) /\ Alike(g, h, e1.to)
  BY <1>4, <1>6 DEF LegalEdge, Alike, Exists
<1>8. LegalEdge(h, e1)
  BY <1>4, <1>7, SameEdge
<1>9. Legal(q)
  <2>1. Legal([h EXCEPT !.edges = Append(h.edges, e1)])
    BY <1>5, <1>8, AppendedIsLegal
  <2> QED
    BY <1>6, <2>1
<1> QED
  BY <1>1, <1>9, RecomputedIsGood

LEMMA WithoutEdgeIsGood ==
    ASSUME NEW g, Good(g), NEW e
    PROVE  /\ Good(WithoutEdge(g, e))
           /\ \A id \in DOMAIN g.nodes : Alike(g, WithoutEdge(g, e), id)
<1> DEFINE T == ToSet(g.edges) \ {e}
           q == [g EXCEPT !.edges = Filtered(g.edges, T)]
<1>1. WithoutEdge(g, e) = recomputeRegions(q)
  BY DEF WithoutEdge
<1> HIDE DEF T
<1>2. Legal(q)
  BY FilteredIsLegal DEF Good
<1>3. q.nodes = g.nodes
  BY DEF Good, Legal, IsGraph
<1> HIDE DEF q
<1>4. Good(recomputeRegions(q)) /\ \A id \in DOMAIN q.nodes : Alike(q, recomputeRegions(q), id)
  BY <1>2, RecomputedIsGood
<1>5. \A id \in DOMAIN g.nodes : Alike(g, recomputeRegions(q), id)
  BY <1>3, <1>4 DEF Alike, Exists
<1> QED
  BY <1>1, <1>4, <1>5

LEMMA EjectedIsGood ==
    ASSUME NEW g, Good(g), NEW id
    PROVE  Good(Ejected(g, id))
<1>1. PICK T : Ejected(g, id) = recomputeRegions([g EXCEPT !.edges = Filtered(g.edges, T)])
  BY DEF Ejected
<1>2. Legal([g EXCEPT !.edges = Filtered(g.edges, T)])
  BY FilteredIsLegal DEF Good
<1> QED
  BY <1>1, <1>2, RecomputedIsGood

LEMMA WithoutNodeIsGood ==
    ASSUME NEW g, Good(g), NEW id
    PROVE  Good(WithoutNode(g, id))
<1> DEFINE ns == [n \in DOMAIN g.nodes \ {id} |-> g.nodes[n]]
           es == Filtered(g.edges, Clear(g, id))
           q == [g EXCEPT !.nodes = ns, !.edges = es]
<1>1. WithoutNode(g, id) = recomputeRegions(q)
  BY DEF WithoutNode
<1>2. PICK S : g.edges \in Seq(S)
  BY DEF Good, Legal
<1>3. /\ \E K : es \in Seq(K)
      /\ \A i \in 1..Len(es) : es[i] \in Clear(g, id) /\ \E j \in 1..Len(g.edges) : es[i] = g.edges[j]
  BY <1>2, FilteredEdges
<1>4. DOMAIN ns = DOMAIN g.nodes \ {id} /\ \A n \in DOMAIN g.nodes \ {id} : ns[n] = g.nodes[n]
  OBVIOUS
<1> HIDE DEF ns, es
<1>5. DOMAIN ns \subseteq Ids /\ IsGraph(g)
  BY <1>4 DEF Good, Legal, IsGraph
<1>6. IsGraph(q) /\ q.nodes = ns /\ q.edges = es
  <2>1. IsGraph(q)
    BY <1>5, WithNodesAndEdges
  <2> QED
    BY <1>5, <2>1 DEF IsGraph
<1> HIDE DEF q
<1>7. ASSUME NEW i \in 1..Len(es) PROVE LegalEdge(q, es[i])
  <2>1. LegalEdge(g, es[i]) /\ es[i].from # id /\ es[i].to # id
    BY <1>3 DEF Good, Legal, Clear
  <2>2. Alike(g, q, es[i].from) /\ Alike(g, q, es[i].to)
    BY <1>4, <1>6, <2>1 DEF LegalEdge, Alike, Exists
  <2> QED
    BY <2>1, <2>2, SameEdge
<1>8. \A n \in DOMAIN q.nodes : IsNode(q.nodes[n])
  BY <1>4, <1>6 DEF Good, Legal
<1>9. Legal(q)
  BY <1>3, <1>6, <1>7, <1>8 DEF Legal
<1> QED
  BY <1>1, <1>9, RecomputedIsGood

\* The edges of a draft, or of a node resized: those that do not leave by a port
\* that is there are dropped.
LEMMA PrunedIsGood ==
    ASSUME NEW g, IsGraph(g), \A id \in DOMAIN g.nodes : IsNode(g.nodes[id]),
           NEW S, g.edges \in Seq(S),
           \A i \in 1..Len(g.edges) :
              LET e == g.edges[i] IN IsBodyEdge(g, e) /\ Exists(g, e.to) => g.nodes[e.to].kind # "end"
    PROVE  Good(recomputeRegions([g EXCEPT !.edges = pruneEdges(g)]))
<1> DEFINE T == {e \in ToSet(g.edges) :
                   /\ Exists(g, e.from) /\ Exists(g, e.to)
                   /\ Ports(g, e.from) # <<>>
                   /\ e.port \in ToSet(Ports(g, e.from)) \/ Ports(g, e.from) = <<"done">>}
           es == Filtered(g.edges, T)
           q == [g EXCEPT !.edges = es]
<1>1. pruneEdges(g) = es
  BY DEF pruneEdges
<1> HIDE DEF T
<1>2. /\ \E K : es \in Seq(K)
      /\ \A i \in 1..Len(es) : es[i] \in T /\ \E j \in 1..Len(g.edges) : es[i] = g.edges[j]
  BY FilteredEdges
<1> HIDE DEF es
<1>3. IsGraph(q) /\ q.nodes = g.nodes /\ q.edges = es
  BY DEF IsGraph
<1> HIDE DEF q
<1>4. ASSUME NEW i \in 1..Len(es) PROVE LegalEdge(q, es[i])
  <2> DEFINE e == es[i]
  <2>1. /\ Exists(g, e.from) /\ Exists(g, e.to)
        /\ e.port \in ToSet(Ports(g, e.from)) \/ Ports(g, e.from) = <<"done">>
    BY <1>2 DEF T
  <2>2. IsBodyEdge(g, e) => g.nodes[e.to].kind # "end"
    BY <1>2, <2>1
  <2>3. IsBodyEdge(g, e) => Ports(g, e.from) # <<"done">>
    BY <2>1, ControlPorts DEF IsBodyEdge, Exists
  <2>4. LegalEdge(g, e)
    BY <2>1, <2>2, <2>3 DEF LegalEdge
  <2>5. Alike(g, q, e.from) /\ Alike(g, q, e.to)
    BY <1>3, <2>1 DEF Alike, Exists
  <2> QED
    BY <2>4, <2>5, SameEdge
<1>5. Legal(q)
  BY <1>2, <1>3, <1>4 DEF Legal
<1>6. Good(recomputeRegions(q))
  BY <1>5, RecomputedIsGood
<1> QED
  BY <1>1, <1>6 DEF q

LEMMA ResizedIsGood ==
    ASSUME NEW g, Good(g), NEW id \in DOMAIN g.nodes,
           NEW size \in MinSize[g.nodes[id].kind]..MaxSize[g.nodes[id].kind]
    PROVE  Good(Resized(g, id, size))
<1> DEFINE sized == [g EXCEPT !.nodes[id].size = size]
           ns == [g.nodes EXCEPT ![id].size = size]
<1>1. Resized(g, id, size) = recomputeRegions([sized EXCEPT !.edges = pruneEdges(sized)])
  BY DEF Resized
<1>2. IsGraph(g) /\ sized = [g EXCEPT !.nodes = ns]
  BY DEF Good, Legal, IsGraph
<1>3. DOMAIN ns = DOMAIN g.nodes
  OBVIOUS
<1>4. ASSUME NEW n \in DOMAIN g.nodes
      PROVE  IsNode(ns[n]) /\ ns[n].kind = g.nodes[n].kind
  <2> DEFINE node == g.nodes[n]
             new == [node EXCEPT !.size = size]
  <2>1. node = [kind |-> node.kind, size |-> node.size, region |-> node.region] /\ IsKindAndSize(node)
    BY DEF Good, Legal, IsNode
  <2>2. CASE n # id
    <3>1. ns[n] = node
      BY <2>2
    <3> QED
      BY <3>1 DEF Good, Legal
  <2>3. CASE n = id
    <3>1. ns[n] = new /\ size \in MinSize[node.kind]..MaxSize[node.kind]
      BY <1>2, <2>3
    <3> HIDE DEF node, ns
    <3>2. new = [kind |-> node.kind, size |-> size, region |-> node.region]
      BY <2>1
    <3> HIDE DEF new
    <3>3. new.kind = node.kind /\ new.size = size /\ new.region = node.region
      BY <3>2
    <3>4. IsNode(new)
      BY <2>1, <3>1, <3>2, <3>3 DEF IsNode, IsKindAndSize
    <3> QED
      BY <3>1, <3>3, <3>4 DEF node
  <2> QED
    BY <2>2, <2>3
<1> HIDE DEF ns, sized
<1>5. DOMAIN ns \subseteq Ids
  BY <1>2, <1>3 DEF IsGraph
<1>6. IsGraph(sized) /\ sized.nodes = ns /\ sized.edges = g.edges
  BY <1>2, <1>5 DEF IsGraph
<1>7. ASSUME NEW i \in 1..Len(g.edges), IsBodyEdge(sized, g.edges[i]), Exists(sized, g.edges[i].to)
      PROVE  sized.nodes[g.edges[i].to].kind # "end"
  <2> DEFINE e == g.edges[i]
  <2>1. LegalEdge(g, e)
    BY DEF Good, Legal
  <2>2. IsBodyEdge(g, e)
    BY <1>3, <1>4, <1>6, <1>7 DEF IsBodyEdge, Exists
  <2> QED
    BY <1>4, <1>6, <2>1, <2>2 DEF LegalEdge, Exists
<1>8. Good(recomputeRegions([sized EXCEPT !.edges = pruneEdges(sized)]))
  <2>1. PICK S : sized.edges \in Seq(S)
    BY <1>6 DEF Good, Legal
  <2>2. \A n \in DOMAIN sized.nodes : IsNode(sized.nodes[n])
    BY <1>3, <1>4, <1>6
  <2>3. \A i \in 1..Len(sized.edges) :
           LET e == sized.edges[i] IN
           IsBodyEdge(sized, e) /\ Exists(sized, e.to) => sized.nodes[e.to].kind # "end"
    BY <1>6, <1>7
  <2> QED
    BY <1>6, <2>1, <2>2, <2>3, PrunedIsGood
<1> QED
  BY <1>1, <1>8

LEMMA LoadedIsGood ==
    ASSUME EndsOutside, NEW loaded \in CanvasDrafts
    PROVE  Good(Loaded(loaded))
<1> DEFINE ns == [id \in DOMAIN loaded.nodes |-> NewNode(loaded.nodes[id].kind, loaded.nodes[id].size)]
           bare == [nodes |-> ns, edges |-> loaded.edges, rest |-> 0]
<1>1. Loaded(loaded) = recomputeRegions([bare EXCEPT !.edges = pruneEdges(bare)])
  BY DEF Loaded
<1>2. DOMAIN ns = DOMAIN loaded.nodes /\ DOMAIN ns \subseteq Ids
  BY CanvasAssumption
<1>3. ASSUME NEW id \in DOMAIN loaded.nodes
      PROVE  IsNode(ns[id]) /\ ns[id].kind = loaded.nodes[id].kind
  <2> DEFINE node == loaded.nodes[id]
  <2>1. IsKindAndSize(node)
    BY CanvasAssumption
  <2>2. ns[id] = [kind |-> node.kind, size |-> node.size, region |-> Top]
    BY DEF NewNode
  <2> HIDE DEF ns
  <2>3. ns[id].kind = node.kind /\ ns[id].size = node.size /\ ns[id].region = Top
    BY <2>2
  <2> QED
    BY <2>1, <2>2, <2>3 DEF IsNode, IsKindAndSize
<1>4. \E S : loaded.edges \in Seq(S)
  BY CanvasAssumption
<1> HIDE DEF ns
<1>5. IsGraph(bare) /\ bare.nodes = ns /\ bare.edges = loaded.edges
  BY <1>2 DEF IsGraph
<1> HIDE DEF bare
<1>6. ASSUME NEW i \in 1..Len(bare.edges), IsBodyEdge(bare, bare.edges[i]), Exists(bare, bare.edges[i].to)
      PROVE  bare.nodes[bare.edges[i].to].kind # "end"
  <2> DEFINE e == loaded.edges[i]
  <2>1. i \in DOMAIN loaded.edges /\ bare.edges[i] = e
    BY <1>4, <1>5
  <2>2. IsBodyEdge(loaded, e) /\ Exists(loaded, e.to)
    BY <1>2, <1>3, <1>5, <1>6, <2>1 DEF IsBodyEdge, Exists
  <2>3. loaded.nodes[e.to].kind # "end"
    BY <2>1, <2>2 DEF EndsOutside
  <2> QED
    BY <1>3, <1>5, <2>1, <2>2, <2>3 DEF Exists
<1>7. Good(recomputeRegions([bare EXCEPT !.edges = pruneEdges(bare)]))
  <2>1. PICK S : bare.edges \in Seq(S)
    BY <1>4, <1>5
  <2>2. \A n \in DOMAIN bare.nodes : IsNode(bare.nodes[n])
    BY <1>2, <1>3, <1>5
  <2>3. \A i \in 1..Len(bare.edges) :
           LET e == bare.edges[i] IN
           IsBodyEdge(bare, e) /\ Exists(bare, e.to) => bare.nodes[e.to].kind # "end"
    BY <1>6
  <2> QED
    BY <1>5, <2>1, <2>2, <2>3, PrunedIsGood
<1> QED
  BY <1>1, <1>7

-----------------------------------------------------------------------------
(* The inductive invariant *)

GoodHistory(h) == \A i \in 1..Len(h) : Good(h[i])

\* The port an edge is being drawn from is there.
DraftHolds(g, d) == d # Null => Exists(g, d.from) /\ d.port \in ToSet(Ports(g, d.from))

Whole(c) ==
    /\ Good(c.graph) /\ GoodHistory(c.history) /\ DraftHolds(c.graph, c.draft)
    /\ c.graph.nodes = c.history[c.at].nodes

RegionInv == CanvasInv /\ (canvas.torn \/ Whole(canvas))

LEMMA DraftStays ==
    ASSUME NEW g, NEW h, NEW d, DraftHolds(g, d), \A id \in DOMAIN g.nodes : Alike(g, h, id)
    PROVE  DraftHolds(h, d)
<1> SUFFICES ASSUME d # Null PROVE Exists(h, d.from) /\ d.port \in ToSet(Ports(h, d.from))
  BY DEF DraftHolds
<1>1. Exists(g, d.from) /\ d.port \in ToSet(Ports(g, d.from))
  BY DEF DraftHolds
<1>2. Alike(g, h, d.from)
  BY <1>1 DEF Exists
<1> QED
  BY <1>1, <1>2, SamePorts DEF Alike

LEMMA UpToGood ==
    ASSUME NEW S, NEW h \in Seq(S), GoodHistory(h), NEW n \in 1..Len(h), NEW g, Good(g)
    PROVE  \E K : UpTo(h, n, g) \in Seq(K) /\ GoodHistory(UpTo(h, n, g))
<1> DEFINE past == UpTo(h, n, g)
           s == SubSeq(h, 1, n)
           K == S \cup {g}
<1>1. Len(h) \in Nat /\ n \in Nat /\ n <= Len(h) /\ 1 <= n
  OBVIOUS
<1>2. s \in Seq(S) /\ Len(s) = n /\ \A i \in 1..n : s[i] = h[i]
  BY <1>1
<1> HIDE DEF s
<1>3. past = Append(s, g)
  BY DEF s, UpTo
<1> HIDE DEF past
<1>4. s \in Seq(K) /\ g \in K
  BY <1>2
<1> HIDE DEF K
<1>5. past \in Seq(K) /\ Len(past) = n + 1 /\ past[n + 1] = g
      /\ \A i \in 1..n : past[i] = s[i]
  BY <1>2, <1>3, <1>4, AppendProperties
<1>6. GoodHistory(past)
  <2> SUFFICES ASSUME NEW i \in 1..Len(past) PROVE Good(past[i])
    BY DEF GoodHistory
  <2>1. CASE i = n + 1
    BY <1>5, <2>1
  <2>2. CASE i # n + 1
    <3>1. i \in 1..n
      BY <1>1, <1>5, <2>2
    <3>2. i \in 1..Len(h) /\ past[i] = h[i]
      BY <1>1, <1>2, <1>5, <3>1
    <3> QED
      BY <3>2 DEF GoodHistory
  <2> QED
    BY <2>1, <2>2
<1> QED
  BY <1>5, <1>6 DEF past

LEMMA TailGood ==
    ASSUME NEW S, NEW h \in Seq(S), GoodHistory(h), h # <<>>
    PROVE  GoodHistory(Tail(h))
<1>1. Len(h) \in Nat /\ Tail(h) \in Seq(S) /\ Len(Tail(h)) = Len(h) - 1
      /\ \A i \in 1..(Len(h) - 1) : Tail(h)[i] = h[i + 1]
  BY HeadTailProperties
<1>2. ASSUME NEW i \in 1..Len(Tail(h)) PROVE Good(Tail(h)[i])
  <2>1. i \in 1..(Len(h) - 1) /\ i + 1 \in 1..Len(h)
    BY <1>1
  <2> QED
    BY <1>1, <2>1 DEF GoodHistory
<1> QED
  BY <1>2 DEF GoodHistory

\* Every change is committed: a good graph on top of good ones.
LEMMA ChangeIsWhole ==
    ASSUME NEW c, Sound(c), c.drag \in Drags \cup {Null}, NEW g, IsGraph(g), Change(c, g),
           ~c.torn => Good(g) /\ GoodHistory(c.history) /\ DraftHolds(g, c.draft)
    PROVE  RegionInv'
<1>1. CanvasInv'
  BY ChangeKeeps
<1> DEFINE d == [c EXCEPT !.graph = g]
           past == UpTo(d.history, d.at, d.graph)
           kept == IF Len(past) > HistoryCap THEN Tail(past) ELSE past
<1>2. /\ d.graph = g /\ d.history = c.history /\ d.at = c.at /\ d.draft = c.draft
      /\ d.torn = c.torn /\ IsCanvas(d)
  BY DEF Sound, IsCanvas
<1>3. canvas' = commitHistory(d)
  BY DEF Change
<1> HIDE DEF d
<1>4. Sound(d)
  BY <1>2 DEF Sound
<1>5. Sound(canvas') /\ AtPosition(canvas')
  BY <1>3, <1>4, CommitKeeps
<1>6. canvas' = [d EXCEPT !.history = kept, !.at = Len(kept), !.edits = @ + 1]
  BY <1>3 DEF commitHistory, UpTo
<1> HIDE DEF kept
<1>7. /\ canvas'.graph = g /\ canvas'.history = kept /\ canvas'.draft = c.draft
      /\ canvas'.torn = c.torn
  BY <1>2, <1>6 DEF IsCanvas
<1>8. ASSUME ~c.torn PROVE Whole(canvas')
  <2>1. PICK S : c.history \in Seq(S)
    BY DEF Sound, HistoryOK
  <2>2. GoodHistory(c.history) /\ c.at \in 1..Len(c.history) /\ Good(g)
    BY <1>8 DEF Sound
  <2>3. PICK K : past \in Seq(K) /\ GoodHistory(past)
    BY <1>2, <2>1, <2>2, UpToGood
  <2>4. GoodHistory(kept)
    <3>1. CASE Len(past) > HistoryCap
      <4>1. past # <<>>
        BY <2>3, <3>1, CanvasAssumption
      <4> QED
        BY <2>3, <3>1, <4>1, TailGood DEF kept
    <3>2. CASE ~(Len(past) > HistoryCap)
      BY <2>3, <3>2 DEF kept
    <3> QED
      BY <3>1, <3>2
  <2> QED
    BY <1>5, <1>7, <1>8, <2>2, <2>4 DEF Whole, AtPosition
<1> QED
  BY <1>1, <1>7, <1>8 DEF RegionInv

LEMMA EditIsWhole ==
    ASSUME RegionInv, NEW g, IsGraph(g), Change(canvas, g),
           Whole(canvas) => Good(g) /\ DraftHolds(g, canvas.draft)
    PROVE  RegionInv'
BY Holds, ChangeIsWhole DEF RegionInv, Whole

LEMMA RestoreIsWhole ==
    ASSUME RegionInv, undo \/ redo
    PROVE  RegionInv'
<1>1. PICK at \in 1..Len(canvas.history) : restoreHistory(at)
  <2>1. PICK S : canvas.history \in Seq(S)
    BY DEF RegionInv, CanvasInv, CanvasOK, Sound, HistoryOK
  <2>2. canvas.at \in 1..Len(canvas.history) /\ Len(canvas.history) \in Nat
    BY <2>1 DEF RegionInv, CanvasInv, CanvasOK, Sound
  <2>3. canvas.at > 1 => canvas.at - 1 \in 1..Len(canvas.history)
    BY <2>2
  <2>4. canvas.at < Len(canvas.history) => canvas.at + 1 \in 1..Len(canvas.history)
    BY <2>2
  <2> QED
    BY <2>3, <2>4 DEF undo, redo
<1>2. CanvasInv'
  BY UndoRedoKeep DEF RegionInv
<1> DEFINE g == canvas.history[at]
           u == canvas.torn \/ canvas.draft # Null
<1>3. canvas' = [canvas EXCEPT !.graph = g, !.at = at, !.torn = u]
  BY <1>1 DEF restoreHistory
<1>4. IsCanvas(canvas)
  BY DEF RegionInv, CanvasInv, CanvasOK, Sound
<1> HIDE DEF g, u
<1>5. /\ canvas'.graph = g /\ canvas'.history = canvas.history /\ canvas'.at = at
      /\ canvas'.draft = canvas.draft /\ canvas'.torn = u
  BY <1>3, <1>4 DEF IsCanvas
<1>6. ASSUME ~u PROVE Whole(canvas')
  <2>1. Whole(canvas) /\ canvas.draft = Null
    BY <1>6 DEF RegionInv, u
  <2>2. Good(g) /\ GoodHistory(canvas.history)
    BY <2>1 DEF Whole, GoodHistory, g
  <2> QED
    BY <1>5, <2>1, <2>2 DEF Whole, DraftHolds, g
<1> QED
  BY <1>2, <1>5, <1>6 DEF RegionInv

\* A fresh id is not on the canvas.
LEMMA FreshIsFresh ==
    ASSUME RegionInv, Whole(canvas), NEW id \in FreshIds
    PROVE  id \in Ids \ DOMAIN Graph.nodes
<1>1. canvas.at \in DOMAIN canvas.history
  BY DEF RegionInv, CanvasInv, CanvasOK, Sound, HistoryOK
<1> QED
  BY <1>1 DEF FreshIds, Whole, Graph

LEMMA NewNodeIs ==
    ASSUME NEW kind \in PaletteKinds
    PROVE  LET node == NewNode(kind, MinSize[kind])
           IN  IsNode(node) /\ node.region = Top /\ node.kind = kind
<1> DEFINE node == NewNode(kind, MinSize[kind])
<1>1. kind \in Kinds
  BY CanvasAssumption
<1>2. node = [kind |-> kind, size |-> MinSize[kind], region |-> Top]
  BY DEF NewNode
<1>3. MinSize[kind] \in MinSize[kind]..MaxSize[kind]
  BY <1>1 DEF MinSize, MaxSize, Kinds
<1> HIDE DEF node
<1>4. node.kind = kind /\ node.size = MinSize[kind] /\ node.region = Top
  BY <1>2
<1>5. IsNode(node)
  BY <1>1, <1>2, <1>3, <1>4 DEF IsNode, IsKindAndSize
<1> QED
  BY <1>4, <1>5 DEF node

LEMMA DropIsWhole ==
    ASSUME RegionInv, onCanvasDrop
    PROVE  RegionInv'
<1>1. PICK id \in FreshIds, kind \in PaletteKinds :
          LET added == WithNode(Graph, id, NewNode(kind, MinSize[kind]))
              wired == {added} \cup
                       (IF kind = "end" THEN {}
                        ELSE UNION {wireIntoBody(added, r, id) : r \in bodyDropContext(Graph)})
          IN  \E g \in wired : Change(canvas, recomputeRegions(g))
  BY DEF onCanvasDrop
<1> DEFINE node == NewNode(kind, MinSize[kind])
           added == WithNode(Graph, id, node)
<1>2. /\ IsGraph(added) /\ IsNode(node) /\ node.region = Top /\ node.kind = kind
      /\ canvas.draft = Null
  BY Holds, WithNodeGraph, NewNodeIs DEF RegionInv, onCanvasDrop, Idle
<1>3. \E g : /\ \/ g = added
                \/ kind # "end" /\ \E r \in bodyDropContext(Graph) : g \in wireIntoBody(added, r, id)
             /\ Change(canvas, recomputeRegions(g))
  BY <1>1
<1> HIDE DEF added, node
<1>4. PICK g : /\ \/ g = added
                  \/ kind # "end" /\ \E r \in bodyDropContext(Graph) : g \in wireIntoBody(added, r, id)
               /\ Change(canvas, recomputeRegions(g))
  BY <1>3
<1>5. IsGraph(recomputeRegions(g))
  BY <1>2, <1>4, Wired, Recomputed
<1>6. ASSUME Whole(canvas) PROVE Legal(g)
  <2>1. Good(Graph) /\ id \in Ids \ DOMAIN Graph.nodes
    BY <1>6, FreshIsFresh DEF Whole, Graph
  <2>2. /\ Good(added) /\ added.nodes[id] = node
        /\ DOMAIN added.nodes = DOMAIN Graph.nodes \cup {id}
        /\ \A n \in DOMAIN Graph.nodes : Alike(Graph, added, n)
    BY <1>2, <2>1, WithNodeIsGood DEF added
  <2>3. ASSUME NEW r \in bodyDropContext(Graph), g \in wireIntoBody(added, r, id), kind # "end"
        PROVE  Legal(g)
    <3>1. r[1] \in DOMAIN Graph.nodes /\ r[2] \in ToSet(Ports(Graph, r[1]))
      BY <2>1, DropsOnPorts
    <3>2. r[1] \in DOMAIN added.nodes /\ r[2] \in ToSet(Ports(added, r[1]))
      BY <2>2, <3>1, SamePorts
    <3>3. Legal(added) /\ id \in DOMAIN added.nodes /\ added.nodes[id].kind # "end"
      BY <1>2, <2>2, <2>3 DEF Good
    <3> QED
      BY <2>3, <3>2, <3>3, WiredIsLegal
  <2> QED
    BY <1>4, <2>2, <2>3 DEF Good
<1>7. Whole(canvas) => Good(recomputeRegions(g)) /\ DraftHolds(recomputeRegions(g), canvas.draft)
  BY <1>2, <1>6, RecomputedIsGood DEF DraftHolds
<1> QED
  BY <1>4, <1>5, <1>7, EditIsWhole

LEMMA PasteIsWhole ==
    ASSUME RegionInv, pasteNode
    PROVE  RegionInv'
<1>1. PICK id \in FreshIds, i \in DOMAIN canvas.history :
          \E copied \in Range(canvas.history[i].nodes) :
              Change(canvas, WithNode(Graph, id, [copied EXCEPT !.region = Top]))
  BY DEF pasteNode
<1>2. PICK n \in DOMAIN canvas.history[i].nodes :
          Change(canvas, WithNode(Graph, id, [canvas.history[i].nodes[n] EXCEPT !.region = Top]))
  BY <1>1 DEF Range
<1> DEFINE copied == canvas.history[i].nodes[n]
           node == [copied EXCEPT !.region = Top]
           g == WithNode(Graph, id, node)
<1>3. IsGraph(g)
  BY Holds, WithNodeGraph DEF RegionInv
<1>4. ASSUME Whole(canvas) PROVE Good(g) /\ DraftHolds(g, canvas.draft)
  <2>1. Good(Graph) /\ DraftHolds(Graph, canvas.draft) /\ id \in Ids \ DOMAIN Graph.nodes
    BY <1>4, FreshIsFresh DEF Whole, Graph
  <2>2. IsNode(copied)
    <3>1. i \in 1..Len(canvas.history)
      BY <1>1 DEF RegionInv, CanvasInv, CanvasOK, Sound, HistoryOK
    <3>2. Good(canvas.history[i])
      BY <1>4, <3>1 DEF Whole, GoodHistory
    <3> QED
      BY <3>2 DEF Good, Legal
  <2> HIDE DEF copied
  <2>3. node = [kind |-> copied.kind, size |-> copied.size, region |-> Top]
    BY <2>2 DEF IsNode
  <2> HIDE DEF node
  <2>4. node.kind = copied.kind /\ node.size = copied.size /\ node.region = Top
    BY <2>3
  <2>5. IsNode(node)
    BY <2>2, <2>3, <2>4 DEF IsNode, IsKindAndSize
  <2>6. Good(g) /\ \A m \in DOMAIN Graph.nodes : Alike(Graph, g, m)
    BY <2>1, <2>4, <2>5, WithNodeIsGood
  <2> HIDE DEF g
  <2> QED
    BY <2>1, <2>6, DraftStays
<1> QED
  BY <1>2, <1>3, <1>4, EditIsWhole

LEMMA DeleteNodeIsWhole ==
    ASSUME RegionInv, deleteNode
    PROVE  RegionInv'
<1> DEFINE u == canvas.torn \/ canvas.draft # Null
           c == [canvas EXCEPT !.torn = u]
<1>1. PICK id : Change(c, WithoutNode(Graph, id))
  BY DEF deleteNode
<1> HIDE DEF u
<1>2. /\ c.graph = canvas.graph /\ c.history = canvas.history /\ c.at = canvas.at
      /\ c.drag = canvas.drag /\ c.draft = canvas.draft /\ c.torn = u /\ IsCanvas(c)
  BY DEF RegionInv, CanvasInv, CanvasOK, Sound, IsCanvas
<1> HIDE DEF c
<1>3. Sound(c) /\ c.drag \in Drags \cup {Null}
  BY <1>2, Holds DEF RegionInv, Sound
<1>4. IsGraph(WithoutNode(Graph, id))
  BY Holds, WithoutNodeGraph DEF RegionInv
<1>5. ASSUME ~c.torn
      PROVE  /\ Good(WithoutNode(Graph, id)) /\ GoodHistory(c.history)
             /\ DraftHolds(WithoutNode(Graph, id), c.draft)
  <2>1. Whole(canvas) /\ canvas.draft = Null
    BY <1>2, <1>5 DEF RegionInv, u
  <2> QED
    BY <1>2, <2>1, WithoutNodeIsGood DEF Whole, DraftHolds, Graph
<1> QED
  BY <1>1, <1>3, <1>4, <1>5, ChangeIsWhole

LEMMA KeysAreWhole ==
    ASSUME RegionInv, onKeyDown
    PROVE  RegionInv'
<1>1. ASSUME deleteEdge PROVE RegionInv'
  <2>1. PICK i : Change(canvas, WithoutEdge(Graph, Graph.edges[i]))
    BY <1>1 DEF deleteEdge
  <2> DEFINE e == Graph.edges[i]
             g == WithoutEdge(Graph, e)
  <2> HIDE DEF e
  <2>2. IsGraph(g)
    BY Holds, WithoutEdgeGraph DEF RegionInv
  <2>3. ASSUME Whole(canvas) PROVE Good(g) /\ DraftHolds(g, canvas.draft)
    <3>1. Good(Graph) /\ DraftHolds(Graph, canvas.draft)
      BY <2>3 DEF Whole, Graph
    <3>2. Good(g) /\ \A n \in DOMAIN Graph.nodes : Alike(Graph, g, n)
      BY <3>1, WithoutEdgeIsGood
    <3> HIDE DEF g
    <3> QED
      BY <3>1, <3>2, DraftStays
  <2> QED
    BY <2>1, <2>2, <2>3, EditIsWhole DEF e
<1> QED
  BY <1>1, RestoreIsWhole, PasteIsWhole, DeleteNodeIsWhole DEF onKeyDown

LEMMA PortDownIsWhole ==
    ASSUME RegionInv, onPortPointerDown
    PROVE  RegionInv'
<1>0. PICK id \in DOMAIN Graph.nodes : \E port \in ToSet(Ports(Graph, id)) :
          canvas' = [canvas EXCEPT !.draft = [from |-> id, port |-> port]]
  BY DEF onPortPointerDown
<1>1. PICK port \in ToSet(Ports(Graph, id)) :
          canvas' = [canvas EXCEPT !.draft = [from |-> id, port |-> port]]
  BY <1>0
<1>2. CanvasInv'
  BY PortDownKeeps DEF RegionInv
<1> DEFINE d == [from |-> id, port |-> port]
<1>3. d.from = id /\ d.port = port
  OBVIOUS
<1> HIDE DEF d
<1>4. /\ canvas'.graph = canvas.graph /\ canvas'.history = canvas.history
      /\ canvas'.at = canvas.at /\ canvas'.torn = canvas.torn /\ canvas'.draft = d
  BY <1>1 DEF RegionInv, CanvasInv, CanvasOK, Sound, IsCanvas, d
<1>5. DraftHolds(Graph, d)
  BY <1>3 DEF DraftHolds, Exists
<1> QED
  BY <1>2, <1>4, <1>5 DEF RegionInv, Whole, Graph

LEMMA FinishIsWhole ==
    ASSUME RegionInv, finishEdgeDraft
    PROVE  RegionInv'
<1> DEFINE done == [canvas EXCEPT !.draft = Null]
           from == canvas.draft.from
           port == canvas.draft.port
<1>1. /\ done.graph = canvas.graph /\ done.history = canvas.history /\ done.at = canvas.at
      /\ done.drag = canvas.drag /\ done.torn = canvas.torn /\ done.draft = Null
      /\ IsCanvas(done)
  BY DEF RegionInv, CanvasInv, CanvasOK, Sound, IsCanvas
<1>2. /\ canvas.draft # Null
      /\ \/ canvas' = done
         \/ \E to \in DOMAIN Graph.nodes \ {from} :
               /\ Exists(Graph, from) => ~connectionError(Graph, from, port, to)
               /\ Change(done, Joined(Graph, from, port, to))
  BY DEF finishEdgeDraft
<1> HIDE DEF done
<1>3. Sound(done) /\ done.drag \in Drags \cup {Null}
  BY <1>1, Holds DEF RegionInv, Sound
<1>4. CASE canvas' = done
  <2>1. CanvasInv'
    BY FinishKeeps DEF RegionInv
  <2> QED
    BY <1>1, <1>4, <2>1 DEF RegionInv, Whole, DraftHolds
<1>5. ASSUME NEW to \in DOMAIN Graph.nodes \ {from},
             Exists(Graph, from) => ~connectionError(Graph, from, port, to),
             Change(done, Joined(Graph, from, port, to))
      PROVE  RegionInv'
  <2> DEFINE g == Joined(Graph, from, port, to)
  <2>1. IsGraph(g)
    BY Holds, JoinedGraph DEF RegionInv
  <2>2. ASSUME ~done.torn
        PROVE  Good(g) /\ GoodHistory(done.history) /\ DraftHolds(g, done.draft)
    <3>1. Whole(canvas)
      BY <1>1, <2>2 DEF RegionInv
    <3>2. Good(Graph) /\ Exists(Graph, from) /\ port \in ToSet(Ports(Graph, from))
      BY <1>2, <3>1 DEF Whole, DraftHolds, Graph
    <3> HIDE DEF from, port
    <3>3. from \in DOMAIN Graph.nodes /\ ~connectionError(Graph, from, port, to)
      BY <1>5, <3>2 DEF Exists
    <3>4. Good(g)
      BY <3>2, <3>3, JoinedIsGood
    <3> QED
      BY <1>1, <3>1, <3>4 DEF Whole, DraftHolds
  <2> HIDE DEF g
  <2> QED
    BY <1>3, <1>5, <2>1, <2>2, ChangeIsWhole DEF g
<1> QED
  BY <1>2, <1>4, <1>5

LEMMA NodesAreWhole ==
    ASSUME RegionInv, onNodePointerDown \/ onNodePointerMove \/ onNodePointerUp
    PROVE  RegionInv'
<1>1. ASSUME onNodePointerDown PROVE RegionInv'
  <2>1. PICK d : canvas' = [canvas EXCEPT !.drag = d]
    BY <1>1 DEF onNodePointerDown
  <2>2. CanvasInv'
    BY <1>1, NodeDownKeeps DEF RegionInv
  <2>3. /\ canvas'.graph = canvas.graph /\ canvas'.history = canvas.history
        /\ canvas'.at = canvas.at /\ canvas'.torn = canvas.torn /\ canvas'.draft = canvas.draft
    BY <2>1 DEF RegionInv, CanvasInv, CanvasOK, Sound, IsCanvas
  <2> QED
    BY <2>2, <2>3 DEF RegionInv, Whole
<1>2. ASSUME onNodePointerMove PROVE RegionInv'
  <2> DEFINE g == IF Exists(Graph, canvas.drag.id) THEN Altered(Graph) ELSE Graph
             d == [canvas.drag EXCEPT !.moved = TRUE]
  <2>1. canvas' = [canvas EXCEPT !.drag = d, !.graph = g]
    BY <1>2 DEF onNodePointerMove, Graph, RegionInv, CanvasInv, CanvasOK, Sound, IsCanvas
  <2>2. CanvasInv'
    BY <1>2, NodeMoveKeeps DEF RegionInv
  <2> HIDE DEF g, d
  <2>3. /\ canvas'.graph = g /\ canvas'.history = canvas.history
        /\ canvas'.at = canvas.at /\ canvas'.torn = canvas.torn /\ canvas'.draft = canvas.draft
    BY <2>1 DEF RegionInv, CanvasInv, CanvasOK, Sound, IsCanvas
  <2>4. ASSUME Whole(canvas) PROVE Good(g) /\ DraftHolds(g, canvas.draft) /\ g.nodes = Graph.nodes
    <3>1. Good(Graph) /\ DraftHolds(Graph, canvas.draft) /\ IsGraph(Graph)
      BY <2>4 DEF Whole, Graph, Good, Legal
    <3>2. /\ Good(Altered(Graph)) /\ Altered(Graph).nodes = Graph.nodes
          /\ DraftHolds(Altered(Graph), canvas.draft)
      BY <3>1, AlteredIsGood, DraftStays DEF Altered, IsGraph
    <3> QED
      BY <3>1, <3>2 DEF g
  <2> QED
    BY <2>2, <2>3, <2>4 DEF RegionInv, Whole, Graph
<1>3. ASSUME onNodePointerUp PROVE RegionInv'
  <2> DEFINE done == [canvas EXCEPT !.drag = Null]
  <2>1. /\ done.graph = canvas.graph /\ done.history = canvas.history /\ done.at = canvas.at
        /\ done.drag = Null /\ done.torn = canvas.torn /\ done.draft = canvas.draft
        /\ IsCanvas(done)
    BY DEF RegionInv, CanvasInv, CanvasOK, Sound, IsCanvas
  <2>2. IF canvas.drag.moved THEN Change(done, Graph) ELSE canvas' = done
    BY <1>3 DEF onNodePointerUp
  <2>3. CanvasInv'
    BY <1>3, NodeUpKeeps DEF RegionInv
  <2> HIDE DEF done
  <2>4. Sound(done) /\ IsGraph(Graph)
    BY <2>1, Holds DEF RegionInv, Sound
  <2>5. CASE canvas.drag.moved
    <3>1. ~done.torn => Good(Graph) /\ GoodHistory(done.history) /\ DraftHolds(Graph, done.draft)
      BY <2>1 DEF RegionInv, Whole, Graph
    <3> QED
      BY <2>1, <2>2, <2>4, <2>5, <3>1, ChangeIsWhole
  <2>6. CASE ~canvas.drag.moved
    BY <2>1, <2>2, <2>3, <2>6 DEF RegionInv, Whole
  <2> QED
    BY <2>5, <2>6
<1> QED
  BY <1>1, <1>2, <1>3

\* What is changed while nothing is drawn or dragged.
LEMMA IdleIsWhole ==
    ASSUME RegionInv, renderInspector \/ doAutoArrange
    PROVE  RegionInv'
<1> DEFINE Fine(g) == IsGraph(g) /\ (Good(Graph) => Good(g))
<1>1. Fine(Altered(Graph))
  BY Holds, AlteredGraph, AlteredIsGood DEF RegionInv
<1>2. \A id : Fine(Ejected(Graph, id))
  BY Holds, EjectedGraph, EjectedIsGood DEF RegionInv
<1>3. ASSUME NEW id \in DOMAIN Graph.nodes,
             NEW size \in MinSize[Graph.nodes[id].kind]..MaxSize[Graph.nodes[id].kind]
      PROVE  Fine(Resized(Graph, id, size))
  BY Holds, ResizedGraph, ResizedIsGood DEF RegionInv
<1> HIDE DEF Fine
<1>4. canvas.draft = Null /\ \E g : Fine(g) /\ Change(canvas, g)
  <2>1. CASE doAutoArrange
    BY <1>1, <2>1 DEF doAutoArrange, Idle
  <2>2. CASE ejectFromRegion
    BY <1>2, <2>2 DEF ejectFromRegion, Selected, Idle
  <2>3. CASE updateSize
    BY <1>3, <2>3 DEF updateSize, Selected, Idle
  <2>4. CASE updateNodeParam
    BY <1>1, <2>4 DEF updateNodeParam, Selected, Idle
  <2> QED
    BY <2>1, <2>2, <2>3, <2>4 DEF renderInspector, renderField
<1>5. PICK g : Fine(g) /\ Change(canvas, g)
  BY <1>4
<1>6. IsGraph(g) /\ (Whole(canvas) => Good(g) /\ DraftHolds(g, canvas.draft))
  BY <1>4, <1>5 DEF Fine, Whole, Graph, DraftHolds
<1> QED
  BY <1>5, <1>6, EditIsWhole

LEMMA RegionsBegin ==
    ASSUME EndsOutside, CanvasInit
    PROVE  RegionInv
<1>1. PICK loaded \in CanvasDrafts : canvas = NewCanvas(Loaded(loaded))
  BY DEF CanvasInit
<1> DEFINE g == Loaded(loaded)
           h == <<g>>
<1>2. Good(g)
  BY LoadedIsGood
<1> HIDE DEF g
<1>3. Len(h) = 1 /\ h[1] = g
  OBVIOUS
<1> HIDE DEF h
<1>4. canvas.graph = g /\ canvas.history = h /\ canvas.at = 1 /\ canvas.draft = Null
  BY <1>1 DEF NewCanvas, g, h
<1>5. GoodHistory(h)
  BY <1>2, <1>3 DEF GoodHistory
<1>6. Whole(canvas)
  BY <1>2, <1>3, <1>4, <1>5 DEF Whole, DraftHolds
<1> QED
  BY <1>6, CanvasBegins DEF RegionInv

LEMMA RegionsStay ==
    ASSUME RegionInv, [CanvasNext]_canvas
    PROVE  RegionInv'
<1>1. CASE UNCHANGED canvas
  BY <1>1 DEF RegionInv, CanvasInv
<1>2. CASE renderCanvas
  BY <1>2, DropIsWhole, PortDownIsWhole, FinishIsWhole, NodesAreWhole DEF renderCanvas, renderNodes
<1> QED
  BY <1>1, <1>2, KeysAreWhole, IdleIsWhole DEF CanvasNext

\* No orphan regions, whatever is dropped, joined, deleted, pasted, resized, undone
\* and done again, on a canvas of any drafts that have no end in a body: the owner of
\* a node's region is there, still has the port, and an edge from it enters the region.
THEOREM RegionsStayEntered == EndsOutside => (CanvasSpec => []RegionsAreEntered)
<1> SUFFICES ASSUME EndsOutside PROVE CanvasSpec => []RegionsAreEntered
  OBVIOUS
<1>1. CanvasInit => RegionInv
  BY RegionsBegin
<1>2. RegionInv /\ [CanvasNext]_canvas => RegionInv'
  BY RegionsStay
<1>3. RegionInv => RegionsAreEntered
  BY DEF RegionInv, Whole, Good, Graph, RegionsAreEntered
<1> QED
  BY <1>1, <1>2, <1>3, PTL DEF CanvasSpec

=============================================================================
