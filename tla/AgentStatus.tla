----------------------------- MODULE AgentStatus -----------------------------
(***************************************************************************)
(* The status of one agent: the row the API serves through a cache, and    *)
(* the two pages that show it and move it along - the agent's own status   *)
(* panel, and the board that lists every agent, of which this is one line. *)
(* Both poll; a poll, the answer to a move and the fetch that follows one  *)
(* may be out together and come in any order.                              *)
(*                                                                         *)
(* The routing engine and other consoles move the agent too.  A row is its *)
(* version and its status.  Left out is what only chooses what is drawn:   *)
(* the reasons of a break, the opening and closing of the picker and of    *)
(* the force dialog, the other agents of the board and its filters.        *)
(***************************************************************************)
EXTENDS Naturals, ConsoleCommon

CONSTANTS
    FirstStatuses,   \* statuses the agent has when the page is opened
    Moves,           \* statuses that others move the agent to
    ForceTargets,    \* statuses that are forced: of Ready, NotReady, Break, Offline
    MaxStateVersion, \* bound: state_version
    MaxGets          \* bound: reads out at once

AgentStatuses == {"Ready", "NotReady", "Break", "Engaged", "WrapUp", "Offline"}

ASSUME StatusAssumption ==
    /\ FirstStatuses \cup Moves \subseteq AgentStatuses
    /\ ForceTargets \subseteq {"Ready", "NotReady", "Break", "Offline"}
    /\ {MaxStateVersion, MaxGets} \subseteq Nat \ {0}

VARIABLES
    agent,    \* the row of agent_states
    cache,    \* the cache's entry: a row, perhaps an older one, or Null
    watch,    \* the page: the panel or the board
    gets,     \* the reads that are out: Null, or what is to follow and the answer
    patch     \* the move that is out, or Null

statusVars == <<agent, cache, watch, gets, patch>>

-----------------------------------------------------------------------------
(* The server *)

\* The edges an agent may take of its own accord.
matrix == [s \in AgentStatuses |->
    CASE s = "NotReady" -> {"Ready"}
      [] s = "Ready" -> {"NotReady", "Break"}
      [] s \in {"Break", "WrapUp"} -> {"Ready", "NotReady"}
      [] OTHER -> {}]

validateTransition(from, to) == to \in matrix[from]

Moved(to) == agent' = [version |-> agent.version + 1, status |-> to]

\* The entry is served, or the row, which then becomes the entry.
GetAgentStatus ==
    /\ \E g \in DOMAIN gets :
          /\ gets[g] # Null /\ gets[g].reply = Null
          /\ gets' = [gets EXCEPT ![g].reply = IF cache = Null THEN agent ELSE cache]
    /\ cache' = IF cache = Null THEN agent ELSE cache
    /\ UNCHANGED <<agent, watch, patch>>

CacheExpires ==
    /\ cache # Null
    /\ cache' = Null
    /\ UNCHANGED <<agent, watch, gets, patch>>

Patching(stage) == patch # Null /\ patch.stage = stage

Replied(reply) == patch' = [patch EXCEPT !.stage = "answered", !.reply = reply]

\* The row is read, and the edge checked, before the transaction begins.
PatchRead ==
    /\ Patching("sent")
    /\ IF patch.force \/ validateTransition(agent.status, patch.to)
       THEN patch' = [patch EXCEPT !.stage = "read", !.from = agent.status]
       ELSE Replied("conflict")
    /\ UNCHANGED <<agent, cache, watch, gets>>

PatchUpdateBlindly ==
    /\ Patching("read")
    /\ agent.version < MaxStateVersion
    /\ Moved(patch.to)
    /\ patch' = [patch EXCEPT !.stage = "updated", !.from = Null, !.row = agent']
    /\ UNCHANGED <<cache, watch, gets>>

\* The update wants the status that was read, unless it is forced.
PatchUpdate ==
    /\ Patching("read") /\ (patch.force \/ patch.from = agent.status)
    /\ agent.version < MaxStateVersion
    /\ Moved(patch.to)
    /\ patch' = [patch EXCEPT !.stage = "updated", !.from = Null, !.row = agent']
    /\ UNCHANGED <<cache, watch, gets>>

PatchMisses ==
    /\ Patching("read") /\ ~patch.force /\ patch.from # agent.status
    /\ cache' \in {cache, Null}
    /\ Replied("conflict")
    /\ UNCHANGED <<agent, watch, gets>>

\* The entry goes once the update is committed; failing to is only logged.
PatchDone ==
    /\ Patching("updated")
    /\ cache' \in {cache, Null}
    /\ Replied("ok")
    /\ UNCHANGED <<agent, watch, gets>>

PatchFails ==
    /\ Patching("sent") \/ Patching("read")
    /\ Replied("error")
    /\ UNCHANGED <<agent, cache, watch, gets>>

PatchAgentStatus == PatchRead \/ PatchUpdate \/ PatchMisses \/ PatchDone \/ PatchFails

\* Another console, or the engine, which leaves the entry where it is.
OthersMove ==
    /\ agent.version < MaxStateVersion
    /\ \E to \in Moves : Moved(to)
    /\ cache' \in {cache, Null}
    /\ UNCHANGED <<watch, gets, patch>>

-----------------------------------------------------------------------------
(* Requests of the pages *)

Sees(w) == watch' = w /\ UNCHANGED <<agent, cache, gets, patch>>

NewGet(then) == [then |-> then, reply |-> Null]

Gets(then) ==
    \E g \in DOMAIN gets :
        /\ gets[g] = Null
        /\ \A h \in DOMAIN gets : h < g => gets[h] # Null
        /\ gets' = [gets EXCEPT ![g] = NewGet(then)]

fetchStatus == Gets("none") /\ UNCHANGED <<agent, cache, watch, patch>>

\* A move asked for while one is out is dropped.
patchStatus(to, force) ==
    /\ ~watch.transitioning /\ patch = Null
    /\ watch' = [watch EXCEPT !.transitioning = TRUE, !.conflict = FALSE]
    /\ patch' = [to |-> to, force |-> force, stage |-> "sent", from |-> Null,
                 row |-> Null, reply |-> Null]
    /\ UNCHANGED <<agent, cache, gets>>

\* Bound: the page is left when no move of its own is out.
NewWatch(kind) ==
    [kind |-> kind, shown |-> Null, loading |-> TRUE, conflict |-> FALSE,
     transitioning |-> FALSE, polling |-> TRUE, hidden |-> FALSE]

FirstGet == [g \in DOMAIN gets |-> IF g = 1 THEN NewGet("none") ELSE Null]

StatusNavigate ==
    /\ patch = Null
    /\ watch' = NewWatch(watch.kind)
    /\ gets' = FirstGet
    /\ UNCHANGED <<agent, cache, patch>>

-----------------------------------------------------------------------------
(* The status panel *)

Panel == watch.kind = "panel"

handleVisibilityChange ==
    \/ ~watch.hidden /\ Sees([watch EXCEPT !.hidden = TRUE, !.polling = FALSE])
    \/ /\ watch.hidden
       /\ watch' = [watch EXCEPT !.hidden = FALSE]
       /\ Gets("resume")
       /\ UNCHANGED <<agent, cache, patch>>

PollTimer == watch.polling /\ fetchStatus

\* The countdown has reached zero.
WrapupOver == watch.shown # Null /\ watch.shown.status = "WrapUp" /\ fetchStatus

\* A version other than the one shown is taken in, an older one too.
PanelTakes(row) ==
    [watch EXCEPT !.loading = FALSE, !.shown = IF row = Null THEN @ ELSE row]

\* The answer to a read, or its failure at the server or on the way.
Received(g) == gets[g] # Null /\ UNCHANGED <<agent, cache, patch>>

\* A read that came of the page being visible again restarts the polling, which
\* begins with a read.
PanelFetched(g) ==
    /\ Panel /\ Received(g)
    /\ watch' = PanelTakes(gets[g].reply)
    /\ gets[g].then = "none" /\ gets' = [gets EXCEPT ![g] = Null]

startPolling(g) ==
    /\ Panel /\ Received(g) /\ gets[g].then = "resume"
    /\ watch' = [PanelTakes(gets[g].reply) EXCEPT !.polling = TRUE]
    /\ gets' = [gets EXCEPT ![g] = NewGet("none")]

PanelPatched ==
    /\ Panel /\ Patching("answered")
    /\ LET done == [watch EXCEPT !.transitioning = FALSE]
       IN  watch' = CASE patch.reply = "ok" -> [done EXCEPT !.shown = patch.row]
                      [] patch.reply = "conflict" -> [done EXCEPT !.conflict = TRUE]
                      [] OTHER -> done
    /\ patch' = Null
    /\ UNCHANGED <<agent, cache, gets>>

\* While Ready; it lists the reasons that are enabled, and Confirm wants one.
renderBreakPicker == watch.shown.status = "Ready" /\ patchStatus("Break", FALSE)

\* The moves a status offers; while Engaged only what to do afterwards.
renderTransitionButtons ==
    /\ watch.shown # Null
    /\ \/ \E to \in (CASE watch.shown.status = "Ready" -> {"NotReady"}
                       [] watch.shown.status = "NotReady" -> {"Ready"}
                       [] watch.shown.status \in {"Break", "WrapUp"} -> {"Ready", "NotReady"}
                       [] watch.shown.status = "Engaged" -> {"Engaged"}
                       [] OTHER -> {}) : patchStatus(to, FALSE)
       \/ renderBreakPicker

\* Any target, whatever the status, once it is confirmed.
renderForceFlagSection == \E to \in ForceTargets : patchStatus(to, TRUE)

ConflictAcknowledged ==
    /\ watch.conflict
    /\ watch' = [watch EXCEPT !.conflict = FALSE]
    /\ Gets("none")
    /\ UNCHANGED <<agent, cache, patch>>

PanelScreen ==
    /\ Panel
    /\ \/ StatusNavigate \/ handleVisibilityChange \/ PollTimer \/ WrapupOver
       \/ ~watch.loading /\ (ConflictAcknowledged \/ renderTransitionButtons
                             \/ renderForceFlagSection)

-----------------------------------------------------------------------------
(* The board *)

Board == watch.kind = "board"

BoardFetchedAsItComes(g) ==
    /\ Board /\ Received(g)
    /\ watch' = [PanelTakes(gets[g].reply) EXCEPT
          !.transitioning = IF gets[g].then = "settle" THEN FALSE ELSE @]
    /\ gets' = [gets EXCEPT ![g] = Null]

\* An answer older than the one on the board is dropped; the read that follows
\* a move ends it.
BoardFetched(g) ==
    /\ Board /\ Received(g)
    /\ LET reply == gets[g].reply
           newer == reply # Null /\ (watch.shown = Null \/ reply.version >= watch.shown.version)
       IN  watch' = [watch EXCEPT
               !.loading = FALSE,
               !.shown = IF newer THEN reply ELSE @,
               !.transitioning = IF gets[g].then = "settle" THEN FALSE ELSE @]
    /\ gets' = [gets EXCEPT ![g] = Null]

BoardPatched ==
    /\ Board /\ Patching("answered")
    /\ patch' = Null
    /\ \/ /\ patch.reply = "ok"
          /\ Gets("settle") /\ UNCHANGED watch
       \/ /\ patch.reply # "ok"
          /\ watch' = [watch EXCEPT !.transitioning = FALSE]
          /\ UNCHANGED gets
    /\ UNCHANGED <<agent, cache>>

\* An agent is Offline's only way back, and is forced.
renderQuickActions ==
    \/ StatusNavigate
    \/ /\ watch.shown # Null /\ ~watch.transitioning
       /\ \/ watch.shown.status \in {"NotReady", "Break"} /\ patchStatus("Ready", FALSE)
          \/ watch.shown.status = "Ready" /\ patchStatus("NotReady", FALSE)
          \/ watch.shown.status = "Offline" /\ patchStatus("Ready", TRUE)

BoardScreen ==
    /\ Board
    /\ \/ fetchStatus           \* the timer, or Refresh
       \/ ~watch.loading /\ renderQuickActions

-----------------------------------------------------------------------------
\* The answer to a move is lost, or the move before it.
PatchLost ==
    /\ Patching("sent") \/ Patching("answered")
    /\ patch' = Null
    /\ watch' = [watch EXCEPT !.transitioning = FALSE]
    /\ UNCHANGED <<agent, cache, gets>>

StatusInit ==
    /\ agent \in [version : {1}, status : FirstStatuses]
    /\ cache = Null
    /\ watch \in {NewWatch("panel"), NewWatch("board")}
    /\ gets = [g \in 1..MaxGets |-> IF g = 1 THEN NewGet("none") ELSE Null]
    /\ patch = Null

StatusNext ==
    \/ PanelScreen \/ BoardScreen
    \/ \E g \in DOMAIN gets : PanelFetched(g) \/ startPolling(g) \/ BoardFetched(g)
    \/ PanelPatched \/ BoardPatched \/ PatchLost
    \/ GetAgentStatus \/ CacheExpires \/ PatchAgentStatus \/ OthersMove

StatusSpec == StatusInit /\ [][StatusNext]_statusVars

-----------------------------------------------------------------------------
(* Properties *)

\* The board never goes back: whatever the order of polls, moves and the reads
\* after them, and however stale the cache, an agent's line is not replaced by
\* an older one.
BoardNeverGoesBack ==
    [][Board /\ watch.shown # Null /\ watch'.shown # Null
          => watch'.shown.version >= watch.shown.version]_statusVars

\* Without force an agent takes an edge of the matrix, from the status it has
\* when the row is written and not from the one the check has read.
PatchFollowsTheMatrix ==
    [][Patching("read") /\ patch'.stage = "updated" /\ ~patch.force
          => agent'.status \in matrix[agent.status]]_<<agent, patch>>

=============================================================================
