---------------------------- MODULE CatalogList ----------------------------
(***************************************************************************)
(* The list pages of the web console: a search box whose text is applied   *)
(* 300 ms after the last key, a filter, a page size, and a walk over the   *)
(* server's pages by cursor.  Every change of what is asked starts a new   *)
(* fetch and supersedes the one before, whose answer may still come.       *)
(*                                                                         *)
(* Six pages are copies of one another.  The flow list differs: it aborts  *)
(* a superseded fetch, cancels the search timer, keeps the first page on   *)
(* its stack, recognises a change of page size, and fetches in two steps.  *)
(*                                                                         *)
(* A cursor is the page it leads to; the rows themselves are left out.     *)
(***************************************************************************)
EXTENDS Naturals, Sequences, SequencesExt, ConsoleCommon

CONSTANTS
    Searches,   \* what can be typed, besides nothing
    Limits,     \* page sizes
    Pages,      \* how many pages the server has, by kind of list
    MaxStale,   \* bound: superseded fetches still out
    MaxPage     \* bound: the paginator's page number, and the stack

ASSUME ListAssumption ==
    /\ Limits # {}
    /\ \A kind \in DOMAIN Pages : Pages[kind] \in Nat \ {0}
    /\ MaxStale \in Nat
    /\ MaxPage \in Nat
    /\ "" \notin Searches

VARIABLES
    list,    \* the page, its paginator included
    stale    \* the cursors of the superseded fetches that are still out

listVars == <<list, stale>>

ListKinds == {"agents", "queues", "skills", "channels", "adapters",
              "break_reasons", "flows"}

-----------------------------------------------------------------------------
(* Cursors *)

First == 1    \* a null cursor
None == 0     \* no next page: has_more is false

Args(l) == [search |-> l.search, disabled |-> l.disabled, limit |-> l.limit,
            cursor |-> l.cursor]

\* next_cursor of the answer to a fetch from `cursor'.
Follow(cursor) == IF cursor < Pages[list.kind] THEN cursor + 1 ELSE None

-----------------------------------------------------------------------------
(* The fetch *)

\* Task.run: what was out is superseded.  A flow list aborts it.
Start(l) ==
    /\ list' = [l EXCEPT !.asked = Args(l), !.status = "pending",
                         !.shown = Null]
    /\ stale' = IF list.status = "pending" /\ list.kind # "flows"
                THEN stale \cup {list.asked.cursor} ELSE stale
    /\ Cardinality(stale') <= MaxStale

\* After a change of the page's state a run starts if its arguments changed.
Updated(l) ==
    IF Args(l) # l.asked THEN Start(l) ELSE list' = l /\ UNCHANGED stale

FetchedWhoeverAsked ==
    \/ /\ list.status = "pending"
       /\ list' = [list EXCEPT !.next = Follow(list.asked.cursor), !.shown = list.asked,
                               !.status = "complete"]
       /\ UNCHANGED stale
    \/ \E cursor \in stale :
          /\ list' = [list EXCEPT !.next = Follow(cursor), !.status = "complete",
                                  !.shown = [list.asked EXCEPT !.cursor = cursor]]
          /\ stale' = stale \ {cursor}

\* The body of the task: has_more and next_cursor are stored whether or not the
\* run is still the current one, its result only if it is.
Fetched ==
    \/ /\ list.status = "pending"
       /\ list' = [list EXCEPT !.next = Follow(list.asked.cursor), !.shown = list.asked,
                               !.status = "complete"]
       /\ UNCHANGED stale
    \/ \E cursor \in stale :
          /\ list' = [list EXCEPT !.next = Follow(cursor)]
          /\ stale' = stale \ {cursor}

FetchFailed ==
    \/ /\ list.status \in {"pending", "bindings"}
       /\ list' = [list EXCEPT !.status = "error"]
       /\ UNCHANGED stale
    \/ /\ UNCHANGED list
       /\ \E cursor \in stale : stale' = stale \ {cursor}

-----------------------------------------------------------------------------
(* What the pages have in common *)

NewList(kind, limit) ==
    [kind |-> kind, typed |-> Null, search |-> "", disabled |-> FALSE,
     limit |-> limit, cursor |-> First, stack |-> <<>>, next |-> None, page |-> 1,
     hurried |-> FALSE, acting |-> FALSE, status |-> "pending", shown |-> Null,
     asked |-> [search |-> "", disabled |-> FALSE, limit |-> limit, cursor |-> First]]

\* Another page of the console is opened; this one starts afresh when it is.
ListNavigate ==
    /\ list' = NewList(list.kind, list.limit)
    /\ stale' = {}

FirstPage(l) == [l EXCEPT !.cursor = First, !.stack = <<>>, !.hurried = FALSE]

\* A key: the timer of the search box starts again.
Typed ==
    \E text \in Searches \cup {""} :
        /\ list' = [list EXCEPT !.typed = text]
        /\ UNCHANGED stale

TimerFires ==
    /\ list.typed # Null
    /\ Updated(FirstPage([list EXCEPT !.search = list.typed, !.typed = Null]))

\* The button that clears the search, by the box or in the empty state.
ClearSearch(l) ==
    /\ list.search # ""
    /\ Updated(FirstPage([l EXCEPT !.search = ""]))

IncludeDisabled == Updated(FirstPage([list EXCEPT !.disabled = ~@]))

Refresh == Start(list)

\* or-cursor-paginator: Previous and the boxes of the earlier pages are one
\* handler; a new page size is announced as a step to the next page.
Event(direction, page, limit) == [direction |-> direction, page |-> page, limit |-> limit]

PrevPressed ==
    {e \in {Event("prev", IF list.page > 1 THEN list.page - 1 ELSE 1, list.limit)} :
        list.stack # <<>>}

NextPressed ==
    {e \in {Event("next", list.page + 1, list.limit)} :
        list.next # None /\ list.page < MaxPage /\ Len(list.stack) < MaxPage}

LimitChosen ==
    {Event("next", 1, limit) : limit \in
        {l \in Limits \ {list.limit} : Len(list.stack) < MaxPage}}

\* The or-page-changed events it may send.
Paginator == PrevPressed \cup NextPressed \cup LimitChosen

Back(l) ==
    [l EXCEPT !.cursor = IF l.stack = <<>> THEN First ELSE Last(l.stack),
              !.stack = IF l.stack = <<>> THEN <<>> ELSE Front(l.stack)]

\* Without a next page the step, if it is announced at all, leads to the first.
Ahead(l) == IF l.next = None THEN First ELSE l.next

\* The first page, which has no cursor, is not put on the stack.
PageChanged(e) ==
    LET l == [list EXCEPT !.limit = e.limit, !.page = e.page]
    IN  Updated(IF e.direction = "prev" THEN Back(l)
                ELSE [l EXCEPT !.stack = IF l.cursor = First THEN @ ELSE Append(@, l.cursor),
                               !.cursor = Ahead(l)])

\* A row's menu: Enable or Disable with the version shown, or Delete once
\* confirmed.  The answer, whatever it is, is followed by a refresh.
RowMenu ==
    /\ list.status = "complete" /\ ~list.acting
    /\ \/ ListNavigate
       \/ list' = [list EXCEPT !.acting = TRUE] /\ UNCHANGED stale

RowAnswered == list.acting /\ Start([list EXCEPT !.acting = FALSE])

RowClick == list.status = "complete" /\ ListNavigate

\* No rows: clear the search, or create the first one.
NoRows(clear) == list.status = "complete" /\ (clear \/ (list.search = "" /\ ListNavigate))

Frame(kind) == list.kind = kind

-----------------------------------------------------------------------------
(* Agents *)

AgentsFetched == Fetched
AgentsSearch == Typed
AgentsIncludeDisabled == IncludeDisabled
AgentsRefresh == Refresh
AgentsPageChanged(e) == PageChanged(e)
AgentsRowAction == RowMenu \/ RowAnswered
AgentsRowClick == RowClick
AgentsEmpty == NoRows(ClearSearch(list))
AgentsScreen ==
    /\ Frame("agents")
    /\ \/ AgentsSearch \/ ClearSearch(list) \/ AgentsIncludeDisabled \/ AgentsRefresh
       \/ AgentsEmpty \/ AgentsRowClick \/ AgentsRowAction
       \/ \E e \in Paginator : AgentsPageChanged(e)

-----------------------------------------------------------------------------
(* Queues *)

QueuesFetched == Fetched
QueuesSearch == Typed
QueuesIncludeDisabled == IncludeDisabled
QueuesRefresh == Refresh
QueuesPageChanged(e) == PageChanged(e)
QueuesRowAction == RowMenu \/ RowAnswered
QueuesRowClick == RowClick
QueuesEmpty == NoRows(ClearSearch(list))
QueuesScreen ==
    /\ Frame("queues")
    /\ \/ QueuesSearch \/ ClearSearch(list) \/ QueuesIncludeDisabled \/ QueuesRefresh
       \/ QueuesEmpty \/ QueuesRowClick \/ QueuesRowAction
       \/ \E e \in Paginator : QueuesPageChanged(e)

-----------------------------------------------------------------------------
(* Skills *)

SkillsFetched == Fetched
SkillsSearch == Typed
SkillsIncludeDisabled == IncludeDisabled
SkillsRefresh == Refresh
SkillsPageChanged(e) == PageChanged(e)
SkillsRowAction == RowMenu \/ RowAnswered
SkillsRowClick == RowClick
SkillsEmpty == NoRows(ClearSearch(list))
SkillsScreen ==
    /\ Frame("skills")
    /\ \/ SkillsSearch \/ ClearSearch(list) \/ SkillsIncludeDisabled \/ SkillsRefresh
       \/ SkillsEmpty \/ SkillsRowClick \/ SkillsRowAction
       \/ \E e \in Paginator : SkillsPageChanged(e)

-----------------------------------------------------------------------------
(* Channels *)

ChannelsFetched == Fetched
ChannelsSearch == Typed
ChannelsIncludeDisabled == IncludeDisabled
ChannelsRefresh == Refresh
ChannelsPageChanged(e) == PageChanged(e)
ChannelsRowAction == RowMenu \/ RowAnswered
ChannelsRowClick == RowClick
ChannelsEmpty == NoRows(ClearSearch(list))
ChannelsScreen ==
    /\ Frame("channels")
    /\ \/ ChannelsSearch \/ ClearSearch(list) \/ ChannelsIncludeDisabled \/ ChannelsRefresh
       \/ ChannelsEmpty \/ ChannelsRowClick \/ ChannelsRowAction
       \/ \E e \in Paginator : ChannelsPageChanged(e)

-----------------------------------------------------------------------------
(* Adapters *)

AdaptersFetched == Fetched
AdaptersSearch == Typed
AdaptersIncludeDisabled == IncludeDisabled
AdaptersRefresh == Refresh
AdaptersPageChanged(e) == PageChanged(e)
AdaptersRowAction == RowMenu \/ RowAnswered
AdaptersRowClick == RowClick
AdaptersEmpty == NoRows(ClearSearch(list))
AdaptersScreen ==
    /\ Frame("adapters")
    /\ \/ AdaptersSearch \/ ClearSearch(list) \/ AdaptersIncludeDisabled \/ AdaptersRefresh
       \/ AdaptersEmpty \/ AdaptersRowClick \/ AdaptersRowAction
       \/ \E e \in Paginator : AdaptersPageChanged(e)

-----------------------------------------------------------------------------
(* Break reasons *)

BreakReasonsFetched == Fetched
BreakReasonsSearch == Typed
BreakReasonsIncludeDisabled == IncludeDisabled
BreakReasonsRefresh == Refresh
BreakReasonsPageChanged(e) == PageChanged(e)
BreakReasonsRowAction == RowMenu \/ RowAnswered
BreakReasonsRowClick == RowClick
BreakReasonsEmpty == NoRows(ClearSearch(list))
BreakReasonsScreen ==
    /\ Frame("break_reasons")
    /\ \/ BreakReasonsSearch \/ ClearSearch(list) \/ BreakReasonsIncludeDisabled
       \/ BreakReasonsRefresh \/ BreakReasonsEmpty \/ BreakReasonsRowClick
       \/ BreakReasonsRowAction
       \/ \E e \in Paginator : BreakReasonsPageChanged(e)

-----------------------------------------------------------------------------
(* Flows *)

\* The flows come first and set the cursor unless the fetch was superseded;
\* then the bindings, for the Published column.
FlowsFetched ==
    \/ /\ list.status = "pending"
       /\ list' = [list EXCEPT !.next = Follow(list.asked.cursor), !.status = "bindings"]
       /\ UNCHANGED stale
    \/ /\ list.status = "bindings"
       /\ list' = [list EXCEPT !.shown = list.asked, !.status = "complete"]
       /\ UNCHANGED stale

FlowsSearch == Typed

\* _setSearch also cancels the timer.
FlowsClearSearch == ClearSearch([list EXCEPT !.typed = Null])

FlowsIncludeDisabled == IncludeDisabled
FlowsRefresh == Refresh

FlowsPageChangedWhateverSize(e) ==
    LET l == [list EXCEPT !.page = e.page, !.limit = e.limit]
    IN  Updated(IF e.direction = "prev" THEN Back(l)
                ELSE [l EXCEPT !.stack = Append(@, l.cursor), !.cursor = Ahead(l),
                               !.hurried = @ \/ l.status # "complete"])

FlowsPageChanged(e) ==
    LET l == [list EXCEPT !.page = e.page]
    IN  Updated(CASE e.limit # list.limit -> FirstPage([l EXCEPT !.limit = e.limit])
                  [] e.limit = list.limit /\ e.direction = "prev" -> Back(l)
                  [] OTHER -> [l EXCEPT !.stack = Append(@, l.cursor), !.cursor = Ahead(l),
                                        !.hurried = @ \/ l.status # "complete"])

\* A refused toggle or delete is shown, and only a conflict is followed by a
\* refresh.
FlowsRowAction ==
    \/ RowMenu
    \/ RowAnswered
    \/ list.acting /\ list' = [list EXCEPT !.acting = FALSE] /\ UNCHANGED stale

FlowsRowClick == RowClick
FlowsEmpty == NoRows(FlowsClearSearch)

FlowsScreen ==
    /\ Frame("flows")
    /\ \/ FlowsSearch \/ FlowsClearSearch \/ FlowsIncludeDisabled \/ FlowsRefresh
       \/ FlowsEmpty \/ FlowsRowClick \/ FlowsRowAction
       \/ \E e \in Paginator : FlowsPageChanged(e)

-----------------------------------------------------------------------------
ListInit ==
    /\ list \in {NewList(kind, CHOOSE limit \in Limits : TRUE) : kind \in ListKinds}
    /\ stale = {}

ListUser ==
    \/ AgentsScreen \/ QueuesScreen \/ SkillsScreen \/ ChannelsScreen
    \/ AdaptersScreen \/ BreakReasonsScreen \/ FlowsScreen

ListAnswered ==
    \/ Frame("agents") /\ AgentsFetched
    \/ Frame("queues") /\ QueuesFetched
    \/ Frame("skills") /\ SkillsFetched
    \/ Frame("channels") /\ ChannelsFetched
    \/ Frame("adapters") /\ AdaptersFetched
    \/ Frame("break_reasons") /\ BreakReasonsFetched
    \/ Frame("flows") /\ FlowsFetched

ListNext == ListUser \/ ListAnswered \/ FetchFailed \/ TimerFires

ListSpec == ListInit /\ [][ListNext]_listVars

-----------------------------------------------------------------------------
(* Properties *)

\* The rows shown are the ones asked for as the filters, the page size and the
\* cursor now stand, however the answers of superseded fetches were ordered;
\* and on the flow list Next leads from the page shown to the one after it.
\* On the other lists a late answer replaces the cursor.
ShownIsAsked ==
    list.status = "complete" =>
        /\ list.shown = Args(list)
        /\ list.kind = "flows" => list.next = Follow(list.shown.cursor)

\* The flow list's stack is the way back: the pages before the one shown, in
\* order, unless Next was pressed when there was no page to see.
StackIsTheWayBack ==
    list.kind = "flows" /\ list.status = "complete" /\ ~list.hurried =>
        /\ list.cursor = Len(list.stack) + 1
        /\ \A i \in DOMAIN list.stack : list.stack[i] = i

=============================================================================
