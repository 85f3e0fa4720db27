----------------------------- MODULE FlowCanvas -----------------------------
(***************************************************************************)
(* The canvas of the flow builder: nodes joined by edges that leave them   *)
(* by a port.  The body port of a control node opens a region; which nodes *)
(* are in it is derived again after every change of the graph.  Every      *)
(* change is one step of an undo history.                                  *)
(*                                                                         *)
(* A graph is its nodes, its edges in order, and one bit that stands for   *)
(* everything else a change can touch: positions, labels, parameters.      *)
(* Where the pointer is dropped is a choice: any node, any body, none.     *)
(* So is what is selected, which a click changes and nothing here reads    *)
(* but the keys and the inspector.                                         *)
(***************************************************************************)
EXTENDS Naturals, Sequences, SequencesExt, FiniteSets, ConsoleCommon

CONSTANTS
    CanvasDrafts,  \* graphs that can be loaded: nodes (id to kind and size) and edges
    Ids,           \* bound: node ids
    PaletteKinds,  \* kinds dragged from the palette
    HistoryCap,    \* _HISTORY_CAP
    MaxEdges,      \* bound: edges
    MaxEdits       \* bound: changes of the graph

Kinds == {"trigger", "plain", "switch", "end", "loop", "parallel"}

ControlKinds == {"loop", "parallel"}

MinSize == [kind \in Kinds |-> IF kind = "parallel" THEN 2 ELSE 0]
MaxSize == [kind \in Kinds |-> CASE kind = "parallel" -> 3 [] kind = "switch" -> 1 [] OTHER -> 0]

\* What a node's parameters say is brought within the bounds of its kind.
IsKindAndSize(node) ==
    node.kind \in Kinds /\ node.size \in MinSize[node.kind]..MaxSize[node.kind]

ASSUME CanvasAssumption ==
    /\ PaletteKinds \subseteq Kinds
    /\ HistoryCap \in Nat \ {0}
    /\ MaxEdges \in Nat /\ MaxEdits \in Nat
    /\ Null \notin Ids \cup [id : Ids, moved : BOOLEAN]
    /\ \A draft \in CanvasDrafts :
          /\ DOMAIN draft.nodes \subseteq Ids
          /\ \A id \in DOMAIN draft.nodes : IsKindAndSize(draft.nodes[id])
          /\ draft.edges \in Seq([from : Ids, port : STRING, to : Ids])

VARIABLE canvas

-----------------------------------------------------------------------------
(* Ports *)

BodyPorts == <<"body:0", "body:1", "body:2">>

\* The ports of a node, in order; its size is its number of cases or branches.
outputsForNode(node) ==
    CASE node.kind = "end" -> <<>>
      [] node.kind = "loop" -> <<"body", "done">>
      [] node.kind = "parallel" -> Append(SubSeq(BodyPorts, 1, node.size), "done")
      [] node.kind = "switch" -> IF node.size = 0 THEN <<"default">> ELSE <<"case", "default">>
      [] OTHER -> <<"done">>

\* The edges of a list that are in a set, in order.
Filtered(edges, kept) ==
    LET upTo[i \in 0..Len(edges)] ==
            IF i = 0 THEN <<>>
            ELSE IF edges[i] \in kept THEN Append(upTo[i - 1], edges[i])
            ELSE upTo[i - 1]
    IN  upTo[Len(edges)]

isBodyPort(port) == port \in {"body"} \cup ToSet(BodyPorts)

Exists(g, id) == id \in DOMAIN g.nodes

Ports(g, id) == IF Exists(g, id) THEN outputsForNode(g.nodes[id]) ELSE <<>>

IsBodyEdge(g, e) ==
    Exists(g, e.from) /\ g.nodes[e.from].kind \in ControlKinds /\ isBodyPort(e.port)

Top == <<>>
regionIdForPort(owner, port) == <<owner, port>>

\* A source with the single port "done" keeps any edge.
pruneEdges(g) ==
    Filtered(g.edges, {e \in ToSet(g.edges) :
        /\ Exists(g, e.from) /\ Exists(g, e.to)
        /\ Ports(g, e.from) # <<>>
        /\ e.port \in ToSet(Ports(g, e.from)) \/ Ports(g, e.from) = <<"done">>})

-----------------------------------------------------------------------------
(* Regions *)

\* A walk over the edges: the regions found so far, the nodes still to be left,
\* the edge it is at, and whether it still looks for the entries.
Start == [region |-> [id \in Ids |-> Top], queue |-> <<>>, at |-> 1, seeding |-> TRUE]

Enter(walk, id, region) == [walk EXCEPT !.region[id] = region, !.queue = Append(@, id)]

\* The body edges name the entries, a later one overriding an earlier.
Seed(g, walk, e) ==
    IF IsBodyEdge(g, e) /\ Exists(g, e.to) THEN Enter(walk, e.to, regionIdForPort(e.from, e.port))
    ELSE walk

\* From the entries membership floods forward along the other edges, breadth
\* first; an end, and a node that has a region, stay as they are.
Flow(g, walk, e) ==
    IF /\ e.from = Head(walk.queue) /\ ~IsBodyEdge(g, e)
       /\ Exists(g, e.to) /\ g.nodes[e.to].kind # "end" /\ walk.region[e.to] = Top
    THEN Enter(walk, e.to, walk.region[e.from])
    ELSE walk

Walk(g, walk) ==
    LET e == g.edges[walk.at]
        last == walk.at = Len(g.edges)
        next == IF last THEN 1 ELSE walk.at + 1
    IN  CASE walk.seeding -> [Seed(g, walk, e) EXCEPT !.at = next, !.seeding = ~last]
          [] ~walk.seeding /\ walk.queue = <<>> -> walk
          [] OTHER -> [Flow(g, walk, e) EXCEPT !.at = next, !.queue = IF last THEN Tail(@) ELSE @]

\* Once over the edges for the entries, and once for each edge that brings a node
\* into the queue.
Steps(g) == Len(g.edges) + Len(g.edges) * Len(g.edges)

Flooded(g) ==
    LET walk[i \in 0..Steps(g)] == IF i = 0 THEN Start ELSE Walk(g, walk[i - 1])
    IN  walk[Steps(g)].region

recomputeRegions(g) ==
    [g EXCEPT !.nodes = [id \in DOMAIN g.nodes |-> [g.nodes[id] EXCEPT !.region = Flooded(g)[id]]]]

Region(g, id) == g.nodes[id].region
Members(g, region) == {id \in DOMAIN g.nodes : Region(g, id) = region}

-----------------------------------------------------------------------------
(* Changes of a graph *)

NewNode(kind, size) == [kind |-> kind, size |-> size, region |-> Top]

WithNode(g, id, node) ==
    [g EXCEPT !.nodes = [n \in DOMAIN g.nodes \cup {id} |-> IF n = id THEN node ELSE g.nodes[n]]]

Edge(from, port, to) == [from |-> from, port |-> port, to |-> to]

\* The bodies a palette item can be dropped on: the frame of a region, or a
\* control node, whose first body port it then takes.
bodyDropContext(g) ==
    ({Region(g, id) : id \in DOMAIN g.nodes} \ {Top})
    \cup {regionIdForPort(id, Ports(g, id)[1]) :
            id \in {n \in DOMAIN g.nodes : g.nodes[n].kind \in ControlKinds}}

\* The new node is the entry of an empty body, or follows a tail of it: a
\* member with no successor in the body, or the last member if all have one.
Tails(g, region) ==
    LET members == Members(g, region)
        ends == {m \in members : \A e \in ToSet(g.edges) : e.from = m => e.to \notin members}
    IN  IF ends # {} THEN ends ELSE members

wireIntoBody(g, region, id) ==
    LET entry == Edge(region[1], region[2], id)
        port(tail) == IF Ports(g, tail) = <<>> THEN "done" ELSE Ports(g, tail)[1]
        hasEntry == \E i \in DOMAIN g.edges :
                       g.edges[i].from = entry.from /\ g.edges[i].port = entry.port
    IN  IF ~hasEntry THEN {[g EXCEPT !.edges = Append(@, entry)]}
        ELSE IF Members(g, region) = {} THEN {g}
        ELSE {[g EXCEPT !.edges = Append(@, Edge(tail, port(tail), id))] : tail \in Tails(g, region)}

\* What a connection may not do: enter a body but by its port, leave one, or
\* bring an end into one.
connectionError(g, from, port, to) ==
    LET src == Region(g, from)
        tgt == Region(g, to)
        toEnd == g.nodes[to].kind = "end"
    IN  IF IsBodyEdge(g, Edge(from, port, to)) THEN toEnd
        ELSE src # tgt /\ ((src # Top /\ toEnd) \/ tgt # Top)

\* A node of one port has one edge, any other one edge for each port.
Joined(g, from, port, to) ==
    LET kept == Filtered(g.edges, {e \in ToSet(g.edges) :
                    e.from # from \/ (Len(Ports(g, from)) > 1 /\ e.port # port)})
    IN  recomputeRegions([g EXCEPT !.edges = Append(kept, Edge(from, port, to))])

WithoutEdge(g, e) == recomputeRegions([g EXCEPT !.edges = Filtered(@, ToSet(@) \ {e})])

\* The edges that do not touch a node.
Clear(g, id) == {e \in ToSet(g.edges) : e.from # id /\ e.to # id}

WithoutNodeOnly(g, id) ==
    [g EXCEPT !.nodes = [n \in DOMAIN @ \ {id} |-> @[n]],
              !.edges = Filtered(g.edges, Clear(g, id))]

WithoutNode(g, id) ==
    recomputeRegions([g EXCEPT
        !.nodes = [n \in DOMAIN @ \ {id} |-> @[n]],
        !.edges = Filtered(g.edges, Clear(g, id))])

\* Remove from body: the edges that bring the node into its region go.
Ejected(g, id) ==
    LET region(from) == IF Exists(g, from) THEN Region(g, from) ELSE Top
    IN  recomputeRegions([g EXCEPT !.edges = Filtered(@, {e \in ToSet(@) :
            e.to = id => ~IsBodyEdge(g, e) /\ region(e.from) # Region(g, id)})])

Resized(g, id, size) ==
    LET sized == [g EXCEPT !.nodes[id].size = size]
    IN  recomputeRegions([sized EXCEPT !.edges = pruneEdges(sized)])

Altered(g) == [g EXCEPT !.rest = 1 - @]

-----------------------------------------------------------------------------
(* History *)

Graph == canvas.graph

commitHistoryPastTheCap(c) ==
    LET past == Append(SubSeq(c.history, 1, c.at), c.graph)
        kept == IF Len(past) > HistoryCap THEN Tail(past) ELSE past
    IN  [c EXCEPT !.history = kept, !.at = @ + 1, !.edits = @ + 1]

commitHistory(c) ==
    LET past == Append(SubSeq(c.history, 1, c.at), c.graph)
        kept == IF Len(past) > HistoryCap THEN Tail(past) ELSE past
    IN  [c EXCEPT !.history = kept, !.at = Len(kept), !.edits = @ + 1]

\* _markDirty, as far as the canvas goes: every change is committed.
Change(c, g) ==
    /\ c.edits < MaxEdits
    /\ Len(g.edges) <= MaxEdges
    /\ canvas' = commitHistory([c EXCEPT !.graph = g])

restoreHistory(at) ==
    canvas' = [canvas EXCEPT !.graph = canvas.history[at], !.at = at, !.torn = @ \/ canvas.draft # Null]

undo == canvas.at > 1 /\ restoreHistory(canvas.at - 1)

redo == canvas.at < Len(canvas.history) /\ restoreHistory(canvas.at + 1)

-----------------------------------------------------------------------------
(* Handlers *)

\* Ids are random: one that the history holds is not drawn again.
FreshIds == Ids \ UNION {DOMAIN canvas.history[i].nodes : i \in DOMAIN canvas.history}

Idle == canvas.draft = Null /\ canvas.drag = Null

onCanvasDrop ==
    /\ Idle
    /\ \E id \in FreshIds, kind \in PaletteKinds :
          LET added == WithNode(Graph, id, NewNode(kind, MinSize[kind]))
              wired == {added} \cup
                       (IF kind = "end" THEN {}
                        ELSE UNION {wireIntoBody(added, r, id) : r \in bodyDropContext(Graph)})
          IN  \E g \in wired : Change(canvas, recomputeRegions(g))

onPortPointerDown ==
    /\ Idle
    /\ \E id \in DOMAIN Graph.nodes : \E port \in ToSet(Ports(Graph, id)) :
          canvas' = [canvas EXCEPT !.draft = [from |-> id, port |-> port]]

\* The drop is on no other node, on one it may not be joined to, or joins it.
\* A source that is gone by then is not checked.
finishEdgeDraft ==
    /\ canvas.draft # Null
    /\ LET from == canvas.draft.from
           port == canvas.draft.port
           done == [canvas EXCEPT !.draft = Null]
       IN  \/ canvas' = done
           \/ \E to \in DOMAIN Graph.nodes \ {from} :
                 /\ Exists(Graph, from) => ~connectionError(Graph, from, port, to)
                 /\ Change(done, Joined(Graph, from, port, to))

onNodePointerDown ==
    /\ Idle
    /\ \E id \in DOMAIN Graph.nodes :
          canvas' = [canvas EXCEPT !.drag = [id |-> id, moved |-> FALSE]]

onNodePointerMove ==
    /\ canvas.drag # Null /\ ~canvas.drag.moved
    /\ canvas' = [canvas EXCEPT !.drag.moved = TRUE,
                     !.graph = IF Exists(@, canvas.drag.id) THEN Altered(@) ELSE @]

onNodePointerUp ==
    /\ canvas.drag # Null
    /\ LET done == [canvas EXCEPT !.drag = Null]
       IN  IF canvas.drag.moved THEN Change(done, Graph)
           ELSE canvas' = done

doAutoArrange == Idle /\ DOMAIN Graph.nodes # {} /\ Change(canvas, Altered(Graph))

\* A node now on the canvas, or that was, is copied before it is pasted.
pasteNode ==
    \E id \in FreshIds, i \in DOMAIN canvas.history :
        \E copied \in Range(canvas.history[i].nodes) :
            Change(canvas, WithNode(Graph, id, [copied EXCEPT !.region = Top]))

deleteEdge == \E i \in DOMAIN Graph.edges : Change(canvas, WithoutEdge(Graph, Graph.edges[i]))

deleteNode ==
    \E id \in DOMAIN Graph.nodes :
        Change([canvas EXCEPT !.torn = @ \/ canvas.draft # Null], WithoutNode(Graph, id))

\* The keyboard works whatever the pointer is doing.
onKeyDown == undo \/ redo \/ pasteNode \/ deleteEdge \/ deleteNode

-----------------------------------------------------------------------------
(* The inspector, open on the selected node *)

Selected == {id \in DOMAIN Graph.nodes : Idle}

ejectFromRegion ==
    \E id \in Selected : Region(Graph, id) # Top /\ Change(canvas, Ejected(Graph, id))

updateSize ==
    \E id \in Selected :
        LET kind == Graph.nodes[id].kind IN
        \E size \in MinSize[kind]..MaxSize[kind] :
            kind \in {"switch", "parallel"} /\ Change(canvas, Resized(Graph, id, size))

\* A field that is not a list of ports: text, choice, expression, catalog code.
updateNodeParam == \E id \in Selected : Change(canvas, Altered(Graph))

renderField == updateSize \/ updateNodeParam

renderInspector == ejectFromRegion \/ renderField

-----------------------------------------------------------------------------
renderNodes ==
    \/ onNodePointerDown \/ onNodePointerMove \/ onNodePointerUp
    \/ onPortPointerDown \/ finishEdgeDraft

renderCanvas == onCanvasDrop \/ renderNodes

\* What the builder makes of a draft it has loaded.
Loaded(draft) ==
    LET bare == [nodes |-> [id \in DOMAIN draft.nodes |->
                              NewNode(draft.nodes[id].kind, draft.nodes[id].size)],
                 edges |-> draft.edges, rest |-> 0]
    IN  recomputeRegions([bare EXCEPT !.edges = pruneEdges(bare)])

\* No draft that is loaded has an end for an entry of a body: the canvas refuses to
\* draw such an edge, but a draft can be stored by other means than the canvas.
EndsOutside ==
    \A draft \in CanvasDrafts : \A i \in DOMAIN draft.edges :
        LET e == draft.edges[i] IN
        IsBodyEdge(draft, e) /\ Exists(draft, e.to) => draft.nodes[e.to].kind # "end"

NewCanvas(g) ==
    [graph |-> g, history |-> <<g>>, at |-> 1, draft |-> Null, drag |-> Null, edits |-> 0, torn |-> FALSE]

CanvasInit == canvas \in {NewCanvas(Loaded(draft)) : draft \in CanvasDrafts}

CanvasNext == renderCanvas \/ renderInspector \/ onKeyDown \/ doAutoArrange

CanvasSpec == CanvasInit /\ [][CanvasNext]_canvas

-----------------------------------------------------------------------------
(* Properties *)

\* Undo and redo move along what the user did: unless a node is being dragged
\* the canvas shows the graph at the history's position, through every change,
\* every branch of the history dropped, and every one shifted out.
HistoryIsCurrent ==
    (canvas.drag = Null \/ ~canvas.drag.moved) =>
        /\ canvas.at \in DOMAIN canvas.history
        /\ canvas.history[canvas.at] = Graph

\* No orphan regions: the owner of a node's region is on the canvas, still has
\* the port, and an edge from it enters the region; and no end is in one.
NoOrphans(g) ==
    \A id \in DOMAIN g.nodes : Region(g, id) # Top =>
        /\ g.nodes[id].kind # "end"
        /\ \E i \in DOMAIN g.edges :
              LET e == g.edges[i] IN
              /\ IsBodyEdge(g, e)
              /\ e.port \in ToSet(Ports(g, e.from))
              /\ regionIdForPort(e.from, e.port) = Region(g, id)
              /\ Region(g, e.to) = Region(g, id)

RegionsAreEntered == canvas.torn \/ NoOrphans(Graph)

=============================================================================
