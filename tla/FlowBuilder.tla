---------------------------- MODULE FlowBuilder ----------------------------
(***************************************************************************)
(* The flow builder around its canvas: it loads a draft, saves it, and has *)
(* the server validate, publish and simulate it.  The server does these on *)
(* the graph it has, so each of them saves first when the graph is dirty;  *)
(* the user goes on editing while the requests are out.                    *)
(*                                                                         *)
(* A graph is a value: what the canvas does to it is FlowCanvas.  A trace  *)
(* is its length, playback a position in it.                               *)
(***************************************************************************)
EXTENDS Integers, FiniteSets, ConsoleCommon

CONSTANTS
    Graphs,        \* graphs the canvas can show
    MaxDraft,      \* bound: version of the draft
    MaxTrace,      \* bound: steps of a trace
    MaxOut         \* bound: requests out at once

ASSUME BuilderAssumption ==
    /\ Graphs # {} /\ Null \notin Graphs /\ Null \notin [version : Nat, graph : Graphs]
    /\ {MaxDraft, MaxTrace, MaxOut} \subseteq Nat \ {0}

VARIABLES
    draft,     \* the server's row: version and graph, or Null before it is created
    builder,   \* the page
    calls      \* the requests that are out

builderVars == <<draft, builder, calls>>

\* Bound: one request of a kind, but two simulations, are out at once.
Calls == {"load", "save", "validate", "publish", "simulate", "resimulate"}
Runs == {"simulate", "resimulate"}

Ready == builder.status = "ready"
IsCreate == builder.create
Editing == Ready /\ builder.mode = "edit"
Simulating == Ready /\ builder.mode = "sim"

\* A request: the graph it is about, the version it is for, what is to follow
\* it and its answer.
Body(graph, version, then) ==
    [graph |-> graph, version |-> version, then |-> then, reply |-> Null]

Ends(c) == calls' = [calls EXCEPT ![c] = Null]

Sends(c, body) == calls' = [calls EXCEPT ![c] = body]

Requests(c, body) ==
    /\ calls[c] = Null
    /\ Cardinality({k \in Calls : calls[k] # Null}) < MaxOut
    /\ Sends(c, body)

-----------------------------------------------------------------------------
(* The page *)

NewBuilder(create) ==
    [status |-> IF create THEN "ready" ELSE "loading", create |-> create, loaded |-> Null,
     graph |-> CHOOSE g \in Graphs : TRUE, dirty |-> FALSE, saving |-> FALSE,
     validation |-> FALSE, popover |-> FALSE, publishing |-> FALSE, mode |-> "edit",
     trace |-> Null, step |-> -1, running |-> FALSE, overlapped |-> FALSE]

Loading == [c \in Calls |-> IF c = "load" THEN Body(Null, Null, "none") ELSE Null]

\* Any change of the canvas.
markDirty ==
    /\ Editing
    /\ \E g \in Graphs :
          builder' = [builder EXCEPT !.graph = g, !.validation = FALSE, !.dirty = TRUE,
                                     !.overlapped = @ \/ builder.saving]
    /\ UNCHANGED <<draft, calls>>

\* saveDraft, for its own sake or for what is to follow: nothing is sent while
\* another save is out.
saveDraft(then) ==
    /\ ~builder.saving
    /\ IsCreate \/ builder.loaded # Null
    /\ builder' = [builder EXCEPT !.saving = TRUE]
    /\ Requests("save", Body(builder.graph, IF IsCreate THEN Null ELSE builder.loaded.version, then))
    /\ UNCHANGED draft

\* What the server does with the saved draft, at once if the graph is clean.
Flushed(then, proceed) ==
    /\ ~IsCreate /\ builder.loaded # Null
    /\ \/ builder.dirty /\ saveDraft(then)
       \/ ~builder.dirty /\ proceed

validateFlow ==
    Flushed("validate",
        /\ Requests("validate", Body(Null, Null, "none"))
        /\ UNCHANGED <<draft, builder>>)

publishFlow ==
    /\ ~builder.publishing
    /\ Flushed("publish",
           /\ builder' = [builder EXCEPT !.publishing = TRUE]
           /\ Requests("publish", Body(builder.graph, builder.loaded.version, "none"))
           /\ UNCHANGED draft)

\* then: where playback lands once the trace is there.
runSimulation(then) ==
    Flushed(then,
        \E c \in Runs :
            /\ builder' = [builder EXCEPT !.running = TRUE]
            /\ Requests(c, Body(Null, Null, then))
            /\ UNCHANGED draft)

-----------------------------------------------------------------------------
(* Playback *)

Plays(b) == builder' = b /\ UNCHANGED <<draft, calls>>

Length == IF builder.trace = Null THEN 0 ELSE builder.trace

Stepped(b, delta) ==
    LET last == b.trace - 1
        to == b.step + delta
    IN  [b EXCEPT !.step = IF to > last THEN last ELSE IF to < -1 THEN -1 ELSE to]

stepBy(delta) == Plays(Stepped(builder, delta))

restartSim == Plays([builder EXCEPT !.step = -1])

runAllSim == Plays([builder EXCEPT !.step = builder.trace - 1])

runTestCase == runAllSim

toggleSimMode ==
    \/ Simulating /\ Plays([builder EXCEPT !.mode = "edit", !.trace = Null, !.step = -1])
    \/ Editing /\ runSimulation("restart")

\* A forced outcome, or an init variable once changed.
toggleNodeOutcome == runSimulation("end")

setNodeInput(then) == runSimulation(then)

\* Submit, of the step's captured value.
submitNodeInput == ~builder.running /\ setNodeInput("submit")

-----------------------------------------------------------------------------
(* What the page offers *)

renderSimControls ==
    \/ ~builder.running /\ runSimulation("restart")
    \/ builder.step >= 0 /\ stepBy(-1)
    \/ builder.step < Length - 1 /\ (stepBy(1) \/ runAllSim)
    \/ builder.step >= Length - 1 /\ restartSim

renderTestCases == runTestCase

renderSimStepCard == builder.step >= 0 /\ submitNodeInput

renderSimRunPanel == toggleNodeOutcome \/ renderSimStepCard \/ renderTestCases

renderPublishPopover ==
    /\ builder.popover
    /\ \/ Plays([builder EXCEPT !.popover = FALSE])
       \/ publishFlow

renderValidationPanel ==
    builder.validation /\ Plays([builder EXCEPT !.validation = FALSE])

\* A save that is still out may yet reach the server.
StraySave ==
    /\ calls["save"] # Null /\ calls["save"].reply = Null
    /\ calls["save"].version = draft.version /\ draft.version < MaxDraft
    /\ draft' = [version |-> draft.version + 1, graph |-> calls["save"].graph]

\* To the page of a draft.
BuilderNavigate ==
    /\ draft # Null
    /\ builder' = NewBuilder(FALSE) /\ calls' = Loading
    /\ UNCHANGED draft \/ StraySave

renderBuilder ==
    \/ BuilderNavigate
    \/ Editing /\ \/ validateFlow \/ saveDraft("none")
                  \/ Plays([builder EXCEPT !.popover = ~@])
                  \/ renderPublishPopover \/ renderValidationPanel
    \/ toggleSimMode
    \/ Simulating /\ (renderSimControls \/ renderSimRunPanel)

-----------------------------------------------------------------------------
(* The server *)

Out(c) == calls[c] # Null /\ calls[c].reply = Null

Responds(c, ok, row) ==
    /\ Sends(c, [calls[c] EXCEPT !.reply = [ok |-> ok, draft |-> row]])
    /\ UNCHANGED builder

HandleLoad ==
    /\ Out("load") /\ draft # Null
    /\ Responds("load", TRUE, draft)
    /\ UNCHANGED draft

HandleSave ==
    /\ Out("save")
    /\ LET save == calls["save"]
           version == IF draft = Null THEN 0 ELSE draft.version
       IN  \/ /\ IF save.version = Null THEN draft = Null ELSE save.version = version
              /\ version < MaxDraft
              /\ draft' = [version |-> version + 1, graph |-> save.graph]
              /\ \/ Responds("save", TRUE, draft')
                 \/ Responds("save", FALSE, Null)
           \/ /\ save.version # Null /\ save.version # version
              /\ Responds("save", FALSE, Null)
              /\ UNCHANGED draft

HandlePublishOfAny ==
    /\ Out("publish")
    /\ Responds("publish", TRUE, draft)
    /\ UNCHANGED draft

\* Publish is refused for a version that is not the draft's.
HandlePublish ==
    /\ Out("publish")
    /\ calls["publish"].version = draft.version
    /\ Responds("publish", TRUE, draft)
    /\ UNCHANGED draft

HandleValidate ==
    /\ Out("validate")
    /\ Responds("validate", TRUE, Null)
    /\ UNCHANGED draft

HandleSimulate ==
    /\ \E c \in Runs : Out(c) /\ Responds(c, TRUE, Null)
    /\ UNCHANGED draft

\* Refused, or failed on the way.
HandleFailure ==
    /\ \E c \in Calls : Out(c) /\ Responds(c, FALSE, Null)
    /\ UNCHANGED draft

OtherEditor ==
    /\ draft # Null /\ draft.version < MaxDraft
    /\ \E g \in Graphs : draft' = [version |-> draft.version + 1, graph |-> g]
    /\ UNCHANGED <<builder, calls>>

Server ==
    \/ HandleLoad \/ HandleSave \/ HandlePublish \/ HandleValidate \/ HandleSimulate
    \/ HandleFailure \/ OtherEditor

-----------------------------------------------------------------------------
(* Answers *)

Heard(c) == calls[c] # Null /\ calls[c].reply # Null /\ UNCHANGED draft

Ok(c) == calls[c].reply.ok

loadTask ==
    /\ Heard("load") /\ Ends("load")
    /\ LET reply == calls["load"].reply.draft IN
       builder' = IF Ok("load")
                  THEN [NewBuilder(FALSE) EXCEPT !.status = "ready", !.loaded = reply,
                                                 !.graph = reply.graph]
                  ELSE [builder EXCEPT !.status = "failed"]

Retry ==
    /\ builder.status = "failed"
    /\ builder' = NewBuilder(FALSE)
    /\ calls' = Loading
    /\ UNCHANGED draft

\* A created flow is loaded afresh; a saved one is clean, and what the save was
\* for goes on.  A refused save leaves the graph dirty, and ends it.
draftSaved ==
    /\ Heard("save")
    /\ LET save == calls["save"]
           clean == [builder EXCEPT !.saving = FALSE, !.loaded = save.reply.draft,
                                    !.validation = FALSE, !.dirty = FALSE]
           follow(c, version) ==
               /\ calls[c] = Null
               /\ calls' = [calls EXCEPT !["save"] = Null,
                                         ![c] = Body(save.graph, version, save.then)]
       IN  \/ ~Ok("save") /\ builder' = [builder EXCEPT !.saving = FALSE] /\ Ends("save")
           \/ /\ Ok("save") /\ IsCreate
              /\ builder' = NewBuilder(FALSE)
              /\ calls' = Loading
           \/ /\ Ok("save") /\ ~IsCreate /\ save.then = "none"
              /\ builder' = clean /\ Ends("save")
           \/ /\ Ok("save") /\ ~IsCreate /\ save.then = "validate"
              /\ builder' = clean /\ follow("validate", Null)
           \/ /\ Ok("save") /\ ~IsCreate /\ save.then = "publish"
              /\ builder' = [clean EXCEPT !.publishing = TRUE]
              /\ follow("publish", clean.loaded.version)
           \/ /\ Ok("save") /\ ~IsCreate /\ save.then \in {"restart", "end", "submit"}
              /\ builder' = [clean EXCEPT !.running = TRUE]
              /\ \E c \in Runs : follow(c, Null)

flowValidated ==
    /\ Heard("validate") /\ Ends("validate")
    /\ builder' = IF Ok("validate")
                  THEN [builder EXCEPT !.validation = TRUE] ELSE builder

flowPublished ==
    /\ Heard("publish") /\ Ends("publish")
    /\ builder' = IF Ok("publish")
                  THEN [builder EXCEPT !.publishing = FALSE, !.popover = FALSE,
                                       !.validation = TRUE]
                  ELSE [builder EXCEPT !.publishing = FALSE]

\* The trace comes in; then a submitted value's step is found in it, if it is
\* there, and left by one.
simulated(c) ==
    /\ Heard(c) /\ Ends(c)
    /\ \E n \in 1..MaxTrace :
       LET run == calls[c]
           landed == IF run.then = "restart" THEN -1 ELSE n - 1
           played == IF Ok(c) THEN [builder EXCEPT !.mode = "sim", !.trace = n,
                                                   !.step = landed, !.running = FALSE]
                     ELSE [builder EXCEPT !.running = FALSE]
       IN  \/ run.then # "submit" /\ builder' = played
           \/ run.then = "submit" /\ played.trace = Null /\ builder' = played
           \/ /\ run.then = "submit" /\ played.trace # Null
              /\ \E at \in {played.step} \cup 0..(played.trace - 1) :
                    builder' = Stepped([played EXCEPT !.step = at], 1)

Answers ==
    \/ loadTask \/ draftSaved \/ flowValidated \/ flowPublished
    \/ \E c \in Runs : simulated(c)

-----------------------------------------------------------------------------
BuilderInit ==
    \/ /\ draft \in [version : {1}, graph : Graphs]
       /\ builder = NewBuilder(FALSE)
       /\ calls = Loading
    \/ /\ draft = Null
       /\ builder = NewBuilder(TRUE)
       /\ calls = [c \in Calls |-> Null]

BuilderNext ==
    \/ markDirty
    \/ Ready /\ renderBuilder
    \/ Retry
    \/ Server
    \/ Answers

BuilderSpec == BuilderInit /\ [][BuilderNext]_builderVars

-----------------------------------------------------------------------------
(* Properties *)

\* What a publish puts live is the graph that was on the screen when Publish
\* was pressed, and no other editor's, through the save it may start, the time
\* both are out and whatever is edited meanwhile; unless the user has edited
\* while a save was out, which loses the dirty mark.
PublishedIsWhatWasShown ==
    calls["publish"] # Null /\ calls["publish"].reply # Null /\ Ok("publish")
    /\ ~builder.overlapped => calls["publish"].reply.draft.graph = calls["publish"].graph

=============================================================================
