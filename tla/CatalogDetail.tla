--------------------------- MODULE CatalogDetail ---------------------------
(***************************************************************************)
(* The detail pages of the web console: one page per catalog entity, open  *)
(* on one row that other editors change and delete meanwhile.  A delete    *)
(* only switches the row off: a load no longer finds it, a save still does.*)
(*                                                                         *)
(* A page loads its row, lets the user edit a form, and saves it with the  *)
(* version it last received; the server refuses a version that is not the  *)
(* row's.  Enable, Disable and Delete are requests of their own and do not *)
(* wait for a save, so up to Slots requests are out at once, are handled   *)
(* in any order, and are answered in any order or never.                   *)
(*                                                                         *)
(* A row's content is a name (which stands for every field saved the same  *)
(* way), the enabled flag, and the one field a page treats differently:    *)
(* an agent's skills, a channel's default queue, an adapter's config.  The *)
(* render functions appear as what they offer: a screen is the disjunction *)
(* of its cards, a card of its controls.  Client-side validation, which    *)
(* stops a save and changes nothing else here, and messages are left out;  *)
(* the cache between a load and its row is CatalogAPI's.                   *)
(***************************************************************************)
EXTENDS Naturals, ConsoleCommon

CONSTANTS
    Names,       \* values of the plain fields, by kind of page
    Slots,       \* bound: requests a page has out at once
    MaxVersion   \* bound: version of the row, by kind of page

ASSUME DetailAssumption ==
    /\ \A kind \in DOMAIN Names : Names[kind] # {} /\ Null \notin Names[kind]
    /\ Slots # {}
    /\ MaxVersion \in [DOMAIN Names -> Nat \ {0}]

VARIABLES
    row,    \* the server's row: version and content
    page,   \* the page
    wire    \* the requests that are out, by slot: Null, or the request

detailVars == <<row, page, wire>>

-----------------------------------------------------------------------------
(* The forms: the fields of each page, and what the third one can hold *)

Flags == {"on", "off"}
Invalid == "not json"     \* text typed into an adapter's config

AgentForm == {"no skill", "skill"}     \* _assignedSkills, kept outside _form
QueueForm == {"-"}
SkillForm == {"-"}
ChannelForm == {"none", "queue"}       \* default_queue_id, nullable
AdapterForm == {"none", "config"}      \* config, nullable; edited as text
BreakReasonForm == {"-"}

Extras == [agent |-> AgentForm, queue |-> QueueForm, skill |-> SkillForm,
           channel |-> ChannelForm, adapter |-> AdapterForm,
           break_reason |-> BreakReasonForm]

DetailKinds == DOMAIN Extras

Contents(kind) == [name : Names[kind], enabled : Flags, extra : Extras[kind]]

\* The row, what is sent, the answer to it, and the request that is out.
DetailRow(kind) == [version : Nat, content : Contents(kind)]

DetailBody(kind) ==
    [name : Names[kind] \cup {Null}, enabled : Flags \cup {Null}, extra : Extras[kind] \cup {Null}]

Refused == [kind |-> "error"]

DetailReply(kind) == [kind : {"ok", "conflict"}, row : DetailRow(kind)] \cup {Refused}

DetailRequest(kind) ==
    [op : {"load", "save", "enable", "disable", "delete"}, base : Nat \cup {Null},
     body : DetailBody(kind), reply : DetailReply(kind) \cup {Null}, stray : BOOLEAN]

ASSUME FieldsAssumption ==
    /\ DetailKinds \subseteq DOMAIN Names
    /\ Null \notin Flags
    /\ \A kind \in DetailKinds :
          Null \notin Extras[kind] \cup DetailReply(kind) \cup DetailRequest(kind)

-----------------------------------------------------------------------------
(* Requests *)

FreeSlots == {s \in Slots : wire[s] = Null}
OwnWrites == {s \in Slots : wire[s] # Null /\ wire[s].op # "load"}

NewRequest(op, base, body) ==
    [op |-> op, base |-> base, body |-> body, reply |-> Null, stray |-> FALSE]

\* A request of the page; `overlapped' notes that a write was out when another
\* was sent or the form was reset, `excused' that something else made the page's
\* snapshot stale.
Request(op, base, body) ==
    /\ \E s \in FreeSlots : wire' = [wire EXCEPT ![s] = NewRequest(op, base, body)]
    /\ UNCHANGED row

Overlaps == IF OwnWrites = {} THEN page
            ELSE [page EXCEPT !.overlapped = TRUE, !.excused = TRUE]

NoBody == [name |-> Null, enabled |-> Null, extra |-> Null]

FlagBody(flag) == [NoBody EXCEPT !.enabled = flag]

\* connectedCallback: the page is opened, for the first time or again.
NewPage(kind, overlapped) ==
    [kind |-> kind, state |-> "loading", entity |-> Null, form |-> Null,
     dirty |-> FALSE, saving |-> FALSE, banner |-> Null,
     excused |-> overlapped, overlapped |-> overlapped]

LeftPage == [NewPage(page.kind, FALSE) EXCEPT !.state = "left"]

\* The user goes elsewhere.  What the server has yet to handle it still will;
\* the answer goes to an element that is no longer in the document.
Strays == [s \in Slots |-> IF s \in OwnWrites /\ wire[s].reply = Null
                           THEN [wire[s] EXCEPT !.stray = TRUE] ELSE Null]

DetailNavigate == page' = LeftPage /\ wire' = Strays /\ UNCHANGED row

-----------------------------------------------------------------------------
(* The server *)

PatchedUnlessOff(content, body) ==
    [f \in DOMAIN content |-> IF body[f] \in {Null, "off"} THEN content[f] ELSE body[f]]

\* COALESCE(argument, column): an argument that is absent or null keeps it.
Patched(content, body) ==
    [f \in DOMAIN content |-> IF body[f] = Null THEN content[f] ELSE body[f]]

Reply(s, reply) ==
    wire' = [wire EXCEPT ![s] = IF @.stray THEN Null ELSE [@ EXCEPT !.reply = reply]]

ServeLoad(s) ==
    /\ wire[s].op = "load"
    /\ row.content.enabled = "on"
    /\ Reply(s, [kind |-> "ok", row |-> row])
    /\ UNCHANGED row

\* A patched agent's skills are read again after the commit: by then they are
\* another's, or cannot be read and come as none.  A conflict carries none.
AgentRead(r) ==
    IF page.kind = "agent" THEN {[r EXCEPT !.content.extra = x] : x \in AgentForm} ELSE {r}

AgentBare(r) ==
    IF page.kind = "agent" THEN [r EXCEPT !.content.extra = "no skill"] ELSE r

ServePatch(s) ==
    /\ wire[s].op \in {"save", "enable", "disable"}
    /\ \/ /\ wire[s].base = row.version
          /\ row.version < MaxVersion[page.kind]
          /\ row' = [version |-> row.version + 1,
                     content |-> Patched(row.content, wire[s].body)]
          /\ \E read \in AgentRead(row') : Reply(s, [kind |-> "ok", row |-> read])
       \/ /\ wire[s].base # row.version
          /\ Reply(s, [kind |-> "conflict", row |-> AgentBare(row)])
          /\ UNCHANGED row

\* The row stays, with its version.
SwitchedOff ==
    /\ row.content.enabled = "on"
    /\ row' = [row EXCEPT !.content.enabled = "off"]

ServeDelete(s) ==
    /\ wire[s].op = "delete"
    /\ SwitchedOff
    /\ Reply(s, [kind |-> "ok", row |-> row])

\* The row is switched off already, a value is refused, the server fails.
ServeRefusal(s) == Reply(s, Refused) /\ UNCHANGED row

Serve(s) ==
    /\ wire[s] # Null /\ wire[s].reply = Null
    /\ ServeLoad(s) \/ ServePatch(s) \/ ServeDelete(s) \/ ServeRefusal(s)
    /\ UNCHANGED page

OtherEditorSaves ==
    /\ row.version < MaxVersion[page.kind]
    /\ \E c \in Contents(page.kind) \ {row.content} :
          row' = [version |-> row.version + 1, content |-> c]
    /\ page' = [page EXCEPT !.excused = TRUE]
    /\ UNCHANGED wire

OtherEditorDeletes ==
    /\ SwitchedOff
    /\ UNCHANGED <<page, wire>>

-----------------------------------------------------------------------------
(* What the pages have in common *)

On(kind) == page.kind = kind /\ page.state = "ready"

\* _markDirty: an edit also takes the conflict banner down.
DetailEdit(f, v) ==
    /\ page' = [page EXCEPT !.form[f] = v, !.dirty = TRUE, !.banner = Null]
    /\ UNCHANGED <<row, wire>>

Save(body) ==
    /\ page.dirty /\ ~page.saving
    /\ Request("save", page.entity.version, body)
    /\ page' = [Overlaps EXCEPT !.saving = TRUE]

SetFlag(op, flag) ==
    /\ Request(op, page.entity.version, FlagBody(flag))
    /\ page' = Overlaps

\* The dialog, whose opening and closing is left out, wants the name of the
\* entity now held, and gets it.
Delete ==
    /\ Request("delete", Null, NoBody)
    /\ page' = Overlaps

\* Cancel: leave a clean page, reset a dirty one to `form'.
Cancel(form) ==
    \/ ~page.dirty /\ DetailNavigate
    \/ /\ page.dirty
       /\ page' = [Overlaps EXCEPT !.form = form, !.dirty = FALSE]
       /\ UNCHANGED <<row, wire>>

DiscardKeepsTheForm(entity, form) ==
    /\ page' = [Overlaps EXCEPT !.entity = entity, !.dirty = FALSE, !.banner = Null]
    /\ UNCHANGED <<row, wire>>

Discard(entity, form) ==
    /\ page' = [Overlaps EXCEPT !.entity = entity, !.form = form, !.dirty = FALSE,
                                !.banner = Null]
    /\ UNCHANGED <<row, wire>>

Review(entity) ==
    /\ page' = [page EXCEPT !.entity = entity, !.banner = Null]
    /\ UNCHANGED <<row, wire>>

Header(enable, disable) ==
    \/ DetailNavigate
    \/ page.entity.content.enabled = "on" /\ disable
    \/ page.entity.content.enabled = "off" /\ enable

-----------------------------------------------------------------------------
(* Answers *)

Answer(s) == wire[s].reply

Arrives(s, op) ==
    /\ wire[s] # Null /\ wire[s].op = op /\ ~wire[s].stray /\ Answer(s) # Null
    /\ UNCHANGED row

Settled(s) == wire' = [wire EXCEPT ![s] = Null]

\* The snapshot the page takes in is the row as it is, and nothing of the
\* page's own is about to change it.
Outdated(s) == Answer(s).row.version # row.version \/ OwnWrites \ {s} # {}

TakesButTheVersion(s, p) ==
    [p EXCEPT !.entity = [Answer(s).row EXCEPT
                             !.version = IF p.entity = Null THEN @ ELSE p.entity.version],
              !.excused = page.overlapped \/ Outdated(s)]

Takes(s, p) == [p EXCEPT !.entity = Answer(s).row, !.excused = page.overlapped \/ Outdated(s)]

Filled(s, p) == [Takes(s, p) EXCEPT !.form = Answer(s).row.content, !.dirty = FALSE]

LoadAnswered(s) ==
    /\ Arrives(s, "load") /\ Settled(s)
    /\ \/ /\ Answer(s).kind = "ok"
          /\ page' = [Filled(s, page) EXCEPT !.state = "ready"]
       \/ /\ Answer(s).kind = "error"
          /\ page' = [page EXCEPT !.state = "failed"]

\* conflicted: the page after a 409, which carries the row the server has.
SaveAnswered(s, conflicted) ==
    /\ Arrives(s, "save") /\ Settled(s)
    /\ \/ /\ Answer(s).kind = "ok"
          /\ page' = [Filled(s, page) EXCEPT !.saving = FALSE, !.banner = Null]
       \/ /\ Answer(s).kind = "conflict"
          /\ page' = [conflicted EXCEPT !.saving = FALSE]
       \/ /\ Answer(s).kind = "error"
          /\ page' = [page EXCEPT !.saving = FALSE]

FlagRefills(s, op, flag) ==
    /\ Arrives(s, op) /\ Settled(s)
    /\ page' = IF Answer(s).kind = "ok" THEN Filled(s, page) ELSE page

\* A refused Enable or Disable changes nothing.
FlagAnswered(s, op, flag) ==
    /\ Arrives(s, op) /\ Settled(s)
    /\ \/ /\ Answer(s).kind = "ok"
          /\ page' = [Takes(s, page) EXCEPT !.form.enabled = flag]
       \/ /\ Answer(s).kind # "ok"
          /\ UNCHANGED page

DeleteAnswered(s) ==
    /\ Arrives(s, "delete")
    /\ \/ /\ Answer(s).kind = "ok"
          /\ page' = LeftPage
          /\ wire' = [Strays EXCEPT ![s] = Null]
       \/ /\ Answer(s).kind = "error"
          /\ Settled(s)
          /\ UNCHANGED page

\* The request fails in transit, before or after the server has handled it.
Lost(s) ==
    /\ wire[s] # Null /\ ~wire[s].stray /\ Settled(s)
    /\ page' = [page EXCEPT
          !.state = IF wire[s].op = "load" THEN "blank" ELSE @,
          !.saving = IF wire[s].op = "save" THEN FALSE ELSE @,
          !.excused = TRUE]
    /\ UNCHANGED row

Connected ==
    /\ page.state = "left"
    /\ Request("load", Null, NoBody)
    /\ page' = NewPage(page.kind, OwnWrites # {})

-----------------------------------------------------------------------------
(* How a form is reset, and what a 409 does *)

Whole == page.entity.content

\* Cancel and Discard put the agent's fields back, and leave the skills.
ButSkills == [page.entity.content EXCEPT !.extra = page.form.extra]

\* The banner shows the server's row and the page saves over it next.
Adopted(s) == [Takes(s, page) EXCEPT !.banner = Answer(s).row]

\* The banner shows it; the page keeps the version it had.
OnlyShown(s) == [page EXCEPT !.banner = Answer(s).row]

\* An empty nullable field is sent as null.
NullWhenEmpty == [page.form EXCEPT !.extra = IF @ = "none" THEN Null ELSE @]

-----------------------------------------------------------------------------
(* Agents *)

AgentConnected == page.kind = "agent" /\ Connected

AgentLoaded(s) == page.kind = "agent" /\ LoadAnswered(s)

AgentSave == Save(page.form)

AgentSaveAnswered(s) == page.kind = "agent" /\ SaveAnswered(s, Adopted(s))

AgentEnable == SetFlag("enable", "on")

AgentEnableAnswered(s) == page.kind = "agent" /\ FlagAnswered(s, "enable", "on")

AgentDisable == SetFlag("disable", "off")

AgentDisableAnswered(s) == page.kind = "agent" /\ FlagAnswered(s, "disable", "off")

AgentDeleteAnswered(s) == page.kind = "agent" /\ DeleteAnswered(s)

AgentHeader == Header(AgentEnable, AgentDisable)

AgentAcknowledged == Discard(page.entity, ButSkills) \/ Review(page.entity)

AgentBanner == page.banner # Null /\ AgentAcknowledged

AgentIdentity == \E n \in Names[page.kind] : DetailEdit("name", n)

AgentSkills == \E x \in AgentForm : DetailEdit("extra", x)

AgentStatus == \E v \in Flags : DetailEdit("enabled", v)

AgentFormActions == Cancel(ButSkills) \/ AgentSave

AgentDeleteDialog == Delete

AgentScreen ==
    /\ On("agent")
    /\ \/ AgentHeader \/ AgentBanner \/ AgentIdentity \/ AgentSkills
       \/ AgentStatus \/ AgentFormActions \/ AgentDeleteDialog

AgentAnswered(s) ==
    \/ AgentLoaded(s) \/ AgentSaveAnswered(s) \/ AgentEnableAnswered(s)
    \/ AgentDisableAnswered(s) \/ AgentDeleteAnswered(s)

-----------------------------------------------------------------------------
(* Queues *)

QueueConnected == page.kind = "queue" /\ Connected

QueueLoaded(s) == page.kind = "queue" /\ LoadAnswered(s)

QueueSave == Save(page.form)

QueueSaveAnswered(s) == page.kind = "queue" /\ SaveAnswered(s, Adopted(s))

QueueEnable == SetFlag("enable", "on")

QueueEnableAnswered(s) == page.kind = "queue" /\ FlagAnswered(s, "enable", "on")

QueueDisable == SetFlag("disable", "off")

QueueDisableAnswered(s) == page.kind = "queue" /\ FlagAnswered(s, "disable", "off")

QueueDeleteAnswered(s) == page.kind = "queue" /\ DeleteAnswered(s)

QueueHeader == Header(QueueEnable, QueueDisable)

QueueAcknowledged == Discard(page.entity, Whole) \/ Review(page.entity)

QueueBanner == page.banner # Null /\ QueueAcknowledged

QueueIdentity == \E n \in Names[page.kind] : DetailEdit("name", n)

QueueStatus == \E v \in Flags : DetailEdit("enabled", v)

QueueFormActions == Cancel(Whole) \/ QueueSave

QueueDeleteDialog == Delete

QueueScreen ==
    /\ On("queue")
    /\ \/ QueueHeader \/ QueueBanner \/ QueueIdentity
       \/ QueueStatus \/ QueueFormActions \/ QueueDeleteDialog

QueueAnswered(s) ==
    \/ QueueLoaded(s) \/ QueueSaveAnswered(s) \/ QueueEnableAnswered(s)
    \/ QueueDisableAnswered(s) \/ QueueDeleteAnswered(s)

-----------------------------------------------------------------------------
(* Skills *)

SkillConnected == page.kind = "skill" /\ Connected

SkillLoaded(s) == page.kind = "skill" /\ LoadAnswered(s)

SkillSave == Save(page.form)

SkillSaveAnswered(s) == page.kind = "skill" /\ SaveAnswered(s, Adopted(s))

SkillEnable == SetFlag("enable", "on")

SkillEnableAnswered(s) == page.kind = "skill" /\ FlagAnswered(s, "enable", "on")

SkillDisable == SetFlag("disable", "off")

SkillDisableAnswered(s) == page.kind = "skill" /\ FlagAnswered(s, "disable", "off")

SkillDeleteAnswered(s) == page.kind = "skill" /\ DeleteAnswered(s)

SkillHeader == Header(SkillEnable, SkillDisable)

SkillAcknowledged ==
    \/ Discard(page.banner, page.banner.content)
    \/ Review([page.entity EXCEPT !.version = page.banner.version])

SkillBanner == page.banner # Null /\ SkillAcknowledged

SkillIdentity == \E n \in Names[page.kind] : DetailEdit("name", n)

SkillStatus == \E v \in Flags : DetailEdit("enabled", v)

SkillFormActions == Cancel(Whole) \/ SkillSave

SkillDeleteDialog == Delete

SkillScreen ==
    /\ On("skill")
    /\ \/ SkillHeader \/ SkillBanner \/ SkillIdentity
       \/ SkillStatus \/ SkillFormActions \/ SkillDeleteDialog

SkillAnswered(s) ==
    \/ SkillLoaded(s) \/ SkillSaveAnswered(s) \/ SkillEnableAnswered(s)
    \/ SkillDisableAnswered(s) \/ SkillDeleteAnswered(s)

-----------------------------------------------------------------------------
(* Channels *)

ChannelConnected == page.kind = "channel" /\ Connected

ChannelLoaded(s) == page.kind = "channel" /\ LoadAnswered(s)

ChannelSave == Save(NullWhenEmpty)

ChannelSaveAnswered(s) == page.kind = "channel" /\ SaveAnswered(s, Adopted(s))

ChannelEnable == SetFlag("enable", "on")

ChannelEnableAnswered(s) == page.kind = "channel" /\ FlagAnswered(s, "enable", "on")

ChannelDisable == SetFlag("disable", "off")

ChannelDisableAnswered(s) == page.kind = "channel" /\ FlagAnswered(s, "disable", "off")

ChannelDeleteAnswered(s) == page.kind = "channel" /\ DeleteAnswered(s)

ChannelHeader == Header(ChannelEnable, ChannelDisable)

ChannelAcknowledged == Discard(page.entity, Whole) \/ Review(page.entity)

ChannelBanner == page.banner # Null /\ ChannelAcknowledged

ChannelIdentity == \E n \in Names[page.kind] : DetailEdit("name", n)

ChannelQueue == \E x \in ChannelForm : DetailEdit("extra", x)

ChannelStatus == \E v \in Flags : DetailEdit("enabled", v)

ChannelFormActions == Cancel(Whole) \/ ChannelSave

ChannelDeleteDialog == Delete

ChannelScreen ==
    /\ On("channel")
    /\ \/ ChannelHeader \/ ChannelBanner \/ ChannelIdentity \/ ChannelQueue
       \/ ChannelStatus \/ ChannelFormActions \/ ChannelDeleteDialog

ChannelAnswered(s) ==
    \/ ChannelLoaded(s) \/ ChannelSaveAnswered(s) \/ ChannelEnableAnswered(s)
    \/ ChannelDisableAnswered(s) \/ ChannelDeleteAnswered(s)

-----------------------------------------------------------------------------
(* Adapters *)

AdapterConnected == page.kind = "adapter" /\ Connected

AdapterLoaded(s) == page.kind = "adapter" /\ LoadAnswered(s)

AdapterSave == page.form.extra # Invalid /\ Save(NullWhenEmpty)

AdapterSaveAnswered(s) == page.kind = "adapter" /\ SaveAnswered(s, Adopted(s))

AdapterEnable == SetFlag("enable", "on")

AdapterEnableAnswered(s) == page.kind = "adapter" /\ FlagAnswered(s, "enable", "on")

AdapterDisable == SetFlag("disable", "off")

AdapterDisableAnswered(s) == page.kind = "adapter" /\ FlagAnswered(s, "disable", "off")

AdapterDeleteAnswered(s) == page.kind = "adapter" /\ DeleteAnswered(s)

AdapterHeader == Header(AdapterEnable, AdapterDisable)

AdapterAcknowledged == Discard(page.entity, Whole) \/ Review(page.entity)

AdapterBanner == page.banner # Null /\ AdapterAcknowledged

AdapterIdentity == \E n \in Names[page.kind] : DetailEdit("name", n)

\* Text that is not JSON raises _configError.
AdapterConfig ==
    \E x \in AdapterForm \cup {Invalid} : DetailEdit("extra", x)

AdapterStatus == \E v \in Flags : DetailEdit("enabled", v)

AdapterFormActions == Cancel(Whole) \/ AdapterSave

AdapterDeleteDialog == Delete

AdapterScreen ==
    /\ On("adapter")
    /\ \/ AdapterHeader \/ AdapterBanner \/ AdapterIdentity \/ AdapterConfig
       \/ AdapterStatus \/ AdapterFormActions \/ AdapterDeleteDialog

AdapterAnswered(s) ==
    \/ AdapterLoaded(s) \/ AdapterSaveAnswered(s) \/ AdapterEnableAnswered(s)
    \/ AdapterDisableAnswered(s) \/ AdapterDeleteAnswered(s)

-----------------------------------------------------------------------------
(* Break reasons *)

BreakReasonConnected == page.kind = "break_reason" /\ Connected

BreakReasonLoaded(s) == page.kind = "break_reason" /\ LoadAnswered(s)

BreakReasonSave == Save(page.form)

BreakReasonSaveAnswered(s) == page.kind = "break_reason" /\ SaveAnswered(s, OnlyShown(s))

BreakReasonEnable == SetFlag("enable", "on")

BreakReasonEnableAnswered(s) == page.kind = "break_reason" /\ FlagAnswered(s, "enable", "on")

BreakReasonDisable == SetFlag("disable", "off")

BreakReasonDisableAnswered(s) == page.kind = "break_reason" /\ FlagAnswered(s, "disable", "off")

BreakReasonDeleteAnswered(s) == page.kind = "break_reason" /\ DeleteAnswered(s)

BreakReasonHeader == Header(BreakReasonEnable, BreakReasonDisable)

BreakReasonAcknowledged ==
    \/ Discard(page.banner, page.banner.content)
    \/ Review(page.banner)

BreakReasonBanner == page.banner # Null /\ BreakReasonAcknowledged

BreakReasonIdentity == \E n \in Names[page.kind] : DetailEdit("name", n)

BreakReasonStatus == \E v \in Flags : DetailEdit("enabled", v)

BreakReasonFormActions == Cancel(Whole) \/ BreakReasonSave

BreakReasonDeleteDialog == Delete

BreakReasonScreen ==
    /\ On("break_reason")
    /\ \/ BreakReasonHeader \/ BreakReasonBanner \/ BreakReasonIdentity
       \/ BreakReasonStatus \/ BreakReasonFormActions \/ BreakReasonDeleteDialog

BreakReasonAnswered(s) ==
    \/ BreakReasonLoaded(s) \/ BreakReasonSaveAnswered(s) \/ BreakReasonEnableAnswered(s)
    \/ BreakReasonDisableAnswered(s) \/ BreakReasonDeleteAnswered(s)

-----------------------------------------------------------------------------
\* The sidebar is there whatever the page shows.
SidebarLeave == page.state # "left" /\ DetailNavigate

FirstRow(kind) == [version : {1}, content :
    [name : {CHOOSE n \in Names[kind] : TRUE}, enabled : {"on"}, extra : Extras[kind]]]

DetailInit ==
    /\ page \in {NewPage(kind, FALSE) : kind \in DetailKinds}
    /\ row \in FirstRow(page.kind)
    /\ \E first \in Slots :
          wire = [s \in Slots |-> IF s = first THEN NewRequest("load", Null, NoBody) ELSE Null]

DetailUser ==
    \/ AgentScreen \/ QueueScreen \/ SkillScreen
    \/ ChannelScreen \/ AdapterScreen \/ BreakReasonScreen
    \/ AgentConnected \/ QueueConnected \/ SkillConnected
    \/ ChannelConnected \/ AdapterConnected \/ BreakReasonConnected
    \/ SidebarLeave

DetailAnswered(s) ==
    \/ AgentAnswered(s) \/ QueueAnswered(s) \/ SkillAnswered(s)
    \/ ChannelAnswered(s) \/ AdapterAnswered(s) \/ BreakReasonAnswered(s)

DetailNext ==
    \/ DetailUser
    \/ \E s \in Slots : Serve(s) \/ DetailAnswered(s) \/ Lost(s)
    \/ OtherEditorSaves
    \/ OtherEditorDeletes

-----------------------------------------------------------------------------
(* Properties *)

Quiet == page.state = "ready" /\ OwnWrites = {} /\ ~page.overlapped

\* The request in slot s is answered, or lost, while the page stays open.
Settling(s) ==
    /\ wire[s] # Null /\ ~wire[s].stray /\ wire'[s] = Null
    /\ page.state = "ready" /\ page'.state = "ready"

Accepted(s) == Answer(s) # Null /\ Answer(s).kind = "ok"

SameFields(fields) == \A f \in fields : page'.form[f] = page.form[f]

\* What the user has typed is replaced only by the answer to an accepted save:
\* a conflict, a refusal, a lost answer and an accepted Enable or Disable (but
\* for the flag it sets) leave the form and its dirty mark alone.
AnswersKeepEdits ==
    [][\A s \in Slots : Settling(s) =>
          IF wire[s].op = "save"
          THEN Accepted(s) \/ (page'.dirty = page.dirty /\ SameFields({"name", "enabled", "extra"}))
          ELSE page'.dirty = page.dirty /\ SameFields({"name", "extra"})]_detailVars

\* A page that is not dirty shows the entity it holds: whatever mix of edits,
\* saves, conflicts, toggles, cancels and discards led there, as long as no two
\* of its writes overlapped.  An agent's skills are outside: see ButSkills.
CleanMeansShown ==
    Quiet /\ ~page.dirty /\ page.kind # "break_reason" =>
        /\ page.form.name = page.entity.content.name
        /\ page.form.enabled = page.entity.content.enabled
        /\ page.kind # "agent" => page.form.extra = page.entity.content.extra

\* A page is refused for its version only after somebody else changed the row:
\* unless another editor, a lost answer or two overlapping writes came between,
\* the version it will save with is the row's.  Skill and break reason pages
\* are outside: Review can take their entity back to an older row.
ConflictMeansChange ==
    Quiet /\ ~page.excused /\ page.kind \notin {"skill", "break_reason"} =>
        page.entity.version = row.version

\* An accepted save of the form as it stands gives the form back unchanged:
\* "Saved" means the row holds what the user sees.  Channel and adapter pages
\* are outside: a nullable field that was cleared is kept by the server.  So are
\* an agent's skills, which are read again after the save.
SavedIsStored ==
    [][\A s \in Slots :
        /\ Settling(s) /\ wire[s].op = "save" /\ Accepted(s)
        /\ page.kind \notin {"channel", "adapter"} /\ ~page'.dirty
        /\ wire[s].body = page.form
        => SameFields({"name", "enabled"} \cup (IF page.kind = "agent" THEN {} ELSE {"extra"}))
      ]_detailVars

DetailSpec == DetailInit /\ [][DetailNext]_detailVars

=============================================================================
