---------------------------- MODULE CatalogForm ----------------------------
(***************************************************************************)
(* The create forms of the web console.  The code of a new entity follows  *)
(* its name until the user saves a code of his own; an agent and a channel *)
(* are created in three steps, the others on one page.  Create sends one   *)
(* POST, and the form stays usable while it is out: the fields may change  *)
(* and the steps be walked before the answer comes, if it does.            *)
(*                                                                         *)
(* A name and a code are short sequences of character classes: "a" a       *)
(* lower-case letter, "A" an upper-case one, "1" a digit, "_" itself, "'"  *)
(* a combining mark, " " anything else.  The other required fields are one *)
(* flag: filled in validly, or not.                                        *)
(***************************************************************************)
EXTENDS Naturals, Sequences, SequencesExt

CONSTANTS
    FormNames,    \* names that can be typed
    Drafts,       \* codes that can be typed
    MaxCode       \* length a code is cut to

ASSUME FormAssumption ==
    /\ FormNames \subseteq Seq({"a", "A", "1", "_", "'", " "})
    /\ Drafts \subseteq Seq({"a", "A", "1", "_", "'", " "})
    /\ MaxCode \in Nat \ {0}

VARIABLES
    form,     \* the form
    posts,    \* the POSTs that are out, in the order they were sent
    taken     \* the codes the organisation has rows for

formVars == <<form, posts, taken>>

FormKinds == {"agent", "queue", "skill", "channel", "adapter", "break_reason"}

LastStep == [kind \in FormKinds |-> IF kind \in {"agent", "channel"} THEN 2 ELSE 0]

-----------------------------------------------------------------------------
(* Codes *)

\* CODE_PATTERN: a lower-case letter, then lower-case letters, digits and "_".
IsCode(code) ==
    /\ code # <<>> /\ code[1] = "a"
    /\ \A i \in DOMAIN code : code[i] \in {"a", "1", "_"}

\* Marks are dropped, letters lowered, runs of anything else become one "_";
\* what precedes the first letter and a final "_" are cut off.
nameToCode(name) ==
    LET Plain(c) == CASE c = "A" -> "a" [] c = " " -> "_" [] OTHER -> c
        Join(code, c) ==
            CASE c = "'" -> code
              [] Plain(c) = "_" /\ (code = <<>> \/ Last(code) = "_") -> code
              [] Plain(c) = "1" /\ code = <<>> -> code
              [] OTHER -> Append(code, Plain(c))
        joined == FoldLeft(Join, <<>>, name)
        cut == IF joined # <<>> /\ Last(joined) = "_" THEN Front(joined) ELSE joined
    IN  SubSeq(cut, 1, IF Len(cut) < MaxCode THEN Len(cut) ELSE MaxCode)

-----------------------------------------------------------------------------
(* What the forms have in common *)

NewForm(kind) ==
    [kind |-> kind, step |-> 0, name |-> <<>>, code |-> <<>>, auto |-> TRUE,
     editing |-> FALSE, draft |-> <<>>, touched |-> FALSE, filled |-> FALSE,
     submitting |-> FALSE]

Sets(f) == form' = f /\ UNCHANGED <<posts, taken>>

\* The form is left; an answer still to come reaches nobody.
FormNavigate ==
    /\ form' = NewForm(form.kind)
    /\ posts' = <<>>
    /\ UNCHANGED taken

NameInput ==
    \E name \in FormNames :
        LET code == nameToCode(name)
        IN  Sets([form EXCEPT
                !.name = name,
                !.code = IF form.auto THEN code ELSE @,
                !.draft = IF form.editing /\ form.auto /\ ~form.touched THEN code ELSE @])

CodeEdit ==
    LET code == IF form.code = <<>> THEN nameToCode(form.name) ELSE form.code
    IN  /\ ~form.editing
        /\ Sets([form EXCEPT !.editing = TRUE, !.draft = code, !.touched = FALSE,
                             !.code = IF form.auto THEN code ELSE @])

CodeInput ==
    /\ form.editing
    /\ \E draft \in Drafts : Sets([form EXCEPT !.draft = draft, !.touched = TRUE])

CodeSaveStaysAuto ==
    /\ form.editing
    /\ IsCode(form.draft)
    /\ Sets([form EXCEPT !.code = form.draft, !.editing = FALSE, !.draft = <<>>,
                         !.touched = FALSE])

CodeSave ==
    /\ form.editing
    /\ IsCode(form.draft)
    /\ Sets([form EXCEPT !.code = form.draft, !.auto = FALSE, !.editing = FALSE,
                         !.draft = <<>>, !.touched = FALSE])

CodeCancel ==
    /\ form.editing
    /\ Sets([form EXCEPT !.code = IF form.auto THEN nameToCode(form.name) ELSE @,
                         !.editing = FALSE, !.draft = <<>>, !.touched = FALSE])

CodeField == CodeEdit \/ CodeInput \/ CodeSave \/ CodeCancel

FillIn == \E filled \in BOOLEAN : Sets([form EXCEPT !.filled = filled])

\* The first step is left with the code editor closed and its fields valid.
NextStep ==
    /\ form.step < LastStep[form.kind]
    /\ form.step = 0 =>
          ~form.editing /\ form.filled /\ form.name # <<>> /\ IsCode(form.code)
    /\ Sets([form EXCEPT !.step = @ + 1])

StepBack == form.step > 0 /\ Sets([form EXCEPT !.step = @ - 1])

\* A body the validator refuses takes the form to `failing'.
Submit(failing) ==
    /\ ~form.submitting
    /\ \/ /\ form.editing
          /\ Sets([form EXCEPT !.step = 0])
       \/ /\ ~form.editing
          /\ ~(form.filled /\ form.name # <<>> /\ IsCode(form.code))
          /\ Sets(failing)
       \/ /\ ~form.editing /\ form.filled /\ form.name # <<>> /\ IsCode(form.code)
          /\ form' = [form EXCEPT !.submitting = TRUE]
          /\ posts' = Append(posts, form.code)
          /\ UNCHANGED taken

\* The answer to the oldest POST: created, a duplicate code, any other refusal;
\* or none, after the row was created or not.
PostAnswered ==
    /\ posts # <<>>
    /\ LET code == Head(posts) IN
       \/ /\ code \notin taken                    \* created: on to its page
          /\ taken' = taken \cup {code}
          /\ form' = NewForm(form.kind)
          /\ posts' = <<>>
       \/ /\ code \in taken                       \* duplicate_code
          /\ form' = [form EXCEPT !.step = 0, !.submitting = FALSE]
          /\ posts' = Tail(posts)
          /\ UNCHANGED taken
       \/ /\ taken' \in {taken, taken \cup {code}}
          /\ form' = [form EXCEPT !.submitting = FALSE]
          /\ posts' = Tail(posts)

-----------------------------------------------------------------------------
(* Agents: basics, skills, review *)

AgentNameInput == NameInput
AgentCode == CodeField
AgentNext == NextStep
AgentBack == StepBack

AgentSubmit == Submit([form EXCEPT !.step = 0])

AgentBasicsStep ==
    form.step = 0 /\ (AgentNameInput \/ AgentCode \/ FillIn \/ FormNavigate \/ AgentNext)

AgentSkillsStep == form.step = 1 /\ (AgentBack \/ AgentNext)

AgentReviewStep == form.step = 2 /\ (AgentBack \/ AgentSubmit)

AgentFormScreen ==
    /\ form.kind = "agent"
    /\ FormNavigate \/ AgentBasicsStep \/ AgentSkillsStep \/ AgentReviewStep

-----------------------------------------------------------------------------
(* Channels: basics, default queue, review *)

ChannelNameInput == NameInput
ChannelCode == CodeField
ChannelNext == NextStep
ChannelBack == StepBack
ChannelSubmit == Submit(form)

ChannelBasicsStep ==
    form.step = 0 /\ (ChannelNameInput \/ ChannelCode \/ FillIn \/ FormNavigate \/ ChannelNext)

ChannelQueueStep == form.step = 1 /\ (ChannelBack \/ ChannelNext)

ChannelReviewStep == form.step = 2 /\ (ChannelBack \/ ChannelSubmit)

ChannelFormScreen ==
    /\ form.kind = "channel"
    /\ FormNavigate \/ ChannelBasicsStep \/ ChannelQueueStep \/ ChannelReviewStep

-----------------------------------------------------------------------------
(* Queues, skills, adapters and break reasons: one page *)

QueueNameInput == NameInput
QueueCode == CodeField
QueueSubmit == Submit(form)
QueueFormScreen ==
    /\ form.kind = "queue"
    /\ QueueNameInput \/ QueueCode \/ FillIn \/ FormNavigate \/ QueueSubmit

SkillNameInput == NameInput
SkillCode == CodeField
SkillSubmit == Submit(form)
SkillBasicsStep == SkillNameInput \/ SkillCode \/ FillIn \/ FormNavigate \/ SkillSubmit
SkillFormScreen == form.kind = "skill" /\ (FormNavigate \/ SkillBasicsStep)

AdapterNameInput == NameInput
AdapterCode == CodeField
AdapterSubmit == Submit(form)
AdapterBasicsStep == AdapterNameInput \/ AdapterCode \/ FillIn \/ FormNavigate \/ AdapterSubmit
AdapterFormScreen == form.kind = "adapter" /\ (FormNavigate \/ AdapterBasicsStep)

BreakReasonNameInput == NameInput
BreakReasonCode == CodeField
BreakReasonSubmit == Submit(form)
BreakReasonFormScreen ==
    /\ form.kind = "break_reason"
    /\ BreakReasonNameInput \/ BreakReasonCode \/ FillIn \/ FormNavigate \/ BreakReasonSubmit

-----------------------------------------------------------------------------
FormInit ==
    /\ form \in {NewForm(kind) : kind \in FormKinds}
    /\ posts = <<>>
    /\ taken = {}

FormUser ==
    \/ AgentFormScreen \/ ChannelFormScreen \/ QueueFormScreen
    \/ SkillFormScreen \/ AdapterFormScreen \/ BreakReasonFormScreen

FormNext == FormUser \/ PostAnswered

FormSpec == FormInit /\ [][FormNext]_formVars

-----------------------------------------------------------------------------
(* Properties *)

\* The code is the user's or the name's: until a code of his own is saved it is
\* what nameToCode makes of the name, through every edit, save and cancel of the
\* editor and every step; and past the first step, and in every POST, it is a
\* code, with no draft of it left open.
CodeIsTheUsersOrTheNames ==
    /\ form.auto => form.code = nameToCode(form.name)
    /\ form.step > 0 => IsCode(form.code) /\ ~form.editing
    /\ \A i \in DOMAIN posts : IsCode(posts[i])

=============================================================================
