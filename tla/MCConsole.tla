------------------------------ MODULE MCConsole ------------------------------
(* The console's other screens and the shell around them: one of them is
   explored, chosen at the start, and the others stand still. *)
EXTENDS AgentStatus, FlowBuilder, FlowCanvas, ConditionField, RouteTester, CatalogShell, TLC

CONSTANTS Screens, s1, s2

VARIABLE screen

consoleVars == <<screen, statusVars, builderVars, canvas, field, testerVars, shellVars>>

\* What tells the requests of a screen apart that are out at once.
RequestSymmetry == Permutations({s1, s2})

-----------------------------------------------------------------------------
OfKind(kind, size) == [kind |-> kind, size |-> size]

\* A loop and a parallel whose second branch is entered; an edge in each from a
\* port its source has not.
StoredDrafts ==
    {[nodes |-> [l |-> OfKind("loop", 0), a |-> OfKind("plain", 0), e |-> OfKind("end", 0)],
      edges |-> <<Edge("l", "body", "a"), Edge("l", "old", "e")>>],
     [nodes |-> [l |-> OfKind("parallel", 3), a |-> OfKind("plain", 0), e |-> OfKind("switch", 1)],
      edges |-> <<Edge("l", "body:2", "a"), Edge("e", "case", "a")>>]}

ASSUME StoredEndsOutside == EndsOutside

\* Every expression of three words or fewer, a comparison with a quoted value being
\* one, and two with a group of their own; the editor writes such values bare.  What
\* is typed into the expression box is none of these.
Words ==
    {<<"a">>, <<"AND">>, <<"OR">>, <<"NOT">>, <<"(">>, <<")">>}
        \cup {<<"a", "==", w>> : w \in {"\"\"", "\"b\"", "\"1\"", "\"OR\"", "\"x y\""}}

StoredTexts ==
    {FlattenSeq(words) : words \in BoundedSeq(Words, 3)}
        \cup {<<"(", "a", "OR", "a", "==", "\"\"", ")", "AND", "a">>,
              <<"NOT", "(", "a", "AND", "a", "==", "\"\"", ")", "OR", "a">>}

TextsTyped == {<<>>, <<"vendor">>, <<"str.lower(a)">>, <<"a", "OR", "(", "vendor", ")">>}

ModulesAttributes == {<<>>, <<"agents">>}

AddressesGoneTo ==
    {Home, Null, Path("o", "agents"), Path("o", "status"),
     Path("p", "imports"), Path("bad", "agents")}

-----------------------------------------------------------------------------
(* A screen that is not open is in one of its initial states. *)

ConsoleInit ==
    /\ screen \in Screens
    /\ IF screen = "status" THEN StatusInit
       ELSE /\ agent = [version |-> 1, status |-> "NotReady"] /\ cache = Null
            /\ watch = NewWatch("panel") /\ gets = [g \in 1..MaxGets |-> Null] /\ patch = Null
    /\ IF screen = "builder" THEN BuilderInit
       ELSE draft = Null /\ builder = NewBuilder(TRUE) /\ calls = [c \in Calls |-> Null]
    /\ IF screen = "canvas" THEN CanvasInit
       ELSE canvas = NewCanvas([nodes |-> <<>>, edges |-> <<>>, rest |-> 0])
    /\ IF screen = "condition" THEN ConditionInit ELSE field = NewField(<<>>)
    /\ TesterInit
    /\ IF screen = "shell" THEN ShellInit
       ELSE shell = Null /\ embed = Null /\ loading = [l \in Loads |-> Null]

Open(name) == screen = name /\ UNCHANGED screen

ConsoleNext ==
    \/ /\ Open("status") /\ StatusNext
       /\ UNCHANGED <<builderVars, canvas, field, testerVars, shellVars>>
    \/ /\ Open("builder") /\ BuilderNext
       /\ UNCHANGED <<statusVars, canvas, field, testerVars, shellVars>>
    \/ /\ Open("canvas") /\ CanvasNext
       /\ UNCHANGED <<statusVars, builderVars, field, testerVars, shellVars>>
    \/ /\ Open("condition") /\ ConditionNext
       /\ UNCHANGED <<statusVars, builderVars, canvas, testerVars, shellVars>>
    \/ /\ Open("tester") /\ TesterNext
       /\ UNCHANGED <<statusVars, builderVars, canvas, field, shellVars>>
    \/ /\ Open("shell") /\ ShellNext
       /\ UNCHANGED <<statusVars, builderVars, canvas, field, testerVars>>

ConsoleSpec == ConsoleInit /\ [][ConsoleNext]_consoleVars

=============================================================================
