--------------------------- MODULE ConditionField ---------------------------
(***************************************************************************)
(* The condition of a flow's node, in the builder's inspector.  What is    *)
(* stored is a text; an editor of AND/OR groups shows it when the text is  *)
(* simple enough to be parsed into them, and writes the text anew at every *)
(* edit.  The groups are kept by node and parsed again only after a switch *)
(* between the two editors.                                                *)
(*                                                                         *)
(* A text is a sequence of tokens: a name, a keyword (in capitals, of any  *)
(* case in the code), a number, a quoted string, a parenthesis, and "=="   *)
(* for any comparison.  A bare name on the right of a comparison is, to    *)
(* the server, the variable of that name where there is one; a quoted one  *)
(* never is.  The editor drops the quotes of what it reads and puts back   *)
(* those it thinks are needed.                                             *)
(*                                                                         *)
(* Means is what the server's parser makes of a text.                      *)
(***************************************************************************)
EXTENDS Naturals, Sequences, ConsoleCommon
LOCAL INSTANCE SequencesExt

CONSTANTS
    Names,         \* words of the form of a name, but for the keywords
    Clipped,       \* those that end in "or", as "vendor" does
    Literals,      \* numbers, true and false: the same with quotes and without
    Variables,     \* names that are typed on the left of a comparison
    Values,        \* what is typed on its right; "" is nothing
    LoadedTexts,   \* texts a condition is loaded with
    TypedTexts,    \* texts typed by hand
    MaxParts       \* bound: groups, comparisons and values, where more are not loaded

ASSUME ConditionAssumption ==
    /\ Clipped \cup Variables \subseteq Names
    /\ "" \notin Names \cup Literals /\ Names \cap Literals = {}
    /\ MaxParts \in Nat

VARIABLE field   \* the condition of the node that is selected

Keywords == {"AND", "OR", "NOT"}
Barewords == Names \cup Keywords \cup Literals

-----------------------------------------------------------------------------
(* Quotes *)

HasPart(s, part) == \E i \in 1..(Len(s) - Len(part) + 1) : SubSeq(s, i, i + Len(part) - 1) = part

Quoted(s) == "\"" \o s \o "\""

StartsQuoted(s) == Len(s) > 0 /\ SubSeq(s, 1, 1) = "\""

IsQuoted(s) == Len(s) > 1 /\ StartsQuoted(s) /\ SubSeq(s, Len(s), Len(s)) = "\""

Unquoted(s) == IF IsQuoted(s) THEN SubSeq(s, 2, Len(s) - 1) ELSE s

\* A value of the form of a bare word goes without quotes, even a keyword.  One
\* backslash stands for all those that escape.
quoteIfNeeded(rhs) ==
    CASE rhs \in Barewords -> rhs
      [] HasPart(rhs, "\"") -> Quoted("\\" \o rhs)
      [] OTHER -> Quoted(rhs)

-----------------------------------------------------------------------------
(* The groups *)

Comparison(mode, lhs, rhs) == [kind |-> "cmp", mode |-> mode, lhs |-> lhs, rhs |-> rhs]

Group(op, not, children) == [kind |-> "group", op |-> op, not |-> not, children |-> children]

newComparison == Comparison("cmp", "", "")
newGroup == Group("AND", FALSE, <<>>)

leafToDsl(c) ==
    IF c.lhs = "" THEN <<>>
    ELSE IF c.mode = "truthy" THEN <<c.lhs>> ELSE <<c.lhs, "==", quoteIfNeeded(c.rhs)>>

RECURSIVE groupToDsl(_)


wrap(g) ==
    LET inner == groupToDsl(g)
    IN  IF inner = <<>> \/ g.not THEN inner ELSE <<"(">> \o inner \o <<")">>

groupToDsl(g) ==
    LET dsl(ch) == IF ch.kind = "group" THEN wrap(ch) ELSE leafToDsl(ch)
        parts == SelectSeq([i \in DOMAIN g.children |-> dsl(g.children[i])], LAMBDA p : p # <<>>)
        joined == FlattenSeq([i \in DOMAIN parts |-> IF i = 1 THEN parts[i] ELSE <<g.op>> \o parts[i]])
    IN  IF g.not /\ joined # <<>> THEN <<"NOT", "(">> \o joined \o <<")">> ELSE joined

-----------------------------------------------------------------------------
(* The parser: a node and the rest of the text, or Null where it throws. *)

Parsed(node, rest) == [node |-> node, rest |-> rest]

StartsWith(t, token) == t # <<>> /\ t[1] = token

\* A keyword is also found at the end of a word, unless a ")" follows it there:
\* "vendor" is "vend" and an OR.
Clip(t) ==
    LET clipped(i) == t[i] \in Clipped /\ ~(i < Len(t) /\ t[i + 1] = ")")
    IN  FlattenSeq([i \in DOMAIN t |->
            IF clipped(i) THEN <<SubSeq(t[i], 1, Len(t[i]) - 2), "OR">> ELSE <<t[i]>>])

OneValue(words) == FoldLeft(LAMBDA text, word : IF text = "" THEN word ELSE text \o " " \o word, "", words)

\* A leaf runs up to AND, OR or a ")".  What stands on the right of the operator
\* is one value, of however many words, and loses the quotes around it.
parseLeaf(t) ==
    LET ends == {i \in DOMAIN t : t[i] \in {"AND", "OR", ")"}}
        n == IF ends = {} THEN Len(t) ELSE (CHOOSE i \in ends : \A j \in ends : i <= j) - 1
        raw == SubSeq(t, 1, n)
        rest == SubSeq(t, n + 1, Len(t))
        rhs == OneValue(SubSeq(raw, 3, n))
        named == raw # <<>> /\ raw[1] \in Names
        nested == \E i \in DOMAIN raw : HasPart(raw[i], "(") \/ HasPart(raw[i], ")")
    IN  CASE ~named \/ nested -> Null
          [] n = 1 -> Parsed(Comparison("truthy", raw[1], ""), rest)
          [] raw[2] # "==" -> Null
          [] HasPart(rhs, "==") /\ ~StartsQuoted(rhs) -> Null
          [] OTHER -> Parsed(Comparison("cmp", raw[1], Unquoted(rhs)), rest)

flattenSameOp(op, node) ==
    IF node.kind = "group" /\ node.op = op /\ ~node.not THEN node.children ELSE <<node>>

RECURSIVE parseUnary(_), parseChain(_, _)

parseUnary(t) ==
    CASE StartsWith(t, "NOT") ->
            LET inner == IF StartsWith(Tail(t), "NOT") THEN Null ELSE parseUnary(Tail(t))
            IN  CASE inner = Null -> Null
                  [] inner.node.kind = "group" -> [inner EXCEPT !.node.not = TRUE]
                  [] OTHER -> Parsed(Group("AND", TRUE, <<inner.node>>), inner.rest)
      [] StartsWith(t, "(") ->
            LET inner == parseChain("OR", Tail(t))
            IN  IF inner = Null THEN Null
                ELSE IF StartsWith(inner.rest, ")") THEN Parsed(inner.node, Tail(inner.rest)) ELSE Null
      [] OTHER -> parseLeaf(t)

\* parseOr and parseAnd, by the keyword of the chain.
parseChain(op, t) ==
    LET first == IF op = "OR" THEN parseChain("AND", t) ELSE parseUnary(t)
        more == parseChain(op, Tail(first.rest))
    IN  CASE first = Null -> Null
          [] ~StartsWith(first.rest, op) -> first
          [] more = Null -> Null
          [] OTHER -> Parsed(Group(op, FALSE, flattenSameOp(op, first.node) \o flattenSameOp(op, more.node)),
                             more.rest)

dslToGroup(t) ==
    LET parsed == parseChain("OR", Clip(t))
    IN  CASE t = <<>> -> newGroup
          [] \E i \in DOMAIN t : HasPart(t[i], "\\") \/ HasPart(t[i], "'") -> Null
          [] parsed = Null -> Null
          [] parsed.rest # <<>> -> Null
          [] parsed.node.kind = "group" -> parsed.node
          [] OTHER -> Group("AND", FALSE, <<parsed.node>>)

-----------------------------------------------------------------------------
(* Meaning: the worlds, each the set of the leaves that are true in it, that  *)
(* make it true.  Only the leaves that occur are told apart.                 *)

\* A value as the server has it, the name of a variable or a string; a number is
\* the same in quotes.  Null where it refuses it.
Value(w) ==
    LET text == Unquoted(w)
        escapes == Len(text) > 0 /\ SubSeq(text, 1, 1) = "\\"
    IN  CASE w \in Names -> <<"name", w>>
          [] w \in Literals -> <<"string", w>>
          [] IsQuoted(w) -> <<"string", IF escapes THEN SubSeq(text, 2, Len(text)) ELSE text>>
          [] OTHER -> Null

Leaf(t) ==
    CASE Len(t) = 1 /\ t[1] \in Names -> t
      [] Len(t) = 3 /\ t[1] \in Names /\ t[2] = "==" /\ Value(t[3]) # Null -> <<t[1]>> \o Value(t[3])
      [] OTHER -> Null

Leaves(t) == {Leaf(SubSeq(t, i, j)) : i, j \in DOMAIN t} \ {Null}

Holds(op, left, right) ==
    IF Null \in {left, right} THEN Null ELSE IF op = "OR" THEN left \cup right ELSE left \cap right

\* The server's parser: OR binds loosest, then AND, then NOT.  Null where it
\* refuses the text.
RECURSIVE Means(_, _)
Means(t, worlds) ==
    LET count(token, i) == Len(SelectSeq(SubSeq(t, 1, i), LAMBDA x : x = token))
        top(op) == {i \in DOMAIN t : t[i] = op /\ count("(", i) = count(")", i)}
        at(op, i) ==
            Holds(op, Means(SubSeq(t, 1, i - 1), worlds), Means(SubSeq(t, i + 1, Len(t)), worlds))
    IN  CASE top("OR") # {} -> at("OR", CHOOSE i \in top("OR") : TRUE)
          [] top("AND") # {} -> at("AND", CHOOSE i \in top("AND") : TRUE)
          [] StartsWith(t, "NOT") ->
                LET inner == Means(Tail(t), worlds) IN IF inner = Null THEN Null ELSE worlds \ inner
          [] StartsWith(t, "(") /\ t[Len(t)] = ")" -> Means(SubSeq(t, 2, Len(t) - 1), worlds)
          [] Leaf(t) # Null -> {world \in worlds : Leaf(t) \in world}
          [] OTHER -> Null

\* What the editor shows: a value of the form of a name is one, any other is a
\* string.  A comparison without a variable says nothing.
ShownLeaf(c) ==
    IF c.mode = "truthy" THEN <<c.lhs>>
    ELSE <<c.lhs, IF c.rhs \in Names THEN "name" ELSE "string", c.rhs>>

RECURSIVE GroupMeans(_, _)
GroupMeans(node, worlds) ==
    LET says(ch) == IF ch.kind = "cmp" THEN ch.lhs # "" ELSE groupToDsl(ch) # <<>>
        said == {GroupMeans(node.children[i], worlds) :
                     i \in {j \in DOMAIN node.children : says(node.children[j])}}
        joined == IF node.op = "AND" THEN {world \in worlds : \A part \in said : world \in part}
                                     ELSE UNION said
    IN  CASE node.kind = "cmp" -> {world \in worlds : ShownLeaf(node) \in world}
          [] node.not -> worlds \ joined
          [] OTHER -> joined

-----------------------------------------------------------------------------
(* The field *)

\* The text and the groups kept for the node; advanced: the text editor was
\* asked for; astray: the text was changed while groups were kept.
NewField(text) ==
    [text |-> text, groups |-> Null, advanced |-> FALSE, astray |-> FALSE]

Visual(f) == ~f.advanced /\ dslToGroup(f.text) # Null

\* The visual editor parses the text once and keeps what it has got.
Rendered(f) == IF Visual(f) /\ f.groups = Null THEN [f EXCEPT !.groups = dslToGroup(f.text)] ELSE f

RECURSIVE Parts(_)
Parts(g) ==
    LET count(ch) == CASE ch.kind = "group" -> 1 + Parts(ch) [] ch.rhs = "" -> 1 [] OTHER -> 2
    IN  FoldSeq(LAMBDA ch, n : n + count(ch), 0, g.children)

EditedCmp(c) ==
    {[c EXCEPT !.lhs = v] : v \in Variables} \cup {[c EXCEPT !.rhs = w] : w \in Values}
        \cup {[c EXCEPT !.mode = m] : m \in {"cmp", "truthy"}}

\* The groups after one edit; only a nested group can be negated.
RECURSIVE Edited(_, _)
Edited(g, nested) ==
    {[g EXCEPT !.op = op] : op \in {"AND", "OR"}}
        \cup (IF nested THEN {[g EXCEPT !.not = ~@]} ELSE {})
        \cup {[g EXCEPT !.children = RemoveAt(@, i)] : i \in DOMAIN g.children}
        \cup {[g EXCEPT !.children = Append(@, new)] : new \in {newComparison, newGroup}}
        \cup UNION {{[g EXCEPT !.children[i] = ch] : ch \in
                         IF g.children[i].kind = "cmp" THEN EditedCmp(g.children[i])
                                                       ELSE Edited(g.children[i], TRUE)} :
                     i \in DOMAIN g.children}

\* An edit of the groups writes the text.
touchGroup ==
    /\ Visual(field)
    /\ \E g \in Edited(field.groups, FALSE) :
          /\ Parts(g) <= MaxParts \/ Parts(g) <= Parts(field.groups)
          /\ field' = Rendered([field EXCEPT !.groups = g, !.text = groupToDsl(g), !.astray = FALSE])

\* The button is dead where the text cannot be shown.
toggleExprMode ==
    /\ dslToGroup(field.text) # Null
    /\ field' = Rendered([field EXCEPT !.advanced = ~@, !.groups = Null, !.astray = FALSE])

SetText(text) ==
    field' = Rendered([field EXCEPT !.text = text, !.astray = @ \/ field.groups # Null])

\* By hand, or with a function from the picker.
typeAdvanced == ~Visual(field) /\ \E text \in TypedTexts : SetText(text)

\* Undo and redo bring back a text the field has had (bound: one of those typed).
restoreField == \E text \in TypedTexts : SetText(text)

ConditionInit == \E text \in LoadedTexts : field = Rendered(NewField(text))

ConditionNext == touchGroup \/ toggleExprMode \/ typeAdvanced \/ restoreField

-----------------------------------------------------------------------------
(* Properties *)

\* A NOT of nothing but a NOT: the parser keeps one of the two.
Doubled(t) ==
    \E i, j \in DOMAIN t :
        /\ i < j /\ t[i] = "NOT" /\ t[j] = "NOT"
        /\ \A k \in (i + 1)..(j - 1) : t[k] = "("

\* A name in quotes is a string to the server; the editor drops the quotes.
WithoutQuotes(t) == [i \in DOMAIN t |-> IF Unquoted(t[i]) \in Names THEN Unquoted(t[i]) ELSE t[i]]

ComparesKeyword(t) == \E i \in DOMAIN t : i > 1 /\ t[i - 1] = "==" /\ t[i] \in Keywords


=============================================================================
