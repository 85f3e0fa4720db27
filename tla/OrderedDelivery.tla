-------------------------- MODULE OrderedDelivery --------------------------
(***************************************************************************)
(* What an agent's outbox, relay and connections promise together, with no *)
(* transactions, hellos, batches, buffers or faults:                       *)
(*                                                                         *)
(*   - rows become visible in the order of their numbers;                  *)
(*   - on each connection they are sent in that order, none twice, and     *)
(*     one is left out only if the client has it already;                  *)
(*   - whenever the client sees a row for the first time it has every row  *)
(*     before it, over however many connections they came.                 *)
(*                                                                         *)
(* A connection may end at any time, and be used again.                    *)
(***************************************************************************)
EXTENDS Naturals, Sequences

CONSTANTS
    Conns,     \* connection slots
    Numbers,   \* the numbers rows may have
    Greeting   \* what a connection begins with, no row

VARIABLES
    log,      \* the numbers of the rows that are visible
    sent,     \* those sent on each connection
    line,     \* what is on its way on it, in order
    got       \* those the client has seen

dvars == <<log, sent, line, got>>

DInit ==
    /\ log = {}
    /\ sent = [c \in Conns |-> {}]
    /\ line = [c \in Conns |-> <<>>]
    /\ got = {}

Before(n) == {m \in log : m < n}

Publish ==
    /\ \E n \in Numbers \ log : /\ log' = log \cup {n}
                                /\ \A m \in log : m < n
    /\ UNCHANGED <<sent, line, got>>

Begin(c) ==
    /\ sent' = [sent EXCEPT ![c] = {}]
    /\ line' = [line EXCEPT ![c] = <<Greeting>>]
    /\ UNCHANGED <<log, got>>

Send(c) ==
    /\ \E n \in log : /\ \A m \in sent[c] : m < n
                      /\ Before(n) \subseteq sent[c] \cup got
                      /\ sent' = [sent EXCEPT ![c] = @ \cup {n}]
                      /\ line' = [line EXCEPT ![c] = Append(@, n)]
    /\ UNCHANGED <<log, got>>

TakeOff(c) ==
    /\ line[c] # <<>>
    /\ line' = [line EXCEPT ![c] = Tail(@)]

\* What is seen again changes nothing.
Receive(c) ==
    /\ TakeOff(c)
    /\ Head(line[c]) \in sent[c]
    /\ Before(Head(line[c])) \subseteq got
    /\ got' = got \cup {Head(line[c])}
    /\ UNCHANGED <<log, sent>>

\* The greeting, or what is sent to a client that has gone.
Lose(c) == TakeOff(c) /\ UNCHANGED <<log, sent, got>>

\* Some connections end: their slots are free for others.
End ==
    /\ \E C \in SUBSET Conns :
           /\ sent' = [c \in Conns |-> IF c \in C THEN {} ELSE sent[c]]
           /\ line' = [c \in Conns |-> IF c \in C THEN <<>> ELSE line[c]]
    /\ UNCHANGED <<log, got>>

DNext ==
    \/ Publish
    \/ \E c \in Conns : Begin(c) \/ Send(c) \/ Receive(c) \/ Lose(c)
    \/ End

DSpec == DInit /\ [][DNext]_dvars
=============================================================================
