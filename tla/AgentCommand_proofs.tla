------------------------ MODULE AgentCommand_proofs ------------------------
(***************************************************************************)
(* Theorems about AgentCommand, for any flow, agents, capacity and timing, *)
(* any number of sessions and any command frames.  Every transaction of    *)
(* the channel is one of the engine's or leaves its tables alone, so what  *)
(* is proved of the engine holds under the channel; and the command rows   *)
(* make a command's answers agree and tell what became of a reservation.   *)
(***************************************************************************)
EXTENDS CommandRefinement, RoutingSlots_proofs

-----------------------------------------------------------------------------
(* The channel over the engine *)

\* What a command transaction does to the engine's tables is a transaction of
\* the engine, or nothing.
LEMMA CommandStepIsEngineStep ==
    ASSUME \A s \in Sessions : work[s] # Null => work[s].cmd \in Commands,
           [CommandNext]_commandVars
    PROVE  [Next]_vars
<1>1. ASSUME NEW s \in Sessions, work[s] # Null
      PROVE  work[s].cmd.route \in Routes
  BY <1>1, CommandsAssumption
<1>2. CASE EngineStep
  BY <1>2, Zenon DEF EngineStep, Next
<1>3. ASSUME NEW s \in Sessions, AcceptCommand(s) PROVE Next
  <2> DEFINE r == work[s].cmd.route
             n == work[s].cmd.attempt
  <2>1. /\ r \in Routes
        /\ n \in Attempts(r)
        /\ AcceptReservation(r, n)
    BY <1>1, <1>3 DEF AcceptCommand, Addressed, OwnReservation, Claimed
  <2> HIDE DEF r, n
  <2> QED
    BY <2>1, Zenon DEF Next
<1>4. ASSUME NEW s \in Sessions, RejectCommand(s) PROVE Next
  <2> DEFINE r == work[s].cmd.route
             n == work[s].cmd.attempt
  <2>1. /\ r \in Routes
        /\ n \in Attempts(r)
        /\ RejectReservation(r, n)
    BY <1>1, <1>4 DEF RejectCommand, Addressed, OwnReservation, Claimed
  <2> HIDE DEF r, n
  <2> QED
    BY <2>1, Zenon DEF Next
<1>5. ASSUME NEW s \in Sessions, CompleteCommand(s) PROVE Next
  <2> DEFINE r == work[s].cmd.route
             n == work[s].cmd.attempt
  <2>1. /\ r \in Routes
        /\ n \in Attempts(r)
        /\ CompleteReservation(r, n)
    BY <1>1, <1>5 DEF CompleteCommand, Addressed, OwnReservation, Claimed
  <2> HIDE DEF r, n
  <2> QED
    BY <2>1, Zenon DEF Next
<1>6. ASSUME NEW s \in Sessions,
             \/ \E a \in Agents : OpenSession(s, a)
             \/ CloseSession(s)
             \/ RevokeSession(s)
             \/ \E c \in Commands : ReceiveCommand(s, c)
             \/ ReplayCommand(s)
             \/ RefuseCommand(s)
             \/ BeginCommand(s)
             \/ AbortCommand(s)
             \/ MisaddressedCommand(s)
      PROVE  UNCHANGED vars
  BY <1>6 DEF OpenSession, CloseSession, RevokeSession, ReceiveCommand, ReplayCommand,
              RefuseCommand, BeginCommand, AbortCommand, MisaddressedCommand, engine, vars
<1>7. ASSUME NEW s \in Sessions, ConflictingCommand(s) PROVE UNCHANGED vars
  BY <1>7 DEF ConflictingCommand, RollbackToSavepoint, vars
<1>8. CASE UNCHANGED commandVars
  BY <1>8 DEF commandVars, engine, vars
<1> QED
  BY <1>2, <1>3, <1>4, <1>5, <1>6, <1>7, <1>8 DEF CommandNext

-----------------------------------------------------------------------------
(* The inductive invariant *)

NoAnswer == {"session_revoked", "reused_id"}

\* A read loop runs a command that was sent to it.
WorkInv ==
    /\ work = [s \in Sessions |-> work[s]]
    /\ \A s \in Sessions : work[s] # Null => work[s].cmd \in Commands

\* An open claim is alone with its id, and the id has no row yet.
ClaimInv ==
    /\ command = [k \in Keys |-> command[k]]
    /\ \A s \in Sessions : Claimed(s) => command[Key(work[s].cmd)] = Null
    /\ \A s, t \in Sessions :
          Claimed(s) /\ Claimed(t) /\ Key(work[s].cmd) = Key(work[t].cmd) => s = t

\* Every answer is the one its command's row holds.
AnswerInv ==
    \A x \in answers : x.status \notin NoAnswer =>
        /\ x.key \in Keys
        /\ command[x.key] # Null
        /\ command[x.key].hash = x.hash
        /\ command[x.key].result = x.status

ChannelInv == WorkInv /\ ClaimInv /\ AnswerInv

\* A command belongs to one of the ids.
LEMMA KeyIsKey ==
    ASSUME NEW c \in Commands
    PROVE  Key(c) \in Keys
BY DEF Keys

\* Writing a command's row and its answer keeps the invariant: the writer held the
\* claim, so no other transaction did and no answer came before.
LEMMA FinishKeeps ==
    ASSUME ChannelInv, NEW s \in Sessions, Claimed(s),
           NEW status \in {"accepted", "rejected", "completed", "conflict",
                           "not_found", "not_owner", "lease_mismatch"},
           FinishCommand(s, status)
    PROVE  ChannelInv'
<1> DEFINE c == work[s].cmd
           row == [hash |-> RequestHash(c), result |-> status]
           x == [key |-> Key(c), hash |-> RequestHash(c), status |-> status]
<1>1. /\ c \in Commands
      /\ Key(c) \in Keys
  BY KeyIsKey DEF ChannelInv, WorkInv, Claimed
<1>2. row \in CommandRow
  BY <1>1 DEF CommandRow
<1>3. /\ row # Null
      /\ row.hash = RequestHash(c)
      /\ row.result = status
  BY <1>2, NoRowAssumption
<1>4. /\ x.key = Key(c)
      /\ x.hash = RequestHash(c)
      /\ x.status = status
  OBVIOUS
<1>5. /\ command' = [command EXCEPT ![Key(c)] = row]
      /\ work' = [work EXCEPT ![s] = Null]
      /\ answers' = answers \cup {x}
  BY DEF FinishCommand, Answer
<1> HIDE DEF row, x, c
<1>6. WorkInv'
  BY <1>5 DEF ChannelInv, WorkInv
<1>7. ClaimInv'
  <2>1. command' = [k \in Keys |-> command'[k]]
    BY <1>5 DEF ChannelInv, ClaimInv
  <2>2. \A t \in Sessions : Claimed(t)' => t # s /\ Claimed(t) /\ work'[t] = work[t]
    BY <1>5 DEF ChannelInv, WorkInv, Claimed
  <2>3. \A t \in Sessions : Claimed(t)' => Key(work[t].cmd) # Key(c)
    BY <2>2 DEF ChannelInv, ClaimInv, c
  <2>4. \A t \in Sessions : Claimed(t)' =>
            /\ Key(work[t].cmd) \in Keys
            /\ command'[Key(work[t].cmd)] = command[Key(work[t].cmd)]
    BY <1>5, <2>2, <2>3, KeyIsKey DEF ChannelInv, WorkInv, ClaimInv, Claimed
  <2>5. \A t \in Sessions : Claimed(t)' => Key(work[t].cmd)' = Key(work[t].cmd)
    BY <2>2 DEF Key
  <2> QED
    BY <2>1, <2>2, <2>4, <2>5 DEF ChannelInv, ClaimInv
<1>8. AnswerInv'
  <2> SUFFICES ASSUME NEW y \in answers', y.status \notin NoAnswer
               PROVE  /\ y.key \in Keys
                      /\ command'[y.key] # Null
                      /\ command'[y.key].hash = y.hash
                      /\ command'[y.key].result = y.status
    BY DEF AnswerInv
  <2>1. command'[Key(c)] = row
    BY <1>1, <1>5 DEF ChannelInv, ClaimInv
  <2>2. CASE y = x
    BY <1>1, <1>3, <1>4, <2>1, <2>2
  <2>3. CASE y \in answers
    <3>1. /\ y.key \in Keys
          /\ command[y.key] # Null
          /\ command[y.key].hash = y.hash
          /\ command[y.key].result = y.status
      BY <2>3 DEF ChannelInv, AnswerInv
    <3>2. y.key # Key(c)
      BY <3>1 DEF ChannelInv, ClaimInv, c
    <3> QED
      BY <1>5, <3>1, <3>2 DEF ChannelInv, ClaimInv
  <2> QED
    BY <1>5, <2>2, <2>3
<1> QED
  BY <1>6, <1>7, <1>8 DEF ChannelInv

\* Giving up a command, or answering it without a row of its own, keeps the
\* invariant when the answer repeats the row or is no answer.
LEMMA ReleaseKeeps ==
    ASSUME ChannelInv, NEW s \in Sessions,
           work' = [work EXCEPT ![s] = Null],
           UNCHANGED command,
           AnswerInv'
    PROVE  ChannelInv'
<1>1. WorkInv'
  BY DEF ChannelInv, WorkInv
<1>2. \A t \in Sessions : Claimed(t)' => Claimed(t) /\ work'[t] = work[t]
  BY DEF ChannelInv, WorkInv, Claimed
<1>3. \A t \in Sessions : Claimed(t)' => Key(work[t].cmd)' = Key(work[t].cmd)
  BY <1>2 DEF Key
<1>4. ClaimInv'
  BY <1>2, <1>3 DEF ChannelInv, ClaimInv
<1> QED
  BY <1>1, <1>4 DEF ChannelInv

\* A step that writes none of the channel's work, rows and answers keeps it.
LEMMA IdleKeeps ==
    ASSUME ChannelInv, UNCHANGED <<work, command, answers>>
    PROVE  ChannelInv'
BY DEF ChannelInv, WorkInv, ClaimInv, AnswerInv, Claimed, Key

\* A frame's arrival claims nothing.
LEMMA ReceiveKeeps ==
    ASSUME ChannelInv, NEW s \in Sessions, NEW c \in Commands, ReceiveCommand(s, c)
    PROVE  ChannelInv'
<1> DEFINE w == [cmd |-> c, claimed |-> FALSE]
<1>1. /\ w.cmd = c
      /\ w.claimed = FALSE
  OBVIOUS
<1>2. /\ work' = [work EXCEPT ![s] = w]
      /\ UNCHANGED <<command, answers>>
  BY DEF ReceiveCommand
<1> HIDE DEF w
<1>3. WorkInv'
  BY <1>1, <1>2 DEF ChannelInv, WorkInv
<1>4. \A t \in Sessions : Claimed(t)' => Claimed(t) /\ work'[t] = work[t]
  BY <1>1, <1>2 DEF ChannelInv, WorkInv, Claimed
<1>5. \A t \in Sessions : Claimed(t)' => Key(work[t].cmd)' = Key(work[t].cmd)
  BY <1>4 DEF Key
<1>6. ClaimInv'
  BY <1>2, <1>4, <1>5 DEF ChannelInv, ClaimInv
<1>7. AnswerInv'
  BY <1>2 DEF ChannelInv, AnswerInv
<1> QED
  BY <1>3, <1>6, <1>7 DEF ChannelInv

\* A claim is made of an id without a row, and waits for every other claim.
LEMMA BeginKeeps ==
    ASSUME ChannelInv, NEW s \in Sessions, BeginCommand(s)
    PROVE  ChannelInv'
<1> DEFINE w == [work[s] EXCEPT !.claimed = TRUE]
<1>1. /\ work[s] # Null
      /\ Unclaimed(work[s].cmd)
      /\ command[Key(work[s].cmd)] = Null
      /\ work' = [work EXCEPT ![s] = w]
      /\ UNCHANGED <<command, answers>>
  BY DEF BeginCommand
<1>2. w.cmd = work[s].cmd
  OBVIOUS
<1> HIDE DEF w
<1>3. WorkInv'
  BY <1>1, <1>2 DEF ChannelInv, WorkInv
<1>4. \A t \in Sessions : work'[t].cmd = work[t].cmd
  BY <1>1, <1>2 DEF ChannelInv, WorkInv
<1>5. \A t \in Sessions : t # s => (Claimed(t)' <=> Claimed(t))
  BY <1>1 DEF ChannelInv, WorkInv, Claimed
<1>6. \A t \in Sessions : Key(work[t].cmd)' = Key(work[t].cmd)
  BY <1>4 DEF Key
<1>7. ClaimInv'
  BY <1>1, <1>5, <1>6 DEF ChannelInv, ClaimInv, Unclaimed
<1>8. AnswerInv'
  BY <1>1 DEF ChannelInv, AnswerInv
<1> QED
  BY <1>3, <1>7, <1>8 DEF ChannelInv

\* A duplicate is answered from the row, or told that its id was reused.
LEMMA ReplayKeeps ==
    ASSUME ChannelInv, NEW s \in Sessions, ReplayCommand(s) \/ RefuseCommand(s)
    PROVE  ChannelInv'
<1> DEFINE c == work[s].cmd
<1>1. c \in Commands /\ Key(c) \in Keys
  BY KeyIsKey DEF ReplayCommand, RefuseCommand, ChannelInv, WorkInv
<1>2. PICK x : /\ answers' = answers \cup {x}
               /\ x.status \notin NoAnswer =>
                     /\ x.key = Key(c)
                     /\ command[Key(c)] # Null
                     /\ command[Key(c)].hash = x.hash
                     /\ command[Key(c)].result = x.status
  <2>1. CASE RefuseCommand(s)
    <3> DEFINE x == [key |-> Key(c), hash |-> RequestHash(c), status |-> "session_revoked"]
    <3>1. answers' = answers \cup {x}
      BY <2>1 DEF RefuseCommand, Answer
    <3>2. x.status \in NoAnswer
      BY DEF NoAnswer
    <3> QED
      BY <3>1, <3>2
  <2>2. CASE ReplayCommand(s) /\ command[Key(c)].hash = RequestHash(c)
    <3> DEFINE x == [key |-> Key(c), hash |-> RequestHash(c),
                     status |-> command[Key(c)].result]
    <3>1. /\ answers' = answers \cup {x}
          /\ command[Key(c)] # Null
      BY <2>2 DEF ReplayCommand, Answer
    <3>2. /\ x.key = Key(c)
          /\ x.hash = RequestHash(c)
          /\ x.status = command[Key(c)].result
      OBVIOUS
    <3> QED
      BY <2>2, <3>1, <3>2
  <2>3. CASE ReplayCommand(s) /\ command[Key(c)].hash # RequestHash(c)
    <3> DEFINE x == [key |-> Key(c), hash |-> RequestHash(c), status |-> "reused_id"]
    <3>1. answers' = answers \cup {x}
      BY <2>3 DEF ReplayCommand, Answer
    <3>2. x.status \in NoAnswer
      BY DEF NoAnswer
    <3> QED
      BY <3>1, <3>2
  <2> QED
    BY <2>1, <2>2, <2>3
<1>3. /\ work' = [work EXCEPT ![s] = Null]
      /\ UNCHANGED command
  BY DEF ReplayCommand, RefuseCommand, Answer
<1> HIDE DEF c
<1>4. AnswerInv'
  BY <1>1, <1>2, <1>3 DEF ChannelInv, AnswerInv
<1> QED
  BY <1>3, <1>4, ReleaseKeeps

\* Every step of the channel keeps its invariant.
LEMMA ChannelStep == ChannelInv /\ [CommandNext]_commandVars => ChannelInv'
<1> SUFFICES ASSUME ChannelInv, [CommandNext]_commandVars PROVE ChannelInv'
  OBVIOUS
<1>1. CASE EngineStep /\ UNCHANGED channel
  BY <1>1, IdleKeeps DEF channel
<1>2. ASSUME NEW s \in Sessions,
             (\E a \in Agents : OpenSession(s, a)) \/ CloseSession(s) \/ RevokeSession(s)
      PROVE  ChannelInv'
  BY <1>2, IdleKeeps DEF OpenSession, CloseSession, RevokeSession
<1>3. ASSUME NEW s \in Sessions, NEW c \in Commands, ReceiveCommand(s, c)
      PROVE  ChannelInv'
  BY <1>3, ReceiveKeeps
<1>4. ASSUME NEW s \in Sessions, ReplayCommand(s) \/ RefuseCommand(s)
      PROVE  ChannelInv'
  BY <1>4, ReplayKeeps
<1>5. ASSUME NEW s \in Sessions, BeginCommand(s) PROVE ChannelInv'
  BY <1>5, BeginKeeps
<1>6. ASSUME NEW s \in Sessions, AbortCommand(s) PROVE ChannelInv'
  <2>1. AnswerInv'
    BY <1>6 DEF AbortCommand, ChannelInv, AnswerInv
  <2> QED
    BY <1>6, <2>1, ReleaseKeeps DEF AbortCommand
<1>7. ASSUME NEW s \in Sessions, MisaddressedCommand(s) PROVE ChannelInv'
  <2>1. /\ Claimed(s)
        /\ \/ FinishCommand(s, "not_found")
           \/ FinishCommand(s, "not_owner")
           \/ FinishCommand(s, "lease_mismatch")
    BY <1>7 DEF MisaddressedCommand
  <2> QED
    BY <1>7, <2>1, FinishKeeps
<1>8. ASSUME NEW s \in Sessions,
             \/ AcceptCommand(s) \/ RejectCommand(s)
             \/ CompleteCommand(s) \/ ConflictingCommand(s)
      PROVE  ChannelInv'
  <2>1. /\ Claimed(s)
        /\ \/ FinishCommand(s, "accepted")
           \/ FinishCommand(s, "rejected")
           \/ FinishCommand(s, "completed")
           \/ FinishCommand(s, "conflict")
    BY <1>8 DEF AcceptCommand, RejectCommand, CompleteCommand, ConflictingCommand, Addressed
  <2> QED
    BY <1>8, <2>1, FinishKeeps
<1>9. CASE UNCHANGED commandVars
  BY <1>9, IdleKeeps DEF commandVars, channel
<1> QED
  BY <1>1, <1>2, <1>3, <1>4, <1>5, <1>6, <1>7, <1>8, <1>9 DEF CommandNext

\* The channel starts with nothing sent, on empty engine tables.
LEMMA ChannelInit == CommandInit => IInv /\ ChannelInv
<1> SUFFICES ASSUME CommandInit PROVE IInv /\ ChannelInv
  OBVIOUS
<1>1. [status |-> "Ready", until |-> Null] \in AgentRow
  BY DEF AgentRow, Statuses
<1>2. IInv
  BY <1>1, EmptyTables DEF CommandInit
<1>3. ChannelInv
  BY DEF CommandInit, ChannelInv, WorkInv, ClaimInv, AnswerInv, Claimed
<1> QED
  BY <1>2, <1>3

\* A step of the channel keeps the engine's invariant and its own.
LEMMA CommandStep == IInv /\ ChannelInv /\ [CommandNext]_commandVars => (IInv /\ ChannelInv)'
<1> SUFFICES ASSUME IInv, ChannelInv, [CommandNext]_commandVars PROVE (IInv /\ ChannelInv)'
  OBVIOUS
<1>1. [Next]_vars
  BY CommandStepIsEngineStep DEF ChannelInv, WorkInv
<1>2. IInv'
  BY <1>1, NextInv
<1> QED
  BY <1>2, ChannelStep

\* Both invariants hold for ever, whatever arrives over however many connections.
THEOREM CommandInvariance == CommandSpec => [](IInv /\ ChannelInv)
<1> QED
  BY ChannelInit, CommandStep, PTL DEF CommandSpec

-----------------------------------------------------------------------------
(* What the invariants say of the code *)

\* However often and over however many connections a command is sent, and however
\* its transactions interleave, abort and wait, all its answers agree.
THEOREM AnswersAgree == CommandSpec => []StableAnswer
<1>1. ChannelInv => StableAnswer
  <2> SUFFICES ASSUME ChannelInv, NEW x \in answers, NEW y \in answers,
                      x.key = y.key, x.hash = y.hash,
                      {x.status, y.status} \cap {"session_revoked", "reused_id"} = {}
               PROVE  x.status = y.status
    BY DEF StableAnswer
  <2>1. x.status \notin NoAnswer /\ y.status \notin NoAnswer
    BY DEF NoAnswer
  <2> QED
    BY <2>1 DEF ChannelInv, AnswerInv
<1> QED
  BY <1>1, CommandInvariance, PTL

\* The agents' channel never leaves a reservation on offer that its route is not
\* parked on: a late accept, a duplicate or a conflict changes neither alone.
THEOREM ChannelKeepsOffersParked == CommandSpec => []OfferIsParked
<1>1. IInv => OfferIsParked
  BY DEF IInv, RouteInv, Parked, OfferIsParked, Attempts
<1> QED
  BY <1>1, CommandInvariance, PTL

-----------------------------------------------------------------------------
(* What the command rows say of the reservations *)

\* Attempt n of route r keeps its agent and its outcome, if it has one.
Undecided(r, n) ==
    /\ n \in 1..Len(resv'[r])
    /\ resv'[r][n].agent = resv[r][n].agent
    /\ \/ resv'[r][n].state = resv[r][n].state
       \/ resv[r][n].state \notin Outcomes /\ resv'[r][n].state \notin Outcomes

\* A new attempt of route r has no outcome yet.
FreshOffers(r) ==
    \A n \in (1..Len(resv'[r])) \ Attempts(r) : resv'[r][n].state \notin Outcomes

NothingDecided ==
    \A r \in Routes : /\ \A n \in Attempts(r) : Undecided(r, n)
                      /\ FreshOffers(r)

\* Attempt n0 of route r0 takes the given outcome, and nothing else is decided.
OneDecided(r0, n0, state) ==
    /\ n0 \in 1..Len(resv'[r0])
    /\ resv'[r0][n0].agent = resv[r0][n0].agent
    /\ resv'[r0][n0].state = state
    /\ \A r \in Routes :
           /\ \A n \in Attempts(r) : <<r, n>> # <<r0, n0>> => Undecided(r, n)
           /\ FreshOffers(r)

\* A run of the flow decides nothing: it keeps the reservations it is given and
\* adds at most an offer.
LEMMA FlowAddsOffers ==
    ASSUME TypeOK, NEW r \in Routes, NEW signal, NEW scripted, NEW rs, Settled(rs),
           NEW table \in SlotTable, NEW pending,
           RunFlow(r, signal, scripted, rs, table, pending)
    PROVE  \A n \in (1..Len(resv'[r])) \ (1..Len(rs)) : resv'[r][n].state = "offered"
<1>1. rs \in Seq(Reservation) /\ Len(rs) \in Nat
  BY DEF Settled
<1>2. CASE resv' = [resv EXCEPT ![r] = rs]
  BY <1>2 DEF TypeOK
<1>3. CASE \E a \in Offerable(rs, table) :
               resv' = [resv EXCEPT ![r] = Append(rs, Offer(a, OfferTimeout))]
  <2> PICK a \in Offerable(rs, table) :
               resv' = [resv EXCEPT ![r] = Append(rs, Offer(a, OfferTimeout))]
    BY <1>3
  <2> DEFINE new == Append(rs, Offer(a, OfferTimeout))
  <2>1. a \in Agents /\ OfferTimeout \in 0..OfferTimeout
    BY EngineAssumption DEF Offerable, CandidatePool, TypeOK
  <2>2. /\ Len(new) = Len(rs) + 1
        /\ new[Len(rs) + 1].state = "offered"
    BY <1>1, <2>1, AppendedOffer
  <2>3. resv'[r] = new
    BY DEF TypeOK
  <2> HIDE DEF new
  <2> QED
    BY <1>1, <2>2, <2>3
<1>4. ASSUME NEW status \in Terminal, Finish(r, status, rs, table, pending)
      PROVE  resv' = [resv EXCEPT ![r] = rs]
  BY <1>4 DEF Finish
<1>5. ASSUME NEW n, ParkOnTimer(r, n, rs, table, pending) \/ ParkForMatch(r, n, rs, table, pending)
      PROVE  resv' = [resv EXCEPT ![r] = rs]
  BY <1>5 DEF ParkOnTimer, ParkForMatch
<1>6. ASSUME NEW n, NEW a \in Offerable(rs, table), OfferInline(r, n, a, rs, table, pending)
      PROVE  resv' = [resv EXCEPT ![r] = Append(rs, Offer(a, OfferTimeout))]
  BY <1>6 DEF OfferInline
<1>7. \/ resv' = [resv EXCEPT ![r] = rs]
      \/ \E a \in Offerable(rs, table) :
             resv' = [resv EXCEPT ![r] = Append(rs, Offer(a, OfferTimeout))]
  BY <1>4, <1>5, <1>6, RunFlowCases, Zenon
<1> QED
  BY <1>2, <1>3, <1>7

\* ... and so a handler decides what it hands to the run.
LEMMA FlowDecides ==
    ASSUME TypeOK, NEW r \in Routes, NEW signal, NEW scripted, NEW rs, Settled(rs),
           Len(rs) = Len(resv[r]),
           NEW table \in SlotTable, NEW pending,
           RunFlow(r, signal, scripted, rs, table, pending)
    PROVE  /\ \A q \in Routes \ {r} : resv'[q] = resv[q]
           /\ \A n \in Attempts(r) : n \in 1..Len(resv'[r]) /\ resv'[r][n] = rs[n]
           /\ \A q \in Routes : FreshOffers(q)
<1>1. RunFlowEffect(r, rs, pending)
  BY RunFlowSafe
<1>2. \A n \in (1..Len(resv'[r])) \ (1..Len(rs)) : resv'[r][n].state = "offered"
  BY FlowAddsOffers
<1>3. Len(resv'[r]) \in Nat /\ Len(resv[r]) \in Nat
  BY <1>1 DEF RunFlowEffect, TypeOK
<1>4. FreshOffers(r)
  BY <1>2 DEF FreshOffers, Outcomes, Attempts
<1>5. \A q \in Routes \ {r} : resv'[q] = resv[q]
  BY <1>1 DEF RunFlowEffect
<1>6. \A q \in Routes \ {r} : FreshOffers(q)
  BY <1>5 DEF FreshOffers, Attempts
<1>7. \A n \in Attempts(r) : n \in 1..Len(resv'[r]) /\ resv'[r][n] = rs[n]
  <2>1. /\ Len(resv'[r]) >= Len(rs)
        /\ \A n \in 1..Len(rs) : resv'[r][n] = rs[n]
    BY <1>1 DEF RunFlowEffect
  <2> QED
    BY <1>3, <2>1 DEF Attempts
<1> QED
  BY <1>4, <1>5, <1>6, <1>7

\* Answering the offer a route is parked on decides that offer and no other.
LEMMA AnswerDecides ==
    ASSUME IInv, NEW r \in Routes, NEW n, OnOffer(r, n), NEW signal,
           NEW state \in {"accepted", "rejected", "timeout"},
           NEW table \in SlotTable, NEW pending,
           RunFlow(r, signal, FALSE, Resolve(r, n, state), table, pending)
    PROVE  OneDecided(r, n, state)
<1> DEFINE rs == Resolve(r, n, state)
<1>1. /\ Settled(rs)
      /\ Len(rs) = Len(resv[r])
  BY OfferResolved
<1>2. /\ n \in Attempts(r)
      /\ state \in Active \cup Resolved
  BY DEF OnOffer, Active, Resolved
<1>3. \A i \in Attempts(r) :
          /\ rs[i].agent = resv[r][i].agent
          /\ rs[i].state = IF i = n THEN state ELSE resv[r][i].state
  BY <1>2, ResolveShape DEF IInv
<1>4. RunFlow(r, signal, FALSE, rs, table, pending)
  OBVIOUS
<1> HIDE DEF rs
<1>5. /\ \A q \in Routes \ {r} : resv'[q] = resv[q]
      /\ \A i \in Attempts(r) : i \in 1..Len(resv'[r]) /\ resv'[r][i] = rs[i]
      /\ \A q \in Routes : FreshOffers(q)
  BY <1>1, <1>4, FlowDecides DEF IInv
<1> QED
  BY <1>2, <1>3, <1>5 DEF OneDecided, Undecided, Attempts

\* The worker, the sweep, new routes and time decide nothing.
LEMMA EngineDecidesNothing ==
    ASSUME IInv, EngineStep
    PROVE  NothingDecided
<1>1. ASSUME UNCHANGED resv PROVE NothingDecided
  BY <1>1 DEF NothingDecided, Undecided, FreshOffers, Attempts
<1>2. ASSUME NEW r \in Routes, CreateRouteRequest(r) PROVE NothingDecided
  <2>1. Settled(resv[r])
    BY <1>2, NothingOffered DEF CreateRouteRequest
  <2>2. /\ \A q \in Routes \ {r} : resv'[q] = resv[q]
        /\ \A n \in Attempts(r) : n \in 1..Len(resv'[r]) /\ resv'[r][n] = resv[r][n]
        /\ \A q \in Routes : FreshOffers(q)
    BY <1>2, <2>1, FlowDecides DEF CreateRouteRequest, IInv, TypeOK
  <2> QED
    BY <2>2 DEF NothingDecided, Undecided, Attempts
<1>3. ASSUME NEW t \in timers, FireReservationTimeout(t) PROVE NothingDecided
  <2> DEFINE r == t.route
             n == t.attempt
  <2>1. /\ r \in Routes
        /\ n \in Attempts(r)
    BY <1>3 DEF FireReservationTimeout, IInv, TypeOK, Timer, TimerInv
  <2>2. /\ OnOffer(r, n)
        /\ RunFlow(r, "timeout", FALSE, Resolve(r, n, "timeout"),
                   Release(slots, <<r, n>>), timers \ {t})
    BY <1>3, <2>1 DEF FireReservationTimeout, Resume, OnOffer, Current, IInv,
                      RouteInv, Parked, Attempts
  <2>3. Release(slots, <<r, n>>) \in SlotTable
    BY ReleaseTable DEF IInv, TypeOK
  <2>4. OneDecided(r, n, "timeout")
    BY <2>1, <2>2, <2>3, AnswerDecides
  <2>5. resv[r][n].state = "offered" /\ n \in 1..Len(resv'[r])
    <3>1. RunFlowEffect(r, Resolve(r, n, "timeout"), timers \ {t})
      BY <2>1, <2>2, <2>3, OfferResolved, RunFlowSafe DEF IInv
    <3>2. Len(Resolve(r, n, "timeout")) = Len(resv[r])
      BY <2>1, <2>2, OfferResolved
    <3>3. Len(resv[r]) \in Nat /\ Len(resv'[r]) \in Nat
      BY <2>1, <3>1 DEF RunFlowEffect, IInv, TypeOK
    <3> QED
      BY <2>1, <2>2, <3>1, <3>2, <3>3 DEF OnOffer, RunFlowEffect, Attempts
  <2> HIDE DEF r, n
  <2> QED
    BY <2>1, <2>4, <2>5 DEF NothingDecided, OneDecided, Undecided, Outcomes
<1>4. CASE Tick
  <2>1. ASSUME NEW r \in Routes
        PROVE  /\ Len(resv'[r]) = Len(resv[r])
               /\ \A n \in Attempts(r) : /\ resv'[r][n].agent = resv[r][n].agent
                                         /\ resv'[r][n].state = resv[r][n].state
    BY <1>4, TickKeeps DEF Attempts
  <2> QED
    BY <2>1 DEF NothingDecided, Undecided, FreshOffers, Attempts
<1> QED
  BY <1>1, <1>2, <1>3, <1>4 DEF EngineStep, DropStaleTimer, SweepCapacity

\* What OutcomeIsRecorded says of attempt n of route r.
Told(r, n) ==
    /\ IF resv[r][n].state \in {"accepted", "completed"}
       THEN OneOwnCommand(r, n, "accept", "accepted")
       ELSE Recorded(r, n, "accept", "accepted") = {}
    /\ IF resv[r][n].state = "completed"
       THEN OneOwnCommand(r, n, "complete", "completed")
       ELSE Recorded(r, n, "complete", "completed") = {}
    /\ IF resv[r][n].state = "rejected"
       THEN OneOwnCommand(r, n, "reject", "rejected")
       ELSE Recorded(r, n, "reject", "rejected") = {}

\* No row claims an outcome of attempt n of route r.
Untold(r, n) ==
    /\ Recorded(r, n, "accept", "accepted") = {}
    /\ Recorded(r, n, "complete", "completed") = {}
    /\ Recorded(r, n, "reject", "rejected") = {}

\* OutcomeIsRecorded is not inductive: a new attempt must find no outcome told
\* before it was made.
OutcomeInv ==
    \A r \in Routes : /\ \A n \in Attempts(r) : Told(r, n)
                      /\ \A n \in Nat \ Attempts(r) : Untold(r, n)

\* The rows told of any attempt, after the command c has finished: with one more
\* if c is about that attempt and came out that way.
RecordedThen(c, status) ==
    \A r, n, kind, result :
        Recorded(r, n, kind, result)' =
            IF RequestHash(c) = <<kind, r, n>> /\ status = result
            THEN Recorded(r, n, kind, result) \cup {Key(c)}
            ELSE Recorded(r, n, kind, result)

\* The rows told of an attempt stay the same.
SameRecord(r, n) ==
    \A kind, result : Recorded(r, n, kind, result)' = Recorded(r, n, kind, result)

\* A command's row is told of its own reservation only.
LEMMA RecordedAfter ==
    ASSUME ChannelInv, NEW s \in Sessions, Claimed(s), NEW status,
           status \in Outcomes \cup {"conflict", "not_found", "not_owner", "lease_mismatch"},
           FinishCommand(s, status),
           NEW c, c = work[s].cmd
    PROVE  RecordedThen(c, status)
<1> DEFINE row == [hash |-> RequestHash(c), result |-> status]
<1>1. /\ c \in Commands
      /\ Key(c) \in Keys
      /\ command[Key(c)] = Null
  BY KeyIsKey DEF ChannelInv, WorkInv, ClaimInv, Claimed
<1>2. row \in CommandRow
  BY <1>1 DEF CommandRow, Outcomes
<1>3. /\ row # Null
      /\ row.hash = RequestHash(c)
      /\ row.result = status
  BY <1>2, NoRowAssumption
<1>4. command' = [command EXCEPT ![Key(c)] = row]
  BY DEF FinishCommand
<1> HIDE DEF row
<1>5. /\ command'[Key(c)] = row
      /\ \A k \in Keys \ {Key(c)} : command'[k] = command[k]
  BY <1>1, <1>4 DEF ChannelInv, ClaimInv
<1> SUFFICES ASSUME NEW r, NEW n, NEW kind, NEW result
             PROVE  Recorded(r, n, kind, result)' =
                        IF RequestHash(c) = <<kind, r, n>> /\ status = result
                        THEN Recorded(r, n, kind, result) \cup {Key(c)}
                        ELSE Recorded(r, n, kind, result)
  BY DEF RecordedThen
<1>6. \A k \in Keys : k \in Recorded(r, n, kind, result)' <=>
          \/ k \in Recorded(r, n, kind, result)
          \/ k = Key(c) /\ RequestHash(c) = <<kind, r, n>> /\ status = result
  BY <1>1, <1>3, <1>5 DEF Recorded
<1>7. Recorded(r, n, kind, result)' \subseteq Keys /\ Recorded(r, n, kind, result) \subseteq Keys
  BY DEF Recorded
<1> QED
  BY <1>1, <1>6, <1>7

\* An attempt whose outcome and whose rows stay the same stays told.
LEMMA ToldKept ==
    ASSUME NEW r \in Routes, NEW n, Told(r, n), Undecided(r, n),
           Recorded(r, n, "accept", "accepted")' = Recorded(r, n, "accept", "accepted"),
           Recorded(r, n, "complete", "completed")' = Recorded(r, n, "complete", "completed"),
           Recorded(r, n, "reject", "rejected")' = Recorded(r, n, "reject", "rejected")
    PROVE  Told(r, n)'
BY DEF Told, OneOwnCommand, Undecided, Outcomes

\* So does one that has no outcome.
LEMMA UntoldIsTold ==
    ASSUME NEW r \in Routes, NEW n, Untold(r, n)', resv'[r][n].state \notin Outcomes
    PROVE  Told(r, n)'
BY DEF Told, Untold, Outcomes

\* A step that decides nothing and writes no row that tells an outcome.
LEMMA OutcomeKept ==
    ASSUME OutcomeInv, NothingDecided,
           \A r \in Routes, n \in Nat :
               /\ Recorded(r, n, "accept", "accepted")' = Recorded(r, n, "accept", "accepted")
               /\ Recorded(r, n, "complete", "completed")' = Recorded(r, n, "complete", "completed")
               /\ Recorded(r, n, "reject", "rejected")' = Recorded(r, n, "reject", "rejected")
    PROVE  OutcomeInv'
<1> SUFFICES ASSUME NEW r \in Routes
             PROVE  /\ \A n \in Attempts(r)' : Told(r, n)'
                    /\ \A n \in Nat \ Attempts(r)' : Untold(r, n)'
  BY DEF OutcomeInv
<1>1. Attempts(r) \subseteq Nat /\ Attempts(r)' \subseteq Nat
  BY DEF Attempts
<1>2. ASSUME NEW n \in Nat \ Attempts(r) PROVE Untold(r, n)'
  BY <1>2 DEF OutcomeInv, Untold
<1>3. ASSUME NEW n \in Attempts(r)' PROVE Told(r, n)'
  <2>1. CASE n \in Attempts(r)
    BY <1>1, <2>1, ToldKept DEF OutcomeInv, NothingDecided
  <2>2. CASE n \notin Attempts(r)
    <3>1. Untold(r, n)'
      BY <1>1, <1>2, <1>3, <2>2
    <3>2. resv'[r][n].state \notin Outcomes
      BY <1>3, <2>2 DEF NothingDecided, FreshOffers, Attempts
    <3> QED
      BY <3>1, <3>2, UntoldIsTold
  <2> QED
    BY <2>1, <2>2
<1>4. \A n \in Attempts(r) : n \in Attempts(r)'
  BY DEF NothingDecided, Undecided, Attempts
<1> QED
  BY <1>2, <1>3, <1>4

\* An accept, a reject or a complete by the agent that was asked decides its
\* reservation and is the only row told of it.
LEMMA OutcomeTold ==
    ASSUME ChannelInv, OutcomeInv, NEW s \in Sessions, Addressed(s),
           NEW c, c = work[s].cmd, NEW r0, r0 = c.route, NEW n0, n0 = c.attempt,
           n0 \in Attempts(r0),
           NEW state \in Outcomes, OneDecided(r0, n0, state), FinishCommand(s, state),
           \/ state = "accepted" /\ c.kind = "accept" /\ resv[r0][n0].state = "offered"
           \/ state = "rejected" /\ c.kind = "reject" /\ resv[r0][n0].state = "offered"
           \/ state = "completed" /\ c.kind = "complete" /\ resv[r0][n0].state = "accepted"
    PROVE  OutcomeInv'
<1>1. /\ Claimed(s)
      /\ c \in Commands
      /\ r0 \in Routes
      /\ n0 \in Attempts(r0)
      /\ resv[r0][n0].agent = c.agent
  BY CommandsAssumption DEF Addressed, OwnReservation, Claimed, ChannelInv, WorkInv
<1>r. RecordedThen(c, state)
  BY <1>1, RecordedAfter
<1>2. ASSUME NEW r \in Routes, NEW n \in Nat, <<r, n>> # <<r0, n0>>
      PROVE  SameRecord(r, n)
  <2>1. \A kind : RequestHash(c) # <<kind, r, n>>
    BY <1>2 DEF RequestHash
  <2> QED
    BY <1>r, <2>1, Zenon DEF RecordedThen, SameRecord
<1>3. Told(r0, n0)'
  <2>1. Told(r0, n0)
    BY <1>1 DEF OutcomeInv
  <2>2. RequestHash(c) = <<c.kind, r0, n0>> /\ Key(c)[1] = c.agent
    BY DEF RequestHash, Key
  <2>3. resv'[r0][n0].agent = c.agent /\ resv'[r0][n0].state = state
    BY <1>1 DEF OneDecided
  <2>4. Key(c) \in Keys
    BY <1>1, KeyIsKey
  <2>5. \A kind : RequestHash(c) = <<kind, r0, n0>> <=> c.kind = kind
    BY <2>2, SMTT(30)
  <2>6. /\ \A kind, result : c.kind = kind /\ state = result =>
               Recorded(r0, n0, kind, result)' = Recorded(r0, n0, kind, result) \cup {Key(c)}
        /\ \A kind, result : ~(c.kind = kind /\ state = result) =>
               Recorded(r0, n0, kind, result)' = Recorded(r0, n0, kind, result)
    BY <1>r, <2>5, Zenon DEF RecordedThen
  <2>7. CASE state = "accepted"
    <3>1. Untold(r0, n0) /\ c.kind = "accept"
      BY <2>1, <2>7 DEF Told, Untold
    <3>2. /\ Recorded(r0, n0, "accept", "accepted")' = {Key(c)}
          /\ Recorded(r0, n0, "complete", "completed")' = {}
          /\ Recorded(r0, n0, "reject", "rejected")' = {}
      BY <2>7, <2>6, <3>1 DEF Untold
    <3>3. OneOwnCommand(r0, n0, "accept", "accepted")'
      BY <2>2, <2>3, <2>4, <3>2 DEF OneOwnCommand
    <3> QED
      BY <2>3, <2>7, <3>2, <3>3 DEF Told
  <2>8. CASE state = "rejected"
    <3>1. Untold(r0, n0) /\ c.kind = "reject"
      BY <2>1, <2>8 DEF Told, Untold
    <3>2. /\ Recorded(r0, n0, "accept", "accepted")' = {}
          /\ Recorded(r0, n0, "complete", "completed")' = {}
          /\ Recorded(r0, n0, "reject", "rejected")' = {Key(c)}
      BY <2>8, <2>6, <3>1 DEF Untold
    <3>3. OneOwnCommand(r0, n0, "reject", "rejected")'
      BY <2>2, <2>3, <2>4, <3>2 DEF OneOwnCommand
    <3> QED
      BY <2>3, <2>8, <3>2, <3>3 DEF Told
  <2>9. CASE state = "completed"
    <3>1. /\ c.kind = "complete"
          /\ resv[r0][n0].state = "accepted"
      BY <2>9
    <3>2. /\ OneOwnCommand(r0, n0, "accept", "accepted")
          /\ Recorded(r0, n0, "complete", "completed") = {}
          /\ Recorded(r0, n0, "reject", "rejected") = {}
      BY <2>1, <3>1 DEF Told
    <3>3. /\ Recorded(r0, n0, "accept", "accepted")' = Recorded(r0, n0, "accept", "accepted")
          /\ Recorded(r0, n0, "complete", "completed")' = {Key(c)}
          /\ Recorded(r0, n0, "reject", "rejected")' = {}
      BY <2>9, <2>6, <3>1, <3>2
    <3>4. OneOwnCommand(r0, n0, "accept", "accepted")'
      <4>1. PICK k \in Keys : /\ Recorded(r0, n0, "accept", "accepted") = {k}
                              /\ k[1] = resv[r0][n0].agent
        BY <3>2 DEF OneOwnCommand
      <4>2. /\ Recorded(r0, n0, "accept", "accepted")' = {k}
            /\ k[1] = resv'[r0][n0].agent
        BY <1>1, <2>3, <3>3, <4>1
      <4> QED
        BY <4>2 DEF OneOwnCommand
    <3>5. OneOwnCommand(r0, n0, "complete", "completed")'
      BY <2>2, <2>3, <2>4, <3>3 DEF OneOwnCommand
    <3> QED
      BY <2>3, <2>9, <3>3, <3>4, <3>5 DEF Told
  <2> QED
    BY <2>7, <2>8, <2>9 DEF Outcomes
<1>4. \A r \in Routes : /\ \A n \in Attempts(r) : <<r, n>> # <<r0, n0>> => Undecided(r, n)
                        /\ FreshOffers(r)
  BY DEF OneDecided
<1> SUFFICES ASSUME NEW r \in Routes
             PROVE  /\ \A n \in Attempts(r)' : Told(r, n)'
                    /\ \A n \in Nat \ Attempts(r)' : Untold(r, n)'
  BY DEF OutcomeInv
<1>5. Attempts(r) \subseteq Nat /\ Attempts(r)' \subseteq Nat
  BY SMTT(30) DEF Attempts
<1>6. ASSUME NEW n \in Nat \ Attempts(r) PROVE Untold(r, n)'
  <2>1. Untold(r, n) /\ <<r, n>> # <<r0, n0>>
    BY <1>1, <1>6 DEF OutcomeInv
  <2>2. SameRecord(r, n)
    BY <1>2, <1>6, <2>1
  <2> QED
    BY <2>1, <2>2, Zenon DEF Untold, SameRecord
<1>7. ASSUME NEW n \in Attempts(r)' PROVE Told(r, n)'
  <2>1. CASE <<r, n>> = <<r0, n0>>
    BY <1>3, <2>1
  <2>2. CASE n \in Attempts(r) /\ <<r, n>> # <<r0, n0>>
    <3>1. SameRecord(r, n) /\ Undecided(r, n)
      BY <1>2, <1>4, <1>5, <2>2
    <3>2. Told(r, n)
      BY <2>2 DEF OutcomeInv
    <3> QED
      BY <3>1, <3>2, ToldKept, Zenon DEF SameRecord
  <2>3. CASE n \notin Attempts(r)
    <3>1. Untold(r, n)'
      BY <1>5, <1>6, <1>7, <2>3
    <3>2. resv'[r][n].state \notin Outcomes
      BY <1>4, <1>7, <2>3 DEF FreshOffers, Attempts
    <3> QED
      BY <3>1, <3>2, UntoldIsTold
  <2> QED
    BY <2>1, <2>2, <2>3
<1>8. ASSUME NEW n \in Nat \ Attempts(r)' PROVE Untold(r, n)'
  <2>1. CASE n \notin Attempts(r)
    BY <1>6, <2>1
  <2>2. CASE n \in Attempts(r)
    <3>1. <<r, n>> = <<r0, n0>>
      BY <1>4, <1>8, <2>2 DEF Undecided, Attempts
    <3> QED
      BY <1>8, <3>1 DEF OneDecided, Attempts
  <2> QED
    BY <2>1, <2>2
<1> QED
  BY <1>7, <1>8

\* A transaction that leaves the reservations alone, and what it records is no
\* outcome, changes no story.
LEMMA NoOutcomeRecorded ==
    ASSUME ChannelInv, OutcomeInv, UNCHANGED resv,
           \/ UNCHANGED command
           \/ \E s \in Sessions,
                 status \in {"conflict", "not_found", "not_owner", "lease_mismatch"} :
                  Claimed(s) /\ FinishCommand(s, status)
    PROVE  OutcomeInv'
<1>1. NothingDecided
  BY DEF NothingDecided, Undecided, FreshOffers, Attempts
<1>2. CASE UNCHANGED command
  BY <1>1, <1>2, OutcomeKept DEF Recorded
<1>3. ASSUME NEW s \in Sessions,
             NEW status \in {"conflict", "not_found", "not_owner", "lease_mismatch"},
             Claimed(s), FinishCommand(s, status)
      PROVE  OutcomeInv'
  <2>1. status \notin Outcomes
    BY DEF Outcomes
  <2>r. RecordedThen(work[s].cmd, status)
    BY <1>3, RecordedAfter
  <2>2. \A r, n, kind : \A result \in Outcomes :
            Recorded(r, n, kind, result)' = Recorded(r, n, kind, result)
    BY <1>3, <2>1, <2>r, Zenon DEF RecordedThen
  <2>3. {"accepted", "rejected", "completed"} \subseteq Outcomes
    BY DEF Outcomes
  <2> QED
    BY <1>1, <2>2, <2>3, OutcomeKept
<1> QED
  BY <1>2, <1>3

\* Completing decides the accepted reservation and no other.
LEMMA CompleteDecides ==
    ASSUME IInv, NEW r \in Routes, NEW n \in Attempts(r), CompleteReservation(r, n)
    PROVE  OneDecided(r, n, "completed")
<1> DEFINE rs == Resolve(r, n, "completed")
<1>1. "completed" \in Active \cup Resolved
  BY DEF Active
<1>2. /\ Len(rs) = Len(resv[r])
      /\ \A i \in Attempts(r) :
             /\ rs[i].agent = resv[r][i].agent
             /\ rs[i].state = IF i = n THEN "completed" ELSE resv[r][i].state
  BY <1>1, ResolveShape DEF IInv
<1>3. resv' = [resv EXCEPT ![r] = rs]
  BY DEF CompleteReservation
<1> HIDE DEF rs
<1>4. /\ resv'[r] = rs
      /\ \A q \in Routes \ {r} : resv'[q] = resv[q]
  BY <1>3 DEF IInv, TypeOK
<1> QED
  BY <1>2, <1>4 DEF OneDecided, Undecided, FreshOffers, Attempts

\* Accepting, and rejecting, decides the offered reservation and no other.
LEMMA AcceptDecides ==
    ASSUME IInv, NEW r \in Routes, NEW n \in Attempts(r), AcceptReservation(r, n)
    PROVE  /\ OneDecided(r, n, "accepted")
           /\ resv[r][n].state = "offered"
           /\ resv[r][n].state \notin Outcomes
<1>1. /\ OnOffer(r, n)
      /\ RunFlow(r, "accepted", FALSE, Resolve(r, n, "accepted"),
                 Confirm(slots, <<r, n>>), timers)
  BY DEF AcceptReservation, Resume
<1>2. Confirm(slots, <<r, n>>) \in SlotTable
  BY ConfirmTable DEF IInv, TypeOK
<1>3. OneDecided(r, n, "accepted")
  BY <1>1, <1>2, AnswerDecides
<1> QED
  BY <1>1, <1>3 DEF Outcomes, OnOffer

LEMMA RejectDecides ==
    ASSUME IInv, NEW r \in Routes, NEW n \in Attempts(r), RejectReservation(r, n)
    PROVE  /\ OneDecided(r, n, "rejected")
           /\ resv[r][n].state = "offered"
           /\ resv[r][n].state \notin Outcomes
<1>1. /\ OnOffer(r, n)
      /\ RunFlow(r, "rejected", FALSE, Resolve(r, n, "rejected"),
                 Release(slots, <<r, n>>), timers)
  BY DEF RejectReservation, Resume
<1>2. Release(slots, <<r, n>>) \in SlotTable
  BY ReleaseTable DEF IInv, TypeOK
<1>3. OneDecided(r, n, "rejected")
  BY <1>1, <1>2, AnswerDecides
<1> QED
  BY <1>1, <1>3 DEF Outcomes, OnOffer

\* Every step of the channel keeps rows and reservations in agreement.
LEMMA OutcomeStep ==
    IInv /\ ChannelInv /\ OutcomeInv /\ [CommandNext]_commandVars => OutcomeInv'
<1> SUFFICES ASSUME IInv, ChannelInv, OutcomeInv, [CommandNext]_commandVars
             PROVE  OutcomeInv'
  OBVIOUS
<1>1. CASE EngineStep /\ UNCHANGED channel
  <2>1. NothingDecided
    BY <1>1, EngineDecidesNothing
  <2>2. UNCHANGED command
    BY <1>1 DEF channel
  <2> QED
    BY <2>1, <2>2, OutcomeKept DEF Recorded
<1>2. ASSUME NEW s \in Sessions,
             \/ \E a \in Agents : OpenSession(s, a)
             \/ CloseSession(s) \/ RevokeSession(s)
             \/ \E c \in Commands : ReceiveCommand(s, c)
             \/ ReplayCommand(s) \/ RefuseCommand(s)
             \/ BeginCommand(s) \/ AbortCommand(s)
      PROVE  OutcomeInv'
  <2>1. UNCHANGED <<resv, command>>
    BY <1>2 DEF OpenSession, CloseSession, RevokeSession, ReceiveCommand,
                ReplayCommand, RefuseCommand, BeginCommand, AbortCommand, engine
  <2> QED
    BY <2>1, NoOutcomeRecorded
<1>3. ASSUME NEW s \in Sessions, MisaddressedCommand(s) \/ ConflictingCommand(s)
      PROVE  OutcomeInv'
  <2>1. /\ Claimed(s)
        /\ UNCHANGED resv
        /\ \/ FinishCommand(s, "not_found") \/ FinishCommand(s, "not_owner")
           \/ FinishCommand(s, "lease_mismatch") \/ FinishCommand(s, "conflict")
    BY <1>3 DEF MisaddressedCommand, ConflictingCommand, Addressed, RollbackToSavepoint, engine
  <2> QED
    BY <2>1, NoOutcomeRecorded
<1>4. ASSUME NEW s \in Sessions,
             AcceptCommand(s) \/ RejectCommand(s) \/ CompleteCommand(s)
      PROVE  OutcomeInv'
  <2> PICK c : c = work[s].cmd
    OBVIOUS
  <2> PICK r0 : r0 = c.route
    OBVIOUS
  <2> PICK n0 : n0 = c.attempt
    OBVIOUS
  <2>1. Addressed(s)
    BY <1>4 DEF AcceptCommand, RejectCommand, CompleteCommand
  <2>2. /\ r0 \in Routes
        /\ n0 \in Attempts(r0)
    BY <2>1, CommandsAssumption DEF Addressed, OwnReservation, Claimed, ChannelInv, WorkInv
  <2>3. CASE AcceptCommand(s)
    <3>1. /\ c.kind = "accept"
          /\ AcceptReservation(r0, n0)
          /\ FinishCommand(s, "accepted")
      BY <2>3 DEF AcceptCommand
    <3>2. OneDecided(r0, n0, "accepted") /\ resv[r0][n0].state = "offered"
      BY <2>2, <3>1, AcceptDecides
    <3>3. "accepted" \in Outcomes
      BY DEF Outcomes
    <3> QED
      BY <2>1, <2>2, <3>1, <3>2, <3>3, OutcomeTold
  <2>4. CASE RejectCommand(s)
    <3>1. /\ c.kind = "reject"
          /\ RejectReservation(r0, n0)
          /\ FinishCommand(s, "rejected")
      BY <2>4 DEF RejectCommand
    <3>2. OneDecided(r0, n0, "rejected") /\ resv[r0][n0].state = "offered"
      BY <2>2, <3>1, RejectDecides
    <3>3. "rejected" \in Outcomes
      BY DEF Outcomes
    <3> QED
      BY <2>1, <2>2, <3>1, <3>2, <3>3, OutcomeTold
  <2>5. CASE CompleteCommand(s)
    <3>1. /\ c.kind = "complete"
          /\ CompleteReservation(r0, n0)
          /\ FinishCommand(s, "completed")
      BY <2>5 DEF CompleteCommand
    <3>2. OneDecided(r0, n0, "completed")
      BY <2>2, <3>1, CompleteDecides
    <3>3. "completed" \in Outcomes /\ resv[r0][n0].state = "accepted"
      BY <3>1 DEF Outcomes, CompleteReservation
    <3> QED
      BY <2>1, <2>2, <3>1, <3>2, <3>3, OutcomeTold
  <2> QED
    BY <1>4, <2>3, <2>4, <2>5
<1>5. CASE UNCHANGED commandVars
  BY <1>5, NoOutcomeRecorded DEF commandVars, engine, channel
<1> QED
  BY <1>1, <1>2, <1>3, <1>4, <1>5 DEF CommandNext

\* At first nothing is told: there is no row and no attempt.
LEMMA OutcomeInit == CommandInit => OutcomeInv
<1> SUFFICES ASSUME CommandInit PROVE OutcomeInv
  OBVIOUS
<1>1. \A r \in Routes : Attempts(r) = {}
  BY DEF CommandInit, Attempts
<1>2. \A r, n, kind, result : Recorded(r, n, kind, result) = {}
  BY DEF CommandInit, Recorded
<1> QED
  BY <1>1, <1>2 DEF OutcomeInv, Untold

\* The command rows and the reservations tell one story: each outcome is recorded
\* for exactly one command, of the agent who was asked, and no row claims an
\* outcome that its reservation does not have.
THEOREM OutcomesAreRecorded == CommandSpec => []OutcomeIsRecorded
<1>1. CommandSpec => []OutcomeInv
  BY CommandInvariance, OutcomeInit, OutcomeStep, PTL DEF CommandSpec
<1>2. OutcomeInv => OutcomeIsRecorded
  BY DEF OutcomeInv, OutcomeIsRecorded, Told
<1> QED
  BY <1>1, <1>2, PTL

-----------------------------------------------------------------------------
(* The channel implements CommandOnce *)

\* The members of Decisions.
LEMMA DecisionsAre ==
    ASSUME NEW d
    PROVE  d \in Decisions <=>
               \E r \in Routes : \E n \in Attempts(r) :
                   resv[r][n].state \in Outcomes /\ d = DecidedAs(r, n)
BY DEF Decisions

LEMMA DecisionsAreThen ==
    ASSUME NEW d
    PROVE  d \in Decisions' <=>
               \E r \in Routes : \E n \in Attempts(r)' :
                   resv'[r][n].state \in Outcomes /\ d = DecidedAs(r, n)'
BY DEF Decisions

\* A decision names its attempt.
LEMMA DecisionNames ==
    ASSUME NEW r, NEW n
    PROVE  DecidedAs(r, n)[1] = r /\ DecidedAs(r, n)[2] = n
BY DEF DecidedAs

\* What is undecided by a step was decided alike before it, or not at all.
LEMMA UndecidedSame ==
    ASSUME NEW r \in Routes, NEW n \in Attempts(r), Undecided(r, n)
    PROVE  /\ n \in Attempts(r)'
           /\ resv'[r][n].state \in Outcomes <=> resv[r][n].state \in Outcomes
           /\ resv[r][n].state \in Outcomes => DecidedAs(r, n)' = DecidedAs(r, n)
BY DEF Undecided, DecidedAs, Attempts

\* A step that decides nothing leaves the decisions alone.
LEMMA DecisionsKept ==
    ASSUME NothingDecided
    PROVE  Decisions' = Decisions
<1>1. ASSUME NEW r \in Routes, NEW n \in Attempts(r)
      PROVE  Undecided(r, n)
  BY <1>1 DEF NothingDecided
<1>2. ASSUME NEW r \in Routes, NEW n \in Attempts(r)', resv'[r][n].state \in Outcomes
      PROVE  n \in Attempts(r)
  BY <1>2 DEF NothingDecided, FreshOffers, Attempts
<1>3. ASSUME NEW d PROVE d \in Decisions' <=> d \in Decisions
  <2>1. ASSUME d \in Decisions PROVE d \in Decisions'
    <3>1. PICK r \in Routes : \E n \in Attempts(r) :
                   resv[r][n].state \in Outcomes /\ d = DecidedAs(r, n)
      BY <2>1, DecisionsAre, Zenon
    <3>2. PICK n \in Attempts(r) : resv[r][n].state \in Outcomes /\ d = DecidedAs(r, n)
      BY <3>1
    <3>3. n \in Attempts(r)' /\ resv'[r][n].state \in Outcomes /\ d = DecidedAs(r, n)'
      BY <1>1, <3>2, UndecidedSame
    <3> QED
      BY <3>3, DecisionsAreThen, Zenon
  <2>2. ASSUME d \in Decisions' PROVE d \in Decisions
    <3>1. PICK r \in Routes : \E n \in Attempts(r)' :
                   resv'[r][n].state \in Outcomes /\ d = DecidedAs(r, n)'
      BY <2>2, DecisionsAreThen, Zenon
    <3>2. PICK n \in Attempts(r)' : resv'[r][n].state \in Outcomes /\ d = DecidedAs(r, n)'
      BY <3>1
    <3>3. n \in Attempts(r)
      BY <1>2, <3>2
    <3>4. resv[r][n].state \in Outcomes /\ d = DecidedAs(r, n)
      BY <1>1, <3>2, <3>3, UndecidedSame
    <3> QED
      BY <3>3, <3>4, DecisionsAre, Zenon
  <2> QED
    BY <2>1, <2>2
<1> QED
  BY <1>3

\* A step that decides one reservation leaves the other decisions alone.
LEMMA OthersKept ==
    ASSUME NEW r0 \in Routes, NEW n0 \in Attempts(r0), NEW state,
           OneDecided(r0, n0, state),
           NEW d, <<d[1], d[2]>> # <<r0, n0>>
    PROVE  d \in Decisions' <=> d \in Decisions
<1>1. ASSUME NEW r \in Routes, NEW n \in Attempts(r), <<r, n>> # <<r0, n0>>
      PROVE  Undecided(r, n)
  BY <1>1 DEF OneDecided
<1>2. ASSUME NEW r \in Routes, NEW n \in Attempts(r)', resv'[r][n].state \in Outcomes
      PROVE  n \in Attempts(r)
  BY <1>2 DEF OneDecided, FreshOffers, Attempts
<1>3. \A r, n : d = DecidedAs(r, n) => <<r, n>> # <<r0, n0>>
  BY DecisionNames
<1>4. \A r, n : d = DecidedAs(r, n)' => <<r, n>> # <<r0, n0>>
  BY DEF DecidedAs
<1>5. ASSUME d \in Decisions PROVE d \in Decisions'
  <2>1. PICK r \in Routes : \E n \in Attempts(r) :
                 resv[r][n].state \in Outcomes /\ d = DecidedAs(r, n)
    BY <1>5, DecisionsAre, Zenon
  <2>2. PICK n \in Attempts(r) : resv[r][n].state \in Outcomes /\ d = DecidedAs(r, n)
    BY <2>1
  <2>3. Undecided(r, n)
    BY <1>1, <1>3, <2>2
  <2>4. n \in Attempts(r)' /\ resv'[r][n].state \in Outcomes /\ d = DecidedAs(r, n)'
    BY <2>2, <2>3, UndecidedSame
  <2> QED
    BY <2>4, DecisionsAreThen, Zenon
<1>6. ASSUME d \in Decisions' PROVE d \in Decisions
  <2>1. PICK r \in Routes : \E n \in Attempts(r)' :
                 resv'[r][n].state \in Outcomes /\ d = DecidedAs(r, n)'
    BY <1>6, DecisionsAreThen, Zenon
  <2>2. PICK n \in Attempts(r)' : resv'[r][n].state \in Outcomes /\ d = DecidedAs(r, n)'
    BY <2>1
  <2>3. n \in Attempts(r) /\ Undecided(r, n)
    BY <1>1, <1>2, <1>4, <2>2
  <2>4. resv[r][n].state \in Outcomes /\ d = DecidedAs(r, n)
    BY <2>2, <2>3, UndecidedSame
  <2> QED
    BY <2>3, <2>4, DecisionsAre, Zenon
<1> QED
  BY <1>5, <1>6

\* What is decided of one attempt is what its row says.
LEMMA DecisionOf ==
    ASSUME NEW r \in Routes, NEW n \in Attempts(r), NEW d, <<d[1], d[2]>> = <<r, n>>
    PROVE  d \in Decisions <=> resv[r][n].state \in Outcomes /\ d = DecidedAs(r, n)
<1>1. ASSUME d \in Decisions
      PROVE  resv[r][n].state \in Outcomes /\ d = DecidedAs(r, n)
  <2>1. PICK q \in Routes : \E m \in Attempts(q) :
                 resv[q][m].state \in Outcomes /\ d = DecidedAs(q, m)
    BY <1>1, DecisionsAre, Zenon
  <2>2. PICK m \in Attempts(q) : resv[q][m].state \in Outcomes /\ d = DecidedAs(q, m)
    BY <2>1
  <2>3. q = r /\ m = n
    BY <2>2, DecisionNames
  <2> QED
    BY <2>2, <2>3
<1> QED
  BY <1>1, DecisionsAre, Zenon

LEMMA DecisionOfThen ==
    ASSUME NEW r \in Routes, NEW n \in Attempts(r)', NEW d, <<d[1], d[2]>> = <<r, n>>
    PROVE  d \in Decisions' <=> resv'[r][n].state \in Outcomes /\ d = DecidedAs(r, n)'
<1>1. ASSUME d \in Decisions'
      PROVE  resv'[r][n].state \in Outcomes /\ d = DecidedAs(r, n)'
  <2>1. PICK q \in Routes : \E m \in Attempts(q)' :
                 resv'[q][m].state \in Outcomes /\ d = DecidedAs(q, m)'
    BY <1>1, DecisionsAreThen, Zenon
  <2>2. PICK m \in Attempts(q)' : resv'[q][m].state \in Outcomes /\ d = DecidedAs(q, m)'
    BY <2>1
  <2>3. q = r /\ m = n
    BY <2>2 DEF DecidedAs
  <2> QED
    BY <2>2, <2>3
<1> QED
  BY <1>1, DecisionsAreThen, Zenon

\* A decision of c's reservation, for its agent.
LEMMA DecisionIs ==
    ASSUME NEW c, NEW state
    PROVE  O!Decision(Key(c), RequestHash(c), state)
               = <<c.route, c.attempt, c.agent, state>>
BY DEF O!Decision, Key, RequestHash

\* Committing a command's row and answer is its one moment.
LEMMA FinishSettles ==
    ASSUME ChannelInv, NEW s \in Sessions, Claimed(s), NEW status,
           FinishCommand(s, status)
    PROVE  O!Settle(Key(work[s].cmd), RequestHash(work[s].cmd), status)
<1>1. command[Key(work[s].cmd)] = Null
  BY DEF ChannelInv, ClaimInv
<1> QED
  BY <1>1, Zenon DEF O!Settle, O!Tell, FinishCommand, Answer

\* Accepting or rejecting adds the decision, where there was none.
LEMMA AnswerMaps ==
    ASSUME ChannelInv, NEW s \in Sessions, Addressed(s),
           NEW c, c = work[s].cmd, NEW r0 \in Routes, r0 = c.route,
           NEW n0 \in Attempts(r0), n0 = c.attempt,
           NEW state \in Outcomes, OneDecided(r0, n0, state),
           resv[r0][n0].state \notin Outcomes,
           FinishCommand(s, state),
           NEW kind, c.kind = kind
    PROVE  O!Answer(Key(c), RequestHash(c), kind, state)
<1> DEFINE D == <<r0, n0, c.agent, state>>
<1>1. Claimed(s) /\ resv[r0][n0].agent = c.agent
  BY DEF Addressed, OwnReservation
<1>2. /\ n0 \in Attempts(r0)'
      /\ resv'[r0][n0].state = state
      /\ DecidedAs(r0, n0)' = D
  BY <1>1 DEF OneDecided, DecidedAs, Attempts
<1>3. D[1] = r0 /\ D[2] = n0
  OBVIOUS
<1>4. O!Decision(Key(c), RequestHash(c), state) = D
  BY DecisionIs
<1>5. RequestHash(c)[1] = kind /\ RequestHash(c)[2] = r0 /\ RequestHash(c)[3] = n0
  BY DEF RequestHash
<1> HIDE DEF D
<1>6. \A d \in Decisions : <<d[1], d[2]>> # <<r0, n0>>
  BY DecisionOf
<1>7. Decisions' = Decisions \cup {D}
  <2>1. ASSUME NEW d, <<d[1], d[2]>> # <<r0, n0>>
        PROVE  d \in Decisions' <=> d \in Decisions \cup {D}
    BY <1>3, <2>1, OthersKept
  <2>2. ASSUME NEW d, <<d[1], d[2]>> = <<r0, n0>>
        PROVE  d \in Decisions' <=> d \in Decisions \cup {D}
    BY <1>2, <1>6, <2>2, DecisionOfThen
  <2> QED
    BY <2>1, <2>2, Zenon
<1>8. O!Settle(Key(c), RequestHash(c), state)
  BY <1>1, FinishSettles
<1> QED
  BY <1>4, <1>5, <1>6, <1>7, <1>8 DEF O!Answer

\* Completing replaces the decision its agent's accept made.
LEMMA CompletionMaps ==
    ASSUME ChannelInv, NEW s \in Sessions, Addressed(s),
           NEW c, c = work[s].cmd, NEW r0 \in Routes, r0 = c.route,
           NEW n0 \in Attempts(r0), n0 = c.attempt,
           OneDecided(r0, n0, "completed"), resv[r0][n0].state = "accepted",
           FinishCommand(s, "completed"), c.kind = "complete"
    PROVE  O!Complete(Key(c), RequestHash(c))
<1> DEFINE D == <<r0, n0, c.agent, "accepted">>
           E == <<r0, n0, c.agent, "completed">>
<1>1. Claimed(s) /\ resv[r0][n0].agent = c.agent
  BY DEF Addressed, OwnReservation
<1>2. /\ n0 \in Attempts(r0)'
      /\ resv'[r0][n0].state \in Outcomes
      /\ DecidedAs(r0, n0)' = E
  BY <1>1 DEF OneDecided, DecidedAs, Attempts, Outcomes
<1>3. /\ resv[r0][n0].state \in Outcomes
      /\ DecidedAs(r0, n0) = D
  BY <1>1 DEF DecidedAs, Outcomes
<1>4. D[1] = r0 /\ D[2] = n0 /\ E[1] = r0 /\ E[2] = n0
  OBVIOUS
<1>5. /\ O!Decision(Key(c), RequestHash(c), "accepted") = D
      /\ O!Decision(Key(c), RequestHash(c), "completed") = E
  BY DecisionIs
<1>6. RequestHash(c)[1] = "complete"
  BY DEF RequestHash
<1> HIDE DEF D, E
<1>7. D \in Decisions
  BY <1>3, <1>4, DecisionOf
<1>8. Decisions' = (Decisions \ {D}) \cup {E}
  <2>1. ASSUME NEW d, <<d[1], d[2]>> # <<r0, n0>>
        PROVE  d \in Decisions' <=> d \in (Decisions \ {D}) \cup {E}
    BY <1>4, <2>1, OthersKept
  <2>2. ASSUME NEW d, <<d[1], d[2]>> = <<r0, n0>>
        PROVE  d \in Decisions' <=> d \in (Decisions \ {D}) \cup {E}
    <3>1. d \in Decisions <=> d = D
      BY <1>3, <2>2, DecisionOf
    <3>2. d \in Decisions' <=> d = E
      BY <1>2, <2>2, DecisionOfThen
    <3> QED
      BY <3>1, <3>2
  <2> QED
    BY <2>1, <2>2, Zenon
<1>9. O!Settle(Key(c), RequestHash(c), "completed")
  BY <1>1, FinishSettles
<1> QED
  BY <1>5, <1>6, <1>7, <1>8, <1>9 DEF O!Complete

\* Every frame a client sends is one of the commands.
LEMMA SentCommand ==
    ASSUME NEW c \in Commands,
           \/ O!Answer(Key(c), RequestHash(c), "accept", "accepted")
           \/ O!Answer(Key(c), RequestHash(c), "reject", "rejected")
           \/ O!Complete(Key(c), RequestHash(c))
           \/ O!Refuse(Key(c), RequestHash(c))
           \/ O!Repeat(Key(c), RequestHash(c))
           \/ O!TurnAway(Key(c), RequestHash(c))
    PROVE  O!ONext
<1> DEFINE f == <<Key(c), RequestHash(c)>>
<1>1. f \in {<<Key(d), RequestHash(d)>> : d \in Commands}
  OBVIOUS
<1>2. f[1] = Key(c) /\ f[2] = RequestHash(c)
  OBVIOUS
<1> HIDE DEF f
<1> QED
  BY <1>1, <1>2, Zenon DEF O!ONext

\* The decisions stay as they are where the reservations do.
LEMMA SameDecisions ==
    ASSUME UNCHANGED resv
    PROVE  UNCHANGED Decisions
BY DecisionsKept DEF NothingDecided, Undecided, FreshOffers, Attempts

\* Every step of the channel decides one command, repeats an answer, or neither
\* decides nor answers.
LEMMA CommandStepMaps ==
    IInv /\ ChannelInv /\ [CommandNext]_commandVars => [O!ONext]_(O!ovars)
<1> SUFFICES ASSUME IInv, ChannelInv, [CommandNext]_commandVars
             PROVE  O!ONext \/ UNCHANGED O!ovars
  OBVIOUS
<1>1. ASSUME NEW s \in Sessions, work[s] # Null PROVE work[s].cmd \in Commands
  BY <1>1 DEF ChannelInv, WorkInv
<1>2. CASE EngineStep /\ UNCHANGED channel
  <2>1. UNCHANGED Decisions
    BY <1>2, EngineDecidesNothing, DecisionsKept
  <2> QED
    BY <1>2, <2>1 DEF channel, O!ovars
<1>3. ASSUME NEW s \in Sessions,
             \/ \E a \in Agents : OpenSession(s, a)
             \/ CloseSession(s) \/ RevokeSession(s)
             \/ \E c \in Commands : ReceiveCommand(s, c)
             \/ BeginCommand(s) \/ AbortCommand(s)
      PROVE  UNCHANGED O!ovars
  <2>1. UNCHANGED <<resv, command, answers>>
    BY <1>3 DEF OpenSession, CloseSession, RevokeSession, ReceiveCommand,
                BeginCommand, AbortCommand, engine
  <2> QED
    BY <2>1, SameDecisions DEF O!ovars
<1>4. ASSUME NEW s \in Sessions, ReplayCommand(s) PROVE O!ONext
  <2> DEFINE c == work[s].cmd
  <2>1. /\ command[Key(c)] # Null
        /\ Answer(s, c, IF command[Key(c)].hash = RequestHash(c)
                        THEN command[Key(c)].result ELSE "reused_id")
        /\ UNCHANGED <<engine, command>>
        /\ c \in Commands
    BY <1>1, <1>4 DEF ReplayCommand
  <2>2. UNCHANGED Decisions
    BY <2>1, SameDecisions DEF engine
  <2> HIDE DEF c
  <2>3. O!Repeat(Key(c), RequestHash(c))
    BY <2>1, <2>2, Zenon DEF O!Repeat, O!Tell, Answer
  <2> QED
    BY <2>1, <2>3, SentCommand
<1>5. ASSUME NEW s \in Sessions, RefuseCommand(s) PROVE O!ONext
  <2> DEFINE c == work[s].cmd
  <2>1. /\ command[Key(c)] = Null
        /\ Answer(s, c, "session_revoked")
        /\ UNCHANGED <<engine, command>>
        /\ c \in Commands
    BY <1>1, <1>5 DEF RefuseCommand
  <2>2. UNCHANGED Decisions
    BY <2>1, SameDecisions DEF engine
  <2> HIDE DEF c
  <2>3. O!TurnAway(Key(c), RequestHash(c))
    BY <2>1, <2>2, Zenon DEF O!TurnAway, O!Tell, Answer
  <2> QED
    BY <2>1, <2>3, SentCommand
<1>6. ASSUME NEW s \in Sessions, MisaddressedCommand(s) \/ ConflictingCommand(s)
      PROVE  O!ONext
  <2>1. /\ Claimed(s)
        /\ UNCHANGED resv
        /\ \E status \in {"conflict", "not_found", "not_owner", "lease_mismatch"} :
               FinishCommand(s, status)
    BY <1>6 DEF MisaddressedCommand, ConflictingCommand, Addressed, RollbackToSavepoint, engine
  <2>2. work[s].cmd \in Commands
    BY <1>1, <2>1 DEF Claimed
  <2>3. O!Refuse(Key(work[s].cmd), RequestHash(work[s].cmd))
    BY <2>1, FinishSettles, SameDecisions DEF O!Refuse
  <2> QED
    BY <2>2, <2>3, SentCommand
<1>7. ASSUME NEW s \in Sessions,
             AcceptCommand(s) \/ RejectCommand(s) \/ CompleteCommand(s)
      PROVE  O!ONext
  <2> PICK c : c = work[s].cmd
    OBVIOUS
  <2> PICK r0 : r0 = c.route
    OBVIOUS
  <2> PICK n0 : n0 = c.attempt
    OBVIOUS
  <2>1. Addressed(s)
    BY <1>7 DEF AcceptCommand, RejectCommand, CompleteCommand
  <2>2. /\ r0 \in Routes
        /\ n0 \in Attempts(r0)
        /\ c \in Commands
    BY <2>1, CommandsAssumption DEF Addressed, OwnReservation, Claimed, ChannelInv, WorkInv
  <2>3. CASE AcceptCommand(s)
    <3>1. /\ c.kind = "accept"
          /\ AcceptReservation(r0, n0)
          /\ FinishCommand(s, "accepted")
      BY <2>3 DEF AcceptCommand
    <3>2. OneDecided(r0, n0, "accepted") /\ resv[r0][n0].state \notin Outcomes
      BY <2>2, <3>1, AcceptDecides
    <3>3. "accepted" \in Outcomes
      BY DEF Outcomes
    <3>4. O!Answer(Key(c), RequestHash(c), "accept", "accepted")
      BY <2>1, <2>2, <3>1, <3>2, <3>3, AnswerMaps
    <3> QED
      BY <2>2, <3>4, SentCommand
  <2>4. CASE RejectCommand(s)
    <3>1. /\ c.kind = "reject"
          /\ RejectReservation(r0, n0)
          /\ FinishCommand(s, "rejected")
      BY <2>4 DEF RejectCommand
    <3>2. OneDecided(r0, n0, "rejected") /\ resv[r0][n0].state \notin Outcomes
      BY <2>2, <3>1, RejectDecides
    <3>3. "rejected" \in Outcomes
      BY DEF Outcomes
    <3>4. O!Answer(Key(c), RequestHash(c), "reject", "rejected")
      BY <2>1, <2>2, <3>1, <3>2, <3>3, AnswerMaps
    <3> QED
      BY <2>2, <3>4, SentCommand
  <2>5. CASE CompleteCommand(s)
    <3>1. /\ c.kind = "complete"
          /\ CompleteReservation(r0, n0)
          /\ FinishCommand(s, "completed")
      BY <2>5 DEF CompleteCommand
    <3>2. OneDecided(r0, n0, "completed") /\ resv[r0][n0].state = "accepted"
      BY <2>2, <3>1, CompleteDecides DEF CompleteReservation
    <3>3. O!Complete(Key(c), RequestHash(c))
      BY <2>1, <2>2, <3>1, <3>2, CompletionMaps
    <3> QED
      BY <2>2, <3>3, SentCommand
  <2> QED
    BY <1>7, <2>3, <2>4, <2>5
<1>8. CASE UNCHANGED commandVars
  BY <1>8, SameDecisions DEF commandVars, engine, channel, O!ovars
<1> QED
  BY <1>2, <1>3, <1>4, <1>5, <1>6, <1>7, <1>8 DEF CommandNext

\* The agents' channel implements CommandOnce: over any number of connections, with
\* any repetition, abort and revocation, and while offers time out and are swept
\* beside it, every command is decided at one moment, once, by the agent who was
\* asked, and no decision is taken back.
THEOREM ChannelDecidesOnce == CommandSpec => CommandsAreDecidedOnce
<1>1. CommandInit => O!OInit
  <2> SUFFICES ASSUME CommandInit PROVE O!OInit
    OBVIOUS
  <2>1. \A r \in Routes : Attempts(r) = {}
    BY DEF CommandInit, Attempts
  <2>2. Decisions = {}
    BY <2>1, DecisionsAre
  <2> QED
    BY <2>2 DEF CommandInit, O!OInit
<1> QED
  BY <1>1, CommandInvariance, CommandStepMaps, PTL
     DEF CommandSpec, CommandsAreDecidedOnce, O!OSpec

-----------------------------------------------------------------------------
(* The channel implements the engine *)

\* Every transaction of the channel is one of the engine's or touches none of its
\* tables: the channel adds no way to change them.
THEOREM ChannelStepsAreTheEngines == CommandSpec => [][Next]_vars
<1>1. ChannelInv /\ [CommandNext]_commandVars => [Next]_vars
  BY CommandStepIsEngineStep DEF ChannelInv, WorkInv
<1> QED
  BY <1>1, CommandInvariance, PTL DEF CommandSpec

\* At first no slot is held and nobody was asked.
LEMMA CommandStart == CommandInit => SlotInv /\ A!AInit
<1> SUFFICES ASSUME CommandInit PROVE SlotInv /\ A!AInit
  OBVIOUS
<1>1. \A r \in Routes : resv[r] = <<>> /\ route[r].status = "none" /\ 1..Len(resv[r]) = {}
  BY DEF CommandInit, NoRoute
<1>2. \A a \in Agents, k \in SlotNos : slots[a][k].holder = Null
  BY DEF CommandInit, FreeSlot
<1>3. SlotInv
  BY <1>1, <1>2, NullIsNoHolder DEF SlotInv, SlotsAgree, Fits, Keeping, OneSlot, OffersRing
<1>4. \A r \in Routes : /\ OfferedAgents(resv[r]) = {}
                        /\ AgentOf(r, {"offered"}) = Null
                        /\ AgentOf(r, {"accepted", "completed"}) = Null
                        /\ ~ InState(r, "accepted")
                        /\ route[r].status \notin Terminal
  BY <1>1 DEF OfferedAgents, AgentOf, AgentsIn, InState, Attempts, Terminal
<1>5. A!AInit
  BY <1>4 DEF A!AInit
<1> QED
  BY <1>3, <1>5

\* The agents' channel keeps the engine's promises: however commands are repeated
\* and misdirected, a route asks one agent at a time and none twice, and nobody
\* serves more interactions than the channel's capacity.
THEOREM ChannelImplementsAssignment == CommandSpec => Implements
<1>1. IInv /\ SlotInv /\ [Next]_vars => SlotInv'
  BY NextAgrees
<1>2. CommandSpec => []SlotInv
  BY <1>1, CommandStart, CommandInvariance, ChannelStepsAreTheEngines, PTL DEF CommandSpec
<1>3. IInv /\ SlotInv /\ [Next]_vars => [A!ANext]_(A!avars)
  BY StepMaps
<1> QED
  BY <1>2, <1>3, CommandStart, CommandInvariance, ChannelStepsAreTheEngines, PTL
     DEF CommandSpec, Implements, A!ASpec
=============================================================================
