------------------------- MODULE ContinuationWorker -------------------------
(***************************************************************************)
(* The workers of the runtime processes and the continuations table: rows  *)
(* are claimed in batches under a lease, fired one after the other, each   *)
(* in a transaction of its own, and given up after a number of attempts.   *)
(*                                                                         *)
(* What a timer does to its route is RoutingEngine's: here its cause       *)
(* stands, while the route is parked at the run_seq that armed it, until   *)
(* the timer fires or an answer overtakes it.  An error may end any        *)
(* transaction, a commit may succeed without the worker hearing of it, a   *)
(* worker may be slower than its lease, or die with rows in hand and come  *)
(* back under another name.  The rows are those whose time has come.  No   *)
(* row of kind wrapup_expiry is ever inserted, and an offer that is parked *)
(* on is an offer (OfferIsParked), so a timer that has its route fires.  A *)
(* database that fails the claim itself is left out.                       *)
(***************************************************************************)
EXTENDS Naturals, FiniteSets, FiniteSetsExt

CONSTANTS
    Timers,        \* rows of continuations
    Workers,       \* runtime processes
    ClaimLimit,    \* rows a tick claims at most
    MaxAttempts,   \* maxContinuationAttempts
    None

ASSUME WorkerAssumption ==
    /\ ClaimLimit \in Nat \ {0}
    /\ MaxAttempts \in Nat \ {0}
    /\ None \notin Workers \cup Timers

VARIABLES
    continuation,  \* each row
    standing,      \* the timers whose cause stands
    worker         \* where each worker is, the rows of its batch as it claimed
                   \* them, the one it is at, and whether that one fires

workerVars == <<continuation, standing, worker>>

-----------------------------------------------------------------------------
NewRow == [status |-> "pending", by |-> None, leased |-> FALSE, attempts |-> 0]

Between == [at |-> "idle", batch |-> {}, job |-> None, fires |-> FALSE]

Settled(c) == continuation[c].status \in {"done", "cancelled"}

GaveUp(c) == [continuation[c] EXCEPT !.status = "cancelled", !.leased = FALSE]

\* The row lock of a resolve that has not committed, and that of the route.
RowLocked(c) == \E v \in Workers : worker[v].at = "resolved" /\ worker[v].job.timer = c

RouteLocked(c) ==
    \E v \in Workers : /\ worker[v].at \in {"acquired", "resolved"}
                       /\ worker[v].fires
                       /\ worker[v].job.timer = c

\* Bug: a row that was claimed once is never looked at again.
OpenIfPending(c) == continuation[c].status = "pending"

\* Pending, or left behind by a worker that has lost its lease.
OpenToClaims(c) ==
    \/ continuation[c].status = "pending"
    \/ continuation[c].status = "claimed" /\ ~continuation[c].leased

-----------------------------------------------------------------------------
(* Time, and the rest of the engine *)

LeaseRunsOut(c) ==
    /\ continuation[c].status = "claimed"
    /\ continuation[c].leased
    /\ continuation' = [continuation EXCEPT ![c].leased = FALSE]
    /\ UNCHANGED <<standing, worker>>

\* An answer, or an end, takes the route out of the park; the row stays.
Overtake(c) ==
    /\ c \in standing
    /\ ~RouteLocked(c)
    /\ standing' = standing \ {c}
    /\ UNCHANGED <<continuation, worker>>

-----------------------------------------------------------------------------
(* A tick *)

\* An UPDATE without SKIP LOCKED waits for the rows it wants.
CancelExhaustedContinuations(w) ==
    LET exhausted == {c \in Timers : /\ OpenToClaims(c)
                                     /\ continuation[c].attempts >= MaxAttempts}
    IN  /\ worker[w].at = "idle"
        /\ \A c \in exhausted : ~RowLocked(c)
        /\ continuation' = [c \in Timers |-> IF c \in exhausted
                              THEN GaveUp(c)
                              ELSE continuation[c]]
        /\ worker' = [worker EXCEPT ![w].at = "claim"]
        /\ UNCHANGED standing

ClaimDueContinuations(w) ==
    LET open == {c \in Timers : /\ OpenToClaims(c)
                                /\ continuation[c].attempts < MaxAttempts
                                /\ ~RowLocked(c)}
    IN  /\ worker[w].at = "claim"
        /\ \E taken \in kSubset(Min({ClaimLimit, Cardinality(open)}), open) :
             /\ continuation' = [c \in Timers |-> IF c \in taken
                  THEN [continuation[c] EXCEPT !.status = "claimed", !.by = w,
                                               !.leased = TRUE, !.attempts = @ + 1]
                  ELSE continuation[c]]
             /\ worker' = [worker EXCEPT
                  ![w].at = IF taken = {} THEN "idle" ELSE "next",
                  ![w].batch = {[timer |-> c, attempt |-> continuation[c].attempts + 1] :
                                c \in taken}]
        /\ UNCHANGED standing

-----------------------------------------------------------------------------
(* One row of the batch *)

\* On to the next row of the batch, or the end of the tick.
Done(w) ==
    LET rest == worker[w].batch \ {worker[w].job}
    IN  IF rest = {} THEN Between ELSE [Between EXCEPT !.at = "next", !.batch = rest]

\* The run_seq-fenced acquire: the route's lock, or none for a stale timer.
AcquireRoute(w) ==
    /\ worker[w].at = "next"
    /\ \E job \in worker[w].batch :
         /\ ~RouteLocked(job.timer)
         /\ worker' = [worker EXCEPT ![w].at = "acquired", ![w].job = job,
                                     ![w].fires = job.timer \in standing]
    /\ UNCHANGED <<continuation, standing>>

\* Fenced by claimed_by and by nothing else: a row given up meanwhile is taken.
ResolveDone(w) ==
    /\ worker[w].at = "acquired"
    /\ worker' = [worker EXCEPT ![w] =
         IF continuation[worker[w].job.timer].by = w
         THEN [@ EXCEPT !.at = "resolved"] ELSE Done(w)]
    /\ UNCHANGED <<continuation, standing>>

\* The worker may take a commit for a failure.
CommitTimer(w) ==
    LET c == worker[w].job.timer
    IN  /\ worker[w].at = "resolved"
        /\ continuation' = [continuation EXCEPT ![c].status = "done",
                                                 ![c].leased = FALSE]
        /\ standing' = IF worker[w].fires THEN standing \ {c} ELSE standing
        /\ \E heard \in BOOLEAN : worker' = [worker EXCEPT ![w] =
             IF heard THEN Done(w) ELSE [@ EXCEPT !.at = "failed"]]

TimerFails(w) ==
    /\ worker[w].at \in {"acquired", "resolved"}
    /\ worker' = [worker EXCEPT ![w].at = "failed"]
    /\ UNCHANGED <<continuation, standing>>

\* Bug: one attempt too early.
LastButOne(job) == job.attempt + 1 >= MaxAttempts

\* By the count as it was claimed, not as the row has it.
LastAttempt(job) == job.attempt >= MaxAttempts

\* The last attempt gives the row up, if that statement gets through.
AfterFailure(w) ==
    LET job == worker[w].job
    IN  /\ worker[w].at = "failed"
        /\ \/ UNCHANGED continuation
           \/ /\ LastAttempt(job)
              /\ continuation[job.timer].by = w
              /\ continuation' = [continuation EXCEPT ![job.timer] = GaveUp(job.timer)]
        /\ worker' = [worker EXCEPT ![w] = Done(w)]
        /\ UNCHANGED standing

\* The process dies with rows in hand; its successor has another id.
WorkerDies(w) ==
    /\ worker[w].batch # {}
    /\ worker' = [worker EXCEPT ![w] = Between]
    /\ continuation' = [c \in Timers |-> IF continuation[c].by = w
                          THEN [continuation[c] EXCEPT !.by = None] ELSE continuation[c]]
    /\ UNCHANGED standing

-----------------------------------------------------------------------------
WorkerInit ==
    /\ continuation = [c \in Timers |-> NewRow]
    /\ standing = Timers
    /\ worker = [w \in Workers |-> Between]

ProcessDueContinuations(w) ==
    \/ CancelExhaustedContinuations(w)
    \/ ClaimDueContinuations(w)
    \/ AcquireRoute(w)
    \/ ResolveDone(w)
    \/ CommitTimer(w)
    \/ TimerFails(w)
    \/ AfterFailure(w)

WorkerNext ==
    \/ \E c \in Timers : LeaseRunsOut(c)
    \/ \E c \in Timers : Overtake(c)
    \/ \E w \in Workers : ProcessDueContinuations(w)
    \/ \E w \in Workers : WorkerDies(w)

WorkerSpec == WorkerInit /\ [][WorkerNext]_workerVars

\* Every process ticks once a second, and leases end.
WorkerFairness ==
    /\ \A w \in Workers : WF_workerVars(ProcessDueContinuations(w))
    /\ \A c \in Timers : WF_workerVars(LeaseRunsOut(c))

-----------------------------------------------------------------------------
\* No row is settled before its time: its timer has fired, or an answer has
\* overtaken it, or the attempts are used up, although a worker gives a row up by
\* the count it has in hand and commits by what it saw when it took the route.
SettledWithCause ==
    \A c \in Timers :
        Settled(c) => c \notin standing \/ continuation[c].attempts = MaxAttempts

\* Every timer is settled, by firing, by being overtaken or by
\* using up its attempts, whichever workers die, are slow, or lose a commit's answer.
TimersSettle ==
    \A c \in Timers :
        <>(Settled(c) /\ (c \notin standing \/ continuation[c].attempts = MaxAttempts))
=============================================================================
