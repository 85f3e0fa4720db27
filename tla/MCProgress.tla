----------------------------- MODULE MCProgress -----------------------------
(* What must come to an end, for TLC: the routes of the engine, the rows of the
   continuation workers, the wrap-ups of the API processes.  They share no state
   here, so one of them is explored, chosen at the start. *)
EXTENDS MCRoutingEngine, ContinuationWorker, WrapUpTimers

CONSTANT Services

VARIABLE service

progressVars == <<service, vars, workerVars, wrapVars>>

Runs(name) == service = name /\ UNCHANGED service

\* A service that is not explored has nothing that would have to happen.
NoWorker ==
    /\ continuation = [c \in Timers |-> [NewRow EXCEPT !.status = "done"]]
    /\ standing = {}
    /\ worker = [w \in Workers |-> [Between EXCEPT !.at = "down"]]

NoServer ==
    /\ wrap = [a \in WrapAgents |-> NoEnd("NotReady")]
    /\ server = [s \in Servers |-> [Process EXCEPT !.life = "down"]]
    /\ stops = 0

ProgressInit ==
    /\ service \in Services
    /\ Init
    /\ IF service = "worker" THEN WorkerInit ELSE NoWorker
    /\ IF service = "wrapup" THEN WrapInit ELSE NoServer

ProgressNext ==
    \/ Runs("engine") /\ Next /\ UNCHANGED <<workerVars, wrapVars>>
    \/ Runs("worker") /\ WorkerNext /\ UNCHANGED <<vars, wrapVars>>
    \/ Runs("wrapup") /\ WrapNext /\ UNCHANGED <<vars, workerVars>>

ProgressSpec ==
    /\ ProgressInit
    /\ [][ProgressNext]_progressVars
    /\ Fairness
    /\ WorkerFairness
    /\ WrapFairness
=============================================================================
