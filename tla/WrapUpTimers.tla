---------------------------- MODULE WrapUpTimers ----------------------------
(***************************************************************************)
(* The end of an agent's wrap-up in the API processes: timers set when a   *)
(* process starts, a sweep every half minute, and Stop, which must leave   *)
(* neither of them behind.                                                 *)
(*                                                                         *)
(* A timer and a sweep go by the process's clock, the update they make by  *)
(* the database's; either may be ahead.  Timers are set at startup only,   *)
(* one for each row: a wrap-up that begins later has the sweep alone.      *)
(***************************************************************************)
EXTENDS Integers, FiniteSets

CONSTANTS
    Servers,       \* API processes
    WrapAgents,    \* agents
    MaxStops       \* bound: stops and crashes

ASSUME WrapUpAssumption == MaxStops \in Nat

VARIABLES
    wrap,          \* of each agent_states row: the status, whether wrapup_until is
                   \* set, and whether it is past by each of the clocks
    server,        \* of each process: how far it is, the rows its startup sweep has
                   \* to do, its timers and the entries of the registry, its sweep,
                   \* and the count of the wait group
    stops

wrapVars == <<wrap, server, stops>>

-----------------------------------------------------------------------------
NoEnd(status) == [status |-> status, until |-> FALSE, late |-> FALSE, past |-> FALSE]

Process == [life |-> "new", startup |-> {}, timer |-> [a \in WrapAgents |-> "none"],
            registry |-> {}, sweep |-> "off", rows |-> {}, wg |-> 0]

Wrapping(a) == wrap[a].status = "WrapUp"

Ending(a) == Wrapping(a) /\ wrap[a].until

\* ExpireWrapUp, whose guard is the database's; the first of several wins.
expireWrapUp(a) ==
    wrap' = IF Ending(a) /\ wrap[a].past
            THEN [wrap EXCEPT ![a] = NoEnd("NotReady")] ELSE wrap

Cancelled(s) == server[s].life \in {"stopping", "drained", "stopped"}

-----------------------------------------------------------------------------
(* The agent, the engine and the clocks *)

Engage(a) ==
    /\ wrap[a].status = "NotReady"
    /\ wrap' = [wrap EXCEPT ![a] = NoEnd("Engaged")]
    /\ UNCHANGED <<server, stops>>

CompleteInteraction(a) ==
    /\ wrap[a].status = "Engaged"
    /\ wrap' = [wrap EXCEPT ![a] = [NoEnd("WrapUp") EXCEPT !.until = TRUE]]
    /\ UNCHANGED <<server, stops>>

\* A patch writes wrapup_until as NULL: a forced wrap-up has no end.
PatchStatus(a) ==
    /\ \/ Wrapping(a) /\ wrap' = [wrap EXCEPT ![a] = NoEnd("NotReady")]
       \/ wrap' = [wrap EXCEPT ![a] = NoEnd("WrapUp")]
    /\ UNCHANGED <<server, stops>>

ServerClock(a) ==
    /\ Ending(a) /\ ~wrap[a].late
    /\ wrap' = [wrap EXCEPT ![a].late = TRUE]
    /\ UNCHANGED <<server, stops>>

DatabaseClock(a) ==
    /\ Ending(a) /\ ~wrap[a].past
    /\ wrap' = [wrap EXCEPT ![a].past = TRUE]
    /\ UNCHANGED <<server, stops>>

-----------------------------------------------------------------------------
(* Start *)

ListAtStart(s) ==
    /\ server[s].life = "new"
    /\ server' = [server EXCEPT ![s].life = "starting", ![s].startup =
         {[agent |-> a, due |-> ~wrap[a].until \/ wrap[a].late] :
          a \in {b \in WrapAgents : Wrapping(b)}}]
    /\ UNCHANGED <<wrap, stops>>

\* Bug: the callback adds itself to the wait group when it runs.
ScheduleUncounted(s, a) ==
    [server[s] EXCEPT !.timer[a] = "set", !.registry = @ \cup {a}]

\* The timer is counted before it can fire.
ScheduleWrapUpExpiry(s, a) ==
    [server[s] EXCEPT !.timer[a] = "set", !.registry = @ \cup {a}, !.wg = @ + 1]

StartupSweep(s) ==
    /\ server[s].life = "starting"
    /\ \E row \in server[s].startup :
         LET did(p) == [p EXCEPT !.startup = @ \ {row}]
         IN  \/ /\ row.due
                /\ expireWrapUp(row.agent) \/ UNCHANGED wrap
                /\ server' = [server EXCEPT ![s] = did(@)]
             \/ /\ ~row.due
                /\ server' = [server EXCEPT ![s] = did(ScheduleWrapUpExpiry(s, row.agent))]
                /\ UNCHANGED wrap
    /\ UNCHANGED stops

Started(s) ==
    /\ server[s].life = "starting"
    /\ server[s].startup = {}
    /\ server' = [server EXCEPT ![s].life = "running", ![s].sweep = "idle", ![s].wg = @ + 1]
    /\ UNCHANGED <<wrap, stops>>

-----------------------------------------------------------------------------
(* A timer's callback *)

\* At the time its row named: by now the row may be another wrap-up.
TimerGoesOff(s, a) ==
    /\ server[s].timer[a] = "set"
    /\ server' = [server EXCEPT ![s].timer[a] = "called"]
    /\ UNCHANGED <<wrap, stops>>

Return(s, a) == [server[s] EXCEPT !.timer[a] = "none", !.wg = @ - 1]

CallbackLooks(s, a) ==
    /\ server[s].timer[a] = "called"
    /\ server' = [server EXCEPT ![s] =
         IF Cancelled(s) THEN Return(s, a) ELSE [@ EXCEPT !.timer[a] = "expiring"]]
    /\ UNCHANGED <<wrap, stops>>

CallbackExpires(s, a) ==
    /\ server[s].timer[a] = "expiring"
    /\ expireWrapUp(a) \/ UNCHANGED wrap
    /\ server' = [server EXCEPT ![s].timer[a] = "expired"]
    /\ UNCHANGED stops

CallbackReturns(s, a) ==
    /\ server[s].timer[a] = "expired"
    /\ server' = [server EXCEPT ![s] = [Return(s, a) EXCEPT !.registry = @ \ {a}]]
    /\ UNCHANGED <<wrap, stops>>

-----------------------------------------------------------------------------
(* The sweep *)

\* Bug: a process looks after the timers it has set and nothing else.
OnlyRegistered(s) == {a \in WrapAgents : Ending(a) /\ wrap[a].late /\ a \in server[s].registry}

PastDue(s) == {a \in WrapAgents : Ending(a) /\ wrap[a].late}

\* A list or an update that fails is logged; the next tick is the retry.
SweepTick(s) ==
    /\ server[s].sweep = "idle"
    /\ server' = [server EXCEPT ![s].sweep = "listed",
                                ![s].rows = IF Cancelled(s) THEN {} ELSE PastDue(s)]
    /\ UNCHANGED <<wrap, stops>>

SweepExpires(s) ==
    /\ server[s].sweep = "listed"
    /\ \E a \in server[s].rows :
         /\ IF Cancelled(s) THEN UNCHANGED wrap ELSE expireWrapUp(a)
         /\ server' = [server EXCEPT ![s].rows = @ \ {a}]
    /\ UNCHANGED stops

SweepFails(s) ==
    /\ server[s].sweep = "listed"
    /\ \E a \in server[s].rows : server' = [server EXCEPT ![s].rows = @ \ {a}]
    /\ UNCHANGED <<wrap, stops>>

SweepRests(s) ==
    /\ server[s].sweep = "listed"
    /\ server[s].rows = {}
    /\ server' = [server EXCEPT ![s].sweep = "idle"]
    /\ UNCHANGED <<wrap, stops>>

SweepReturns(s) ==
    /\ server[s].sweep = "idle"
    /\ Cancelled(s)
    /\ server' = [server EXCEPT ![s].sweep = "off", ![s].wg = @ - 1]
    /\ UNCHANGED <<wrap, stops>>

-----------------------------------------------------------------------------
(* Stop, and the end of a process *)

Stop(s) ==
    /\ server[s].life = "running"
    /\ stops < MaxStops
    /\ stops' = stops + 1
    /\ server' = [server EXCEPT ![s].life = "stopping"]
    /\ UNCHANGED wrap

\* A timer that is stopped in time never calls Done; one that is not, will.
StopTimers(s) ==
    LET stopped == {a \in server[s].registry : server[s].timer[a] = "set"}
    IN  /\ server[s].life = "stopping"
        /\ server' = [server EXCEPT ![s].life = "drained", ![s].registry = {},
                ![s].wg = @ - Cardinality(stopped),
                ![s].timer = [a \in WrapAgents |-> IF a \in stopped THEN "none" ELSE @[a]]]
        /\ UNCHANGED <<wrap, stops>>

StopReturns(s) ==
    /\ server[s].life = "drained"
    /\ server[s].wg = 0
    /\ server' = [server EXCEPT ![s].life = "stopped"]
    /\ UNCHANGED <<wrap, stops>>

\* The process exits after Stop, and another is started.
Restart(s) ==
    /\ server[s].life = "stopped"
    /\ server' = [server EXCEPT ![s] = Process]
    /\ UNCHANGED <<wrap, stops>>

CrashServer(s) ==
    /\ stops < MaxStops
    /\ server[s] # Process
    /\ stops' = stops + 1
    /\ server' = [server EXCEPT ![s] = Process]
    /\ UNCHANGED wrap

-----------------------------------------------------------------------------
WrapInit ==
    /\ wrap = [a \in WrapAgents |-> NoEnd("NotReady")]
    /\ server = [s \in Servers |-> Process]
    /\ stops = 0

Callback(s, a) == CallbackLooks(s, a) \/ CallbackExpires(s, a) \/ CallbackReturns(s, a)

SafetySweep(s) ==
    \/ SweepTick(s)
    \/ SweepExpires(s)
    \/ SweepFails(s)
    \/ SweepRests(s)
    \/ SweepReturns(s)

Lifecycle(s) ==
    \/ ListAtStart(s)
    \/ StartupSweep(s)
    \/ Started(s)
    \/ StopTimers(s)
    \/ StopReturns(s)
    \/ Restart(s)

WrapNext ==
    \/ \E a \in WrapAgents : Engage(a) \/ CompleteInteraction(a) \/ PatchStatus(a)
    \/ \E a \in WrapAgents : ServerClock(a) \/ DatabaseClock(a)
    \/ \E s \in Servers : Lifecycle(s)
    \/ \E s \in Servers, a \in WrapAgents : TimerGoesOff(s, a)
    \/ \E s \in Servers, a \in WrapAgents : Callback(s, a)
    \/ \E s \in Servers : SafetySweep(s)
    \/ \E s \in Servers : Stop(s) \/ CrashServer(s)

\* Processes run and are restarted, clocks move, the sweep's update does not fail
\* every time, and its select, which has a tick and the end of the context to
\* choose from, does not take the tick for ever.
WrapFairness ==
    /\ \A a \in WrapAgents : /\ WF_wrapVars(ServerClock(a))
                             /\ WF_wrapVars(DatabaseClock(a))
    /\ \A s \in Servers : /\ WF_wrapVars(Lifecycle(s))
                          /\ WF_wrapVars(SafetySweep(s))
                          /\ SF_wrapVars(SweepExpires(s))
                          /\ SF_wrapVars(SweepReturns(s))
                          /\ \A a \in WrapAgents : WF_wrapVars(Callback(s, a))

WrapSpec == WrapInit /\ [][WrapNext]_wrapVars

-----------------------------------------------------------------------------
\* Once Stop has returned nothing of the process still runs or will: no timer, no
\* callback, no sweep, whatever was going off when it was called.
NothingRunsAfterStop ==
    \A s \in Servers : server[s].life = "stopped" =>
        server[s].sweep = "off" /\ \A a \in WrapAgents : server[s].timer[a] = "none"

\* A wrap-up that has an end comes to it, or is replaced, though timers are lost with
\* their process, go off early by the database's clock, or were never set.
WrapUpEnds == \A a \in WrapAgents : Ending(a) ~> ~Ending(a)
=============================================================================
