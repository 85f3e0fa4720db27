---------------------------- MODULE RouteTester ----------------------------
(***************************************************************************)
(* The page that drives a route request: it creates one, resolves its      *)
(* reservations or answers its input, and reads it again every two seconds *)
(* until it has ended.  A read is of the route and its reservations, then  *)
(* of the trace; reads are not numbered and may end in any order, and what *)
(* follows a request (the timer, the buttons) follows its read.            *)
(*                                                                         *)
(* A request of the server is whether it is live, and whether it has a     *)
(* reservation with buttons: Accept and Reject, or Complete.               *)
(***************************************************************************)
EXTENDS Naturals, FiniteSets, ConsoleCommon

CONSTANTS
    MaxRoutes,     \* bound: route requests
    Reads          \* bound: what tells the reads of the page apart that are out at once

ASSUME TesterAssumption == MaxRoutes \in Nat \ {0} /\ Null \notin Reads /\ Null \notin Nat

VARIABLES
    requests,  \* the server's route requests
    tester,    \* the page
    reads      \* its reads that are out

testerVars == <<requests, tester, reads>>

Routes == 1..MaxRoutes
Ended == [live |-> FALSE, offer |-> FALSE]

\* route: what is shown; offer: a reservation is shown with buttons; creating,
\* busy and submitting: the POST that is out and its read are not over;
\* intervals: the timers that are running; handle: the one the page knows of.
NewTester ==
    [open |-> TRUE, entry |-> FALSE, fetched |-> FALSE, route |-> Null, offer |-> FALSE,
     creating |-> "no", busy |-> "no", submitting |-> "no",
     intervals |-> {}, handle |-> Null]

-----------------------------------------------------------------------------
(* The timer *)

stopPolling(t) == [t EXCEPT !.intervals = @ \ {t.handle}, !.handle = Null]

Started(t) ==
    LET new == CHOOSE i \in 1..4 : i \notin t.intervals
    IN  [t EXCEPT !.intervals = @ \cup {new}, !.handle = new]

startRoutePollingAgain(t) == Started(t)

startRoutePolling(t) == Started(stopPolling(t))

-----------------------------------------------------------------------------
(* Reading *)

Finally(t, read) ==
    CASE read.then = "create" -> [t EXCEPT !.creating = "no"]
      [] read.then = "resolve" -> [t EXCEPT !.busy = "no"]
      [] read.then = "input" -> [t EXCEPT !.submitting = "no"]
      [] OTHER -> t

\* What follows the read: the last of it, then what the caller does.
AfterRead(t, read) ==
    LET u == IF read.answer # Null /\ ~read.answer.live THEN stopPolling(t) ELSE t
        starts == \/ read.then = "create" /\ read.born
                  \/ read.then \in {"resolve", "input"} /\ u.route.live /\ u.handle = Null
    IN  Finally(IF starts THEN startRoutePolling(u) ELSE u, read)

Read(then, id, born) ==
    [then |-> then, id |-> id, born |-> born, stage |-> "sent", answer |-> Null]

\* _refresh, of the route that is shown.
RefreshRoute(read) == \E r \in Reads : reads[r] = Null /\ reads' = [reads EXCEPT ![r] = read]

\* The server reads the route (bound: its reservations at once), or refuses.
RefreshRead(r) ==
    /\ reads[r] # Null /\ reads[r].stage = "sent"
    /\ \E answer \in {requests[reads[r].id], Null} :
          reads' = [reads EXCEPT ![r].stage = "read", ![r].answer = answer]
    /\ UNCHANGED <<requests, tester>>

\* The answer is shown, whichever route is shown by now; where it names a trace
\* that is read before anything else.
RefreshShown(r) ==
    /\ reads[r] # Null /\ reads[r].stage = "read"
    /\ LET answer == reads[r].answer
           shown == IF answer = Null THEN [tester EXCEPT !.offer = FALSE]
                    ELSE [tester EXCEPT !.route = [id |-> reads[r].id, live |-> answer.live],
                                        !.offer = answer.offer]
       IN  \/ /\ answer # Null
              /\ tester' = shown
              /\ reads' = [reads EXCEPT ![r].stage = "trace"]
           \/ /\ tester' = AfterRead(shown, reads[r])
              /\ reads' = [reads EXCEPT ![r] = Null]
    /\ UNCHANGED requests

\* The trace is shown, or stays as it was; nothing hangs on it.
TraceRead(r) ==
    /\ reads[r] # Null /\ reads[r].stage = "trace"
    /\ tester' = AfterRead(tester, reads[r])
    /\ reads' = [reads EXCEPT ![r] = Null]
    /\ UNCHANGED requests

\* The connection is lost.
ReadThrows(r) ==
    /\ reads[r] # Null
    /\ tester' = Finally(tester, reads[r])
    /\ reads' = [reads EXCEPT ![r] = Null]
    /\ UNCHANGED requests

PollTick ==
    /\ \E i \in tester.intervals : TRUE
    /\ tester.route # Null
    /\ RefreshRoute(Read("poll", tester.route.id, FALSE))
    /\ UNCHANGED <<requests, tester>>

-----------------------------------------------------------------------------
(* The user *)

\* The bindings are fetched once; the first is selected, or the user types one.
fetchBindings ==
    /\ tester.open /\ ~tester.fetched
    /\ \E entry \in BOOLEAN : tester' = [tester EXCEPT !.fetched = TRUE, !.entry = entry]
    /\ UNCHANGED <<requests, reads>>

selectBinding ==
    /\ tester.open /\ tester.fetched /\ ~tester.entry
    /\ tester' = [tester EXCEPT !.entry = TRUE]
    /\ UNCHANGED <<requests, reads>>

createRoute ==
    /\ tester.open /\ tester.entry /\ tester.creating = "no"
    /\ tester' = [stopPolling(tester) EXCEPT !.creating = "out", !.offer = FALSE]
    /\ UNCHANGED <<requests, reads>>

CreateAnswered ==
    /\ tester.creating = "out"
    /\ \/ \E live \in BOOLEAN, id \in Routes :
             /\ requests[id] = Null /\ \A other \in 1..(id - 1) : requests[other] # Null
             /\ requests' = [requests EXCEPT ![id] = [live |-> live, offer |-> FALSE]]
             /\ tester' = [tester EXCEPT !.creating = "reads", !.route = [id |-> id, live |-> live]]
             /\ RefreshRoute(Read("create", id, live))
       \/ /\ tester' = [tester EXCEPT !.creating = "no"]
          /\ UNCHANGED <<requests, reads>>

\* One of the buttons of a reservation.
resolve ==
    /\ tester.open /\ tester.busy = "no" /\ tester.offer
    /\ tester' = [tester EXCEPT !.busy = "out"]
    /\ UNCHANGED <<requests, reads>>

\* What the server makes of it: its own state decides, and the page reads on.
Resolved(request) ==
    {request} \cup (IF request.offer THEN {[request EXCEPT !.offer = FALSE], Ended} ELSE {})

ResolveAnswered ==
    /\ tester.busy = "out"
    /\ \E id \in Routes :
          /\ requests[id] # Null
          /\ \E request \in Resolved(requests[id]) : requests' = [requests EXCEPT ![id] = request]
    /\ tester' = [tester EXCEPT !.busy = "reads"]
    /\ RefreshRoute(Read("resolve", tester.route.id, FALSE))

\* The card is there for a live route.
submitInput ==
    /\ tester.open /\ tester.submitting = "no"
    /\ tester.route # Null /\ tester.route.live
    /\ tester' = [tester EXCEPT !.submitting = "out"]
    /\ UNCHANGED <<requests, reads>>

InputAnswered ==
    /\ tester.submitting = "out"
    /\ tester' = [tester EXCEPT !.submitting = "reads"]
    /\ RefreshRoute(Read("input", tester.route.id, FALSE))
    /\ UNCHANGED requests

\* The connection is lost before the answer to a POST.
PostThrows ==
    /\ \/ tester.busy = "out" /\ tester' = [tester EXCEPT !.busy = "no"]
       \/ tester.submitting = "out" /\ tester' = [tester EXCEPT !.submitting = "no"]
    /\ UNCHANGED <<requests, reads>>

\* Leaving the page stops the timer; what is out goes on, its answers too.
disconnected ==
    /\ tester.open
    /\ tester' = [stopPolling(tester) EXCEPT !.open = FALSE]
    /\ UNCHANGED <<requests, reads>>

-----------------------------------------------------------------------------
(* The server's own steps, of which RoutingEngine is the model. *)
Proceeds ==
    /\ \E id \in Routes :
          /\ requests[id] # Null /\ requests[id].live
          /\ requests' = [requests EXCEPT ![id] =
                IF @.offer THEN Ended ELSE [@ EXCEPT !.offer = TRUE]]
    /\ UNCHANGED <<tester, reads>>

TesterInit ==
    /\ requests = [id \in Routes |-> Null]
    /\ tester = NewTester
    /\ reads = [r \in Reads |-> Null]

TesterNext ==
    \/ fetchBindings \/ selectBinding \/ createRoute \/ CreateAnswered
    \/ resolve \/ ResolveAnswered \/ submitInput \/ InputAnswered
    \/ PostThrows \/ disconnected
    \/ PollTick \/ Proceeds
    \/ \E r \in Reads : RefreshRead(r) \/ RefreshShown(r) \/ TraceRead(r) \/ ReadThrows(r)

TesterSpec == TesterInit /\ [][TesterNext]_testerVars

-----------------------------------------------------------------------------
(* Properties *)

\* Whatever order the requests end in, the timer the page can stop is the only
\* one that runs: creating a route, and resolving a reservation of the one before,
\* each start it when their read is over.
OneTimer == tester.intervals = {tester.handle} \ {Null}

=============================================================================
