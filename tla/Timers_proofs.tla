---------------------------- MODULE Timers_proofs ----------------------------
(***************************************************************************)
(* The timers of the API processes and those of the runtime processes.     *)
(* That Stop leaves nothing behind: the wait group counts the timers that  *)
(* are set or going off, and the sweep.  That a continuation is settled    *)
(* for a cause and fires once: what a worker has in hand, however late it  *)
(* acts, agrees with the row for as long as it can do anything with it.    *)
(***************************************************************************)
EXTENDS WrapUpTimers, ContinuationWorker, FiniteSetTheorems, TLAPS

Lives == {"new", "starting", "running", "stopping", "drained", "stopped"}

ProcessRow ==
    [life : Lives, startup : SUBSET [agent : WrapAgents, due : BOOLEAN],
     timer : [WrapAgents -> {"none", "set", "called", "expiring", "expired"}],
     registry : SUBSET WrapAgents, sweep : {"off", "idle", "listed"},
     rows : SUBSET WrapAgents, wg : Int]

WrapRow ==
    [status : {"NotReady", "Engaged", "WrapUp"}, until : BOOLEAN, late : BOOLEAN,
     past : BOOLEAN]

WrapTypeOK ==
    /\ wrap \in [WrapAgents -> WrapRow]
    /\ server \in [Servers -> ProcessRow]

\* The timers of a process that are set or going off, and its sweep.
Busy(p) == {a \in WrapAgents : p.timer[a] # "none"}

Loops(p) == IF p.sweep = "off" THEN 0 ELSE 1

Counted(p) == IsFiniteSet(Busy(p)) /\ p.wg = Cardinality(Busy(p)) + Loops(p)

\* Each row of the startup sweep is of an agent of its own, who has no timer yet.
StartsOnce(p) ==
    /\ \A row \in p.startup : p.timer[row.agent] = "none"
    /\ \A row1, row2 \in p.startup : row1.agent = row2.agent => row1 = row2

\* The sweep runs between the end of the startup sweep and Stop.
InOrder(p) ==
    /\ p.life = "new" => Busy(p) = {} /\ p.startup = {}
    /\ p.life \in {"new", "starting"} => p.sweep = "off"
    /\ p.life \notin {"new", "starting"} => p.startup = {}
    /\ p.life = "stopped" => p.wg = 0

ProcessInv(p) == Counted(p) /\ StartsOnce(p) /\ InOrder(p)

Sound(p) == p \in ProcessRow /\ ProcessInv(p)

WrapInv == WrapTypeOK /\ \A s \in Servers : ProcessInv(server[s])
-----------------------------------------------------------------------------
(* A process, step by step *)

\* A process that has just been started counts nothing.
LEMMA NewProcessSound == Sound(Process)
<1>1. Process \in ProcessRow
  BY DEF Process, ProcessRow, Lives
<1>2. Busy(Process) = {}
  BY DEF Busy, Process
<1>3. Counted(Process)
  BY <1>2, FS_EmptySet DEF Counted, Loops, Process
<1> QED
  BY <1>1, <1>2, <1>3 DEF Sound, ProcessInv, StartsOnce, InOrder, Process

\* What moves no timer and starts or ends no sweep leaves the count as it is.
LEMMA CountKept ==
    ASSUME NEW p, NEW q, Counted(p), q.timer = p.timer, q.wg = p.wg,
           q.sweep = "off" <=> p.sweep = "off"
    PROVE  Counted(q) /\ Busy(q) = Busy(p)
BY DEF Counted, Busy, Loops

\* One that goes from set to going off is counted all the while.
LEMMA TimerMovesSound ==
    ASSUME NEW p, Sound(p), NEW a \in WrapAgents, p.timer[a] # "none",
           NEW at \in {"called", "expiring", "expired"}
    PROVE  Sound([p EXCEPT !.timer[a] = at])
<1> DEFINE q == [p EXCEPT !.timer[a] = at]
<1>1. /\ p \in ProcessRow
      /\ p.timer \in [WrapAgents -> {"none", "set", "called", "expiring", "expired"}]
  BY DEF Sound, ProcessRow
<1>2. /\ q \in ProcessRow
      /\ q.timer = [p.timer EXCEPT ![a] = at]
      /\ q.life = p.life /\ q.startup = p.startup /\ q.sweep = p.sweep /\ q.wg = p.wg
  BY <1>1 DEF ProcessRow
<1> HIDE DEF q
<1>3. Busy(q) = Busy(p)
  BY <1>1, <1>2 DEF Busy
<1>4. Counted(q)
  BY <1>2, <1>3 DEF Sound, ProcessInv, Counted, Loops
<1>5. StartsOnce(q)
  <2>1. \A row \in p.startup : row.agent \in WrapAgents
    BY <1>1 DEF ProcessRow
  <2> QED
    BY <1>1, <1>2, <2>1 DEF Sound, ProcessInv, StartsOnce
<1>6. InOrder(q)
  BY <1>2, <1>3 DEF Sound, ProcessInv, InOrder
<1> QED
  BY <1>2, <1>4, <1>5, <1>6 DEF Sound, ProcessInv, q

\* One that has returned is counted no more.
LEMMA TimerReturnsSound ==
    ASSUME NEW p, Sound(p), NEW a \in WrapAgents, p.timer[a] # "none",
           NEW registry \in SUBSET WrapAgents,
           NEW q, q = [p EXCEPT !.timer[a] = "none", !.wg = @ - 1, !.registry = registry]
    PROVE  Sound(q)
<1>1. /\ p \in ProcessRow
      /\ p.timer \in [WrapAgents -> {"none", "set", "called", "expiring", "expired"}]
      /\ p.wg \in Int
  BY DEF Sound, ProcessRow
<1>2. /\ q \in ProcessRow
      /\ q.timer = [p.timer EXCEPT ![a] = "none"]
      /\ q.life = p.life /\ q.startup = p.startup /\ q.sweep = p.sweep /\ q.wg = p.wg - 1
  <2> DEFINE timer == [p.timer EXCEPT ![a] = "none"]
             wg    == p.wg - 1
  <2>1. /\ timer \in [WrapAgents -> {"none", "set", "called", "expiring", "expired"}]
        /\ wg \in Int
    BY <1>1
  <2>2. q = [p EXCEPT !.timer = timer, !.wg = wg, !.registry = registry]
    BY <1>1 DEF ProcessRow
  <2> HIDE DEF timer, wg
  <2>3. /\ q \in ProcessRow /\ q.timer = timer /\ q.wg = wg
        /\ q.life = p.life /\ q.startup = p.startup /\ q.sweep = p.sweep
    BY <1>1, <2>1, <2>2 DEF ProcessRow
  <2> QED
    BY <2>3 DEF timer, wg
<1>3. Busy(q) = Busy(p) \ {a} /\ a \in Busy(p)
  BY <1>1, <1>2 DEF Busy
<1>4. /\ IsFiniteSet(Busy(p)) /\ Cardinality(Busy(p)) \in Nat
      /\ p.wg = Cardinality(Busy(p)) + Loops(p)
  BY FS_CardinalityType DEF Sound, ProcessInv, Counted
<1>5. IsFiniteSet(Busy(q)) /\ Cardinality(Busy(q)) = Cardinality(Busy(p)) - 1
  BY <1>3, <1>4, FS_RemoveElement
<1>6. Counted(q)
  BY <1>2, <1>4, <1>5 DEF Counted, Loops
<1>7. StartsOnce(q)
  <2>1. \A row \in p.startup : row.agent \in WrapAgents
    BY <1>1 DEF ProcessRow
  <2> QED
    BY <1>1, <1>2, <2>1 DEF Sound, ProcessInv, StartsOnce
<1>8. InOrder(q)
  <2>1. p.wg # 0
    <3>1. Cardinality(Busy(p)) # 0
      BY <1>3, <1>4, FS_EmptySet
    <3> QED
      BY <1>4, <3>1 DEF Loops
  <2> QED
    BY <1>2, <1>3, <2>1 DEF Sound, ProcessInv, InOrder
<1> QED
  BY <1>2, <1>6, <1>7, <1>8 DEF Sound, ProcessInv

\* Set at startup, once for each row.
LEMMA ScheduledSound ==
    ASSUME NEW p, Sound(p), p.life = "starting", NEW row \in p.startup, NEW a, a = row.agent,
           NEW q, q = [[p EXCEPT !.timer[a] = "set", !.registry = @ \cup {a}, !.wg = @ + 1]
                          EXCEPT !.startup = @ \ {row}]
    PROVE  Sound(q)
<1>1. /\ p \in ProcessRow
      /\ a \in WrapAgents
      /\ p.timer \in [WrapAgents -> {"none", "set", "called", "expiring", "expired"}]
      /\ p.timer[a] = "none"
      /\ p.startup \in SUBSET [agent : WrapAgents, due : BOOLEAN]
      /\ p.registry \in SUBSET WrapAgents
      /\ p.wg \in Int
  BY DEF Sound, ProcessRow, ProcessInv, StartsOnce
<1>2. /\ q \in ProcessRow
      /\ q.timer = [p.timer EXCEPT ![a] = "set"]
      /\ q.life = p.life /\ q.sweep = p.sweep /\ q.wg = p.wg + 1
      /\ q.startup = p.startup \ {row}
  <2> DEFINE timer    == [p.timer EXCEPT ![a] = "set"]
             wg       == p.wg + 1
             registry == p.registry \cup {a}
             startup  == p.startup \ {row}
  <2>1. /\ timer \in [WrapAgents -> {"none", "set", "called", "expiring", "expired"}]
        /\ wg \in Int
        /\ registry \in SUBSET WrapAgents
        /\ startup \in SUBSET [agent : WrapAgents, due : BOOLEAN]
    BY <1>1
  <2>2. q = [p EXCEPT !.timer = timer, !.wg = wg, !.registry = registry, !.startup = startup]
    BY <1>1 DEF ProcessRow
  <2> HIDE DEF timer, wg, registry, startup
  <2>3. /\ q \in ProcessRow /\ q.timer = timer /\ q.wg = wg
        /\ q.life = p.life /\ q.startup = startup /\ q.sweep = p.sweep
    BY <1>1, <2>1, <2>2 DEF ProcessRow
  <2> QED
    BY <2>3 DEF timer, wg, startup
<1>3. Busy(q) = Busy(p) \cup {a} /\ a \notin Busy(p)
  BY <1>1, <1>2 DEF Busy
<1>4. /\ IsFiniteSet(Busy(p)) /\ Cardinality(Busy(p)) \in Nat
      /\ p.wg = Cardinality(Busy(p)) + Loops(p)
  BY FS_CardinalityType DEF Sound, ProcessInv, Counted
<1>5. IsFiniteSet(Busy(q)) /\ Cardinality(Busy(q)) = Cardinality(Busy(p)) + 1
  BY <1>3, <1>4, FS_AddElement
<1>6. Counted(q)
  BY <1>2, <1>4, <1>5 DEF Counted, Loops
<1>7. StartsOnce(q)
  <2>1. \A other \in q.startup : other \in p.startup /\ other.agent \in WrapAgents /\ other.agent # a
    BY <1>1, <1>2 DEF Sound, ProcessInv, StartsOnce
  <2> QED
    BY <1>1, <1>2, <2>1 DEF Sound, ProcessInv, StartsOnce
<1>8. InOrder(q)
  BY <1>2 DEF Sound, ProcessInv, InOrder
<1> QED
  BY <1>2, <1>6, <1>7, <1>8 DEF Sound, ProcessInv

\* The other steps of the start: a row that is due, which is only tried, and the
\* list the startup sweep begins with.
LEMMA StartupSound ==
    ASSUME NEW p, Sound(p), p.life \in {"new", "starting"},
           NEW startup \in SUBSET [agent : WrapAgents, due : BOOLEAN],
           NEW q, q = [p EXCEPT !.life = "starting", !.startup = startup],
           \A row1, row2 \in startup : row1.agent = row2.agent => row1 = row2,
           p.life = "starting" => startup \subseteq p.startup
    PROVE  Sound(q)
<1>1. p \in ProcessRow
  BY DEF Sound
<1>2. /\ q \in ProcessRow
      /\ q.life = "starting" /\ q.startup = startup
      /\ q.timer = p.timer /\ q.sweep = p.sweep /\ q.wg = p.wg
  BY <1>1 DEF ProcessRow, Lives
<1>3. Counted(q)
  <2>1. Counted(p) /\ q.timer = p.timer /\ q.wg = p.wg /\ q.sweep = p.sweep
    BY <1>2 DEF Sound, ProcessInv
  <2>2. Busy(q) = Busy(p) /\ Loops(q) = Loops(p)
    BY <2>1 DEF Busy, Loops
  <2> QED
    BY <2>1, <2>2 DEF Counted
<1>4. StartsOnce(q)
  <2>1. \A row \in startup : row.agent \in WrapAgents
    OBVIOUS
  <2>2. CASE p.life = "new"
    <3>1. \A a \in WrapAgents : p.timer[a] = "none"
      BY <2>2 DEF Sound, ProcessInv, InOrder, Busy
    <3> QED
      BY <1>2, <2>1, <3>1 DEF StartsOnce
  <2>3. CASE p.life = "starting"
    BY <1>2, <2>3 DEF Sound, ProcessInv, StartsOnce
  <2> QED
    BY <2>2, <2>3
<1>5. InOrder(q)
  BY <1>2 DEF Sound, ProcessInv, InOrder
<1> QED
  BY <1>2, <1>3, <1>4, <1>5 DEF Sound, ProcessInv

\* The sweep is counted before it runs ...
LEMMA StartedSound ==
    ASSUME NEW p, Sound(p), p.life = "starting", p.startup = {},
           NEW q, q = [p EXCEPT !.life = "running", !.sweep = "idle", !.wg = @ + 1]
    PROVE  Sound(q)
<1>1. p \in ProcessRow /\ p.sweep = "off"
  BY DEF Sound, ProcessInv, InOrder
<1>2. /\ q \in ProcessRow
      /\ q.life = "running" /\ q.sweep = "idle" /\ q.wg = p.wg + 1
      /\ q.timer = p.timer /\ q.startup = {}
  <2> DEFINE wg == p.wg + 1
  <2>1. wg \in Int /\ q = [p EXCEPT !.life = "running", !.sweep = "idle", !.wg = wg]
    BY <1>1 DEF ProcessRow
  <2> HIDE DEF wg
  <2>2. /\ q \in ProcessRow
        /\ q.life = "running" /\ q.sweep = "idle" /\ q.wg = wg
        /\ q.timer = p.timer /\ q.startup = {}
    BY <1>1, <2>1 DEF ProcessRow, Lives
  <2> QED
    BY <2>2 DEF wg
<1>3. Busy(q) = Busy(p)
  BY <1>2 DEF Busy
<1>4. IsFiniteSet(Busy(p)) /\ Cardinality(Busy(p)) \in Nat /\ p.wg = Cardinality(Busy(p))
  BY <1>1, FS_CardinalityType DEF Sound, ProcessInv, Counted, Loops
<1>5. Counted(q)
  BY <1>2, <1>3, <1>4 DEF Counted, Loops
<1> QED
  BY <1>2, <1>5 DEF Sound, ProcessInv, StartsOnce, InOrder

\* ... and until it has returned.
LEMMA SweepReturnsSound ==
    ASSUME NEW p, Sound(p), p.life \in {"stopping", "drained", "stopped"}, p.sweep = "idle",
           NEW q, q = [p EXCEPT !.sweep = "off", !.wg = @ - 1]
    PROVE  Sound(q)
<1>1. p \in ProcessRow
  BY DEF Sound
<1>2. /\ q \in ProcessRow
      /\ q.sweep = "off" /\ q.wg = p.wg - 1
      /\ q.life = p.life /\ q.timer = p.timer /\ q.startup = p.startup
  <2> DEFINE wg == p.wg - 1
  <2>1. wg \in Int /\ q = [p EXCEPT !.sweep = "off", !.wg = wg]
    BY <1>1 DEF ProcessRow
  <2> HIDE DEF wg
  <2>2. /\ q \in ProcessRow /\ q.sweep = "off" /\ q.wg = wg
        /\ q.life = p.life /\ q.timer = p.timer /\ q.startup = p.startup
    BY <1>1, <2>1 DEF ProcessRow
  <2> QED
    BY <2>2 DEF wg
<1>3. Busy(q) = Busy(p)
  BY <1>2 DEF Busy
<1>4. IsFiniteSet(Busy(p)) /\ Cardinality(Busy(p)) \in Nat /\ p.wg = Cardinality(Busy(p)) + 1
  BY FS_CardinalityType DEF Sound, ProcessInv, Counted, Loops
<1>5. Counted(q)
  BY <1>2, <1>3, <1>4 DEF Counted, Loops
<1>6. p.life # "stopped"
  BY <1>4 DEF Sound, ProcessInv, InOrder
<1> QED
  BY <1>2, <1>3, <1>5, <1>6 DEF Sound, ProcessInv, StartsOnce, InOrder

\* What the sweep does in between changes no count.
LEMMA SweepSound ==
    ASSUME NEW p, Sound(p), p.sweep # "off", NEW sweep \in {"idle", "listed"},
           NEW rows \in SUBSET WrapAgents,
           NEW q, q = [p EXCEPT !.sweep = sweep, !.rows = rows]
    PROVE  Sound(q)
<1>1. p \in ProcessRow
  BY DEF Sound
<1>2. /\ q \in ProcessRow
      /\ q.sweep = sweep
      /\ q.life = p.life /\ q.timer = p.timer /\ q.startup = p.startup /\ q.wg = p.wg
  BY <1>1 DEF ProcessRow
<1>3. Counted(q) /\ Busy(q) = Busy(p)
  BY <1>2, CountKept DEF Sound, ProcessInv
<1> QED
  BY <1>2, <1>3 DEF Sound, ProcessInv, StartsOnce, InOrder

-----------------------------------------------------------------------------
(* Stop *)

\* Stop, and its return when the wait group is empty.
LEMMA LifeSound ==
    ASSUME NEW p, Sound(p), NEW life \in Lives,
           \/ p.life = "running" /\ life = "stopping"
           \/ p.life = "drained" /\ p.wg = 0 /\ life = "stopped",
           NEW q, q = [p EXCEPT !.life = life]
    PROVE  Sound(q)
<1>1. p \in ProcessRow
  BY DEF Sound
<1>2. /\ q \in ProcessRow
      /\ q.life = life
      /\ q.sweep = p.sweep /\ q.timer = p.timer /\ q.startup = p.startup /\ q.wg = p.wg
  BY <1>1 DEF ProcessRow
<1>3. Counted(q) /\ Busy(q) = Busy(p)
  BY <1>2, CountKept DEF Sound, ProcessInv
<1> QED
  BY <1>2, <1>3 DEF Sound, ProcessInv, StartsOnce, InOrder

\* The timers that are stopped in time are discounted, each of them once.
LEMMA TimersStoppedSound ==
    ASSUME NEW p, Sound(p), p.life = "stopping",
           NEW stopped, stopped = {a \in p.registry : p.timer[a] = "set"},
           NEW q, q = [p EXCEPT !.life = "drained", !.registry = {},
                          !.wg = @ - Cardinality(stopped),
                          !.timer = [a \in WrapAgents |-> IF a \in stopped THEN "none" ELSE @[a]]]
    PROVE  Sound(q)
<1>1. /\ p \in ProcessRow
      /\ p.timer \in [WrapAgents -> {"none", "set", "called", "expiring", "expired"}]
      /\ p.registry \in SUBSET WrapAgents
      /\ p.wg \in Int
      /\ p.startup = {}
  BY DEF Sound, ProcessInv, InOrder, ProcessRow
<1>2. stopped \subseteq Busy(p)
  BY <1>1 DEF Busy
<1>3. /\ IsFiniteSet(Busy(p)) /\ Cardinality(Busy(p)) \in Nat
      /\ p.wg = Cardinality(Busy(p)) + Loops(p)
  BY FS_CardinalityType DEF Sound, ProcessInv, Counted
<1>4. IsFiniteSet(stopped) /\ Cardinality(stopped) \in Nat
  BY <1>2, <1>3, FS_Subset, FS_CardinalityType
<1>5. /\ q \in ProcessRow
      /\ q.life = "drained" /\ q.startup = {} /\ q.sweep = p.sweep
      /\ q.wg = p.wg - Cardinality(stopped)
      /\ q.timer = [a \in WrapAgents |-> IF a \in stopped THEN "none" ELSE p.timer[a]]
  <2> DEFINE timer == [a \in WrapAgents |-> IF a \in stopped THEN "none" ELSE p.timer[a]]
             wg    == p.wg - Cardinality(stopped)
  <2>1. /\ timer \in [WrapAgents -> {"none", "set", "called", "expiring", "expired"}]
        /\ wg \in Int
    BY <1>1, <1>4
  <2>2. q = [p EXCEPT !.life = "drained", !.registry = {}, !.wg = wg, !.timer = timer]
    BY <1>1 DEF ProcessRow
  <2> HIDE DEF timer, wg
  <2>3. /\ q \in ProcessRow /\ q.timer = timer /\ q.wg = wg
        /\ q.life = "drained" /\ q.startup = p.startup /\ q.sweep = p.sweep
    BY <1>1, <2>1, <2>2 DEF ProcessRow, Lives
  <2> QED
    BY <1>1, <2>3 DEF timer, wg
<1>6. Busy(q) = Busy(p) \ stopped
  BY <1>1, <1>5 DEF Busy
<1>7. /\ IsFiniteSet(Busy(q))
      /\ Cardinality(Busy(q)) = Cardinality(Busy(p)) - Cardinality(stopped)
  <2>1. Busy(p) \cap stopped = stopped
    BY <1>2
  <2>2. /\ IsFiniteSet(Busy(p) \ stopped)
        /\ Cardinality(Busy(p) \ stopped)
             = Cardinality(Busy(p)) - Cardinality(Busy(p) \cap stopped)
    BY <1>3, FS_Difference, Zenon
  <2> QED
    BY <1>6, <2>1, <2>2
<1>8. Counted(q)
  BY <1>3, <1>4, <1>5, <1>7 DEF Counted, Loops
<1> QED
  BY <1>5, <1>8 DEF Sound, ProcessInv, StartsOnce, InOrder

-----------------------------------------------------------------------------
(* The invariant *)

LEMMA WrapRowTypes ==
    ASSUME WrapTypeOK, NEW a \in WrapAgents
    PROVE  /\ expireWrapUp(a) => wrap' \in [WrapAgents -> WrapRow]
           /\ \A status \in {"NotReady", "Engaged", "WrapUp"} :
                  /\ NoEnd(status) \in WrapRow
                  /\ [NoEnd(status) EXCEPT !.until = TRUE] \in WrapRow
           /\ [wrap[a] EXCEPT !.late = TRUE] \in WrapRow
           /\ [wrap[a] EXCEPT !.past = TRUE] \in WrapRow
<1>1. wrap[a] \in WrapRow /\ wrap \in [WrapAgents -> WrapRow]
  BY DEF WrapTypeOK
<1>2. \A status \in {"NotReady", "Engaged", "WrapUp"} :
          /\ NoEnd(status) \in WrapRow
          /\ [NoEnd(status) EXCEPT !.until = TRUE] \in WrapRow
  BY DEF NoEnd, WrapRow
<1>3. [wrap EXCEPT ![a] = NoEnd("NotReady")] \in [WrapAgents -> WrapRow]
  BY <1>1, <1>2
<1>4. /\ [wrap[a] EXCEPT !.late = TRUE] \in WrapRow
      /\ [wrap[a] EXCEPT !.past = TRUE] \in WrapRow
  BY <1>1 DEF WrapRow
<1> QED
  BY <1>1, <1>2, <1>3, <1>4 DEF expireWrapUp

\* One process takes a step, and the rest stay as they are.
LEMMA ProcessStep ==
    ASSUME WrapInv, NEW s \in Servers, NEW q, Sound(q),
           server' = [server EXCEPT ![s] = q],
           wrap' \in [WrapAgents -> WrapRow]
    PROVE  WrapInv'
<1>1. server' \in [Servers -> ProcessRow]
  BY DEF WrapInv, WrapTypeOK, Sound
<1>2. ASSUME NEW u \in Servers PROVE ProcessInv(server'[u])
  <2>1. CASE u = s
    BY <2>1 DEF WrapInv, WrapTypeOK, Sound
  <2>2. CASE u # s
    BY <2>2 DEF WrapInv, WrapTypeOK
  <2> QED
    BY <2>1, <2>2
<1>3. (\A u \in Servers : ProcessInv(server[u]))'
  BY <1>2
<1> QED
  BY <1>1, <1>3 DEF WrapInv, WrapTypeOK

LEMMA ProcessIsSound ==
    ASSUME WrapInv, NEW s \in Servers
    PROVE  /\ Sound(server[s])
           /\ server \in [Servers -> ProcessRow]
           /\ server[s] \in ProcessRow
           /\ wrap \in [WrapAgents -> WrapRow]
BY DEF WrapInv, WrapTypeOK, Sound

LEMMA RowsKeepInv ==
    ASSUME WrapInv, NEW a \in WrapAgents,
           \/ Engage(a) \/ CompleteInteraction(a) \/ PatchStatus(a)
           \/ ServerClock(a) \/ DatabaseClock(a)
    PROVE  WrapInv'
<1>1. PICK row \in WrapRow : wrap' = [wrap EXCEPT ![a] = row]
  BY WrapRowTypes DEF WrapInv, Engage, CompleteInteraction, PatchStatus, ServerClock,
                      DatabaseClock
<1>2. UNCHANGED server
  BY DEF Engage, CompleteInteraction, PatchStatus, ServerClock, DatabaseClock
<1> QED
  BY <1>1, <1>2 DEF WrapInv, WrapTypeOK

LEMMA StartKeepsInv ==
    ASSUME WrapInv, NEW s \in Servers, ListAtStart(s) \/ StartupSweep(s) \/ Started(s)
    PROVE  WrapInv'
<1> DEFINE p == server[s]
<1>1. Sound(p) /\ p \in ProcessRow /\ wrap \in [WrapAgents -> WrapRow]
  BY ProcessIsSound
<1>2. CASE ListAtStart(s)
  <2> DEFINE startup == {[agent |-> a, due |-> ~wrap[a].until \/ wrap[a].late] :
                         a \in {b \in WrapAgents : Wrapping(b)}}
             q       == [p EXCEPT !.life = "starting", !.startup = startup]
  <2>1. startup \in SUBSET [agent : WrapAgents, due : BOOLEAN]
    <3>1. \A a \in WrapAgents : (~wrap[a].until \/ wrap[a].late) \in BOOLEAN
      BY <1>1 DEF WrapRow
    <3>2. ASSUME NEW row \in startup PROVE row \in [agent : WrapAgents, due : BOOLEAN]
      <4>1. PICK a \in WrapAgents : row = [agent |-> a, due |-> ~wrap[a].until \/ wrap[a].late]
        OBVIOUS
      <4> QED
        BY <3>1, <4>1
    <3> QED
      BY <3>2
  <2>2. \A row1, row2 \in startup : row1.agent = row2.agent => row1 = row2
    OBVIOUS
  <2>3. p.life = "new" /\ server' = [server EXCEPT ![s] = q] /\ UNCHANGED wrap
    BY <1>2, ProcessIsSound DEF ListAtStart
  <2> HIDE DEF startup, p
  <2>4. Sound(q)
    BY <1>1, <2>1, <2>2, <2>3, StartupSound
  <2> HIDE DEF q
  <2> QED
    BY <1>1, <2>3, <2>4, ProcessStep
<1>3. CASE StartupSweep(s)
  <2>1. /\ p.life = "starting"
        /\ p.startup \in SUBSET [agent : WrapAgents, due : BOOLEAN]
    BY <1>1, <1>3 DEF StartupSweep, ProcessRow
  <2>2. PICK row \in p.startup :
          \/ /\ expireWrapUp(row.agent) \/ UNCHANGED wrap
             /\ server' = [server EXCEPT ![s] = [p EXCEPT !.startup = @ \ {row}]]
          \/ /\ UNCHANGED wrap
             /\ server' = [server EXCEPT ![s] =
                  [ScheduleWrapUpExpiry(s, row.agent) EXCEPT !.startup = @ \ {row}]]
    BY <1>3 DEF StartupSweep
  <2>3. row.agent \in WrapAgents
    BY <2>1
  <2>4. wrap' \in [WrapAgents -> WrapRow]
    BY <1>1, <2>2, <2>3, WrapRowTypes DEF WrapInv
  <2>5. CASE server' = [server EXCEPT ![s] = [p EXCEPT !.startup = @ \ {row}]]
    <3> DEFINE startup == p.startup \ {row}
               q       == [p EXCEPT !.life = "starting", !.startup = startup]
    <3>1. startup \in SUBSET [agent : WrapAgents, due : BOOLEAN]
      BY <2>1
    <3>2. \A row1, row2 \in startup : row1.agent = row2.agent => row1 = row2
      BY <1>1 DEF Sound, ProcessInv, StartsOnce
    <3>3. server' = [server EXCEPT ![s] = q]
      <4>1. q = [p EXCEPT !.startup = @ \ {row}]
        BY <1>1, <2>1 DEF ProcessRow
      <4> QED
        BY <2>5, <4>1
    <3>4. startup \subseteq p.startup
      OBVIOUS
    <3> HIDE DEF startup, p
    <3>5. Sound(q)
      BY <1>1, <2>1, <3>1, <3>2, <3>4, StartupSound
    <3> HIDE DEF q
    <3> QED
      BY <2>4, <3>3, <3>5, ProcessStep
  <2>6. CASE server' = [server EXCEPT ![s] =
                          [ScheduleWrapUpExpiry(s, row.agent) EXCEPT !.startup = @ \ {row}]]
    <3> DEFINE a == row.agent
               q == [[p EXCEPT !.timer[a] = "set", !.registry = @ \cup {a}, !.wg = @ + 1]
                        EXCEPT !.startup = @ \ {row}]
    <3>1. server' = [server EXCEPT ![s] = q]
      BY <2>6 DEF ScheduleWrapUpExpiry
    <3>2. Sound(q)
      BY <1>1, <2>1, ScheduledSound
    <3> HIDE DEF q
    <3> QED
      BY <2>4, <3>1, <3>2, ProcessStep
  <2> QED
    BY <2>2, <2>5, <2>6
<1>4. CASE Started(s)
  <2> DEFINE q == [p EXCEPT !.life = "running", !.sweep = "idle", !.wg = @ + 1]
  <2>1. /\ p.life = "starting" /\ p.startup = {} /\ UNCHANGED wrap
        /\ server' = [server EXCEPT ![s] = q]
    BY <1>4, ProcessIsSound DEF Started
  <2> HIDE DEF p
  <2>2. Sound(q)
    BY <1>1, <2>1, StartedSound
  <2> HIDE DEF q
  <2> QED
    BY <1>1, <2>1, <2>2, ProcessStep
<1> QED
  BY <1>2, <1>3, <1>4

LEMMA TimersKeepInv ==
    ASSUME WrapInv, NEW s \in Servers, NEW a \in WrapAgents,
           TimerGoesOff(s, a) \/ Callback(s, a)
    PROVE  WrapInv'
<1> DEFINE p == server[s]
<1>1. /\ Sound(p) /\ p \in ProcessRow /\ wrap \in [WrapAgents -> WrapRow]
      /\ server \in [Servers -> ProcessRow]
      /\ p.registry \in SUBSET WrapAgents
  BY ProcessIsSound DEF ProcessRow
<1>2. wrap' \in [WrapAgents -> WrapRow]
  BY <1>1, WrapRowTypes
    DEF WrapInv, TimerGoesOff, Callback, CallbackLooks, CallbackExpires, CallbackReturns
<1>3. p.timer[a] # "none"
  BY DEF TimerGoesOff, Callback, CallbackLooks, CallbackExpires, CallbackReturns
<1>4. CASE \E at \in {"called", "expiring", "expired"} :
               server' = [server EXCEPT ![s] = [p EXCEPT !.timer[a] = at]]
  <2>1. PICK at \in {"called", "expiring", "expired"} :
            server' = [server EXCEPT ![s] = [p EXCEPT !.timer[a] = at]]
    BY <1>4
  <2>2. Sound([p EXCEPT !.timer[a] = at])
    BY <1>1, <1>3, TimerMovesSound
  <2> DEFINE q == [p EXCEPT !.timer[a] = at]
  <2>3. Sound(q) /\ server' = [server EXCEPT ![s] = q]
    BY <2>1, <2>2
  <2> HIDE DEF q
  <2> QED
    BY <1>2, <2>3, ProcessStep
<1>5. CASE \E registry \in SUBSET WrapAgents :
               server' = [server EXCEPT ![s] =
                   [p EXCEPT !.timer[a] = "none", !.wg = @ - 1, !.registry = registry]]
  <2>1. PICK registry \in SUBSET WrapAgents :
            server' = [server EXCEPT ![s] =
                [p EXCEPT !.timer[a] = "none", !.wg = @ - 1, !.registry = registry]]
    BY <1>5
  <2> DEFINE q == [p EXCEPT !.timer[a] = "none", !.wg = @ - 1, !.registry = registry]
  <2>2. Sound(q)
    BY <1>1, <1>3, TimerReturnsSound
  <2>3. server' = [server EXCEPT ![s] = q]
    BY <2>1
  <2> HIDE DEF q
  <2> QED
    BY <1>2, <2>2, <2>3, ProcessStep
<1>6. CASE TimerGoesOff(s, a)
  BY <1>4, <1>6 DEF TimerGoesOff
<1>7. CASE CallbackLooks(s, a)
  <2>1. Return(s, a) = [p EXCEPT !.timer[a] = "none", !.wg = @ - 1, !.registry = p.registry]
    BY <1>1 DEF Return, ProcessRow
  <2> QED
    BY <1>1, <1>4, <1>5, <1>7, <2>1 DEF CallbackLooks
<1>8. CASE CallbackExpires(s, a)
  BY <1>4, <1>8 DEF CallbackExpires
<1>9. CASE CallbackReturns(s, a)
  <2>1. [Return(s, a) EXCEPT !.registry = @ \ {a}]
            = [p EXCEPT !.timer[a] = "none", !.wg = @ - 1, !.registry = p.registry \ {a}]
    BY <1>1 DEF Return, ProcessRow
  <2>2. p.registry \ {a} \in SUBSET WrapAgents
    BY <1>1
  <2> QED
    BY <1>5, <1>9, <2>1, <2>2 DEF CallbackReturns
<1> QED
  BY <1>6, <1>7, <1>8, <1>9 DEF Callback

LEMMA SweepKeepsInv ==
    ASSUME WrapInv, NEW s \in Servers, SafetySweep(s)
    PROVE  WrapInv'
<1> DEFINE p == server[s]
<1>1. /\ Sound(p) /\ p \in ProcessRow /\ wrap \in [WrapAgents -> WrapRow]
      /\ server \in [Servers -> ProcessRow]
      /\ p.rows \in SUBSET WrapAgents
  BY ProcessIsSound DEF ProcessRow
<1>2. wrap' \in [WrapAgents -> WrapRow]
  <2>1. CASE SweepExpires(s)
    <3>1. PICK a \in p.rows : (UNCHANGED wrap) \/ expireWrapUp(a)
      BY <2>1 DEF SweepExpires
    <3> QED
      BY <1>1, <3>1, WrapRowTypes DEF WrapInv
  <2> QED
    BY <1>1, <2>1 DEF SafetySweep, SweepTick, SweepFails, SweepRests, SweepReturns
<1>3. CASE SweepReturns(s)
  <2> DEFINE q == [p EXCEPT !.sweep = "off", !.wg = @ - 1]
  <2>1. /\ p.life \in {"stopping", "drained", "stopped"} /\ p.sweep = "idle"
        /\ server' = [server EXCEPT ![s] = q]
    BY <1>1, <1>3 DEF SweepReturns, Cancelled
  <2> HIDE DEF p
  <2>2. Sound(q)
    BY <1>1, <2>1, SweepReturnsSound
  <2> HIDE DEF q
  <2> QED
    BY <1>2, <2>1, <2>2, ProcessStep
<1>4. CASE p.sweep # "off" /\ \E sweep \in {"idle", "listed"}, rows \in SUBSET WrapAgents :
               server' = [server EXCEPT ![s] = [p EXCEPT !.sweep = sweep, !.rows = rows]]
  <2>1. PICK sweep \in {"idle", "listed"}, rows \in SUBSET WrapAgents :
            server' = [server EXCEPT ![s] = [p EXCEPT !.sweep = sweep, !.rows = rows]]
    BY <1>4
  <2> DEFINE q == [p EXCEPT !.sweep = sweep, !.rows = rows]
  <2>2. Sound(q)
    BY <1>1, <1>4, SweepSound
  <2>3. server' = [server EXCEPT ![s] = q]
    BY <2>1
  <2> HIDE DEF q
  <2> QED
    BY <1>2, <2>2, <2>3, ProcessStep
<1>5. CASE SweepTick(s)
  <2>1. PastDue(s) \in SUBSET WrapAgents
    BY DEF PastDue
  <2>2. p.sweep # "off" /\ \E rows \in SUBSET WrapAgents :
            server' = [server EXCEPT ![s] = [p EXCEPT !.sweep = "listed", !.rows = rows]]
    BY <1>1, <1>5, <2>1 DEF SweepTick
  <2> QED
    BY <1>4, <2>2
<1>6. CASE SweepExpires(s) \/ SweepFails(s)
  <2>1. p.sweep = "listed"
    BY <1>6 DEF SweepExpires, SweepFails
  <2>2. PICK a \in p.rows : server' = [server EXCEPT ![s] = [p EXCEPT !.rows = @ \ {a}]]
    BY <1>6 DEF SweepExpires, SweepFails
  <2>3. [p EXCEPT !.rows = @ \ {a}] = [p EXCEPT !.sweep = "listed", !.rows = p.rows \ {a}]
    BY <1>1, <2>1 DEF ProcessRow
  <2>4. p.rows \ {a} \in SUBSET WrapAgents
    BY <1>1
  <2> QED
    BY <1>4, <2>1, <2>2, <2>3, <2>4
<1>7. CASE SweepRests(s)
  <2>1. p.sweep = "listed" /\ server' = [server EXCEPT ![s] = [p EXCEPT !.sweep = "idle"]]
    BY <1>1, <1>7 DEF SweepRests
  <2>2. [p EXCEPT !.sweep = "idle"] = [p EXCEPT !.sweep = "idle", !.rows = p.rows]
    BY <1>1 DEF ProcessRow
  <2> QED
    BY <1>1, <1>4, <2>1, <2>2
<1> QED
  BY <1>3, <1>5, <1>6, <1>7 DEF SafetySweep

LEMMA StopKeepsInv ==
    ASSUME WrapInv, NEW s \in Servers,
           \/ Stop(s) \/ StopTimers(s) \/ StopReturns(s)
           \/ Restart(s) \/ CrashServer(s)
    PROVE  WrapInv'
<1> DEFINE p == server[s]
<1>1. /\ Sound(p) /\ p \in ProcessRow /\ server \in [Servers -> ProcessRow]
      /\ wrap' \in [WrapAgents -> WrapRow]
  BY ProcessIsSound DEF Stop, StopTimers, StopReturns, Restart, CrashServer
<1>2. CASE Stop(s) \/ StopReturns(s)
  <2>1. PICK life \in Lives :
            /\ \/ p.life = "running" /\ life = "stopping"
               \/ p.life = "drained" /\ p.wg = 0 /\ life = "stopped"
            /\ server' = [server EXCEPT ![s] = [p EXCEPT !.life = life]]
    BY <1>2 DEF Stop, StopReturns, Lives
  <2> DEFINE q == [p EXCEPT !.life = life]
  <2>2. Sound(q)
    BY <1>1, <2>1, LifeSound
  <2>3. server' = [server EXCEPT ![s] = q]
    BY <2>1
  <2> HIDE DEF q
  <2> QED
    BY <1>1, <2>2, <2>3, ProcessStep
<1>3. CASE StopTimers(s)
  <2> DEFINE stopped == {a \in p.registry : p.timer[a] = "set"}
             q == [p EXCEPT !.life = "drained", !.registry = {},
                      !.wg = @ - Cardinality(stopped),
                      !.timer = [a \in WrapAgents |-> IF a \in stopped THEN "none" ELSE @[a]]]
  <2>1. p.life = "stopping" /\ server' = [server EXCEPT ![s] = q]
    BY <1>1, <1>3 DEF StopTimers
  <2>2. Sound(q)
    BY <1>1, <2>1, TimersStoppedSound
  <2> HIDE DEF q
  <2> QED
    BY <1>1, <2>1, <2>2, ProcessStep
<1>4. CASE Restart(s) \/ CrashServer(s)
  <2>1. server' = [server EXCEPT ![s] = Process]
    BY <1>4 DEF Restart, CrashServer
  <2> QED
    BY <1>1, <2>1, NewProcessSound, ProcessStep
<1> QED
  BY <1>2, <1>3, <1>4

LEMMA WrapInitInv == WrapInit => WrapInv
<1> SUFFICES ASSUME WrapInit PROVE WrapInv
  OBVIOUS
<1>1. wrap \in [WrapAgents -> WrapRow]
  BY DEF WrapInit, NoEnd, WrapRow
<1>2. server \in [Servers -> ProcessRow] /\ \A s \in Servers : ProcessInv(server[s])
  BY NewProcessSound DEF WrapInit, Sound
<1> QED
  BY <1>1, <1>2 DEF WrapInv, WrapTypeOK

LEMMA WrapNextInv == WrapInv /\ [WrapNext]_wrapVars => WrapInv'
<1> SUFFICES ASSUME WrapInv, [WrapNext]_wrapVars PROVE WrapInv'
  OBVIOUS
<1>1. CASE UNCHANGED wrapVars
  BY <1>1 DEF wrapVars, WrapInv, WrapTypeOK
<1>2. CASE WrapNext
  BY <1>2, RowsKeepInv, StartKeepsInv, TimersKeepInv, SweepKeepsInv, StopKeepsInv
    DEF WrapNext, Lifecycle
<1> QED
  BY <1>1, <1>2

\* The wait group of every process counts its timers and its sweep, at every step.
THEOREM WrapUpInvariance == WrapSpec => []WrapInv
<1> QED
  BY WrapInitInv, WrapNextInv, PTL DEF WrapSpec

\* When Stop has returned no timer, callback or sweep of the process is left, and
\* none will be: every one of them was counted until it was done.
THEOREM StopLeavesNothing == WrapSpec => []NothingRunsAfterStop
<1>1. WrapInv => NothingRunsAfterStop
  <2> SUFFICES ASSUME WrapInv, NEW s \in Servers, server[s].life = "stopped"
               PROVE  /\ server[s].sweep = "off"
                      /\ \A a \in WrapAgents : server[s].timer[a] = "none"
    BY DEF NothingRunsAfterStop
  <2> DEFINE p == server[s]
  <2>1. p.wg = 0 /\ IsFiniteSet(Busy(p)) /\ p.wg = Cardinality(Busy(p)) + Loops(p)
    BY DEF WrapInv, ProcessInv, InOrder, Counted
  <2>2. Cardinality(Busy(p)) \in Nat
    BY <2>1, FS_CardinalityType
  <2>3. Cardinality(Busy(p)) = 0 /\ p.sweep = "off"
    BY <2>1, <2>2 DEF Loops
  <2>4. Busy(p) = {}
    BY <2>1, <2>3, FS_EmptySet
  <2> QED
    BY <2>3, <2>4 DEF Busy
<1> QED
  BY <1>1, WrapUpInvariance, PTL

-----------------------------------------------------------------------------
(* The rows of the continuations, and the workers that fire them *)

Jobs == [timer : Timers, attempt : 1..MaxAttempts]

ContinuationRow ==
    [status : {"pending", "claimed", "done", "cancelled"}, by : Workers \cup {None},
     leased : BOOLEAN, attempts : 0..MaxAttempts]

WorkerRow ==
    [at : {"idle", "claim", "next", "acquired", "resolved", "failed"},
     batch : SUBSET Jobs, job : Jobs \cup {None}, fires : BOOLEAN]

TimersTypeOK ==
    /\ continuation \in [Timers -> ContinuationRow]
    /\ standing \subseteq Timers
    /\ worker \in [Workers -> WorkerRow]

Acting(p) == p.at \in {"acquired", "resolved"}

\* What a worker does is of its batch, and it claims with empty hands.
InHand(p) ==
    /\ p.at \in {"acquired", "resolved", "failed"} => p.job \in p.batch
    /\ p.at \in {"idle", "claim"} => p.batch = {}

\* The count in hand is the row's for as long as the row has the worker's name.
KnowsTheCount(w) ==
    \A job \in worker[w].batch :
        continuation[job.timer].by = w => continuation[job.timer].attempts = job.attempt

\* The row that is resolved is still the worker's: nobody claims a locked row.
HoldsItsRow(w) ==
    worker[w].at = "resolved" => continuation[worker[w].job.timer].by = w

\* What the worker saw when it took the route is so until it commits.
SawTheCause(w) ==
    Acting(worker[w]) => (worker[w].fires <=> worker[w].job.timer \in standing)

OneFires ==
    \A v, w \in Workers :
        /\ Acting(worker[v]) /\ worker[v].fires
        /\ Acting(worker[w]) /\ worker[w].fires
        /\ worker[v].job.timer = worker[w].job.timer
        => v = w

\* Why a row is settled; a row that is done may be given up yet, if the worker
\* has not heard of its commit and the attempt was the last.
HasItsCause(c) ==
    /\ continuation[c].status = "done" => c \notin standing
    /\ continuation[c].status = "cancelled" => continuation[c].attempts = MaxAttempts

TimersInv ==
    /\ TimersTypeOK
    /\ \A w \in Workers : InHand(worker[w])
    /\ \A w \in Workers : KnowsTheCount(w)
    /\ \A w \in Workers : HoldsItsRow(w)
    /\ \A w \in Workers : SawTheCause(w)
    /\ OneFires
    /\ \A c \in Timers : HasItsCause(c)

USE DEF Acting

\* A worker that stands back, from whatever it did, leaves the others what they
\* hold: its own rows may lose its name, causes may go that no other worker fires.
LEMMA StandsBack ==
    ASSUME TimersInv, NEW w \in Workers, NEW q \in WorkerRow,
           worker' = [worker EXCEPT ![w] = q],
           ~Acting(q), InHand(q), q.batch \subseteq worker[w].batch,
           continuation' \in [Timers -> ContinuationRow],
           \A c \in Timers :
               /\ continuation'[c].attempts = continuation[c].attempts
               /\ \/ continuation'[c].by = continuation[c].by
                  \/ continuation[c].by = w /\ continuation'[c].by = None,
           standing' \subseteq standing,
           \A v \in Workers \ {w} :
               Acting(worker[v]) /\ worker[v].fires => worker[v].job.timer \in standing',
           \A c \in Timers : HasItsCause(c)'
    PROVE  TimersInv'
<1>1. /\ worker' \in [Workers -> WorkerRow]
      /\ worker'[w] = q
      /\ \A v \in Workers \ {w} : worker'[v] = worker[v]
  BY DEF TimersInv, TimersTypeOK
<1>2. TimersTypeOK'
  BY <1>1 DEF TimersInv, TimersTypeOK
<1>3. \A v \in Workers : InHand(worker'[v])
  BY <1>1 DEF TimersInv
<1>4. ASSUME NEW v \in Workers PROVE KnowsTheCount(v)'
  <2> SUFFICES ASSUME NEW job \in worker'[v].batch, continuation'[job.timer].by = v
               PROVE  continuation'[job.timer].attempts = job.attempt
    BY DEF KnowsTheCount
  <2>1. job \in worker[v].batch
    BY <1>1
  <2>2. job \in Jobs
    BY <2>1 DEF TimersInv, TimersTypeOK, WorkerRow
  <2>3. job.timer \in Timers
    BY <2>2 DEF Jobs
  <2>4. continuation[job.timer].by = v
    BY <2>3, WorkerAssumption
  <2> QED
    BY <2>1, <2>3, <2>4 DEF TimersInv, KnowsTheCount
<1>5. ASSUME NEW v \in Workers PROVE HoldsItsRow(v)'
  <2> SUFFICES ASSUME worker'[v].at = "resolved"
               PROVE  continuation'[worker'[v].job.timer].by = v
    BY DEF HoldsItsRow
  <2>1. v # w /\ worker'[v] = worker[v]
    BY <1>1
  <2>2. worker[v].job \in Jobs
    BY <2>1 DEF TimersInv, TimersTypeOK, InHand, WorkerRow
  <2>3. worker[v].job.timer \in Timers
    BY <2>2 DEF Jobs
  <2> QED
    BY <2>1, <2>3 DEF TimersInv, HoldsItsRow
<1>6. ASSUME NEW v \in Workers PROVE SawTheCause(v)'
  BY <1>1 DEF TimersInv, TimersTypeOK, WorkerRow, SawTheCause
<1>7. OneFires'
  BY <1>1 DEF TimersInv, OneFires
<1> QED
  BY <1>2, <1>3, <1>4, <1>5, <1>6, <1>7 DEF TimersInv

\* The row a worker is at.
LEMMA TimerInHand ==
    ASSUME TimersInv, NEW w \in Workers, worker[w].at \in {"acquired", "resolved", "failed"}
    PROVE  /\ worker[w] \in WorkerRow
           /\ worker[w].job \in worker[w].batch
           /\ worker[w].job \in Jobs
           /\ worker[w].job.timer \in Timers
<1>1. worker[w] \in WorkerRow /\ worker[w].job \in worker[w].batch
  BY DEF TimersInv, TimersTypeOK, InHand
<1>2. worker[w].job \in Jobs
  BY <1>1 DEF WorkerRow
<1> QED
  BY <1>1, <1>2 DEF Jobs

LEMMA DoneStandsBack ==
    ASSUME TimersInv, NEW w \in Workers
    PROVE  /\ Done(w) \in WorkerRow
           /\ ~Acting(Done(w)) /\ InHand(Done(w))
           /\ Done(w).batch \subseteq worker[w].batch
<1> DEFINE rest == worker[w].batch \ {worker[w].job}
<1>1. rest \subseteq worker[w].batch /\ rest \in SUBSET Jobs
  BY DEF TimersInv, TimersTypeOK, WorkerRow
<1>2. CASE rest = {}
  <2>1. Done(w) = Between
    BY <1>2 DEF Done
  <2> QED
    BY <2>1 DEF Between, WorkerRow, InHand
<1>3. CASE rest # {}
  <2>1. Done(w) = [Between EXCEPT !.at = "next", !.batch = rest]
    BY <1>3 DEF Done
  <2> HIDE DEF rest
  <2> QED
    BY <1>1, <2>1 DEF Between, WorkerRow, InHand
<1> QED
  BY <1>2, <1>3

\* It stands back and writes nothing.
LEMMA StandsBackAlone ==
    ASSUME TimersInv, NEW w \in Workers, NEW q \in WorkerRow,
           worker' = [worker EXCEPT ![w] = q],
           ~Acting(q), InHand(q), q.batch \subseteq worker[w].batch,
           continuation' = continuation, standing' = standing
    PROVE  TimersInv'
<1>1. /\ continuation' \in [Timers -> ContinuationRow]
      /\ \A c \in Timers : HasItsCause(c)'
      /\ \A v \in Workers \ {w} :
           Acting(worker[v]) /\ worker[v].fires => worker[v].job.timer \in standing'
  BY DEF TimersInv, TimersTypeOK, HasItsCause, SawTheCause
<1> QED
  BY <1>1, StandsBack

LEMMA LeaseRunsOutKeeps ==
    ASSUME TimersInv, NEW c \in Timers, LeaseRunsOut(c)
    PROVE  TimersInv'
<1>1. /\ continuation' = [continuation EXCEPT ![c].leased = FALSE]
      /\ standing' = standing /\ worker' = worker
  BY DEF LeaseRunsOut
<1>2. /\ continuation' \in [Timers -> ContinuationRow]
      /\ \A d \in Timers : /\ continuation'[d].by = continuation[d].by
                           /\ continuation'[d].attempts = continuation[d].attempts
                           /\ continuation'[d].status = continuation[d].status
  BY <1>1 DEF TimersInv, TimersTypeOK, ContinuationRow
<1>3. TimersTypeOK' /\ \A d \in Timers : HasItsCause(d)'
  BY <1>1, <1>2 DEF TimersInv, TimersTypeOK, HasItsCause
<1>4. ASSUME NEW w \in Workers PROVE KnowsTheCount(w)' /\ HoldsItsRow(w)'
  <2>1. \A job \in worker[w].batch : job.timer \in Timers
    BY DEF TimersInv, TimersTypeOK, WorkerRow, Jobs
  <2>2. KnowsTheCount(w)'
    BY <1>1, <1>2, <2>1 DEF TimersInv, KnowsTheCount
  <2>3. HoldsItsRow(w)'
    BY <1>1, <1>2, TimerInHand DEF TimersInv, HoldsItsRow
  <2> QED
    BY <2>2, <2>3
<1> QED
  BY <1>1, <1>3, <1>4 DEF TimersInv, SawTheCause, OneFires

LEMMA OvertakeKeeps ==
    ASSUME TimersInv, NEW c \in Timers, Overtake(c)
    PROVE  TimersInv'
<1>1. /\ standing' = standing \ {c}
      /\ continuation' = continuation /\ worker' = worker
      /\ \A v \in Workers : Acting(worker[v]) /\ worker[v].fires => worker[v].job.timer # c
  BY DEF Overtake, RouteLocked
<1>2. ASSUME NEW v \in Workers PROVE SawTheCause(v)'
  BY <1>1 DEF TimersInv, TimersTypeOK, WorkerRow, SawTheCause
<1>3. TimersTypeOK' /\ \A d \in Timers : HasItsCause(d)'
  BY <1>1 DEF TimersInv, TimersTypeOK, HasItsCause
<1> QED
  BY <1>1, <1>2, <1>3 DEF TimersInv, KnowsTheCount, HoldsItsRow, OneFires

LEMMA LastIsGivenUp ==
    ASSUME TimersInv, NEW c \in Timers, continuation[c].attempts >= MaxAttempts,
           continuation'[c] = GaveUp(c)
    PROVE  /\ continuation'[c] \in ContinuationRow
           /\ continuation'[c].attempts = continuation[c].attempts
           /\ continuation'[c].by = continuation[c].by
           /\ HasItsCause(c)'
<1>1. /\ continuation[c] \in ContinuationRow
      /\ continuation'[c] = [continuation[c] EXCEPT !.status = "cancelled", !.leased = FALSE]
  BY DEF TimersInv, TimersTypeOK, GaveUp
<1>2. /\ continuation'[c] \in ContinuationRow
      /\ continuation'[c].attempts = continuation[c].attempts
      /\ continuation'[c].by = continuation[c].by
      /\ continuation'[c].status = "cancelled"
  BY <1>1 DEF ContinuationRow
<1>3. continuation[c].attempts = MaxAttempts
  BY <1>1, WorkerAssumption DEF ContinuationRow
<1> QED
  BY <1>2, <1>3 DEF HasItsCause

LEMMA CancelExhaustedKeeps ==
    ASSUME TimersInv, NEW w \in Workers, CancelExhaustedContinuations(w)
    PROVE  TimersInv'
<1> DEFINE q == [worker[w] EXCEPT !.at = "claim"]
<1>1. /\ worker[w].at = "idle" /\ worker' = [worker EXCEPT ![w] = q] /\ standing' = standing
  BY DEF CancelExhaustedContinuations
<1>2. q \in WorkerRow /\ ~Acting(q) /\ InHand(q) /\ q.batch = worker[w].batch
  BY <1>1 DEF TimersInv, TimersTypeOK, WorkerRow, InHand
<1>3. ASSUME NEW c \in Timers
      PROVE  /\ continuation'[c] \in ContinuationRow
             /\ continuation'[c].attempts = continuation[c].attempts
             /\ continuation'[c].by = continuation[c].by
             /\ HasItsCause(c)'
  <2>1. continuation[c] \in ContinuationRow /\ HasItsCause(c)
    BY DEF TimersInv, TimersTypeOK
  <2>2. \/ continuation'[c] = continuation[c]
        \/ continuation'[c] = GaveUp(c) /\ continuation[c].attempts >= MaxAttempts
    BY DEF CancelExhaustedContinuations
  <2>3. CASE continuation'[c] = continuation[c]
    BY <1>1, <2>1, <2>3 DEF HasItsCause
  <2>4. CASE continuation'[c] = GaveUp(c) /\ continuation[c].attempts >= MaxAttempts
    BY <2>1, <2>4, LastIsGivenUp
  <2> QED
    BY <2>2, <2>3, <2>4
<1>4. continuation' \in [Timers -> ContinuationRow]
  <2>1. continuation' = [c \in Timers |-> continuation'[c]]
    BY DEF CancelExhaustedContinuations
  <2> QED
    BY <1>3, <2>1
<1>5. \A v \in Workers \ {w} :
        Acting(worker[v]) /\ worker[v].fires => worker[v].job.timer \in standing'
  BY <1>1 DEF TimersInv, SawTheCause
<1> HIDE DEF q
<1> QED
  BY <1>1, <1>2, <1>3, <1>4, <1>5, StandsBack

LEMMA ClaimKeeps ==
    ASSUME TimersInv, NEW w \in Workers, ClaimDueContinuations(w)
    PROVE  TimersInv'
<1>1. PICK taken \in SUBSET {c \in Timers : /\ OpenToClaims(c)
                                            /\ continuation[c].attempts < MaxAttempts
                                            /\ ~RowLocked(c)} :
        /\ continuation' = [c \in Timers |-> IF c \in taken
             THEN [continuation[c] EXCEPT !.status = "claimed", !.by = w,
                                          !.leased = TRUE, !.attempts = @ + 1]
             ELSE continuation[c]]
        /\ worker' = [worker EXCEPT
             ![w].at = IF taken = {} THEN "idle" ELSE "next",
             ![w].batch = {[timer |-> c, attempt |-> continuation[c].attempts + 1] :
                           c \in taken}]
  BY DEF ClaimDueContinuations, kSubset
<1>2. worker[w].at = "claim" /\ worker[w] \in WorkerRow /\ standing' = standing
  BY DEF ClaimDueContinuations, TimersInv, TimersTypeOK
<1> DEFINE batch == {[timer |-> c, attempt |-> continuation[c].attempts + 1] : c \in taken}
           q == [worker[w] EXCEPT !.at = IF taken = {} THEN "idle" ELSE "next",
                                  !.batch = batch]
<1>3. ASSUME NEW c \in taken
      PROVE  /\ c \in Timers /\ continuation[c] \in ContinuationRow
             /\ continuation[c].attempts + 1 \in 1..MaxAttempts
             /\ continuation'[c] = [continuation[c] EXCEPT !.status = "claimed",
                  !.by = w, !.leased = TRUE, !.attempts = @ + 1]
  <2>1. c \in Timers /\ continuation[c].attempts < MaxAttempts
    BY <1>1
  <2>2. continuation[c] \in ContinuationRow
    BY <2>1 DEF TimersInv, TimersTypeOK
  <2>3. continuation[c].attempts \in 0..MaxAttempts
    BY <2>2 DEF ContinuationRow
  <2>4. continuation[c].attempts + 1 \in 1..MaxAttempts
    BY <2>1, <2>3, WorkerAssumption
  <2> QED
    BY <1>1, <2>1, <2>2, <2>4
<1>4. \A c \in Timers \ taken : continuation'[c] = continuation[c]
  BY <1>1
<1>5. ASSUME NEW c \in taken
      PROVE  /\ continuation'[c] \in ContinuationRow
             /\ continuation'[c].attempts = continuation[c].attempts + 1
             /\ continuation'[c].by = w
             /\ continuation'[c].status = "claimed"
  <2>1. \A n \in 1..MaxAttempts : n \in 0..MaxAttempts
    BY WorkerAssumption
  <2>2. continuation[c].attempts + 1 \in 0..MaxAttempts
    BY <1>3, <2>1
  <2> QED
    BY <1>3, <2>2 DEF ContinuationRow
<1>6. batch \in SUBSET Jobs
  <2>1. ASSUME NEW c \in taken
        PROVE  [timer |-> c, attempt |-> continuation[c].attempts + 1] \in Jobs
    BY <1>3 DEF Jobs
  <2> QED
    BY <2>1
<1>7. /\ \A job \in batch : /\ job.timer \in taken
                             /\ job.attempt = continuation[job.timer].attempts + 1
      /\ taken = {} => batch = {}
  OBVIOUS
<1>8. worker' = [worker EXCEPT ![w] = q]
  BY <1>1
<1> HIDE DEF batch
<1>9. /\ q \in WorkerRow /\ q.at \in {"idle", "next"} /\ q.batch = batch
      /\ InHand(q)
  BY <1>2, <1>6, <1>7 DEF WorkerRow, InHand
<1> HIDE DEF q
<1>10. /\ worker' \in [Workers -> WorkerRow] /\ worker'[w] = q
       /\ \A v \in Workers \ {w} : worker'[v] = worker[v]
  BY <1>8, <1>9 DEF TimersInv, TimersTypeOK
<1>11. TimersTypeOK'
  <2>1. \A c \in Timers : continuation'[c] \in ContinuationRow
    BY <1>4, <1>5 DEF TimersInv, TimersTypeOK
  <2>2. continuation' \in [Timers -> ContinuationRow]
    BY <1>1, <2>1
  <2> QED
    BY <1>2, <1>10, <2>2 DEF TimersInv, TimersTypeOK
<1>12. \A v \in Workers : InHand(worker'[v])
  BY <1>9, <1>10 DEF TimersInv
<1>13. ASSUME NEW v \in Workers PROVE KnowsTheCount(v)'
  <2>1. CASE v = w
    BY <1>5, <1>7, <1>9, <1>10, <2>1 DEF KnowsTheCount
  <2>2. CASE v # w
    <3> SUFFICES ASSUME NEW job \in worker[v].batch, continuation'[job.timer].by = v
                 PROVE  continuation'[job.timer].attempts = job.attempt
      BY <1>10, <2>2 DEF KnowsTheCount
    <3>1. job.timer \in Timers
      BY DEF TimersInv, TimersTypeOK, WorkerRow, Jobs
    <3>2. job.timer \notin taken
      BY <1>5, <2>2
    <3> QED
      BY <1>4, <3>1, <3>2 DEF TimersInv, KnowsTheCount
  <2> QED
    BY <2>1, <2>2
<1>14. ASSUME NEW v \in Workers PROVE HoldsItsRow(v)'
  <2> SUFFICES ASSUME worker'[v].at = "resolved"
               PROVE  continuation'[worker'[v].job.timer].by = v
    BY DEF HoldsItsRow
  <2>1. v # w /\ worker'[v] = worker[v]
    BY <1>9, <1>10
  <2>2. worker[v].job.timer \in Timers
    BY <2>1, TimerInHand
  <2>3. worker[v].job.timer \notin taken
    BY <1>1, <2>1 DEF RowLocked
  <2> QED
    BY <1>4, <2>1, <2>2, <2>3 DEF TimersInv, HoldsItsRow
<1>15. ASSUME NEW v \in Workers PROVE SawTheCause(v)'
  BY <1>2, <1>9, <1>10 DEF TimersInv, SawTheCause
<1>16. OneFires'
  BY <1>9, <1>10 DEF TimersInv, OneFires
<1>17. ASSUME NEW c \in Timers PROVE HasItsCause(c)'
  BY <1>2, <1>4, <1>5 DEF TimersInv, HasItsCause
<1> QED
  BY <1>11, <1>12, <1>13, <1>14, <1>15, <1>16, <1>17 DEF TimersInv

LEMMA AcquireRouteKeeps ==
    ASSUME TimersInv, NEW w \in Workers, AcquireRoute(w)
    PROVE  TimersInv'
<1>1. PICK job \in worker[w].batch :
        /\ ~RouteLocked(job.timer)
        /\ worker' = [worker EXCEPT ![w].at = "acquired", ![w].job = job,
                                    ![w].fires = job.timer \in standing]
  BY DEF AcquireRoute
<1> DEFINE q == [worker[w] EXCEPT !.at = "acquired", !.job = job,
                                  !.fires = job.timer \in standing]
<1>2. worker[w] \in WorkerRow /\ job \in Jobs /\ (job.timer \in standing) \in BOOLEAN
  BY DEF TimersInv, TimersTypeOK, WorkerRow
<1>3. /\ q \in WorkerRow /\ q.at = "acquired" /\ q.job = job /\ q.batch = worker[w].batch
      /\ q.fires = (job.timer \in standing)
  BY <1>2 DEF WorkerRow
<1>4. worker' = [worker EXCEPT ![w] = q]
  BY <1>1
<1> HIDE DEF q
<1>5. /\ worker' \in [Workers -> WorkerRow] /\ worker'[w] = q
      /\ \A v \in Workers \ {w} : worker'[v] = worker[v]
      /\ continuation' = continuation /\ standing' = standing
  BY <1>3, <1>4 DEF TimersInv, TimersTypeOK, AcquireRoute
<1>6. TimersTypeOK' /\ \A v \in Workers : InHand(worker'[v])
  BY <1>3, <1>5 DEF TimersInv, TimersTypeOK, InHand
<1>7. ASSUME NEW v \in Workers
      PROVE  KnowsTheCount(v)' /\ HoldsItsRow(v)' /\ SawTheCause(v)'
  <2>1. KnowsTheCount(v)'
    BY <1>3, <1>5 DEF TimersInv, KnowsTheCount
  <2>2. HoldsItsRow(v)'
    BY <1>3, <1>5 DEF TimersInv, HoldsItsRow
  <2>3. SawTheCause(v)'
    BY <1>3, <1>5 DEF TimersInv, SawTheCause
  <2> QED
    BY <2>1, <2>2, <2>3
<1>8. OneFires'
  <2>1. \A v \in Workers : Acting(worker[v]) /\ worker[v].fires
                          => worker[v].job.timer # job.timer
    BY <1>1 DEF RouteLocked
  <2> QED
    BY <1>3, <1>5, <2>1 DEF TimersInv, OneFires
<1> QED
  BY <1>5, <1>6, <1>7, <1>8 DEF TimersInv, HasItsCause

LEMMA ResolveKeeps ==
    ASSUME TimersInv, NEW w \in Workers, ResolveDone(w)
    PROVE  TimersInv'
<1>1. /\ worker[w].at = "acquired" /\ continuation' = continuation /\ standing' = standing
      /\ worker[w] \in WorkerRow
  BY TimerInHand DEF ResolveDone
<1>2. CASE continuation[worker[w].job.timer].by = w
  <2> DEFINE q == [worker[w] EXCEPT !.at = "resolved"]
  <2>1. worker' = [worker EXCEPT ![w] = q]
    BY <1>2 DEF ResolveDone
  <2>2. /\ q \in WorkerRow /\ q.at = "resolved" /\ q.job = worker[w].job
        /\ q.batch = worker[w].batch /\ q.fires = worker[w].fires
    BY <1>1 DEF WorkerRow
  <2> HIDE DEF q
  <2>3. /\ worker' \in [Workers -> WorkerRow] /\ worker'[w] = q
        /\ \A v \in Workers \ {w} : worker'[v] = worker[v]
    BY <2>1, <2>2 DEF TimersInv, TimersTypeOK
  <2>4. TimersTypeOK'
    BY <1>1, <2>3 DEF TimersInv, TimersTypeOK
  <2>5. ASSUME NEW v \in Workers PROVE InHand(worker'[v]) /\ KnowsTheCount(v)'
    BY <1>1, <2>2, <2>3 DEF TimersInv, InHand, KnowsTheCount
  <2>6. ASSUME NEW v \in Workers PROVE HoldsItsRow(v)' /\ SawTheCause(v)'
    <3>1. CASE v = w
      BY <1>1, <1>2, <2>2, <2>3, <3>1 DEF TimersInv, HoldsItsRow, SawTheCause
    <3>2. CASE v # w
      BY <1>1, <2>3, <3>2 DEF TimersInv, HoldsItsRow, SawTheCause
    <3> QED
      BY <3>1, <3>2
  <2>7. OneFires'
    BY <1>1, <2>2, <2>3 DEF TimersInv, OneFires
  <2> QED
    BY <1>1, <2>4, <2>5, <2>6, <2>7 DEF TimersInv, HasItsCause
<1>3. CASE continuation[worker[w].job.timer].by # w
  <2> DEFINE q == Done(w)
  <2>1. worker' = [worker EXCEPT ![w] = q]
    BY <1>3 DEF ResolveDone
  <2>2. q \in WorkerRow /\ ~Acting(q) /\ InHand(q) /\ q.batch \subseteq worker[w].batch
    BY DoneStandsBack
  <2> HIDE DEF q
  <2> QED
    BY <1>1, <2>1, <2>2, StandsBackAlone
<1> QED
  BY <1>2, <1>3

LEMMA CommitKeeps ==
    ASSUME TimersInv, NEW w \in Workers, CommitTimer(w)
    PROVE  TimersInv'
<1> DEFINE c == worker[w].job.timer
<1>1. /\ worker[w].at = "resolved" /\ c \in Timers /\ worker[w] \in WorkerRow
      /\ worker[w].job \in worker[w].batch
  BY TimerInHand DEF CommitTimer
<1>2. PICK q : /\ worker' = [worker EXCEPT ![w] = q]
               /\ q = Done(w) \/ q = [worker[w] EXCEPT !.at = "failed"]
  BY DEF CommitTimer
<1>3. q \in WorkerRow /\ ~Acting(q) /\ InHand(q) /\ q.batch \subseteq worker[w].batch
  BY <1>1, <1>2, DoneStandsBack DEF WorkerRow, InHand
<1>4. /\ continuation' = [continuation EXCEPT ![c].status = "done", ![c].leased = FALSE]
      /\ standing' = IF worker[w].fires THEN standing \ {c} ELSE standing
  BY DEF CommitTimer
<1>5. c \notin standing' /\ standing' \subseteq standing
  BY <1>1, <1>4 DEF TimersInv, SawTheCause
<1>6. \A v \in Workers \ {w} :
        Acting(worker[v]) /\ worker[v].fires => worker[v].job.timer \in standing'
  <2> SUFFICES ASSUME NEW v \in Workers \ {w}, Acting(worker[v]), worker[v].fires
               PROVE  worker[v].job.timer \in standing'
    OBVIOUS
  <2>1. worker[v].job.timer \in standing
    BY DEF TimersInv, SawTheCause
  <2>2. worker[w].fires => worker[v].job.timer # c
    BY <1>1 DEF TimersInv, OneFires
  <2> QED
    BY <1>4, <2>1, <2>2
<1> HIDE DEF c
<1>7. /\ continuation' \in [Timers -> ContinuationRow]
      /\ \A d \in Timers : /\ continuation'[d].by = continuation[d].by
                           /\ continuation'[d].attempts = continuation[d].attempts
                           /\ d # c => continuation'[d] = continuation[d]
      /\ continuation'[c].status = "done"
  BY <1>1, <1>4 DEF TimersInv, TimersTypeOK, ContinuationRow
<1>8. ASSUME NEW d \in Timers PROVE HasItsCause(d)'
  BY <1>5, <1>7 DEF TimersInv, HasItsCause
<1> QED
  BY <1>2, <1>3, <1>5, <1>6, <1>7, <1>8, StandsBack

LEMMA FailureKeeps ==
    ASSUME TimersInv, NEW w \in Workers, TimerFails(w) \/ AfterFailure(w)
    PROVE  TimersInv'
<1>1. CASE TimerFails(w)
  <2> DEFINE q == [worker[w] EXCEPT !.at = "failed"]
  <2>1. /\ worker' = [worker EXCEPT ![w] = q]
        /\ continuation' = continuation /\ standing' = standing
    BY <1>1 DEF TimerFails
  <2>2. worker[w] \in WorkerRow /\ worker[w].job \in worker[w].batch
    BY <1>1, TimerInHand DEF TimerFails
  <2>3. q \in WorkerRow /\ ~Acting(q) /\ InHand(q) /\ q.batch \subseteq worker[w].batch
    BY <2>2 DEF WorkerRow, InHand
  <2> HIDE DEF q
  <2> QED
    BY <2>1, <2>3, StandsBackAlone
<1>2. CASE AfterFailure(w)
  <2> DEFINE job == worker[w].job
             q == Done(w)
  <2>1. /\ job \in worker[w].batch /\ job \in Jobs /\ job.timer \in Timers
        /\ worker' = [worker EXCEPT ![w] = q] /\ standing' = standing
    BY <1>2, TimerInHand DEF AfterFailure
  <2>2. q \in WorkerRow /\ ~Acting(q) /\ InHand(q) /\ q.batch \subseteq worker[w].batch
    BY DoneStandsBack
  <2>3. \/ continuation' = continuation
        \/ /\ job.attempt >= MaxAttempts
           /\ continuation[job.timer].by = w
           /\ continuation' = [continuation EXCEPT ![job.timer] = GaveUp(job.timer)]
    BY <1>2 DEF AfterFailure, LastAttempt
  <2> HIDE DEF q, job
  <2>4. CASE continuation' = continuation
    BY <2>1, <2>2, <2>4, StandsBackAlone
  <2>5. CASE /\ job.attempt >= MaxAttempts
             /\ continuation[job.timer].by = w
             /\ continuation' = [continuation EXCEPT ![job.timer] = GaveUp(job.timer)]
    <3>1. PICK c \in Timers : c = job.timer
      BY <2>1
    <3>2. continuation[c].attempts >= MaxAttempts
      BY <2>1, <2>5, <3>1 DEF TimersInv, KnowsTheCount
    <3>3. /\ continuation'[c] = GaveUp(c)
          /\ \A d \in Timers \ {c} : continuation'[d] = continuation[d]
          /\ DOMAIN continuation' = Timers
          /\ continuation' = [d \in Timers |-> continuation'[d]]
          /\ c \in Timers
      BY <2>1, <2>5, <3>1 DEF TimersInv, TimersTypeOK
    <3>4. /\ continuation'[c] \in ContinuationRow
          /\ continuation'[c].attempts = continuation[c].attempts
          /\ continuation'[c].by = continuation[c].by
          /\ HasItsCause(c)'
      BY <3>2, <3>3, LastIsGivenUp
    <3>5. \A d \in Timers : /\ continuation'[d] \in ContinuationRow
                            /\ continuation'[d].attempts = continuation[d].attempts
                            /\ continuation'[d].by = continuation[d].by
                            /\ HasItsCause(d)'
      <4> SUFFICES ASSUME NEW d \in Timers
                   PROVE  /\ continuation'[d] \in ContinuationRow
                          /\ continuation'[d].attempts = continuation[d].attempts
                          /\ continuation'[d].by = continuation[d].by
                          /\ HasItsCause(d)'
        OBVIOUS
      <4>1. CASE d = c
        BY <3>4, <4>1
      <4>2. CASE d # c
        BY <2>1, <3>3, <4>2 DEF TimersInv, TimersTypeOK, HasItsCause
      <4> QED
        BY <4>1, <4>2
    <3>6. continuation' \in [Timers -> ContinuationRow]
      BY <3>3, <3>5
    <3>7. \A v \in Workers \ {w} :
            Acting(worker[v]) /\ worker[v].fires => worker[v].job.timer \in standing'
      BY <2>1 DEF TimersInv, SawTheCause
    <3> QED
      BY <2>1, <2>2, <3>5, <3>6, <3>7, StandsBack
  <2> QED
    BY <2>3, <2>4, <2>5
<1> QED
  BY <1>1, <1>2

LEMMA DeathKeeps ==
    ASSUME TimersInv, NEW w \in Workers, WorkerDies(w)
    PROVE  TimersInv'
<1>1. worker' = [worker EXCEPT ![w] = Between] /\ standing' = standing
  BY DEF WorkerDies
<1>2. /\ Between \in WorkerRow /\ ~Acting(Between) /\ InHand(Between)
      /\ Between.batch \subseteq worker[w].batch
  BY DEF Between, WorkerRow, InHand
<1>3. ASSUME NEW c \in Timers
      PROVE  /\ continuation'[c] \in ContinuationRow
             /\ continuation'[c].attempts = continuation[c].attempts
             /\ \/ continuation'[c].by = continuation[c].by
                \/ continuation[c].by = w /\ continuation'[c].by = None
             /\ HasItsCause(c)'
  <2>1. continuation[c] \in ContinuationRow /\ HasItsCause(c)
    BY DEF TimersInv, TimersTypeOK
  <2>2. continuation'[c] = IF continuation[c].by = w
                           THEN [continuation[c] EXCEPT !.by = None] ELSE continuation[c]
    BY DEF WorkerDies
  <2> QED
    BY <1>1, <2>1, <2>2 DEF ContinuationRow, HasItsCause
<1>4. continuation' \in [Timers -> ContinuationRow]
  <2>1. continuation' = [c \in Timers |-> continuation'[c]]
    BY DEF WorkerDies
  <2> QED
    BY <1>3, <2>1
<1>5. \A v \in Workers \ {w} :
        Acting(worker[v]) /\ worker[v].fires => worker[v].job.timer \in standing'
  BY <1>1 DEF TimersInv, SawTheCause
<1> QED
  BY <1>1, <1>2, <1>3, <1>4, <1>5, StandsBack

LEMMA TimersInitInv == WorkerInit => TimersInv
<1> SUFFICES ASSUME WorkerInit PROVE TimersInv
  OBVIOUS
<1>1. TimersTypeOK
  BY WorkerAssumption DEF WorkerInit, NewRow, Between, TimersTypeOK, ContinuationRow, WorkerRow
<1>2. \A w \in Workers : worker[w] = Between
  BY DEF WorkerInit
<1>3. \A c \in Timers : HasItsCause(c)
  BY DEF WorkerInit, NewRow, HasItsCause
<1> QED
  BY <1>1, <1>2, <1>3
     DEF TimersInv, Between, InHand, KnowsTheCount, HoldsItsRow, SawTheCause, OneFires

LEMMA TimersNextInv == TimersInv /\ [WorkerNext]_workerVars => TimersInv'
<1> SUFFICES ASSUME TimersInv, [WorkerNext]_workerVars PROVE TimersInv'
  OBVIOUS
<1>1. CASE UNCHANGED workerVars
  BY <1>1 DEF workerVars, TimersInv, TimersTypeOK, KnowsTheCount, HoldsItsRow,
              SawTheCause, OneFires, HasItsCause
<1>2. CASE WorkerNext
  BY <1>2, LeaseRunsOutKeeps, OvertakeKeeps, CancelExhaustedKeeps, ClaimKeeps,
     AcquireRouteKeeps, ResolveKeeps, CommitKeeps, FailureKeeps, DeathKeeps
     DEF WorkerNext, ProcessDueContinuations
<1> QED
  BY <1>1, <1>2

\* The counts, names and causes the workers have in hand agree with the rows and the
\* routes, at every step of any number of workers over any number of timers.
THEOREM WorkerInvariance == WorkerSpec => []TimersInv
<1> QED
  BY TimersInitInv, TimersNextInv, PTL DEF WorkerSpec

\* Nothing is settled before its time: no worker that is slow, dead, or wrong about
\* its commit settles a row whose timer stands and has attempts left.
THEOREM SettledForACause == WorkerSpec => []SettledWithCause
<1>1. TimersInv => SettledWithCause
  BY DEF TimersInv, TimersTypeOK, ContinuationRow, HasItsCause, SettledWithCause, Settled
<1> QED
  BY <1>1, WorkerInvariance, PTL

\* A timer fires while its cause stands and takes it away, and no cause comes back:
\* so none fires twice, or after an answer, in however many workers' hands its row is.
FiresOnce ==
    [][ /\ standing' \subseteq standing
        /\ \A w \in Workers : CommitTimer(w) /\ worker[w].fires
                              => worker[w].job.timer \in standing \ standing' ]_workerVars

\* Every timer has its effect at most once, and only at a park that still waits for it.
THEOREM TimersFireOnce == WorkerSpec => FiresOnce
<1>1. ASSUME TimersInv, [WorkerNext]_workerVars
      PROVE  standing' \subseteq standing
  BY <1>1 DEF WorkerNext, workerVars, ProcessDueContinuations, LeaseRunsOut, Overtake,
              CancelExhaustedContinuations, ClaimDueContinuations, AcquireRoute,
              ResolveDone, CommitTimer, TimerFails, AfterFailure, WorkerDies
<1>2. ASSUME TimersInv, NEW w \in Workers, CommitTimer(w), worker[w].fires
      PROVE  worker[w].job.timer \in standing \ standing'
  BY <1>2 DEF TimersInv, SawTheCause, CommitTimer
<1>3. TimersInv /\ [WorkerNext]_workerVars =>
        [ /\ standing' \subseteq standing
          /\ \A w \in Workers : CommitTimer(w) /\ worker[w].fires
                                => worker[w].job.timer \in standing \ standing' ]_workerVars
  BY <1>1, <1>2
<1> QED
  BY <1>3, WorkerInvariance, PTL DEF WorkerSpec, FiresOnce
=============================================================================
