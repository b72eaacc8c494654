---------------------------- MODULE RuntimeProofs ---------------------------
(***************************************************************************)
(* The safety of Runtime for any modules, signals and period: nothing a    *)
(* signal asks for is lost or late, the managers scheduled are those that  *)
(* came up, in every cell of the clock's grid once at most (TickGrid), and *)
(* no thread is left at the end.                                           *)
(***************************************************************************)
EXTENDS Runtime, SequenceTheorems, TLAPS

ThreadStates == {"none", "running", "ended"}

TypeOK ==
  /\ main \in MainPCs
  /\ index \in Nat \ {0}
  /\ managers \in Seq(Modules)
  /\ running \in BOOLEAN /\ quit \in BOOLEAN
  /\ latch \in SUBSET Signals
  /\ thread \in [Modules -> ThreadStates]
  /\ asked \in [Modules -> BOOLEAN]
  /\ up \in SUBSET Modules
  /\ rounds \in Nat

InDealSignals == main \in {"has", "handle", "reset"}

\* Where each signal is on its way through DealSignals: the handler at `index`
\* is the one being handled, and a quit signal that is reset has been obeyed.
HandlersInOrder ==
  /\ main \in {"handle", "reset"} => index \in 1 .. Len(Handlers)
  /\ main = "reset" /\ Handlers[index] \in QuitSignals => ~running

\* A quit signal that one round has passed over is met before the next begins.
QuitAhead ==
  \/ ~running
  \/ \E i \in index .. Len(Handlers) : Handlers[i] \in latch \cap QuitSignals

RoundsCounted ==
  /\ rounds \in 0 .. 2
  /\ rounds > 0 => quit
  /\ rounds = 1 /\ InDealSignals => QuitAhead
  /\ rounds = 2 => ~running /\ ~InDealSignals

\* The managers that have been through Init() are those that are up.
UpSoFar ==
  /\ main = "construct" => up = {}
  /\ main = "init" => /\ index <= Len(managers) + 1
                      /\ up = {managers[i] : i \in 1 .. index - 1}
  /\ main \notin {"construct", "init"} => up = {managers[i] : i \in 1 .. Len(managers)}

\* Threads belong to managers, and those destroyed have none left.
ThreadsHeld ==
  /\ main \in {"construct", "init"} => \A m \in Modules : thread[m] = "none"
  /\ \A m \in Modules : thread[m] # "none" => \E i \in 1 .. Len(managers) : managers[i] = m
  /\ main = "destroy" => \A i \in 1 .. Len(managers) : i < index => thread[managers[i]] = "none"

IInv == TypeOK /\ NoQuitLost /\ HandlersInOrder /\ RoundsCounted /\ UpSoFar /\ ThreadsHeld /\ NoThreadSurvives

-----------------------------------------------------------------------------

\* Modules and signals as the elements of the two sequences.
LEMMA Elements ==
  /\ \A i \in 1 .. Len(Creators) : Creators[i] \in Modules
  /\ \A s \in QuitSignals : \E i \in 1 .. Len(Handlers) : Handlers[i] = s
BY HandlersAssumption DEF Modules, ToSet

\* Erasing an element shortens a sequence and leaves what stands before it.
LEMMA Erased ==
  ASSUME NEW S, NEW s \in Seq(S), NEW k \in 1 .. Len(s)
  PROVE  /\ RemoveAt(s, k) \in Seq(S)
         /\ Len(RemoveAt(s, k)) = Len(s) - 1
         /\ \A i \in 1 .. k - 1 : RemoveAt(s, k)[i] = s[i]
<1>1. /\ SubSeq(s, 1, k - 1) \in Seq(S) /\ Len(SubSeq(s, 1, k - 1)) = k - 1
      /\ \A i \in 1 .. k - 1 : SubSeq(s, 1, k - 1)[i] = s[i]
  <2>1. \A i \in 1 .. k - 1 : s[i] \in S
    OBVIOUS
  <2>2. /\ SubSeq(s, 1, k - 1) \in Seq(S)
        /\ Len(SubSeq(s, 1, k - 1)) = IF 1 <= k - 1 THEN k - 1 - 1 + 1 ELSE 0
        /\ \A i \in 1 .. k - 1 - 1 + 1 : SubSeq(s, 1, k - 1)[i] = s[1 + i - 1]
    BY <2>1, SubSeqProperties
  <2> QED
    BY <2>2
<1>2. SubSeq(s, k + 1, Len(s)) \in Seq(S) /\ Len(SubSeq(s, k + 1, Len(s))) = Len(s) - k
  <2>1. \A i \in k + 1 .. Len(s) : s[i] \in S
    OBVIOUS
  <2>2. /\ SubSeq(s, k + 1, Len(s)) \in Seq(S)
        /\ Len(SubSeq(s, k + 1, Len(s))) = IF k + 1 <= Len(s) THEN Len(s) - (k + 1) + 1 ELSE 0
    BY <2>1, SubSeqProperties
  <2> QED
    BY <2>2
<1>3. ASSUME NEW b \in Seq(S), NEW a \in Seq(S), Len(b) = k - 1, Len(a) = Len(s) - k,
             \A i \in 1 .. k - 1 : b[i] = s[i]
      PROVE  b \o a \in Seq(S) /\ Len(b \o a) = Len(s) - 1 /\ \A i \in 1 .. k - 1 : (b \o a)[i] = s[i]
  <2>1. /\ b \o a \in Seq(S) /\ Len(b \o a) = Len(b) + Len(a)
        /\ \A i \in 1 .. Len(b) + Len(a) : (b \o a)[i] = IF i <= Len(b) THEN b[i] ELSE a[i - Len(b)]
    BY ConcatProperties
  <2> QED
    BY <1>3, <2>1
<1> QED
  BY <1>1, <1>2, <1>3 DEF RemoveAt

LEMMA InitIInv == Init => IInv
<1> SUFFICES ASSUME Init PROVE IInv
  OBVIOUS
<1>1. TypeOK
  <2>1. managers \in Seq(Modules) /\ up \in SUBSET Modules /\ latch \in SUBSET Signals
    BY DEF Init
  <2>2. thread \in [Modules -> ThreadStates] /\ asked \in [Modules -> BOOLEAN]
    BY DEF Init, ThreadStates
  <2>3. running \in BOOLEAN /\ quit \in BOOLEAN
    BY DEF Init
  <2>4. main \in MainPCs /\ index \in Nat \ {0} /\ rounds \in Nat
    BY DEF Init, MainPCs
  <2> QED
    BY <2>1, <2>2, <2>3, <2>4 DEF TypeOK
<1> QED
  BY <1>1 DEF Init, IInv, TypeOK, MainPCs, ThreadStates, NoQuitLost, HandlersInOrder, RoundsCounted, InDealSignals,
       UpSoFar, ThreadsHeld, NoThreadSurvives

\* The end of a loop over the managers moves on to the next phase.
LEMMA EndLoopsKeeps == ASSUME IInv, EndLoops PROVE IInv'
<1> USE DEF IInv, TypeOK, MainPCs, ThreadStates, NoQuitLost, HandlersInOrder, RoundsCounted, InDealSignals,
            UpSoFar, ThreadsHeld, NoThreadSurvives, EndLoop, signals, workers, pace
<1>1. CASE EndLoop("construct", Len(Creators), "init")
  BY <1>1
<1>2. CASE EndInit
  <2>1. \A i \in Nat : i \in 1 .. index - 1 <=> i \in 1 .. Len(managers)
    BY <1>2 DEF EndInit
  <2>2. {managers[i] : i \in 1 .. index - 1} = {managers[i] : i \in 1 .. Len(managers)}
    BY <2>1
  <2> QED
    BY <1>2, <2>2 DEF EndInit
<1>3. CASE EndLoop("create", Len(managers), "loop")
  BY <1>3
<1>4. CASE EndLoop("schedule", Len(managers), "loop")
  BY <1>4
<1>5. CASE EndLoop("stop", Len(managers), "join")
  BY <1>5
<1>6. CASE EndLoop("join", Len(managers), "returned")
  BY <1>6
<1>7. CASE EndLoop("destroy", Len(managers), "exited")
  BY <1>7
<1> QED
  BY <1>1, <1>2, <1>3, <1>4, <1>5, <1>6, <1>7 DEF EndLoops

\* Bringing the managers up.
LEMMA InitKeeps == ASSUME IInv, Construct \/ InitManager PROVE IInv'
<1> USE DEF IInv, TypeOK, MainPCs, ThreadStates, NoQuitLost, HandlersInOrder, RoundsCounted, InDealSignals,
            UpSoFar, ThreadsHeld, NoThreadSurvives, signals, workers, pace
<1>1. CASE Construct
  <2>1. index \in 1 .. Len(Creators)
    BY <1>1, CreatorsAssumption DEF Construct
  <2>2. managers' \in Seq(Modules)
    BY <1>1, <2>1, Elements DEF Construct
  <2> QED
    BY <1>1, <2>2 DEF Construct
<1>2. CASE InitManager
  <2>1. index \in 1 .. Len(managers) /\ Manager = managers[index] /\ Manager \in Modules
    BY <1>2 DEF InitManager, AtManager, Manager
  <2>2. CASE UNCHANGED managers /\ up' = up \cup {Manager} /\ index' = index + 1
    <3>1. \A i \in Nat : i \in 1 .. index' - 1 <=> i \in 1 .. index - 1 \/ i = index
      BY <2>1, <2>2
    <3>2. up' = {managers'[i] : i \in 1 .. index' - 1}
      BY <1>2, <2>1, <2>2, <3>1 DEF InitManager, AtManager
    <3> QED
      BY <1>2, <2>1, <2>2, <3>2 DEF InitManager, AtManager
  <2>3. CASE managers' = RemoveAt(managers, index) /\ UNCHANGED <<index, up>>
    <3>1. /\ managers' \in Seq(Modules) /\ Len(managers') = Len(managers) - 1
          /\ \A i \in 1 .. index - 1 : managers'[i] = managers[i]
      <4>1. managers \in Seq(Modules)
        OBVIOUS
      <4> HIDE DEF IInv
      <4> QED
        BY <2>1, <2>3, <4>1, Erased
    <3>2. up' = {managers'[i] : i \in 1 .. index' - 1}
      BY <1>2, <2>3, <3>1 DEF InitManager, AtManager
    <3> QED
      BY <1>2, <2>1, <2>3, <3>1, <3>2 DEF InitManager, AtManager
  <2> QED
    BY <1>2, <2>2, <2>3 DEF InitManager
<1> QED
  BY <1>1, <1>2

\* The main loop and its signals.
LEMMA LoopKeeps ==
  ASSUME IInv, CheckRunning \/ HasSignal \/ Handle \/ Reset \/ BeginRound
  PROVE  IInv'
<1> USE DEF IInv, TypeOK, MainPCs, ThreadStates, NoQuitLost, HandlersInOrder, RoundsCounted, InDealSignals,
            UpSoFar, ThreadsHeld, NoThreadSurvives, signals, workers, pace, QuitAhead
<1>1. CASE CheckRunning
  <2>1. rounds = 1 /\ running => \E i \in 1 .. Len(Handlers) : Handlers[i] \in latch \cap QuitSignals
    BY Elements
  <2> QED
    BY <1>1, <2>1 DEF CheckRunning
<1>2. CASE HasSignal
  <2>1. Len(Handlers) \in Nat
    BY HandlersAssumption
  <2>2. rounds = 1 => QuitAhead'
    BY <1>2, <2>1 DEF HasSignal
  <2>3. main' \in {"has", "handle"} /\ index' \in Nat \ {0} /\ HandlersInOrder'
    BY <1>2, <2>1 DEF HasSignal
  <2>4. RoundsCounted'
    BY <1>2, <2>2, <2>3 DEF HasSignal
  <2>5. UpSoFar' /\ ThreadsHeld' /\ NoThreadSurvives'
    BY <1>2 DEF HasSignal
  <2>6. TypeOK' /\ NoQuitLost'
    BY <1>2, <2>3 DEF HasSignal
  <2> QED
    BY <2>3, <2>4, <2>5, <2>6
<1>3. CASE Handle
  <2>1. running' \in BOOLEAN /\ (running' => running /\ Handlers[index] \notin QuitSignals)
    BY <1>3 DEF Handle
  <2>3. TypeOK' /\ HandlersInOrder'
    BY <1>3, <2>1 DEF Handle
  <2>4. NoQuitLost' /\ RoundsCounted'
    BY <1>3, <2>1 DEF Handle
  <2>5. UpSoFar' /\ ThreadsHeld' /\ NoThreadSurvives'
    BY <1>3 DEF Handle
  <2> QED
    BY <2>3, <2>4, <2>5
<1>4. CASE Reset
  <2>1. Len(Handlers) \in Nat
    BY HandlersAssumption
  <2>2. rounds = 1 => QuitAhead'
    BY <1>4, <2>1 DEF Reset
  <2>3. NoQuitLost'
    BY <1>4 DEF Reset
  <2> QED
    BY <1>4, <2>1, <2>2, <2>3 DEF Reset
<1>5. CASE BeginRound
  <2>1. rounds = 1 => ~running
    BY <1>5 DEF BeginRound
  <2> QED
    BY <1>5, <2>1, RoundsAssumption DEF BeginRound
<1> QED
  BY <1>1, <1>2, <1>3, <1>4, <1>5

\* The loops over the managers: their threads.
LEMMA WorkersKeep ==
  ASSUME IInv, CreateWorker \/ ScheduleManager \/ StopManager \/ JoinManager \/ BeginDestroy \/ DestroyManager
  PROVE  IInv'
<1> USE DEF IInv, TypeOK, MainPCs, ThreadStates, NoQuitLost, HandlersInOrder, RoundsCounted, InDealSignals,
            UpSoFar, ThreadsHeld, NoThreadSurvives, signals, pace, AtManager, Manager
<1>1. index \in 1 .. Len(managers) /\ Manager \in Modules
  BY DEF CreateWorker, ScheduleManager, StopManager, JoinManager, BeginDestroy, DestroyManager
<1>2. CASE CreateWorker
  BY <1>1, <1>2 DEF CreateWorker
<1>3. CASE ScheduleManager
  BY <1>1, <1>3 DEF ScheduleManager
<1>4. CASE StopManager
  BY <1>1, <1>4 DEF StopManager
<1>5. CASE JoinManager
  BY <1>1, <1>5 DEF JoinManager
<1>6. CASE BeginDestroy
  BY <1>1, <1>6 DEF BeginDestroy
<1>7. CASE DestroyManager
  BY <1>1, <1>7 DEF DestroyManager
<1> QED
  BY <1>2, <1>3, <1>4, <1>5, <1>6, <1>7

\* Signals are delivered and threads end at any time, and time passes.
LEMMA OthersKeep ==
  ASSUME IInv, LeaveRun \/ Wake \/ Tick \/ (\E s \in Signals : Deliver(s)) \/ (\E m \in Modules : ThreadEnds(m))
  PROVE  IInv'
<1> USE DEF IInv, TypeOK, MainPCs, ThreadStates, NoQuitLost, HandlersInOrder, RoundsCounted, InDealSignals,
            UpSoFar, ThreadsHeld, NoThreadSurvives, signals, workers, pace, QuitAhead
<1>1. CASE LeaveRun
  BY <1>1 DEF LeaveRun
<1>2. ASSUME NEW s \in Signals, Deliver(s) PROVE IInv'
  BY <1>2 DEF Deliver
<1>3. ASSUME NEW m \in Modules, ThreadEnds(m) PROVE IInv'
  BY <1>3 DEF ThreadEnds
<1>4. CASE Wake
  BY <1>4 DEF Wake
<1>5. CASE Tick
  BY <1>5 DEF Tick
<1> QED
  BY <1>1, <1>2, <1>3, <1>4, <1>5

LEMMA UnchangedKeeps == IInv /\ UNCHANGED vars => IInv'
BY DEF IInv, TypeOK, NoQuitLost, HandlersInOrder, RoundsCounted, InDealSignals, UpSoFar, ThreadsHeld,
       NoThreadSurvives, QuitAhead, vars, signals, workers, pace

LEMMA NextIInv == IInv /\ [Next]_vars => IInv'
<1> SUFFICES ASSUME IInv, [Next]_vars PROVE IInv'
  OBVIOUS
<1>1. CASE Next
  BY <1>1, EndLoopsKeeps, InitKeeps, LoopKeeps, WorkersKeep, OthersKeep, UnchangedKeeps DEF Next, Main, Finished
<1>2. CASE UNCHANGED vars
  BY <1>2, UnchangedKeeps
<1> QED
  BY <1>1, <1>2

\* The inductive invariant of the runtime.
THEOREM RuntimeInvariant == Spec => []IInv
<1> QED
  BY InitIInv, NextIInv, PTL DEF Spec

\* A quit signal is never lost, for any handlers and any number of signals at
\* any time (signal_flag.h:19-26).
THEOREM QuitsAreLatched == Spec => []NoQuitLost
<1>1. IInv => NoQuitLost
  BY DEF IInv
<1> QED
  BY <1>1, RuntimeInvariant, PTL

\* The round under way and at most one more are scheduled after a quit signal.
THEOREM QuitsSoon == Spec => []QuitsWithinTwoRounds
<1>1. IInv => QuitsWithinTwoRounds
  BY DEF IInv, RoundsCounted, QuitsWithinTwoRounds
<1> QED
  BY <1>1, RuntimeInvariant, PTL

\* No thread is left when the program exits.
THEOREM AllThreadsJoined == Spec => []NoThreadSurvives
<1>1. IInv => NoThreadSurvives
  BY DEF IInv
<1> QED
  BY <1>1, RuntimeInvariant, PTL

-----------------------------------------------------------------------------
(* The pace of the main loop, for every period and every clock.            *)

\* A quotient is the cell of the grid its dividend lies in.
LEMMA Cell ==
  ASSUME NEW t \in Int, NEW b \in Nat, b > 0
  PROVE  /\ t \div b \in Int
         /\ (t \div b) * b <= t
         /\ t < (t \div b) * b + b
  OBVIOUS

\* Later moments lie in later cells, or in the same.
LEMMA CellsInOrder ==
  ASSUME NEW s \in Int, NEW t \in Int, s <= t, NEW b \in Nat, b > 0
  PROVE  s \div b <= t \div b
  OBVIOUS

\* From a boundary on, a moment lies in the cell the boundary begins.
LEMMA CellOfBoundary ==
  ASSUME NEW k \in Int, NEW t \in Int, NEW b \in Nat, b > 0, k * b <= t
  PROVE  k <= t \div b
  OBVIOUS

\* A period later is one cell later.
LEMMA NextCell ==
  ASSUME NEW t \in Int, NEW b \in Nat, b > 0
  PROVE  (t + b) \div b = (t \div b) + 1
  OBVIOUS

\* However long a round took, the loop then waits for the first boundary after
\* the round's start, and no more than a period: a late round shifts none of
\* the following ones (runtime.cc:108-119).
THEOREM NextBoundary ==
  ASSUME NEW t \in Int
  PROVE  /\ NextSchedulingTime(t) \in t + 1 .. t + Interval
         /\ NextSchedulingTime(t) % Interval = 0
<1>1. Interval \in Nat /\ Interval > 0
  BY IntervalAssumption
<1> DEFINE q == t \div Interval
<1>2. q \in Int /\ q * Interval <= t /\ t < q * Interval + Interval
  BY <1>1, Cell
<1>3. NextSchedulingTime(t) = (q + 1) * Interval
  BY <1>1, NextCell DEF NextSchedulingTime
<1>4. NextSchedulingTime(t) \in t + 1 .. t + Interval
  BY <1>1, <1>2, <1>3
<1>5. NextSchedulingTime(t) % Interval = 0
  <2>1. \A k \in Int : (k * Interval) % Interval = 0
    BY <1>1
  <2> QED BY <1>2, <1>3, <2>1
<1> QED BY <1>4, <1>5

\* A loop that is about to begin a round is past the cell of the round before.
Paced ==
  /\ now \in Nat /\ start \in Int
  /\ main \notin {"schedule", "sleep"} => InLaterCell

LEMMA InitPaced == Init => Paced
<1> SUFFICES ASSUME Init PROVE Paced
  OBVIOUS
<1>1. Interval \in Nat /\ Interval > 0
  BY IntervalAssumption
<1>2. now \in Nat /\ start \in Int /\ now = start + Interval
  BY <1>1 DEF Init, InitGrid
<1>3. start \div Interval \in Int
  BY <1>1, <1>2, Cell
<1> QED
  BY <1>1, <1>2, <1>3, NextCell DEF Paced, InLaterCell

LEMMA NextPaced == Paced /\ [Next]_vars => Paced'
<1> SUFFICES ASSUME Paced, [Next]_vars PROVE Paced'
  OBVIOUS
<1>1. Interval \in Nat /\ Interval > 0 /\ now \in Nat /\ now \in Int /\ start \in Int
  BY IntervalAssumption DEF Paced
<1>2. now \div Interval \in Int /\ start \div Interval \in Int
  BY <1>1, Cell
<1>3. CASE BeginRound
  <2>1. now' \in Nat /\ start' \in Int /\ main' = "schedule"
    BY <1>1, <1>3 DEF BeginRound, StartRound
  <2> QED
    BY <2>1 DEF Paced
<1>4. CASE Wake
  <2>1. now >= ((start \div Interval) + 1) * Interval
    BY <1>1, <1>4, NextCell DEF Wake, Woken, NextSchedulingTime
  <2>2. (start \div Interval) + 1 <= now \div Interval
    BY <1>1, <1>2, <2>1, CellOfBoundary
  <2>3. UNCHANGED <<now, start>>
    BY <1>4 DEF Wake, pace
  <2> QED
    BY <1>1, <1>2, <2>2, <2>3 DEF Paced, InLaterCell
<1>5. CASE Tick
  <2>1. now' = now + 1 /\ UNCHANGED <<main, start>>
    BY <1>5 DEF Tick, TimePasses
  <2>2. now' \div Interval \in Int /\ now \div Interval <= now' \div Interval
    BY <1>1, <2>1, Cell, CellsInOrder
  <2> QED
    BY <1>1, <1>2, <2>1, <2>2 DEF Paced, InLaterCell
<1>6. CASE UNCHANGED <<now, start>> /\ (main' \in {"schedule", "sleep"} \/ main \notin {"schedule", "sleep"})
  BY <1>6 DEF Paced, InLaterCell
<1>7. ASSUME Main, ~BeginRound, ~Wake
      PROVE  UNCHANGED <<now, start>> /\ (main' \in {"schedule", "sleep"} \/ main \notin {"schedule", "sleep"})
  BY <1>7 DEF Main, Construct, InitManager, CreateWorker, CheckRunning, HasSignal, Handle, Reset,
     ScheduleManager, StopManager, JoinManager, LeaveRun, BeginDestroy, DestroyManager, EndLoops, EndInit,
     EndLoop, AtManager, pace
<1>8. ASSUME (\E s \in Signals : Deliver(s)) \/ (\E m \in Modules : ThreadEnds(m)) \/ UNCHANGED vars
      PROVE  UNCHANGED <<main, now, start>>
  BY <1>8 DEF Deliver, ThreadEnds, vars, pace
<1> QED
  BY <1>3, <1>4, <1>5, <1>6, <1>7, <1>8 DEF Next, Finished

\* Every round has the managers that are up to schedule and no other, and no
\* two rounds start within one cell of the grid, whatever the rounds and the
\* sleeps take (runtime.cc:70-77).
THEOREM RoundsReachAllUp == Spec => SchedulesOncePerCell
<1>1. IInv /\ Paced /\ [Next]_vars => [BeginRound => ToSet(managers) = up /\ InLaterCell]_vars
  <2> SUFFICES ASSUME IInv, Paced, BeginRound
               PROVE  ToSet(managers) = up /\ InLaterCell
    OBVIOUS
  <2>1. main = "has"
    BY DEF BeginRound
  <2>2. ToSet(managers) = up
    BY <2>1 DEF IInv, UpSoFar, ToSet
  <2> QED
    BY <2>1, <2>2 DEF Paced
<1>2. Spec => []Paced
  BY InitPaced, NextPaced, PTL DEF Spec
<1> QED
  BY <1>1, <1>2, RuntimeInvariant, PTL DEF Spec, SchedulesOncePerCell

=============================================================================
