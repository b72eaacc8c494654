----------------------------- MODULE GpuWorker ------------------------------
(***************************************************************************)
(* gpu::GpuWorkerContext (gpu/worker.{h,cc}): the thread that drives one   *)
(* GPU.  Every tick it reads what other processes take of the device,      *)
(* frees or allocates the `-gm` block accordingly, and launches the kernel *)
(* for what the load leaves over.                                          *)
(*                                                                         *)
(* One action per step of Loop() between two accesses to shared state; the *)
(* threads around it appear as SetOthers (the contention monitor),         *)
(* SetLoadSet, RequestStop and Destroy (the main thread).  A device call   *)
(* succeeds or fails as the device's health lets it.  Times are percent of *)
(* a scheduling period, which is also milliseconds (kScheduleIntervalMS =  *)
(* kGpuMaxLoadPerDevice = 100).                                            *)
(***************************************************************************)
EXTENDS Integers, Sequences

CONSTANTS
  Period,       \* kScheduleIntervalMS
  MaxPercent,   \* kGpuMaxLoadPerDevice
  Loads,        \* busy budgets the managers set, in 0 .. Period
  Percents,     \* shares the monitor reports
  MaxFailures,  \* kGpuMaxConsecutiveFailures
  MemoryBytes   \* memory_bytes_: 0 without `-gm`

ASSUME PeriodAssumption   == Period \in Nat \ {0} /\ MaxPercent \in Nat \ {0}
ASSUME LoadsAssumption    == Loads \subseteq 0 .. Period
ASSUME PercentsAssumption == Percents \subseteq Nat
ASSUME FailuresAssumption == MaxFailures \in Nat \ {0}
ASSUME MemoryAssumption   == MemoryBytes \in Nat

NoOthers == -1

Larger(a, b)  == IF a >= b THEN a ELSE b
Smaller(a, b) == IF a <= b THEN a ELSE b

-----------------------------------------------------------------------------

VARIABLES
  pc,           \* where the thread is
  stop,         \* the stop token of thread_
  loadSet,      \* load_set_
  othersPct,    \* others_percent_
  others,       \* Loop()'s copy of it in this tick
  target,       \* target_ms of this tick
  calibrated,   \* calibrated_
  failures,     \* consecutive_failures
  memHeld,      \* memory_held_, and so whether the device has the block
  memFailed,    \* memory_failed_
  health,       \* of the device: "good", "flaky" or "broken"
  minOthers,    \* history: least value of others_percent_ since the tick began
  maxLoad,      \* history: largest load_set_ since the tick began
  outcomes      \* history: outcomes of the last MaxFailures launches

thread  == <<pc, others, target>>
memory  == <<memHeld, memFailed>>
inputs  == <<stop, loadSet, othersPct, health>>
history == <<minOthers, maxLoad, outcomes>>
vars    == <<thread, memory, calibrated, failures, inputs, history>>

PCs     == {"new", "top", "others", "sync", "budget", "calibrate", "launch",
            "sleep", "stopped", "gaveup", "destroyed"}
Healths == {"good", "flaky", "broken"}

\* What others_percent_ can hold after SetOthers.
Clamped(percent) == Smaller(percent, MaxPercent)
SharesHeld       == {NoOthers} \cup {Clamped(p) : p \in Percents}

CanSucceed == health # "broken"
CanFail    == health # "good"

\* Not started.  The main thread has calibrated the device, unless others
\* were using it or there is no load to calibrate for.
Init ==
  /\ pc = "new"
  /\ stop = FALSE
  /\ loadSet \in Loads
  /\ othersPct \in SharesHeld
  /\ others = NoOthers
  /\ target = 0
  /\ calibrated \in BOOLEAN
  /\ calibrated => loadSet > 0
  /\ failures = 0
  /\ memHeld = FALSE
  /\ memFailed = FALSE
  /\ health \in Healths
  /\ minOthers = NoOthers
  /\ maxLoad = 0
  /\ outcomes = <<>>

-----------------------------------------------------------------------------
(* The worker thread. *)

\* Mutation of SyncMemory: a block that is held stays.
SyncMemory_KeepsBlock(sharing, allocated) ==
  IF MemoryBytes = 0 \/ memHeld
    THEN UNCHANGED memory
    ELSE IF sharing
      THEN memHeld' = FALSE /\ memFailed' = FALSE
      ELSE IF memFailed
        THEN UNCHANGED memory
        ELSE memHeld' = allocated /\ memFailed' = ~allocated

\* Mutation of SyncMemory: a failed allocation is not remembered.
SyncMemory_ForgetsFailure(sharing, allocated) ==
  IF MemoryBytes = 0
    THEN UNCHANGED memory
    ELSE /\ memFailed' = FALSE
         /\ memHeld' = (~sharing /\ (memHeld \/ allocated))

\* SyncMemory(sharing); `allocated` is what AllocateMemory would return.
SyncMemory(sharing, allocated) ==
  IF MemoryBytes = 0
    THEN UNCHANGED memory
    ELSE IF sharing
      THEN memHeld' = FALSE /\ memFailed' = FALSE
      ELSE IF memHeld \/ memFailed
        THEN UNCHANGED memory
        ELSE memHeld' = allocated /\ memFailed' = ~allocated

\* Mutation of CheckStop: the stop token is not looked at.
CheckStop_Never ==
  /\ pc = "top"
  /\ pc' = "others"
  /\ minOthers' = othersPct
  /\ maxLoad' = loadSet
  /\ UNCHANGED <<others, target, memory, calibrated, failures, inputs, outcomes>>

\* while (!stoken.stop_requested())
CheckStop ==
  /\ pc = "top"
  /\ pc' = IF stop THEN "stopped" ELSE "others"
  /\ minOthers' = othersPct
  /\ maxLoad' = loadSet
  /\ UNCHANGED <<others, target, memory, calibrated, failures, inputs, outcomes>>

ReadOthers ==
  /\ pc = "others"
  /\ others' = othersPct
  /\ pc' = "sync"
  /\ UNCHANGED <<target, memory, calibrated, failures, inputs, history>>

Sync ==
  /\ pc = "sync"
  /\ \E allocated \in BOOLEAN :
       /\ allocated => CanSucceed
       /\ ~allocated => CanFail
       /\ SyncMemory(others >= 0, allocated)
  /\ pc' = "budget"
  /\ UNCHANGED <<others, target, calibrated, failures, inputs, history>>

Budget_IgnoresOthers(load, share) == load

\* What is left of `load` beside others that take `share`.
Budget(load, share) ==
  Larger(0, load - (Larger(share, 0) * Period) \div MaxPercent)

ReadLoad ==
  /\ pc = "budget"
  /\ target' = Budget(loadSet, others)
  /\ pc' = IF target' = 0 THEN "sleep"
           ELSE IF calibrated THEN "launch" ELSE "calibrate"
  /\ UNCHANGED <<others, memory, calibrated, failures, inputs, history>>

\* Nobody follows the sharing state from here on.
GiveUp ==
  /\ SyncMemory(TRUE, FALSE)
  /\ pc' = "gaveup"

\* CalibrateBaseLoopCount() on the worker's own thread.
Calibrate ==
  /\ pc = "calibrate"
  /\ \/ /\ CanSucceed
        /\ calibrated' = TRUE
        /\ pc' = "top"
        /\ UNCHANGED memory
     \/ /\ CanFail
        /\ GiveUp
        /\ UNCHANGED calibrated
  /\ UNCHANGED <<others, target, failures, inputs, history>>

Recorded(ok) ==
  LET all == Append(outcomes, ok)
  IN  IF Len(all) > MaxFailures THEN Tail(all) ELSE all

\* Mutation of LaunchSucceeds: the failures are not reset.
LaunchSucceeds_KeepsFailures ==
  /\ pc = "launch"
  /\ CanSucceed
  /\ pc' = "sleep"
  /\ outcomes' = Recorded(TRUE)
  /\ UNCHANGED <<others, target, memory, calibrated, failures, inputs, minOthers, maxLoad>>

LaunchSucceeds ==
  /\ pc = "launch"
  /\ CanSucceed
  /\ failures' = 0
  /\ pc' = "sleep"
  /\ outcomes' = Recorded(TRUE)
  /\ UNCHANGED <<others, target, memory, calibrated, inputs, minOthers, maxLoad>>

LaunchFails ==
  /\ pc = "launch"
  /\ CanFail
  /\ failures' = failures + 1
  /\ IF failures' >= MaxFailures
       THEN GiveUp
       ELSE pc' = "sleep" /\ UNCHANGED memory
  /\ outcomes' = Recorded(FALSE)
  /\ UNCHANGED <<others, target, calibrated, inputs, minOthers, maxLoad>>

\* The rest of the period, or the back-off after a failed launch.
Sleep ==
  /\ pc = "sleep"
  /\ pc' = "top"
  /\ UNCHANGED <<others, target, memory, calibrated, failures, inputs, history>>

Worker ==
  \/ CheckStop \/ ReadOthers \/ Sync \/ ReadLoad
  \/ Calibrate \/ LaunchSucceeds \/ LaunchFails \/ Sleep

-----------------------------------------------------------------------------
(* The threads around it, and the device. *)

Start ==
  /\ pc = "new"
  /\ pc' = "top"
  /\ UNCHANGED <<others, target, memory, calibrated, failures, inputs, history>>

\* From Monitor::Poll; the monitor is joined before the worker is destroyed.
SetOthers(percent) ==
  /\ pc \notin {"new", "destroyed"}
  /\ othersPct' = IF percent = NoOthers THEN NoOthers ELSE Clamped(percent)
  /\ minOthers' = Smaller(minOthers, othersPct')
  /\ UNCHANGED <<thread, memory, calibrated, failures, stop, loadSet, health,
                 maxLoad, outcomes>>

\* From the manager's Schedule().
SetLoadSet(load) ==
  /\ pc # "new"
  /\ ~stop
  /\ loadSet' = load
  /\ maxLoad' = Larger(maxLoad, load)
  /\ UNCHANGED <<thread, memory, calibrated, failures, stop, othersPct, health,
                 minOthers, outcomes>>

RequestStop ==
  /\ pc # "new"
  /\ ~stop
  /\ stop' = TRUE
  /\ UNCHANGED <<thread, memory, calibrated, failures, loadSet, othersPct,
                 health, history>>

\* workers_.clear() after Join(): the device's destructor frees the block.
Destroy ==
  /\ stop
  /\ pc \in {"stopped", "gaveup"}
  /\ pc' = "destroyed"
  /\ memHeld' = FALSE
  /\ UNCHANGED <<others, target, memFailed, calibrated, failures, inputs, history>>

SetHealth(h) ==
  /\ pc # "destroyed"
  /\ health' = h
  /\ UNCHANGED <<thread, memory, calibrated, failures, stop, loadSet, othersPct,
                 history>>

Environment ==
  \/ Start
  \/ \E percent \in Percents \cup {NoOthers} : SetOthers(percent)
  \/ \E load \in Loads : SetLoadSet(load)
  \/ RequestStop
  \/ Destroy
  \/ \E h \in Healths : SetHealth(h)

Next == Worker \/ Environment

\* The thread is scheduled and its device calls return; the main thread
\* destroys a worker it has joined.  Nothing is assumed of the monitor, of
\* the loads or of the device.
Fairness == WF_vars(Worker) /\ WF_vars(Destroy)

Spec     == Init /\ [][Next]_vars
FairSpec == Spec /\ Fairness

-----------------------------------------------------------------------------

TypeOK ==
  /\ pc \in PCs
  /\ stop \in BOOLEAN
  /\ loadSet \in Loads
  /\ othersPct \in SharesHeld
  /\ others \in SharesHeld
  /\ target \in 0 .. Period
  /\ calibrated \in BOOLEAN
  /\ failures \in 0 .. MaxFailures
  /\ memHeld \in BOOLEAN
  /\ memFailed \in BOOLEAN
  /\ health \in Healths
  /\ minOthers \in SharesHeld
  /\ maxLoad \in 0 .. Period
  /\ outcomes \in Seq(BOOLEAN)
  /\ Len(outcomes) <= MaxFailures

\* A launch and the others' share together stay within the load asked for:
\* what others were reported to take at every moment since the tick began is
\* left to them, whatever changed meanwhile (worker.cc:223-227).
LeavesOthersTheirShare ==
  pc = "launch" =>
    target + (Larger(minOthers, 0) * Period) \div MaxPercent <= maxLoad

\* Past SyncMemory, a tick that found the device shared all along holds no
\* `-gm` block: the memory goes back within the tick that sees the sighting
\* (worker.h:25-27).
NoBlockBesideOthers ==
  pc \in {"budget", "calibrate", "launch", "sleep"} /\ minOthers >= 0 => ~memHeld

\* A device given up keeps no block: nobody follows the sharing state any
\* more (worker.cc:265-267).
GaveUpHoldsNothing == pc = "gaveup" => ~memHeld

\* A calibrated device is given up only after MaxFailures launches that all
\* failed, with no success in between, across idle ticks and spells of
\* sharing (worker.cc:262-274).
GivenUpAfterFailuresInARow ==
  pc = "gaveup" /\ calibrated =>
    /\ Len(outcomes) = MaxFailures
    /\ \A i \in 1 .. MaxFailures : ~outcomes[i]

\* After a failed allocation the block stays away until the worker has seen a
\* spell of sharing (worker.h:94-96).
NoRetryWithinSpell == ~(memHeld /\ memFailed)

\* The kernel's loop count is meaningful whenever it is launched for a tick:
\* a device in use at startup is calibrated first (worker.h:41-45).
CalibratedBeforeLaunch == pc = "launch" => calibrated

\* What the safety properties rest on.  The tick's copy of the others' share
\* and the load it starts from lie between what they were when it began and
\* what they are now.
TickInBounds ==
  /\ minOthers <= othersPct
  /\ pc \in {"sync", "budget", "calibrate", "launch"} => minOthers <= others
  /\ pc \notin {"new", "top"} => loadSet <= maxLoad

\* The failures counted are the latest launches, and a worker goes on only
\* below the limit.
FailuresAreLatest ==
  /\ failures <= Len(outcomes)
  /\ \A i \in 1 .. Len(outcomes) : i > Len(outcomes) - failures => ~outcomes[i]
  /\ pc \notin {"gaveup", "destroyed"} => failures < MaxFailures
  /\ pc = "gaveup" /\ calibrated => failures = MaxFailures

CalibratesOnce == pc = "calibrate" => ~calibrated
BlockIfAsked   == MemoryBytes = 0 => ~memHeld

IInv ==
  /\ TypeOK /\ TickInBounds /\ FailuresAreLatest /\ CalibratesOnce /\ BlockIfAsked
  /\ LeavesOthersTheirShare /\ CalibratedBeforeLaunch
  /\ NoBlockBesideOthers /\ GaveUpHoldsNothing /\ NoRetryWithinSpell

\* A stop request ends the thread, whatever the device does.
StopsWhenAsked == stop ~> pc = "destroyed"

\* Another process gets the block's memory back, unless it goes away first.
GivesBlockBack == (memHeld /\ othersPct >= 0) ~> (~memHeld \/ othersPct = NoOthers)

\* A worker left alone ends up with its block, or has recorded that it
\* cannot have it, however the sharing state flickered before.
AloneSettles ==
  <>[](pc # "new" /\ ~stop /\ othersPct = NoOthers)
    => <>[](memHeld \/ memFailed \/ pc = "gaveup")

=============================================================================
