------------------------------- MODULE Runtime ------------------------------
(***************************************************************************)
(* core::Runtime (core/runtime.cc) and the latch its signals come through  *)
(* (core/signal_flag.h, util/atomic_bitmap.h): brings the managers up,     *)
(* drives Schedule() on every tick, looks at the latched signals once per  *)
(* tick, and tears everything down.                                        *)
(*                                                                         *)
(* A signal may be delivered between any two steps, also between the Has,  *)
(* the handler and the Reset of DealSignals.  A manager is what            *)
(* resource_manager.h makes of it: one with worker threads from            *)
(* CreateWorkerThreads() to JoinWorkerThreads() (CPU, GPU), or one whose   *)
(* Schedule() starts a one-shot thread its destructor joins (memory);      *)
(* GpuManager and MemoryManager have the detail.  The clock of the main    *)
(* loop is TickGrid's.                                                     *)
(***************************************************************************)
EXTENDS TickGrid, Sequences, SequencesExt, FiniteSets

CONSTANTS
  Creators,     \* creators_: the modules, in the order of main()
  OneShot,      \* the modules whose threads Schedule() starts
  Handlers,     \* signal_handlers_, in their order
  QuitSignals,  \* SIGINT and SIGTERM; the others do nothing
  MaxRounds     \* bound: rounds of Schedule() told apart after a quit signal

ASSUME CreatorsAssumption == Creators \in Seq(ToSet(Creators)) /\ OneShot \subseteq ToSet(Creators)
ASSUME HandlersAssumption == Handlers \in Seq(ToSet(Handlers)) /\ QuitSignals \subseteq ToSet(Handlers)
ASSUME RoundsAssumption   == MaxRounds \in Nat

Modules == ToSet(Creators)
Signals == ToSet(Handlers)

VARIABLES
  main,         \* where the main thread is
  index,        \* the index its loop is at: a creator, manager or handler
  managers,     \* managers_
  running,      \* running_flag_
  latch,        \* bitmap_ of SignalFlag: the bits set
  thread,       \* per module, its thread: "none", "running" or "ended"
  asked,        \* per module: its thread was asked to stop
  up,           \* history: the modules whose Init() returned true
  quit,         \* history: a quit signal was delivered
  rounds        \* history: Schedule() rounds begun since, up to MaxRounds

signals == <<running, latch, quit>>
workers == <<thread, asked>>
pace    == <<rounds, now, start>>
vars    == <<main, index, managers, signals, workers, up, pace>>

Init ==
  /\ main = "construct" /\ index = 1
  /\ managers = <<>>
  /\ running = TRUE
  /\ latch = {}
  /\ thread = [m \in Modules |-> "none"]
  /\ asked = [m \in Modules |-> FALSE]
  /\ up = {}
  /\ quit = FALSE
  /\ rounds = 0
  /\ InitGrid

\* The next manager of a loop over managers_, at `pc`.
AtManager(pc) == main = pc /\ index <= Len(managers)
Manager       == managers[index]

\* The end of a loop, over `bound` elements, at `pc`.
EndLoop(pc, bound, to) ==
  /\ main = pc /\ index > bound
  /\ main' = to /\ index' = 1
  /\ UNCHANGED <<managers, signals, workers, up, pace>>

-----------------------------------------------------------------------------
(* Init() *)

\* A creator may return nullptr.
Construct ==
  /\ main = "construct" /\ index <= Len(Creators)
  /\ managers' \in {managers, Append(managers, Creators[index])}
  /\ index' = index + 1
  /\ UNCHANGED <<main, signals, workers, up, pace>>

\* it = erase(it), or ++it.
InitManager ==
  /\ AtManager("init")
  /\ \/ /\ up' = up \cup {Manager}
        /\ index' = index + 1
        /\ UNCHANGED managers
     \/ /\ managers' = RemoveAt(managers, index)
        /\ UNCHANGED <<index, up>>
  /\ UNCHANGED <<main, signals, workers, pace>>

EndInit == EndLoop("init", Len(managers), IF managers = <<>> THEN "disabled" ELSE "create")

-----------------------------------------------------------------------------
(* CreateWorkers(), MainLoop(), StopWorkers(), JoinWorkers() and ~Runtime() *)

CreateWorker ==
  /\ AtManager("create")
  /\ thread' = IF Manager \in OneShot THEN thread
               ELSE [thread EXCEPT ![Manager] = "running"]
  /\ index' = index + 1
  /\ UNCHANGED <<main, managers, signals, asked, up, pace>>

\* Mutation of CheckRunning: the first handler is passed over.
CheckRunning_FromSecond ==
  /\ main = "loop"
  /\ main' = IF running THEN "has" ELSE "stop"
  /\ index' = IF running THEN 2 ELSE 1
  /\ UNCHANGED <<managers, signals, workers, up, pace>>

\* while (running_flag_)
CheckRunning ==
  /\ main = "loop"
  /\ main' = IF running THEN "has" ELSE "stop"
  /\ index' = 1
  /\ UNCHANGED <<managers, signals, workers, up, pace>>

\* DealSignals: one handler in three steps.
HasSignal ==
  /\ main = "has" /\ index <= Len(Handlers)
  /\ IF Handlers[index] \in latch
       THEN main' = "handle" /\ UNCHANGED index
       ELSE index' = index + 1 /\ UNCHANGED main
  /\ UNCHANGED <<managers, signals, workers, up, pace>>

Handle ==
  /\ main = "handle"
  /\ running' = (running /\ Handlers[index] \notin QuitSignals)
  /\ main' = "reset"
  /\ UNCHANGED <<index, managers, latch, quit, workers, up, pace>>

\* Mutation of Reset: the whole bitmap is cleared.
Reset_All ==
  /\ main = "reset"
  /\ latch' = {}
  /\ main' = "has" /\ index' = index + 1
  /\ UNCHANGED <<managers, running, quit, workers, up, pace>>

Reset ==
  /\ main = "reset"
  /\ latch' = latch \ {Handlers[index]}
  /\ main' = "has" /\ index' = index + 1
  /\ UNCHANGED <<managers, running, quit, workers, up, pace>>

BeginRound ==
  /\ main = "has" /\ index > Len(Handlers)
  /\ main' = "schedule" /\ index' = 1
  /\ rounds' = IF quit /\ rounds < MaxRounds THEN rounds + 1 ELSE rounds
  /\ StartRound
  /\ UNCHANGED <<managers, signals, workers, up>>

\* mgr->Schedule(start); a one-shot thread that has ended is joined first.
ScheduleManager ==
  /\ AtManager("schedule")
  /\ \/ UNCHANGED thread
     \/ /\ Manager \in OneShot /\ thread[Manager] # "running"
        /\ thread' = [thread EXCEPT ![Manager] = "running"]
  /\ index' = index + 1
  /\ UNCHANGED <<main, managers, signals, asked, up, pace>>

\* sleep_until(NextSchedulingTime(start))
Wake ==
  /\ main = "sleep" /\ Woken
  /\ main' = "loop"
  /\ UNCHANGED <<index, managers, signals, workers, up, pace>>

\* Mutation of StopManager: nobody is asked.
StopManager_Silent ==
  /\ AtManager("stop")
  /\ index' = index + 1
  /\ UNCHANGED <<main, managers, signals, workers, up, pace>>

\* RequestWorkerThreadsStop() of the memory manager does nothing.
StopManager ==
  /\ AtManager("stop")
  /\ asked' = [asked EXCEPT ![Manager] = Manager \notin OneShot]
  /\ index' = index + 1
  /\ UNCHANGED <<main, managers, signals, thread, up, pace>>

\* Nor does its JoinWorkerThreads().
JoinManager ==
  /\ AtManager("join")
  /\ \/ Manager \in OneShot /\ UNCHANGED thread
     \/ /\ Manager \notin OneShot /\ thread[Manager] = "ended"
        /\ thread' = [thread EXCEPT ![Manager] = "none"]
  /\ index' = index + 1
  /\ UNCHANGED <<main, managers, signals, asked, up, pace>>

\* The destructor of a one-shot manager asks its thread to stop and joins it.
BeginDestroy ==
  /\ AtManager("destroy")
  /\ thread[Manager] = "running" /\ ~asked[Manager]
  /\ asked' = [asked EXCEPT ![Manager] = TRUE]
  /\ UNCHANGED <<main, index, managers, signals, thread, up, pace>>

\* Mutation of DestroyManager: a running thread is detached.
DestroyManager_Detaches ==
  /\ AtManager("destroy")
  /\ thread' = [thread EXCEPT ![Manager] = IF @ = "running" THEN @ ELSE "none"]
  /\ index' = index + 1
  /\ UNCHANGED <<main, managers, signals, asked, up, pace>>

DestroyManager ==
  /\ AtManager("destroy")
  /\ thread[Manager] # "running"
  /\ thread' = [thread EXCEPT ![Manager] = "none"]
  /\ index' = index + 1
  /\ UNCHANGED <<main, managers, signals, asked, up, pace>>

EndLoops ==
  \/ EndLoop("construct", Len(Creators), "init")
  \/ EndInit
  \/ EndLoop("create", Len(managers), "loop")
  \/ EndLoop("schedule", Len(managers), "sleep")
  \/ EndLoop("stop", Len(managers), "join")
  \/ EndLoop("join", Len(managers), "returned")
  \/ EndLoop("destroy", Len(managers), "exited")

\* Run() returns to main(), whose block then ends.
LeaveRun ==
  /\ main = "returned"
  /\ main' = "destroy" /\ index' = 1
  /\ UNCHANGED <<managers, signals, workers, up, pace>>

-----------------------------------------------------------------------------
(* The signal handler, and the managers' threads. *)

Deliver(s) ==
  /\ main # "exited"
  /\ latch' = latch \cup {s}
  /\ quit' = (quit \/ s \in QuitSignals)
  /\ UNCHANGED <<main, index, managers, running, workers, up, pace>>

\* A thread ends once it was asked to; a GPU worker that gives its device up
\* and a one-shot thread end on their own as well.
ThreadEnds(m) ==
  /\ thread[m] = "running"
  /\ thread' = [thread EXCEPT ![m] = "ended"]
  /\ UNCHANGED <<main, index, managers, signals, asked, up, pace>>

EndsWhenAsked(m) == asked[m] /\ ThreadEnds(m)

\* The clock matters to the main loop only.  Any step of it may take long.
MainLoop == {"loop", "has", "handle", "reset", "schedule", "sleep"}

Tick ==
  /\ main \in MainLoop
  /\ TimePasses
  /\ UNCHANGED <<main, index, managers, signals, workers, up, rounds>>

Main ==
  \/ Construct \/ InitManager \/ CreateWorker \/ CheckRunning
  \/ HasSignal \/ Handle \/ Reset \/ BeginRound \/ ScheduleManager \/ Wake
  \/ StopManager \/ JoinManager \/ LeaveRun \/ BeginDestroy \/ DestroyManager
  \/ EndLoops

Finished == main \in {"exited", "disabled"} /\ UNCHANGED vars

Next ==
  \/ Main
  \/ \E s \in Signals : Deliver(s)
  \/ \E m \in Modules : ThreadEnds(m)
  \/ Tick
  \/ Finished

\* The main thread runs, time passes, and a thread that was asked to stop runs.
\* Nothing is assumed of the signals.
Fairness == WF_vars(Main) /\ WF_vars(Tick) /\ \A m \in Modules : WF_vars(EndsWhenAsked(m))

Spec     == Init /\ [][Next]_vars
FairSpec == Spec /\ Fairness

-----------------------------------------------------------------------------

MainPCs == {"construct", "init", "create", "loop", "has", "handle", "reset",
            "schedule", "sleep", "stop", "join", "returned", "destroy", "exited", "disabled"}

\* A quit signal is never lost: until the main loop has taken note of it, it
\* stays latched, whichever signals are handled and reset meanwhile, and also
\* when it comes before the main loop runs (signal_flag.h:19-26).
NoQuitLost == quit => ~running \/ latch \cap QuitSignals # {}

\* At most the round under way and one more are scheduled after a quit
\* signal.  (MaxRounds must exceed 2.)
QuitsWithinTwoRounds == rounds <= 2

\* A round has all managers that are up to schedule, and no other: none that
\* failed Init() is left in the list, and none that passed is lost.  And it
\* starts in a later cell of the grid than the one before: after a round or a
\* sleep that ran over several cells there is no burst to catch up, and none
\* spins on a boundary it was just woken for.
SchedulesOncePerCell ==
  [][BeginRound => ToSet(managers) = up /\ InLaterCell]_vars

\* When main() gets past the runtime, no thread is left to use what is gone.
NoThreadSurvives ==
  main = "exited" => \A m \in Modules : thread[m] = "none"

\* A quit signal ends the program, whenever it comes.
QuitEnds == quit ~> main \in {"exited", "disabled"}

=============================================================================
