----------------------------- MODULE GpuManager -----------------------------
(***************************************************************************)
(* gpu::GpuResourceManager (gpu/manager.{h,cc}): brings the devices up,    *)
(* polls for other users before it calibrates, drops devices that cannot   *)
(* run the kernel, and starts, feeds, stops and joins the worker threads   *)
(* and the monitor thread that calls back into them.                       *)
(*                                                                         *)
(* The main thread, the monitor thread and one thread per worker           *)
(* interleave.  What a worker does with its device is one call at a time   *)
(* (GpuWorker has the detail); a poll sees another process on a device or  *)
(* not, and its gate counts polls (Monitor and ShareGate have the detail). *)
(***************************************************************************)
EXTENDS Integers, Sequences, SequencesExt

CONSTANTS
  NumDevices,   \* pending_devices_ the factory probed
  ResumePolls   \* polls without others before a device comes back

ASSUME DevicesAssumption == NumDevices \in Nat
ASSUME ResumeAssumption  == ResumePolls \in Nat \ {0}

Devices == 1 .. NumDevices

VARIABLES
  main,         \* where the main thread is
  next,         \* the index its loop is at
  withLoad,     \* options_.GetGpuLoad() > 0
  pending,      \* pending_devices_
  workers,      \* workers_, by device
  tracked,      \* devices_ of monitor_, <<>> without one
  left,         \* gates_ of monitor_: polls before each comes back, by index
  sees,         \* what the sources saw in this poll, by index
  at,           \* the index this poll reports on next, 0 outside a poll
  monThread,    \* thread_ of monitor_: "none", "waiting", "done"
  monStop,
  sharing,      \* per device: others_percent_ of its worker is a share
  calibrated,   \* per device: calibrated_ of its worker
  loadSet,      \* per device: load_set_ of its worker was seeded
  thread,       \* per device: thread of its worker
  stop,         \* per device: the stop token of that thread
  quiet         \* history: polls since others were seen, per device

startup == <<withLoad, pending, workers>>
monitor == <<tracked, left, sees, at, monThread, monStop>>
worker  == <<sharing, calibrated, loadSet, thread, stop>>
vars    == <<main, next, startup, monitor, worker, quiet>>

Init ==
  /\ main = "devices" /\ next = 1
  /\ withLoad \in BOOLEAN
  /\ pending = [i \in 1 .. NumDevices |-> i]
  /\ workers = <<>>
  /\ tracked = <<>> /\ left = <<>> /\ sees = <<>> /\ at = 0
  /\ monThread = "none" /\ monStop = FALSE
  /\ sharing = [d \in Devices |-> FALSE]
  /\ calibrated = [d \in Devices |-> FALSE]
  /\ loadSet = [d \in Devices |-> FALSE]
  /\ thread = [d \in Devices |-> "none"]
  /\ stop = [d \in Devices |-> FALSE]
  /\ quiet = [d \in Devices |-> ResumePolls]

-----------------------------------------------------------------------------
(* Monitor::Poll, on the main thread during Init and on monThread later. *)

\* Mutation of InitContentionMonitor: the workers keep what the previous
\* monitor told them.
InitContentionMonitor_KeepsSharing ==
  /\ UNCHANGED sharing
  /\ tracked' = workers
  /\ left' = [i \in 1 .. Len(workers) |-> 0]

\* A fresh monitor over workers_, whose first poll the caller takes.
InitContentionMonitor ==
  /\ sharing' = [d \in Devices |-> IF d \in ToSet(workers) THEN FALSE ELSE sharing[d]]
  /\ tracked' = workers
  /\ left' = [i \in 1 .. Len(workers) |-> 0]

Sampled == [1 .. Len(tracked) -> BOOLEAN]

\* Poll reads BusyMs() of every worker and samples the sources.
BeginPoll ==
  /\ sees' \in Sampled
  /\ at' = 1
  /\ quiet' = [d \in Devices |->
       IF \E i \in 1 .. Len(tracked) : tracked[i] = d /\ sees'[i] THEN 0
       ELSE IF quiet[d] < ResumePolls THEN quiet[d] + 1 ELSE ResumePolls]

\* The gate of one device, and on_change_ into its worker.
ReportNext ==
  /\ at \in 1 .. Len(tracked)
  /\ left' = [left EXCEPT ![at] = IF sees[at] THEN ResumePolls
                                  ELSE IF @ > 0 THEN @ - 1 ELSE 0]
  /\ IF (left'[at] > 0) # (left[at] > 0)
       THEN sharing' = [sharing EXCEPT ![workers[at]] = left'[at] > 0]
       ELSE UNCHANGED sharing
  /\ at' = at + 1

PollDone == at = Len(tracked) + 1

-----------------------------------------------------------------------------
(* The main thread: Init(). *)

\* Init of the next device binds it, or it is skipped.
InitDevice ==
  /\ main = "devices" /\ pending # <<>>
  /\ pending' = Tail(pending)
  /\ \E ok \in BOOLEAN :
       workers' = IF ok THEN Append(workers, Head(pending)) ELSE workers
  /\ UNCHANGED <<main, next, withLoad, monitor, worker, quiet>>

SetUpMonitor ==
  /\ \/ main = "devices" /\ pending = <<>> /\ workers # <<>>
     \/ main = "retrack"
  /\ InitContentionMonitor
  /\ main' = IF main = "devices" THEN "poll" ELSE "repoll"
  /\ UNCHANGED <<next, startup, sees, at, monThread, monStop,
                 calibrated, loadSet, thread, stop, quiet>>

NoUsableDevice ==
  /\ main = "devices" /\ pending = <<>> /\ workers = <<>>
  /\ main' = "disabled"
  /\ UNCHANGED <<next, startup, monitor, worker, quiet>>

FirstPoll ==
  /\ main \in {"poll", "repoll"} /\ at = 0
  /\ BeginPoll
  /\ UNCHANGED <<main, next, startup, tracked, left, monThread, monStop, worker>>

FirstReports ==
  /\ main \in {"poll", "repoll"}
  /\ ReportNext
  /\ UNCHANGED <<main, next, startup, tracked, sees, monThread, monStop,
                 calibrated, loadSet, thread, stop, quiet>>

EndFirstPoll ==
  /\ main \in {"poll", "repoll"} /\ PollDone
  /\ at' = 0
  /\ sees' = <<>>
  /\ main' = IF ~withLoad THEN "start"
             ELSE IF main = "poll" THEN "calibrate" ELSE "loads"
  /\ next' = 1
  /\ UNCHANGED <<startup, tracked, left, monThread, monStop, worker, quiet>>

\* Mutation of ConsiderCalibration: also beside others.
ConsiderCalibration_Always ==
  /\ main = "calibrate" /\ next <= Len(workers)
  /\ main' = "calibrating"
  /\ UNCHANGED <<next, startup, monitor, worker, quiet>>

\* erase_if's predicate on the next worker: one that shares its device keeps
\* for later, the others run the kernel here.
ConsiderCalibration ==
  /\ main = "calibrate" /\ next <= Len(workers)
  /\ IF sharing[workers[next]]
       THEN next' = next + 1 /\ UNCHANGED main
       ELSE main' = "calibrating" /\ UNCHANGED next
  /\ UNCHANGED <<startup, monitor, worker, quiet>>

CalibrationEnds ==
  /\ main = "calibrating"
  /\ main' = "calibrate"
  /\ \/ /\ calibrated' = [calibrated EXCEPT ![workers[next]] = TRUE]
        /\ next' = next + 1
        /\ UNCHANGED workers
     \/ /\ workers' = RemoveAt(workers, next)
        /\ UNCHANGED <<next, calibrated>>
  /\ UNCHANGED <<withLoad, pending, monitor, sharing, loadSet, thread, stop, quiet>>

\* Mutation of EndCalibration: the monitor is not set up again.
EndCalibration_KeepsMonitor ==
  /\ main = "calibrate" /\ next > Len(workers)
  /\ main' = IF workers = <<>> THEN "disabled" ELSE "loads"
  /\ UNCHANGED <<next, startup, monitor, worker, quiet>>

EndCalibration ==
  /\ main = "calibrate" /\ next > Len(workers)
  /\ main' = IF workers = <<>> THEN "disabled"
             ELSE IF Len(workers) # Len(tracked) THEN "retrack" ELSE "loads"
  /\ UNCHANGED <<next, startup, monitor, worker, quiet>>

SetLoads ==
  /\ main = "loads"
  /\ loadSet' = [d \in Devices |-> loadSet[d] \/ d \in ToSet(workers)]
  /\ main' = "start" /\ next' = 1
  /\ UNCHANGED <<startup, monitor, sharing, calibrated, thread, stop, quiet>>

-----------------------------------------------------------------------------
(* The main thread: CreateWorkerThreads() to JoinWorkerThreads(). *)

StartWorker ==
  /\ main = "start" /\ next <= Len(workers)
  /\ thread' = [thread EXCEPT ![workers[next]] = "loop"]
  /\ next' = next + 1
  /\ UNCHANGED <<main, startup, monitor, sharing, calibrated, loadSet, stop, quiet>>

StartMonitor ==
  /\ main = "start" /\ next > Len(workers)
  /\ monThread' = "waiting"
  /\ main' = "run"
  /\ UNCHANGED <<next, startup, tracked, left, sees, at, monStop, worker, quiet>>

\* Mutation of StopMonitor: only the workers are asked to stop.
StopMonitor_Forgotten ==
  /\ main = "run"
  /\ main' = "stopWorkers" /\ next' = 1
  /\ UNCHANGED <<startup, monitor, worker, quiet>>

StopMonitor ==
  /\ main = "run"
  /\ monStop' = TRUE
  /\ main' = "stopWorkers" /\ next' = 1
  /\ UNCHANGED <<startup, tracked, left, sees, at, monThread, worker, quiet>>

StopWorker ==
  /\ main = "stopWorkers" /\ next <= Len(workers)
  /\ stop' = [stop EXCEPT ![workers[next]] = TRUE]
  /\ next' = next + 1
  /\ UNCHANGED <<main, startup, monitor, sharing, calibrated, loadSet, thread, quiet>>

EndStopping ==
  /\ main = "stopWorkers" /\ next > Len(workers)
  /\ main' = "joinMonitor"
  /\ UNCHANGED <<next, startup, monitor, worker, quiet>>

JoinMonitor ==
  /\ main = "joinMonitor"
  /\ monThread = "done"
  /\ tracked' = <<>> /\ left' = <<>>
  /\ main' = "joinWorkers" /\ next' = 1
  /\ UNCHANGED <<startup, sees, at, monThread, monStop, worker, quiet>>

\* Mutation of JoinWorker: it does not wait.
JoinWorker_Detaches ==
  /\ main = "joinWorkers" /\ next <= Len(workers)
  /\ next' = next + 1
  /\ UNCHANGED <<main, startup, monitor, worker, quiet>>

JoinWorker ==
  /\ main = "joinWorkers" /\ next <= Len(workers)
  /\ thread[workers[next]] = "ended"
  /\ next' = next + 1
  /\ UNCHANGED <<main, startup, monitor, worker, quiet>>

\* workers_.clear() destroys the devices.
ClearWorkers ==
  /\ main = "joinWorkers" /\ next > Len(workers)
  /\ workers' = <<>>
  /\ main' = "done"
  /\ UNCHANGED <<next, withLoad, pending, monitor, worker, quiet>>

-----------------------------------------------------------------------------
(* The monitor thread and the worker threads. *)

MonitorPolls ==
  /\ monThread = "waiting" /\ at = 0 /\ ~monStop
  /\ BeginPoll
  /\ UNCHANGED <<main, next, startup, tracked, left, monThread, monStop, worker>>

MonitorReports ==
  /\ monThread = "waiting"
  /\ ReportNext
  /\ UNCHANGED <<main, next, startup, tracked, sees, monThread, monStop,
                 calibrated, loadSet, thread, stop, quiet>>

MonitorEndsPoll ==
  /\ monThread = "waiting" /\ at > 0 /\ PollDone
  /\ at' = 0
  /\ sees' = <<>>
  /\ UNCHANGED <<main, next, startup, tracked, left, monThread, monStop, worker, quiet>>

MonitorExits ==
  /\ monThread = "waiting" /\ at = 0 /\ monStop
  /\ monThread' = "done"
  /\ UNCHANGED <<main, next, startup, tracked, left, sees, at, monStop, worker, quiet>>

WorkerCalls(d) ==
  /\ thread[d] = "loop" /\ ~stop[d]
  /\ thread' = [thread EXCEPT ![d] = "call"]
  /\ UNCHANGED <<main, next, startup, monitor, sharing, calibrated, loadSet, stop, quiet>>

\* A call that calibrates needs a load to calibrate for; a failed one may be
\* the last.
WorkerReturns(d) ==
  /\ thread[d] = "call"
  /\ \/ thread' = [thread EXCEPT ![d] = "loop"] /\ UNCHANGED calibrated
     \/ thread' = [thread EXCEPT ![d] = "ended"] /\ UNCHANGED calibrated
     \/ /\ loadSet[d] /\ ~calibrated[d]
        /\ calibrated' = [calibrated EXCEPT ![d] = TRUE]
        /\ thread' = [thread EXCEPT ![d] = "loop"]
  /\ UNCHANGED <<main, next, startup, monitor, sharing, loadSet, stop, quiet>>

WorkerExits(d) ==
  /\ thread[d] = "loop" /\ stop[d]
  /\ thread' = [thread EXCEPT ![d] = "ended"]
  /\ UNCHANGED <<main, next, startup, monitor, sharing, calibrated, loadSet, stop, quiet>>

-----------------------------------------------------------------------------

\* Init(), CreateWorkerThreads() and, once the runtime quits, the rest.
MainInit ==
  \/ InitDevice \/ SetUpMonitor \/ NoUsableDevice
  \/ FirstPoll \/ FirstReports \/ EndFirstPoll
  \/ ConsiderCalibration \/ CalibrationEnds \/ EndCalibration \/ SetLoads
  \/ StartWorker \/ StartMonitor

MainShutdown ==
  StopWorker \/ EndStopping \/ JoinMonitor \/ JoinWorker \/ ClearWorkers

MonitorThread == MonitorPolls \/ MonitorReports \/ MonitorEndsPoll \/ MonitorExits

Worker(d) == WorkerCalls(d) \/ WorkerReturns(d) \/ WorkerExits(d)

\* Nothing left to do; every other state in which nothing can move is a
\* deadlock.
Finished == main \in {"done", "disabled"} /\ UNCHANGED vars

Next ==
  \/ MainInit \/ StopMonitor \/ MainShutdown \/ MonitorThread
  \/ \E d \in Devices : Worker(d)
  \/ Finished

\* Every thread is scheduled and its device calls return.  The quit signal
\* behind StopMonitor need not come.
Fairness ==
  /\ WF_vars(MainInit) /\ WF_vars(MainShutdown) /\ WF_vars(MonitorThread)
  /\ \A d \in Devices : WF_vars(Worker(d))

Spec     == Init /\ [][Next]_vars
FairSpec == Spec /\ Fairness

-----------------------------------------------------------------------------

MainPCs == {"devices", "poll", "calibrate", "calibrating", "retrack", "repoll",
            "loads", "start", "run", "stopWorkers", "joinMonitor",
            "joinWorkers", "done", "disabled"}

\* Whenever a poll is under way, on whichever thread, the index the monitor
\* knows a device by is the index of that device's worker: devices dropped by
\* calibration and workers released at shutdown never leave the callback
\* pointing at another worker or at none (manager.cc:80, :149).
MonitorReachesItsWorkers == at > 0 => tracked = workers

\* A device is in use by its worker's thread only while the manager still
\* holds it: the thread is joined before the device is destroyed.
NoCallOnDestroyedDevice ==
  \A d \in Devices : thread[d] = "call" => d \in ToSet(workers)

\* Init runs the kernel flat out on a device only if the last poll before
\* saw no one else on it (manager.cc:51-53).
NoDisturbanceAtStartup ==
  main = "calibrating" => quiet[workers[next]] > 0

\* Between polls, a worker started by the manager shares its device exactly
\* if the monitor's gate for it says so, even when Init had to set the
\* monitor up twice.
SharingFollowsGate ==
  main \in {"start", "run", "stopWorkers", "joinMonitor"} /\ at = 0 =>
    \A i \in 1 .. Len(workers) : sharing[workers[i]] = (left[i] > 0)

\* constants.h:81-86: a device comes back only once nobody else has been seen
\* on it for the whole resume time.
StaysSharedUntilQuiet ==
  main \in {"start", "run"} /\ at = 0 =>
    \A d \in ToSet(workers) : quiet[d] < ResumePolls => sharing[d]

\* Once asked to stop, the main thread gets past every join.
ShutsDown == main = "stopWorkers" ~> main = "done"

=============================================================================
