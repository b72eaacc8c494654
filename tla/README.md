# A verification of loadmaster

loadmaster keeps a machine busy by a chosen amount: it burns CPU time, holds
memory, and runs a kernel on GPUs, beside whatever else the machine does and
making room for it. This directory holds TLA+ models of the parts of it in
which several threads, signals and failures meet, the TLC configurations that
check them, and proofs, checked by TLAPS, of what matters most.

Paths in this file and in the modules are relative to the repository's `src/`.

## The system

| Part | Where | State it keeps | Operations | Talks to |
|---|---|---|---|---|
| Runtime | `core/runtime.cc`, `main.cc` | the managers, `running_flag_` | Init, CreateWorkers, MainLoop, StopWorkers, JoinWorkers | every manager, by virtual calls on the main thread |
| Signal latch | `core/signal_flag.h`, `util/atomic_bitmap.h` | one bit per signal | Set (signal handler), Has, Reset (main loop) | runtime |
| Memory manager | `memory/` | the block, a one-shot thread, `bg_alloc_done_` | Schedule, AllocateBlock, Fill, destructor | its own background thread, through an unlocked allocator |
| GPU manager | `gpu/manager.cc` | devices, workers, the monitor | Init, CalibrateWorkers, InitContentionMonitor, start/stop/join | workers, monitor; the monitor calls back into it |
| GPU worker | `gpu/worker.cc` | calibration, failures, the `-gm` block | Loop, SyncMemory, CalibrateBaseLoopCount, SetOthers, SetLoadSet | one device; two relaxed atomics from the other threads |
| Contention monitor | `gpu/contention/monitor.cc` | gates, last reports, counts of blind polls | Poll, Start, Loop | sources; workers, through a callback by index |
| Sharing gate | `ShareGate` there | a monotone deque of sightings | Update | monitor |
| Contention sources | `gpu/contention/*_source.cc` | handle caches, the readings of the last poll | Sample | drivers, `/proc`, sysfs, performance counters |
| Device backends | `gpu/{nvidia,amd,intel,opencl,apple}/` | driver handles, the block's chunks | Init, RunKernel, AllocateMemory, ReleaseMemory | drivers |
| Memory sweep, traffic | `gpu/mem_sweep.cc`, `mem_traffic.cc` | windows, a cursor, carried-over bytes | Reset, Next | backends, worker |
| CPU manager | `cpu/manager*.cc`, `load_controller.cc`, `util/rolling_sampler.h`, `util/proc_stat.cc` | baselines, ring buffers, the integral | Schedule, AdjustWorkerLoad, the split of a load | workers |
| CPU worker | `cpu/worker.cc` | budget, loop count | Loop | one relaxed atomic |
| Options, CLI | `core/options.cc`, `cli/` | the options | ProcessCliArguments: twelve checks in order | main |
| Factories | `gpu/factory.cc`, `cpu/factory.cc` | none after start-up | probing of backends, choice of a manager | main, drivers |
| rand_normal points | `util/normal_schedule.cc` | none | BuildNormalSchedulePoints | CPU and GPU managers |
| Logging, `dlopen`, obfuscation | `util/` | | pure I/O and tables | everyone |

What makes the system hard is not volume but the seams:

- the main thread, a monitor thread, one thread per GPU, one per CPU worker and
  a one-shot memory thread, with relaxed atomics and joins between them and no
  locks; a signal handler on top;
- lists that are shortened while others hold indices into them (devices that
  fail calibration, managers that fail `Init()`, workers cleared at shutdown);
- decisions taken on a value read earlier in the same tick;
- failures that must be remembered for a while, and no longer;
- hysteresis and counts over polls that come at irregular times.

`PROJECT.json` lists every component, every hazard at its line with the
properties that would show it going wrong, and the source lines behind every
definition.

## The modules

| Module | Models | Notes |
|---|---|---|
| `ShareHysteresis` | what `ShareGate` promises | abstract: a set of sightings and their maximum |
| `ShareDeque` | the deque of `ShareGate` | operators only, used by two modules |
| `ShareGate` | `ShareGate::Update` at any times | refines `ShareHysteresis` |
| `Observations` | `Observation` and the merge of two | operators only, used by `Monitor` and `Sources` |
| `Monitor` | `Monitor::Poll`, `Start`, `Loop` | one step per source and per device; uses `ShareDeque` |
| `GpuUsers` | the processes on a GPU, their clients, and what drivers tell of them | external, as the sources use it |
| `NvmlSource`, `KfdSource`, `DrmSource`, `PdhSource`, `IoRegSource` | `Sample` of each source | operators from a state to its possible outcomes |
| `Sources` | a whole poll over the sources of a platform | composes the five; processes come and go between any two readings |
| `GpuWorker` | `GpuWorkerContext` | one step per access to shared state in `Loop()` |
| `GpuManager` | `GpuResourceManager` with its threads | monitor and workers as far as the manager can tell them apart |
| `Options` | `ProcessCliArguments` with every check | over any values |
| `Factory` | the five enumerations, the order of the probes, the choice of a manager | over any platforms |
| `MemSweep` | `MemSweep::Reset` and `Next` | operators only |
| `GpuDriver` | what a vendor driver holds for a device | external; records every misuse |
| `NvidiaDevice`, `AmdDevice`, `IntelDevice`, `OpenClDevice`, `MetalDevice` | the backends | operators from a device to the possible outcomes of a call |
| `GpuDevices` | command line, factory, and one device through its life | composes the nine above; refines `GpuDeviceContract` |
| `GpuDeviceContract` | what `gpu/device.h` promises the worker | abstract: sizes and "exists or not" |
| `MemoryManager` | `MemoryResourceManagerDefault`, `Allocator` | one step per chunk of `Fill` |
| `Runtime` | `core::Runtime`, `SignalFlag`, the signal handler | managers as `resource_manager.h` describes them |
| `CpuManager` | `CpuResourceManager`, `LoadController`, `ProcStat` | closed over the machine they measure |
| `NormalSchedule` | `BuildNormalSchedulePoints` | operators only, in exact fractions |
| `NormalWalk` | the walk over those points | part of `CpuManager`; a GPU's walk is the same |
| `RollingSampler` | the ring of samples | operators only |
| `TickGrid` | the clock `MainLoop` paces itself by, `NextSchedulingTime` | extended by `Runtime`; time as integers |
| `...Proofs` | | theorems about the module they extend |
| `MC...` | | constants a `.cfg` cannot write, for TLC |

A step of a model is a stretch of code between two accesses to state another
thread can touch, or between two calls that may fail. `pc`, `main`, `thread`
or `bg` say where a thread is. Variables marked *history* are not in the code;
they record what a property compares with, and no action is guarded by them.
Definitions named `Operator_Something` before an operator are mutations of it,
one plausible bug each; no specification uses them, and with any of them in
place of its operator a property listed beside it in `PROJECT.json` fails.

How they fit together. `GpuManager` is the composition: the main thread, the
monitor thread and the worker threads interleave in it, with a poll reduced to
"seen or not", a gate to a count of polls, and a device call to one
uninterruptible step. `Monitor` and `GpuWorker` are those threads in full,
each against the freest environment its callers allow: the monitor's sources
say anything `source.h` permits, the worker's monitor, manager, stop request
and device do anything at any step. `Monitor` uses the very deque operators
`ShareGate` proves correct, and `Sources` the very merge that `Monitor` uses:
there, what a source reports is not free but follows from the processes on the
device. `GpuDevices` is what stands between the command line and the worker: a
call the worker makes is one step, with every driver call in it free to fail.
`Runtime` is one level up: a manager is a list entry with or without a thread;
`MemoryManager` and `GpuManager` are two such managers in full, `CpuManager` a
third with its threads reduced to what they burn.

`CpuManager` is a control loop, and modelled as one: `Work` lets time pass, in
which others take what they take and the workers burn their budgets less a
shortfall; one of `FailedRead`, `FirstRead` and `GoodRead` is the `Schedule()`
that follows. A counter is its distance from the baseline it is read against, a
baseline's time is its age, and a `double` is an integer number of parts of
1/`Scale` percent.

`GpuDevices` and its backends are written as sets of outcomes. A call of a
backend takes a device and returns the pairs of a device and a result it may
end with; a driver call that can fail has two, and what the code does after a
failure is done to the second. The driver notes in `misuse` what must never
happen to it (an object used after it was given back or lost track of, a
context that is not the device's own, a launch outside the block), so that one
invariant covers all five backends.

`Sources` has its own clock. A world is the set of clients there are, their
kinds and the engine time they have used; a reading of it is what a source
remembers. A client is one opening of the device by a process; which clients
belong to one process is part of the host (`proc`). DRM's stats have a row per
client, with a threshold of its own, the other sources one per process, which
sums over its clients. Clients come and go between any two steps, pids are used
again, and time passes between polls and while `DrmSource` waits to read
newcomers again.

## What is checked

| Run | Question | Distinct states |
|---|---|---|
| `share_gate` | does the deque keep what matters and implement the hysteresis, at any poll times? | 7,910 |
| `gpu_worker` | what does a worker do when everything around it changes within a tick? | 68,808 |
| `monitor` | do merge, gate and report lose nothing, with sources that see anything? | 238,861 |
| `sources` | who is called a user of the GPU and what is measured, on 22 kinds of hosts? | 3,310,835 |
| `gpu_devices` | from the command line to the driver, with every call free to fail | 54,760 |
| `gpu_manager` | start-up, drop-outs and shutdown with all threads interleaved | 20,020 |
| `memory_manager` | two threads, one allocator, no lock | 788 |
| `runtime` | signals between any two steps of the whole lifecycle, and the pace of its rounds | 286,266 |
| `cpu_manager` | does the load settle on the target, through failed reads and late ticks? | 211,408 |
| `gpu_manager_retrack`, `sources_own_time`, `sources_clients` | three statements of the repository the code does not keep | |

The properties, each stated in words where it is defined:

- **Sharing a GPU.** `ImplementsHysteresis`: the deque is one way to keep a
  set of sightings. `LeavesLargestRecentShare`: the value that reaches the
  worker is the largest share of the resume time, and exactly that.
  `LeavesOthersTheirShare`: a launch respects it, however stale the tick's
  copy. `NoBlockBesideOthers`, `GivesBlockBack`: the block goes back within
  the tick that sees someone. `AloneSettles`, `ComesBack`: everything returns
  when they leave. `MergeLosesNothing`: of what the sources heard in a poll
  said, the merge loses nothing, in whatever order they come.
- **Seeing others.** `BusyMeansOthers`: neither our own context under another
  pid, nor a pid used again, nor a compositor is taken for a user.
  `NoUserOverlooked`: a client that has worked above the threshold since the
  source's last reading is seen. It speaks of clients, not of processes, since
  DRM's threshold is each client's own (`ProcessesAreSeen`, below, is what the
  documentation has and the code does not keep). It exempts an NVIDIA device
  that no source can look into: where NVML is missing, or where it once failed
  to say which driver model the device uses and the poll has taken it for WDDM
  since. `MeasuresTheOthers`: the figure is at least what they took.
  `KnowsUnlessItFails`: a poll without a failed call, also after a failed one
  in an earlier poll, tells busy or idle of every device that a source of the
  run covers, and leaves every other unknown. Covered (`Covers`) is a device
  with a PCI locator or registry id that NVML, amdkfd, DRM or the IO registry
  lists, and any device of a Windows where the GPU Engine counters could be
  read at start-up. A device without a locator (`device.h:10-13`) and NVIDIA's
  on a Linux without NVML stay unknown, as do Windows' devices for the whole
  run after that one failed read (`pdh_source.cc:34-39`), unless NVML covers
  them.
- **Devices.** `AcceptedIsPossible`: what the options let through can be done.
  `SelectsRightHardware`: an index given with `-gi` never reaches hardware it
  was not meant for. `DriverUsedWell`, `ImplementsContract`: roll-back,
  contexts per thread, chunks and destruction. `OwnsUpToQueue`: a device says
  it has a kernel queue only when it does. `SweepsWholeBlock`: the traffic
  reaches every window again and again.
- **Failures.** `GivenUpAfterFailuresInARow`; `WarnsAtMostOnce`;
  `SchedulesOncePerCell`: a round schedules what came up and nothing that
  failed, at most once in each cell of the main loop's grid; `OwnsItsBlock`
  and `KeepsChanging` through failed allocations; `NoDisturbanceAtStartup`.
- **Threads.** `SoleOwner`, `TickNeverWaitsForFill`, `CommittedWhenDone`;
  `MonitorReachesItsWorkers`, `NoCallOnDestroyedDevice`, `SharingFollowsGate`;
  `NoThreadSurvives`.
- **Load.** `SamplesMatchTheLoad`: each sample is a load there was in the time
  it stands for, whatever reads failed. `SettlesOnTarget`: undisturbed, the
  closed loop ends up on the target, with workers that lack a part of their
  budgets and a view of the own load that lags behind the system's.
  `PeriodKeepsAverage`: a rand_normal period uses each point once, none beyond
  the workers, and a whole one adds up to exactly the load asked for. That the
  points average to it, with and without a cap, TLC also evaluates by itself
  over 6,144 inputs (`PointsKeepAverage` of `MCCpuManager`).
- **Stopping.** `NoQuitLost`, `QuitsWithinTwoRounds`, `QuitEnds`, `ShutsDown`,
  `StopsWhenAsked`; the runs of `Runtime`, `GpuManager`, `MemoryManager` and
  `Sources` check for deadlock, so a join nobody satisfies is an error.

### Bounds

- `ShareGate`: resume time 3, clock 9, three shares. Three whole windows let a
  sighting cover several earlier ones, expire in front of a smaller later one,
  and the deque drain. The proofs need no bound.
- `Monitor`: one device, two sources. A device's slots are independent of
  another's in `Poll`; what differs between devices is only the index, which
  `GpuManager` has. Two sources are what an order between sources needs. Times
  are relative to the last poll, so there is no bound on the clock; gaps of 1
  and 2 in a window of 3 make a sighting expire after two or three polls. The
  count of blind polls stops one above the limit (the code's `int` would take
  136 years to overflow).
- `GpuWorker`: loads 0 and 80, shares 0, 50 and 120: no load; something,
  everything and nothing left; a share to be clamped. Two failures in a row
  give a device up (50 in the code); `outcomes` keeps as many.
- `GpuManager`: two devices, the least for which one can be dropped and leave
  the other at a new index. A device comes back after two quiet polls.
- `MemoryManager`: an inline block of one chunk, a background block of three;
  half-second ticks that may be a second late; an interval of two seconds.
- `Runtime`: the three managers of `main()`, each of which may be absent or
  fail; three signals, two of which quit. `MaxRounds = 3` tells the two rounds
  allowed after a quit from a third. Periods of 3 and a clock that runs to 7
  (`TickGrid`): a start at every offset within a period, and rounds or sleeps
  that last over two more boundaries. The clock is counted from the boundary
  before a round's start, so there is no bound on the number of rounds.
- `CpuManager`: cores of two percent, windows and intervals of two ticks, a
  gain of 1/4: the smallest numbers with a warm-up, a wrap, a throttled read
  and a remainder. `Scale = 24` makes every division in this instance exact.
  Targets below what others take, within reach, and (with `-c 1`) beyond the
  workers. No more than two disturbances (a change of the others' load, a late
  tick, a failed read) in a behaviour, `MaxDisturbances`: they may come at any
  time, also one in the aftermath of the other, and the schedule goes on for
  ever. No baseline gets older than three ticks (`MaxAge`). Two points of mass
  1 and 2 and averages of 1 and 3 make the schedules `<<1, 1>>` (by rounding)
  and `<<2, 4>>`.
- `Sources`: one device (a device's part of a poll is independent of
  another's) and two other clients, `Others`, of two processes or of one: one
  more than it takes for a pid to be used again while another is there, and as
  many as a process needs to have several. They are interchangeable, so
  symmetry is sound. An engine can be busy for two parts (`Full`) of a unit of
  time and a client uses none or one of them, `Work`, so that a reading is 0,
  50 or, over two clients, 100 percent and the threshold lies at 50. At most
  two units (`MaxGap`) between two readings of a source, so that a burst can
  be hidden in an average. The 22 hosts of `MCSources` are chosen to meet each
  case of operating system, vendor and driver feature that the sources treat
  differently: among them NVIDIA hardware without NVML, a Radeon without
  amdkfd, Windows without GPU Engine counters, devices without a locator on
  each system, and hosts on which both clients are one process's. A host never
  changes: what was there when the sources were made stays so. Clock and
  engine times are counted from each poll's end, which keeps the state space
  finite without a bound on the number of polls.
- `GpuDevices`: numbers on both sides of every limit of the options, on one and
  two cores; one device is followed from then on. A block of 16 words is one
  chunk of windows of 6, 6 and 4 words, or (where the driver limits an
  allocation) chunks of 7, 7 and 2 with windows of 6, 1, 6, 1 and 2, of which
  launches of two threads skip the short ones. The memory has room for one block
  of three chunks and one chunk more, so that an allocation can fail in the
  middle and a chunk that is lost is missed. Traffics of nothing, of less than a
  word per thread and of more than a launch can move.

### Fairness

Only threads that the code leaves runnable are fair, and device calls, sources
and joined threads are assumed to return. Signals, loads, other processes and
the health of a device are never fair: nothing is assumed to happen. In
`GpuManager` the shutdown is fair once begun, but the stop that begins it is
not; in `Runtime` a manager's thread is only assumed to end once it was asked
to; time passes while `Runtime`'s main loop sleeps; in `MemoryManager` ticks
keep coming because the main loop has nothing else to wait for, and for the
same reason `CpuManager` alternates between sleeping and scheduling. Liveness
properties that speak of a device or a process state their own condition
(`AloneSettles`: "if it is left alone from some time on"). In `GpuDevices` a
worker that has a load (`-g`) and holds its block goes on launching, and its
envelope never gives zero traffic (`gpu/constants.h:60`): fairness of a launch
that moves the sweep on, stated in `FairSpec` with its condition written out.
A worker with `-gm` alone holds its block and never launches
(`gpu/worker.cc:225`, `:238`): the model has it, and assumes and promises
nothing of its traffic. `Sources` states no fairness, and `GpuDevices` none of
any driver call.

### Abstract specifications

Two modules say what a component promises. TLC checks that the detailed one
implements it, on small instances, and TLAPS that it does for all:

- `ShareHysteresis` keeps every sighting that still counts and their maximum.
  `ShareGate` maps its clock, its polls and the level of its deque to it.
- `GpuDeviceContract` has a block that is there as a whole or not at all, as the
  last call said, no object of a device that failed to come up, and nothing
  after the destructor. `GpuDevices` maps the chunks and objects that exist in
  the driver to it, whichever backend is in use. A backend bound to a context
  may lose track of memory while it cannot make that context current, and then
  until the device goes (`mayLose`); the other three may not.

### Where code and documentation differ

Three have a run of their own:

1. `gpu/constants.h:81-86` promises that a job that pauses briefly keeps its
   device. When another device fails calibration, the monitor is set up again
   and forgets the first poll's sightings; the pausing job's device is taken at
   once (`gpu_manager_retrack`). `SharingFollowsGate` shows that worker and
   monitor at least agree afterwards.
2. `README.md:117` and `gpu/contention/source.h:21` have the busy time of a DRM
   device count loadmaster's own clients, or `gpu_busy_percent` stand in where a
   client has no usage stats. Our own client on a Radeon used through HIP has
   none, and is not counted among those without (`drm_source.cc:139`): the sum
   is the others' alone (`sources_own_time`), and the monitor then subtracts our
   own share from it. `MeasuresTheOthers` shows what holds all the same.
3. `README.md:117` has the DRM source count a process that keeps the device's
   engines busy for 5% or more. Its threshold is applied to each client, keyed
   by pid and drm-client-id (`drm_source.cc:87`, `:144-148`): a process that
   does as much from two contexts, each below the threshold, is overlooked
   (`sources_clients`). `NoUserOverlooked` shows what holds of each client.
   The GPU Engine counters and the IO registry sum over a process first.

Others were seen while modelling, and the models follow the code:

4. `core/runtime.h:33-35` says `Run()` returns when every worker thread has
   been joined. The memory manager's `JoinWorkerThreads()` does nothing, its
   thread is joined by the destructor. `NoThreadSurvives` shows that nothing
   outlives `main()`'s block.
5. `README.md:92` has the memory change every 45 seconds. The elapsed time is
   truncated to seconds and compared with `>`: every 46 (`MemoryManager`,
   `WillSchedule`).
6. `gpu/contention/sources.cc:45-46` says that on BSD the monitor warns once per
   device. Without a source its thread is never started (`monitor.cc:125`), so
   it polls once, and the warning takes three polls.
7. `gpu/mem_sweep.h:47-49` says that carrying over what a launch cannot move
   keeps the long-run rate exact. What is left beyond one access per thread is
   dropped (`mem_sweep.cc:65-67`, as the comment there says): a launch of few
   iterations that is asked for much moves less (`Carried`).

## What is proved

TLAPS checks the following for every value of the constants that satisfies the
named assumptions in the modules, without bounds on clocks, sizes or counts
beyond those the code has.

- **`MonitorProofs`**, first the gate, at any times. The inductive invariant
  `GateInv` says that the deque is in order, that what is in it still counts
  (`SeenRecent`), and that every sighting that still counts is covered by one
  in it that is as large and lasts as long (`Covered`). Order alone is not
  inductive together with the level: `Covered` is what makes dropping
  harmless. Lemmas about the two drops (what remains is a suffix, or a prefix,
  with the stated property) carry the step; from the invariant follow that the
  level is never too low (`LevelNeverTooLow`), falls only when it may
  (`LevelFallsOnlyWhenQuiet`), and that every step maps to a step of
  `ShareHysteresis` or to a stutter (`GateImplementsHysteresis`). Then the
  monitor, for any devices, sources and measurements. What is merged is the
  largest of what was heard (`MergedIsLargest`) whatever the order:
  `OrderDoesNotMatter`. The count of blind polls stands at its limit exactly
  once the warning is out: `OneWarning`. The same lemmas about the drops, for
  a gate per device whose times are shifted with every poll, give `GatesInv`,
  and with what a poll is about to report (`WorkersLeaveLargestRecent`) that a
  worker is told exactly the largest share of the resume time.
- **`SourcesProofs`**, for any number of other processes and clients of them,
  whatever they do, on any kind of host (`HostsAssumption`,
  `OthersAssumption`, `WorkAssumption`) and for drivers that tell percentages
  (`ReadingsAssumption`). `IInv` has the types (`WorldOK`, `MemoryOK`) and the
  turns of a poll (`PollOK`); `AroundInv` keeps who was there at some time of
  the poll, `VerdictInv` what the verdict so far rests on. The rest relates
  what a source remembers to what the processes did since: baselines are never
  from the future (`ClockInv`), and whoever has worked in every unit of time
  since the last reading has used at least that much more than the baseline
  says (`Since`, in `DrmInv`, `PdhInv` and `IoRegInv`; `RescanInv` for the two
  halves of a DRM poll). `floor` and `asked`, histories of the least a process
  worked in a unit of time, are what `Since` compares with. A pid that is used
  again must not find the baseline of the process before it. From the
  invariant follow `BusyMeansOthersHolds`, `NoUserIsOverlooked` (what a source
  looks at at all is `SeenIsCovered`) and `VerdictUnlessItFails`, for devices
  with and without a locator and runs with and without the counters. The
  measure has `MeasureInv`, inductive relative to `IInv`: the measure of a
  poll is a percentage, only a device found busy has one, and it is at least
  what the others took. A figure summed over processes is capped at 100, and
  who has come or gone between two readings is in it or not; each process that
  counts has at least its own part in the sum (`TotalAtMost`), which is all
  that `MeasuresTheOthersHolds` needs.
- **`GpuDevicesProofs`**, for any numbers, machines, sizes, limits and
  platforms, with any driver call failing. `OptionsInv` follows the twelve
  checks in their order and gives `AcceptedOptionsArePossible`; `FactoryInv`
  says that every backend probed before the last one had no device and that
  the manager is the last one's, and gives `IndicesSelectOneVendorsHardware`.
  `LifeInv` says in which part of its life a device has what: nothing before
  `Init()` and after one that failed (`Fresh`, `Down`), its objects and a
  sweep over its block while it is up (`Up`). It gives `DriversAreUsedWell`
  and `QueueOwnedUpToExists`. That a launch stays in the block needs that the
  sweep lies over it (`SweepOver`) through `Reset` and `Next`: no window
  leaves its chunk (`SegmentWindowsIn`), and a launch takes one with a word
  for every thread (`TakeSweep`). `MemoryInv` adds what memory exists for the
  block: chunks the backend knows of, whose sizes add up to the block
  (`WholeBlockMade`), and others (`Astray`) only for a backend bound to a
  context. With it every step maps to a step of `GpuDeviceContract` or to a
  stutter: `BackendsKeepTheContract`. One lemma per call and backend says what
  its outcomes are (`ComesUp`, `StaysUp`, `KeepsBlock`, `Allocates`,
  `Releases`). The five backends are instances of the same driver;
  `NvidiaDriver` and its like prove that an instance's operators are those of
  `GpuDriver`, `AmdIsCuda` that HIP's calls are CUDA's.
- **`GpuWorkerProofs`**. `IInv` adds to the properties that the tick's copy of
  the others' share and the load it starts from lie between what they were at
  the tick's start and what they are now (`TickInBounds`), and that the
  failures counted are the latest launches (`FailuresAreLatest`). From it
  `OthersKeepTheirShare`, `BlockYields`, `GaveUpFreesBlock`,
  `GivesUpForReason`, `LaunchesCalibrated`.
- **`MemoryManagerProofs`**. `IInv` adds `Handover`: which thread holds the
  allocator in each control state and in what state it changes hands. From it
  `OneUserAtATime`, `BlockAccountedFor`, `FillsAreComplete`, `TicksDoNotWait`.
- **`CpuManagerProofs`**, for any machine, positive masses, shuffles and
  paces. `PointsKeepTheAverage` is about what a schedule is built from: the
  points add up to the load asked for, or lie at the cap when that is less,
  none is beyond the cap, and a bin with more mass has no smaller a point.
  Without a cap it is the method of largest remainders (`LargestRemainders`):
  the floors fall short of the sum by less than one each, so there is a point
  for every unit missing. With one it is the water-filling: no round clips
  more than there is left to share out (`ClipLeavesEnough`), and the largest
  go first (`ClipsLargestFirst`); after as many rounds as there are points
  nothing is left to clip (`AtCapIsSettled`). `PeriodInv` says that the points
  of the walk add up to the load, which a shuffle leaves as it is, and that
  what a period has used is what the order has before `point_idx_`
  (`UsedInOrder`); from it `PeriodsKeepTheAverage`. `ControlInv` adds that a
  busy time and the time it was collected in belong together (`Measured`: it
  lies between the least and the greatest load of that time) and that a ring's
  running sum is that of its samples (`SamplerOK`). From it
  `ControllerKeepsItsBounds` (budgets fit the scheduling period, the integral
  never winds up beyond the capacity) and `SamplesAreOfTheirTime`, with late
  ticks and failed reads. `DemandIsPossible` and `SplitIsFair` are about
  operators: the demand lies within the capacity, and its split loses nothing
  and overloads nobody.
- **`RuntimeProofs`**, for any list of managers, of handlers and of quit
  signals. `QuitAhead` is the heart of it: a quit signal that a round passed
  over stands at a handler still to be visited before the next begins. With
  where each signal is on its way through `DealSignals` (`HandlersInOrder`)
  and which managers have been through `Init()` (`UpSoFar`), it gives
  `QuitsAreLatched`, `QuitsSoon` and `RoundsReachAllUp`; from `ThreadsHeld`
  (threads belong to managers not destroyed) follows `AllThreadsJoined`. The
  same theorem has the pace of the rounds: `Paced` says that the loop wakes in
  a later cell of the grid than the last round's, and rests on `NextBoundary`,
  that `NextSchedulingTime` is the first boundary after the time it is given,
  for any interval.
- **`GpuManagerProofs`**, for any number of devices, any of which may be
  dropped. `Tracks` says which devices the monitor knows in which phase and
  who may be polling then: `IndicesStayValid` is a part of it. `Shares` (a
  worker shares exactly if its gate says so, also in the middle of a poll)
  gives `GatesReachWorkers`; `Sightings` and `UndisturbedAlone` carry what the
  first poll saw to the calibration, `CalibratesAlone`; `ThreadsHeld` gives
  `DevicesOutliveThreads`.

Sequences and sums. The library's induction theorems take an operator, which
no installed prover can instantiate. What a fold over a sequence computes is
proved all the same in `GpuDevicesProofs`, through sets in place of operators:
`UpTo` says that a set which contains 0, and with each number its successor,
contains them all, and follows from the least number outside it (`WFMin`). The
concatenations that lay out a sweep and list a platform's devices, and the sum
of a block's chunks (`BytesAddUp`), rest on it; each such lemma is about one
fold. `SourcesProofs` and `CpuManagerProofs` do the same for sums over finite
sets (`SubsetInduction`: what holds of the empty set, and of a set where it
holds of those with an element less, holds of every finite set): `FoldIsTotal`
says that the fold of the community modules is such a sum, and `TotalWithout`
takes one summand out of it.

The assumptions are those a reader would expect (a resume time is positive,
shares are natural numbers, loads lie within a period); TLC evaluates them on
every run.

Model-checked only are the liveness properties (`StopsWhenAsked`,
`GivesBlockBack`, `AloneSettles`, `ComesBack`, `KeepsChanging`,
`SweepsWholeBlock`, `QuitEnds`, `ShutsDown`, `SettlesOnTarget`) and the
absence of deadlock: fairness and `ENABLED` are out of the prover's reach.
Every safety property of a run that is expected to pass is a theorem. The
three runs that are expected to find a violation refute theirs.

## What is not modelled

- **Numbers that only tune.** Loop-count extrapolation, drift correction, the
  fit of the memory cost, the traffic's random walk, the search for a loop
  count and the bisection behind the normal distribution (`gpu/worker.cc`,
  `gpu/mem_traffic.cc`, `cpu/worker.cc`, `cpu/manager.cc:95-134`,
  `util/normal_dist.cc`) work on doubles or timings and change how long a
  launch takes or what shape a schedule has, not what happens next. A launch
  takes any loop count and traffic, a schedule any masses.
- **Real time in the worker.** A launch, a calibration and an allocation are
  one step each; the share others take meanwhile may change right after. The
  monitor's accounting of our own share against theirs is free in `Monitor`.
- **Several devices in one poll of `Sources`.** `kfd`, `nvml` and `drm` look at
  one device after the other with nothing shared but caches by device; the
  GPU Engine counters, which match by LUID and fall back to any adapter, are
  modelled for one adapter.
- **What the operating system may do to `Sources`.** `/proc` is readable (for
  other users' processes the README asks for root), the compositor of macOS
  keeps its pid, a drm-client-id is not given again, no two processes share a
  client (a file descriptor passed on), and a source is not without a
  reading for longer than `MaxGap`. A poll in which NVML fails and the counters
  of Windows see no one ends idle, and is exempt as one with a failed call.
- **A CPU worker that overshoots its budget** by its last loop
  (`cpu/worker.cc:100-103`), or takes up a new budget only with its own next
  period: `SettlesOnTarget` is checked with workers that take budgets at once
  and fall short of them.
- **Rounding of doubles.** A running sum of doubles drifts by rounding; the
  model's sums are exact, and ties between equal remainders of rand_normal
  points, which doubles break either way, go to the first. A busy counter that
  falls is excluded by `cpu/stat.h:17`.
- **Splitting the command line** (`cli/cli.cc`), parsing of `/proc`, sysfs and
  counter names (`gpu/contention/parse.cc`, `cpu/stat_*.cc`), logging, `dlopen`,
  the tables of driver symbols and obfuscation: text and tables without state. A
  parser is modelled by what it yields, "refused" included.
- **Tests, scripts and build files** are read as statements of intent.

## Plan

Done, in this order: the gate and its abstraction, the worker, the monitor,
the GPU manager, the memory manager, the runtime with the main loop's pace,
the CPU manager; the command line, the factory, the five backends and the
sweep against the contract of a device; the sources of every platform; the
rand_normal points; proofs for gate, worker, memory manager, pace, CPU
schedule, runtime, GPU manager and monitor, for the sources' verdicts per
client, and for options, factory and backends up to the contract of a device;
then for the sources' measure, the CPU measurements, and the rand_normal
points under any cap.

What would come next, most useful first:

1. A timed composition of worker and monitor for the own share, and the
   calibration loop in steps: the two hazards in `PROJECT.json` that need
   launches with a length.
2. Several devices and adapters in one poll of `Sources`.

## Running it

    tlc -config GpuWorker.cfg GpuWorker.tla
    tlc -config MCSources.cfg MCSources.tla
    tlapm GpuWorkerProofs.tla

and likewise for the others (`GpuDevicesProofs` takes a quarter of an hour);
`PROJECT.json` lists run, module and configuration.
