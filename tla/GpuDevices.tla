----------------------------- MODULE GpuDevices -----------------------------
(***************************************************************************)
(* From the command line to a GPU device and through its life: the options *)
(* are looked at, the factory picks a backend, and one of the devices it   *)
(* made is brought up and calibrated by the main thread, used by its       *)
(* worker and destroyed by the main thread.  Every driver call may fail.   *)
(* Meanwhile the main thread makes the contexts of other devices current.  *)
(***************************************************************************)
EXTENDS Options, GpuDriver

CONSTANTS
  MaxDevices,      \* most devices CUDA, HIP and Metal report
  Platforms,       \* what Level Zero and OpenCL report
  SpirvAvailable,
  BlockBytes,      \* size of a block
  MaxAlloc,        \* what OpenCL and Level Zero report as largest allocation
  SmallThreads,
  Loops,           \* loop counts of a launch
  Traffics,        \* traffic of a launch with a block
  MostWindows      \* windows a block can be split into

ASSUME DevicesAssumption ==
  /\ {BlockBytes, WordBytes, WindowMaxBytes, BytesPerAccess, GridThreads, SmallThreads, Capacity, MostWindows}
       \subseteq Nat \ {0}
  /\ MaxAlloc \cup Loops \cup Traffics \subseteq Nat
  /\ MaxDevices \in Nat /\ SpirvAvailable \in BOOLEAN
  /\ Platforms \subseteq Seq(Seq(STRING))

VARIABLES
  macos, manager, probed, devices,
  life,     \* of the device: "unmade", "made", "up", "steady", "unusable", "gone"
  block,    \* the block its worker asks for; 0: none
  loaded,   \* whether there is a load for its worker (-g)
  dev,      \* the device
  held      \* memory_held_ of the worker

factoryVars == <<macos, manager, probed, devices>>
deviceVars  == <<life, block, loaded, dev, held>>
vars        == <<optionVars, factoryVars, deviceVars>>

Factory == INSTANCE Factory
Nvidia  == INSTANCE NvidiaDevice
Amd     == INSTANCE AmdDevice
OpenCl  == INSTANCE OpenClDevice
Intel   == INSTANCE IntelDevice
Metal   == INSTANCE MetalDevice

Vendors == {"nvidia", "amd", "apple", "intel", "opencl"}

ContextBound == manager \in {"nvidia", "amd"}

InitOutcomes(d) ==
  CASE manager = "nvidia" -> Nvidia!Init(d, "main")
    [] manager = "amd"    -> Amd!InitAndTouch(d, "main")
    [] manager = "apple"  -> Metal!Init(d)
    [] manager = "intel"  -> Intel!Init(d)
    [] manager = "opencl" -> OpenCl!Init(d)

AllocateOutcomes(d, t) ==
  CASE manager = "nvidia" -> Nvidia!AllocateMemory(d, t, block)
    [] manager = "amd"    -> Amd!AllocateMemory(d, t, block)
    [] manager = "apple"  -> Metal!AllocateMemory(d, block)
    [] manager = "intel"  -> Intel!AllocateMemory(d, block)
    [] manager = "opencl" -> OpenCl!AllocateMemory(d, block)

ReleaseOutcomes(d, t) ==
  CASE manager = "nvidia" -> Nvidia!ReleaseMemory(d, t)
    [] manager = "amd"    -> Amd!ReleaseMemory(d, t)
    [] manager = "apple"  -> {Outcome(Metal!ReleaseMemory(d), TRUE)}
    [] manager = "intel"  -> {Outcome(Intel!ReleaseMemory(d), TRUE)}
    [] manager = "opencl" -> {Outcome(OpenCl!ReleaseMemory(d), TRUE)}

RunOutcomes(d, t, loops, traffic) ==
  CASE manager = "nvidia" -> Nvidia!RunKernel(d, t, loops, traffic)
    [] manager = "amd"    -> Amd!RunKernel(d, t, loops, traffic)
    [] manager = "apple"  -> Metal!RunKernel(d, loops, traffic)
    [] manager = "intel"  -> Intel!RunKernel(d, loops, traffic)
    [] manager = "opencl" -> OpenCl!RunKernel(d, loops, traffic)

Destroyed(d) ==
  CASE manager = "nvidia" -> Nvidia!Destroy(d, "main")
    [] manager = "amd"    -> Amd!Destroy(d, "main")
    [] manager = "apple"  -> Metal!Destroy(d)
    [] manager = "intel"  -> Intel!Destroy(d)
    [] manager = "opencl" -> OpenCl!Destroy(d)

KfdClient(d) ==
  CASE manager = "amd"    -> Amd!KfdClient(d)
    [] manager = "opencl" -> OpenCl!KfdClient(d)
    [] OTHER -> FALSE

-----------------------------------------------------------------------------

InitAll ==
  /\ Init
  /\ Factory!Init
  /\ life = "unmade" /\ block = 0 /\ loaded = FALSE /\ dev = NewDevice /\ held = FALSE

ReadOptions ==
  /\ ProcessCliArguments
  /\ UNCHANGED <<factoryVars, deviceVars>>

CreateManager ==
  /\ step = "ready" /\ life = "unmade"
  /\ Factory!CreateResourceManager(opts)
  /\ UNCHANGED <<optionVars, deviceVars>>

\* One of the manager's devices is followed from here on.  What led to it does
\* not matter to it any more and is forgotten, to keep the state space small.
MakeDevice ==
  /\ manager \in Vendors /\ life = "unmade"
  /\ life' = "made"
  /\ block' = IF opts.gpuMemory > 0 THEN BlockBytes ELSE 0
  /\ loaded' = (opts.gpuLoad > 0)
  /\ step' = "forgotten" /\ opts' = Defaults /\ given' = [load |-> FALSE, any |-> FALSE] /\ probed' = <<>>
  /\ devices' = {0} /\ cores' = Min(CoreCounts)
  /\ UNCHANGED <<macos, manager, dev, held>>

UseDevice == UNCHANGED <<optionVars, factoryVars, block, loaded>>

InitDevice ==
  /\ life = "made"
  /\ \E o \in InitOutcomes(dev) : dev' = o.dev /\ life' = IF o.ok THEN "up" ELSE "unusable"
  /\ UseDevice /\ UNCHANGED held

\* The main thread uses another device of its kind.
OtherDevice ==
  /\ ContextBound /\ life \in {"made", "up", "unusable", "steady"}
  /\ dev' = [dev EXCEPT !.current["main"] = "other"]
  /\ UseDevice /\ UNCHANGED <<life, held>>

StartWorker ==
  /\ life = "up" /\ life' = "steady"
  /\ UseDevice /\ UNCHANGED <<dev, held>>

\* A launch to calibrate moves no memory; until the worker is started the
\* main thread calibrates, then the worker.  With -gm alone neither does.
Calibrate(loops) ==
  /\ life \in {"up", "steady"} /\ loaded
  /\ \E o \in RunOutcomes(dev, IF life = "up" THEN "main" ELSE "worker", loops, 0) : dev' = o.dev
  /\ UseDevice /\ UNCHANGED <<life, held>>

AllocateMemory ==
  /\ life = "steady" /\ block > 0 /\ ~held
  /\ \E o \in AllocateOutcomes(dev, "worker") : dev' = o.dev /\ held' = o.ok
  /\ UseDevice /\ UNCHANGED life

ReleaseMemory ==
  /\ life = "steady" /\ held
  /\ held' = FALSE
  /\ \E o \in ReleaseOutcomes(dev, "worker") : dev' = o.dev
  /\ UseDevice /\ UNCHANGED life

\* A worker launches in the ticks in which its load leaves it a budget.
RunKernel(loops, traffic) ==
  /\ life = "steady" /\ loaded
  /\ \E o \in RunOutcomes(dev, "worker", loops, traffic) : dev' = o.dev
  /\ UseDevice /\ UNCHANGED <<life, held>>

DestroyDevice ==
  /\ life \in {"made", "up", "unusable", "steady"}
  /\ life' = "gone" /\ held' = FALSE
  /\ dev' = Destroyed(dev)
  /\ UseDevice

Next ==
  \/ ReadOptions \/ CreateManager \/ MakeDevice
  \/ InitDevice \/ OtherDevice \/ StartWorker
  \/ \E loops \in Loops : Calibrate(loops)
  \/ AllocateMemory \/ ReleaseMemory
  \/ \E loops \in Loops, traffic \in Traffics : RunKernel(loops, traffic)
  \/ DestroyDevice

Spec == InitAll /\ [][Next]_vars

\* A launch that asks for traffic moves the sweep on.
Sweep == held /\ held' /\ dev'.sweep # dev.sweep

\* A worker that has a load and holds its block, so does not share the device,
\* launches again and again (worker.cc:217-287; the points of a rand_normal
\* schedule average to the load), and the envelope never lets the traffic be
\* zero (constants.h:60).  Of a worker with -gm alone nothing is assumed.
FairSpec == Spec /\ (<>[](life = "steady" /\ held /\ loaded) => []<><<Sweep>>_vars)

-----------------------------------------------------------------------------

BlockMemory == FoldLeft(LAMBDA sum, c : sum + c.bytes, 0, dev.chunks)

Contract == INSTANCE GpuDeviceContract
  WITH Blocks  <- {0, BlockBytes},
       stage   <- IF life = "steady" THEN "up" ELSE life,
       mayLose <- life # "unmade" /\ ContextBound,
       objects <- dev.live # {},
       memory  <- IF ChunkIds(dev) \subseteq dev.mem THEN BlockMemory ELSE 0,
       lost    <- dev.mem \ ChunkIds(dev) # {}

\* Every backend keeps device.h's promises, whichever of its driver calls
\* fail: bring-up is rolled back, a block of several chunks is there as a
\* whole or not at all, and the destructor leaves nothing.
ImplementsContract == Contract!Spec

\* No backend loses or uses an object of the driver that is gone, and each
\* call that works on the current context works on the device's own, in
\* whatever thread it is made and whatever that thread did for other devices.
\* What a launch reads and writes of the block lies in a chunk that exists,
\* wherever the sweep was when the block was allocated anew (mem_sweep.h:12-18).
DriverUsedWell == dev.misuse = {}

\* Locator() owns up to an amdkfd queue only when there is one, or the monitor
\* would take another process's queue for ours (device.h:23-27).
OwnsUpToQueue == life \in {"up", "steady"} /\ KfdClient(dev) => "kfd" \in dev.live

\* -gi never reaches another vendor's hardware than it was meant for.
SelectsRightHardware == life = "unmade" => Factory!IndicesStayWithTheirVendor(opts)

\* The windows of the block a launch can use: those with a word per thread.
Usable(k) == k \in DOMAIN dev.sweep.windows /\ dev.sweep.windows[k].words >= dev.threads

SweptNow(k) == Usable(k) /\ dev.swept = <<dev.sweep.windows[k].segment, dev.sweep.windows[k].offset>>

\* The traffic of a worker with a load, which is the one that launches, reaches
\* every usable window of its block again and again, and does not stay in a
\* part of it (mem_sweep.h:35-39), however little traffic a launch asks for.
SweepsWholeBlock ==
  \A k \in 1 .. MostWindows :
    <>[](life = "steady" /\ held /\ loaded /\ Usable(k)) => []<>SweptNow(k)

=============================================================================
