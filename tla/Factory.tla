------------------------------ MODULE Factory -------------------------------
(***************************************************************************)
(* gpu::CreateResourceManager (gpu/factory.cc): probing the backends for   *)
(* devices and keeping those `-gi` selects.  What a driver reports is      *)
(* chosen when it is probed: for CUDA, HIP and Metal a number of devices,  *)
(* for Level Zero and OpenCL a sequence of drivers (platforms), each with  *)
(* a sequence of devices.  Nothing reported stands for no driver, too.  A  *)
(* device is known by the identity of its GPU; Unknown is a GPU whose      *)
(* driver tells neither PCI address nor UUID, NoGpu a device of another    *)
(* type.                                                                   *)
(***************************************************************************)
EXTENDS Integers, Sequences, SequencesExt

CONSTANTS
  MaxDevices,       \* most devices CUDA, HIP and Metal report
  Platforms,        \* what Level Zero and OpenCL report
  SpirvAvailable    \* kBusyKernelSpirvAvailable

VARIABLES
  macos,      \* IS_MACOS
  manager,    \* "undecided", "none", or the backend the manager was made for
  probed,     \* the backends asked so far, in order
  devices     \* the vendor-local indices of the manager's devices

factoryVars == <<macos, manager, probed, devices>>

Init ==
  /\ macos \in BOOLEAN
  /\ manager = "undecided"
  /\ probed = <<>>
  /\ devices = {}

DeviceWanted(options, i) ==
  \/ options.gpuIndices = <<>>    \* GpuUseAllDevices()
  \/ Contains(options.gpuIndices, i)

\* The backends CreateResourceManager asks, until one has devices.
Candidates(options) ==
  CASE options.gpuVendor # "auto" -> <<options.gpuVendor>>
    [] options.gpuVendor = "auto" /\ macos -> <<"apple">>
    [] OTHER -> <<"nvidia", "amd", "intel", "opencl">>

Unknown == "unknown"
NoGpu   == "no gpu"

Gpus(platforms) == SelectSeq(FlattenSeq(platforms), LAMBDA device : device # NoGpu)

\* OpenClDevice::CollectGpuDevices: a GPU exposed before is left out.
LeftOut(gpu, out) == gpu = NoGpu \/ (gpu # Unknown /\ Contains(out, gpu))

CollectGpuDevices(platforms) ==
  FoldLeft(LAMBDA out, gpu : IF LeftOut(gpu, out) THEN out ELSE Append(out, gpu),
           <<>>, FlattenSeq(platforms))

Numbered == {[i \in 1 .. n |-> i] : n \in 0 .. MaxDevices}

\* The GPUs a backend may find, in the order of their indices.
EnumerateNvidia == Numbered
EnumerateAmd    == Numbered
EnumerateApple  == IF macos THEN Numbered ELSE {<<>>}
EnumerateIntel  == IF macos \/ ~SpirvAvailable THEN {<<>>} ELSE {Gpus(p) : p \in Platforms}
EnumerateOpenCl == IF macos THEN {<<>>} ELSE {CollectGpuDevices(p) : p \in Platforms}

Enumerate(vendor) ==
  CASE vendor = "nvidia" -> EnumerateNvidia
    [] vendor = "amd"    -> EnumerateAmd
    [] vendor = "apple"  -> EnumerateApple
    [] vendor = "intel"  -> EnumerateIntel
    [] vendor = "opencl" -> EnumerateOpenCl

\* Nothing is asked of a machine whose GPUs are to be left alone.
NothingAsked(options) ==
  /\ manager = "undecided"
  /\ options.gpuLoad <= 0 /\ options.gpuMemory <= 0
  /\ manager' = "none"
  /\ UNCHANGED <<macos, probed, devices>>

\* Mutation of Probe: it moves on while nothing is selected.
Probe_UntilSelected(options) ==
  /\ manager = "undecided"
  /\ options.gpuLoad > 0 \/ options.gpuMemory > 0
  /\ LET candidates == Candidates(options)
         vendor     == candidates[Len(probed) + 1]
     IN  \E gpus \in Enumerate(vendor) :
           /\ probed' = Append(probed, [vendor |-> vendor, gpus |-> gpus])
           /\ devices' = {i \in 0 .. Len(gpus) - 1 : DeviceWanted(options, i)}
           /\ manager' = IF devices' # {} THEN vendor
                         ELSE IF Len(probed) + 1 < Len(candidates) THEN "undecided"
                         ELSE "none"
  /\ UNCHANGED macos

\* The next backend is asked; with none left to ask or nothing selected
\* there is no manager.
Probe(options) ==
  /\ manager = "undecided"
  /\ options.gpuLoad > 0 \/ options.gpuMemory > 0
  /\ LET candidates == Candidates(options)
         vendor     == candidates[Len(probed) + 1]
     IN  \E gpus \in Enumerate(vendor) :
           /\ probed' = Append(probed, [vendor |-> vendor, gpus |-> gpus])
           /\ devices' = {i \in 0 .. Len(gpus) - 1 : DeviceWanted(options, i)}
           /\ manager' = IF devices' # {} THEN vendor
                         ELSE IF gpus = <<>> /\ Len(probed) + 1 < Len(candidates) THEN "undecided"
                         ELSE "none"
  /\ UNCHANGED macos

CreateResourceManager(options) == NothingAsked(options) \/ Probe(options)

\* An index of -gi never reaches another vendor's hardware: the devices are
\* those of the first backend that has any, or of the one that was named, and
\* among them just the ones selected (factory.cc:32-36, 286-288).  OpenCL has
\* no two devices for one GPU that more than one platform exposes
\* (opencl_device.cc:113-119), or that GPU would be loaded twice.
IndicesStayWithTheirVendor(options) ==
  /\ \A k \in 1 .. Len(probed) - 1 : probed[k].gpus = <<>>
  /\ manager \notin {"undecided", "none"} =>
       LET last == probed[Len(probed)]
       IN  /\ manager = last.vendor
           /\ options.gpuVendor \in {"auto", manager}
           /\ devices = {i \in 0 .. Len(last.gpus) - 1 : DeviceWanted(options, i)}
           /\ manager = "opencl" =>
                \A i, j \in devices :
                  last.gpus[i + 1] = last.gpus[j + 1] => i = j \/ last.gpus[i + 1] = Unknown

=============================================================================
