---------------------------- MODULE MetalDevice -----------------------------
(***************************************************************************)
(* gpu::apple::AppleMetalDevice (gpu/apple/metal_device.mm).  Objects that *)
(* were not bridged out go by themselves when their method returns.        *)
(***************************************************************************)
EXTENDS GpuDriver

Retained == {"device", "queue", "library", "pipeline", "scratch"}

ReleaseMemory(d) == FreeBlock(d)

Destroy(d) ==
  Give(FreeBlock(d), Retained)

\* Every handle is retained at the end, once nothing can fail any more.
Init(d) ==
  {Outcome(d, FALSE), Outcome(Make(d, Retained), TRUE)}

AllocateMemory(d, bytes) ==
  IF ~({"device", "queue"} \subseteq d.handles) THEN {Outcome(d, FALSE)}
  ELSE IF bytes = 0 THEN {Outcome(ReleaseMemory(d), TRUE)}
  ELSE LET empty == FreeBlock(d)
       IN  {Outcome(empty, FALSE)} \cup
           (IF Room(empty) > 0 THEN {Outcome(Swept(AddChunks(empty, <<bytes>>)), TRUE)} ELSE {})

RunKernel(d, loops, traffic) ==
  IF ~({"queue", "pipeline", "scratch"} \subseteq d.handles) THEN {Outcome(d, FALSE)}
  ELSE LET p == Plan(d, loops, traffic)
           l == Launch(p.dev, {"queue", "pipeline", "scratch"}, p.args)
       IN  {Outcome(d, FALSE), Outcome(l, FALSE), Outcome(l, TRUE)}

=============================================================================
