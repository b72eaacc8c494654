----------------------------- MODULE AmdDevice ------------------------------
(***************************************************************************)
(* gpu::amd::AmdDevice (gpu/amd/amd_device.cc).  HIP has CUDA's contexts   *)
(* and the backend is written after the CUDA one; its own are the kernel   *)
(* compiled at run time and the amdkfd queue.                              *)
(***************************************************************************)
EXTENDS GpuDriver

Cuda == INSTANCE NvidiaDevice

Destroy(d, t) == Cuda!Destroy(d, t)

\* The hipRTC program is destroyed on every path once it was created.
CompileKernel(d) ==
  LET created == Make(d, {"program"})
      gone    == Give(created, {"program"})
  IN  {Outcome(d, FALSE), Outcome(gone, FALSE), Outcome(gone, TRUE)}

\* Mutation of Touch: queue_created_ is set whatever hipMemset returns.
Touch_Presumed(d) == {Outcome(Make(d, {"kfd"}), TRUE), Outcome([d EXCEPT !.handles = @ \cup {"kfd"}], TRUE)}

\* hipMemset makes the runtime create its queue; queue_created_ remembers
\* that it succeeded.  One that failed may have created it, too.
Touch(d) ==
  {Outcome(Make(d, {"kfd"}), TRUE), Outcome(d, TRUE),
   Outcome([d EXCEPT !.live = @ \cup {"kfd"}], TRUE)}

Init(d, t) ==
  {Outcome(d, FALSE)} \cup
  UNION {IF compiled.ok THEN Cuda!Complete(compiled.dev, t)
         ELSE {Outcome(Destroy(compiled.dev, t), FALSE)}
           : compiled \in CompileKernel(Cuda!CreateContext(d, t))}

InitAndTouch(d, t) == UNION {IF i.ok THEN Touch(i.dev) ELSE {i} : i \in Init(d, t)}

\* Locator().kfd_client
KfdClient(d) == "kfd" \in d.handles

AllocateMemory(d, t, bytes) == Cuda!AllocateMemory(d, t, bytes)

ReleaseMemory(d, t) == Cuda!ReleaseMemory(d, t)

RunKernel(d, t, loops, traffic) == Cuda!RunKernel(d, t, loops, traffic)

=============================================================================
