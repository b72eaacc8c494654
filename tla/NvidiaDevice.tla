---------------------------- MODULE NvidiaDevice ----------------------------
(***************************************************************************)
(* gpu::nvidia::NvidiaDevice (gpu/nvidia/nvidia_device.cc).  CUDA works on *)
(* the context that is current in the calling thread t.                    *)
(***************************************************************************)
EXTENDS GpuDriver

InOwnContext(d, t) == Unless(d.current[t] = "own", d, "wrong context")

SetCurrent(d, t) == [d EXCEPT !.current[t] = "own"]

CreateContext(d, t) == SetCurrent(Make(d, {"context"}), t)

\* A context is destroyed with all that is left in it.
DestroyContext(d, t) ==
  IF "context" \notin d.handles THEN d
  ELSE [Give(d, {"context"}) EXCEPT !.live = {}, !.mem = {}, !.current[t] = "none"]

\* The block, the scratch buffer and the module go, then the context.
\* busy_func_ is not cleared when the module goes, and nothing is made of a
\* cuCtxSetCurrent that fails: what is freed is named by its handle.
Destroy(d, t) ==
  DestroyContext(Gone(Give(FreeBlock(d), {"scratch", "module"}), {"function"}), t)

\* Init from the context on: a step that fails takes the earlier ones back.
Complete(d, t) ==
  LET own     == InOwnContext(d, t)
      module  == Make(own, {"module"})
      scratch == Make(module, {"function", "scratch"})
  IN  {Outcome(scratch, TRUE)} \cup
      {Outcome(Destroy(e, t), FALSE) : e \in {own, module, Make(module, {"function"})}}

\* Without a context there is nothing to take back.
Init(d, t) ==
  {Outcome(d, FALSE)} \cup Complete(CreateContext(d, t), t)

\* MakeCurrent, and the outcomes of what the caller does then.
MakeCurrent(d, then) ==
  {Outcome(d, FALSE)} \cup (IF "context" \in d.handles THEN then ELSE {})

\* The old block goes first; a block whose fill cannot be waited for is
\* given back.
NewBlock(d, t, bytes) ==
  LET empty  == FreeBlock(d)
      filled == AddChunks(InOwnContext(empty, t), <<bytes>>)
  IN  {Outcome(empty, FALSE)} \cup
      (IF Room(empty) > 0 THEN {Outcome(FreeBlock(filled), FALSE), Outcome(Swept(filled), TRUE)} ELSE {})

AllocateMemory(d, t, bytes) == MakeCurrent(d, NewBlock(SetCurrent(d, t), t, bytes))

\* A block whose context cannot be made current is forgotten, not freed.
ReleaseMemory(d, t) ==
  IF d.chunks = <<>> THEN {Outcome(d, TRUE)}
  ELSE {Outcome(DropFields(d), TRUE), Outcome(FreeBlock(SetCurrent(d, t)), TRUE)}

LaunchKernel(d, t, loops, traffic) ==
  LET p == Plan(d, loops, traffic)
      l == Launch(InOwnContext(p.dev, t), {"context", "function", "scratch"}, p.args)
  IN  {Outcome(l, TRUE), Outcome(l, FALSE)}

\* Mutation of RunKernel: the context current in the thread is used as it is.
RunKernel_Trusts(d, t, loops, traffic) ==
  IF "function" \notin d.handles THEN {Outcome(d, FALSE)}
  ELSE LaunchKernel(d, t, loops, traffic)

RunKernel(d, t, loops, traffic) ==
  IF "function" \notin d.handles THEN {Outcome(d, FALSE)}
  ELSE MakeCurrent(d, LaunchKernel(SetCurrent(d, t), t, loops, traffic))

=============================================================================
