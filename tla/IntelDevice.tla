---------------------------- MODULE IntelDevice -----------------------------
(***************************************************************************)
(* gpu::intel::IntelDevice (gpu/intel/intel_device.cc), over Level Zero.   *)
(***************************************************************************)
EXTENDS GpuDriver

CONSTANT MaxAlloc    \* values of max_alloc_bytes_; 0: not known

ReleaseMemory(d) == IF "context" \in d.handles THEN FreeBlock(d) ELSE d

\* The scratch buffer is freed in its context.
Destroy(d) ==
  Give(ReleaseMemory(d), {"scratch", "kernel", "module", "list", "queue", "context"})

\* What Init has made when its n-th step succeeded; a group size that cannot
\* be set and an argument that cannot be bound are the steps 6 and 8.
Made(n) ==
  {"context"} \cup {o \in {"queue", "list", "module", "kernel", "scratch"} :
                     n >= CASE o = "queue" -> 2 [] o = "list" -> 3 [] o = "module" -> 4
                            [] o = "kernel" -> 5 [] o = "scratch" -> 7}

\* Without a context there is nothing to take back.
Init(d) ==
  {Outcome(d, FALSE)} \cup
  {Outcome(Destroy(Make(d, Made(n))), FALSE) : n \in 1 .. 7} \cup
  {Outcome(Make(d, Made(8)), TRUE)}

\* The block is filled by a command list of its own, if one can be made; a
\* block that could not be filled is kept.
Commit(d) == {d, Give(Make(d, {"fill list"}), {"fill list"})}

AllocateMemory(d, bytes) ==
  IF "context" \notin d.handles THEN {Outcome(d, FALSE)}
  ELSE LET empty       == ReleaseMemory(d)
           Sizes(most) == ChunkSizes(bytes, IF most = 0 THEN bytes ELSE most)
           Begun(most) == {SubSeq(Sizes(most), 1, n) : n \in 0 .. Len(Sizes(most)) - 1}
       IN  (UNION {{Outcome(ReleaseMemory(AddChunks(empty, some)), FALSE) : some \in Begun(most)}
                     : most \in MaxAlloc}) \cup
           UNION {{Outcome(Swept(filled), TRUE) : filled \in Commit(AddChunks(empty, Sizes(most)))}
                    : most \in {m \in MaxAlloc : Len(Sizes(m)) <= Room(empty)}}

\* The arguments are bound and the launch is recorded in the reset command
\* list, then it is executed and waited for.
RunKernel(d, loops, traffic) ==
  IF ~({"kernel", "list", "queue"} \subseteq d.handles) THEN {Outcome(d, FALSE)}
  ELSE LET p == Plan(d, loops, traffic)
           l == Launch(p.dev, {"context", "queue", "list", "module", "kernel", "scratch"}, p.args)
       IN  {Outcome(p.dev, FALSE), Outcome(l, FALSE), Outcome(l, TRUE)}

=============================================================================
