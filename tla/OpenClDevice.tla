---------------------------- MODULE OpenClDevice ----------------------------
(***************************************************************************)
(* gpu::opencl::OpenClDevice (gpu/opencl/opencl_device.cc).  A block is    *)
(* made of chunks of at most CL_DEVICE_MAX_MEM_ALLOC_SIZE.                 *)
(***************************************************************************)
EXTENDS GpuDriver

CONSTANTS
  MaxAlloc,       \* values of CL_DEVICE_MAX_MEM_ALLOC_SIZE; 0: not known
  SmallThreads    \* threads of a launch when the kernel allows smaller groups only

ReleaseMemory(d) == FreeBlock(d)

Destroy(d) ==
  Gone(Give(ReleaseMemory(d), {"scratch", "kernel", "program", "queue", "context"}), {"kfd"})

\* What Init has made when its n-th step succeeded; a program that does not
\* build and an argument that cannot be bound are the steps 4 and 7.
Made(n) ==
  {"context"} \cup {o \in {"queue", "program", "kernel", "scratch"} :
                     n >= CASE o = "queue" -> 2 [] o = "program" -> 3 [] o = "kernel" -> 5 [] o = "scratch" -> 6}

\* The queue of AMD's platform is an amdkfd queue once a command went through.
Touch(d) == {Make(d, {"kfd"}), d, [d EXCEPT !.live = @ \cup {"kfd"}]}

\* Without a context there is nothing to take back.
Init(d) ==
  {Outcome(d, FALSE)} \cup
  {Outcome(Destroy(Make(d, Made(n))), FALSE) : n \in 1 .. 6} \cup
  UNION {{Outcome([touched EXCEPT !.threads = n], TRUE) : n \in {GridThreads, SmallThreads}}
           : touched \in Touch(Make(d, Made(7)))}

\* Locator().kfd_client on AMD's platform
KfdClient(d) == "kfd" \in d.handles

\* Mutation of AllocateMemory: the chunks begun with stay.
AllocateMemory_KeepsBegun(d, bytes) ==
  IF ~({"context", "queue"} \subseteq d.handles) THEN {Outcome(d, FALSE)}
  ELSE LET empty       == ReleaseMemory(d)
           Sizes(most) == ChunkSizes(bytes, IF most = 0 THEN bytes ELSE most)
       IN  UNION {{Outcome(AddChunks(empty, SubSeq(Sizes(most), 1, n)), FALSE) :
                     n \in 0 .. Len(Sizes(most)) - 1} : most \in MaxAlloc}

\* The chunks are made one by one; where one cannot be made, those before it
\* are given back.  A chunk that cannot be filled is kept.
AllocateMemory(d, bytes) ==
  IF ~({"context", "queue"} \subseteq d.handles) THEN {Outcome(d, FALSE)}
  ELSE LET empty       == ReleaseMemory(d)
           Sizes(most) == ChunkSizes(bytes, IF most = 0 THEN bytes ELSE most)
           Begun(most) == {SubSeq(Sizes(most), 1, n) : n \in 0 .. Len(Sizes(most)) - 1}
       IN  (UNION {{Outcome(ReleaseMemory(AddChunks(empty, some)), FALSE) : some \in Begun(most)}
                     : most \in MaxAlloc}) \cup
           {Outcome(Swept(AddChunks(empty, Sizes(most))), TRUE) :
              most \in {m \in MaxAlloc : Len(Sizes(m)) <= Room(empty)}}

\* The kernel's buffers are bound, then the kernel is enqueued and waited for.
RunKernel(d, loops, traffic) ==
  IF ~({"kernel", "queue"} \subseteq d.handles) THEN {Outcome(d, FALSE)}
  ELSE LET p == Plan(d, loops, traffic)
           l == Launch(p.dev, {"context", "queue", "kernel", "scratch"}, p.args)
       IN  {Outcome(p.dev, FALSE), Outcome(l, FALSE), Outcome(l, TRUE)}

=============================================================================
