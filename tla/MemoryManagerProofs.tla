------------------------- MODULE MemoryManagerProofs ------------------------
(***************************************************************************)
(* The ownership of the memory block, proved for any sizes, threshold,     *)
(* interval and pace of the ticks: two threads share one allocator without *)
(* a lock, and each has it only when the other has not.                    *)
(***************************************************************************)
EXTENDS MemoryManager, TLAPS

\* The constants as numbers.
LEMMA Numbers ==
  /\ Horizon \in Nat
  /\ \A n \in Sizes : n \in Nat /\ n > 0
  /\ \A gap \in Gaps : gap \in Nat
BY SizesAssumption, TimeAssumption DEF Horizon

LEMMA InitIInv == Init => IInv
<1> SUFFICES ASSUME Init PROVE IInv
  OBVIOUS
<1>1. TypeOK
  <2>1. written \in 0 .. size /\ live \in Nat /\ since \in 0 .. Horizon
    BY Numbers DEF Init
  <2>2. target \in [Threads -> {0} \cup Sizes] /\ size \in {0} \cup Sizes
    BY DEF Init
  <2> QED BY <2>1, <2>2 DEF Init, TypeOK
<1>2. Handover
  BY DEF Init, Handover, UsesAllocator, At, Allocating, Threads
<1>3. OwnsItsBlock
  BY DEF Init, OwnsItsBlock
<1> QED BY <1>1, <1>2, <1>3
        DEF Init, IInv, SoleOwner, CommittedWhenDone, TickNeverWaitsForFill,
            UsesAllocator, At, Allocating

LEMMA ReleaseKeeps ==
  ASSUME IInv, NEW t \in Threads, ReleaseBlock(t)
  PROVE  IInv'
<1>1. TypeOK'
  <2>1. size' = 0 /\ written' = 0 /\ block' = FALSE /\ live' = 0
    BY DEF IInv, TypeOK, OwnsItsBlock, ReleaseBlock, Freed
  <2>2. /\ main' \in {"idle", "reap", "check", "join", "destroy", "gone"} \cup Allocating
        /\ bg' \in {"none", "flag", "returning", "exited"} \cup Allocating
    BY DEF IInv, TypeOK, ReleaseBlock, Goto, Allocating
  <2>3. written' \in 0 .. size' /\ live' \in Nat
    BY <2>1
  <2> QED BY <2>1, <2>2, <2>3 DEF IInv, TypeOK, ReleaseBlock, clock
<1>2. Handover'
  BY Numbers DEF IInv, TypeOK, Handover, SoleOwner, ReleaseBlock, Goto, Leave, Freed, clock, UsesAllocator, At, Allocating, Threads
<1>3. OwnsItsBlock'
  BY Numbers DEF IInv, TypeOK, Handover, OwnsItsBlock, ReleaseBlock, Goto, Leave, Freed, clock, UsesAllocator, At, Allocating, Threads
<1>4. SoleOwner' /\ CommittedWhenDone' /\ TickNeverWaitsForFill'
  BY DEF IInv, TypeOK, Handover, SoleOwner, CommittedWhenDone, TickNeverWaitsForFill, ReleaseBlock, Goto, Leave, Freed, clock, UsesAllocator, At, Allocating, Threads
<1> QED BY <1>1, <1>2, <1>3, <1>4 DEF IInv

LEMMA NewKeeps ==
  ASSUME IInv, NEW t \in Threads, NewBlock(t)
  PROVE  IInv'
<1>1. TypeOK'
  <2>1. At(t) = "new" /\ written = 0 /\ size = 0 /\ written' = 0 /\ target[t] \in Sizes
    BY DEF IInv, Handover, NewBlock
  <2>2. size' \in {0} \cup Sizes /\ written' \in 0 .. size' /\ live' \in Nat
    BY <2>1, Numbers DEF IInv, TypeOK, NewBlock
  <2>3. /\ main' \in {"idle", "reap", "check", "join", "destroy", "gone"} \cup Allocating
        /\ bg' \in {"none", "flag", "returning", "exited"} \cup Allocating
    BY DEF IInv, TypeOK, NewBlock, Goto, Leave, Allocating
  <2>4. block' \in BOOLEAN
    BY DEF IInv, TypeOK, NewBlock
  <2> QED BY <2>2, <2>3, <2>4 DEF IInv, TypeOK, NewBlock, clock
<1>2. Handover'
  BY Numbers DEF IInv, TypeOK, Handover, SoleOwner, NewBlock, Goto, Leave, Freed, clock, UsesAllocator, At, Allocating, Threads
<1>3. OwnsItsBlock'
  BY Numbers DEF IInv, TypeOK, Handover, OwnsItsBlock, NewBlock, Goto, Leave, Freed, clock, UsesAllocator, At, Allocating, Threads
<1>4. SoleOwner' /\ CommittedWhenDone' /\ TickNeverWaitsForFill'
  BY DEF IInv, TypeOK, Handover, SoleOwner, CommittedWhenDone, TickNeverWaitsForFill, NewBlock, Goto, Leave, Freed, clock, UsesAllocator, At, Allocating, Threads
<1> QED BY <1>1, <1>2, <1>3, <1>4 DEF IInv

LEMMA FillKeeps ==
  ASSUME IInv, NEW t \in Threads, FillChunk(t)
  PROVE  IInv'
<1>1. TypeOK'
  BY Numbers
  DEF IInv, TypeOK, Handover, OwnsItsBlock, FillChunk, Goto, Leave, Freed, clock, UsesAllocator, At, Allocating, Threads
<1>2. Handover'
  BY Numbers DEF IInv, TypeOK, Handover, SoleOwner, FillChunk, Goto, Leave, Freed, clock, UsesAllocator, At, Allocating, Threads
<1>3. OwnsItsBlock'
  BY Numbers DEF IInv, TypeOK, Handover, OwnsItsBlock, FillChunk, Goto, Leave, Freed, clock, UsesAllocator, At, Allocating, Threads
<1>4. SoleOwner' /\ CommittedWhenDone' /\ TickNeverWaitsForFill'
  BY DEF IInv, TypeOK, Handover, SoleOwner, CommittedWhenDone, TickNeverWaitsForFill, FillChunk, Goto, Leave, Freed, clock, UsesAllocator, At, Allocating, Threads
<1> QED BY <1>1, <1>2, <1>3, <1>4 DEF IInv

LEMMA DoneKeeps ==
  ASSUME IInv, SetDone
  PROVE  IInv'
<1>1. TypeOK'
  BY Numbers
  DEF IInv, TypeOK, Handover, OwnsItsBlock, SetDone, allocator, clock, UsesAllocator, At, Allocating, Threads
<1>2. Handover'
  BY Numbers DEF IInv, TypeOK, Handover, SoleOwner, SetDone, allocator, clock, UsesAllocator, At, Allocating, Threads
<1>3. OwnsItsBlock'
  BY Numbers DEF IInv, TypeOK, Handover, OwnsItsBlock, SetDone, allocator, clock, UsesAllocator, At, Allocating, Threads
<1>4. SoleOwner' /\ CommittedWhenDone' /\ TickNeverWaitsForFill'
  BY DEF IInv, TypeOK, Handover, SoleOwner, CommittedWhenDone, TickNeverWaitsForFill, SetDone, allocator, clock, UsesAllocator, At, Allocating, Threads
<1> QED BY <1>1, <1>2, <1>3, <1>4 DEF IInv

LEMMA ExitKeeps ==
  ASSUME IInv, BgExits
  PROVE  IInv'
<1>1. TypeOK'
  BY Numbers
  DEF IInv, TypeOK, Handover, OwnsItsBlock, BgExits, allocator, clock, UsesAllocator, At, Allocating, Threads
<1>2. Handover'
  BY Numbers DEF IInv, TypeOK, Handover, SoleOwner, BgExits, allocator, clock, UsesAllocator, At, Allocating, Threads
<1>3. OwnsItsBlock'
  BY Numbers DEF IInv, TypeOK, Handover, OwnsItsBlock, BgExits, allocator, clock, UsesAllocator, At, Allocating, Threads
<1>4. SoleOwner' /\ CommittedWhenDone' /\ TickNeverWaitsForFill'
  BY DEF IInv, TypeOK, Handover, SoleOwner, CommittedWhenDone, TickNeverWaitsForFill, BgExits, allocator, clock, UsesAllocator, At, Allocating, Threads
<1> QED BY <1>1, <1>2, <1>3, <1>4 DEF IInv

LEMMA TickKeeps ==
  ASSUME IInv, NEW gap \in Gaps, Tick(gap)
  PROVE  IInv'
<1>1. TypeOK'
  BY Numbers
  DEF IInv, TypeOK, Handover, OwnsItsBlock, Tick, Joinable, allocator, UsesAllocator, At, Allocating, Threads
<1>2. Handover'
  BY Numbers DEF IInv, TypeOK, Handover, SoleOwner, Tick, Joinable, allocator, UsesAllocator, At, Allocating, Threads
<1>3. OwnsItsBlock'
  BY Numbers DEF IInv, TypeOK, Handover, OwnsItsBlock, Tick, Joinable, allocator, UsesAllocator, At, Allocating, Threads
<1>4. SoleOwner' /\ CommittedWhenDone' /\ TickNeverWaitsForFill'
  BY DEF IInv, TypeOK, Handover, SoleOwner, CommittedWhenDone, TickNeverWaitsForFill, Tick, Joinable, allocator, UsesAllocator, At, Allocating, Threads
<1> QED BY <1>1, <1>2, <1>3, <1>4 DEF IInv

LEMMA ReapKeeps ==
  ASSUME IInv, Reap
  PROVE  IInv'
<1>1. TypeOK'
  BY Numbers
  DEF IInv, TypeOK, Handover, OwnsItsBlock, Reap, allocator, clock, UsesAllocator, At, Allocating, Threads
<1>2. Handover'
  BY Numbers DEF IInv, TypeOK, Handover, CommittedWhenDone, Reap, allocator, clock, UsesAllocator, At, Allocating, Threads
<1>3. OwnsItsBlock'
  BY Numbers DEF IInv, TypeOK, Handover, OwnsItsBlock, Reap, allocator, clock, UsesAllocator, At, Allocating, Threads
<1>4. SoleOwner' /\ CommittedWhenDone' /\ TickNeverWaitsForFill'
  BY DEF IInv, TypeOK, Handover, SoleOwner, CommittedWhenDone, TickNeverWaitsForFill, Reap, allocator, clock, UsesAllocator, At, Allocating, Threads
<1> QED BY <1>1, <1>2, <1>3, <1>4 DEF IInv

LEMMA SkipKeeps ==
  ASSUME IInv, Skip
  PROVE  IInv'
<1>1. TypeOK'
  BY Numbers
  DEF IInv, TypeOK, Handover, OwnsItsBlock, Skip, allocator, clock, UsesAllocator, At, Allocating, Threads
<1>2. Handover'
  BY Numbers DEF IInv, TypeOK, Handover, SoleOwner, Skip, allocator, clock, UsesAllocator, At, Allocating, Threads
<1>3. OwnsItsBlock'
  BY Numbers DEF IInv, TypeOK, Handover, OwnsItsBlock, Skip, allocator, clock, UsesAllocator, At, Allocating, Threads
<1>4. SoleOwner' /\ CommittedWhenDone' /\ TickNeverWaitsForFill'
  BY DEF IInv, TypeOK, Handover, SoleOwner, CommittedWhenDone, TickNeverWaitsForFill, Skip, allocator, clock, UsesAllocator, At, Allocating, Threads
<1> QED BY <1>1, <1>2, <1>3, <1>4 DEF IInv

LEMMA StartKeeps ==
  ASSUME IInv, NEW n \in Sizes, StartAllocation(n)
  PROVE  IInv'
<1>1. TypeOK'
  <2>1. target' \in [Threads -> {0} \cup Sizes]
    BY DEF IInv, TypeOK, StartAllocation
  <2>2. since' \in 0 .. Horizon /\ scheduled' \in BOOLEAN
    BY Numbers DEF StartAllocation
  <2>3. /\ main' \in {"idle", "reap", "check", "join", "destroy", "gone"} \cup Allocating
        /\ bg' \in {"none", "flag", "returning", "exited"} \cup Allocating
    BY DEF IInv, TypeOK, StartAllocation, Allocating
  <2>4. bgStop' \in BOOLEAN /\ bgDone' \in BOOLEAN
    BY DEF IInv, TypeOK, StartAllocation
  <2> QED BY <2>1, <2>2, <2>3, <2>4 DEF IInv, TypeOK, StartAllocation, allocator
<1>2. Handover'
  BY Numbers DEF IInv, TypeOK, Handover, SoleOwner, StartAllocation, allocator, UsesAllocator, At, Allocating, Threads
<1>3. OwnsItsBlock'
  BY Numbers DEF IInv, TypeOK, Handover, OwnsItsBlock, StartAllocation, allocator, UsesAllocator, At, Allocating, Threads
<1>4. SoleOwner' /\ CommittedWhenDone' /\ TickNeverWaitsForFill'
  BY DEF IInv, TypeOK, Handover, SoleOwner, CommittedWhenDone, TickNeverWaitsForFill, StartAllocation, allocator, UsesAllocator, At, Allocating, Threads
<1> QED BY <1>1, <1>2, <1>3, <1>4 DEF IInv

LEMMA StopKeeps ==
  ASSUME IInv, RequestStop
  PROVE  IInv'
<1>1. TypeOK'
  BY Numbers
  DEF IInv, TypeOK, Handover, OwnsItsBlock, RequestStop, Joinable, allocator, clock, UsesAllocator, At, Allocating, Threads
<1>2. Handover'
  BY Numbers DEF IInv, TypeOK, Handover, SoleOwner, RequestStop, Joinable, allocator, clock, UsesAllocator, At, Allocating, Threads
<1>3. OwnsItsBlock'
  BY Numbers DEF IInv, TypeOK, Handover, OwnsItsBlock, RequestStop, Joinable, allocator, clock, UsesAllocator, At, Allocating, Threads
<1>4. SoleOwner' /\ CommittedWhenDone' /\ TickNeverWaitsForFill'
  BY DEF IInv, TypeOK, Handover, SoleOwner, CommittedWhenDone, TickNeverWaitsForFill, RequestStop, Joinable, allocator, clock, UsesAllocator, At, Allocating, Threads
<1> QED BY <1>1, <1>2, <1>3, <1>4 DEF IInv

LEMMA JoinKeeps ==
  ASSUME IInv, JoinInDestructor
  PROVE  IInv'
<1>1. TypeOK'
  BY Numbers
  DEF IInv, TypeOK, Handover, OwnsItsBlock, JoinInDestructor, allocator, clock, UsesAllocator, At, Allocating, Threads
<1>2. Handover'
  BY Numbers DEF IInv, TypeOK, Handover, SoleOwner, JoinInDestructor, allocator, clock, UsesAllocator, At, Allocating, Threads
<1>3. OwnsItsBlock'
  BY Numbers DEF IInv, TypeOK, Handover, OwnsItsBlock, JoinInDestructor, allocator, clock, UsesAllocator, At, Allocating, Threads
<1>4. SoleOwner' /\ CommittedWhenDone' /\ TickNeverWaitsForFill'
  BY DEF IInv, TypeOK, Handover, SoleOwner, CommittedWhenDone, TickNeverWaitsForFill, JoinInDestructor, allocator, clock, UsesAllocator, At, Allocating, Threads
<1> QED BY <1>1, <1>2, <1>3, <1>4 DEF IInv

LEMMA DestroyKeeps ==
  ASSUME IInv, DestroyAllocator
  PROVE  IInv'
<1>1. TypeOK'
  <2>1. size' = 0 /\ written' = 0 /\ block' = FALSE /\ live' = 0
    BY DEF IInv, TypeOK, OwnsItsBlock, DestroyAllocator, Freed
  <2>2. written' \in 0 .. size' /\ live' \in Nat
    BY <2>1
  <2> QED BY <2>1, <2>2 DEF IInv, TypeOK, DestroyAllocator, clock
<1>2. Handover'
  BY Numbers DEF IInv, TypeOK, Handover, SoleOwner, DestroyAllocator, Freed, clock, UsesAllocator, At, Allocating, Threads
<1>3. OwnsItsBlock'
  BY Numbers DEF IInv, TypeOK, Handover, OwnsItsBlock, DestroyAllocator, Freed, clock, UsesAllocator, At, Allocating, Threads
<1>4. SoleOwner' /\ CommittedWhenDone' /\ TickNeverWaitsForFill'
  BY DEF IInv, TypeOK, Handover, SoleOwner, CommittedWhenDone, TickNeverWaitsForFill, DestroyAllocator, Freed, clock, UsesAllocator, At, Allocating, Threads
<1> QED BY <1>1, <1>2, <1>3, <1>4 DEF IInv

-----------------------------------------------------------------------------

\* The inductive invariant, for every interleaving of the two threads.
THEOREM MemoryInvariant == Spec => []IInv
<1>1. IInv /\ [Next]_vars => IInv'
  <2> SUFFICES ASSUME IInv, [Next]_vars PROVE IInv'
    OBVIOUS
  <2>1. CASE Background
    BY <2>1, ReleaseKeeps, NewKeeps, FillKeeps, DoneKeeps, ExitKeeps
    DEF Background, AllocateAndFill, Threads
  <2>2. CASE MainWork
    BY <2>2, ReleaseKeeps, NewKeeps, FillKeeps, ReapKeeps, SkipKeeps, StartKeeps,
       JoinKeeps, DestroyKeeps
    DEF MainWork, AllocateAndFill, Threads
  <2>3. CASE Ticks
    BY <2>3, TickKeeps DEF Ticks
  <2>4. CASE RequestStop
    BY <2>4, StopKeeps
  <2>5. CASE UNCHANGED vars
    BY <2>5
    DEF vars, control, allocator, clock, IInv, TypeOK, Handover, SoleOwner, OwnsItsBlock,
        CommittedWhenDone, TickNeverWaitsForFill, UsesAllocator, At
  <2> QED BY <2>1, <2>2, <2>3, <2>4, <2>5 DEF Next, Gone
<1> QED BY <1>1, InitIInv, PTL DEF Spec

\* Every variable stays within its type: no size is negative and no fill runs past
\* the block.
THEOREM MemoryTypeCorrect == Spec => []TypeOK
<1>1. IInv => TypeOK
  BY DEF IInv
<1> QED BY <1>1, MemoryInvariant, PTL

\* The main thread and the background thread never use the allocator at the same
\* time.
THEOREM OneUserAtATime == Spec => []SoleOwner
<1>1. IInv => SoleOwner
  BY DEF IInv
<1> QED BY <1>1, MemoryInvariant, PTL

\* The heap holds the allocator's block and nothing else, through failed allocations
\* and fills cut short, and nothing at the end.
THEOREM BlockAccountedFor == Spec => []OwnsItsBlock
<1>1. IInv => OwnsItsBlock
  BY DEF IInv
<1> QED BY <1>1, MemoryInvariant, PTL

\* A block the background thread hands over is written to its last chunk, unless
\* shutdown cut the fill short.
THEOREM FillsAreComplete == Spec => []CommittedWhenDone
<1>1. IInv => CommittedWhenDone
  BY DEF IInv
<1> QED BY <1>1, MemoryInvariant, PTL

\* A tick that joins the background thread finds it past its fill.
THEOREM TicksDoNotWait == Spec => []TickNeverWaitsForFill
<1>1. IInv => TickNeverWaitsForFill
  BY DEF IInv
<1> QED BY <1>1, MemoryInvariant, PTL

=============================================================================
