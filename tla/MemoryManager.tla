---------------------------- MODULE MemoryManager ---------------------------
(***************************************************************************)
(* memory::MemoryResourceManagerDefault and its Allocator (memory/): every *)
(* interval the main thread replaces the block by one of another size,     *)
(* inline when it is small, on a one-shot background thread when filling   *)
(* it would hold up the main loop.  Both threads use the same Allocator    *)
(* without a lock; bg_alloc_done_ and joinable() tell whose it is.         *)
(*                                                                         *)
(* Sizes are in chunks of Fill.  Times are in units of 1/UnitsPerSecond    *)
(* of a second; the clock is kept as the time since the last allocation    *)
(* was scheduled, which stops at Horizon, past which nothing changes.      *)
(***************************************************************************)
EXTENDS Integers, FiniteSets

CONSTANTS
  Sizes,           \* what the random ratio of -m can come to
  Threshold,       \* kMemoryBackgroundThreadThresholdMiB
  IntervalSeconds, \* kMemoryScheduleIntervalSecond
  UnitsPerSecond,
  Gaps             \* times between two Schedule() ticks

ASSUME SizesAssumption == Sizes # {} /\ Sizes \subseteq Nat \ {0}
ASSUME TimeAssumption  ==
  /\ Threshold \in Nat /\ IntervalSeconds \in Nat
  /\ UnitsPerSecond \in Nat \ {0} /\ Gaps \subseteq Nat

Horizon == (IntervalSeconds + 1) * UnitsPerSecond
Threads == {"main", "bg"}

VARIABLES
  main,         \* the main thread: "idle" between ticks, or where it is
  bg,           \* bg_alloc_thread_: "none" when not joinable
  bgStop,       \* its stop token
  bgDone,       \* bg_alloc_done_
  target,       \* byte_count of the allocation under way, per thread
  size,         \* allocator_.size_
  block,        \* allocator_.block_ptr_ is not null
  written,      \* chunks of the block Fill has written
  live,         \* history: blocks on the heap
  scheduled,    \* has_scheduled_
  since         \* time_point - last_scheduling_

control   == <<main, bg, bgStop, bgDone>>
allocator == <<size, block, written, live>>
clock     == <<scheduled, since>>
vars      == <<control, target, allocator, clock>>

\* Steps of AllocateAndFill, on either thread.
Allocating == {"release", "new", "fill"}

At(t) == IF t = "main" THEN main ELSE bg

Joinable == bg # "none"

Init ==
  /\ main = "idle" /\ bg = "none" /\ bgStop = FALSE /\ bgDone = FALSE
  /\ target = [t \in Threads |-> 0]
  /\ size = 0 /\ block = FALSE /\ written = 0 /\ live = 0
  /\ scheduled = FALSE /\ since = 0

-----------------------------------------------------------------------------
(* The allocator, as the thread t uses it. *)

Goto(t, to) ==
  IF t = "main" THEN main' = to /\ UNCHANGED bg ELSE bg' = to /\ UNCHANGED main

\* Where a thread goes when AllocateAndFill returns.
Leave(t) == Goto(t, IF t = "main" THEN "idle" ELSE "flag")

Freed == /\ live' = live - (IF block THEN 1 ELSE 0)
         /\ block' = FALSE
         /\ size' = 0
         /\ written' = 0

\* AllocateBlock gives the old block up before it asks for the new one.
ReleaseBlock(t) ==
  /\ At(t) = "release"
  /\ Freed
  /\ Goto(t, "new")
  /\ UNCHANGED <<bgStop, bgDone, target, clock>>

\* Mutation of NewBlock: the size is set although the allocation failed.
NewBlock_SizeFirst(t) ==
  /\ At(t) = "new"
  /\ size' = target[t]
  /\ \/ /\ block' = TRUE
        /\ live' = live + 1
        /\ Goto(t, "fill")
     \/ /\ Leave(t)
        /\ UNCHANGED <<block, live>>
  /\ UNCHANGED <<bgStop, bgDone, target, written, clock>>

\* new std::byte[target_size]; a bad_alloc is caught, and fills nothing.
NewBlock(t) ==
  /\ At(t) = "new"
  /\ \/ /\ block' = TRUE
        /\ size' = target[t]
        /\ live' = live + 1
        /\ Goto(t, "fill")
     \/ /\ Leave(t)
        /\ UNCHANGED <<block, size, live>>
  /\ UNCHANGED <<bgStop, bgDone, target, written, clock>>

FillChunk_SkipsLast(t) ==
  /\ At(t) = "fill"
  /\ IF written + 1 < size /\ ~(t = "bg" /\ bgStop)
       THEN written' = written + 1 /\ UNCHANGED <<main, bg>>
       ELSE Leave(t) /\ UNCHANGED written
  /\ UNCHANGED <<bgStop, bgDone, target, size, block, live, clock>>

\* One chunk of Fill, whose stop token only the background thread has.
FillChunk(t) ==
  /\ At(t) = "fill"
  /\ IF written < size /\ ~(t = "bg" /\ bgStop)
       THEN written' = written + 1 /\ UNCHANGED <<main, bg>>
       ELSE Leave(t) /\ UNCHANGED written
  /\ UNCHANGED <<bgStop, bgDone, target, size, block, live, clock>>

AllocateAndFill(t) == ReleaseBlock(t) \/ NewBlock(t) \/ FillChunk(t)

-----------------------------------------------------------------------------
(* The background thread's last steps. *)

\* Mutation of SetDone: a failed allocation returns before it sets the flag.
SetDone_OnSuccess ==
  /\ bg = "flag"
  /\ bgDone' = (size > 0)
  /\ bg' = "returning"
  /\ UNCHANGED <<main, bgStop, target, allocator, clock>>

SetDone ==
  /\ bg = "flag"
  /\ bgDone' = TRUE
  /\ bg' = "returning"
  /\ UNCHANGED <<main, bgStop, target, allocator, clock>>

BgExits ==
  /\ bg = "returning"
  /\ bg' = "exited"
  /\ UNCHANGED <<main, bgStop, bgDone, target, allocator, clock>>

-----------------------------------------------------------------------------
(* The main thread: Schedule(), then the destructor. *)

\* Mutations of Tick: it goes ahead beside the background thread, and it
\* joins it without looking at bg_alloc_done_.
Tick_GoesAhead(gap) ==
  /\ main = "idle"
  /\ since' = IF ~scheduled THEN 0
              ELSE IF since + gap < Horizon THEN since + gap ELSE Horizon
  /\ main' = "check"
  /\ UNCHANGED <<bg, bgStop, bgDone, target, allocator, scheduled>>
Tick_AlwaysJoins(gap) ==
  /\ main = "idle"
  /\ since' = IF ~scheduled THEN 0
              ELSE IF since + gap < Horizon THEN since + gap ELSE Horizon
  /\ main' = IF Joinable THEN "reap" ELSE "check"
  /\ UNCHANGED <<bg, bgStop, bgDone, target, allocator, scheduled>>

\* Schedule(), a time `gap` after the previous tick: the first half of
\* ReapBackgroundThread.
Tick(gap) ==
  /\ main = "idle"
  /\ since' = IF ~scheduled THEN 0
              ELSE IF since + gap < Horizon THEN since + gap ELSE Horizon
  /\ main' = IF ~Joinable THEN "check"
             ELSE IF bgDone THEN "reap" ELSE "idle"
  /\ UNCHANGED <<bg, bgStop, bgDone, target, allocator, scheduled>>

Reap ==
  /\ main = "reap"
  /\ bg = "exited"
  /\ bg' = "none"
  /\ main' = "check"
  /\ UNCHANGED <<bgStop, bgDone, target, allocator, clock>>

\* duration_cast to whole seconds truncates.
WillSchedule == ~scheduled \/ since \div UnitsPerSecond > IntervalSeconds

Skip ==
  /\ main = "check" /\ ~WillSchedule
  /\ main' = "idle"
  /\ UNCHANGED <<bg, bgStop, bgDone, target, allocator, clock>>

\* The rest of Schedule(): the new thread has a fresh stop token.
StartAllocation(n) ==
  /\ main = "check" /\ WillSchedule
  /\ \/ /\ n >= Threshold
        /\ bgDone' = FALSE
        /\ bgStop' = FALSE
        /\ bg' = "release"
        /\ main' = "idle"
        /\ target' = [target EXCEPT !["bg"] = n]
     \/ /\ n < Threshold
        /\ main' = "release"
        /\ target' = [target EXCEPT !["main"] = n]
        /\ UNCHANGED <<bg, bgStop, bgDone>>
  /\ scheduled' = TRUE
  /\ since' = 0
  /\ UNCHANGED allocator

\* ~MemoryResourceManagerDefault(), after the main loop.
RequestStop ==
  /\ main = "idle"
  /\ main' = IF Joinable THEN "join" ELSE "destroy"
  /\ bgStop' = Joinable
  /\ UNCHANGED <<bg, bgDone, target, allocator, clock>>

JoinInDestructor ==
  /\ main = "join"
  /\ bg = "exited"
  /\ bg' = "none"
  /\ main' = "destroy"
  /\ UNCHANGED <<bgStop, bgDone, target, allocator, clock>>

\* ~Allocator()
DestroyAllocator ==
  /\ main = "destroy"
  /\ Freed
  /\ main' = "gone"
  /\ UNCHANGED <<bg, bgStop, bgDone, target, clock>>

-----------------------------------------------------------------------------

Background == AllocateAndFill("bg") \/ SetDone \/ BgExits

\* What the main thread does without waiting for another tick or a signal.
MainWork ==
  \/ AllocateAndFill("main")
  \/ Reap \/ Skip \/ \E n \in Sizes : StartAllocation(n)
  \/ JoinInDestructor \/ DestroyAllocator

Ticks == \E gap \in Gaps : Tick(gap)

Gone == main = "gone" /\ UNCHANGED vars

Next == Background \/ MainWork \/ Ticks \/ RequestStop \/ Gone

\* Both threads run, the main loop keeps ticking until the runtime quits;
\* nothing makes it quit.
Fairness == WF_vars(Background) /\ WF_vars(MainWork) /\ WF_vars(Ticks)

Spec     == Init /\ [][Next]_vars
FairSpec == Spec /\ Fairness

-----------------------------------------------------------------------------

TypeOK ==
  /\ main \in {"idle", "reap", "check", "join", "destroy", "gone"} \cup Allocating
  /\ bg \in {"none", "flag", "returning", "exited"} \cup Allocating
  /\ bgStop \in BOOLEAN /\ bgDone \in BOOLEAN
  /\ target \in [Threads -> {0} \cup Sizes]
  /\ size \in {0} \cup Sizes
  /\ block \in BOOLEAN
  /\ written \in 0 .. size
  /\ live \in Nat
  /\ scheduled \in BOOLEAN
  /\ since \in 0 .. Horizon

UsesAllocator(t) == At(t) \in Allocating \cup {"destroy"}

\* The allocator has one user at a time, without a lock: the main thread
\* neither replaces nor frees the block while the background thread may still
\* be at it (manager_default.h:31-35).
SoleOwner == ~(UsesAllocator("main") /\ UsesAllocator("bg"))

\* No block is lost and none is freed twice, through failed allocations and
\* fills cut short: the heap holds the allocator's block and nothing else, and
\* the allocator never claims a size without a block (allocator.cc:24-27).
OwnsItsBlock ==
  /\ live = IF block THEN 1 ELSE 0
  /\ block <=> size > 0
  /\ main = "gone" => ~block

\* When the background thread says it is done, or a tick goes by with the
\* block in the main thread's hands, every page of the block is committed,
\* unless the program is shutting down.
CommittedWhenDone ==
  (bg \in {"returning", "exited"} \/ main = "check") /\ ~bgStop => written = size

\* ReapBackgroundThread's join "only waits for the thread's exit epilogue"
\* (manager_default.cc:76-77): a tick of the main loop never waits for a fill.
TickNeverWaitsForFill == main = "reap" => bg \in {"returning", "exited"}

\* What these rest on: who holds the allocator, and in what state it passes
\* from one step to the next and from one thread to the other.
Handover ==
  /\ UsesAllocator("main") \/ main \in {"check", "gone"} => bg = "none"
  /\ bg # "none" => (bgDone <=> bg \in {"returning", "exited"})
  /\ bgStop => main \in {"join", "destroy", "gone"}
  /\ \A t \in Threads : At(t) \in {"release", "new"} => target[t] \in Sizes
  /\ \A t \in Threads : At(t) = "new" => size = 0 /\ written = 0
  /\ bg = "flag" /\ ~bgStop => written = size
  /\ bg = "none" /\ main \in {"idle", "check"} => written = size

IInv == /\ TypeOK /\ Handover
        /\ SoleOwner /\ OwnsItsBlock /\ CommittedWhenDone /\ TickNeverWaitsForFill

\* The usage keeps changing as long as the main loop runs: neither a failed
\* allocation nor a background thread blocks the following ones for good.
KeepsChanging ==
  []<>(main \in {"release", "join", "destroy", "gone"} \/ bg = "release")

=============================================================================
