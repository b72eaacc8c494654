----------------------------- MODULE NormalWalk -----------------------------
(***************************************************************************)
(* The walk of cpu::CpuResourceManagerRandomNormal over its schedule       *)
(* points (cpu/manager_random_normal.cc): every WalkInterval the target    *)
(* moves to the next point, and a period that has used them all shuffles   *)
(* them anew.  The points average to `-l` over a period, so the promise of *)
(* the option rests on each point being used once per period.              *)
(*                                                                         *)
(* The points are built once and only ever shuffled: `points` never        *)
(* changes, and schedule_points_ is the order in which they stand.  A part *)
(* of CpuManager, which says when time passes and when the walk is asked.  *)
(***************************************************************************)
EXTENDS NormalSchedule

CONSTANTS
  Count,         \* kCpuRandNormalSchedulePointCount
  Masses,        \* the distribution's mass in each bin
  WalkInterval   \* kCpuRandNormalScheduleIntervalMS, in the clock's unit

VARIABLES
  points,    \* what BuildNormalSchedulePoints returned
  order,     \* schedule_points_: position -> point
  pointIdx,  \* point_idx_
  target,    \* load_target_
  age,       \* time since last_load_target_change_, up to WalkInterval
  started,   \* load_target_started_
  used       \* history: the points used in this period, in order

walk == <<points, order, pointIdx, target, age, started, used>>

Shuffles == {s \in [1 .. Count -> 1 .. Count] :
               \A i, j \in 1 .. Count : s[i] = s[j] => i = j}

\* Constructed and initialised for an average of meanLoad: shuffled once, no
\* target yet.
Init(meanLoad, max) ==
  /\ points = BuildNormalSchedulePoints(Masses, meanLoad, max)
  /\ order \in Shuffles
  /\ pointIdx = 0
  /\ target = 0
  /\ age = 0
  /\ started = FALSE
  /\ used = <<>>

IncreasePointIndex(idx) == IF idx + 1 = Count THEN 0 ELSE idx + 1

\* Mutation of ShuffledAt: the points are shuffled at every move.
ShuffledAt_EveryMove(idx) == Shuffles

\* What the shuffle at the start of a period may leave; no shuffle within it.
ShuffledAt(idx) == IF idx = 0 THEN Shuffles ELSE {order}

\* UpdateLoadTarget() while a point is in force, and when the next is due.
KeepTarget ==
  /\ started
  /\ age < WalkInterval
  /\ UNCHANGED walk

MoveTarget ==
  /\ started => age >= WalkInterval
  /\ order' \in ShuffledAt(pointIdx)
  /\ target' = points[order'[pointIdx + 1]]
  /\ pointIdx' = IncreasePointIndex(pointIdx)
  /\ age' = 0
  /\ started' = TRUE
  /\ used' = IF pointIdx = 0 THEN <<order'[1]>>
                             ELSE Append(used, order'[pointIdx + 1])
  /\ UNCHANGED points

UpdateLoadTarget == KeepTarget \/ MoveTarget

Elapse(time) ==
  /\ age' = IF age + time >= WalkInterval THEN WalkInterval ELSE age + time
  /\ UNCHANGED <<points, order, pointIdx, target, started, used>>

-----------------------------------------------------------------------------

TypeOK ==
  /\ points \in [1 .. Count -> Nat]
  /\ order \in Shuffles
  /\ pointIdx \in 0 .. Count - 1
  /\ target \in Nat
  /\ age \in 0 .. WalkInterval
  /\ started \in BOOLEAN
  /\ used \in Seq(1 .. Count)

\* A period uses every point and none of them twice, whatever the shuffles
\* were and however late the ticks: its average is the average of the points
\* (UpdateLoadTarget, IncreasePointIndex).
EachPointOncePerPeriod ==
  /\ \A i, j \in 1 .. Len(used) : used[i] = used[j] => i = j
  /\ started /\ pointIdx = 0 => Len(used) = Count

\* Strengthening: what was used is what the order has before point_idx_, and
\* all of it at the end of a period.
UsedInOrder ==
  /\ Len(used) = IF started /\ pointIdx = 0 THEN Count ELSE pointIdx
  /\ \A i \in 1 .. Len(used) : used[i] = order[i]

WalkInv == TypeOK /\ UsedInOrder
=============================================================================
