---------------------------- MODULE MCCpuManager ----------------------------
(***************************************************************************)
(* Two points of unequal mass: an average of 3 is met by 2 and 4, one of 1 *)
(* only by rounding 2/3 up and 4/3 down.                                   *)
(***************************************************************************)
EXTENDS CpuManager

MCMasses == <<1, 2>>

\* Points average to exactly the load asked for, or lie all at the cap when
\* that is less; none is beyond the cap, and the rounding keeps the bell: over
\* any masses, with the CPU's schedule uncapped and a GPU's capped
\* (normal_schedule.h:12-20).
ASSUME PointsKeepAverage ==
  \A masses \in [1 .. 4 -> {1, 2, 5, 9}], mean \in 0 .. 7, cap \in {0, 3, 6} :
    LET schedule == Walk!BuildNormalSchedulePoints(masses, mean, cap)
        reached  == IF cap > 0 THEN Smaller(mean, cap) ELSE mean
    IN  /\ SumFunction(schedule) = reached * Len(masses)
        /\ \A i \in DOMAIN schedule : schedule[i] >= 0 /\ (cap > 0 => schedule[i] <= cap)
        /\ \A i, j \in DOMAIN schedule : masses[i] > masses[j] => schedule[i] >= schedule[j]

=============================================================================
