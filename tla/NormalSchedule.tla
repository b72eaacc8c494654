--------------------------- MODULE NormalSchedule ---------------------------
(***************************************************************************)
(* util::BuildNormalSchedulePoints (util/normal_schedule.cc): the load     *)
(* points of a rand_normal schedule.  The mass of each bin of the          *)
(* distribution is given, as a whole number of parts: that they are        *)
(* normal's makes the bell, and nothing here rests on it.                  *)
(*                                                                         *)
(* The code's doubles are exact fractions.  A round of the water-filling   *)
(* scales every value below the cap by one factor, so that these remain in *)
(* proportion to their masses and share what those at the cap leave: the   *)
(* points at the cap are all there is to know between two rounds.          *)
(***************************************************************************)
EXTENDS Integers, Sequences, FiniteSets, Functions

\* What the points of S weigh: values(S) sums up to it.
Mass(masses, S) == FoldFunctionOnSet(+, 0, masses, S)

\* Points at the cap once every round is over: in each, those that reach it
\* with their share of what is left are clipped, until no excess remains.
AtCap(masses, total, cap) ==
  LET points == DOMAIN masses
      capped[round \in 0 .. Len(masses)] ==
        IF round = 0 THEN {}
        ELSE LET before == capped[round - 1]
                 left   == total - cap * Cardinality(before)
                 weight == Mass(masses, points \ before)
             IN  before \cup {i \in points \ before : masses[i] * left >= cap * weight}
  IN  capped[Len(masses)]

\* Floors by themselves: what largest-remainder rounding improves on.
Floors(masses, full, left, max) ==
  [i \in DOMAIN masses |-> IF i \in full THEN max
                           ELSE (masses[i] * left) \div Mass(masses, DOMAIN masses \ full)]

\* The points that rounding raises by one: as many as the floors lack of the
\* total, those with the largest remainders first, in order among equals.
Raised(masses, full, left, missing) ==
  LET below       == DOMAIN masses \ full
      rest        == [i \in below |-> (masses[i] * left) % Mass(masses, below)]
      ahead(i)    == {j \in below : rest[j] > rest[i] \/ (rest[j] = rest[i] /\ j < i)}
  IN  {i \in below : Cardinality(ahead(i)) < missing}

\* The points for an average of meanLoad, none beyond max unless that is 0.
BuildNormalSchedulePoints(masses, meanLoad, max) ==
  LET count  == Len(masses)
      total  == meanLoad * count
      full   == IF max > 0 THEN AtCap(masses, total, max) ELSE {}
      left   == IF max > 0 THEN total - max * Cardinality(full) ELSE total
      floors == Floors(masses, full, left, max)
      goal   == IF max > 0 /\ max * count < total THEN max * count ELSE total
      raised == Raised(masses, full, left, goal - Mass(floors, DOMAIN masses))
  IN  [i \in DOMAIN masses |-> floors[i] + (IF i \in raised THEN 1 ELSE 0)]

=============================================================================
