------------------------------ MODULE TickGrid ------------------------------
(***************************************************************************)
(* The steady clock that Runtime::MainLoop paces its rounds by             *)
(* (core/runtime.cc:69-78, :108-119), and the grid on it: a round takes as *)
(* long as it takes, then the loop sleeps until the next boundary.  Time   *)
(* is in units of which Interval make a period (the code has 10^8 ns), and *)
(* counted from the boundary before the last round's start.                *)
(***************************************************************************)
EXTENDS Integers

CONSTANTS
  Interval,     \* kScheduleIntervalMS
  MaxTime       \* bound: of the clock

ASSUME IntervalAssumption == Interval \in Nat \ {0}
ASSUME MaxTimeAssumption  == MaxTime \in Nat /\ MaxTime >= Interval

VARIABLES
  now,          \* steady_clock::now()
  start         \* of the last round

\* Mutation of NextSchedulingTime: a boundary, but not after tp.
NextSchedulingTime_Behind(tp) == (tp \div Interval) * Interval

\* "start + kScheduleIntervalMS" floored to a multiple of it.
NextSchedulingTime(tp) == ((tp + Interval) \div Interval) * Interval

\* The clock starts anywhere; there was no round before.
InitGrid ==
  /\ now \in 0 .. Interval - 1
  /\ start = now - Interval

StartRound ==
  /\ start' = now % Interval
  /\ now' = start'

\* sleep_until returns at once when the time has passed.
Woken == now >= NextSchedulingTime(start)

\* The cell of the grid that the clock is in is not the last round's.
InLaterCell == now \div Interval > start \div Interval

TimePasses ==
  /\ now < MaxTime
  /\ now' = now + 1
  /\ UNCHANGED start

=============================================================================
