---------------------------- MODULE Observations ----------------------------
(***************************************************************************)
(* gpu::contention::Observation (contention/source.h): what one source saw *)
(* on one device during a poll, and how Monitor::Poll merges it.           *)
(***************************************************************************)
EXTENDS Integers

Unmeasured == -1
Unknown    == [verdict |-> "unknown", busy |-> Unmeasured]

MeasuredBusy(o) == o.verdict = "busy" /\ o.busy # Unmeasured

\* What a source is given: just what an earlier one found busy and measured.
Given(merged) == IF MeasuredBusy(merged) THEN merged ELSE Unknown

\* Mutation of Merge: the last measurement wins.
Merge_LastWins(merged, seen) ==
  [verdict |-> IF seen.verdict = "busy" THEN "busy"
               ELSE IF seen.verdict = "idle" /\ merged.verdict = "unknown" THEN "idle"
               ELSE merged.verdict,
   busy    |-> seen.busy]

\* merged[i] after a source left `seen` in its place.
Merge(merged, seen) ==
  [verdict |-> IF seen.verdict = "busy" THEN "busy"
               ELSE IF seen.verdict = "idle" /\ merged.verdict = "unknown" THEN "idle"
               ELSE merged.verdict,
   busy    |-> IF seen.busy > merged.busy THEN seen.busy ELSE merged.busy]

=============================================================================
