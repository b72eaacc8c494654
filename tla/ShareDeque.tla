----------------------------- MODULE ShareDeque -----------------------------
(***************************************************************************)
(* The deque behind gpu::contention::ShareGate (contention/monitor.cc), as *)
(* operators: sightings [at, share], oldest first, from which a sighting   *)
(* is dropped as soon as a later one is at least as large.                 *)
(***************************************************************************)
EXTENDS Integers, Sequences

CONSTANT ResumeMS  \* kGpuYieldResumeMS: how long a sighting counts

ASSUME ResumeAssumption == ResumeMS \in Nat \ {0}

\* std::nullopt: no other process.  Below every share, as in others_percent_.
NoOthers == -1

Outdated(s, t) == t - s.at >= ResumeMS

\* pop_front while the front is outdated.
DropOutdated(seen, t) ==
  LET k == CHOOSE n \in 0 .. Len(seen) :
             /\ \A i \in 1 .. n : Outdated(seen[i], t)
             /\ n < Len(seen) => ~Outdated(seen[n + 1], t)
  IN  SubSeq(seen, k + 1, Len(seen))

\* pop_back while the back is no larger than `share`.
DropCovered(seen, share) ==
  LET k == CHOOSE n \in 0 .. Len(seen) :
             /\ \A i \in n + 1 .. Len(seen) : seen[i].share <= share
             /\ n > 0 => seen[n].share > share
  IN  SubSeq(seen, 1, k)

\* seen_ after Update(others, t).
Updated(seen, others, t) ==
  LET kept == DropOutdated(seen, t)
  IN  IF others = NoOthers
        THEN kept
        ELSE Append(DropCovered(kept, others), [at |-> t, share |-> others])

\* Mutation of Level: the newest sighting instead of the largest.
Level_Newest(seen) == IF seen = <<>> THEN NoOthers ELSE seen[Len(seen)].share

\* What Update returns, given seen_ as it leaves it.
Level(seen) == IF seen = <<>> THEN NoOthers ELSE seen[1].share

\* In order of time and, strictly, of decreasing share.
InOrder(s) ==
  \A i, j \in 1 .. Len(s) :
    i < j => /\ s[i].at <= s[j].at
             /\ s[i].share > s[j].share

=============================================================================
