-------------------------- MODULE ShareHysteresis ---------------------------
(***************************************************************************)
(* What the hysteresis on another process's share of a GPU promises,       *)
(* without saying how: at every poll the share left to the others is the   *)
(* largest one sighted within the last ResumeMS milliseconds, and none     *)
(* when nothing was sighted for that long (contention/monitor.h:17-26 and  *)
(* the README's section on sharing).  ShareGate implements it with a deque. *)
(***************************************************************************)
EXTENDS Integers

CONSTANTS
  ResumeMS,  \* kGpuYieldResumeMS: how long a sighting counts
  Shares,    \* the percentages another process can be seen to take
  MaxTime    \* bound on the clock

\* std::nullopt: no other process.  Below every share, as in others_percent_.
NoOthers == -1

VARIABLES
  now,        \* the time of the last poll
  sightings,  \* the sightings that still count, with their times
  level       \* what the last poll told to leave to the others

vars == <<now, sightings, level>>

Sighting == [at : 0 .. MaxTime, share : Shares]

\* The members of S that still count at time t.
Recent(S, t) == {s \in S : t - s.at < ResumeMS}

\* l is the largest share in S, or NoOthers when S is empty.
IsLargest(l, S) ==
  \/ S = {} /\ l = NoOthers
  \/ /\ \E s \in S : l = s.share
     /\ \A s \in S : s.share <= l

Init ==
  /\ now = 0
  /\ sightings = {}
  /\ level = NoOthers

\* One poll at time t that sees the others take `others`.
Observe(others, t) ==
  /\ t >= now
  /\ now' = t
  /\ sightings' = Recent(sightings, t)
                    \cup (IF others = NoOthers THEN {}
                          ELSE {[at |-> t, share |-> others]})
  /\ level' \in Shares \cup {NoOthers}
  /\ IsLargest(level', sightings')

Next == \E t \in 0 .. MaxTime, others \in Shares \cup {NoOthers} : Observe(others, t)

Spec == Init /\ [][Next]_vars

=============================================================================
