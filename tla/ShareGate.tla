----------------------------- MODULE ShareGate ------------------------------
(***************************************************************************)
(* gpu::contention::ShareGate (contention/monitor.{h,cc}): the hysteresis  *)
(* that decides what to leave to the other processes of one device, polled *)
(* at whatever times the monitor gets to it.                               *)
(***************************************************************************)
EXTENDS ShareDeque

CONSTANTS
  Shares,    \* the percentages another process can be seen to take
  MaxTime    \* bound on the clock

ASSUME SharesAssumption == Shares \subseteq Nat
ASSUME TimeAssumption   == MaxTime \in Nat

\* An element of seen_.
Sighting == [at : 0 .. MaxTime, share : Shares]

-----------------------------------------------------------------------------

VARIABLES
  now,        \* the time of the last Update
  seen,       \* seen_
  level,      \* what the last Update returned
  sighted     \* history: every sighting less than ResumeMS old

gateVars == <<now, seen, level, sighted>>

Recent(S, t) == {s \in S : t - s.at < ResumeMS}

InitGate ==
  /\ now = 0
  /\ seen = <<>>
  /\ level = NoOthers
  /\ sighted = {}

Update(others, t) ==
  /\ t >= now                  \* steady_clock
  /\ now' = t
  /\ seen' = Updated(seen, others, t)
  /\ level' = Level(seen')
  /\ sighted' = Recent(sighted, t)
                  \cup (IF others = NoOthers THEN {}
                        ELSE {[at |-> t, share |-> others]})

NextGate == \E t \in 0 .. MaxTime, others \in Shares \cup {NoOthers} : Update(others, t)

GateSpec == InitGate /\ [][NextGate]_gateVars

-----------------------------------------------------------------------------

GateTypeOK ==
  /\ now \in 0 .. MaxTime
  /\ seen \in Seq(Sighting)
  /\ level \in Shares \cup {NoOthers}
  /\ sighted \in SUBSET Sighting

\* Everything in seen_ is a sighting that still counts.
SeenRecent ==
  \A i \in 1 .. Len(seen) :
    /\ seen[i] \in sighted
    /\ seen[i].at <= now
    /\ ~Outdated(seen[i], now)

\* Every sighting that still counts is covered by an element of seen_ that is
\* at least as large and lasts at least as long.
Covered ==
  \A s \in sighted :
    \E i \in 1 .. Len(seen) : seen[i].at >= s.at /\ seen[i].share >= s.share

\* The level is never less than a share sighted within ResumeMS, although the
\* deque forgets most of them: what a pop_back threw away is always covered
\* by what replaced it, however the polls are spaced.
LevelCoversRecent == \A s \in sighted : level >= s.share

\* The inductive invariant.
GateInv ==
  /\ GateTypeOK
  /\ InOrder(seen)
  /\ SeenRecent
  /\ Covered
  /\ level = Level(seen)

\* The level falls only to a share that was itself sighted within ResumeMS,
\* or to none when nothing was, and only when every sighting as large as the
\* old level is ResumeMS old: ShareGate::Update's "falls back only once a
\* larger one hasn't been seen for kGpuYieldResumeMS".
FallsOnlyWhenQuiet ==
  [][level' < level =>
       /\ \A s \in sighted : s.share >= level => now' - s.at >= ResumeMS
       /\ level' # NoOthers => \E s \in sighted' : s.share = level']_gateVars

\* ShareGate implements the hysteresis its header promises.
Hysteresis == INSTANCE ShareHysteresis WITH sightings <- sighted
ImplementsHysteresis == Hysteresis!Spec

=============================================================================
