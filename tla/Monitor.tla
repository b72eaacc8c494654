------------------------------ MODULE Monitor -------------------------------
(***************************************************************************)
(* gpu::contention::Monitor (contention/monitor.{h,cc}): the thread that   *)
(* samples every contention source once per poll period, merges what they  *)
(* say, and tells each device's worker what to leave to other processes.   *)
(*                                                                         *)
(* A poll is several steps: the own share, one sample per source, one      *)
(* report per device.  Times in a gate are relative to the last poll, so   *)
(* the clock needs no bound; the time between two polls is any of Gaps.    *)
(* What a source sees is free within what source.h allows it to report.    *)
(***************************************************************************)
EXTENDS ShareDeque, Observations, FiniteSets, FiniteSetsExt

CONSTANTS
  Devices,      \* devices_, by identity
  NumSources,   \* sources_, in the order of CreatePlatformSources
  Levels,       \* percentages a device can be measured busy, or busy with us
  Gaps,         \* times between two polls
  WarnPolls     \* kGpuYieldUnknownWarnPolls

ASSUME DevicesAssumption == IsFiniteSet(Devices)
ASSUME SourcesAssumption == NumSources \in Nat
ASSUME LevelsAssumption  == {0, 100} \subseteq Levels /\ Levels \subseteq 0 .. 100
ASSUME GapsAssumption    == Gaps \subseteq Nat
ASSUME WarnAssumption    == WarnPolls \in Nat \ {0}

-----------------------------------------------------------------------------
(* Observations (contention/source.h). *)

Verdicts     == {"unknown", "idle", "busy"}
Observation  == [verdict : Verdicts, busy : Levels \cup {Unmeasured}]

\* What a source may leave in out[i], given what Poll put there: just that, a
\* busy device measured or not, or a verdict of idle.  The sources only ever
\* measure a device they say is busy.
Reports(given) ==
  {given, [given EXCEPT !.verdict = "idle"]} \cup
  [verdict : {"busy"}, busy : Levels \cup {Unmeasured}]

\* std::clamp(x, 0, 100)
Percent(x) == IF x < 0 THEN 0 ELSE IF x > 100 THEN 100 ELSE x

\* The other processes' share, as Poll computes it from what it merged.
OthersShare(merged, own) ==
  IF merged.verdict # "busy" THEN NoOthers
  ELSE IF merged.busy = Unmeasured THEN 100
  ELSE Percent(merged.busy - own)

\* The sightings of a gate seen `gap` later.
Aged(seen, gap) ==
  [i \in 1 .. Len(seen) |-> [seen[i] EXCEPT !.at = @ - gap]]

-----------------------------------------------------------------------------

VARIABLES
  thread,       \* "none", "waiting", "polling", "done"; Init polls with "none"
  stop,         \* the stop token of thread_
  source,       \* sources sampled so far in this poll; -1 outside a poll
  own,          \* own share per device since the previous poll
  merged,       \* per device
  pending,      \* devices this poll has yet to report on
  polled,       \* last_poll_ has a value
  gates,        \* gates_: one deque per device, times relative to the poll
  reported,     \* reported_
  told,         \* what the device's worker was last told (SetOthers)
  unknownPolls, \* unknown_polls_, not counted beyond WarnPolls
  warnings,     \* history: warnings logged per device
  heard,        \* history: what the sources left in out[i] during this poll
  sightings     \* history: the shares seen within ResumeMS, per device

poll    == <<source, own, merged, pending>>
ctrl    == <<thread, stop, polled>>
results == <<gates, reported, told, unknownPolls, warnings>>
vars    == <<ctrl, poll, results, heard, sightings>>

Init ==
  /\ thread = "none"
  /\ stop = FALSE
  /\ source = -1
  /\ own = [d \in Devices |-> 0]
  /\ merged = [d \in Devices |-> Unknown]
  /\ pending = {}
  /\ polled = FALSE
  /\ gates = [d \in Devices |-> <<>>]
  /\ reported = [d \in Devices |-> NoOthers]
  /\ told = [d \in Devices |-> NoOthers]
  /\ unknownPolls = [d \in Devices |-> 0]
  /\ warnings = [d \in Devices |-> 0]
  /\ heard = [d \in Devices |-> {}]
  /\ sightings = [d \in Devices |-> {}]

\* Poll begins, `gap` after the previous one: from GpuResourceManager::Init
\* before the thread starts, later when the thread's wait times out.
BeginPoll(gap) ==
  /\ source = -1 /\ pending = {}
  /\ \/ thread = "none" /\ ~polled
     \/ thread = "waiting" /\ ~stop
  /\ thread' = IF thread = "waiting" THEN "polling" ELSE thread
  /\ own' \in IF polled /\ gap > 0
                THEN [Devices -> Levels]
                ELSE {[d \in Devices |-> 0]}
  /\ source' = 0
  /\ polled' = TRUE
  /\ gates' = [d \in Devices |-> Aged(gates[d], gap)]
  /\ sightings' = [d \in Devices |-> {[s EXCEPT !.at = @ - gap] : s \in sightings[d]}]
  /\ UNCHANGED <<stop, merged, pending, reported, told, unknownPolls, warnings, heard>>

\* source->Sample(devices_, seen), and the merge of what it left there.
Sample ==
  /\ source >= 0 /\ source < NumSources
  /\ \E seen \in [Devices -> Observation] :
       /\ \A d \in Devices : seen[d] \in Reports(Given(merged[d]))
       /\ merged' = [d \in Devices |-> Merge(merged[d], seen[d])]
       /\ heard' = [d \in Devices |-> heard[d] \cup {seen[d]}]
  /\ source' = source + 1
  /\ UNCHANGED <<ctrl, own, pending, results, sightings>>

EndSampling ==
  /\ source = NumSources
  /\ source' = -1
  /\ pending' = Devices
  /\ UNCHANGED <<ctrl, own, merged, results, heard, sightings>>

\* Mutation of CountUnknown: a device that is seen again starts afresh.
CountUnknown_Restarts(d) ==
  \/ /\ merged[d].verdict # "unknown"
     /\ unknownPolls' = [unknownPolls EXCEPT ![d] = 0]
     /\ UNCHANGED warnings
  \/ /\ merged[d].verdict = "unknown"
     /\ unknownPolls' = [unknownPolls EXCEPT ![d] = IF @ > WarnPolls THEN @ ELSE @ + 1]
     /\ warnings' = [warnings EXCEPT
          ![d] = IF unknownPolls[d] + 1 = WarnPolls THEN @ + 1 ELSE @]

\* Whether a device is seen at all: warn once no source could for WarnPolls
\* polls in a row, and never again.
CountUnknown(d) ==
  \/ /\ merged[d].verdict # "unknown"
     /\ unknownPolls' = [unknownPolls EXCEPT ![d] = IF @ < WarnPolls THEN 0 ELSE @]
     /\ UNCHANGED warnings
  \/ /\ merged[d].verdict = "unknown"
     /\ unknownPolls' = [unknownPolls EXCEPT ![d] = IF @ > WarnPolls THEN @ ELSE @ + 1]
     /\ warnings' = [warnings EXCEPT
          ![d] = IF unknownPolls[d] + 1 = WarnPolls THEN @ + 1 ELSE @]

\* Mutations of Report: only when sharing starts or ends, and only while
\* there are others.
Report_OnlyEdges(d, level) ==
  /\ reported' = [reported EXCEPT ![d] = level]
  /\ told' = [told EXCEPT
       ![d] = IF (level = NoOthers) # (reported[d] = NoOthers) THEN level ELSE @]
Report_NeverBack(d, level) ==
  IF level \in {reported[d], NoOthers}
    THEN UNCHANGED <<reported, told>>
    ELSE /\ reported' = [reported EXCEPT ![d] = level]
         /\ told' = [told EXCEPT ![d] = level]

\* on_change_: only when the level changed.
Report(d, level) ==
  IF level = reported[d]
    THEN UNCHANGED <<reported, told>>
    ELSE /\ reported' = [reported EXCEPT ![d] = level]
         /\ told' = [told EXCEPT ![d] = level]

Conclude(d) ==
  /\ d \in pending
  /\ LET others == OthersShare(merged[d], own[d])
     IN  /\ gates' = [gates EXCEPT ![d] = Updated(@, others, 0)]
         /\ sightings' = [sightings EXCEPT
              ![d] = {s \in @ : ~Outdated(s, 0)} \cup
                       (IF others = NoOthers THEN {}
                        ELSE {[at |-> 0, share |-> others]})]
  /\ Report(d, Level(gates'[d]))
  /\ CountUnknown(d)
  /\ pending' = pending \ {d}
  /\ merged' = [merged EXCEPT ![d] = Unknown]
  /\ own' = [own EXCEPT ![d] = 0]
  /\ heard' = [heard EXCEPT ![d] = {}]
  /\ thread' = IF pending' = {} /\ thread = "polling" THEN "waiting" ELSE thread
  /\ UNCHANGED <<stop, polled, source>>

\* Start(): no thread without a source.
Start ==
  /\ thread = "none" /\ polled /\ source = -1 /\ pending = {}
  /\ ~stop
  /\ NumSources > 0
  /\ thread' = "waiting"
  /\ UNCHANGED <<stop, polled, poll, results, heard, sightings>>

RequestStop ==
  /\ thread \in {"waiting", "polling"}
  /\ ~stop
  /\ stop' = TRUE
  /\ UNCHANGED <<thread, polled, poll, results, heard, sightings>>

\* The wait returns at once when stopped; Loop() ends.
Exit ==
  /\ thread = "waiting" /\ stop
  /\ thread' = "done"
  /\ UNCHANGED <<stop, polled, poll, results, heard, sightings>>

Poll == \/ \E gap \in Gaps : BeginPoll(gap)
        \/ Sample
        \/ EndSampling
        \/ \E d \in Devices : Conclude(d)

Next == Poll \/ Start \/ RequestStop \/ Exit

\* The poll period elapses, sources answer, the main thread starts the
\* monitor; it need not stop it.
Fairness == WF_vars(Poll) /\ WF_vars(Start) /\ WF_vars(Exit)

Spec     == Init /\ [][Next]_vars
FairSpec == Spec /\ Fairness

-----------------------------------------------------------------------------

\* What a worker was last told to leave is the largest share seen within
\* ResumeMS before its device's last poll, or that there are no others when
\* none was: no change is lost between gate, report and worker.
LeavesLargestRecentShare ==
  \A d \in Devices :
    source = -1 /\ d \notin pending =>
      LET recent == {s \in sightings[d] : ~Outdated(s, 0)}
      IN  told[d] = IF recent = {} THEN NoOthers
                    ELSE Max({s.share : s \in recent})

\* The reference for a poll's outcome: any source that says busy makes the
\* device busy, and the largest measurement counts, whatever the order of the
\* sources (source.h:26-29, "a device counts as busy when any of them says
\* so").
ShareHeard(d) ==
  LET busy     == {o \in heard[d] : o.verdict = "busy"}
      measured == {o.busy : o \in heard[d]} \ {Unmeasured}
  IN  IF busy = {} THEN NoOthers
      ELSE IF measured = {} THEN 100
      ELSE Percent(Max(measured) - own[d])

\* Sources can only add: the merge of the sources in turn is the reference.
MergeLosesNothing ==
  \A d \in Devices :
    source = NumSources \/ d \in pending => OthersShare(merged[d], own[d]) = ShareHeard(d)

\* A device is warned about at most once, even if it flaps (monitor.cc:95).
WarnsAtMostOnce == \A d \in Devices : warnings[d] <= 1

\* A device no other process uses any more is given back in full.
ComesBack ==
  \A d \in Devices :
    <>[](thread \in {"waiting", "polling"} /\ ~stop
           /\ \A o \in heard[d] : o.verdict # "busy")
      => <>[](told[d] = NoOthers)

=============================================================================
