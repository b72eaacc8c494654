----------------------------- MODULE CpuManager -----------------------------
(***************************************************************************)
(* cpu::CpuResourceManager with both of its schedulers, the controller and *)
(* the two measurements it rests on (cpu/manager*.cc, load_controller.cc,  *)
(* util/proc_stat.cc), closed over the machine they measure: what the      *)
(* workers burn until the next tick is part of what that tick reads.       *)
(*                                                                         *)
(* Time is in scheduling ticks.  A counter appears as its distance from    *)
(* the baseline it is read against, and a baseline's time as its age.      *)
(* Loads are percent of a core; the code's doubles are counted in parts of *)
(* 1/Scale percent.                                                        *)
(***************************************************************************)
EXTENDS Integers, FiniteSets, SequencesExt

CONSTANTS
  PerCore,        \* kCpuMaxLoadPerCore
  Interval,       \* kScheduleIntervalMS
  Cores,          \* CoreCount()
  CpuLoads,       \* `-l`
  CpuCounts,      \* `-c`, 0 when not given
  Count, Masses,  \* the rand_normal points and the mass of each one's bin
  WalkInterval,   \* kCpuRandNormalScheduleIntervalMS
  Window,         \* kCpuAvgLoadSamplingCount
  ProcInterval,   \* kProcStatIntervalMS
  KiInverse,      \* 1 / kCpuLoadControllerKi
  Scale,          \* parts a percent is counted in
  OtherLoads,     \* what other processes may take
  Shortfalls,     \* by how much the workers may miss their budget
  Gaps,           \* time from a tick to the next; 1 when on time
  MaxAge,         \* bound: the longest time without a good read
  MaxDisturbances \* bound: changes of load, late ticks and failed reads

ASSUME PerCoreAssumption  == PerCore \in Nat \ {0} /\ Interval \in Nat \ {0}
ASSUME CoresAssumption    == Cores \in Nat \ {0}
ASSUME CpuLoadsAssumption == CpuLoads \subseteq Nat \ {0} /\ CpuCounts \subseteq Nat
ASSUME WalkAssumption     == Count \in Nat \ {0} /\ WalkInterval \in Nat \ {0}
ASSUME ControlAssumption  == /\ KiInverse \in Nat \ {0}
                             /\ Scale \in Nat \ {0}
                             /\ Window \in Nat \ {0}
                             /\ ProcInterval \in Nat \ {0}
ASSUME MachineAssumption  == /\ OtherLoads \subseteq 0 .. Cores * PerCore
                             /\ Shortfalls \subseteq Nat
                             /\ Gaps \subseteq Nat \ {0}
                             /\ MaxAge \in Nat /\ MaxDisturbances \in Nat

VARIABLES
  mode,       \* GetCpuAlgorithm(): "default" or "rand_normal"
  cpuLoad,    \* GetCpuLoad()
  others,     \* what other processes take
  shortfall,  \* what the workers lack of their budget
  loads,      \* load_set_ of each worker
  due,        \* Schedule() is about to run
  sys,        \* prev_busy_ticks_, has_prev_busy_ticks_ and last_scheduling_
  proc,       \* proc_stat_
  sysSampler, \* system_sampler_
  procSampler,\* process_sampler_
  integral,   \* controller_.integral_
  points, order, pointIdx, target, age, started, used,   \* of NormalWalk
  disturbances, \* bounded: how many there were
  sysRange,   \* history: least and greatest load since the system baseline
  procRange   \* history: the same of our own, since the process baseline

INSTANCE RollingSampler
Walk == INSTANCE NormalWalk

ASSUME MassesAssumption == /\ Masses \in Seq(Nat) /\ Len(Masses) = Count
                           /\ Walk!Mass(Masses, 1 .. Count) \in Nat \ {0}

walk     == <<points, order, pointIdx, target, age, started, used>>
options  == <<mode, cpuLoad, shortfall>>
samplers == <<sysSampler, procSampler>>
vars     == <<options, others, loads, due, sys, proc, samplers, integral, walk,
              disturbances, sysRange, procRange>>

Workers  == DOMAIN loads
Capacity == Cardinality(Workers) * PerCore
Clamp(x, low, high) == IF x < low THEN low ELSE IF x > high THEN high ELSE x
Smaller(a, b) == IF a <= b THEN a ELSE b
Larger(a, b)  == IF a >= b THEN a ELSE b
Abs(x)   == IF x < 0 THEN -x ELSE x
Nearest(parts) == (2 * parts + Scale) \div (2 * Scale)

Unread     == [least |-> Cores * PerCore, greatest |-> 0]
Widen(r, load) == [least |-> Smaller(load, r.least), greatest |-> Larger(load, r.greatest)]

-----------------------------------------------------------------------------
(* Start-up. *)

\* Workers that Init() creates; Peak is the largest point.
Peak == Max({points[i] : i \in 1 .. Count})

WorkersFor(load, cpus) ==
  IF cpus > 0 THEN cpus ELSE (load + PerCore - 1) \div PerCore

\* A manager whose Init() fails is dropped by the runtime: these succeed.
InitSucceeds(algorithm, count) ==
  /\ count \in 1 .. Cores
  /\ algorithm = "rand_normal" => \A i \in 1 .. Count : points[i] <= count * PerCore

Init ==
  /\ mode \in {"default", "rand_normal"}
  /\ cpuLoad \in CpuLoads
  /\ Walk!Init(cpuLoad, 0)     \* no cap: the workers are as many as the peak needs
  /\ mode = "default" => order = [i \in 1 .. Count |-> i]    \* it has no points
  /\ \E cpus \in CpuCounts :
       LET count == WorkersFor(IF mode = "default" THEN cpuLoad ELSE Peak, cpus)
       IN  /\ InitSucceeds(mode, count)
           /\ loads = [w \in 1 .. count |-> 0]
  /\ others \in OtherLoads
  /\ shortfall \in Shortfalls
  /\ due = FALSE
  /\ sys  = [known |-> FALSE, busy |-> 0, age |-> 0]
  /\ proc = [known |-> FALSE, busy |-> 0, age |-> 0, load |-> 0]
  /\ sysSampler = NoSamples
  /\ procSampler = NoSamples
  /\ integral = 0
  /\ disturbances = 0
  /\ sysRange = Unread
  /\ procRange = Unread

-----------------------------------------------------------------------------
(* The machine. *)

\* What happens is a disturbance of the control loop, or is not.
Disturbed(isOne) == /\ disturbances' = disturbances + (IF isOne THEN 1 ELSE 0)
                    /\ disturbances' <= MaxDisturbances

\* What the workers burn of their budgets while others take `taken`.
Burnt(taken) ==
  LET asked == FoldFunction(+, 0, [w \in Workers |-> (loads[w] * PerCore) \div Interval])
  IN  Smaller(Clamp(asked - shortfall, 0, asked), Cores * PerCore - taken)

\* The main loop sleeps; both counters and both ages go on.
Work(gap, taken) ==
  LET ours   == Burnt(taken)
      system == taken + ours
  IN  /\ ~due
      /\ due' = TRUE
      /\ others' = taken
      /\ sys'  = IF sys.known  THEN [sys EXCEPT !.busy = @ + gap * system,
                                                !.age = @ + gap]
                               ELSE sys
      /\ proc' = IF proc.known THEN [proc EXCEPT !.busy = @ + gap * ours,
                                                 !.age = @ + gap]
                               ELSE proc
      /\ sys'.age <= MaxAge /\ proc'.age <= MaxAge
      /\ sysRange'  = Widen(sysRange, system)
      /\ procRange' = Widen(procRange, ours)
      /\ Walk!Elapse(gap)
      /\ Disturbed(gap # 1 \/ taken # others)
      /\ UNCHANGED <<options, loads, samplers, integral>>

-----------------------------------------------------------------------------
(* Schedule(). *)

\* Mutation of FailedRead: only the time of the baseline moves on.
FailedRead_MovesTime ==
  /\ due
  /\ sys.age < MaxAge /\ proc.age < MaxAge
  /\ due' = FALSE
  /\ sys' = [sys EXCEPT !.age = 0]
  /\ Disturbed(TRUE)
  /\ UNCHANGED <<options, others, loads, proc, samplers, integral, walk,
                 sysRange, procRange>>

\* ReadSystemBusyTicks() failed: baseline and time both stay.
FailedRead ==
  /\ due
  /\ sys.age < MaxAge /\ proc.age < MaxAge
  /\ due' = FALSE
  /\ Disturbed(TRUE)
  /\ UNCHANGED <<options, others, loads, sys, proc, samplers, integral, walk,
                 sysRange, procRange>>

\* The first good read: nothing to compare with.
FirstRead ==
  /\ due
  /\ ~sys.known
  /\ due' = FALSE
  /\ sys' = [known |-> TRUE, busy |-> 0, age |-> 0]
  /\ sysRange' = Unread
  /\ Disturbed(FALSE)
  /\ UNCHANGED <<options, others, loads, proc, samplers, integral, walk, procRange>>

\* ProcStat::UpdateCpuStat(): throttled; a failed read keeps everything.
IsThrottled == proc.known /\ proc.age < ProcInterval

UpdateCpuStat(readable) ==
  IF IsThrottled \/ ~readable
    THEN UNCHANGED <<proc, procRange>>
    ELSE /\ proc' = [known |-> TRUE, busy |-> 0, age |-> 0,
                     load  |-> IF proc.known /\ proc.age > 0
                                 THEN (proc.busy * Scale) \div proc.age
                                 ELSE proc.load]
         /\ procRange' = Unread

\* LoadController::Update(), for a mean system and a mean process load.
Feedforward(goal, system, process) ==
  goal * Scale - Larger(0, system - process)

Candidate(goal, system) == integral + (goal * Scale - system) \div KiInverse

\* Mutation of NewIntegral: the error is never integrated.
NewIntegral_Frozen(goal, system, process) == integral

NewIntegral(goal, system, process) ==
  LET raw == Feedforward(goal, system, process) + Candidate(goal, system)
      cap == Capacity * Scale
      saturated == \/ raw > cap /\ goal * Scale > system
                   \/ raw < 0   /\ goal * Scale < system
  IN  IF saturated THEN integral ELSE Clamp(Candidate(goal, system), -cap, cap)

Demand(goal, system, process) ==
  Nearest(Clamp(Feedforward(goal, system, process) + integral', 0, Capacity * Scale))

\* SetWorkerLoadWithTotalLoad(): base load to all, the remainder one by one.
Split(total) ==
  LET n         == Cardinality(Workers)
      base      == Clamp(total, 0, Capacity) \div n
      remainder == Clamp(total, 0, Capacity) % n
  IN  [w \in Workers |-> ((base + (IF w <= remainder THEN 1 ELSE 0)) * Interval) \div PerCore]

\* AdjustWorkerLoad() of both managers.
AdjustWorkerLoad ==
  LET goal    == IF mode = "default" THEN cpuLoad ELSE target'
      system  == Mean(sysSampler')
      process == Mean(procSampler')
  IN  /\ IF mode = "default" THEN UNCHANGED walk ELSE Walk!UpdateLoadTarget
      /\ integral' = NewIntegral(goal, system, process)
      /\ loads' = Split(Demand(goal, system, process))

\* A good read: one sample of each load, then the new budgets.  (Time does
\* pass between two rounds of the main loop, so sys.age > 0: TickGrid.)
GoodRead(readable) ==
  /\ due
  /\ sys.known
  /\ ~readable => ~IsThrottled /\ proc.age < MaxAge
  /\ due' = FALSE
  /\ UpdateCpuStat(readable)
  /\ procSampler' = Insert(procSampler, proc'.load, Window)
  /\ sys' = [sys EXCEPT !.busy = 0, !.age = 0]
  /\ sysRange' = Unread
  /\ IF sys.age <= 0
       THEN UNCHANGED <<sysSampler, integral, loads, walk>>
       ELSE /\ sysSampler' = Insert(sysSampler, (sys.busy * Scale) \div sys.age, Window)
            /\ AdjustWorkerLoad
  /\ Disturbed(~readable)
  /\ UNCHANGED <<options, others>>

Next ==
  \/ \E gap \in Gaps, taken \in OtherLoads : Work(gap, taken)
  \/ FailedRead
  \/ FirstRead
  \/ \E readable \in BOOLEAN : GoodRead(readable)

Spec == Init /\ [][Next]_vars

\* The main loop goes on: it sleeps and schedules in turn, and nothing of
\* either waits for anything.
FairSpec == Spec /\ WF_due(due' = ~due)

-----------------------------------------------------------------------------
(* Properties. *)

Samplers == [values : Seq(Nat), index : 0 .. Window - 1, sum : Nat]

\* Budgets fit a scheduling period, the integral the capacity.
TypeOK ==
  /\ mode \in {"default", "rand_normal"} /\ cpuLoad \in CpuLoads
  /\ others \in OtherLoads /\ shortfall \in Shortfalls
  /\ \E n \in 1 .. Cores : loads \in [1 .. n -> 0 .. Interval]
  /\ due \in BOOLEAN
  /\ sys \in [known : BOOLEAN, busy : Nat, age : 0 .. MaxAge]
  /\ proc \in [known : BOOLEAN, busy : Nat, age : 0 .. MaxAge, load : Nat]
  /\ {sysSampler, procSampler} \subseteq Samplers
  /\ \A s \in {sysSampler, procSampler} :
       /\ Len(s.values) <= Window
       /\ s.sum = FoldSeq(+, 0, s.values)
  /\ integral \in -(Capacity * Scale) .. Capacity * Scale
  /\ Walk!TypeOK
  /\ disturbances \in 0 .. MaxDisturbances

\* Every sample lies between the least and the greatest load there was in the
\* time it stands for, also when reads failed or a tick was late: busy time is
\* divided by the time it was collected in, and none is counted twice (the
\* comment at cpu/manager.cc:48-51; ProcStat::UpdateCpuStat).
IsWithin(sample, range) ==
  sample \in range.least * Scale .. range.greatest * Scale

SamplesMatchTheLoad ==
  [][\A readable \in BOOLEAN : GoodRead(readable) =>
       /\ IsWithin(Newest(sysSampler'), sysRange)
       /\ proc.known /\ proc' # proc => IsWithin(proc'.load, procRange)]_vars

\* The average over a rand_normal period is the load asked for: each period
\* uses each point once, whatever the shuffles, what it used adds up to no
\* less and no more than the period at that load, and no point is beyond what
\* the workers can burn (BuildNormalSchedulePoints, UpdateLoadTarget, and the
\* checks in Init()).
PeriodKeepsAverage ==
  /\ Walk!EachPointOncePerPeriod
  /\ started /\ pointIdx = 0 =>
       SumFunction([i \in 1 .. Count |-> points[used[i]]]) = cpuLoad * Count
  /\ mode = "rand_normal" => target <= Capacity

\* As close as the workers can bring the system to the load asked for: within
\* a percent, or idle beside others that take more, or all of them flat out.
Settled ==
  LET mean == Mean(sysSampler)
      goal == cpuLoad * Scale
  IN  \/ Abs(mean - goal) < Scale
      \/ mean > goal /\ \A w \in Workers : loads[w] = 0
      \/ mean < goal /\ \A w \in Workers : loads[w] = Interval

\* When nothing disturbs it any more the controller settles on the target,
\* whatever the workers lack of their budgets and however stale its view of
\* its own load is (cpu/load_controller.h:13-20).
SettlesOnTarget ==
  mode = "default" /\ <>[][disturbances' = disturbances]_vars => <>[]Settled
=============================================================================
