------------------------------ MODULE Options -------------------------------
(***************************************************************************)
(* core::Options (core/options.cc): ProcessCliArguments looks at the       *)
(* options in a fixed order, whatever the order on the command line was,   *)
(* and returns at the first it refuses.  An argument is chosen when it is  *)
(* looked at; None is an option that was not given, and Malformed stands   *)
(* for whatever its parser refuses.                                        *)
(***************************************************************************)
EXTENDS Integers, Sequences, SequencesExt

CONSTANTS
  CoreCounts,        \* values of cpu::CoreCount()
  DefaultCpuLoad,    \* kDefaultCpuLoad
  MaxLoadPerCore,    \* kCpuMaxLoadPerCore
  MaxGpuLoad,        \* kGpuMaxLoadPerDevice
  Numbers,           \* per option, the integers given as its argument
  IndexLists         \* the -gi arguments: sequences of integers, or AllDevices

ASSUME OptionsAssumption ==
  /\ CoreCounts \subseteq Nat \ {0}
  /\ {DefaultCpuLoad, MaxLoadPerCore, MaxGpuLoad} \subseteq Nat
  /\ \A flag \in DOMAIN Numbers : Numbers[flag] \subseteq Int

VARIABLES
  cores,     \* cpu::CoreCount()
  step,      \* what is looked at next; "ready" and "refused" are the ends
  given,     \* [load, any]: whether -l, and whether any option was given
  opts       \* the fields of Options

optionVars == <<cores, step, given, opts>>

AllDevices == <<>>    \* "all", and the empty gpu_indices_

CpuAlgorithms == {"default", "rand_normal"}
GpuVendors    == {"auto", "nvidia", "amd", "apple", "intel", "opencl"}

Defaults ==
  [cpuLoad |-> DefaultCpuLoad, cpuCount |-> 0, cpuAlgorithm |-> "default", memory |-> 0,
   gpuLoad |-> 0, gpuMemory |-> 0, gpuIndices |-> AllDevices, gpuVendor |-> "auto",
   gpuAlgorithm |-> "default"]

Init ==
  /\ cores \in CoreCounts
  /\ step = "-l"
  /\ given = [load |-> FALSE, any |-> FALSE]
  /\ opts = Defaults

Refuse == step' = "refused" /\ UNCHANGED opts

Seen(flag) == given' = [load |-> given.load \/ flag = "-l", any |-> TRUE]

\* The option `flag` is looked at: it sets `field` if it is given and valid.
Look(flag, next, field, values, valid) ==
  /\ step = flag
  /\ UNCHANGED cores
  /\ \/ step' = next /\ UNCHANGED <<opts, given>>
     \/ /\ Seen(flag)
        /\ \E v \in values :
             IF v \in valid THEN step' = next /\ opts' = [opts EXCEPT ![field] = v] ELSE Refuse

\* The same for an option with a table of names.
LookUp(flag, next, field, names) ==
  Look(flag, next, field, names \cup {"malformed"}, names)

CpuThreads == IF opts.cpuCount > 0 THEN opts.cpuCount ELSE cores

\* The level of the default logger is no field of Options.
LogLevel ==
  /\ step = "-L"
  /\ UNCHANGED <<cores, opts>>
  /\ \/ step' = "-g" /\ UNCHANGED given
     \/ step' \in {"-g", "refused"} /\ Seen("-L")

\* Mutation of FitLoad: every core counts, whatever -c says.
FitLoad_AllCores ==
  /\ step = "fit"
  /\ UNCHANGED <<cores, given>>
  /\ LET most == cores * MaxLoadPerCore
     IN  IF opts.cpuLoad <= most THEN step' = "-ca" /\ UNCHANGED opts
         ELSE IF given.load THEN Refuse
         ELSE step' = "-ca" /\ opts' = [opts EXCEPT !.cpuLoad = most]

\* An explicit load the threads cannot burn is refused, the default is capped.
FitLoad ==
  /\ step = "fit"
  /\ UNCHANGED <<cores, given>>
  /\ LET most == CpuThreads * MaxLoadPerCore
     IN  IF opts.cpuLoad <= most THEN step' = "-ca" /\ UNCHANGED opts
         ELSE IF given.load THEN Refuse
         ELSE step' = "-ca" /\ opts' = [opts EXCEPT !.cpuLoad = most]

\* ParseGpuIndices: a number that is no index, or one given twice.
IndicesOk(indices) == IsInjective(indices) /\ \A i \in DOMAIN indices : indices[i] >= 0

ProcessCliArguments ==
  \/ Look("-l", "-c", "cpuLoad", Numbers["-l"], Nat)
  \/ Look("-c", "fit", "cpuCount", Numbers["-c"], 0 .. cores)
  \/ FitLoad
  \/ LookUp("-ca", "-m", "cpuAlgorithm", CpuAlgorithms)
  \/ Look("-m", "-L", "memory", Numbers["-m"], Nat)
  \/ LogLevel
  \/ Look("-g", "-gm", "gpuLoad", Numbers["-g"], 0 .. MaxGpuLoad)
  \/ Look("-gm", "-gi", "gpuMemory", Numbers["-gm"], Nat)
  \/ Look("-gi", "-gv", "gpuIndices", IndexLists, {l \in IndexLists : IndicesOk(l)})
  \/ LookUp("-gv", "-ga", "gpuVendor", GpuVendors)
  \/ LookUp("-ga", "ready", "gpuAlgorithm", CpuAlgorithms)

\* What was accepted can be burned by the threads there are: at most one core
\* each, and no more threads than cores (options.cc:93-110).  A run without
\* -l and -c is accepted on any machine.
AcceptedIsPossible ==
  /\ step = "ready" => /\ opts.cpuLoad <= CpuThreads * MaxLoadPerCore
                       /\ CpuThreads <= cores
  /\ step = "refused" => given.any

=============================================================================
