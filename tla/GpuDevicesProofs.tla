-------------------------- MODULE GpuDevicesProofs --------------------------
(***************************************************************************)
(* Proofs about GpuDevices, for every table of option values, whatever the *)
(* drivers report and whichever of their calls fail.                       *)
(***************************************************************************)
EXTENDS GpuDevices, FiniteSetTheorems, WellFoundedInduction, TLAPS

-----------------------------------------------------------------------------
(***************************************************************************)
(* The options.                                                            *)
(***************************************************************************)

\* The options that are looked at once the load was held against the threads.
AfterFit == {"-ca", "-m", "-L", "-g", "-gm", "-gi", "-gv", "-ga", "ready"}

\* What is known of the options while they are looked at.
OptionsInv ==
  /\ {"cpuLoad", "cpuCount", "gpuIndices", "gpuVendor"} \subseteq DOMAIN opts
  /\ opts.gpuVendor \in GpuVendors
  /\ given.load => given.any
  /\ step = "refused" => given.any
  /\ step \in {"-l", "-c", "fit"} \cup AfterFit =>
       cores \in Nat /\ opts.cpuLoad \in Nat /\ opts.cpuCount \in 0 .. cores
  /\ step \in AfterFit => opts.cpuLoad <= CpuThreads * MaxLoadPerCore

\* Each option leaves alone what was held against each other before.
LEMMA OptionsStep ==
  ASSUME OptionsInv, ProcessCliArguments
  PROVE  OptionsInv'
<1> USE OptionsAssumption
<1>1. CASE Look("-l", "-c", "cpuLoad", Numbers["-l"], Nat)
  BY <1>1 DEF OptionsInv, AfterFit, Look, Refuse, Seen
<1>2. CASE Look("-c", "fit", "cpuCount", Numbers["-c"], 0 .. cores)
  BY <1>2 DEF OptionsInv, AfterFit, Look, Refuse, Seen
<1>3. CASE FitLoad
  BY <1>3 DEF OptionsInv, AfterFit, FitLoad, Refuse, CpuThreads
<1>4. CASE LookUp("-ca", "-m", "cpuAlgorithm", CpuAlgorithms)
  BY <1>4 DEF OptionsInv, AfterFit, LookUp, Look, Refuse, Seen, CpuThreads
<1>5. CASE Look("-m", "-L", "memory", Numbers["-m"], Nat)
  BY <1>5 DEF OptionsInv, AfterFit, Look, Refuse, Seen, CpuThreads
<1>6. CASE LogLevel
  BY <1>6 DEF OptionsInv, AfterFit, LogLevel, Seen, CpuThreads
<1>7. CASE Look("-g", "-gm", "gpuLoad", Numbers["-g"], 0 .. MaxGpuLoad)
  BY <1>7 DEF OptionsInv, AfterFit, Look, Refuse, Seen, CpuThreads
<1>8. CASE Look("-gm", "-gi", "gpuMemory", Numbers["-gm"], Nat)
  BY <1>8 DEF OptionsInv, AfterFit, Look, Refuse, Seen, CpuThreads
<1>9. CASE Look("-gi", "-gv", "gpuIndices", IndexLists, {l \in IndexLists : IndicesOk(l)})
  BY <1>9 DEF OptionsInv, AfterFit, Look, Refuse, Seen, CpuThreads
<1>10. CASE LookUp("-gv", "-ga", "gpuVendor", GpuVendors)
  BY <1>10 DEF OptionsInv, AfterFit, LookUp, Look, Refuse, Seen, CpuThreads, GpuVendors
<1>11. CASE LookUp("-ga", "ready", "gpuAlgorithm", CpuAlgorithms)
  BY <1>11 DEF OptionsInv, AfterFit, LookUp, Look, Refuse, Seen, CpuThreads
<1>12. QED
  BY <1>1, <1>2, <1>3, <1>4, <1>5, <1>6, <1>7, <1>8, <1>9, <1>10, <1>11
     DEF ProcessCliArguments

LEMMA OptionsInvHolds == Spec => []OptionsInv
<1>1. InitAll => OptionsInv
  BY OptionsAssumption DEF InitAll, Init, OptionsInv, AfterFit, Defaults, GpuVendors
<1>2. OptionsInv /\ [Next]_vars => OptionsInv'
  <2> SUFFICES ASSUME OptionsInv, [Next]_vars
               PROVE  OptionsInv'
    OBVIOUS
  <2>1. CASE ReadOptions
    BY <2>1, OptionsStep DEF ReadOptions
  <2>2. CASE MakeDevice
    BY <2>2 DEF MakeDevice, OptionsInv, AfterFit, Defaults, GpuVendors
  <2>3. CASE UNCHANGED optionVars
    BY <2>3 DEF OptionsInv, AfterFit, CpuThreads, optionVars
  <2>4. QED
    BY <2>1, <2>2, <2>3
       DEF Next, vars, CreateManager, InitDevice, OtherDevice, StartWorker, Calibrate,
           AllocateMemory, ReleaseMemory, RunKernel, DestroyDevice, UseDevice
<1>3. QED
  BY <1>1, <1>2, PTL DEF Spec

\* What was accepted can be burned by the threads there are, and a run without
\* options is never refused (core/options.cc:93-110).
THEOREM AcceptedOptionsArePossible == Spec => []AcceptedIsPossible
<1>1. OptionsInv => AcceptedIsPossible
  BY DEF OptionsInv, AfterFit, AcceptedIsPossible, CpuThreads
<1>2. QED
  BY <1>1, OptionsInvHolds, PTL

-----------------------------------------------------------------------------
(***************************************************************************)
(* Induction along a sequence: a set of numbers that contains 0 and with   *)
(* each number its successor contains them all, and so what the folds and  *)
(* the recursive functions of the libraries compute is known.              *)
(***************************************************************************)

LEMMA UpTo ==
  ASSUME NEW n \in Nat, NEW B, 0 \in B, \A k \in 0 .. n - 1 : k \in B => k + 1 \in B
  PROVE  n \in B
<1> DEFINE Out == {k \in 0 .. n : k \notin B}
<1> SUFFICES ASSUME n \notin B PROVE FALSE
  OBVIOUS
<1>1. Out # {} /\ Out \subseteq Nat
  OBVIOUS
<1>2. PICK k \in Out : \A j \in Out : ~(<<j, k>> \in OpToRel(<, Nat))
  <2> HIDE DEF Out
  <2> QED BY <1>1, WFMin, NatLessThanWellFounded
<1>3. k # 0 /\ k - 1 \in 0 .. n - 1 /\ k \in Nat
  OBVIOUS
<1>4. k - 1 \in Out
  BY <1>3
<1>5. <<k - 1, k>> \in OpToRel(<, Nat)
  BY <1>3 DEF OpToRel
<1>6. QED
  BY <1>2, <1>4, <1>5

LEMMA FlattenIn ==
  ASSUME NEW S, NEW ss \in Seq(Seq(S))
  PROVE  FlattenSeq(ss) \in Seq(S)
<1>1. CASE Len(ss) = 0
  BY <1>1 DEF FlattenSeq
<1>2. CASE Len(ss) # 0
  <2> DEFINE n == Len(ss)
             B == {k \in 0 .. n : \E g \in [1 .. k -> Seq(S)] :
                     \A i \in 1 .. k : g[i] = IF i = 1 THEN ss[i] ELSE g[i - 1] \o ss[i]}
             f == CHOOSE flatten : flatten = [i \in 1 .. Len(ss) |-> IF i = 1 THEN ss[i] ELSE flatten[i - 1] \o ss[i]]
  <2>0. n \in Nat \ {0} /\ \A i \in 1 .. n : ss[i] \in Seq(S)
    BY <1>2
  <2>1. 0 \in B
    <3> DEFINE e == [i \in 1 .. 0 |-> <<>>]
    <3>1. e \in [1 .. 0 -> Seq(S)]
      OBVIOUS
    <3>2. \A i \in 1 .. 0 : e[i] = IF i = 1 THEN ss[i] ELSE e[i - 1] \o ss[i]
      OBVIOUS
    <3>3. 0 \in 0 .. n
      BY <2>0
    <3> HIDE DEF e
    <3> QED BY <3>1, <3>2, <3>3
  <2>2. ASSUME NEW k \in 0 .. n - 1, k \in B PROVE k + 1 \in B
    <3>1. PICK g \in [1 .. k -> Seq(S)] : \A i \in 1 .. k : g[i] = IF i = 1 THEN ss[i] ELSE g[i - 1] \o ss[i]
      BY <2>2
    <3> DEFINE next == IF k = 0 THEN ss[1] ELSE g[k] \o ss[k + 1]
               h    == [i \in 1 .. k + 1 |-> IF i = k + 1 THEN next ELSE g[i]]
    <3>2. next \in Seq(S)
      BY <2>0
    <3>3. h \in [1 .. k + 1 -> Seq(S)]
      <4> HIDE DEF next
      <4> QED BY <3>2
    <3>4. \A i \in 1 .. k + 1 : h[i] = IF i = 1 THEN ss[i] ELSE h[i - 1] \o ss[i]
      <4> TAKE i \in 1 .. k + 1
      <4>1. CASE i = k + 1
        BY <4>1
      <4>2. CASE i # k + 1
        <5>1. i \in 1 .. k /\ k # 0 /\ (i # 1 => i - 1 \in 1 .. k + 1 /\ i - 1 # k + 1)
          BY <4>2
        <5>2. h[i] = g[i] /\ (i # 1 => h[i - 1] = g[i - 1])
          <6> HIDE DEF next
          <6> QED BY <5>1
        <5> QED BY <5>1, <5>2, <3>1
      <4> QED BY <4>1, <4>2
    <3>5. k + 1 \in 0 .. n
      BY <2>0
    <3> HIDE DEF h
    <3> QED BY <3>3, <3>4, <3>5
  <2>3. n \in B
    <3> HIDE DEF B, n
    <3> QED BY <2>0, <2>1, <2>2, UpTo
  <2>4. PICK g \in [1 .. n -> Seq(S)] : \A i \in 1 .. n : g[i] = IF i = 1 THEN ss[i] ELSE g[i - 1] \o ss[i]
    BY <2>3
  <2>5. g = [i \in 1 .. Len(ss) |-> IF i = 1 THEN ss[i] ELSE g[i - 1] \o ss[i]]
    BY <2>4
  <2>6. f = [i \in 1 .. Len(ss) |-> IF i = 1 THEN ss[i] ELSE f[i - 1] \o ss[i]]
    BY <2>5, Zenon
  <2> HIDE DEF f
  <2> DEFINE C == {k \in 1 .. n : f[k] \in Seq(S)}
  <2>7. \A k \in 0 .. n - 1 : k \in {0} \cup C => k + 1 \in {0} \cup C
    <3> SUFFICES ASSUME NEW k \in 0 .. n - 1, k \in {0} \cup C PROVE k + 1 \in C
      OBVIOUS
    <3>0. \A i \in 1 .. n : f[i] = IF i = 1 THEN ss[i] ELSE f[i - 1] \o ss[i]
      BY ONLY <2>6
    <3>1. k + 1 \in 1 .. n /\ k + 1 - 1 = k /\ (k + 1 = 1 <=> k = 0) /\ 0 \notin C
      BY <2>0
    <3>2. f[k + 1] = IF k = 0 THEN ss[k + 1] ELSE f[k] \o ss[k + 1]
      <4>1. f[k + 1] = IF k + 1 = 1 THEN ss[k + 1] ELSE f[k + 1 - 1] \o ss[k + 1]
        BY <3>0, <3>1
      <4> QED BY <4>1, <3>1
    <3>4. k # 0 => f[k] \in Seq(S)
      OBVIOUS
    <3>3. ss[k + 1] \in Seq(S)
      BY <3>1, <2>0
    <3>5. f[k + 1] \in Seq(S)
      BY <3>2, <3>3, <3>4
    <3> QED BY <3>1, <3>5
  <2>8. n \in {0} \cup C
    <3> HIDE DEF C, n
    <3> QED BY <2>0, <2>7, UpTo
  <2>9. FlattenSeq(ss) = f[Len(ss)]
    BY <1>2 DEF FlattenSeq, f
  <2> QED BY <2>8, <2>9, <2>0
<1> QED BY <1>1, <1>2

LEMMA MaxOfUpTo ==
  ASSUME NEW k \in Nat, NEW T \in SUBSET (1 .. k + 1), k + 1 \in T
  PROVE  Max(T) = k + 1
<1>1. \A y \in T : k + 1 >= y
  OBVIOUS
<1>2. \A x \in T : (\A y \in T : x >= y) => x = k + 1
  BY <1>1
<1>3. QED
  BY <1>1, <1>2 DEF Max

LEMMA MaxIn ==
  ASSUME NEW n \in Nat, NEW T \in SUBSET (1 .. n), T # {}
  PROVE  Max(T) \in T
<1> DEFINE Below == {n - x : x \in T}
<1>1. Below # {} /\ Below \subseteq Nat
  <2>1. \A x \in T : n - x \in Nat
    OBVIOUS
  <2>2. PICK x \in T : TRUE
    OBVIOUS
  <2>3. n - x \in Below
    OBVIOUS
  <2> QED BY <2>1, <2>3
<1>2. PICK b \in Below : \A c \in Below : ~(<<c, b>> \in OpToRel(<, Nat))
  <2> HIDE DEF Below
  <2> QED BY <1>1, WFMin, NatLessThanWellFounded
<1>3. PICK x \in T : b = n - x
  OBVIOUS
<1>4. ASSUME NEW y \in T PROVE x >= y
  <2>1. n - y \in Below /\ n - y \in Nat /\ n - x \in Nat
    BY <1>3
  <2>2. ~(n - y < n - x)
    BY <2>1, <1>2, <1>3 DEF OpToRel
  <2> QED BY <2>2
<1>5. QED
  BY <1>4 DEF Max

IsFold(g, R, op, base, seq) ==
  /\ g \in [SUBSET (DOMAIN seq) -> R]
  /\ \A T \in SUBSET (DOMAIN seq) :
       g[T] = IF T = {} THEN base ELSE op[<<g[T \ {Max(T)}], seq[Max(T)]>>]

LEMMA FoldExists ==
  ASSUME NEW R, NEW S, NEW op \in [R \X S -> R], NEW base \in R, NEW seq \in Seq(S)
  PROVE  \E g : IsFold(g, R, op, base, seq)
<1> DEFINE n == Len(seq)
           Folds(g, k) == \A T \in SUBSET (1 .. k) :
                            g[T] = IF T = {} THEN base ELSE op[<<g[T \ {Max(T)}], seq[Max(T)]>>]
           B == {k \in 0 .. n : \E g \in [SUBSET (1 .. k) -> R] : Folds(g, k)}
<1>1. n \in Nat /\ DOMAIN seq = 1 .. n /\ \A i \in 1 .. n : seq[i] \in S
  OBVIOUS
<1>2. 0 \in B
  <2> DEFINE e == [T \in SUBSET (1 .. 0) |-> base]
  <2>1. e \in [SUBSET (1 .. 0) -> R] /\ Folds(e, 0)
    OBVIOUS
  <2>2. 0 \in 0 .. n
    BY <1>1
  <2> HIDE DEF e, Folds
  <2> QED BY <2>1, <2>2
<1>3. ASSUME NEW k \in 0 .. n - 1, k \in B PROVE k + 1 \in B
  <2>1. PICK g \in [SUBSET (1 .. k) -> R] : Folds(g, k)
    BY <1>3
  <2> DEFINE h == [T \in SUBSET (1 .. k + 1) |->
                     IF k + 1 \in T THEN op[<<g[T \ {k + 1}], seq[k + 1]>>] ELSE g[T]]
  <2>0. k \in Nat /\ k + 1 \in 1 .. n /\ k + 1 \in 0 .. n
    BY <1>1
  <2>2. \A T \in SUBSET (1 .. k + 1) : T \ {k + 1} \in SUBSET (1 .. k)
    BY <2>0
  <2>3. \A T \in SUBSET (1 .. k + 1) : k + 1 \notin T => T \in SUBSET (1 .. k)
    BY <2>2
  <2>4. h \in [SUBSET (1 .. k + 1) -> R]
    BY <1>1, <2>0, <2>2, <2>3
  <2>5. Folds(h, k + 1)
    <3> SUFFICES ASSUME NEW T \in SUBSET (1 .. k + 1)
                 PROVE  h[T] = IF T = {} THEN base ELSE op[<<h[T \ {Max(T)}], seq[Max(T)]>>]
      OBVIOUS
    <3>1. CASE k + 1 \in T
      <4>1. Max(T) = k + 1
        BY <3>1, <2>0, MaxOfUpTo
      <4>2. T \ {k + 1} \in SUBSET (1 .. k + 1) /\ k + 1 \notin T \ {k + 1} /\ T # {}
        BY <3>1
      <4>3. h[T \ {k + 1}] = g[T \ {k + 1}]
        BY <4>2
      <4>4. h[T] = op[<<g[T \ {k + 1}], seq[k + 1]>>]
        BY <3>1
      <4> HIDE DEF h
      <4> QED BY <4>1, <4>2, <4>3, <4>4
    <3>2. CASE k + 1 \notin T
      <4>1. T \in SUBSET (1 .. k) /\ T \ {Max(T)} \in SUBSET (1 .. k + 1) /\ k + 1 \notin T \ {Max(T)}
        BY <3>2, <2>3
      <4>2. h[T] = g[T] /\ h[T \ {Max(T)}] = g[T \ {Max(T)}]
        BY <3>2, <4>1
      <4>3. g[T] = IF T = {} THEN base ELSE op[<<g[T \ {Max(T)}], seq[Max(T)]>>]
        BY <4>1, <2>1
      <4> HIDE DEF h
      <4> QED BY <4>2, <4>3
    <3> QED BY <3>1, <3>2
  <2> HIDE DEF h, Folds
  <2> QED BY <2>0, <2>4, <2>5
<1>4. n \in B
  <2> HIDE DEF B, n
  <2> QED BY <1>1, <1>2, <1>3, UpTo
<1>5. PICK g \in [SUBSET (1 .. n) -> R] : Folds(g, n)
  BY <1>4
<1>6. IsFold(g, R, op, base, seq)
  BY <1>1, <1>5 DEF IsFold
<1> QED BY <1>6

LEMMA FoldIn ==
  ASSUME NEW R, NEW n \in Nat, NEW f, f[{}] \in R,
         \A T \in SUBSET (1 .. n) : T # {} /\ f[T \ {Max(T)}] \in R => f[T] \in R
  PROVE  f[1 .. n] \in R
<1> DEFINE B == {k \in 0 .. n : \A T \in SUBSET (1 .. k) : f[T] \in R}
<1>1. 0 \in B
  <2>1. \A T \in SUBSET (1 .. 0) : T = {}
    OBVIOUS
  <2>2. \A T \in SUBSET (1 .. 0) : f[T] \in R
    BY <2>1, Zenon
  <2>3. 0 \in 0 .. n
    OBVIOUS
  <2> QED BY <2>2, <2>3
<1>2. ASSUME NEW k \in 0 .. n - 1, k \in B PROVE k + 1 \in B
  <2>0. k \in Nat /\ k + 1 \in 0 .. n
    OBVIOUS
  <2>1. ASSUME NEW T \in SUBSET (1 .. k + 1) PROVE f[T] \in R
    <3>1. CASE k + 1 \in T
      <4>1. Max(T) = k + 1
        BY <3>1, <2>0, MaxOfUpTo
      <4>2. T \ {k + 1} \in SUBSET (1 .. k) /\ T # {} /\ T \in SUBSET (1 .. n)
        BY <3>1
      <4>3. f[T \ {k + 1}] \in R
        BY <4>2, <1>2
      <4> QED BY <4>1, <4>2, <4>3
    <3>2. CASE k + 1 \notin T
      <4>1. T \in SUBSET (1 .. k)
        BY <3>2, <2>0
      <4> QED BY <4>1, <1>2
    <3> QED BY <3>1, <3>2
  <2> QED BY <2>0, <2>1
<1>3. n \in B
  <2> HIDE DEF B
  <2> QED BY <1>1, <1>2, UpTo
<1> QED BY <1>3
LEMMA MinIn ==
  ASSUME NEW T \in SUBSET Nat, T # {}
  PROVE  Min(T) \in T
<1>1. PICK x \in T : \A y \in T : ~(<<y, x>> \in OpToRel(<, Nat))
  BY WFMin, NatLessThanWellFounded
<1>2. ASSUME NEW y \in T PROVE x <= y
  <2>1. x \in Nat /\ y \in Nat
    OBVIOUS
  <2>2. ~(y < x)
    BY <1>1, <2>1 DEF OpToRel
  <2> QED BY <2>1, <2>2
<1>3. QED
  BY <1>2 DEF Min

\* Reset keeps the windows of at least one word.
LEMMA WindowsKept ==
  ASSUME NEW S, NEW all \in Seq(S)
  PROVE  FoldLeft(LAMBDA out, w : IF w.words > 0 THEN Append(out, w) ELSE out, <<>>, all)
           \in Seq({w \in S : w.words > 0})
<1> DEFINE R == Seq({w \in S : w.words > 0})
           More(out, w) == IF w.words > 0 THEN Append(out, w) ELSE out
           op == [a \in R \X S |-> More(a[1], a[2])]
           f  == CHOOSE iter : iter = [T \in SUBSET (DOMAIN all) |->
                                         IF T = {} THEN <<>> ELSE More(iter[T \ {Max(T)}], all[Max(T)])]
<1>1. <<>> \in R
  OBVIOUS
<1>2. \A out \in R, w \in S : More(out, w) \in R
  OBVIOUS
<1>3. op \in [R \X S -> R]
  <2> HIDE DEF R, More
  <2> QED BY <1>2
<1>4. PICK g : IsFold(g, R, op, <<>>, all)
  <2> HIDE DEF R, op
  <2> QED BY <1>1, <1>3, FoldExists
<1>5. \A T \in SUBSET (DOMAIN all) : T # {} => Max(T) \in T
  <2>1. Len(all) \in Nat /\ DOMAIN all = 1 .. Len(all)
    OBVIOUS
  <2> QED BY <2>1, MaxIn
<1>6. g = [T \in SUBSET (DOMAIN all) |-> IF T = {} THEN <<>> ELSE More(g[T \ {Max(T)}], all[Max(T)])]
  <2>1. \A T \in SUBSET (DOMAIN all) : T # {} =>
          /\ T \ {Max(T)} \in SUBSET (DOMAIN all)
          /\ <<g[T \ {Max(T)}], all[Max(T)]>> \in R \X S
    <3> HIDE DEF R
    <3> QED BY <1>4, <1>5 DEF IsFold
  <2>2. \A T \in SUBSET (DOMAIN all) : T # {} =>
          op[<<g[T \ {Max(T)}], all[Max(T)]>>] = More(g[T \ {Max(T)}], all[Max(T)])
    <3> HIDE DEF R, More
    <3> QED BY <2>1
  <2> HIDE DEF R, op, More
  <2> QED BY <1>4, <2>2 DEF IsFold
<1>7. f = [T \in SUBSET (DOMAIN all) |-> IF T = {} THEN <<>> ELSE More(f[T \ {Max(T)}], all[Max(T)])]
  <2> HIDE DEF More
  <2> QED BY <1>6, Zenon
<1>8. f[DOMAIN all] \in R
  <2> HIDE DEF f, R, More
  <2>1. f[{}] \in R
    BY <1>1, <1>7
  <2>2. ASSUME NEW T \in SUBSET (1 .. Len(all)), T # {}, f[T \ {Max(T)}] \in R
        PROVE  f[T] \in R
    <3>1. all[Max(T)] \in S
      <4>1. T \in SUBSET (DOMAIN all) /\ \A i \in DOMAIN all : all[i] \in S
        OBVIOUS
      <4> QED BY <4>1, <1>5, <2>2
    <3>2. f[T] = More(f[T \ {Max(T)}], all[Max(T)])
      <4>1. T \in SUBSET (DOMAIN all)
        OBVIOUS
      <4> QED BY <4>1, <2>2, <1>7
    <3> QED BY <3>1, <3>2, <2>2, <1>2
  <2>3. \A T \in SUBSET (1 .. Len(all)) : T # {} /\ f[T \ {Max(T)}] \in R => f[T] \in R
    BY <2>2
  <2>4. Len(all) \in Nat /\ DOMAIN all = 1 .. Len(all)
    OBVIOUS
  <2>5. f[1 .. Len(all)] \in R
    BY ONLY <2>1, <2>3, <2>4, FoldIn, Zenon
  <2> QED BY <2>4, <2>5
<1>9. FoldLeft(LAMBDA out, w : IF w.words > 0 THEN Append(out, w) ELSE out, <<>>, all) = f[DOMAIN all]
  BY DEF FoldLeft, MapThenFoldSet
<1> QED BY <1>8, <1>9
-----------------------------------------------------------------------------
(***************************************************************************)
(* The factory.                                                            *)
(***************************************************************************)

\* No GPU but an unknown one is there twice.
Once(out) == \A i, j \in 1 .. Len(out) : out[i] = out[j] => i = j \/ out[i] = Factory!Unknown

LEMMA CollectedOnce ==
  ASSUME NEW S, NEW platforms \in Seq(Seq(S))
  PROVE  Once(Factory!CollectGpuDevices(platforms))
<1>10. PICK p : p = FlattenSeq(platforms)
  OBVIOUS
<1>11. p \in Seq(S)
  BY <1>10, FlattenIn
<1> DEFINE R == {out \in Seq(S) : Once(out)}
           More(out, gpu) == IF Factory!LeftOut(gpu, out) THEN out ELSE Append(out, gpu)
           op == [a \in R \X S |-> More(a[1], a[2])]
           f == CHOOSE iter : iter = [T \in SUBSET (DOMAIN p) |-> IF T = {} THEN <<>> ELSE More(iter[T \ {Max(T)}], p[Max(T)])]
<1>0. <<>> \in R
  BY DEF Once
<1>1. \A out \in R, gpu \in S : More(out, gpu) \in R
  <2> SUFFICES ASSUME NEW out \in R, NEW gpu \in S, gpu = Factory!Unknown \/ ~Factory!Contains(out, gpu)
               PROVE  Append(out, gpu) \in R
    BY DEF Factory!LeftOut
  <2> DEFINE more == Append(out, gpu)
  <2>1. out \in Seq(S) /\ Once(out) /\ more \in Seq(S) /\ Len(more) = Len(out) + 1 /\ Len(out) \in Nat
    OBVIOUS
  <2>2. \A i \in 1 .. Len(more) : more[i] = IF i <= Len(out) THEN out[i] ELSE gpu
    OBVIOUS
  <2>3. Once(more)
    <3> HIDE DEF more
    <3> QED BY <2>1, <2>2 DEF Once, Factory!Contains
  <2> QED BY <2>1, <2>3
<1>2. op \in [R \X S -> R]
  <2> HIDE DEF R, More
  <2> QED BY <1>1
<1>3. PICK g : IsFold(g, R, op, <<>>, p)
  <2> HIDE DEF R, op
  <2> QED BY <1>0, <1>2, <1>11, FoldExists
<1>4. \A T \in SUBSET (DOMAIN p) : T # {} => Max(T) \in T
  <2>1. Len(p) \in Nat /\ DOMAIN p = 1 .. Len(p)
    BY <1>11
  <2> QED BY <2>1, MaxIn
<1>5. g = [T \in SUBSET (DOMAIN p) |-> IF T = {} THEN <<>> ELSE More(g[T \ {Max(T)}], p[Max(T)])]
  <2>1. \A T \in SUBSET (DOMAIN p) : T # {} =>
          /\ T \ {Max(T)} \in SUBSET (DOMAIN p)
          /\ <<g[T \ {Max(T)}], p[Max(T)]>> \in R \X S
    <3> HIDE DEF R
    <3> QED BY <1>3, <1>4, <1>11 DEF IsFold
  <2>2. \A T \in SUBSET (DOMAIN p) : T # {} =>
          op[<<g[T \ {Max(T)}], p[Max(T)]>>] = More(g[T \ {Max(T)}], p[Max(T)])
    <3> HIDE DEF R, More
    <3> QED BY <2>1
  <2> HIDE DEF R, op, More
  <2> QED BY <1>3, <2>2 DEF IsFold
<1>6. f = [T \in SUBSET (DOMAIN p) |-> IF T = {} THEN <<>> ELSE More(f[T \ {Max(T)}], p[Max(T)])]
  <2> HIDE DEF More
  <2> QED BY <1>5, Zenon
<1>7. f[DOMAIN p] \in R
  <2> HIDE DEF f, R, More
  <2>1. f[{}] \in R
    BY <1>0, <1>6
  <2>2. ASSUME NEW T \in SUBSET (1 .. Len(p)), T # {}, f[T \ {Max(T)}] \in R
        PROVE  f[T] \in R
    <3>1. p[Max(T)] \in S
      <4>1. T \in SUBSET (DOMAIN p) /\ \A i \in DOMAIN p : p[i] \in S
        BY <1>11
      <4> QED BY <4>1, <1>4, <2>2
    <3>2. f[T] = More(f[T \ {Max(T)}], p[Max(T)])
      <4>1. T \in SUBSET (DOMAIN p)
        BY <1>11
      <4> QED BY <4>1, <2>2, <1>6
    <3> QED BY <3>1, <3>2, <2>2, <1>1
  <2>3. \A T \in SUBSET (1 .. Len(p)) : T # {} /\ f[T \ {Max(T)}] \in R => f[T] \in R
    BY <2>2
  <2>4. Len(p) \in Nat /\ DOMAIN p = 1 .. Len(p)
    BY <1>11
  <2>5. f[1 .. Len(p)] \in R
    BY ONLY <2>1, <2>3, <2>4, FoldIn, Zenon
  <2> QED BY <2>4, <2>5
<1>9. Factory!CollectGpuDevices(platforms) = f[DOMAIN p]
  BY <1>10 DEF Factory!CollectGpuDevices, Factory!FoldLeft, Factory!MapThenFoldSet, Factory!Max, Max,
               Factory!FlattenSeq, FlattenSeq
<1> QED BY <1>7, <1>9
\* The GPUs any backend may find.
AnyGpus ==
  UNION {Factory!EnumerateNvidia, Factory!EnumerateAmd, Factory!EnumerateApple,
         Factory!EnumerateIntel, Factory!EnumerateOpenCl}

Probings == [vendor : Vendors, gpus : AnyGpus]

\* The last probe found the GPUs the manager's devices are chosen from.
LastProbeChosen ==
  LET last == probed[Len(probed)]
  IN  /\ probed # <<>>
      /\ manager = last.vendor
      /\ opts.gpuVendor \in {"auto", manager}
      /\ devices = {i \in 0 .. Len(last.gpus) - 1 : Factory!DeviceWanted(opts, i)}
      /\ manager = "opencl" => last.gpus = <<>> \/ last.gpus \in Factory!EnumerateOpenCl

\* What is known until one of the devices is followed.
FactoryInv ==
  life = "unmade" =>
    /\ probed \in Seq(Probings)
    /\ manager \in Vendors \cup {"undecided", "none"}
    /\ step # "ready" => probed = <<>> /\ manager = "undecided"
    /\ manager = "undecided" =>
         /\ Len(probed) < Len(Factory!Candidates(opts))
         /\ \A k \in 1 .. Len(probed) : probed[k].gpus = <<>>
    /\ \A k \in 1 .. Len(probed) - 1 : probed[k].gpus = <<>>
    /\ manager \in Vendors => LastProbeChosen

LEMMA CandidatesKnown ==
  ASSUME OptionsInv
  PROVE  /\ Factory!Candidates(opts) \in Seq(Vendors)
         /\ Factory!Candidates(opts) # <<>>
         /\ opts.gpuVendor # "auto" => Factory!Candidates(opts) = <<opts.gpuVendor>>
<1>1. CASE opts.gpuVendor # "auto"
  <2>1. Factory!Candidates(opts) = <<opts.gpuVendor>>
    BY <1>1 DEF Factory!Candidates
  <2>2. opts.gpuVendor \in Vendors
    BY <1>1 DEF OptionsInv, GpuVendors, Vendors
  <2> QED BY <2>1, <2>2
<1>2. CASE opts.gpuVendor = "auto" /\ macos
  BY <1>2 DEF Vendors, Factory!Candidates
<1>3. CASE opts.gpuVendor = "auto" /\ ~macos
  BY <1>3 DEF Vendors, Factory!Candidates
<1>4. QED
  BY <1>1, <1>2, <1>3

LEMMA ProbeStep ==
  ASSUME OptionsInv, FactoryInv, step = "ready", life = "unmade", Factory!Probe(opts),
         UNCHANGED <<life, step, opts>>
  PROVE  FactoryInv'
<1> DEFINE candidates == Factory!Candidates(opts)
           vendor     == candidates[Len(probed) + 1]
<1>1. PICK gpus \in Factory!Enumerate(vendor) :
        /\ probed' = Append(probed, [vendor |-> vendor, gpus |-> gpus])
        /\ devices' = {i \in 0 .. Len(gpus) - 1 : Factory!DeviceWanted(opts, i)}
        /\ manager' = IF devices' # {} THEN vendor
                      ELSE IF gpus = <<>> /\ Len(probed) + 1 < Len(candidates) THEN "undecided"
                      ELSE "none"
  BY DEF Factory!Probe
<1>2. macos' = macos /\ manager = "undecided" /\ Factory!Candidates(opts)' = candidates
  BY DEF Factory!Probe, Factory!Candidates
<1>3. /\ probed \in Seq(Probings) /\ Len(probed) < Len(candidates)
      /\ \A k \in 1 .. Len(probed) : probed[k].gpus = <<>>
  BY <1>2 DEF FactoryInv
<1>4. /\ candidates \in Seq(Vendors) /\ candidates # <<>> /\ vendor \in Vendors
      /\ opts.gpuVendor # "auto" => candidates = <<opts.gpuVendor>>
  <2> HIDE DEF candidates
  <2>1. candidates \in Seq(Vendors) /\ candidates # <<>> /\ (opts.gpuVendor # "auto" => candidates = <<opts.gpuVendor>>)
    BY CandidatesKnown DEF candidates
  <2>2. Len(probed) + 1 \in 1 .. Len(candidates)
    BY <1>3, <2>1
  <2> QED BY <2>1, <2>2
<1>5. gpus \in AnyGpus /\ (vendor = "opencl" => gpus \in Factory!EnumerateOpenCl)
  <2> HIDE DEF vendor
  <2> QED BY <1>4 DEF Vendors, AnyGpus, Factory!Enumerate
<1> DEFINE last == [vendor |-> vendor, gpus |-> gpus]
<1>6. last \in Probings /\ last.vendor = vendor /\ last.gpus = gpus
  BY <1>4, <1>5 DEF Probings
<1> HIDE DEF candidates, vendor, last
<1>7. /\ probed' \in Seq(Probings) /\ Len(probed') = Len(probed) + 1 /\ probed' # <<>>
      /\ probed'[Len(probed')] = last
      /\ \A k \in 1 .. Len(probed') - 1 : probed'[k].gpus = <<>>
  <2>1. probed' = Append(probed, last)
    BY <1>1 DEF last
  <2> QED BY <2>1, <1>3, <1>6
<1>8. manager' = "undecided" => gpus = <<>> /\ Len(probed') < Len(candidates)
  BY <1>1, <1>4, <1>7 DEF Vendors
<1>9. manager' = "undecided" => \A k \in 1 .. Len(probed') : probed'[k].gpus = <<>>
  BY <1>6, <1>7, <1>8, <1>3
<1>10. manager' \in Vendors => manager' = vendor /\ vendor \in Vendors
  BY <1>1, <1>4 DEF Vendors
<1>11. vendor \in Vendors => opts.gpuVendor \in {"auto", vendor}
  <2>1. ASSUME opts.gpuVendor # "auto" PROVE vendor = opts.gpuVendor
    <3>1. Len(candidates) = 1 /\ Len(probed) = 0 /\ candidates = <<opts.gpuVendor>>
      BY <2>1, <1>3, <1>4
    <3> QED BY <3>1 DEF vendor
  <2> QED BY <2>1
<1>12. Probings' = Probings /\ Factory!EnumerateOpenCl' = Factory!EnumerateOpenCl
  BY <1>2 DEF Probings, AnyGpus, Factory!EnumerateNvidia, Factory!EnumerateAmd, Factory!EnumerateApple,
              Factory!EnumerateIntel, Factory!EnumerateOpenCl
<1>13. manager' \in Vendors => LastProbeChosen'
  <2> SUFFICES ASSUME manager' \in Vendors PROVE LastProbeChosen'
    OBVIOUS
  <2>1. devices' = {i \in 0 .. Len(gpus) - 1 : Factory!DeviceWanted(opts, i)}
    BY <1>1
  <2>2. manager' = last.vendor /\ opts.gpuVendor \in {"auto", manager'}
        /\ (manager' = "opencl" => gpus \in Factory!EnumerateOpenCl)
    BY <1>5, <1>6, <1>10, <1>11
  <2>3. opts' = opts /\ \A i : Factory!DeviceWanted(opts', i) = Factory!DeviceWanted(opts, i)
    OBVIOUS
  <2> QED BY <2>1, <2>2, <2>3, <1>6, <1>7, <1>12 DEF LastProbeChosen
<1>14. manager' \in Vendors \cup {"undecided", "none"}
  BY <1>1, <1>4
<1>15. probed' \in Seq(Probings')
  BY <1>7, <1>12
<1> QED BY <1>2, <1>7, <1>8, <1>9, <1>13, <1>14, <1>15 DEF FactoryInv
LEMMA FactoryInvHolds == Spec => []FactoryInv
<1>1. InitAll => FactoryInv
  <2> SUFFICES ASSUME InitAll PROVE FactoryInv
    OBVIOUS
  <2>1. OptionsInv
    BY OptionsAssumption DEF InitAll, Init, OptionsInv, AfterFit, Defaults, GpuVendors
  <2>2. probed = <<>> /\ manager = "undecided" /\ step # "ready"
    BY DEF InitAll, Init, Factory!Init
  <2>3. Len(Factory!Candidates(opts)) \in Nat \ {0}
    <3> DEFINE c == Factory!Candidates(opts)
    <3>1. c \in Seq(Vendors) /\ c # <<>>
      BY <2>1, CandidatesKnown
    <3> HIDE DEF c
    <3>2. Len(c) \in Nat \ {0}
      BY <3>1
    <3> QED BY <3>2 DEF c
  <2>4. "undecided" \notin Vendors
    BY DEF Vendors
  <2> QED BY <2>2, <2>3, <2>4 DEF FactoryInv
<1>2. OptionsInv /\ OptionsInv' /\ FactoryInv /\ [Next]_vars => FactoryInv'
  <2> SUFFICES ASSUME OptionsInv, OptionsInv', FactoryInv, [Next]_vars
               PROVE  FactoryInv'
    OBVIOUS
  <2>1. CASE ReadOptions
    <3>1. step # "ready" /\ UNCHANGED factoryVars /\ life' = life
      BY <2>1 DEF ReadOptions, ProcessCliArguments, Look, LookUp, FitLoad, LogLevel, deviceVars, factoryVars
    <3> SUFFICES ASSUME life = "unmade" PROVE FactoryInv'
      BY <3>1 DEF FactoryInv
    <3>2. probed' = <<>> /\ manager' = "undecided"
      BY <3>1 DEF FactoryInv, factoryVars
    <3>3. Len(Factory!Candidates(opts)') \in Nat \ {0}
      <4> DEFINE c == Factory!Candidates(opts)'
      <4>1. c \in Seq(Vendors) /\ c # <<>>
        <5>1. (Factory!Candidates(opts) \in Seq(Vendors) /\ Factory!Candidates(opts) # <<>>)'
          BY CandidatesKnown, PTL
        <5> QED BY <5>1 DEF Vendors
      <4> HIDE DEF c
      <4>2. Len(c) \in Nat \ {0}
        BY <4>1
      <4> QED BY <4>2 DEF c
    <3>4. "undecided" \notin Vendors
      BY DEF Vendors
    <3> QED BY <3>2, <3>3, <3>4 DEF FactoryInv
  <2>2. CASE CreateManager
    <3>1. CASE Factory!NothingAsked(opts)
      <4>1. probed' = probed /\ manager = "undecided" /\ manager' = "none" /\ step' = "ready" /\ "none" \notin Vendors
        BY <2>2, <3>1 DEF CreateManager, Factory!NothingAsked, optionVars, Vendors
      <4>2. Probings' = Probings
        BY <3>1 DEF Factory!NothingAsked, Probings, AnyGpus, Factory!EnumerateNvidia, Factory!EnumerateAmd,
                    Factory!EnumerateApple, Factory!EnumerateIntel, Factory!EnumerateOpenCl
      <4>3. life = "unmade"
        BY <2>2 DEF CreateManager
      <4> QED BY <4>1, <4>2, <4>3 DEF FactoryInv
    <3>2. CASE Factory!Probe(opts)
      BY <2>2, <3>2, ProbeStep DEF CreateManager, optionVars, deviceVars
    <3> QED BY <2>2, <3>1, <3>2 DEF CreateManager, Factory!CreateResourceManager
  <2>3. CASE life' # "unmade"
    BY <2>3 DEF FactoryInv
  <2>4. CASE UNCHANGED vars
    <3>1. UNCHANGED <<life, probed, manager, devices, macos, step, opts>>
      BY <2>4 DEF vars, optionVars, factoryVars, deviceVars
    <3>2. /\ Probings' = Probings /\ Factory!EnumerateOpenCl' = Factory!EnumerateOpenCl
          /\ Factory!Candidates(opts)' = Factory!Candidates(opts)
      BY <3>1 DEF Probings, AnyGpus, Factory!EnumerateNvidia, Factory!EnumerateAmd,
                  Factory!EnumerateApple, Factory!EnumerateIntel, Factory!EnumerateOpenCl, Factory!Candidates
    <3>3. LastProbeChosen => LastProbeChosen'
      BY <3>1, <3>2 DEF LastProbeChosen, Factory!DeviceWanted
    <3> QED BY <3>1, <3>2, <3>3 DEF FactoryInv
  <2>5. ASSUME MakeDevice \/ InitDevice \/ OtherDevice \/ StartWorker \/ DestroyDevice
        PROVE  life' # "unmade"
    BY <2>5 DEF MakeDevice, InitDevice, OtherDevice, StartWorker, DestroyDevice
  <2>6. ASSUME \/ \E loops \in Loops : Calibrate(loops)
               \/ AllocateMemory \/ ReleaseMemory
               \/ \E loops \in Loops, traffic \in Traffics : RunKernel(loops, traffic)
        PROVE  life' # "unmade"
    BY <2>6 DEF Calibrate, AllocateMemory, ReleaseMemory, RunKernel
  <2> QED BY <2>1, <2>2, <2>3, <2>4, <2>5, <2>6 DEF Next
<1>3. QED
  BY <1>1, <1>2, OptionsInvHolds, PTL DEF Spec

\* The GPUs -gi chose from are one vendor's, the first that has any or the one
\* that was named, and with OpenCL none of them is there twice
\* (gpu/factory.cc:32-36, gpu/opencl/opencl_device.cc:113-119).
THEOREM IndicesSelectOneVendorsHardware == Spec => []SelectsRightHardware
<1>1. FactoryInv => SelectsRightHardware
  <2> SUFFICES ASSUME FactoryInv, life = "unmade"
               PROVE  Factory!IndicesStayWithTheirVendor(opts)
    BY DEF SelectsRightHardware
  <2>1. manager \notin {"undecided", "none"} => LastProbeChosen
    BY DEF FactoryInv
  <2>2. ASSUME manager = "opencl", LastProbeChosen
        PROVE  \A i, j \in devices :
                 LET gpus == probed[Len(probed)].gpus
                 IN  gpus[i + 1] = gpus[j + 1] => i = j \/ gpus[i + 1] = Factory!Unknown
    <3> DEFINE gpus == probed[Len(probed)].gpus
    <3>1. /\ gpus = <<>> \/ gpus \in Factory!EnumerateOpenCl
          /\ devices \subseteq 0 .. Len(gpus) - 1
      BY <2>2 DEF LastProbeChosen
    <3>2. CASE gpus = <<>>
      BY <3>1, <3>2
    <3>3. CASE gpus # <<>>
      <4>1. PICK p \in Platforms : gpus = Factory!CollectGpuDevices(p)
        BY <3>1, <3>3 DEF Factory!EnumerateOpenCl
      <4>2. Once(gpus)
        BY <4>1, CollectedOnce, DevicesAssumption
      <4>3. \A i \in devices : i \in Int /\ i + 1 \in 1 .. Len(gpus)
        BY <3>1
      <4> HIDE DEF gpus
      <4>4. \A i, j \in devices : gpus[i + 1] = gpus[j + 1] => i = j \/ gpus[i + 1] = Factory!Unknown
        BY <4>2, <4>3 DEF Once
      <4> QED BY <4>4 DEF gpus
    <3> QED BY <3>2, <3>3
  <2> QED BY <2>1, <2>2 DEF FactoryInv, LastProbeChosen, Factory!IndicesStayWithTheirVendor
<1>2. QED
  BY <1>1, FactoryInvHolds, PTL
-----------------------------------------------------------------------------
(***************************************************************************)
(* The sweep (MemSweep): a launch stays in the window it is given.         *)
(***************************************************************************)

\* The chunks of a block, and the windows that may be laid out over them.
ChunkRecords == [id : 1 .. Capacity, bytes : Nat]

AnyWindow == [segment : Nat, offset : Nat, words : Nat]

WindowsOver(chunks) ==
  {w \in AnyWindow : w.segment \in DOMAIN chunks /\ (w.offset + w.words) * WordBytes <= chunks[w.segment].bytes}

SweepOver(chunks, s) ==
  /\ s \in [windows : Seq(AnyWindow), window : Nat, cursor : Nat, pending : Nat]
  /\ \A i \in 1 .. Len(s.windows) : s.windows[i] \in WindowsOver(chunks) /\ s.windows[i].words > 0
  /\ s.windows # <<>> => s.window < Len(s.windows) /\ s.cursor < s.windows[s.window + 1].words

LEMMA DivisionFacts ==
  ASSUME NEW a \in Nat, NEW m \in Nat \ {0}
  PROVE  /\ a \div m \in Nat /\ (a \div m) * m <= a
         /\ a < (a \div m) * m + m
         /\ a % m \in 0 .. m - 1
<1>1. a \div m \in Nat
  OBVIOUS
<1>2. a = m * (a \div m) + (a % m) /\ a % m \in 0 .. m - 1
  OBVIOUS
<1>3. m * (a \div m) = (a \div m) * m
  BY <1>1
<1>4. QED
  BY <1>1, <1>2, <1>3

LEMMA ModuloSmall ==
  ASSUME NEW m \in Nat \ {0}, NEW a \in 0 .. m - 1
  PROVE  a % m = a
<1> DEFINE q == a \div m
<1>1. q \in Nat /\ q * m <= a /\ a = m * q + (a % m) /\ a % m \in Int
  BY DivisionFacts
<1> HIDE DEF q
<1>2. q = 0
  <2> SUFFICES ASSUME q >= 1 PROVE FALSE
    BY <1>1
  <2>1. (q - 1) * m >= 0 /\ q * m = (q - 1) * m + m
    BY <1>1
  <2> QED BY <1>1, <2>1
<1>3. m * 0 = 0
  OBVIOUS
<1> QED BY <1>1, <1>2, <1>3

\* A number is covered by as many parts as CeilDiv says, and the last of them
\* has a part of it.
LEMMA CeilDivFacts ==
  ASSUME NEW a \in Nat, NEW m \in Nat \ {0}
  PROVE  /\ CeilDiv(a, m) \in Nat
         /\ a > 0 => CeilDiv(a, m) > 0
         /\ \A k \in 1 .. CeilDiv(a, m) : (k - 1) * m \in Nat /\ (k - 1) * m < a
<1> DEFINE q == CeilDiv(a, m)
<1>1. a + m - 1 \in Nat
  OBVIOUS
<1>2. q \in Nat /\ q * m <= a + m - 1 /\ a + m - 1 < q * m + m
  BY <1>1, DivisionFacts DEF CeilDiv
<1> HIDE DEF q
<1>3. a > 0 => q > 0
  <2> SUFFICES ASSUME a > 0, q = 0 PROVE FALSE
    BY <1>2
  <2>1. q * m = 0
    OBVIOUS
  <2> QED BY <1>2, <2>1
<1>4. ASSUME NEW k \in 1 .. q PROVE (k - 1) * m \in Nat /\ (k - 1) * m < a
  <2>1. k - 1 \in Nat /\ q - k \in Nat
    BY <1>2
  <2>2. (k - 1) * m \in Nat /\ (q - k) * m \in Nat
    BY <2>1
  <2>3. q * m = (k - 1) * m + (q - k) * m + m
    BY <2>1, <1>2
  <2> QED BY <2>2, <2>3, <1>2
<1>5. QED
  BY <1>2, <1>3, <1>4 DEF q

LEMMA MinOfTwo ==
  ASSUME NEW a \in Int, NEW b \in Int
  PROVE  Min({a, b}) = IF a <= b THEN a ELSE b
<1> DEFINE m == IF a <= b THEN a ELSE b
<1>1. m \in {a, b} /\ \A y \in {a, b} : m <= y
  OBVIOUS
<1>2. \A x \in {a, b} : (\A y \in {a, b} : x <= y) => x = m
  OBVIOUS
<1>3. QED
  BY <1>1, <1>2 DEF Min

LEMMA MaxOfTwo ==
  ASSUME NEW a \in Int, NEW b \in Int
  PROVE  Max({a, b}) = IF a >= b THEN a ELSE b
<1> DEFINE m == IF a >= b THEN a ELSE b
<1>1. m \in {a, b} /\ \A y \in {a, b} : m >= y
  OBVIOUS
<1>2. \A x \in {a, b} : (\A y \in {a, b} : x >= y) => x = m
  OBVIOUS
<1>3. QED
  BY <1>1, <1>2 DEF Max

LEMMA SegmentWindowsIn ==
  ASSUME NEW chunks \in Seq(ChunkRecords), NEW i \in DOMAIN chunks
  PROVE  SegmentWindows(i, chunks[i].bytes) \in Seq(WindowsOver(chunks))
<1> DEFINE bytes == chunks[i].bytes
           n == CeilDiv(bytes, WindowMaxBytes)
           window(k) == [segment |-> i,
                         offset  |-> ((k - 1) * WindowMaxBytes) \div WordBytes,
                         words   |-> Min({bytes - (k - 1) * WindowMaxBytes, WindowMaxBytes}) \div WordBytes]
<1>1. i \in Nat /\ bytes \in Nat
  <2>1. i \in 1 .. Len(chunks) /\ Len(chunks) \in Nat /\ chunks[i] \in ChunkRecords
    OBVIOUS
  <2> QED BY <2>1 DEF ChunkRecords
<1>2. WordBytes \in Nat \ {0} /\ WindowMaxBytes \in Nat \ {0}
  BY DevicesAssumption
<1> HIDE DEF bytes
<1>3. n \in Nat /\ \A k \in 1 .. n : (k - 1) * WindowMaxBytes \in Nat /\ (k - 1) * WindowMaxBytes < bytes
  BY <1>1, <1>2, CeilDivFacts
<1> HIDE DEF n
<1>4. ASSUME NEW k \in 1 .. n PROVE window(k) \in WindowsOver(chunks)
  <2> DEFINE a == (k - 1) * WindowMaxBytes
             b == Min({bytes - a, WindowMaxBytes})
  <2>1. a \in Nat /\ a < bytes
    BY <1>3
  <2> HIDE DEF a
  <2>2. b \in Nat /\ a + b <= bytes
    <3>1. bytes - a \in Int /\ WindowMaxBytes \in Int
      BY <2>1, <1>1, <1>2
    <3>2. b = IF bytes - a <= WindowMaxBytes THEN bytes - a ELSE WindowMaxBytes
      BY <3>1, MinOfTwo
    <3> HIDE DEF b
    <3> QED BY <3>2, <2>1, <1>1, <1>2
  <2> HIDE DEF b
  <2> DEFINE p == a \div WordBytes
             q == b \div WordBytes
  <2>3. p \in Nat /\ q \in Nat /\ p * WordBytes <= a /\ q * WordBytes <= b
    BY <2>1, <2>2, <1>2, DivisionFacts
  <2> HIDE DEF p, q
  <2>4. (p + q) * WordBytes = p * WordBytes + q * WordBytes
    BY <2>3, <1>2
  <2>5. (p + q) * WordBytes <= bytes
    BY <2>1, <2>2, <2>3, <2>4, <1>1, <1>2
  <2>6. window(k) = [segment |-> i, offset |-> p, words |-> q]
    BY DEF a, b, p, q
  <2> QED BY <2>3, <2>5, <2>6, <1>1 DEF WindowsOver, AnyWindow, bytes
<1>5. SegmentWindows(i, bytes) = [k \in 1 .. n |-> window(k)]
  BY DEF SegmentWindows, n
<1> HIDE DEF window
<1> QED BY <1>3, <1>4, <1>5 DEF bytes

LEMMA ResetSweep ==
  ASSUME NEW chunks \in Seq(ChunkRecords)
  PROVE  SweepOver(chunks, Reset([i \in DOMAIN chunks |-> chunks[i].bytes]))
<1> DEFINE sizes == [i \in DOMAIN chunks |-> chunks[i].bytes]
           each  == [i \in DOMAIN sizes |-> SegmentWindows(i, sizes[i])]
           kept  == FoldLeft(LAMBDA out, w : IF w.words > 0 THEN Append(out, w) ELSE out, <<>>, FlattenSeq(each))
<1>1. Reset(sizes) = [windows |-> kept, window |-> 0, cursor |-> 0, pending |-> 0]
  BY DEF Reset, At
<1>2. each \in Seq(Seq(WindowsOver(chunks)))
  <2>1. each = [i \in 1 .. Len(chunks) |-> SegmentWindows(i, chunks[i].bytes)]
    OBVIOUS
  <2>2. \A i \in 1 .. Len(chunks) : SegmentWindows(i, chunks[i].bytes) \in Seq(WindowsOver(chunks))
    BY SegmentWindowsIn
  <2> HIDE DEF each
  <2> QED BY <2>1, <2>2
<1>3. kept \in Seq({w \in WindowsOver(chunks) : w.words > 0})
  <2> HIDE DEF each
  <2>1. FlattenSeq(each) \in Seq(WindowsOver(chunks))
    BY <1>2, FlattenIn
  <2> QED BY <2>1, WindowsKept
<1> HIDE DEF kept
<1>4. /\ kept \in Seq(AnyWindow)
      /\ \A i \in 1 .. Len(kept) : kept[i] \in WindowsOver(chunks) /\ kept[i].words > 0
  BY <1>3 DEF WindowsOver
<1>5. kept # <<>> => 0 < Len(kept) /\ 0 < kept[1].words
  BY <1>4
<1>6. SweepOver(chunks, [windows |-> kept, window |-> 0, cursor |-> 0, pending |-> 0])
  BY <1>4, <1>5 DEF SweepOver
<1> HIDE DEF sizes
<1>7. SweepOver(chunks, Reset(sizes))
  BY <1>1, <1>6
<1> QED BY <1>7 DEF sizes

LEMMA ClearSweep ==
  ASSUME NEW chunks
  PROVE  SweepOver(chunks, Clear)
BY DEF SweepOver, Clear, At

LEMMA AdvanceSweep ==
  ASSUME NEW chunks, NEW s, SweepOver(chunks, s), s.windows # <<>>, NEW k \in Nat
  PROVE  /\ SweepOver(chunks, Advance(s, k))
         /\ Advance(s, k).windows = s.windows
         /\ Advance(s, k).pending = s.pending
<1> DEFINE n == Len(s.windows)
           w == (s.window + k) % n
           a == Advance(s, k)
<1>1. /\ n \in Nat \ {0} /\ s.window \in 0 .. n - 1 /\ s.windows \in Seq(AnyWindow)
      /\ s.cursor \in Nat /\ s.pending \in Nat /\ s.cursor < s.windows[s.window + 1].words
  BY DEF SweepOver
<1>2. w \in 0 .. n - 1 /\ (k = 0 => w = s.window)
  <2>1. s.window + k \in Nat
    BY <1>1
  <2>2. w \in 0 .. n - 1
    BY <1>1, <2>1, DivisionFacts
  <2>3. k = 0 => w = s.window
    <3>1. s.window + 0 = s.window /\ s.window % n = s.window
      BY <1>1, ModuloSmall
    <3> QED BY <3>1
  <2> QED BY <2>2, <2>3
<1>3. a = [windows |-> s.windows, window |-> w, cursor |-> IF k = 0 THEN s.cursor ELSE 0, pending |-> s.pending]
  <2>1. s \in [windows : Seq(AnyWindow), window : Nat, cursor : Nat, pending : Nat]
    BY DEF SweepOver
  <2>2. a = [[s EXCEPT !.window = w] EXCEPT !.cursor = IF k = 0 THEN s.cursor ELSE 0]
    BY <2>1 DEF Advance, Size
  <2> HIDE DEF w, a
  <2> QED BY <2>1, <2>2
<1> HIDE DEF w, a, n
<1>4. s.windows[w + 1].words > 0
  BY <1>1, <1>2 DEF SweepOver, n
<1>5. a \in [windows : Seq(AnyWindow), window : Nat, cursor : Nat, pending : Nat]
  BY <1>1, <1>2, <1>3
<1>6. a.window < Len(a.windows) /\ a.cursor < a.windows[a.window + 1].words
  BY <1>1, <1>2, <1>3, <1>4 DEF n
<1>7. SweepOver(chunks, a)
  BY <1>3, <1>5, <1>6 DEF SweepOver
<1> QED BY <1>3, <1>7 DEF a

\* A launch with these arguments stays in a chunk, and every thread has a word.
LaunchOver(chunks, threads, a) ==
  a.words # 0 =>
    /\ a.segment \in DOMAIN chunks
    /\ (a.offset + a.words) * WordBytes <= chunks[a.segment].bytes
    /\ a.base < a.words /\ threads <= a.words

LEMMA TakeSweep ==
  ASSUME NEW chunks, NEW s, SweepOver(chunks, s), s.windows # <<>>,
         NEW loops \in Nat \ {0}, NEW traffic \in Nat, NEW threads \in Nat \ {0},
         Current(s).words >= threads
  PROVE  /\ SweepOver(chunks, Take(s, loops, traffic, threads).sweep)
         /\ LaunchOver(chunks, threads, Take(s, loops, traffic, threads).args)
<1> DEFINE pending   == s.pending + traffic
           perThread == (pending \div BytesPerAccess) \div threads
           stride    == CeilDiv(loops, Min({perThread, loops}))
           touched   == CeilDiv(loops, stride) * threads
           shortfall == Max({pending - touched * BytesPerAccess, 0})
           w         == Current(s)
           moved     == [Moved(s, touched) EXCEPT !.pending = Carried(shortfall, threads)]
           args      == [segment |-> w.segment, offset |-> w.offset, words |-> w.words,
                         base |-> s.cursor, stride |-> stride]
<1>1. /\ s \in [windows : Seq(AnyWindow), window : Nat, cursor : Nat, pending : Nat]
      /\ s.windows \in Seq(AnyWindow) /\ s.window \in Nat /\ s.cursor \in Nat /\ s.pending \in Nat
      /\ s.window < Len(s.windows) /\ w \in WindowsOver(chunks) /\ w.words > 0 /\ s.cursor < w.words
  BY DEF SweepOver, Current
<1>2. BytesPerAccess \in Nat \ {0}
  BY DevicesAssumption
<1>3. w \in AnyWindow /\ w.words \in Nat
  BY <1>1 DEF WindowsOver, AnyWindow
<1> HIDE DEF w
<1>4. pending \in Nat
  BY <1>1
<1> HIDE DEF pending
<1>5. perThread \in Nat
  <2>1. pending \div BytesPerAccess \in Nat
    BY <1>2, <1>4, DivisionFacts
  <2> QED BY <2>1, DivisionFacts
<1>6. CASE perThread = 0
  <2>1. Take(s, loops, traffic, threads) = [args |-> NoTraffic(loops), sweep |-> [s EXCEPT !.pending = pending]]
    BY <1>6 DEF Take, pending, perThread
  <2>2. SweepOver(chunks, [s EXCEPT !.pending = pending])
    BY <1>1, <1>4 DEF SweepOver
  <2>3. LaunchOver(chunks, threads, NoTraffic(loops))
    BY DEF LaunchOver, NoTraffic
  <2> QED BY <2>1, <2>2, <2>3
<1>7. CASE perThread # 0
  <2> HIDE DEF perThread
  <2>1. Min({perThread, loops}) \in Nat \ {0}
    BY <1>5, <1>7, MinOfTwo
  <2>2. stride \in Nat \ {0}
    <3> DEFINE m == Min({perThread, loops})
    <3>1. m \in Nat \ {0}
      BY <2>1
    <3> HIDE DEF m
    <3>2. CeilDiv(loops, m) \in Nat /\ CeilDiv(loops, m) > 0
      <4>1. loops \in Nat /\ loops > 0
        OBVIOUS
      <4> QED BY ONLY <3>1, <4>1, CeilDivFacts
    <3> QED BY <3>2 DEF m
  <2> HIDE DEF stride
  <2>3. touched \in Nat
    <3>1. CeilDiv(loops, stride) \in Nat
      BY <2>2, CeilDivFacts
    <3> QED BY <3>1
  <2> HIDE DEF touched
  <2>4. shortfall \in Nat
    <3>1. pending - touched * BytesPerAccess \in Int
      BY <1>2, <1>4, <2>3
    <3> DEFINE x == pending - touched * BytesPerAccess
    <3> HIDE DEF x
    <3>2. x \in Int => Max({x, 0}) \in Nat
      BY MaxOfTwo
    <3> QED BY <3>1, <3>2 DEF x
  <2> HIDE DEF shortfall
  <2>5. Carried(shortfall, threads) \in Nat
    <3> DEFINE x == threads * BytesPerAccess - 1
    <3>1. x \in Nat
      BY <1>2
    <3> HIDE DEF x
    <3>2. Min({shortfall, x}) \in Nat
      BY <3>1, <2>4, MinOfTwo
    <3> QED BY <3>2 DEF Carried, x
  <2>6. SweepOver(chunks, Moved(s, touched))
    <3>1. CASE touched >= w.words - s.cursor
      BY <3>1, AdvanceSweep DEF Moved, w
    <3>2. CASE ~(touched >= w.words - s.cursor)
      <4>1. Moved(s, touched) = [s EXCEPT !.cursor = s.cursor + touched]
        BY <3>2 DEF Moved, w
      <4>2. s.cursor + touched \in Nat /\ s.cursor + touched < s.windows[s.window + 1].words
        BY <3>2, <1>1, <1>3, <2>3 DEF w, Current
      <4>3. SweepOver(chunks, [s EXCEPT !.cursor = s.cursor + touched])
        BY <4>2, <1>1 DEF SweepOver
      <4> QED BY <4>1, <4>3
    <3> QED BY <3>1, <3>2
  <2>7. SweepOver(chunks, moved)
    <3> DEFINE m == Moved(s, touched)
               c == Carried(shortfall, threads)
    <3>1. SweepOver(chunks, m) /\ c \in Nat
      BY <2>5, <2>6
    <3> HIDE DEF m, c
    <3>2. SweepOver(chunks, [m EXCEPT !.pending = c])
      BY <3>1 DEF SweepOver
    <3> QED BY <3>2 DEF m, c
  <2>8. LaunchOver(chunks, threads, args)
    BY <1>1, <1>3 DEF LaunchOver, WindowsOver, w
  <2>9. Take(s, loops, traffic, threads) = [args |-> args, sweep |-> moved]
    BY <1>7 DEF Take, pending, perThread, stride, touched, shortfall, w
  <2> HIDE DEF moved, args
  <2> QED BY <2>7, <2>8, <2>9
<1> QED BY <1>6, <1>7

LEMMA NextLaunchSweep ==
  ASSUME NEW chunks, NEW s, SweepOver(chunks, s),
         NEW loops \in Nat, NEW traffic \in Nat, NEW threads \in Nat \ {0}
  PROVE  /\ SweepOver(chunks, NextLaunch(s, loops, traffic, threads).sweep)
         /\ LaunchOver(chunks, threads, NextLaunch(s, loops, traffic, threads).args)
<1>1. LaunchOver(chunks, threads, NoTraffic(loops))
  BY DEF LaunchOver, NoTraffic
<1>2. CASE s.windows = <<>>
  <2>1. NextLaunch(s, loops, traffic, threads) = [args |-> NoTraffic(loops), sweep |-> s]
    BY <1>2 DEF NextLaunch
  <2> QED BY <2>1, <1>1
<1>3. CASE s.windows # <<>> /\ Reach(s, threads) = {}
  <2>1. NextLaunch(s, loops, traffic, threads) = [args |-> NoTraffic(loops), sweep |-> Advance(s, Size(s) - 1)]
    BY <1>3 DEF NextLaunch
  <2>2. Size(s) - 1 \in Nat
    BY <1>3 DEF Size, SweepOver
  <2>3. SweepOver(chunks, Advance(s, Size(s) - 1))
    BY <2>2, <1>3, AdvanceSweep
  <2> QED BY <2>1, <2>3, <1>1
<1>4. CASE s.windows # <<>> /\ Reach(s, threads) # {}
  <2> DEFINE k == Min(Reach(s, threads))
             a == Advance(s, k)
             l == Max({loops, 1})
  <2>1. NextLaunch(s, loops, traffic, threads) = Take(a, l, traffic, threads)
    BY <1>4 DEF NextLaunch
  <2>2. Reach(s, threads) \in SUBSET Nat
    BY DEF Reach, Size, SweepOver
  <2>3. k \in Reach(s, threads)
    BY <1>4, <2>2, MinIn
  <2>4. k \in Nat /\ Current(a).words >= threads
    BY <2>2, <2>3 DEF Reach
  <2> HIDE DEF k
  <2>5. SweepOver(chunks, a) /\ a.windows # <<>>
    BY <1>4, <2>4, AdvanceSweep
  <2>6. l \in Nat \ {0}
    BY MaxOfTwo
  <2> HIDE DEF a, l
  <2> QED BY <2>1, <2>4, <2>5, <2>6, TakeSweep
<1>5. QED
  BY <1>2, <1>3, <1>4

-----------------------------------------------------------------------------
(***************************************************************************)
(* The driver's calls, for any backend.                                    *)
(***************************************************************************)

Fields == {"live", "mem", "handles", "chunks", "current", "threads", "sweep", "swept", "misuse"}

\* A device whose driver was never misused, with the block it knows and a
\* sweep over just that block.
Sound(d) ==
  /\ DOMAIN d = Fields /\ DOMAIN d.current = Threads
  /\ d.threads \in Nat \ {0}
  /\ d.chunks \in Seq(ChunkRecords) /\ ChunkIds(d) \subseteq d.mem
  /\ SweepOver(d.chunks, d.sweep)
  /\ d.misuse = {}

\* A call that makes and destroys no object and changes no thread's context.
SameObjects(d, e) == e.live = d.live /\ e.handles = d.handles /\ e.current = d.current

LEMMA NewIsSound == Sound(NewDevice)
<1>1. GridThreads \in Nat \ {0}
  BY DevicesAssumption
<1> DEFINE d == NewDevice
<1>2. /\ ChunkIds(d) = {} /\ d.chunks = <<>> /\ d.sweep = Clear /\ d.misuse = {}
      /\ DOMAIN d = Fields /\ DOMAIN d.current = Threads /\ d.threads = GridThreads
  BY DEF ChunkIds, NewDevice, Fields
<1>3. SweepOver(<<>>, Clear)
  BY ClearSweep
<1> HIDE DEF d
<1>4. d.chunks \in Seq(ChunkRecords)
  BY <1>2
<1>5. Sound(d)
  BY <1>1, <1>2, <1>3, <1>4 DEF Sound
<1> QED BY <1>5 DEF d

LEMMA DropSound ==
  ASSUME NEW d, Sound(d)
  PROVE  /\ Sound(DropFields(d)) /\ SameObjects(d, DropFields(d))
         /\ DropFields(d).chunks = <<>> /\ DropFields(d).sweep = Clear
<1> DEFINE e == DropFields(d)
<1>1. /\ DOMAIN e = Fields /\ e.chunks = <<>> /\ e.sweep = Clear /\ e.threads = d.threads
      /\ e.misuse = d.misuse /\ SameObjects(d, e)
  BY DEF Sound, Fields, DropFields, SameObjects
<1>2. ChunkIds(e) = {}
  BY <1>1 DEF ChunkIds
<1>3. SweepOver(<<>>, Clear)
  BY ClearSweep
<1> HIDE DEF e
<1>4. Sound(e)
  BY <1>1, <1>2, <1>3 DEF Sound, SameObjects
<1> QED BY <1>1, <1>4 DEF e

LEMMA FreeBlockSound ==
  ASSUME NEW d, Sound(d)
  PROVE  /\ Sound(FreeBlock(d)) /\ SameObjects(d, FreeBlock(d))
         /\ FreeBlock(d).chunks = <<>> /\ FreeBlock(d).sweep = Clear
<1> DEFINE e == [d EXCEPT !.mem = @ \ ChunkIds(d)]
           f == DropFields(e)
<1>1. FreeBlock(d) = f
  BY DEF FreeBlock, Unless, Sound
<1>2. /\ DOMAIN f = Fields /\ f.chunks = <<>> /\ f.sweep = Clear /\ f.threads = d.threads
      /\ f.misuse = d.misuse /\ SameObjects(d, f)
  BY DEF Sound, Fields, DropFields, SameObjects
<1>3. ChunkIds(f) = {}
  BY <1>2 DEF ChunkIds
<1>4. SweepOver(<<>>, Clear)
  BY ClearSweep
<1> HIDE DEF f
<1>5. Sound(f)
  BY <1>2, <1>3, <1>4 DEF Sound, SameObjects
<1> QED BY <1>1, <1>2, <1>5

LEMMA AddChunksSound ==
  ASSUME NEW d, Sound(d), d.sweep = Clear, NEW sizes \in Seq(Nat)
  PROVE  Sound(AddChunks(d, sizes)) /\ SameObjects(d, AddChunks(d, sizes))
<1> DEFINE free == (1 .. Capacity) \ d.mem
           ids  == SetToSeq(free)
           n    == Min({Len(sizes), Len(ids)})
           new  == [i \in 1 .. n |-> [id |-> ids[i], bytes |-> sizes[i]]]
           e    == AddChunks(d, sizes)
<1>1. Capacity \in Nat
  BY DevicesAssumption
<1>2. ids \in Seq(free)
  <2> HIDE DEF free
  <2>1. IsFiniteSet(free)
    <3>1. IsFiniteSet(1 .. Capacity)
      BY <1>1, FS_Interval
    <3>2. free \in SUBSET (1 .. Capacity)
      BY DEF free
    <3> QED BY <3>1, <3>2, FS_Subset
  <2>2. Cardinality(free) \in Nat
    BY <2>1, FS_CardinalityType
  <2>3. PICK f : f \in [1 .. Cardinality(free) -> free] /\ IsInjective(f)
    <3>1. PICK f : f \in Bijection(1 .. Cardinality(free), free)
      BY <2>1, FS_CardinalityType, FS_NatBijection DEF ExistsBijection
    <3> QED BY <3>1 DEF Bijection, Injection, IsInjective
  <2>4. ids \in [1 .. Cardinality(free) -> free]
    BY <2>3, Zenon DEF SetToSeq
  <2> HIDE DEF ids
  <2> QED BY <2>2, <2>4
<1> HIDE DEF free, ids
<1>3. n \in Nat /\ n <= Len(sizes) /\ n <= Len(ids)
  <2>1. Len(sizes) \in Nat /\ Len(ids) \in Nat
    BY <1>2
  <2> QED BY <2>1, MinOfTwo
<1> HIDE DEF n
<1>4. new \in Seq(ChunkRecords)
  <2>1. \A i \in 1 .. n : ids[i] \in 1 .. Capacity /\ sizes[i] \in Nat
    BY <1>2, <1>3 DEF free
  <2> QED BY <2>1, <1>3 DEF ChunkRecords
<1>5. e = [d EXCEPT !.mem = @ \cup {new[i].id : i \in DOMAIN new}, !.chunks = new]
  BY DEF AddChunks, n, ids, free
<1> HIDE DEF new, e
<1>6. /\ DOMAIN e = Fields /\ e.chunks = new /\ e.sweep = Clear /\ e.threads = d.threads
      /\ e.misuse = {} /\ SameObjects(d, e) /\ e.mem = d.mem \cup {new[i].id : i \in DOMAIN new}
  BY <1>5 DEF Sound, Fields, SameObjects
<1>7. ChunkIds(e) \subseteq e.mem
  BY <1>6 DEF ChunkIds
<1>8. SweepOver(new, Clear)
  BY ClearSweep
<1>9. Sound(e)
  BY <1>4, <1>6, <1>7, <1>8 DEF Sound, SameObjects
<1> QED BY <1>6, <1>9 DEF e

LEMMA SweptSound ==
  ASSUME NEW d, Sound(d)
  PROVE  Sound(Swept(d)) /\ SameObjects(d, Swept(d))
<1> DEFINE r == Reset([i \in DOMAIN d.chunks |-> d.chunks[i].bytes])
<1>1. SweepOver(d.chunks, r)
  BY ResetSweep DEF Sound
<1>2. Swept(d) = [d EXCEPT !.sweep = r]
  BY DEF Swept
<1> HIDE DEF r
<1> QED BY <1>1, <1>2 DEF Sound, SameObjects, Fields, ChunkIds

LEMMA PlanSound ==
  ASSUME NEW d, Sound(d), NEW loops \in Nat, NEW traffic \in Nat
  PROVE  /\ Sound(Plan(d, loops, traffic).dev)
         /\ SameObjects(d, Plan(d, loops, traffic).dev)
         /\ InBlock(Plan(d, loops, traffic).dev, Plan(d, loops, traffic).args)
<1> DEFINE l == Max({loops, 1})
           n == NextLaunch(d.sweep, l, traffic, d.threads)
           w == IF n.args.words = 0 THEN <<>> ELSE <<n.args.segment, n.args.offset>>
           e == [d EXCEPT !.sweep = n.sweep, !.swept = w]
<1>1. l \in Nat
  BY MaxOfTwo
<1> HIDE DEF l
<1>2. SweepOver(d.chunks, n.sweep) /\ LaunchOver(d.chunks, d.threads, n.args)
  BY <1>1, NextLaunchSweep DEF Sound
<1>3. Plan(d, loops, traffic) = [args |-> n.args, dev |-> e]
  BY DEF Plan, l
<1> HIDE DEF n, w
<1>4. Sound(e) /\ SameObjects(d, e) /\ e.chunks = d.chunks /\ e.mem = d.mem /\ e.threads = d.threads
  BY <1>2 DEF Sound, SameObjects, Fields, ChunkIds
<1> HIDE DEF e
<1>5. n.args.segment \in DOMAIN d.chunks => d.chunks[n.args.segment].id \in d.mem
  BY DEF Sound, ChunkIds
<1>6. InBlock(e, n.args)
  BY <1>2, <1>4, <1>5 DEF InBlock, LaunchOver
<1> QED BY <1>3, <1>4, <1>6

LEMMA MakeSound ==
  ASSUME NEW d, Sound(d), NEW objects, objects \cap d.live = {}
  PROVE  LET e == Make(d, objects)
         IN  /\ Sound(e) /\ e.chunks = d.chunks /\ e.sweep = d.sweep /\ e.current = d.current
             /\ e.live = d.live \cup objects /\ e.handles = d.handles \cup objects
<1> DEFINE e == [d EXCEPT !.live = @ \cup objects, !.handles = @ \cup objects]
<1>1. Make(d, objects) = e
  BY DEF Make, Unless
<1>2. /\ Sound(e) /\ e.chunks = d.chunks /\ e.sweep = d.sweep /\ e.current = d.current
      /\ e.live = d.live \cup objects /\ e.handles = d.handles \cup objects
  BY DEF Sound, Fields, ChunkIds
<1> QED BY <1>1, <1>2

LEMMA GiveSound ==
  ASSUME NEW d, Sound(d), NEW objects, objects \cap d.handles \subseteq d.live
  PROVE  LET e == Give(d, objects)
         IN  /\ Sound(e) /\ e.chunks = d.chunks /\ e.sweep = d.sweep /\ e.current = d.current
             /\ e.live = d.live \ (objects \cap d.handles) /\ e.handles = d.handles \ objects
<1> DEFINE had == objects \cap d.handles
           e == [d EXCEPT !.live = @ \ had, !.handles = @ \ had]
<1>1. Give(d, objects) = e
  BY DEF Give, Unless
<1>2. /\ Sound(e) /\ e.chunks = d.chunks /\ e.sweep = d.sweep /\ e.current = d.current
      /\ e.live = d.live \ (objects \cap d.handles) /\ e.handles = d.handles \ objects
  BY DEF Sound, Fields, ChunkIds
<1> QED BY <1>1, <1>2

LEMMA GoneSound ==
  ASSUME NEW d, Sound(d), NEW objects
  PROVE  LET e == Gone(d, objects)
         IN  /\ Sound(e) /\ e.chunks = d.chunks /\ e.sweep = d.sweep /\ e.current = d.current
             /\ e.live = d.live \ objects /\ e.handles = d.handles
BY DEF Gone, Sound, Fields, ChunkIds

LEMMA LaunchSound ==
  ASSUME NEW d, NEW objects, objects \subseteq d.live, NEW args, InBlock(d, args)
  PROVE  Launch(d, objects, args) = d
BY DEF Launch, Unless

LEMMA CurrentSound ==
  ASSUME NEW d, Sound(d), NEW t \in Threads, NEW c
  PROVE  /\ Sound([d EXCEPT !.current[t] = c]) /\ [d EXCEPT !.current[t] = c].current[t] = c
         /\ [d EXCEPT !.current[t] = c].live = d.live /\ [d EXCEPT !.current[t] = c].handles = d.handles
         /\ [d EXCEPT !.current[t] = c].chunks = d.chunks /\ [d EXCEPT !.current[t] = c].sweep = d.sweep
         /\ [d EXCEPT !.current[t] = c].mem = d.mem
BY DEF Sound, Fields, ChunkIds

-----------------------------------------------------------------------------
(***************************************************************************)
(* What exists in the driver for the block, and what the backend knows of. *)
(***************************************************************************)

Bytes(chunks) == FoldLeft(LAMBDA sum, c : sum + c.bytes, 0, chunks)

\* The chunks that the backend knows nothing of.
Astray(d) == d.mem \ ChunkIds(d)

\* The sum over a block is what its partial sums lead to.
LEMMA BytesAddUp ==
  ASSUME NEW chunks \in Seq(ChunkRecords), NEW part \in [0 .. Len(chunks) -> Nat], part[0] = 0,
         \A k \in 1 .. Len(chunks) : part[k] = part[k - 1] + chunks[k].bytes
  PROVE  Bytes(chunks) = part[Len(chunks)]
<1> DEFINE R == Nat
           S == ChunkRecords
           n == Len(chunks)
           More(sum, c) == sum + c.bytes
           op == [a \in R \X S |-> More(a[1], a[2])]
           f  == CHOOSE iter : iter = [T \in SUBSET (DOMAIN chunks) |->
                                         IF T = {} THEN 0 ELSE More(iter[T \ {Max(T)}], chunks[Max(T)])]
<1>1. \A sum \in R, c \in S : More(sum, c) \in R
  BY DEF ChunkRecords
<1>2. n \in Nat /\ DOMAIN chunks = 1 .. n
  OBVIOUS
<1>3. op \in [R \X S -> R]
  <2> HIDE DEF R, S, More
  <2> QED BY <1>1
<1>4. PICK g : IsFold(g, R, op, 0, chunks)
  <2>1. 0 \in R
    OBVIOUS
  <2> HIDE DEF R, op
  <2> QED BY <2>1, <1>3, FoldExists
<1>5. \A T \in SUBSET (DOMAIN chunks) : T # {} => Max(T) \in T
  BY <1>2, MaxIn
<1>6. g = [T \in SUBSET (DOMAIN chunks) |-> IF T = {} THEN 0 ELSE More(g[T \ {Max(T)}], chunks[Max(T)])]
  <2>1. \A T \in SUBSET (DOMAIN chunks) : T # {} =>
          /\ T \ {Max(T)} \in SUBSET (DOMAIN chunks)
          /\ <<g[T \ {Max(T)}], chunks[Max(T)]>> \in R \X S
    <3> HIDE DEF R
    <3> QED BY <1>4, <1>5 DEF IsFold
  <2>2. \A T \in SUBSET (DOMAIN chunks) : T # {} =>
          op[<<g[T \ {Max(T)}], chunks[Max(T)]>>] = More(g[T \ {Max(T)}], chunks[Max(T)])
    <3> HIDE DEF R, S, More
    <3> QED BY <2>1
  <2> HIDE DEF R, S, op, More
  <2> QED BY <1>4, <2>2 DEF IsFold
<1>7. f = [T \in SUBSET (DOMAIN chunks) |-> IF T = {} THEN 0 ELSE More(f[T \ {Max(T)}], chunks[Max(T)])]
  <2> HIDE DEF More
  <2> QED BY <1>6, Zenon
<1>8. f[1 .. n] = part[n]
  <2> DEFINE B == {k \in 0 .. n : f[1 .. k] = part[k]}
  <2> HIDE DEF f
  <2>1. 0 \in B
    <3>1. 1 .. 0 = {} /\ {} \in SUBSET (DOMAIN chunks)
      OBVIOUS
    <3>2. f[{}] = 0
      BY <1>7, <3>1
    <3>3. f[1 .. 0] = 0
      BY <3>1, <3>2
    <3> HIDE DEF n
    <3> QED BY <1>2, <3>3
  <2>2. ASSUME NEW k \in 0 .. n - 1, k \in B PROVE k + 1 \in B
    <3> HIDE DEF n
    <3>0. k \in Nat /\ k + 1 \in 1 .. n /\ k + 1 \in 0 .. n
      BY <1>2
    <3>1. Max(1 .. k + 1) = k + 1
      BY <3>0, MaxOfUpTo
    <3>2. (1 .. k + 1) \ {k + 1} = 1 .. k /\ 1 .. k + 1 # {} /\ 1 .. k + 1 \in SUBSET (DOMAIN chunks)
      <4>1. \A j : j \in 1 .. k + 1 <=> j \in 1 .. k \/ j = k + 1
        BY <3>0
      <4>2. k + 1 \notin 1 .. k /\ k + 1 \in 1 .. k + 1
        BY <3>0
      <4>3. \A j \in 1 .. k + 1 : j \in 1 .. n
        BY <3>0, <1>2
      <4> QED BY <4>1, <4>2, <4>3, <1>2
    <3>3. f[1 .. k + 1] = f[1 .. k] + chunks[k + 1].bytes
      <4> DEFINE T == 1 .. k + 1
      <4>1. T \in SUBSET (DOMAIN chunks) /\ T # {} /\ Max(T) = k + 1 /\ T \ {Max(T)} = 1 .. k
        BY <3>1, <3>2
      <4> HIDE DEF T
      <4>2. f[T] = More(f[T \ {Max(T)}], chunks[Max(T)])
        BY <1>7, <4>1
      <4>3. f[T] = More(f[1 .. k], chunks[k + 1])
        BY <4>1, <4>2
      <4> QED BY <4>3 DEF T
    <3>4. part[k + 1] = part[k] + chunks[k + 1].bytes
      <4>1. k + 1 \in 1 .. Len(chunks) /\ (k + 1) - 1 = k
        BY <3>0 DEF n
      <4> QED BY <4>1
    <3> QED BY <2>2, <3>0, <3>3, <3>4
  <2>3. n \in B
    <3> HIDE DEF B, n
    <3> QED BY <1>2, <2>1, <2>2, UpTo
  <2> QED BY <2>3
<1>9. Bytes(chunks) = f[DOMAIN chunks]
  BY DEF Bytes, FoldLeft, MapThenFoldSet
<1> QED BY <1>2, <1>8, <1>9

LEMMA NoBytes == Bytes(<<>>) = 0
<1> DEFINE part == [k \in 0 .. 0 |-> 0]
<1>1. part \in [0 .. Len(<<>>) -> Nat] /\ part[0] = 0 /\ <<>> \in Seq(ChunkRecords) /\ Len(<<>>) = 0
  OBVIOUS
<1>2. \A k \in 1 .. Len(<<>>) : part[k] = part[k - 1] + <<>>[k].bytes
  BY <1>1
<1> HIDE DEF part
<1> QED BY <1>1, <1>2, BytesAddUp

\* The sizes of a block's chunks are sizes.
LEMMA SizesAreSizes ==
  ASSUME NEW bytes \in Nat \ {0}, NEW most \in Nat \ {0}
  PROVE  ChunkSizes(bytes, most) \in Seq(Nat)
<1> DEFINE n == CeilDiv(bytes, most)
           size(k) == Min({most, bytes - (k - 1) * most})
<1>1. n \in Nat /\ \A k \in 1 .. n : (k - 1) * most \in Nat /\ (k - 1) * most < bytes
  BY CeilDivFacts
<1> HIDE DEF n
<1>2. ASSUME NEW k \in 1 .. n PROVE size(k) \in Nat
  <2> DEFINE a == (k - 1) * most
  <2>1. a \in Nat /\ a < bytes
    BY <1>1
  <2> HIDE DEF a
  <2>2. bytes - a \in Int /\ most \in Int
    BY <2>1
  <2>3. Min({most, bytes - a}) = IF most <= bytes - a THEN most ELSE bytes - a
    BY <2>2, MinOfTwo
  <2>4. Min({most, bytes - a}) \in Nat
    BY <2>1, <2>3
  <2> QED BY <2>4 DEF a
<1>3. ChunkSizes(bytes, most) = [k \in 1 .. n |-> size(k)]
  BY DEF ChunkSizes, n
<1> HIDE DEF size
<1> QED BY <1>1, <1>2, <1>3

\* The sizes that a limit on allocations makes of a block are all of it.
LEMMA SizesAddUp ==
  ASSUME NEW bytes \in Nat \ {0}, NEW most \in Nat \ {0}, NEW chunks \in Seq(ChunkRecords),
         Len(chunks) = Len(ChunkSizes(bytes, most)),
         \A k \in 1 .. Len(chunks) : chunks[k].bytes = ChunkSizes(bytes, most)[k]
  PROVE  Bytes(chunks) = bytes
<1> DEFINE n == CeilDiv(bytes, most)
           part == [k \in 0 .. n |-> IF k * most <= bytes THEN k * most ELSE bytes]
<1>1. n \in Nat /\ \A k \in 1 .. n : (k - 1) * most \in Nat /\ (k - 1) * most < bytes
  BY CeilDivFacts
<1>2. n * most >= bytes
  <2>1. bytes + most - 1 \in Nat
    OBVIOUS
  <2>2. bytes + most - 1 < n * most + most
    BY <2>1, DivisionFacts DEF CeilDiv
  <2> HIDE DEF n
  <2>3. n * most \in Nat
    BY <1>1
  <2> QED BY <2>2, <2>3
<1> HIDE DEF n
<1>3. Len(chunks) = n
  <2>1. ChunkSizes(bytes, most) = [k \in 1 .. n |-> Min({most, bytes - (k - 1) * most})]
    BY DEF ChunkSizes, n
  <2>2. ChunkSizes(bytes, most) \in Seq(Nat)
    BY SizesAreSizes
  <2> QED BY <1>1, <2>1, <2>2
<1>4. part \in [0 .. n -> Nat]
  <2>1. \A k \in 0 .. n : k * most \in Nat
    BY <1>1
  <2> QED BY <2>1
<1>5. part[0] = 0
  <2>1. 0 * most = 0 /\ 0 \in 0 .. n
    BY <1>1
  <2> QED BY <2>1
<1>6. ASSUME NEW k \in 1 .. n PROVE part[k] = part[k - 1] + chunks[k].bytes
  <2> DEFINE a == (k - 1) * most
  <2>1. a \in Nat /\ a < bytes /\ k * most = a + most
    BY <1>1
  <2>2. chunks[k].bytes = Min({most, bytes - a})
    BY <1>3 DEF ChunkSizes, n
  <2>3. k \in 0 .. n /\ k - 1 \in 0 .. n
    BY <1>1
  <2>4. part[k - 1] = IF a <= bytes THEN a ELSE bytes
    BY <2>3
  <2>5. part[k] = IF a + most <= bytes THEN a + most ELSE bytes
    BY <2>1, <2>3
  <2> HIDE DEF a, part
  <2>6. Min({most, bytes - a}) = IF most <= bytes - a THEN most ELSE bytes - a
    BY <2>1, MinOfTwo
  <2> QED BY <2>1, <2>2, <2>4, <2>5, <2>6
<1>7. part[n] = bytes
  <2>1. n \in 0 .. n /\ n * most \in Nat
    BY <1>1
  <2> QED BY <1>2, <2>1
<1> HIDE DEF part
<1>8. Bytes(chunks) = part[Len(chunks)]
  BY <1>3, <1>4, <1>5, <1>6, BytesAddUp
<1> QED BY <1>3, <1>7, <1>8

\* A call that leaves block and objects as they are.
SameBlock(d, e) == e.live = d.live /\ e.mem = d.mem /\ e.chunks = d.chunks

\* A call after which the backend has a block of so many bytes and no other,
\* and nothing else was made or lost.
HasBlock(d, e, bytes) ==
  /\ e.live = d.live /\ e.mem \in SUBSET (1 .. Capacity) /\ Astray(e) = Astray(d)
  /\ Bytes(e.chunks) = bytes /\ (bytes = 0 => e.chunks = <<>>)

LEMMA NoChunks ==
  ASSUME NEW d, d.chunks = <<>>
  PROVE  Astray(d) = d.mem /\ ChunkIds(d) = {} /\ Bytes(d.chunks) = 0
BY NoBytes DEF Astray, ChunkIds

LEMMA FreeBlockKeeps ==
  ASSUME NEW d, Sound(d)
  PROVE  FreeBlock(d).live = d.live /\ FreeBlock(d).mem = Astray(d) /\ FreeBlock(d).chunks = <<>>
<1> DEFINE e == [d EXCEPT !.mem = @ \ ChunkIds(d)]
<1>1. FreeBlock(d) = DropFields(e)
  BY DEF FreeBlock, Unless, Sound
<1>2. DOMAIN e = Fields /\ e.live = d.live /\ e.mem = Astray(d)
  BY DEF Sound, Fields, Astray
<1> HIDE DEF e
<1>3. DropFields(e).live = e.live /\ DropFields(e).mem = e.mem /\ DropFields(e).chunks = <<>>
  BY <1>2 DEF DropFields, Fields
<1> QED BY <1>1, <1>2, <1>3

LEMMA FreeBlockHasNone ==
  ASSUME NEW d, Sound(d), d.mem \in SUBSET (1 .. Capacity)
  PROVE  HasBlock(d, FreeBlock(d), 0)
<1> DEFINE e == FreeBlock(d)
<1>1. e.live = d.live /\ e.mem = Astray(d) /\ e.chunks = <<>>
  BY FreeBlockKeeps
<1> HIDE DEF e
<1>2. Astray(e) = e.mem /\ Bytes(e.chunks) = 0
  BY <1>1, NoChunks
<1>3. Astray(d) \in SUBSET (1 .. Capacity)
  BY DEF Astray
<1>4. HasBlock(d, e, 0)
  BY <1>1, <1>2, <1>3 DEF HasBlock
<1> QED BY <1>4 DEF e

LEMMA SweptKeeps ==
  ASSUME NEW d, Sound(d)
  PROVE  SameBlock(d, Swept(d))
BY DEF Sound, Fields, Swept, SameBlock

LEMMA PlanKeeps ==
  ASSUME NEW d, Sound(d), NEW loops, NEW traffic
  PROVE  SameBlock(d, Plan(d, loops, traffic).dev)
<1> DEFINE n == NextLaunch(d.sweep, Max({loops, 1}), traffic, d.threads)
           w == IF n.args.words = 0 THEN <<>> ELSE <<n.args.segment, n.args.offset>>
<1>1. Plan(d, loops, traffic).dev = [d EXCEPT !.sweep = n.sweep, !.swept = w]
  BY DEF Plan
<1> HIDE DEF n, w
<1> QED BY <1>1 DEF Sound, Fields, SameBlock

LEMMA MakeKeeps ==
  ASSUME NEW d, Sound(d), NEW objects
  PROVE  /\ Make(d, objects).mem = d.mem /\ Give(d, objects).mem = d.mem /\ Gone(d, objects).mem = d.mem
         /\ Gone(d, objects).live = d.live \ objects
BY DEF Make, Give, Gone, Unless, Sound, Fields

\* As many of the chunks are made as the memory has room for, of free memory.
LEMMA AddChunksMakes ==
  ASSUME NEW d, Sound(d), d.mem \in SUBSET (1 .. Capacity), d.chunks = <<>>, NEW sizes \in Seq(Nat)
  PROVE  LET e == AddChunks(d, sizes)
         IN  /\ e.live = d.live /\ e.mem \in SUBSET (1 .. Capacity) /\ Astray(e) = Astray(d)
             /\ e.chunks \in Seq(ChunkRecords)
             /\ Len(sizes) <= Room(d) =>
                  Len(e.chunks) = Len(sizes) /\ \A k \in 1 .. Len(e.chunks) : e.chunks[k].bytes = sizes[k]
<1> DEFINE free == (1 .. Capacity) \ d.mem
           ids  == SetToSeq(free)
           n    == Min({Len(sizes), Len(ids)})
           new  == [i \in 1 .. n |-> [id |-> ids[i], bytes |-> sizes[i]]]
           e    == AddChunks(d, sizes)
<1>1. Capacity \in Nat
  BY DevicesAssumption
<1>2. IsFiniteSet(free) /\ Cardinality(free) = Room(d) /\ Room(d) \in Nat
  <2>1. IsFiniteSet(1 .. Capacity) /\ Cardinality(1 .. Capacity) = Capacity
    BY <1>1, FS_Interval
  <2>2. (1 .. Capacity) \cap d.mem = d.mem
    OBVIOUS
  <2>3. IsFiniteSet(free) /\ Cardinality(free) = Cardinality(1 .. Capacity) - Cardinality((1 .. Capacity) \cap d.mem)
    BY <2>1, FS_Difference
  <2>4. Cardinality(free) \in Nat
    BY <2>3, FS_CardinalityType
  <2> HIDE DEF free
  <2> QED BY <2>1, <2>2, <2>3, <2>4 DEF Room
<1>3. ids \in Seq(free) /\ Len(ids) = Room(d)
  <2> HIDE DEF free
  <2>1. PICK f : f \in [1 .. Cardinality(free) -> free] /\ IsInjective(f)
    <3>1. PICK f : f \in Bijection(1 .. Cardinality(free), free)
      BY <1>2, FS_CardinalityType, FS_NatBijection DEF ExistsBijection
    <3> QED BY <3>1 DEF Bijection, Injection, IsInjective
  <2>2. ids \in [1 .. Cardinality(free) -> free]
    BY <2>1, Zenon DEF SetToSeq
  <2> HIDE DEF ids
  <2> QED BY <1>2, <2>2
<1>4. \A i \in 1 .. Len(ids) : ids[i] \in 1 .. Capacity /\ ids[i] \notin d.mem
  BY <1>3
<1> HIDE DEF free, ids
<1>5. n \in Nat /\ n <= Len(sizes) /\ n <= Len(ids) /\ (Len(sizes) <= Len(ids) => n = Len(sizes))
  <2>1. Len(sizes) \in Nat /\ Len(ids) \in Nat
    BY <1>3
  <2>2. n = IF Len(sizes) <= Len(ids) THEN Len(sizes) ELSE Len(ids)
    BY <2>1, MinOfTwo
  <2> HIDE DEF n
  <2> QED BY <2>1, <2>2
<1> HIDE DEF n
<1>6. \A i \in 1 .. n : ids[i] \in 1 .. Capacity /\ ids[i] \notin d.mem /\ sizes[i] \in Nat
  <2>1. \A i \in 1 .. n : i \in 1 .. Len(ids) /\ i \in 1 .. Len(sizes)
    BY <1>2, <1>3, <1>5
  <2> QED BY <1>4, <2>1
<1>7. new \in Seq(ChunkRecords) /\ Len(new) = n /\ DOMAIN new = 1 .. n
  BY <1>5, <1>6 DEF ChunkRecords
<1>8. /\ \A i \in 1 .. n : new[i].bytes = sizes[i] /\ new[i].id = ids[i]
      /\ {new[i].id : i \in DOMAIN new} = {ids[i] : i \in 1 .. n}
  BY <1>7
<1>9. e = [d EXCEPT !.mem = @ \cup {new[i].id : i \in DOMAIN new}, !.chunks = new]
  <2>1. (1 .. Capacity) \ d.mem = free
    BY DEF free
  <2> QED BY <2>1 DEF AddChunks, n, ids
<1> HIDE DEF new, e
<1>10. e.live = d.live /\ e.chunks = new /\ e.mem = d.mem \cup {ids[i] : i \in 1 .. n}
  BY <1>8, <1>9 DEF Sound, Fields
<1>11. ChunkIds(e) = {ids[i] : i \in 1 .. n}
  BY <1>8, <1>10 DEF ChunkIds
<1>12. Astray(e) = d.mem /\ Astray(d) = d.mem
  BY <1>6, <1>10, <1>11, NoChunks DEF Astray
<1>13. e.mem \in SUBSET (1 .. Capacity)
  BY <1>6, <1>10
<1>14. Len(sizes) <= Room(d) => Len(new) = Len(sizes) /\ \A k \in 1 .. Len(new) : new[k].bytes = sizes[k]
  BY <1>3, <1>5, <1>7, <1>8
<1> QED BY <1>7, <1>10, <1>12, <1>13, <1>14 DEF e

\* A block given up while it was being made has left nothing.
LEMMA GivenUpLeavesNone ==
  ASSUME NEW d, Sound(d), d.mem \in SUBSET (1 .. Capacity), d.sweep = Clear, d.chunks = <<>>, NEW sizes \in Seq(Nat)
  PROVE  HasBlock(d, FreeBlock(AddChunks(d, sizes)), 0)
<1> DEFINE e == AddChunks(d, sizes)
<1>1. Sound(e)
  BY AddChunksSound
<1>2. e.live = d.live /\ e.mem \in SUBSET (1 .. Capacity) /\ Astray(e) = Astray(d)
  BY AddChunksMakes
<1> HIDE DEF e
<1>3. HasBlock(e, FreeBlock(e), 0)
  BY <1>1, <1>2, FreeBlockHasNone
<1>4. HasBlock(d, FreeBlock(e), 0)
  BY <1>2, <1>3 DEF HasBlock
<1> QED BY <1>4 DEF e

\* A block that there was room for is there as a whole, in one chunk or, with a
\* limit on allocations, in several.
LEMMA WholeBlockMade ==
  ASSUME NEW d, Sound(d), d.mem \in SUBSET (1 .. Capacity), d.sweep = Clear, d.chunks = <<>>,
         NEW bytes \in Nat \ {0}, NEW most \in Nat \ {0}, Len(ChunkSizes(bytes, most)) <= Room(d)
  PROVE  LET e == AddChunks(d, ChunkSizes(bytes, most))
         IN  Sound(e) /\ HasBlock(d, e, bytes)
<1> DEFINE sizes == ChunkSizes(bytes, most)
           e == AddChunks(d, sizes)
<1>1. sizes \in Seq(Nat)
  BY SizesAreSizes
<1>2. Len(sizes) <= Room(d)
  OBVIOUS
<1>3. /\ e.live = d.live /\ e.mem \in SUBSET (1 .. Capacity) /\ Astray(e) = Astray(d)
      /\ e.chunks \in Seq(ChunkRecords)
      /\ Len(e.chunks) = Len(sizes) /\ \A k \in 1 .. Len(e.chunks) : e.chunks[k].bytes = sizes[k]
  <2> HIDE DEF sizes
  <2> QED BY <1>1, <1>2, AddChunksMakes
<1>4. Sound(e)
  <2> HIDE DEF sizes
  <2> QED BY <1>1, AddChunksSound
<1> HIDE DEF e
<1>5. Bytes(e.chunks) = bytes
  BY <1>3, SizesAddUp
<1>6. HasBlock(d, e, bytes)
  BY <1>3, <1>5 DEF HasBlock
<1> QED BY <1>4, <1>6 DEF e

LEMMA OneChunk ==
  ASSUME NEW bytes \in Nat \ {0}
  PROVE  ChunkSizes(bytes, bytes) = <<bytes>>
<1>1. CeilDiv(bytes, bytes) = 1
  <2> DEFINE q == CeilDiv(bytes, bytes)
  <2>1. bytes + bytes - 1 \in Nat
    OBVIOUS
  <2>2. q \in Nat /\ q * bytes <= bytes + bytes - 1 /\ bytes + bytes - 1 < q * bytes + bytes
    BY <2>1, DivisionFacts DEF CeilDiv
  <2> HIDE DEF q
  <2>3. q # 0
    BY <2>2
  <2>4. ~(q >= 2)
    <3> SUFFICES ASSUME q >= 2 PROVE FALSE
      OBVIOUS
    <3>1. (q - 2) * bytes >= 0 /\ q * bytes = (q - 2) * bytes + bytes + bytes
      BY <2>2
    <3> QED BY <2>2, <3>1
  <2> QED BY <2>2, <2>3, <2>4 DEF q
<1>2. (1 - 1) * bytes = 0
  OBVIOUS
<1>3. Min({bytes, bytes - 0}) = bytes
  BY MinOfTwo
<1>4. ChunkSizes(bytes, bytes) = [k \in 1 .. 1 |-> Min({bytes, bytes - (k - 1) * bytes})]
  BY <1>1 DEF ChunkSizes
<1>5. \A k \in 1 .. 1 : Min({bytes, bytes - (k - 1) * bytes}) = bytes
  BY <1>2, <1>3
<1>6. ChunkSizes(bytes, bytes) = [k \in 1 .. 1 |-> bytes]
  BY <1>4, <1>5
<1> QED BY <1>6

-----------------------------------------------------------------------------
(***************************************************************************)
(* The driver is the same in every backend's module.                       *)
(***************************************************************************)

LEMMA NvidiaDriver ==
  /\ \A d, ok : Nvidia!Outcome(d, ok) = Outcome(d, ok)
  /\ \A d, objects : Nvidia!Make(d, objects) = Make(d, objects)
  /\ \A d, objects : Nvidia!Give(d, objects) = Give(d, objects)
  /\ \A d, objects : Nvidia!Gone(d, objects) = Gone(d, objects)
  /\ \A d : Nvidia!DropFields(d) = DropFields(d)
  /\ \A d : Nvidia!FreeBlock(d) = FreeBlock(d)
  /\ \A bytes, most : Nvidia!ChunkSizes(bytes, most) = ChunkSizes(bytes, most)
  /\ \A d, sizes : Nvidia!AddChunks(d, sizes) = AddChunks(d, sizes)
  /\ \A d : Nvidia!Room(d) = Room(d)
  /\ \A d : Nvidia!Swept(d) = Swept(d)
  /\ \A d, loops, traffic : Nvidia!Plan(d, loops, traffic) = Plan(d, loops, traffic)
  /\ \A d, objects, args : Nvidia!Launch(d, objects, args) = Launch(d, objects, args)
<1>1. /\ \A d, objects : Nvidia!Make(d, objects) = Make(d, objects)
      /\ \A d, objects : Nvidia!Give(d, objects) = Give(d, objects)
  BY DEF Nvidia!Make, Make, Nvidia!Give, Give, Nvidia!Unless, Unless
<1>2. \A d : Nvidia!DropFields(d) = DropFields(d)
  BY DEF Nvidia!DropFields, DropFields, Nvidia!Clear, Clear, Nvidia!At, At
<1>3. \A d : Nvidia!FreeBlock(d) = FreeBlock(d)
  BY DEF Nvidia!FreeBlock, FreeBlock, Nvidia!Unless, Unless, Nvidia!ChunkIds, ChunkIds,
         Nvidia!DropFields, DropFields, Nvidia!Clear, Clear, Nvidia!At, At
<1>4. \A d, sizes : Nvidia!AddChunks(d, sizes) = AddChunks(d, sizes)
  BY DEF Nvidia!AddChunks, AddChunks, Nvidia!SetToSeq, SetToSeq, Nvidia!IsInjective, IsInjective,
         Nvidia!Min, Min, Nvidia!Cardinality, Cardinality
<1>5. \A d : Nvidia!Swept(d) = Swept(d)
  BY DEF Nvidia!Swept, Swept, Nvidia!Reset, Reset, Nvidia!At, At, Nvidia!SegmentWindows,
         SegmentWindows, Nvidia!CeilDiv, CeilDiv, Nvidia!Min, Min, Nvidia!Max, Max,
         Nvidia!FlattenSeq, FlattenSeq, Nvidia!FoldLeft, FoldLeft, Nvidia!MapThenFoldSet, MapThenFoldSet
<1>6. ASSUME NEW d, NEW loops, NEW traffic PROVE Nvidia!Plan(d, loops, traffic) = Plan(d, loops, traffic)
  <2>1. \A S : Nvidia!Min(S) = Min(S) /\ Nvidia!Max(S) = Max(S)
    BY DEF Nvidia!Min, Min, Nvidia!Max, Max
  <2>2. \A w : Nvidia!Size(w) = Size(w) /\ Nvidia!Current(w) = Current(w)
    BY DEF Nvidia!Size, Size, Nvidia!Current, Current
  <2>3. \A w, k : Nvidia!Advance(w, k) = Advance(w, k) /\ Nvidia!Reach(w, k) = Reach(w, k)
    BY DEF Nvidia!Reach, Reach, Nvidia!Advance, Advance, Nvidia!Current, Current, Nvidia!Size,
           Size
  <2>4. \A n : Nvidia!NoTraffic(n) = NoTraffic(n)
    BY DEF Nvidia!NoTraffic, NoTraffic, Nvidia!Max, Max
  <2>5. \A a, b : Nvidia!CeilDiv(a, b) = CeilDiv(a, b)
    BY DEF Nvidia!CeilDiv, CeilDiv
  <2>6. \A w, touched : Nvidia!Moved(w, touched) = Moved(w, touched)
    BY DEF Nvidia!Moved, Moved, Nvidia!Advance, Advance, Nvidia!Current, Current, Nvidia!Size, Size
  <2>7. ASSUME NEW w, NEW n, NEW t, NEW k PROVE Nvidia!Take(w, n, t, k) = Take(w, n, t, k)
    <3> DEFINE pending   == w.pending + t
               perThread == (pending \div BytesPerAccess) \div k
               stride    == CeilDiv(n, Min({perThread, n}))
               touched   == CeilDiv(n, stride) * k
               over      == Max({pending - touched * BytesPerAccess, 0})
    <3>1. /\ Nvidia!Min({perThread, n}) = Min({perThread, n})
          /\ Nvidia!CeilDiv(n, Min({perThread, n})) = stride /\ Nvidia!CeilDiv(n, stride) * k = touched
          /\ Nvidia!Max({pending - touched * BytesPerAccess, 0}) = over
      BY <2>1, <2>5
    <3>2. Nvidia!Moved(w, touched) = Moved(w, touched) /\ Nvidia!Carried(over, k) = Carried(over, k)
      BY <2>1, <2>6 DEF Nvidia!Carried, Carried
    <3>3. Nvidia!NoTraffic(n) = NoTraffic(n) /\ Nvidia!Current(w) = Current(w)
      BY <2>2, <2>4
    <3> QED
      BY <3>1, <3>2, <3>3, Zenon DEF Nvidia!Take, Take
  <2>8. ASSUME NEW w, NEW n, NEW t, NEW k PROVE Nvidia!NextLaunch(w, n, t, k) = NextLaunch(w, n, t, k)
    <3>1. Nvidia!Reach(w, k) = Reach(w, k) /\ Nvidia!Size(w) = Size(w) /\ Nvidia!NoTraffic(n) = NoTraffic(n)
      BY <2>2, <2>3, <2>4
    <3>2. Nvidia!Min(Reach(w, k)) = Min(Reach(w, k)) /\ Nvidia!Max({n, 1}) = Max({n, 1})
      BY <2>1
    <3>3. /\ Nvidia!Advance(w, Size(w) - 1) = Advance(w, Size(w) - 1)
          /\ Nvidia!Advance(w, Min(Reach(w, k))) = Advance(w, Min(Reach(w, k)))
      BY <2>3
    <3>4. Nvidia!Take(Advance(w, Min(Reach(w, k))), Max({n, 1}), t, k)
            = Take(Advance(w, Min(Reach(w, k))), Max({n, 1}), t, k)
      BY <2>7
    <3> QED
      BY <3>1, <3>2, <3>3, <3>4 DEF Nvidia!NextLaunch, NextLaunch
  <2> QED
    BY <2>1, <2>8, Zenon DEF Nvidia!Plan, Plan
<1>7. \A d, objects, args : Nvidia!Launch(d, objects, args) = Launch(d, objects, args)
  BY DEF Nvidia!Launch, Launch, Nvidia!InBlock, InBlock, Nvidia!Unless, Unless
<1>8. \A bytes, most : Nvidia!ChunkSizes(bytes, most) = ChunkSizes(bytes, most)
  BY DEF Nvidia!ChunkSizes, ChunkSizes, Nvidia!CeilDiv, CeilDiv, Nvidia!Min, Min
<1>9. /\ \A d, ok : Nvidia!Outcome(d, ok) = Outcome(d, ok)
      /\ \A d, objects : Nvidia!Gone(d, objects) = Gone(d, objects)
  BY DEF Nvidia!Outcome, Outcome, Nvidia!Gone, Gone
<1>10. \A d : Nvidia!Room(d) = Room(d)
  BY DEF Nvidia!Room, Room, Nvidia!Cardinality, Cardinality
<1> QED
  BY <1>1, <1>2, <1>3, <1>4, <1>5, <1>6, <1>7, <1>8, <1>9, <1>10

LEMMA AmdDriver ==
  /\ \A d, ok : Amd!Outcome(d, ok) = Outcome(d, ok)
  /\ \A d, objects : Amd!Make(d, objects) = Make(d, objects)
  /\ \A d, objects : Amd!Give(d, objects) = Give(d, objects)
  /\ \A d, objects : Amd!Gone(d, objects) = Gone(d, objects)
  /\ \A d : Amd!DropFields(d) = DropFields(d)
  /\ \A d : Amd!FreeBlock(d) = FreeBlock(d)
  /\ \A bytes, most : Amd!ChunkSizes(bytes, most) = ChunkSizes(bytes, most)
  /\ \A d, sizes : Amd!AddChunks(d, sizes) = AddChunks(d, sizes)
  /\ \A d : Amd!Swept(d) = Swept(d)
  /\ \A d, loops, traffic : Amd!Plan(d, loops, traffic) = Plan(d, loops, traffic)
  /\ \A d, objects, args : Amd!Launch(d, objects, args) = Launch(d, objects, args)
<1>1. /\ \A d, objects : Amd!Make(d, objects) = Make(d, objects)
      /\ \A d, objects : Amd!Give(d, objects) = Give(d, objects)
  BY DEF Amd!Make, Make, Amd!Give, Give, Amd!Unless, Unless
<1>2. \A d : Amd!DropFields(d) = DropFields(d)
  BY DEF Amd!DropFields, DropFields, Amd!Clear, Clear, Amd!At, At
<1>3. \A d : Amd!FreeBlock(d) = FreeBlock(d)
  BY DEF Amd!FreeBlock, FreeBlock, Amd!Unless, Unless, Amd!ChunkIds, ChunkIds, Amd!DropFields,
         DropFields, Amd!Clear, Clear, Amd!At, At
<1>4. \A d, sizes : Amd!AddChunks(d, sizes) = AddChunks(d, sizes)
  BY DEF Amd!AddChunks, AddChunks, Amd!SetToSeq, SetToSeq, Amd!IsInjective, IsInjective, Amd!Min, Min,
         Amd!Cardinality, Cardinality
<1>5. \A d : Amd!Swept(d) = Swept(d)
  BY DEF Amd!Swept, Swept, Amd!Reset, Reset, Amd!At, At, Amd!SegmentWindows, SegmentWindows,
         Amd!CeilDiv, CeilDiv, Amd!Min, Min, Amd!Max, Max,
         Amd!FlattenSeq, FlattenSeq, Amd!FoldLeft, FoldLeft, Amd!MapThenFoldSet, MapThenFoldSet
<1>6. ASSUME NEW d, NEW loops, NEW traffic PROVE Amd!Plan(d, loops, traffic) = Plan(d, loops, traffic)
  <2>1. \A S : Amd!Min(S) = Min(S) /\ Amd!Max(S) = Max(S)
    BY DEF Amd!Min, Min, Amd!Max, Max
  <2>2. \A w : Amd!Size(w) = Size(w) /\ Amd!Current(w) = Current(w)
    BY DEF Amd!Size, Size, Amd!Current, Current
  <2>3. \A w, k : Amd!Advance(w, k) = Advance(w, k) /\ Amd!Reach(w, k) = Reach(w, k)
    BY DEF Amd!Reach, Reach, Amd!Advance, Advance, Amd!Current, Current, Amd!Size, Size
  <2>4. \A n : Amd!NoTraffic(n) = NoTraffic(n)
    BY DEF Amd!NoTraffic, NoTraffic, Amd!Max, Max
  <2>5. \A a, b : Amd!CeilDiv(a, b) = CeilDiv(a, b)
    BY DEF Amd!CeilDiv, CeilDiv
  <2>6. \A w, touched : Amd!Moved(w, touched) = Moved(w, touched)
    BY DEF Amd!Moved, Moved, Amd!Advance, Advance, Amd!Current, Current, Amd!Size, Size
  <2>7. ASSUME NEW w, NEW n, NEW t, NEW k PROVE Amd!Take(w, n, t, k) = Take(w, n, t, k)
    <3> DEFINE pending   == w.pending + t
               perThread == (pending \div BytesPerAccess) \div k
               stride    == CeilDiv(n, Min({perThread, n}))
               touched   == CeilDiv(n, stride) * k
               over      == Max({pending - touched * BytesPerAccess, 0})
    <3>1. /\ Amd!Min({perThread, n}) = Min({perThread, n})
          /\ Amd!CeilDiv(n, Min({perThread, n})) = stride /\ Amd!CeilDiv(n, stride) * k = touched
          /\ Amd!Max({pending - touched * BytesPerAccess, 0}) = over
      BY <2>1, <2>5
    <3>2. Amd!Moved(w, touched) = Moved(w, touched) /\ Amd!Carried(over, k) = Carried(over, k)
      BY <2>1, <2>6 DEF Amd!Carried, Carried
    <3>3. Amd!NoTraffic(n) = NoTraffic(n) /\ Amd!Current(w) = Current(w)
      BY <2>2, <2>4
    <3> QED
      BY <3>1, <3>2, <3>3, Zenon DEF Amd!Take, Take
  <2>8. ASSUME NEW w, NEW n, NEW t, NEW k PROVE Amd!NextLaunch(w, n, t, k) = NextLaunch(w, n, t, k)
    <3>1. Amd!Reach(w, k) = Reach(w, k) /\ Amd!Size(w) = Size(w) /\ Amd!NoTraffic(n) = NoTraffic(n)
      BY <2>2, <2>3, <2>4
    <3>2. Amd!Min(Reach(w, k)) = Min(Reach(w, k)) /\ Amd!Max({n, 1}) = Max({n, 1})
      BY <2>1
    <3>3. /\ Amd!Advance(w, Size(w) - 1) = Advance(w, Size(w) - 1)
          /\ Amd!Advance(w, Min(Reach(w, k))) = Advance(w, Min(Reach(w, k)))
      BY <2>3
    <3>4. Amd!Take(Advance(w, Min(Reach(w, k))), Max({n, 1}), t, k)
            = Take(Advance(w, Min(Reach(w, k))), Max({n, 1}), t, k)
      BY <2>7
    <3> QED
      BY <3>1, <3>2, <3>3, <3>4 DEF Amd!NextLaunch, NextLaunch
  <2> QED
    BY <2>1, <2>8, Zenon DEF Amd!Plan, Plan
<1>7. \A d, objects, args : Amd!Launch(d, objects, args) = Launch(d, objects, args)
  BY DEF Amd!Launch, Launch, Amd!InBlock, InBlock, Amd!Unless, Unless
<1>8. \A bytes, most : Amd!ChunkSizes(bytes, most) = ChunkSizes(bytes, most)
  BY DEF Amd!ChunkSizes, ChunkSizes, Amd!CeilDiv, CeilDiv, Amd!Min, Min
<1>9. /\ \A d, ok : Amd!Outcome(d, ok) = Outcome(d, ok)
      /\ \A d, objects : Amd!Gone(d, objects) = Gone(d, objects)
  BY DEF Amd!Outcome, Outcome, Amd!Gone, Gone
<1> QED
  BY <1>1, <1>2, <1>3, <1>4, <1>5, <1>6, <1>7, <1>8, <1>9

LEMMA AmdCudaDriver ==
  /\ \A d, ok : Amd!Cuda!Outcome(d, ok) = Outcome(d, ok)
  /\ \A d, objects : Amd!Cuda!Make(d, objects) = Make(d, objects)
  /\ \A d, objects : Amd!Cuda!Give(d, objects) = Give(d, objects)
  /\ \A d, objects : Amd!Cuda!Gone(d, objects) = Gone(d, objects)
  /\ \A d : Amd!Cuda!DropFields(d) = DropFields(d)
  /\ \A d : Amd!Cuda!FreeBlock(d) = FreeBlock(d)
  /\ \A bytes, most : Amd!Cuda!ChunkSizes(bytes, most) = ChunkSizes(bytes, most)
  /\ \A d, sizes : Amd!Cuda!AddChunks(d, sizes) = AddChunks(d, sizes)
  /\ \A d : Amd!Cuda!Swept(d) = Swept(d)
  /\ \A d, loops, traffic : Amd!Cuda!Plan(d, loops, traffic) = Plan(d, loops, traffic)
  /\ \A d, objects, args : Amd!Cuda!Launch(d, objects, args) = Launch(d, objects, args)
<1>1. /\ \A d, objects : Amd!Cuda!Make(d, objects) = Make(d, objects)
      /\ \A d, objects : Amd!Cuda!Give(d, objects) = Give(d, objects)
  BY DEF Amd!Cuda!Make, Make, Amd!Cuda!Give, Give, Amd!Cuda!Unless, Unless
<1>2. \A d : Amd!Cuda!DropFields(d) = DropFields(d)
  BY DEF Amd!Cuda!DropFields, DropFields, Amd!Cuda!Clear, Clear, Amd!Cuda!At, At
<1>3. \A d : Amd!Cuda!FreeBlock(d) = FreeBlock(d)
  BY DEF Amd!Cuda!FreeBlock, FreeBlock, Amd!Cuda!Unless, Unless, Amd!Cuda!ChunkIds, ChunkIds,
         Amd!Cuda!DropFields, DropFields, Amd!Cuda!Clear, Clear, Amd!Cuda!At, At
<1>4. \A d, sizes : Amd!Cuda!AddChunks(d, sizes) = AddChunks(d, sizes)
  BY DEF Amd!Cuda!AddChunks, AddChunks, Amd!Cuda!SetToSeq, SetToSeq, Amd!Cuda!IsInjective,
         IsInjective, Amd!Cuda!Min, Min, Amd!Cuda!Cardinality, Cardinality
<1>5. \A d : Amd!Cuda!Swept(d) = Swept(d)
  BY DEF Amd!Cuda!Swept, Swept, Amd!Cuda!Reset, Reset, Amd!Cuda!At, At, Amd!Cuda!SegmentWindows,
         SegmentWindows, Amd!Cuda!CeilDiv, CeilDiv, Amd!Cuda!Min, Min, Amd!Cuda!Max, Max,
         Amd!Cuda!FlattenSeq, FlattenSeq, Amd!Cuda!FoldLeft, FoldLeft, Amd!Cuda!MapThenFoldSet, MapThenFoldSet
<1>6. ASSUME NEW d, NEW loops, NEW traffic PROVE Amd!Cuda!Plan(d, loops, traffic) = Plan(d, loops, traffic)
  <2>1. \A S : Amd!Cuda!Min(S) = Min(S) /\ Amd!Cuda!Max(S) = Max(S)
    BY DEF Amd!Cuda!Min, Min, Amd!Cuda!Max, Max
  <2>2. \A w : Amd!Cuda!Size(w) = Size(w) /\ Amd!Cuda!Current(w) = Current(w)
    BY DEF Amd!Cuda!Size, Size, Amd!Cuda!Current, Current
  <2>3. \A w, k : Amd!Cuda!Advance(w, k) = Advance(w, k) /\ Amd!Cuda!Reach(w, k) = Reach(w, k)
    BY DEF Amd!Cuda!Reach, Reach, Amd!Cuda!Advance, Advance, Amd!Cuda!Current, Current,
           Amd!Cuda!Size, Size
  <2>4. \A n : Amd!Cuda!NoTraffic(n) = NoTraffic(n)
    BY DEF Amd!Cuda!NoTraffic, NoTraffic, Amd!Cuda!Max, Max
  <2>5. \A a, b : Amd!Cuda!CeilDiv(a, b) = CeilDiv(a, b)
    BY DEF Amd!Cuda!CeilDiv, CeilDiv
  <2>6. \A w, touched : Amd!Cuda!Moved(w, touched) = Moved(w, touched)
    BY DEF Amd!Cuda!Moved, Moved, Amd!Cuda!Advance, Advance, Amd!Cuda!Current, Current, Amd!Cuda!Size, Size
  <2>7. ASSUME NEW w, NEW n, NEW t, NEW k PROVE Amd!Cuda!Take(w, n, t, k) = Take(w, n, t, k)
    <3> DEFINE pending   == w.pending + t
               perThread == (pending \div BytesPerAccess) \div k
               stride    == CeilDiv(n, Min({perThread, n}))
               touched   == CeilDiv(n, stride) * k
               over      == Max({pending - touched * BytesPerAccess, 0})
    <3>1. /\ Amd!Cuda!Min({perThread, n}) = Min({perThread, n})
          /\ Amd!Cuda!CeilDiv(n, Min({perThread, n})) = stride /\ Amd!Cuda!CeilDiv(n, stride) * k = touched
          /\ Amd!Cuda!Max({pending - touched * BytesPerAccess, 0}) = over
      BY <2>1, <2>5
    <3>2. Amd!Cuda!Moved(w, touched) = Moved(w, touched) /\ Amd!Cuda!Carried(over, k) = Carried(over, k)
      BY <2>1, <2>6 DEF Amd!Cuda!Carried, Carried
    <3>3. Amd!Cuda!NoTraffic(n) = NoTraffic(n) /\ Amd!Cuda!Current(w) = Current(w)
      BY <2>2, <2>4
    <3> QED
      BY <3>1, <3>2, <3>3, Zenon DEF Amd!Cuda!Take, Take
  <2>8. ASSUME NEW w, NEW n, NEW t, NEW k PROVE Amd!Cuda!NextLaunch(w, n, t, k) = NextLaunch(w, n, t, k)
    <3>1. Amd!Cuda!Reach(w, k) = Reach(w, k) /\ Amd!Cuda!Size(w) = Size(w) /\ Amd!Cuda!NoTraffic(n) = NoTraffic(n)
      BY <2>2, <2>3, <2>4
    <3>2. Amd!Cuda!Min(Reach(w, k)) = Min(Reach(w, k)) /\ Amd!Cuda!Max({n, 1}) = Max({n, 1})
      BY <2>1
    <3>3. /\ Amd!Cuda!Advance(w, Size(w) - 1) = Advance(w, Size(w) - 1)
          /\ Amd!Cuda!Advance(w, Min(Reach(w, k))) = Advance(w, Min(Reach(w, k)))
      BY <2>3
    <3>4. Amd!Cuda!Take(Advance(w, Min(Reach(w, k))), Max({n, 1}), t, k)
            = Take(Advance(w, Min(Reach(w, k))), Max({n, 1}), t, k)
      BY <2>7
    <3> QED
      BY <3>1, <3>2, <3>3, <3>4 DEF Amd!Cuda!NextLaunch, NextLaunch
  <2> QED
    BY <2>1, <2>8, Zenon DEF Amd!Cuda!Plan, Plan
<1>7. \A d, objects, args : Amd!Cuda!Launch(d, objects, args) = Launch(d, objects, args)
  BY DEF Amd!Cuda!Launch, Launch, Amd!Cuda!InBlock, InBlock, Amd!Cuda!Unless, Unless
<1>8. \A bytes, most : Amd!Cuda!ChunkSizes(bytes, most) = ChunkSizes(bytes, most)
  BY DEF Amd!Cuda!ChunkSizes, ChunkSizes, Amd!Cuda!CeilDiv, CeilDiv, Amd!Cuda!Min, Min
<1>9. /\ \A d, ok : Amd!Cuda!Outcome(d, ok) = Outcome(d, ok)
      /\ \A d, objects : Amd!Cuda!Gone(d, objects) = Gone(d, objects)
  BY DEF Amd!Cuda!Outcome, Outcome, Amd!Cuda!Gone, Gone
<1> QED
  BY <1>1, <1>2, <1>3, <1>4, <1>5, <1>6, <1>7, <1>8, <1>9

LEMMA OpenClDriver ==
  /\ \A d, ok : OpenCl!Outcome(d, ok) = Outcome(d, ok)
  /\ \A d, objects : OpenCl!Make(d, objects) = Make(d, objects)
  /\ \A d, objects : OpenCl!Give(d, objects) = Give(d, objects)
  /\ \A d, objects : OpenCl!Gone(d, objects) = Gone(d, objects)
  /\ \A d : OpenCl!DropFields(d) = DropFields(d)
  /\ \A d : OpenCl!FreeBlock(d) = FreeBlock(d)
  /\ \A bytes, most : OpenCl!ChunkSizes(bytes, most) = ChunkSizes(bytes, most)
  /\ \A d, sizes : OpenCl!AddChunks(d, sizes) = AddChunks(d, sizes)
  /\ \A d : OpenCl!Room(d) = Room(d)
  /\ \A d : OpenCl!Swept(d) = Swept(d)
  /\ \A d, loops, traffic : OpenCl!Plan(d, loops, traffic) = Plan(d, loops, traffic)
  /\ \A d, objects, args : OpenCl!Launch(d, objects, args) = Launch(d, objects, args)
<1>1. /\ \A d, objects : OpenCl!Make(d, objects) = Make(d, objects)
      /\ \A d, objects : OpenCl!Give(d, objects) = Give(d, objects)
  BY DEF OpenCl!Make, Make, OpenCl!Give, Give, OpenCl!Unless, Unless
<1>2. \A d : OpenCl!DropFields(d) = DropFields(d)
  BY DEF OpenCl!DropFields, DropFields, OpenCl!Clear, Clear, OpenCl!At, At
<1>3. \A d : OpenCl!FreeBlock(d) = FreeBlock(d)
  BY DEF OpenCl!FreeBlock, FreeBlock, OpenCl!Unless, Unless, OpenCl!ChunkIds, ChunkIds,
         OpenCl!DropFields, DropFields, OpenCl!Clear, Clear, OpenCl!At, At
<1>4. \A d, sizes : OpenCl!AddChunks(d, sizes) = AddChunks(d, sizes)
  BY DEF OpenCl!AddChunks, AddChunks, OpenCl!SetToSeq, SetToSeq, OpenCl!IsInjective, IsInjective,
         OpenCl!Min, Min, OpenCl!Cardinality, Cardinality
<1>5. \A d : OpenCl!Swept(d) = Swept(d)
  BY DEF OpenCl!Swept, Swept, OpenCl!Reset, Reset, OpenCl!At, At, OpenCl!SegmentWindows,
         SegmentWindows, OpenCl!CeilDiv, CeilDiv, OpenCl!Min, Min, OpenCl!Max, Max,
         OpenCl!FlattenSeq, FlattenSeq, OpenCl!FoldLeft, FoldLeft, OpenCl!MapThenFoldSet, MapThenFoldSet
<1>6. ASSUME NEW d, NEW loops, NEW traffic PROVE OpenCl!Plan(d, loops, traffic) = Plan(d, loops, traffic)
  <2>1. \A S : OpenCl!Min(S) = Min(S) /\ OpenCl!Max(S) = Max(S)
    BY DEF OpenCl!Min, Min, OpenCl!Max, Max
  <2>2. \A w : OpenCl!Size(w) = Size(w) /\ OpenCl!Current(w) = Current(w)
    BY DEF OpenCl!Size, Size, OpenCl!Current, Current
  <2>3. \A w, k : OpenCl!Advance(w, k) = Advance(w, k) /\ OpenCl!Reach(w, k) = Reach(w, k)
    BY DEF OpenCl!Reach, Reach, OpenCl!Advance, Advance, OpenCl!Current, Current, OpenCl!Size,
           Size
  <2>4. \A n : OpenCl!NoTraffic(n) = NoTraffic(n)
    BY DEF OpenCl!NoTraffic, NoTraffic, OpenCl!Max, Max
  <2>5. \A a, b : OpenCl!CeilDiv(a, b) = CeilDiv(a, b)
    BY DEF OpenCl!CeilDiv, CeilDiv
  <2>6. \A w, touched : OpenCl!Moved(w, touched) = Moved(w, touched)
    BY DEF OpenCl!Moved, Moved, OpenCl!Advance, Advance, OpenCl!Current, Current, OpenCl!Size, Size
  <2>7. ASSUME NEW w, NEW n, NEW t, NEW k PROVE OpenCl!Take(w, n, t, k) = Take(w, n, t, k)
    <3> DEFINE pending   == w.pending + t
               perThread == (pending \div BytesPerAccess) \div k
               stride    == CeilDiv(n, Min({perThread, n}))
               touched   == CeilDiv(n, stride) * k
               over      == Max({pending - touched * BytesPerAccess, 0})
    <3>1. /\ OpenCl!Min({perThread, n}) = Min({perThread, n})
          /\ OpenCl!CeilDiv(n, Min({perThread, n})) = stride /\ OpenCl!CeilDiv(n, stride) * k = touched
          /\ OpenCl!Max({pending - touched * BytesPerAccess, 0}) = over
      BY <2>1, <2>5
    <3>2. OpenCl!Moved(w, touched) = Moved(w, touched) /\ OpenCl!Carried(over, k) = Carried(over, k)
      BY <2>1, <2>6 DEF OpenCl!Carried, Carried
    <3>3. OpenCl!NoTraffic(n) = NoTraffic(n) /\ OpenCl!Current(w) = Current(w)
      BY <2>2, <2>4
    <3> QED
      BY <3>1, <3>2, <3>3, Zenon DEF OpenCl!Take, Take
  <2>8. ASSUME NEW w, NEW n, NEW t, NEW k PROVE OpenCl!NextLaunch(w, n, t, k) = NextLaunch(w, n, t, k)
    <3>1. OpenCl!Reach(w, k) = Reach(w, k) /\ OpenCl!Size(w) = Size(w) /\ OpenCl!NoTraffic(n) = NoTraffic(n)
      BY <2>2, <2>3, <2>4
    <3>2. OpenCl!Min(Reach(w, k)) = Min(Reach(w, k)) /\ OpenCl!Max({n, 1}) = Max({n, 1})
      BY <2>1
    <3>3. /\ OpenCl!Advance(w, Size(w) - 1) = Advance(w, Size(w) - 1)
          /\ OpenCl!Advance(w, Min(Reach(w, k))) = Advance(w, Min(Reach(w, k)))
      BY <2>3
    <3>4. OpenCl!Take(Advance(w, Min(Reach(w, k))), Max({n, 1}), t, k)
            = Take(Advance(w, Min(Reach(w, k))), Max({n, 1}), t, k)
      BY <2>7
    <3> QED
      BY <3>1, <3>2, <3>3, <3>4 DEF OpenCl!NextLaunch, NextLaunch
  <2> QED
    BY <2>1, <2>8, Zenon DEF OpenCl!Plan, Plan
<1>7. \A d, objects, args : OpenCl!Launch(d, objects, args) = Launch(d, objects, args)
  BY DEF OpenCl!Launch, Launch, OpenCl!InBlock, InBlock, OpenCl!Unless, Unless
<1>8. \A bytes, most : OpenCl!ChunkSizes(bytes, most) = ChunkSizes(bytes, most)
  BY DEF OpenCl!ChunkSizes, ChunkSizes, OpenCl!CeilDiv, CeilDiv, OpenCl!Min, Min
<1>9. /\ \A d, ok : OpenCl!Outcome(d, ok) = Outcome(d, ok)
      /\ \A d, objects : OpenCl!Gone(d, objects) = Gone(d, objects)
  BY DEF OpenCl!Outcome, Outcome, OpenCl!Gone, Gone
<1>10. \A d : OpenCl!Room(d) = Room(d)
  BY DEF OpenCl!Room, Room, OpenCl!Cardinality, Cardinality
<1> QED
  BY <1>1, <1>2, <1>3, <1>4, <1>5, <1>6, <1>7, <1>8, <1>9, <1>10

LEMMA IntelDriver ==
  /\ \A d, ok : Intel!Outcome(d, ok) = Outcome(d, ok)
  /\ \A d, objects : Intel!Make(d, objects) = Make(d, objects)
  /\ \A d, objects : Intel!Give(d, objects) = Give(d, objects)
  /\ \A d, objects : Intel!Gone(d, objects) = Gone(d, objects)
  /\ \A d : Intel!DropFields(d) = DropFields(d)
  /\ \A d : Intel!FreeBlock(d) = FreeBlock(d)
  /\ \A bytes, most : Intel!ChunkSizes(bytes, most) = ChunkSizes(bytes, most)
  /\ \A d, sizes : Intel!AddChunks(d, sizes) = AddChunks(d, sizes)
  /\ \A d : Intel!Room(d) = Room(d)
  /\ \A d : Intel!Swept(d) = Swept(d)
  /\ \A d, loops, traffic : Intel!Plan(d, loops, traffic) = Plan(d, loops, traffic)
  /\ \A d, objects, args : Intel!Launch(d, objects, args) = Launch(d, objects, args)
<1>1. /\ \A d, objects : Intel!Make(d, objects) = Make(d, objects)
      /\ \A d, objects : Intel!Give(d, objects) = Give(d, objects)
  BY DEF Intel!Make, Make, Intel!Give, Give, Intel!Unless, Unless
<1>2. \A d : Intel!DropFields(d) = DropFields(d)
  BY DEF Intel!DropFields, DropFields, Intel!Clear, Clear, Intel!At, At
<1>3. \A d : Intel!FreeBlock(d) = FreeBlock(d)
  BY DEF Intel!FreeBlock, FreeBlock, Intel!Unless, Unless, Intel!ChunkIds, ChunkIds, Intel!DropFields,
         DropFields, Intel!Clear, Clear, Intel!At, At
<1>4. \A d, sizes : Intel!AddChunks(d, sizes) = AddChunks(d, sizes)
  BY DEF Intel!AddChunks, AddChunks, Intel!SetToSeq, SetToSeq, Intel!IsInjective, IsInjective,
         Intel!Min, Min, Intel!Cardinality, Cardinality
<1>5. \A d : Intel!Swept(d) = Swept(d)
  BY DEF Intel!Swept, Swept, Intel!Reset, Reset, Intel!At, At, Intel!SegmentWindows, SegmentWindows,
         Intel!CeilDiv, CeilDiv, Intel!Min, Min, Intel!Max, Max,
         Intel!FlattenSeq, FlattenSeq, Intel!FoldLeft, FoldLeft, Intel!MapThenFoldSet, MapThenFoldSet
<1>6. ASSUME NEW d, NEW loops, NEW traffic PROVE Intel!Plan(d, loops, traffic) = Plan(d, loops, traffic)
  <2>1. \A S : Intel!Min(S) = Min(S) /\ Intel!Max(S) = Max(S)
    BY DEF Intel!Min, Min, Intel!Max, Max
  <2>2. \A w : Intel!Size(w) = Size(w) /\ Intel!Current(w) = Current(w)
    BY DEF Intel!Size, Size, Intel!Current, Current
  <2>3. \A w, k : Intel!Advance(w, k) = Advance(w, k) /\ Intel!Reach(w, k) = Reach(w, k)
    BY DEF Intel!Reach, Reach, Intel!Advance, Advance, Intel!Current, Current, Intel!Size,
           Size
  <2>4. \A n : Intel!NoTraffic(n) = NoTraffic(n)
    BY DEF Intel!NoTraffic, NoTraffic, Intel!Max, Max
  <2>5. \A a, b : Intel!CeilDiv(a, b) = CeilDiv(a, b)
    BY DEF Intel!CeilDiv, CeilDiv
  <2>6. \A w, touched : Intel!Moved(w, touched) = Moved(w, touched)
    BY DEF Intel!Moved, Moved, Intel!Advance, Advance, Intel!Current, Current, Intel!Size, Size
  <2>7. ASSUME NEW w, NEW n, NEW t, NEW k PROVE Intel!Take(w, n, t, k) = Take(w, n, t, k)
    <3> DEFINE pending   == w.pending + t
               perThread == (pending \div BytesPerAccess) \div k
               stride    == CeilDiv(n, Min({perThread, n}))
               touched   == CeilDiv(n, stride) * k
               over      == Max({pending - touched * BytesPerAccess, 0})
    <3>1. /\ Intel!Min({perThread, n}) = Min({perThread, n})
          /\ Intel!CeilDiv(n, Min({perThread, n})) = stride /\ Intel!CeilDiv(n, stride) * k = touched
          /\ Intel!Max({pending - touched * BytesPerAccess, 0}) = over
      BY <2>1, <2>5
    <3>2. Intel!Moved(w, touched) = Moved(w, touched) /\ Intel!Carried(over, k) = Carried(over, k)
      BY <2>1, <2>6 DEF Intel!Carried, Carried
    <3>3. Intel!NoTraffic(n) = NoTraffic(n) /\ Intel!Current(w) = Current(w)
      BY <2>2, <2>4
    <3> QED
      BY <3>1, <3>2, <3>3, Zenon DEF Intel!Take, Take
  <2>8. ASSUME NEW w, NEW n, NEW t, NEW k PROVE Intel!NextLaunch(w, n, t, k) = NextLaunch(w, n, t, k)
    <3>1. Intel!Reach(w, k) = Reach(w, k) /\ Intel!Size(w) = Size(w) /\ Intel!NoTraffic(n) = NoTraffic(n)
      BY <2>2, <2>3, <2>4
    <3>2. Intel!Min(Reach(w, k)) = Min(Reach(w, k)) /\ Intel!Max({n, 1}) = Max({n, 1})
      BY <2>1
    <3>3. /\ Intel!Advance(w, Size(w) - 1) = Advance(w, Size(w) - 1)
          /\ Intel!Advance(w, Min(Reach(w, k))) = Advance(w, Min(Reach(w, k)))
      BY <2>3
    <3>4. Intel!Take(Advance(w, Min(Reach(w, k))), Max({n, 1}), t, k)
            = Take(Advance(w, Min(Reach(w, k))), Max({n, 1}), t, k)
      BY <2>7
    <3> QED
      BY <3>1, <3>2, <3>3, <3>4 DEF Intel!NextLaunch, NextLaunch
  <2> QED
    BY <2>1, <2>8, Zenon DEF Intel!Plan, Plan
<1>7. \A d, objects, args : Intel!Launch(d, objects, args) = Launch(d, objects, args)
  BY DEF Intel!Launch, Launch, Intel!InBlock, InBlock, Intel!Unless, Unless
<1>8. \A bytes, most : Intel!ChunkSizes(bytes, most) = ChunkSizes(bytes, most)
  BY DEF Intel!ChunkSizes, ChunkSizes, Intel!CeilDiv, CeilDiv, Intel!Min, Min
<1>9. /\ \A d, ok : Intel!Outcome(d, ok) = Outcome(d, ok)
      /\ \A d, objects : Intel!Gone(d, objects) = Gone(d, objects)
  BY DEF Intel!Outcome, Outcome, Intel!Gone, Gone
<1>10. \A d : Intel!Room(d) = Room(d)
  BY DEF Intel!Room, Room, Intel!Cardinality, Cardinality
<1> QED
  BY <1>1, <1>2, <1>3, <1>4, <1>5, <1>6, <1>7, <1>8, <1>9, <1>10

LEMMA MetalDriver ==
  /\ \A d, ok : Metal!Outcome(d, ok) = Outcome(d, ok)
  /\ \A d, objects : Metal!Make(d, objects) = Make(d, objects)
  /\ \A d, objects : Metal!Give(d, objects) = Give(d, objects)
  /\ \A d, objects : Metal!Gone(d, objects) = Gone(d, objects)
  /\ \A d : Metal!DropFields(d) = DropFields(d)
  /\ \A d : Metal!FreeBlock(d) = FreeBlock(d)
  /\ \A bytes, most : Metal!ChunkSizes(bytes, most) = ChunkSizes(bytes, most)
  /\ \A d, sizes : Metal!AddChunks(d, sizes) = AddChunks(d, sizes)
  /\ \A d : Metal!Room(d) = Room(d)
  /\ \A d : Metal!Swept(d) = Swept(d)
  /\ \A d, loops, traffic : Metal!Plan(d, loops, traffic) = Plan(d, loops, traffic)
  /\ \A d, objects, args : Metal!Launch(d, objects, args) = Launch(d, objects, args)
<1>1. /\ \A d, objects : Metal!Make(d, objects) = Make(d, objects)
      /\ \A d, objects : Metal!Give(d, objects) = Give(d, objects)
  BY DEF Metal!Make, Make, Metal!Give, Give, Metal!Unless, Unless
<1>2. \A d : Metal!DropFields(d) = DropFields(d)
  BY DEF Metal!DropFields, DropFields, Metal!Clear, Clear, Metal!At, At
<1>3. \A d : Metal!FreeBlock(d) = FreeBlock(d)
  BY DEF Metal!FreeBlock, FreeBlock, Metal!Unless, Unless, Metal!ChunkIds, ChunkIds, Metal!DropFields,
         DropFields, Metal!Clear, Clear, Metal!At, At
<1>4. \A d, sizes : Metal!AddChunks(d, sizes) = AddChunks(d, sizes)
  BY DEF Metal!AddChunks, AddChunks, Metal!SetToSeq, SetToSeq, Metal!IsInjective, IsInjective,
         Metal!Min, Min, Metal!Cardinality, Cardinality
<1>5. \A d : Metal!Swept(d) = Swept(d)
  BY DEF Metal!Swept, Swept, Metal!Reset, Reset, Metal!At, At, Metal!SegmentWindows, SegmentWindows,
         Metal!CeilDiv, CeilDiv, Metal!Min, Min, Metal!Max, Max,
         Metal!FlattenSeq, FlattenSeq, Metal!FoldLeft, FoldLeft, Metal!MapThenFoldSet, MapThenFoldSet
<1>6. ASSUME NEW d, NEW loops, NEW traffic PROVE Metal!Plan(d, loops, traffic) = Plan(d, loops, traffic)
  <2>1. \A S : Metal!Min(S) = Min(S) /\ Metal!Max(S) = Max(S)
    BY DEF Metal!Min, Min, Metal!Max, Max
  <2>2. \A w : Metal!Size(w) = Size(w) /\ Metal!Current(w) = Current(w)
    BY DEF Metal!Size, Size, Metal!Current, Current
  <2>3. \A w, k : Metal!Advance(w, k) = Advance(w, k) /\ Metal!Reach(w, k) = Reach(w, k)
    BY DEF Metal!Reach, Reach, Metal!Advance, Advance, Metal!Current, Current, Metal!Size,
           Size
  <2>4. \A n : Metal!NoTraffic(n) = NoTraffic(n)
    BY DEF Metal!NoTraffic, NoTraffic, Metal!Max, Max
  <2>5. \A a, b : Metal!CeilDiv(a, b) = CeilDiv(a, b)
    BY DEF Metal!CeilDiv, CeilDiv
  <2>6. \A w, touched : Metal!Moved(w, touched) = Moved(w, touched)
    BY DEF Metal!Moved, Moved, Metal!Advance, Advance, Metal!Current, Current, Metal!Size, Size
  <2>7. ASSUME NEW w, NEW n, NEW t, NEW k PROVE Metal!Take(w, n, t, k) = Take(w, n, t, k)
    <3> DEFINE pending   == w.pending + t
               perThread == (pending \div BytesPerAccess) \div k
               stride    == CeilDiv(n, Min({perThread, n}))
               touched   == CeilDiv(n, stride) * k
               over      == Max({pending - touched * BytesPerAccess, 0})
    <3>1. /\ Metal!Min({perThread, n}) = Min({perThread, n})
          /\ Metal!CeilDiv(n, Min({perThread, n})) = stride /\ Metal!CeilDiv(n, stride) * k = touched
          /\ Metal!Max({pending - touched * BytesPerAccess, 0}) = over
      BY <2>1, <2>5
    <3>2. Metal!Moved(w, touched) = Moved(w, touched) /\ Metal!Carried(over, k) = Carried(over, k)
      BY <2>1, <2>6 DEF Metal!Carried, Carried
    <3>3. Metal!NoTraffic(n) = NoTraffic(n) /\ Metal!Current(w) = Current(w)
      BY <2>2, <2>4
    <3> QED
      BY <3>1, <3>2, <3>3, Zenon DEF Metal!Take, Take
  <2>8. ASSUME NEW w, NEW n, NEW t, NEW k PROVE Metal!NextLaunch(w, n, t, k) = NextLaunch(w, n, t, k)
    <3>1. Metal!Reach(w, k) = Reach(w, k) /\ Metal!Size(w) = Size(w) /\ Metal!NoTraffic(n) = NoTraffic(n)
      BY <2>2, <2>3, <2>4
    <3>2. Metal!Min(Reach(w, k)) = Min(Reach(w, k)) /\ Metal!Max({n, 1}) = Max({n, 1})
      BY <2>1
    <3>3. /\ Metal!Advance(w, Size(w) - 1) = Advance(w, Size(w) - 1)
          /\ Metal!Advance(w, Min(Reach(w, k))) = Advance(w, Min(Reach(w, k)))
      BY <2>3
    <3>4. Metal!Take(Advance(w, Min(Reach(w, k))), Max({n, 1}), t, k)
            = Take(Advance(w, Min(Reach(w, k))), Max({n, 1}), t, k)
      BY <2>7
    <3> QED
      BY <3>1, <3>2, <3>3, <3>4 DEF Metal!NextLaunch, NextLaunch
  <2> QED
    BY <2>1, <2>8, Zenon DEF Metal!Plan, Plan
<1>7. \A d, objects, args : Metal!Launch(d, objects, args) = Launch(d, objects, args)
  BY DEF Metal!Launch, Launch, Metal!InBlock, InBlock, Metal!Unless, Unless
<1>8. \A bytes, most : Metal!ChunkSizes(bytes, most) = ChunkSizes(bytes, most)
  BY DEF Metal!ChunkSizes, ChunkSizes, Metal!CeilDiv, CeilDiv, Metal!Min, Min
<1>9. /\ \A d, ok : Metal!Outcome(d, ok) = Outcome(d, ok)
      /\ \A d, objects : Metal!Gone(d, objects) = Gone(d, objects)
  BY DEF Metal!Outcome, Outcome, Metal!Gone, Gone
<1>10. \A d : Metal!Room(d) = Room(d)
  BY DEF Metal!Room, Room, Metal!Cardinality, Cardinality
<1> QED
  BY <1>1, <1>2, <1>3, <1>4, <1>5, <1>6, <1>7, <1>8, <1>9, <1>10
-----------------------------------------------------------------------------
(***************************************************************************)
(* The backends' calls, each with every outcome it may have.               *)
(***************************************************************************)

\* No memory is there for a device, nor anything else.
Bare(d)        == d.mem = {} /\ d.chunks = <<>>
NothingLeft(d) == Bare(d) /\ d.live = {}

\* A device that no object was made for yet.
Fresh(d) == Sound(d) /\ d.sweep = Clear /\ d.handles = {} /\ NothingLeft(d)

\* A device that is up: its objects are there, and a queue it owns up to.
Up(d, objects) ==
  /\ Sound(d)
  /\ objects \subseteq d.handles /\ d.handles \subseteq objects \cup {"kfd"}
  /\ d.handles \subseteq d.live /\ d.live \subseteq objects \cup {"kfd"}

\* A device whose objects are gone; busy_func_ and queue_created_ stay.
Down(d) == Sound(d) /\ d.handles \subseteq {"function", "kfd"} /\ NothingLeft(d)

\* What the calls of a device that is up leave it in, and what Init does.
StaysUp(outcomes, objects) == \A o \in outcomes : Up(o.dev, objects)
ComesUp(outcomes, objects) ==
  \A o \in outcomes : IF o.ok THEN Up(o.dev, objects) /\ Bare(o.dev) ELSE Down(o.dev)
KeepsBlock(d, outcomes)      == \A o \in outcomes : SameBlock(d, o.dev)
Allocates(d, outcomes, size) == \A o \in outcomes : HasBlock(d, o.dev, IF o.ok THEN size ELSE 0)

\* A device without a block, whose memory is the device's.
Empty(d) == d.mem \in SUBSET (1 .. Capacity) /\ d.chunks = <<>>

LEMMA SameUp ==
  ASSUME NEW d, NEW objects, Up(d, objects), NEW e, Sound(e), e.live = d.live, e.handles = d.handles
  PROVE  Up(e, objects)
BY DEF Up

LEMMA FreshIsDown ==
  ASSUME NEW d, Fresh(d)
  PROVE  Down(d)
BY DEF Fresh, Down

LEMMA MakeFresh ==
  ASSUME NEW d, Fresh(d), NEW objects
  PROVE  /\ Sound(Make(d, objects)) /\ Bare(Make(d, objects))
         /\ Make(d, objects).live = objects /\ Make(d, objects).handles = objects
<1> DEFINE e == Make(d, objects)
<1>1. /\ objects \cap d.live = {} /\ d.live = {} /\ d.handles = {} /\ d.mem = {} /\ d.chunks = <<>>
      /\ Sound(d)
  BY DEF Fresh, NothingLeft, Bare
<1>2. Sound(e) /\ e.live = d.live \cup objects /\ e.handles = d.handles \cup objects /\ e.chunks = d.chunks
  BY <1>1, MakeSound
<1>3. e.mem = d.mem
  BY <1>1, MakeKeeps
<1> HIDE DEF e
<1>4. Sound(e) /\ Bare(e) /\ e.live = objects /\ e.handles = objects
  BY <1>1, <1>2, <1>3 DEF Bare
<1> QED BY <1>4 DEF e

LEMMA SameHas ==
  ASSUME NEW d, NEW e, SameBlock(d, e)
  PROVE  /\ Empty(d) => Empty(e)
         /\ \A f, n : HasBlock(e, f, n) => HasBlock(d, f, n)
         /\ \A c, n : HasBlock(c, d, n) => HasBlock(c, e, n)
<1>1. Astray(e) = Astray(d)
  BY DEF SameBlock, Astray, ChunkIds
<1> QED BY <1>1 DEF SameBlock, HasBlock, Empty

LEMMA EmptyHas ==
  ASSUME NEW d, Empty(d)
  PROVE  HasBlock(d, d, 0)
BY NoChunks DEF Empty, HasBlock

\* Freeing a block and planning a launch.
LEMMA FreeUp ==
  ASSUME NEW d, NEW objects, Up(d, objects)
  PROVE  /\ Up(FreeBlock(d), objects) /\ FreeBlock(d).sweep = Clear /\ FreeBlock(d).current = d.current
         /\ d.mem \in SUBSET (1 .. Capacity) => Empty(FreeBlock(d)) /\ HasBlock(d, FreeBlock(d), 0)
<1> DEFINE e == FreeBlock(d)
<1>1. Sound(e) /\ SameObjects(d, e) /\ e.sweep = Clear /\ e.chunks = <<>>
  BY FreeBlockSound DEF Up
<1>2. d.mem \in SUBSET (1 .. Capacity) => HasBlock(d, e, 0)
  BY FreeBlockHasNone DEF Up
<1> HIDE DEF e
<1>3. Up(e, objects)
  BY <1>1, SameUp DEF SameObjects
<1>4. HasBlock(d, e, 0) => Empty(e)
  BY <1>1 DEF HasBlock, Empty
<1> QED BY <1>1, <1>2, <1>3, <1>4 DEF e, SameObjects

LEMMA PlanUp ==
  ASSUME NEW d, NEW objects, Up(d, objects), NEW loops \in Nat, NEW traffic \in Nat
  PROVE  LET p == Plan(d, loops, traffic)
         IN  Up(p.dev, objects) /\ SameBlock(d, p.dev) /\ p.dev.current = d.current /\ InBlock(p.dev, p.args)
<1> DEFINE p == Plan(d, loops, traffic)
<1>1. Sound(p.dev) /\ SameObjects(d, p.dev) /\ InBlock(p.dev, p.args)
  BY PlanSound DEF Up
<1>2. SameBlock(d, p.dev)
  BY PlanKeeps DEF Up
<1> HIDE DEF p
<1>3. Up(p.dev, objects) /\ InBlock(p.dev, p.args) /\ p.dev.current = d.current
  BY <1>1, SameUp DEF SameObjects
<1> QED BY <1>2, <1>3 DEF p

\* A block of chunks of any sizes, begun and given up.
LEMMA BlockUp ==
  ASSUME NEW d, NEW objects, Up(d, objects), Empty(d), NEW sizes \in Seq(Nat)
  PROVE  LET filled == AddChunks(FreeBlock(d), sizes)
         IN  /\ Up(filled, objects) /\ Up(FreeBlock(filled), objects) /\ Up(Swept(filled), objects)
             /\ HasBlock(d, FreeBlock(filled), 0)
<1> DEFINE empty == FreeBlock(d)
           filled == AddChunks(empty, sizes)
<1>1. Up(empty, objects) /\ empty.sweep = Clear /\ Empty(empty) /\ HasBlock(d, empty, 0)
  BY FreeUp DEF Empty
<1> HIDE DEF empty
<1>2. Up(filled, objects)
  BY <1>1, AddChunksSound, SameUp DEF SameObjects, Up
<1>3. HasBlock(empty, FreeBlock(filled), 0)
  BY <1>1, GivenUpLeavesNone DEF Up, Empty
<1> HIDE DEF filled
<1>4. Up(FreeBlock(filled), objects) /\ Up(Swept(filled), objects)
  BY <1>2, FreeBlockSound, SweptSound, SameUp DEF SameObjects, Up
<1>5. HasBlock(d, FreeBlock(filled), 0)
  BY <1>1, <1>3 DEF HasBlock
<1> QED BY <1>2, <1>4, <1>5 DEF filled, empty

\* A block made in full.
LEMMA WholeUp ==
  ASSUME NEW d, NEW objects, Up(d, objects), Empty(d), NEW bytes \in Nat \ {0}, NEW most \in Nat \ {0},
         Len(ChunkSizes(bytes, most)) <= Room(FreeBlock(d))
  PROVE  LET filled == AddChunks(FreeBlock(d), ChunkSizes(bytes, most))
         IN  HasBlock(d, filled, bytes) /\ HasBlock(d, Swept(filled), bytes)
<1> DEFINE empty == FreeBlock(d)
           filled == AddChunks(empty, ChunkSizes(bytes, most))
<1>1. Up(empty, objects) /\ empty.sweep = Clear /\ Empty(empty) /\ HasBlock(d, empty, 0)
  BY FreeUp DEF Empty
<1>2. Len(ChunkSizes(bytes, most)) <= Room(empty)
  OBVIOUS
<1> HIDE DEF empty
<1>3. Sound(filled) /\ HasBlock(empty, filled, bytes)
  BY <1>1, <1>2, WholeBlockMade DEF Up, Empty
<1> HIDE DEF filled
<1>4. HasBlock(d, filled, bytes)
  BY <1>1, <1>3 DEF HasBlock
<1>5. SameBlock(filled, Swept(filled))
  BY <1>3, SweptKeeps
<1>6. HasBlock(d, Swept(filled), bytes)
  BY <1>4, <1>5, SameHas
<1> QED BY <1>4, <1>6 DEF filled, empty

LEMMA WholeChunkUp ==
  ASSUME NEW d, NEW objects, Up(d, objects), Empty(d), NEW bytes \in Nat \ {0}, Room(FreeBlock(d)) > 0
  PROVE  HasBlock(d, Swept(AddChunks(FreeBlock(d), <<bytes>>)), bytes)
<1>1. ChunkSizes(bytes, bytes) = <<bytes>> /\ Len(<<bytes>>) = 1
  BY OneChunk
<1>2. Room(FreeBlock(d)) \in Int
  <2> DEFINE e == FreeBlock(d)
  <2>1. e.mem \in SUBSET (1 .. Capacity)
    BY FreeUp DEF Empty
  <2> HIDE DEF e
  <2>2. Capacity \in Nat
    BY DevicesAssumption
  <2>3. IsFiniteSet(1 .. Capacity)
    BY <2>2, FS_Interval
  <2>4. IsFiniteSet(e.mem)
    BY <2>1, <2>3, FS_Subset
  <2>5. Cardinality(e.mem) \in Nat
    BY <2>4, FS_CardinalityType
  <2> QED BY <2>2, <2>5 DEF Room, e
<1>3. Len(ChunkSizes(bytes, bytes)) <= Room(FreeBlock(d))
  BY <1>1, <1>2
<1>4. HasBlock(d, Swept(AddChunks(FreeBlock(d), ChunkSizes(bytes, bytes))), bytes)
  BY <1>3, WholeUp
<1> QED BY <1>1, <1>4

CudaObjects == {"context", "module", "function", "scratch"}

LEMMA CudaDestroy ==
  ASSUME NEW d, Sound(d), NEW t \in Threads,
         d.handles \subseteq CudaObjects \cup {"kfd"}, d.handles \subseteq d.live \cup {"function", "kfd"},
         "context" \in d.handles \/ NothingLeft(d)
  PROVE  Down(Nvidia!Destroy(d, t))
<1> DEFINE f == FreeBlock(d)
           g == Give(f, {"scratch", "module"})
           h == Gone(g, {"function"})
           k == Give(h, {"context"})
           e == [k EXCEPT !.live = {}, !.mem = {}, !.current[t] = "none"]
<1>1. /\ Sound(f) /\ f.chunks = <<>> /\ f.live = d.live /\ f.handles = d.handles
      /\ NothingLeft(d) => NothingLeft(f)
  BY FreeBlockSound, FreeBlockKeeps DEF SameObjects, NothingLeft, Bare, Astray
<1> HIDE DEF f
<1>2. /\ Sound(g) /\ g.chunks = <<>> /\ g.handles = d.handles \ {"scratch", "module"}
      /\ "context" \in d.handles => "context" \in g.live
      /\ NothingLeft(d) => NothingLeft(g)
  <2>1. g.mem = f.mem
    BY <1>1, MakeKeeps
  <2>2. /\ Sound(g) /\ g.chunks = f.chunks /\ g.live \subseteq f.live /\ g.handles = f.handles \ {"scratch", "module"}
        /\ "context" \in d.handles => "context" \in g.live
    BY <1>1, GiveSound
  <2> HIDE DEF g
  <2> QED BY <1>1, <2>1, <2>2 DEF NothingLeft, Bare
<1> HIDE DEF g
<1>3. /\ Sound(h) /\ h.chunks = <<>> /\ h.handles = d.handles \ {"scratch", "module"}
      /\ "context" \in d.handles => "context" \in h.live
      /\ NothingLeft(d) => NothingLeft(h)
  <2>1. h.mem = g.mem
    BY <1>2, MakeKeeps
  <2>2. /\ Sound(h) /\ h.chunks = g.chunks /\ h.live = g.live \ {"function"} /\ h.handles = g.handles
    BY <1>2, GoneSound
  <2> HIDE DEF h
  <2> QED BY <1>2, <2>1, <2>2 DEF NothingLeft, Bare
<1> HIDE DEF h
<1>4. Nvidia!Destroy(d, t) = IF "context" \notin h.handles THEN h ELSE e
  BY NvidiaDriver DEF Nvidia!Destroy, Nvidia!DestroyContext, f, g, h
<1>5. CASE "context" \notin h.handles
  BY <1>3, <1>4, <1>5 DEF Down, CudaObjects
<1>6. CASE "context" \in h.handles
  <2>1. Sound(k) /\ k.chunks = <<>> /\ k.handles = h.handles \ {"context"}
    BY <1>3, <1>6, GiveSound
  <2> HIDE DEF k
  <2>2. /\ DOMAIN e = Fields /\ DOMAIN e.current = Threads /\ e.threads = k.threads /\ e.chunks = <<>>
        /\ e.sweep = k.sweep /\ e.misuse = k.misuse /\ e.handles = k.handles /\ e.live = {} /\ e.mem = {}
    BY <2>1 DEF Sound, Fields
  <2> HIDE DEF e
  <2>3. Sound(e) /\ NothingLeft(e)
    BY <2>1, <2>2 DEF Sound, ChunkIds, NothingLeft, Bare
  <2> QED BY <1>3, <1>4, <1>6, <2>1, <2>2, <2>3 DEF Down, CudaObjects
<1> QED BY <1>5, <1>6

LEMMA CudaComplete ==
  ASSUME NEW d, Sound(d), Bare(d), NEW t \in Threads,
         d.current[t] = "own", d.live = {"context"}, d.handles = {"context"}
  PROVE  \A o \in Nvidia!Complete(d, t) :
           IF o.ok THEN Up(o.dev, CudaObjects) /\ Bare(o.dev) /\ o.dev.live = CudaObjects ELSE Down(o.dev)
<1> DEFINE module   == Make(d, {"module"})
           function == Make(module, {"function"})
           scratch  == Make(module, {"function", "scratch"})
<1>1. /\ Sound(module) /\ Bare(module)
      /\ module.live = {"context", "module"} /\ module.handles = {"context", "module"}
  <2>1. module.mem = d.mem
    BY MakeKeeps
  <2>2. /\ Sound(module) /\ module.chunks = d.chunks
        /\ module.live = {"context", "module"} /\ module.handles = {"context", "module"}
    BY MakeSound
  <2> HIDE DEF module
  <2> QED BY <2>1, <2>2 DEF Bare
<1> HIDE DEF module
<1>2. /\ Sound(function) /\ function.live = {"context", "module", "function"}
      /\ function.handles = {"context", "module", "function"}
  BY <1>1, MakeSound
<1>3. Sound(scratch) /\ Bare(scratch) /\ scratch.live = CudaObjects /\ scratch.handles = CudaObjects
  <2>1. scratch.mem = module.mem
    BY <1>1, MakeKeeps
  <2>2. Sound(scratch) /\ scratch.chunks = module.chunks /\ scratch.live = CudaObjects /\ scratch.handles = CudaObjects
    BY <1>1, MakeSound DEF CudaObjects
  <2> HIDE DEF scratch
  <2> QED BY <1>1, <2>1, <2>2 DEF Bare
<1>4. Nvidia!InOwnContext(d, t) = d
  BY DEF Nvidia!InOwnContext, Nvidia!Unless
<1>5. Nvidia!Complete(d, t) = {Outcome(scratch, TRUE)} \cup
                                {Outcome(Nvidia!Destroy(e, t), FALSE) : e \in {d, module, function}}
  BY <1>4, NvidiaDriver DEF Nvidia!Complete, module
<1> HIDE DEF function, scratch
<1>6. Up(scratch, CudaObjects)
  BY <1>3 DEF Up
<1>7. \A e \in {d, module, function} : Down(Nvidia!Destroy(e, t))
  BY <1>1, <1>2, CudaDestroy DEF CudaObjects
<1> QED BY <1>3, <1>5, <1>6, <1>7 DEF Outcome

\* The context of a device that had none.
LEMMA CudaCreateContext ==
  ASSUME NEW d, Fresh(d), NEW t \in Threads
  PROVE  LET c == Nvidia!CreateContext(d, t)
         IN  Sound(c) /\ Bare(c) /\ c.current[t] = "own" /\ c.live = {"context"} /\ c.handles = {"context"}
<1> DEFINE m == Make(d, {"context"})
           c == [m EXCEPT !.current[t] = "own"]
<1>1. Sound(m) /\ Bare(m) /\ m.live = {"context"} /\ m.handles = {"context"}
  BY MakeFresh
<1> HIDE DEF m
<1>2. Nvidia!CreateContext(d, t) = c
  BY NvidiaDriver DEF Nvidia!CreateContext, Nvidia!SetCurrent, m
<1>3. /\ Sound(c) /\ c.current[t] = "own" /\ c.live = m.live /\ c.handles = m.handles
      /\ c.chunks = m.chunks /\ c.mem = m.mem
  BY <1>1, CurrentSound
<1> HIDE DEF c
<1>4. Bare(c)
  BY <1>1, <1>3 DEF Bare
<1> QED BY <1>1, <1>2, <1>3, <1>4

LEMMA NvidiaInit ==
  ASSUME NEW d, Fresh(d), NEW t \in Threads
  PROVE  ComesUp(Nvidia!Init(d, t), CudaObjects)
<1> DEFINE c == Nvidia!CreateContext(d, t)
<1>1. Sound(c) /\ Bare(c) /\ c.current[t] = "own" /\ c.live = {"context"} /\ c.handles = {"context"}
  BY CudaCreateContext
<1>2. Nvidia!Init(d, t) = {Outcome(d, FALSE)} \cup Nvidia!Complete(c, t)
  BY NvidiaDriver DEF Nvidia!Init
<1> HIDE DEF c
<1>3. \A o \in Nvidia!Complete(c, t) : IF o.ok THEN Up(o.dev, CudaObjects) /\ Bare(o.dev) ELSE Down(o.dev)
  BY <1>1, CudaComplete
<1> QED BY <1>2, <1>3, FreshIsDown DEF ComesUp, Outcome

LEMMA CudaSetCurrent ==
  ASSUME NEW d, Up(d, CudaObjects), NEW t \in Threads
  PROVE  /\ Up(Nvidia!SetCurrent(d, t), CudaObjects) /\ Nvidia!SetCurrent(d, t).current[t] = "own"
         /\ SameBlock(d, Nvidia!SetCurrent(d, t))
<1> DEFINE e == Nvidia!SetCurrent(d, t)
<1>1. /\ Sound(e) /\ e.current[t] = "own" /\ e.live = d.live /\ e.handles = d.handles
      /\ e.chunks = d.chunks /\ e.mem = d.mem
  BY CurrentSound DEF Nvidia!SetCurrent, Up
<1> HIDE DEF e
<1>2. Up(e, CudaObjects) /\ SameBlock(d, e)
  BY <1>1, SameUp DEF SameBlock
<1> QED BY <1>1, <1>2 DEF e

LEMMA NvidiaAllocateMemory ==
  ASSUME NEW d, Up(d, CudaObjects), Empty(d), NEW t \in Threads, NEW bytes \in Nat \ {0}
  PROVE  LET os == Nvidia!AllocateMemory(d, t, bytes) IN StaysUp(os, CudaObjects) /\ Allocates(d, os, bytes)
<1> DEFINE c      == Nvidia!SetCurrent(d, t)
           empty  == FreeBlock(c)
           filled == AddChunks(empty, <<bytes>>)
<1>1. Up(c, CudaObjects) /\ c.current[t] = "own" /\ SameBlock(d, c) /\ Empty(c)
  BY CudaSetCurrent, SameHas
<1> HIDE DEF c
<1>2. Up(empty, CudaObjects) /\ empty.current[t] = "own" /\ HasBlock(c, empty, 0)
  BY <1>1, FreeUp DEF Empty
<1>3. <<bytes>> \in Seq(Nat)
  OBVIOUS
<1>4. /\ Up(FreeBlock(filled), CudaObjects) /\ HasBlock(c, FreeBlock(filled), 0)
      /\ Up(Swept(filled), CudaObjects)
      /\ Room(empty) > 0 => HasBlock(c, Swept(filled), bytes)
  BY <1>1, <1>3, BlockUp, WholeChunkUp
<1>6. Nvidia!FreeBlock(c) = empty
  BY NvidiaDriver
<1> HIDE DEF empty
<1>5. Nvidia!AddChunks(empty, <<bytes>>) = filled /\ Nvidia!Room(empty) = Room(empty)
  BY NvidiaDriver
<1> HIDE DEF filled
<1>7. Nvidia!InOwnContext(empty, t) = empty
  BY <1>2 DEF Nvidia!InOwnContext, Nvidia!Unless
<1>8. \A o \in Nvidia!AllocateMemory(d, t, bytes) :
         \/ ~o.ok /\ o.dev \in {d, empty, FreeBlock(filled)}
         \/ o.ok /\ Room(empty) > 0 /\ o.dev = Swept(filled)
  <2>1. Nvidia!FreeBlock(filled) = FreeBlock(filled) /\ Nvidia!Swept(filled) = Swept(filled)
    BY NvidiaDriver
  <2>2. \A o \in Nvidia!NewBlock(c, t, bytes) :
           \/ ~o.ok /\ o.dev \in {empty, FreeBlock(filled)}
           \/ o.ok /\ Room(empty) > 0 /\ o.dev = Swept(filled)
    BY <1>5, <1>6, <1>7, <2>1 DEF Nvidia!NewBlock, Nvidia!Outcome
  <2> QED BY <2>2 DEF Nvidia!AllocateMemory, Nvidia!MakeCurrent, Nvidia!Outcome, c
<1>9. /\ HasBlock(d, d, 0) /\ HasBlock(d, empty, 0) /\ HasBlock(d, FreeBlock(filled), 0)
      /\ Room(empty) > 0 => HasBlock(d, Swept(filled), bytes)
  BY <1>1, <1>2, <1>4, EmptyHas, SameHas
<1> QED BY <1>2, <1>4, <1>8, <1>9 DEF StaysUp, Allocates

\* A block is freed or, if the context cannot be made current, forgotten.
Releases(d, outcomes) == \A o \in outcomes : HasBlock(d, o.dev, 0) \/ o.dev = DropFields(d)

LEMMA NvidiaReleaseMemory ==
  ASSUME NEW d, Up(d, CudaObjects), d.mem \in SUBSET (1 .. Capacity), NEW t \in Threads
  PROVE  LET os == Nvidia!ReleaseMemory(d, t) IN StaysUp(os, CudaObjects) /\ Releases(d, os)
<1> DEFINE c == Nvidia!SetCurrent(d, t)
<1>1. Up(c, CudaObjects) /\ SameBlock(d, c) /\ c.mem \in SUBSET (1 .. Capacity)
  BY CudaSetCurrent DEF SameBlock
<1>2. \A o \in Nvidia!ReleaseMemory(d, t) :
         (d.chunks = <<>> /\ o.dev = d) \/ o.dev \in {DropFields(d), FreeBlock(c)}
  BY NvidiaDriver DEF Nvidia!ReleaseMemory, Nvidia!Outcome
<1> HIDE DEF c
<1>3. Up(DropFields(d), CudaObjects)
  BY DropSound, SameUp DEF SameObjects, Up
<1>4. Up(FreeBlock(c), CudaObjects) /\ HasBlock(c, FreeBlock(c), 0)
  BY <1>1, FreeUp
<1>5. HasBlock(d, FreeBlock(c), 0)
  BY <1>1, <1>4, SameHas
<1>6. d.chunks = <<>> => HasBlock(d, d, 0)
  BY EmptyHas DEF Empty
<1> QED BY <1>2, <1>3, <1>4, <1>5, <1>6 DEF StaysUp, Releases

LEMMA NvidiaRunKernel ==
  ASSUME NEW d, Up(d, CudaObjects), NEW t \in Threads, NEW loops \in Nat, NEW traffic \in Nat
  PROVE  LET os == Nvidia!RunKernel(d, t, loops, traffic) IN StaysUp(os, CudaObjects) /\ KeepsBlock(d, os)
<1> DEFINE c == Nvidia!SetCurrent(d, t)
           p == Plan(c, loops, traffic)
<1>1. Up(c, CudaObjects) /\ c.current[t] = "own" /\ SameBlock(d, c)
  BY CudaSetCurrent
<1> HIDE DEF c
<1>2. /\ Up(p.dev, CudaObjects) /\ p.dev.current[t] = "own" /\ InBlock(p.dev, p.args)
      /\ SameBlock(c, p.dev)
  BY <1>1, PlanUp
<1>3. Nvidia!Plan(c, loops, traffic) = p
  BY NvidiaDriver
<1> HIDE DEF p
<1>4. Nvidia!InOwnContext(p.dev, t) = p.dev
  BY <1>2 DEF Nvidia!InOwnContext, Nvidia!Unless
<1>5. Nvidia!Launch(p.dev, {"context", "function", "scratch"}, p.args) = p.dev
  <2>1. Launch(p.dev, {"context", "function", "scratch"}, p.args) = p.dev
    BY <1>2, LaunchSound DEF Up, CudaObjects
  <2> QED BY <2>1, NvidiaDriver
<1>6. \A o \in Nvidia!LaunchKernel(c, t, loops, traffic) : o.dev = p.dev
  BY <1>3, <1>4, <1>5 DEF Nvidia!LaunchKernel, Nvidia!Outcome
<1>7. \A o \in Nvidia!RunKernel(d, t, loops, traffic) : o.dev \in {d, p.dev}
  BY <1>6 DEF Nvidia!RunKernel, Nvidia!MakeCurrent, Nvidia!Outcome, c
<1>8. SameBlock(d, d) /\ SameBlock(d, p.dev)
  BY <1>1, <1>2 DEF SameBlock
<1> QED BY <1>2, <1>7, <1>8 DEF StaysUp, KeepsBlock

\* AmdDevice's CUDA calls are NvidiaDevice's.
LEMMA AmdIsCuda ==
  /\ \A d, t : Amd!Cuda!Destroy(d, t) = Nvidia!Destroy(d, t)
  /\ \A d, t : Amd!Cuda!CreateContext(d, t) = Nvidia!CreateContext(d, t)
  /\ \A d, t : Amd!Cuda!Complete(d, t) = Nvidia!Complete(d, t)
  /\ \A d, t, bytes : Amd!Cuda!AllocateMemory(d, t, bytes) = Nvidia!AllocateMemory(d, t, bytes)
  /\ \A d, t : Amd!Cuda!ReleaseMemory(d, t) = Nvidia!ReleaseMemory(d, t)
  /\ \A d, t, loops, traffic : Amd!Cuda!RunKernel(d, t, loops, traffic) = Nvidia!RunKernel(d, t, loops, traffic)
<1>1. \A d, t : Amd!Cuda!InOwnContext(d, t) = Nvidia!InOwnContext(d, t)
  BY DEF Amd!Cuda!InOwnContext, Nvidia!InOwnContext, Amd!Cuda!Unless, Nvidia!Unless
<1>2. \A d, t : Amd!Cuda!SetCurrent(d, t) = Nvidia!SetCurrent(d, t)
  BY DEF Amd!Cuda!SetCurrent, Nvidia!SetCurrent
<1>3. \A d, t : Amd!Cuda!Destroy(d, t) = Nvidia!Destroy(d, t)
  <2> SUFFICES ASSUME NEW d, NEW t PROVE Amd!Cuda!Destroy(d, t) = Nvidia!Destroy(d, t)
    OBVIOUS
  <2> DEFINE h == Gone(Give(FreeBlock(d), {"scratch", "module"}), {"function"})
             k == Give(h, {"context"})
  <2>1. Nvidia!Destroy(d, t) = Nvidia!DestroyContext(h, t) /\ Nvidia!Give(h, {"context"}) = k
    BY NvidiaDriver DEF Nvidia!Destroy
  <2>2. Amd!Cuda!Destroy(d, t) = Amd!Cuda!DestroyContext(h, t) /\ Amd!Cuda!Give(h, {"context"}) = k
    BY AmdCudaDriver DEF Amd!Cuda!Destroy
  <2> HIDE DEF h, k
  <2>3. Nvidia!DestroyContext(h, t) =
          IF "context" \notin h.handles THEN h
          ELSE [k EXCEPT !.live = {}, !.mem = {}, !.current[t] = "none"]
    BY <2>1 DEF Nvidia!DestroyContext
  <2>4. Amd!Cuda!DestroyContext(h, t) =
          IF "context" \notin h.handles THEN h
          ELSE [k EXCEPT !.live = {}, !.mem = {}, !.current[t] = "none"]
    BY <2>2 DEF Amd!Cuda!DestroyContext
  <2> QED BY <2>1, <2>2, <2>3, <2>4
<1>4. \A d, t : Amd!Cuda!CreateContext(d, t) = Nvidia!CreateContext(d, t)
  BY <1>2, AmdCudaDriver, NvidiaDriver DEF Amd!Cuda!CreateContext, Nvidia!CreateContext
<1>5. \A d, t : Amd!Cuda!Complete(d, t) = Nvidia!Complete(d, t)
  <2> SUFFICES ASSUME NEW d, NEW t PROVE Amd!Cuda!Complete(d, t) = Nvidia!Complete(d, t)
    OBVIOUS
  <2> DEFINE own == Nvidia!InOwnContext(d, t)
             module == Make(own, {"module"})
             function == Make(module, {"function"})
             scratch == Make(module, {"function", "scratch"})
             Failed == {Nvidia!Outcome(Nvidia!Destroy(e, t), FALSE) : e \in {own, module, function}}
  <2>1. Nvidia!Complete(d, t) = {Nvidia!Outcome(scratch, TRUE)} \cup Failed
    BY NvidiaDriver DEF Nvidia!Complete
  <2>2. Amd!Cuda!Complete(d, t) =
          {Amd!Cuda!Outcome(scratch, TRUE)} \cup
          {Amd!Cuda!Outcome(Amd!Cuda!Destroy(e, t), FALSE) : e \in {own, module, function}}
    BY <1>1, AmdCudaDriver DEF Amd!Cuda!Complete
  <2> HIDE DEF own, module, function, scratch
  <2>3. {Amd!Cuda!Outcome(Amd!Cuda!Destroy(e, t), FALSE) : e \in {own, module, function}} = Failed
    BY <1>3 DEF Amd!Cuda!Outcome, Nvidia!Outcome
  <2> HIDE DEF Failed
  <2> QED BY <2>1, <2>2, <2>3 DEF Amd!Cuda!Outcome, Nvidia!Outcome
<1>6. ASSUME NEW d, NEW t, NEW bytes
      PROVE  Amd!Cuda!AllocateMemory(d, t, bytes) = Nvidia!AllocateMemory(d, t, bytes)
  <2> DEFINE c == Nvidia!SetCurrent(d, t)
             empty == FreeBlock(c)
             own == Nvidia!InOwnContext(empty, t)
             filled == AddChunks(own, <<bytes>>)
  <2>1. Amd!Cuda!SetCurrent(d, t) = c
    BY <1>2
  <2> HIDE DEF c
  <2>2. Amd!Cuda!FreeBlock(c) = empty /\ Nvidia!FreeBlock(c) = empty
    BY AmdCudaDriver, NvidiaDriver
  <2> HIDE DEF empty
  <2>3. Amd!Cuda!InOwnContext(empty, t) = own
    BY <1>1
  <2> HIDE DEF own
  <2>4. Amd!Cuda!AddChunks(own, <<bytes>>) = filled /\ Nvidia!AddChunks(own, <<bytes>>) = filled
    BY AmdCudaDriver, NvidiaDriver
  <2> HIDE DEF filled
  <2>5. Amd!Cuda!FreeBlock(filled) = Nvidia!FreeBlock(filled) /\ Amd!Cuda!Swept(filled) = Nvidia!Swept(filled)
    BY AmdCudaDriver, NvidiaDriver
  <2>6. Amd!Cuda!Room(empty) = Nvidia!Room(empty)
    BY DEF Amd!Cuda!Room, Nvidia!Room, Amd!Cuda!Cardinality, Nvidia!Cardinality
  <2>7. Amd!Cuda!NewBlock(c, t, bytes) = Nvidia!NewBlock(c, t, bytes)
    BY <2>2, <2>3, <2>4, <2>5, <2>6 DEF Amd!Cuda!NewBlock, Nvidia!NewBlock, Amd!Cuda!Outcome, Nvidia!Outcome, own
  <2> QED BY <2>1, <2>7 DEF Amd!Cuda!AllocateMemory, Nvidia!AllocateMemory, Amd!Cuda!MakeCurrent, Nvidia!MakeCurrent,
              Amd!Cuda!Outcome, Nvidia!Outcome, c
<1>7. ASSUME NEW d, NEW t
      PROVE  Amd!Cuda!ReleaseMemory(d, t) = Nvidia!ReleaseMemory(d, t)
  BY <1>2, AmdCudaDriver, NvidiaDriver
     DEF Amd!Cuda!ReleaseMemory, Nvidia!ReleaseMemory, Amd!Cuda!Outcome, Nvidia!Outcome
<1>8. ASSUME NEW d, NEW t, NEW loops, NEW traffic
      PROVE  Amd!Cuda!RunKernel(d, t, loops, traffic) = Nvidia!RunKernel(d, t, loops, traffic)
  <2> DEFINE c == Nvidia!SetCurrent(d, t)
             p == Plan(c, loops, traffic)
             own == Nvidia!InOwnContext(p.dev, t)
             l == Launch(own, {"context", "function", "scratch"}, p.args)
  <2>1. Amd!Cuda!SetCurrent(d, t) = c
    BY <1>2
  <2> HIDE DEF c
  <2>2. Amd!Cuda!Plan(c, loops, traffic) = p /\ Nvidia!Plan(c, loops, traffic) = p
    BY AmdCudaDriver, NvidiaDriver
  <2> HIDE DEF p
  <2>3. Amd!Cuda!InOwnContext(p.dev, t) = own
    BY <1>1
  <2>4. /\ Amd!Cuda!Launch(own, {"context", "function", "scratch"}, p.args) = l
        /\ Nvidia!Launch(own, {"context", "function", "scratch"}, p.args) = l
    BY AmdCudaDriver, NvidiaDriver
  <2> HIDE DEF l
  <2>5. Amd!Cuda!LaunchKernel(c, t, loops, traffic) = Nvidia!LaunchKernel(c, t, loops, traffic)
    BY <2>2, <2>3, <2>4 DEF Amd!Cuda!LaunchKernel, Nvidia!LaunchKernel, Amd!Cuda!Outcome, Nvidia!Outcome
  <2> QED BY <2>1, <2>5 DEF Amd!Cuda!RunKernel, Nvidia!RunKernel, Amd!Cuda!MakeCurrent, Nvidia!MakeCurrent,
              Amd!Cuda!Outcome, Nvidia!Outcome, c
<1> QED BY <1>3, <1>4, <1>5, <1>6, <1>7, <1>8

\* A device with an amdkfd queue of its own, and one that owns up to it.
LEMMA TouchedUp ==
  ASSUME NEW d, NEW objects, Sound(d), Bare(d), d.live = objects, d.handles = objects, "kfd" \notin objects
  PROVE  \A e \in {Make(d, {"kfd"}), d, [d EXCEPT !.live = @ \cup {"kfd"}]} : Up(e, objects) /\ Bare(e)
<1> DEFINE m == Make(d, {"kfd"})
           e == [d EXCEPT !.live = @ \cup {"kfd"}]
<1>1. Sound(m) /\ m.live = objects \cup {"kfd"} /\ m.handles = objects \cup {"kfd"} /\ m.chunks = d.chunks
  BY MakeSound
<1>2. m.mem = d.mem
  BY MakeKeeps
<1>3. /\ Sound(e) /\ e.live = objects \cup {"kfd"} /\ e.handles = objects
      /\ e.chunks = d.chunks /\ e.mem = d.mem
  BY DEF Sound, Fields, ChunkIds
<1> HIDE DEF m, e
<1>4. Up(m, objects) /\ Up(d, objects) /\ Up(e, objects)
  BY <1>1, <1>3 DEF Up
<1>5. Bare(m) /\ Bare(e)
  BY <1>1, <1>2, <1>3 DEF Bare
<1> QED BY <1>4, <1>5 DEF m, e

\* The program compiled at run time is gone again when CompileKernel returns.
LEMMA AmdCompile ==
  ASSUME NEW d, Sound(d), Bare(d), NEW t \in Threads,
         d.current[t] = "own", d.live = {"context"}, d.handles = {"context"}
  PROVE  \A o \in Amd!CompileKernel(d) :
           /\ Sound(o.dev) /\ Bare(o.dev) /\ o.dev.current[t] = "own"
           /\ o.dev.live = {"context"} /\ o.dev.handles = {"context"}
<1> DEFINE created == Make(d, {"program"})
           gone    == Give(created, {"program"})
<1>1. /\ Sound(created) /\ created.current = d.current /\ created.chunks = d.chunks
      /\ created.live = {"context", "program"} /\ created.handles = {"context", "program"}
  BY MakeSound
<1>4. created.mem = d.mem
  BY MakeKeeps
<1> HIDE DEF created
<1>2. /\ Sound(gone) /\ gone.current = d.current /\ gone.chunks = created.chunks
      /\ gone.live = {"context"} /\ gone.handles = {"context"}
  BY <1>1, GiveSound
<1>5. gone.mem = created.mem
  BY <1>1, MakeKeeps
<1>3. \A o \in Amd!CompileKernel(d) : o.dev \in {d, gone}
  BY AmdDriver DEF Amd!CompileKernel, Amd!Outcome, created
<1> HIDE DEF gone
<1>6. Bare(gone)
  BY <1>1, <1>2, <1>4, <1>5 DEF Bare
<1> QED BY <1>2, <1>3, <1>6

LEMMA AmdInit ==
  ASSUME NEW d, Fresh(d), NEW t \in Threads
  PROVE  ComesUp(Amd!InitAndTouch(d, t), CudaObjects)
<1> DEFINE c == Nvidia!CreateContext(d, t)
           compiled == Amd!CompileKernel(c)
<1>1. Sound(c) /\ Bare(c) /\ c.current[t] = "own" /\ c.live = {"context"} /\ c.handles = {"context"}
  BY CudaCreateContext
<1>2. Amd!Init(d, t) =
        {Outcome(d, FALSE)} \cup
        UNION {IF k.ok THEN Nvidia!Complete(k.dev, t) ELSE {Outcome(Nvidia!Destroy(k.dev, t), FALSE)} : k \in compiled}
  BY AmdIsCuda DEF Amd!Init, Amd!Destroy, Amd!Outcome, Outcome
<1> HIDE DEF c
<1>3. \A k \in compiled : /\ Sound(k.dev) /\ Bare(k.dev) /\ k.dev.current[t] = "own"
                          /\ k.dev.live = {"context"} /\ k.dev.handles = {"context"}
  BY <1>1, AmdCompile
<1> HIDE DEF compiled
<1>4. \A k \in compiled : \A o \in Nvidia!Complete(k.dev, t) :
         IF o.ok THEN Up(o.dev, CudaObjects) /\ Bare(o.dev) /\ o.dev.live = CudaObjects ELSE Down(o.dev)
  BY <1>3, CudaComplete
<1>5. \A k \in compiled : Down(Nvidia!Destroy(k.dev, t))
  BY <1>3, CudaDestroy DEF CudaObjects
<1>6. \A i \in Amd!Init(d, t) :
         IF i.ok THEN Up(i.dev, CudaObjects) /\ Bare(i.dev) /\ i.dev.live = CudaObjects ELSE Down(i.dev)
  BY <1>2, <1>4, <1>5, FreshIsDown DEF Outcome
<1>7. \A i \in Amd!Init(d, t) : i.ok => \A o \in Amd!Touch(i.dev) : o.ok /\ Up(o.dev, CudaObjects) /\ Bare(o.dev)
  <2> SUFFICES ASSUME NEW i \in Amd!Init(d, t), i.ok
               PROVE  \A o \in Amd!Touch(i.dev) : o.ok /\ Up(o.dev, CudaObjects) /\ Bare(o.dev)
    OBVIOUS
  <2> DEFINE e == i.dev
  <2>1. Up(e, CudaObjects) /\ Bare(e) /\ e.live = CudaObjects
    BY <1>6
  <2> HIDE DEF e
  <2>2. Sound(e) /\ e.handles = CudaObjects /\ "kfd" \notin CudaObjects
    BY <2>1 DEF Up, CudaObjects
  <2>3. \A f \in {Make(e, {"kfd"}), e, [e EXCEPT !.live = @ \cup {"kfd"}]} : Up(f, CudaObjects) /\ Bare(f)
    BY <2>1, <2>2, TouchedUp
  <2>4. \A o \in Amd!Touch(e) : o.ok /\ o.dev \in {Make(e, {"kfd"}), e, [e EXCEPT !.live = @ \cup {"kfd"}]}
    BY AmdDriver DEF Amd!Touch, Amd!Outcome
  <2> QED BY <2>3, <2>4 DEF e
<1>8. \A o \in Amd!InitAndTouch(d, t) :
         (o \in Amd!Init(d, t) /\ ~o.ok) \/ (o.ok /\ Up(o.dev, CudaObjects) /\ Bare(o.dev))
  BY <1>7 DEF Amd!InitAndTouch
<1> QED BY <1>6, <1>8 DEF ComesUp

OpenClObjects == {"context", "queue", "program", "kernel", "scratch"}

LEMMA OpenClDestroy ==
  ASSUME NEW d, Sound(d), d.handles \subseteq OpenClObjects \cup {"function", "kfd"},
         d.handles \subseteq d.live \cup {"function", "kfd"},
         d.live \cap OpenClObjects \subseteq d.handles, d.live \subseteq OpenClObjects \cup {"kfd"}, Astray(d) = {}
  PROVE  Down(OpenCl!Destroy(d))
<1> DEFINE f == FreeBlock(d)
           g == Give(f, {"scratch", "kernel", "program", "queue", "context"})
           h == Gone(g, {"kfd"})
<1>1. Sound(f) /\ f.live = d.live /\ f.handles = d.handles /\ f.chunks = <<>> /\ f.mem = {}
  BY FreeBlockSound, FreeBlockKeeps DEF SameObjects
<1> HIDE DEF f
<1>2. /\ Sound(g) /\ g.handles = d.handles \ OpenClObjects
      /\ g.chunks = <<>> /\ g.live = d.live \ (OpenClObjects \cap d.handles)
  BY <1>1, GiveSound DEF OpenClObjects
<1>5. g.mem = {}
  BY <1>1, MakeKeeps
<1> HIDE DEF g
<1>3. /\ Sound(h) /\ h.handles = d.handles \ OpenClObjects
      /\ h.chunks = <<>> /\ h.live = g.live \ {"kfd"} /\ h.mem = {}
  BY <1>2, <1>5, GoneSound, MakeKeeps
<1>4. OpenCl!Destroy(d) = h
  BY OpenClDriver DEF OpenCl!Destroy, OpenCl!ReleaseMemory, f, g
<1> HIDE DEF h
<1>6. h.live = {}
  BY <1>2, <1>3
<1> QED BY <1>3, <1>4, <1>6 DEF Down, NothingLeft, Bare

LEMMA OpenClInit ==
  ASSUME NEW d, Fresh(d)
  PROVE  ComesUp(OpenCl!Init(d), OpenClObjects)
<1> DEFINE made(n) == Make(d, OpenCl!Made(n))
           full == made(7)
           Touched == {Make(full, {"kfd"}), full, [full EXCEPT !.live = @ \cup {"kfd"}]}
<1>1. \A n \in 1 .. 7 : OpenCl!Made(n) \subseteq OpenClObjects
  BY DEF OpenCl!Made, OpenClObjects
<1>2. OpenCl!Made(7) = OpenClObjects
  BY DEF OpenCl!Made, OpenClObjects
<1>3. ASSUME NEW n \in 1 .. 7
      PROVE  Sound(made(n)) /\ Bare(made(n)) /\ made(n).live = OpenCl!Made(n) /\ made(n).handles = OpenCl!Made(n)
  BY MakeFresh
<1>4. ASSUME NEW n \in 1 .. 6 PROVE Down(OpenCl!Destroy(made(n)))
  <2> DEFINE e == made(n)
  <2>1. n \in 1 .. 7
    OBVIOUS
  <2>2. /\ Sound(e) /\ Bare(e) /\ e.live = OpenCl!Made(n) /\ e.handles = OpenCl!Made(n)
        /\ OpenCl!Made(n) \subseteq OpenClObjects
    BY <2>1, <1>1, <1>3
  <2> HIDE DEF e
  <2>3. Astray(e) = {}
    BY <2>2 DEF Astray, Bare
  <2>4. Down(OpenCl!Destroy(e))
    BY <2>2, <2>3, OpenClDestroy
  <2> QED BY <2>4 DEF e
<1>5. Sound(full) /\ Bare(full) /\ full.live = OpenClObjects /\ full.handles = OpenClObjects
  BY <1>2, <1>3
<1>6. \A o \in OpenCl!Init(d) :
         \/ ~o.ok /\ (o.dev = d \/ \E n \in 1 .. 6 : o.dev = OpenCl!Destroy(made(n)))
         \/ o.ok /\ \E touched \in Touched, n \in {GridThreads, SmallThreads} : o.dev = [touched EXCEPT !.threads = n]
  <2>1. OpenCl!Touch(full) = Touched
    BY OpenClDriver DEF OpenCl!Touch
  <2>2. \A n : OpenCl!Make(d, OpenCl!Made(n)) = made(n)
    BY OpenClDriver
  <2> HIDE DEF Touched, made
  <2>3. OpenCl!Make(d, OpenCl!Made(7)) = full
    BY <2>2
  <2> HIDE DEF full
  <2>4. \A o \in OpenCl!Init(d) :
          \/ o = OpenCl!Outcome(d, FALSE)
          \/ \E n \in 1 .. 6 : o = OpenCl!Outcome(OpenCl!Destroy(made(n)), FALSE)
          \/ \E touched \in Touched, n \in {GridThreads, SmallThreads} :
                o = OpenCl!Outcome([touched EXCEPT !.threads = n], TRUE)
    BY <2>1, <2>2, <2>3 DEF OpenCl!Init
  <2>5. \A e : /\ OpenCl!Outcome(e, FALSE).dev = e /\ ~OpenCl!Outcome(e, FALSE).ok
               /\ OpenCl!Outcome(e, TRUE).dev = e /\ OpenCl!Outcome(e, TRUE).ok
    BY DEF OpenCl!Outcome
  <2> SUFFICES ASSUME NEW o \in OpenCl!Init(d)
               PROVE  \/ ~o.ok /\ (o.dev = d \/ \E n \in 1 .. 6 : o.dev = OpenCl!Destroy(made(n)))
                      \/ o.ok /\ \E touched \in Touched, n \in {GridThreads, SmallThreads} :
                                    o.dev = [touched EXCEPT !.threads = n]
    OBVIOUS
  <2>6. CASE o = OpenCl!Outcome(d, FALSE)
    BY <2>5, <2>6, Zenon
  <2>7. CASE \E n \in 1 .. 6 : o = OpenCl!Outcome(OpenCl!Destroy(made(n)), FALSE)
    BY <2>5, <2>7, Zenon
  <2>8. CASE \E touched \in Touched, n \in {GridThreads, SmallThreads} :
                o = OpenCl!Outcome([touched EXCEPT !.threads = n], TRUE)
    BY <2>5, <2>8, Zenon
  <2> QED BY <2>4, <2>6, <2>7, <2>8, Zenon
<1> HIDE DEF made, full
<1>7. \A touched \in Touched : Up(touched, OpenClObjects) /\ Bare(touched)
  <2>1. "kfd" \notin OpenClObjects
    BY DEF OpenClObjects
  <2> QED BY <1>5, <2>1, TouchedUp
<1> HIDE DEF Touched
<1>8. ASSUME NEW touched \in Touched, NEW n \in {GridThreads, SmallThreads}
      PROVE  Up([touched EXCEPT !.threads = n], OpenClObjects) /\ Bare([touched EXCEPT !.threads = n])
  <2> DEFINE e == [touched EXCEPT !.threads = n]
  <2>1. n \in Nat \ {0}
    BY DevicesAssumption
  <2>2. Sound(touched) /\ Bare(touched)
    BY <1>7 DEF Up
  <2>3. /\ Sound(e) /\ e.live = touched.live /\ e.handles = touched.handles
        /\ e.mem = touched.mem /\ e.chunks = touched.chunks
    BY <2>1, <2>2 DEF Sound, Fields, ChunkIds
  <2> HIDE DEF e
  <2>4. Up(e, OpenClObjects) /\ Bare(e)
    BY <1>7, <2>2, <2>3, SameUp DEF Bare
  <2> QED BY <2>4 DEF e
<1>9. Down(d)
  BY FreshIsDown
<1> QED BY ZenonT(60), <1>4, <1>6, <1>8, <1>9 DEF ComesUp

\* A block of several chunks: after a failed allocation there is none, and its
\* sizes are what the limit on an allocation makes of it.
LEMMA ChunkedSizes ==
  ASSUME NEW bytes \in Nat \ {0}, NEW most \in MaxAlloc
  PROVE  ChunkSizes(bytes, IF most = 0 THEN bytes ELSE most) \in Seq(Nat)
<1>1. most \in Nat
  BY DevicesAssumption
<1> DEFINE m == IF most = 0 THEN bytes ELSE most
<1>2. m \in Nat \ {0}
  BY <1>1
<1> HIDE DEF m
<1>3. ChunkSizes(bytes, m) \in Seq(Nat)
  BY <1>2, SizesAreSizes
<1> QED BY <1>3 DEF m

LEMMA MostIsSize ==
  ASSUME NEW bytes \in Nat \ {0}, NEW most \in MaxAlloc
  PROVE  (IF most = 0 THEN bytes ELSE most) \in Nat \ {0}
BY DevicesAssumption

LEMMA BegunSizes ==
  ASSUME NEW sizes \in Seq(Nat), NEW n \in 0 .. Len(sizes) - 1
  PROVE  SubSeq(sizes, 1, n) \in Seq(Nat)
OBVIOUS

LEMMA OpenClAllocateMemory ==
  ASSUME NEW d, Up(d, OpenClObjects), Empty(d), NEW bytes \in Nat \ {0}
  PROVE  LET os == OpenCl!AllocateMemory(d, bytes) IN StaysUp(os, OpenClObjects) /\ Allocates(d, os, bytes)
<1> DEFINE sizes(most) == ChunkSizes(bytes, IF most = 0 THEN bytes ELSE most)
           filled(some) == AddChunks(FreeBlock(d), some)
<1>1. \A most \in MaxAlloc : sizes(most) \in Seq(Nat)
  BY ChunkedSizes
<1>2. \A most \in MaxAlloc : \A n \in 0 .. Len(sizes(most)) - 1 : SubSeq(sizes(most), 1, n) \in Seq(Nat)
  BY <1>1, BegunSizes
<1>3. /\ \A most : OpenCl!ChunkSizes(bytes, IF most = 0 THEN bytes ELSE most) = sizes(most)
      /\ OpenCl!ReleaseMemory(d) = FreeBlock(d)
      /\ \A some : OpenCl!AddChunks(FreeBlock(d), some) = filled(some)
      /\ \A some : OpenCl!ReleaseMemory(filled(some)) = FreeBlock(filled(some))
      /\ \A some : OpenCl!Swept(filled(some)) = Swept(filled(some))
  BY OpenClDriver DEF OpenCl!ReleaseMemory
<1>4. \A some \in Seq(Nat) : /\ Up(FreeBlock(filled(some)), OpenClObjects) /\ Up(Swept(filled(some)), OpenClObjects)
                           /\ HasBlock(d, FreeBlock(filled(some)), 0)
  BY BlockUp
<1>9. ASSUME NEW most \in MaxAlloc, Len(sizes(most)) <= Room(FreeBlock(d))
      PROVE  HasBlock(d, Swept(filled(sizes(most))), bytes)
  BY <1>9, MostIsSize, WholeUp
<1>10. OpenCl!Room(OpenCl!ReleaseMemory(d)) = Room(FreeBlock(d))
  BY <1>3, OpenClDriver
<1> HIDE DEF sizes, filled
<1>5. \A o \in OpenCl!AllocateMemory(d, bytes) :
         \/ ~o.ok /\ o.dev = d
         \/ ~o.ok /\ \E most \in MaxAlloc, n \in Nat :
               /\ n \in 0 .. Len(sizes(most)) - 1
               /\ o.dev = FreeBlock(filled(SubSeq(sizes(most), 1, n)))
         \/ o.ok /\ \E most \in MaxAlloc :
               Len(sizes(most)) <= Room(FreeBlock(d)) /\ o.dev = Swept(filled(sizes(most)))
  <2> DEFINE Sizes(most) == OpenCl!ChunkSizes(bytes, IF most = 0 THEN bytes ELSE most)
             Begun(some) == OpenCl!ReleaseMemory(OpenCl!AddChunks(OpenCl!ReleaseMemory(d), some))
             Whole(some) == OpenCl!Swept(OpenCl!AddChunks(OpenCl!ReleaseMemory(d), some))
  <2>1. \A most : Sizes(most) = sizes(most)
    BY <1>3
  <2>2. \A some : Begun(some) = FreeBlock(filled(some)) /\ Whole(some) = Swept(filled(some))
    BY <1>3
  <2>3. \A o \in OpenCl!AllocateMemory(d, bytes) :
           \/ o = OpenCl!Outcome(d, FALSE)
           \/ \E most \in MaxAlloc : \E n \in 0 .. Len(Sizes(most)) - 1 :
                 o = OpenCl!Outcome(Begun(SubSeq(Sizes(most), 1, n)), FALSE)
           \/ \E most \in MaxAlloc : /\ Len(Sizes(most)) <= OpenCl!Room(OpenCl!ReleaseMemory(d))
                                     /\ o = OpenCl!Outcome(Whole(Sizes(most)), TRUE)
    <3> DEFINE U == UNION {{OpenCl!Outcome(Begun(some), FALSE) :
                              some \in {SubSeq(Sizes(most), 1, n) : n \in 0 .. Len(Sizes(most)) - 1}} : most \in MaxAlloc}
               V == {OpenCl!Outcome(Whole(Sizes(most)), TRUE) :
                       most \in {m \in MaxAlloc : Len(Sizes(m)) <= OpenCl!Room(OpenCl!ReleaseMemory(d))}}
    <3>1. OpenCl!AllocateMemory(d, bytes) =
            IF ~({"context", "queue"} \subseteq d.handles) THEN {OpenCl!Outcome(d, FALSE)} ELSE U \cup V
      BY DEF OpenCl!AllocateMemory
    <3> HIDE DEF Sizes, Begun, Whole
    <3>2. \A o \in U : \E most \in MaxAlloc : \E n \in 0 .. Len(Sizes(most)) - 1 :
                 o = OpenCl!Outcome(Begun(SubSeq(Sizes(most), 1, n)), FALSE)
      <4> SUFFICES ASSUME NEW o \in U
                   PROVE  \E most \in MaxAlloc : \E n \in 0 .. Len(Sizes(most)) - 1 :
                            o = OpenCl!Outcome(Begun(SubSeq(Sizes(most), 1, n)), FALSE)
        OBVIOUS
      <4>1. PICK most \in MaxAlloc :
               o \in {OpenCl!Outcome(Begun(some), FALSE) : some \in {SubSeq(Sizes(most), 1, n) : n \in 0 .. Len(Sizes(most)) - 1}}
        OBVIOUS
      <4> QED BY <4>1
    <3>3. \A o \in V : \E most \in MaxAlloc : /\ Len(Sizes(most)) <= OpenCl!Room(OpenCl!ReleaseMemory(d))
                                                  /\ o = OpenCl!Outcome(Whole(Sizes(most)), TRUE)
      OBVIOUS
    <3> HIDE DEF U, V
    <3> QED BY <3>1, <3>2, <3>3
  <2> HIDE DEF Sizes, Begun, Whole
  <2> SUFFICES ASSUME NEW o \in OpenCl!AllocateMemory(d, bytes)
               PROVE  \/ ~o.ok /\ o.dev = d
                      \/ ~o.ok /\ \E most \in MaxAlloc, n \in Nat :
                            /\ n \in 0 .. Len(sizes(most)) - 1
                            /\ o.dev = FreeBlock(filled(SubSeq(sizes(most), 1, n)))
                      \/ o.ok /\ \E most \in MaxAlloc :
                            Len(sizes(most)) <= Room(FreeBlock(d)) /\ o.dev = Swept(filled(sizes(most)))
    OBVIOUS
  <2>4. CASE o = OpenCl!Outcome(d, FALSE)
    BY <2>4 DEF OpenCl!Outcome
  <2>5. CASE \E most \in MaxAlloc : \E n \in 0 .. Len(Sizes(most)) - 1 :
                 o = OpenCl!Outcome(Begun(SubSeq(Sizes(most), 1, n)), FALSE)
    <3>1. PICK most \in MaxAlloc : \E n \in 0 .. Len(Sizes(most)) - 1 :
                 o = OpenCl!Outcome(Begun(SubSeq(Sizes(most), 1, n)), FALSE)
      BY <2>5
    <3>2. PICK n \in 0 .. Len(Sizes(most)) - 1 : o = OpenCl!Outcome(Begun(SubSeq(Sizes(most), 1, n)), FALSE)
      BY <3>1
    <3>3. ~o.ok /\ o.dev = FreeBlock(filled(SubSeq(sizes(most), 1, n)))
      BY <2>1, <2>2, <3>2 DEF OpenCl!Outcome
    <3>4. n \in Nat /\ n \in 0 .. Len(sizes(most)) - 1
      BY <2>1, <3>2
    <3> QED BY <3>3, <3>4
  <2>6. CASE \E most \in MaxAlloc : /\ Len(Sizes(most)) <= OpenCl!Room(OpenCl!ReleaseMemory(d))
                                      /\ o = OpenCl!Outcome(Whole(Sizes(most)), TRUE)
    <3>1. PICK most \in MaxAlloc : /\ Len(Sizes(most)) <= OpenCl!Room(OpenCl!ReleaseMemory(d))
                                   /\ o = OpenCl!Outcome(Whole(Sizes(most)), TRUE)
      BY <2>6
    <3>2. o.ok /\ o.dev = Swept(filled(sizes(most)))
      BY <2>1, <2>2, <3>1 DEF OpenCl!Outcome
    <3>3. Len(sizes(most)) <= Room(FreeBlock(d))
      BY <2>1, <1>10, <3>1
    <3> QED BY <3>2, <3>3
  <2> QED BY <2>3, <2>4, <2>5, <2>6
<1> SUFFICES ASSUME NEW o \in OpenCl!AllocateMemory(d, bytes)
             PROVE  Up(o.dev, OpenClObjects) /\ HasBlock(d, o.dev, IF o.ok THEN bytes ELSE 0)
  BY DEF StaysUp, Allocates
<1>6. CASE ~o.ok /\ o.dev = d
  BY <1>6, EmptyHas
<1>7. CASE ~o.ok /\ \E most \in MaxAlloc, n \in Nat : /\ n \in 0 .. Len(sizes(most)) - 1
                                                       /\ o.dev = FreeBlock(filled(SubSeq(sizes(most), 1, n)))
  BY <1>2, <1>4, <1>7
<1>8. CASE o.ok /\ \E most \in MaxAlloc :
                      Len(sizes(most)) <= Room(FreeBlock(d)) /\ o.dev = Swept(filled(sizes(most)))
  BY <1>1, <1>4, <1>8, <1>9
<1> QED BY <1>5, <1>6, <1>7, <1>8

LEMMA OpenClReleaseMemory ==
  ASSUME NEW d, Up(d, OpenClObjects), d.mem \in SUBSET (1 .. Capacity)
  PROVE  Up(OpenCl!ReleaseMemory(d), OpenClObjects) /\ HasBlock(d, OpenCl!ReleaseMemory(d), 0)
BY FreeUp, OpenClDriver DEF OpenCl!ReleaseMemory

LEMMA OpenClRunKernel ==
  ASSUME NEW d, Up(d, OpenClObjects), NEW loops \in Nat, NEW traffic \in Nat
  PROVE  LET os == OpenCl!RunKernel(d, loops, traffic) IN StaysUp(os, OpenClObjects) /\ KeepsBlock(d, os)
<1> DEFINE p == Plan(d, loops, traffic)
<1>1. Up(p.dev, OpenClObjects) /\ InBlock(p.dev, p.args) /\ SameBlock(d, p.dev) /\ SameBlock(d, d)
  BY PlanUp DEF SameBlock
<1>2. OpenCl!Plan(d, loops, traffic) = p
  BY OpenClDriver
<1> HIDE DEF p
<1>3. OpenCl!Launch(p.dev, {"context", "queue", "kernel", "scratch"}, p.args) = p.dev
  <2>1. {"context", "queue", "kernel", "scratch"} \subseteq p.dev.live
    BY <1>1 DEF Up, OpenClObjects
  <2>2. Launch(p.dev, {"context", "queue", "kernel", "scratch"}, p.args) = p.dev
    BY <1>1, <2>1, LaunchSound
  <2> QED BY <2>2, OpenClDriver
<1>4. \A o \in OpenCl!RunKernel(d, loops, traffic) : o.dev \in {d, p.dev}
  BY <1>2, <1>3 DEF OpenCl!RunKernel, OpenCl!Outcome
<1> QED BY <1>1, <1>4 DEF StaysUp, KeepsBlock

IntelObjects == {"context", "queue", "list", "module", "kernel", "scratch"}

LEMMA IntelDestroy ==
  ASSUME NEW d, Sound(d), d.handles \subseteq IntelObjects \cup {"function", "kfd"},
         d.handles \subseteq d.live \cup {"function", "kfd"},
         d.live \subseteq d.handles, d.live \subseteq IntelObjects, Astray(d) = {},
         "context" \in d.handles \/ NothingLeft(d)
  PROVE  Down(Intel!Destroy(d))
<1> DEFINE f == IF "context" \in d.handles THEN FreeBlock(d) ELSE d
           g == Give(f, {"scratch", "kernel", "module", "list", "queue", "context"})
<1>1. Sound(f) /\ f.live = d.live /\ f.handles = d.handles /\ f.chunks = <<>> /\ f.mem = {}
  BY FreeBlockSound, FreeBlockKeeps DEF SameObjects, NothingLeft, Bare
<1>2. Intel!Destroy(d) = g
  BY IntelDriver DEF Intel!Destroy, Intel!ReleaseMemory
<1> HIDE DEF f
<1>3. /\ Sound(g) /\ g.handles = d.handles \ IntelObjects /\ g.chunks = <<>>
      /\ g.live = d.live \ (IntelObjects \cap d.handles)
  BY <1>1, GiveSound DEF IntelObjects
<1>4. g.mem = {}
  BY <1>1, MakeKeeps
<1> HIDE DEF g
<1>5. g.live = {}
  BY <1>3
<1> QED BY <1>2, <1>3, <1>4, <1>5 DEF Down, NothingLeft, Bare

LEMMA IntelInit ==
  ASSUME NEW d, Fresh(d)
  PROVE  ComesUp(Intel!Init(d), IntelObjects) /\ \A o \in Intel!Init(d) : "kfd" \notin o.dev.live
<1> DEFINE made(n) == Make(d, Intel!Made(n))
<1>1. \A n \in 1 .. 8 : Intel!Made(n) \subseteq IntelObjects
  BY DEF Intel!Made, IntelObjects
<1>2. Intel!Made(8) = IntelObjects
  BY DEF Intel!Made, IntelObjects
<1>3. ASSUME NEW n \in 1 .. 8
      PROVE  Sound(made(n)) /\ Bare(made(n)) /\ made(n).live = Intel!Made(n) /\ made(n).handles = Intel!Made(n)
  BY MakeFresh
<1>4. ASSUME NEW n \in 1 .. 7 PROVE Down(Intel!Destroy(made(n)))
  <2> DEFINE e == made(n)
  <2>1. n \in 1 .. 8
    OBVIOUS
  <2>2. /\ Sound(e) /\ Bare(e) /\ e.live = Intel!Made(n) /\ e.handles = Intel!Made(n)
        /\ Intel!Made(n) \subseteq IntelObjects
    BY <2>1, <1>1, <1>3
  <2>3. "context" \in Intel!Made(n)
    BY DEF Intel!Made
  <2> HIDE DEF e
  <2>4. Astray(e) = {}
    BY <2>2 DEF Astray, Bare
  <2>5. Down(Intel!Destroy(e))
    BY <2>2, <2>3, <2>4, IntelDestroy
  <2> QED BY <2>5 DEF e
<1>5. Up(made(8), IntelObjects) /\ Bare(made(8)) /\ made(8).live = IntelObjects
  BY <1>2, <1>3 DEF Up
<1>6. Down(d)
  BY FreshIsDown
<1>7. \A n : Intel!Make(d, Intel!Made(n)) = made(n)
  BY IntelDriver
<1> HIDE DEF made
<1>8. \A o \in Intel!Init(d) :
         \/ ~o.ok /\ (o.dev = d \/ \E n \in 1 .. 7 : o.dev = Intel!Destroy(made(n)))
         \/ o.ok /\ o.dev = made(8)
  BY <1>7 DEF Intel!Init, Intel!Outcome
<1>9. \A e : Down(e) => e.live = {}
  BY DEF Down, NothingLeft
<1>10. \A o \in Intel!Init(d) : "kfd" \notin o.dev.live
  <2>1. "kfd" \notin IntelObjects
    BY DEF IntelObjects
  <2> QED BY <2>1, <1>4, <1>5, <1>6, <1>8, <1>9
<1> QED BY <1>4, <1>5, <1>6, <1>8, <1>10 DEF ComesUp

LEMMA IntelReleaseMemory ==
  ASSUME NEW d, Up(d, IntelObjects)
  PROVE  /\ Up(Intel!ReleaseMemory(d), IntelObjects) /\ Intel!ReleaseMemory(d) = FreeBlock(d)
         /\ d.mem \in SUBSET (1 .. Capacity) => HasBlock(d, Intel!ReleaseMemory(d), 0)
<1>1. "context" \in d.handles
  BY DEF Up, IntelObjects
<1>2. Intel!ReleaseMemory(d) = FreeBlock(d)
  BY <1>1, IntelDriver DEF Intel!ReleaseMemory
<1> QED BY <1>2, FreeUp

\* The list the fills are recorded in is gone again when they are committed.
LEMMA IntelCommit ==
  ASSUME NEW d, Up(d, IntelObjects)
  PROVE  \A e \in Intel!Commit(d) : Up(e, IntelObjects) /\ SameBlock(d, e)
<1> DEFINE m == Make(d, {"fill list"})
           g == Give(m, {"fill list"})
<1>1. Sound(d) /\ {"fill list"} \cap d.live = {} /\ "fill list" \notin d.handles
  BY DEF Up, IntelObjects
<1>2. /\ Sound(m) /\ m.chunks = d.chunks
      /\ m.live = d.live \cup {"fill list"} /\ m.handles = d.handles \cup {"fill list"}
  BY <1>1, MakeSound
<1>8. m.mem = d.mem
  BY <1>1, MakeKeeps
<1> HIDE DEF m
<1>6. {"fill list"} \cap m.handles = {"fill list"} /\ {"fill list"} \cap m.handles \subseteq m.live
  BY <1>2
<1>7. /\ Sound(g) /\ g.chunks = m.chunks
      /\ g.live = m.live \ ({"fill list"} \cap m.handles) /\ g.handles = m.handles \ {"fill list"}
  BY ZenonT(60), <1>2, <1>6, GiveSound
<1>9. g.mem = m.mem
  BY <1>2, MakeKeeps
<1> HIDE DEF g
<1>3. Sound(g) /\ g.chunks = m.chunks /\ g.live = d.live /\ g.handles = d.handles
  BY <1>1, <1>2, <1>6, <1>7
<1>4. Up(g, IntelObjects) /\ SameBlock(d, g) /\ SameBlock(d, d)
  BY <1>2, <1>3, <1>8, <1>9, SameUp DEF SameBlock
<1>5. Intel!Commit(d) = {d, g}
  <2>1. Intel!Make(d, {"fill list"}) = m
    BY IntelDriver DEF m
  <2>2. Intel!Give(m, {"fill list"}) = g
    BY IntelDriver DEF g
  <2> QED BY <2>1, <2>2 DEF Intel!Commit
<1> QED BY <1>2, <1>3, <1>4, <1>5

LEMMA IntelAllocateMemory ==
  ASSUME NEW d, Up(d, IntelObjects), Empty(d), NEW bytes \in Nat \ {0}
  PROVE  LET os == Intel!AllocateMemory(d, bytes) IN StaysUp(os, IntelObjects) /\ Allocates(d, os, bytes)
<1> DEFINE sizes(most) == ChunkSizes(bytes, IF most = 0 THEN bytes ELSE most)
           filled(some) == AddChunks(FreeBlock(d), some)
<1>1. \A most \in MaxAlloc : sizes(most) \in Seq(Nat)
  BY ChunkedSizes
<1>2. \A most \in MaxAlloc : \A n \in 0 .. Len(sizes(most)) - 1 : SubSeq(sizes(most), 1, n) \in Seq(Nat)
  BY <1>1, BegunSizes
<1>3. \A some \in Seq(Nat) :
         /\ Up(filled(some), IntelObjects)
         /\ Up(FreeBlock(filled(some)), IntelObjects) /\ HasBlock(d, FreeBlock(filled(some)), 0)
  BY BlockUp
<1>14. ASSUME NEW most \in MaxAlloc, Len(sizes(most)) <= Room(FreeBlock(d))
       PROVE  HasBlock(d, filled(sizes(most)), bytes)
  BY <1>14, MostIsSize, WholeUp
<1>4. \A some \in Seq(Nat) : Intel!ReleaseMemory(filled(some)) = FreeBlock(filled(some))
  <2> HIDE DEF filled
  <2> QED BY <1>3, IntelReleaseMemory
<1>5. ASSUME NEW some \in Seq(Nat), NEW e \in Intel!Commit(filled(some))
      PROVE  Up(Swept(e), IntelObjects) /\ \A n : HasBlock(d, filled(some), n) => HasBlock(d, Swept(e), n)
  <2> HIDE DEF filled
  <2>1. Up(e, IntelObjects) /\ SameBlock(filled(some), e)
    BY <1>3, IntelCommit
  <2>2. Sound(Swept(e)) /\ SameObjects(e, Swept(e)) /\ SameBlock(e, Swept(e))
    BY <2>1, SweptSound, SweptKeeps DEF Up
  <2>3. \A n : HasBlock(d, filled(some), n) => HasBlock(d, Swept(e), n)
    BY <2>1, <2>2, SameHas
  <2> QED BY <2>1, <2>2, <2>3, SameUp DEF SameObjects
<1>6. /\ \A most : Intel!ChunkSizes(bytes, IF most = 0 THEN bytes ELSE most) = sizes(most)
      /\ Intel!ReleaseMemory(d) = FreeBlock(d)
      /\ \A some : Intel!AddChunks(FreeBlock(d), some) = filled(some)
      /\ \A e : Intel!Swept(e) = Swept(e)
      /\ Intel!Room(Intel!ReleaseMemory(d)) = Room(FreeBlock(d))
  BY IntelDriver, IntelReleaseMemory
<1> HIDE DEF sizes, filled
<1> DEFINE Sizes(most) == Intel!ChunkSizes(bytes, IF most = 0 THEN bytes ELSE most)
           Filled(some) == Intel!AddChunks(Intel!ReleaseMemory(d), some)
           U == UNION {{Intel!Outcome(Intel!ReleaseMemory(Filled(some)), FALSE) :
                          some \in {SubSeq(Sizes(most), 1, n) : n \in 0 .. Len(Sizes(most)) - 1}} : most \in MaxAlloc}
           V == UNION {{Intel!Outcome(Intel!Swept(e), TRUE) : e \in Intel!Commit(Filled(Sizes(most)))} :
                          most \in {m \in MaxAlloc : Len(Sizes(m)) <= Intel!Room(Intel!ReleaseMemory(d))}}
<1>7. Intel!AllocateMemory(d, bytes) =
        IF "context" \notin d.handles THEN {Intel!Outcome(d, FALSE)} ELSE U \cup V
  BY DEF Intel!AllocateMemory
<1>8. \A most : Sizes(most) = sizes(most)
  BY <1>6
<1>9. \A some : Filled(some) = filled(some)
  BY <1>6
<1> HIDE DEF Sizes, Filled
<1>10. ASSUME NEW o \in U PROVE ~o.ok /\ Up(o.dev, IntelObjects) /\ HasBlock(d, o.dev, 0)
  <2>1. PICK most \in MaxAlloc :
           o \in {Intel!Outcome(Intel!ReleaseMemory(Filled(some)), FALSE) :
                    some \in {SubSeq(Sizes(most), 1, n) : n \in 0 .. Len(Sizes(most)) - 1}}
    BY <1>10
  <2>2. PICK n \in 0 .. Len(Sizes(most)) - 1 :
           o = Intel!Outcome(Intel!ReleaseMemory(Filled(SubSeq(Sizes(most), 1, n))), FALSE)
    BY <2>1
  <2> DEFINE some == SubSeq(sizes(most), 1, n)
  <2>3. some \in Seq(Nat)
    BY <1>2, <1>8, <2>2
  <2>4. ~o.ok /\ o.dev = Intel!ReleaseMemory(filled(some))
    BY <1>8, <1>9, <2>2 DEF Intel!Outcome
  <2> HIDE DEF some
  <2> QED BY <1>3, <1>4, <2>3, <2>4
<1>11. ASSUME NEW o \in V PROVE o.ok /\ Up(o.dev, IntelObjects) /\ HasBlock(d, o.dev, bytes)
  <2>1. PICK most \in {m \in MaxAlloc : Len(Sizes(m)) <= Intel!Room(Intel!ReleaseMemory(d))} :
           o \in {Intel!Outcome(Intel!Swept(e), TRUE) : e \in Intel!Commit(Filled(Sizes(most)))}
    BY <1>11
  <2>2. PICK e \in Intel!Commit(Filled(Sizes(most))) : o = Intel!Outcome(Intel!Swept(e), TRUE)
    BY <2>1
  <2>3. e \in Intel!Commit(filled(sizes(most))) /\ o.ok /\ o.dev = Swept(e)
    BY <1>6, <1>8, <1>9, <2>2 DEF Intel!Outcome
  <2>4. most \in MaxAlloc /\ sizes(most) \in Seq(Nat) /\ Len(sizes(most)) <= Room(FreeBlock(d))
    BY <1>1, <1>6, <1>8
  <2>5. HasBlock(d, filled(sizes(most)), bytes)
    BY <1>14, <2>4
  <2> QED BY <1>5, <2>3, <2>4, <2>5
<1> HIDE DEF U, V
<1>12. \A o \in Intel!AllocateMemory(d, bytes) : o = Intel!Outcome(d, FALSE) \/ o \in U \/ o \in V
  BY <1>7
<1>13. Intel!Outcome(d, FALSE).dev = d /\ ~Intel!Outcome(d, FALSE).ok /\ HasBlock(d, d, 0)
  BY EmptyHas DEF Intel!Outcome
<1> QED BY <1>10, <1>11, <1>12, <1>13 DEF StaysUp, Allocates

LEMMA IntelRunKernel ==
  ASSUME NEW d, Up(d, IntelObjects), NEW loops \in Nat, NEW traffic \in Nat
  PROVE  LET os == Intel!RunKernel(d, loops, traffic) IN StaysUp(os, IntelObjects) /\ KeepsBlock(d, os)
<1> DEFINE p == Plan(d, loops, traffic)
<1>1. Up(p.dev, IntelObjects) /\ InBlock(p.dev, p.args) /\ SameBlock(d, p.dev) /\ SameBlock(d, d)
  BY PlanUp DEF SameBlock
<1>2. Intel!Plan(d, loops, traffic) = p
  BY IntelDriver
<1> HIDE DEF p
<1>3. Intel!Launch(p.dev, {"context", "queue", "list", "module", "kernel", "scratch"}, p.args) = p.dev
  <2>1. {"context", "queue", "list", "module", "kernel", "scratch"} \subseteq p.dev.live
    BY <1>1 DEF Up, IntelObjects
  <2>2. Launch(p.dev, {"context", "queue", "list", "module", "kernel", "scratch"}, p.args) = p.dev
    BY <1>1, <2>1, LaunchSound
  <2> QED BY <2>2, IntelDriver
<1>4. \A o \in Intel!RunKernel(d, loops, traffic) : o.dev \in {d, p.dev}
  BY <1>2, <1>3 DEF Intel!RunKernel, Intel!Outcome
<1> QED BY <1>1, <1>4 DEF StaysUp, KeepsBlock

MetalObjects == {"device", "queue", "library", "pipeline", "scratch"}

LEMMA MetalDestroy ==
  ASSUME NEW d, Sound(d), d.handles \subseteq MetalObjects \cup {"function", "kfd"},
         d.handles \subseteq d.live \cup {"function", "kfd"},
         d.live \subseteq d.handles, d.live \subseteq MetalObjects, Astray(d) = {}
  PROVE  Down(Metal!Destroy(d))
<1> DEFINE f == FreeBlock(d)
           g == Give(f, MetalObjects)
<1>1. Sound(f) /\ f.live = d.live /\ f.handles = d.handles /\ f.chunks = <<>> /\ f.mem = {}
  BY FreeBlockSound, FreeBlockKeeps DEF SameObjects
<1>2. Metal!Destroy(d) = g
  <2>1. Metal!FreeBlock(d) = f
    BY MetalDriver
  <2> HIDE DEF f
  <2>2. Metal!Give(f, MetalObjects) = g
    BY MetalDriver
  <2> QED BY <2>1, <2>2 DEF Metal!Destroy, Metal!Retained, MetalObjects
<1> HIDE DEF f
<1>3. /\ Sound(g) /\ g.handles = d.handles \ MetalObjects /\ g.chunks = <<>>
      /\ g.live = d.live \ (MetalObjects \cap d.handles)
  BY <1>1, GiveSound DEF MetalObjects
<1>4. g.mem = {}
  BY <1>1, MakeKeeps
<1> HIDE DEF g
<1>5. g.live = {}
  BY <1>3
<1> QED BY <1>2, <1>3, <1>4, <1>5 DEF Down, NothingLeft, Bare

LEMMA MetalInit ==
  ASSUME NEW d, Fresh(d)
  PROVE  ComesUp(Metal!Init(d), MetalObjects) /\ \A o \in Metal!Init(d) : "kfd" \notin o.dev.live
<1> DEFINE m == Make(d, MetalObjects)
<1>1. Sound(m) /\ Bare(m) /\ m.live = MetalObjects /\ m.handles = MetalObjects
  BY MakeFresh
<1>2. Metal!Make(d, MetalObjects) = m
  BY MetalDriver
<1> HIDE DEF m
<1>3. Up(m, MetalObjects)
  BY <1>1 DEF Up
<1>4. Down(d)
  BY FreshIsDown
<1>5. \A o \in Metal!Init(d) : (~o.ok /\ o.dev = d) \/ (o.ok /\ o.dev = m)
  BY <1>2 DEF Metal!Init, Metal!Retained, MetalObjects, Metal!Outcome
<1>6. d.live = {} /\ "kfd" \notin m.live
  BY <1>1 DEF Fresh, NothingLeft, MetalObjects
<1> QED BY <1>1, <1>3, <1>4, <1>5, <1>6 DEF ComesUp

LEMMA MetalAllocateMemory ==
  ASSUME NEW d, Up(d, MetalObjects), Empty(d), NEW bytes \in Nat \ {0}
  PROVE  LET os == Metal!AllocateMemory(d, bytes) IN StaysUp(os, MetalObjects) /\ Allocates(d, os, bytes)
<1> DEFINE empty == FreeBlock(d)
           whole == Swept(AddChunks(empty, <<bytes>>))
<1>1. Up(empty, MetalObjects) /\ HasBlock(d, empty, 0) /\ HasBlock(d, d, 0)
  BY FreeUp, EmptyHas DEF Empty
<1>2. Up(whole, MetalObjects) /\ (Room(empty) > 0 => HasBlock(d, whole, bytes))
  <2>1. <<bytes>> \in Seq(Nat)
    OBVIOUS
  <2> QED BY <2>1, BlockUp, WholeChunkUp
<1>3. Metal!FreeBlock(d) = empty /\ Metal!Swept(Metal!AddChunks(empty, <<bytes>>)) = whole
  BY MetalDriver
<1> HIDE DEF empty, whole
<1>4. Metal!Room(empty) = Room(empty)
  BY MetalDriver
<1>5. \A o \in Metal!AllocateMemory(d, bytes) :
         \/ ~o.ok /\ o.dev \in {d, empty}
         \/ o.ok /\ Room(empty) > 0 /\ o.dev = whole
  BY <1>3, <1>4 DEF Metal!AllocateMemory, Metal!Outcome
<1> QED BY <1>1, <1>2, <1>5 DEF StaysUp, Allocates

LEMMA MetalReleaseMemory ==
  ASSUME NEW d, Up(d, MetalObjects), d.mem \in SUBSET (1 .. Capacity)
  PROVE  Up(Metal!ReleaseMemory(d), MetalObjects) /\ HasBlock(d, Metal!ReleaseMemory(d), 0)
BY FreeUp, MetalDriver DEF Metal!ReleaseMemory

LEMMA MetalRunKernel ==
  ASSUME NEW d, Up(d, MetalObjects), NEW loops \in Nat, NEW traffic \in Nat
  PROVE  LET os == Metal!RunKernel(d, loops, traffic) IN StaysUp(os, MetalObjects) /\ KeepsBlock(d, os)
<1> DEFINE p == Plan(d, loops, traffic)
<1>1. Up(p.dev, MetalObjects) /\ InBlock(p.dev, p.args) /\ SameBlock(d, p.dev) /\ SameBlock(d, d)
  BY PlanUp DEF SameBlock
<1>2. Metal!Plan(d, loops, traffic) = p
  BY MetalDriver
<1> HIDE DEF p
<1>3. Metal!Launch(p.dev, {"queue", "pipeline", "scratch"}, p.args) = p.dev
  <2>1. {"queue", "pipeline", "scratch"} \subseteq p.dev.live
    BY <1>1 DEF Up, MetalObjects
  <2>2. Launch(p.dev, {"queue", "pipeline", "scratch"}, p.args) = p.dev
    BY <1>1, <2>1, LaunchSound
  <2> QED BY <2>2, MetalDriver
<1>4. \A o \in Metal!RunKernel(d, loops, traffic) : o.dev \in {d, p.dev}
  BY <1>2, <1>3 DEF Metal!RunKernel, Metal!Outcome
<1> QED BY <1>1, <1>4 DEF StaysUp, KeepsBlock

-----------------------------------------------------------------------------
(***************************************************************************)
(* The life of a device.                                                   *)
(***************************************************************************)

\* The objects that a device of this manager has while it is up.
ObjectsOf(m) ==
  CASE m \in {"nvidia", "amd"} -> CudaObjects
    [] m = "apple"             -> MetalObjects
    [] m = "intel"             -> IntelObjects
    [] m = "opencl"            -> OpenClObjects

\* Backends that never look at the amdkfd driver.
NeverQueues == manager \in {"apple", "intel"}

\* In which part of its life a device has what.
LifeInv ==
  /\ life \in {"unmade", "made", "up", "steady", "unusable", "gone"}
  /\ life # "unmade" => manager \in Vendors
  /\ block \in {0, BlockBytes}
  /\ life \in {"unmade", "made"} => Fresh(dev)
  /\ life \in {"up", "steady"} => Up(dev, ObjectsOf(manager))
  /\ life \in {"unusable", "gone"} => Down(dev)
  /\ NeverQueues => "kfd" \notin dev.live

\* What memory exists for the block.
MemoryInv ==
  /\ dev.mem \in SUBSET (1 .. Capacity)
  /\ held \in BOOLEAN
  /\ life # "steady" => Bare(dev) /\ ~held
  /\ IF held THEN block # 0 /\ Bytes(dev.chunks) = block ELSE dev.chunks = <<>>
  /\ ~ContextBound => Astray(dev) = {}

DeviceInv == LifeInv /\ MemoryInv

LEMMA FirstIsFresh == Fresh(NewDevice)
BY NewIsSound DEF Fresh, NothingLeft, Bare, NewDevice

LEMMA BareMemory ==
  ASSUME NEW d, Bare(d)
  PROVE  Empty(d) /\ Astray(d) = {}
BY DEF Bare, Empty, Astray

LEMMA InitComesUp ==
  ASSUME manager \in Vendors, NEW d, Fresh(d)
  PROVE  /\ ComesUp(InitOutcomes(d), ObjectsOf(manager))
         /\ NeverQueues => \A o \in InitOutcomes(d) : "kfd" \notin o.dev.live
<1>1. "main" \in Threads
  BY DEF Threads
<1>2. CASE manager = "nvidia"
  BY <1>1, <1>2, NvidiaInit DEF InitOutcomes, ObjectsOf, NeverQueues
<1>3. CASE manager = "amd"
  BY <1>1, <1>3, AmdInit DEF InitOutcomes, ObjectsOf, NeverQueues
<1>4. CASE manager = "apple"
  BY <1>4, MetalInit DEF InitOutcomes, ObjectsOf
<1>5. CASE manager = "intel"
  BY <1>5, IntelInit DEF InitOutcomes, ObjectsOf
<1>6. CASE manager = "opencl"
  BY <1>6, OpenClInit DEF InitOutcomes, ObjectsOf, NeverQueues
<1> QED BY <1>2, <1>3, <1>4, <1>5, <1>6 DEF Vendors

LEMMA RunStaysUp ==
  ASSUME manager \in Vendors, NEW d, Up(d, ObjectsOf(manager)), NEW t \in Threads,
         NEW loops \in Nat, NEW traffic \in Nat
  PROVE  /\ StaysUp(RunOutcomes(d, t, loops, traffic), ObjectsOf(manager))
         /\ KeepsBlock(d, RunOutcomes(d, t, loops, traffic))
<1>1. CASE manager = "nvidia"
  BY <1>1, NvidiaRunKernel DEF RunOutcomes, ObjectsOf
<1>2. CASE manager = "amd"
  <2>1. Amd!RunKernel(d, t, loops, traffic) = Nvidia!RunKernel(d, t, loops, traffic)
    BY AmdIsCuda DEF Amd!RunKernel
  <2> QED BY <1>2, <2>1, NvidiaRunKernel DEF RunOutcomes, ObjectsOf
<1>3. CASE manager = "apple"
  BY <1>3, MetalRunKernel DEF RunOutcomes, ObjectsOf
<1>4. CASE manager = "intel"
  BY <1>4, IntelRunKernel DEF RunOutcomes, ObjectsOf
<1>5. CASE manager = "opencl"
  BY <1>5, OpenClRunKernel DEF RunOutcomes, ObjectsOf
<1> QED BY <1>1, <1>2, <1>3, <1>4, <1>5 DEF Vendors

LEMMA AllocateStaysUp ==
  ASSUME manager \in Vendors, NEW d, Up(d, ObjectsOf(manager)), Empty(d), NEW t \in Threads,
         block \in Nat \ {0}
  PROVE  /\ StaysUp(AllocateOutcomes(d, t), ObjectsOf(manager))
         /\ Allocates(d, AllocateOutcomes(d, t), block)
<1>1. CASE manager = "nvidia"
  BY <1>1, NvidiaAllocateMemory DEF AllocateOutcomes, ObjectsOf
<1>2. CASE manager = "amd"
  <2>1. Amd!AllocateMemory(d, t, block) = Nvidia!AllocateMemory(d, t, block)
    BY AmdIsCuda DEF Amd!AllocateMemory
  <2> QED BY <1>2, <2>1, NvidiaAllocateMemory DEF AllocateOutcomes, ObjectsOf
<1>3. CASE manager = "apple"
  BY <1>3, MetalAllocateMemory DEF AllocateOutcomes, ObjectsOf
<1>4. CASE manager = "intel"
  BY <1>4, IntelAllocateMemory DEF AllocateOutcomes, ObjectsOf
<1>5. CASE manager = "opencl"
  BY <1>5, OpenClAllocateMemory DEF AllocateOutcomes, ObjectsOf
<1> QED BY <1>1, <1>2, <1>3, <1>4, <1>5 DEF Vendors

\* What an allocation returns is a truth value.
LEMMA AllocateSays ==
  ASSUME manager \in Vendors, NEW d, NEW t
  PROVE  \A o \in AllocateOutcomes(d, t) : o.ok \in BOOLEAN
<1>1. \A e : /\ Nvidia!Outcome(e, TRUE).ok \in BOOLEAN /\ Nvidia!Outcome(e, FALSE).ok \in BOOLEAN
             /\ OpenCl!Outcome(e, TRUE).ok \in BOOLEAN /\ OpenCl!Outcome(e, FALSE).ok \in BOOLEAN
             /\ Intel!Outcome(e, TRUE).ok \in BOOLEAN /\ Intel!Outcome(e, FALSE).ok \in BOOLEAN
             /\ Metal!Outcome(e, TRUE).ok \in BOOLEAN /\ Metal!Outcome(e, FALSE).ok \in BOOLEAN
  BY DEF Nvidia!Outcome, OpenCl!Outcome, Intel!Outcome, Metal!Outcome
<1>2. \A o \in Nvidia!AllocateMemory(d, t, block) : o.ok \in BOOLEAN
  BY <1>1 DEF Nvidia!AllocateMemory, Nvidia!MakeCurrent, Nvidia!NewBlock
<1>3. \A o \in OpenCl!AllocateMemory(d, block) : o.ok \in BOOLEAN
  <2> DEFINE empty       == OpenCl!ReleaseMemory(d)
             Sizes(most) == OpenCl!ChunkSizes(block, IF most = 0 THEN block ELSE most)
             Begun(most) == {SubSeq(Sizes(most), 1, n) : n \in 0 .. Len(Sizes(most)) - 1}
             U == UNION {{OpenCl!Outcome(OpenCl!ReleaseMemory(OpenCl!AddChunks(empty, some)), FALSE) : some \in Begun(most)}
                           : most \in MaxAlloc}
             V == {OpenCl!Outcome(OpenCl!Swept(OpenCl!AddChunks(empty, Sizes(most))), TRUE) :
                     most \in {m \in MaxAlloc : Len(Sizes(m)) <= OpenCl!Room(empty)}}
  <2>1. OpenCl!AllocateMemory(d, block) =
          IF ~({"context", "queue"} \subseteq d.handles) THEN {OpenCl!Outcome(d, FALSE)} ELSE U \cup V
    BY DEF OpenCl!AllocateMemory
  <2> HIDE DEF empty, Sizes, Begun
  <2>2. \A o \in V : o.ok \in BOOLEAN
    BY <1>1
  <2>3. ASSUME NEW o \in U PROVE o.ok \in BOOLEAN
    <3>1. PICK most \in MaxAlloc :
             o \in {OpenCl!Outcome(OpenCl!ReleaseMemory(OpenCl!AddChunks(empty, some)), FALSE) : some \in Begun(most)}
      BY <2>3
    <3> QED BY <1>1, <3>1
  <2> HIDE DEF U, V
  <2> QED BY <1>1, <2>1, <2>2, <2>3
<1>4. \A o \in Intel!AllocateMemory(d, block) : o.ok \in BOOLEAN
  <2> DEFINE empty       == Intel!ReleaseMemory(d)
             Sizes(most) == Intel!ChunkSizes(block, IF most = 0 THEN block ELSE most)
             Begun(most) == {SubSeq(Sizes(most), 1, n) : n \in 0 .. Len(Sizes(most)) - 1}
             U == UNION {{Intel!Outcome(Intel!ReleaseMemory(Intel!AddChunks(empty, some)), FALSE) : some \in Begun(most)}
                           : most \in MaxAlloc}
             V == UNION {{Intel!Outcome(Intel!Swept(filled), TRUE) : filled \in Intel!Commit(Intel!AddChunks(empty, Sizes(most)))}
                           : most \in {m \in MaxAlloc : Len(Sizes(m)) <= Intel!Room(empty)}}
  <2>1. Intel!AllocateMemory(d, block) =
          IF "context" \notin d.handles THEN {Intel!Outcome(d, FALSE)} ELSE U \cup V
    BY DEF Intel!AllocateMemory
  <2> HIDE DEF empty, Sizes, Begun
  <2>2. ASSUME NEW o \in U PROVE o.ok \in BOOLEAN
    <3>1. PICK most \in MaxAlloc :
             o \in {Intel!Outcome(Intel!ReleaseMemory(Intel!AddChunks(empty, some)), FALSE) : some \in Begun(most)}
      BY <2>2
    <3> QED BY <1>1, <3>1
  <2>3. ASSUME NEW o \in V PROVE o.ok \in BOOLEAN
    <3>1. PICK most \in {m \in MaxAlloc : Len(Sizes(m)) <= Intel!Room(empty)} :
             o \in {Intel!Outcome(Intel!Swept(filled), TRUE) : filled \in Intel!Commit(Intel!AddChunks(empty, Sizes(most)))}
      BY <2>3
    <3> QED BY <1>1, <3>1
  <2> HIDE DEF U, V
  <2> QED BY <1>1, <2>1, <2>2, <2>3
<1>5. \A o \in Metal!AllocateMemory(d, block) : o.ok \in BOOLEAN
  BY <1>1 DEF Metal!AllocateMemory
<1>6. manager = "amd" => AllocateOutcomes(d, t) = Nvidia!AllocateMemory(d, t, block)
  BY AmdIsCuda DEF AllocateOutcomes, Amd!AllocateMemory
<1> QED BY <1>2, <1>3, <1>4, <1>5, <1>6 DEF Vendors, AllocateOutcomes

LEMMA ReleaseStaysUp ==
  ASSUME manager \in Vendors, NEW d, Up(d, ObjectsOf(manager)), d.mem \in SUBSET (1 .. Capacity),
         NEW t \in Threads
  PROVE  /\ StaysUp(ReleaseOutcomes(d, t), ObjectsOf(manager))
         /\ Releases(d, ReleaseOutcomes(d, t))
         /\ ~ContextBound => \A o \in ReleaseOutcomes(d, t) : HasBlock(d, o.dev, 0)
<1>1. CASE manager = "nvidia"
  BY <1>1, NvidiaReleaseMemory DEF ReleaseOutcomes, ObjectsOf, ContextBound
<1>2. CASE manager = "amd"
  <2>1. Amd!ReleaseMemory(d, t) = Nvidia!ReleaseMemory(d, t)
    BY AmdIsCuda DEF Amd!ReleaseMemory
  <2> QED BY <1>2, <2>1, NvidiaReleaseMemory DEF ReleaseOutcomes, ObjectsOf, ContextBound
<1>3. CASE manager = "apple"
  BY <1>3, MetalReleaseMemory DEF ReleaseOutcomes, ObjectsOf, StaysUp, Releases, Outcome
<1>4. CASE manager = "intel"
  BY <1>4, IntelReleaseMemory DEF ReleaseOutcomes, ObjectsOf, StaysUp, Releases, Outcome
<1>5. CASE manager = "opencl"
  BY <1>5, OpenClReleaseMemory DEF ReleaseOutcomes, ObjectsOf, StaysUp, Releases, Outcome
<1> QED BY <1>1, <1>2, <1>3, <1>4, <1>5 DEF Vendors

LEMMA DestroyedIsDown ==
  ASSUME manager \in Vendors, NEW d, Fresh(d) \/ Down(d) \/ Up(d, ObjectsOf(manager)),
         ~ContextBound => Astray(d) = {}, NeverQueues => "kfd" \notin d.live
  PROVE  Down(Destroyed(d))
<1>1. Sound(d)
  BY DEF Fresh, Down, Up
<1>2. d.handles \subseteq ObjectsOf(manager) \cup {"function", "kfd"}
  BY DEF Fresh, Down, Up
<1>3. d.handles \subseteq d.live \cup {"function", "kfd"}
  BY DEF Fresh, Down, Up
<1>4. "main" \in Threads
  BY DEF Threads
<1>5. d.live \subseteq ObjectsOf(manager) \cup {"kfd"} /\ d.live \cap ObjectsOf(manager) \subseteq d.handles
  BY DEF Fresh, Down, Up, NothingLeft
<1>6. "context" \in ObjectsOf(manager) => "context" \in d.handles \/ NothingLeft(d)
  BY DEF Fresh, Down, Up
<1>7. CASE manager = "nvidia"
  <2>1. d.handles \subseteq CudaObjects \cup {"kfd"} /\ "context" \in ObjectsOf(manager)
    BY <1>2, <1>7 DEF ObjectsOf, CudaObjects
  <2> QED BY <1>1, <1>3, <1>4, <1>6, <1>7, <2>1, CudaDestroy DEF Destroyed
<1>8. CASE manager = "amd"
  <2>1. d.handles \subseteq CudaObjects \cup {"kfd"} /\ "context" \in ObjectsOf(manager)
    BY <1>2, <1>8 DEF ObjectsOf, CudaObjects
  <2>2. Amd!Destroy(d, "main") = Nvidia!Destroy(d, "main")
    BY AmdIsCuda DEF Amd!Destroy
  <2> QED BY <1>1, <1>3, <1>4, <1>6, <1>8, <2>1, <2>2, CudaDestroy DEF Destroyed
<1>9. CASE manager = "apple"
  <2>1. ObjectsOf(manager) = MetalObjects /\ Astray(d) = {} /\ "kfd" \notin d.live
    BY <1>9 DEF ObjectsOf, ContextBound, NeverQueues
  <2>2. d.live \subseteq MetalObjects /\ d.live \subseteq d.handles
    BY <1>5, <2>1
  <2> QED BY <1>1, <1>2, <1>3, <1>9, <2>1, <2>2, MetalDestroy DEF Destroyed
<1>10. CASE manager = "intel"
  <2>1. ObjectsOf(manager) = IntelObjects /\ Astray(d) = {} /\ "kfd" \notin d.live
    BY <1>10 DEF ObjectsOf, ContextBound, NeverQueues
  <2>2. d.live \subseteq IntelObjects /\ d.live \subseteq d.handles /\ "context" \in IntelObjects
    BY <1>5, <2>1 DEF IntelObjects
  <2> QED BY <1>1, <1>2, <1>3, <1>6, <1>10, <2>1, <2>2, IntelDestroy DEF Destroyed
<1>11. CASE manager = "opencl"
  <2>1. ObjectsOf(manager) = OpenClObjects /\ Astray(d) = {}
    BY <1>11 DEF ObjectsOf, ContextBound
  <2> QED BY <1>1, <1>2, <1>3, <1>5, <1>11, <2>1, OpenClDestroy DEF Destroyed
<1> QED BY <1>7, <1>8, <1>9, <1>10, <1>11 DEF Vendors

\* Another context made current takes nothing from the device.
LEMMA OtherCurrent ==
  ASSUME NEW d, NEW c
  PROVE  LET e == [d EXCEPT !.current["main"] = c]
         IN  /\ Fresh(d) => Fresh(e)
             /\ Down(d) => Down(e)
             /\ \A objects : Up(d, objects) => Up(e, objects)
             /\ Sound(d) => SameBlock(d, e)
<1> DEFINE e == [d EXCEPT !.current["main"] = c]
<1>1. "main" \in Threads
  BY DEF Threads
<1>2. Sound(d) => Sound(e) /\ e.live = d.live /\ e.handles = d.handles /\ e.chunks = d.chunks /\ e.sweep = d.sweep
  BY <1>1, CurrentSound
<1>3. Sound(d) => e.mem = d.mem
  BY DEF Sound, Fields
<1> HIDE DEF e
<1>4. /\ Fresh(d) => Fresh(e)
      /\ Down(d) => Down(e)
      /\ \A objects : Up(d, objects) => Up(e, objects)
      /\ Sound(d) => SameBlock(d, e)
  BY <1>2, <1>3 DEF Fresh, Down, Up, NothingLeft, Bare, SameBlock
<1> QED BY <1>4 DEF e

-----------------------------------------------------------------------------
(***************************************************************************)
(* The steps, one by one: what each does to the device, besides keeping    *)
(* the invariant.                                                          *)
(***************************************************************************)

\* A call that leaves the block alone keeps what is known of the memory.
LEMMA SameMemory ==
  ASSUME MemoryInv, SameBlock(dev, dev'), life' = life, held' = held, block' = block, manager' = manager
  PROVE  MemoryInv'
<1>1. Astray(dev') = Astray(dev)
  BY DEF Astray, ChunkIds, SameBlock
<1>2. Bare(dev) => Bare(dev')
  BY DEF Bare, SameBlock
<1> QED BY <1>1, <1>2 DEF MemoryInv, SameBlock, ContextBound

LEMMA StateIsSound ==
  ASSUME DeviceInv
  PROVE  /\ Sound(dev)
         /\ life # "steady" => Astray(dev) = {} /\ ~held
         /\ life \in {"unmade", "made", "unusable", "gone"} => dev.live = {}
         /\ life \in {"up", "steady"} => dev.live # {}
<1>1. Sound(dev)
  BY DEF DeviceInv, LifeInv, Fresh, Up, Down
<1>2. life # "steady" => Astray(dev) = {} /\ ~held
  BY BareMemory DEF DeviceInv, MemoryInv
<1>3. life \in {"unmade", "made", "unusable", "gone"} => dev.live = {}
  BY DEF DeviceInv, LifeInv, Fresh, Down, NothingLeft
<1>4. life \in {"up", "steady"} => dev.live # {}
  <2> SUFFICES ASSUME life \in {"up", "steady"} PROVE dev.live # {}
    OBVIOUS
  <2>1. Up(dev, ObjectsOf(manager)) /\ manager \in Vendors
    BY DEF DeviceInv, LifeInv
  <2>2. "scratch" \in ObjectsOf(manager)
    BY <2>1 DEF Vendors, ObjectsOf, CudaObjects, MetalObjects, IntelObjects, OpenClObjects
  <2> QED BY <2>1, <2>2 DEF Up
<1> QED BY <1>1, <1>2, <1>3, <1>4

LEMMA BeforeStep ==
  ASSUME DeviceInv, ReadOptions \/ CreateManager \/ MakeDevice
  PROVE  DeviceInv' /\ dev' = dev /\ held' = held
<1>1. CASE ReadOptions
  BY <1>1 DEF ReadOptions, factoryVars, deviceVars, DeviceInv, LifeInv, MemoryInv, NeverQueues, ContextBound
<1>2. CASE CreateManager
  <2>1. life = "unmade" /\ UNCHANGED deviceVars
    BY <1>2 DEF CreateManager
  <2>2. Astray(dev) = {} /\ dev.live = {}
    BY <2>1, StateIsSound
  <2> QED BY <2>1, <2>2 DEF deviceVars, DeviceInv, LifeInv, MemoryInv
<1>3. CASE MakeDevice
  <2>1. life = "unmade" /\ life' = "made" /\ UNCHANGED <<dev, held, manager>> /\ manager \in Vendors
    BY <1>3 DEF MakeDevice
  <2>2. block' \in {0, BlockBytes} /\ ~held
    BY <1>3, <2>1, StateIsSound DEF MakeDevice
  <2> QED BY <2>1, <2>2 DEF DeviceInv, LifeInv, MemoryInv, NeverQueues, ContextBound
<1> QED BY <1>1, <1>2, <1>3

LEMMA InitStep ==
  ASSUME DeviceInv, InitDevice
  PROVE  DeviceInv' /\ Astray(dev') = {}
<1>1. PICK o \in InitOutcomes(dev) : dev' = o.dev /\ life' = IF o.ok THEN "up" ELSE "unusable"
  BY DEF InitDevice
<1>2. /\ life = "made" /\ manager \in Vendors /\ Fresh(dev) /\ ~held
      /\ manager' = manager /\ block' = block /\ held' = held
  BY StateIsSound DEF InitDevice, UseDevice, factoryVars, DeviceInv, LifeInv
<1>3. /\ IF o.ok THEN Up(o.dev, ObjectsOf(manager)) /\ Bare(o.dev) ELSE Down(o.dev)
      /\ NeverQueues => "kfd" \notin o.dev.live
  BY <1>1, <1>2, InitComesUp DEF ComesUp
<1>4. Bare(o.dev)
  BY <1>3 DEF Down, NothingLeft
<1>5. Empty(dev') /\ Astray(dev') = {}
  BY <1>1, <1>4, BareMemory
<1>6. LifeInv'
  BY <1>1, <1>2, <1>3 DEF DeviceInv, LifeInv, NeverQueues
<1>7. MemoryInv'
  BY <1>1, <1>2, <1>4, <1>5 DEF DeviceInv, MemoryInv, Empty
<1> QED BY <1>5, <1>6, <1>7 DEF DeviceInv

LEMMA OtherStep ==
  ASSUME DeviceInv, OtherDevice
  PROVE  DeviceInv' /\ SameBlock(dev, dev')
<1> DEFINE e == [dev EXCEPT !.current["main"] = "other"]
<1>1. /\ Fresh(dev) => Fresh(e)
      /\ Down(dev) => Down(e)
      /\ \A objects : Up(dev, objects) => Up(e, objects)
      /\ SameBlock(dev, e)
  BY OtherCurrent, StateIsSound
<1>2. dev' = e /\ life' = life /\ manager' = manager /\ block' = block /\ held' = held
  BY DEF OtherDevice, UseDevice, factoryVars
<1> HIDE DEF e
<1>3. LifeInv'
  BY <1>1, <1>2 DEF DeviceInv, LifeInv, NeverQueues, SameBlock
<1>4. MemoryInv'
  BY <1>1, <1>2, SameMemory DEF DeviceInv
<1> QED BY <1>1, <1>2, <1>3, <1>4 DEF DeviceInv

LEMMA StartStep ==
  ASSUME DeviceInv, StartWorker
  PROVE  DeviceInv' /\ dev' = dev
BY DEF StartWorker, UseDevice, factoryVars, DeviceInv, LifeInv, MemoryInv, NeverQueues, ContextBound

\* A launch, of whichever thread.
LEMMA LaunchStep ==
  ASSUME DeviceInv, life \in {"up", "steady"}, UseDevice, UNCHANGED <<life, held>>,
         NEW t \in Threads, NEW loops \in Nat, NEW traffic \in Nat,
         \E o \in RunOutcomes(dev, t, loops, traffic) : dev' = o.dev
  PROVE  DeviceInv' /\ SameBlock(dev, dev')
<1>1. PICK o \in RunOutcomes(dev, t, loops, traffic) : dev' = o.dev
  OBVIOUS
<1>2. /\ manager \in Vendors /\ Up(dev, ObjectsOf(manager))
      /\ manager' = manager /\ block' = block /\ life' = life /\ held' = held
  BY DEF UseDevice, factoryVars, DeviceInv, LifeInv
<1>3. Up(o.dev, ObjectsOf(manager)) /\ SameBlock(dev, o.dev)
  BY <1>2, RunStaysUp DEF StaysUp, KeepsBlock
<1>4. LifeInv'
  BY <1>1, <1>2, <1>3 DEF DeviceInv, LifeInv, NeverQueues, SameBlock
<1>5. MemoryInv'
  BY <1>1, <1>2, <1>3, SameMemory DEF DeviceInv
<1> QED BY <1>1, <1>3, <1>4, <1>5 DEF DeviceInv

LEMMA CalibrateStep ==
  ASSUME DeviceInv, NEW loops \in Loops, Calibrate(loops)
  PROVE  DeviceInv' /\ SameBlock(dev, dev')
<1> DEFINE t == IF life = "up" THEN "main" ELSE "worker"
<1>1. t \in Threads /\ loops \in Nat /\ 0 \in Nat
  BY DevicesAssumption DEF Threads
<1>2. \E o \in RunOutcomes(dev, t, loops, 0) : dev' = o.dev
  BY DEF Calibrate
<1> HIDE DEF t
<1>3. life \in {"up", "steady"} /\ UseDevice /\ UNCHANGED <<life, held>>
  BY DEF Calibrate
<1> QED BY <1>1, <1>2, <1>3, LaunchStep

LEMMA RunStep ==
  ASSUME DeviceInv, NEW loops \in Loops, NEW traffic \in Traffics, RunKernel(loops, traffic)
  PROVE  DeviceInv' /\ SameBlock(dev, dev')
<1>1. "worker" \in Threads /\ loops \in Nat /\ traffic \in Nat
  BY DevicesAssumption DEF Threads
<1>2. /\ life = "steady" /\ UseDevice /\ UNCHANGED <<life, held>>
      /\ \E o \in RunOutcomes(dev, "worker", loops, traffic) : dev' = o.dev
  BY DEF RunKernel
<1> QED BY <1>1, <1>2, LaunchStep

LEMMA AllocateStep ==
  ASSUME DeviceInv, AllocateMemory
  PROVE  DeviceInv' /\ Astray(dev') = Astray(dev)
<1>1. PICK o \in AllocateOutcomes(dev, "worker") : dev' = o.dev /\ held' = o.ok
  BY DEF AllocateMemory
<1>2. /\ life = "steady" /\ manager \in Vendors /\ Up(dev, ObjectsOf(manager)) /\ Empty(dev)
      /\ manager' = manager /\ block' = block /\ life' = life
  BY DEF AllocateMemory, UseDevice, factoryVars, DeviceInv, LifeInv, MemoryInv, Empty
<1>3. "worker" \in Threads /\ block \in Nat \ {0}
  BY DevicesAssumption DEF Threads, AllocateMemory, DeviceInv, LifeInv
<1>4. Up(o.dev, ObjectsOf(manager)) /\ HasBlock(dev, o.dev, IF o.ok THEN block ELSE 0)
  BY <1>2, <1>3, AllocateStaysUp DEF StaysUp, Allocates
<1>5. Up(dev', ObjectsOf(manager)) /\ HasBlock(dev, dev', IF held' THEN block ELSE 0)
  BY <1>1, <1>4
<1>6. LifeInv'
  BY <1>2, <1>5 DEF DeviceInv, LifeInv, NeverQueues, HasBlock
<1>7. held' \in BOOLEAN
  BY <1>1, <1>2, AllocateSays
<1>8. MemoryInv'
  BY <1>2, <1>3, <1>5, <1>7 DEF DeviceInv, MemoryInv, HasBlock, ContextBound
<1> QED BY <1>5, <1>6, <1>8 DEF DeviceInv, HasBlock

LEMMA ReleaseStep ==
  ASSUME DeviceInv, ReleaseMemory
  PROVE  /\ DeviceInv'
         /\ Astray(dev') = Astray(dev) \/ (ContextBound /\ dev' = DropFields(dev))
<1>1. PICK o \in ReleaseOutcomes(dev, "worker") : dev' = o.dev
  BY DEF ReleaseMemory
<1>2. /\ life = "steady" /\ manager \in Vendors /\ Up(dev, ObjectsOf(manager)) /\ ~held'
      /\ dev.mem \in SUBSET (1 .. Capacity) /\ held' \in BOOLEAN
      /\ manager' = manager /\ block' = block /\ life' = life
  BY DEF ReleaseMemory, UseDevice, factoryVars, DeviceInv, LifeInv, MemoryInv
<1>3. "worker" \in Threads
  BY DEF Threads
<1>4. /\ Up(dev', ObjectsOf(manager))
      /\ HasBlock(dev, dev', 0) \/ (ContextBound /\ dev' = DropFields(dev))
  <2>1. /\ StaysUp(ReleaseOutcomes(dev, "worker"), ObjectsOf(manager))
        /\ Releases(dev, ReleaseOutcomes(dev, "worker"))
        /\ ~ContextBound => \A r \in ReleaseOutcomes(dev, "worker") : HasBlock(dev, r.dev, 0)
    BY <1>2, <1>3, ReleaseStaysUp
  <2> QED BY <1>1, <2>1 DEF StaysUp, Releases
<1>5. dev' = DropFields(dev) => dev'.live = dev.live /\ dev'.mem = dev.mem /\ dev'.chunks = <<>>
  BY StateIsSound DEF DropFields, Sound, Fields
<1>6. /\ dev'.live = dev.live /\ dev'.mem \in SUBSET (1 .. Capacity) /\ dev'.chunks = <<>>
      /\ ~ContextBound => Astray(dev') = Astray(dev)
  BY <1>2, <1>4, <1>5 DEF HasBlock
<1>7. LifeInv'
  BY <1>2, <1>4, <1>6 DEF DeviceInv, LifeInv, NeverQueues
<1>8. MemoryInv'
  BY <1>2, <1>6 DEF DeviceInv, MemoryInv, ContextBound
<1> QED BY <1>4, <1>7, <1>8 DEF DeviceInv, HasBlock

LEMMA DestroyStep ==
  ASSUME DeviceInv, DestroyDevice
  PROVE  DeviceInv'
<1>1. /\ manager \in Vendors /\ dev' = Destroyed(dev) /\ life' = "gone" /\ held' = FALSE
      /\ manager' = manager /\ block' = block
  BY DEF DestroyDevice, UseDevice, factoryVars, DeviceInv, LifeInv
<1>2. Fresh(dev) \/ Down(dev) \/ Up(dev, ObjectsOf(manager))
  BY DEF DestroyDevice, DeviceInv, LifeInv
<1>3. Down(dev')
  BY <1>1, <1>2, DestroyedIsDown DEF DeviceInv, LifeInv, MemoryInv
<1>4. Bare(dev') /\ dev'.live = {}
  BY <1>3 DEF Down, NothingLeft
<1>5. Empty(dev') /\ Astray(dev') = {}
  BY <1>4, BareMemory
<1>6. LifeInv'
  BY <1>1, <1>3, <1>4 DEF DeviceInv, LifeInv
<1>7. MemoryInv'
  BY <1>1, <1>4, <1>5 DEF MemoryInv, Empty
<1> QED BY <1>6, <1>7 DEF DeviceInv

LEMMA InitialDevice == InitAll => DeviceInv
<1> SUFFICES ASSUME InitAll PROVE DeviceInv
  OBVIOUS
<1>1. life = "unmade" /\ block = 0 /\ dev = NewDevice /\ held = FALSE
  BY DEF InitAll
<1>2. Fresh(dev) /\ NothingLeft(dev) /\ Bare(dev)
  BY <1>1, FirstIsFresh DEF Fresh, NothingLeft
<1>3. Empty(dev) /\ Astray(dev) = {}
  BY <1>2, BareMemory
<1> QED BY <1>1, <1>2, <1>3 DEF DeviceInv, LifeInv, MemoryInv, NothingLeft, Empty

LEMMA DeviceInvHolds == Spec => []DeviceInv
<1>1. DeviceInv /\ [Next]_vars => DeviceInv'
  <2> SUFFICES ASSUME DeviceInv, [Next]_vars PROVE DeviceInv'
    OBVIOUS
  <2>1. CASE ReadOptions \/ CreateManager \/ MakeDevice
    BY <2>1, BeforeStep
  <2>2. CASE InitDevice
    BY <2>2, InitStep
  <2>3. CASE OtherDevice
    BY <2>3, OtherStep
  <2>4. CASE StartWorker
    BY <2>4, StartStep
  <2>5. ASSUME NEW loops \in Loops, Calibrate(loops) PROVE DeviceInv'
    BY <2>5, CalibrateStep
  <2>6. CASE AllocateMemory
    BY <2>6, AllocateStep
  <2>7. CASE ReleaseMemory
    BY <2>7, ReleaseStep
  <2>8. ASSUME NEW loops \in Loops, NEW traffic \in Traffics, RunKernel(loops, traffic) PROVE DeviceInv'
    BY <2>8, RunStep
  <2>9. CASE DestroyDevice
    BY <2>9, DestroyStep
  <2>10. CASE UNCHANGED vars
    BY <2>10 DEF vars, factoryVars, deviceVars, DeviceInv, LifeInv, MemoryInv, NeverQueues, ContextBound
  <2> QED
    BY <2>1, <2>2, <2>3, <2>4, <2>5, <2>6, <2>7, <2>8, <2>9, <2>10 DEF Next
<1> QED
  BY <1>1, InitialDevice, PTL DEF Spec

\* No backend loses an object of its driver or uses one that is gone, works in
\* another context than its own, or launches a kernel that leaves its block:
\* for any sizes of blocks, windows and work-groups, any limit on an allocation
\* and any number of chunks the memory has room for.
THEOREM DriversAreUsedWell == Spec => []DriverUsedWell
<1>1. DeviceInv => DriverUsedWell
  BY DEF DeviceInv, LifeInv, DriverUsedWell, Fresh, Up, Down, Sound
<1>2. QED
  BY <1>1, DeviceInvHolds, PTL

\* A device owns up to an amdkfd queue only when there is one.
THEOREM QueueOwnedUpToExists == Spec => []OwnsUpToQueue
<1>1. \A d : /\ Amd!KfdClient(d) => "kfd" \in d.handles
             /\ OpenCl!KfdClient(d) => "kfd" \in d.handles
  BY DEF Amd!KfdClient, OpenCl!KfdClient
<1>2. DeviceInv => OwnsUpToQueue
  <2> SUFFICES ASSUME DeviceInv, life \in {"up", "steady"}, KfdClient(dev) PROVE "kfd" \in dev.live
    BY DEF OwnsUpToQueue
  <2>1. "kfd" \in dev.handles
    BY <1>1 DEF KfdClient
  <2>2. dev.handles \subseteq dev.live
    BY DEF DeviceInv, LifeInv, Up
  <2> QED BY <2>1, <2>2
<1>3. QED
  BY <1>2, DeviceInvHolds, PTL

-----------------------------------------------------------------------------
(***************************************************************************)
(* The device as the worker sees it.                                       *)
(***************************************************************************)

\* What the contract sees of the memory is what the backend has a list of.
LEMMA WhatIsSeen ==
  ASSUME DeviceInv
  PROVE  /\ (IF ChunkIds(dev) \subseteq dev.mem THEN BlockMemory ELSE 0) = (IF held THEN block ELSE 0)
         /\ dev.mem \ ChunkIds(dev) = Astray(dev)
         /\ held => block > 0 /\ ChunkIds(dev) # {}
<1>1. Sound(dev)
  BY StateIsSound
<1>2. BlockMemory = Bytes(dev.chunks) /\ Bytes(<<>>) = 0
  BY NoBytes DEF BlockMemory, Bytes
<1>3. (IF ChunkIds(dev) \subseteq dev.mem THEN BlockMemory ELSE 0) = (IF held THEN block ELSE 0)
  BY <1>1, <1>2 DEF Sound, DeviceInv, MemoryInv
<1>4. held => dev.chunks # <<>> /\ block > 0
  BY <1>2, DevicesAssumption DEF DeviceInv, LifeInv, MemoryInv
<1>5. dev.chunks # <<>> => 1 \in DOMAIN dev.chunks
  BY <1>1 DEF Sound
<1> QED BY <1>3, <1>4, <1>5 DEF Astray, ChunkIds

\* What the contract is given of a device.
Stage      == IF life = "steady" THEN "up" ELSE life
MayLose    == life # "unmade" /\ ContextBound
HasObjects == dev.live # {}
Memory     == IF ChunkIds(dev) \subseteq dev.mem THEN BlockMemory ELSE 0
Lost       == dev.mem \ ChunkIds(dev) # {}

AsSeen ==
  /\ HasObjects = (Stage = "up") /\ MayLose \in BOOLEAN
  /\ held \in BOOLEAN /\ (Stage # "up" => ~held /\ ~Lost)
  /\ Memory = IF held THEN block ELSE 0
  /\ held => block > 0

LEMMA DeviceAsSeen == DeviceInv => AsSeen
BY WhatIsSeen, StateIsSound
DEF AsSeen, Memory, Lost, Stage, HasObjects, MayLose, DeviceInv, LifeInv, MemoryInv

\* A step that leaves life, block and memory alone.
LEMMA NothingSeen ==
  ASSUME AsSeen, AsSeen', Stage' = Stage, held' = held, block' = block,
         life # "unmade" => manager' = manager, life' # "unmade" <=> life # "unmade", SameBlock(dev, dev')
  PROVE  UNCHANGED Contract!vars
<1>1. Memory' = Memory /\ HasObjects' = HasObjects
  BY DEF AsSeen
<1>2. MayLose' = MayLose
  BY DEF MayLose, ContextBound
<1>3. Lost' = Lost
  BY DEF Lost, SameBlock, ChunkIds
<1>4. UNCHANGED <<Stage, block, MayLose, HasObjects, Memory, held, Lost>>
  BY <1>1, <1>2, <1>3
<1> QED BY <1>4 DEF Contract!vars, Stage, MayLose, HasObjects, Memory, Lost

\* Each action of the contract, as far as it is seen.
LEMMA SeenActions ==
  /\ /\ Stage = "unmade" /\ Stage' = "made" /\ block' \in {0, BlockBytes} /\ MayLose' \in BOOLEAN
     /\ HasObjects' = HasObjects /\ Memory' = Memory /\ held' = held /\ Lost' = Lost
     => Contract!Make
  /\ /\ Stage = "made" /\ Stage' \in {"up", "unusable"} /\ HasObjects' = (Stage' = "up")
     /\ block' = block /\ MayLose' = MayLose /\ Memory' = Memory /\ held' = held /\ Lost' = Lost
     => Contract!Start
  /\ /\ Stage = "up" /\ ~held /\ held' \in BOOLEAN /\ Memory' = IF held' THEN block ELSE 0
     /\ Stage' = Stage /\ block' = block /\ MayLose' = MayLose /\ HasObjects' = HasObjects /\ Lost' = Lost
     => Contract!Allocate
  /\ /\ Stage = "up" /\ Memory' = 0 /\ held' = FALSE /\ Lost' \in {Lost, Lost \/ (MayLose /\ Memory > 0)}
     /\ Stage' = Stage /\ block' = block /\ MayLose' = MayLose /\ HasObjects' = HasObjects
     => Contract!Release
  /\ /\ Stage \in {"made", "up", "unusable"} /\ Stage' = "gone"
     /\ HasObjects' = FALSE /\ Memory' = 0 /\ held' = FALSE /\ Lost' = FALSE
     /\ block' = block /\ MayLose' = MayLose
     => Contract!Destroy
BY DEF Stage, MayLose, HasObjects, Memory, Lost,
       Contract!Make, Contract!Start, Contract!Allocate, Contract!Release, Contract!Destroy

\* Every backend keeps what device.h promises, whichever of its driver calls
\* fail: a bring-up that fails leaves nothing, a block is there as a whole or
\* not at all, memory is lost only with the context, and nothing outlives the
\* device.
THEOREM BackendsKeepTheContract == Spec => ImplementsContract
<1>1. InitAll => Contract!Init
  <2> SUFFICES ASSUME InitAll PROVE Contract!Init
    OBVIOUS
  <2>1. DeviceInv /\ AsSeen /\ Stage = "unmade" /\ block = 0
    BY InitialDevice, DeviceAsSeen DEF InitAll, Stage
  <2>2. HasObjects = FALSE /\ Memory = 0 /\ held = FALSE /\ Lost = FALSE /\ MayLose = FALSE
    BY <2>1 DEF AsSeen, InitAll, MayLose, Lost
  <2> QED BY <2>1, <2>2 DEF Contract!Init, Stage, MayLose, HasObjects, Memory, Lost
<1>2. DeviceInv' => AsSeen'
  BY DeviceAsSeen, PTL
<1>3. DeviceInv /\ DeviceInv' /\ [Next]_vars => [Contract!Next]_(Contract!vars)
  <2> SUFFICES ASSUME DeviceInv, DeviceInv', [Next]_vars PROVE [Contract!Next]_(Contract!vars)
    OBVIOUS
  <2>1. AsSeen /\ AsSeen'
    BY <1>2, DeviceAsSeen
  <2>2. CASE ReadOptions \/ CreateManager
    <3>1. /\ dev' = dev /\ held' = held /\ life' = life /\ block' = block
          /\ life # "unmade" => manager' = manager
      BY <2>2 DEF ReadOptions, CreateManager, factoryVars, deviceVars
    <3> QED BY <2>1, <3>1, NothingSeen DEF SameBlock, Stage
  <2>3. CASE MakeDevice
    <3>1. /\ Stage = "unmade" /\ Stage' = "made" /\ block' \in {0, BlockBytes} /\ held' = held
      BY <2>3 DEF MakeDevice, Stage
    <3>2. MayLose' \in BOOLEAN /\ HasObjects' = HasObjects /\ Memory' = Memory /\ Lost' = Lost
      BY <2>1, <3>1 DEF AsSeen, Lost
    <3> QED BY <3>1, <3>2, SeenActions DEF Contract!Next
  <2>4. CASE InitDevice
    <3>1. /\ Stage = "made" /\ Stage' \in {"up", "unusable"} /\ block' = block /\ held' = held
          /\ MayLose' = MayLose
      BY <2>4 DEF InitDevice, UseDevice, factoryVars, Stage, MayLose, ContextBound
    <3>2. Lost' = Lost
      BY <2>1, <2>4, <3>1, InitStep DEF AsSeen, Lost, Astray, ChunkIds
    <3> QED BY <2>1, <3>1, <3>2, SeenActions DEF AsSeen, Contract!Next
  <2>5. CASE OtherDevice
    BY <2>1, <2>5, OtherStep, NothingSeen DEF OtherDevice, UseDevice, factoryVars, Stage
  <2>6. CASE StartWorker
    <3>1. dev' = dev /\ held' = held /\ block' = block /\ manager' = manager /\ life = "up" /\ life' = "steady"
      BY <2>6 DEF StartWorker, UseDevice, factoryVars
    <3> QED BY <2>1, <3>1, NothingSeen DEF SameBlock, Stage
  <2>7. ASSUME NEW loops \in Loops, Calibrate(loops) PROVE UNCHANGED Contract!vars
    BY <2>1, <2>7, CalibrateStep, NothingSeen DEF Calibrate, UseDevice, factoryVars, Stage
  <2>8. CASE AllocateMemory
    <3>1. /\ Stage = "up" /\ ~held /\ Stage' = Stage /\ block' = block /\ MayLose' = MayLose
      BY <2>8 DEF AllocateMemory, UseDevice, factoryVars, Stage, MayLose, ContextBound
    <3>2. Lost' = Lost
      BY <2>8, AllocateStep DEF Astray, Lost, ChunkIds
    <3> QED BY <2>1, <3>1, <3>2, SeenActions DEF AsSeen, Contract!Next
  <2>9. CASE ReleaseMemory
    <3>1. /\ Stage = "up" /\ held /\ held' = FALSE /\ Stage' = Stage /\ block' = block /\ MayLose' = MayLose
          /\ MayLose = ContextBound
      BY <2>9 DEF ReleaseMemory, UseDevice, factoryVars, Stage, MayLose, ContextBound
    <3>2. Lost' = Lost \/ (MayLose /\ Lost' = TRUE)
      <4>1. CASE Astray(dev') = Astray(dev)
        BY <4>1 DEF Astray, Lost, ChunkIds
      <4>2. CASE ContextBound /\ dev' = DropFields(dev)
        <5>1. dev'.mem = dev.mem /\ dev'.chunks = <<>> /\ ChunkIds(dev) # {} /\ ChunkIds(dev) \subseteq dev.mem
          BY <3>1, <4>2, StateIsSound, WhatIsSeen DEF DropFields, Sound, Fields
        <5> QED BY <3>1, <4>2, <5>1 DEF Lost, ChunkIds
      <4> QED BY <2>9, <4>1, <4>2, ReleaseStep
    <3>3. Memory > 0 /\ Memory' = 0 /\ HasObjects' = HasObjects
      BY <2>1, <3>1 DEF AsSeen
    <3>4. Lost' \in {Lost, Lost \/ (MayLose /\ Memory > 0)}
      BY <3>2, <3>3
    <3> QED BY <3>1, <3>3, <3>4, SeenActions DEF Contract!Next
  <2>10. ASSUME NEW loops \in Loops, NEW traffic \in Traffics, RunKernel(loops, traffic)
         PROVE  UNCHANGED Contract!vars
    BY <2>1, <2>10, RunStep, NothingSeen DEF RunKernel, UseDevice, factoryVars, Stage
  <2>11. CASE DestroyDevice
    <3>1. /\ Stage \in {"made", "up", "unusable"} /\ Stage' = "gone" /\ held' = FALSE
          /\ block' = block /\ MayLose' = MayLose
      BY <2>11 DEF DestroyDevice, UseDevice, factoryVars, Stage, MayLose, ContextBound
    <3>2. HasObjects' = FALSE /\ Memory' = 0 /\ Lost' = FALSE
      BY <2>1, <3>1 DEF AsSeen, Lost
    <3> QED BY <3>1, <3>2, SeenActions DEF Contract!Next
  <2>12. CASE UNCHANGED vars
    BY <2>1, <2>12, NothingSeen DEF vars, factoryVars, deviceVars, SameBlock, Stage
  <2> QED
    BY <2>2, <2>3, <2>4, <2>5, <2>6, <2>7, <2>8, <2>9, <2>10, <2>11, <2>12 DEF Next
<1> QED
  BY <1>1, <1>3, DeviceInvHolds, PTL DEF Spec, ImplementsContract, Contract!Spec

=============================================================================
