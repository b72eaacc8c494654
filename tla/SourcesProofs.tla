---------------------------- MODULE SourcesProofs ---------------------------
(***************************************************************************)
(* What a poll of the sources says of a device, proved for every number of *)
(* clients, whatever they do and on every kind of host: a device that is   *)
(* taken for busy has another user (BusyMeansOthersHolds), one that is     *)
(* taken for idle has no client that works by itself (NoUserIsOverlooked), *)
(* a poll without a failed call says one or the other of a device that a   *)
(* source is there for, and of no other (VerdictUnlessItFails), and how    *)
(* busy it is told to be covers what its clients took                      *)
(* (MeasuresTheOthersHolds).                                               *)
(*                                                                         *)
(* IInv is inductive.  Its parts are types (WorldOK, MemoryOK), the turns  *)
(* of a poll (PollOK), who was around (AroundInv), what the verdict rests  *)
(* on (VerdictInv, and NvmlInv for a device that NVML alone sees), and the *)
(* readings that the sources hold against what the clients did since       *)
(* (ClockInv, DrmInv, RescanInv, PdhInv, IoRegInv).  MeasureInv, of the    *)
(* measure alone, is inductive relative to IInv.                           *)
(***************************************************************************)
EXTENDS Sources, FiniteSetTheorems, SequenceTheorems, WellFoundedInduction, TLAPS

Kinds    == {"compute", "mesa", "graphics"}
Readout  == [used : Int, at : Int]
Clients  == Everybody \X (0 .. 2)
Usage    == Nat \cup {Unmeasured}

\* A map from some keys to values.
Map(f, keys, values) == DOMAIN f \subseteq keys /\ f \in [DOMAIN f -> values]

-----------------------------------------------------------------------------
(* The inductive invariant.                                                *)

WorldOK ==
  /\ host \in Hosts
  /\ w \in [here : SUBSET Others, kind : [Others -> Kinds], client : [Others -> 0 .. 2],
            used : [Everybody -> Int], clock : Nat]
  /\ \A p \in w.here : w.kind[p] \in host.kinds \cup {"graphics"}
  /\ around \subseteq Others

MemoryOK ==
  /\ DOMAIN mem = {"nvml", "kfd", "drm", "pdh", "ioreg"}
  /\ mem.nvml \in {"unasked", "none", "handle"}
  /\ Map(mem.drm, Clients, Readout)
  /\ Map(mem.pdh, Everybody, Readout)
  /\ DOMAIN mem.ioreg = {"ns", "time", "primed", "servers"}
  /\ Map(mem.ioreg.ns, Everybody, Int)
  /\ mem.ioreg.time \in Int /\ mem.ioreg.primed \in BOOLEAN

Observed(o) == DOMAIN o = {"verdict", "busy"} /\ o.verdict \in {"unknown", "idle", "busy"}

\* What may be left of the sources' turns, while there is any.
Rests ==
  CASE host.os = "windows" ->
         IF host.pdh THEN {<<"pdh">>} \cup (IF host.nvml THEN {<<"nvml", "pdh">>} ELSE {})
         ELSE IF host.nvml THEN {<<"nvml">>} ELSE {}
    [] host.os = "macos"   -> {<<"ioreg">>}
    [] host.os = "linux"   ->
         {<<"drm">>, <<"kfd", "drm">>}
           \cup (IF host.nvml THEN {<<"nvml", "drm">>, <<"nvml", "kfd", "drm">>} ELSE {})

PollOK ==
  /\ step \in {"wait", "sample", "rescan", "end"}
  /\ step = "sample" => todo \in Rests
  /\ step = "rescan" => todo = <<"drm">> /\ host.os = "linux"
  /\ Observed(merged) /\ failed \in BOOLEAN

\* Whose clients the scan has met were around.
AroundInv ==
  /\ step # "wait" => Users(w) \subseteq around
  /\ step = "rescan" => \A k \in DOMAIN scan.usage \cup DOMAIN scan.next : k[1] \in around \cup {Self}
  /\ step # "wait" /\ merged.verdict = "busy" => around # {}

Told == failed \/ merged.verdict # "unknown"

\* Whether a source of the platform is there for the device.
ByNvml == host.nvml /\ host.located /\ host.vendor = "nvidia"
Seen ==
  CASE host.os = "windows" -> host.pdh \/ (ByNvml /\ mem.nvml = "handle")
    [] host.os = "macos"   -> host.located
    [] host.os = "linux"   -> Drm!HasNode(host) \/ ByNvml

\* Who sees a device has his turn, and then the verdict is there.
VerdictInv ==
  /\ mem.nvml = "none" => host.vendor # "nvidia" \/ host.os = "windows"
  /\ mem.nvml = "handle" => host.vendor = "nvidia" /\ ~host.wddm
  /\ step = "rescan" => Drm!HasNode(host)
  /\ step # "wait" /\ ~Seen => merged.verdict = "unknown"
  /\ step = "sample" /\ Head(todo) # "nvml" /\ host.os = "linux" /\ ByNvml => Told
  /\ step = "end" /\ Seen => Told

\* NVML alone sees NVIDIA's device that does not run under WDDM, and who comes
\* after its turn has not worked in this poll yet.
NvmlInv ==
  step = "sample" /\ Head(todo) # "nvml" /\ host.os # "macos" /\ host.vendor = "nvidia" /\ ~host.wddm =>
    \/ Unseen \/ failed \/ merged.verdict = "busy"
    \/ \A p \in Users(w) : floor[p] = 0

\* Baselines are older than a poll, and what is asked is set by a reading.
ClockInv ==
  /\ floor \in [Everybody -> 0 .. Full] /\ asked \in [Everybody -> 0 .. Full]
  /\ \A p \in Everybody \ Present(w) : floor[p] = 0 /\ asked[p] = 0
  /\ step \in {"wait", "sample"} => asked = [p \in Everybody |-> 0]
  /\ step # "wait" => w.clock > 0
  /\ LET latest == IF step = "end" THEN w.clock ELSE 0
     IN  /\ \A k \in DOMAIN mem.drm : mem.drm[k].at <= latest
         /\ \A p \in DOMAIN mem.pdh : mem.pdh[p].at <= latest
         /\ mem.ioreg.primed => mem.ioreg.time <= latest

\* p has worked as much since it had used so much as the least it does.
Since(least, p, used, at) ==
  least[p] > 0 => w.used[p] - used >= least[p] * (w.clock - at)

\* A client that was read has worked since; one that has just come has another
\* number, and so no reading.
DrmInv ==
  /\ step # "end" => \A k \in DOMAIN mem.drm : k[2] = 0
  /\ step # "rescan" => scan = NoScan
  /\ step # "rescan" /\ host.os = "linux" /\ Drm!HasNode(host) =>
       \A p \in Present(w) : LET k == Drm!Client(w, host, p)
                               IN  k \in DOMAIN mem.drm => Since(floor, p, mem.drm[k].used, mem.drm[k].at)

\* A user that was there at the scan is counted already, or has worked since.
Counts(p) ==
  LET k == Drm!Client(w, host, p)
  IN  IF ~Drm!HasStats(w, host, p)
      THEN k \in DOMAIN scan.usage \ DOMAIN scan.next /\ scan.usage[k] = Unmeasured
      ELSE /\ k \in DOMAIN scan.next
           /\ IF k \in scan.fresh
              THEN Since(asked, p, scan.next[k].used, scan.next[k].at)
              ELSE k \in DOMAIN scan.usage /\ scan.usage[k] >= Percent(p)

RescanInv == step = "rescan" =>
  /\ DOMAIN scan = {"next", "fresh", "usage"}
  /\ Map(scan.next, Clients, Readout)
  /\ scan.fresh \subseteq DOMAIN scan.next
  /\ Map(scan.usage, Clients, Usage)
  /\ \A k, l \in DOMAIN scan.next : scan.next[k].at = scan.next[l].at /\ (k[1] = l[1] => k = l)
  /\ \A k \in DOMAIN scan.next : scan.next[k].at <= w.clock
  /\ \A p \in Present(w) : LET k == Drm!Client(w, host, p)
                             IN  k \in DOMAIN scan.next => Since(floor, p, scan.next[k].used, scan.next[k].at)
  /\ \A p \in Counted : asked[p] > 0 => Counts(p)

\* An instance that was met has a baseline.
PdhInv == host.os = "windows" /\ host.pdh =>
  \A p \in Pdh!Instances(w, host) :
    floor[p] > 0 => p \in DOMAIN mem.pdh /\ Since(floor, p, mem.pdh[p].used, mem.pdh[p].at)

\* A client that was met has a baseline, and the compositor is no user.
IoRegInv == host.os = "macos" =>
  /\ \A p \in Present(w) : floor[p] > 0 =>
       /\ mem.ioreg.primed /\ p \in DOMAIN mem.ioreg.ns
       /\ Since(floor, p, mem.ioreg.ns[p], mem.ioreg.time)
  /\ \A p \in mem.ioreg.servers : p \in w.here /\ w.kind[p] = "graphics"

IInv ==
  /\ WorldOK /\ MemoryOK /\ PollOK /\ AroundInv /\ VerdictInv /\ NvmlInv
  /\ ClockInv /\ DrmInv /\ RescanInv /\ PdhInv /\ IoRegInv /\ NoUserOverlooked

-----------------------------------------------------------------------------
(* Arithmetic of engine times.                                             *)

\* Who has worked f in every unit and works on has worked the lesser in each.
LEMMA WorkAddsUp ==
  ASSUME NEW f \in Nat, NEW g \in Nat, NEW work \in Nat, g <= f, g <= work,
         NEW d \in Int, NEW t \in Nat, d >= f * t
  PROVE  d + work >= g * (t + 1)
<1>1. g * t <= f * t
  OBVIOUS
<1>2. g * (t + 1) = g * t + g
  OBVIOUS
<1> QED
  <2> DEFINE u == g * t  v == f * t
  <2>1. u \in Int /\ v \in Int /\ u <= v /\ d >= v
    BY <1>1
  <2> HIDE DEF u, v
  <2>2. d + work >= u + g
    BY <2>1
  <2> QED
    BY <2>2, <1>2 DEF u

LEMMA QuotientAtLeast ==
  ASSUME NEW n \in Int, NEW m \in Nat, m > 0, NEW q \in Int, q * m <= n
  PROVE  n \div m \in Int /\ n \div m >= q
<1> DEFINE x == n \div m
<1>1. x \in Int /\ x * m <= n /\ n < (x + 1) * m
  BY SMTT(30)
<1> HIDE DEF x
<1>2. CASE x >= q
  BY <1>1, <1>2 DEF x
<1>3. CASE x + 1 <= q
  <2>1. (x + 1) * m <= q * m
    BY <1>1, <1>3
  <2>2. (x + 1) * m \in Int /\ q * m \in Int
    BY <1>1
  <2> QED
    BY <2>1, <2>2, <1>1
<1> QED
  BY <1>1, <1>2, <1>3

LEMMA QuotientAtMost ==
  ASSUME NEW n \in Int, NEW m \in Nat, m > 0
  PROVE  n \div m \in Int /\ (n \div m) * m <= n
  BY SMTT(30)

\* The share that is computed from such readings is at least that work.
LEMMA ShareAtLeast ==
  ASSUME NEW f \in Nat, NEW before \in Readout, NEW after \in Readout,
         after.at > before.at,
         after.used - before.used >= f * (after.at - before.at)
  PROVE  /\ Share(before, after) \in Int
         /\ Share(before, after) >= (100 * f) \div Full
<1> DEFINE d == after.used - before.used
           t == after.at - before.at
           q == (100 * f) \div Full
<1>1. d \in Int /\ t \in Nat /\ t > 0 /\ d >= f * t /\ Full \in Nat /\ Full > 0
  BY WorkAssumption DEF Readout
<1>2. Share(before, after) = (100 * d) \div (Full * t)
  BY DEF Share
<1> HIDE DEF d, t
<1>3. q \in Int /\ q * Full <= 100 * f
  <2>1. 100 * f \in Int
    OBVIOUS
  <2> QED
    BY <2>1, <1>1, QuotientAtMost
<1> HIDE DEF q
<1>4. (q * Full) * t <= (100 * f) * t
  <2> DEFINE a == q * Full  b == 100 * f
  <2>1. a \in Int /\ b \in Int /\ a <= b
    BY <1>1, <1>3
  <2> HIDE DEF a, b
  <2>2. a * t <= b * t
    BY <2>1, <1>1
  <2> QED
    BY <2>2 DEF a, b
<1>5. q * (Full * t) <= 100 * d
  <2>1. q * (Full * t) = (q * Full) * t /\ (100 * f) * t = 100 * (f * t)
    BY <1>1, <1>3
  <2>2. f * t \in Int
    BY <1>1
  <2>3. 100 * (f * t) <= 100 * d
    BY <2>2, <1>1
  <2>4. q * (Full * t) <= 100 * (f * t)
    BY <2>1, <1>4
  <2>5. q * (Full * t) \in Int
    BY <1>1, <1>3
  <2> QED
    BY <2>2, <2>3, <2>4, <2>5, <1>1
<1>6. Full * t \in Nat /\ Full * t > 0 /\ 100 * d \in Int
  BY <1>1
<1>7. (100 * d) \div (Full * t) \in Int /\ (100 * d) \div (Full * t) >= q
  BY <1>3, <1>5, <1>6, QuotientAtLeast
<1> QED
  BY <1>2, <1>7 DEF q

-----------------------------------------------------------------------------
(* Sums over finite sets, as the folds make them up.                       *)

\* The elements in the order that a fold takes them, and a fold that adds f up.
Some(T) == CHOOSE x \in T : TRUE

Total(f, S) == MapThenFoldSet(+, 0, LAMBDA x : f[x], LAMBDA T : CHOOSE x \in T : TRUE, S)

\* What holds of 0, and of the next of each, holds up to n.
LEMMA UpTo ==
  ASSUME NEW n \in Nat, NEW B, 0 \in B, \A k \in 0 .. n - 1 : k \in B => k + 1 \in B
  PROVE  n \in B
<1> DEFINE Out == {k \in 0 .. n : k \notin B}
<1> SUFFICES ASSUME n \notin B PROVE FALSE
  OBVIOUS
<1>1. Out # {} /\ Out \subseteq Nat
  OBVIOUS
<1>2. PICK k \in Out : \A j \in Out : ~(<<j, k>> \in OpToRel(<, Nat))
  <2> HIDE DEF Out
  <2> QED
    BY <1>1, WFMin, NatLessThanWellFounded
<1>3. k # 0 /\ k - 1 \in 0 .. n - 1 /\ k \in Nat
  OBVIOUS
<1>4. k - 1 \in Out
  BY <1>3
<1>5. <<k - 1, k>> \in OpToRel(<, Nat)
  BY <1>3 DEF OpToRel
<1>6. QED
  BY <1>2, <1>4, <1>5

\* What holds of the empty set, and of a set where it holds of those with an
\* element less, holds of every finite set.
LEMMA SubsetInduction ==
  ASSUME NEW S, IsFiniteSet(S), NEW B, {} \in B,
         \A T \in SUBSET S : T # {} /\ (\A x \in T : T \ {x} \in B) => T \in B
  PROVE  \A T \in SUBSET S : T \in B
<1> DEFINE n == Cardinality(S)
           C == {k \in 0 .. n : \A T \in SUBSET S : Cardinality(T) = k => T \in B}
<1>0. n \in Nat
  BY FS_CardinalityType
<1>1. \A T \in SUBSET S : IsFiniteSet(T) /\ Cardinality(T) \in 0 .. n
  BY <1>0, FS_Subset, FS_CardinalityType
<1>2. 0 \in C
  <2>1. \A T \in SUBSET S : Cardinality(T) = 0 => T = {}
    BY <1>1, FS_EmptySet
  <2> HIDE DEF n
  <2> QED
    BY <2>1, <1>0
<1>3. ASSUME NEW k \in 0 .. n - 1, k \in C PROVE k + 1 \in C
  <2>1. ASSUME NEW T \in SUBSET S, Cardinality(T) = k + 1
      PROVE  T \in B
    <3>1. T # {}
      <4>1. Cardinality(T) # 0
        BY <2>1, <1>0
      <4> QED
        BY <4>1, FS_EmptySet
    <3>2. ASSUME NEW x \in T PROVE T \ {x} \in B
      <4>1. Cardinality(T \ {x}) = k
        BY <2>1, <1>1, FS_RemoveElement
      <4> QED
        BY <4>1, <1>3
    <3> QED
      BY <3>1, <3>2
  <2>2. k + 1 \in 0 .. n
    BY <1>0
  <2> HIDE DEF n
  <2> QED
    BY <2>1, <2>2
<1>4. n \in C
  <2> HIDE DEF n, C
  <2> QED
    BY <1>0, <1>2, <1>3, UpTo
<1>5. \A k \in 0 .. n : k \in C
  <2> TAKE m \in 0 .. n
  <2>0. \A k \in 0 .. m - 1 : k \in C => k + 1 \in C
    BY <1>0, <1>3
  <2> HIDE DEF n, C
  <2> QED
    BY <2>0, <1>0, <1>2, UpTo
<1> QED
  BY <1>1, <1>5

\* The partial totals that the fold is made of.
IsTotal(t, f, S) ==
  /\ t \in [SUBSET S -> Nat]
  /\ \A T \in SUBSET S : t[T] = IF T = {} THEN 0 ELSE f[Some(T)] + t[T \ {Some(T)}]

LEMMA TotalsExist ==
  ASSUME NEW S, IsFiniteSet(S), NEW f \in [S -> Nat]
  PROVE  \E t : IsTotal(t, f, S)
<1> DEFINE n == Cardinality(S)
           Small(k) == {T \in SUBSET S : Cardinality(T) <= k}
           Totals(t, k) == \A T \in Small(k) :
                             t[T] = IF T = {} THEN 0 ELSE f[Some(T)] + t[T \ {Some(T)}]
           B == {k \in 0 .. n : \E t \in [Small(k) -> Nat] : Totals(t, k)}
<1>0. n \in Nat
  BY FS_CardinalityType
<1>1. \A T \in SUBSET S : IsFiniteSet(T) /\ Cardinality(T) \in 0 .. n
  BY <1>0, FS_Subset, FS_CardinalityType
<1>2. \A T \in SUBSET S : T # {} =>
        /\ Some(T) \in T /\ f[Some(T)] \in Nat /\ T \ {Some(T)} \in SUBSET S
        /\ Cardinality(T \ {Some(T)}) = Cardinality(T) - 1
  <2> SUFFICES ASSUME NEW T \in SUBSET S, T # {}
               PROVE  /\ Some(T) \in T /\ f[Some(T)] \in Nat /\ T \ {Some(T)} \in SUBSET S
                      /\ Cardinality(T \ {Some(T)}) = Cardinality(T) - 1
    OBVIOUS
  <2>1. Some(T) \in T
    BY DEF Some
  <2> QED
    BY <2>1, <1>1, FS_RemoveElement
<1>3. 0 \in B
  <2> DEFINE e == [T \in Small(0) |-> 0]
  <2>1. \A T \in Small(0) : T = {}
    <3> SUFFICES ASSUME NEW T \in SUBSET S, Cardinality(T) <= 0 PROVE T = {}
      OBVIOUS
    <3>1. Cardinality(T) = 0
      BY <1>0, <1>1
    <3> QED
      BY <3>1, <1>1, FS_EmptySet
  <2>2. e \in [Small(0) -> Nat] /\ Totals(e, 0)
    BY <2>1
  <2>3. 0 \in 0 .. n
    BY <1>0
  <2> HIDE DEF e, Totals, n, Small
  <2> QED
    BY <2>2, <2>3
<1>4. ASSUME NEW k \in 0 .. n - 1, k \in B PROVE k + 1 \in B
  <2>1. PICK t \in [Small(k) -> Nat] : Totals(t, k)
    BY <1>4
  <2> DEFINE h == [T \in Small(k + 1) |->
                     IF T \in Small(k) THEN t[T] ELSE f[Some(T)] + t[T \ {Some(T)}]]
  <2>0. k \in Nat /\ k + 1 \in 0 .. n /\ {} \in Small(k)
    <3>1. Cardinality({}) = 0
      BY FS_EmptySet
    <3>2. k \in Nat /\ k + 1 \in 0 .. n
      BY <1>0
    <3> QED
      BY <3>1, <3>2
  <2>2. \A T \in Small(k + 1) : T # {} => T \ {Some(T)} \in Small(k) /\ f[Some(T)] \in Nat
    <3> SUFFICES ASSUME NEW T \in Small(k + 1), T # {}
                 PROVE  T \ {Some(T)} \in Small(k) /\ f[Some(T)] \in Nat
      OBVIOUS
    <3>1. Cardinality(T) \in Int /\ Cardinality(T) <= k + 1
      BY <1>0, <1>1
    <3>2. Cardinality(T) - 1 <= k
      BY <3>1, <2>0
    <3>3. T \in SUBSET S /\ T # {}
      OBVIOUS
    <3>4. /\ f[Some(T)] \in Nat /\ T \ {Some(T)} \in SUBSET S
          /\ Cardinality(T \ {Some(T)}) = Cardinality(T) - 1
      BY <3>3, <1>2
    <3> QED
      BY <3>2, <3>4
  <2>3. \A T \in Small(k) : T \in Small(k + 1)
    <3> SUFFICES ASSUME NEW T \in Small(k) PROVE Cardinality(T) <= k + 1
      OBVIOUS
    <3> QED
      BY <1>0, <1>1, <2>0
  <2>4. h \in [Small(k + 1) -> Nat]
    <3>1. ASSUME NEW T \in Small(k + 1)
          PROVE  (IF T \in Small(k) THEN t[T] ELSE f[Some(T)] + t[T \ {Some(T)}]) \in Nat
      <4>1. CASE T \in Small(k)
        <5> HIDE DEF Small
        <5> QED
          BY <4>1
      <4>2. CASE T \notin Small(k)
        <5>1. T # {}
          <6> HIDE DEF Small
          <6> QED
            BY <4>2, <2>0
        <5>2. T \ {Some(T)} \in Small(k) /\ f[Some(T)] \in Nat
          BY <5>1, <2>2
        <5> HIDE DEF Small
        <5> QED
          BY <4>2, <5>2
      <4> QED
        BY <4>1, <4>2
    <3> HIDE DEF Small
    <3> QED
      BY <3>1
  <2>5. Totals(h, k + 1)
    <3> SUFFICES ASSUME NEW T \in Small(k + 1)
                 PROVE  h[T] = IF T = {} THEN 0 ELSE f[Some(T)] + h[T \ {Some(T)}]
      OBVIOUS
    <3>1. T # {} => h[T \ {Some(T)}] = t[T \ {Some(T)}]
      <4> HIDE DEF Small
      <4> QED
        BY <2>2, <2>3
    <3>2. CASE T \in Small(k)
      <4>1. t[T] = IF T = {} THEN 0 ELSE f[Some(T)] + t[T \ {Some(T)}]
        BY <3>2, <2>1
      <4> HIDE DEF Small
      <4> QED
        BY <3>1, <3>2, <4>1
    <3>3. CASE T \notin Small(k)
      <4>1. T # {}
        <5> HIDE DEF Small
        <5> QED
          BY <3>3, <2>0
      <4> HIDE DEF Small
      <4> QED
        BY <3>1, <3>3, <4>1
    <3> QED
      BY <3>2, <3>3
  <2> HIDE DEF h, Totals, n, Small
  <2> QED
    BY <2>0, <2>4, <2>5
<1>5. n \in B
  <2> HIDE DEF B, n
  <2> QED
    BY <1>0, <1>3, <1>4, UpTo
<1>6. PICK t \in [Small(n) -> Nat] : Totals(t, n)
  BY <1>5
<1>7. Small(n) = SUBSET S
  <2>1. \A T \in SUBSET S : Cardinality(T) <= n
    BY <1>0, <1>1
  <2> HIDE DEF n
  <2> QED
    BY <2>1
<1> HIDE DEF Small
<1> QED
  BY <1>6, <1>7 DEF IsTotal

\* What a fold makes up is one of them.
LEMMA FoldIsTotal ==
  ASSUME NEW S, IsFiniteSet(S), NEW f \in [S -> Nat], NEW iter,
         iter = [T \in SUBSET S |-> IF T = {} THEN 0 ELSE f[Some(T)] + iter[T \ {Some(T)}]]
  PROVE  IsTotal(iter, f, S)
<1>1. \A T \in SUBSET S : iter[T] = IF T = {} THEN 0 ELSE f[Some(T)] + iter[T \ {Some(T)}]
  OBVIOUS
<1> DEFINE B == {T \in SUBSET S : iter[T] \in Nat}
<1>2. {} \in B
  <2>1. {} \in SUBSET S
    OBVIOUS
  <2> QED
    BY <2>1, <1>1
<1>3. ASSUME NEW T \in SUBSET S, T # {}, \A x \in T : T \ {x} \in B
      PROVE  T \in B
  <2>1. Some(T) \in T
    BY <1>3 DEF Some
  <2>2. iter[T] = f[Some(T)] + iter[T \ {Some(T)}]
    BY <1>1, <1>3
  <2>3. f[Some(T)] \in Nat /\ iter[T \ {Some(T)}] \in Nat
    BY <2>1, <1>3
  <2> QED
    BY <2>2, <2>3
<1>4. \A T \in SUBSET S : T \in B
  <2> HIDE DEF B
  <2> QED
    BY <1>2, <1>3, SubsetInduction
<1>5. iter \in [SUBSET S -> Nat]
  BY <1>4
<1> QED
  BY <1>1, <1>5 DEF IsTotal

LEMMA TotalIsLast ==
  ASSUME NEW S, IsFiniteSet(S), NEW f \in [S -> Nat]
  PROVE  \E t : IsTotal(t, f, S) /\ Total(f, S) = t[S]
<1> DEFINE iter == CHOOSE t : t = [T \in SUBSET S |-> IF T = {} THEN 0 ELSE f[Some(T)] + t[T \ {Some(T)}]]
<1>1. PICK g : IsTotal(g, f, S)
  BY TotalsExist
<1>2. g = [T \in SUBSET S |-> IF T = {} THEN 0 ELSE f[Some(T)] + g[T \ {Some(T)}]]
  BY <1>1 DEF IsTotal
<1>3. iter = [T \in SUBSET S |-> IF T = {} THEN 0 ELSE f[Some(T)] + iter[T \ {Some(T)}]]
  BY <1>2, Zenon
<1>4. Total(f, S) = iter[S]
  BY DEF Total, MapThenFoldSet, Some
<1> HIDE DEF iter
<1> QED
  BY <1>3, <1>4, FoldIsTotal

\* A total is the same whatever element is added last.
AddsAny(t, f, S) == \A T \in SUBSET S : \A x \in T : t[T] = f[x] + t[T \ {x}]

LEMMA TotalWithout ==
  ASSUME NEW S, IsFiniteSet(S), NEW f \in [S -> Nat]
  PROVE  \A t : IsTotal(t, f, S) => AddsAny(t, f, S)
<1> SUFFICES ASSUME NEW t, IsTotal(t, f, S)
             PROVE  \A T \in SUBSET S : \A x \in T : t[T] = f[x] + t[T \ {x}]
  BY DEF AddsAny
<1> DEFINE B == {T \in SUBSET S : \A x \in T : t[T] = f[x] + t[T \ {x}]}
<1>0. \A T \in SUBSET S : t[T] \in Nat /\ (T # {} => t[T] = f[Some(T)] + t[T \ {Some(T)}])
  BY DEF IsTotal
<1>1. {} \in B
  OBVIOUS
<1>2. ASSUME NEW T \in SUBSET S, T # {}, \A x \in T : T \ {x} \in B
      PROVE  T \in B
  <2> SUFFICES ASSUME NEW x \in T PROVE t[T] = f[x] + t[T \ {x}]
    OBVIOUS
  <2> DEFINE y == Some(T)
  <2>1. y \in T
    BY <1>2 DEF Some
  <2>2. t[T] = f[y] + t[T \ {y}]
    BY <1>0, <1>2
  <2> HIDE DEF y
  <2>3. CASE x = y
    BY <2>2, <2>3
  <2>4. CASE x # y
    <3>1. t[T \ {y}] = f[x] + t[(T \ {y}) \ {x}]
      BY <1>2, <2>1, <2>4
    <3>2. t[T \ {x}] = f[y] + t[(T \ {x}) \ {y}]
      BY <1>2, <2>1, <2>4
    <3>3. (T \ {y}) \ {x} = (T \ {x}) \ {y}
      OBVIOUS
    <3>4. f[x] \in Nat /\ f[y] \in Nat /\ t[(T \ {x}) \ {y}] \in Nat
      BY <1>0, <2>1
    <3> DEFINE rest == t[(T \ {x}) \ {y}]
    <3>5. t[T] = f[y] + (f[x] + rest) /\ t[T \ {x}] = f[y] + rest /\ rest \in Nat
      BY <2>2, <3>1, <3>2, <3>3, <3>4
    <3> HIDE DEF rest
    <3> QED
      BY <3>4, <3>5
  <2> QED
    BY <2>3, <2>4
<1>3. \A T \in SUBSET S : T \in B
  <2> HIDE DEF B
  <2> QED
    BY <1>1, <1>2, SubsetInduction
<1> QED
  BY <1>3

\* Where each part of a total that counts has one of its own in another that is
\* as large, it is at most that other.
LEMMA TotalAtMost ==
  ASSUME NEW S, IsFiniteSet(S), NEW f \in [S -> Nat], NEW t, IsTotal(t, f, S),
         NEW D, IsFiniteSet(D), NEW g \in [D -> Nat], NEW u, IsTotal(u, g, D),
         NEW h, \A x, y \in S : h[x] = h[y] => x = y,
         \A x \in S : f[x] > 0 => h[x] \in D /\ f[x] <= g[h[x]]
  PROVE  t[S] <= u[D]
<1>1. \A T \in SUBSET S : t[T] \in Nat /\ \A x \in T : t[T] = f[x] + t[T \ {x}]
  <2>1. AddsAny(t, f, S)
    BY TotalWithout
  <2> QED
    BY <2>1 DEF IsTotal, AddsAny
<1>2. \A E \in SUBSET D : u[E] \in Nat /\ \A k \in E : u[E] = g[k] + u[E \ {k}]
  <2>1. AddsAny(u, g, D)
    BY TotalWithout
  <2> QED
    BY <2>1 DEF IsTotal, AddsAny
<1>3. t[{}] = 0
  BY DEF IsTotal
<1> DEFINE B == {T \in SUBSET S : \A E \in SUBSET D :
                   (\A x \in T : f[x] > 0 => h[x] \in E) => t[T] <= u[E]}
<1>4. {} \in B
  BY <1>2, <1>3
<1>5. ASSUME NEW T \in SUBSET S, T # {}, \A x \in T : T \ {x} \in B
      PROVE  T \in B
  <2> SUFFICES ASSUME NEW E \in SUBSET D, \A x \in T : f[x] > 0 => h[x] \in E
               PROVE  t[T] <= u[E]
    OBVIOUS
  <2>1. PICK x \in T : TRUE
    BY <1>5
  <2>2. t[T] = f[x] + t[T \ {x}] /\ f[x] \in Nat /\ t[T \ {x}] \in Nat
    BY <1>1
  <2>3. CASE f[x] = 0
    <3>1. t[T \ {x}] <= u[E]
      BY <1>5
    <3> QED
      BY <3>1, <2>2, <2>3, <1>2
  <2>4. CASE f[x] > 0
    <3>1. h[x] \in E /\ f[x] <= g[h[x]] /\ g[h[x]] \in Nat
      BY <2>4
    <3>2. \A y \in T \ {x} : f[y] > 0 => h[y] \in E \ {h[x]}
      BY <2>1
    <3>3. E \ {h[x]} \in SUBSET D
      OBVIOUS
    <3>4. t[T \ {x}] <= u[E \ {h[x]}]
      BY <3>2, <3>3, <1>5
    <3>5. u[E] = g[h[x]] + u[E \ {h[x]}] /\ u[E \ {h[x]}] \in Nat
      BY <3>1, <3>3, <1>2
    <3> QED
      BY <2>2, <3>1, <3>4, <3>5
  <2> QED
    BY <2>2, <2>3, <2>4
<1>6. \A T \in SUBSET S : T \in B
  <2> HIDE DEF B
  <2> QED
    BY <1>4, <1>5, SubsetInduction
<1> QED
  BY <1>6

-----------------------------------------------------------------------------
(* The sources speak of the same world.                                    *)

LEMMA SameSelf ==
  /\ Nvml!Self = Self /\ Kfd!Self = Self /\ Drm!Self = Self /\ Pdh!Self = Self /\ IoReg!Self = Self
  /\ Nvml!Unmeasured = Unmeasured /\ Kfd!Unmeasured = Unmeasured /\ Drm!Unmeasured = Unmeasured
  /\ Pdh!Unmeasured = Unmeasured /\ IoReg!Unmeasured = Unmeasured
BY DEF Self, Nvml!Self, Kfd!Self, Drm!Self, Pdh!Self, IoReg!Self, Unmeasured, Nvml!Unmeasured,
       Kfd!Unmeasured, Drm!Unmeasured, Pdh!Unmeasured, IoReg!Unmeasured

LEMMA SameProcesses ==
  ASSUME NEW x
  PROVE  /\ Kfd!Present(x) = Present(x) /\ Drm!Present(x) = Present(x)
         /\ Pdh!Present(x) = Present(x) /\ IoReg!Present(x) = Present(x)
BY SameSelf DEF Present, Kfd!Present, Drm!Present, Pdh!Present, IoReg!Present

LEMMA SameReading ==
  ASSUME NEW x, NEW p
  PROVE  Drm!Reading(x, p) = Reading(x, p) /\ Pdh!Reading(x, p) = Reading(x, p)
BY DEF Reading, Drm!Reading, Pdh!Reading

LEMMA SameShare ==
  ASSUME NEW before, NEW after
  PROVE  /\ Drm!Share(before, after) = Share(before, after)
         /\ Pdh!Share(before, after) = Share(before, after)
         /\ IoReg!Share(before, after) = Share(before, after)
BY DEF Share, Drm!Share, Pdh!Share, IoReg!Share

LEMMA SameSampled ==
  ASSUME NEW state, NEW seen, NEW lost
  PROVE  /\ Nvml!Sampled(state, seen, lost) = Sampled(state, seen, lost)
         /\ Kfd!Sampled(state, seen, lost) = Sampled(state, seen, lost)
         /\ Drm!Sampled(state, seen, lost) = Sampled(state, seen, lost)
         /\ Pdh!Sampled(state, seen, lost) = Sampled(state, seen, lost)
         /\ IoReg!Sampled(state, seen, lost) = Sampled(state, seen, lost)
BY DEF Sampled, Nvml!Sampled, Kfd!Sampled, Drm!Sampled, Pdh!Sampled, IoReg!Sampled

LEMMA HostFacts ==
  ASSUME WorldOK
  PROVE  /\ host.os \in {"linux", "macos", "windows"}
         /\ host.located \in BOOLEAN /\ host.nvml \in BOOLEAN /\ host.kfd \in BOOLEAN
         /\ host.pdh \in BOOLEAN /\ host.wddm \in BOOLEAN /\ host.pidns \in BOOLEAN /\ host.ids \in BOOLEAN
         /\ host.stats \in {"ns", "cycles", "none"}
         /\ host.kinds \subseteq Kinds /\ host.own \in Kinds
         /\ host.wddm => host.os = "windows"
         /\ host.vendor = "nvidia" => "mesa" \notin host.kinds
         /\ \A p \in Others : host.proc[p] # Self
         /\ host.os # "linux" => \A p, q \in Others : host.proc[p] = host.proc[q] => p = q
BY HostsAssumption DEF WorldOK, Kinds

-----------------------------------------------------------------------------
(* The initial states.                                                     *)

LEMMA EmptyMap ==
  ASSUME NEW keys, NEW values
  PROVE  Map(<<>>, keys, values) /\ DOMAIN <<>> = {}
BY DEF Map

LEMMA InitIInv == Init => IInv
<1> SUFFICES ASSUME Init PROVE IInv
  OBVIOUS
<1>1. /\ w.here = {} /\ w.kind = [p \in Others |-> "graphics"] /\ w.client = [p \in Others |-> 0]
      /\ w.used = [p \in Everybody |-> 0] /\ w.clock = 0
  BY DEF Init
<1>2. /\ mem.nvml = "unasked" /\ mem.drm = <<>>
      /\ mem.pdh = (IF host.os = "windows" /\ host.pdh THEN Pdh!Raw(w, host) ELSE <<>>)
      /\ mem.ioreg = IoReg!Unprimed
      /\ DOMAIN mem = {"nvml", "kfd", "drm", "pdh", "ioreg"}
  BY DEF Init
<1>3. WorldOK
  BY DEF Init, WorldOK, Kinds
<1>0. step = "wait" /\ merged = Unknown /\ scan = NoScan /\ failed = FALSE /\ around = {}
  BY DEF Init
<1>18. /\ floor = [p \in Everybody |-> IF p = Self THEN FirstFloor ELSE 0]
       /\ asked = [p \in Everybody |-> 0]
  BY DEF Init
<1>14. /\ DOMAIN mem.ioreg = {"ns", "time", "primed", "servers"}
       /\ mem.ioreg.ns = <<>> /\ mem.ioreg.time = 0 /\ mem.ioreg.primed = FALSE /\ mem.ioreg.servers = {}
  BY <1>2 DEF IoReg!Unprimed
<1>4. Self \in Everybody /\ Present(w) = {Self}
  BY <1>1 DEF Everybody, Present
<1>5. Map(mem.pdh, Everybody, Readout) /\ \A p \in DOMAIN mem.pdh : mem.pdh[p] = [used |-> 0, at |-> 0]
  <2>1. CASE ~(host.os = "windows" /\ host.pdh)
    BY <1>2, <2>1, EmptyMap
  <2>2. CASE host.os = "windows" /\ host.pdh
    <3>1. Pdh!Instances(w, host) \subseteq {Self}
      BY <1>4, SameProcesses DEF Pdh!Instances
    <3>2. mem.pdh = [p \in Pdh!Instances(w, host) |-> Reading(w, p)]
      BY <1>2, <2>2, SameReading DEF Pdh!Raw
    <3>3. \A p \in Pdh!Instances(w, host) : Reading(w, p) = [used |-> 0, at |-> 0]
      BY <1>1, <3>1, <1>4 DEF Reading
    <3>4. [used |-> 0, at |-> 0] \in Readout
      BY DEF Readout
    <3> QED
      BY <3>1, <3>2, <3>3, <3>4, <1>4 DEF Map
  <2> QED
    BY <2>1, <2>2
<1>6. MemoryOK
  <2>1. Map(mem.drm, Clients, Readout) /\ Map(mem.ioreg.ns, Everybody, Int)
    BY <1>2, <1>14, EmptyMap
  <2>2. Map(mem.pdh, Everybody, Readout)
    BY <1>5
  <2>3. mem.nvml \in {"unasked", "none", "handle"}
    BY <1>2
  <2>4. mem.ioreg.time \in Int /\ mem.ioreg.primed \in BOOLEAN
    <3>1. mem.ioreg.primed = FALSE /\ FALSE \in BOOLEAN /\ mem.ioreg.time = 0
      BY <1>14
    <3>2. mem.ioreg.primed \in BOOLEAN
      BY <3>1, Zenon
    <3> QED
      BY <3>1, <3>2
  <2>5. DOMAIN mem = {"nvml", "kfd", "drm", "pdh", "ioreg"}
    BY <1>2
  <2>6. DOMAIN mem.ioreg = {"ns", "time", "primed", "servers"}
    BY <1>14
  <2> QED
    BY <2>1, <2>2, <2>3, <2>4, <2>5, <2>6 DEF MemoryOK
<1>7. PollOK
  <2>1. Observed(merged)
    BY <1>0 DEF Observed, Unknown
  <2> QED
    BY <1>0, <2>1 DEF PollOK
<1>8. AroundInv /\ VerdictInv /\ NvmlInv /\ RescanInv /\ NoUserOverlooked
  BY <1>0, <1>2 DEF AroundInv, VerdictInv, NvmlInv, RescanInv, NoUserOverlooked, Ended
<1>9. FirstFloor \in 0 .. Full /\ (host.os # "linux" => FirstFloor = 0)
  BY WorkAssumption DEF FirstFloor
<1>15. \A p \in Everybody : (floor[p] = IF p = Self THEN FirstFloor ELSE 0) /\ asked[p] = 0
  BY <1>18
<1>10. ClockInv
  <2>1. floor \in [Everybody -> 0 .. Full] /\ asked \in [Everybody -> 0 .. Full]
    BY <1>18, <1>9, WorkAssumption
  <2>2. \A p \in Everybody \ Present(w) : floor[p] = 0 /\ asked[p] = 0
    BY <1>4, <1>15
  <2>3. /\ \A k \in DOMAIN mem.drm : mem.drm[k].at <= 0
        /\ \A p \in DOMAIN mem.pdh : mem.pdh[p].at <= 0
    BY <1>2, <1>5, EmptyMap
  <2> QED
    BY <2>1, <2>2, <2>3, <1>0, <1>14, <1>18 DEF ClockInv
<1>11. DrmInv
  BY <1>0, <1>2, EmptyMap DEF DrmInv
<1>16. CASE host.os # "linux"
  <2>1. \A p \in Present(w) : floor[p] = 0
    BY <1>4, <1>9, <1>15, <1>16
  <2>2. Pdh!Instances(w, host) \subseteq Present(w)
    BY SameProcesses DEF Pdh!Instances
  <2>3. PdhInv
    BY <2>1, <2>2 DEF PdhInv
  <2>4. IoRegInv
    BY <2>1, <1>14 DEF IoRegInv
  <2> QED
    BY <2>3, <2>4, <1>3, <1>6, <1>7, <1>8, <1>10, <1>11 DEF IInv
<1>17. CASE host.os = "linux"
  BY <1>17, <1>3, <1>6, <1>7, <1>8, <1>10, <1>11 DEF IInv, PdhInv, IoRegInv
<1> QED
  BY <1>16, <1>17

-----------------------------------------------------------------------------
(* What the processes do.                                                  *)

LEMMA MinOfTwo ==
  ASSUME NEW a \in Int, NEW b \in Int
  PROVE  Min({a, b}) \in {a, b} /\ Min({a, b}) <= a /\ Min({a, b}) <= b
<1>1. \E x \in {a, b} : \A y \in {a, b} : x =< y
  BY SMT
<1> QED
  BY <1>1 DEF Min

LEMMA QuotientMonotone ==
  ASSUME NEW a \in Int, NEW b \in Int, a <= b, NEW m \in Nat, m > 0
  PROVE  a \div m \in Int /\ b \div m \in Int /\ a \div m <= b \div m
<1>1. a \div m \in Int /\ (a \div m) * m <= a
  BY QuotientAtMost
<1>2. (a \div m) * m <= b
  <2> DEFINE x == (a \div m) * m
  <2>1. x \in Int /\ x <= a
    BY <1>1
  <2> HIDE DEF x
  <2>2. x <= b
    BY <2>1
  <2> QED
    BY <2>2 DEF x
<1> QED
  BY <1>1, <1>2, QuotientAtLeast

LEMMA SelfIsThere == Self \in Everybody /\ \A x : Self \in Present(x)
BY DEF Everybody, Present

LEMMA ProcessesAreEverybody ==
  ASSUME WorldOK
  PROVE  Present(w) \subseteq Everybody /\ Users(w) \subseteq Present(w) /\ Users(w) \subseteq w.here
BY DEF WorldOK, Present, Everybody, Users

\* Who is summed up: every user, and ourselves where our stats are there.
LEMMA CountedFacts ==
  ASSUME WorldOK
  PROVE  /\ Users(w) \subseteq Counted /\ Counted \subseteq Users(w) \cup {Self}
         /\ Counted \subseteq Present(w) /\ Counted \subseteq Everybody
         /\ host.os = "linux" /\ ~Drm!HasStats(w, host, Self) => Self \notin Counted
<1>1. \A p \in Users(w) : p # Self
  BY OthersAssumption DEF WorldOK, Users
<1>2. Users(w) \subseteq Present(w) /\ Self \in Present(w) /\ Present(w) \subseteq Everybody
  BY ProcessesAreEverybody, SelfIsThere
<1> QED
  BY <1>1, <1>2 DEF Counted

LEMMA LesserWorkFacts ==
  ASSUME WorldOK, NEW least \in [Everybody -> 0 .. Full], NEW work \in [Present(w) -> Work],
         NEW p \in Everybody
  PROVE  /\ LesserWork(least, work) \in [Everybody -> 0 .. Full]
         /\ LesserWork(least, work)[p] <= least[p]
         /\ p \in Present(w) => LesserWork(least, work)[p] <= work[p] /\ work[p] \in 0 .. Full
         /\ p \notin Present(w) => LesserWork(least, work)[p] = 0
<1>1. Full \in Nat /\ Work \subseteq 0 .. Full
  BY WorkAssumption
<1>2. ASSUME NEW q \in Everybody, q \in Present(w)
      PROVE  /\ LesserWork(least, work)[q] \in 0 .. Full
             /\ LesserWork(least, work)[q] <= least[q] /\ LesserWork(least, work)[q] <= work[q]
             /\ work[q] \in 0 .. Full
  <2>1. LesserWork(least, work)[q] = Min({least[q], work[q]})
    BY <1>2 DEF LesserWork
  <2>2. work[q] \in 0 .. Full /\ least[q] \in 0 .. Full
    BY <1>1, <1>2
  <2>3. \A a, b \in Int : Min({a, b}) \in {a, b} /\ Min({a, b}) <= a /\ Min({a, b}) <= b
    BY MinOfTwo
  <2>4. least[q] \in Int /\ work[q] \in Int
    BY <2>2, <1>1
  <2>5. /\ Min({least[q], work[q]}) \in {least[q], work[q]}
        /\ Min({least[q], work[q]}) <= least[q] /\ Min({least[q], work[q]}) <= work[q]
    BY <2>3, <2>4
  <2> QED
    BY <2>1, <2>2, <2>5
<1>3. ASSUME NEW q \in Everybody, q \notin Present(w)
      PROVE  LesserWork(least, work)[q] = 0 /\ 0 \in 0 .. Full /\ least[q] >= 0
  BY <1>1, <1>3 DEF LesserWork
<1>4. LesserWork(least, work) \in [Everybody -> 0 .. Full]
  <2>1. \A q \in Everybody : LesserWork(least, work)[q] \in 0 .. Full
    BY <1>2, <1>3
  <2>2. LesserWork(least, work) = [q \in Everybody |-> LesserWork(least, work)[q]]
    BY DEF LesserWork
  <2> QED
    BY <2>1, <2>2
<1> QED
  BY <1>2, <1>3, <1>4

\* The work of one more unit of time stands for what is the least now.
LEMMA SinceWorkedOn ==
  ASSUME WorldOK, NEW least \in [Everybody -> 0 .. Full], NEW work \in [Present(w) -> Work],
         NEW p \in Present(w), NEW used \in Int, NEW at \in Int, at <= w.clock,
         Since(least, p, used, at), LesserWork(least, work)[p] > 0
  PROVE  (w.used[p] + work[p]) - used >= LesserWork(least, work)[p] * ((w.clock + 1) - at)
<1> DEFINE g == LesserWork(least, work)[p]
           f == least[p]
           d == w.used[p] - used
           t == w.clock - at
<1>1. p \in Everybody /\ Full \in Nat
  BY ProcessesAreEverybody, WorkAssumption
<1>2. /\ LesserWork(least, work) \in [Everybody -> 0 .. Full]
      /\ LesserWork(least, work)[p] <= least[p]
      /\ LesserWork(least, work)[p] <= work[p] /\ work[p] \in 0 .. Full
  BY <1>1, LesserWorkFacts
<1>3. f \in Nat /\ g \in Nat /\ work[p] \in Nat /\ g <= f /\ g <= work[p] /\ f > 0
  BY <1>1, <1>2
<1>4. w.used[p] \in Int /\ w.clock \in Nat
  BY <1>1 DEF WorldOK
<1>5. d \in Int /\ t \in Nat
  BY <1>4
<1>6. d >= f * t
  BY <1>3 DEF Since
<1>7. t + 1 = (w.clock + 1) - at /\ (w.used[p] + work[p]) - used = d + work[p]
  BY <1>3, <1>4
<1> HIDE DEF d, t, f, g
<1>8. d + work[p] >= g * (t + 1)
  BY <1>3, <1>5, <1>6, WorkAddsUp
<1> QED
  BY <1>7, <1>8 DEF g

LEMMA ElapseKeepsIInv == IInv /\ Elapse => IInv'
<1> SUFFICES ASSUME IInv, Elapse PROVE IInv'
  OBVIOUS
<1>1. PICK work \in [Present(w) -> Work] :
        /\ w' = [w EXCEPT !.clock = @ + 1,
                          !.used = [p \in Everybody |-> IF p \in Present(w) THEN @[p] + work[p] ELSE 0]]
        /\ floor' = LesserWork(floor, work)
        /\ asked' = IF step = "rescan" THEN LesserWork(asked, work) ELSE asked
  BY DEF Elapse
<1>2. /\ step \in {"wait", "rescan"}
      /\ UNCHANGED <<host, mem, step, todo, merged, scan, failed, around>>
  BY DEF Elapse
<1>3. WorldOK
  BY DEF IInv
<1>4. Present(w) \subseteq Everybody /\ Users(w) \subseteq Present(w) /\ Full \in Nat
  BY <1>3, ProcessesAreEverybody, WorkAssumption
<1>5. \A p \in Present(w) : w.used[p] \in Int /\ work[p] \in Nat /\ w.used[p] + work[p] \in Int
  <2> TAKE p \in Present(w)
  <2>1. w.used[p] \in Int
    BY <1>3, <1>4 DEF WorldOK
  <2>2. work[p] \in Nat
    <3>1. Work \subseteq 0 .. Full /\ 0 .. Full \subseteq Nat
      BY <1>4, WorkAssumption
    <3> QED
      BY <3>1
  <2> QED
    BY <2>1, <2>2
<1>6. /\ w'.here = w.here /\ w'.kind = w.kind /\ w'.client = w.client /\ w'.clock = w.clock + 1
      /\ w'.used = [p \in Everybody |-> IF p \in Present(w) THEN w.used[p] + work[p] ELSE 0]
      /\ w' \in [here : SUBSET Others, kind : [Others -> Kinds], client : [Others -> 0 .. 2],
                 used : [Everybody -> Int], clock : Nat]
  <2> DEFINE u == [p \in Everybody |-> IF p \in Present(w) THEN w.used[p] + work[p] ELSE 0]
  <2>1. u \in [Everybody -> Int]
    BY <1>5
  <2>2. w' = [w EXCEPT !.clock = w.clock + 1, !.used = u]
    BY <1>1
  <2> HIDE DEF u
  <2>3. w' = [here |-> w.here, kind |-> w.kind, client |-> w.client, used |-> u, clock |-> w.clock + 1]
    BY <2>2, <1>3 DEF WorldOK
  <2>4. w.clock + 1 \in Nat
    BY <1>3 DEF WorldOK
  <2> QED
    BY <2>1, <2>3, <2>4, <1>3 DEF WorldOK, u
<1>7. Present(w') = Present(w) /\ Users(w') = Users(w)
  BY <1>6 DEF Present, Users
<1>8. \A p \in Everybody : /\ Drm!Client(w', host', p) = Drm!Client(w, host, p)
                           /\ Drm!HasStats(w', host', p) = Drm!HasStats(w, host, p)
  BY <1>2, <1>6 DEF Drm!Client, Drm!HasStats, Drm!KindOf
<1>9. Pdh!Instances(w', host') = Pdh!Instances(w, host)
  BY <1>2, <1>6 DEF Pdh!Instances, Pdh!Present, Pdh!KindOf
<1>10. WorldOK' /\ MemoryOK' /\ PollOK' /\ AroundInv' /\ VerdictInv' /\ NvmlInv'
  <2>1. WorldOK'
    BY <1>2, <1>3, <1>6 DEF WorldOK
  <2>2. MemoryOK' /\ PollOK'
    BY <1>2 DEF IInv, MemoryOK, PollOK, Rests
  <2>3. AroundInv'
    BY <1>2, <1>7 DEF IInv, AroundInv
  <2>4. VerdictInv' /\ NvmlInv'
    BY <1>2 DEF IInv, VerdictInv, Told, Seen, ByNvml, NvmlInv
  <2> QED
    BY <2>1, <2>2, <2>3, <2>4
<1>11. floor \in [Everybody -> 0 .. Full] /\ asked \in [Everybody -> 0 .. Full]
  BY DEF IInv, ClockInv
<1>12. \A p \in Present(w), used, at \in Int :
         at <= w.clock /\ Since(floor, p, used, at) => Since(floor, p, used, at)'
  <2> SUFFICES ASSUME NEW p \in Present(w), NEW used \in Int, NEW at \in Int,
                      at <= w.clock, Since(floor, p, used, at), floor'[p] > 0
               PROVE  w'.used[p] - used >= floor'[p] * (w'.clock - at)
    BY DEF Since
  <2>1. w'.used[p] = w.used[p] + work[p] /\ w'.clock = w.clock + 1
    BY <1>4, <1>6
  <2>2. LesserWork(floor, work)[p] > 0
    BY <1>1
  <2> QED
    BY <2>1, <2>2, <1>1, <1>3, <1>11, SinceWorkedOn
<1>13. ASSUME step = "rescan"
       PROVE  /\ \A p \in Present(w) : asked'[p] \in Nat /\ asked'[p] <= asked[p]
              /\ \A p \in Present(w), used, at \in Int :
                   at <= w.clock /\ Since(asked, p, used, at) => Since(asked, p, used, at)'
  <2>1. asked' = LesserWork(asked, work)
    BY <1>1, <1>13
  <2>2. ASSUME NEW p \in Present(w)
        PROVE  asked'[p] \in Nat /\ asked'[p] <= asked[p]
    <3>1. p \in Everybody
      BY <1>4
    <3> QED
      BY <3>1, <2>1, <1>3, <1>4, <1>11, LesserWorkFacts
  <2>3. ASSUME NEW p \in Present(w), NEW used \in Int, NEW at \in Int,
               at <= w.clock, Since(asked, p, used, at), asked'[p] > 0
        PROVE  w'.used[p] - used >= asked'[p] * (w'.clock - at)
    <3>1. w'.used[p] = w.used[p] + work[p] /\ w'.clock = w.clock + 1
      BY <1>4, <1>6
    <3>2. LesserWork(asked, work)[p] > 0
      BY <2>1, <2>3
    <3> QED
      BY <3>1, <3>2, <2>1, <2>3, <1>3, <1>11, SinceWorkedOn
  <2> QED
    BY <2>2, <2>3 DEF Since
<1>14. ClockInv'
  <2>1. floor' \in [Everybody -> 0 .. Full] /\ \A p \in Everybody \ Present(w') : floor'[p] = 0
    <3>1. \A p \in Everybody : /\ LesserWork(floor, work) \in [Everybody -> 0 .. Full]
                               /\ p \notin Present(w) => LesserWork(floor, work)[p] = 0
      BY <1>3, <1>11, LesserWorkFacts
    <3> QED
      BY <3>1, <1>1, <1>7, SelfIsThere
  <2>2. asked' \in [Everybody -> 0 .. Full] /\ \A p \in Everybody \ Present(w') : asked'[p] = 0
    <3>1. CASE step = "rescan"
      <4>1. \A p \in Everybody : /\ LesserWork(asked, work) \in [Everybody -> 0 .. Full]
                                 /\ p \notin Present(w) => LesserWork(asked, work)[p] = 0
        BY <1>3, <1>11, LesserWorkFacts
      <4> QED
        BY <4>1, <3>1, <1>1, <1>7, SelfIsThere
    <3>2. CASE step # "rescan"
      BY <3>2, <1>1, <1>7 DEF IInv, ClockInv
    <3> QED
      BY <3>1, <3>2
  <2>3. step' \in {"wait", "sample"} => asked' = [p \in Everybody |-> 0]
    BY <1>1, <1>2 DEF IInv, ClockInv
  <2>4. step' # "wait" => w'.clock > 0
    BY <1>3, <1>6 DEF WorldOK
  <2>5. /\ \A k \in DOMAIN mem'.drm : mem'.drm[k].at <= (IF step' = "end" THEN w'.clock ELSE 0)
        /\ \A p \in DOMAIN mem'.pdh : mem'.pdh[p].at <= (IF step' = "end" THEN w'.clock ELSE 0)
        /\ mem'.ioreg.primed => mem'.ioreg.time <= (IF step' = "end" THEN w'.clock ELSE 0)
    BY <1>2 DEF IInv, ClockInv
  <2> QED
    BY <2>1, <2>2, <2>3, <2>4, <2>5 DEF ClockInv
<1>15. DrmInv'
  <2>1. step' # "end" => \A k \in DOMAIN mem'.drm : k[2] = 0
    BY <1>2 DEF IInv, DrmInv
  <2>2. ASSUME step # "rescan", host.os = "linux", Drm!HasNode(host), NEW p \in Present(w),
               Drm!Client(w, host, p) \in DOMAIN mem.drm
        PROVE  Since(floor, p, mem.drm[Drm!Client(w, host, p)].used,
                     mem.drm[Drm!Client(w, host, p)].at)'
    <3> DEFINE k == Drm!Client(w, host, p)
    <3>1. Since(floor, p, mem.drm[k].used, mem.drm[k].at)
      BY <2>2 DEF IInv, DrmInv
    <3>2. mem.drm[k].used \in Int /\ mem.drm[k].at \in Int
      BY <2>2 DEF IInv, MemoryOK, Map, Readout
    <3>3. mem.drm[k].at <= w.clock
      <4>1. step # "end" /\ w.clock \in Nat
        BY <1>2, <1>3 DEF WorldOK
      <4>2. mem.drm[k].at <= 0
        BY <4>1, <2>2 DEF IInv, ClockInv
      <4> QED
        BY <4>1, <4>2, <3>2
    <3>4. \A used, at \in Int : at <= w.clock /\ Since(floor, p, used, at) => Since(floor, p, used, at)'
      BY <1>12, <2>2
    <3>5. k' = k /\ mem' = mem
      BY <1>2, <1>4, <1>8, <2>2
    <3> HIDE DEF k
    <3>6. Since(floor, p, mem.drm[k].used, mem.drm[k].at)'
      BY <3>1, <3>2, <3>3, <3>4, <3>5 DEF Since
    <3> QED
      BY <3>5, <3>6 DEF k
  <2> QED
    BY <2>1, <2>2, <1>2, <1>4, <1>7, <1>8 DEF IInv, DrmInv
<1>16. RescanInv'
  <2> SUFFICES ASSUME step = "rescan"
               PROVE  RescanInv'
    BY <1>2 DEF RescanInv
  <2>1. /\ DOMAIN scan = {"next", "fresh", "usage"}
        /\ Map(scan.next, Clients, Readout)
        /\ scan.fresh \subseteq DOMAIN scan.next
        /\ Map(scan.usage, Clients, Usage)
        /\ \A k, l \in DOMAIN scan.next : scan.next[k].at = scan.next[l].at /\ (k[1] = l[1] => k = l)
        /\ \A k \in DOMAIN scan.next : scan.next[k].at <= w.clock
    BY DEF IInv, RescanInv
  <2>2. \A k \in DOMAIN scan.next : scan.next[k].at \in Int /\ scan.next[k].used \in Int
    BY <2>1 DEF Map, Readout
  <2>3. \A k \in DOMAIN scan.next : scan.next[k].at <= w'.clock
    BY <2>1, <2>2, <1>3, <1>6 DEF WorldOK
  <2>4. ASSUME NEW p \in Present(w), Drm!Client(w, host, p) \in DOMAIN scan.next
        PROVE  Since(floor, p, scan.next[Drm!Client(w, host, p)].used,
                     scan.next[Drm!Client(w, host, p)].at)'
    <3> DEFINE k == Drm!Client(w, host, p)
    <3>1. Since(floor, p, scan.next[k].used, scan.next[k].at)
      BY <2>4 DEF IInv, RescanInv
    <3>2. k' = k /\ scan' = scan
      BY <1>2, <1>4, <1>8, <2>4
    <3> HIDE DEF k
    <3>3. k \in DOMAIN scan.next
      BY <2>4 DEF k
    <3>4. Since(floor, p, scan.next[k].used, scan.next[k].at)'
      BY <3>1, <3>2, <3>3, <2>1, <2>2, <2>4, <1>12 DEF Since
    <3> QED
      BY <3>2, <3>4 DEF k
  <2>5. ASSUME NEW p \in Counted, asked'[p] > 0
        PROVE  Counts(p)'
    <3> DEFINE k == Drm!Client(w, host, p)
    <3>0. p \in Present(w)
      BY <1>3, CountedFacts
    <3>1. p \in Present(w) /\ asked[p] > 0 /\ asked'[p] <= asked[p] /\ asked'[p] \in Nat
      BY <3>0, <2>5, <1>4, <1>11, <1>13
    <3>2. Counts(p)
      BY <2>5, <3>1 DEF IInv, RescanInv
    <3>3. k' = k /\ scan' = scan /\ Drm!HasStats(w, host, p)' = Drm!HasStats(w, host, p)
      BY <1>2, <1>4, <1>8, <3>1
    <3>4. CASE ~Drm!HasStats(w, host, p)
      BY <3>2, <3>3, <3>4 DEF Counts
    <3>5. CASE Drm!HasStats(w, host, p) /\ k \in scan.fresh
      <4>1. k \in DOMAIN scan.next /\ Since(asked, p, scan.next[k].used, scan.next[k].at)
        BY <3>2, <3>5 DEF Counts
      <4> HIDE DEF k
      <4>2. Since(asked, p, scan.next[k].used, scan.next[k].at)'
        BY <4>1, <3>1, <3>3, <2>1, <2>2, <1>13 DEF Since
      <4> QED
        BY <4>1, <4>2, <3>3, <3>5 DEF Counts, k
    <3>6. CASE Drm!HasStats(w, host, p) /\ k \notin scan.fresh
      <4>1. k \in DOMAIN scan.next /\ k \in DOMAIN scan.usage /\ scan.usage[k] >= Percent(p)
        BY <3>2, <3>6 DEF Counts
      <4> HIDE DEF k
      <4>2. Percent(p)' <= Percent(p) /\ Percent(p) \in Int /\ Percent(p)' \in Int
        <5> DEFINE a == 100 * asked'[p]  b == 100 * asked[p]
        <5>1. a \in Int /\ b \in Int /\ a <= b
          BY <3>1, <1>4, <1>11
        <5>2. Full \in Nat /\ Full > 0
          BY WorkAssumption
        <5> HIDE DEF a, b
        <5>3. a \div Full \in Int /\ b \div Full \in Int /\ a \div Full <= b \div Full
          BY <5>1, <5>2, QuotientMonotone
        <5> QED
          BY <5>3 DEF Percent, a, b
      <4>3. scan.usage[k] \in Int
        BY <4>1, <2>1 DEF Map, Usage, Unmeasured
      <4>4. scan.usage[k] >= Percent(p)'
        BY <4>1, <4>2, <4>3
      <4> QED
        BY <4>1, <4>4, <3>3, <3>6 DEF Counts, k
    <3> QED
      BY <3>4, <3>5, <3>6
  <2>6. step' = step /\ scan' = scan
    BY <1>2
  <2>7. \A p \in Present(w) : Drm!Client(w, host, p)' = Drm!Client(w, host, p)
    BY <1>4, <1>8
  <2>8. Counted' = Counted
    <3>1. Drm!HasStats(w, host, Self)' = Drm!HasStats(w, host, Self)
      BY <1>2, <1>8, SelfIsThere
    <3> QED
      BY <3>1, <1>2, <1>7 DEF Counted
  <2> QED
    BY <2>1, <2>3, <2>4, <2>5, <2>6, <2>7, <2>8, <1>7 DEF RescanInv
<1>17. PdhInv'
  <2>1. ASSUME host.os = "windows", host.pdh, NEW p \in Pdh!Instances(w, host), floor'[p] > 0
        PROVE  p \in DOMAIN mem.pdh /\ Since(floor, p, mem.pdh[p].used, mem.pdh[p].at)'
    <3>1. p \in Present(w) /\ step = "wait"
      BY <1>2, <2>1, SameProcesses DEF Pdh!Instances, IInv, PollOK
    <3>2. floor[p] > 0
      <4>1. p \in Everybody
        BY <3>1, <1>4
      <4>2. LesserWork(floor, work) \in [Everybody -> 0 .. Full] /\ LesserWork(floor, work)[p] <= floor[p]
        BY <4>1, <1>3, <1>11, LesserWorkFacts
      <4> QED
        BY <4>1, <4>2, <2>1, <1>1, <1>4, <1>11
    <3>3. p \in DOMAIN mem.pdh /\ Since(floor, p, mem.pdh[p].used, mem.pdh[p].at)
      BY <2>1, <3>2 DEF IInv, PdhInv
    <3>4. mem.pdh[p].used \in Int /\ mem.pdh[p].at \in Int
      BY <3>3 DEF IInv, MemoryOK, Map, Readout
    <3>5. mem.pdh[p].at <= w.clock
      BY <3>1, <3>3, <3>4, <1>3 DEF IInv, ClockInv, WorldOK
    <3>6. Since(floor, p, mem.pdh[p].used, mem.pdh[p].at)'
      BY <3>1, <3>3, <3>4, <3>5, <1>2, <1>12 DEF Since
    <3> QED
      BY <3>3, <3>6
  <2> QED
    BY <2>1, <1>2, <1>9 DEF PdhInv
<1>18. IoRegInv'
  <2>1. ASSUME host.os = "macos", NEW p \in Present(w), floor'[p] > 0
        PROVE  /\ mem.ioreg.primed /\ p \in DOMAIN mem.ioreg.ns
               /\ Since(floor, p, mem.ioreg.ns[p], mem.ioreg.time)'
    <3>1. p \in Everybody /\ step = "wait"
      BY <1>2, <1>4, <2>1 DEF IInv, PollOK
    <3>2. floor[p] > 0
      <4>1. LesserWork(floor, work) \in [Everybody -> 0 .. Full] /\ LesserWork(floor, work)[p] <= floor[p]
        BY <3>1, <1>3, <1>11, LesserWorkFacts
      <4> QED
        BY <3>1, <4>1, <2>1, <1>1, <1>4, <1>11
    <3>3. /\ mem.ioreg.primed /\ p \in DOMAIN mem.ioreg.ns
          /\ Since(floor, p, mem.ioreg.ns[p], mem.ioreg.time)
      BY <2>1, <3>2 DEF IInv, IoRegInv
    <3>4. mem.ioreg.ns[p] \in Int /\ mem.ioreg.time \in Int
      BY <3>3 DEF IInv, MemoryOK, Map
    <3>5. mem.ioreg.time <= w.clock
      BY <3>1, <3>3, <3>4, <1>3 DEF IInv, ClockInv, WorldOK
    <3>6. Since(floor, p, mem.ioreg.ns[p], mem.ioreg.time)'
      BY <2>1, <3>3, <3>4, <3>5, <1>2, <1>12 DEF Since
    <3> QED
      BY <3>3, <3>6
  <2> QED
    BY <2>1, <1>2, <1>6, <1>7 DEF IInv, IoRegInv
<1>19. NoUserOverlooked'
  BY <1>2 DEF NoUserOverlooked, Ended
<1> QED
  BY <1>10, <1>14, <1>15, <1>16, <1>17, <1>18, <1>19 DEF IInv

HasLeast(A) == A = {} \/ \E x \in A : \A y \in A : x =< y

LEMMA LeastOfOne ==
  ASSUME NEW A, A \subseteq Int, \A x, y \in A : x = y
  PROVE  HasLeast(A)
BY DEF HasLeast

LEMMA LeastOfBoth ==
  ASSUME NEW A, NEW B, A \subseteq Int, B \subseteq Int, HasLeast(A), HasLeast(B)
  PROVE  HasLeast(A \cup B)
<1>1. CASE A = {} \/ B = {}
  BY <1>1 DEF HasLeast
<1>2. CASE A # {} /\ B # {}
  <2>1. PICK x \in A : \A z \in A : x =< z
    BY <1>2 DEF HasLeast
  <2>2. PICK y \in B : \A z \in B : y =< z
    BY <1>2 DEF HasLeast
  <2>3. CASE x =< y
    BY <2>1, <2>2, <2>3 DEF HasLeast
  <2>4. CASE ~(x =< y)
    BY <2>1, <2>2, <2>4 DEF HasLeast
  <2> QED
    BY <2>3, <2>4
<1> QED
  BY <1>1, <1>2

\* Every source holds at most one reading of a process between two polls.
LEMMA HeldHasLeast ==
  ASSUME IInv, step # "end", NEW p \in Others
  PROVE  Min(Held(p) \cup {0}) \in Int
<1> DEFINE A == {mem.drm[k].used : k \in {k \in DOMAIN mem.drm : k[1] = p}}
           B == {scan.next[k].used : k \in {k \in DOMAIN scan.next : k[1] = p}}
           C == {mem.pdh[q].used : q \in {p} \cap DOMAIN mem.pdh}
           D == {mem.ioreg.ns[q] : q \in {p} \cap DOMAIN mem.ioreg.ns}
<1>1. A \subseteq Int /\ HasLeast(A)
  <2>1. \A k \in DOMAIN mem.drm : k \in Clients /\ mem.drm[k].used \in Int /\ k[2] = 0
    BY DEF IInv, MemoryOK, Map, Readout, DrmInv
  <2>2. \A k, l \in DOMAIN mem.drm : k[1] = l[1] => k = l
    BY <2>1 DEF Clients
  <2> QED
    BY <2>1, <2>2, LeastOfOne
<1>2. B \subseteq Int /\ HasLeast(B)
  <2>1. CASE step = "rescan"
    <3>1. \A k \in DOMAIN scan.next : scan.next[k].used \in Int
      BY <2>1 DEF IInv, RescanInv, Map, Readout
    <3>2. \A k, l \in DOMAIN scan.next : k[1] = l[1] => k = l
      BY <2>1 DEF IInv, RescanInv
    <3> QED
      BY <3>1, <3>2, LeastOfOne
  <2>2. CASE step # "rescan"
    <3>1. DOMAIN scan.next = {}
      BY <2>2, EmptyMap DEF IInv, DrmInv, NoScan
    <3>2. B = {}
      BY <3>1
    <3> QED
      BY <3>2 DEF HasLeast
  <2> QED
    BY <2>1, <2>2
<1>3. C \subseteq Int /\ HasLeast(C)
  <2>1. \A q \in DOMAIN mem.pdh : mem.pdh[q].used \in Int
    BY DEF IInv, MemoryOK, Map, Readout
  <2> QED
    BY <2>1, LeastOfOne
<1>4. D \subseteq Int /\ HasLeast(D)
  <2>1. \A q \in DOMAIN mem.ioreg.ns : mem.ioreg.ns[q] \in Int
    BY DEF IInv, MemoryOK, Map
  <2> QED
    BY <2>1, LeastOfOne
<1>5. Held(p) \cup {0} = ((A \cup B) \cup (C \cup D)) \cup {0}
  BY DEF Held
<1> HIDE DEF A, B, C, D
<1>6. A \cup B \subseteq Int /\ HasLeast(A \cup B)
  BY <1>1, <1>2, LeastOfBoth
<1>7. C \cup D \subseteq Int /\ HasLeast(C \cup D)
  BY <1>3, <1>4, LeastOfBoth
<1>8. (A \cup B) \cup (C \cup D) \subseteq Int /\ HasLeast((A \cup B) \cup (C \cup D))
  BY <1>6, <1>7, LeastOfBoth
<1>9. {0} \subseteq Int /\ HasLeast({0})
  BY DEF HasLeast
<1>10. Held(p) \cup {0} \subseteq Int /\ HasLeast(Held(p) \cup {0})
  BY <1>5, <1>8, <1>9, LeastOfBoth
<1>11. \E x \in Held(p) \cup {0} : \A y \in Held(p) \cup {0} : x =< y
  BY <1>10 DEF HasLeast
<1> QED
  BY <1>10, <1>11 DEF Min

\* There is a number that no client of the process has been read with.
LEMMA FreshNumber ==
  ASSUME IInv, step # "end", NEW p \in Others
  PROVE  \E n \in 0 .. 2 : <<p, n>> \notin DOMAIN mem.drm \cup DOMAIN scan.next
<1>1. <<p, 1>> \notin DOMAIN mem.drm /\ <<p, 2>> \notin DOMAIN mem.drm
  BY DEF IInv, DrmInv
<1>2. CASE step = "rescan"
  <2>1. \A k, l \in DOMAIN scan.next : k[1] = l[1] => k = l
    BY <1>2 DEF IInv, RescanInv
  <2>2. <<p, 1>> # <<p, 2>> /\ <<p, 1>>[1] = <<p, 2>>[1]
    OBVIOUS
  <2>3. <<p, 1>> \notin DOMAIN scan.next \/ <<p, 2>> \notin DOMAIN scan.next
    BY <2>1, <2>2
  <2> QED
    BY <1>1, <2>3
<1>3. CASE step # "rescan"
  <2>1. DOMAIN scan.next = {}
    BY <1>3, EmptyMap DEF IInv, DrmInv, NoScan
  <2> QED
    BY <1>1, <2>1
<1> QED
  BY <1>2, <1>3

LEMMA EnterKeepsIInv ==
  ASSUME NEW p \in Others, IInv, Enter(p)
  PROVE  IInv'
<1>1. PICK kind \in (IF host.os = "macos" /\ p \in mem.ioreg.servers THEN {"graphics"} ELSE host.kinds),
           below \in (IF Held(p) = {} THEN {0} ELSE {0, Full}) :
        w' = [w EXCEPT !.here = @ \cup {p}, !.kind[p] = kind,
                       !.client[p] = IF host.ids
                                     THEN CHOOSE n \in 0 .. 2 : <<p, n>> \notin DOMAIN mem.drm \cup DOMAIN scan.next
                                     ELSE 0,
                       !.used[p] = Min(Held(p) \cup {0}) - below]
  BY DEF Enter
<1>2. /\ step # "end" /\ p \notin w.here
      /\ around' = around \cup (IF step = "wait" THEN {} ELSE Users(w'))
      /\ floor' = [floor EXCEPT ![p] = FirstFloor]
      /\ UNCHANGED <<host, mem, step, todo, merged, scan, failed, asked>>
  BY DEF Enter
<1>3. WorldOK /\ Full \in Nat
  BY WorkAssumption DEF IInv
<1>4. p # Self /\ p \in Everybody /\ p \notin Present(w)
  BY <1>2, OthersAssumption DEF Everybody, Present
<1> DEFINE number == IF host.ids
                     THEN CHOOSE n \in 0 .. 2 : <<p, n>> \notin DOMAIN mem.drm \cup DOMAIN scan.next
                     ELSE 0
           started == Min(Held(p) \cup {0}) - below
<1>5. /\ number \in 0 .. 2
      /\ host.ids => <<p, number>> \notin DOMAIN mem.drm \cup DOMAIN scan.next
  <2>1. \E n \in 0 .. 2 : <<p, n>> \notin DOMAIN mem.drm \cup DOMAIN scan.next
    BY <1>2, FreshNumber
  <2> QED
    BY <2>1
<1>6. started \in Int
  BY <1>2, <1>3, HeldHasLeast
<1>7. kind \in Kinds /\ kind \in host.kinds \cup {"graphics"}
  BY <1>3, HostFacts DEF Kinds
<1>8. w' = [w EXCEPT !.here = w.here \cup {p}, !.kind = [w.kind EXCEPT ![p] = kind],
                     !.client = [w.client EXCEPT ![p] = number],
                     !.used = [w.used EXCEPT ![p] = started]]
  BY <1>1
<1> HIDE DEF number, started
<1>9. /\ w' = [here |-> w.here \cup {p}, kind |-> [w.kind EXCEPT ![p] = kind],
               client |-> [w.client EXCEPT ![p] = number],
               used |-> [w.used EXCEPT ![p] = started], clock |-> w.clock]
  BY <1>3, <1>8 DEF WorldOK
<1>10. /\ w'.here = w.here \cup {p} /\ w'.clock = w.clock
       /\ w'.kind \in [Others -> Kinds] /\ w'.client \in [Others -> 0 .. 2] /\ w'.used \in [Everybody -> Int]
       /\ w'.kind[p] = kind /\ w'.client[p] = number
       /\ \A q \in Others : q # p => w'.kind[q] = w.kind[q] /\ w'.client[q] = w.client[q]
       /\ \A q \in Everybody : q # p => w'.used[q] = w.used[q]
  BY <1>3, <1>4, <1>5, <1>6, <1>7, <1>9 DEF WorldOK
<1>11. w' \in [here : SUBSET Others, kind : [Others -> Kinds], client : [Others -> 0 .. 2],
               used : [Everybody -> Int], clock : Nat]
  BY <1>3, <1>9, <1>10 DEF WorldOK
<1>12. /\ Present(w') = Present(w) \cup {p} /\ Users(w) \subseteq Users(w')
       /\ Users(w') \subseteq Users(w) \cup {p} /\ Present(w) \subseteq Everybody
       /\ Users(w') \subseteq w'.here /\ w'.here \subseteq Others
  <2>1. \A q \in w.here : q \in Others /\ q # p
    BY <1>2, <1>3 DEF WorldOK
  <2> QED
    BY <2>1, <1>3, <1>10, ProcessesAreEverybody DEF Present, Users
<1>13. /\ floor \in [Everybody -> 0 .. Full] /\ asked \in [Everybody -> 0 .. Full]
       /\ FirstFloor \in 0 .. Full
       /\ FirstFloor > 0 => host.os = "linux" /\ host.ids /\ Drm!HasNode(host)
       /\ floor' \in [Everybody -> 0 .. Full] /\ floor'[p] = FirstFloor
       /\ \A q \in Everybody : q # p => floor'[q] = floor[q]
       /\ asked' = asked /\ asked[p] = 0
  <2>1. floor \in [Everybody -> 0 .. Full] /\ asked \in [Everybody -> 0 .. Full] /\ asked[p] = 0
    BY <1>4 DEF IInv, ClockInv
  <2>2. /\ FirstFloor \in 0 .. Full
        /\ FirstFloor > 0 => host.os = "linux" /\ host.ids /\ Drm!HasNode(host)
    BY <1>3 DEF FirstFloor
  <2> QED
    BY <2>1, <2>2, <1>2, <1>4
<1>14. \A q \in Everybody : q # p =>
         /\ Drm!Client(w', host', q) = Drm!Client(w, host, q)
         /\ Drm!HasStats(w', host', q) <=> Drm!HasStats(w, host, q)
         /\ Drm!Client(w, host, q)[1] = q
         /\ \A used, at : Since(floor, q, used, at) => Since(floor, q, used, at)'
         /\ \A used, at : Since(asked, q, used, at) => Since(asked, q, used, at)'
  <2> TAKE q \in Everybody
  <2> HAVE q # p
  <2>1. q = Self \/ (q \in Others /\ w'.kind[q] = w.kind[q] /\ w'.client[q] = w.client[q])
    BY <1>10 DEF Everybody
  <2>2. Drm!Client(w', host', q) = Drm!Client(w, host, q) /\ Drm!Client(w, host, q)[1] = q
    BY <2>1, <1>2, SameSelf DEF Drm!Client
  <2>3. Drm!HasStats(w', host', q) <=> Drm!HasStats(w, host, q)
    BY <2>1, <1>2, SameSelf DEF Drm!HasStats, Drm!KindOf
  <2>4. w'.used[q] = w.used[q] /\ w'.clock = w.clock /\ floor'[q] = floor[q] /\ asked'[q] = asked[q]
    BY <1>10, <1>13
  <2> QED
    BY <2>2, <2>3, <2>4 DEF Since
<1>15. /\ Drm!Client(w', host', p) = <<p, IF host.ids THEN number ELSE 0>>
       /\ host.ids => Drm!Client(w', host', p) \notin DOMAIN mem.drm \cup DOMAIN scan.next
  BY <1>2, <1>4, <1>5, <1>10, SameSelf DEF Drm!Client
<1>16. Pdh!Instances(w', host') \subseteq Pdh!Instances(w, host) \cup {p}
  <2>1. \A q \in Present(w) : q # p /\ Pdh!KindOf(w', host', q) = Pdh!KindOf(w, host, q)
    BY <1>2, <1>3, <1>4, <1>10, SameSelf DEF Pdh!KindOf, Present, WorldOK
  <2> QED
    BY <2>1, <1>2, <1>12, SameProcesses DEF Pdh!Instances
<1>17. WorldOK'
  <2>1. \A q \in w'.here : w'.kind[q] \in host'.kinds \cup {"graphics"}
    BY <1>2, <1>3, <1>7, <1>10 DEF WorldOK
  <2>2. around' \subseteq Others
    BY <1>2, <1>3, <1>12 DEF WorldOK
  <2> QED
    BY <2>1, <2>2, <1>2, <1>3, <1>11 DEF WorldOK
<1>18. MemoryOK' /\ PollOK' /\ VerdictInv'
  BY <1>2 DEF IInv, MemoryOK, PollOK, Rests, VerdictInv, Told, Seen, ByNvml
<1>19. AroundInv'
  BY <1>2, <1>12 DEF IInv, AroundInv
<1>20. ClockInv'
  <2>1. \A q \in Everybody \ Present(w') : floor'[q] = 0 /\ asked'[q] = 0
    BY <1>12, <1>13 DEF IInv, ClockInv
  <2>2. asked' \in [Everybody -> 0 .. Full] /\ (step' \in {"wait", "sample"} => asked' = [q \in Everybody |-> 0])
    BY <1>2, <1>13 DEF IInv, ClockInv
  <2>3. /\ step' # "wait" => w'.clock > 0
        /\ \A k \in DOMAIN mem'.drm : mem'.drm[k].at <= (IF step' = "end" THEN w'.clock ELSE 0)
        /\ \A q \in DOMAIN mem'.pdh : mem'.pdh[q].at <= (IF step' = "end" THEN w'.clock ELSE 0)
        /\ mem'.ioreg.primed => mem'.ioreg.time <= (IF step' = "end" THEN w'.clock ELSE 0)
    BY <1>2, <1>10 DEF IInv, ClockInv
  <2> QED
    BY <2>1, <2>2, <2>3, <1>13 DEF ClockInv
<1>21. DrmInv'
  <2>1. ASSUME step # "rescan", host.os = "linux", Drm!HasNode(host), NEW q \in Present(w'),
               Drm!Client(w', host', q) \in DOMAIN mem.drm
        PROVE  Since(floor, q, mem.drm[Drm!Client(w, host, q)].used, mem.drm[Drm!Client(w, host, q)].at)'
    <3>1. CASE q = p
      <4>1. ~(floor'[p] > 0)
        BY <2>1, <3>1, <1>13, <1>15
      <4> QED
        BY <4>1, <3>1 DEF Since
    <3>2. CASE q # p
      <4> DEFINE k == Drm!Client(w, host, q)
      <4>1. q \in Present(w) /\ q \in Everybody /\ Drm!Client(w', host', q) = k
        BY <2>1, <3>2, <1>12, <1>14
      <4>2. Since(floor, q, mem.drm[k].used, mem.drm[k].at)
        BY <2>1, <4>1 DEF IInv, DrmInv
      <4> HIDE DEF k
      <4>3. \A used, at : Since(floor, q, used, at) => Since(floor, q, used, at)'
        BY <3>2, <4>1, <1>14
      <4> QED
        BY <4>1, <4>2, <4>3, <1>2 DEF Since
    <3> QED
      BY <3>1, <3>2
  <2>2. step' # "end" => \A k \in DOMAIN mem'.drm : k[2] = 0
    BY <1>2 DEF IInv, DrmInv
  <2>3. step' # "rescan" => scan' = NoScan
    BY <1>2 DEF IInv, DrmInv
  <2>4. mem' = mem /\ step' = step /\ host' = host
    BY <1>2
  <2> QED
    BY <2>1, <2>2, <2>3, <2>4 DEF DrmInv
<1>22. RescanInv'
  <2> SUFFICES ASSUME step = "rescan"
               PROVE  RescanInv'
    BY <1>2 DEF RescanInv
  <2>1. /\ DOMAIN scan = {"next", "fresh", "usage"}
        /\ Map(scan.next, Clients, Readout)
        /\ scan.fresh \subseteq DOMAIN scan.next
        /\ Map(scan.usage, Clients, Usage)
        /\ \A k, l \in DOMAIN scan.next : scan.next[k].at = scan.next[l].at /\ (k[1] = l[1] => k = l)
        /\ \A k \in DOMAIN scan.next : scan.next[k].at <= w.clock
    BY DEF IInv, RescanInv
  <2>2. ASSUME NEW q \in Present(w'), Drm!Client(w', host', q) \in DOMAIN scan.next
        PROVE  Since(floor, q, scan.next[Drm!Client(w, host, q)].used, scan.next[Drm!Client(w, host, q)].at)'
    <3>1. CASE q = p
      <4>1. ~(floor'[p] > 0)
        BY <2>2, <3>1, <1>13, <1>15
      <4> QED
        BY <4>1, <3>1 DEF Since
    <3>2. CASE q # p
      <4> DEFINE k == Drm!Client(w, host, q)
      <4>1. q \in Present(w) /\ q \in Everybody /\ Drm!Client(w', host', q) = k
        BY <2>2, <3>2, <1>12, <1>14
      <4>2. Since(floor, q, scan.next[k].used, scan.next[k].at)
        BY <2>2, <4>1 DEF IInv, RescanInv
      <4> HIDE DEF k
      <4>3. \A used, at : Since(floor, q, used, at) => Since(floor, q, used, at)'
        BY <3>2, <4>1, <1>14
      <4> QED
        BY <4>1, <4>2, <4>3, <1>2 DEF Since
    <3> QED
      BY <3>1, <3>2
  <2>3. ASSUME NEW q \in Counted', asked'[q] > 0
        PROVE  Counts(q)'
    <3> DEFINE k == Drm!Client(w, host, q)
    <3>0. Self # p /\ Self \in Everybody /\ Self \in Present(w)
          /\ (Drm!HasStats(w', host', Self) <=> Drm!HasStats(w, host, Self))
      BY <1>4, <1>14, SelfIsThere
    <3>1. q # p /\ q \in Counted /\ q \in Everybody /\ asked'[q] = asked[q]
      <4>1. q \in Users(w') \cup {Self} /\ (q = Self => host'.os # "linux" \/ Drm!HasStats(w', host', Self))
        BY <2>3 DEF Counted
      <4>2. q # p
        BY <2>3, <1>13
      <4>3. q \in Users(w) \cup {Self} /\ (q = Self => host.os # "linux" \/ Drm!HasStats(w, host, Self))
        BY <4>1, <4>2, <3>0, <1>2, <1>12
      <4> QED
        BY <4>2, <4>3, <1>3, <1>13, CountedFacts DEF Counted
    <3>2. Counts(q)
      BY <2>3, <3>1 DEF IInv, RescanInv
    <3>3. /\ Drm!Client(w', host', q) = k /\ scan' = scan
          /\ Drm!HasStats(w', host', q) <=> Drm!HasStats(w, host, q)
          /\ Percent(q)' = Percent(q)
      BY <3>1, <1>2, <1>14 DEF Percent
    <3>4. \A used, at : Since(asked, q, used, at) => Since(asked, q, used, at)'
      BY <3>1, <1>14
    <3>5. CASE ~Drm!HasStats(w, host, q)
      BY <3>2, <3>3, <3>5 DEF Counts
    <3>6. CASE Drm!HasStats(w, host, q) /\ k \in scan.fresh
      <4>1. k \in DOMAIN scan.next /\ Since(asked, q, scan.next[k].used, scan.next[k].at)
        BY <3>2, <3>6 DEF Counts
      <4> HIDE DEF k
      <4>3. w'.used[q] - scan.next[k].used >= asked'[q] * (w'.clock - scan.next[k].at)
        BY <2>3, <3>4, <4>1 DEF Since
      <4> QED
        BY <4>1, <4>3, <3>3, <3>6 DEF Counts, Since
    <3>7. CASE Drm!HasStats(w, host, q) /\ k \notin scan.fresh
      BY <3>2, <3>3, <3>7 DEF Counts
    <3> QED
      BY <3>5, <3>6, <3>7
  <2>4. scan' = scan /\ w'.clock = w.clock
    BY <1>2, <1>10
  <2> QED
    BY <2>1, <2>2, <2>3, <2>4 DEF RescanInv
<1>23. PdhInv'
  <2>1. ASSUME host.os = "windows", host.pdh, NEW q \in Pdh!Instances(w', host'), floor'[q] > 0
        PROVE  q \in DOMAIN mem.pdh /\ Since(floor, q, mem.pdh[q].used, mem.pdh[q].at)'
    <3>1. q # p
      BY <2>1, <1>13
    <3>2. q \in Pdh!Instances(w, host) /\ q \in Everybody
      BY <2>1, <3>1, <1>12, <1>16, SameProcesses DEF Pdh!Instances
    <3>3. q \in DOMAIN mem.pdh /\ Since(floor, q, mem.pdh[q].used, mem.pdh[q].at)
      BY <2>1, <3>1, <3>2, <1>13 DEF IInv, PdhInv
    <3>4. \A used, at : Since(floor, q, used, at) => Since(floor, q, used, at)'
      BY <3>1, <3>2, <1>14
    <3> QED
      BY <3>3, <3>4, <1>2 DEF Since
  <2> QED
    BY <2>1, <1>2 DEF PdhInv
<1>26. NvmlInv'
  <2>1. ASSUME step = "sample", Head(todo) # "nvml", host.os # "macos", host.vendor = "nvidia", ~host.wddm
        PROVE  \/ Unseen \/ failed \/ merged.verdict = "busy"
               \/ \A q \in Users(w') : floor'[q] = 0
    <3>1. \/ Unseen \/ failed \/ merged.verdict = "busy"
          \/ \A q \in Users(w) : floor[q] = 0
      BY <2>1 DEF IInv, NvmlInv
    <3>2. (\A q \in Users(w) : floor[q] = 0) => \A q \in Users(w') : floor'[q] = 0
      <4>1. floor'[p] = 0
        BY <2>1, <1>3, <1>13 DEF Drm!HasNode
      <4>2. \A q \in Users(w') : q = p \/ (q \in Users(w) /\ q \in Everybody /\ q # p)
        BY <1>12 DEF Everybody
      <4> QED
        BY <4>1, <4>2, <1>13
    <3> QED
      BY <3>1, <3>2
  <2>2. Unseen' = Unseen
    BY <1>2 DEF Unseen
  <2> QED
    BY <2>1, <2>2, <1>2 DEF NvmlInv
<1>24. IoRegInv'
  <2>1. ASSUME host.os = "macos", NEW q \in Present(w'), floor'[q] > 0
        PROVE  /\ mem.ioreg.primed /\ q \in DOMAIN mem.ioreg.ns
               /\ Since(floor, q, mem.ioreg.ns[q], mem.ioreg.time)'
    <3>1. q # p
      BY <2>1, <1>13
    <3>2. q \in Present(w) /\ q \in Everybody
      BY <2>1, <3>1, <1>12
    <3>3. /\ mem.ioreg.primed /\ q \in DOMAIN mem.ioreg.ns
          /\ Since(floor, q, mem.ioreg.ns[q], mem.ioreg.time)
      BY <2>1, <3>1, <3>2, <1>13 DEF IInv, IoRegInv
    <3>4. \A used, at : Since(floor, q, used, at) => Since(floor, q, used, at)'
      BY <3>1, <3>2, <1>14
    <3> QED
      BY <3>3, <3>4, <1>2 DEF Since
  <2>2. ASSUME host.os = "macos", NEW q \in mem.ioreg.servers
        PROVE  q \in w'.here /\ w'.kind[q] = "graphics"
    <3>1. q \in w.here /\ w.kind[q] = "graphics"
      BY <2>2 DEF IInv, IoRegInv
    <3>2. q # p /\ q \in Others
      BY <3>1, <1>2, <1>3 DEF WorldOK
    <3> QED
      BY <3>1, <3>2, <1>10
  <2> QED
    BY <2>1, <2>2, <1>2 DEF IoRegInv
<1>25. NoUserOverlooked'
  BY <1>2 DEF NoUserOverlooked, Ended
<1> QED
  BY <1>17, <1>18, <1>19, <1>20, <1>21, <1>22, <1>23, <1>24, <1>25, <1>26 DEF IInv

LEMMA ExitKeepsIInv ==
  ASSUME NEW p \in Others, IInv, Exit(p)
  PROVE  IInv'
<1>1. w' = [w EXCEPT !.here = w.here \ {p}, !.kind = [w.kind EXCEPT ![p] = "graphics"],
                     !.client = [w.client EXCEPT ![p] = 0], !.used = [w.used EXCEPT ![p] = 0]]
  BY DEF Exit
<1>2. /\ step # "end" /\ p \in w.here /\ ~(host.os = "macos" /\ p \in mem.ioreg.servers)
      /\ floor' = [floor EXCEPT ![p] = 0] /\ asked' = [asked EXCEPT ![p] = 0]
      /\ UNCHANGED <<host, mem, step, todo, merged, scan, failed, around>>
  BY DEF Exit
<1>3. WorldOK /\ Full \in Nat
  BY WorkAssumption DEF IInv
<1>4. p # Self /\ p \in Everybody
  BY OthersAssumption DEF Everybody
<1>9. w' = [here |-> w.here \ {p}, kind |-> [w.kind EXCEPT ![p] = "graphics"],
            client |-> [w.client EXCEPT ![p] = 0], used |-> [w.used EXCEPT ![p] = 0], clock |-> w.clock]
  BY <1>1, <1>3 DEF WorldOK
<1>10. /\ w'.here = w.here \ {p} /\ w'.clock = w.clock
       /\ w'.kind \in [Others -> Kinds] /\ w'.client \in [Others -> 0 .. 2] /\ w'.used \in [Everybody -> Int]
       /\ \A q \in Others : q # p => w'.kind[q] = w.kind[q] /\ w'.client[q] = w.client[q]
       /\ \A q \in Everybody : q # p => w'.used[q] = w.used[q]
  <2>1. "graphics" \in Kinds /\ 0 \in 0 .. 2 /\ 0 \in Int
    BY DEF Kinds
  <2> QED
    BY <2>1, <1>3, <1>4, <1>9 DEF WorldOK
<1>11. w' \in [here : SUBSET Others, kind : [Others -> Kinds], client : [Others -> 0 .. 2],
               used : [Everybody -> Int], clock : Nat]
  BY <1>3, <1>9, <1>10 DEF WorldOK
<1>12. /\ Present(w') = Present(w) \ {p} /\ Users(w') \subseteq Users(w) \ {p}
       /\ Present(w) \subseteq Everybody /\ Users(w') \subseteq Others
  <2>1. \A q \in w'.here : q \in Others /\ q # p /\ q \in w.here
    BY <1>3, <1>10 DEF WorldOK
  <2> QED
    BY <2>1, <1>3, <1>4, <1>10, ProcessesAreEverybody DEF Present, Users
<1>13. /\ floor \in [Everybody -> 0 .. Full] /\ asked \in [Everybody -> 0 .. Full]
       /\ floor' \in [Everybody -> 0 .. Full] /\ floor'[p] = 0
       /\ asked' \in [Everybody -> 0 .. Full] /\ asked'[p] = 0
       /\ \A q \in Everybody : q # p => floor'[q] = floor[q] /\ asked'[q] = asked[q]
  <2>1. floor \in [Everybody -> 0 .. Full] /\ asked \in [Everybody -> 0 .. Full] /\ 0 \in 0 .. Full
    BY <1>3 DEF IInv, ClockInv
  <2> QED
    BY <2>1, <1>2, <1>4
<1>14. \A q \in Everybody : q # p =>
         /\ Drm!Client(w', host', q) = Drm!Client(w, host, q)
         /\ Drm!HasStats(w', host', q) <=> Drm!HasStats(w, host, q)
         /\ Drm!Client(w, host, q)[1] = q
         /\ \A used, at : Since(floor, q, used, at) => Since(floor, q, used, at)'
         /\ \A used, at : Since(asked, q, used, at) => Since(asked, q, used, at)'
  <2> TAKE q \in Everybody
  <2> HAVE q # p
  <2>1. q = Self \/ (q \in Others /\ w'.kind[q] = w.kind[q] /\ w'.client[q] = w.client[q])
    BY <1>10 DEF Everybody
  <2>2. Drm!Client(w', host', q) = Drm!Client(w, host, q) /\ Drm!Client(w, host, q)[1] = q
    BY <2>1, <1>2, SameSelf DEF Drm!Client
  <2>3. Drm!HasStats(w', host', q) <=> Drm!HasStats(w, host, q)
    BY <2>1, <1>2, SameSelf DEF Drm!HasStats, Drm!KindOf
  <2>4. w'.used[q] = w.used[q] /\ w'.clock = w.clock /\ floor'[q] = floor[q] /\ asked'[q] = asked[q]
    BY <1>10, <1>13
  <2> QED
    BY <2>2, <2>3, <2>4 DEF Since
<1>16. Pdh!Instances(w', host') \subseteq Pdh!Instances(w, host) \ {p}
  <2>1. \A q \in Present(w') : q # p /\ q \in Present(w) /\ Pdh!KindOf(w', host', q) = Pdh!KindOf(w, host, q)
    BY <1>2, <1>3, <1>10, <1>12, SameSelf DEF Pdh!KindOf, Present, WorldOK
  <2> QED
    BY <2>1, <1>2, SameProcesses DEF Pdh!Instances
<1>17. WorldOK'
  <2>1. \A q \in w'.here : w'.kind[q] \in host'.kinds \cup {"graphics"}
    BY <1>2, <1>3, <1>10 DEF WorldOK
  <2>2. around' \subseteq Others
    BY <1>2, <1>3 DEF WorldOK
  <2> QED
    BY <2>1, <2>2, <1>2, <1>3, <1>11 DEF WorldOK
<1>18. MemoryOK' /\ PollOK' /\ VerdictInv'
  BY <1>2 DEF IInv, MemoryOK, PollOK, Rests, VerdictInv, Told, Seen, ByNvml
<1>19. AroundInv'
  BY <1>2, <1>12 DEF IInv, AroundInv
<1>20. ClockInv'
  <2>1. \A q \in Everybody \ Present(w') : floor'[q] = 0 /\ asked'[q] = 0
    BY <1>12, <1>13 DEF IInv, ClockInv
  <2>2. step' \in {"wait", "sample"} => asked' = [q \in Everybody |-> 0]
    <3> HAVE step' \in {"wait", "sample"}
    <3>1. asked = [q \in Everybody |-> 0]
      BY <1>2 DEF IInv, ClockInv
    <3>2. \A q \in Everybody : asked'[q] = 0
      BY <3>1, <1>13
    <3> QED
      BY <3>2, <1>13
  <2>3. /\ step' # "wait" => w'.clock > 0
        /\ \A k \in DOMAIN mem'.drm : mem'.drm[k].at <= (IF step' = "end" THEN w'.clock ELSE 0)
        /\ \A q \in DOMAIN mem'.pdh : mem'.pdh[q].at <= (IF step' = "end" THEN w'.clock ELSE 0)
        /\ mem'.ioreg.primed => mem'.ioreg.time <= (IF step' = "end" THEN w'.clock ELSE 0)
    BY <1>2, <1>10 DEF IInv, ClockInv
  <2> QED
    BY <2>1, <2>2, <2>3, <1>13 DEF ClockInv
<1>21. DrmInv'
  <2>1. ASSUME step # "rescan", host.os = "linux", Drm!HasNode(host), NEW q \in Present(w'),
               Drm!Client(w', host', q) \in DOMAIN mem.drm
        PROVE  Since(floor, q, mem.drm[Drm!Client(w, host, q)].used, mem.drm[Drm!Client(w, host, q)].at)'
    <3> DEFINE k == Drm!Client(w, host, q)
    <3>1. q \in Present(w) /\ q \in Everybody /\ Drm!Client(w', host', q) = k
      BY <2>1, <1>12, <1>14
    <3>2. Since(floor, q, mem.drm[k].used, mem.drm[k].at)
      BY <2>1, <3>1 DEF IInv, DrmInv
    <3> HIDE DEF k
    <3>3. \A used, at : Since(floor, q, used, at) => Since(floor, q, used, at)'
      BY <2>1, <3>1, <1>12, <1>14
    <3> QED
      BY <3>1, <3>2, <3>3, <1>2 DEF Since
  <2>2. step' # "end" => \A k \in DOMAIN mem'.drm : k[2] = 0
    BY <1>2 DEF IInv, DrmInv
  <2>3. step' # "rescan" => scan' = NoScan
    BY <1>2 DEF IInv, DrmInv
  <2>4. mem' = mem /\ step' = step /\ host' = host
    BY <1>2
  <2> QED
    BY <2>1, <2>2, <2>3, <2>4 DEF DrmInv
<1>22. RescanInv'
  <2> SUFFICES ASSUME step = "rescan"
               PROVE  RescanInv'
    BY <1>2 DEF RescanInv
  <2>1. /\ DOMAIN scan = {"next", "fresh", "usage"}
        /\ Map(scan.next, Clients, Readout)
        /\ scan.fresh \subseteq DOMAIN scan.next
        /\ Map(scan.usage, Clients, Usage)
        /\ \A k, l \in DOMAIN scan.next : scan.next[k].at = scan.next[l].at /\ (k[1] = l[1] => k = l)
        /\ \A k \in DOMAIN scan.next : scan.next[k].at <= w.clock
    BY DEF IInv, RescanInv
  <2>2. ASSUME NEW q \in Present(w'), Drm!Client(w', host', q) \in DOMAIN scan.next
        PROVE  Since(floor, q, scan.next[Drm!Client(w, host, q)].used, scan.next[Drm!Client(w, host, q)].at)'
    <3> DEFINE k == Drm!Client(w, host, q)
    <3>1. q \in Present(w) /\ q \in Everybody /\ Drm!Client(w', host', q) = k
      BY <2>2, <1>12, <1>14
    <3>2. Since(floor, q, scan.next[k].used, scan.next[k].at)
      BY <2>2, <3>1 DEF IInv, RescanInv
    <3> HIDE DEF k
    <3>3. \A used, at : Since(floor, q, used, at) => Since(floor, q, used, at)'
      BY <2>1, <3>1, <1>12, <1>14
    <3> QED
      BY <3>1, <3>2, <3>3, <1>2 DEF Since
  <2>3. ASSUME NEW q \in Counted', asked'[q] > 0
        PROVE  Counts(q)'
    <3> DEFINE k == Drm!Client(w, host, q)
    <3>0. Self # p /\ Self \in Everybody /\ Self \in Present(w')
          /\ (Drm!HasStats(w', host', Self) <=> Drm!HasStats(w, host, Self))
      BY <1>4, <1>12, <1>14, SelfIsThere
    <3>1. q # p /\ q \in Counted /\ q \in Everybody /\ asked'[q] = asked[q]
      <4>1. q \in Users(w') \cup {Self} /\ (q = Self => host'.os # "linux" \/ Drm!HasStats(w', host', Self))
        BY <2>3 DEF Counted
      <4>2. q # p
        BY <4>1, <3>0, <1>12
      <4>3. q \in Users(w) \cup {Self} /\ (q = Self => host.os # "linux" \/ Drm!HasStats(w, host, Self))
        BY <4>1, <4>2, <3>0, <1>2, <1>12
      <4> QED
        BY <4>2, <4>3, <1>3, <1>13, CountedFacts DEF Counted
    <3>2. Counts(q)
      BY <2>3, <3>1 DEF IInv, RescanInv
    <3>3. /\ Drm!Client(w', host', q) = k /\ scan' = scan
          /\ Drm!HasStats(w', host', q) <=> Drm!HasStats(w, host, q)
          /\ Percent(q)' = Percent(q)
      BY <3>1, <1>2, <1>13, <1>14 DEF Percent
    <3>4. \A used, at : Since(asked, q, used, at) => Since(asked, q, used, at)'
      BY <3>1, <1>14
    <3>5. CASE ~Drm!HasStats(w, host, q)
      BY <3>2, <3>3, <3>5 DEF Counts
    <3>6. CASE Drm!HasStats(w, host, q) /\ k \in scan.fresh
      <4>1. k \in DOMAIN scan.next /\ Since(asked, q, scan.next[k].used, scan.next[k].at)
        BY <3>2, <3>6 DEF Counts
      <4> HIDE DEF k
      <4>3. w'.used[q] - scan.next[k].used >= asked'[q] * (w'.clock - scan.next[k].at)
        BY <2>3, <3>4, <4>1 DEF Since
      <4> QED
        BY <4>1, <4>3, <3>3, <3>6 DEF Counts, Since
    <3>7. CASE Drm!HasStats(w, host, q) /\ k \notin scan.fresh
      BY <3>2, <3>3, <3>7 DEF Counts
    <3> QED
      BY <3>5, <3>6, <3>7
  <2>4. scan' = scan /\ w'.clock = w.clock
    BY <1>2, <1>10
  <2> QED
    BY <2>1, <2>2, <2>3, <2>4 DEF RescanInv
<1>23. PdhInv'
  <2>1. ASSUME host.os = "windows", host.pdh, NEW q \in Pdh!Instances(w', host'), floor'[q] > 0
        PROVE  q \in DOMAIN mem.pdh /\ Since(floor, q, mem.pdh[q].used, mem.pdh[q].at)'
    <3>1. q # p
      BY <2>1, <1>13
    <3>2. q \in Pdh!Instances(w, host) /\ q \in Everybody
      BY <2>1, <3>1, <1>12, <1>16, SameProcesses DEF Pdh!Instances
    <3>3. q \in DOMAIN mem.pdh /\ Since(floor, q, mem.pdh[q].used, mem.pdh[q].at)
      BY <2>1, <3>1, <3>2, <1>13 DEF IInv, PdhInv
    <3>4. \A used, at : Since(floor, q, used, at) => Since(floor, q, used, at)'
      BY <3>1, <3>2, <1>14
    <3> QED
      BY <3>3, <3>4, <1>2 DEF Since
  <2> QED
    BY <2>1, <1>2 DEF PdhInv
<1>26. NvmlInv'
  <2>1. ASSUME step = "sample", Head(todo) # "nvml", host.os # "macos", host.vendor = "nvidia", ~host.wddm
        PROVE  \/ Unseen \/ failed \/ merged.verdict = "busy"
               \/ \A q \in Users(w') : floor'[q] = 0
    <3>1. \/ Unseen \/ failed \/ merged.verdict = "busy"
          \/ \A q \in Users(w) : floor[q] = 0
      BY <2>1 DEF IInv, NvmlInv
    <3>2. (\A q \in Users(w) : floor[q] = 0) => \A q \in Users(w') : floor'[q] = 0
      <4>1. \A q \in Users(w') : q \in Users(w) /\ q \in Everybody /\ q # p
        BY <1>12 DEF Everybody
      <4> QED
        BY <4>1, <1>13
    <3> QED
      BY <3>1, <3>2
  <2>2. Unseen' = Unseen
    BY <1>2 DEF Unseen
  <2> QED
    BY <2>1, <2>2, <1>2 DEF NvmlInv
<1>24. IoRegInv'
  <2>1. ASSUME host.os = "macos", NEW q \in Present(w'), floor'[q] > 0
        PROVE  /\ mem.ioreg.primed /\ q \in DOMAIN mem.ioreg.ns
               /\ Since(floor, q, mem.ioreg.ns[q], mem.ioreg.time)'
    <3>1. q # p
      BY <2>1, <1>13
    <3>2. q \in Present(w) /\ q \in Everybody
      BY <2>1, <3>1, <1>12
    <3>3. /\ mem.ioreg.primed /\ q \in DOMAIN mem.ioreg.ns
          /\ Since(floor, q, mem.ioreg.ns[q], mem.ioreg.time)
      BY <2>1, <3>1, <3>2, <1>13 DEF IInv, IoRegInv
    <3>4. \A used, at : Since(floor, q, used, at) => Since(floor, q, used, at)'
      BY <3>1, <3>2, <1>14
    <3> QED
      BY <3>3, <3>4, <1>2 DEF Since
  <2>2. ASSUME host.os = "macos", NEW q \in mem.ioreg.servers
        PROVE  q \in w'.here /\ w'.kind[q] = "graphics"
    <3>1. q \in w.here /\ w.kind[q] = "graphics"
      BY <2>2 DEF IInv, IoRegInv
    <3>2. q # p /\ q \in Others
      BY <2>2, <3>1, <1>2, <1>3 DEF WorldOK
    <3> QED
      BY <3>1, <3>2, <1>10
  <2> QED
    BY <2>1, <2>2, <1>2 DEF IoRegInv
<1>25. NoUserOverlooked'
  BY <1>2 DEF NoUserOverlooked, Ended
<1> QED
  BY <1>17, <1>18, <1>19, <1>20, <1>21, <1>22, <1>23, <1>24, <1>25, <1>26 DEF IInv

-----------------------------------------------------------------------------
(* The poll and the turns of its sources.                                  *)

LEMMA TwoJoined ==
  ASSUME NEW a, NEW b
  PROVE  <<a>> \o <<b>> = <<a, b>>
<1>1. <<a>> \in Seq({a, b}) /\ <<b>> \in Seq({a, b}) /\ <<a, b>> \in Seq({a, b})
  OBVIOUS
<1>2. /\ <<a>> \o <<b>> \in Seq({a, b}) /\ Len(<<a>> \o <<b>>) = 2
      /\ (<<a>> \o <<b>>)[1] = a /\ (<<a>> \o <<b>>)[2] = b
  BY <1>1, ConcatProperties
<1>3. /\ Len(<<a>> \o <<b>>) = Len(<<a, b>>)
      /\ \A i \in 1 .. Len(<<a, b>>) : (<<a>> \o <<b>>)[i] = <<a, b>>[i]
  BY <1>2
<1> QED
  BY <1>1, <1>2, <1>3, SeqEqual

LEMMA ThreeJoined ==
  ASSUME NEW a, NEW b, NEW c
  PROVE  <<a, b>> \o <<c>> = <<a, b, c>>
<1>1. <<a, b>> \in Seq({a, b, c}) /\ <<c>> \in Seq({a, b, c}) /\ <<a, b, c>> \in Seq({a, b, c})
  OBVIOUS
<1>2. /\ <<a, b>> \o <<c>> \in Seq({a, b, c}) /\ Len(<<a, b>> \o <<c>>) = 3
      /\ (<<a, b>> \o <<c>>)[1] = a /\ (<<a, b>> \o <<c>>)[2] = b /\ (<<a, b>> \o <<c>>)[3] = c
  BY <1>1, ConcatProperties
<1>3. /\ Len(<<a, b>> \o <<c>>) = Len(<<a, b, c>>)
      /\ \A i \in 1 .. Len(<<a, b, c>>) : (<<a, b>> \o <<c>>)[i] = <<a, b, c>>[i]
  BY <1>2
<1> QED
  BY <1>1, <1>2, <1>3, SeqEqual

LEMMA Joined ==
  /\ <<>> \o <<"pdh">> = <<"pdh">> /\ <<"nvml">> \o <<"pdh">> = <<"nvml", "pdh">>
  /\ <<"nvml">> \o <<>> = <<"nvml">> /\ <<>> \o <<>> = <<>>
  /\ (<<>> \o <<>>) \o <<"drm">> = <<"drm">>
  /\ (<<"nvml">> \o <<>>) \o <<"drm">> = <<"nvml", "drm">>
  /\ (<<>> \o <<"kfd">>) \o <<"drm">> = <<"kfd", "drm">>
  /\ (<<"nvml">> \o <<"kfd">>) \o <<"drm">> = <<"nvml", "kfd", "drm">>
<1>1. \A a : <<>> \o <<a>> = <<a>> /\ <<a>> \o <<>> = <<a>> /\ <<>> \o <<>> = <<>>
  <2> TAKE a
  <2>1. <<a>> \in Seq({a}) /\ <<>> \in Seq({a})
    OBVIOUS
  <2> QED
    BY <2>1, ConcatEmptySeq
<1>2. /\ <<"nvml">> \o <<"pdh">> = <<"nvml", "pdh">> /\ <<"nvml">> \o <<"drm">> = <<"nvml", "drm">>
      /\ <<"kfd">> \o <<"drm">> = <<"kfd", "drm">> /\ <<"nvml">> \o <<"kfd">> = <<"nvml", "kfd">>
  BY TwoJoined
<1>3. <<"nvml", "kfd">> \o <<"drm">> = <<"nvml", "kfd", "drm">>
  BY ThreeJoined
<1>4. /\ <<>> \o <<"pdh">> = <<"pdh">> /\ <<>> \o <<"drm">> = <<"drm">> /\ <<>> \o <<"kfd">> = <<"kfd">>
      /\ <<"nvml">> \o <<>> = <<"nvml">> /\ <<>> \o <<>> = <<>>
  BY <1>1
<1> QED
  BY <1>2, <1>3, <1>4, Zenon

LEMMA PlatformSources ==
  ASSUME WorldOK
  PROVE  CreatePlatformSources(host) =
           CASE host.os = "windows" ->
                  IF host.nvml THEN IF host.pdh THEN <<"nvml", "pdh">> ELSE <<"nvml">>
                  ELSE IF host.pdh THEN <<"pdh">> ELSE <<>>
             [] host.os = "macos"   -> <<"ioreg">>
             [] host.os = "linux"   ->
                  IF host.nvml THEN IF host.kfd THEN <<"nvml", "kfd", "drm">> ELSE <<"nvml", "drm">>
                  ELSE IF host.kfd THEN <<"kfd", "drm">> ELSE <<"drm">>
<1>1. host.os \in {"linux", "macos", "windows"}
  BY HostFacts
<1>2. CASE host.os = "windows"
  <2>1. CreatePlatformSources(host) =
          (IF host.nvml THEN <<"nvml">> ELSE <<>>) \o (IF host.pdh THEN <<"pdh">> ELSE <<>>)
    BY <1>2 DEF CreatePlatformSources
  <2> QED
    BY <1>2, <2>1, Joined
<1>3. CASE host.os = "macos"
  BY <1>3 DEF CreatePlatformSources
<1>4. CASE host.os = "linux"
  <2>1. CreatePlatformSources(host) =
          ((IF host.nvml THEN <<"nvml">> ELSE <<>>) \o (IF host.kfd THEN <<"kfd">> ELSE <<>>)) \o <<"drm">>
    BY <1>4 DEF CreatePlatformSources
  <2> QED
    BY <1>4, <2>1, Joined
<1> QED
  BY <1>1, <1>2, <1>3, <1>4

LEMMA FirstTurn ==
  ASSUME WorldOK
  PROVE  LET turns == CreatePlatformSources(host)
         IN  turns = <<>> \/ (turns \in Rests /\ (Head(turns) = "nvml" \/ ~host.nvml \/ host.os = "macos"))
<1>1. host.os \in {"linux", "macos", "windows"}
  BY HostFacts
<1>2. CASE host.os = "windows"
  BY <1>2, PlatformSources DEF Rests
<1>3. CASE host.os = "macos"
  BY <1>3, PlatformSources DEF Rests
<1>4. CASE host.os = "linux"
  BY <1>4, PlatformSources DEF Rests
<1> QED
  BY <1>1, <1>2, <1>3, <1>4

LEMMA Turns ==
  ASSUME WorldOK, PollOK, step = "sample"
  PROVE  /\ Turn("nvml")  => /\ host.nvml /\ host.os \in {"linux", "windows"}
                             /\ IF Len(todo) = 1 THEN host.os = "windows" /\ ~host.pdh
                                ELSE Tail(todo) \in Rests /\ Head(Tail(todo)) # "nvml"
         /\ Turn("kfd")   => host.os = "linux" /\ Len(todo) # 1 /\ Tail(todo) = <<"drm">> /\ <<"drm">> \in Rests
         /\ Turn("drm")   => host.os = "linux" /\ todo = <<"drm">> /\ Len(todo) = 1
         /\ Turn("pdh")   => host.os = "windows" /\ host.pdh /\ todo = <<"pdh">> /\ Len(todo) = 1
         /\ Turn("ioreg") => host.os = "macos" /\ Len(todo) = 1
<1>1. host.os \in {"linux", "macos", "windows"}
  BY HostFacts
<1>2. todo \in Rests
  BY DEF PollOK
<1>3. CASE host.os = "windows"
  <2>1. \/ host.pdh /\ todo = <<"pdh">>
        \/ host.pdh /\ host.nvml /\ todo = <<"nvml", "pdh">>
        \/ ~host.pdh /\ host.nvml /\ todo = <<"nvml">>
    BY <1>2, <1>3 DEF Rests
  <2>2. host.pdh => <<"pdh">> \in Rests
    BY <1>3 DEF Rests
  <2>3. CASE host.pdh /\ todo = <<"pdh">>
    BY <1>3, <2>3 DEF Turn
  <2>4. CASE host.pdh /\ host.nvml /\ todo = <<"nvml", "pdh">>
    BY <1>3, <2>2, <2>4 DEF Turn
  <2>5. CASE ~host.pdh /\ host.nvml /\ todo = <<"nvml">>
    BY <1>3, <2>5 DEF Turn
  <2> QED
    BY <2>1, <2>3, <2>4, <2>5
<1>4. CASE host.os = "macos"
  <2>1. todo = <<"ioreg">>
    BY <1>2, <1>4 DEF Rests
  <2> QED
    BY <1>4, <2>1 DEF Turn
<1>5. CASE host.os = "linux"
  <2>1. \/ todo = <<"drm">>
        \/ host.nvml /\ todo = <<"nvml", "drm">>
        \/ todo = <<"kfd", "drm">>
        \/ host.nvml /\ todo = <<"nvml", "kfd", "drm">>
    BY <1>2, <1>5 DEF Rests
  <2>2. <<"drm">> \in Rests /\ <<"kfd", "drm">> \in Rests
    BY <1>5 DEF Rests
  <2>3. CASE todo = <<"drm">>
    BY <1>5, <2>3 DEF Turn
  <2>4. CASE host.nvml /\ todo = <<"nvml", "drm">>
    BY <1>5, <2>2, <2>4 DEF Turn
  <2>5. CASE todo = <<"kfd", "drm">>
    BY <1>5, <2>2, <2>5 DEF Turn
  <2>6. CASE host.nvml /\ todo = <<"nvml", "kfd", "drm">>
    <3>1. Tail(todo) = <<"kfd", "drm">> /\ Len(todo) = 3 /\ Head(todo) = "nvml"
      BY <2>6
    <3> QED
      BY <1>5, <2>2, <2>6, <3>1 DEF Turn
  <2> QED
    BY <2>1, <2>3, <2>4, <2>5, <2>6
<1> QED
  BY <1>1, <1>3, <1>4, <1>5

LEMMA MergedFacts ==
  ASSUME NEW o, Observed(o), NEW seen, Observed(seen)
  PROVE  /\ Observed(Merge(o, seen))
         /\ Merge(o, seen).verdict = "busy" <=> o.verdict = "busy" \/ seen.verdict = "busy"
         /\ Merge(o, seen).verdict = "unknown" <=> o.verdict = "unknown" /\ seen.verdict = "unknown"
BY DEF Observed, Merge

LEMMA GivenFacts ==
  ASSUME PollOK
  PROVE  /\ Observed(Given(merged))
         /\ Given(merged).verdict = "busy" => merged.verdict = "busy"
BY DEF PollOK, Observed, Given, MeasuredBusy, Unknown

LEMMA BeginPollKeepsIInv == IInv /\ BeginPoll => IInv'
<1> SUFFICES ASSUME IInv, BeginPoll PROVE IInv'
  OBVIOUS
<1>1. /\ step = "wait" /\ w.clock > 0 /\ todo' = CreatePlatformSources(host)
      /\ step' = IF todo' = <<>> THEN "end" ELSE "sample"
      /\ merged' = Unknown /\ failed' = FALSE /\ around' = Users(w)
      /\ UNCHANGED <<host, w, mem, scan, floor, asked>>
  BY DEF BeginPoll
<1>2. WorldOK /\ step' \in {"sample", "end"}
  BY <1>1 DEF IInv
<1>3. /\ step' = "sample" =>
           todo' \in Rests /\ (Head(todo') = "nvml" \/ ~host.nvml \/ host.os = "macos")
      /\ step' = "end" => CreatePlatformSources(host) = <<>>
  BY <1>1, <1>2, FirstTurn
<1>4. WorldOK'
  BY <1>1, <1>2, ProcessesAreEverybody DEF WorldOK
<1>5. MemoryOK'
  BY <1>1 DEF IInv, MemoryOK
<1>6. PollOK'
  <2>1. Observed(Unknown) /\ Rests' = Rests
    BY <1>1 DEF Observed, Unknown, Rests
  <2> QED
    BY <1>1, <1>2, <1>3, <2>1 DEF PollOK
<1>7. AroundInv'
  BY <1>1, <1>2 DEF AroundInv, Unknown, Users
<1>8. VerdictInv'
  <2>1. step' = "end" => ~Seen
    <3> SUFFICES ASSUME step' = "end" PROVE ~Seen
      OBVIOUS
    <3>1. <<>> # <<"ioreg">> /\ <<>> # <<"drm">> /\ <<>> # <<"kfd", "drm">>
          /\ <<>> # <<"nvml", "drm">> /\ <<>> # <<"nvml", "kfd", "drm">>
          /\ <<>> # <<"pdh">> /\ <<>> # <<"nvml">> /\ <<>> # <<"nvml", "pdh">>
      OBVIOUS
    <3>2. host.os \in {"linux", "macos", "windows"} /\ CreatePlatformSources(host) = <<>>
      BY <1>2, <1>3, HostFacts
    <3>3. host.os = "windows" /\ ~host.nvml /\ ~host.pdh
      BY <1>2, <3>1, <3>2, PlatformSources
    <3> QED
      BY <3>3 DEF Seen, ByNvml
  <2>2. merged'.verdict = "unknown" /\ Seen' = Seen /\ ByNvml' = ByNvml
    BY <1>1 DEF Unknown, Seen, ByNvml
  <2> QED
    BY <2>1, <2>2, <1>1, <1>2, <1>3 DEF IInv, VerdictInv, ByNvml
<1>9. ClockInv'
  <2>1. /\ \A k \in DOMAIN mem.drm : mem.drm[k].at <= 0 /\ mem.drm[k].at \in Int
        /\ \A p \in DOMAIN mem.pdh : mem.pdh[p].at <= 0 /\ mem.pdh[p].at \in Int
        /\ mem.ioreg.primed => mem.ioreg.time <= 0
        /\ mem.ioreg.time \in Int
    BY <1>1 DEF IInv, ClockInv, MemoryOK, Map, Readout
  <2>2. w.clock \in Nat
    BY <1>2 DEF WorldOK
  <2>3. /\ \A k \in DOMAIN mem.drm : mem.drm[k].at <= w.clock
        /\ \A p \in DOMAIN mem.pdh : mem.pdh[p].at <= w.clock
        /\ mem.ioreg.primed => mem.ioreg.time <= w.clock
    BY <2>1, <2>2
  <2> QED
    BY <2>1, <2>3, <1>1 DEF IInv, ClockInv
<1>10. DrmInv' /\ RescanInv'
  BY <1>1, <1>2 DEF IInv, DrmInv, RescanInv, Since
<1>11. PdhInv' /\ NvmlInv'
  <2>1. step' = "sample" /\ Head(todo') # "nvml" /\ host.os # "macos" /\ host.vendor = "nvidia" /\ ~host.wddm => Unseen'
    BY <1>1, <1>3 DEF Unseen
  <2> QED
    BY <1>1, <2>1 DEF IInv, PdhInv, NvmlInv, Since
<1>12. IoRegInv' /\ NoUserOverlooked'
  BY <1>1 DEF IInv, IoRegInv, NoUserOverlooked, Ended, Since, Unknown
<1> QED
  BY <1>4, <1>5, <1>6, <1>7, <1>8, <1>9, <1>10, <1>11, <1>12 DEF IInv

LEMMA TookFacts ==
  ASSUME IInv, NEW source \in {"nvml", "kfd", "drm", "pdh", "ioreg"}, NEW s,
         Observed(s.seen), s.failed \in BOOLEAN, Took(source, s)
  PROVE  /\ DOMAIN mem' = DOMAIN mem /\ mem'[source] = s.state
         /\ \A x \in {"nvml", "kfd", "drm", "pdh", "ioreg"} : x # source => mem'[x] = mem[x]
         /\ Observed(merged') /\ failed' \in BOOLEAN /\ (failed' <=> failed \/ s.failed)
         /\ merged'.verdict = "busy" <=> merged.verdict = "busy" \/ s.seen.verdict = "busy"
         /\ merged'.verdict = "unknown" <=> merged.verdict = "unknown" /\ s.seen.verdict = "unknown"
         /\ todo' = Tail(todo) /\ (step' = IF Len(todo) = 1 THEN "end" ELSE "sample")
         /\ UNCHANGED <<host, w, around>>
<1>1. DOMAIN mem = {"nvml", "kfd", "drm", "pdh", "ioreg"} /\ Observed(merged) /\ failed \in BOOLEAN
  BY DEF IInv, MemoryOK, PollOK
<1>2. mem' = [mem EXCEPT ![source] = s.state] /\ merged' = Merge(merged, s.seen)
      /\ failed' = (failed \/ s.failed)
  BY DEF Took
<1>3. /\ DOMAIN mem' = DOMAIN mem /\ mem'[source] = s.state
      /\ \A x \in {"nvml", "kfd", "drm", "pdh", "ioreg"} : x # source => mem'[x] = mem[x]
  <2>1. DOMAIN mem' = DOMAIN mem /\ \A x \in DOMAIN mem : mem'[x] = IF x = source THEN s.state ELSE mem[x]
    BY <1>1, <1>2
  <2> QED
    BY <2>1, <1>1
<1>4. /\ Observed(merged')
      /\ merged'.verdict = "busy" <=> merged.verdict = "busy" \/ s.seen.verdict = "busy"
      /\ merged'.verdict = "unknown" <=> merged.verdict = "unknown" /\ s.seen.verdict = "unknown"
  BY <1>1, <1>2, MergedFacts
<1>5. failed' \in BOOLEAN /\ (failed' <=> failed \/ s.failed)
  BY <1>1, <1>2
<1>6. todo' = Tail(todo) /\ (step' = IF Len(todo) = 1 THEN "end" ELSE "sample") /\ UNCHANGED <<host, w, around>>
  BY DEF Took
<1> QED
  BY <1>3, <1>4, <1>5, <1>6

\* A source that is not the last one took its turn.
LEMMA TookOn ==
  ASSUME IInv, NEW source \in {"nvml", "kfd"}, NEW s, Observed(s.seen), s.failed \in BOOLEAN,
         step = "sample", Turn(source), Len(todo) # 1, Took(source, s), UNCHANGED <<scan, floor, asked>>,
         s.seen.verdict = "busy" => merged.verdict = "busy" \/ Users(w) # {},
         source = "nvml" => s.state \in {"unasked", "none", "handle"},
         VerdictInv', NvmlInv'
  PROVE  IInv'
<1>1. /\ DOMAIN mem' = DOMAIN mem /\ mem'[source] = s.state
      /\ \A x \in {"nvml", "kfd", "drm", "pdh", "ioreg"} : x # source => mem'[x] = mem[x]
      /\ Observed(merged') /\ failed' \in BOOLEAN /\ (failed' <=> failed \/ s.failed)
      /\ merged'.verdict = "busy" <=> merged.verdict = "busy" \/ s.seen.verdict = "busy"
      /\ todo' = Tail(todo) /\ (step' = IF Len(todo) = 1 THEN "end" ELSE "sample")
      /\ UNCHANGED <<host, w, around>>
  BY TookFacts
<1>2. step' = "sample" /\ todo' \in Rests
  BY <1>1, Turns DEF IInv
<1>3. mem'.drm = mem.drm /\ mem'.pdh = mem.pdh /\ mem'.ioreg = mem.ioreg
  BY <1>1
<1>4. WorldOK'
  BY <1>1 DEF IInv, WorldOK
<1>5. MemoryOK'
  <2>1. mem'.nvml \in {"unasked", "none", "handle"}
    BY <1>1 DEF IInv, MemoryOK
  <2>2. DOMAIN mem' = {"nvml", "kfd", "drm", "pdh", "ioreg"}
    BY <1>1 DEF IInv, MemoryOK
  <2> QED
    BY <2>1, <2>2, <1>3 DEF IInv, MemoryOK
<1>6. PollOK'
  <2>1. Rests' = Rests
    BY <1>1 DEF Rests
  <2> QED
    BY <2>1, <1>1, <1>2 DEF PollOK
<1>7. AroundInv'
  BY <1>1, <1>2 DEF IInv, AroundInv, Users
<1>8. ClockInv'
  BY <1>1, <1>2, <1>3 DEF IInv, ClockInv
<1>9. DrmInv' /\ RescanInv' /\ NoUserOverlooked'
  BY <1>1, <1>2, <1>3 DEF IInv, DrmInv, RescanInv, Since, NoUserOverlooked, Ended
<1>10. PdhInv' /\ IoRegInv'
  BY <1>1, <1>3 DEF IInv, PdhInv, IoRegInv, Since
<1> QED
  BY <1>4, <1>5, <1>6, <1>7, <1>8, <1>9, <1>10 DEF IInv

\* The last source's turn ends the poll.
LEMMA TookLast ==
  ASSUME IInv, NEW source \in {"nvml", "drm", "pdh", "ioreg"}, NEW s, Observed(s.seen), s.failed \in BOOLEAN,
         step # "wait", Len(todo) = 1, Took(source, s),
         s.seen.verdict = "busy" => merged.verdict = "busy" \/ around # {}
  PROVE  WorldOK' /\ PollOK' /\ AroundInv' /\ NvmlInv' /\ RescanInv' /\ step' = "end"
<1>1. /\ Observed(merged') /\ failed' \in BOOLEAN
      /\ merged'.verdict = "busy" <=> merged.verdict = "busy" \/ s.seen.verdict = "busy"
      /\ step' = "end" /\ UNCHANGED <<host, w, around>>
  BY TookFacts
<1>2. WorldOK'
  BY <1>1 DEF IInv, WorldOK
<1>3. PollOK'
  BY <1>1 DEF PollOK
<1>4. AroundInv'
  BY <1>1 DEF IInv, AroundInv, Users
<1> QED
  BY <1>1, <1>2, <1>3, <1>4 DEF NvmlInv, RescanInv

LEMMA ReadFacts ==
  ASSUME IInv, Read, UNCHANGED w
  PROVE  /\ floor' \in [Everybody -> 0 .. Full] /\ asked' = floor
         /\ asked' \in [Everybody -> 0 .. Full]
         /\ \A p \in Everybody \ Present(w) : floor'[p] = 0 /\ asked'[p] = 0
         /\ \A p \in Present(w) : floor'[p] = Full
         /\ Present(w) \subseteq Everybody /\ Full \in Nat
BY WorkAssumption, ProcessesAreEverybody DEF IInv, ClockInv, Read

-----------------------------------------------------------------------------
(* NVML and amdkfd.                                                        *)

LEMMA NvmlContexts ==
  ASSUME WorldOK
  PROVE  LET contexts == {p \in w.here : w.kind[p] = "compute"}
         IN  /\ Nvml!OtherEntries(w, host) = 0 <=> contexts = {}
             /\ contexts \subseteq Users(w)
<1> DEFINE contexts == {p \in w.here : w.kind[p] = "compute"}
           holders  == {host.proc[p] : p \in contexts}
           n == Cardinality(holders)
<1>1. IsFiniteSet(holders)
  <2>1. contexts \subseteq Others
    BY DEF WorldOK
  <2>2. IsFiniteSet(contexts)
    BY <2>1, OthersAssumption, FS_Subset
  <2> DEFINE proc == [p \in contexts |-> host.proc[p]]
  <2>3. proc \in Surjection(contexts, holders)
    BY DEF Surjection
  <2> HIDE DEF contexts, holders, proc
  <2> QED
    BY <2>2, <2>3, FS_Surjection
<1>2. n \in Nat /\ (n = 0 <=> contexts = {})
  <2>1. holders = {} <=> contexts = {}
    OBVIOUS
  <2> HIDE DEF holders
  <2> QED
    BY <1>1, <2>1, FS_CardinalityType, FS_EmptySet
<1>3. \A S : Nvml!Cardinality(S) = Cardinality(S)
  BY DEF Cardinality, Nvml!Cardinality
<1>4. contexts \subseteq Users(w)
  BY DEF Users
<1>5. Nvml!OtherEntries(w, host) = IF host.pidns THEN Nvml!Max({(n + 1) - 1, 0}) ELSE n
  BY <1>3 DEF Nvml!OtherEntries
<1> HIDE DEF n, contexts
<1>6. (n + 1) - 1 = n
  BY <1>2
<1>7. Nvml!Max({n, 0}) = n
  BY <1>2 DEF Nvml!Max
<1> QED
  BY <1>2, <1>4, <1>5, <1>6, <1>7 DEF contexts

LEMMA NvmlFacts ==
  ASSUME IInv, NEW s \in Nvml!Sample(mem.nvml, w, host, Given(merged))
  PROVE  /\ Observed(s.seen) /\ s.failed \in BOOLEAN /\ s.state \in {"unasked", "none", "handle"}
         /\ s.seen.verdict = "busy" => merged.verdict = "busy" \/ Users(w) # {}
         /\ s.state = "none" => mem.nvml = "none" \/ host.vendor # "nvidia" \/ host.os = "windows"
         /\ mem.nvml = "handle" => s.state = "handle"
         /\ IF host.located
            THEN /\ s.state = "unasked" => s.failed
                 /\ s.state = "handle" /\ ~s.failed =>
                      /\ s.seen.verdict # "unknown"
                      /\ s.seen.verdict = "busy" \/ \A p \in w.here : w.kind[p] # "compute"
            ELSE s.seen = Given(merged)
         /\ s.state = "handle" => host.vendor = "nvidia" /\ ~host.wddm
         /\ s.seen # Given(merged) => s.state = "handle"
<1> DEFINE given == Given(merged)
<1>1. /\ WorldOK /\ PollOK /\ mem.nvml \in {"unasked", "none", "handle"}
      /\ mem.nvml = "handle" => host.vendor = "nvidia" /\ ~host.wddm
  BY DEF IInv, MemoryOK, VerdictInv
<1>2. Observed(given) /\ (given.verdict = "busy" => merged.verdict = "busy")
  BY <1>1, GivenFacts
<1>9. CASE ~host.located
  <2>1. s = Sampled(mem.nvml, given, FALSE)
    BY <1>9 DEF Nvml!Sample, Nvml!Sampled, Sampled
  <2>2. s.state = mem.nvml /\ s.seen = given /\ s.failed = FALSE
    BY <2>1 DEF Sampled
  <2> HIDE DEF given
  <2>3. s.seen = Given(merged)
    BY <2>2 DEF given
  <2> QED
    BY <2>2, <2>3, <1>1, <1>2, <1>9
<1>10. CASE host.located
  <2>1. PICK h \in Nvml!LookUp(mem.nvml, host) :
          s \in IF h = "handle"
                THEN {Sampled(h, given, TRUE)} \cup {Sampled(h, o, FALSE) : o \in Nvml!Judged(w, host, given)}
                ELSE {Sampled(h, given, h = "unasked")}
    BY <1>10 DEF Nvml!Sample, Nvml!Sampled, Sampled, given
  <2> HIDE DEF given
  <2>2. /\ h \in {"unasked", "none", "handle"}
        /\ h = "none" => mem.nvml = "none" \/ host.vendor # "nvidia" \/ host.os = "windows"
        /\ mem.nvml = "handle" => h = "handle"
        /\ h = "handle" => host.vendor = "nvidia" /\ ~host.wddm
    BY <1>1, HostFacts DEF Nvml!LookUp
  <2>3. CASE h # "handle"
    <3>1. s = Sampled(h, given, h = "unasked")
      BY <2>1, <2>3
    <3>2. s.state = h /\ s.seen = given /\ s.failed = (h = "unasked")
      BY <3>1 DEF Sampled
    <3> QED
      BY <3>2, <1>2, <1>10, <2>2, <2>3 DEF given
  <2>4. CASE h = "handle" /\ s = Sampled(h, given, TRUE)
    <3>1. s.state = h /\ s.seen = given /\ s.failed = TRUE
      BY <2>4 DEF Sampled
    <3> QED
      BY <3>1, <1>2, <1>10, <2>2, <2>4 DEF given
  <2>5. ASSUME h = "handle", NEW o \in Nvml!Judged(w, host, given), s = Sampled(h, o, FALSE)
        PROVE  /\ s.state = "handle" /\ s.seen = o /\ s.failed = FALSE
               /\ Observed(o) /\ o.verdict # "unknown"
               /\ IF o.verdict = "busy" THEN Users(w) # {} ELSE \A p \in w.here : w.kind[p] # "compute"
    <3>1. s.state = h /\ s.seen = o /\ s.failed = FALSE
      BY <2>5 DEF Sampled
    <3> DEFINE contexts == {p \in w.here : w.kind[p] = "compute"}
    <3>2. (Nvml!OtherEntries(w, host) = 0 <=> contexts = {}) /\ contexts \subseteq Users(w)
      BY <1>1, NvmlContexts
    <3>3. CASE Nvml!OtherEntries(w, host) = 0
      <4>1. o = [given EXCEPT !.verdict = "idle"]
        BY <2>5, <3>3 DEF Nvml!Judged
      <4>2. Observed(o) /\ o.verdict = "idle"
        BY <4>1, <1>2 DEF Observed
      <4> QED
        BY <3>1, <3>2, <3>3, <4>2, <2>5
    <3>4. CASE Nvml!OtherEntries(w, host) # 0
      <4>1. \E b : o = [verdict |-> "busy", busy |-> b]
        BY <2>5, <3>4 DEF Nvml!Judged
      <4>2. Observed(o) /\ o.verdict = "busy"
        BY <4>1 DEF Observed
      <4> QED
        BY <3>1, <3>2, <3>4, <4>2, <2>5
    <3> QED
      BY <3>3, <3>4
  <2>6. CASE h = "handle" /\ \E o \in Nvml!Judged(w, host, given) : s = Sampled(h, o, FALSE)
    <3>1. PICK o \in Nvml!Judged(w, host, given) : s = Sampled(h, o, FALSE)
      BY <2>6
    <3>2. /\ s.state = "handle" /\ s.seen = o /\ s.failed = FALSE
          /\ Observed(o) /\ o.verdict # "unknown"
          /\ IF o.verdict = "busy" THEN Users(w) # {} ELSE \A p \in w.here : w.kind[p] # "compute"
      BY <2>5, <2>6, <3>1
    <3> QED
      BY <3>2, <1>10, <2>2, <2>6
  <2> QED
    BY <2>1, <2>3, <2>4, <2>6
<1> QED
  BY <1>1, <1>9, <1>10, HostFacts

\* NVML tells of NVIDIA's device alone, if its turn was not in vain.
NvmlAnswers ==
  /\ mem.nvml = "none" => host.vendor # "nvidia" \/ host.os = "windows"
  /\ mem.nvml = "handle" => host.vendor = "nvidia" /\ ~host.wddm
  /\ ~Seen => merged.verdict = "unknown"
  /\ host.os = "linux" /\ ByNvml => Told
  /\ ByNvml /\ mem.nvml = "handle" => Told
  /\ host.vendor = "nvidia" /\ ~host.wddm => Unseen \/ failed \/ merged.verdict = "busy" \/ Users(w) = {}

LEMMA NvmlTook ==
  ASSUME IInv, SampleNvml, NEW s \in Nvml!Sample(mem.nvml, w, host, Given(merged)), Took("nvml", s)
  PROVE  NvmlAnswers' /\ mem'.nvml = s.state /\ UNCHANGED <<host, w>>
<1> DEFINE given == Given(merged)
<1>1. step = "sample" /\ Turn("nvml") /\ WorldOK /\ PollOK
  BY DEF SampleNvml, Turn, IInv
<1>2. host.nvml /\ host.os \in {"linux", "windows"}
  BY <1>1, Turns
<1>3. /\ Observed(s.seen) /\ s.failed \in BOOLEAN /\ s.state \in {"unasked", "none", "handle"}
      /\ s.state = "none" => mem.nvml = "none" \/ host.vendor # "nvidia" \/ host.os = "windows"
      /\ mem.nvml = "handle" => s.state = "handle"
      /\ IF host.located
         THEN /\ s.state = "unasked" => s.failed
              /\ s.state = "handle" /\ ~s.failed =>
                   /\ s.seen.verdict # "unknown"
                   /\ s.seen.verdict = "busy" \/ \A p \in w.here : w.kind[p] # "compute"
         ELSE s.seen = given
      /\ s.state = "handle" => host.vendor = "nvidia" /\ ~host.wddm
      /\ s.seen # given => s.state = "handle"
  BY NvmlFacts
<1>4. /\ mem'.nvml = s.state
      /\ failed' \in BOOLEAN /\ (failed' <=> failed \/ s.failed)
      /\ merged'.verdict = "busy" <=> merged.verdict = "busy" \/ s.seen.verdict = "busy"
      /\ merged'.verdict = "unknown" <=> merged.verdict = "unknown" /\ s.seen.verdict = "unknown"
      /\ UNCHANGED <<host, w>>
  BY <1>3, TookFacts
<1>5. merged.verdict = "unknown" => given.verdict = "unknown"
  BY DEF Given, MeasuredBusy, Unknown
<1> HIDE DEF given
<1>6. mem'.nvml = "none" => host.vendor # "nvidia" \/ host.os = "windows"
  BY <1>3, <1>4 DEF IInv, VerdictInv
<1>7. ~Seen' => merged'.verdict = "unknown"
  <2> SUFFICES ASSUME ~Seen' PROVE merged'.verdict = "unknown"
    OBVIOUS
  <2>4. Seen => Seen'
    <3>1. host' = host /\ (mem.nvml = "handle" => mem'.nvml = "handle")
      BY <1>3, <1>4
    <3>2. Drm!HasNode(host') = Drm!HasNode(host)
      BY <3>1
    <3> QED
      BY <3>1, <3>2, <1>2 DEF Seen, ByNvml
  <2>1. merged.verdict = "unknown"
    BY <2>4, <1>1 DEF IInv, VerdictInv, Turn
  <2>2. CASE s.seen = given
    BY <2>1, <2>2, <1>4, <1>5
  <2>3. CASE s.seen # given
    BY <2>3, <1>2, <1>3, <1>4 DEF Seen, ByNvml
  <2> QED
    BY <2>2, <2>3
<1>8. ByNvml /\ (host.os = "linux" \/ mem'.nvml = "handle") => Told'
  BY <1>3, <1>4, <1>6 DEF Told, ByNvml
<1>9. host.vendor = "nvidia" /\ ~host.wddm =>
        Unseen' \/ failed' \/ merged'.verdict = "busy" \/ Users(w') = {}
  <2> SUFFICES ASSUME host.vendor = "nvidia", ~host.wddm
               PROVE  Unseen' \/ failed' \/ merged'.verdict = "busy" \/ Users(w') = {}
    OBVIOUS
  <2>1. CASE s.state = "none" \/ ~host.located
    BY <2>1, <1>4 DEF Unseen
  <2>2. CASE s.state = "unasked" /\ host.located
    BY <2>2, <1>3, <1>4
  <2>3. CASE s.state = "handle" /\ host.located
    <3>1. \A p \in w.here : w.kind[p] \in {"compute", "graphics"}
      BY <1>1, HostFacts DEF WorldOK, Kinds
    <3>2. (\A p \in w.here : w.kind[p] # "compute") => Users(w) = {}
      BY <3>1 DEF Users
    <3> QED
      BY <2>3, <3>2, <1>3, <1>4
  <2> QED
    BY <2>1, <2>2, <2>3, <1>3
<1>10. ByNvml' = ByNvml
  BY <1>4 DEF ByNvml
<1> QED
  BY <1>3, <1>4, <1>6, <1>7, <1>8, <1>9, <1>10 DEF NvmlAnswers

\* On a Windows without the GPU Engine counters NVML is the last to be asked.
LEMMA SampleNvmlLast ==
  ASSUME IInv, SampleNvml, Len(todo) = 1
  PROVE  IInv'
<1>1. PICK s \in Nvml!Sample(mem.nvml, w, host, Given(merged)) : Took("nvml", s)
  BY DEF SampleNvml
<1>2. step = "sample" /\ Turn("nvml") /\ Read /\ UNCHANGED scan /\ WorldOK
  BY DEF SampleNvml, Turn, IInv
<1>3. host.os = "windows" /\ ~host.pdh /\ host.nvml
  BY <1>2, Turns DEF IInv
<1>4. /\ Observed(s.seen) /\ s.failed \in BOOLEAN /\ s.state \in {"unasked", "none", "handle"}
      /\ s.seen.verdict = "busy" => merged.verdict = "busy" \/ Users(w) # {}
  BY NvmlFacts
<1>5. WorldOK' /\ PollOK' /\ AroundInv' /\ NvmlInv' /\ RescanInv' /\ step' = "end"
  <2>1. s.seen.verdict = "busy" => merged.verdict = "busy" \/ around # {}
    BY <1>2, <1>4 DEF IInv, AroundInv
  <2> QED
    BY <1>1, <1>2, <1>4, <2>1, TookLast
<1>6. NvmlAnswers' /\ UNCHANGED <<host, w>>
  BY <1>1, NvmlTook
<1>7. /\ DOMAIN mem' = DOMAIN mem /\ mem'.nvml = s.state
      /\ mem'.drm = mem.drm /\ mem'.pdh = mem.pdh /\ mem'.ioreg = mem.ioreg
  BY <1>1, <1>4, TookFacts
<1>8. MemoryOK'
  BY <1>4, <1>7 DEF IInv, MemoryOK
<1>9. VerdictInv'
  BY <1>3, <1>5, <1>6 DEF NvmlAnswers, VerdictInv, Seen
<1>10. /\ floor' \in [Everybody -> 0 .. Full] /\ asked' \in [Everybody -> 0 .. Full]
       /\ \A p \in Everybody \ Present(w) : floor'[p] = 0 /\ asked'[p] = 0
  BY <1>2, <1>6, ReadFacts
<1>11. ClockInv'
  <2>1. w'.clock = w.clock /\ w.clock > 0 /\ w.clock \in Nat
    BY <1>2, <1>6 DEF IInv, ClockInv, WorldOK
  <2>2. /\ \A k \in DOMAIN mem.drm : mem.drm[k].at <= 0 /\ mem.drm[k].at \in Int
        /\ \A p \in DOMAIN mem.pdh : mem.pdh[p].at <= 0 /\ mem.pdh[p].at \in Int
        /\ mem.ioreg.primed => mem.ioreg.time <= 0
        /\ mem.ioreg.time \in Int
    BY <1>2 DEF IInv, ClockInv, MemoryOK, Map, Readout
  <2>3. /\ \A k \in DOMAIN mem'.drm : mem'.drm[k].at <= w'.clock
        /\ \A p \in DOMAIN mem'.pdh : mem'.pdh[p].at <= w'.clock
        /\ mem'.ioreg.primed => mem'.ioreg.time <= w'.clock
    BY <2>1, <2>2, <1>7
  <2> QED
    BY <2>1, <2>3, <1>5, <1>6, <1>10 DEF ClockInv, Present
<1>12. DrmInv' /\ PdhInv' /\ IoRegInv'
  BY <1>2, <1>3, <1>5, <1>6 DEF IInv, DrmInv, PdhInv, IoRegInv
<1>13. NoUserOverlooked'
  <2> SUFFICES ASSUME merged'.verdict = "idle", ~failed', ~Unseen', NEW p \in Users(w')
               PROVE  FALSE
    BY DEF NoUserOverlooked, Ended
  <2>1. host'.vendor = "nvidia" /\ ~host'.wddm
    BY <1>3, <1>6 DEF NvmlAnswers, Seen
  <2> QED
    BY <2>1, <1>6 DEF NvmlAnswers
<1> QED
  BY <1>5, <1>8, <1>9, <1>11, <1>12, <1>13 DEF IInv

LEMMA SampleNvmlKeepsIInv == IInv /\ SampleNvml => IInv'
<1> SUFFICES ASSUME IInv, SampleNvml PROVE IInv'
  OBVIOUS
<1>1. CASE Len(todo) = 1
  BY <1>1, SampleNvmlLast
<1>2. CASE Len(todo) # 1
  <2>1. PICK s \in Nvml!Sample(mem.nvml, w, host, Given(merged)) : Took("nvml", s)
    BY DEF SampleNvml
  <2>2. step = "sample" /\ Turn("nvml") /\ UNCHANGED <<scan, floor, asked>>
    BY <1>2 DEF SampleNvml, Turn
  <2>3. /\ Observed(s.seen) /\ s.failed \in BOOLEAN /\ s.state \in {"unasked", "none", "handle"}
        /\ s.seen.verdict = "busy" => merged.verdict = "busy" \/ Users(w) # {}
    BY NvmlFacts
  <2>4. step' = "sample"
    BY <1>2, <2>1 DEF Took
  <2>5. NvmlAnswers'
    BY <2>1, NvmlTook
  <2>6. VerdictInv'
    BY <2>4, <2>5 DEF NvmlAnswers, VerdictInv
  <2>7. NvmlInv'
    BY <2>5 DEF NvmlAnswers, NvmlInv
  <2> QED
    BY <1>2, <2>1, <2>2, <2>3, <2>6, <2>7, TookOn
<1> QED
  BY <1>1, <1>2

\* Where nobody else has a queue, our own one is left out or discounted.
LEMMA KfdOwners ==
  ASSUME WorldOK, Users(w) = {}
  PROVE  Kfd!OtherOwners(w, host) = 0
<1> DEFINE own == Kfd!Owns(w, host, Self)
           owners == {Kfd!ProcessOf(host, p) : p \in {q \in Present(w) : Kfd!Owns(w, host, q)}}
           pids == owners \ (IF own /\ ~host.pidns THEN {Self} ELSE {})
<1>1. \A p \in w.here : p # Self /\ ~Kfd!Owns(w, host, p)
  BY OthersAssumption, SameSelf DEF WorldOK, Users, Kfd!Owns, Kfd!KindOf
<1>2. owners = IF own THEN {Self} ELSE {}
  <2>1. {q \in Present(w) : Kfd!Owns(w, host, q)} = IF own THEN {Self} ELSE {}
    BY <1>1 DEF Present
  <2>2. Kfd!ProcessOf(host, Self) = Self
    BY SameSelf DEF Kfd!ProcessOf
  <2> HIDE DEF own
  <2> QED
    BY <2>1, <2>2
<1>3. Kfd!OtherOwners(w, host) =
        Cardinality(pids) - (IF ~(own /\ ~host.pidns) /\ own /\ pids # {} THEN 1 ELSE 0)
  BY SameSelf, SameProcesses DEF Kfd!OtherOwners, Kfd!Cardinality, Cardinality
<1>4. Cardinality({}) = 0 /\ Cardinality({Self}) = 1
  BY FS_EmptySet, FS_Singleton
<1> HIDE DEF own, owners
<1>5. CASE own /\ host.pidns
  <2>1. pids = {Self}
    BY <1>2, <1>5
  <2> QED
    BY <2>1, <1>3, <1>4, <1>5
<1>6. CASE ~(own /\ host.pidns)
  <2>1. pids = {}
    BY <1>2, <1>6
  <2> QED
    BY <2>1, <1>3, <1>4, <1>6
<1> QED
  BY <1>5, <1>6

LEMMA SampleKfdKeepsIInv == IInv /\ SampleKfd => IInv'
<1> SUFFICES ASSUME IInv, SampleKfd PROVE IInv'
  OBVIOUS
<1> DEFINE given == Given(merged)
<1>1. PICK s \in Kfd!Sample(w, host, given) : Took("kfd", s)
  BY DEF SampleKfd
<1>2. step = "sample" /\ Turn("kfd") /\ UNCHANGED <<scan, floor, asked>>
  BY DEF SampleKfd, Turn
<1>3. WorldOK /\ PollOK
  BY DEF IInv
<1>4. Observed(given) /\ (given.verdict = "busy" => merged.verdict = "busy")
  BY <1>3, GivenFacts
<1> HIDE DEF given
<1>5. /\ Observed(s.seen) /\ s.failed \in BOOLEAN
      /\ s.seen.verdict = "busy" => merged.verdict = "busy" \/ Users(w) # {}
      /\ s.seen = given \/ Kfd!InTopology(host)
  <2>1. CASE s = Sampled(0, given, FALSE)
    BY <2>1, <1>4 DEF Sampled
  <2>2. CASE Kfd!InTopology(host) /\ s = Sampled(0, [given EXCEPT !.verdict = "idle"], FALSE)
    <3>1. s.seen = [given EXCEPT !.verdict = "idle"] /\ s.failed = FALSE
      BY <2>2 DEF Sampled
    <3>2. Observed(s.seen) /\ s.seen.verdict = "idle"
      BY <3>1, <1>4 DEF Observed
    <3> QED
      BY <2>2, <3>1, <3>2
  <2>3. CASE /\ Kfd!InTopology(host) /\ Kfd!OtherOwners(w, host) # 0
             /\ \E b : s = Sampled(0, [verdict |-> "busy", busy |-> b], FALSE)
    <3>1. PICK b : s = Sampled(0, [verdict |-> "busy", busy |-> b], FALSE)
      BY <2>3
    <3>2. s.seen = [verdict |-> "busy", busy |-> b] /\ s.failed = FALSE
      BY <3>1 DEF Sampled
    <3>3. Observed(s.seen)
      BY <3>2 DEF Observed
    <3>4. Users(w) # {}
      BY <2>3, <1>3, KfdOwners
    <3> QED
      BY <2>3, <3>2, <3>3, <3>4
  <2> QED
    BY <2>1, <2>2, <2>3 DEF Kfd!Sample, Kfd!Sampled, Sampled
<1>6. /\ mem'.nvml = mem.nvml /\ (failed' <=> failed \/ s.failed)
      /\ merged'.verdict = "busy" <=> merged.verdict = "busy" \/ s.seen.verdict = "busy"
      /\ merged'.verdict = "unknown" <=> merged.verdict = "unknown" /\ s.seen.verdict = "unknown"
      /\ step' = (IF Len(todo) = 1 THEN "end" ELSE "sample")
      /\ UNCHANGED <<host, w>>
  BY <1>1, <1>5, TookFacts
<1>7. host.os = "linux" /\ Len(todo) # 1 /\ Head(todo) # "nvml"
  BY <1>2, <1>3, Turns DEF Turn
<1>8. VerdictInv'
  <2>1. Seen' = Seen /\ ByNvml' = ByNvml
    BY <1>6 DEF Seen, ByNvml
  <2>2. ~Seen => s.seen = given
    BY <1>5, <1>7 DEF Seen, Kfd!InTopology, Drm!HasNode
  <2>3. merged.verdict = "unknown" => given.verdict = "unknown"
    BY DEF given, Given, MeasuredBusy, Unknown
  <2> QED
    BY <2>1, <2>2, <2>3, <1>2, <1>6, <1>7 DEF IInv, VerdictInv, Told
<1>9. NvmlInv'
  BY <1>2, <1>6, <1>7 DEF IInv, NvmlInv, Unseen, Users
<1> QED
  BY <1>1, <1>2, <1>5, <1>7, <1>8, <1>9, TookOn

-----------------------------------------------------------------------------
(* The GPU Engine counters of Windows.                                     *)

\* What was read just now has had no time to work since.
LEMMA ReadNow ==
  ASSUME WorldOK, NEW p \in Everybody, NEW f \in Nat
  PROVE  w.used[p] - w.used[p] >= f * (w.clock - w.clock)
<1>1. w.used[p] - w.used[p] = 0 /\ w.clock - w.clock = 0
  BY DEF WorldOK
<1>2. f * 0 = 0
  OBVIOUS
<1> QED
  BY <1>1, <1>2

\* Who has worked since a reading has a share of at least that.
LEMMA WorkedFor ==
  ASSUME WorldOK, NEW least \in [Everybody -> 0 .. Full], NEW p \in Everybody, least[p] > 0,
         NEW before \in Readout, before.at < w.clock, Since(least, p, before.used, before.at)
  PROVE  /\ Reading(w, p) \in Readout /\ Reading(w, p).at = w.clock
         /\ before.used <= Reading(w, p).used
         /\ Share(before, Reading(w, p)) \in Int
         /\ Share(before, Reading(w, p)) >= (100 * least[p]) \div Full
<1> DEFINE after == Reading(w, p)
           f == least[p]
<1>1. w.used[p] \in Int /\ w.clock \in Int /\ f \in Nat /\ f > 0
  BY WorkAssumption DEF WorldOK
<1>2. after \in Readout /\ after.used = w.used[p] /\ after.at = w.clock
  BY <1>1 DEF Reading, Readout
<1>3. before.used \in Int /\ before.at \in Int
  BY DEF Readout
<1>4. after.used - before.used >= f * (after.at - before.at)
  BY <1>2 DEF Since
<1> HIDE DEF after, f
<1>5. f * (after.at - before.at) \in Int /\ f * (after.at - before.at) >= 0
  <2> DEFINE t == after.at - before.at
  <2>1. t \in Nat
    BY <1>1, <1>2, <1>3
  <2> HIDE DEF t
  <2>2. f * t \in Nat
    BY <1>1, <2>1
  <2> QED
    BY <2>2 DEF t
<1>6. before.used <= after.used
  BY <1>1, <1>2, <1>3, <1>4, <1>5
<1>7. Share(before, after) \in Int /\ Share(before, after) >= (100 * f) \div Full
  BY <1>1, <1>2, <1>4, ShareAtLeast
<1> QED
  BY <1>2, <1>6, <1>7 DEF after, f

LEMMA PdhRaw ==
  /\ DOMAIN Pdh!Raw(w, host) = Pdh!Instances(w, host)
  /\ \A p \in Pdh!Instances(w, host) : Pdh!Raw(w, host)[p] = Reading(w, p)
  /\ Pdh!Instances(w, host) \subseteq Present(w)
  /\ Pdh!Instances(w, host) \ {Self} \subseteq Users(w)
  /\ host.vendor = "nvidia" /\ host.wddm => Users(w) \subseteq Pdh!Instances(w, host) \cup {Self}
  /\ host.vendor # "nvidia" => Users(w) \subseteq Pdh!Instances(w, host) \cup {Self}
<1>1. DOMAIN Pdh!Raw(w, host) = Pdh!Instances(w, host)
  BY DEF Pdh!Raw
<1>2. \A p \in Pdh!Instances(w, host) : Pdh!Raw(w, host)[p] = Reading(w, p)
  BY SameReading DEF Pdh!Raw
<1>3. \A p \in Present(w) \ {Self} : p \in w.here /\ Pdh!KindOf(w, host, p) = w.kind[p]
  BY SameSelf DEF Present, Pdh!KindOf
<1> QED
  BY <1>1, <1>2, <1>3, SameProcesses DEF Pdh!Instances, Users, Present

\* A user that has worked is busy by his counters.
LEMMA PdhCounts ==
  ASSUME IInv, host.os = "windows", host.pdh, step = "sample",
         NEW p \in Pdh!Instances(w, host), floor[p] > 0
  PROVE  LET busy == Pdh!Busy(mem.pdh, Pdh!Raw(w, host))
         IN  p \in DOMAIN busy /\ busy[p] \in Int /\ busy[p] >= (100 * floor[p]) \div Full
<1> DEFINE before == mem.pdh[p]
<1>1. /\ p \in Present(w) /\ DOMAIN Pdh!Raw(w, host) = Pdh!Instances(w, host)
      /\ Pdh!Raw(w, host)[p] = Reading(w, p)
  BY PdhRaw
<1>2. WorldOK /\ p \in Everybody /\ floor \in [Everybody -> 0 .. Full] /\ w.clock \in Nat
  BY <1>1, ProcessesAreEverybody DEF IInv, ClockInv, WorldOK
<1>3. p \in DOMAIN mem.pdh /\ Since(floor, p, before.used, before.at)
  BY DEF IInv, PdhInv
<1>4. before \in Readout /\ before.at \in Int
  BY <1>3 DEF IInv, MemoryOK, Map, Readout
<1>5. before.at < w.clock
  BY <1>2, <1>3, <1>4 DEF IInv, ClockInv
<1> HIDE DEF before
<1>6. /\ Reading(w, p).at = w.clock /\ before.used <= Reading(w, p).used
      /\ Share(before, Reading(w, p)) \in Int
      /\ Share(before, Reading(w, p)) >= (100 * floor[p]) \div Full
  BY <1>2, <1>3, <1>4, <1>5, WorkedFor
<1>7. p \in DOMAIN Pdh!Busy(mem.pdh, Pdh!Raw(w, host))
      /\ Pdh!Busy(mem.pdh, Pdh!Raw(w, host))[p] = Share(before, Reading(w, p))
  BY <1>1, <1>3, <1>5, <1>6, SameShare DEF Pdh!Busy, before
<1> QED
  BY <1>6, <1>7

LEMMA PdhJudged ==
  ASSUME IInv, NEW given, Observed(given)
  PROVE  LET busy == Pdh!Busy(mem.pdh, Pdh!Raw(w, host))
             o    == Pdh!Judged(busy, given)
         IN  /\ Observed(o) /\ o.verdict # "unknown"
             /\ o.verdict = "busy" => Users(w) # {}
             /\ o.verdict = "idle" => \A p \in DOMAIN busy \ {Self} : ~(busy[p] >= MinBusyPercent)
<1> DEFINE busy == Pdh!Busy(mem.pdh, Pdh!Raw(w, host))
           o    == Pdh!Judged(busy, given)
<1>1. DOMAIN busy \ {Self} \subseteq Users(w)
  BY PdhRaw DEF Pdh!Busy
<1> HIDE DEF busy
<1>2. CASE \E p \in DOMAIN busy \ {Self} : busy[p] >= MinBusyPercent
  <2>1. o = [verdict |-> "busy", busy |-> Pdh!Capped(busy)]
    BY <1>2, SameSelf DEF Pdh!Judged
  <2>2. Observed(o) /\ o.verdict = "busy"
    BY <2>1 DEF Observed
  <2> HIDE DEF o
  <2> QED
    BY <2>2, <1>1, <1>2 DEF busy, o
<1>3. CASE ~(\E p \in DOMAIN busy \ {Self} : busy[p] >= MinBusyPercent)
  <2>1. o = [given EXCEPT !.verdict = "idle"]
    BY <1>3, SameSelf DEF Pdh!Judged
  <2>2. Observed(o) /\ o.verdict = "idle"
    BY <2>1 DEF Observed
  <2> HIDE DEF o
  <2> QED
    BY <2>2, <1>3 DEF busy, o
<1> QED
  BY <1>2, <1>3

LEMMA SamplePdhKeepsIInv == IInv /\ SamplePdh => IInv'
<1> SUFFICES ASSUME IInv, SamplePdh PROVE IInv'
  OBVIOUS
<1> DEFINE given == Given(merged)
           raw  == Pdh!Raw(w, host)
           busy == Pdh!Busy(mem.pdh, raw)
<1>1. PICK s \in Pdh!Sample(mem.pdh, w, host, given) :
        Took("pdh", s) /\ IF s.failed THEN UNCHANGED <<floor, asked>> ELSE Read
  BY DEF SamplePdh
<1>2. step = "sample" /\ Turn("pdh") /\ UNCHANGED scan
  BY DEF SamplePdh, Turn
<1>3. WorldOK /\ PollOK /\ Present(w) \subseteq Everybody /\ Users(w) \subseteq Present(w)
      /\ Users(w) \subseteq Others
  BY ProcessesAreEverybody DEF IInv, WorldOK
<1>4. Observed(given) /\ (given.verdict = "busy" => merged.verdict = "busy")
  BY <1>3, GivenFacts
<1>5. host.os = "windows" /\ host.pdh /\ Len(todo) = 1 /\ Head(todo) # "nvml"
  BY <1>2, <1>3, Turns DEF Turn
<1>6. /\ Observed(Pdh!Judged(busy, given)) /\ Pdh!Judged(busy, given).verdict # "unknown"
      /\ Pdh!Judged(busy, given).verdict = "busy" => Users(w) # {}
      /\ Pdh!Judged(busy, given).verdict = "idle" =>
           \A p \in DOMAIN busy \ {Self} : ~(busy[p] >= MinBusyPercent)
  BY <1>4, PdhJudged
<1>7. \/ s = Sampled(mem.pdh, given, TRUE)
      \/ s = Sampled(raw, Pdh!Judged(busy, given), FALSE)
  BY DEF Pdh!Sample, Pdh!Sampled, Sampled
<1>8. /\ DOMAIN raw = Pdh!Instances(w, host)
      /\ \A p \in Pdh!Instances(w, host) : raw[p] = Reading(w, p)
      /\ Pdh!Instances(w, host) \subseteq Present(w)
  BY PdhRaw
<1>9. Users(w) \subseteq around
  BY <1>2 DEF IInv, AroundInv
<1> HIDE DEF given, raw, busy
<1>10. CASE s = Sampled(mem.pdh, given, TRUE)
  <2>1. s.state = mem.pdh /\ s.seen = given /\ s.failed = TRUE
    BY <1>10 DEF Sampled
  <2>2. Observed(s.seen) /\ s.failed \in BOOLEAN
    BY <2>1, <1>4
  <2>3. WorldOK' /\ PollOK' /\ AroundInv' /\ NvmlInv' /\ RescanInv' /\ step' = "end"
    BY <1>1, <1>2, <1>4, <1>5, <2>1, <2>2, TookLast
  <2>4. /\ DOMAIN mem' = DOMAIN mem /\ mem'.pdh = mem.pdh /\ mem'.drm = mem.drm
        /\ mem'.nvml = mem.nvml /\ mem'.ioreg = mem.ioreg /\ failed'
        /\ UNCHANGED <<host, w, around, floor, asked>>
    BY <1>1, <2>1, <2>2, TookFacts
  <2>5. MemoryOK'
    BY <2>4 DEF IInv, MemoryOK
  <2>6. VerdictInv'
    BY <2>3, <2>4, <1>5 DEF IInv, VerdictInv, Told, Seen
  <2>7. ClockInv'
    <3>1. \A i \in Int : i <= 0 => i <= w.clock
      BY <1>3 DEF WorldOK
    <3>2. /\ \A k \in DOMAIN mem.drm : mem.drm[k].at \in Int
          /\ \A p \in DOMAIN mem.pdh : mem.pdh[p].at \in Int
          /\ mem.ioreg.time \in Int
      BY DEF IInv, MemoryOK, Map, Readout
    <3> QED
      BY <3>1, <3>2, <2>3, <2>4, <1>2 DEF IInv, ClockInv
  <2>8. DrmInv' /\ IoRegInv'
    BY <2>3, <2>4, <1>2, <1>5 DEF IInv, DrmInv, IoRegInv
  <2>9. PdhInv'
    BY <2>3, <2>4 DEF IInv, PdhInv, Since
  <2>10. NoUserOverlooked'
    BY <2>4 DEF NoUserOverlooked
  <2> QED
    BY <2>3, <2>5, <2>6, <2>7, <2>8, <2>9, <2>10 DEF IInv
<1>11. CASE s = Sampled(raw, Pdh!Judged(busy, given), FALSE)
  <2>1. s.state = raw /\ s.seen = Pdh!Judged(busy, given) /\ s.failed = FALSE
    BY <1>11 DEF Sampled
  <2>2. Observed(s.seen) /\ s.failed \in BOOLEAN /\ s.seen.verdict # "unknown"
        /\ (s.seen.verdict = "busy" => around # {})
    BY <2>1, <1>6, <1>9
  <2>3. WorldOK' /\ PollOK' /\ AroundInv' /\ NvmlInv' /\ RescanInv' /\ step' = "end"
    BY <1>1, <1>2, <1>4, <1>5, <2>1, <2>2, TookLast
  <2>4. /\ DOMAIN mem' = DOMAIN mem /\ mem'.pdh = raw /\ mem'.drm = mem.drm
        /\ mem'.nvml = mem.nvml /\ mem'.ioreg = mem.ioreg /\ (failed' <=> failed)
        /\ merged'.verdict = "busy" <=> merged.verdict = "busy" \/ s.seen.verdict = "busy"
        /\ merged'.verdict = "unknown" <=> merged.verdict = "unknown" /\ s.seen.verdict = "unknown"
        /\ Observed(merged')
        /\ UNCHANGED <<host, w, around>> /\ Read
    BY <1>1, <2>1, <2>2, TookFacts
  <2>5. /\ floor' \in [Everybody -> 0 .. Full] /\ asked' = floor
        /\ asked' \in [Everybody -> 0 .. Full]
        /\ \A p \in Everybody \ Present(w) : floor'[p] = 0 /\ asked'[p] = 0
        /\ \A p \in Present(w) : floor'[p] = Full
        /\ Full \in Nat
    BY <2>4, ReadFacts
  <2>6. \A p \in Pdh!Instances(w, host) : /\ raw[p] \in Readout /\ raw[p].at = w.clock
                                          /\ raw[p].used = w.used[p]
    BY <1>3, <1>8 DEF Reading, Readout, WorldOK
  <2>7. MemoryOK'
    <3>1. Map(raw, Everybody, Readout)
      BY <2>6, <1>3, <1>8 DEF Map, Pdh!Raw, raw
    <3> QED
      BY <3>1, <2>4 DEF IInv, MemoryOK
  <2>8. VerdictInv'
    BY <2>2, <2>3, <2>4, <1>5 DEF IInv, VerdictInv, Told, Seen
  <2>9. ClockInv'
    <3>1. \A i \in Int : i <= 0 => i <= w.clock
      BY <1>3 DEF WorldOK
    <3>2. /\ \A k \in DOMAIN mem.drm : mem.drm[k].at \in Int
          /\ mem.ioreg.time \in Int /\ w.clock \in Int
      BY <1>3 DEF IInv, MemoryOK, Map, Readout, WorldOK
    <3>3. /\ \A k \in DOMAIN mem.drm : mem.drm[k].at <= w.clock
          /\ mem.ioreg.primed => mem.ioreg.time <= w.clock
          /\ w.clock > 0
      BY <3>1, <3>2, <1>2 DEF IInv, ClockInv
    <3>4. \A p \in DOMAIN raw : raw[p].at <= w.clock
      BY <3>2, <2>6, <1>8
    <3> QED
      BY <3>3, <3>4, <2>3, <2>4, <2>5 DEF ClockInv, Present
  <2>10. DrmInv' /\ IoRegInv'
    BY <2>3, <2>4, <1>2, <1>5 DEF IInv, DrmInv, IoRegInv
  <2>11. PdhInv'
    <3>1. ASSUME NEW p \in Pdh!Instances(w, host)
          PROVE  p \in DOMAIN raw /\ w.used[p] - raw[p].used >= floor'[p] * (w.clock - raw[p].at)
      <4>1. p \in Everybody /\ floor'[p] \in Nat
        BY <1>3, <1>8, <2>5
      <4>2. w.used[p] - w.used[p] >= floor'[p] * (w.clock - w.clock)
        BY <4>1, <1>3, ReadNow
      <4> QED
        BY <4>2, <1>8, <2>6
    <3>2. Pdh!Instances(w', host') = Pdh!Instances(w, host)
      BY <2>4
    <3> QED
      BY <3>1, <3>2, <2>3, <2>4 DEF PdhInv, Since
  <2>12. NoUserOverlooked'
    <3> SUFFICES ASSUME merged'.verdict = "idle", ~failed', ~Unseen', NEW p \in Users(w), asked'[p] > 0
                 PROVE  Percent(p)' < MinBusyPercent
      BY <2>4 DEF NoUserOverlooked, Ended, Users
    <3>1. merged.verdict # "busy" /\ s.seen.verdict = "idle" /\ ~failed /\ ~Unseen /\ floor[p] > 0
      BY <2>2, <2>4, <2>5 DEF Observed, Unseen
    <3>2. p \in Pdh!Instances(w, host) /\ p # Self
      <4>1. ~(host.vendor = "nvidia" /\ ~host.wddm)
        <5>1. p \in Everybody /\ ~(floor[p] = 0)
          BY <3>1, <1>3
        <5> QED
          BY <5>1, <3>1, <1>2, <1>5 DEF IInv, NvmlInv
      <4>2. p # Self
        BY <1>3, OthersAssumption
      <4>3. host.wddm \in BOOLEAN
        BY <1>3, HostFacts
      <4> QED
        BY <4>1, <4>2, <4>3, PdhRaw
    <3>3. p \in DOMAIN busy /\ busy[p] \in Int /\ busy[p] >= (100 * floor[p]) \div Full
      BY <3>1, <3>2, <1>2, <1>5, PdhCounts DEF busy, raw
    <3>4. ~(busy[p] >= MinBusyPercent)
      BY <3>1, <3>2, <3>3, <2>1, <1>6
    <3>5. (100 * floor[p]) \div Full \in Int /\ MinBusyPercent \in Int
      <4>1. 100 * floor[p] \in Int /\ Full \in Nat /\ Full > 0
        BY <2>5, <1>3, WorkAssumption
      <4> QED
        BY <4>1, QuotientAtMost, WorkAssumption
    <3>6. (100 * floor[p]) \div Full < MinBusyPercent
      BY <3>3, <3>4, <3>5
    <3> QED
      BY <3>6, <2>5 DEF Percent
  <2> QED
    BY <2>3, <2>7, <2>8, <2>9, <2>10, <2>11, <2>12 DEF IInv
<1> QED
  BY <1>7, <1>10, <1>11

-----------------------------------------------------------------------------
(* macOS.                                                                  *)

LEMMA PolledRecord ==
  ASSUME NEW st, DOMAIN st = {"ns", "time", "primed", "servers"}, NEW ns, NEW time, NEW primed
  PROVE  [st EXCEPT !.ns = ns, !.time = time, !.primed = primed]
           = [ns |-> ns, time |-> time, primed |-> primed, servers |-> st.servers]
<1> DEFINE e == [st EXCEPT !.ns = ns, !.time = time, !.primed = primed]
           r == [ns |-> ns, time |-> time, primed |-> primed, servers |-> st.servers]
<1>1. e = [x \in DOMAIN st |-> e[x]] /\ r = [x \in DOMAIN st |-> r[x]]
  OBVIOUS
<1>2. DOMAIN e = DOMAIN st /\ e.ns = ns /\ e.time = time /\ e.primed = primed /\ e.servers = st.servers
  OBVIOUS
<1>3. DOMAIN r = DOMAIN st /\ r.ns = ns /\ r.time = time /\ r.primed = primed /\ r.servers = st.servers
  OBVIOUS
<1> HIDE DEF e, r
<1>4. \A x \in DOMAIN st : e[x] = r[x]
  BY <1>2, <1>3
<1>5. e = r
  BY <1>1, <1>2, <1>3, <1>4
<1> QED
  BY <1>5 DEF e, r

LEMMA IoRegPolled ==
  ASSUME MemoryOK, NEW ns, NEW servers
  PROVE  /\ IoReg!Polled(mem.ioreg, ns, w)
              = [ns |-> ns, time |-> w.clock, primed |-> TRUE, servers |-> mem.ioreg.servers]
         /\ [IoReg!Polled(mem.ioreg, ns, w) EXCEPT !.servers = servers]
              = [ns |-> ns, time |-> w.clock, primed |-> TRUE, servers |-> servers]
<1>1. DOMAIN mem.ioreg = {"ns", "time", "primed", "servers"}
  BY DEF MemoryOK
<1>2. IoReg!Polled(mem.ioreg, ns, w) = [mem.ioreg EXCEPT !.ns = ns, !.time = w.clock, !.primed = TRUE]
  BY DEF IoReg!Polled
<1>3. ASSUME NEW primed
      PROVE  [mem.ioreg EXCEPT !.ns = ns, !.time = w.clock, !.primed = primed]
               = [ns |-> ns, time |-> w.clock, primed |-> primed, servers |-> mem.ioreg.servers]
  BY <1>1, PolledRecord, Zenon
<1>4. IoReg!Polled(mem.ioreg, ns, w)
        = [ns |-> ns, time |-> w.clock, primed |-> TRUE, servers |-> mem.ioreg.servers]
  BY <1>2, <1>3, Zenon
<1>5. ASSUME NEW primed
      PROVE  [[ns |-> ns, time |-> w.clock, primed |-> primed, servers |-> mem.ioreg.servers]
                EXCEPT !.servers = servers]
               = [ns |-> ns, time |-> w.clock, primed |-> primed, servers |-> servers]
  OBVIOUS
<1> QED
  BY <1>4, <1>5, Zenon

\* A process that has worked has a share.
LEMMA IoRegCounts ==
  ASSUME IInv, host.os = "macos", step = "sample",
         NEW p \in Present(w), floor[p] > 0, NEW current,
         current = [q \in Present(w) |-> w.used[q]]
  PROVE  LET shares == IoReg!Shares(mem.ioreg, current, w)
         IN  p \in DOMAIN shares /\ shares[p] \in Int /\ shares[p] >= (100 * floor[p]) \div Full
<1> DEFINE st     == mem.ioreg
           before == [used |-> st.ns[p], at |-> st.time]
<1>1. WorldOK /\ p \in Everybody /\ floor \in [Everybody -> 0 .. Full] /\ w.clock \in Nat
      /\ DOMAIN current = Present(w) /\ current[p] = w.used[p] /\ w.clock > 0
  BY ProcessesAreEverybody DEF IInv, ClockInv, WorldOK
<1>2. st.primed /\ p \in DOMAIN st.ns /\ Since(floor, p, st.ns[p], st.time)
  BY DEF IInv, IoRegInv
<1>3. before \in Readout /\ st.time \in Int
  BY <1>2 DEF IInv, MemoryOK, Map, Readout
<1>4. before.at < w.clock /\ before.used = st.ns[p] /\ before.at = st.time
  BY <1>1, <1>2, <1>3 DEF IInv, ClockInv
<1>5. Since(floor, p, before.used, before.at)
  BY <1>2
<1>6. /\ before.used <= Reading(w, p).used
      /\ Share(before, Reading(w, p)) \in Int
      /\ Share(before, Reading(w, p)) >= (100 * floor[p]) \div Full
  <2> HIDE DEF before
  <2> QED
    BY <1>1, <1>3, <1>4, <1>5, WorkedFor
<1>7. Reading(w, p) = [used |-> current[p], at |-> w.clock] /\ Reading(w, p).used = current[p]
  BY <1>1 DEF Reading
<1>8. st.time # w.clock /\ current[p] >= st.ns[p]
  <2>1. current[p] \in Int /\ st.ns[p] \in Int
    BY <1>1, <1>2 DEF IInv, MemoryOK, Map, WorldOK
  <2> QED
    BY <2>1, <1>1, <1>3, <1>4, <1>6, <1>7
<1> HIDE DEF st
<1>9. IoReg!Shares(st, current, w)
        = [q \in {q \in DOMAIN st.ns \cap DOMAIN current : current[q] >= st.ns[q]} |->
             IoReg!Share([used |-> st.ns[q], at |-> st.time], [used |-> current[q], at |-> w.clock])]
  BY <1>2, <1>8 DEF IoReg!Shares
<1>10. p \in {q \in DOMAIN st.ns \cap DOMAIN current : current[q] >= st.ns[q]}
  BY <1>1, <1>2, <1>8
<1>11. p \in DOMAIN IoReg!Shares(st, current, w)
       /\ IoReg!Shares(st, current, w)[p] = Share(before, Reading(w, p))
  BY <1>7, <1>9, <1>10, SameShare
<1> QED
  BY <1>6, <1>11 DEF st

LEMMA IoRegJudged ==
  ASSUME IInv, host.os = "macos", NEW given, Observed(given), NEW current,
         current = [q \in Present(w) |-> w.used[q]]
  PROVE  LET shares  == IoReg!Shares(mem.ioreg, current, w)
             servers == mem.ioreg.servers \cup IoReg!Servers(w)
             o       == IoReg!Judged(shares, servers, given)
         IN  /\ Observed(o) /\ o.verdict # "unknown"
             /\ o.verdict = "busy" => Users(w) # {}
             /\ o.verdict = "idle" => \A p \in Users(w) \cap DOMAIN shares : ~(shares[p] >= MinBusyPercent)
             /\ \A p \in servers : p \in w.here /\ w.kind[p] = "graphics"
<1> DEFINE shares  == IoReg!Shares(mem.ioreg, current, w)
           servers == mem.ioreg.servers \cup IoReg!Servers(w)
           o       == IoReg!Judged(shares, servers, given)
<1>1. DOMAIN shares \subseteq Present(w)
  BY DEF IoReg!Shares
<1>2. \A p \in servers : p \in w.here /\ w.kind[p] = "graphics"
  BY DEF IInv, IoRegInv, IoReg!Servers
<1>3. DOMAIN shares \ ({Self} \cup servers) \subseteq Users(w)
  <2>1. \A p \in w.here : p \notin IoReg!Servers(w) => w.kind[p] # "graphics"
    BY DEF IoReg!Servers
  <2> QED
    BY <1>1, <2>1 DEF Users, Present
<1>4. \A p \in Users(w) : p \notin {Self} \cup servers
  <2>1. \A p \in Users(w) : p # Self /\ w.kind[p] # "graphics"
    BY OthersAssumption DEF Users, IInv, WorldOK
  <2> QED
    BY <2>1, <1>2
<1> HIDE DEF shares, servers
<1>5. CASE \E p \in DOMAIN shares \ ({Self} \cup servers) : shares[p] >= MinBusyPercent
  <2>1. o = [verdict |-> "busy", busy |-> IoReg!Capped(shares)]
    BY <1>5, SameSelf DEF IoReg!Judged
  <2>2. Observed(o) /\ o.verdict = "busy"
    BY <2>1 DEF Observed
  <2> HIDE DEF o
  <2> QED
    BY <2>2, <1>2, <1>3, <1>5 DEF shares, servers, o
<1>6. CASE ~(\E p \in DOMAIN shares \ ({Self} \cup servers) : shares[p] >= MinBusyPercent)
  <2>1. o = [given EXCEPT !.verdict = "idle"]
    BY <1>6, SameSelf DEF IoReg!Judged
  <2>2. Observed(o) /\ o.verdict = "idle"
    BY <2>1 DEF Observed
  <2> HIDE DEF o
  <2>3. \A p \in Users(w) \cap DOMAIN shares : ~(shares[p] >= MinBusyPercent)
    BY <1>4, <1>6
  <2> QED
    BY <2>2, <2>3, <1>2 DEF shares, servers, o
<1> QED
  BY <1>5, <1>6

LEMMA SampleIoRegKeepsIInv == IInv /\ SampleIoReg => IInv'
<1> SUFFICES ASSUME IInv, SampleIoReg PROVE IInv'
  OBVIOUS
<1> DEFINE given   == Given(merged)
           current == [p \in Present(w) |-> w.used[p]]
           servers == mem.ioreg.servers \cup IoReg!Servers(w)
           shares  == IoReg!Shares(mem.ioreg, current, w)
           seen    == IoReg!Judged(shares, servers, given)
           lost    == [ns |-> <<>>, time |-> w.clock, primed |-> TRUE, servers |-> mem.ioreg.servers]
           read    == [ns |-> current, time |-> w.clock, primed |-> TRUE, servers |-> servers]
<1>1. PICK s \in IoReg!Sample(mem.ioreg, w, host, given) :
        Took("ioreg", s) /\ IF s.failed \/ ~host.located THEN Lost ELSE Read
  BY DEF SampleIoReg
<1>2. step = "sample" /\ Turn("ioreg") /\ UNCHANGED scan
  BY DEF SampleIoReg, Turn
<1>3. WorldOK /\ PollOK /\ MemoryOK /\ Present(w) \subseteq Everybody /\ Users(w) \subseteq Present(w)
      /\ Users(w) \subseteq Others
  BY ProcessesAreEverybody DEF IInv, WorldOK
<1>4. Observed(given) /\ (given.verdict = "busy" => merged.verdict = "busy")
  BY <1>3, GivenFacts
<1>5. host.os = "macos" /\ Len(todo) = 1
  BY <1>2, <1>3, Turns
<1>6. /\ Observed(seen) /\ seen.verdict # "unknown"
      /\ seen.verdict = "busy" => Users(w) # {}
      /\ seen.verdict = "idle" => \A p \in Users(w) \cap DOMAIN shares : ~(shares[p] >= MinBusyPercent)
      /\ \A p \in servers : p \in w.here /\ w.kind[p] = "graphics"
  BY <1>4, <1>5, IoRegJudged
<1>7. \/ s = Sampled(lost, given, host.located)
      \/ host.located /\ s = Sampled(read, seen, FALSE)
  <2>1. \/ s = Sampled(IoReg!Polled(mem.ioreg, <<>>, w), given, host.located)
        \/ /\ host.located
           /\ s = Sampled([IoReg!Polled(mem.ioreg, current, w) EXCEPT !.servers = servers], seen, FALSE)
    BY <1>1, SameProcesses DEF IoReg!Sample, IoReg!Sampled, Sampled
  <2>2. IoReg!Polled(mem.ioreg, <<>>, w) = lost
    BY <1>3, IoRegPolled
  <2>3. [IoReg!Polled(mem.ioreg, current, w) EXCEPT !.servers = servers] = read
    BY <1>3, IoRegPolled
  <2> HIDE DEF lost, read, seen, current, servers
  <2> QED
    BY <2>1, <2>2, <2>3
<1>8. /\ DOMAIN lost = {"ns", "time", "primed", "servers"} /\ lost.ns = <<>> /\ lost.time = w.clock
      /\ lost.primed = TRUE /\ lost.servers = mem.ioreg.servers
      /\ DOMAIN read = {"ns", "time", "primed", "servers"} /\ read.ns = current /\ read.time = w.clock
      /\ read.primed = TRUE /\ read.servers = servers
      /\ DOMAIN current = Present(w) /\ \A p \in Present(w) : current[p] = w.used[p]
  <2> HIDE DEF given, shares, seen, servers
  <2>1. /\ DOMAIN lost = {"ns", "time", "primed", "servers"} /\ lost.ns = <<>> /\ lost.time = w.clock
        /\ lost.servers = mem.ioreg.servers
    OBVIOUS
  <2>4. lost.primed = TRUE /\ read.primed = TRUE
    BY Zenon
  <2>2. DOMAIN current = Present(w) /\ \A p \in Present(w) : current[p] = w.used[p]
    OBVIOUS
  <2> HIDE DEF current
  <2>3. /\ DOMAIN read = {"ns", "time", "primed", "servers"} /\ read.ns = current /\ read.time = w.clock
        /\ read.servers = servers
    OBVIOUS
  <2> HIDE DEF lost, read
  <2> QED
    BY <2>1, <2>2, <2>3, <2>4, Zenon
<1>9. Users(w) \subseteq around
  BY <1>2 DEF IInv, AroundInv
<1>10. w.clock \in Nat /\ w.clock > 0
  BY <1>2, <1>3 DEF IInv, WorldOK, ClockInv
<1>11. \A i \in Int : i <= 0 => i <= w.clock
  BY <1>10
<1>12. /\ \A k \in DOMAIN mem.drm : mem.drm[k].at <= w.clock
       /\ \A p \in DOMAIN mem.pdh : mem.pdh[p].at <= w.clock
  <2>1. /\ \A k \in DOMAIN mem.drm : mem.drm[k].at \in Int
        /\ \A p \in DOMAIN mem.pdh : mem.pdh[p].at \in Int
    BY <1>3 DEF MemoryOK, Map, Readout
  <2> QED
    BY <2>1, <1>11, <1>2 DEF IInv, ClockInv
<1> HIDE DEF given, seen, shares, lost, read
<1>15. host.located \in BOOLEAN /\ (merged.verdict = "unknown" => given.verdict = "unknown")
  BY <1>3, HostFacts DEF given, Given, MeasuredBusy, Unknown
<1>13. CASE s = Sampled(lost, given, host.located)
  <2>1. s.state = lost /\ s.seen = given /\ s.failed = host.located
    BY <1>13 DEF Sampled
  <2>2. Observed(s.seen) /\ s.failed \in BOOLEAN
    BY <2>1, <1>4, <1>15
  <2>3. WorldOK' /\ PollOK' /\ AroundInv' /\ NvmlInv' /\ RescanInv' /\ step' = "end"
    BY <1>1, <1>2, <1>4, <1>5, <2>1, <2>2, TookLast
  <2>4. /\ DOMAIN mem' = DOMAIN mem /\ mem'.ioreg = lost /\ mem'.drm = mem.drm
        /\ mem'.nvml = mem.nvml /\ mem'.pdh = mem.pdh /\ (host.located => failed')
        /\ merged'.verdict = "unknown" <=> merged.verdict = "unknown" /\ given.verdict = "unknown"
        /\ UNCHANGED <<host, w, around>>
    BY <1>1, <2>1, <2>2, TookFacts
  <2>5. asked' = [p \in Everybody |-> 0] /\ floor' = asked'
    BY <1>1, <1>15, <2>1 DEF Lost
  <2>6. \A p \in Everybody : floor'[p] = 0 /\ asked'[p] = 0
    BY <2>5
  <2>7. MemoryOK'
    <3>1. Map(mem'.ioreg.ns, Everybody, Int)
      BY <1>8, <2>4, EmptyMap
    <3>2. mem'.ioreg.primed \in BOOLEAN
      BY <1>8, <2>4, Zenon
    <3> QED
      BY <3>1, <3>2, <1>3, <1>8, <1>10, <2>4 DEF MemoryOK
  <2>8. VerdictInv'
    BY <2>3, <2>4, <1>2, <1>5, <1>15 DEF IInv, VerdictInv, Told, Seen
  <2>9. ClockInv'
    <3>1. 0 \in 0 .. Full
      BY WorkAssumption
    <3>2. mem'.ioreg.time <= w.clock
      BY <1>8, <1>10, <2>4
    <3> QED
      BY <3>1, <3>2, <1>10, <1>12, <2>3, <2>4, <2>5, <2>6 DEF ClockInv
  <2>10. DrmInv' /\ PdhInv'
    BY <2>3, <2>4, <1>2, <1>5 DEF IInv, DrmInv, PdhInv
  <2>11. IoRegInv'
    <3>1. \A p \in Present(w) : ~(floor'[p] > 0)
      BY <2>6, <1>3
    <3>2. mem'.ioreg.servers = mem.ioreg.servers
      BY <1>8, <2>4
    <3> QED
      BY <3>1, <3>2, <2>4 DEF IInv, IoRegInv
  <2>12. NoUserOverlooked'
    <3>1. \A p \in Users(w') : ~(asked'[p] > 0)
      BY <2>4, <2>6, <1>3
    <3> QED
      BY <3>1 DEF NoUserOverlooked
  <2> QED
    BY <2>3, <2>7, <2>8, <2>9, <2>10, <2>11, <2>12 DEF IInv
<1>14. CASE host.located /\ s = Sampled(read, seen, FALSE)
  <2>1. s.state = read /\ s.seen = seen /\ s.failed = FALSE
    BY <1>14 DEF Sampled
  <2>2. Observed(s.seen) /\ s.failed \in BOOLEAN /\ s.seen.verdict # "unknown"
        /\ (s.seen.verdict = "busy" => around # {})
    BY <2>1, <1>6, <1>9
  <2>3. WorldOK' /\ PollOK' /\ AroundInv' /\ NvmlInv' /\ RescanInv' /\ step' = "end"
    BY <1>1, <1>2, <1>4, <1>5, <2>1, <2>2, TookLast
  <2>4. /\ DOMAIN mem' = DOMAIN mem /\ mem'.ioreg = read /\ mem'.drm = mem.drm
        /\ mem'.nvml = mem.nvml /\ mem'.pdh = mem.pdh /\ (failed' <=> failed)
        /\ merged'.verdict = "busy" <=> merged.verdict = "busy" \/ s.seen.verdict = "busy"
        /\ merged'.verdict = "unknown" <=> merged.verdict = "unknown" /\ s.seen.verdict = "unknown"
        /\ Observed(merged')
        /\ UNCHANGED <<host, w, around>> /\ Read
    BY <1>1, <1>14, <2>1, <2>2, TookFacts
  <2>5. /\ floor' \in [Everybody -> 0 .. Full] /\ asked' = floor
        /\ asked' \in [Everybody -> 0 .. Full]
        /\ \A p \in Everybody \ Present(w) : floor'[p] = 0 /\ asked'[p] = 0
        /\ \A p \in Present(w) : floor'[p] = Full
        /\ Full \in Nat
    BY <2>4, ReadFacts
  <2>6. MemoryOK'
    <3>1. Map(current, Everybody, Int)
      BY <1>3 DEF Map, WorldOK
    <3>2. mem'.ioreg.primed \in BOOLEAN
      BY <1>8, <2>4, Zenon
    <3> HIDE DEF current
    <3> QED
      BY <3>1, <3>2, <1>3, <1>8, <1>10, <2>4 DEF MemoryOK
  <2>7. VerdictInv'
    BY <2>2, <2>3, <2>4, <1>5, <1>14 DEF IInv, VerdictInv, Told, Seen
  <2>8. ClockInv'
    <3>1. mem'.ioreg.time <= w.clock
      BY <1>8, <1>10, <2>4
    <3> QED
      BY <3>1, <1>10, <1>12, <2>3, <2>4, <2>5 DEF ClockInv, Present
  <2>9. DrmInv' /\ PdhInv'
    BY <2>3, <2>4, <1>2, <1>5 DEF IInv, DrmInv, PdhInv
  <2>10. IoRegInv'
    <3>1. ASSUME NEW p \in Present(w)
          PROVE  /\ p \in DOMAIN current
                 /\ w.used[p] - current[p] >= floor'[p] * (w.clock - w.clock)
      <4>1. p \in Everybody /\ floor'[p] \in Nat
        BY <1>3, <2>5
      <4>2. w.used[p] - w.used[p] >= floor'[p] * (w.clock - w.clock)
        BY <4>1, <1>3, ReadNow
      <4> QED
        BY <4>2, <1>8
    <3>2. Present(w') = Present(w) /\ mem'.ioreg.ns = current /\ mem'.ioreg.primed
          /\ mem'.ioreg.time = w.clock /\ mem'.ioreg.servers = servers
      BY <1>8, <2>4 DEF Present
    <3> HIDE DEF current, servers
    <3> QED
      BY <3>1, <3>2, <1>6, <2>4 DEF IoRegInv, Since
  <2>11. NoUserOverlooked'
    <3> SUFFICES ASSUME merged'.verdict = "idle", ~failed', NEW p \in Users(w), asked'[p] > 0
                 PROVE  Percent(p)' < MinBusyPercent
      BY <2>4 DEF NoUserOverlooked, Ended, Users
    <3>1. s.seen.verdict = "idle" /\ floor[p] > 0
      BY <2>2, <2>4, <2>5 DEF Observed
    <3>2. p \in DOMAIN shares /\ shares[p] \in Int /\ shares[p] >= (100 * floor[p]) \div Full
      <4>1. p \in Present(w)
        BY <1>3
      <4> QED
        BY <4>1, <3>1, <1>2, <1>5, IoRegCounts DEF shares
    <3>3. ~(shares[p] >= MinBusyPercent)
      BY <3>1, <3>2, <2>1, <1>6
    <3>4. (100 * floor[p]) \div Full \in Int /\ MinBusyPercent \in Int
      <4>1. 100 * floor[p] \in Int /\ Full \in Nat /\ Full > 0
        BY <2>5, <1>3, WorkAssumption
      <4> QED
        BY <4>1, QuotientAtMost, WorkAssumption
    <3>5. (100 * floor[p]) \div Full < MinBusyPercent
      BY <3>2, <3>3, <3>4
    <3> QED
      BY <3>5, <2>5 DEF Percent
  <2> QED
    BY <2>3, <2>6, <2>7, <2>8, <2>9, <2>10, <2>11 DEF IInv
<1> QED
  BY <1>7, <1>13, <1>14
-----------------------------------------------------------------------------
(* DRM clients.                                                            *)

\* What a source holds was read before, or just now.
LEMMA ReadBefore ==
  ASSUME IInv
  PROVE  /\ \A k \in DOMAIN mem.drm : mem.drm[k] \in Readout /\ mem.drm[k].at \in Int /\ mem.drm[k].at <= w.clock
         /\ \A p \in DOMAIN mem.pdh : mem.pdh[p].at <= w.clock
         /\ mem.ioreg.primed => mem.ioreg.time <= w.clock
<1>1. w.clock \in Nat /\ \A i \in Int : i <= 0 => i <= w.clock
  BY DEF IInv, WorldOK
<1>2. /\ \A k \in DOMAIN mem.drm : mem.drm[k] \in Readout /\ mem.drm[k].at \in Int
      /\ \A p \in DOMAIN mem.pdh : mem.pdh[p].at \in Int
      /\ mem.ioreg.time \in Int
  BY DEF IInv, MemoryOK, Map, Readout
<1> QED
  BY <1>1, <1>2 DEF IInv, ClockInv

LEMMA ClientFacts ==
  ASSUME WorldOK, NEW p \in Present(w)
  PROVE  Drm!Client(w, host, p) \in Clients /\ Drm!Client(w, host, p)[1] = p
<1>1. p \in Everybody /\ (p # Self => p \in Others)
  BY ProcessesAreEverybody DEF Present, WorldOK
<1>2. p # Self => w.client[p] \in 0 .. 2
  BY <1>1 DEF WorldOK
<1> QED
  BY <1>1, <1>2, SameSelf DEF Drm!Client, Clients

LEMMA SkipDrmKeepsIInv == IInv /\ SkipDrm => IInv'
<1> SUFFICES ASSUME IInv, SkipDrm PROVE IInv'
  OBVIOUS
<1>1. PICK last \in {<<>>, mem.drm} : Took("drm", Sampled(last, Given(merged), FALSE))
  BY DEF SkipDrm
<1> DEFINE s == Sampled(last, Given(merged), FALSE)
<1>2. /\ step = "sample" /\ Turn("drm") /\ UNCHANGED scan /\ ~Drm!Wanted(host, Given(merged))
      /\ IF Drm!HasNode(host) THEN UNCHANGED <<floor, asked>> ELSE Read
  BY DEF SkipDrm, Turn
<1>3. WorldOK /\ PollOK /\ MemoryOK
  BY DEF IInv
<1>4. Observed(Given(merged)) /\ (Given(merged).verdict = "busy" => merged.verdict = "busy")
  BY <1>3, GivenFacts
<1>5. host.os = "linux" /\ Len(todo) = 1 /\ Head(todo) # "nvml" /\ (host.wddm => FALSE)
  BY <1>2, <1>3, Turns, HostFacts DEF Turn
<1>6. s.state = last /\ s.seen = Given(merged) /\ s.failed = FALSE
  BY DEF Sampled
<1>7. Observed(s.seen) /\ s.failed \in BOOLEAN
  BY <1>4, <1>6
<1>8. Took("drm", s)
  BY <1>1
<1> HIDE DEF s
<1>9. WorldOK' /\ PollOK' /\ AroundInv' /\ NvmlInv' /\ RescanInv' /\ step' = "end"
  BY <1>2, <1>4, <1>5, <1>6, <1>7, <1>8, TookLast
<1>10. /\ DOMAIN mem' = DOMAIN mem /\ mem'.drm = last /\ mem'.ioreg = mem.ioreg
       /\ mem'.nvml = mem.nvml /\ mem'.pdh = mem.pdh /\ (failed' <=> failed)
       /\ merged'.verdict = "busy" <=> merged.verdict = "busy" \/ s.seen.verdict = "busy"
       /\ merged'.verdict = "unknown" <=> merged.verdict = "unknown" /\ s.seen.verdict = "unknown"
       /\ Observed(merged')
       /\ UNCHANGED <<host, w, around>>
  BY <1>2, <1>6, <1>7, <1>8, TookFacts
<1>11. DOMAIN last \subseteq DOMAIN mem.drm /\ \A k \in DOMAIN last : last = mem.drm
  BY <1>1, EmptyMap
<1>12. MemoryOK'
  <2>1. Map(last, Clients, Readout)
    BY <1>1, <1>3, EmptyMap DEF MemoryOK
  <2> QED
    BY <2>1, <1>3, <1>10 DEF MemoryOK
<1>13. VerdictInv'
  <2>1. Drm!HasNode(host) => s.seen.verdict = "busy"
    BY <1>2, <1>6, GivenFacts DEF Drm!Wanted, Drm!MeasuredBusy
  <2>2. merged.verdict = "unknown" => s.seen.verdict = "unknown"
    BY <1>6 DEF Given, MeasuredBusy, Unknown
  <2>3. Seen' = Seen /\ ByNvml' = ByNvml /\ (Seen <=> Drm!HasNode(host) \/ ByNvml)
    BY <1>5, <1>10 DEF Seen, ByNvml
  <2>4. ByNvml => Told
    BY <1>2, <1>5 DEF IInv, VerdictInv
  <2> QED
    BY <2>1, <2>2, <2>3, <2>4, <1>2, <1>5, <1>9, <1>10 DEF IInv, VerdictInv, Told
<1>18. /\ floor' \in [Everybody -> 0 .. Full] /\ asked' \in [Everybody -> 0 .. Full]
       /\ \A p \in Everybody \ Present(w) : floor'[p] = 0 /\ asked'[p] = 0
  <2>1. CASE Drm!HasNode(host)
    BY <2>1, <1>2 DEF IInv, ClockInv
  <2>2. CASE ~Drm!HasNode(host)
    BY <2>2, <1>2, <1>10, ReadFacts
  <2> QED
    BY <2>1, <2>2
<1>14. ClockInv'
  <2>1. w.clock > 0
    BY <1>2 DEF IInv, ClockInv
  <2>2. \A k \in DOMAIN last : last[k].at <= w.clock
    BY <1>11, ReadBefore
  <2>3. Present(w') = Present(w) /\ w'.clock = w.clock
    BY <1>10
  <2> QED
    BY <2>1, <2>2, <2>3, <1>9, <1>10, <1>18, ReadBefore DEF ClockInv
<1>15. DrmInv'
  <2>1. ASSUME Drm!HasNode(host), NEW p \in Present(w), Drm!Client(w, host, p) \in DOMAIN last
        PROVE  Since(floor, p, last[Drm!Client(w, host, p)].used, last[Drm!Client(w, host, p)].at)
    BY <2>1, <1>2, <1>5, <1>11 DEF IInv, DrmInv
  <2>2. Present(w') = Present(w) /\ scan' = NoScan
    BY <1>2, <1>10 DEF IInv, DrmInv
  <2> QED
    BY <2>1, <2>2, <1>2, <1>9, <1>10 DEF DrmInv, Since
<1>16. PdhInv' /\ IoRegInv'
  BY <1>5, <1>10 DEF PdhInv, IoRegInv
<1>17. NoUserOverlooked'
  <2>1. Users(w') = Users(w) /\ Users(w) \subseteq Everybody
    BY <1>3, <1>10, ProcessesAreEverybody
  <2>2. CASE Drm!HasNode(host)
    <3>1. \A p \in Everybody : asked'[p] = 0
      BY <2>2, <1>2, <1>10 DEF IInv, ClockInv
    <3> QED
      BY <2>1, <3>1 DEF NoUserOverlooked
  <2>3. CASE ~Drm!HasNode(host)
    <3> SUFFICES ASSUME merged'.verdict = "idle", ~failed', ~Unseen'
                 PROVE  \A p \in Users(w) : asked'[p] = 0
      BY <2>1 DEF NoUserOverlooked, Ended
    <3>1. ByNvml
      BY <2>3, <1>5, <1>9, <1>10, <1>13 DEF VerdictInv, Seen, ByNvml
    <3>2. merged.verdict # "busy" /\ ~failed /\ ~Unseen
      BY <1>10 DEF Unseen
    <3>3. asked' = floor
      BY <2>3, <1>2 DEF Read
    <3> QED
      BY <3>1, <3>2, <3>3, <1>2, <1>5 DEF IInv, NvmlInv, ByNvml
  <2> QED
    BY <2>2, <2>3
<1> QED
  BY <1>9, <1>12, <1>13, <1>14, <1>15, <1>16, <1>17 DEF IInv

\* A fraction is a number, and that of a client that has worked is a share.
LEMMA FractionIsNumber ==
  ASSUME NEW before \in Readout, NEW after \in Readout, before.at <= after.at
  PROVE  Drm!DrmBusyFraction(host, before, after) \in Usage
<1>1. /\ before.used \in Int /\ before.at \in Int /\ after.used \in Int /\ after.at \in Int
      /\ Full \in Nat /\ Full > 0
  BY WorkAssumption DEF Readout
<1>2. CASE before.at = after.at
  BY <1>2, SameSelf DEF Drm!DrmBusyFraction, Usage
<1>3. CASE before.at # after.at /\ after.used < before.used
  BY <1>3 DEF Drm!DrmBusyFraction, Usage
<1>4. CASE before.at # after.at /\ ~(after.used < before.used)
  <2> DEFINE d == 100 * (after.used - before.used)
             t == after.at - before.at
  <2>1. d \in Nat /\ t \in Nat /\ t > 0
    BY <1>1, <1>4
  <2>2. Drm!DrmBusyFraction(host, before, after) = d \div (Full * t)
    BY <1>4 DEF Drm!DrmBusyFraction, Drm!Share
  <2> HIDE DEF d, t
  <2>3. Full * t \in Nat /\ Full * t > 0 /\ 0 * (Full * t) <= d
    BY <1>1, <2>1
  <2>4. d \div (Full * t) \in Int /\ d \div (Full * t) >= 0
    BY <2>1, <2>3, QuotientAtLeast
  <2> QED
    BY <2>2, <2>4 DEF Usage
<1> QED
  BY <1>2, <1>3, <1>4

LEMMA FractionOfWork ==
  ASSUME WorldOK, NEW least \in [Everybody -> 0 .. Full], NEW p \in Everybody, least[p] > 0,
         NEW before \in Readout, before.at < w.clock, Since(least, p, before.used, before.at)
  PROVE  LET fraction == Drm!DrmBusyFraction(host, before, Reading(w, p))
         IN  /\ fraction \in Int /\ fraction # Unmeasured
             /\ fraction >= (100 * least[p]) \div Full
<1> DEFINE after == Reading(w, p)
           q     == (100 * least[p]) \div Full
<1>1. /\ after \in Readout /\ after.at = w.clock /\ before.used <= after.used
      /\ Share(before, after) \in Int /\ Share(before, after) >= q
  BY WorkedFor
<1>2. before.at \in Int /\ before.used \in Int /\ after.used \in Int /\ w.clock \in Int
  BY <1>1 DEF Readout, WorldOK
<1>3. q \in Int /\ q >= 0
  <2>1. 100 * least[p] \in Int /\ 0 * Full <= 100 * least[p] /\ Full \in Nat /\ Full > 0
    BY WorkAssumption
  <2> QED
    BY <2>1, QuotientAtLeast
<1> HIDE DEF after, q
<1>4. Drm!DrmBusyFraction(host, before, after) = Share(before, after)
  BY <1>1, <1>2, SameShare DEF Drm!DrmBusyFraction
<1> QED
  BY <1>1, <1>3, <1>4 DEF after, q, Unmeasured

\* The fractions that are known, where `after` was not read before `before`.
LEMMA FractionsFacts ==
  ASSUME NEW before, NEW after, Map(before, Clients, Readout), Map(after, Clients, Readout),
         \A k \in DOMAIN before \cap DOMAIN after : before[k].at <= after[k].at
  PROVE  LET f == Drm!Fractions(host, before, after)
         IN  /\ Map(f, Clients, Usage)
             /\ DOMAIN f \subseteq DOMAIN before \cap DOMAIN after
             /\ \A k \in DOMAIN before \cap DOMAIN after :
                  Drm!DrmBusyFraction(host, before[k], after[k]) # Unmeasured =>
                    k \in DOMAIN f /\ f[k] = Drm!DrmBusyFraction(host, before[k], after[k])
<1> DEFINE f == Drm!Fractions(host, before, after)
           both == DOMAIN before \cap DOMAIN after
           fraction(k) == Drm!DrmBusyFraction(host, before[k], after[k])
<1>1. f = [k \in {k \in both : fraction(k) # Unmeasured} |-> fraction(k)]
  BY SameSelf DEF Drm!Fractions
<1>2. \A k \in both : fraction(k) \in Usage /\ k \in Clients
  BY FractionIsNumber DEF Map
<1> HIDE DEF f, fraction
<1>3. /\ f \in [DOMAIN f -> Usage] /\ DOMAIN f \subseteq both
      /\ \A k \in both : fraction(k) # Unmeasured => k \in DOMAIN f /\ f[k] = fraction(k)
  BY <1>1, <1>2
<1>4. DOMAIN f \subseteq Clients
  BY <1>2, <1>3
<1> QED
  BY <1>3, <1>4 DEF Map, f, fraction

LEMMA OverFacts ==
  ASSUME NEW f, NEW g, NEW keys, NEW values, Map(f, keys, values), Map(g, keys, values)
  PROVE  /\ Map(Drm!Over(f, g), keys, values) /\ DOMAIN Drm!Over(f, g) = DOMAIN f \cup DOMAIN g
         /\ \A k \in DOMAIN f : Drm!Over(f, g)[k] = f[k]
         /\ \A k \in DOMAIN g \ DOMAIN f : Drm!Over(f, g)[k] = g[k]
BY DEF Map, Drm!Over
\* The pass over the processes.
LEMMA ScanFacts ==
  ASSUME IInv, step = "sample", host.os = "linux", Drm!HasNode(host)
  PROVE  LET x == Drm!Scan(mem.drm, w, host)
         IN  /\ DOMAIN x = {"next", "fresh", "usage"}
             /\ Map(x.next, Clients, Readout) /\ Map(x.usage, Clients, Usage)
             /\ x.fresh \subseteq DOMAIN x.next
             /\ \A k \in DOMAIN x.next :
                  /\ k[1] \in Present(w) /\ k = Drm!Client(w, host, k[1]) /\ x.next[k] = Reading(w, k[1])
             /\ \A k \in DOMAIN x.usage \cup DOMAIN x.next : k[1] \in Users(w) \cup {Self}
             /\ \A p \in Counted : LET k == Drm!Client(w, host, p) IN
                  IF ~Drm!HasStats(w, host, p)
                  THEN k \in DOMAIN x.usage \ DOMAIN x.next /\ x.usage[k] = Unmeasured
                  ELSE /\ k \in DOMAIN x.next
                       /\ k \notin x.fresh /\ floor[p] > 0 =>
                            k \in DOMAIN x.usage /\ x.usage[k] >= (100 * floor[p]) \div Full
<1> DEFINE x       == Drm!Scan(mem.drm, w, host)
           looked  == Drm!Looked(w, host)
           clients == {Drm!Client(w, host, p) : p \in {q \in looked : Drm!HasStats(w, host, q)}}
           next    == [k \in clients |-> Reading(w, k[1])]
           blind   == {q \in w.here \cap looked : ~Drm!HasStats(w, host, q)}
           unseen  == [k \in {Drm!Client(w, host, p) : p \in blind} |-> Unmeasured]
           known   == Drm!Fractions(host, mem.drm, next)
<1>1. x = [next |-> next, fresh |-> clients \ DOMAIN mem.drm, usage |-> Drm!Over(known, unseen)]
  <2> DEFINE drmNext   == [k \in clients |-> Drm!Reading(w, k[1])]
             drmUnseen == [k \in {Drm!Client(w, host, p) : p \in blind} |-> Drm!Unmeasured]
  <2>1. drmNext = next
    BY SameReading
  <2>2. drmUnseen = unseen
    BY SameSelf
  <2>3. x = [next |-> drmNext, fresh |-> clients \ DOMAIN mem.drm,
             usage |-> Drm!Over(Drm!Fractions(host, mem.drm, drmNext), drmUnseen)]
    BY Zenon DEF Drm!Scan
  <2> HIDE DEF x, drmNext, drmUnseen, next, clients, unseen
  <2> QED
    BY <2>1, <2>2, <2>3
<1>2. WorldOK /\ Map(mem.drm, Clients, Readout) /\ floor \in [Everybody -> 0 .. Full]
      /\ w.clock \in Nat /\ w.clock > 0
  BY DEF IInv, MemoryOK, ClockInv, WorldOK
<1>3. \A p \in Present(w) : /\ p \in Everybody /\ Drm!Client(w, host, p) \in Clients
                              /\ Drm!Client(w, host, p)[1] = p
                              /\ Reading(w, p) \in Readout /\ Reading(w, p).at = w.clock
  <2> TAKE p \in Present(w)
  <2>1. p \in Everybody
    BY <1>2, ProcessesAreEverybody
  <2>2. Reading(w, p) \in Readout /\ Reading(w, p).at = w.clock
    BY <2>1, <1>2 DEF WorldOK, Reading, Readout
  <2> QED
    BY <2>1, <2>2, <1>2, ClientFacts
<1>4. looked = Users(w) \cup {Self} /\ looked \subseteq Present(w) /\ w.here \cap looked \subseteq Users(w)
      /\ Users(w) \subseteq w.here
  BY <1>2, SameSelf, SameProcesses, OthersAssumption DEF Drm!Looked, Users, Present, WorldOK
<1>5. \A k \in clients : /\ k[1] \in looked /\ k = Drm!Client(w, host, k[1]) /\ Drm!HasStats(w, host, k[1])
                         /\ k \in Clients
  BY <1>3, <1>4
<1>6. \A p \in looked : Drm!HasStats(w, host, p) => Drm!Client(w, host, p) \in clients
  OBVIOUS
<1>7. \A k \in DOMAIN unseen : /\ k \in Clients /\ k[1] \in Users(w) /\ ~Drm!HasStats(w, host, k[1])
                               /\ unseen[k] = Unmeasured
  BY <1>3, <1>4
<1>8. \A p \in Users(w) : ~Drm!HasStats(w, host, p) => Drm!Client(w, host, p) \in DOMAIN unseen
  BY <1>4
<1>9. Unmeasured \in Usage /\ Map(unseen, Clients, Usage)
  <2>1. unseen = [k \in DOMAIN unseen |-> Unmeasured]
    OBVIOUS
  <2> HIDE DEF unseen
  <2> QED
    BY <2>1, <1>7 DEF Map, Usage
<1> HIDE DEF looked, clients, unseen
<1>10. DOMAIN next = clients /\ \A k \in clients : next[k] = Reading(w, k[1])
  OBVIOUS
<1>11. Map(next, Clients, Readout)
  BY <1>3, <1>4, <1>5 DEF Map
<1> HIDE DEF next
<1>12. \A k \in DOMAIN mem.drm \cap DOMAIN next : mem.drm[k].at < next[k].at
  <2>1. \A k \in DOMAIN mem.drm : mem.drm[k].at \in Int /\ mem.drm[k].at <= 0
    BY ReadBefore DEF IInv, ClockInv
  <2>2. \A k \in DOMAIN next : next[k].at = w.clock
    BY <1>3, <1>4, <1>5, <1>10
  <2> QED
    BY <2>1, <2>2, <1>2
<1>13. /\ Map(known, Clients, Usage)
       /\ DOMAIN known \subseteq DOMAIN mem.drm \cap DOMAIN next
       /\ \A k \in DOMAIN mem.drm \cap DOMAIN next :
            Drm!DrmBusyFraction(host, mem.drm[k], next[k]) # Unmeasured =>
              k \in DOMAIN known /\ known[k] = Drm!DrmBusyFraction(host, mem.drm[k], next[k])
  <2>1. \A k \in DOMAIN mem.drm \cap DOMAIN next : mem.drm[k].at <= next[k].at
    <3>1. \A k \in DOMAIN mem.drm \cap DOMAIN next : mem.drm[k].at \in Int /\ next[k].at \in Int
      BY <1>2, <1>11 DEF Map, Readout
    <3> QED
      BY <3>1, <1>12
  <2> QED
    BY <2>1, <1>2, <1>11, FractionsFacts
<1> HIDE DEF known
<1>14. /\ Map(x.usage, Clients, Usage) /\ DOMAIN x.usage = DOMAIN known \cup DOMAIN unseen
       /\ \A k \in DOMAIN known : x.usage[k] = known[k]
       /\ \A k \in DOMAIN unseen \ DOMAIN known : x.usage[k] = unseen[k]
  <2>1. x.usage = Drm!Over(known, unseen)
    BY <1>1
  <2>2. Map(known, Clients, Usage) /\ Map(unseen, Clients, Usage)
    BY <1>9, <1>13
  <2>3. /\ Map(Drm!Over(known, unseen), Clients, Usage)
        /\ DOMAIN Drm!Over(known, unseen) = DOMAIN known \cup DOMAIN unseen
        /\ \A k \in DOMAIN known : Drm!Over(known, unseen)[k] = known[k]
        /\ \A k \in DOMAIN unseen \ DOMAIN known : Drm!Over(known, unseen)[k] = unseen[k]
    BY <2>2, OverFacts
  <2> HIDE DEF x
  <2> QED
    BY <2>1, <2>3
<1>15. x.next = next /\ x.fresh = clients \ DOMAIN mem.drm /\ DOMAIN x = {"next", "fresh", "usage"}
  BY <1>1
<1> HIDE DEF x
<1>16. \A k \in DOMAIN x.usage \cup DOMAIN x.next : k[1] \in Users(w) \cup {Self}
  BY <1>4, <1>5, <1>7, <1>10, <1>13, <1>14, <1>15
<1>17. ASSUME NEW p \in Counted
       PROVE  LET k == Drm!Client(w, host, p) IN
              IF ~Drm!HasStats(w, host, p)
              THEN k \in DOMAIN x.usage \ DOMAIN x.next /\ x.usage[k] = Unmeasured
              ELSE /\ k \in DOMAIN x.next
                   /\ k \notin x.fresh /\ floor[p] > 0 =>
                        k \in DOMAIN x.usage /\ x.usage[k] >= (100 * floor[p]) \div Full
  <2> DEFINE k == Drm!Client(w, host, p)
  <2>1. p \in looked /\ p \in Present(w) /\ p \in Everybody /\ k[1] = p
    BY <1>2, <1>3, <1>4, CountedFacts
  <2>2. CASE ~Drm!HasStats(w, host, p)
    <3> HIDE DEF k
    <3>1. k \notin clients
      BY <2>1, <2>2, <1>5
    <3>2. p \in Users(w)
      BY <2>2, <1>2, CountedFacts
    <3>3. k \in DOMAIN unseen /\ unseen[k] = Unmeasured
      BY <2>2, <3>2, <1>7, <1>8 DEF k
    <3> QED
      BY <3>1, <3>3, <2>2, <1>10, <1>13, <1>14, <1>15 DEF k
  <2>3. CASE Drm!HasStats(w, host, p)
    <3>1. k \in clients
      BY <2>1, <2>3, <1>6
    <3>2. ASSUME k \notin x.fresh, floor[p] > 0
          PROVE  k \in DOMAIN x.usage /\ x.usage[k] >= (100 * floor[p]) \div Full
      <4>1. k \in DOMAIN mem.drm /\ Since(floor, p, mem.drm[k].used, mem.drm[k].at)
        BY <3>1, <3>2, <2>1, <1>15 DEF IInv, DrmInv
      <4> HIDE DEF k
      <4>2. mem.drm[k] \in Readout /\ next[k] = Reading(w, p) /\ mem.drm[k].at < w.clock
        BY <4>1, <3>1, <2>1, <1>2, <1>3, <1>10, <1>12, ReadBefore
      <4>3. /\ Drm!DrmBusyFraction(host, mem.drm[k], next[k]) # Unmeasured
            /\ Drm!DrmBusyFraction(host, mem.drm[k], next[k]) >= (100 * floor[p]) \div Full
        BY <4>1, <4>2, <3>2, <2>1, <1>2, FractionOfWork
      <4> QED
        BY <4>1, <4>3, <3>1, <1>10, <1>13, <1>14
    <3> HIDE DEF k
    <3>3. k \in DOMAIN x.next
      BY <3>1, <1>10, <1>15
    <3> QED
      BY <3>2, <3>3, <2>3 DEF k
  <2> QED
    BY <2>2, <2>3
<1>18. \A k \in DOMAIN x.next :
         /\ k[1] \in Present(w) /\ k = Drm!Client(w, host, k[1]) /\ x.next[k] = Reading(w, k[1])
  BY <1>4, <1>5, <1>10, <1>15
<1>19. x.fresh \subseteq DOMAIN x.next
  BY <1>10, <1>15
<1> QED
  BY <1>11, <1>14, <1>15, <1>16, <1>17, <1>18, <1>19 DEF x

\* The verdict: busy just for another client, and idle for none that counts.
LEMMA ConcludeFacts ==
  ASSUME NEW x, NEW given, Observed(given), NEW s \in Drm!Conclude(x, host, given)
  PROVE  /\ s.state = x.next /\ s.failed = FALSE
         /\ Observed(s.seen) /\ s.seen.verdict # "unknown"
         /\ s.seen.verdict = "busy" =>
              given.verdict = "busy" \/ \E k \in DOMAIN x.usage : k[1] # Self
         /\ s.seen.verdict = "idle" =>
              \A k \in DOMAIN x.usage : k[1] # Self =>
                x.usage[k] # Unmeasured /\ ~(x.usage[k] >= MinBusyPercent)
<1> DEFINE seen == [given EXCEPT !.verdict = IF @ = "busy" THEN "busy" ELSE "idle"]
           users == Drm!Users(x.usage)
<1>1. users = {k \in DOMAIN x.usage : k[1] # Self /\ (x.usage[k] = Unmeasured \/ x.usage[k] >= MinBusyPercent)}
  BY SameSelf DEF Drm!Users
<1>2. CASE users = {}
  <2>1. s = Sampled(x.next, seen, FALSE)
    BY <1>2 DEF Drm!Conclude, Drm!Sampled, Sampled
  <2>2. Observed(seen) /\ seen.verdict \in {"busy", "idle"} /\ (seen.verdict = "busy" => given.verdict = "busy")
    BY DEF Observed
  <2> HIDE DEF seen
  <2>3. s.state = x.next /\ s.seen = seen /\ s.failed = FALSE
    BY <2>1 DEF Sampled
  <2> HIDE DEF users
  <2>4. \A k \in DOMAIN x.usage : k[1] # Self =>
          x.usage[k] # Unmeasured /\ ~(x.usage[k] >= MinBusyPercent)
    BY <1>1, <1>2
  <2> QED
    BY <2>2, <2>3, <2>4
<1>3. CASE users # {}
  <2>1. PICK b : s = Sampled(x.next, [verdict |-> "busy", busy |-> b], FALSE)
    BY <1>3 DEF Drm!Conclude, Drm!Sampled, Sampled
  <2>2. s.state = x.next /\ s.seen = [verdict |-> "busy", busy |-> b] /\ s.failed = FALSE
    BY <2>1 DEF Sampled
  <2>3. Observed(s.seen) /\ s.seen.verdict = "busy"
    BY <2>2 DEF Observed
  <2> HIDE DEF users
  <2>4. \E k \in DOMAIN x.usage : k[1] # Self
    BY <1>1, <1>3
  <2> QED
    BY <2>2, <2>3, <2>4
<1> QED
  BY <1>2, <1>3

\* The DRM source ends the poll, with all its clients read and counted.
LEMMA ConcludesPoll ==
  ASSUME IInv, step \in {"sample", "rescan"}, host.os = "linux", Drm!HasNode(host),
         todo = <<"drm">>, Len(todo) = 1,
         NEW x, NEW s \in Drm!Conclude(x, host, Given(merged)), Took("drm", s), scan' = NoScan,
         Map(x.next, Clients, Readout), Map(x.usage, Clients, Usage),
         \A k \in DOMAIN x.next : x.next[k].at <= w.clock,
         \A k \in DOMAIN x.usage : k[1] \in around \cup {Self},
         floor' \in [Everybody -> 0 .. Full], asked' \in [Everybody -> 0 .. Full],
         \A p \in Everybody \ Present(w) : floor'[p] = 0 /\ asked'[p] = 0,
         \A p \in Present(w) : Drm!Client(w, host, p) \in DOMAIN x.next /\ floor'[p] > 0 =>
           w.used[p] - x.next[Drm!Client(w, host, p)].used
             >= floor'[p] * (w.clock - x.next[Drm!Client(w, host, p)].at),
         \A p \in Counted : asked'[p] > 0 =>
           LET k == Drm!Client(w, host, p)
           IN  k \in DOMAIN x.usage
               /\ (x.usage[k] = Unmeasured \/ x.usage[k] >= (100 * asked'[p]) \div Full)
  PROVE  IInv'
<1>1. WorldOK /\ PollOK /\ MemoryOK
  BY DEF IInv
<1>2. Observed(Given(merged)) /\ (Given(merged).verdict = "busy" => merged.verdict = "busy")
  BY <1>1, GivenFacts
<1>3. /\ s.state = x.next /\ s.failed = FALSE
      /\ Observed(s.seen) /\ s.seen.verdict # "unknown"
      /\ s.seen.verdict = "busy" => Given(merged).verdict = "busy" \/ \E k \in DOMAIN x.usage : k[1] # Self
      /\ s.seen.verdict = "idle" =>
           \A k \in DOMAIN x.usage : k[1] # Self =>
             x.usage[k] # Unmeasured /\ ~(x.usage[k] >= MinBusyPercent)
  BY <1>2, ConcludeFacts
<1>4. s.failed \in BOOLEAN
  BY <1>3
<1>5. s.seen.verdict = "busy" => merged.verdict = "busy" \/ around # {}
  BY <1>2, <1>3
<1>6. WorldOK' /\ PollOK' /\ AroundInv' /\ NvmlInv' /\ RescanInv' /\ step' = "end"
  BY <1>3, <1>4, <1>5, TookLast
<1>7. /\ DOMAIN mem' = DOMAIN mem /\ mem'.drm = x.next /\ mem'.ioreg = mem.ioreg
      /\ mem'.nvml = mem.nvml /\ mem'.pdh = mem.pdh
      /\ merged'.verdict = "busy" <=> merged.verdict = "busy" \/ s.seen.verdict = "busy"
      /\ merged'.verdict = "unknown" <=> merged.verdict = "unknown" /\ s.seen.verdict = "unknown"
      /\ UNCHANGED <<host, w, around>>
  BY <1>3, <1>4, TookFacts
<1>8. MemoryOK'
  BY <1>1, <1>7 DEF MemoryOK
<1>9. VerdictInv'
  BY <1>3, <1>6, <1>7 DEF IInv, VerdictInv, Told, Seen
<1>10. ClockInv'
  <2>1. w.clock > 0 /\ Present(w') = Present(w)
    BY <1>7 DEF IInv, ClockInv
  <2> QED
    BY <2>1, <1>6, <1>7, ReadBefore DEF ClockInv
<1>11. DrmInv'
  <2>1. Present(w') = Present(w) /\ \A p : Drm!Client(w', host', p) = Drm!Client(w, host, p)
    BY <1>7
  <2> QED
    BY <2>1, <1>6, <1>7 DEF DrmInv, Since
<1>12. PdhInv' /\ IoRegInv'
  BY <1>7 DEF PdhInv, IoRegInv
<1>13. NoUserOverlooked'
  <2> SUFFICES ASSUME merged'.verdict = "idle", NEW p \in Users(w), asked'[p] > 0
               PROVE  Percent(p)' < MinBusyPercent
    BY <1>7 DEF NoUserOverlooked, Ended, Users
  <2> DEFINE k == Drm!Client(w, host, p)
             q == (100 * asked'[p]) \div Full
  <2>1. s.seen.verdict = "idle"
    BY <1>3, <1>7 DEF Observed
  <2>2. p \in Present(w) /\ p \in Everybody /\ p # Self
    BY <1>1, ProcessesAreEverybody, OthersAssumption DEF WorldOK
  <2>3. k[1] = p
    BY <2>2, <1>1, ClientFacts
  <2>4. k \in DOMAIN x.usage /\ (x.usage[k] = Unmeasured \/ x.usage[k] >= q)
    BY <1>1, CountedFacts
  <2> HIDE DEF k
  <2>5. x.usage[k] \in Int /\ x.usage[k] # Unmeasured /\ ~(x.usage[k] >= MinBusyPercent)
    BY <2>1, <2>2, <2>3, <2>4, <1>3 DEF Map, Usage, Unmeasured
  <2>6. q \in Int /\ MinBusyPercent \in Int
    <3>1. 100 * asked'[p] \in Int /\ Full \in Nat /\ Full > 0
      BY <2>2, WorkAssumption
    <3> QED
      BY <3>1, QuotientAtMost, WorkAssumption
  <2>7. Percent(p)' = q
    BY DEF Percent
  <2> HIDE DEF q
  <2> QED
    BY <2>4, <2>5, <2>6, <2>7
<1> QED
  BY <1>6, <1>8, <1>9, <1>10, <1>11, <1>12, <1>13 DEF IInv

LEMMA ScanDrmKeepsIInv == IInv /\ ScanDrm => IInv'
<1> SUFFICES ASSUME IInv, ScanDrm PROVE IInv'
  OBVIOUS
<1> DEFINE x == Drm!Scan(mem.drm, w, host)
<1>1. step = "sample" /\ Turn("drm") /\ Read /\ Drm!HasNode(host)
  BY DEF ScanDrm, Turn, Drm!Wanted
<1>2. \/ /\ x.fresh # {} /\ step' = "rescan" /\ scan' = x
         /\ UNCHANGED <<host, w, mem, todo, merged, failed, around>>
      \/ /\ \E s \in Drm!Conclude(x, host, Given(merged)) : Took("drm", s)
         /\ x.fresh = {} /\ UNCHANGED scan
  BY DEF ScanDrm
<1>3. WorldOK /\ PollOK /\ Present(w) \subseteq Everybody /\ Users(w) \subseteq Present(w)
      /\ Users(w) \subseteq around
  BY <1>1, ProcessesAreEverybody DEF IInv, AroundInv
<1>4. host.os = "linux" /\ todo = <<"drm">> /\ Len(todo) = 1
  BY <1>1, <1>3, Turns
<1>5. /\ DOMAIN x = {"next", "fresh", "usage"}
      /\ Map(x.next, Clients, Readout) /\ Map(x.usage, Clients, Usage)
      /\ x.fresh \subseteq DOMAIN x.next
      /\ \A k \in DOMAIN x.next :
           /\ k[1] \in Present(w) /\ k = Drm!Client(w, host, k[1]) /\ x.next[k] = Reading(w, k[1])
      /\ \A k \in DOMAIN x.usage \cup DOMAIN x.next : k[1] \in Users(w) \cup {Self}
      /\ \A p \in Counted : LET k == Drm!Client(w, host, p) IN
           IF ~Drm!HasStats(w, host, p)
           THEN k \in DOMAIN x.usage \ DOMAIN x.next /\ x.usage[k] = Unmeasured
           ELSE /\ k \in DOMAIN x.next
                /\ k \notin x.fresh /\ floor[p] > 0 =>
                     k \in DOMAIN x.usage /\ x.usage[k] >= (100 * floor[p]) \div Full
  BY <1>1, <1>4, ScanFacts
<1> HIDE DEF x
<1>6. /\ floor' \in [Everybody -> 0 .. Full] /\ asked' = floor
      /\ asked' \in [Everybody -> 0 .. Full] /\ Full \in Nat
  BY <1>1, <1>2, ReadFacts DEF Took
<1>7. /\ \A p \in Everybody \ Present(w) : floor'[p] = 0 /\ asked'[p] = 0
      /\ \A p \in Present(w) : floor'[p] = Full
  BY <1>1, <1>2, ReadFacts DEF Took
<1>8. \A k \in DOMAIN x.next : x.next[k].at = w.clock /\ x.next[k].used = w.used[k[1]]
  BY <1>5 DEF Reading
<1>9. w.clock \in Nat /\ w.clock > 0 /\ w.clock <= w.clock
  BY <1>1, <1>3 DEF IInv, ClockInv, WorldOK
<1>10. \A p \in Present(w), f \in Nat :
         Drm!Client(w, host, p) \in DOMAIN x.next =>
           w.used[p] - x.next[Drm!Client(w, host, p)].used
             >= f * (w.clock - x.next[Drm!Client(w, host, p)].at)
  <2> TAKE p \in Present(w), f \in Nat
  <2> DEFINE k == Drm!Client(w, host, p)
  <2>1. k[1] = p /\ p \in Everybody
    BY <1>3, ClientFacts
  <2>2. w.used[p] - w.used[p] >= f * (w.clock - w.clock)
    BY <2>1, <1>3, ReadNow
  <2> HIDE DEF k
  <2>3. k \in DOMAIN x.next => x.next[k].at = w.clock /\ x.next[k].used = w.used[p]
    BY <2>1, <1>8
  <2> QED
    BY <2>2, <2>3 DEF k
<1>11. CASE x.fresh # {} /\ step' = "rescan" /\ scan' = x
            /\ UNCHANGED <<host, w, mem, todo, merged, failed, around>>
  <2>1. WorldOK' /\ MemoryOK' /\ PollOK'
    BY <1>3, <1>4, <1>11 DEF IInv, WorldOK, MemoryOK, PollOK
  <2>2. AroundInv'
    <3>1. Users(w') = Users(w)
      BY <1>11
    <3> QED
      BY <3>1, <1>1, <1>3, <1>5, <1>11 DEF IInv, AroundInv
  <2>3. VerdictInv'
    BY <1>1, <1>4, <1>11 DEF IInv, VerdictInv, Seen
  <2>4. ClockInv'
    <3>1. Present(w') = Present(w)
      BY <1>11
    <3> QED
      BY <3>1, <1>1, <1>6, <1>7, <1>9, <1>11 DEF IInv, ClockInv
  <2>5. DrmInv'
    BY <1>1, <1>11 DEF IInv, DrmInv
  <2>6. RescanInv'
    <3>1. \A k, l \in DOMAIN x.next : x.next[k].at = x.next[l].at /\ (k[1] = l[1] => k = l)
      BY <1>5, <1>8
    <3>2. \A k \in DOMAIN x.next : x.next[k].at <= w.clock
      BY <1>8, <1>9
    <3>3. \A p \in Present(w) : LET k == Drm!Client(w, host, p) IN
            k \in DOMAIN x.next => Since(floor', p, x.next[k].used, x.next[k].at)
      <4> TAKE p \in Present(w)
      <4>1. floor'[p] \in Nat
        BY <1>3, <1>6
      <4> QED
        BY <4>1, <1>10 DEF Since
    <3>4. ASSUME NEW p \in Counted, asked'[p] > 0
          PROVE  Counts(p)'
      <4> DEFINE k == Drm!Client(w, host, p)
      <4>1. p \in Present(w) /\ floor[p] > 0 /\ asked'[p] \in Nat /\ asked'[p] = floor[p]
        BY <3>4, <1>3, <1>6, CountedFacts
      <4>2. k' = k /\ (Drm!HasStats(w, host, p)' <=> Drm!HasStats(w, host, p))
        BY <1>11
      <4>3. CASE ~Drm!HasStats(w, host, p)
        <5>1. k \in DOMAIN x.usage \ DOMAIN x.next /\ x.usage[k] = Unmeasured
          BY <4>3, <1>5
        <5> QED
          BY <5>1, <4>2, <4>3, <1>11 DEF Counts
      <4>4. CASE Drm!HasStats(w, host, p) /\ k \in x.fresh
        <5>1. k \in DOMAIN x.next
          BY <4>4, <1>5
        <5>2. w.used[p] - x.next[k].used >= asked'[p] * (w.clock - x.next[k].at)
          BY <4>1, <5>1, <1>10
        <5> QED
          BY <5>1, <5>2, <4>2, <4>4, <1>11 DEF Counts, Since
      <4>5. CASE Drm!HasStats(w, host, p) /\ k \notin x.fresh
        <5>1. k \in DOMAIN x.next /\ k \in DOMAIN x.usage /\ x.usage[k] >= (100 * floor[p]) \div Full
          BY <4>1, <4>5, <1>5
        <5>2. Percent(p)' = (100 * floor[p]) \div Full
          BY <4>1 DEF Percent
        <5> QED
          BY <5>1, <5>2, <4>2, <4>5, <1>11 DEF Counts
      <4> QED
        BY <4>3, <4>4, <4>5
    <3>5. /\ Present(w') = Present(w) /\ Counted' = Counted
          /\ \A p : Drm!Client(w', host', p) = Drm!Client(w, host, p)
      BY <1>11 DEF Counted, Users
    <3> QED
      BY <3>1, <3>2, <3>3, <3>4, <3>5, <1>5, <1>11 DEF RescanInv, Since
  <2>7. PdhInv' /\ NvmlInv' /\ IoRegInv' /\ NoUserOverlooked'
    BY <1>4, <1>11 DEF PdhInv, NvmlInv, IoRegInv, NoUserOverlooked, Ended
  <2> QED
    BY <2>1, <2>2, <2>3, <2>4, <2>5, <2>6, <2>7 DEF IInv
<1>12. CASE x.fresh = {} /\ UNCHANGED scan /\ \E s \in Drm!Conclude(x, host, Given(merged)) : Took("drm", s)
  <2>1. PICK s \in Drm!Conclude(x, host, Given(merged)) : Took("drm", s)
    BY <1>12
  <2>2. scan' = NoScan
    BY <1>1, <1>12 DEF IInv, DrmInv
  <2>3. \A k \in DOMAIN x.next : x.next[k].at <= w.clock
    BY <1>8, <1>9
  <2>4. \A k \in DOMAIN x.usage : k[1] \in around \cup {Self}
    BY <1>3, <1>5
  <2>5. \A p \in Present(w) : Drm!Client(w, host, p) \in DOMAIN x.next /\ floor'[p] > 0 =>
          w.used[p] - x.next[Drm!Client(w, host, p)].used
            >= floor'[p] * (w.clock - x.next[Drm!Client(w, host, p)].at)
    <3> TAKE p \in Present(w)
    <3>1. floor'[p] \in Nat
      BY <1>3, <1>6
    <3> QED
      BY <3>1, <1>10
  <2>6. \A p \in Counted : asked'[p] > 0 =>
          LET k == Drm!Client(w, host, p)
          IN  k \in DOMAIN x.usage
              /\ (x.usage[k] = Unmeasured \/ x.usage[k] >= (100 * asked'[p]) \div Full)
    BY <1>5, <1>6, <1>12
  <2> QED
    BY <2>1, <2>2, <2>3, <2>4, <2>5, <2>6, <1>1, <1>4, <1>5, <1>6, <1>7, ConcludesPoll
<1> QED
  BY <1>2, <1>11, <1>12

\* The second reading of fresh clients, some time after the first.
LEMMA RereadFacts ==
  ASSUME IInv, step = "rescan", host.os = "linux", \A k \in DOMAIN scan.next : scan.next[k].at < w.clock
  PROVE  LET x == Drm!Reread(scan, w, host)
         IN  /\ Map(x.next, Clients, Readout) /\ Map(x.usage, Clients, Usage)
             /\ \A k \in DOMAIN x.next : x.next[k].at <= w.clock
             /\ \A k \in DOMAIN x.usage : k[1] \in around \cup {Self}
             /\ \A p \in Present(w) : LET k == Drm!Client(w, host, p) IN
                  k \in DOMAIN x.next /\ floor[p] > 0 =>
                    w.used[p] - x.next[k].used >= floor[p] * (w.clock - x.next[k].at)
             /\ \A p \in Counted : LET k == Drm!Client(w, host, p) IN
                  asked[p] > 0 => k \in DOMAIN x.usage /\ (x.usage[k] = Unmeasured \/ x.usage[k] >= Percent(p))
<1> DEFINE x     == Drm!Reread(scan, w, host)
           again == {k \in scan.fresh : k[1] \in Present(w) /\ Drm!HasStats(w, host, k[1])}
           now   == [k \in again |-> Reading(w, k[1])]
           known == Drm!Fractions(host, scan.next, now)
<1>1. x.next = Drm!Over(now, scan.next) /\ x.usage = Drm!Over(known, scan.usage)
  <2> DEFINE drmNow == [k \in again |-> Drm!Reading(w, k[1])]
  <2>1. drmNow = now
    BY SameReading
  <2>2. Drm!Present(w) = Present(w)
    BY SameProcesses
  <2>3. x.next = Drm!Over(drmNow, scan.next)
        /\ x.usage = Drm!Over(Drm!Fractions(host, scan.next, drmNow), scan.usage)
    BY <2>2 DEF Drm!Reread
  <2> HIDE DEF x, drmNow, now, again
  <2> QED
    BY <2>1, <2>3
<1>2. /\ Map(scan.next, Clients, Readout) /\ scan.fresh \subseteq DOMAIN scan.next
      /\ Map(scan.usage, Clients, Usage)
      /\ \A p \in Present(w) : LET k == Drm!Client(w, host, p)
                                 IN  k \in DOMAIN scan.next => Since(floor, p, scan.next[k].used, scan.next[k].at)
      /\ \A p \in Counted : asked[p] > 0 => Counts(p)
  BY DEF IInv, RescanInv
<1>3. /\ WorldOK /\ Present(w) \subseteq Everybody /\ Users(w) \subseteq Present(w)
      /\ floor \in [Everybody -> 0 .. Full] /\ asked \in [Everybody -> 0 .. Full] /\ Full \in Nat
      /\ w.clock \in Nat /\ w.clock <= w.clock
      /\ \A k \in DOMAIN scan.usage \cup DOMAIN scan.next : k[1] \in around \cup {Self}
  BY ProcessesAreEverybody, WorkAssumption DEF IInv, ClockInv, AroundInv, WorldOK
<1>4. \A p \in Present(w) : /\ Drm!Client(w, host, p)[1] = p
                              /\ Reading(w, p) \in Readout /\ Reading(w, p).at = w.clock
                              /\ Reading(w, p).used = w.used[p]
  <2> TAKE p \in Present(w)
  <2>1. Reading(w, p) \in Readout /\ Reading(w, p).at = w.clock /\ Reading(w, p).used = w.used[p]
    BY <1>3 DEF WorldOK, Reading, Readout
  <2> QED
    BY <2>1, <1>3, ClientFacts
<1>5. /\ again \subseteq scan.fresh
      /\ \A k \in again : k[1] \in Present(w)
      /\ \A k \in scan.fresh : k[1] \in Present(w) /\ Drm!HasStats(w, host, k[1]) => k \in again
  OBVIOUS
<1> HIDE DEF again
<1>6. DOMAIN now = again /\ \A k \in again : now[k] = Reading(w, k[1])
  OBVIOUS
<1>7. Map(now, Clients, Readout)
  BY <1>2, <1>4, <1>5 DEF Map
<1> HIDE DEF now
<1>8. \A k \in DOMAIN scan.next \cap DOMAIN now : scan.next[k].at <= now[k].at
  <2>1. \A k \in DOMAIN scan.next : scan.next[k].at \in Int /\ scan.next[k].at < w.clock
    BY <1>2 DEF Map, Readout
  <2>2. \A k \in DOMAIN now : now[k].at = w.clock
    BY <1>4, <1>5, <1>6
  <2> QED
    BY <2>1, <2>2, <1>3
<1>9. /\ Map(known, Clients, Usage) /\ DOMAIN known \subseteq DOMAIN scan.next \cap DOMAIN now
      /\ \A k \in DOMAIN scan.next \cap DOMAIN now :
           Drm!DrmBusyFraction(host, scan.next[k], now[k]) # Unmeasured =>
             k \in DOMAIN known /\ known[k] = Drm!DrmBusyFraction(host, scan.next[k], now[k])
  BY <1>2, <1>7, <1>8, FractionsFacts
<1> HIDE DEF known, x
<1>10. /\ Map(x.next, Clients, Readout) /\ DOMAIN x.next = DOMAIN now \cup DOMAIN scan.next
       /\ \A k \in DOMAIN now : x.next[k] = now[k]
       /\ \A k \in DOMAIN scan.next \ DOMAIN now : x.next[k] = scan.next[k]
  <2>1. /\ Map(Drm!Over(now, scan.next), Clients, Readout)
        /\ DOMAIN Drm!Over(now, scan.next) = DOMAIN now \cup DOMAIN scan.next
        /\ \A k \in DOMAIN now : Drm!Over(now, scan.next)[k] = now[k]
        /\ \A k \in DOMAIN scan.next \ DOMAIN now : Drm!Over(now, scan.next)[k] = scan.next[k]
    BY ZenonT(60), <1>2, <1>7, OverFacts
  <2> QED
    BY <2>1, <1>1
<1>11. /\ Map(x.usage, Clients, Usage) /\ DOMAIN x.usage = DOMAIN known \cup DOMAIN scan.usage
       /\ \A k \in DOMAIN known : x.usage[k] = known[k]
       /\ \A k \in DOMAIN scan.usage \ DOMAIN known : x.usage[k] = scan.usage[k]
  <2>1. Map(known, Clients, Usage)
    BY <1>9
  <2>2. /\ Map(Drm!Over(known, scan.usage), Clients, Usage)
        /\ DOMAIN Drm!Over(known, scan.usage) = DOMAIN known \cup DOMAIN scan.usage
        /\ \A k \in DOMAIN known : Drm!Over(known, scan.usage)[k] = known[k]
        /\ \A k \in DOMAIN scan.usage \ DOMAIN known : Drm!Over(known, scan.usage)[k] = scan.usage[k]
    BY ZenonT(60), <2>1, <1>2, OverFacts
  <2> QED
    BY <2>2, <1>1
<1>12. \A k \in DOMAIN x.next : x.next[k].at <= w.clock
  <2>1. \A k \in DOMAIN now : now[k].at = w.clock
    BY <1>4, <1>5, <1>6
  <2>2. \A k \in DOMAIN scan.next : scan.next[k].at \in Int /\ scan.next[k].at <= w.clock
    BY <1>2, <1>3 DEF Map, Readout
  <2> QED
    BY <2>1, <2>2, <1>3, <1>10
<1>13. \A k \in DOMAIN x.usage : k[1] \in around \cup {Self}
  BY <1>3, <1>9, <1>11
<1>14. ASSUME NEW p \in Present(w), Drm!Client(w, host, p) \in DOMAIN x.next, floor[p] > 0
       PROVE  w.used[p] - x.next[Drm!Client(w, host, p)].used
                >= floor[p] * (w.clock - x.next[Drm!Client(w, host, p)].at)
  <2> DEFINE k == Drm!Client(w, host, p)
  <2>1. k[1] = p /\ p \in Everybody /\ floor[p] \in Nat
    BY <1>3, <1>4
  <2>2. k \in DOMAIN x.next
    BY <1>14
  <2>3. k \in DOMAIN scan.next => Since(floor, p, scan.next[k].used, scan.next[k].at)
    BY <1>2
  <2> HIDE DEF k
  <2>4. CASE k \in DOMAIN now
    <3>1. x.next[k].used = w.used[p] /\ x.next[k].at = w.clock
      BY <2>1, <2>4, <1>4, <1>6, <1>10
    <3>2. w.used[p] - w.used[p] >= floor[p] * (w.clock - w.clock)
      BY <2>1, <1>3, ReadNow
    <3> QED
      BY <3>1, <3>2 DEF k
  <2>5. CASE k \notin DOMAIN now
    BY <2>2, <2>3, <2>5, <1>10, <1>14 DEF Since, k
  <2> QED
    BY <2>4, <2>5
<1>15. ASSUME NEW p \in Counted, asked[p] > 0
       PROVE  LET k == Drm!Client(w, host, p)
              IN  k \in DOMAIN x.usage /\ (x.usage[k] = Unmeasured \/ x.usage[k] >= Percent(p))
  <2> DEFINE k == Drm!Client(w, host, p)
  <2>1. k[1] = p /\ p \in Present(w) /\ p \in Everybody /\ Counts(p)
    BY <1>2, <1>3, <1>4, <1>15, CountedFacts
  <2>2. CASE ~Drm!HasStats(w, host, p)
    <3>1. k \in DOMAIN scan.usage \ DOMAIN scan.next /\ scan.usage[k] = Unmeasured
      BY <2>1, <2>2 DEF Counts
    <3> HIDE DEF k
    <3> QED
      BY <3>1, <1>9, <1>11 DEF k
  <2>3. CASE Drm!HasStats(w, host, p) /\ k \in scan.fresh
    <3>1. k \in DOMAIN scan.next /\ Since(asked, p, scan.next[k].used, scan.next[k].at)
      BY <2>1, <2>3 DEF Counts
    <3> HIDE DEF k
    <3>2. k \in DOMAIN now /\ now[k] = Reading(w, p)
      BY <2>1, <2>3, <1>5, <1>6
    <3>3. scan.next[k] \in Readout /\ scan.next[k].at < w.clock
      BY <3>1, <1>2 DEF Map
    <3>4. /\ Drm!DrmBusyFraction(host, scan.next[k], now[k]) # Unmeasured
          /\ Drm!DrmBusyFraction(host, scan.next[k], now[k]) >= (100 * asked[p]) \div Full
      BY <3>1, <3>2, <3>3, <2>1, <1>3, <1>15, FractionOfWork
    <3>5. k \in DOMAIN x.usage /\ x.usage[k] >= Percent(p)
      BY <3>1, <3>2, <3>4, <1>9, <1>11 DEF Percent
    <3> QED
      BY <3>5 DEF k
  <2>4. CASE Drm!HasStats(w, host, p) /\ k \notin scan.fresh
    <3>1. k \in DOMAIN scan.usage /\ scan.usage[k] >= Percent(p)
      BY <2>1, <2>4 DEF Counts
    <3> HIDE DEF k
    <3>2. k \notin DOMAIN known
      BY <2>4, <1>5, <1>6, <1>9
    <3> QED
      BY <3>1, <3>2, <1>11 DEF k
  <2> QED
    BY <2>2, <2>3, <2>4
<1> QED
  BY <1>10, <1>11, <1>12, <1>13, <1>14, <1>15 DEF x

LEMMA RereadDrmKeepsIInv == IInv /\ RereadDrm => IInv'
<1> SUFFICES ASSUME IInv, RereadDrm PROVE IInv'
  OBVIOUS
<1> DEFINE x == Drm!Reread(scan, w, host)
<1>1. /\ step = "rescan" /\ \E k \in DOMAIN scan.next : scan.next[k].at < w.clock
      /\ scan' = NoScan /\ UNCHANGED <<floor, asked>>
  BY DEF RereadDrm
<1>2. PICK s \in Drm!Conclude(x, host, Given(merged)) : Took("drm", s)
  BY DEF RereadDrm
<1>3. host.os = "linux" /\ Drm!HasNode(host) /\ todo = <<"drm">> /\ Len(todo) = 1
  BY <1>1 DEF IInv, PollOK, VerdictInv
<1>4. \A k \in DOMAIN scan.next : scan.next[k].at < w.clock
  BY <1>1 DEF IInv, RescanInv
<1>5. /\ Map(x.next, Clients, Readout) /\ Map(x.usage, Clients, Usage)
      /\ \A k \in DOMAIN x.next : x.next[k].at <= w.clock
      /\ \A k \in DOMAIN x.usage : k[1] \in around \cup {Self}
      /\ \A p \in Present(w) : LET k == Drm!Client(w, host, p) IN
           k \in DOMAIN x.next /\ floor[p] > 0 =>
             w.used[p] - x.next[k].used >= floor[p] * (w.clock - x.next[k].at)
      /\ \A p \in Counted : LET k == Drm!Client(w, host, p) IN
           asked[p] > 0 => k \in DOMAIN x.usage /\ (x.usage[k] = Unmeasured \/ x.usage[k] >= Percent(p))
  BY <1>1, <1>3, <1>4, RereadFacts
<1> HIDE DEF x
<1>6. /\ floor' \in [Everybody -> 0 .. Full] /\ asked' \in [Everybody -> 0 .. Full]
      /\ \A p \in Everybody \ Present(w) : floor'[p] = 0 /\ asked'[p] = 0
  BY <1>1 DEF IInv, ClockInv
<1>7. \A p \in Present(w) : Drm!Client(w, host, p) \in DOMAIN x.next /\ floor'[p] > 0 =>
        w.used[p] - x.next[Drm!Client(w, host, p)].used
          >= floor'[p] * (w.clock - x.next[Drm!Client(w, host, p)].at)
  BY <1>1, <1>5
<1>8. \A p \in Counted : asked'[p] > 0 =>
        LET k == Drm!Client(w, host, p)
        IN  k \in DOMAIN x.usage
            /\ (x.usage[k] = Unmeasured \/ x.usage[k] >= (100 * asked'[p]) \div Full)
  BY <1>1, <1>5 DEF Percent
<1> QED
  BY <1>1, <1>2, <1>3, <1>5, <1>6, <1>7, <1>8, ConcludesPoll
-----------------------------------------------------------------------------
(* The end of a poll.                                                      *)

\* What was worked since a reading is the same in the time of the next poll.
LEMMA SinceRebased ==
  ASSUME WorldOK, NEW p \in Everybody, NEW r \in Readout, NEW f \in Int,
         w.used[p] - r.used >= f * (w.clock - r.at)
  PROVE  /\ [used |-> r.used - w.used[p], at |-> r.at - w.clock] \in Readout
         /\ 0 - (r.used - w.used[p]) >= f * (0 - (r.at - w.clock))
<1>1. w.used[p] \in Int /\ w.clock \in Int /\ r.used \in Int /\ r.at \in Int
  BY DEF WorldOK, Readout
<1>2. 0 - (r.used - w.used[p]) = w.used[p] - r.used /\ 0 - (r.at - w.clock) = w.clock - r.at
  BY <1>1
<1> QED
  BY <1>1, <1>2 DEF Readout

LEMMA EndPollRecords ==
  ASSUME IInv, EndPoll
  PROVE  /\ Map(mem'.drm, Clients, Readout)
         /\ \A k \in DOMAIN mem'.drm :
              /\ k[2] = 0 /\ k[1] \in Everybody /\ Drm!Client(w, host, k[1]) \in DOMAIN mem.drm
              /\ LET r == mem.drm[Drm!Client(w, host, k[1])] IN
                 mem'.drm[k] = [used |-> r.used - w.used[k[1]], at |-> r.at - w.clock]
         /\ Map(mem'.pdh, Everybody, Readout) /\ DOMAIN mem'.pdh = DOMAIN mem.pdh
         /\ \A p \in DOMAIN mem.pdh :
              mem'.pdh[p] = [used |-> mem.pdh[p].used - w.used[p], at |-> mem.pdh[p].at - w.clock]
         /\ Map(mem'.ioreg.ns, Everybody, Int) /\ DOMAIN mem'.ioreg.ns = DOMAIN mem.ioreg.ns
         /\ \A p \in DOMAIN mem.ioreg.ns : mem'.ioreg.ns[p] = mem.ioreg.ns[p] - w.used[p]
         /\ mem'.ioreg.time = IF mem.ioreg.primed THEN mem.ioreg.time - w.clock ELSE mem.ioreg.time
         /\ mem'.ioreg.primed = mem.ioreg.primed /\ mem'.ioreg.servers = mem.ioreg.servers
         /\ DOMAIN mem'.ioreg = DOMAIN mem.ioreg /\ DOMAIN mem' = DOMAIN mem /\ mem'.nvml = mem.nvml
<1> DEFINE Rebased(r, p) == [used |-> r.used - w.used[p], at |-> r.at - w.clock]
           Kept(p)       == (p \in Present(w) \/ ~host.ids) /\ Drm!Client(w, host, p) \in DOMAIN mem.drm
           kept          == {p \in Everybody : Kept(p)}
           drm           == [k \in {<<p, 0>> : p \in kept} |-> Rebased(mem.drm[Drm!Client(w, host, k[1])], k[1])]
           pdh           == [p \in DOMAIN mem.pdh |-> Rebased(mem.pdh[p], p)]
           ns            == [p \in DOMAIN mem.ioreg.ns |-> mem.ioreg.ns[p] - w.used[p]]
           time          == IF mem.ioreg.primed THEN mem.ioreg.time - w.clock ELSE mem.ioreg.time
<1>1. mem' = [mem EXCEPT !.drm = drm, !.pdh = pdh, !.ioreg = [[@ EXCEPT !.ns = ns] EXCEPT !.time = time]]
  BY DEF EndPoll
<1>2. /\ DOMAIN mem = {"nvml", "kfd", "drm", "pdh", "ioreg"}
      /\ DOMAIN mem.ioreg = {"ns", "time", "primed", "servers"}
      /\ Map(mem.drm, Clients, Readout) /\ Map(mem.pdh, Everybody, Readout)
      /\ Map(mem.ioreg.ns, Everybody, Int) /\ WorldOK
  BY DEF IInv, MemoryOK
<1>3. \A p \in Everybody : w.used[p] \in Int /\ w.clock \in Int
  BY <1>2 DEF WorldOK
<1>4. ASSUME NEW r \in Readout, NEW p \in Everybody
      PROVE  Rebased(r, p) \in Readout
  BY <1>3 DEF Readout
<1>5. Map(drm, Clients, Readout) /\ \A k \in DOMAIN drm :
        /\ k[2] = 0 /\ k[1] \in Everybody /\ Drm!Client(w, host, k[1]) \in DOMAIN mem.drm
        /\ drm[k] = Rebased(mem.drm[Drm!Client(w, host, k[1])], k[1])
  <2>1. \A k \in DOMAIN drm : /\ k \in Clients /\ k[2] = 0 /\ k[1] \in Everybody
                              /\ Drm!Client(w, host, k[1]) \in DOMAIN mem.drm
    <3>1. \A p \in kept : p \in Everybody /\ Drm!Client(w, host, p) \in DOMAIN mem.drm
      OBVIOUS
    <3>2. \A k \in DOMAIN drm : \E p \in kept : k = <<p, 0>>
      OBVIOUS
    <3> HIDE DEF kept, drm
    <3> QED
      BY <3>1, <3>2 DEF Clients
  <2>2. drm = [k \in DOMAIN drm |-> Rebased(mem.drm[Drm!Client(w, host, k[1])], k[1])]
    OBVIOUS
  <2> HIDE DEF drm
  <2>3. \A k \in DOMAIN drm : mem.drm[Drm!Client(w, host, k[1])] \in Readout
    BY <2>1, <1>2 DEF Map
  <2> HIDE DEF Rebased
  <2>4. \A k \in DOMAIN drm : Rebased(mem.drm[Drm!Client(w, host, k[1])], k[1]) \in Readout
    BY <2>1, <2>3, <1>4
  <2> QED
    BY <2>1, <2>2, <2>4 DEF Map
<1>6. Map(pdh, Everybody, Readout) /\ DOMAIN pdh = DOMAIN mem.pdh
      /\ \A p \in DOMAIN mem.pdh : pdh[p] = Rebased(mem.pdh[p], p)
  <2>1. \A p \in DOMAIN mem.pdh : p \in Everybody /\ mem.pdh[p] \in Readout
    BY <1>2 DEF Map
  <2> HIDE DEF Rebased
  <2>2. \A p \in DOMAIN mem.pdh : Rebased(mem.pdh[p], p) \in Readout
    BY <2>1, <1>4
  <2> QED
    BY <2>1, <2>2 DEF Map
<1>7. Map(ns, Everybody, Int) /\ DOMAIN ns = DOMAIN mem.ioreg.ns
      /\ \A p \in DOMAIN mem.ioreg.ns : ns[p] = mem.ioreg.ns[p] - w.used[p]
  <2>1. \A p \in DOMAIN mem.ioreg.ns : p \in Everybody /\ mem.ioreg.ns[p] \in Int
    BY <1>2 DEF Map
  <2>2. \A p \in DOMAIN mem.ioreg.ns : mem.ioreg.ns[p] - w.used[p] \in Int
    BY <2>1, <1>3
  <2> QED
    BY <2>1, <2>2 DEF Map
<1> HIDE DEF drm, pdh, ns, time
<1>8. /\ DOMAIN mem' = DOMAIN mem /\ mem'.nvml = mem.nvml /\ mem'.drm = drm /\ mem'.pdh = pdh
      /\ mem'.ioreg = [[mem.ioreg EXCEPT !.ns = ns] EXCEPT !.time = time]
  BY <1>1, <1>2
<1>9. /\ DOMAIN mem'.ioreg = DOMAIN mem.ioreg /\ mem'.ioreg.ns = ns /\ mem'.ioreg.time = time
      /\ mem'.ioreg.servers = mem.ioreg.servers
  BY <1>2, <1>8
<1>10. mem'.ioreg.primed = mem.ioreg.primed
  BY <1>2, <1>8
<1> QED
  BY <1>5, <1>6, <1>7, <1>8, <1>9, <1>10 DEF time

LEMMA EndPollKeepsIInv == IInv /\ EndPoll => IInv'
<1> SUFFICES ASSUME IInv, EndPoll PROVE IInv'
  OBVIOUS
<1>1. /\ step = "end" /\ step' = "wait" /\ around' = {} /\ merged' = Unknown /\ failed' = FALSE
      /\ asked' = [p \in Everybody |-> 0] /\ UNCHANGED <<host, todo, scan, floor>>
  BY DEF EndPoll
<1>2. WorldOK /\ MemoryOK /\ Present(w) \subseteq Everybody /\ Full \in Nat /\ w.clock \in Nat
      /\ floor \in [Everybody -> 0 .. Full]
  BY ProcessesAreEverybody, WorkAssumption DEF IInv, WorldOK, ClockInv
<1>3. /\ w'.here = w.here /\ w'.kind = w.kind /\ w'.client = [p \in Others |-> 0]
      /\ w'.used = [p \in Everybody |-> 0] /\ w'.clock = 0
      /\ w' \in [here : SUBSET Others, kind : [Others -> Kinds], client : [Others -> 0 .. 2],
                 used : [Everybody -> Int], clock : Nat]
  <2> DEFINE u == [p \in Everybody |-> 0]  c == [p \in Others |-> 0]
  <2>1. w' = [w EXCEPT !.used = u, !.client = c, !.clock = 0]
    BY DEF EndPoll
  <2>2. u \in [Everybody -> Int] /\ c \in [Others -> 0 .. 2]
    OBVIOUS
  <2> HIDE DEF u, c
  <2>3. w' = [here |-> w.here, kind |-> w.kind, client |-> c, used |-> u, clock |-> 0]
    BY <2>1, <1>2 DEF WorldOK
  <2>4. /\ w.here \in SUBSET Others /\ w.kind \in [Others -> Kinds] /\ 0 \in Nat
    BY <1>2 DEF WorldOK
  <2>5. /\ w'.here = w.here /\ w'.kind = w.kind /\ w'.client = c
        /\ w'.used = u /\ w'.clock = 0
    BY <2>3
  <2>6. w' \in [here : SUBSET Others, kind : [Others -> Kinds], client : [Others -> 0 .. 2],
                used : [Everybody -> Int], clock : Nat]
    BY <2>2, <2>3, <2>4
  <2> QED
    BY <2>5, <2>6 DEF u, c
<1>4. Present(w') = Present(w) /\ Users(w') = Users(w)
  BY <1>3 DEF Present, Users
<1>5. /\ Map(mem'.drm, Clients, Readout)
      /\ \A k \in DOMAIN mem'.drm :
           /\ k[2] = 0 /\ k[1] \in Everybody /\ Drm!Client(w, host, k[1]) \in DOMAIN mem.drm
           /\ LET r == mem.drm[Drm!Client(w, host, k[1])] IN
              mem'.drm[k] = [used |-> r.used - w.used[k[1]], at |-> r.at - w.clock]
      /\ Map(mem'.pdh, Everybody, Readout) /\ DOMAIN mem'.pdh = DOMAIN mem.pdh
      /\ \A p \in DOMAIN mem.pdh :
           mem'.pdh[p] = [used |-> mem.pdh[p].used - w.used[p], at |-> mem.pdh[p].at - w.clock]
  BY EndPollRecords
<1>6. /\ Map(mem'.ioreg.ns, Everybody, Int) /\ DOMAIN mem'.ioreg.ns = DOMAIN mem.ioreg.ns
      /\ \A p \in DOMAIN mem.ioreg.ns : mem'.ioreg.ns[p] = mem.ioreg.ns[p] - w.used[p]
      /\ mem'.ioreg.time = IF mem.ioreg.primed THEN mem.ioreg.time - w.clock ELSE mem.ioreg.time
      /\ mem'.ioreg.primed = mem.ioreg.primed /\ mem'.ioreg.servers = mem.ioreg.servers
      /\ DOMAIN mem'.ioreg = DOMAIN mem.ioreg /\ DOMAIN mem' = DOMAIN mem /\ mem'.nvml = mem.nvml
  BY EndPollRecords
<1>7. WorldOK'
  <2>1. \A p \in w'.here : w'.kind[p] \in host'.kinds \cup {"graphics"}
    BY <1>1, <1>2, <1>3 DEF WorldOK
  <2>2. host' \in Hosts /\ around' \subseteq Others
    BY <1>1, <1>2 DEF WorldOK
  <2> QED
    BY <2>1, <2>2, <1>3 DEF WorldOK
<1>8. MemoryOK'
  <2>1. mem.ioreg.time \in Int /\ mem.ioreg.primed \in BOOLEAN /\ mem.ioreg.time - w.clock \in Int
    BY <1>2 DEF MemoryOK
  <2>2. mem'.ioreg.time \in Int
    BY <2>1, <1>6
  <2>3. mem'.ioreg.primed \in BOOLEAN
    BY <2>1, <1>6
  <2> QED
    BY <2>2, <2>3, <1>2, <1>5, <1>6 DEF MemoryOK
<1>9. PollOK'
  BY <1>1 DEF PollOK, Observed, Unknown
<1>10. AroundInv' /\ NvmlInv' /\ RescanInv' /\ NoUserOverlooked'
  BY <1>1 DEF AroundInv, NvmlInv, RescanInv, NoUserOverlooked, Ended
<1>11. VerdictInv'
  BY <1>1, <1>6 DEF IInv, VerdictInv
<1>12. \A k \in DOMAIN mem.drm : mem.drm[k] \in Readout /\ mem.drm[k].at \in Int /\ mem.drm[k].at <= w.clock
  BY ReadBefore
<1>13. ClockInv'
  <2>1. ASSUME NEW k \in DOMAIN mem'.drm
        PROVE  mem'.drm[k].at <= 0
    <3> DEFINE r == mem.drm[Drm!Client(w, host, k[1])]
    <3>1. mem'.drm[k] = [used |-> r.used - w.used[k[1]], at |-> r.at - w.clock]
      BY <1>5
    <3>2. r.at \in Int /\ r.at <= w.clock
      BY <1>5, <1>12
    <3> HIDE DEF r
    <3> QED
      BY <3>1, <3>2, <1>2
  <2>2. ASSUME NEW p \in DOMAIN mem'.pdh
        PROVE  mem'.pdh[p].at <= 0
    <3> DEFINE r == mem.pdh[p]
    <3>1. p \in DOMAIN mem.pdh
      BY <1>5
    <3>2. mem'.pdh[p] = [used |-> r.used - w.used[p], at |-> r.at - w.clock]
      BY <3>1, <1>5
    <3>3. r.at \in Int /\ r.at <= w.clock
      BY <3>1, <1>2, ReadBefore DEF MemoryOK, Map, Readout
    <3> HIDE DEF r
    <3> QED
      BY <3>2, <3>3, <1>2
  <2>3. mem'.ioreg.primed => mem'.ioreg.time <= 0
    <3>1. mem.ioreg.time \in Int /\ (mem.ioreg.primed => mem.ioreg.time <= w.clock)
      BY <1>2, ReadBefore DEF MemoryOK
    <3> QED
      BY <3>1, <1>2, <1>6
  <2>4. \A p \in Everybody \ Present(w') : floor'[p] = 0 /\ asked'[p] = 0
    BY <1>1, <1>4 DEF IInv, ClockInv
  <2>5. asked' \in [Everybody -> 0 .. Full]
    BY <1>1, <1>2
  <2> QED
    BY <2>1, <2>2, <2>3, <2>4, <2>5, <1>1, <1>2 DEF ClockInv
<1>14. DrmInv'
  <2>1. ASSUME host.os = "linux", Drm!HasNode(host),
               NEW p \in Present(w), <<p, 0>> \in DOMAIN mem'.drm, floor[p] > 0
        PROVE  0 - mem'.drm[<<p, 0>>].used >= floor[p] * (0 - mem'.drm[<<p, 0>>].at)
    <3> DEFINE k == Drm!Client(w, host, p)
               r == mem.drm[k]
    <3>1. k \in DOMAIN mem.drm
          /\ mem'.drm[<<p, 0>>] = [used |-> r.used - w.used[p], at |-> r.at - w.clock]
      BY <2>1, <1>5
    <3>2. Since(floor, p, r.used, r.at)
      BY <2>1, <3>1, <1>1 DEF IInv, DrmInv
    <3>3. r \in Readout /\ p \in Everybody /\ floor[p] \in Int
      BY <2>1, <3>1, <1>2, <1>12
    <3> HIDE DEF k, r
    <3>4. w.used[p] - r.used >= floor[p] * (w.clock - r.at)
      BY <2>1, <3>2 DEF Since
    <3>5. 0 - (r.used - w.used[p]) >= floor[p] * (0 - (r.at - w.clock))
      BY <3>3, <3>4, <1>2, SinceRebased
    <3> QED
      BY <3>1, <3>5
  <2>2. \A p \in Present(w) : Drm!Client(w', host', p) = <<p, 0>> /\ w'.used[p] = 0
    <3>1. \A p \in Present(w) : p # Self => p \in Others
      BY <1>2 DEF Present, WorldOK
    <3> QED
      BY <3>1, <1>2, <1>3, SameSelf DEF Drm!Client
  <2>3. \A k \in DOMAIN mem'.drm : k[2] = 0
    BY <1>5
  <2>4. scan' = NoScan
    BY <1>1 DEF IInv, DrmInv
  <2> QED
    BY <2>1, <2>2, <2>3, <2>4, <1>1, <1>3, <1>4 DEF DrmInv, Since
<1>15. PdhInv'
  <2>1. Pdh!Instances(w', host') = Pdh!Instances(w, host) /\ Pdh!Instances(w, host) \subseteq Present(w)
    BY <1>1, <1>3, PdhRaw DEF Pdh!Instances, Pdh!Present, Pdh!KindOf
  <2>2. ASSUME host.os = "windows", host.pdh, NEW p \in Pdh!Instances(w, host), floor[p] > 0
        PROVE  /\ p \in DOMAIN mem'.pdh
               /\ 0 - mem'.pdh[p].used >= floor[p] * (0 - mem'.pdh[p].at)
    <3> DEFINE r == mem.pdh[p]
    <3>1. p \in DOMAIN mem.pdh /\ Since(floor, p, r.used, r.at)
      BY <2>2 DEF IInv, PdhInv
    <3>2. r \in Readout /\ p \in Everybody /\ floor[p] \in Int
      BY <3>1, <2>1, <1>2 DEF MemoryOK, Map
    <3>3. mem'.pdh[p] = [used |-> r.used - w.used[p], at |-> r.at - w.clock] /\ p \in DOMAIN mem'.pdh
      BY <3>1, <1>5
    <3> HIDE DEF r
    <3>4. w.used[p] - r.used >= floor[p] * (w.clock - r.at)
      BY <2>2, <3>1 DEF Since
    <3>5. 0 - (r.used - w.used[p]) >= floor[p] * (0 - (r.at - w.clock))
      BY <3>2, <3>4, <1>2, SinceRebased
    <3> QED
      BY <3>3, <3>5
  <2>3. \A p \in Everybody : w'.used[p] = 0
    BY <1>3
  <2> QED
    BY <2>1, <2>2, <2>3, <1>1, <1>2, <1>3 DEF PdhInv, Since
<1>16. IoRegInv'
  <2>1. ASSUME host.os = "macos", NEW p \in Present(w), floor[p] > 0
        PROVE  /\ mem'.ioreg.primed /\ p \in DOMAIN mem'.ioreg.ns
               /\ 0 - mem'.ioreg.ns[p] >= floor[p] * (0 - mem'.ioreg.time)
    <3> DEFINE r == [used |-> mem.ioreg.ns[p], at |-> mem.ioreg.time]
    <3>1. mem.ioreg.primed /\ p \in DOMAIN mem.ioreg.ns /\ Since(floor, p, r.used, r.at)
      BY <2>1 DEF IInv, IoRegInv
    <3>2. r \in Readout /\ p \in Everybody /\ floor[p] \in Int
      BY <3>1, <1>2 DEF MemoryOK, Map, Readout
    <3>3. mem'.ioreg.ns[p] = r.used - w.used[p] /\ mem'.ioreg.time = r.at - w.clock
      BY <3>1, <1>6
    <3> HIDE DEF r
    <3>4. w.used[p] - r.used >= floor[p] * (w.clock - r.at)
      BY <2>1, <3>1 DEF Since
    <3>5. 0 - (r.used - w.used[p]) >= floor[p] * (0 - (r.at - w.clock))
      BY <3>2, <3>4, <1>2, SinceRebased
    <3> QED
      BY <3>1, <3>3, <3>5, <1>6
  <2>2. \A p \in Everybody : w'.used[p] = 0
    BY <1>3
  <2>3. \A p \in mem'.ioreg.servers : host.os = "macos" => p \in w'.here /\ w'.kind[p] = "graphics"
    BY <1>3, <1>6 DEF IInv, IoRegInv
  <2> QED
    BY <2>1, <2>2, <2>3, <1>1, <1>2, <1>3, <1>4 DEF IoRegInv, Since
<1> QED
  BY <1>7, <1>8, <1>9, <1>10, <1>11, <1>13, <1>14, <1>15, <1>16 DEF IInv

-----------------------------------------------------------------------------
(* What holds in every state.                                              *)

LEMMA NextKeepsIInv == IInv /\ [Next]_vars => IInv'
<1> SUFFICES ASSUME IInv, [Next]_vars PROVE IInv'
  OBVIOUS
<1>1. CASE Elapse
  BY <1>1, ElapseKeepsIInv
<1>2. ASSUME NEW p \in Others, Enter(p)
      PROVE  IInv'
  BY <1>2, EnterKeepsIInv
<1>3. ASSUME NEW p \in Others, Exit(p)
      PROVE  IInv'
  BY <1>3, ExitKeepsIInv
<1>4. CASE BeginPoll
  BY <1>4, BeginPollKeepsIInv
<1>5. CASE SampleNvml \/ SampleKfd
  BY <1>5, SampleNvmlKeepsIInv, SampleKfdKeepsIInv
<1>6. CASE SamplePdh \/ SampleIoReg
  BY <1>6, SamplePdhKeepsIInv, SampleIoRegKeepsIInv
<1>7. CASE SkipDrm \/ ScanDrm \/ RereadDrm
  BY <1>7, SkipDrmKeepsIInv, ScanDrmKeepsIInv, RereadDrmKeepsIInv
<1>8. CASE EndPoll
  BY <1>8, EndPollKeepsIInv
<1>9. CASE UNCHANGED vars
  <2>1. UNCHANGED <<host, w, mem, step, todo, merged, scan, failed, around, floor, asked>>
    BY <1>9 DEF vars
  <2>2. WorldOK' /\ MemoryOK' /\ PollOK'
    BY <2>1 DEF IInv, WorldOK, MemoryOK, PollOK, Rests
  <2>3. AroundInv' /\ ClockInv'
    BY <2>1 DEF IInv, AroundInv, ClockInv
  <2>8. VerdictInv' /\ NvmlInv'
    BY <2>1 DEF IInv, VerdictInv, NvmlInv, Told, Seen, ByNvml, Unseen, Users
  <2>4. DrmInv'
    BY <2>1 DEF IInv, DrmInv, Since
  <2>5. RescanInv'
    BY <2>1 DEF IInv, RescanInv, Counts, Counted, Percent, Since, Users
  <2>6. PdhInv' /\ IoRegInv'
    BY <2>1 DEF IInv, PdhInv, Unseen, IoRegInv, Since
  <2>7. NoUserOverlooked'
    BY <2>1 DEF IInv, NoUserOverlooked, Ended, Percent, Unseen
  <2> QED
    BY <2>2, <2>3, <2>4, <2>5, <2>6, <2>7, <2>8 DEF IInv
<1> QED
  BY <1>1, <1>2, <1>3, <1>4, <1>5, <1>6, <1>7, <1>8, <1>9 DEF Next

LEMMA IInvHolds == Spec => []IInv
  BY InitIInv, NextKeepsIInv, PTL DEF Spec
-----------------------------------------------------------------------------
(* What a device is measured to be busy.                                   *)

Percentage(busy) == busy = Unmeasured \/ busy \in 0 .. 100

\* Just a device that is found busy is measured, and before the last source's
\* turn none that is summed over the processes: no other is asked of it.
MeasureInv ==
  /\ Percentage(merged.busy)
  /\ merged.busy # Unmeasured => merged.verdict = "busy"
  /\ SummedUp /\ step # "end" => merged.busy = Unmeasured
  /\ mem.nvml = "handle" => host.vendor = "nvidia" /\ ~host.wddm
  /\ MeasuresTheOthers

LEMMA InitMeasureInv == Init => MeasureInv
  BY DEF Init, MeasureInv, Percentage, MeasuresTheOthers, Unknown

\* Given what was measured, a source hands that on or finds the device busy.
LEMMA MergedMeasure ==
  ASSUME NEW o, Percentage(o.busy), o.busy # Unmeasured => o.verdict = "busy",
         NEW seen, Percentage(seen.busy), seen.busy = o.busy \/ seen.verdict = "busy"
  PROVE  /\ Given(o).busy = o.busy
         /\ Percentage(Merge(o, seen).busy)
         /\ Merge(o, seen).busy # Unmeasured => Merge(o, seen).verdict = "busy"
         /\ o.busy = Unmeasured => Merge(o, seen).busy = seen.busy
<1>1. Given(o).busy = o.busy
  BY DEF Given, MeasuredBusy, Unknown
<1>2. /\ Merge(o, seen).busy = IF seen.busy > o.busy THEN seen.busy ELSE o.busy
      /\ seen.verdict = "busy" \/ o.verdict = "busy" => Merge(o, seen).verdict = "busy"
  BY DEF Merge
<1> QED
  BY <1>1, <1>2 DEF Percentage, Unmeasured

\* The turn of a source that is not the last one.
LEMMA MeasuredOn ==
  ASSUME IInv, MeasureInv, NEW source \in {"nvml", "kfd"}, NEW s, Took(source, s),
         Observed(s.seen), s.failed \in BOOLEAN, step = "sample", Len(todo) # 1,
         Percentage(s.seen.busy), s.seen.busy = merged.busy \/ s.seen.verdict = "busy",
         SummedUp => s.seen.busy = merged.busy,
         mem'.nvml = "handle" => host.vendor = "nvidia" /\ ~host.wddm
  PROVE  MeasureInv'
<1>1. merged' = Merge(merged, s.seen) /\ step' = "sample" /\ UNCHANGED <<host, w>>
  BY DEF Took
<1>2. /\ Percentage(merged'.busy) /\ (merged'.busy # Unmeasured => merged'.verdict = "busy")
      /\ merged.busy = Unmeasured => merged'.busy = s.seen.busy
  BY <1>1, MergedMeasure DEF MeasureInv
<1>3. SummedUp => merged'.busy = Unmeasured
  BY <1>2 DEF MeasureInv
<1>4. MeasuresTheOthers'
  BY <1>1 DEF MeasuresTheOthers
<1> QED
  BY <1>1, <1>2, <1>3, <1>4 DEF MeasureInv, SummedUp, Percentage

\* The last turn, where the measure is enough if it is summed up.
LEMMA MeasuredLast ==
  ASSUME IInv, MeasureInv, NEW source \in {"nvml", "drm", "pdh", "ioreg"}, NEW s, Took(source, s),
         Observed(s.seen), s.failed \in BOOLEAN, step # "end", Len(todo) = 1,
         Percentage(s.seen.busy), s.seen.busy = merged.busy \/ s.seen.verdict = "busy",
         mem'.nvml = "handle" => host.vendor = "nvidia" /\ ~host.wddm,
         SummedUp => s.seen.busy = merged.busy \/ s.seen.busy = Unmeasured
                     \/ s.seen.busy >= Demand(Counted)'
  PROVE  MeasureInv'
<1>1. merged' = Merge(merged, s.seen) /\ step' = "end" /\ UNCHANGED <<host, w>>
  BY DEF Took
<1>3. /\ Percentage(merged'.busy) /\ (merged'.busy # Unmeasured => merged'.verdict = "busy")
      /\ merged.busy = Unmeasured => merged'.busy = s.seen.busy
  BY <1>1, MergedMeasure DEF MeasureInv
<1>4. SummedUp' <=> SummedUp
  BY <1>1 DEF SummedUp
<1>5. MeasuresTheOthers'
  <2> SUFFICES ASSUME merged'.busy # Unmeasured
               PROVE  /\ merged'.verdict = "busy" /\ merged'.busy \in 0 .. 100
                      /\ SummedUp' => merged'.busy >= Demand(Counted)'
    BY DEF MeasuresTheOthers
  <2>1. merged'.verdict = "busy" /\ merged'.busy \in 0 .. 100
    BY <1>3 DEF Percentage
  <2>2. SummedUp' => merged'.busy >= Demand(Counted)'
    BY <1>3, <1>4 DEF MeasureInv
  <2> QED
    BY <2>1, <2>2
<1> QED
  BY <1>1, <1>3, <1>5 DEF MeasureInv, Percentage

\* What the processes that are counted took adds up.
Asks == [p \in Counted |-> Percent(p)]

LEMMA DemandIsTotal ==
  IInv => /\ IsFiniteSet(Counted) /\ Counted \subseteq Everybody /\ Asks \in [Counted -> Nat]
          /\ \E t : IsTotal(t, Asks, Counted) /\ Demand(Counted) = Min({t[Counted], 100})
<1> SUFFICES ASSUME IInv
             PROVE  /\ IsFiniteSet(Counted) /\ Counted \subseteq Everybody /\ Asks \in [Counted -> Nat]
                    /\ \E t : IsTotal(t, Asks, Counted) /\ Demand(Counted) = Min({t[Counted], 100})
  OBVIOUS
<1> DEFINE S == Counted
           f == [p \in S |-> Percent(p)]
           iter == CHOOSE t : t = [T \in SUBSET S |-> IF T = {} THEN 0 ELSE Percent(Some(T)) + t[T \ {Some(T)}]]
<1>1. IsFiniteSet(S) /\ S \subseteq Everybody
  <2>1. S \subseteq Others \cup {Self}
    BY CountedFacts DEF IInv, Everybody
  <2>2. IsFiniteSet(Others \cup {Self})
    BY OthersAssumption, FS_AddElement
  <2> HIDE DEF S
  <2> QED
    BY <2>1, <2>2, FS_Subset DEF Everybody
<1> HIDE DEF S
<1>2. \A p \in S : Percent(p) \in Nat
  <2> TAKE p \in S
  <2>1. asked[p] \in Nat /\ Full \in Nat /\ Full > 0
    BY <1>1, WorkAssumption DEF IInv, ClockInv
  <2>2. 100 * asked[p] \in Int /\ 0 * Full <= 100 * asked[p]
    BY <2>1
  <2>3. (100 * asked[p]) \div Full \in Int /\ (100 * asked[p]) \div Full >= 0
    BY <2>1, <2>2, QuotientAtLeast
  <2> QED
    BY <2>3 DEF Percent
<1>3. f \in [S -> Nat] /\ \A p \in S : f[p] = Percent(p)
  BY <1>2
<1> HIDE DEF f
<1>4. PICK g : IsTotal(g, f, S)
  BY <1>1, <1>3, TotalsExist
<1>5. \A T \in SUBSET S : T # {} => f[Some(T)] = Percent(Some(T))
  BY <1>3 DEF Some
<1>6. g = [T \in SUBSET S |-> IF T = {} THEN 0 ELSE Percent(Some(T)) + g[T \ {Some(T)}]]
  BY <1>4, <1>5 DEF IsTotal
<1>7. iter = [T \in SUBSET S |-> IF T = {} THEN 0 ELSE Percent(Some(T)) + iter[T \ {Some(T)}]]
  BY <1>6, Zenon
<1>8. MapThenSumSet(Percent, S) = iter[S]
  BY DEF MapThenSumSet, MapThenFoldSet, Some
<1> HIDE DEF iter
<1>9. iter = [T \in SUBSET S |-> IF T = {} THEN 0 ELSE f[Some(T)] + iter[T \ {Some(T)}]]
  BY <1>5, <1>7
<1>10. IsTotal(iter, f, S)
  BY <1>1, <1>3, <1>9, FoldIsTotal
<1>11. Demand(S) = Min({iter[S], 100})
  BY <1>8 DEF Demand
<1> QED
  BY <1>1, <1>3, <1>10, <1>11 DEF S, f, Asks

\* What a source sums up, capped.
LEMMA CappedIsTotal ==
  ASSUME NEW D, IsFiniteSet(D), NEW g \in [D -> Nat]
  PROVE  \E u : /\ IsTotal(u, g, D) /\ u[D] \in Nat
                /\ Drm!Capped(g) = Min({u[D], 100}) /\ Pdh!Capped(g) = Min({u[D], 100})
                /\ IoReg!Capped(g) = Min({u[D], 100})
<1>1. PICK u : IsTotal(u, g, D) /\ Total(g, D) = u[D]
  BY TotalIsLast
<1>2. u[D] \in Nat
  BY <1>1 DEF IsTotal
<1>3. D = DOMAIN g
  OBVIOUS
<1>4. Drm!Capped(g) = Min({Total(g, DOMAIN g), 100})
  BY Zenon DEF Drm!Capped, Drm!Min, Drm!MapThenSumSet, Drm!MapThenFoldSet, Total, MapThenFoldSet, Min
<1>5. Pdh!Capped(g) = Min({Total(g, DOMAIN g), 100})
  BY Zenon DEF Pdh!Capped, Pdh!Min, Pdh!MapThenSumSet, Pdh!MapThenFoldSet, Total, MapThenFoldSet, Min
<1>6. IoReg!Capped(g) = Min({Total(g, DOMAIN g), 100})
  BY Zenon DEF IoReg!Capped, IoReg!Min, IoReg!MapThenSumSet, IoReg!MapThenFoldSet, Total, MapThenFoldSet, Min
<1> QED
  BY <1>1, <1>2, <1>3, <1>4, <1>5, <1>6, Zenon

\* What each of them took has a part of its own in the sum that a source capped.
LEMMA MeasuresEnough ==
  ASSUME IInv', NEW D, IsFiniteSet(D), NEW g \in [D -> Nat],
         NEW h, \A p, q \in Counted' : h[p] = h[q] => p = q,
         \A p \in Counted' : asked'[p] > 0 => h[p] \in D /\ g[h[p]] >= (100 * asked'[p]) \div Full
  PROVE  /\ Drm!Capped(g) \in 0 .. 100 /\ Drm!Capped(g) >= Demand(Counted)'
         /\ Pdh!Capped(g) = Drm!Capped(g) /\ IoReg!Capped(g) = Drm!Capped(g)
<1>1. /\ IsFiniteSet(Counted') /\ Counted' \subseteq Everybody /\ Asks' \in [Counted' -> Nat]
      /\ \E t : IsTotal(t, Asks', Counted') /\ Demand(Counted)' = Min({t[Counted'], 100})
  <2>1. (IInv => /\ IsFiniteSet(Counted) /\ Counted \subseteq Everybody /\ Asks \in [Counted -> Nat]
                 /\ \E t : IsTotal(t, Asks, Counted) /\ Demand(Counted) = Min({t[Counted], 100}))'
    BY DemandIsTotal, PTL
  <2> QED
    BY <2>1
<1>2. PICK t : IsTotal(t, Asks', Counted') /\ Demand(Counted)' = Min({t[Counted'], 100})
  BY <1>1
<1>3. PICK u : /\ IsTotal(u, g, D) /\ u[D] \in Nat
               /\ Drm!Capped(g) = Min({u[D], 100}) /\ Pdh!Capped(g) = Min({u[D], 100})
               /\ IoReg!Capped(g) = Min({u[D], 100})
  BY CappedIsTotal
<1>4. ASSUME NEW p \in Counted', Asks'[p] > 0
      PROVE  h[p] \in D /\ Asks'[p] <= g[h[p]]
  <2>1. Asks'[p] = (100 * asked'[p]) \div Full /\ Asks'[p] \in Nat
    BY <1>1 DEF Asks, Percent
  <2>2. asked'[p] \in Nat /\ Full \in Nat /\ Full > 0
    <3>1. p \in Everybody
      BY <1>1
    <3>2. asked' \in [Everybody -> 0 .. Full]
      BY DEF IInv, ClockInv
    <3> QED
      BY <3>1, <3>2, WorkAssumption
  <2>3. asked'[p] > 0
    <3>1. (100 * 0) \div Full = 0
      BY <2>2
    <3> QED
      BY <1>4, <2>1, <2>2, <3>1
  <2>4. h[p] \in D /\ g[h[p]] >= (100 * asked'[p]) \div Full
    BY <2>3
  <2> QED
    BY <2>1, <2>4
<1>5. t[Counted'] <= u[D]
  BY <1>1, <1>2, <1>3, <1>4, TotalAtMost
<1>6. t[Counted'] \in Nat
  BY <1>2 DEF IsTotal
<1>7. /\ Min({t[Counted'], 100}) \in {t[Counted'], 100} /\ Min({t[Counted'], 100}) <= t[Counted']
      /\ Min({t[Counted'], 100}) <= 100
      /\ Min({u[D], 100}) \in {u[D], 100} /\ Min({u[D], 100}) <= 100
  <2>1. \A x \in Int : Min({x, 100}) \in {x, 100} /\ Min({x, 100}) <= x /\ Min({x, 100}) <= 100
    <3> TAKE x \in Int
    <3>1. \E y \in {x, 100} : \A z \in {x, 100} : y =< z
      BY SMT
    <3> QED
      BY <3>1 DEF Min
  <2>2. PICK m, n \in Int : m = t[Counted'] /\ n = u[D]
    BY <1>3, <1>6
  <2>3. /\ Min({m, 100}) \in {m, 100} /\ Min({m, 100}) <= m /\ Min({m, 100}) <= 100
        /\ Min({n, 100}) \in {n, 100} /\ Min({n, 100}) <= 100
    BY <2>1
  <2> QED
    BY <2>2, <2>3
<1> DEFINE a == Min({t[Counted'], 100})
           b == Min({u[D], 100})
<1>8. /\ a \in {t[Counted'], 100} /\ a <= t[Counted'] /\ a <= 100
      /\ b \in {u[D], 100} /\ b <= 100
  BY <1>7
<1> HIDE DEF a, b
<1>9. a \in Nat /\ b \in 0 .. 100
  BY <1>3, <1>6, <1>8
<1>10. b >= a
  <2>1. CASE b = 100
    BY <2>1, <1>8, <1>9
  <2>2. CASE b = u[D]
    BY <2>2, <1>3, <1>5, <1>6, <1>8, <1>9
  <2> QED
    BY <2>1, <2>2, <1>8
<1>11. Drm!Capped(g) = b /\ Pdh!Capped(g) = b /\ IoReg!Capped(g) = b /\ Demand(Counted)' = a
  BY <1>2, <1>3 DEF a, b
<1> QED
  BY <1>9, <1>10, <1>11

LEMMA FiniteWorld ==
  /\ IsFiniteSet(Everybody) /\ IsFiniteSet(Clients)
  /\ \A S : S \subseteq Everybody \/ S \subseteq Clients => IsFiniteSet(S)
<1>1. IsFiniteSet(Everybody)
  <2>1. IsFiniteSet(Others \cup {Self})
    BY OthersAssumption, FS_AddElement
  <2> QED
    BY <2>1 DEF Everybody
<1>2. IsFiniteSet(0 .. 2)
  <2>1. \A S : IsFiniteSet(S) => \A x : IsFiniteSet(S \cup {x})
    BY FS_AddElement
  <2>2. IsFiniteSet({0}) /\ 0 .. 2 = ({0} \cup {1}) \cup {2}
    BY FS_Singleton
  <2> QED
    BY <2>1, <2>2, Zenon
<1>3. IsFiniteSet(Clients)
  BY <1>1, <1>2, FS_Product DEF Clients
<1> QED
  BY <1>1, <1>3, FS_Subset

\* What a source that is not the last one finds.
LEMMA NvmlMeasures ==
  ASSUME IInv, MeasureInv, NEW s \in Nvml!Sample(mem.nvml, w, host, Given(merged))
  PROVE  /\ Percentage(s.seen.busy) /\ (s.seen.busy = merged.busy \/ s.seen.verdict = "busy")
         /\ s.state = "handle" => host.vendor = "nvidia" /\ ~host.wddm
         /\ s.state # "handle" => s.seen.busy = merged.busy
<1> DEFINE given == Given(merged)
<1>1. given.busy = merged.busy /\ Percentage(merged.busy) /\ Observed(given)
  BY GivenFacts DEF IInv, MeasureInv, Given, MeasuredBusy, Unknown
<1> HIDE DEF given
<1>7. CASE s = Sampled(mem.nvml, given, FALSE)
  <2>1. s.state = mem.nvml /\ s.seen = given
    BY <1>7 DEF Sampled
  <2> QED
    BY <2>1, <1>1 DEF MeasureInv
<1> SUFFICES ASSUME s # Sampled(mem.nvml, given, FALSE)
             PROVE  /\ Percentage(s.seen.busy) /\ (s.seen.busy = merged.busy \/ s.seen.verdict = "busy")
                    /\ s.state = "handle" => host.vendor = "nvidia" /\ ~host.wddm
                    /\ s.state # "handle" => s.seen.busy = merged.busy
  BY <1>7
<1>2. PICK h \in Nvml!LookUp(mem.nvml, host) :
        s \in IF h = "handle"
              THEN {Sampled(h, given, TRUE)} \cup {Sampled(h, o, FALSE) : o \in Nvml!Judged(w, host, given)}
              ELSE {Sampled(h, given, h = "unasked")}
  BY DEF Nvml!Sample, Nvml!Sampled, Sampled, given
<1>3. h = "handle" => host.vendor = "nvidia" /\ ~host.wddm
  BY DEF Nvml!LookUp, MeasureInv
<1>4. CASE h # "handle"
  <2>1. s = Sampled(h, given, h = "unasked")
    BY <1>2, <1>4
  <2>2. s.state = h /\ s.seen = given
    BY <2>1 DEF Sampled
  <2> QED
    BY <2>2, <1>1, <1>4
<1>5. CASE h = "handle" /\ s = Sampled(h, given, TRUE)
  <2>1. s.state = h /\ s.seen = given
    BY <1>5 DEF Sampled
  <2> QED
    BY <2>1, <1>1, <1>3, <1>5
<1>6. CASE h = "handle" /\ \E o \in Nvml!Judged(w, host, given) : s = Sampled(h, o, FALSE)
  <2>1. PICK o \in Nvml!Judged(w, host, given) : s = Sampled(h, o, FALSE)
    BY <1>6
  <2>2. s.state = h /\ s.seen = o
    BY <2>1 DEF Sampled
  <2>3. CASE o = [given EXCEPT !.verdict = "idle"]
    <3>1. o.busy = given.busy
      BY <2>3, <1>1 DEF Observed
    <3> QED
      BY <3>1, <2>2, <1>1, <1>3, <1>6
  <2>4. CASE \E b \in {Unmeasured} \cup Readings :
               o = [verdict |-> "busy", busy |-> IF Nvml!MeasuredBusy(given) /\ b = Unmeasured THEN given.busy ELSE b]
    <3>1. PICK b \in {Unmeasured} \cup Readings :
            o = [verdict |-> "busy", busy |-> IF Nvml!MeasuredBusy(given) /\ b = Unmeasured THEN given.busy ELSE b]
      BY <2>4
    <3>2. o.verdict = "busy" /\ (o.busy = given.busy \/ o.busy = b)
      BY <3>1
    <3>3. Percentage(b)
      BY ReadingsAssumption DEF Percentage
    <3> QED
      BY <3>2, <3>3, <2>2, <1>1, <1>3, <1>6
  <2> QED
    BY <2>1, <2>3, <2>4, SameSelf DEF Nvml!Judged, Nvml!DeviceBusy
<1> QED
  BY <1>2, <1>4, <1>5, <1>6

LEMMA KfdMeasures ==
  ASSUME IInv, MeasureInv, NEW s \in Kfd!Sample(w, host, Given(merged))
  PROVE  /\ Percentage(s.seen.busy) /\ (s.seen.busy = merged.busy \/ s.seen.verdict = "busy")
         /\ ~host.whole => s.seen.busy = merged.busy
         /\ Observed(s.seen) /\ s.failed = FALSE
<1> DEFINE given == Given(merged)
<1>1. given.busy = merged.busy /\ Percentage(merged.busy) /\ Observed(given)
  BY GivenFacts DEF IInv, MeasureInv, Given, MeasuredBusy, Unknown
<1> HIDE DEF given
<1>2. CASE s = Sampled(0, given, FALSE)
  BY <1>1, <1>2 DEF Sampled
<1>3. CASE s = Sampled(0, [given EXCEPT !.verdict = "idle"], FALSE)
  <2>1. s.seen = [given EXCEPT !.verdict = "idle"] /\ s.failed = FALSE
    BY <1>3 DEF Sampled
  <2>2. s.seen.busy = given.busy /\ Observed(s.seen)
    BY <2>1, <1>1 DEF Observed
  <2> QED
    BY <2>1, <2>2, <1>1
<1>4. CASE \E b \in Kfd!AverageGpuBusyPercent(host) :
             s = Sampled(0, [verdict |-> "busy", busy |-> IF b = Unmeasured THEN given.busy ELSE b], FALSE)
  <2>1. PICK b \in Kfd!AverageGpuBusyPercent(host) :
          s = Sampled(0, [verdict |-> "busy", busy |-> IF b = Unmeasured THEN given.busy ELSE b], FALSE)
    BY <1>4
  <2>2. /\ s.seen = [verdict |-> "busy", busy |-> IF b = Unmeasured THEN given.busy ELSE b]
        /\ s.failed = FALSE
    BY <2>1 DEF Sampled
  <2>3. b = Unmeasured \/ (host.whole /\ b \in Readings)
    BY SameSelf DEF Kfd!AverageGpuBusyPercent
  <2>4. b \in Readings => Percentage(b)
    BY ReadingsAssumption DEF Percentage
  <2>5. Observed(s.seen) /\ s.seen.verdict = "busy" /\ (s.seen.busy = IF b = Unmeasured THEN given.busy ELSE b)
    BY <2>2 DEF Observed
  <2> QED
    BY <2>2, <2>3, <2>4, <2>5, <1>1
<1> QED
  BY <1>2, <1>3, <1>4, SameSelf DEF Kfd!Sample, Kfd!Sampled, Sampled, given

\* A share of time that passed is a number.
LEMMA ShareIsNat ==
  ASSUME NEW before \in Readout, NEW after \in Readout, before.used <= after.used, before.at < after.at
  PROVE  Share(before, after) \in Nat
<1>1. /\ before.used \in Int /\ before.at \in Int /\ after.used \in Int /\ after.at \in Int
      /\ Full \in Nat /\ Full > 0
  BY WorkAssumption DEF Readout
<1> DEFINE d == 100 * (after.used - before.used)
           t == after.at - before.at
<1>2. d \in Nat /\ t \in Nat /\ t > 0
  BY <1>1
<1>3. Share(before, after) = d \div (Full * t)
  BY DEF Share
<1> HIDE DEF d, t
<1>4. Full * t \in Nat /\ Full * t > 0 /\ 0 * (Full * t) <= d
  BY <1>1, <1>2
<1>5. d \div (Full * t) \in Int /\ d \div (Full * t) >= 0
  BY <1>2, <1>4, QuotientAtLeast
<1> QED
  BY <1>3, <1>5

\* What was measured before, and what a poll asks of the processes it read.
LEMMA MeasuredBefore ==
  ASSUME IInv, MeasureInv
  PROVE  /\ Observed(Given(merged)) /\ Given(merged).busy = merged.busy /\ Percentage(merged.busy)
         /\ \A o, v : o = [Given(merged) EXCEPT !.verdict = v] => o.busy = merged.busy
<1>1. Observed(Given(merged)) /\ Given(merged).busy = merged.busy /\ Percentage(merged.busy)
  BY GivenFacts DEF IInv, MeasureInv, Given, MeasuredBusy, Unknown
<1>2. \A o, v : o = [Given(merged) EXCEPT !.verdict = v] => o.busy = Given(merged).busy
  BY <1>1 DEF Observed
<1> QED
  BY <1>1, <1>2

\* The counters of Windows are of every process on the device, ourselves too.
LEMMA PdhMeasures ==
  ASSUME IInv, MeasureInv, step = "sample", host.os = "windows", host.pdh, UNCHANGED <<host, w>>, IInv',
         NEW s \in Pdh!Sample(mem.pdh, w, host, Given(merged)), s.failed \/ asked' = floor
  PROVE  /\ Percentage(s.seen.busy) /\ (s.seen.busy = merged.busy \/ s.seen.verdict = "busy")
         /\ SummedUp => s.seen.busy = merged.busy \/ s.seen.busy >= Demand(Counted)'
<1> DEFINE given == Given(merged)
           raw  == Pdh!Raw(w, host)
           busy == Pdh!Busy(mem.pdh, raw)
<1>1. /\ Percentage(merged.busy) /\ given.busy = merged.busy
      /\ \A o, v : o = [given EXCEPT !.verdict = v] => o.busy = merged.busy
  BY MeasuredBefore
<1>2. \/ s = Sampled(mem.pdh, given, TRUE)
      \/ s = Sampled(raw, Pdh!Judged(busy, given), FALSE)
  BY DEF Pdh!Sample, Pdh!Sampled, Sampled
<1> HIDE DEF given
<1>3. CASE s = Sampled(mem.pdh, given, TRUE)
  <2>1. s.seen = given
    BY <1>3 DEF Sampled
  <2> QED
    BY <2>1, <1>1
<1>4. CASE s = Sampled(raw, Pdh!Judged(busy, given), FALSE)
  <2>1. s.seen = Pdh!Judged(busy, given) /\ s.failed = FALSE
    BY <1>4 DEF Sampled
  <2>2. CASE ~(\E p \in DOMAIN busy \ {Self} : busy[p] >= MinBusyPercent)
    <3>1. Pdh!Judged(busy, given) = [given EXCEPT !.verdict = "idle"]
      BY <2>2, SameSelf DEF Pdh!Judged
    <3> QED
      BY <3>1, <2>1, <1>1
  <2>3. CASE \E p \in DOMAIN busy \ {Self} : busy[p] >= MinBusyPercent
    <3>1. s.seen = [verdict |-> "busy", busy |-> Pdh!Capped(busy)]
      BY <2>1, <2>3, SameSelf DEF Pdh!Judged
    <3>2. WorldOK /\ Present(w) \subseteq Everybody /\ Users(w) \subseteq Present(w)
          /\ \A p \in Users(w) : p # Self
      BY ProcessesAreEverybody, OthersAssumption DEF IInv, WorldOK
    <3>3. /\ DOMAIN raw = Pdh!Instances(w, host) /\ \A p \in Pdh!Instances(w, host) : raw[p] = Reading(w, p)
          /\ Pdh!Instances(w, host) \subseteq Present(w)
      BY PdhRaw
    <3>4. /\ DOMAIN busy = {p \in DOMAIN mem.pdh \cap DOMAIN raw :
                              mem.pdh[p].used <= raw[p].used /\ mem.pdh[p].at < raw[p].at}
          /\ \A p \in DOMAIN busy : busy[p] = Share(mem.pdh[p], raw[p])
          /\ busy = [p \in DOMAIN busy |-> busy[p]]
      BY SameShare DEF Pdh!Busy
    <3>5. \A p \in DOMAIN mem.pdh : mem.pdh[p] \in Readout
      BY DEF IInv, MemoryOK, Map
    <3>6. \A p \in DOMAIN raw : raw[p] \in Readout
      BY <3>2, <3>3 DEF Reading, Readout, WorldOK
    <3>7. \A p \in Pdh!Instances(w, host) : floor[p] > 0 =>
            p \in DOMAIN busy /\ busy[p] \in Int /\ busy[p] >= (100 * floor[p]) \div Full
      BY PdhCounts
    <3> HIDE DEF busy, raw
    <3>8. IsFiniteSet(DOMAIN busy) /\ busy \in [DOMAIN busy -> Nat]
      <4>1. \A p \in DOMAIN busy : busy[p] \in Nat
        BY <3>4, <3>5, <3>6, ShareIsNat
      <4>2. DOMAIN busy \subseteq Everybody
        BY <3>2, <3>3, <3>4
      <4> QED
        BY <3>4, <4>1, <4>2, FiniteWorld
    <3>9. Counted' = Counted /\ Counted \subseteq Pdh!Instances(w, host)
      <4>1. Counted' = Counted
        BY DEF Counted, Users
      <4>2. Pdh!Instances(w, host) # {}
        BY <2>3, <3>3, <3>4
      <4>3. ~(host.vendor = "nvidia" /\ ~host.wddm)
        BY <4>2 DEF Pdh!Instances
      <4>4. Users(w) \subseteq Pdh!Instances(w, host) \cup {Self}
        <5>1. host.wddm \in BOOLEAN
          BY <3>2, HostFacts
        <5> QED
          BY <4>3, <5>1, PdhRaw
      <4>5. Self \in Pdh!Instances(w, host)
        <5>1. host.own # "graphics"
          BY <3>2, HostsAssumption DEF WorldOK
        <5> QED
          BY <4>3, <5>1, SameSelf, SameProcesses, SelfIsThere DEF Pdh!Instances, Pdh!KindOf
      <4> QED
        BY <4>1, <4>4, <4>5, <3>2, CountedFacts
    <3> DEFINE h == [p \in Everybody |-> p]
    <3>10. Counted' \subseteq Everybody
      BY <3>2, <3>3, <3>9
    <3>11. \A p, q \in Counted' : h[p] = h[q] => p = q
      BY <3>10
    <3>12. \A p \in Counted' : asked'[p] > 0 =>
             h[p] \in DOMAIN busy /\ busy[h[p]] >= (100 * asked'[p]) \div Full
      BY <2>1, <3>7, <3>9, <3>10
    <3> HIDE DEF h
    <3>13. Drm!Capped(busy) \in 0 .. 100 /\ Drm!Capped(busy) >= Demand(Counted)'
           /\ Pdh!Capped(busy) = Drm!Capped(busy)
      BY <3>8, <3>11, <3>12, MeasuresEnough
    <3>14. s.seen.verdict = "busy" /\ s.seen.busy = Pdh!Capped(busy)
      BY <3>1
    <3> QED
      BY <3>13, <3>14 DEF Percentage
  <2> QED
    BY <2>2, <2>3
<1> QED
  BY <1>2, <1>3, <1>4

\* The user clients of macOS are of every process on the device, too.
LEMMA IoRegMeasures ==
  ASSUME IInv, MeasureInv, step = "sample", host.os = "macos", UNCHANGED <<host, w>>, IInv',
         NEW s \in IoReg!Sample(mem.ioreg, w, host, Given(merged)),
         s.failed \/ ~host.located \/ asked' = floor
  PROVE  /\ Percentage(s.seen.busy) /\ (s.seen.busy = merged.busy \/ s.seen.verdict = "busy")
         /\ SummedUp => s.seen.busy = merged.busy \/ s.seen.busy >= Demand(Counted)'
<1> DEFINE given   == Given(merged)
           current == [p \in Present(w) |-> w.used[p]]
           servers == mem.ioreg.servers \cup IoReg!Servers(w)
           shares  == IoReg!Shares(mem.ioreg, current, w)
           o       == IoReg!Judged(shares, servers, given)
<1>1. /\ Percentage(merged.busy) /\ given.busy = merged.busy
      /\ \A x, v : x = [given EXCEPT !.verdict = v] => x.busy = merged.busy
  BY MeasuredBefore
<1> HIDE DEF given
<1>2. \/ \E state : s = Sampled(state, given, host.located)
      \/ host.located /\ \E state : s = Sampled(state, o, FALSE)
  BY SameProcesses DEF IoReg!Sample, IoReg!Sampled, Sampled, given
<1>3. CASE \E state : s = Sampled(state, given, host.located)
  <2>1. s.seen = given
    BY <1>3 DEF Sampled
  <2> QED
    BY <2>1, <1>1
<1>4. CASE host.located /\ \E state : s = Sampled(state, o, FALSE)
  <2>1. s.seen = o /\ s.failed = FALSE /\ host.located
    BY <1>4 DEF Sampled
  <2>2. CASE ~(\E p \in DOMAIN shares \ ({Self} \cup servers) : shares[p] >= MinBusyPercent)
    <3>1. o = [given EXCEPT !.verdict = "idle"]
      BY <2>2, SameSelf DEF IoReg!Judged
    <3> QED
      BY <3>1, <2>1, <1>1
  <2>3. CASE \E p \in DOMAIN shares \ ({Self} \cup servers) : shares[p] >= MinBusyPercent
    <3>1. s.seen = [verdict |-> "busy", busy |-> IoReg!Capped(shares)]
      BY <2>1, <2>3, SameSelf DEF IoReg!Judged
    <3>2. WorldOK /\ Present(w) \subseteq Everybody /\ w.clock \in Nat /\ w.clock > 0
      BY ProcessesAreEverybody DEF IInv, WorldOK, ClockInv
    <3>3. DOMAIN current = Present(w) /\ \A p \in Present(w) : current[p] = w.used[p]
      OBVIOUS
    <3>4. \A p \in Present(w) : floor[p] > 0 =>
            p \in DOMAIN shares /\ shares[p] \in Int /\ shares[p] >= (100 * floor[p]) \div Full
      BY IoRegCounts
    <3>5. IsFiniteSet(DOMAIN shares) /\ shares \in [DOMAIN shares -> Nat]
      <4> DEFINE st == mem.ioreg
                 before(p) == [used |-> st.ns[p], at |-> st.time]
                 after(p)  == [used |-> current[p], at |-> w.clock]
      <4>1. CASE ~st.primed \/ w.clock = st.time
        <5>1. shares = <<>>
          BY <4>1 DEF IoReg!Shares
        <5>2. <<>> \in [DOMAIN <<>> -> Nat] /\ DOMAIN <<>> \subseteq Everybody
          OBVIOUS
        <5> HIDE DEF shares
        <5> QED
          BY <5>1, <5>2, FiniteWorld
      <4>2. CASE ~(~st.primed \/ w.clock = st.time)
        <5>1. /\ DOMAIN shares = {p \in DOMAIN st.ns \cap DOMAIN current : current[p] >= st.ns[p]}
              /\ shares = [p \in DOMAIN shares |-> shares[p]]
              /\ \A p \in DOMAIN shares : shares[p] = Share(before(p), after(p))
          BY <4>2, SameShare DEF IoReg!Shares
        <5>2. st.time \in Int /\ st.time < w.clock /\ \A p \in DOMAIN st.ns : st.ns[p] \in Int
          BY <4>2, <3>2 DEF IInv, MemoryOK, Map, ClockInv
        <5>3. \A p \in DOMAIN current : current[p] \in Int
          BY <3>2, <3>3 DEF WorldOK
        <5> HIDE DEF shares, current, st
        <5>4. ASSUME NEW p \in DOMAIN shares
              PROVE  shares[p] \in Nat
          <6>1. /\ before(p) \in Readout /\ after(p) \in Readout
                /\ before(p).used <= after(p).used /\ before(p).at < after(p).at
            BY <5>1, <5>2, <5>3, <3>2 DEF Readout
          <6> QED
            BY <6>1, <5>1, ShareIsNat
        <5>5. DOMAIN shares \subseteq Everybody
          BY <5>1, <3>2, <3>3
        <5> QED
          BY <5>1, <5>4, <5>5, FiniteWorld
      <4> QED
        BY <4>1, <4>2
    <3> HIDE DEF shares, current
    <3>6. Counted' = Counted /\ Counted \subseteq Present(w)
      BY <3>2, CountedFacts DEF Counted, Users
    <3> DEFINE h == [p \in Everybody |-> p]
    <3>7. Counted' \subseteq Everybody
      BY <3>2, <3>6
    <3>8. \A p, q \in Counted' : h[p] = h[q] => p = q
      BY <3>7
    <3>9. \A p \in Counted' : asked'[p] > 0 =>
             h[p] \in DOMAIN shares /\ shares[h[p]] >= (100 * asked'[p]) \div Full
      BY <2>1, <3>4, <3>6, <3>7
    <3> HIDE DEF h
    <3>10. Drm!Capped(shares) \in 0 .. 100 /\ Drm!Capped(shares) >= Demand(Counted)'
           /\ IoReg!Capped(shares) = Drm!Capped(shares)
      BY <3>5, <3>8, <3>9, MeasuresEnough
    <3>11. s.seen.verdict = "busy" /\ s.seen.busy = IoReg!Capped(shares)
      BY <3>1
    <3> QED
      BY <3>10, <3>11 DEF Percentage
  <2> QED
    BY <2>2, <2>3
<1> QED
  BY <1>2, <1>3, <1>4

\* The clients of DRM are of those that are counted, or the whole device is.
LEMMA DrmMeasures ==
  ASSUME IInv, MeasureInv, UNCHANGED <<host, w>>, IInv', NEW x, Map(x.usage, Clients, Usage),
         NEW s \in Drm!Conclude(x, host, Given(merged)),
         \A p \in Counted : asked'[p] > 0 =>
           LET k == Drm!Client(w, host, p)
           IN  k \in DOMAIN x.usage
               /\ (x.usage[k] = Unmeasured \/ x.usage[k] >= (100 * asked'[p]) \div Full)
  PROVE  /\ Percentage(s.seen.busy) /\ (s.seen.busy = merged.busy \/ s.seen.verdict = "busy")
         /\ SummedUp => s.seen.busy = merged.busy \/ s.seen.busy = Unmeasured
                        \/ s.seen.busy >= Demand(Counted)'
<1> DEFINE given == Given(merged)
           usage == x.usage
<1>1. /\ Percentage(merged.busy) /\ given.busy = merged.busy
      /\ \A o, v : o = [given EXCEPT !.verdict = v] => o.busy = merged.busy
  BY MeasuredBefore
<1> HIDE DEF given
<1>2. \/ \E state : s = Sampled(state, [given EXCEPT !.verdict = IF @ = "busy" THEN "busy" ELSE "idle"], FALSE)
      \/ \E state : \E b \in Drm!Measured(usage, host) : s = Sampled(state, [verdict |-> "busy", busy |-> b], FALSE)
  BY DEF Drm!Conclude, Drm!Sampled, Sampled, given
<1> HIDE DEF usage
<1>3. CASE \E state : s = Sampled(state, [given EXCEPT !.verdict = IF @ = "busy" THEN "busy" ELSE "idle"], FALSE)
  <2>1. s.seen = [given EXCEPT !.verdict = IF @ = "busy" THEN "busy" ELSE "idle"]
    BY <1>3 DEF Sampled
  <2> QED
    BY <2>1, <1>1
<1>4. CASE \E state : \E b \in Drm!Measured(usage, host) : s = Sampled(state, [verdict |-> "busy", busy |-> b], FALSE)
  <2>1. PICK b \in Drm!Measured(usage, host) : \E state : s = Sampled(state, [verdict |-> "busy", busy |-> b], FALSE)
    BY <1>4
  <2>2. s.seen = [verdict |-> "busy", busy |-> b]
    BY <2>1 DEF Sampled
  <2>3. s.seen.verdict = "busy" /\ s.seen.busy = b
    BY <2>2
  <2>4. CASE \E k \in DOMAIN usage : usage[k] = Unmeasured
    <3>1. b = Unmeasured \/ (host.whole /\ b \in Readings)
      BY <2>4, SameSelf DEF Drm!Measured, Drm!AverageGpuBusyPercent
    <3>2. Percentage(b)
      BY <3>1, ReadingsAssumption DEF Percentage
    <3> QED
      BY <2>3, <3>1, <3>2 DEF SummedUp
  <2>5. CASE ~(\E k \in DOMAIN usage : usage[k] = Unmeasured)
    <3>1. b = Drm!Capped(usage)
      BY <2>5, SameSelf DEF Drm!Measured
    <3>2. usage \in [DOMAIN usage -> Nat] /\ IsFiniteSet(DOMAIN usage)
      <4>1. usage \in [DOMAIN usage -> Usage] /\ DOMAIN usage \subseteq Clients
        BY DEF Map, usage
      <4>2. \A k \in DOMAIN usage : usage[k] \in Nat
        BY <4>1, <2>5 DEF Usage
      <4> QED
        BY <4>1, <4>2, FiniteWorld
    <3> DEFINE h == [p \in Everybody |-> Drm!Client(w, host, p)]
    <3>3. WorldOK /\ Counted' = Counted /\ Counted \subseteq Everybody /\ Counted \subseteq Present(w)
      <4>1. WorldOK
        BY DEF IInv
      <4> QED
        BY <4>1, CountedFacts DEF Counted, Users
    <3>4. \A p \in Counted' : h[p] = Drm!Client(w, host, p) /\ h[p][1] = p
      BY <3>3, ClientFacts
    <3>5. \A p \in Counted' : asked'[p] > 0 =>
             h[p] \in DOMAIN usage /\ usage[h[p]] >= (100 * asked'[p]) \div Full
      BY <3>3, <3>4, <2>5 DEF usage
    <3> HIDE DEF h
    <3>6. \A p, q \in Counted' : h[p] = h[q] => p = q
      BY <3>4
    <3>7. Drm!Capped(usage) \in 0 .. 100 /\ Drm!Capped(usage) >= Demand(Counted)'
      BY <3>2, <3>5, <3>6, MeasuresEnough
    <3> QED
      BY <3>1, <3>7, <2>3 DEF Percentage
  <2> QED
    BY <2>4, <2>5
<1> QED
  BY <1>2, <1>3, <1>4

\* A step that measures nothing.
LEMMA MeasuresNothing ==
  ASSUME MeasureInv, UNCHANGED host, mem'.nvml = mem.nvml, merged' = merged \/ merged' = Unknown,
         merged' = Unknown \/ (step # "end" /\ step' # "end")
  PROVE  MeasureInv'
<1>1. Unknown.busy = Unmeasured
  BY DEF Unknown
<1>2. SummedUp' <=> SummedUp
  BY DEF SummedUp
<1>3. MeasuresTheOthers'
  BY <1>1 DEF MeasuresTheOthers
<1> QED
  BY <1>1, <1>2, <1>3 DEF MeasureInv, Percentage

LEMMA SamplesKeepMeasureInv ==
  ASSUME IInv, MeasureInv, IInv', SampleNvml \/ SampleKfd \/ SamplePdh \/ SampleIoReg
  PROVE  MeasureInv'
<1>1. WorldOK /\ PollOK
  BY DEF IInv
<1>2. CASE SampleNvml
  <2>1. PICK s \in Nvml!Sample(mem.nvml, w, host, Given(merged)) : Took("nvml", s)
    BY <1>2 DEF SampleNvml
  <2>2. step = "sample" /\ Turn("nvml") /\ host.nvml
    BY <1>1, <1>2, Turns DEF SampleNvml, Turn
  <2>3. Observed(s.seen) /\ s.failed \in BOOLEAN
    BY NvmlFacts
  <2>4. /\ Percentage(s.seen.busy) /\ (s.seen.busy = merged.busy \/ s.seen.verdict = "busy")
        /\ s.state = "handle" => host.vendor = "nvidia" /\ ~host.wddm
        /\ s.state # "handle" => s.seen.busy = merged.busy
    BY NvmlMeasures
  <2>5. mem'.nvml = s.state
    BY <2>1, <2>3, TookFacts
  <2>6. SummedUp => s.seen.busy = merged.busy
    BY <2>2, <2>4 DEF SummedUp
  <2>7. CASE Len(todo) = 1
    BY <2>1, <2>2, <2>3, <2>4, <2>5, <2>6, <2>7, MeasuredLast
  <2>8. CASE Len(todo) # 1
    BY <2>1, <2>2, <2>3, <2>4, <2>5, <2>6, <2>8, MeasuredOn
  <2> QED
    BY <2>7, <2>8
<1>3. CASE SampleKfd
  <2>1. PICK s \in Kfd!Sample(w, host, Given(merged)) : Took("kfd", s)
    BY <1>3 DEF SampleKfd
  <2>2. step = "sample" /\ Turn("kfd") /\ Len(todo) # 1
    BY <1>1, <1>3, Turns DEF SampleKfd, Turn
  <2>3. /\ Percentage(s.seen.busy) /\ (s.seen.busy = merged.busy \/ s.seen.verdict = "busy")
        /\ ~host.whole => s.seen.busy = merged.busy
        /\ Observed(s.seen) /\ s.failed = FALSE
    BY KfdMeasures
  <2>4. mem'.nvml = mem.nvml
    BY <2>1, <2>3, TookFacts
  <2>5. SummedUp => s.seen.busy = merged.busy
    BY <2>3 DEF SummedUp
  <2> QED
    BY <2>1, <2>2, <2>3, <2>4, <2>5, MeasuredOn DEF MeasureInv
<1>4. CASE SamplePdh
  <2>1. PICK s \in Pdh!Sample(mem.pdh, w, host, Given(merged)) :
          Took("pdh", s) /\ IF s.failed THEN UNCHANGED <<floor, asked>> ELSE Read
    BY <1>4 DEF SamplePdh
  <2>2. step = "sample" /\ host.os = "windows" /\ host.pdh /\ Len(todo) = 1 /\ UNCHANGED <<host, w>>
    BY <1>1, <1>4, <2>1, Turns DEF SamplePdh, Turn, Took
  <2>3. Observed(s.seen) /\ s.failed \in BOOLEAN
    <3>1. Observed(Given(merged))
      BY <1>1, GivenFacts
    <3>2. Observed(Pdh!Judged(Pdh!Busy(mem.pdh, Pdh!Raw(w, host)), Given(merged)))
      BY <3>1, PdhJudged
    <3>3. \/ s = Sampled(mem.pdh, Given(merged), TRUE)
          \/ s = Sampled(Pdh!Raw(w, host), Pdh!Judged(Pdh!Busy(mem.pdh, Pdh!Raw(w, host)), Given(merged)), FALSE)
      BY DEF Pdh!Sample, Pdh!Sampled, Sampled
    <3>4. CASE s = Sampled(mem.pdh, Given(merged), TRUE)
      <4>1. s.seen = Given(merged) /\ s.failed = TRUE
        BY <3>4 DEF Sampled
      <4> QED
        BY <3>1, <4>1, Zenon
    <3>5. CASE s = Sampled(Pdh!Raw(w, host), Pdh!Judged(Pdh!Busy(mem.pdh, Pdh!Raw(w, host)), Given(merged)), FALSE)
      <4>1. s.seen = Pdh!Judged(Pdh!Busy(mem.pdh, Pdh!Raw(w, host)), Given(merged)) /\ s.failed = FALSE
        BY <3>5 DEF Sampled
      <4> QED
        BY <3>2, <4>1, Zenon
    <3> QED
      BY <3>3, <3>4, <3>5
  <2>4. s.failed \/ asked' = floor
    BY <2>1 DEF Read
  <2>5. /\ Percentage(s.seen.busy) /\ (s.seen.busy = merged.busy \/ s.seen.verdict = "busy")
        /\ SummedUp => s.seen.busy = merged.busy \/ s.seen.busy >= Demand(Counted)'
    BY <2>2, <2>4, PdhMeasures
  <2>6. mem'.nvml = mem.nvml
    BY <2>1, <2>3, TookFacts
  <2> QED
    BY <2>1, <2>2, <2>3, <2>5, <2>6, MeasuredLast DEF MeasureInv
<1>5. CASE SampleIoReg
  <2> DEFINE current == [p \in Present(w) |-> w.used[p]]
             servers == mem.ioreg.servers \cup IoReg!Servers(w)
             o       == IoReg!Judged(IoReg!Shares(mem.ioreg, current, w), servers, Given(merged))
  <2>1. PICK s \in IoReg!Sample(mem.ioreg, w, host, Given(merged)) :
          Took("ioreg", s) /\ IF s.failed \/ ~host.located THEN Lost ELSE Read
    BY <1>5 DEF SampleIoReg
  <2>2. step = "sample" /\ host.os = "macos" /\ Len(todo) = 1 /\ UNCHANGED <<host, w>>
    BY <1>1, <1>5, <2>1, Turns DEF SampleIoReg, Turn, Took
  <2>3. Observed(s.seen) /\ s.failed \in BOOLEAN
    <3>1. Observed(Given(merged))
      BY <1>1, GivenFacts
    <3>2. Observed(o)
      BY <2>2, <3>1, IoRegJudged
    <3>3. \E state : s = Sampled(state, Given(merged), host.located) \/ s = Sampled(state, o, FALSE)
      BY SameProcesses DEF IoReg!Sample, IoReg!Sampled, Sampled
    <3> HIDE DEF o
    <3>4. PICK state : s = Sampled(state, Given(merged), host.located) \/ s = Sampled(state, o, FALSE)
      BY <3>3
    <3>5. CASE s = Sampled(state, Given(merged), host.located)
      <4>1. s.seen = Given(merged) /\ s.failed = host.located
        BY <3>5 DEF Sampled
      <4>2. host.located \in BOOLEAN
        BY <1>1, HostFacts
      <4> QED
        BY <3>1, <4>1, <4>2, Zenon
    <3>6. CASE s = Sampled(state, o, FALSE)
      <4>1. s.seen = o /\ s.failed = FALSE
        BY <3>6 DEF Sampled
      <4> QED
        BY <3>2, <4>1, Zenon
    <3> QED
      BY <3>4, <3>5, <3>6
  <2>4. s.failed \/ ~host.located \/ asked' = floor
    BY <2>1 DEF Read
  <2>5. /\ Percentage(s.seen.busy) /\ (s.seen.busy = merged.busy \/ s.seen.verdict = "busy")
        /\ SummedUp => s.seen.busy = merged.busy \/ s.seen.busy >= Demand(Counted)'
    BY <2>2, <2>4, IoRegMeasures
  <2>6. mem'.nvml = mem.nvml
    BY <2>1, <2>3, TookFacts
  <2> QED
    BY <2>1, <2>2, <2>3, <2>5, <2>6, MeasuredLast DEF MeasureInv
<1> QED
  BY <1>2, <1>3, <1>4, <1>5

LEMMA DrmKeepsMeasureInv ==
  ASSUME IInv, MeasureInv, IInv', SkipDrm \/ ScanDrm \/ RereadDrm
  PROVE  MeasureInv'
<1>1. WorldOK /\ PollOK /\ Observed(Given(merged)) /\ Given(merged).busy = merged.busy
      /\ Percentage(merged.busy)
  BY MeasuredBefore DEF IInv
<1>5. ASSUME NEW s, Took("drm", s), Observed(s.seen), s.failed = FALSE
      PROVE  mem'.nvml = "handle" => host.vendor = "nvidia" /\ ~host.wddm
  <2>1. mem'.nvml = mem.nvml
    BY <1>5, TookFacts
  <2> QED
    BY <2>1 DEF MeasureInv
<1>2. CASE SkipDrm
  <2>1. PICK last : Took("drm", Sampled(last, Given(merged), FALSE))
    BY <1>2 DEF SkipDrm
  <2> DEFINE s == Sampled(last, Given(merged), FALSE)
  <2>2. step = "sample" /\ Len(todo) = 1
    BY <1>1, <1>2, Turns DEF SkipDrm, Turn
  <2>3. s.seen = Given(merged) /\ s.failed = FALSE
    BY DEF Sampled
  <2>4. Took("drm", s)
    BY <2>1
  <2> HIDE DEF s
  <2> QED
    BY <2>2, <2>3, <2>4, <1>1, <1>5, MeasuredLast
<1>3. CASE ScanDrm
  <2> DEFINE x == Drm!Scan(mem.drm, w, host)
  <2>1. step = "sample" /\ host.os = "linux" /\ Drm!HasNode(host) /\ Len(todo) = 1 /\ Read
    BY <1>1, <1>3, Turns DEF ScanDrm, Turn, Drm!Wanted
  <2>2. \/ step' = "rescan" /\ UNCHANGED <<host, w, mem, merged>>
        \/ /\ x.fresh = {}
           /\ \E s \in Drm!Conclude(x, host, Given(merged)) : Took("drm", s)
    BY <1>3 DEF ScanDrm
  <2>3. /\ Map(x.usage, Clients, Usage)
        /\ \A p \in Counted : LET k == Drm!Client(w, host, p) IN
             IF ~Drm!HasStats(w, host, p)
             THEN k \in DOMAIN x.usage \ DOMAIN x.next /\ x.usage[k] = Unmeasured
             ELSE /\ k \in DOMAIN x.next
                  /\ k \notin x.fresh /\ floor[p] > 0 =>
                       k \in DOMAIN x.usage /\ x.usage[k] >= (100 * floor[p]) \div Full
    BY <2>1, ScanFacts
  <2> HIDE DEF x
  <2>4. CASE step' = "rescan" /\ UNCHANGED <<host, w, mem, merged>>
    BY <2>1, <2>4, MeasuresNothing
  <2>5. CASE x.fresh = {} /\ \E s \in Drm!Conclude(x, host, Given(merged)) : Took("drm", s)
    <3>1. PICK s \in Drm!Conclude(x, host, Given(merged)) : Took("drm", s)
      BY <2>5
    <3>2. asked' = floor
      BY <2>1 DEF Read
    <3>3. \A p \in Counted : asked'[p] > 0 =>
            LET k == Drm!Client(w, host, p)
            IN  k \in DOMAIN x.usage
                /\ (x.usage[k] = Unmeasured \/ x.usage[k] >= (100 * asked'[p]) \div Full)
      BY <2>3, <2>5, <3>2
    <3>4. UNCHANGED <<host, w>>
      BY <3>1 DEF Took
    <3>5. Observed(s.seen) /\ s.failed = FALSE
      BY <1>1, ConcludeFacts
    <3>6. /\ Percentage(s.seen.busy) /\ (s.seen.busy = merged.busy \/ s.seen.verdict = "busy")
          /\ SummedUp => s.seen.busy = merged.busy \/ s.seen.busy = Unmeasured
                         \/ s.seen.busy >= Demand(Counted)'
      BY <2>3, <3>3, <3>4, DrmMeasures
    <3> QED
      BY <2>1, <3>1, <3>5, <3>6, <1>5, MeasuredLast
  <2> QED
    BY <2>2, <2>4, <2>5
<1>4. CASE RereadDrm
  <2> DEFINE x == Drm!Reread(scan, w, host)
  <2>1. PICK s \in Drm!Conclude(x, host, Given(merged)) : Took("drm", s)
    BY <1>4 DEF RereadDrm
  <2>2. step = "rescan" /\ host.os = "linux" /\ Len(todo) = 1 /\ UNCHANGED <<host, w, asked>>
    BY <1>1, <1>4, <2>1 DEF RereadDrm, PollOK, Took
  <2>3. \A k \in DOMAIN scan.next : scan.next[k].at < w.clock
    <3>1. \A k, l \in DOMAIN scan.next : scan.next[k].at = scan.next[l].at
      BY <2>2 DEF IInv, RescanInv
    <3> QED
      BY <3>1, <1>4 DEF RereadDrm
  <2>4. /\ Map(x.usage, Clients, Usage)
        /\ \A p \in Counted : LET k == Drm!Client(w, host, p) IN
             asked[p] > 0 => k \in DOMAIN x.usage /\ (x.usage[k] = Unmeasured \/ x.usage[k] >= Percent(p))
    BY <2>2, <2>3, RereadFacts
  <2> HIDE DEF x
  <2>5. \A p \in Counted : asked'[p] > 0 =>
          LET k == Drm!Client(w, host, p)
          IN  k \in DOMAIN x.usage
              /\ (x.usage[k] = Unmeasured \/ x.usage[k] >= (100 * asked'[p]) \div Full)
    BY <2>2, <2>4 DEF Percent
  <2>6. Observed(s.seen) /\ s.failed = FALSE
    BY <1>1, ConcludeFacts
  <2>7. /\ Percentage(s.seen.busy) /\ (s.seen.busy = merged.busy \/ s.seen.verdict = "busy")
        /\ SummedUp => s.seen.busy = merged.busy \/ s.seen.busy = Unmeasured
                       \/ s.seen.busy >= Demand(Counted)'
    BY <2>2, <2>4, <2>5, DrmMeasures
  <2> QED
    BY <2>1, <2>2, <2>6, <2>7, <1>5, MeasuredLast
<1> QED
  BY <1>2, <1>3, <1>4

LEMMA NextKeepsMeasureInv == IInv /\ IInv' /\ MeasureInv /\ [Next]_vars => MeasureInv'
<1> SUFFICES ASSUME IInv, IInv', MeasureInv, [Next]_vars PROVE MeasureInv'
  OBVIOUS
<1>1. CASE Elapse
  BY <1>1, MeasuresNothing DEF Elapse
<1>2. ASSUME NEW p \in Others, Enter(p) \/ Exit(p)
      PROVE  MeasureInv'
  BY <1>2, MeasuresNothing DEF Enter, Exit
<1>3. CASE BeginPoll
  BY <1>3, MeasuresNothing DEF BeginPoll
<1>4. CASE SampleNvml \/ SampleKfd \/ SamplePdh \/ SampleIoReg
  BY <1>4, SamplesKeepMeasureInv
<1>5. CASE SkipDrm \/ ScanDrm \/ RereadDrm
  BY <1>5, DrmKeepsMeasureInv
<1>6. CASE EndPoll
  <2>1. merged' = Unknown /\ step' = "wait" /\ UNCHANGED host
    BY <1>6 DEF EndPoll
  <2>2. mem'.nvml = mem.nvml
    BY <1>6 DEF EndPoll, IInv, MemoryOK
  <2> QED
    BY <2>1, <2>2, MeasuresNothing
<1>7. CASE UNCHANGED vars
  <2>1. UNCHANGED <<host, w, mem, step, merged, asked>>
    BY <1>7 DEF vars
  <2>2. Counted' = Counted /\ (SummedUp' <=> SummedUp)
    BY <2>1 DEF Counted, Users, SummedUp
  <2>3. Demand(Counted)' = Demand(Counted)
    BY <2>1, <2>2 DEF Demand, Percent, MapThenSumSet, MapThenFoldSet
  <2>4. MeasuresTheOthers'
    BY <2>1, <2>2, <2>3 DEF MeasureInv, MeasuresTheOthers
  <2> QED
    BY <2>1, <2>2, <2>4 DEF MeasureInv, Percentage
<1> QED
  BY <1>1, <1>2, <1>3, <1>4, <1>5, <1>6, <1>7 DEF Next

\* A device is taken for busy just where another process had a compute runtime
\* on it during that poll (BusyMeansOthers): never for our own work under
\* whatever pid, nor for a reading that another process left, nor for the
\* compositor of macOS, by any source of any platform.
THEOREM BusyMeansOthersHolds == Spec => []BusyMeansOthers
<1>1. IInv => BusyMeansOthers
  BY DEF IInv, AroundInv, BusyMeansOthers, Ended
<1> QED
  BY <1>1, IInvHolds, PTL

\* A device is taken for idle just where no client of another process has kept
\* it busy above the threshold since its source last read it, or since it was
\* met by a source that reads newcomers twice (NoUserOverlooked), unless a call
\* of a source failed in this poll or no source sees that device.  It is told of
\* each client by itself, as DrmSource judges them.
THEOREM NoUserIsOverlooked == Spec => []NoUserOverlooked
<1>1. IInv => NoUserOverlooked
  BY DEF IInv
<1> QED
  BY <1>1, IInvHolds, PTL

\* What is there to see a device, of each platform.
LEMMA SeenIsCovered ==
  ASSUME IInv
  PROVE  Seen <=> \E source \in ToSet(CreatePlatformSources(host)) : Covers(source)
<1> DEFINE turns == CreatePlatformSources(host)
<1>1. /\ host.os \in {"linux", "macos", "windows"}
      /\ host.nvml \in BOOLEAN /\ host.kfd \in BOOLEAN /\ host.pdh \in BOOLEAN
  BY HostFacts DEF IInv
<1>2. Kfd!InTopology(host) => Drm!HasNode(host)
  BY DEF Kfd!InTopology, Drm!HasNode
<1>3. /\ Covers("pdh") /\ (Covers("ioreg") <=> host.located)
      /\ Covers("drm") <=> Drm!HasNode(host)
      /\ Covers("kfd") => Drm!HasNode(host)
  BY <1>2 DEF Covers
<1>4. host.nvml => (Covers("nvml") <=> ByNvml /\ (host.os = "windows" => mem.nvml = "handle"))
  BY DEF Covers, ByNvml
<1>5. ~host.nvml => ~ByNvml
  BY DEF ByNvml
<1>6. CASE host.os = "windows"
  <2>1. ToSet(turns) = (IF host.nvml THEN {"nvml"} ELSE {}) \cup (IF host.pdh THEN {"pdh"} ELSE {})
    <3>1. turns = IF host.nvml THEN IF host.pdh THEN <<"nvml", "pdh">> ELSE <<"nvml">>
                  ELSE IF host.pdh THEN <<"pdh">> ELSE <<>>
      BY <1>6, PlatformSources DEF IInv
    <3> HIDE DEF turns
    <3> QED
      BY <3>1, <1>1 DEF ToSet
  <2>2. Seen <=> host.pdh \/ (ByNvml /\ mem.nvml = "handle")
    BY <1>6 DEF Seen
  <2> HIDE DEF turns
  <2>3. Seen <=> \E source \in ToSet(turns) : Covers(source)
    BY <2>1, <2>2, <1>3, <1>4, <1>5, <1>6
  <2> QED
    BY <2>3 DEF turns
<1>7. CASE host.os = "macos"
  <2>1. ToSet(turns) = {"ioreg"}
    <3>1. turns = <<"ioreg">>
      BY <1>7, PlatformSources DEF IInv
    <3> HIDE DEF turns
    <3> QED
      BY <3>1 DEF ToSet
  <2>2. Seen <=> host.located
    BY <1>7 DEF Seen
  <2> HIDE DEF turns
  <2>3. Seen <=> \E source \in ToSet(turns) : Covers(source)
    BY <2>1, <2>2, <1>3
  <2> QED
    BY <2>3 DEF turns
<1>8. CASE host.os = "linux"
  <2>1. ToSet(turns) = (IF host.nvml THEN {"nvml"} ELSE {}) \cup (IF host.kfd THEN {"kfd"} ELSE {}) \cup {"drm"}
    <3>1. turns = IF host.nvml THEN IF host.kfd THEN <<"nvml", "kfd", "drm">> ELSE <<"nvml", "drm">>
                  ELSE IF host.kfd THEN <<"kfd", "drm">> ELSE <<"drm">>
      BY <1>8, PlatformSources DEF IInv
    <3> HIDE DEF turns
    <3> QED
      BY <3>1, <1>1 DEF ToSet
  <2>2. Seen <=> Drm!HasNode(host) \/ ByNvml
    BY <1>8 DEF Seen
  <2> HIDE DEF turns
  <2>3. Seen <=> \E source \in ToSet(turns) : Covers(source)
    BY <2>1, <2>2, <1>1, <1>3, <1>4, <1>5, <1>8
  <2> QED
    BY <2>3 DEF turns
<1> QED
  BY <1>1, <1>6, <1>7, <1>8

\* A poll in which no call failed tells busy or idle of a device if one of the
\* platform's sources is there for it, and leaves any other unknown
\* (KnowsUnlessItFails): one without a PCI address or registry id, one of
\* NVIDIA's on a Linux without NVML, or any on a Windows whose GPU Engine
\* counters could not be collected at start-up, but for one NVML has found.
THEOREM VerdictUnlessItFails == Spec => []KnowsUnlessItFails
<1>1. IInv => KnowsUnlessItFails
  <2> SUFFICES ASSUME IInv, step = "end", ~failed
               PROVE  merged.verdict # "unknown" <=>
                        \E source \in ToSet(CreatePlatformSources(host)) : Covers(source)
    BY DEF KnowsUnlessItFails
  <2>1. merged.verdict # "unknown" <=> Seen
    BY DEF IInv, VerdictInv, Told
  <2> QED
    BY <2>1, SeenIsCovered
<1> QED
  BY <1>1, IInvHolds, PTL

\* What a device was busy is told of no other than a busy one, as a percentage,
\* and where it is summed up over the processes it is at least what the others
\* and we ourselves have taken in every unit of time since they were read, be
\* it by the clients of DRM, the counters of Windows or the clients of macOS
\* (MeasuresTheOthers).
THEOREM MeasuresTheOthersHolds == Spec => []MeasuresTheOthers
<1>1. MeasureInv => MeasuresTheOthers
  BY DEF MeasureInv
<1> QED
  BY <1>1, IInvHolds, InitMeasureInv, NextKeepsMeasureInv, PTL DEF Spec

=============================================================================
