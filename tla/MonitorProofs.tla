---------------------------- MODULE MonitorProofs ---------------------------
(***************************************************************************)
(* Theorems about the contention monitor: about one device's gate          *)
(* (ShareGate), for every window, set of shares and spacing of the polls,  *)
(* and about Monitor, for any devices, any number of sources and any       *)
(* measurements.  A worker is told the largest share seen lately, and what *)
(* was seen does not depend on the order of the sources.                   *)
(***************************************************************************)
EXTENDS Monitor, ShareGate, WellFoundedInduction, SequenceTheorems, TLAPS

(* What both rest on: the deque of sightings (ShareDeque).                 *)

\* What a deque may hold.
Sightings == [at : Int, share : Int]

\* A nonempty set of naturals has a least element.
LEMMA LeastElement ==
  ASSUME NEW T, T \subseteq Nat, T # {}
  PROVE  \E x \in T : \A y \in T : x <= y
<1>1. IsWellFoundedOn(OpToRel(<, Nat), Nat)
  BY NatLessThanWellFounded
<1>2. PICK x \in T : \A y \in T : <<y, x>> \notin OpToRel(<, Nat)
  BY <1>1, WFMin
<1>3. \A y \in T : ~(y < x)
  BY <1>2 DEF OpToRel
<1> QED
  BY <1>3

\* A nonempty set of naturals with an upper bound has a greatest element.
LEMMA GreatestElement ==
  ASSUME NEW n \in Nat, NEW T, T \subseteq 0 .. n, T # {}
  PROVE  \E x \in T : \A y \in T : y <= x
<1> DEFINE U == {n - y : y \in T}
<1>1. U \subseteq Nat /\ U # {}
  <2>1. ASSUME NEW y \in T PROVE n - y \in Nat
    <3>1. y \in 0 .. n
      OBVIOUS
    <3> QED
      BY <3>1
  <2>2. PICK y \in T : TRUE
    OBVIOUS
  <2>3. n - y \in U
    OBVIOUS
  <2> QED
    BY <2>1, <2>3
<1>2. PICK u \in U : \A v \in U : u <= v
  BY <1>1, LeastElement
<1>3. PICK x \in T : u = n - x
  BY <1>2
<1>4. ASSUME NEW y \in T PROVE y <= x
  <2>1. n - y \in U
    OBVIOUS
  <2> QED
    BY <1>2, <1>3, <2>1
<1> QED
  BY <1>4

\* Of an ordered deque, DropOutdated leaves exactly the elements that are not
\* outdated, in order.
LEMMA DropOutdatedKeepsRecent ==
  ASSUME NEW T \in SUBSET Sightings, NEW s \in Seq(T), InOrder(s), NEW t \in Int
  PROVE  LET kept == DropOutdated(s, t)
         IN  /\ kept \in Seq(T)
             /\ InOrder(kept)
             /\ \A i \in 1 .. Len(kept) :
                  /\ ~Outdated(kept[i], t)
                  /\ \E j \in 1 .. Len(s) : kept[i] = s[j]
             /\ \A j \in 1 .. Len(s) :
                  ~Outdated(s[j], t) => \E i \in 1 .. Len(kept) : kept[i] = s[j]
<1> DEFINE Ok(n) == /\ \A i \in 1 .. n : Outdated(s[i], t)
                    /\ n < Len(s) => ~Outdated(s[n + 1], t)
           kept == DropOutdated(s, t)
<1>1. /\ Len(s) \in Nat
      /\ \A i \in 1 .. Len(s) :
           s[i] \in T /\ s[i].at \in Int /\ s[i].share \in Int
  <2>1. Len(s) \in Nat /\ \A i \in 1 .. Len(s) : s[i] \in T
    OBVIOUS
  <2> QED
    BY <2>1 DEF Sightings
<1>2. \E n \in 0 .. Len(s) : Ok(n)
  <2> DEFINE K == {i \in 1 .. Len(s) : ~Outdated(s[i], t)}
  <2>1. CASE K = {}
    <3>1. Ok(Len(s))
      BY <2>1, <1>1
    <3> QED
      BY <3>1, <1>1
  <2>2. CASE K # {}
    <3>1. PICK x \in K : \A y \in K : x <= y
      <4>1. K \subseteq Nat
        BY <1>1
      <4> HIDE DEF K
      <4> QED
        BY <2>2, <4>1, LeastElement
    <3>2. Ok(x - 1)
      <4>1. ASSUME NEW i \in 1 .. x - 1 PROVE Outdated(s[i], t)
        BY <3>1, <1>1
      <4> QED
        BY <3>1, <4>1, <1>1
    <3>3. x - 1 \in 0 .. Len(s)
      BY <1>1
    <3> QED
      BY <3>2, <3>3
  <2> QED
    BY <2>1, <2>2
<1>3. PICK k \in 0 .. Len(s) : Ok(k) /\ kept = SubSeq(s, k + 1, Len(s))
  BY <1>2 DEF DropOutdated
<1>4. \A i \in k + 1 .. Len(s) : ~Outdated(s[i], t)
  <2> SUFFICES ASSUME NEW i \in k + 1 .. Len(s) PROVE ~Outdated(s[i], t)
    OBVIOUS
  <2>1. s[k + 1].at <= s[i].at
    <3>1. k + 1 \in 1 .. Len(s) /\ i \in 1 .. Len(s) /\ (i = k + 1 \/ k + 1 < i)
      BY <1>1, <1>3
    <3> QED
      BY <1>1, <3>1 DEF InOrder
  <2> QED
    <3>1. k + 1 \in 1 .. Len(s) /\ i \in 1 .. Len(s) /\ ~Outdated(s[k + 1], t)
      BY <1>1, <1>3
    <3> QED
      BY <1>1, <2>1, <3>1, ResumeAssumption DEF Outdated
<1>5. /\ kept \in Seq(T)
      /\ Len(kept) = Len(s) - k
      /\ \A i \in 1 .. Len(s) - k : kept[i] = s[k + i]
  BY <1>1, <1>3, SubSeqProperties
<1>6. InOrder(kept)
  <2> SUFFICES ASSUME NEW i \in 1 .. Len(kept), NEW j \in 1 .. Len(kept), i < j
               PROVE  kept[i].at <= kept[j].at /\ kept[i].share > kept[j].share
    BY DEF InOrder
  <2>1. kept[i] = s[k + i] /\ kept[j] = s[k + j]
    BY <1>1, <1>5
  <2>2. k + i \in 1 .. Len(s) /\ k + j \in 1 .. Len(s) /\ k + i < k + j
    BY <1>1, <1>5
  <2> QED
    BY <2>1, <2>2 DEF InOrder
<1>7. ASSUME NEW i \in 1 .. Len(kept)
      PROVE  ~Outdated(kept[i], t) /\ \E j \in 1 .. Len(s) : kept[i] = s[j]
  <2>1. k + i \in k + 1 .. Len(s) /\ k + i \in 1 .. Len(s) /\ kept[i] = s[k + i]
    BY <1>1, <1>5
  <2> QED
    BY <1>4, <2>1
<1>8. ASSUME NEW j \in 1 .. Len(s), ~Outdated(s[j], t)
      PROVE  \E i \in 1 .. Len(kept) : kept[i] = s[j]
  <2>1. j > k
    BY <1>3, <1>8
  <2>2. j - k \in 1 .. Len(kept) /\ kept[j - k] = s[j]
    BY <1>1, <1>5, <2>1
  <2> QED
    BY <2>2
<1> HIDE DEF kept
<1>9. QED
  BY <1>5, <1>6, <1>7, <1>8 DEF kept

\* Of an ordered deque, DropCovered leaves exactly the elements larger than
\* the new share, in order.
LEMMA DropCoveredKeepsLarger ==
  ASSUME NEW T \in SUBSET Sightings, NEW s \in Seq(T), InOrder(s), NEW x \in Int
  PROVE  LET kept == DropCovered(s, x)
         IN  /\ kept \in Seq(T)
             /\ InOrder(kept)
             /\ \A i \in 1 .. Len(kept) :
                  /\ kept[i].share > x
                  /\ \E j \in 1 .. Len(s) : kept[i] = s[j]
             /\ \A j \in 1 .. Len(s) :
                  s[j].share > x => \E i \in 1 .. Len(kept) : kept[i] = s[j]
<1> DEFINE Ok(n) == /\ \A i \in n + 1 .. Len(s) : s[i].share <= x
                    /\ n > 0 => s[n].share > x
           kept == DropCovered(s, x)
<1>1. /\ Len(s) \in Nat
      /\ \A i \in 1 .. Len(s) :
           s[i] \in T /\ s[i].at \in Int /\ s[i].share \in Int
  <2>1. Len(s) \in Nat /\ \A i \in 1 .. Len(s) : s[i] \in T
    OBVIOUS
  <2> QED
    BY <2>1 DEF Sightings
<1>2. \E n \in 0 .. Len(s) : Ok(n)
  <2> DEFINE K == {i \in 1 .. Len(s) : s[i].share > x}
  <2>1. CASE K = {}
    <3>1. \A i \in 1 .. Len(s) : s[i].share <= x
      BY <2>1, <1>1
    <3>2. Ok(0)
      BY <3>1, <1>1
    <3> QED
      BY <3>2, <1>1
  <2>2. CASE K # {}
    <3>1. PICK n \in K : \A y \in K : y <= n
      <4>1. K \subseteq 0 .. Len(s)
        BY <1>1
      <4> HIDE DEF K
      <4> QED
        BY <1>1, <2>2, <4>1, GreatestElement
    <3>2. ASSUME NEW i \in n + 1 .. Len(s) PROVE s[i].share <= x
      <4>1. i \in 1 .. Len(s) /\ i \notin K
        BY <3>1, <1>1
      <4>2. ~(s[i].share > x)
        BY <4>1
      <4> QED
        BY <1>1, <4>1, <4>2
    <3>3. Ok(n)
      BY <3>1, <3>2, <1>1
    <3> QED
      BY <3>1, <3>3, <1>1
  <2> QED
    BY <2>1, <2>2
<1>3. PICK k \in 0 .. Len(s) : Ok(k) /\ kept = SubSeq(s, 1, k)
  BY <1>2 DEF DropCovered
<1>4. \A i \in 1 .. k : s[i].share > x
  <2> SUFFICES ASSUME NEW i \in 1 .. k PROVE s[i].share > x
    OBVIOUS
  <2>1. s[i].share >= s[k].share
    <3>1. k \in 1 .. Len(s) /\ i \in 1 .. Len(s) /\ (i = k \/ i < k)
      BY <1>1, <1>3
    <3> QED
      BY <1>1, <3>1 DEF InOrder
  <2> QED
    BY <2>1, <1>1, <1>3
<1>5. /\ kept \in Seq(T)
      /\ Len(kept) = k
      /\ \A i \in 1 .. k : kept[i] = s[i]
  BY <1>1, <1>3, SubSeqProperties
<1>6. InOrder(kept)
  <2> SUFFICES ASSUME NEW i \in 1 .. Len(kept), NEW j \in 1 .. Len(kept), i < j
               PROVE  kept[i].at <= kept[j].at /\ kept[i].share > kept[j].share
    BY DEF InOrder
  <2>1. kept[i] = s[i] /\ kept[j] = s[j] /\ i \in 1 .. Len(s) /\ j \in 1 .. Len(s)
    BY <1>1, <1>5
  <2> QED
    BY <2>1 DEF InOrder
<1>7. ASSUME NEW i \in 1 .. Len(kept)
      PROVE  kept[i].share > x /\ \E j \in 1 .. Len(s) : kept[i] = s[j]
  <2>1. i \in 1 .. k /\ i \in 1 .. Len(s) /\ kept[i] = s[i]
    BY <1>1, <1>5
  <2> QED
    BY <1>4, <2>1
<1>8. ASSUME NEW j \in 1 .. Len(s), s[j].share > x
      PROVE  \E i \in 1 .. Len(kept) : kept[i] = s[j]
  <2>1. j <= k
    BY <1>1, <1>3, <1>8
  <2> QED
    BY <1>1, <1>5, <2>1
<1> HIDE DEF kept
<1>9. QED
  BY <1>5, <1>6, <1>7, <1>8 DEF kept

\* The sightings that still count at time t.
Counting(S, t) == {x \in S : ~Outdated(x, t)}

\* A deque that stands for the sightings S at time t: it is ordered, holds
\* nothing but what was sighted, and every sighting is covered by an element
\* that is at least as large and lasts at least as long.
StandsFor(s, S, t) ==
  /\ InOrder(s)
  /\ \A i \in 1 .. Len(s) : s[i] \in S /\ s[i].at <= t
  /\ \A x \in S : \E i \in 1 .. Len(s) : s[i].at >= x.at /\ s[i].share >= x.share

\* What a deque stands for and still counts is covered by what DropOutdated
\* keeps of it.
LEMMA KeptStands ==
  ASSUME NEW T \in SUBSET Sightings, NEW s \in Seq(T), NEW S \in SUBSET T, NEW t \in Int,
         StandsFor(s, S, t)
  PROVE  LET kept == DropOutdated(s, t)
         IN  /\ kept \in Seq(T)
             /\ StandsFor(kept, Counting(S, t), t)
             /\ \A i \in 1 .. Len(kept) : ~Outdated(kept[i], t)
<1> DEFINE kept == DropOutdated(s, t)
<1>1. /\ kept \in Seq(T)
      /\ InOrder(kept)
      /\ \A i \in 1 .. Len(kept) :
           /\ ~Outdated(kept[i], t)
           /\ \E j \in 1 .. Len(s) : kept[i] = s[j]
      /\ \A j \in 1 .. Len(s) :
           ~Outdated(s[j], t) => \E i \in 1 .. Len(kept) : kept[i] = s[j]
  BY DropOutdatedKeepsRecent DEF StandsFor
<1> HIDE DEF kept
<1>2. ASSUME NEW i \in 1 .. Len(kept)
      PROVE  kept[i] \in Counting(S, t) /\ kept[i].at <= t
  <2>1. PICK j \in 1 .. Len(s) : kept[i] = s[j]
    BY <1>1
  <2> QED
    BY <1>1, <2>1 DEF StandsFor, Counting
<1>3. ASSUME NEW x \in Counting(S, t)
      PROVE  \E i \in 1 .. Len(kept) : kept[i].at >= x.at /\ kept[i].share >= x.share
  <2>1. x \in S /\ x \in T /\ ~Outdated(x, t)
    BY DEF Counting
  <2>2. PICK j \in 1 .. Len(s) : s[j].at >= x.at /\ s[j].share >= x.share
    BY <2>1 DEF StandsFor
  <2>3. ~Outdated(s[j], t)
    <3>1. s[j] \in T /\ s[j].at \in Int /\ x.at \in Int
      BY <2>1 DEF Sightings
    <3> QED
      BY <2>1, <2>2, <3>1, ResumeAssumption DEF Outdated
  <2>4. PICK i \in 1 .. Len(kept) : kept[i] = s[j]
    BY <1>1, <2>3
  <2> QED
    BY <2>2, <2>4
<1> QED
  BY <1>1, <1>2, <1>3 DEF StandsFor, kept

\* One Update: the deque stands for what still counts and the share just seen.
LEMMA UpdatedStands ==
  ASSUME NEW T \in SUBSET Sightings, NEW s \in Seq(T), NEW S \in SUBSET T, NEW t \in Int,
         StandsFor(s, S, t),
         NEW others \in Int, others # NoOthers => [at |-> t, share |-> others] \in T
  PROVE  LET fresh == IF others = NoOthers THEN {} ELSE {[at |-> t, share |-> others]}
             after == Updated(s, others, t)
         IN  /\ after \in Seq(T)
             /\ StandsFor(after, Counting(S, t) \cup fresh, t)
             /\ \A i \in 1 .. Len(after) : ~Outdated(after[i], t)
<1> DEFINE kept  == DropOutdated(s, t)
           low   == DropCovered(kept, others)
           new   == [at |-> t, share |-> others]
           after == Updated(s, others, t)
<1>1. /\ kept \in Seq(T)
      /\ StandsFor(kept, Counting(S, t), t)
      /\ \A i \in 1 .. Len(kept) : ~Outdated(kept[i], t)
  BY KeptStands
<1>2. after = IF others = NoOthers THEN kept ELSE Append(low, new)
  BY DEF Updated
<1>3. CASE others = NoOthers
  <2>1. after = kept
    BY <1>2, <1>3
  <2> HIDE DEF kept, after
  <2>2. Counting(S, t) \cup {} = Counting(S, t)
    OBVIOUS
  <2> QED
    BY <1>1, <1>3, <2>1, <2>2 DEF after
<1>4. CASE others # NoOthers
  <2> HIDE DEF kept
  <2>1. /\ low \in Seq(T)
        /\ InOrder(low)
        /\ \A i \in 1 .. Len(low) :
             /\ low[i].share > others
             /\ \E j \in 1 .. Len(kept) : low[i] = kept[j]
        /\ \A j \in 1 .. Len(kept) :
             kept[j].share > others => \E i \in 1 .. Len(low) : low[i] = kept[j]
    BY <1>1, DropCoveredKeepsLarger DEF StandsFor
  <2>2. new \in T /\ new.at = t /\ new.share = others
    BY <1>4
  <2>3. after = Append(low, new)
    BY <1>2, <1>4
  <2> HIDE DEF low, after, new
  <2>4. /\ Len(low) \in Nat
        /\ after \in Seq(T)
        /\ Len(after) = Len(low) + 1
        /\ \A i \in 1 .. Len(low) : after[i] = low[i]
        /\ after[Len(low) + 1] = new
    BY <2>1, <2>2, <2>3
  <2>5. ASSUME NEW i \in 1 .. Len(low)
        PROVE  /\ after[i] \in Counting(S, t) /\ after[i] \in T
               /\ after[i].at \in Int /\ after[i].at <= t
               /\ after[i].share > others
               /\ ~Outdated(after[i], t)
    <3>1. PICK m \in 1 .. Len(kept) : low[i] = kept[m]
      BY <2>1
    <3>2. kept[m] \in Counting(S, t) /\ kept[m].at <= t /\ ~Outdated(kept[m], t)
      BY <1>1 DEF StandsFor
    <3>3. kept[m] \in T /\ kept[m].at \in Int
      BY <3>2 DEF Counting, Sightings
    <3> QED
      BY <2>1, <2>4, <3>1, <3>2, <3>3
  <2>6. InOrder(after)
    <3> SUFFICES ASSUME NEW i \in 1 .. Len(after), NEW j \in 1 .. Len(after), i < j
                 PROVE  after[i].at <= after[j].at /\ after[i].share > after[j].share
      BY DEF InOrder
    <3>1. i \in 1 .. Len(low) /\ after[i] = low[i]
      BY <2>4
    <3>2. CASE j \in 1 .. Len(low)
      BY <2>1, <2>4, <3>1, <3>2 DEF InOrder
    <3>3. CASE j = Len(low) + 1
      <4>1. after[j] = new
        BY <2>4, <3>3
      <4>2. after[i].at <= t /\ after[i].share > others
        BY <2>5, <3>1
      <4> QED
        BY <2>2, <4>1, <4>2
    <3>4. j \in 1 .. Len(low) \/ j = Len(low) + 1
      <4>1. Len(low) \in Nat /\ j \in 1 .. Len(low) + 1
        BY <2>4
      <4> QED
        BY <4>1
    <3> QED
      BY <3>2, <3>3, <3>4
  <2>7. ASSUME NEW i \in 1 .. Len(after)
        PROVE  /\ after[i] \in Counting(S, t) \cup {new}
               /\ after[i].at <= t
               /\ ~Outdated(after[i], t)
    <3>1. CASE i \in 1 .. Len(low)
      BY <2>5, <3>1
    <3>2. CASE i = Len(low) + 1
      BY <2>2, <2>4, <3>2, ResumeAssumption DEF Outdated
    <3> QED
      BY <2>4, <3>1, <3>2
  <2>8. ASSUME NEW x \in Counting(S, t) \cup {new}
        PROVE  \E i \in 1 .. Len(after) : after[i].at >= x.at /\ after[i].share >= x.share
    <3>1. Len(low) + 1 \in 1 .. Len(after)
      BY <2>4
    <3>2. CASE x = new
      BY <2>2, <2>4, <3>1, <3>2
    <3>3. CASE x \in Counting(S, t)
      <4>1. PICK m \in 1 .. Len(kept) : kept[m].at >= x.at /\ kept[m].share >= x.share
        BY <1>1, <3>3 DEF StandsFor
      <4>2. CASE kept[m].share > others
        <5>1. PICK i \in 1 .. Len(low) : low[i] = kept[m]
          BY <2>1, <4>2
        <5> QED
          BY <2>4, <4>1, <5>1
      <4>3. CASE ~(kept[m].share > others)
        <5>1. kept[m] \in T /\ kept[m].at <= t /\ x \in T
          BY <1>1, <3>3 DEF StandsFor, Counting
        <5>2. /\ kept[m].share \in Int /\ kept[m].at \in Int
              /\ x.share \in Int /\ x.at \in Int
          BY <5>1 DEF Sightings
        <5>3. new.at >= x.at /\ new.share >= x.share
          BY <2>2, <4>1, <4>3, <5>1, <5>2
        <5> QED
          BY <2>4, <3>1, <5>3
      <4> QED
        BY <4>2, <4>3
    <3> QED
      BY <3>2, <3>3
  <2>9. StandsFor(after, Counting(S, t) \cup {new}, t)
    BY <2>6, <2>7, <2>8 DEF StandsFor
  <2> QED
    BY <1>4, <2>4, <2>7, <2>9 DEF after, new
<1> QED
  BY <1>3, <1>4

\* The level of a deque is the largest of the shares it stands for.
LEMMA LevelStands ==
  ASSUME NEW T \in SUBSET Sightings, NEW s \in Seq(T), NEW S \in SUBSET T, NEW t \in Int,
         StandsFor(s, S, t)
  PROVE  \/ S = {} /\ s = <<>> /\ Level(s) = NoOthers
         \/ /\ s # <<>> /\ s[1] \in S /\ Level(s) = s[1].share
            /\ Level(s) \in Int
            /\ \A x \in S : x.share \in Int /\ x.share <= Level(s)
<1>1. CASE s = <<>>
  BY <1>1 DEF StandsFor, Level
<1>2. CASE s # <<>>
  <2>1. 1 \in 1 .. Len(s) /\ Level(s) = s[1].share /\ s[1] \in S
    BY <1>2 DEF Level, StandsFor
  <2>2. \A i \in 1 .. Len(s) : s[i] \in T /\ s[i].share \in Int
    BY DEF Sightings
  <2>3. ASSUME NEW x \in S PROVE x.share \in Int /\ x.share <= s[1].share
    <3>1. PICK i \in 1 .. Len(s) : s[i].share >= x.share
      BY DEF StandsFor
    <3>2. s[1].share >= s[i].share
      <4>1. i = 1 \/ 1 < i
        BY <2>1
      <4>2. i # 1 => s[1].share > s[i].share
        BY <2>1, <4>1 DEF StandsFor, InOrder
      <4> QED
        BY <2>1, <2>2, <4>2
    <3>3. x.share \in Int
      BY DEF Sightings
    <3> QED
      BY <2>1, <2>2, <3>1, <3>2, <3>3
  <2> QED
    BY <1>2, <2>1, <2>2, <2>3
<1> QED
  BY <1>1, <1>2

-----------------------------------------------------------------------------
(* The gate of one device (ShareGate), for every window, every set of      *)
(* shares and every spacing of its polls.                                  *)

\* The fields of a sighting of the gate are integers.
LEMMA SightingType ==
  ASSUME NEW x \in Sighting
  PROVE  /\ x \in Sightings
         /\ x.at \in 0 .. MaxTime /\ x.at \in Int
         /\ x.share \in Shares /\ x.share \in Nat
<1>1. x.at \in 0 .. MaxTime /\ x.share \in Shares /\ x = [at |-> x.at, share |-> x.share]
  BY DEF Sighting
<1>2. x.at \in Int
  BY <1>1, TimeAssumption
<1>3. x.share \in Nat
  BY <1>1, SharesAssumption, Zenon
<1> QED
  BY <1>1, <1>2, <1>3 DEF Sightings

\* A fresh gate satisfies the inductive invariant.
LEMMA InitGateInv == InitGate => GateInv
<1> SUFFICES ASSUME InitGate PROVE GateInv
  OBVIOUS
<1>1. GateTypeOK
  <2>1. 0 \in 0 .. MaxTime
    BY TimeAssumption
  <2> QED
    BY <2>1 DEF InitGate, GateTypeOK
<1> QED
  BY <1>1 DEF InitGate, GateInv, InOrder, SeenRecent, Covered, Level

\* What the gate's inductive invariant says in terms of its deque.
LEMMA GateStands ==
  ASSUME GateInv, NEW t \in Int, t >= now
  PROVE  /\ Sighting \in SUBSET Sightings
         /\ seen \in Seq(Sighting) /\ sighted \in SUBSET Sighting
         /\ StandsFor(seen, sighted, t)
<1>1. Sighting \in SUBSET Sightings
  BY SightingType
<1>2. seen \in Seq(Sighting) /\ sighted \in SUBSET Sighting /\ now \in Int
  BY TimeAssumption DEF GateInv, GateTypeOK
<1>3. ASSUME NEW i \in 1 .. Len(seen) PROVE seen[i] \in sighted /\ seen[i].at <= t
  <2>1. seen[i] \in sighted /\ seen[i].at <= now /\ seen[i].at \in Int
    BY <1>2, SightingType DEF GateInv, SeenRecent
  <2> QED
    BY <1>2, <2>1
<1> QED
  BY <1>1, <1>2, <1>3 DEF StandsFor, GateInv, Covered

\* One Update keeps the inductive invariant.
LEMMA UpdateGateInv ==
  ASSUME GateInv,
         NEW t \in 0 .. MaxTime, NEW others \in Shares \cup {NoOthers},
         Update(others, t)
  PROVE  GateInv'
<1> DEFINE fresh == IF others = NoOthers THEN {} ELSE {[at |-> t, share |-> others]}
<1>1. /\ t \in Int /\ t >= now /\ others \in Int
      /\ others # NoOthers => [at |-> t, share |-> others] \in Sighting
  <2>1. Shares \subseteq Int
    BY SharesAssumption
  <2> QED
    BY <2>1, TimeAssumption DEF Update, NoOthers, Sighting
<1>2. /\ Sighting \in SUBSET Sightings
      /\ seen \in Seq(Sighting) /\ sighted \in SUBSET Sighting
      /\ StandsFor(seen, sighted, t)
  BY <1>1, GateStands
<1>3. sighted' = Counting(sighted, t) \cup fresh
  <2>1. \A x \in sighted : x.at \in Int
    BY <1>2, SightingType
  <2>2. Recent(sighted, t) = Counting(sighted, t)
    BY <1>1, <2>1, ResumeAssumption DEF Recent, Counting, Outdated
  <2> QED
    BY <2>2 DEF Update
<1>4. /\ seen' \in Seq(Sighting)
      /\ StandsFor(seen', sighted', t)
      /\ \A i \in 1 .. Len(seen') : ~Outdated(seen'[i], t)
  <2>1. seen' = Updated(seen, others, t)
    BY DEF Update
  <2>2. /\ Updated(seen, others, t) \in Seq(Sighting)
        /\ StandsFor(Updated(seen, others, t), Counting(sighted, t) \cup fresh, t)
        /\ \A i \in 1 .. Len(Updated(seen, others, t)) : ~Outdated(Updated(seen, others, t)[i], t)
    BY <1>1, <1>2, UpdatedStands
  <2> QED
    BY <1>3, <2>1, <2>2
<1>5. now' = t /\ level' = Level(seen')
  BY DEF Update
<1>6. sighted' \in SUBSET Sighting
  BY <1>1, <1>2, <1>3 DEF Counting
<1>7. level' \in Shares \cup {NoOthers}
  <2>1. \/ level' = NoOthers
        \/ seen'[1] \in sighted' /\ level' = seen'[1].share
    BY <1>1, <1>2, <1>4, <1>5, <1>6, LevelStands
  <2> QED
    BY <1>6, <2>1, SightingType
<1> QED
  BY <1>4, <1>5, <1>6, <1>7 DEF GateInv, GateTypeOK, SeenRecent, Covered, StandsFor

\* Every step keeps the inductive invariant.
LEMMA NextGateInv == GateInv /\ [NextGate]_gateVars => GateInv'
<1> SUFFICES ASSUME GateInv, [NextGate]_gateVars PROVE GateInv'
  OBVIOUS
<1>1. CASE NextGate
  BY <1>1, UpdateGateInv DEF NextGate
<1>2. CASE UNCHANGED gateVars
  BY <1>2 DEF gateVars, GateInv, GateTypeOK, SeenRecent, Covered
<1> QED
  BY <1>1, <1>2

\* The inductive invariant holds in every reachable state: the deque of
\* ShareGate::Update stays in order of time and of decreasing share, holds
\* only sightings that still count, and covers all of those.
THEOREM GateInvariantHolds == GateSpec => []GateInv
<1> QED
  BY InitGateInv, NextGateInv, PTL DEF GateSpec

\* Every variable of the gate keeps its type.
THEOREM GateTypeCorrect == GateSpec => []GateTypeOK
<1>1. GateInv => GateTypeOK
  BY DEF GateInv
<1> QED
  BY <1>1, GateInvariantHolds, PTL

\* The level is the largest share among the sightings that still count.
LEMMA LevelIsLargest ==
  GateInv => /\ LevelCoversRecent
             /\ Hysteresis!IsLargest(level, sighted)
             /\ level # NoOthers => \E x \in sighted : x.share = level
<1> SUFFICES ASSUME GateInv
             PROVE  /\ LevelCoversRecent
                    /\ Hysteresis!IsLargest(level, sighted)
                    /\ level # NoOthers => \E x \in sighted : x.share = level
  OBVIOUS
<1>1. now \in Int /\ now >= now /\ level = Level(seen)
  BY TimeAssumption DEF GateInv, GateTypeOK
<1>2. \/ sighted = {} /\ level = NoOthers
      \/ /\ seen[1] \in sighted /\ level = seen[1].share /\ level \in Int
         /\ \A x \in sighted : x.share \in Int /\ x.share <= level
  BY <1>1, GateStands, LevelStands
<1>3. LevelCoversRecent
  BY <1>2 DEF LevelCoversRecent
<1>4. Hysteresis!IsLargest(level, sighted)
  BY <1>2 DEF Hysteresis!IsLargest, NoOthers, Hysteresis!NoOthers
<1> QED
  BY <1>2, <1>3, <1>4

\* The level a poll returns is never less than a share sighted within
\* kGpuYieldResumeMS, although ShareGate::Update forgets sightings on both
\* ends of its deque.
THEOREM LevelNeverTooLow == GateSpec => []LevelCoversRecent
<1> QED
  BY GateInvariantHolds, LevelIsLargest, PTL

\* The level falls only once every sighting as large as it is
\* kGpuYieldResumeMS old, and then to the largest share sighted since, or to
\* none when there was none.
THEOREM LevelFallsOnlyWhenQuiet == GateSpec => FallsOnlyWhenQuiet
<1> DEFINE Falls ==
      level' < level =>
        /\ \A s \in sighted : s.share >= level => now' - s.at >= ResumeMS
        /\ level' # NoOthers => \E s \in sighted' : s.share = level'
<1>0. (GateInv => LevelCoversRecent)'
  BY LevelIsLargest, PTL
<1>1. ASSUME GateInv, GateInv', NextGate PROVE Falls
  <2> SUFFICES ASSUME level' < level PROVE Falls
    OBVIOUS
  <2>1. PICK t \in 0 .. MaxTime, others \in Shares \cup {NoOthers} : Update(others, t)
    BY <1>1 DEF NextGate
  <2>2. ASSUME NEW s \in sighted, s.share >= level PROVE now' - s.at >= ResumeMS
    <3> SUFFICES ASSUME ~(now' - s.at >= ResumeMS) PROVE FALSE
      OBVIOUS
    <3>1. s \in Sighting
      BY <1>1 DEF GateInv, GateTypeOK
    <3>2. s.at \in Int /\ s.share \in Int /\ now' \in Int /\ level \in Int /\ level' \in Int
      <4>1. now' \in Int
        BY <1>1, TimeAssumption DEF GateInv, GateTypeOK
      <4>2. level \in Shares \cup {NoOthers} /\ level' \in Shares \cup {NoOthers}
        BY <1>1 DEF GateInv, GateTypeOK
      <4>3. level \in Int /\ level' \in Int
        <5>1. Shares \cup {NoOthers} \subseteq Int
          BY SharesAssumption DEF NoOthers
        <5> QED
          BY <4>2, <5>1
      <4> QED
        BY <3>1, <4>1, <4>3, SightingType
    <3>3. s \in Recent(sighted, t)
      BY <2>1, <3>2, ResumeAssumption DEF Update, Recent
    <3>4. s \in sighted'
      BY <2>1, <3>3 DEF Update
    <3>5. level' >= s.share
      <4>1. LevelCoversRecent'
        BY <1>0, <1>1
      <4> QED
        BY <3>4, <4>1 DEF LevelCoversRecent
    <3> QED
      BY <2>2, <3>2, <3>5
  <2>3. ASSUME level' # NoOthers PROVE \E s \in sighted' : s.share = level'
    <3>1. seen' # <<>> /\ level' = seen'[1].share /\ seen' \in Seq(Sighting)
      BY <1>1, <2>3 DEF GateInv, GateTypeOK, Level
    <3>2. seen'[1] \in sighted'
      BY <1>1, <3>1 DEF GateInv, SeenRecent
    <3> QED
      BY <3>1, <3>2
  <2> QED
    BY <2>2, <2>3
<1>2. GateInv /\ GateInv' /\ [NextGate]_gateVars => [Falls]_gateVars
  BY <1>1
<1> QED
  BY <1>2, GateInvariantHolds, NextGateInv, PTL DEF GateSpec, FallsOnlyWhenQuiet

\* ShareGate implements the hysteresis of ShareHysteresis: every poll returns
\* exactly the largest share sighted within kGpuYieldResumeMS, or none.
THEOREM GateImplementsHysteresis == GateSpec => ImplementsHysteresis
<1>0. (GateInv => Hysteresis!IsLargest(level, sighted))'
  BY LevelIsLargest, PTL
<1>1. InitGate => Hysteresis!Init
  BY DEF InitGate, Hysteresis!Init, NoOthers, Hysteresis!NoOthers
<1>2. GateInv /\ GateInv' /\ [NextGate]_gateVars => [Hysteresis!Next]_(Hysteresis!vars)
  <2> SUFFICES ASSUME GateInv, GateInv', [NextGate]_gateVars
               PROVE  [Hysteresis!Next]_(Hysteresis!vars)
    OBVIOUS
  <2>1. CASE NextGate
    <3>1. PICK t \in 0 .. MaxTime, others \in Shares \cup {NoOthers} : Update(others, t)
      BY <2>1 DEF NextGate
    <3>2. level' \in Shares \cup {NoOthers}
      BY DEF GateInv, GateTypeOK
    <3>3. Hysteresis!IsLargest(level', sighted')
      <4>1. Hysteresis!IsLargest(level, sighted)'
        BY <1>0
      <4> QED
        BY <4>1 DEF Hysteresis!IsLargest
    <3>4. Hysteresis!Observe(others, t)
      BY <3>1, <3>2, <3>3
      DEF Update, Recent, Hysteresis!Observe, Hysteresis!Recent, NoOthers, Hysteresis!NoOthers
    <3> QED
      BY <3>4 DEF Hysteresis!Next, NoOthers, Hysteresis!NoOthers
  <2>2. CASE UNCHANGED gateVars
    BY <2>2 DEF gateVars, Hysteresis!vars
  <2> QED
    BY <2>1, <2>2
<1> QED
  BY <1>1, <1>2, GateInvariantHolds, PTL DEF GateSpec, ImplementsHysteresis, Hysteresis!Spec

-----------------------------------------------------------------------------
(* The monitor.                                                            *)

TypeOK ==
  /\ merged \in [Devices -> Observation]
  /\ heard \in [Devices -> SUBSET Observation]
  /\ unknownPolls \in [Devices -> Nat]
  /\ warnings \in [Devices -> Nat]

\* What is merged so far: busy if anyone said so, with the largest measurement.
MergedIsLargest ==
  \A d \in Devices :
    /\ merged[d].verdict = "busy" <=> \E o \in heard[d] : o.verdict = "busy"
    /\ \A o \in heard[d] : o.busy <= merged[d].busy
    /\ merged[d].busy = Unmeasured \/ \E o \in heard[d] : o.busy = merged[d].busy

\* The count has reached WarnPolls exactly if the warning was given.
WarnedWhenReached ==
  \A d \in Devices : warnings[d] = IF unknownPolls[d] < WarnPolls THEN 0 ELSE 1

IInv == TypeOK /\ MergedIsLargest /\ WarnedWhenReached

-----------------------------------------------------------------------------

\* A measurement is a number from -1, for none, on.
LEMMA ObservationType ==
  ASSUME NEW o \in Observation
  PROVE  o.busy \in Int /\ o.busy >= Unmeasured /\ o.verdict \in Verdicts
<1>1. \A x \in Levels : x \in Int /\ x >= 0
  BY LevelsAssumption
<1> QED
  BY <1>1 DEF Observation, Unmeasured

LEMMA UnknownType == Unknown \in Observation
BY DEF Unknown, Observation, Verdicts, Unmeasured

\* One source more: the merge stays the largest of what was heard.
LEMMA MergeAdds ==
  ASSUME NEW m \in Observation, NEW H \in SUBSET Observation, NEW saw \in Observation,
         m.verdict = "busy" <=> \E o \in H : o.verdict = "busy",
         \A o \in H : o.busy <= m.busy,
         m.busy = Unmeasured \/ \E o \in H : o.busy = m.busy
  PROVE  /\ Merge(m, saw) \in Observation
         /\ Merge(m, saw).verdict = "busy" <=> \E o \in H \cup {saw} : o.verdict = "busy"
         /\ \A o \in H \cup {saw} : o.busy <= Merge(m, saw).busy
         /\ \/ Merge(m, saw).busy = Unmeasured
            \/ \E o \in H \cup {saw} : o.busy = Merge(m, saw).busy
<1>1. m.busy \in Int /\ saw.busy \in Int /\ \A o \in H : o.busy \in Int
  BY ObservationType
<1>2. /\ Merge(m, saw).verdict = IF saw.verdict = "busy" THEN "busy"
                                  ELSE IF saw.verdict = "idle" /\ m.verdict = "unknown" THEN "idle"
                                  ELSE m.verdict
      /\ Merge(m, saw).busy = IF saw.busy > m.busy THEN saw.busy ELSE m.busy
  BY DEF Merge
<1>3. Merge(m, saw) \in Observation
  BY DEF Merge, Observation, Verdicts
<1>4. Merge(m, saw).verdict = "busy" <=> \E o \in H \cup {saw} : o.verdict = "busy"
  BY <1>2
<1>5. \A o \in H \cup {saw} : o.busy <= Merge(m, saw).busy
  BY <1>1, <1>2
<1>6. Merge(m, saw).busy = Unmeasured \/ \E o \in H \cup {saw} : o.busy = Merge(m, saw).busy
  BY <1>2
<1> QED
  BY <1>3, <1>4, <1>5, <1>6

LEMMA InitIInv == Init => IInv
<1> SUFFICES ASSUME Init PROVE IInv
  OBVIOUS
<1>1. TypeOK
  BY UnknownType DEF Init, TypeOK
<1>2. MergedIsLargest
  BY DEF Init, MergedIsLargest, Unknown
<1>3. WarnedWhenReached
  BY WarnAssumption DEF Init, WarnedWhenReached
<1> QED
  BY <1>1, <1>2, <1>3 DEF IInv

LEMMA SampleKeeps == ASSUME IInv, Sample PROVE IInv'
<1>1. PICK saw \in [Devices -> Observation] :
        /\ merged' = [d \in Devices |-> Merge(merged[d], saw[d])]
        /\ heard' = [d \in Devices |-> heard[d] \cup {saw[d]}]
  BY DEF Sample
<1>2. unknownPolls' = unknownPolls /\ warnings' = warnings
  BY DEF Sample, results
<1>3. ASSUME NEW d \in Devices
      PROVE  /\ merged'[d] \in Observation
             /\ merged'[d].verdict = "busy" <=> \E o \in heard'[d] : o.verdict = "busy"
             /\ \A o \in heard'[d] : o.busy <= merged'[d].busy
             /\ merged'[d].busy = Unmeasured \/ \E o \in heard'[d] : o.busy = merged'[d].busy
  <2>1. merged'[d] = Merge(merged[d], saw[d]) /\ heard'[d] = heard[d] \cup {saw[d]}
    BY <1>1
  <2>2. merged[d] \in Observation /\ heard[d] \in SUBSET Observation /\ saw[d] \in Observation
    BY DEF IInv, TypeOK
  <2>3. /\ merged[d].verdict = "busy" <=> \E o \in heard[d] : o.verdict = "busy"
        /\ \A o \in heard[d] : o.busy <= merged[d].busy
        /\ merged[d].busy = Unmeasured \/ \E o \in heard[d] : o.busy = merged[d].busy
    BY DEF IInv, MergedIsLargest
  <2>4. /\ Merge(merged[d], saw[d]) \in Observation
        /\ Merge(merged[d], saw[d]).verdict = "busy" <=> \E o \in heard[d] \cup {saw[d]} : o.verdict = "busy"
        /\ \A o \in heard[d] \cup {saw[d]} : o.busy <= Merge(merged[d], saw[d]).busy
        /\ \/ Merge(merged[d], saw[d]).busy = Unmeasured
           \/ \E o \in heard[d] \cup {saw[d]} : o.busy = Merge(merged[d], saw[d]).busy
    BY <2>2, <2>3, MergeAdds
  <2> QED
    BY <2>1, <2>4
<1>4. merged' \in [Devices -> Observation]
  BY <1>1, <1>3
<1>5. heard' \in [Devices -> SUBSET Observation]
  BY <1>1 DEF IInv, TypeOK
<1> QED
  BY <1>2, <1>3, <1>4, <1>5 DEF IInv, TypeOK, MergedIsLargest, WarnedWhenReached

LEMMA ConcludeKeeps == ASSUME IInv, NEW d \in Devices, Conclude(d) PROVE IInv'
<1>1. merged' = [merged EXCEPT ![d] = Unknown] /\ heard' = [heard EXCEPT ![d] = {}]
  BY DEF Conclude
<1>2. merged' \in [Devices -> Observation] /\ heard' \in [Devices -> SUBSET Observation]
  BY <1>1, UnknownType DEF IInv, TypeOK
<1>3. MergedIsLargest'
  <2> SUFFICES ASSUME NEW e \in Devices
               PROVE  /\ merged'[e].verdict = "busy" <=> \E o \in heard'[e] : o.verdict = "busy"
                      /\ \A o \in heard'[e] : o.busy <= merged'[e].busy
                      /\ merged'[e].busy = Unmeasured \/ \E o \in heard'[e] : o.busy = merged'[e].busy
    BY DEF MergedIsLargest
  <2>1. CASE e = d
    BY <1>1, <2>1 DEF IInv, TypeOK, Unknown
  <2>2. CASE e # d
    BY <1>1, <2>2 DEF IInv, TypeOK, MergedIsLargest
  <2> QED
    BY <2>1, <2>2
<1>4. /\ unknownPolls' \in [Devices -> Nat] /\ warnings' \in [Devices -> Nat]
      /\ WarnedWhenReached'
  <2>1. CountUnknown(d)
    BY DEF Conclude
  <2> QED
    BY <2>1, WarnAssumption DEF CountUnknown, IInv, TypeOK, WarnedWhenReached
<1> QED
  BY <1>2, <1>3, <1>4 DEF IInv, TypeOK

\* The other actions leave what was heard and counted alone.
LEMMA OthersKeep ==
  ASSUME IInv, UNCHANGED <<merged, heard, unknownPolls, warnings>>
  PROVE  IInv'
BY DEF IInv, TypeOK, MergedIsLargest, WarnedWhenReached

LEMMA NextIInv == IInv /\ [Next]_vars => IInv'
<1> SUFFICES ASSUME IInv, [Next]_vars PROVE IInv'
  OBVIOUS
<1> USE DEF poll, ctrl, results, vars
<1>1. ASSUME NEW gap \in Gaps, BeginPoll(gap) PROVE IInv'
  BY <1>1, OthersKeep DEF BeginPoll
<1>2. CASE Sample
  BY <1>2, SampleKeeps
<1>3. CASE EndSampling
  BY <1>3, OthersKeep DEF EndSampling
<1>4. ASSUME NEW d \in Devices, Conclude(d) PROVE IInv'
  BY <1>4, ConcludeKeeps
<1>5. CASE Start \/ RequestStop \/ Exit
  BY <1>5, OthersKeep DEF Start, RequestStop, Exit
<1>6. CASE UNCHANGED vars
  BY <1>6, OthersKeep
<1> QED
  BY <1>1, <1>2, <1>3, <1>4, <1>5, <1>6 DEF Next, Poll

\* The inductive invariant of the monitor's merge and count.
THEOREM MonitorInvariant == Spec => []IInv
<1> QED
  BY InitIInv, NextIInv, PTL DEF Spec

\* Whatever the order of the sources, a poll's outcome is that of the largest
\* measurement anyone made of a device someone found busy (source.h:26-29).
THEOREM OrderDoesNotMatter == Spec => []MergeLosesNothing
<1>1. IInv => MergeLosesNothing
  <2> SUFFICES ASSUME IInv, NEW d \in Devices
               PROVE  OthersShare(merged[d], own[d]) = ShareHeard(d)
    BY DEF MergeLosesNothing
  <2> DEFINE m        == merged[d]
             measured == {o.busy : o \in heard[d]} \ {Unmeasured}
  <2>1. /\ m.verdict = "busy" <=> {o \in heard[d] : o.verdict = "busy"} # {}
        /\ \A x \in measured : x <= m.busy
        /\ m.busy = Unmeasured \/ m.busy \in measured
        /\ m.busy \in Int /\ \A x \in measured : x \in Int /\ x > Unmeasured
    <3>1. m \in Observation /\ \A o \in heard[d] : o \in Observation
      BY DEF IInv, TypeOK
    <3>2. m.busy \in Int /\ \A o \in heard[d] : o.busy \in Int /\ o.busy >= Unmeasured
      BY <3>1, ObservationType
    <3> QED
      BY <3>2 DEF IInv, MergedIsLargest, Unmeasured
  <2>2. measured = {} <=> m.busy = Unmeasured
    BY <2>1 DEF Unmeasured
  <2>3. measured # {} => Max(measured) = m.busy
    <3>1. ASSUME measured # {} PROVE m.busy \in measured /\ \A y \in measured : m.busy >= y
      BY <2>1, <2>2, <3>1
    <3>2. ASSUME NEW x \in measured, \A y \in measured : x >= y, m.busy \in measured PROVE x = m.busy
      BY <2>1, <3>2
    <3> QED
      BY <3>1, <3>2 DEF Max
  <2> QED
    BY <2>1, <2>2, <2>3 DEF OthersShare, ShareHeard
<1> QED
  BY <1>1, MonitorInvariant, PTL

\* A device that comes and goes from view is still warned about only once
\* (monitor.cc:95).
THEOREM OneWarning == Spec => []WarnsAtMostOnce
<1>1. IInv => WarnsAtMostOnce
  BY DEF IInv, WarnedWhenReached, WarnsAtMostOnce
<1> QED
  BY <1>1, MonitorInvariant, PTL

-----------------------------------------------------------------------------
(* What the monitor's gates make of it.                                    *)

\* What a gate of the monitor may hold: percentages at times up to the poll.
Seen == [at : Int, share : 0 .. 100]

GatesTypeOK ==
  /\ source \in Int /\ source >= -1
  /\ own \in [Devices -> Levels]
  /\ gates \in [Devices -> Seq(Seen)]
  /\ sightings \in [Devices -> SUBSET Seen]
  /\ told \in [Devices -> Int] /\ reported \in [Devices -> Int]

\* Every gate stands for what was seen of its device, also while a poll that
\* has aged it has not come to it yet.
GatesStand == \A d \in Devices : StandsFor(gates[d], sightings[d], 0)

\* The worker was told the last level reported, and that is the gate's once
\* the poll is done with the device.
ToldTheLevel ==
  \A d \in Devices :
    /\ told[d] = reported[d]
    /\ source = -1 /\ d \notin pending =>
         /\ told[d] = Level(gates[d])
         /\ \A i \in 1 .. Len(gates[d]) : ~Outdated(gates[d][i], 0)

GatesInv == GatesTypeOK /\ GatesStand /\ ToldTheLevel

LEMMA SeenType == Seen \in SUBSET Sightings
BY DEF Seen, Sightings

LEMMA LevelsType == \A x \in Levels : x \in 0 .. 100 /\ x \in Int
BY LevelsAssumption

\* A share the others are found to take is a percentage.
LEMMA SharePercent ==
  ASSUME NEW m \in Observation, NEW o \in Levels
  PROVE  /\ OthersShare(m, o) \in Int
         /\ OthersShare(m, o) # NoOthers => OthersShare(m, o) \in 0 .. 100
<1>1. m.busy \in Int /\ o \in Int
  BY ObservationType, LevelsType
<1> QED
  BY <1>1 DEF OthersShare, Percent, NoOthers

LEMMA InitGates == Init => GatesInv
<1> SUFFICES ASSUME Init PROVE GatesInv
  OBVIOUS
<1>1. GatesTypeOK
  BY LevelsAssumption DEF Init, GatesTypeOK, NoOthers
<1>2. \A d \in Devices : gates[d] = <<>> /\ sightings[d] = {}
  BY DEF Init
<1>3. GatesStand
  BY <1>2 DEF GatesStand, StandsFor, InOrder
<1>4. ToldTheLevel
  BY <1>2 DEF Init, ToldTheLevel, Level
<1> QED
  BY <1>1, <1>3, <1>4 DEF GatesInv

\* A sighting seen some time later.
LEMMA OneAges ==
  ASSUME NEW x \in Seen, NEW gap \in Nat
  PROVE  /\ [x EXCEPT !.at = @ - gap] \in Seen
         /\ [x EXCEPT !.at = @ - gap].at = x.at - gap
         /\ [x EXCEPT !.at = @ - gap].share = x.share
         /\ x.at \in Int /\ x.share \in Int
<1>1. x.at \in Int /\ x.share \in 0 .. 100
  BY DEF Seen
<1>2. x.share \in Int
  BY <1>1
<1>3. [x EXCEPT !.at = @ - gap] = [at |-> x.at - gap, share |-> x.share]
  BY DEF Seen
<1> QED
  BY <1>1, <1>2, <1>3 DEF Seen

\* Time passes alike for a gate and for what it stands for.
LEMMA AgedStands ==
  ASSUME NEW s \in Seq(Seen), NEW S \in SUBSET Seen, NEW gap \in Nat, StandsFor(s, S, 0)
  PROVE  LET older == {[x EXCEPT !.at = @ - gap] : x \in S}
         IN  /\ Aged(s, gap) \in Seq(Seen)
             /\ older \in SUBSET Seen
             /\ StandsFor(Aged(s, gap), older, 0)
<1> DEFINE older == {[x EXCEPT !.at = @ - gap] : x \in S}
           a     == Aged(s, gap)
<1>1. \A x \in Seen :
        /\ [x EXCEPT !.at = @ - gap] \in Seen
        /\ [x EXCEPT !.at = @ - gap].at = x.at - gap
        /\ [x EXCEPT !.at = @ - gap].share = x.share
        /\ x.at \in Int /\ x.share \in Int
  BY OneAges
<1>2. Len(s) \in Nat /\ \A i \in 1 .. Len(s) : s[i] \in Seen /\ s[i].at \in Int /\ s[i].share \in Int
  <2>1. Len(s) \in Nat /\ \A i \in 1 .. Len(s) : s[i] \in Seen
    OBVIOUS
  <2> QED
    BY <1>1, <2>1
<1>3. a \in Seq(Seen) /\ Len(a) = Len(s) /\ \A i \in 1 .. Len(s) : a[i] = [s[i] EXCEPT !.at = @ - gap]
  <2>1. a = [i \in 1 .. Len(s) |-> [s[i] EXCEPT !.at = @ - gap]]
    BY DEF Aged
  <2>2. \A i \in 1 .. Len(s) : [s[i] EXCEPT !.at = @ - gap] \in Seen
    BY <1>1, <1>2
  <2> HIDE DEF a
  <2> QED
    BY <1>2, <2>1, <2>2
<1> HIDE DEF a
<1>4. \A i \in 1 .. Len(s) : /\ a[i].at = s[i].at - gap /\ a[i].share = s[i].share
  BY <1>1, <1>2, <1>3
<1>5. InOrder(a)
  <2> SUFFICES ASSUME NEW i \in 1 .. Len(a), NEW j \in 1 .. Len(a), i < j
               PROVE  a[i].at <= a[j].at /\ a[i].share > a[j].share
    BY DEF InOrder
  <2>1. s[i].at <= s[j].at /\ s[i].share > s[j].share
    BY <1>3 DEF StandsFor, InOrder
  <2> QED
    BY <1>2, <1>3, <1>4, <2>1
<1>6. ASSUME NEW i \in 1 .. Len(a) PROVE a[i] \in older /\ a[i].at <= 0
  <2>1. s[i] \in S /\ s[i].at <= 0 /\ s[i].at \in Int
    BY <1>2, <1>3 DEF StandsFor
  <2>2. i \in 1 .. Len(s) /\ a[i] = [s[i] EXCEPT !.at = @ - gap] /\ a[i].at = s[i].at - gap
    BY <1>3, <1>4
  <2>3. a[i] \in older
    BY <2>1, <2>2, Zenon
  <2> HIDE DEF older
  <2> QED
    BY <2>1, <2>2, <2>3
<1>7. ASSUME NEW y \in older PROVE \E i \in 1 .. Len(a) : a[i].at >= y.at /\ a[i].share >= y.share
  <2>1. PICK x \in S : y = [x EXCEPT !.at = @ - gap]
    OBVIOUS
  <2>2. PICK i \in 1 .. Len(s) : s[i].at >= x.at /\ s[i].share >= x.share
    BY DEF StandsFor
  <2> QED
    BY <1>1, <1>2, <1>3, <1>4, <2>1, <2>2
<1>8. older \in SUBSET Seen
  BY <1>1
<1> QED
  BY <1>3, <1>5, <1>6, <1>7, <1>8 DEF StandsFor, a

LEMMA BeginPollGates == ASSUME GatesInv, NEW gap \in Gaps, BeginPoll(gap) PROVE GatesInv'
<1>1. gap \in Nat
  BY GapsAssumption
<1>2. \A d \in Devices :
        /\ gates'[d] = Aged(gates[d], gap)
        /\ sightings'[d] = {[x EXCEPT !.at = @ - gap] : x \in sightings[d]}
  BY DEF BeginPoll
<1>3. ASSUME NEW d \in Devices
      PROVE  /\ gates'[d] \in Seq(Seen) /\ sightings'[d] \in SUBSET Seen
             /\ StandsFor(gates'[d], sightings'[d], 0)
  <2>1. gates[d] \in Seq(Seen) /\ sightings[d] \in SUBSET Seen /\ StandsFor(gates[d], sightings[d], 0)
    BY DEF GatesInv, GatesTypeOK, GatesStand
  <2>2. gates'[d] = Aged(gates[d], gap) /\ sightings'[d] = {[x EXCEPT !.at = @ - gap] : x \in sightings[d]}
    BY <1>2
  <2>3. /\ Aged(gates[d], gap) \in Seq(Seen)
        /\ {[x EXCEPT !.at = @ - gap] : x \in sightings[d]} \in SUBSET Seen
        /\ StandsFor(Aged(gates[d], gap), {[x EXCEPT !.at = @ - gap] : x \in sightings[d]}, 0)
    BY <1>1, <2>1, AgedStands
  <2> QED
    BY <2>2, <2>3
<1>4. own' \in [Devices -> Levels]
  BY LevelsAssumption DEF BeginPoll
<1>5. GatesTypeOK'
  <2>1. gates' \in [Devices -> Seq(Seen)] /\ sightings' \in [Devices -> SUBSET Seen]
    BY <1>3 DEF BeginPoll
  <2> QED
    BY <1>4, <2>1 DEF BeginPoll, GatesInv, GatesTypeOK
<1>6. GatesStand'
  BY <1>3 DEF GatesStand
<1>7. ToldTheLevel'
  BY DEF BeginPoll, GatesInv, ToldTheLevel
<1> QED
  BY <1>5, <1>6, <1>7 DEF GatesInv

LEMMA ConcludeGates == ASSUME IInv, GatesInv, NEW d \in Devices, Conclude(d) PROVE GatesInv'
<1> DEFINE others == OthersShare(merged[d], own[d])
           fresh  == IF others = NoOthers THEN {} ELSE {[at |-> 0, share |-> others]}
<1>1. /\ others \in Int
      /\ others # NoOthers => [at |-> 0, share |-> others] \in Seen
  BY SharePercent DEF IInv, TypeOK, GatesInv, GatesTypeOK, Seen
<1>2. /\ gates' = [gates EXCEPT ![d] = Updated(gates[d], others, 0)]
      /\ sightings' = [sightings EXCEPT ![d] = Counting(sightings[d], 0) \cup fresh]
      /\ Report(d, Level(gates'[d]))
      /\ pending' = pending \ {d} /\ source' = source
      /\ own' = [own EXCEPT ![d] = 0]
  BY DEF Conclude, Counting
<1>3. /\ gates \in [Devices -> Seq(Seen)] /\ sightings \in [Devices -> SUBSET Seen]
      /\ own \in [Devices -> Levels]
      /\ told \in [Devices -> Int] /\ reported \in [Devices -> Int]
  BY DEF GatesInv, GatesTypeOK
<1>4. /\ gates'[d] \in Seq(Seen) /\ sightings'[d] \in SUBSET Seen
      /\ StandsFor(gates'[d], sightings'[d], 0)
      /\ \A i \in 1 .. Len(gates'[d]) : ~Outdated(gates'[d][i], 0)
  <2>1. gates[d] \in Seq(Seen) /\ sightings[d] \in SUBSET Seen /\ StandsFor(gates[d], sightings[d], 0)
    BY <1>3 DEF GatesInv, GatesStand
  <2>2. /\ Updated(gates[d], others, 0) \in Seq(Seen)
        /\ StandsFor(Updated(gates[d], others, 0), Counting(sightings[d], 0) \cup fresh, 0)
        /\ \A i \in 1 .. Len(Updated(gates[d], others, 0)) :
             ~Outdated(Updated(gates[d], others, 0)[i], 0)
    <3>1. 0 \in Int /\ Seen \in SUBSET Sightings
      BY SeenType
    <3> HIDE DEF others
    <3> QED
      BY <1>1, <2>1, <3>1, UpdatedStands
  <2>3. gates'[d] = Updated(gates[d], others, 0) /\ sightings'[d] = Counting(sightings[d], 0) \cup fresh
    BY <1>2, <1>3
  <2>4. Counting(sightings[d], 0) \cup fresh \in SUBSET Seen
    BY <1>1, <2>1 DEF Counting
  <2> QED
    BY <2>2, <2>3, <2>4
<1>5. Level(gates'[d]) \in Int
  <2>1. 0 \in Int /\ Seen \in SUBSET Sightings
    BY SeenType
  <2>2. \/ Level(gates'[d]) = NoOthers
        \/ Level(gates'[d]) \in Int
    BY <1>4, <2>1, LevelStands
  <2> QED
    BY <2>2 DEF NoOthers
<1>6. /\ told' \in [Devices -> Int] /\ reported' \in [Devices -> Int]
      /\ told'[d] = Level(gates'[d]) /\ reported'[d] = told'[d]
      /\ \A e \in Devices \ {d} : told'[e] = told[e] /\ reported'[e] = reported[e]
  <2> DEFINE new == Level(gates'[d])
  <2>1. told[d] = reported[d] /\ new \in Int /\ Report(d, new)
    BY <1>2, <1>5 DEF GatesInv, ToldTheLevel
  <2>2. CASE new = reported[d]
    BY <1>3, <2>1, <2>2 DEF Report
  <2>3. CASE new # reported[d]
    BY <1>3, <2>1, <2>3 DEF Report
  <2> QED
    BY <2>2, <2>3
<1>7. GatesTypeOK'
  BY <1>2, <1>3, <1>4, <1>6, LevelsAssumption DEF GatesInv, GatesTypeOK
<1>8. GatesStand'
  BY <1>2, <1>3, <1>4 DEF GatesInv, GatesStand
<1>9. ToldTheLevel'
  <2> SUFFICES ASSUME NEW e \in Devices
               PROVE  /\ told'[e] = reported'[e]
                      /\ source' = -1 /\ e \notin pending' =>
                           /\ told'[e] = Level(gates'[e])
                           /\ \A i \in 1 .. Len(gates'[e]) : ~Outdated(gates'[e][i], 0)
    BY DEF ToldTheLevel
  <2>1. CASE e = d
    BY <1>4, <1>6, <2>1
  <2>2. CASE e # d
    <3>1. gates'[e] = gates[e] /\ told'[e] = told[e] /\ reported'[e] = reported[e]
      BY <1>2, <1>3, <1>6, <2>2
    <3>2. source' = source /\ (e \notin pending' => e \notin pending)
      BY <1>2, <2>2
    <3> QED
      BY <3>1, <3>2 DEF GatesInv, ToldTheLevel
  <2> QED
    BY <2>1, <2>2
<1> QED
  BY <1>7, <1>8, <1>9 DEF GatesInv

LEMMA NextGates == IInv /\ GatesInv /\ [Next]_vars => GatesInv'
<1> SUFFICES ASSUME IInv, GatesInv, [Next]_vars PROVE GatesInv'
  OBVIOUS
<1> USE DEF poll, ctrl, results, vars
<1>1. ASSUME NEW gap \in Gaps, BeginPoll(gap) PROVE GatesInv'
  BY <1>1, BeginPollGates
<1>2. CASE Sample
  BY <1>2 DEF Sample, GatesInv, GatesTypeOK, GatesStand, ToldTheLevel
<1>3. CASE EndSampling
  BY <1>3, SourcesAssumption DEF EndSampling, GatesInv, GatesTypeOK, GatesStand, ToldTheLevel
<1>4. ASSUME NEW d \in Devices, Conclude(d) PROVE GatesInv'
  BY <1>4, ConcludeGates
<1>5. CASE Start \/ RequestStop \/ Exit
  BY <1>5 DEF Start, RequestStop, Exit, GatesInv, GatesTypeOK, GatesStand, ToldTheLevel
<1>6. CASE UNCHANGED vars
  BY <1>6 DEF GatesInv, GatesTypeOK, GatesStand, ToldTheLevel
<1> QED
  BY <1>1, <1>2, <1>3, <1>4, <1>5, <1>6 DEF Next, Poll

\* The inductive invariant of the monitor's gates.
THEOREM GatesInvariant == Spec => []GatesInv
<1>1. IInv /\ GatesInv /\ [Next]_vars => IInv' /\ GatesInv'
  BY NextIInv, NextGates
<1> QED
  BY InitIInv, InitGates, <1>1, PTL DEF Spec

\* A worker leaves the largest share that was seen of the others within
\* kGpuYieldResumeMS before its device's last poll, whatever the polls before
\* it saw, however far apart they were and whichever level was told before:
\* Poll calls on_change_ only when the level changes (monitor.cc:115-119).
THEOREM WorkersLeaveLargestRecent == Spec => []LeavesLargestRecentShare
<1>1. GatesInv => LeavesLargestRecentShare
  <2> SUFFICES ASSUME GatesInv, NEW d \in Devices, source = -1, d \notin pending
               PROVE  told[d] = IF Counting(sightings[d], 0) = {} THEN NoOthers
                                ELSE Max({s.share : s \in Counting(sightings[d], 0)})
    BY DEF LeavesLargestRecentShare, Counting
  <2> DEFINE recent == Counting(sightings[d], 0)
             shares == {s.share : s \in recent}
  <2>1. /\ gates[d] \in Seq(Seen) /\ sightings[d] \in SUBSET Seen
        /\ StandsFor(gates[d], sightings[d], 0)
        /\ told[d] = Level(gates[d])
        /\ \A i \in 1 .. Len(gates[d]) : ~Outdated(gates[d][i], 0)
    BY DEF GatesInv, GatesTypeOK, GatesStand, ToldTheLevel
  <2>2. \/ sightings[d] = {} /\ Level(gates[d]) = NoOthers
        \/ /\ gates[d] # <<>> /\ gates[d][1] \in sightings[d]
           /\ Level(gates[d]) = gates[d][1].share /\ Level(gates[d]) \in Int
           /\ \A x \in sightings[d] : x.share \in Int /\ x.share <= Level(gates[d])
    <3>1. 0 \in Int /\ Seen \in SUBSET Sightings
      BY SeenType
    <3> QED
      BY <2>1, <3>1, LevelStands
  <2>3. CASE sightings[d] = {} /\ Level(gates[d]) = NoOthers
    BY <2>1, <2>3 DEF Counting
  <2>4. CASE /\ gates[d] # <<>> /\ gates[d][1] \in sightings[d]
             /\ Level(gates[d]) = gates[d][1].share /\ Level(gates[d]) \in Int
             /\ \A x \in sightings[d] : x.share \in Int /\ x.share <= Level(gates[d])
    <3>1. gates[d][1] \in recent
      <4>1. 1 \in 1 .. Len(gates[d])
        BY <2>1, <2>4
      <4> QED
        BY <2>1, <2>4, <4>1 DEF Counting
    <3>2. told[d] \in shares /\ told[d] \in Int
      BY <2>1, <2>4, <3>1
    <3>3. \A y \in shares : y \in Int /\ told[d] >= y
      BY <2>1, <2>4 DEF Counting
    <3>4. Max(shares) = told[d]
      <4> HIDE DEF shares
      <4>1. \A x \in shares : (\A y \in shares : x >= y) => x = told[d]
        BY <3>2, <3>3
      <4> QED
        BY <3>2, <3>3, <4>1 DEF Max
    <3> QED
      BY <3>1, <3>4
  <2> QED
    BY <2>2, <2>3, <2>4
<1> QED
  BY <1>1, GatesInvariant, PTL

=============================================================================
