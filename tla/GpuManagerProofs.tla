-------------------------- MODULE GpuManagerProofs --------------------------
(***************************************************************************)
(* The safety of GpuManager for any number of devices and any resume time: *)
(* the monitor's indices, the lifetime of the devices, and what the first  *)
(* poll does for calibration.                                              *)
(***************************************************************************)
EXTENDS GpuManager, SequenceTheorems, TLAPS

Tracking   == {"poll", "repoll", "loads", "start", "run", "stopWorkers", "joinMonitor"}
Calibrating == {"calibrate", "calibrating", "retrack"}
Threaded   == {"run", "stopWorkers", "joinMonitor", "joinWorkers"}

Injective(s) == \A i, j \in 1 .. Len(s) : s[i] = s[j] => i = j

TypeOK ==
  /\ main \in MainPCs
  /\ next \in Nat \ {0}
  /\ pending \in Seq(Devices) /\ workers \in Seq(Devices) /\ tracked \in Seq(Devices)
  /\ left \in [1 .. Len(tracked) -> Nat]
  /\ at \in 0 .. Len(tracked) + 1
  /\ at > 0 => sees \in Sampled
  /\ monThread \in {"none", "waiting", "done"}
  /\ sharing \in [Devices -> BOOLEAN]
  /\ thread \in [Devices -> {"none", "loop", "call", "ended"}]
  /\ quiet \in [Devices -> 0 .. ResumePolls]

\* No device is there twice.
Distinct ==
  /\ Injective(pending) /\ Injective(workers) /\ Injective(tracked)
  /\ \A i \in 1 .. Len(workers), j \in 1 .. Len(pending) : workers[i] # pending[j]

\* Which devices the monitor knows in which phase, and who polls.
Tracks ==
  /\ main \in Tracking => tracked = workers
  /\ main \in Calibrating => Len(workers) <= Len(tracked)
  /\ main \in Calibrating /\ Len(workers) = Len(tracked) => workers = tracked
  /\ at > 0 => main \in {"poll", "repoll"} \/ monThread = "waiting"
  /\ monThread = "waiting" => main \in {"run", "stopWorkers", "joinMonitor"}
  /\ main = "calibrating" => next \in 1 .. Len(workers)

\* A worker shares its device exactly if the gate says so, also during a poll.
Shares ==
  main \in Tracking \cup Calibrating =>
    \A i \in 1 .. Len(tracked) : sharing[tracked[i]] <=> left[i] > 0

\* What a poll has found so far.
Sightings ==
  at > 0 => \A i \in 1 .. Len(tracked) :
              /\ ~sees[i] => quiet[tracked[i]] > 0
              /\ i < at /\ sees[i] => left[i] > 0

\* A device that is not shared was not in use at the first poll.
UndisturbedAlone ==
  /\ main \in {"calibrate", "calibrating"} =>
       \A i \in 1 .. Len(workers) : sharing[workers[i]] \/ quiet[workers[i]] > 0
  /\ main = "calibrating" => ~sharing[workers[next]]

\* Threads belong to workers, and those that were joined have ended.
ThreadsHeld ==
  /\ main \notin Threaded \cup {"start", "done"} => \A d \in Devices : thread[d] = "none"
  /\ main # "done" => \A d \in Devices : thread[d] # "none" => \E i \in 1 .. Len(workers) : workers[i] = d
  /\ main = "joinWorkers" => \A i \in 1 .. Len(workers) : i < next => thread[workers[i]] = "ended"
  /\ main = "done" => \A d \in Devices : thread[d] # "call" /\ thread[d] # "loop"

IInv == TypeOK /\ Distinct /\ Tracks /\ Shares /\ Sightings /\ UndisturbedAlone /\ ThreadsHeld

-----------------------------------------------------------------------------

\* Erasing an element of a sequence moves up those behind it.
LEMMA Erased ==
  ASSUME NEW S, NEW s \in Seq(S), NEW k \in 1 .. Len(s)
  PROVE  /\ RemoveAt(s, k) \in Seq(S)
         /\ Len(RemoveAt(s, k)) = Len(s) - 1
         /\ \A i \in 1 .. Len(s) - 1 : RemoveAt(s, k)[i] = IF i < k THEN s[i] ELSE s[i + 1]
<1>1. /\ SubSeq(s, 1, k - 1) \in Seq(S) /\ Len(SubSeq(s, 1, k - 1)) = k - 1
      /\ \A i \in 1 .. k - 1 : SubSeq(s, 1, k - 1)[i] = s[i]
  <2>1. \A i \in 1 .. k - 1 : s[i] \in S
    OBVIOUS
  <2>2. /\ SubSeq(s, 1, k - 1) \in Seq(S)
        /\ Len(SubSeq(s, 1, k - 1)) = IF 1 <= k - 1 THEN k - 1 - 1 + 1 ELSE 0
        /\ \A i \in 1 .. k - 1 - 1 + 1 : SubSeq(s, 1, k - 1)[i] = s[1 + i - 1]
    BY <2>1, SubSeqProperties
  <2> QED
    BY <2>2
<1>2. /\ SubSeq(s, k + 1, Len(s)) \in Seq(S) /\ Len(SubSeq(s, k + 1, Len(s))) = Len(s) - k
      /\ \A i \in 1 .. Len(s) - k : SubSeq(s, k + 1, Len(s))[i] = s[k + i]
  <2>1. \A i \in k + 1 .. Len(s) : s[i] \in S
    OBVIOUS
  <2>2. /\ SubSeq(s, k + 1, Len(s)) \in Seq(S)
        /\ Len(SubSeq(s, k + 1, Len(s))) = IF k + 1 <= Len(s) THEN Len(s) - (k + 1) + 1 ELSE 0
        /\ \A i \in 1 .. Len(s) - (k + 1) + 1 : SubSeq(s, k + 1, Len(s))[i] = s[(k + 1) + i - 1]
    BY <2>1, SubSeqProperties
  <2> QED
    BY <2>2
<1>3. ASSUME NEW b \in Seq(S), NEW a \in Seq(S), Len(b) = k - 1, Len(a) = Len(s) - k,
             \A i \in 1 .. k - 1 : b[i] = s[i],
             \A i \in 1 .. Len(s) - k : a[i] = s[k + i]
      PROVE  /\ b \o a \in Seq(S) /\ Len(b \o a) = Len(s) - 1
             /\ \A i \in 1 .. Len(s) - 1 : (b \o a)[i] = IF i < k THEN s[i] ELSE s[i + 1]
  <2>1. /\ b \o a \in Seq(S) /\ Len(b \o a) = Len(b) + Len(a)
        /\ \A i \in 1 .. Len(b) + Len(a) : (b \o a)[i] = IF i <= Len(b) THEN b[i] ELSE a[i - Len(b)]
    BY ConcatProperties
  <2>2. ASSUME NEW i \in 1 .. Len(s) - 1 PROVE (b \o a)[i] = IF i < k THEN s[i] ELSE s[i + 1]
    <3>1. CASE i < k
      BY <1>3, <2>1, <3>1
    <3>2. CASE i >= k
      <4>1. PICK j \in 1 .. Len(s) - k : j = i - (k - 1)
        BY <3>2
      <4>2. (b \o a)[i] = a[j]
        <5>1. i \in 1 .. Len(b) + Len(a) /\ ~(i <= Len(b)) /\ i - Len(b) = j
          BY <1>3, <3>2, <4>1
        <5> QED
          BY <2>1, <5>1
      <4>3. a[j] = s[k + j] /\ k + j = i + 1
        BY <1>3, <4>1
      <4> QED
        BY <3>2, <4>2, <4>3
    <3>3. i < k \/ i >= k
      OBVIOUS
    <3> QED
      BY <3>1, <3>2, <3>3
  <2> QED
    BY <1>3, <2>1, <2>2
<1> QED
  BY <1>1, <1>2, <1>3 DEF RemoveAt

\* A poll leaves every device it does not see someone on as not in use.
LEMMA BeginPollSees ==
  ASSUME IInv, BeginPoll
  PROVE  /\ at' = 1 /\ sees' \in Sampled /\ quiet' \in [Devices -> 0 .. ResumePolls]
         /\ \A i \in 1 .. Len(tracked) : ~sees'[i] => quiet'[tracked[i]] > 0
<1>1. at' = 1 /\ sees' \in Sampled
  BY DEF BeginPoll
<1>2. quiet' \in [Devices -> 0 .. ResumePolls]
  BY ResumeAssumption DEF BeginPoll, IInv, TypeOK
<1>3. ASSUME NEW i \in 1 .. Len(tracked), ~sees'[i] PROVE quiet'[tracked[i]] > 0
  <2>1. tracked[i] \in Devices
    BY DEF IInv, TypeOK
  <2>2. ~ \E j \in 1 .. Len(tracked) : tracked[j] = tracked[i] /\ sees'[j]
    BY <1>3 DEF IInv, Distinct, Injective
  <2>3. quiet'[tracked[i]] = IF quiet[tracked[i]] < ResumePolls THEN quiet[tracked[i]] + 1 ELSE ResumePolls
    BY <2>1, <2>2 DEF BeginPoll
  <2> QED
    BY <2>1, <2>3, ResumeAssumption DEF IInv, TypeOK
<1> QED
  BY <1>1, <1>2, <1>3

\* A report keeps gate and worker alike.
LEMMA ReportTells ==
  ASSUME IInv, ReportNext, main \in Tracking
  PROVE  /\ left' \in [1 .. Len(tracked) -> Nat] /\ sharing' \in [Devices -> BOOLEAN]
         /\ at' \in 0 .. Len(tracked) + 1
         /\ \A i \in 1 .. Len(tracked) : sharing'[tracked[i]] <=> left'[i] > 0
         /\ \A i \in 1 .. Len(tracked) : i < at' /\ sees[i] => left'[i] > 0
<1>1. /\ at \in 1 .. Len(tracked) /\ at' = at + 1 /\ sees \in Sampled /\ tracked = workers
      /\ tracked \in Seq(Devices) /\ left \in [1 .. Len(tracked) -> Nat] /\ tracked[at] \in Devices
  BY DEF IInv, TypeOK, Tracks, ReportNext
<1>2. left' \in [1 .. Len(tracked) -> Nat] /\ (sees[at] => left'[at] > 0)
  BY <1>1, ResumeAssumption DEF ReportNext
<1>3. \A i \in 1 .. Len(tracked) : i # at => left'[i] = left[i]
  BY <1>1 DEF ReportNext
<1>4. \A i \in 1 .. Len(tracked) : sharing[tracked[i]] <=> left[i] > 0
  BY DEF IInv, Shares
<1>5. sharing \in [Devices -> BOOLEAN]
  BY DEF IInv, TypeOK
<1>6. sharing' \in [Devices -> BOOLEAN] /\ \A i \in 1 .. Len(tracked) : sharing'[tracked[i]] <=> left'[i] > 0
  <2>1. CASE (left'[at] > 0) <=> (left[at] > 0)
    <3>1. sharing' = sharing
      BY <2>1 DEF ReportNext
    <3> QED
      BY <1>1, <1>3, <1>4, <1>5, <2>1, <3>1
  <2>2. CASE ~((left'[at] > 0) <=> (left[at] > 0))
    <3>1. sharing' = [sharing EXCEPT ![tracked[at]] = left'[at] > 0]
      BY <1>1, <2>2 DEF ReportNext
    <3>2. \A i \in 1 .. Len(tracked) : i # at => tracked[i] # tracked[at]
      BY <1>1 DEF IInv, Distinct, Injective
    <3>3. (left'[at] > 0) \in BOOLEAN
      OBVIOUS
    <3>4. sharing' \in [Devices -> BOOLEAN]
      BY <1>5, <3>1, <3>3
    <3>5. sharing'[tracked[at]] = (left'[at] > 0)
      BY <1>1, <1>5, <3>1
    <3>6. ASSUME NEW i \in 1 .. Len(tracked), i # at PROVE sharing'[tracked[i]] <=> left'[i] > 0
      <4>1. tracked[i] \in Devices /\ tracked[i] # tracked[at]
        BY <1>1, <3>2, <3>6
      <4>2. sharing'[tracked[i]] = sharing[tracked[i]]
        BY <1>5, <3>1, <4>1
      <4> QED
        BY <1>3, <1>4, <3>6, <4>2
    <3> QED
      BY <3>4, <3>5, <3>6
  <2> QED
    BY <2>1, <2>2
<1>7. \A i \in 1 .. Len(tracked) : i < at' /\ sees[i] => left'[i] > 0
  BY <1>1, <1>2, <1>3 DEF IInv, Sightings
<1> QED
  BY <1>1, <1>2, <1>6, <1>7

\* Devices come up and the first poll is taken.
LEMMA StartUpKeeps ==
  ASSUME IInv, InitDevice \/ SetUpMonitor \/ NoUsableDevice \/ FirstPoll \/ FirstReports \/ EndFirstPoll
  PROVE  IInv'
<1> USE DEF MainPCs, Tracking, Calibrating, Threaded, startup, monitor, worker
<1>1. CASE InitDevice
  <2>0. /\ Head(pending) = pending[1] /\ Len(pending) >= 1
        /\ Len(pending') = Len(pending) - 1
        /\ \A i \in 1 .. Len(pending) - 1 : pending'[i] = pending[i + 1]
        /\ workers' = workers \/ workers' = Append(workers, Head(pending))
    BY <1>1, HeadTailProperties DEF IInv, TypeOK, InitDevice
  <2>1. TypeOK'
    BY <1>1 DEF IInv, TypeOK, Sampled, InitDevice
  <2>2. Distinct'
    <3>1. pending \in Seq(Devices) /\ workers \in Seq(Devices) /\ Distinct
      BY DEF IInv, TypeOK
    <3>2. Injective(pending') /\ Injective(tracked')
      BY <1>1, <2>0, <3>1 DEF Distinct, Injective, InitDevice
    <3>3. CASE workers' = workers
      <4>1. \A j \in 1 .. Len(pending') : j + 1 \in 1 .. Len(pending) /\ pending'[j] = pending[j + 1]
        BY <2>0, <3>1
      <4>2. \A i \in 1 .. Len(workers), j \in 1 .. Len(pending') : workers[i] # pending'[j]
        BY <3>1, <4>1 DEF Distinct
      <4> QED
        BY <3>1, <3>2, <3>3, <4>2 DEF Distinct
    <3>4. CASE workers' = Append(workers, Head(pending))
      <4>1. /\ Len(workers') = Len(workers) + 1 /\ workers'[Len(workers) + 1] = pending[1]
            /\ \A i \in 1 .. Len(workers) : workers'[i] = workers[i]
        BY <2>0, <3>1, <3>4
      <4>2. Injective(workers')
        <5>1. \A i \in 1 .. Len(workers') : i \in 1 .. Len(workers) \/ i = Len(workers) + 1
          BY <3>1, <4>1
        <5>2. 1 \in 1 .. Len(pending)
          BY <2>0, <3>1
        <5>3. \A i \in 1 .. Len(workers) : workers'[i] = workers[i] /\ workers'[i] # pending[1]
          BY <3>1, <4>1, <5>2 DEF Distinct
        <5> QED
          BY <3>1, <4>1, <5>1, <5>3 DEF Distinct, Injective
      <4>3. ASSUME NEW i \in 1 .. Len(workers'), NEW j \in 1 .. Len(pending')
            PROVE  workers'[i] # pending'[j]
        <5>1. /\ 1 \in 1 .. Len(pending) /\ j + 1 \in 1 .. Len(pending) /\ j + 1 # 1
              /\ pending'[j] = pending[j + 1]
          BY <2>0, <3>1
        <5>2. CASE i \in 1 .. Len(workers)
          BY <3>1, <4>1, <5>1, <5>2 DEF Distinct
        <5>3. CASE i = Len(workers) + 1
          BY <3>1, <4>1, <5>1, <5>3 DEF Distinct, Injective
        <5>4. i \in 1 .. Len(workers) \/ i = Len(workers) + 1
          BY <3>1, <4>1
        <5> QED
          BY <5>2, <5>3, <5>4
      <4> QED
        BY <3>2, <4>2, <4>3 DEF Distinct
    <3> QED
      BY <2>0, <3>3, <3>4
  <2>3. Tracks'
    BY <1>1 DEF IInv, TypeOK, Tracks, InitDevice
  <2>4. Shares'
    BY <1>1 DEF IInv, TypeOK, Distinct, Injective, Tracks, Shares, Sampled, InitDevice
  <2>5. Sightings'
    BY <1>1 DEF IInv, TypeOK, Distinct, Injective, Tracks, Sightings, Sampled, InitDevice
  <2>6. UndisturbedAlone'
    BY <1>1 DEF IInv, TypeOK, Tracks, Shares, Sightings, UndisturbedAlone, InitDevice
  <2>7. ThreadsHeld'
    BY <1>1 DEF IInv, TypeOK, Tracks, ThreadsHeld, InitDevice
  <2> QED
    BY <2>1, <2>2, <2>3, <2>4, <2>5, <2>6, <2>7 DEF IInv
<1>2. CASE SetUpMonitor
  <2>1. TypeOK'
    <3>1. at' = 0 /\ tracked' = workers /\ workers' = workers /\ pending' = pending
      BY <1>2 DEF IInv, TypeOK, Tracks, SetUpMonitor, InitContentionMonitor
    <3>2. left' \in [1 .. Len(tracked') -> Nat]
      BY <1>2, <3>1 DEF SetUpMonitor, InitContentionMonitor
    <3>3. sharing' \in [Devices -> BOOLEAN]
      BY <1>2 DEF IInv, TypeOK, SetUpMonitor, InitContentionMonitor
    <3> QED
      BY <1>2, <3>1, <3>2, <3>3 DEF IInv, TypeOK, SetUpMonitor
  <2>2. Distinct'
    BY <1>2 DEF IInv, TypeOK, Tracks, Distinct, Injective, SetUpMonitor, InitContentionMonitor, ToSet
  <2>3. Tracks'
    BY <1>2 DEF IInv, TypeOK, Tracks, SetUpMonitor, InitContentionMonitor, ToSet
  <2>4. Shares'
    BY <1>2 DEF IInv, TypeOK, Distinct, Injective, Tracks, Shares, Sampled, SetUpMonitor, InitContentionMonitor, ToSet
  <2>5. Sightings'
    BY <1>2 DEF IInv, TypeOK, Distinct, Injective, Tracks, Sightings, Sampled, SetUpMonitor, InitContentionMonitor, ToSet
  <2>6. UndisturbedAlone'
    BY <1>2 DEF IInv, TypeOK, Tracks, Shares, Sightings, UndisturbedAlone, SetUpMonitor, InitContentionMonitor, ToSet
  <2>7. ThreadsHeld'
    BY <1>2 DEF IInv, TypeOK, Tracks, ThreadsHeld, SetUpMonitor, InitContentionMonitor, ToSet
  <2> QED
    BY <2>1, <2>2, <2>3, <2>4, <2>5, <2>6, <2>7 DEF IInv
<1>3. CASE NoUsableDevice
  <2>1. TypeOK'
    BY <1>3 DEF IInv, TypeOK, Sampled, NoUsableDevice
  <2>2. Distinct'
    BY <1>3 DEF IInv, TypeOK, Tracks, Distinct, Injective, NoUsableDevice
  <2>3. Tracks'
    BY <1>3 DEF IInv, TypeOK, Tracks, NoUsableDevice
  <2>4. Shares'
    BY <1>3 DEF IInv, TypeOK, Distinct, Injective, Tracks, Shares, Sampled, NoUsableDevice
  <2>5. Sightings'
    BY <1>3 DEF IInv, TypeOK, Distinct, Injective, Tracks, Sightings, Sampled, NoUsableDevice
  <2>6. UndisturbedAlone'
    BY <1>3 DEF IInv, TypeOK, Tracks, Shares, Sightings, UndisturbedAlone, NoUsableDevice
  <2>7. ThreadsHeld'
    BY <1>3 DEF IInv, TypeOK, Tracks, ThreadsHeld, NoUsableDevice
  <2> QED
    BY <2>1, <2>2, <2>3, <2>4, <2>5, <2>6, <2>7 DEF IInv
<1>4. CASE FirstPoll
  <2>1. TypeOK'
    BY <1>4, BeginPollSees DEF IInv, TypeOK, Sampled, FirstPoll
  <2>2. Distinct'
    BY <1>4 DEF IInv, TypeOK, Tracks, Distinct, Injective, FirstPoll, BeginPoll
  <2>3. Tracks'
    BY <1>4 DEF IInv, TypeOK, Tracks, FirstPoll, BeginPoll
  <2>4. Shares'
    BY <1>4, ResumeAssumption DEF IInv, TypeOK, Distinct, Injective, Tracks, Shares, Sampled, FirstPoll, BeginPoll
  <2>5. Sightings'
    BY <1>4, BeginPollSees DEF Sightings, FirstPoll
  <2>6. UndisturbedAlone'
    BY <1>4 DEF IInv, TypeOK, Tracks, Shares, Sightings, UndisturbedAlone, FirstPoll, BeginPoll
  <2>7. ThreadsHeld'
    BY <1>4 DEF IInv, TypeOK, Tracks, ThreadsHeld, FirstPoll, BeginPoll
  <2> QED
    BY <2>1, <2>2, <2>3, <2>4, <2>5, <2>6, <2>7 DEF IInv
<1>5. CASE FirstReports
  <2>0. ReportNext /\ main \in Tracking /\ at > 0 /\ sees \in Sampled
    BY <1>5 DEF IInv, TypeOK, Tracks, ReportNext, FirstReports
  <2>1. TypeOK'
    BY <1>5, <2>0, ReportTells DEF IInv, TypeOK, Sampled, FirstReports
  <2>2. Distinct'
    BY <1>5 DEF IInv, TypeOK, Tracks, Distinct, Injective, FirstReports, ReportNext
  <2>3. Tracks'
    BY <1>5 DEF IInv, TypeOK, Tracks, FirstReports, ReportNext
  <2>4. Shares'
    BY <1>5, <2>0, ReportTells DEF IInv, Shares, FirstReports
  <2>5. Sightings'
    BY <1>5, <2>0, ReportTells DEF IInv, Sightings, FirstReports
  <2>6. UndisturbedAlone'
    BY <1>5 DEF IInv, TypeOK, Tracks, Shares, Sightings, UndisturbedAlone, FirstReports, ReportNext
  <2>7. ThreadsHeld'
    BY <1>5 DEF IInv, TypeOK, Tracks, ThreadsHeld, FirstReports, ReportNext
  <2> QED
    BY <2>1, <2>2, <2>3, <2>4, <2>5, <2>6, <2>7 DEF IInv
<1>6. CASE EndFirstPoll
  <2>1. TypeOK'
    BY <1>6 DEF IInv, TypeOK, Sampled, EndFirstPoll, PollDone
  <2>2. Distinct'
    BY <1>6 DEF IInv, TypeOK, Tracks, Distinct, Injective, EndFirstPoll, PollDone
  <2>3. Tracks'
    BY <1>6 DEF IInv, TypeOK, Tracks, EndFirstPoll, PollDone
  <2>4. Shares'
    BY <1>6 DEF IInv, TypeOK, Distinct, Injective, Tracks, Shares, Sampled, EndFirstPoll, PollDone
  <2>5. Sightings'
    BY <1>6 DEF IInv, TypeOK, Distinct, Injective, Tracks, Sightings, Sampled, EndFirstPoll, PollDone
  <2>6. UndisturbedAlone'
    <3>1. CASE main' # "calibrate"
      BY <1>6, <3>1 DEF UndisturbedAlone, EndFirstPoll
    <3>2. CASE main' = "calibrate"
      <4>1. /\ main = "poll" /\ at = Len(tracked) + 1 /\ tracked = workers
            /\ Len(tracked) \in Nat
            /\ workers' = workers /\ sharing' = sharing /\ quiet' = quiet
        BY <1>6, <3>2 DEF IInv, TypeOK, Tracks, EndFirstPoll, PollDone
      <4>2. \A i \in 1 .. Len(tracked) : left[i] > 0 \/ quiet[tracked[i]] > 0
        BY <4>1 DEF IInv, Sightings
      <4>3. \A i \in 1 .. Len(workers) : sharing[workers[i]] \/ quiet[workers[i]] > 0
        BY <4>1, <4>2 DEF IInv, Shares
      <4> QED
        BY <3>2, <4>1, <4>3 DEF UndisturbedAlone
    <3> QED
      BY <3>1, <3>2
  <2>7. ThreadsHeld'
    BY <1>6 DEF IInv, TypeOK, Tracks, ThreadsHeld, EndFirstPoll, PollDone
  <2> QED
    BY <2>1, <2>2, <2>3, <2>4, <2>5, <2>6, <2>7 DEF IInv
<1> QED
  BY <1>1, <1>2, <1>3, <1>4, <1>5, <1>6

\* Calibration drops devices.
LEMMA CalibrationKeeps ==
  ASSUME IInv, ConsiderCalibration \/ CalibrationEnds \/ EndCalibration \/ SetLoads
  PROVE  IInv'
<1> USE DEF MainPCs, Tracking, Calibrating, Threaded, startup, monitor, worker
<1>1. CASE ConsiderCalibration
  <2>0. /\ main = "calibrate" /\ main' \in {"calibrate", "calibrating"} /\ next' \in Nat \ {0}
        /\ main' = "calibrating" => next' \in 1 .. Len(workers)
        /\ UNCHANGED <<startup, monitor, worker, quiet>>
    <3>1. next \in Nat \ {0} /\ next <= Len(workers) /\ Len(workers) \in Nat
      BY <1>1 DEF IInv, TypeOK, ConsiderCalibration
    <3> QED
      BY <1>1, <3>1 DEF ConsiderCalibration
  <2>1. TypeOK'
    BY <2>0 DEF IInv, TypeOK, Sampled
  <2>2. Distinct'
    BY <2>0 DEF IInv, Distinct, Injective
  <2>3. Tracks'
    BY <2>0 DEF IInv, Tracks
  <2>4. Shares'
    BY <1>1 DEF IInv, Shares, ConsiderCalibration
  <2>5. Sightings'
    BY <1>1 DEF IInv, Sightings, ConsiderCalibration
  <2>6. UndisturbedAlone'
    BY <1>1 DEF IInv, TypeOK, UndisturbedAlone, ConsiderCalibration
  <2>7. ThreadsHeld'
    BY <1>1 DEF IInv, TypeOK, Tracks, ThreadsHeld, ConsiderCalibration
  <2> QED
    BY <2>1, <2>2, <2>3, <2>4, <2>5, <2>6, <2>7 DEF IInv
<1>2. CASE CalibrationEnds
  <2>0. /\ next \in 1 .. Len(workers) /\ workers \in Seq(Devices) /\ Len(workers) \in Nat
        /\ \/ workers' = workers
           \/ /\ workers' \in Seq(Devices) /\ Len(workers') = Len(workers) - 1
              /\ \A i \in 1 .. Len(workers) - 1 :
                   workers'[i] = IF i < next THEN workers[i] ELSE workers[i + 1]
    <3>1. next \in 1 .. Len(workers) /\ workers \in Seq(Devices)
      BY <1>2 DEF IInv, TypeOK, Tracks, CalibrationEnds
    <3>2. workers' = workers \/ workers' = RemoveAt(workers, next)
      BY <1>2 DEF CalibrationEnds
    <3>3. /\ RemoveAt(workers, next) \in Seq(Devices) /\ Len(RemoveAt(workers, next)) = Len(workers) - 1
          /\ \A i \in 1 .. Len(workers) - 1 :
               RemoveAt(workers, next)[i] = IF i < next THEN workers[i] ELSE workers[i + 1]
      BY <3>1, Erased
    <3> QED
      BY <3>1, <3>2, <3>3
  <2>1. TypeOK'
    <3>1. workers' \in Seq(Devices) /\ next' \in Nat \ {0}
      BY <1>2, <2>0 DEF IInv, TypeOK, CalibrationEnds
    <3> QED
      BY <1>2, <3>1 DEF IInv, TypeOK, Sampled, CalibrationEnds
  <2>2. Distinct'
    <3>1. pending' = pending /\ tracked' = tracked /\ Len(pending) \in Nat
      BY <1>2 DEF IInv, TypeOK, CalibrationEnds
    <3>2. Distinct
      BY DEF IInv
    <3>3. Injective(workers')
      <4>1. CASE workers' = workers
        BY <3>2, <4>1 DEF Distinct, Injective
      <4>2. CASE workers' # workers
        <5> SUFFICES ASSUME NEW i \in 1 .. Len(workers'), NEW j \in 1 .. Len(workers'),
                            workers'[i] = workers'[j]
                     PROVE  i = j
          BY DEF Injective
        <5> DEFINE From(k) == IF k < next THEN k ELSE k + 1
        <5>1. ASSUME NEW k \in 1 .. Len(workers')
              PROVE  From(k) \in 1 .. Len(workers) /\ workers'[k] = workers[From(k)]
          BY <2>0, <4>2
        <5>2. From(i) = From(j)
          <6> HIDE DEF From
          <6> QED
            BY <3>2, <5>1 DEF Distinct, Injective
        <5>3. i \in Int /\ j \in Int /\ next \in Int
          BY <2>0
        <5> QED
          BY <5>2, <5>3
      <4> QED
        BY <4>1, <4>2
    <3>4. \A i \in 1 .. Len(workers'), j \in 1 .. Len(pending) : workers'[i] # pending[j]
      BY <2>0, <3>2 DEF Distinct
    <3> QED
      BY <3>1, <3>2, <3>3, <3>4 DEF Distinct, Injective
  <2>3. Tracks'
    <3>1. Len(tracked) \in Nat
      BY DEF IInv, TypeOK
    <3> QED
      BY <1>2, <2>0, <3>1 DEF IInv, Tracks, CalibrationEnds
  <2>4. Shares'
    BY <1>2 DEF IInv, TypeOK, Distinct, Injective, Tracks, Shares, Sampled, CalibrationEnds
  <2>5. Sightings'
    BY <1>2 DEF IInv, TypeOK, Distinct, Injective, Tracks, Sightings, Sampled, CalibrationEnds
  <2>6. UndisturbedAlone'
    <3>1. \A i \in 1 .. Len(workers) : sharing[workers[i]] \/ quiet[workers[i]] > 0
      BY <1>2 DEF IInv, UndisturbedAlone, CalibrationEnds
    <3>2. \A i \in 1 .. Len(workers') : \E j \in 1 .. Len(workers) : workers'[i] = workers[j]
      BY <2>0
    <3> QED
      BY <1>2, <3>1, <3>2 DEF UndisturbedAlone, CalibrationEnds
  <2>7. ThreadsHeld'
    BY <1>2 DEF IInv, TypeOK, Tracks, ThreadsHeld, CalibrationEnds
  <2> QED
    BY <2>1, <2>2, <2>3, <2>4, <2>5, <2>6, <2>7 DEF IInv
<1>3. CASE EndCalibration
  <2>1. TypeOK'
    BY <1>3 DEF IInv, TypeOK, Sampled, EndCalibration
  <2>2. Distinct'
    BY <1>3 DEF IInv, TypeOK, Tracks, Distinct, Injective, EndCalibration
  <2>3. Tracks'
    BY <1>3 DEF IInv, TypeOK, Tracks, EndCalibration
  <2>4. Shares'
    BY <1>3 DEF IInv, Shares, EndCalibration
  <2>5. Sightings'
    BY <1>3 DEF IInv, Sightings, EndCalibration
  <2>6. UndisturbedAlone'
    BY <1>3 DEF IInv, TypeOK, Tracks, Shares, Sightings, UndisturbedAlone, EndCalibration
  <2>7. ThreadsHeld'
    BY <1>3 DEF IInv, TypeOK, Tracks, ThreadsHeld, EndCalibration
  <2> QED
    BY <2>1, <2>2, <2>3, <2>4, <2>5, <2>6, <2>7 DEF IInv
<1>4. CASE SetLoads
  <2>1. TypeOK'
    BY <1>4 DEF IInv, TypeOK, Sampled, SetLoads, ToSet
  <2>2. Distinct'
    BY <1>4 DEF IInv, TypeOK, Tracks, Distinct, Injective, SetLoads, ToSet
  <2>3. Tracks'
    BY <1>4 DEF IInv, TypeOK, Tracks, SetLoads, ToSet
  <2>4. Shares'
    BY <1>4 DEF IInv, TypeOK, Distinct, Injective, Tracks, Shares, Sampled, SetLoads, ToSet
  <2>5. Sightings'
    BY <1>4 DEF IInv, TypeOK, Distinct, Injective, Tracks, Sightings, Sampled, SetLoads, ToSet
  <2>6. UndisturbedAlone'
    BY <1>4 DEF IInv, TypeOK, Tracks, Shares, Sightings, UndisturbedAlone, SetLoads, ToSet
  <2>7. ThreadsHeld'
    BY <1>4 DEF IInv, TypeOK, Tracks, ThreadsHeld, SetLoads, ToSet
  <2> QED
    BY <2>1, <2>2, <2>3, <2>4, <2>5, <2>6, <2>7 DEF IInv
<1> QED
  BY <1>1, <1>2, <1>3, <1>4

\* Threads are started, stopped and joined.
LEMMA ThreadsKeep ==
  ASSUME IInv, StartWorker \/ StartMonitor \/ StopMonitor \/ StopWorker \/ EndStopping \/ JoinMonitor \/ JoinWorker \/ ClearWorkers
  PROVE  IInv'
<1> USE DEF MainPCs, Tracking, Calibrating, Threaded, startup, monitor, worker
<1>1. CASE StartWorker
  <2>1. TypeOK'
    BY <1>1 DEF IInv, TypeOK, Sampled, StartWorker
  <2>2. Distinct'
    BY <1>1 DEF IInv, TypeOK, Tracks, Distinct, Injective, StartWorker
  <2>3. Tracks'
    BY <1>1 DEF IInv, TypeOK, Tracks, StartWorker
  <2>4. Shares'
    BY <1>1 DEF IInv, TypeOK, Distinct, Injective, Tracks, Shares, Sampled, StartWorker
  <2>5. Sightings'
    BY <1>1 DEF IInv, TypeOK, Distinct, Injective, Tracks, Sightings, Sampled, StartWorker
  <2>6. UndisturbedAlone'
    BY <1>1 DEF IInv, TypeOK, Tracks, Shares, Sightings, UndisturbedAlone, StartWorker
  <2>7. ThreadsHeld'
    BY <1>1 DEF IInv, TypeOK, Tracks, ThreadsHeld, StartWorker
  <2> QED
    BY <2>1, <2>2, <2>3, <2>4, <2>5, <2>6, <2>7 DEF IInv
<1>2. CASE StartMonitor
  <2>1. TypeOK'
    BY <1>2 DEF IInv, TypeOK, Sampled, StartMonitor
  <2>2. Distinct'
    BY <1>2 DEF IInv, TypeOK, Tracks, Distinct, Injective, StartMonitor
  <2>3. Tracks'
    BY <1>2 DEF IInv, TypeOK, Tracks, StartMonitor
  <2>4. Shares'
    BY <1>2 DEF IInv, TypeOK, Distinct, Injective, Tracks, Shares, Sampled, StartMonitor
  <2>5. Sightings'
    BY <1>2 DEF IInv, TypeOK, Distinct, Injective, Tracks, Sightings, Sampled, StartMonitor
  <2>6. UndisturbedAlone'
    BY <1>2 DEF IInv, TypeOK, Tracks, Shares, Sightings, UndisturbedAlone, StartMonitor
  <2>7. ThreadsHeld'
    BY <1>2 DEF IInv, TypeOK, Tracks, ThreadsHeld, StartMonitor
  <2> QED
    BY <2>1, <2>2, <2>3, <2>4, <2>5, <2>6, <2>7 DEF IInv
<1>3. CASE StopMonitor
  <2>1. TypeOK'
    BY <1>3 DEF IInv, TypeOK, Sampled, StopMonitor
  <2>2. Distinct'
    BY <1>3 DEF IInv, TypeOK, Tracks, Distinct, Injective, StopMonitor
  <2>3. Tracks'
    BY <1>3 DEF IInv, TypeOK, Tracks, StopMonitor
  <2>4. Shares'
    BY <1>3 DEF IInv, TypeOK, Distinct, Injective, Tracks, Shares, Sampled, StopMonitor
  <2>5. Sightings'
    BY <1>3 DEF IInv, TypeOK, Distinct, Injective, Tracks, Sightings, Sampled, StopMonitor
  <2>6. UndisturbedAlone'
    BY <1>3 DEF IInv, TypeOK, Tracks, Shares, Sightings, UndisturbedAlone, StopMonitor
  <2>7. ThreadsHeld'
    BY <1>3 DEF IInv, TypeOK, Tracks, ThreadsHeld, StopMonitor
  <2> QED
    BY <2>1, <2>2, <2>3, <2>4, <2>5, <2>6, <2>7 DEF IInv
<1>4. CASE StopWorker
  <2>1. TypeOK'
    BY <1>4 DEF IInv, TypeOK, Sampled, StopWorker
  <2>2. Distinct'
    BY <1>4 DEF IInv, TypeOK, Tracks, Distinct, Injective, StopWorker
  <2>3. Tracks'
    BY <1>4 DEF IInv, TypeOK, Tracks, StopWorker
  <2>4. Shares'
    BY <1>4 DEF IInv, TypeOK, Distinct, Injective, Tracks, Shares, Sampled, StopWorker
  <2>5. Sightings'
    BY <1>4 DEF IInv, TypeOK, Distinct, Injective, Tracks, Sightings, Sampled, StopWorker
  <2>6. UndisturbedAlone'
    BY <1>4 DEF IInv, TypeOK, Tracks, Shares, Sightings, UndisturbedAlone, StopWorker
  <2>7. ThreadsHeld'
    BY <1>4 DEF IInv, TypeOK, Tracks, ThreadsHeld, StopWorker
  <2> QED
    BY <2>1, <2>2, <2>3, <2>4, <2>5, <2>6, <2>7 DEF IInv
<1>5. CASE EndStopping
  <2>1. TypeOK'
    BY <1>5 DEF IInv, TypeOK, Sampled, EndStopping
  <2>2. Distinct'
    BY <1>5 DEF IInv, TypeOK, Tracks, Distinct, Injective, EndStopping
  <2>3. Tracks'
    BY <1>5 DEF IInv, TypeOK, Tracks, EndStopping
  <2>4. Shares'
    BY <1>5 DEF IInv, TypeOK, Distinct, Injective, Tracks, Shares, Sampled, EndStopping
  <2>5. Sightings'
    BY <1>5 DEF IInv, TypeOK, Distinct, Injective, Tracks, Sightings, Sampled, EndStopping
  <2>6. UndisturbedAlone'
    BY <1>5 DEF IInv, TypeOK, Tracks, Shares, Sightings, UndisturbedAlone, EndStopping
  <2>7. ThreadsHeld'
    BY <1>5 DEF IInv, TypeOK, Tracks, ThreadsHeld, EndStopping
  <2> QED
    BY <2>1, <2>2, <2>3, <2>4, <2>5, <2>6, <2>7 DEF IInv
<1>6. CASE JoinMonitor
  <2>1. TypeOK'
    <3>1. at' = 0 /\ tracked' = <<>> /\ left' = <<>>
      BY <1>6 DEF IInv, Tracks, TypeOK, JoinMonitor
    <3>2. tracked' \in Seq(Devices) /\ left' \in [1 .. Len(tracked') -> Nat]
      BY <3>1
    <3> QED
      BY <1>6, <3>1, <3>2 DEF IInv, TypeOK, JoinMonitor
  <2>2. Distinct'
    BY <1>6 DEF IInv, TypeOK, Tracks, Distinct, Injective, JoinMonitor
  <2>3. Tracks'
    BY <1>6 DEF IInv, TypeOK, Tracks, JoinMonitor
  <2>4. Shares'
    BY <1>6 DEF IInv, TypeOK, Distinct, Injective, Tracks, Shares, Sampled, JoinMonitor
  <2>5. Sightings'
    BY <1>6 DEF IInv, TypeOK, Distinct, Injective, Tracks, Sightings, Sampled, JoinMonitor
  <2>6. UndisturbedAlone'
    BY <1>6 DEF IInv, TypeOK, Tracks, Shares, Sightings, UndisturbedAlone, JoinMonitor
  <2>7. ThreadsHeld'
    BY <1>6 DEF IInv, TypeOK, Tracks, ThreadsHeld, JoinMonitor
  <2> QED
    BY <2>1, <2>2, <2>3, <2>4, <2>5, <2>6, <2>7 DEF IInv
<1>7. CASE JoinWorker
  <2>1. TypeOK'
    BY <1>7 DEF IInv, TypeOK, Sampled, JoinWorker
  <2>2. Distinct'
    BY <1>7 DEF IInv, TypeOK, Tracks, Distinct, Injective, JoinWorker
  <2>3. Tracks'
    BY <1>7 DEF IInv, TypeOK, Tracks, JoinWorker
  <2>4. Shares'
    BY <1>7 DEF IInv, TypeOK, Distinct, Injective, Tracks, Shares, Sampled, JoinWorker
  <2>5. Sightings'
    BY <1>7 DEF IInv, TypeOK, Distinct, Injective, Tracks, Sightings, Sampled, JoinWorker
  <2>6. UndisturbedAlone'
    BY <1>7 DEF IInv, TypeOK, Tracks, Shares, Sightings, UndisturbedAlone, JoinWorker
  <2>7. ThreadsHeld'
    BY <1>7 DEF IInv, TypeOK, Tracks, ThreadsHeld, JoinWorker
  <2> QED
    BY <2>1, <2>2, <2>3, <2>4, <2>5, <2>6, <2>7 DEF IInv
<1>8. CASE ClearWorkers
  <2>1. TypeOK'
    BY <1>8 DEF IInv, TypeOK, Sampled, ClearWorkers
  <2>2. Distinct'
    BY <1>8 DEF IInv, TypeOK, Tracks, Distinct, Injective, ClearWorkers
  <2>3. Tracks'
    BY <1>8 DEF IInv, TypeOK, Tracks, ClearWorkers
  <2>4. Shares'
    BY <1>8 DEF IInv, TypeOK, Distinct, Injective, Tracks, Shares, Sampled, ClearWorkers
  <2>5. Sightings'
    BY <1>8 DEF IInv, TypeOK, Distinct, Injective, Tracks, Sightings, Sampled, ClearWorkers
  <2>6. UndisturbedAlone'
    BY <1>8 DEF IInv, TypeOK, Tracks, Shares, Sightings, UndisturbedAlone, ClearWorkers
  <2>7. ThreadsHeld'
    <3>1. ASSUME NEW d \in Devices PROVE thread[d] \in {"none", "ended"}
      <4>1. CASE thread[d] # "none"
        <5>1. PICK i \in 1 .. Len(workers) : workers[i] = d
          BY <1>8, <4>1 DEF IInv, ThreadsHeld, ClearWorkers
        <5>2. i < next
          BY <1>8 DEF IInv, TypeOK, ClearWorkers
        <5> QED
          BY <1>8, <5>1, <5>2 DEF IInv, ThreadsHeld, ClearWorkers
      <4> QED
        BY <4>1
    <3> QED
      BY <1>8, <3>1 DEF ThreadsHeld, ClearWorkers
  <2> QED
    BY <2>1, <2>2, <2>3, <2>4, <2>5, <2>6, <2>7 DEF IInv
<1> QED
  BY <1>1, <1>2, <1>3, <1>4, <1>5, <1>6, <1>7, <1>8

\* The monitor polls and calls back.
LEMMA MonitorKeeps ==
  ASSUME IInv, MonitorPolls \/ MonitorReports \/ MonitorEndsPoll \/ MonitorExits
  PROVE  IInv'
<1> USE DEF MainPCs, Tracking, Calibrating, Threaded, startup, monitor, worker
<1>1. CASE MonitorPolls
  <2>1. TypeOK'
    BY <1>1, BeginPollSees DEF IInv, TypeOK, Sampled, MonitorPolls
  <2>2. Distinct'
    BY <1>1 DEF IInv, TypeOK, Tracks, Distinct, Injective, MonitorPolls, BeginPoll
  <2>3. Tracks'
    BY <1>1 DEF IInv, TypeOK, Tracks, MonitorPolls, BeginPoll
  <2>4. Shares'
    BY <1>1, ResumeAssumption DEF IInv, TypeOK, Distinct, Injective, Tracks, Shares, Sampled, MonitorPolls, BeginPoll
  <2>5. Sightings'
    BY <1>1, BeginPollSees DEF Sightings, MonitorPolls
  <2>6. UndisturbedAlone'
    BY <1>1 DEF IInv, TypeOK, Tracks, Shares, Sightings, UndisturbedAlone, MonitorPolls, BeginPoll
  <2>7. ThreadsHeld'
    BY <1>1 DEF IInv, TypeOK, Tracks, ThreadsHeld, MonitorPolls, BeginPoll
  <2> QED
    BY <2>1, <2>2, <2>3, <2>4, <2>5, <2>6, <2>7 DEF IInv
<1>2. CASE MonitorReports
  <2>0. ReportNext /\ main \in Tracking /\ at > 0 /\ sees \in Sampled
    BY <1>2 DEF IInv, TypeOK, Tracks, ReportNext, MonitorReports
  <2>1. TypeOK'
    BY <1>2, <2>0, ReportTells DEF IInv, TypeOK, Sampled, MonitorReports
  <2>2. Distinct'
    BY <1>2 DEF IInv, TypeOK, Tracks, Distinct, Injective, MonitorReports, ReportNext
  <2>3. Tracks'
    BY <1>2 DEF IInv, TypeOK, Tracks, MonitorReports, ReportNext
  <2>4. Shares'
    BY <1>2, <2>0, ReportTells DEF IInv, Shares, MonitorReports
  <2>5. Sightings'
    BY <1>2, <2>0, ReportTells DEF IInv, Sightings, MonitorReports
  <2>6. UndisturbedAlone'
    BY <1>2 DEF IInv, TypeOK, Tracks, Shares, Sightings, UndisturbedAlone, MonitorReports, ReportNext
  <2>7. ThreadsHeld'
    BY <1>2 DEF IInv, TypeOK, Tracks, ThreadsHeld, MonitorReports, ReportNext
  <2> QED
    BY <2>1, <2>2, <2>3, <2>4, <2>5, <2>6, <2>7 DEF IInv
<1>3. CASE MonitorEndsPoll
  <2>1. TypeOK'
    BY <1>3 DEF IInv, TypeOK, Sampled, MonitorEndsPoll, PollDone
  <2>2. Distinct'
    BY <1>3 DEF IInv, TypeOK, Tracks, Distinct, Injective, MonitorEndsPoll, PollDone
  <2>3. Tracks'
    BY <1>3 DEF IInv, TypeOK, Tracks, MonitorEndsPoll, PollDone
  <2>4. Shares'
    BY <1>3 DEF IInv, TypeOK, Distinct, Injective, Tracks, Shares, Sampled, MonitorEndsPoll, PollDone
  <2>5. Sightings'
    BY <1>3 DEF IInv, TypeOK, Distinct, Injective, Tracks, Sightings, Sampled, MonitorEndsPoll, PollDone
  <2>6. UndisturbedAlone'
    BY <1>3 DEF IInv, TypeOK, Tracks, Shares, Sightings, UndisturbedAlone, MonitorEndsPoll, PollDone
  <2>7. ThreadsHeld'
    BY <1>3 DEF IInv, TypeOK, Tracks, ThreadsHeld, MonitorEndsPoll, PollDone
  <2> QED
    BY <2>1, <2>2, <2>3, <2>4, <2>5, <2>6, <2>7 DEF IInv
<1>4. CASE MonitorExits
  <2>1. TypeOK'
    BY <1>4 DEF IInv, TypeOK, Sampled, MonitorExits
  <2>2. Distinct'
    BY <1>4 DEF IInv, TypeOK, Tracks, Distinct, Injective, MonitorExits
  <2>3. Tracks'
    BY <1>4 DEF IInv, TypeOK, Tracks, MonitorExits
  <2>4. Shares'
    BY <1>4 DEF IInv, TypeOK, Distinct, Injective, Tracks, Shares, Sampled, MonitorExits
  <2>5. Sightings'
    BY <1>4 DEF IInv, TypeOK, Distinct, Injective, Tracks, Sightings, Sampled, MonitorExits
  <2>6. UndisturbedAlone'
    BY <1>4 DEF IInv, TypeOK, Tracks, Shares, Sightings, UndisturbedAlone, MonitorExits
  <2>7. ThreadsHeld'
    BY <1>4 DEF IInv, TypeOK, Tracks, ThreadsHeld, MonitorExits
  <2> QED
    BY <2>1, <2>2, <2>3, <2>4, <2>5, <2>6, <2>7 DEF IInv
<1> QED
  BY <1>1, <1>2, <1>3, <1>4

\* A worker calls its device.
LEMMA WorkerKeeps ==
  ASSUME IInv, NEW d \in Devices, WorkerCalls(d) \/ WorkerReturns(d) \/ WorkerExits(d)
  PROVE  IInv'
<1> USE DEF MainPCs, Tracking, Calibrating, Threaded, startup, monitor, worker
<1>1. CASE WorkerCalls(d)
  <2>1. TypeOK'
    BY <1>1 DEF IInv, TypeOK, Sampled, WorkerCalls
  <2>2. Distinct'
    BY <1>1 DEF IInv, TypeOK, Tracks, Distinct, Injective, WorkerCalls
  <2>3. Tracks'
    BY <1>1 DEF IInv, TypeOK, Tracks, WorkerCalls
  <2>4. Shares'
    BY <1>1 DEF IInv, TypeOK, Distinct, Injective, Tracks, Shares, Sampled, WorkerCalls
  <2>5. Sightings'
    BY <1>1 DEF IInv, TypeOK, Distinct, Injective, Tracks, Sightings, Sampled, WorkerCalls
  <2>6. UndisturbedAlone'
    BY <1>1 DEF IInv, TypeOK, Tracks, Shares, Sightings, UndisturbedAlone, WorkerCalls
  <2>7. ThreadsHeld'
    BY <1>1 DEF IInv, TypeOK, Tracks, ThreadsHeld, WorkerCalls
  <2> QED
    BY <2>1, <2>2, <2>3, <2>4, <2>5, <2>6, <2>7 DEF IInv
<1>2. CASE WorkerReturns(d)
  <2>1. TypeOK'
    BY <1>2 DEF IInv, TypeOK, Sampled, WorkerReturns
  <2>2. Distinct'
    BY <1>2 DEF IInv, TypeOK, Tracks, Distinct, Injective, WorkerReturns
  <2>3. Tracks'
    BY <1>2 DEF IInv, TypeOK, Tracks, WorkerReturns
  <2>4. Shares'
    BY <1>2 DEF IInv, TypeOK, Distinct, Injective, Tracks, Shares, Sampled, WorkerReturns
  <2>5. Sightings'
    BY <1>2 DEF IInv, TypeOK, Distinct, Injective, Tracks, Sightings, Sampled, WorkerReturns
  <2>6. UndisturbedAlone'
    BY <1>2 DEF IInv, TypeOK, Tracks, Shares, Sightings, UndisturbedAlone, WorkerReturns
  <2>7. ThreadsHeld'
    <3>1. PICK s \in {"loop", "ended"} : thread' = [thread EXCEPT ![d] = s]
      BY <1>2 DEF WorkerReturns
    <3>2. thread[d] = "call" /\ main' = main /\ workers' = workers /\ next' = next
      BY <1>2 DEF WorkerReturns
    <3> QED
      BY <3>1, <3>2 DEF IInv, TypeOK, ThreadsHeld
  <2> QED
    BY <2>1, <2>2, <2>3, <2>4, <2>5, <2>6, <2>7 DEF IInv
<1>3. CASE WorkerExits(d)
  <2>1. TypeOK'
    BY <1>3 DEF IInv, TypeOK, Sampled, WorkerExits
  <2>2. Distinct'
    BY <1>3 DEF IInv, TypeOK, Tracks, Distinct, Injective, WorkerExits
  <2>3. Tracks'
    BY <1>3 DEF IInv, TypeOK, Tracks, WorkerExits
  <2>4. Shares'
    BY <1>3 DEF IInv, TypeOK, Distinct, Injective, Tracks, Shares, Sampled, WorkerExits
  <2>5. Sightings'
    BY <1>3 DEF IInv, TypeOK, Distinct, Injective, Tracks, Sightings, Sampled, WorkerExits
  <2>6. UndisturbedAlone'
    BY <1>3 DEF IInv, TypeOK, Tracks, Shares, Sightings, UndisturbedAlone, WorkerExits
  <2>7. ThreadsHeld'
    BY <1>3 DEF IInv, TypeOK, Tracks, ThreadsHeld, WorkerExits
  <2> QED
    BY <2>1, <2>2, <2>3, <2>4, <2>5, <2>6, <2>7 DEF IInv
<1> QED
  BY <1>1, <1>2, <1>3

LEMMA UnchangedKeeps == IInv /\ UNCHANGED vars => IInv'
<1> SUFFICES ASSUME IInv, UNCHANGED vars PROVE IInv'
  OBVIOUS
<1> USE DEF IInv, vars, startup, monitor, worker
<1>1. TypeOK' /\ Distinct' /\ Tracks'
  BY DEF TypeOK, Sampled, Distinct, Injective, Tracks
<1>2. Shares' /\ Sightings'
  BY DEF Shares, Sightings
<1>3. UndisturbedAlone' /\ ThreadsHeld'
  BY DEF UndisturbedAlone, ThreadsHeld
<1> QED
  BY <1>1, <1>2, <1>3

LEMMA InitIInv == Init => IInv
<1> SUFFICES ASSUME Init PROVE IInv
  OBVIOUS
<1>1. pending \in Seq(Devices) /\ Len(pending) = NumDevices /\ \A i \in 1 .. NumDevices : pending[i] = i
  BY DevicesAssumption DEF Init, Devices
<1>2. workers = <<>> /\ tracked = <<>> /\ left = <<>> /\ at = 0
  BY DEF Init
<1>3. TypeOK
  <2>1. workers \in Seq(Devices) /\ tracked \in Seq(Devices) /\ left \in [1 .. Len(tracked) -> Nat]
    BY <1>2
  <2>2. quiet \in [Devices -> 0 .. ResumePolls]
    BY ResumeAssumption DEF Init
  <2>3. /\ sharing \in [Devices -> BOOLEAN]
        /\ thread \in [Devices -> {"none", "loop", "call", "ended"}]
    BY DEF Init
  <2> QED
    BY <1>1, <1>2, <2>1, <2>2, <2>3 DEF Init, TypeOK, MainPCs
<1>4. Distinct
  BY <1>1, <1>2 DEF Distinct, Injective
<1> QED
  BY <1>2, <1>3, <1>4 DEF Init, IInv, Tracks, Shares, Sightings, UndisturbedAlone, ThreadsHeld,
                          Tracking, Calibrating, Threaded

LEMMA NextIInv == IInv /\ [Next]_vars => IInv'
<1> SUFFICES ASSUME IInv, [Next]_vars PROVE IInv'
  OBVIOUS
<1>1. CASE Next
  BY <1>1, StartUpKeeps, CalibrationKeeps, ThreadsKeep, MonitorKeeps, WorkerKeeps, UnchangedKeeps
     DEF Next, MainInit, MainShutdown, MonitorThread, Worker, Finished
<1>2. CASE UNCHANGED vars
  BY <1>2, UnchangedKeeps
<1> QED
  BY <1>1, <1>2

\* The inductive invariant of the manager.
THEOREM ManagerInvariant == Spec => []IInv
<1> QED
  BY InitIInv, NextIInv, PTL DEF Spec

\* A poll's indices are those of the workers, on whichever thread it runs and
\* whatever calibration dropped (manager.cc:80, :149).
THEOREM IndicesStayValid == Spec => []MonitorReachesItsWorkers
<1>1. IInv => MonitorReachesItsWorkers
  BY DEF IInv, Tracks, Tracking, MonitorReachesItsWorkers
<1> QED
  BY <1>1, ManagerInvariant, PTL

\* A device is destroyed only once its thread is joined.
THEOREM DevicesOutliveThreads == Spec => []NoCallOnDestroyedDevice
<1>1. IInv => NoCallOnDestroyedDevice
  BY DEF IInv, TypeOK, ThreadsHeld, NoCallOnDestroyedDevice, ToSet
<1> QED
  BY <1>1, ManagerInvariant, PTL

\* The kernel never runs flat out beside a process that the first poll saw.
THEOREM CalibratesAlone == Spec => []NoDisturbanceAtStartup
<1>1. IInv => NoDisturbanceAtStartup
  BY DEF IInv, Tracks, UndisturbedAlone, NoDisturbanceAtStartup
<1> QED
  BY <1>1, ManagerInvariant, PTL

\* What a worker was told is what its gate says, also after a second set-up.
THEOREM GatesReachWorkers == Spec => []SharingFollowsGate
<1>1. IInv => SharingFollowsGate
  <2> SUFFICES ASSUME IInv, main \in {"start", "run", "stopWorkers", "joinMonitor"},
                      NEW i \in 1 .. Len(workers)
               PROVE  sharing[workers[i]] = (left[i] > 0)
    BY DEF SharingFollowsGate
  <2>1. tracked = workers /\ (sharing[tracked[i]] <=> left[i] > 0)
    BY DEF IInv, Tracks, Shares, Tracking
  <2>2. sharing[workers[i]] \in BOOLEAN
    BY DEF IInv, TypeOK
  <2> QED
    BY <2>1, <2>2
<1> QED
  BY <1>1, ManagerInvariant, PTL

=============================================================================
