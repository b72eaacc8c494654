--------------------------- MODULE GpuWorkerProofs --------------------------
(***************************************************************************)
(* The safety of one GPU worker, proved for every period, load, share,     *)
(* failure limit and block size.  IInv is inductive: it holds initially    *)
(* (InitIInv), every step of the worker's thread (WorkerKeepsIInv) and of  *)
(* the threads and the device around it (EnvironmentKeepsIInv) keeps it.   *)
(***************************************************************************)
EXTENDS GpuWorker, TLAPS

\* A larger share takes at least as much of the period.
LEMMA ShareMonotone ==
  ASSUME NEW a \in Nat, NEW b \in Nat, a <= b, NEW p \in Nat, NEW m \in Nat, m > 0
  PROVE  (a * p) \div m <= (b * p) \div m
<1>1. a * p \in Nat /\ b * p \in Nat /\ a * p <= b * p
  OBVIOUS
<1>2. \A x \in Nat, y \in Nat : x <= y => x \div m <= y \div m
  OBVIOUS
<1> QED BY <1>1, <1>2

\* A share of the period is a number of it.
LEMMA ShareIsNat ==
  ASSUME NEW a \in Nat, NEW p \in Nat, NEW m \in Nat, m > 0
  PROVE  (a * p) \div m \in Nat
<1>1. a * p \in Nat
  OBVIOUS
<1>2. \A x \in Nat : x \div m \in Nat
  OBVIOUS
<1> QED BY <1>1, <1>2

\* The constants as numbers.
LEMMA Numbers ==
  /\ Period \in Nat /\ Period > 0
  /\ MaxPercent \in Nat /\ MaxPercent > 0
  /\ MaxFailures \in Nat /\ MaxFailures > 0
BY PeriodAssumption, FailuresAssumption

\* Shares and loads are numbers.
LEMMA SharesAreNumbers ==
  /\ \A x \in SharesHeld : x \in Int /\ x >= NoOthers
  /\ \A x \in Loads : x \in 0 .. Period
  /\ NoOthers \in SharesHeld
<1>1. \A p \in Percents : p \in Nat
  BY PercentsAssumption
<1>2. \A p \in Percents : Clamped(p) \in Nat
  BY <1>1, Numbers DEF Clamped, Smaller
<1>3. \A x \in Loads : x \in 0 .. Period
  BY LoadsAssumption
<1> QED BY <1>2, <1>3 DEF SharesHeld, NoOthers

\* What a tick leaves over beside a share is a budget within the load, and
\* with any smaller share it still fits in the load.
LEMMA BudgetLeavesShare ==
  ASSUME NEW load \in 0 .. Period, NEW share \in SharesHeld,
         NEW least \in SharesHeld, least <= share
  PROVE  /\ Budget(load, share) \in 0 .. Period
         /\ Budget(load, share) <= load
         /\ Budget(load, share) # 0 =>
              Budget(load, share) + (Larger(least, 0) * Period) \div MaxPercent <= load
<1> DEFINE a == Larger(least, 0)
           b == Larger(share, 0)
           A == (a * Period) \div MaxPercent
           B == (b * Period) \div MaxPercent
<1>1. share \in Int /\ least \in Int
  BY SharesAreNumbers
<1>2. a \in Nat /\ b \in Nat /\ a <= b
  BY <1>1 DEF Larger
<1>3. A \in Nat /\ B \in Nat /\ A <= B
  <2> HIDE DEF a, b
  <2> QED BY <1>2, Numbers, ShareMonotone, ShareIsNat
<1>4. Budget(load, share) = Larger(0, load - B)
  BY DEF Budget
<1>5. /\ Larger(0, load - B) \in 0 .. Period
      /\ Larger(0, load - B) <= load
      /\ Larger(0, load - B) # 0 => Larger(0, load - B) + A <= load
  <2> HIDE DEF A, B
  <2> QED BY <1>3, Numbers DEF Larger
<1> QED BY <1>4, <1>5

-----------------------------------------------------------------------------
(* IInv is inductive. *)

LEMMA InitIInv == Init => IInv
<1> SUFFICES ASSUME Init PROVE IInv
  OBVIOUS
<1>1. TypeOK
  <2>1. outcomes \in Seq(BOOLEAN) /\ Len(outcomes) = 0
    BY DEF Init
  <2>2. failures \in 0 .. MaxFailures /\ target \in 0 .. Period /\ maxLoad \in 0 .. Period
    BY Numbers DEF Init
  <2>3. pc \in PCs /\ stop \in BOOLEAN /\ calibrated \in BOOLEAN
             /\ memHeld \in BOOLEAN /\ memFailed \in BOOLEAN
    BY DEF Init, PCs
  <2>4. loadSet \in Loads /\ health \in Healths /\ othersPct \in SharesHeld
             /\ others \in SharesHeld /\ minOthers \in SharesHeld
    BY SharesAreNumbers DEF Init
  <2> QED BY <2>1, <2>2, <2>3, <2>4, Numbers DEF TypeOK
<1>2. TickInBounds
  BY SharesAreNumbers DEF Init, TickInBounds, NoOthers
<1>3. FailuresAreLatest
  BY Numbers DEF Init, FailuresAreLatest
<1> QED BY <1>1, <1>2, <1>3
        DEF Init, IInv, CalibratesOnce, BlockIfAsked, LeavesOthersTheirShare,
            CalibratedBeforeLaunch, NoBlockBesideOthers, GaveUpHoldsNothing,
            NoRetryWithinSpell

\* The last n launches recorded failed.
FailedLately(s, n) ==
  /\ n <= Len(s)
  /\ \A i \in 1 .. Len(s) : i > Len(s) - n => ~s[i]

\* Recording a launch keeps the record short; one more failure extends a run of
\* failures that is below the limit.
LEMMA RecordedOutcome ==
  ASSUME outcomes \in Seq(BOOLEAN), Len(outcomes) <= MaxFailures,
         NEW ok \in BOOLEAN, NEW n \in Nat, n < MaxFailures, FailedLately(outcomes, n)
  PROVE  /\ Recorded(ok) \in Seq(BOOLEAN)
         /\ Len(Recorded(ok)) <= MaxFailures
         /\ ~ok => FailedLately(Recorded(ok), n + 1)
<1> DEFINE all == Append(outcomes, ok)
<1>1. /\ all \in Seq(BOOLEAN) /\ Len(all) = Len(outcomes) + 1 /\ Len(outcomes) \in Nat
      /\ all[Len(all)] = ok
      /\ \A i \in 1 .. Len(outcomes) : all[i] = outcomes[i]
  OBVIOUS
<1>2. ~ok => FailedLately(all, n + 1)
  <2> HIDE DEF all
  <2> QED BY <1>1 DEF FailedLately
<1>3. /\ Tail(all) \in Seq(BOOLEAN) /\ Len(Tail(all)) = Len(outcomes)
      /\ \A i \in 1 .. Len(outcomes) : Tail(all)[i] = all[i + 1]
  <2> HIDE DEF all
  <2> QED BY <1>1
<1>4. Len(all) > MaxFailures /\ ~ok => FailedLately(Tail(all), n + 1)
  <2> HIDE DEF all
  <2> QED BY <1>1, <1>2, <1>3, Numbers DEF FailedLately
<1>5. Recorded(ok) = IF Len(all) > MaxFailures THEN Tail(all) ELSE all
  BY DEF Recorded
<1> HIDE DEF all
<1>6. CASE Len(all) > MaxFailures
  BY <1>1, <1>3, <1>4, <1>5, <1>6, Numbers
<1>7. CASE ~(Len(all) > MaxFailures)
  BY <1>1, <1>2, <1>5, <1>7, Numbers
<1> QED BY <1>6, <1>7

LEMMA CheckStopKeeps == IInv /\ CheckStop => IInv'
<1> SUFFICES ASSUME IInv, CheckStop PROVE IInv'
  OBVIOUS
<1>1. TypeOK'
  BY Numbers, SharesAreNumbers
  DEF IInv, TypeOK, PCs, CheckStop, inputs, history, thread, memory
<1>2. TickInBounds'
  BY SharesAreNumbers
  DEF IInv, TypeOK, TickInBounds, CheckStop, inputs, history, thread, memory
<1>3. FailuresAreLatest'
  BY Numbers
  DEF IInv, TypeOK, FailuresAreLatest, CheckStop, inputs, history, thread, memory
<1>4. LeavesOthersTheirShare'
  BY Numbers
  DEF IInv, TypeOK, LeavesOthersTheirShare, CheckStop, inputs, history, thread,
      memory
<1>5. NoBlockBesideOthers' /\ GaveUpHoldsNothing' /\ NoRetryWithinSpell' /\ BlockIfAsked'
  BY SharesAreNumbers
  DEF IInv, TypeOK, NoBlockBesideOthers, GaveUpHoldsNothing, NoRetryWithinSpell,
     BlockIfAsked, CheckStop, inputs, history, thread, memory
<1>6. CalibratesOnce' /\ CalibratedBeforeLaunch'
  BY SharesAreNumbers
  DEF IInv, CalibratesOnce, CalibratedBeforeLaunch, CheckStop, inputs, history,
      thread, memory
<1> QED BY <1>1, <1>2, <1>3, <1>4, <1>5, <1>6 DEF IInv

LEMMA ReadOthersKeeps == IInv /\ ReadOthers => IInv'
<1> SUFFICES ASSUME IInv, ReadOthers PROVE IInv'
  OBVIOUS
<1>1. TypeOK'
  BY Numbers, SharesAreNumbers
  DEF IInv, TypeOK, PCs, ReadOthers, inputs, history, thread, memory
<1>2. TickInBounds'
  BY SharesAreNumbers
  DEF IInv, TypeOK, TickInBounds, ReadOthers, inputs, history, thread, memory
<1>3. FailuresAreLatest'
  BY Numbers
  DEF IInv, TypeOK, FailuresAreLatest, ReadOthers, inputs, history, thread, memory
<1>4. LeavesOthersTheirShare'
  BY Numbers
  DEF IInv, TypeOK, LeavesOthersTheirShare, ReadOthers, inputs, history, thread,
      memory
<1>5. NoBlockBesideOthers' /\ GaveUpHoldsNothing' /\ NoRetryWithinSpell' /\ BlockIfAsked'
  BY SharesAreNumbers
  DEF IInv, TypeOK, NoBlockBesideOthers, GaveUpHoldsNothing, NoRetryWithinSpell,
     BlockIfAsked, ReadOthers, inputs, history, thread, memory
<1>6. CalibratesOnce' /\ CalibratedBeforeLaunch'
  BY SharesAreNumbers
  DEF IInv, CalibratesOnce, CalibratedBeforeLaunch, ReadOthers, inputs, history,
      thread, memory
<1> QED BY <1>1, <1>2, <1>3, <1>4, <1>5, <1>6 DEF IInv

LEMMA SyncKeeps == IInv /\ Sync => IInv'
<1> SUFFICES ASSUME IInv, Sync PROVE IInv'
  OBVIOUS
<1>1. TypeOK'
  BY Numbers, SharesAreNumbers
  DEF IInv, TypeOK, PCs, Sync, SyncMemory, inputs, history, thread, memory
<1>2. TickInBounds'
  BY SharesAreNumbers
  DEF IInv, TypeOK, TickInBounds, Sync, SyncMemory, inputs, history, thread, memory
<1>3. FailuresAreLatest'
  BY Numbers
  DEF IInv, TypeOK, FailuresAreLatest, Sync, SyncMemory, inputs, history, thread,
      memory
<1>4. LeavesOthersTheirShare'
  BY Numbers
  DEF IInv, TypeOK, LeavesOthersTheirShare, Sync, SyncMemory, inputs, history,
      thread, memory
<1>5. NoBlockBesideOthers' /\ GaveUpHoldsNothing' /\ NoRetryWithinSpell' /\ BlockIfAsked'
  BY SharesAreNumbers
  DEF IInv, TypeOK, NoBlockBesideOthers, GaveUpHoldsNothing, NoRetryWithinSpell,
     BlockIfAsked, TickInBounds, NoOthers, Sync, SyncMemory, inputs, history, thread, memory
<1>6. CalibratesOnce' /\ CalibratedBeforeLaunch'
  BY SharesAreNumbers
  DEF IInv, CalibratesOnce, CalibratedBeforeLaunch, Sync, SyncMemory, inputs,
      history, thread, memory
<1> QED BY <1>1, <1>2, <1>3, <1>4, <1>5, <1>6 DEF IInv

LEMMA ReadLoadKeeps == IInv /\ ReadLoad => IInv'
<1> SUFFICES ASSUME IInv, ReadLoad PROVE IInv'
  OBVIOUS
<1>1. TypeOK'
  BY BudgetLeavesShare, Numbers, SharesAreNumbers
  DEF IInv, TypeOK, PCs, ReadLoad, inputs, history, thread, memory
<1>2. TickInBounds'
  BY BudgetLeavesShare, SharesAreNumbers
  DEF IInv, TypeOK, TickInBounds, ReadLoad, inputs, history, thread, memory
<1>3. FailuresAreLatest'
  BY BudgetLeavesShare, Numbers
  DEF IInv, TypeOK, FailuresAreLatest, ReadLoad, inputs, history, thread, memory
<1>4. LeavesOthersTheirShare'
  <2>1. /\ loadSet \in 0 .. Period /\ loadSet <= maxLoad /\ maxLoad \in Int
        /\ others \in SharesHeld /\ minOthers \in SharesHeld /\ minOthers <= others
    BY SharesAreNumbers DEF IInv, TypeOK, TickInBounds, ReadLoad
  <2> DEFINE A == (Larger(minOthers, 0) * Period) \div MaxPercent
  <2>2. /\ Budget(loadSet, others) \in Int
        /\ Budget(loadSet, others) # 0 => Budget(loadSet, others) + A <= loadSet
    BY <2>1, BudgetLeavesShare
  <2>3. A \in Int
    <3>1. minOthers \in Int
      BY <2>1, SharesAreNumbers
    <3>2. Larger(minOthers, 0) \in Nat
      BY <3>1 DEF Larger
    <3> QED BY <3>2, Numbers, ShareIsNat
  <2>4. pc' = "launch" => Budget(loadSet, others) + A <= maxLoad
    <3> HIDE DEF A
    <3> QED BY <2>1, <2>2, <2>3, SharesAreNumbers DEF ReadLoad
  <2> QED BY <2>4 DEF LeavesOthersTheirShare, ReadLoad, history
<1>5. NoBlockBesideOthers' /\ GaveUpHoldsNothing' /\ NoRetryWithinSpell' /\ BlockIfAsked'
  BY BudgetLeavesShare, SharesAreNumbers
  DEF IInv, TypeOK, NoBlockBesideOthers, GaveUpHoldsNothing, NoRetryWithinSpell,
     BlockIfAsked, ReadLoad, inputs, history, thread, memory
<1>6. CalibratesOnce' /\ CalibratedBeforeLaunch'
  BY BudgetLeavesShare, SharesAreNumbers
  DEF IInv, CalibratesOnce, CalibratedBeforeLaunch, ReadLoad, inputs, history,
      thread, memory
<1> QED BY <1>1, <1>2, <1>3, <1>4, <1>5, <1>6 DEF IInv

LEMMA CalibrateKeeps == IInv /\ Calibrate => IInv'
<1> SUFFICES ASSUME IInv, Calibrate PROVE IInv'
  OBVIOUS
<1>1. TypeOK'
  BY Numbers, SharesAreNumbers
  DEF IInv, TypeOK, PCs, Calibrate, GiveUp, SyncMemory, inputs, history, thread,
      memory
<1>2. TickInBounds'
  BY SharesAreNumbers
  DEF IInv, TypeOK, TickInBounds, Calibrate, GiveUp, SyncMemory, inputs, history,
      thread, memory
<1>3. FailuresAreLatest'
  BY Numbers
  DEF IInv, TypeOK, FailuresAreLatest, CalibratesOnce, Calibrate, GiveUp,
      SyncMemory, inputs, history, thread, memory
<1>4. LeavesOthersTheirShare'
  BY Numbers
  DEF IInv, TypeOK, LeavesOthersTheirShare, Calibrate, GiveUp, SyncMemory, inputs,
      history, thread, memory
<1>5. NoBlockBesideOthers' /\ GaveUpHoldsNothing' /\ NoRetryWithinSpell' /\ BlockIfAsked'
  BY SharesAreNumbers
  DEF IInv, TypeOK, NoBlockBesideOthers, GaveUpHoldsNothing, NoRetryWithinSpell,
     BlockIfAsked, Calibrate, GiveUp, SyncMemory, inputs, history, thread, memory
<1>6. CalibratesOnce' /\ CalibratedBeforeLaunch'
  BY SharesAreNumbers
  DEF IInv, CalibratesOnce, CalibratedBeforeLaunch, Calibrate, GiveUp, SyncMemory,
      inputs, history, thread, memory
<1> QED BY <1>1, <1>2, <1>3, <1>4, <1>5, <1>6 DEF IInv

LEMMA SucceedsKeeps == IInv /\ LaunchSucceeds => IInv'
<1> SUFFICES ASSUME IInv, LaunchSucceeds PROVE IInv'
  OBVIOUS
<1>0. /\ outcomes \in Seq(BOOLEAN) /\ Len(outcomes) <= MaxFailures
      /\ failures \in Nat /\ failures < MaxFailures
      /\ FailedLately(outcomes, failures)
  BY Numbers DEF IInv, TypeOK, FailuresAreLatest, FailedLately, LaunchSucceeds
<1>a. /\ Recorded(TRUE) \in Seq(BOOLEAN) /\ Len(Recorded(TRUE)) <= MaxFailures
      /\ outcomes' = Recorded(TRUE)
  BY <1>0, RecordedOutcome DEF LaunchSucceeds
<1>1. TypeOK'
  <2>1. failures' \in 0 .. MaxFailures
    BY <1>0, Numbers DEF LaunchSucceeds
  <2>2. pc' \in PCs /\ memHeld' \in BOOLEAN /\ memFailed' \in BOOLEAN
    BY DEF IInv, TypeOK, PCs, memory, LaunchSucceeds
  <2> QED BY <1>a, <2>1, <2>2 DEF IInv, TypeOK, inputs, LaunchSucceeds
<1>2. TickInBounds'
  BY SharesAreNumbers
  DEF IInv, TypeOK, TickInBounds, LaunchSucceeds, Recorded, inputs, history, thread,
      memory
<1>3. FailuresAreLatest'
  <2>0. \A s \in Seq(BOOLEAN) : Len(s) \in Nat
    OBVIOUS
  <2>1. failures' = 0 /\ pc' = "sleep" /\ Len(outcomes') \in Nat
    BY <1>a, <2>0 DEF LaunchSucceeds
  <2>2. /\ failures' <= Len(outcomes')
        /\ \A i \in 1 .. Len(outcomes') : ~(i > Len(outcomes') - failures')
    BY <2>1
  <2>3. failures' < MaxFailures /\ ~(pc' = "gaveup")
    BY <2>1, Numbers
  <2> QED BY <2>2, <2>3 DEF FailuresAreLatest
<1>4. LeavesOthersTheirShare'
  BY Numbers
  DEF IInv, TypeOK, LeavesOthersTheirShare, LaunchSucceeds, Recorded, inputs,
      history, thread, memory
<1>5. NoBlockBesideOthers' /\ GaveUpHoldsNothing' /\ NoRetryWithinSpell' /\ BlockIfAsked'
  BY SharesAreNumbers
  DEF IInv, TypeOK, NoBlockBesideOthers, GaveUpHoldsNothing, NoRetryWithinSpell,
     BlockIfAsked, LaunchSucceeds, inputs, history, thread, memory
<1>6. CalibratesOnce' /\ CalibratedBeforeLaunch'
  BY SharesAreNumbers
  DEF IInv, CalibratesOnce, CalibratedBeforeLaunch, LaunchSucceeds, Recorded,
      inputs, history, thread, memory
<1> QED BY <1>1, <1>2, <1>3, <1>4, <1>5, <1>6 DEF IInv

LEMMA FailsKeeps == IInv /\ LaunchFails => IInv'
<1> SUFFICES ASSUME IInv, LaunchFails PROVE IInv'
  OBVIOUS
<1>0. /\ outcomes \in Seq(BOOLEAN) /\ Len(outcomes) <= MaxFailures
      /\ failures \in Nat /\ failures < MaxFailures
      /\ FailedLately(outcomes, failures)
  BY Numbers DEF IInv, TypeOK, FailuresAreLatest, FailedLately, LaunchFails
<1>a. /\ Recorded(FALSE) \in Seq(BOOLEAN) /\ Len(Recorded(FALSE)) <= MaxFailures
      /\ outcomes' = Recorded(FALSE)
      /\ FailedLately(Recorded(FALSE), failures + 1)
  BY <1>0, RecordedOutcome DEF LaunchFails
<1>1. TypeOK'
  <2>1. failures' \in 0 .. MaxFailures
    BY <1>0, Numbers DEF LaunchFails
  <2>2. pc' \in PCs /\ memHeld' \in BOOLEAN /\ memFailed' \in BOOLEAN
    BY DEF IInv, TypeOK, PCs, memory, LaunchFails, GiveUp, SyncMemory
  <2> QED BY <1>a, <2>1, <2>2 DEF IInv, TypeOK, inputs, LaunchFails
<1>2. TickInBounds'
  BY SharesAreNumbers
  DEF IInv, TypeOK, TickInBounds, LaunchFails, Recorded, GiveUp, SyncMemory, inputs,
      history, thread, memory
<1>3. FailuresAreLatest'
  <2>1. /\ failures' = failures + 1
        /\ FailedLately(outcomes', failures')
        /\ pc' = IF failures + 1 >= MaxFailures THEN "gaveup" ELSE "sleep"
    BY <1>a DEF LaunchFails, GiveUp
  <2> QED BY <1>0, <2>1, Numbers DEF FailuresAreLatest, FailedLately
<1>4. LeavesOthersTheirShare'
  BY Numbers
  DEF IInv, TypeOK, LeavesOthersTheirShare, LaunchFails, Recorded, GiveUp,
      SyncMemory, inputs, history, thread, memory
<1>5. NoBlockBesideOthers' /\ GaveUpHoldsNothing' /\ NoRetryWithinSpell' /\ BlockIfAsked'
  BY SharesAreNumbers
  DEF IInv, TypeOK, NoBlockBesideOthers, GaveUpHoldsNothing, NoRetryWithinSpell,
     BlockIfAsked, LaunchFails, GiveUp, SyncMemory, inputs, history, thread, memory
<1>6. CalibratesOnce' /\ CalibratedBeforeLaunch'
  BY SharesAreNumbers
  DEF IInv, CalibratesOnce, CalibratedBeforeLaunch, LaunchFails, Recorded, GiveUp,
      SyncMemory, inputs, history, thread, memory
<1> QED BY <1>1, <1>2, <1>3, <1>4, <1>5, <1>6 DEF IInv

LEMMA SleepKeeps == IInv /\ Sleep => IInv'
<1> SUFFICES ASSUME IInv, Sleep PROVE IInv'
  OBVIOUS
<1>1. TypeOK'
  BY Numbers, SharesAreNumbers
  DEF IInv, TypeOK, PCs, Sleep, inputs, history, thread, memory
<1>2. TickInBounds'
  BY SharesAreNumbers
  DEF IInv, TypeOK, TickInBounds, Sleep, inputs, history, thread, memory
<1>3. FailuresAreLatest'
  BY Numbers DEF IInv, TypeOK, FailuresAreLatest, Sleep, inputs, history, thread, memory
<1>4. LeavesOthersTheirShare'
  BY Numbers
  DEF IInv, TypeOK, LeavesOthersTheirShare, Sleep, inputs, history, thread, memory
<1>5. NoBlockBesideOthers' /\ GaveUpHoldsNothing' /\ NoRetryWithinSpell' /\ BlockIfAsked'
  BY SharesAreNumbers
  DEF IInv, TypeOK, NoBlockBesideOthers, GaveUpHoldsNothing, NoRetryWithinSpell,
     BlockIfAsked, Sleep, inputs, history, thread, memory
<1>6. CalibratesOnce' /\ CalibratedBeforeLaunch'
  BY SharesAreNumbers
  DEF IInv, CalibratesOnce, CalibratedBeforeLaunch, Sleep, inputs, history, thread,
      memory
<1> QED BY <1>1, <1>2, <1>3, <1>4, <1>5, <1>6 DEF IInv

LEMMA StartKeeps == IInv /\ Start => IInv'
<1> SUFFICES ASSUME IInv, Start PROVE IInv'
  OBVIOUS
<1>1. TypeOK'
  BY Numbers, SharesAreNumbers
  DEF IInv, TypeOK, PCs, Start, inputs, history, thread, memory
<1>2. TickInBounds'
  BY SharesAreNumbers
  DEF IInv, TypeOK, TickInBounds, Start, inputs, history, thread, memory
<1>3. FailuresAreLatest'
  BY Numbers DEF IInv, TypeOK, FailuresAreLatest, Start, inputs, history, thread, memory
<1>4. LeavesOthersTheirShare'
  BY Numbers
  DEF IInv, TypeOK, LeavesOthersTheirShare, Start, inputs, history, thread, memory
<1>5. NoBlockBesideOthers' /\ GaveUpHoldsNothing' /\ NoRetryWithinSpell' /\ BlockIfAsked'
  BY SharesAreNumbers
  DEF IInv, TypeOK, NoBlockBesideOthers, GaveUpHoldsNothing, NoRetryWithinSpell,
     BlockIfAsked, Start, inputs, history, thread, memory
<1>6. CalibratesOnce' /\ CalibratedBeforeLaunch'
  BY SharesAreNumbers
  DEF IInv, CalibratesOnce, CalibratedBeforeLaunch, Start, inputs, history, thread,
      memory
<1> QED BY <1>1, <1>2, <1>3, <1>4, <1>5, <1>6 DEF IInv

LEMMA SetOthersKeeps ==
  ASSUME IInv, NEW percent \in Percents \cup {NoOthers}, SetOthers(percent)
  PROVE  IInv'
<1>1. /\ othersPct' \in SharesHeld /\ minOthers \in SharesHeld
      /\ minOthers' = Smaller(minOthers, othersPct')
  BY DEF IInv, TypeOK, SetOthers, SharesHeld
<1>2. /\ minOthers' \in SharesHeld /\ minOthers' \in Int /\ minOthers \in Int
      /\ othersPct' \in Int /\ minOthers' <= othersPct' /\ minOthers' <= minOthers
  BY <1>1, SharesAreNumbers DEF Smaller
<1>3. UNCHANGED <<pc, others, target, memHeld, memFailed, calibrated, failures,
                  stop, loadSet, health, maxLoad, outcomes>>
  BY DEF SetOthers, thread, memory
<1>4. TypeOK'
  BY <1>1, <1>2, <1>3 DEF IInv, TypeOK
<1>5. TickInBounds'
  <2>1. others \in Int
    BY SharesAreNumbers DEF IInv, TypeOK
  <2> QED BY <1>2, <1>3, <2>1 DEF IInv, TickInBounds
<1>6. LeavesOthersTheirShare'
  <2> SUFFICES ASSUME pc = "launch"
               PROVE  target + (Larger(minOthers', 0) * Period) \div MaxPercent <= maxLoad
    BY <1>3 DEF LeavesOthersTheirShare
  <2> DEFINE a == Larger(minOthers', 0)
             b == Larger(minOthers, 0)
             A == (a * Period) \div MaxPercent
             B == (b * Period) \div MaxPercent
  <2>1. a \in Nat /\ b \in Nat /\ a <= b
    BY <1>2 DEF Larger
  <2>2. A \in Nat /\ B \in Nat /\ A <= B
    <3> HIDE DEF a, b
    <3> QED BY <2>1, Numbers, ShareMonotone, ShareIsNat
  <2>3. target + B <= maxLoad /\ target \in Int /\ maxLoad \in Int
    BY Numbers DEF IInv, TypeOK, LeavesOthersTheirShare
  <2> HIDE DEF A, B
  <2>4. target + A <= maxLoad
    BY <2>2, <2>3
  <2> QED BY <2>4 DEF A
<1>7. NoBlockBesideOthers'
  BY <1>2, <1>3 DEF IInv, NoBlockBesideOthers
<1> QED
  BY <1>3, <1>4, <1>5, <1>6, <1>7
  DEF IInv, FailuresAreLatest, CalibratesOnce, BlockIfAsked, CalibratedBeforeLaunch,
      GaveUpHoldsNothing, NoRetryWithinSpell

LEMMA SetLoadSetKeeps ==
  ASSUME IInv, NEW load \in Loads, SetLoadSet(load)
  PROVE  IInv'
<1>1. TypeOK'
  BY Numbers, SharesAreNumbers
  DEF IInv, TypeOK, PCs, SetLoadSet, Larger, inputs, history, thread, memory
<1>2. TickInBounds'
  BY SharesAreNumbers
  DEF IInv, TypeOK, TickInBounds, SetLoadSet, Larger, inputs, history, thread,
      memory
<1>3. FailuresAreLatest'
  BY Numbers
  DEF IInv, TypeOK, FailuresAreLatest, SetLoadSet, Larger, inputs, history, thread,
      memory
<1>4. LeavesOthersTheirShare'
  <2> DEFINE A == (Larger(minOthers, 0) * Period) \div MaxPercent
  <2>1. maxLoad' \in Int /\ maxLoad \in Int /\ maxLoad <= maxLoad' /\ target \in Int
    BY SharesAreNumbers DEF IInv, TypeOK, SetLoadSet, Larger
  <2>2. A \in Int
    <3>1. minOthers \in Int
      BY SharesAreNumbers DEF IInv, TypeOK
    <3>2. Larger(minOthers, 0) \in Nat
      BY <3>1 DEF Larger
    <3> QED BY <3>2, Numbers, ShareIsNat
  <2>3. pc = "launch" => target + A <= maxLoad
    BY DEF IInv, LeavesOthersTheirShare
  <2> HIDE DEF A
  <2>4. pc = "launch" => target + A <= maxLoad'
    BY <2>1, <2>2, <2>3
  <2> QED BY <2>4 DEF A, LeavesOthersTheirShare, SetLoadSet, thread
<1>5. NoBlockBesideOthers' /\ GaveUpHoldsNothing' /\ NoRetryWithinSpell' /\ BlockIfAsked'
  BY SharesAreNumbers
  DEF IInv, TypeOK, NoBlockBesideOthers, GaveUpHoldsNothing, NoRetryWithinSpell,
     BlockIfAsked, SetLoadSet, Larger, inputs, history, thread, memory
<1>6. CalibratesOnce' /\ CalibratedBeforeLaunch'
  BY SharesAreNumbers
  DEF IInv, CalibratesOnce, CalibratedBeforeLaunch, SetLoadSet, Larger, inputs,
      history, thread, memory
<1> QED BY <1>1, <1>2, <1>3, <1>4, <1>5, <1>6 DEF IInv

LEMMA RequestStopKeeps == IInv /\ RequestStop => IInv'
<1> SUFFICES ASSUME IInv, RequestStop PROVE IInv'
  OBVIOUS
<1>1. TypeOK'
  BY Numbers, SharesAreNumbers
  DEF IInv, TypeOK, PCs, RequestStop, inputs, history, thread, memory
<1>2. TickInBounds'
  BY SharesAreNumbers
  DEF IInv, TypeOK, TickInBounds, RequestStop, inputs, history, thread, memory
<1>3. FailuresAreLatest'
  BY Numbers
  DEF IInv, TypeOK, FailuresAreLatest, RequestStop, inputs, history, thread, memory
<1>4. LeavesOthersTheirShare'
  BY Numbers
  DEF IInv, TypeOK, LeavesOthersTheirShare, RequestStop, inputs, history, thread,
      memory
<1>5. NoBlockBesideOthers' /\ GaveUpHoldsNothing' /\ NoRetryWithinSpell' /\ BlockIfAsked'
  BY SharesAreNumbers
  DEF IInv, TypeOK, NoBlockBesideOthers, GaveUpHoldsNothing, NoRetryWithinSpell,
     BlockIfAsked, RequestStop, inputs, history, thread, memory
<1>6. CalibratesOnce' /\ CalibratedBeforeLaunch'
  BY SharesAreNumbers
  DEF IInv, CalibratesOnce, CalibratedBeforeLaunch, RequestStop, inputs, history,
      thread, memory
<1> QED BY <1>1, <1>2, <1>3, <1>4, <1>5, <1>6 DEF IInv

LEMMA DestroyKeeps == IInv /\ Destroy => IInv'
<1> SUFFICES ASSUME IInv, Destroy PROVE IInv'
  OBVIOUS
<1>1. TypeOK'
  BY Numbers, SharesAreNumbers
  DEF IInv, TypeOK, PCs, Destroy, inputs, history, thread, memory
<1>2. TickInBounds'
  BY SharesAreNumbers
  DEF IInv, TypeOK, TickInBounds, Destroy, inputs, history, thread, memory
<1>3. FailuresAreLatest'
  BY Numbers
  DEF IInv, TypeOK, FailuresAreLatest, Destroy, inputs, history, thread, memory
<1>4. LeavesOthersTheirShare'
  BY Numbers
  DEF IInv, TypeOK, LeavesOthersTheirShare, Destroy, inputs, history, thread, memory
<1>5. NoBlockBesideOthers' /\ GaveUpHoldsNothing' /\ NoRetryWithinSpell' /\ BlockIfAsked'
  BY SharesAreNumbers
  DEF IInv, TypeOK, NoBlockBesideOthers, GaveUpHoldsNothing, NoRetryWithinSpell,
     BlockIfAsked, Destroy, inputs, history, thread, memory
<1>6. CalibratesOnce' /\ CalibratedBeforeLaunch'
  BY SharesAreNumbers
  DEF IInv, CalibratesOnce, CalibratedBeforeLaunch, Destroy, inputs, history,
      thread, memory
<1> QED BY <1>1, <1>2, <1>3, <1>4, <1>5, <1>6 DEF IInv

LEMMA SetHealthKeeps ==
  ASSUME IInv, NEW h \in Healths, SetHealth(h)
  PROVE  IInv'
<1>1. TypeOK'
  BY Numbers, SharesAreNumbers
  DEF IInv, TypeOK, PCs, SetHealth, inputs, history, thread, memory
<1>2. TickInBounds'
  BY SharesAreNumbers
  DEF IInv, TypeOK, TickInBounds, SetHealth, inputs, history, thread, memory
<1>3. FailuresAreLatest'
  BY Numbers
  DEF IInv, TypeOK, FailuresAreLatest, SetHealth, inputs, history, thread, memory
<1>4. LeavesOthersTheirShare'
  BY Numbers
  DEF IInv, TypeOK, LeavesOthersTheirShare, SetHealth, inputs, history, thread,
      memory
<1>5. NoBlockBesideOthers' /\ GaveUpHoldsNothing' /\ NoRetryWithinSpell' /\ BlockIfAsked'
  BY SharesAreNumbers
  DEF IInv, TypeOK, NoBlockBesideOthers, GaveUpHoldsNothing, NoRetryWithinSpell,
     BlockIfAsked, SetHealth, inputs, history, thread, memory
<1>6. CalibratesOnce' /\ CalibratedBeforeLaunch'
  BY SharesAreNumbers
  DEF IInv, CalibratesOnce, CalibratedBeforeLaunch, SetHealth, inputs, history,
      thread, memory
<1> QED BY <1>1, <1>2, <1>3, <1>4, <1>5, <1>6 DEF IInv

-----------------------------------------------------------------------------

LEMMA WorkerKeepsIInv == IInv /\ Worker => IInv'
  BY CheckStopKeeps, ReadOthersKeeps, SyncKeeps, ReadLoadKeeps, CalibrateKeeps,
     SucceedsKeeps, FailsKeeps, SleepKeeps
  DEF Worker

LEMMA EnvironmentKeepsIInv == IInv /\ Environment => IInv'
  BY StartKeeps, SetOthersKeeps, SetLoadSetKeeps, RequestStopKeeps, DestroyKeeps,
     SetHealthKeeps
  DEF Environment

LEMMA StutteringKeepsIInv == IInv /\ UNCHANGED vars => IInv'
  BY DEF vars, thread, memory, inputs, history, IInv, TypeOK, TickInBounds,
         FailuresAreLatest, CalibratesOnce, BlockIfAsked, LeavesOthersTheirShare,
         CalibratedBeforeLaunch, NoBlockBesideOthers, GaveUpHoldsNothing,
         NoRetryWithinSpell

\* The inductive invariant, for every behaviour of the worker and of the
\* threads around it.
THEOREM WorkerInvariant == Spec => []IInv
<1>1. IInv /\ [Next]_vars => IInv'
  BY WorkerKeepsIInv, EnvironmentKeepsIInv, StutteringKeepsIInv DEF Next
<1> QED BY <1>1, InitIInv, PTL DEF Spec

\* Every variable stays within its type; in particular a tick's budget is never
\* negative nor more than a period.
THEOREM WorkerTypeCorrect == Spec => []TypeOK
<1>1. IInv => TypeOK
  BY DEF IInv
<1> QED BY <1>1, WorkerInvariant, PTL

\* The launch of a tick and the least share others were reported to have since
\* the tick began fit in the load asked for, however shares and loads change
\* while the worker is between reading one and the other.
THEOREM OthersKeepTheirShare == Spec => []LeavesOthersTheirShare
<1>1. IInv => LeavesOthersTheirShare
  BY DEF IInv
<1> QED BY <1>1, WorkerInvariant, PTL

\* The `-gm` block is gone before the tick that sees others on the device goes
\* on to its load.
THEOREM BlockYields == Spec => []NoBlockBesideOthers
<1>1. IInv => NoBlockBesideOthers
  BY DEF IInv
<1> QED BY <1>1, WorkerInvariant, PTL

\* A worker that has given its device up holds no block on it.
THEOREM GaveUpFreesBlock == Spec => []GaveUpHoldsNothing
<1>1. IInv => GaveUpHoldsNothing
  BY DEF IInv
<1> QED BY <1>1, WorkerInvariant, PTL

\* A calibrated device is given up only after the limit of failures in a row.
THEOREM GivesUpForReason == Spec => []GivenUpAfterFailuresInARow
<1>1. IInv => GivenUpAfterFailuresInARow
  <2> SUFFICES ASSUME IInv, pc = "gaveup", calibrated
               PROVE  /\ Len(outcomes) = MaxFailures
                      /\ \A i \in 1 .. MaxFailures : ~outcomes[i]
    BY DEF GivenUpAfterFailuresInARow
  <2>1. /\ failures = MaxFailures /\ failures <= Len(outcomes)
        /\ Len(outcomes) <= MaxFailures /\ Len(outcomes) \in Nat
        /\ \A i \in 1 .. Len(outcomes) : i > Len(outcomes) - failures => ~outcomes[i]
    BY DEF IInv, TypeOK, FailuresAreLatest
  <2>2. Len(outcomes) = MaxFailures
    BY <2>1, Numbers
  <2> QED BY <2>1, <2>2, Numbers
<1> QED BY <1>1, WorkerInvariant, PTL

\* The kernel is never launched for a tick with a loop count nobody measured.
THEOREM LaunchesCalibrated == Spec => []CalibratedBeforeLaunch
<1>1. IInv => CalibratedBeforeLaunch
  BY DEF IInv
<1> QED BY <1>1, WorkerInvariant, PTL

=============================================================================
