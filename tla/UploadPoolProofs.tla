-------------------------- MODULE UploadPoolProofs --------------------------
(***************************************************************************)
(* What holds of the upload pools for every number of batches of every     *)
(* size.  The counters of a batch are followed together: what is open and  *)
(* what has ended are what was opened, and places are free only when no    *)
(* file waits.                                                             *)
(***************************************************************************)
EXTENDS UploadPool, FiniteSetTheorems, TLAPS

\* The counters of a batch.
CountsOK(b) ==
  /\ idx[b] <= total[b] /\ active[b] + uploaded[b] = idx[b]
  /\ active[b] <= 3 /\ (idx[b] < total[b] => active[b] = 3)

\* The requests behind them.
EndedOK(b) == ended[b] \subseteq 1..idx[b] /\ Cardinality(ended[b]) = uploaded[b]

\* The overlay is hidden, or about to be, only before the first batch and
\* after the end of one.
OverlayOK ==
  (\A b \in Batches : ~Finished(b)) =>
    timers = 0 /\ (~visible => \A b \in Batches : active[b] = 0)

IInv == TypeOK /\ (\A b \in Batches : CountsOK(b) /\ EndedOK(b)) /\ OverlayOK
-----------------------------------------------------------------------------
LEMMA UpTo ==
  ASSUME NEW n \in Nat
  PROVE  IsFiniteSet(1..n) /\ Cardinality(1..n) = n
<1>1. IsFiniteSet(1..n) /\ Cardinality(1..n) = IF 1 > n THEN 0 ELSE n - 1 + 1
    BY FS_Interval
<1> QED
    BY <1>1

LEMMA InitIInv == Init => IInv
<1> SUFFICES ASSUME Init PROVE IInv
    OBVIOUS
<1> USE MaxFilesAssumption
<1>1. TypeOK
  <2>1. ended \in [Batches -> SUBSET (1..MaxFiles)]
      BY DEF Init
  <2>2. 0 \in 0..MaxFiles /\ 0 \in Nat
      OBVIOUS
  <2> QED
      BY <2>1, <2>2 DEF Init, TypeOK
<1>2. ASSUME NEW b \in Batches PROVE CountsOK(b) /\ EndedOK(b)
    BY FS_EmptySet DEF Init, CountsOK, EndedOK
<1>3. OverlayOK
    BY DEF Init, OverlayOK
<1> QED
    BY <1>1, <1>2, <1>3 DEF IInv

\* What has ended is finite, and one request more still was opened.
LEMMA PendingCounts ==
  ASSUME IInv, NEW b \in Batches
  PROVE  /\ IsFiniteSet(ended[b])
         /\ Cardinality(Pending(b)) = active[b]
         /\ \A f \in Pending(b) : active[b] >= 1
<1> USE MaxFilesAssumption
<1>1. idx[b] \in Nat /\ uploaded[b] \in Nat /\ active[b] \in Nat
    BY DEF IInv, TypeOK
<1>2. IsFiniteSet(1..idx[b]) /\ Cardinality(1..idx[b]) = idx[b]
    BY <1>1, UpTo
<1>3. ended[b] \subseteq 1..idx[b] /\ Cardinality(ended[b]) = uploaded[b]
    BY DEF IInv, EndedOK
<1>4. IsFiniteSet(ended[b])
    BY <1>2, <1>3, FS_Subset
<1>5. (1..idx[b]) \cap ended[b] = ended[b]
    BY <1>3
<1>6. IsFiniteSet(Pending(b)) /\ Cardinality(Pending(b)) = idx[b] - uploaded[b]
  <2>1. /\ IsFiniteSet((1..idx[b]) \ ended[b])
        /\ Cardinality((1..idx[b]) \ ended[b])
             = Cardinality(1..idx[b]) - Cardinality((1..idx[b]) \cap ended[b])
      BY <1>2, <1>4, FS_Difference
  <2> QED
      BY ONLY <2>1, <1>2, <1>3, <1>5 DEF Pending
<1>7. idx[b] - uploaded[b] = active[b]
    BY <1>1 DEF IInv, CountsOK
<1>8. ASSUME NEW f \in Pending(b) PROVE active[b] >= 1
  <2>1. Cardinality(Pending(b)) # 0
      BY <1>6, FS_EmptySet
  <2> QED
      BY <2>1, <1>1, <1>6, <1>7
<1> QED
    BY <1>4, <1>6, <1>7, <1>8

\* Room never opens more than fit or wait, and fills all places it can.
LEMMA RoomFits ==
  ASSUME NEW a \in 0..3, NEW rest \in Nat
  PROVE  /\ Room(a, rest) \in Nat /\ Room(a, rest) <= rest /\ a + Room(a, rest) <= 3
         /\ Room(a, rest) < rest => a + Room(a, rest) = 3
BY DEF Room

LEMMA StepStart ==
  ASSUME IInv, NEW b \in Batches, NEW n \in 1..MaxFiles, UploadFiles(b, n)
  PROVE  IInv'
<1> USE MaxFilesAssumption
<1>1. Room(0, n) \in Nat /\ Room(0, n) <= n /\ Room(0, n) <= 3
        /\ (Room(0, n) < n => Room(0, n) = 3)
    BY RoomFits
<1>2. TypeOK'
    BY <1>1 DEF IInv, TypeOK, UploadFiles
<1>3. uploaded[b] = 0 /\ idx[b] = 0 /\ ended[b] = {}
  <2>1. idx[b] \in Nat /\ uploaded[b] \in Nat /\ active[b] \in Nat /\ total[b] = 0
      BY DEF IInv, TypeOK, UploadFiles
  <2>2. idx[b] <= total[b] /\ active[b] + uploaded[b] = idx[b] /\ ended[b] \subseteq 1..idx[b]
      BY DEF IInv, CountsOK, EndedOK
  <2>3. uploaded[b] = 0 /\ idx[b] = 0
      BY <2>1, <2>2
  <2> QED
      BY <2>2, <2>3
<1>4. ASSUME NEW c \in Batches PROVE CountsOK(c)' /\ EndedOK(c)'
  <2>1. CASE c = b
    <3>1. total'[b] = n /\ idx'[b] = Room(0, n) /\ active'[b] = Room(0, n)
            /\ uploaded'[b] = 0 /\ ended'[b] = {}
        BY <1>3 DEF UploadFiles, IInv, TypeOK
    <3> QED
        BY <2>1, <3>1, <1>1, FS_EmptySet DEF CountsOK, EndedOK
  <2>2. CASE c # b
      BY <2>2 DEF UploadFiles, IInv, TypeOK, CountsOK, EndedOK
  <2> QED
      BY <2>1, <2>2
<1>5. OverlayOK'
  <2>1. SUFFICES ASSUME \A c \in Batches : ~Finished(c)'
                 PROVE  timers' = 0 /\ visible'
      BY DEF OverlayOK
  <2>2. ASSUME NEW c \in Batches PROVE ~Finished(c)
      BY <2>1 DEF Finished, UploadFiles, IInv, TypeOK
  <2> QED
      BY <2>2 DEF UploadFiles, IInv, OverlayOK
<1> QED
    BY <1>2, <1>4, <1>5 DEF IInv

LEMMA StepEnds ==
  ASSUME IInv, NEW b \in Batches, NEW f \in 1..MaxFiles, RequestEnds(b, f)
  PROVE  IInv'
<1> USE MaxFilesAssumption
<1> DEFINE more == IF uploaded[b] + 1 >= total[b] THEN 0
                   ELSE Room(active[b] - 1, total[b] - idx[b])
<1>1. /\ idx[b] \in 0..MaxFiles /\ uploaded[b] \in Nat /\ active[b] \in Nat
      /\ total[b] \in 0..MaxFiles /\ timers \in Nat
      /\ idx[b] <= total[b] /\ active[b] + uploaded[b] = idx[b] /\ active[b] <= 3
      /\ idx[b] < total[b] => active[b] = 3
    BY DEF IInv, TypeOK, CountsOK
<1>2. active[b] >= 1 /\ f \in 1..idx[b] /\ f \notin ended[b] /\ IsFiniteSet(ended[b])
    BY PendingCounts DEF RequestEnds, Pending
<1>3. /\ more \in Nat /\ idx[b] + more <= total[b] /\ active[b] - 1 + more <= 3
      /\ idx[b] + more < total[b] => active[b] - 1 + more = 3
  <2>1. CASE uploaded[b] + 1 >= total[b]
      BY <2>1, <1>1, <1>2
  <2>2. CASE ~(uploaded[b] + 1 >= total[b])
    <3>1. active[b] - 1 \in 0..3 /\ total[b] - idx[b] \in Nat
        BY <1>1, <1>2
    <3>2. /\ more \in Nat /\ more <= total[b] - idx[b] /\ active[b] - 1 + more <= 3
          /\ more < total[b] - idx[b] => active[b] - 1 + more = 3
        BY <2>2, <3>1, RoomFits
    <3> QED
        BY <3>1, <3>2, <1>1
  <2> QED
      BY <2>1, <2>2
<1>4. /\ active' = [active EXCEPT ![b] = active[b] - 1 + more]
      /\ uploaded' = [uploaded EXCEPT ![b] = uploaded[b] + 1]
      /\ idx' = [idx EXCEPT ![b] = idx[b] + more]
      /\ ended' = [ended EXCEPT ![b] = ended[b] \cup {f}]
      /\ visible' = TRUE /\ total' = total /\ timers' = TimersAfter(b)
    BY DEF RequestEnds, Callback
<1> HIDE DEF more
<1>5. TypeOK'
  <2>1. active[b] - 1 + more \in 0..MaxFiles /\ idx[b] + more \in 0..MaxFiles
          /\ uploaded[b] + 1 \in 0..MaxFiles
      BY <1>1, <1>2, <1>3
  <2>2. active' \in [Batches -> 0..MaxFiles] /\ idx' \in [Batches -> 0..MaxFiles]
          /\ uploaded' \in [Batches -> 0..MaxFiles]
      BY <1>4, <2>1 DEF IInv, TypeOK
  <2>3. ended' \in [Batches -> SUBSET (1..MaxFiles)]
      BY <1>4 DEF IInv, TypeOK
  <2>4. timers' \in Nat
      BY <1>1, <1>4 DEF TimersAfter
  <2> QED
      BY <1>4, <2>2, <2>3, <2>4 DEF IInv, TypeOK
<1>6. ASSUME NEW c \in Batches PROVE CountsOK(c)' /\ EndedOK(c)'
  <2>1. CASE c = b
    <3>1. /\ active'[b] = active[b] - 1 + more /\ uploaded'[b] = uploaded[b] + 1
          /\ idx'[b] = idx[b] + more /\ ended'[b] = ended[b] \cup {f} /\ total'[b] = total[b]
        BY <1>4 DEF IInv, TypeOK
    <3>2. CountsOK(b)'
        BY <3>1, <1>1, <1>3 DEF CountsOK
    <3>3. ended'[b] \subseteq 1..idx'[b]
        BY <3>1, <1>1, <1>2, <1>3 DEF IInv, EndedOK
    <3>4. Cardinality(ended'[b]) = uploaded'[b]
        BY <3>1, <1>2, FS_AddElement DEF IInv, EndedOK
    <3> QED
        BY <2>1, <3>2, <3>3, <3>4 DEF EndedOK
  <2>2. CASE c # b
      BY <2>2, <1>4 DEF IInv, TypeOK, CountsOK, EndedOK
  <2> QED
      BY <2>1, <2>2
<1>7. OverlayOK'
  <2>1. SUFFICES ASSUME \A c \in Batches : ~Finished(c)'
                 PROVE  timers' = 0
      BY <1>4 DEF OverlayOK
  <2>2. ~(uploaded[b] + 1 >= total[b])
    <3>1. uploaded'[b] = uploaded[b] + 1 /\ total'[b] = total[b]
        BY <1>4 DEF IInv, TypeOK
    <3> QED
        BY <2>1, <3>1, <1>1, <1>2 DEF Finished
  <2>3. ASSUME NEW c \in Batches PROVE ~Finished(c)
    <3>1. CASE c = b
        BY <3>1, <2>2, <1>1 DEF Finished
    <3>2. CASE c # b
        BY <3>2, <2>1, <1>4 DEF Finished, IInv, TypeOK
    <3> QED
        BY <3>1, <3>2
  <2> QED
      BY <2>2, <2>3, <1>4 DEF TimersAfter, IInv, OverlayOK
<1> QED
    BY <1>5, <1>6, <1>7 DEF IInv

LEMMA StepHide == ASSUME IInv, HideProgress PROVE IInv'
<1>1. \E b \in Batches : Finished(b)
    BY DEF HideProgress, IInv, OverlayOK, TypeOK
<1>2. (\E b \in Batches : Finished(b))'
    BY <1>1 DEF HideProgress, pool, Finished
<1>3. OverlayOK'
    BY <1>2 DEF OverlayOK
<1>4. TypeOK'
  <2>1. timers' \in Nat
      BY SMT DEF HideProgress, IInv, TypeOK
  <2>2. visible' \in BOOLEAN
      BY Zenon DEF HideProgress
  <2>3. UNCHANGED <<total, idx, active, uploaded, ended>>
      BY DEF HideProgress, pool
  <2> QED
      BY <2>1, <2>2, <2>3 DEF IInv, TypeOK
<1>5. (\A b \in Batches : CountsOK(b) /\ EndedOK(b))'
    BY DEF HideProgress, pool, IInv, CountsOK, EndedOK
<1> QED
    BY <1>3, <1>4, <1>5 DEF IInv

LEMMA StepIInv == IInv /\ [Next]_vars => IInv'
<1> SUFFICES ASSUME IInv, [Next]_vars PROVE IInv'
    OBVIOUS
<1>1. CASE Next
    BY <1>1, StepStart, StepEnds, StepHide DEF Next
<1>2. CASE UNCHANGED vars
    BY <1>2 DEF vars, pool, IInv, TypeOK, CountsOK, EndedOK, OverlayOK, Finished
<1> QED
    BY <1>1, <1>2

LEMMA IInvAlways == Spec => []IInv
<1> QED
    BY InitIInv, StepIInv, PTL DEF Spec

\* The counters keep their types; no file index is ever passed.
THEOREM TypeCorrect == Spec => []TypeOK
<1>1. IInv => TypeOK
    BY DEF IInv
<1> QED
    BY <1>1, IInvAlways, PTL

\* However many batches of whatever size run beside each other, each has at
\* most three requests open, and three as long as files wait (uploadFiles), and
\* its counters count its requests.
LEMMA CountsHonest == IInv => PoolHonest
<1> SUFFICES ASSUME IInv, NEW b \in Batches
             PROVE  /\ active[b] = Cardinality(Pending(b)) /\ active[b] <= 3
                    /\ uploaded[b] = Cardinality(ended[b]) /\ ended[b] \subseteq 1..idx[b]
                    /\ idx[b] < total[b] => active[b] = 3
                    /\ Finished(b) => ended[b] = 1..total[b]
    BY DEF PoolHonest
<1> USE MaxFilesAssumption
<1>1. active[b] = Cardinality(Pending(b))
    BY PendingCounts
<1>2. Finished(b) => ended[b] = 1..total[b]
  <2> SUFFICES ASSUME Finished(b) PROVE ended[b] = 1..total[b]
      OBVIOUS
  <2>1. /\ total[b] \in Nat /\ uploaded[b] \in Nat /\ active[b] \in Nat /\ idx[b] \in Nat
        /\ idx[b] <= total[b] /\ active[b] + uploaded[b] = idx[b] /\ uploaded[b] >= total[b]
      BY DEF IInv, TypeOK, CountsOK, Finished
  <2>2. idx[b] = total[b] /\ uploaded[b] = total[b]
      BY <2>1
  <2>3. IsFiniteSet(1..total[b]) /\ Cardinality(1..total[b]) = total[b]
      BY <2>1, UpTo
  <2>4. ended[b] \subseteq 1..total[b] /\ Cardinality(ended[b]) = total[b]
      BY <2>2 DEF IInv, EndedOK
  <2> QED
      BY <2>3, <2>4, FS_Subset
<1> QED
    BY <1>1, <1>2 DEF IInv, CountsOK, EndedOK

\* The same of every state that can be reached.
THEOREM PoolsHonest == Spec => []PoolHonest
<1> QED
    BY IInvAlways, CountsHonest, PTL

\* While files of the first batches are sent, the overlay of uploadFiles is
\* never missing: only the timer of a finished batch can have hidden it.
THEOREM OverlayStays == Spec => []HiddenByEarlierBatch
<1>1. IInv => HiddenByEarlierBatch
  <2> SUFFICES ASSUME IInv, NEW b \in Batches, active[b] > 0, ~visible,
                      \A c \in Batches : ~Finished(c)
               PROVE  FALSE
      BY DEF HiddenByEarlierBatch
  <2>1. active[b] = 0
      BY DEF IInv, OverlayOK
  <2> QED
      BY <2>1
<1> QED
    BY <1>1, IInvAlways, PTL

\* A batch that has begun and not ended always has a request open, whose callback
\* will go on (next in uploadFiles): what BatchesEnd needs beside fairness.
NeverStalls == \A b \in Batches : total[b] > 0 /\ ~Finished(b) => Pending(b) # {}

THEOREM BatchesNeverStall == Spec => []NeverStalls
<1>1. IInv => NeverStalls
  <2> SUFFICES ASSUME IInv, NEW b \in Batches, total[b] > 0, Pending(b) = {}
               PROVE  Finished(b)
      BY DEF NeverStalls
  <2> USE MaxFilesAssumption
  <2>1. /\ total[b] \in Nat /\ idx[b] \in Nat /\ active[b] \in Nat /\ uploaded[b] \in Nat
        /\ CountsOK(b)
      BY DEF IInv, TypeOK
  <2>2. active[b] = 0
      BY PendingCounts, FS_EmptySet
  <2>3. idx[b] = total[b] /\ uploaded[b] = total[b]
      BY <2>1, <2>2 DEF CountsOK
  <2> QED
      BY <2>1, <2>3 DEF Finished
<1> QED
    BY <1>1, IInvAlways, PTL

\* Whenever the overlay is shown, files are being sent or a timer is running
\* that will hide it (uploadSingle's hideProgress): no end of a batch leaves it
\* on the page.  What OverlayGoes needs beside the firing of the timers.
OverlayHasTimer == visible => Busy \/ timers > 0

THEOREM OverlayIsTimed == Spec => []OverlayHasTimer
<1>1. Init => OverlayHasTimer
    BY DEF Init, OverlayHasTimer
<1>2. IInv /\ OverlayHasTimer /\ [Next]_vars => OverlayHasTimer'
  <2> SUFFICES ASSUME IInv, OverlayHasTimer, [Next]_vars PROVE OverlayHasTimer'
      OBVIOUS
  <2>1. ASSUME NEW b \in Batches, NEW n \in 1..MaxFiles, UploadFiles(b, n)
        PROVE  OverlayHasTimer'
    <3>1. total'[b] = n /\ uploaded'[b] = 0
      <4>1. uploaded[b] = 0
          BY <2>1 DEF UploadFiles, IInv, TypeOK, CountsOK
      <4> QED
          BY <2>1, <4>1 DEF UploadFiles, IInv, TypeOK
    <3>2. Busy'
        BY <3>1 DEF Busy, Finished
    <3> QED
        BY <3>2 DEF OverlayHasTimer
  <2>2. ASSUME NEW b \in Batches, NEW f \in 1..MaxFiles, RequestEnds(b, f)
        PROVE  OverlayHasTimer'
    <3>1. /\ uploaded[b] \in Nat /\ total[b] \in Nat /\ timers \in Nat
          /\ total' = total /\ uploaded'[b] = uploaded[b] + 1 /\ timers' = TimersAfter(b)
        BY <2>2 DEF RequestEnds, Callback, IInv, TypeOK
    <3>2. CASE uploaded[b] + 1 >= total[b]
        BY <3>1, <3>2 DEF TimersAfter, OverlayHasTimer
    <3>3. CASE ~(uploaded[b] + 1 >= total[b])
      <4>1. Busy'
          BY <3>1, <3>3 DEF Busy, Finished
      <4> QED
          BY <4>1 DEF OverlayHasTimer
    <3> QED
        BY <3>2, <3>3
  <2>3. CASE HideProgress
      BY <2>3 DEF HideProgress, OverlayHasTimer
  <2>4. CASE UNCHANGED vars
      BY <2>4 DEF vars, pool, OverlayHasTimer, Busy, Finished
  <2> QED
      BY <2>1, <2>2, <2>3, <2>4 DEF Next
<1> QED
    BY <1>1, <1>2, IInvAlways, PTL DEF Spec
=============================================================================
