----------------------------- MODULE UploadPool -----------------------------
(***************************************************************************)
(* uploadFiles and uploadSingle of src/web/app.js: the files of a batch    *)
(* are sent by at most three requests at a time, and the callback of one   *)
(* starts the next.  Batches dropped while others run have pools of their  *)
(* own and share the progress overlay, which a timer of 800 ms hides after *)
(* the end of each.                                                        *)
(***************************************************************************)
EXTENDS Naturals, FiniteSets

CONSTANTS
    Batches,   \* calls of uploadFiles
    MaxFiles   \* bound on the files of a batch

ASSUME MaxFilesAssumption == MaxFiles \in Nat

VARIABLES
    total, idx, active, uploaded,   \* the variables of each call, total 0
                                    \* before it
    ended,                          \* the requests of each that have ended
    visible,                        \* the overlay is shown
    timers                          \* hideProgress calls to come

pool == <<total, idx, active, uploaded, ended>>
vars == <<pool, visible, timers>>

TypeOK ==
  /\ total \in [Batches -> 0..MaxFiles] /\ idx \in [Batches -> 0..MaxFiles]
  /\ active \in [Batches -> 0..MaxFiles] /\ uploaded \in [Batches -> 0..MaxFiles]
  /\ ended \in [Batches -> SUBSET (1..MaxFiles)]
  /\ visible \in BOOLEAN /\ timers \in Nat

Init ==
  /\ total = [b \in Batches |-> 0] /\ idx = [b \in Batches |-> 0]
  /\ active = [b \in Batches |-> 0] /\ uploaded = [b \in Batches |-> 0]
  /\ ended = [b \in Batches |-> {}]
  /\ visible = FALSE /\ timers = 0

Pending(b) == (1..idx[b]) \ ended[b]
Finished(b) == total[b] > 0 /\ uploaded[b] >= total[b]

\* Mutation: places are filled whether files wait or not.
AllRoom(a, rest) == 3 - a

\* Mutation: a fourth request is opened.
FourRoom(a, rest) == IF rest <= 4 - a THEN rest ELSE 4 - a

\* How many requests next() opens while a are open and rest files wait.
Room(a, rest) == IF rest <= 3 - a THEN rest ELSE 3 - a

\* Some files are dropped or picked: the overlay appears, the first are sent.
UploadFiles(b, n) ==
  /\ total[b] = 0
  /\ total' = [total EXCEPT ![b] = n]
  /\ idx' = [idx EXCEPT ![b] = Room(0, n)]
  /\ active' = [active EXCEPT ![b] = Room(0, n)]
  /\ visible' = TRUE
  /\ UNCHANGED <<uploaded, ended, timers>>

\* Mutation: the timer is started by the first file that has ended.
FirstHides(b) == IF uploaded[b] = 0 THEN timers + 1 ELSE timers

\* Mutation: the counter is looked at before it is increased.
NeverHides(b) == IF uploaded[b] >= total[b] THEN timers + 1 ELSE timers

\* The timer is started by the last callback of a batch.
TimersAfter(b) == IF uploaded[b] + 1 >= total[b] THEN timers + 1 ELSE timers

\* The callback: counts, the overlay, and the timer or the next files.
Callback(b) ==
  LET more == IF uploaded[b] + 1 >= total[b] THEN 0
              ELSE Room(active[b] - 1, total[b] - idx[b])
  IN  /\ active' = [active EXCEPT ![b] = active[b] - 1 + more]
      /\ uploaded' = [uploaded EXCEPT ![b] = uploaded[b] + 1]
      /\ idx' = [idx EXCEPT ![b] = idx[b] + more]
      /\ visible' = TRUE
      /\ timers' = TimersAfter(b)

\* Mutation: the callback is called for files that were stored only.
OnlySuccess(b, f) ==
  /\ f \in Pending(b)
  /\ ended' = [ended EXCEPT ![b] = ended[b] \cup {f}]
  /\ UNCHANGED total
  /\ \/ Callback(b)
     \/ UNCHANGED <<active, uploaded, idx, visible, timers>>

\* A request has ended, with 201 (the file is put into the list), with another
\* status or with an error: the callback is called in each case.
RequestEnds(b, f) ==
  /\ f \in Pending(b)
  /\ ended' = [ended EXCEPT ![b] = ended[b] \cup {f}]
  /\ Callback(b)
  /\ UNCHANGED total

HideProgress ==
  /\ timers > 0
  /\ timers' = timers - 1 /\ visible' = FALSE
  /\ UNCHANGED pool

Next ==
  \/ \E b \in Batches, n \in 1..MaxFiles : UploadFiles(b, n)
  \/ \E b \in Batches, f \in 1..MaxFiles : RequestEnds(b, f)
  \/ HideProgress

Spec == Init /\ [][Next]_vars

\* The browser ends every request, with an answer or an error, and fires every
\* timer.
FairSpec ==
  /\ Spec
  /\ \A b \in Batches : WF_vars(\E f \in 1..MaxFiles : RequestEnds(b, f))
  /\ WF_vars(HideProgress)
-----------------------------------------------------------------------------
\* The counters of a batch tell the truth about its requests: active of them
\* are open, at most three, and never fewer while files wait; uploaded have
\* ended, and when all have, every file of the batch has been sent.
PoolHonest ==
  \A b \in Batches :
    /\ active[b] = Cardinality(Pending(b)) /\ active[b] <= 3
    /\ uploaded[b] = Cardinality(ended[b]) /\ ended[b] \subseteq 1..idx[b]
    /\ idx[b] < total[b] => active[b] = 3
    /\ Finished(b) => ended[b] = 1..total[b]

\* The overlay is missing while files are sent only when the timer of a batch
\* that ended before has hidden it.
HiddenByEarlierBatch ==
  (\E b \in Batches : active[b] > 0) /\ ~visible => \E b \in Batches : Finished(b)

\* Every batch comes to its end, however many of its files fail.
BatchesEnd == \A b \in Batches : total[b] > 0 ~> Finished(b)

\* When nothing is being sent any more, the overlay goes.
Busy == \E b \in Batches : total[b] > 0 /\ ~Finished(b)
OverlayGoes == ~Busy ~> (~visible \/ Busy)
=============================================================================
