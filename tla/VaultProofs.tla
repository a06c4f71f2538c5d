---------------------------- MODULE VaultProofs ----------------------------
(***************************************************************************)
(* What holds of Vault for every number of files, clipboard entries and    *)
(* requests, and whichever of the faults may happen.  The invariants that  *)
(* TLC checks are not inductive by themselves: that a row is readable      *)
(* depends on which handlers hold an id that has no row yet, and on what   *)
(* the janitor may still sweep.  IInv adds exactly these facts.            *)
(* The second half is about what holds as long as some of the faults do    *)
(* not happen: the announcements, the dangling rows, the orphaned objects  *)
(* and the download counts.  Each theorem names the faults it excludes;    *)
(* the runs that check the properties exclude the same ones.               *)
(***************************************************************************)
EXTENDS Vault, FiniteSetTheorems, TLAPS

Creating == {"create", "write", "insert", "rollback"}

\* Every record of an item is about an item of an earlier record.
Ledger ==
    /\ published \subseteq issued
    /\ rows \subseteq published /\ acked \subseteq published
    /\ expired \subseteq published /\ deleteAsked \subseteq published

\* An item that was listed and is not was asked away, or it expired.
Accounted == published \ rows \subseteq deleteAsked \cup expired

\* What a handler relies on at each point of its code.
HandlerOK(r) ==
    /\ pc[r] # "idle" => item[r] \in issued
    /\ pc[r] \in Creating => item[r] \notin published
    /\ pc[r] \in {"insert", "rollback"} => obj[item[r]] = "full"
    /\ pc[r] \in {"get", "count"} => item[r] \in published
    /\ pc[r] \in {"remove", "unrow"} => item[r] \in deleteAsked
    /\ pc[r] = "finish" => item[r] \in published

Handlers == \A r \in Requests : HandlerOK(r)

\* No two creators hold the same id.
Exclusive ==
    \A r, s \in Requests :
        r # s /\ pc[r] \in Creating /\ pc[s] \in Creating => item[r] # item[s]

\* The janitor holds only keys of expired files, and sweeps none with a row.
JanitorOK == keys \subseteq expired /\ JanitorTodoRowless

IInv == TypeOK /\ Ledger /\ Accounted /\ Handlers /\ Exclusive /\ JanitorOK
          /\ RowReadable

-----------------------------------------------------------------------------
(***************************************************************************)
(* The invariant holds initially.                                          *)
(***************************************************************************)
LEMMA InitIInv == Init => IInv
<1> SUFFICES ASSUME Init PROVE IInv
    OBVIOUS
<1>1. TypeOK
    BY DEF Init, TypeOK
<1>2. Ledger /\ Accounted /\ JanitorOK /\ RowReadable
    BY DEF Init, Ledger, Accounted, JanitorOK, JanitorTodoRowless, RowReadable
<1>3. Handlers /\ Exclusive
    BY DEF Init, Handlers, HandlerOK, Exclusive, Creating
<1> QED
    BY <1>1, <1>2, <1>3 DEF IInv

-----------------------------------------------------------------------------
(***************************************************************************)
(* Every step preserves it: one lemma per action, one step per part of the *)
(* invariant.                                                              *)
(***************************************************************************)
\* The new id was never issued, so no other creator holds it.
LEMMA AcceptCreateStep ==
    ASSUME IInv, NEW r \in Requests, NEW way \in CreateRoutes, NEW i \in Ids,
           AcceptCreate(r, way, i)
    PROVE  IInv'
<1>1. TypeOK'
    BY DEF IInv, TypeOK, Callers, session, changes, causes, AcceptCreate, store,
       janitor, Routes
<1>2. Ledger' /\ Accounted'
    BY DEF IInv, Ledger, Accounted, AcceptCreate, store
<1>3. Handlers'
    BY DEF IInv, TypeOK, Ledger, Handlers, HandlerOK, AcceptCreate, FreshIds, store
<1>4. Exclusive'
    BY DEF IInv, TypeOK, Handlers, HandlerOK, Exclusive, Creating, AcceptCreate,
       FreshIds
<1>5. JanitorOK'
    BY DEF IInv, JanitorOK, JanitorTodoRowless, AcceptCreate, store, janitor
<1>6. RowReadable'
    BY DEF IInv, RowReadable, AcceptCreate, store
<1> QED
    BY <1>1, <1>2, <1>3, <1>4, <1>5, <1>6 DEF IInv

LEMMA AcceptLookupStep ==
    ASSUME IInv, NEW r \in Requests, NEW way \in ReadRoutes \cup DeleteRoutes,
           NEW i \in Ids, AcceptLookup(r, way, i)
    PROVE  IInv'
<1>1. TypeOK'
    BY DEF IInv, TypeOK, Callers, session, changes, causes, AcceptLookup, store,
       janitor, history, Routes
<1>2. Ledger' /\ Accounted'
    BY DEF IInv, Ledger, Accounted, AcceptLookup, store, history
<1>3. Handlers'
    BY DEF IInv, TypeOK, Handlers, HandlerOK, Creating, AcceptLookup, store, history
<1>4. Exclusive'
    BY DEF IInv, TypeOK, Exclusive, Creating, AcceptLookup
<1>5. JanitorOK'
    BY DEF IInv, JanitorOK, JanitorTodoRowless, AcceptLookup, store, janitor
<1>6. RowReadable'
    BY DEF IInv, RowReadable, AcceptLookup, store, history
<1> QED
    BY <1>1, <1>2, <1>3, <1>4, <1>5, <1>6 DEF IInv

\* The object written is not that of any row: its id is unpublished.
LEMMA PutCreateStep ==
    ASSUME IInv, NEW r \in Requests, PutCreate(r)
    PROVE  IInv'
<1>1. TypeOK'
    BY DEF IInv, TypeOK, Callers, session, changes, causes, PutCreate, Goto, Respond,
       janitor, history
<1>2. Ledger' /\ Accounted'
    BY DEF IInv, Ledger, Accounted, PutCreate, history
<1>3. Handlers'
    BY DEF IInv, TypeOK, Handlers, HandlerOK, Exclusive, Creating, PutCreate, At,
       Goto, Respond, history
<1>4. Exclusive'
    BY DEF IInv, TypeOK, Exclusive, Creating, PutCreate, At, Goto, Respond
<1>5. JanitorOK'
    BY DEF IInv, JanitorOK, JanitorTodoRowless, PutCreate, janitor
<1>6. RowReadable'
    BY DEF IInv, TypeOK, Ledger, Handlers, HandlerOK, RowReadable, Creating,
       PutCreate, At, history
<1> QED
    BY <1>1, <1>2, <1>3, <1>4, <1>5, <1>6 DEF IInv

LEMMA PutWriteStep ==
    ASSUME IInv, NEW r \in Requests, PutWrite(r)
    PROVE  IInv'
<1>1. TypeOK'
    BY DEF IInv, TypeOK, Callers, session, changes, causes, PutWrite, CutShort, Goto,
       Respond, janitor, history
<1>2. Ledger' /\ Accounted'
    BY DEF IInv, Ledger, Accounted, PutWrite, history
<1>3. Handlers'
    BY DEF IInv, TypeOK, Handlers, HandlerOK, Exclusive, Creating, PutWrite, At,
       CutShort, Goto, Respond, history
<1>4. Exclusive'
    BY DEF IInv, TypeOK, Exclusive, Creating, PutWrite, At, CutShort, Goto, Respond
<1>5. JanitorOK'
    BY DEF IInv, JanitorOK, JanitorTodoRowless, PutWrite, janitor
<1>6. RowReadable'
    BY DEF IInv, TypeOK, Ledger, Handlers, HandlerOK, RowReadable, Creating,
       PutWrite, At, history
<1> QED
    BY <1>1, <1>2, <1>3, <1>4, <1>5, <1>6 DEF IInv

\* The row is inserted behind a full object; no key of the janitor is its id.
LEMMA InsertRowStep ==
    ASSUME IInv, NEW r \in Requests, InsertRow(r)
    PROVE  IInv'
<1>1. TypeOK'
    BY DEF IInv, TypeOK, Callers, session, changes, causes, Handlers, HandlerOK,
       InsertRow, At, Goto, janitor
<1>2. Ledger' /\ Accounted'
    BY DEF IInv, Ledger, Accounted, Handlers, HandlerOK, InsertRow, At
<1>3. Handlers'
    BY DEF IInv, TypeOK, Handlers, HandlerOK, Exclusive, Creating, InsertRow, At,
       Goto
<1>4. Exclusive'
    BY DEF IInv, TypeOK, Exclusive, Creating, InsertRow, At, Goto
<1>5. JanitorOK'
    BY DEF IInv, Ledger, Handlers, HandlerOK, JanitorOK, JanitorTodoRowless,
       Creating, InsertRow, At, janitor
<1>6. RowReadable'
    BY DEF IInv, Handlers, HandlerOK, RowReadable, InsertRow, At
<1> QED
    BY <1>1, <1>2, <1>3, <1>4, <1>5, <1>6 DEF IInv

\* The object removed has no row, as its id was never published.
LEMMA RollbackStep ==
    ASSUME IInv, NEW r \in Requests, Rollback(r)
    PROVE  IInv'
<1>1. TypeOK'
    BY DEF IInv, TypeOK, Callers, session, changes, causes, Rollback, StoreDelete,
       Removed, Respond, janitor, history
<1>2. Ledger' /\ Accounted'
    BY DEF IInv, Ledger, Accounted, Rollback, history
<1>3. Handlers'
    BY DEF IInv, TypeOK, Handlers, HandlerOK, Exclusive, Creating, Rollback, At,
       StoreDelete, Removed, Respond, history
<1>4. Exclusive'
    BY DEF IInv, TypeOK, Exclusive, Creating, Rollback, Respond
<1>5. JanitorOK'
    BY DEF IInv, JanitorOK, JanitorTodoRowless, Rollback, janitor
<1>6. RowReadable'
    BY DEF IInv, TypeOK, Ledger, Handlers, HandlerOK, RowReadable, Creating,
       Rollback, At, StoreDelete, Removed, history
<1> QED
    BY <1>1, <1>2, <1>3, <1>4, <1>5, <1>6 DEF IInv

LEMMA LookupRowStep ==
    ASSUME IInv, NEW r \in Requests, LookupRow(r)
    PROVE  IInv'
<1>1. TypeOK'
    BY DEF IInv, TypeOK, Callers, session, changes, causes, LookupRow, AfterLookup,
       Goto, Respond, store, janitor
<1>2. Ledger' /\ Accounted'
    BY DEF IInv, Ledger, Accounted, LookupRow, store
<1>3. Handlers'
    BY DEF IInv, TypeOK, Ledger, Handlers, HandlerOK, Creating, LookupRow,
       AfterLookup, Goto, Respond, store
<1>4. Exclusive'
    BY DEF IInv, TypeOK, Ledger, Handlers, HandlerOK, Exclusive, Creating, LookupRow,
       Goto, Respond
<1>5. JanitorOK'
    BY DEF IInv, JanitorOK, JanitorTodoRowless, LookupRow, store, janitor
<1>6. RowReadable'
    BY DEF IInv, TypeOK, RowReadable, LookupRow, store
<1> QED
    BY <1>1, <1>2, <1>3, <1>4, <1>5, <1>6 DEF IInv

LEMMA GetObjectStep ==
    ASSUME IInv, NEW r \in Requests, GetObject(r)
    PROVE  IInv'
<1>1. TypeOK'
    BY DEF IInv, TypeOK, Callers, session, changes, causes, GetObject, Goto, Respond,
       store, janitor
<1>2. Ledger' /\ Accounted'
    BY DEF IInv, Ledger, Accounted, GetObject, store
<1>3. Handlers'
    BY DEF IInv, TypeOK, Handlers, HandlerOK, Creating, GetObject, At, Goto, Respond,
       store
<1>4. Exclusive'
    BY DEF IInv, TypeOK, Exclusive, Creating, GetObject, Goto, Respond
<1>5. JanitorOK'
    BY DEF IInv, JanitorOK, JanitorTodoRowless, GetObject, store, janitor
<1>6. RowReadable'
    BY DEF IInv, RowReadable, GetObject, store
<1> QED
    BY <1>1, <1>2, <1>3, <1>4, <1>5, <1>6 DEF IInv

LEMMA CountDownloadStep ==
    ASSUME IInv, NEW r \in Requests, CountDownload(r)
    PROVE  IInv'
<1>1. TypeOK'
    BY DEF IInv, TypeOK, Callers, session, changes, causes, CountDownload, Bump,
       Respond, janitor, history
<1>2. Ledger' /\ Accounted'
    BY DEF IInv, Ledger, Accounted, CountDownload, history
<1>3. Handlers'
    BY DEF IInv, TypeOK, Handlers, HandlerOK, Creating, CountDownload, Respond,
       history
<1>4. Exclusive'
    BY DEF IInv, TypeOK, Exclusive, Creating, CountDownload, Respond
<1>5. JanitorOK'
    BY DEF IInv, JanitorOK, JanitorTodoRowless, CountDownload, janitor
<1>6. RowReadable'
    BY DEF IInv, RowReadable, CountDownload, history
<1> QED
    BY <1>1, <1>2, <1>3, <1>4, <1>5, <1>6 DEF IInv

\* The object of a row may go, since a delete of the item was asked for.
LEMMA RemoveObjectStep ==
    ASSUME IInv, NEW r \in Requests, RemoveObject(r)
    PROVE  IInv'
<1>1. TypeOK'
    BY DEF IInv, TypeOK, Callers, session, changes, causes, RemoveObject,
       StoreDelete, Removed, Goto, janitor, history
<1>2. Ledger' /\ Accounted'
    BY DEF IInv, Ledger, Accounted, RemoveObject, history
<1>3. Handlers'
    BY DEF IInv, TypeOK, Ledger, Handlers, HandlerOK, Creating, RemoveObject, At,
       StoreDelete, Removed, Goto, history
<1>4. Exclusive'
    BY DEF IInv, Exclusive, Creating, RemoveObject, Goto
<1>5. JanitorOK'
    BY DEF IInv, JanitorOK, JanitorTodoRowless, RemoveObject, janitor
<1>6. RowReadable'
    BY DEF IInv, TypeOK, Handlers, HandlerOK, RowReadable, RemoveObject, At,
       StoreDelete, Removed, history
<1> QED
    BY <1>1, <1>2, <1>3, <1>4, <1>5, <1>6 DEF IInv

\* An item that leaves the list here was asked away.
LEMMA DeleteRowStep ==
    ASSUME IInv, NEW r \in Requests, DeleteRow(r)
    PROVE  IInv'
<1>1. TypeOK'
    BY DEF IInv, TypeOK, Callers, session, changes, causes, DeleteRow, DropRows,
       Goto, janitor
<1>2. Ledger' /\ Accounted'
    BY DEF IInv, Ledger, Accounted, Handlers, HandlerOK, DeleteRow, At, Target,
       DropRows
<1>3. Handlers'
    BY DEF IInv, Ledger, Handlers, HandlerOK, Creating, DeleteRow, At, Goto
<1>4. Exclusive'
    BY DEF IInv, Exclusive, Creating, DeleteRow, Goto
<1>5. JanitorOK'
    BY DEF IInv, JanitorOK, JanitorTodoRowless, DeleteRow, DropRows, janitor
<1>6. RowReadable'
    BY DEF IInv, RowReadable, DeleteRow, DropRows
<1> QED
    BY <1>1, <1>2, <1>3, <1>4, <1>5, <1>6 DEF IInv

\* A creator gets to this point only past its INSERT.
LEMMA FinishStep ==
    ASSUME IInv, NEW r \in Requests, Finish(r)
    PROVE  IInv'
<1>1. TypeOK'
    BY DEF IInv, TypeOK, Callers, session, changes, causes, Handlers, HandlerOK,
       Finish, At, Respond, store, janitor
<1>2. Ledger' /\ Accounted'
    BY DEF IInv, Ledger, Accounted, Handlers, HandlerOK, Finish, At, store
<1>3. Handlers'
    BY DEF IInv, TypeOK, Handlers, HandlerOK, Creating, Finish, Respond, store
<1>4. Exclusive'
    BY DEF IInv, TypeOK, Exclusive, Creating, Finish, Respond
<1>5. JanitorOK'
    BY DEF IInv, JanitorOK, JanitorTodoRowless, Finish, store, janitor
<1>6. RowReadable'
    BY DEF IInv, RowReadable, Finish, store
<1> QED
    BY <1>1, <1>2, <1>3, <1>4, <1>5, <1>6 DEF IInv

LEMMA ExpireStep ==
    ASSUME IInv, NEW i \in Ids, Expire(i)
    PROVE  IInv'
<1>1. TypeOK'
    BY DEF IInv, TypeOK, Callers, session, changes, causes, Expire, request, janitor,
       history
<1>2. Ledger' /\ Accounted'
    BY DEF IInv, Ledger, Accounted, Expire, history
<1>3. Handlers'
    BY DEF IInv, Handlers, HandlerOK, Expire, request, history
<1>4. Exclusive'
    BY DEF IInv, Exclusive, Expire, request
<1>5. JanitorOK'
    BY DEF IInv, JanitorOK, JanitorTodoRowless, Expire, janitor
<1>6. RowReadable'
    BY DEF IInv, RowReadable, Expire, history
<1> QED
    BY <1>1, <1>2, <1>3, <1>4, <1>5, <1>6 DEF IInv

LEMMA PurgeSelectStep ==
    ASSUME IInv, NEW found \in SUBSET Due, PurgeSelect(found)
    PROVE  IInv'
<1>1. TypeOK'
    BY DEF IInv, TypeOK, Callers, session, changes, causes, PurgeSelect, Due, store,
       request, history
<1>2. Ledger' /\ Accounted'
    BY DEF IInv, Ledger, Accounted, PurgeSelect, store, history
<1>3. Handlers'
    BY DEF IInv, Handlers, HandlerOK, PurgeSelect, store, request, history
<1>4. Exclusive'
    BY DEF IInv, Exclusive, PurgeSelect, request
<1>5. JanitorOK'
    BY DEF JanitorOK, JanitorTodoRowless, PurgeSelect, Due, store
<1>6. RowReadable'
    BY DEF IInv, RowReadable, PurgeSelect, store, history
<1> QED
    BY <1>1, <1>2, <1>3, <1>4, <1>5, <1>6 DEF IInv

\* After the DELETE no expired file has a row, so no key has one.
LEMMA PurgeDeleteStep ==
    ASSUME IInv, PurgeDelete
    PROVE  IInv'
<1>1. TypeOK'
    BY DEF IInv, TypeOK, Callers, session, changes, causes, PurgeDelete, Due,
       DropRows, request
<1>2. Ledger' /\ Accounted'
    BY DEF IInv, Ledger, Accounted, PurgeDelete, Due, DropRows
<1>3. Handlers'
    BY DEF IInv, Handlers, HandlerOK, PurgeDelete, request
<1>4. Exclusive'
    BY DEF IInv, Exclusive, PurgeDelete, request
<1>5. JanitorOK'
    BY DEF IInv, JanitorOK, JanitorTodoRowless, PurgeDelete, Due, DropRows
<1>6. RowReadable'
    BY DEF IInv, RowReadable, PurgeDelete, DropRows
<1> QED
    BY <1>1, <1>2, <1>3, <1>4, <1>5, <1>6 DEF IInv

LEMMA PurgeFailStep ==
    ASSUME IInv, PurgeFail
    PROVE  IInv'
<1>1. TypeOK'
    BY DEF IInv, TypeOK, Callers, session, changes, causes, PurgeFail, store,
       request, history
<1>2. Ledger' /\ Accounted'
    BY DEF IInv, Ledger, Accounted, PurgeFail, store, history
<1>3. Handlers'
    BY DEF IInv, Handlers, HandlerOK, PurgeFail, store, request, history
<1>4. Exclusive'
    BY DEF IInv, Exclusive, PurgeFail, request
<1>5. JanitorOK'
    BY DEF JanitorOK, JanitorTodoRowless, PurgeFail
<1>6. RowReadable'
    BY DEF IInv, RowReadable, PurgeFail, store, history
<1> QED
    BY <1>1, <1>2, <1>3, <1>4, <1>5, <1>6 DEF IInv

\* Keys being swept have no row, and creators hold ids that are no keys.
LEMMA SweepOneStep ==
    ASSUME IInv, NEW i \in Ids, SweepOne(i)
    PROVE  IInv'
<1>1. TypeOK'
    BY DEF IInv, TypeOK, Callers, session, changes, causes, SweepOne, StoreDelete,
       Removed, request, history
<1>2. Ledger' /\ Accounted'
    BY DEF IInv, Ledger, Accounted, SweepOne, history
<1>3. Handlers'
    BY DEF IInv, TypeOK, Ledger, Handlers, HandlerOK, JanitorOK, Creating, SweepOne,
       StoreDelete, Removed, request, history
<1>4. Exclusive'
    BY DEF IInv, Exclusive, SweepOne, request
<1>5. JanitorOK'
    BY DEF IInv, JanitorOK, JanitorTodoRowless, SweepOne
<1>6. RowReadable'
    BY DEF IInv, TypeOK, JanitorOK, JanitorTodoRowless, RowReadable, SweepOne,
       StoreDelete, Removed, history
<1> QED
    BY <1>1, <1>2, <1>3, <1>4, <1>5, <1>6 DEF IInv

\* A reconnect changes nothing but the session; the calls beside it are about ids
\* that were drawn.
LEMMA ReconnectStep ==
    ASSUME IInv, NEW c \in Callers, Reconnect(c)
    PROVE  IInv'
<1>1. TypeOK'
    <2>1. ASSUME NEW d \in Beside(c) PROVE d \in Callers /\ About(d) \subseteq Ids
        BY <2>1 DEF Beside, InStore, About, Callers, StorePoints, Reconnectable,
           IInv, TypeOK, Handlers, HandlerOK
    <2>2. disturbed' \subseteq Callers /\ broken' \in BOOLEAN /\ cut' \subseteq Ids
        BY <2>1 DEF Reconnect, IInv, TypeOK
    <2> QED
        BY <2>2 DEF IInv, TypeOK, Reconnect, store, request, janitor, changes
<1>2. Ledger' /\ Accounted'
    BY DEF IInv, Ledger, Accounted, Reconnect, store
<1>3. Handlers' /\ Exclusive'
    BY DEF IInv, Handlers, HandlerOK, Exclusive, Reconnect, store, request
<1>4. JanitorOK'
    BY DEF IInv, JanitorOK, JanitorTodoRowless, Reconnect, store, janitor
<1>5. RowReadable'
    BY DEF IInv, RowReadable, Reconnect, store
<1> QED
    BY <1>1, <1>2, <1>3, <1>4, <1>5 DEF IInv

LEMMA CrashStep ==
    ASSUME IInv, Crash
    PROVE  IInv'
<1>1. TypeOK'
    BY DEF IInv, TypeOK, Callers, session, changes, causes, Crash, store, history
<1>2. Ledger' /\ Accounted'
    BY DEF IInv, Ledger, Accounted, Crash, store, history
<1>3. Handlers'
    BY DEF Handlers, HandlerOK, Creating, Crash
<1>4. Exclusive'
    BY DEF Exclusive, Creating, Crash
<1>5. JanitorOK'
    BY DEF JanitorOK, JanitorTodoRowless, Crash
<1>6. RowReadable'
    BY DEF IInv, RowReadable, Crash, store, history
<1> QED
    BY <1>1, <1>2, <1>3, <1>4, <1>5, <1>6 DEF IInv

LEMMA StutterStep ==
    ASSUME IInv, UNCHANGED vars
    PROVE  IInv'
<1>1. TypeOK'
    BY DEF IInv, TypeOK, Callers, session, changes, causes, vars, store, request,
       janitor, history
<1>2. Ledger' /\ Accounted'
    BY DEF IInv, Ledger, Accounted, vars, store, history
<1>3. Handlers'
    BY DEF IInv, Handlers, HandlerOK, vars, store, request, history
<1>4. Exclusive'
    BY DEF IInv, Exclusive, vars, request
<1>5. JanitorOK'
    BY DEF IInv, JanitorOK, JanitorTodoRowless, vars, store, janitor
<1>6. RowReadable'
    BY DEF IInv, RowReadable, vars, store, history
<1> QED
    BY <1>1, <1>2, <1>3, <1>4, <1>5, <1>6 DEF IInv

LEMMA StepIInv == IInv /\ [Next]_vars => IInv'
<1> SUFFICES ASSUME IInv, [Next]_vars PROVE IInv'
    OBVIOUS
<1>1. ASSUME NEW r \in Requests, Accept(r) PROVE IInv'
    BY <1>1, AcceptCreateStep, AcceptLookupStep DEF Accept
<1>2. ASSUME NEW r \in Requests, Handle(r) PROVE IInv'
    BY <1>2, PutCreateStep, PutWriteStep, InsertRowStep, RollbackStep, LookupRowStep,
       GetObjectStep, CountDownloadStep, RemoveObjectStep, DeleteRowStep, FinishStep
       DEF Handle
<1>3. ASSUME NEW i \in Ids, Expire(i) PROVE IInv'
    BY <1>3, ExpireStep
<1>4. CASE Janitor
    BY <1>4, PurgeSelectStep, PurgeDeleteStep, PurgeFailStep, SweepOneStep DEF
       Janitor
<1>5. ASSUME NEW c \in Callers, Reconnect(c) PROVE IInv'
    BY <1>5, ReconnectStep
<1>6. CASE Crash
    BY <1>6, CrashStep
<1>7. CASE UNCHANGED vars
    BY <1>7, StutterStep
<1> QED
    BY <1>1, <1>2, <1>3, <1>4, <1>5, <1>6, <1>7 DEF Next

\* In every reachable state, with every fault the model has, IInv holds.
THEOREM Invariance == Spec => []IInv
<1> QED
    BY InitIInv, StepIInv, PTL DEF Spec

\* Every variable keeps its type.
THEOREM TypeCorrect == Spec => []TypeOK
<1>1. IInv => TypeOK
    BY DEF IInv
<1> QED
    BY <1>1, Invariance, PTL

\* A row never points at a half-written object, and at a missing one only
\* after somebody asked to delete the item.
THEOREM RowsReadable == Spec => []RowReadable
<1>1. IInv => RowReadable
    BY DEF IInv
<1> QED
    BY <1>1, Invariance, PTL

\* What a creator was told is saved stays listed and readable until it is
\* deleted on request or expires.
THEOREM AckedSurvivesAll == Spec => []AckedSurvives
<1>1. IInv => AckedSurvives
    BY DEF IInv, Ledger, Accounted, RowReadable, AckedSurvives
<1> QED
    BY <1>1, Invariance, PTL

\* The janitor never removes the object of a listed file.
THEOREM JanitorSafe == Spec => []JanitorTodoRowless
<1>1. IInv => JanitorTodoRowless
    BY DEF IInv, JanitorOK
<1> QED
    BY <1>1, Invariance, PTL

-----------------------------------------------------------------------------
(***************************************************************************)
(* Vault implements ItemRegistry.                                          *)
(***************************************************************************)
LEMMA RegistryInit == Init => Registry!Init
    BY DEF Init, Registry!Init, StatusOf

\* A step that leaves these records alone is invisible to the household.
LEMMA Invisible ==
    ASSUME UNCHANGED <<rows, published, expired, deleteAsked, acked, served>>
    PROVE  UNCHANGED Registry!vars
    BY DEF Registry!vars, StatusOf

LEMMA InsertPublishes ==
    ASSUME IInv, NEW r \in Requests, InsertRow(r)
    PROVE  (\E i \in Ids : Registry!Publish(i)) \/ UNCHANGED Registry!vars
<1>1. CASE rows' = rows /\ published' = published
    BY <1>1, Invisible DEF InsertRow
<1>2. CASE rows' = rows \cup {item[r]} /\ published' = published \cup {item[r]}
    <2>1. item[r] \in Ids /\ item[r] \notin published /\ item[r] \notin rows
        BY DEF IInv, TypeOK, Ledger, Handlers, HandlerOK, Creating, InsertRow, At
    <2>2. [i \in Ids |-> StatusOf(i)]'
              = [[i \in Ids |-> StatusOf(i)] EXCEPT ![item[r]] = "listed"]
        BY <1>2, <2>1 DEF StatusOf
    <2>3. StatusOf(item[r]) = "unborn"
        BY <2>1 DEF StatusOf
    <2>4. Registry!Publish(item[r])
        BY <2>1, <2>2, <2>3 DEF Registry!Publish, InsertRow
    <2> QED
        BY <2>1, <2>4
<1> QED
    BY <1>1, <1>2 DEF InsertRow

LEMMA LookupCondemns ==
    ASSUME IInv, NEW r \in Requests, LookupRow(r)
    PROVE  (\E i \in Ids : Registry!Condemn(i)) \/ UNCHANGED Registry!vars
<1>1. CASE deleteAsked' = deleteAsked
    BY <1>1, Invisible DEF LookupRow, store
<1>2. CASE item[r] \in rows /\ deleteAsked' = deleteAsked \cup {item[r]}
    <2>1. item[r] \in Ids /\ StatusOf(item[r]) = "listed"
        BY <1>2 DEF IInv, TypeOK, StatusOf
    <2>2. Registry!Condemn(item[r])
        BY <1>2, <2>1 DEF Registry!Condemn, Registry!Listed, LookupRow, store,
           StatusOf
    <2> QED
        BY <2>1, <2>2
<1> QED
    BY <1>1, <1>2 DEF LookupRow

LEMMA GetServes ==
    ASSUME IInv, NEW r \in Requests, GetObject(r)
    PROVE  (\E i \in Ids : Registry!Serve(i)) \/ UNCHANGED Registry!vars
<1>1. CASE served' = served
    BY <1>1, Invisible DEF GetObject, store
<1>2. CASE served' = [served EXCEPT ![item[r]] = @ + 1]
    <2>1. item[r] \in Ids /\ item[r] \in published
        BY DEF IInv, TypeOK, Handlers, HandlerOK, GetObject, At
    <2>2. StatusOf(item[r]) # "unborn"
        BY <2>1 DEF StatusOf
    <2>3. Registry!Serve(item[r])
        BY <1>2, <2>1, <2>2 DEF Registry!Serve, Registry!Born, GetObject, store,
           StatusOf
    <2> QED
        BY <2>1, <2>3
<1> QED
    BY <1>1, <1>2 DEF GetObject

LEMMA FinishConfirms ==
    ASSUME IInv, NEW r \in Requests, Finish(r)
    PROVE  (\E i \in Ids : Registry!Confirm(i)) \/ UNCHANGED Registry!vars
<1>1. CASE acked' = acked
    BY <1>1, Invisible DEF Finish, store
<1>2. CASE acked' = acked \cup {item[r]}
    <2>1. item[r] \in Ids /\ item[r] \in published
        BY DEF IInv, TypeOK, Handlers, HandlerOK, Finish, At
    <2>2. StatusOf(item[r]) # "unborn"
        BY <2>1 DEF StatusOf
    <2>3. Registry!Confirm(item[r])
        BY <1>2, <2>1, <2>2 DEF Registry!Confirm, Registry!Born, Finish, store,
           StatusOf
    <2> QED
        BY <2>1, <2>3
<1> QED
    BY <1>1, <1>2 DEF Finish

\* Rows that leave their tables were asked away or expired.
LEMMA DropRetires ==
    ASSUME IInv, NEW S \in SUBSET Ids,
           S \cap rows \subseteq deleteAsked \cup expired,
           DropRows(S),
           UNCHANGED <<published, expired, deleteAsked, acked, served>>
    PROVE  \E T \in SUBSET Ids : Registry!Retire(T)
<1> DEFINE T == S \cap rows
<1>1. T \in SUBSET Ids
    OBVIOUS
<1>2. [i \in Ids |-> StatusOf(i)]'
          = [i \in Ids |-> IF i \in T THEN "gone"
                           ELSE [j \in Ids |-> StatusOf(j)][i]]
    BY DEF DropRows, StatusOf, IInv, Ledger
<1>3. T \subseteq Registry!Listed \cap (deleteAsked \cup expired)
    BY DEF Registry!Listed, StatusOf
<1>4. Registry!Retire(T)
    BY <1>2, <1>3 DEF Registry!Retire
<1> QED
    BY <1>1, <1>4

LEMMA DeleteRetires ==
    ASSUME IInv, NEW r \in Requests, DeleteRow(r)
    PROVE  (\E T \in SUBSET Ids : Registry!Retire(T)) \/ UNCHANGED Registry!vars
<1>1. CASE rows' = rows
    BY <1>1, Invisible DEF DeleteRow
<1>2. CASE DropRows(Target(r))
    <2>1. Target(r) \in SUBSET Ids /\ Target(r) \subseteq deleteAsked
        BY DEF IInv, TypeOK, Handlers, HandlerOK, DeleteRow, At, Target
    <2> QED
        BY <1>2, <2>1, DropRetires DEF DeleteRow
<1> QED
    BY <1>1, <1>2 DEF DeleteRow

LEMMA PurgeRetires ==
    ASSUME IInv, PurgeDelete
    PROVE  \E T \in SUBSET Ids : Registry!Retire(T)
<1>1. Due \in SUBSET Ids /\ Due \subseteq expired
    BY DEF IInv, TypeOK, Due
<1> QED
    BY <1>1, DropRetires DEF PurgeDelete

LEMMA ExpireCondemns ==
    ASSUME IInv, NEW i \in Ids, Expire(i)
    PROVE  Registry!Condemn(i)
<1>1. StatusOf(i) = "listed"
    BY DEF Expire, StatusOf
<1> QED
    BY <1>1 DEF Expire, Registry!Condemn, Registry!Listed, StatusOf, history

LEMMA RegistryStep ==
    IInv /\ [Next]_vars => [Registry!Next]_(Registry!vars)
<1> SUFFICES ASSUME IInv, [Next]_vars
             PROVE  Registry!Next \/ UNCHANGED Registry!vars
    OBVIOUS
<1>1. ASSUME NEW r \in Requests, Accept(r) PROVE UNCHANGED Registry!vars
    BY <1>1, Invisible DEF Accept, AcceptCreate, AcceptLookup, store, history
<1>2. ASSUME NEW r \in Requests, Handle(r)
      PROVE  Registry!Next \/ UNCHANGED Registry!vars
    <2>1. CASE PutCreate(r) \/ PutWrite(r) \/ Rollback(r)
               \/ CountDownload(r) \/ RemoveObject(r)
        BY <2>1, Invisible DEF PutCreate, PutWrite, Rollback, CountDownload,
           RemoveObject, history
    <2>2. CASE InsertRow(r) \/ LookupRow(r) \/ GetObject(r) \/ Finish(r)
        BY <2>2, InsertPublishes, LookupCondemns, GetServes, FinishConfirms DEF
           Registry!Next
    <2>3. CASE DeleteRow(r)
        BY <2>3, DeleteRetires DEF Registry!Next
    <2> QED
        BY <1>2, <2>1, <2>2, <2>3 DEF Handle
<1>3. ASSUME NEW i \in Ids, Expire(i) PROVE Registry!Next
    BY <1>3, ExpireCondemns DEF Registry!Next
<1>4. ASSUME Janitor PROVE Registry!Next \/ UNCHANGED Registry!vars
    <2>1. CASE PurgeDelete
        BY <2>1, PurgeRetires DEF Registry!Next
    <2>2. CASE ~PurgeDelete
        BY <1>4, <2>2, Invisible DEF Janitor, PurgeSelect, PurgeFail, SweepOne,
           store, history
    <2> QED
        BY <2>1, <2>2
<1>5. CASE Crash \/ (\E c \in Callers : Reconnect(c)) \/ UNCHANGED vars
    BY <1>5, Invisible DEF Crash, Reconnect, vars, store, history
<1> QED
    BY <1>1, <1>2, <1>3, <1>4, <1>5 DEF Next

\* Every behaviour of the handlers, the janitor and the two stores, with any
\* of their faults, is one of the household's registry of items.
THEOREM Implementation == Spec => ImplementsRegistry
<1>1. ImplementsRegistry <=> Registry!Spec
    BY DEF ImplementsRegistry
<1> QED
    BY <1>1, RegistryInit, RegistryStep, Invariance, PTL DEF Spec, Registry!Spec
-----------------------------------------------------------------------------
(***************************************************************************)
(* As long as some of the faults do not happen                             *)
(***************************************************************************)

\* The route of a request agrees with its id and with the point it is at.
RouteOK(r) ==
    /\ pc[r] # "idle" => item[r] \in Table(route[r])
    /\ pc[r] \in Creating => route[r] \in CreateRoutes
    /\ pc[r] \in {"remove", "unrow"} => route[r] \in DeleteRoutes
RoutesOK == \A r \in Requests : RouteOK(r)

\* UnannouncedExplained
WillAnnounce(r, i) == pc[r] = "finish" /\ item[r] = i /\ Announces(route[r])
Explained(i) == (\E r \in Requests : WillAnnounce(r, i)) \/ i \in silent
AnnouncementsOK == "crash" \notin Faults => \A i \in unannounced : Explained(i)

DanglingOK == Faults \cap {"db", "crash"} = {} => DanglingOnlyMidDelete

\* The store calls that a reconnect disturbed are in flight and known by their
\* ids, and the first of the reconnects was about an object that was asked away or
\* whose file expired: a row's object is there, and so is one to be rolled back.
Disturbances == \A c \in disturbed : c \in InStore /\ About(c) \subseteq cut
Rooted == disturbed # {} \/ broken \/ cut # {} => deleteAsked \cup expired # {}
SessionOK == Disturbances /\ Rooted

\* OrphanExplained, and between the two halves of a delete there is no object, if
\* no reconnect disturbed a call about it.
Emptied(r) == pc[r] = "unrow" => obj[item[r]] = "absent" \/ item[r] \in cut
OrphansOK ==
    Faults \cap {"smb", "fetch", "crash"} = {} =>
        /\ OrphanExplained
        /\ \A r \in Requests : Emptied(r)

\* CountExact, and an item that was never listed has no downloads.
CountsOK ==
    Faults \cap {"db", "crash"} = {} =>
        /\ CountExact
        /\ \A i \in Ids \ published : downloads[i] = 0 /\ served[i] = 0

FInv == IInv /\ RoutesOK /\ AnnouncementsOK /\ DanglingOK /\ SessionOK /\ OrphansOK
          /\ CountsOK

\* What a step of request r leaves alone.
OthersKeep(r) ==
    \A s \in Requests \ {r} :
        pc'[s] = pc[s] /\ route'[s] = route[s] /\ item'[s] = item[s]
-----------------------------------------------------------------------------
LEMMA InitFInv == Init => FInv
<1> SUFFICES ASSUME Init PROVE FInv
    OBVIOUS
<1>1. IInv
    BY InitIInv
<1>2. RoutesOK
    BY DEF Init, RoutesOK, RouteOK, Creating
<1>3. AnnouncementsOK /\ DanglingOK
    BY DEF Init, AnnouncementsOK, DanglingOK, DanglingOnlyMidDelete
<1>4. SessionOK /\ OrphansOK
    BY DEF Init, SessionOK, Disturbances, Rooted, OrphansOK, OrphanExplained, Emptied
<1>5. CountsOK
    BY DEF Init, CountsOK, CountExact
<1> QED
    BY <1>1, <1>2, <1>3, <1>4, <1>5 DEF FInv

-----------------------------------------------------------------------------
(***************************************************************************)
(* The routes                                                              *)
(***************************************************************************)
LEMMA RoutesStep ==
    ASSUME IInv, RoutesOK, Next
    PROVE  RoutesOK'
<1> USE DEF RoutesOK, RouteOK, IInv, TypeOK, Creating
<1>1. ASSUME NEW r \in Requests, Accept(r) PROVE RoutesOK'
    <2>1. ASSUME NEW way \in CreateRoutes, NEW i \in Ids, AcceptCreate(r, way, i)
          PROVE  RoutesOK'
        BY <2>1 DEF AcceptCreate, FreshIds
    <2>2. ASSUME NEW way \in ReadRoutes \cup DeleteRoutes, NEW i \in Ids,
                 AcceptLookup(r, way, i)
          PROVE  RoutesOK'
        BY <2>2 DEF AcceptLookup
    <2> QED
        BY <1>1, <2>1, <2>2 DEF Accept
<1>2. ASSUME NEW r \in Requests, Handle(r) PROVE RoutesOK'
    <2>1. CASE PutCreate(r) \/ PutWrite(r) \/ InsertRow(r) \/ Rollback(r)
        BY <2>1 DEF PutCreate, PutWrite, CutShort, InsertRow, Rollback, At, Goto,
           Respond
    <2>2. CASE LookupRow(r) \/ GetObject(r) \/ CountDownload(r)
        BY <2>2 DEF LookupRow, AfterLookup, GetObject, CountDownload, At, Goto,
           Respond
    <2>3. CASE RemoveObject(r) \/ DeleteRow(r) \/ Finish(r)
        BY <2>3 DEF RemoveObject, DeleteRow, Finish, At, Goto, Respond
    <2> QED
        BY <1>2, <2>1, <2>2, <2>3 DEF Handle
<1>3. CASE Janitor \/ (\E i \in Ids : Expire(i))
    BY <1>3 DEF Janitor, PurgeSelect, PurgeDelete, PurgeFail, SweepOne, Expire,
       request
<1>4. CASE Crash \/ (\E c \in Callers : Reconnect(c))
    BY <1>4 DEF Crash, Reconnect, request
<1> QED
    BY <1>1, <1>2, <1>3, <1>4 DEF Next

\* A step of a request changes no other request.
LEMMA OnlyOwn ==
    ASSUME IInv, NEW r \in Requests, Accept(r) \/ Handle(r)
    PROVE  OthersKeep(r)
<1> USE DEF OthersKeep, IInv, TypeOK
<1>1. CASE Accept(r)
    BY <1>1 DEF Accept, AcceptCreate, AcceptLookup
<1>2. CASE Handle(r)
    BY <1>2 DEF Handle, PutCreate, PutWrite, CutShort, InsertRow, Rollback,
       LookupRow, GetObject, CountDownload, RemoveObject, DeleteRow, Finish, Goto,
       Respond
<1> QED
    BY <1>1, <1>2

-----------------------------------------------------------------------------
(***************************************************************************)
(* Announcements                                                           *)
(***************************************************************************)

\* A request that is not about to announce leaves the explanations standing.
LEMMA KeepsExplained ==
    ASSUME NEW i, Explained(i), NEW r \in Requests,
           ~(pc[r] = "finish" /\ Announces(route[r])), OthersKeep(r),
           i \in silent => i \in silent'
    PROVE  Explained(i)'
    BY DEF Explained, WillAnnounce, OthersKeep, Announces

LEMMA AnnouncementsStep ==
    ASSUME IInv, RoutesOK, AnnouncementsOK, Next
    PROVE  AnnouncementsOK'
<1> SUFFICES ASSUME "crash" \notin Faults, NEW i \in unannounced' PROVE Explained(i)'
    BY DEF AnnouncementsOK
<1>0. ASSUME i \in unannounced PROVE Explained(i)
    BY <1>0 DEF AnnouncementsOK
<1>1. ASSUME NEW r \in Requests, Accept(r) PROVE Explained(i)'
    <2>1. pc[r] # "finish" /\ UNCHANGED changes
        BY <1>1 DEF Accept, AcceptCreate, AcceptLookup, At, history
    <2> QED
        BY <1>0, <1>1, <2>1, OnlyOwn, KeepsExplained DEF changes
<1>2. ASSUME NEW r \in Requests, Handle(r) PROVE Explained(i)'
    <2>0. OthersKeep(r)
        BY <1>2, OnlyOwn
    <2>1. CASE InsertRow(r)
        <3>1. /\ pc[r] # "finish" /\ silent \subseteq silent'
              /\ i \in unannounced \/ (i = item[r] /\ i \notin unannounced)
            BY <2>1 DEF InsertRow, At, changes
        <3>2. CASE i \in unannounced
            BY <1>0, <2>0, <3>1, <3>2, KeepsExplained
        <3>3. CASE i = item[r] /\ i \notin unannounced
            <4>1. /\ pc'[r] = "finish" /\ item'[r] = item[r] /\ route'[r] = route[r]
                  /\ route[r] = "clipboard_form" => item[r] \in silent'
                BY <2>1, <3>3 DEF InsertRow, Goto, changes, IInv, TypeOK
            <4> QED
                BY <3>3, <4>1 DEF Explained, WillAnnounce, Announces
        <3> QED
            BY <3>1, <3>2, <3>3
    <2>2. CASE DeleteRow(r)
        <3>1. /\ pc[r] # "finish"
              /\ pc'[r] = "finish" /\ item'[r] = item[r] /\ route'[r] = route[r]
              /\ Announces(route[r])
            BY <2>2 DEF DeleteRow, At, Goto, IInv, TypeOK, RoutesOK, RouteOK,
               DeleteRoutes, Announces
        <3>2. CASE i = item[r]
            BY <3>1, <3>2 DEF Explained, WillAnnounce, Announces
        <3>3. CASE i # item[r]
            <4>1. i \in unannounced /\ (i \in silent => i \in silent')
                BY <2>2, <3>3 DEF DeleteRow, DropRows, Target, changes
            <4> QED
                BY <1>0, <2>0, <3>1, <4>1, KeepsExplained
        <3> QED
            BY <3>2, <3>3
    <2>3. CASE Finish(r)
        <3>1. ~Announces(route[r]) /\ UNCHANGED changes
            BY <2>3 DEF Finish, changes
        <3> QED
            BY <1>0, <2>0, <3>1, KeepsExplained DEF changes
    <2>4. CASE ~(InsertRow(r) \/ DeleteRow(r) \/ Finish(r))
        <3>1. pc[r] # "finish" /\ UNCHANGED changes
            BY <1>2, <2>4 DEF Handle, PutCreate, PutWrite, Rollback, LookupRow,
               GetObject, CountDownload, RemoveObject, At, history
        <3> QED
            BY <1>0, <2>0, <3>1, KeepsExplained DEF changes
    <2> QED
        BY <2>1, <2>2, <2>3, <2>4
<1>3. CASE Janitor
    <2>1. CASE PurgeDelete
        <3>1. i \in unannounced \/ i \in Due
            BY <2>1 DEF PurgeDelete, DropRows
        <3>2. silent' = silent \cup Due /\ UNCHANGED request
            BY <2>1 DEF PurgeDelete
        <3> QED
            BY <1>0, <3>1, <3>2 DEF Explained, WillAnnounce, Announces, request
    <2>2. CASE ~PurgeDelete
        <3>1. UNCHANGED <<request, changes>>
            BY <1>3, <2>2 DEF Janitor, PurgeSelect, PurgeFail, SweepOne, history
        <3> QED
            BY <1>0, <3>1 DEF Explained, WillAnnounce, Announces, request, changes
    <2> QED
        BY <2>1, <2>2
<1>4. CASE (\E j \in Ids : Expire(j)) \/ (\E c \in Callers : Reconnect(c))
    <2>1. UNCHANGED <<request, changes>>
        BY <1>4 DEF Expire, Reconnect, history
    <2> QED
        BY <1>0, <2>1 DEF Explained, WillAnnounce, Announces, request, changes
<1>5. ~Crash
    BY DEF Crash, MayFail
<1> QED
    BY <1>1, <1>2, <1>3, <1>4, <1>5 DEF Next

-----------------------------------------------------------------------------
(***************************************************************************)
(* Rows without objects                                                    *)
(***************************************************************************)
MidDelete(i) == \E r \in Requests : pc[r] = "unrow" /\ item[r] = i

LEMMA DanglingStep ==
    ASSUME IInv, RoutesOK, DanglingOK, Next
    PROVE  DanglingOK'
<1> SUFFICES ASSUME Faults \cap {"db", "crash"} = {}, NEW i \in rows',
                    obj'[i] = "absent"
             PROVE  MidDelete(i)'
    BY DEF DanglingOK, DanglingOnlyMidDelete, MidDelete
<1>0. ASSUME i \in rows, obj[i] = "absent" PROVE MidDelete(i)
    BY <1>0 DEF DanglingOK, DanglingOnlyMidDelete, MidDelete
<1>1. ASSUME NEW r \in Requests, Accept(r) PROVE MidDelete(i)'
    <2>1. pc[r] = "idle" /\ rows' = rows /\ obj' = obj
        BY <1>1 DEF Accept, AcceptCreate, AcceptLookup, At, store
    <2> QED
        BY <1>0, <1>1, <2>1, OnlyOwn DEF MidDelete, OthersKeep
<1>2. ASSUME NEW r \in Requests, Handle(r) PROVE MidDelete(i)'
    <2>0. OthersKeep(r)
        BY <1>2, OnlyOwn
    <2>1. CASE PutCreate(r) \/ PutWrite(r) \/ Rollback(r)
        <3>1. pc[r] \in Creating /\ rows' = rows
            BY <2>1 DEF PutCreate, PutWrite, Rollback, At, Creating
        <3>2. item[r] # i
            BY <3>1 DEF IInv, Ledger, Handlers, HandlerOK
        <3>3. obj'[i] = obj[i]
            BY <2>1, <3>2 DEF PutCreate, PutWrite, Rollback, StoreDelete, Removed,
               IInv, TypeOK
        <3> QED
            BY <1>0, <2>0, <3>1, <3>2, <3>3 DEF MidDelete, OthersKeep
    <2>2. CASE InsertRow(r)
        <3>1. pc[r] = "insert" /\ obj[item[r]] = "full" /\ obj' = obj
            BY <2>2 DEF InsertRow, At, IInv, Handlers, HandlerOK
        <3>2. i \in rows
            BY <2>2, <3>1 DEF InsertRow
        <3> QED
            BY <1>0, <2>0, <3>1, <3>2 DEF MidDelete, OthersKeep
    <2>3. CASE RemoveObject(r)
        <3>1. /\ pc[r] = "remove" /\ rows' = rows
              /\ pc'[r] = "unrow" /\ item'[r] = item[r]
            BY <2>3 DEF RemoveObject, At, Goto, IInv, TypeOK
        <3>2. CASE i = item[r]
            BY <3>1, <3>2 DEF MidDelete
        <3>3. CASE i # item[r]
            <4>1. obj'[i] = obj[i]
                BY <2>3, <3>3 DEF RemoveObject, StoreDelete, Removed, IInv, TypeOK
            <4> QED
                BY <1>0, <2>0, <3>1, <4>1 DEF MidDelete, OthersKeep
        <3> QED
            BY <3>2, <3>3
    <2>4. CASE DeleteRow(r)
        <3>1. pc[r] = "unrow" /\ Target(r) = {item[r]}
            BY <2>4 DEF DeleteRow, At, RoutesOK, RouteOK, Target
        <3>2. rows' = rows \ {item[r]} /\ obj' = obj
            BY <2>4, <3>1 DEF DeleteRow, DropRows, MayFail
        <3> QED
            BY <1>0, <2>0, <3>2 DEF MidDelete, OthersKeep
    <2>5. CASE LookupRow(r) \/ GetObject(r) \/ CountDownload(r) \/ Finish(r)
        <3>1. pc[r] # "unrow" /\ rows' = rows /\ obj' = obj
            BY <2>5 DEF LookupRow, GetObject, CountDownload, Finish, At, store
        <3> QED
            BY <1>0, <2>0, <3>1 DEF MidDelete, OthersKeep
    <2> QED
        BY <1>2, <2>1, <2>2, <2>3, <2>4, <2>5 DEF Handle
<1>3. ASSUME NEW j \in Ids, Expire(j) PROVE MidDelete(i)'
    BY <1>0, <1>3 DEF Expire, MidDelete, request
<1>4. CASE Janitor
    <2>1. CASE \E j \in Ids : SweepOne(j)
        <3>1. PICK j \in Ids : SweepOne(j)
            BY <2>1
        <3>2. j \notin rows /\ rows' = rows
            BY <3>1 DEF SweepOne, IInv, JanitorOK, JanitorTodoRowless
        <3>3. obj'[i] = obj[i]
            BY <3>1, <3>2 DEF SweepOne, StoreDelete, Removed, IInv, TypeOK
        <3> QED
            BY <1>0, <3>1, <3>2, <3>3 DEF SweepOne, MidDelete, request
    <2>2. CASE ~(\E j \in Ids : SweepOne(j))
        <3>1. obj' = obj /\ rows' \subseteq rows /\ UNCHANGED request
            BY <1>4, <2>2 DEF Janitor, PurgeSelect, PurgeDelete, DropRows, PurgeFail,
               store
        <3> QED
            BY <1>0, <3>1 DEF MidDelete, request
    <2> QED
        BY <2>1, <2>2
<1>5. ASSUME NEW c \in Callers, Reconnect(c) PROVE MidDelete(i)'
    BY <1>0, <1>5 DEF Reconnect, MidDelete, store, request
<1>6. ~Crash
    BY DEF Crash, MayFail
<1> QED
    BY <1>1, <1>2, <1>3, <1>4, <1>5, <1>6 DEF Next

-----------------------------------------------------------------------------
(***************************************************************************)
(* Reconnects                                                              *)
(***************************************************************************)
\* A request that only moves within its calls of the store stays disturbed if it
\* was; one that leaves the store does not.
LEMMA DisturbancesKept ==
    ASSUME IInv, Disturbances, NEW r \in Requests, OthersKeep(r),
           UNCHANGED <<janitor, cut>>, disturbed' \subseteq disturbed,
           r \in disturbed' => pc'[r] \in StorePoints /\ item'[r] = item[r]
    PROVE  Disturbances'
<1> SUFFICES ASSUME NEW c \in disturbed' PROVE c \in InStore' /\ About(c)' \subseteq cut'
    BY DEF Disturbances
<1>1. c \in InStore /\ About(c) \subseteq cut
    BY DEF Disturbances
<1>2. CASE c = "janitor"
    BY <1>1, <1>2, RequestsAssumption DEF InStore, About, janitor
<1>3. CASE c = r
    BY <1>1, <1>3, RequestsAssumption DEF InStore, About
<1>4. CASE c # "janitor" /\ c # r
    BY <1>1, <1>4 DEF InStore, About, OthersKeep
<1> QED
    BY <1>2, <1>3, <1>4

LEMMA HandlerDisturbances ==
    ASSUME IInv, Disturbances, NEW r \in Requests, Accept(r) \/ Handle(r)
    PROVE  Disturbances'
<1>0. OthersKeep(r) /\ (r \in disturbed => pc[r] \in StorePoints)
    BY OnlyOwn, RequestsAssumption DEF Disturbances, InStore
<1>1. UNCHANGED <<janitor, cut>>
    BY DEF Accept, AcceptCreate, AcceptLookup, Handle, PutCreate, PutWrite,
       InsertRow, Rollback, LookupRow, GetObject, CountDownload, RemoveObject,
       DeleteRow, Finish, history, causes
<1>2. CASE Accept(r)
    BY <1>0, <1>1, <1>2, DisturbancesKept DEF Accept, AcceptCreate, AcceptLookup, At,
       StorePoints, Reconnectable, session
<1>3. CASE Handle(r)
    <2>1. (\E point : Goto(r, point)) \/ Respond(r)
        BY <1>3 DEF Handle, PutCreate, PutWrite, CutShort, InsertRow, Rollback,
           LookupRow, GetObject, CountDownload, RemoveObject, DeleteRow, Finish
    <2>2. /\ disturbed' \subseteq disturbed
          /\ r \in disturbed' => pc'[r] \in StorePoints /\ item'[r] = item[r]
        BY <2>1 DEF Goto, Respond, IInv, TypeOK
    <2> QED
        BY <1>0, <1>1, <2>2, DisturbancesKept
<1> QED
    BY <1>2, <1>3

\* A reconnect disturbs the calls beside it, and takes note of their ids.
LEMMA ReconnectDisturbs ==
    ASSUME Disturbances, NEW c \in Callers, Reconnect(c)
    PROVE  Disturbances'
<1> SUFFICES ASSUME NEW d \in disturbed' PROVE d \in InStore' /\ About(d)' \subseteq cut'
    BY DEF Disturbances
<1>1. InStore' = InStore /\ About(d)' = About(d)
    BY DEF Reconnect, InStore, About, request, janitor
<1>2. CASE d \in disturbed
    BY <1>1, <1>2 DEF Disturbances, Reconnect
<1>3. CASE d \in Beside(c)
    <2>1. About(d) \subseteq cut'
        BY <1>3 DEF Reconnect
    <2> QED
        BY <1>1, <1>3, <2>1 DEF Beside
<1> QED
    BY <1>2, <1>3 DEF Reconnect

\* Whoever finds its object missing is about one that was asked away or expired.
LEMMA MissingRooted ==
    ASSUME IInv, NEW c \in Callers, c \in InStore,
           c # "janitor" => pc[c] \in Reconnectable, Missing(c)
    PROVE  deleteAsked \cup expired # {}
<1>1. PICK i \in About(c) : obj[i] = "absent"
    BY DEF Missing
<1>2. CASE c = "janitor"
    BY <1>1, <1>2 DEF About, IInv, JanitorOK
<1>3. CASE c # "janitor"
    <2>1. c \in Requests /\ i = item[c]
        BY <1>1, <1>3 DEF Callers, About
    <2>2. pc[c] \in {"get", "rollback", "remove"}
        BY <1>3 DEF Missing, Reconnectable
    <2>3. CASE pc[c] = "rollback"
        BY <1>1, <2>1, <2>3 DEF IInv, Handlers, HandlerOK
    <2>4. CASE pc[c] = "remove"
        BY <2>1, <2>4 DEF IInv, Handlers, HandlerOK
    <2>5. CASE pc[c] = "get"
        BY <1>1, <2>1, <2>5 DEF IInv, Handlers, HandlerOK, RowReadable, Accounted
    <2> QED
        BY <2>2, <2>3, <2>4, <2>5
<1> QED
    BY <1>2, <1>3

LEMMA RootedStep ==
    ASSUME IInv, Rooted, Next
    PROVE  Rooted'
<1>1. deleteAsked \cup expired \subseteq deleteAsked' \cup expired'
    BY DEF Next, Accept, AcceptCreate, AcceptLookup, Handle, PutCreate, PutWrite,
       InsertRow, Rollback, LookupRow, GetObject, CountDownload, RemoveObject,
       DeleteRow, Finish, Expire, Janitor, PurgeSelect, PurgeDelete, PurgeFail,
       SweepOne, Reconnect, Crash, store, history
<1>2. ASSUME NEW c \in Callers, Reconnect(c) PROVE deleteAsked \cup expired # {}
    BY <1>2, MissingRooted DEF Reconnect, Rooted
<1>3. CASE ~(\E c \in Callers : Reconnect(c))
    <2>1. disturbed' \subseteq disturbed /\ cut' = cut /\ (broken' => broken)
        <3>1. ASSUME NEW r \in Requests, Accept(r) \/ Handle(r)
              PROVE  disturbed' \subseteq disturbed /\ cut' = cut /\ (broken' => broken)
            BY <3>1 DEF Accept, AcceptCreate, AcceptLookup, Handle, PutCreate,
               PutWrite, CutShort, InsertRow, Rollback, LookupRow, GetObject,
               CountDownload, RemoveObject, DeleteRow, Finish, Goto, Respond,
               session, history, causes
        <3>2. CASE Janitor \/ Crash \/ (\E i \in Ids : Expire(i))
            BY <3>2 DEF Janitor, PurgeSelect, PurgeDelete, PurgeFail, SweepOne,
               Crash, Expire, session, history, causes
        <3> QED
            BY <1>3, <3>1, <3>2 DEF Next
    <2> QED
        BY <1>1, <2>1 DEF Rooted
<1> QED
    BY <1>1, <1>2, <1>3 DEF Rooted

LEMMA SessionStep ==
    ASSUME IInv, SessionOK, Next
    PROVE  SessionOK'
<1>1. Disturbances'
    <2>0. Disturbances
        BY DEF SessionOK
    <2>1. ASSUME NEW r \in Requests, Accept(r) \/ Handle(r) PROVE Disturbances'
        BY <2>0, <2>1, HandlerDisturbances
    <2>2. ASSUME NEW c \in Callers, Reconnect(c) PROVE Disturbances'
        BY <2>0, <2>2, ReconnectDisturbs
    <2>3. CASE \E i \in Ids : Expire(i)
        BY <2>0, <2>3 DEF Expire, Disturbances, InStore, About, request, janitor,
           session, history, causes
    <2>4. CASE Janitor
        <3>1. /\ UNCHANGED <<request, cut>> /\ disturbed' \subseteq disturbed
              /\ "janitor" \notin disturbed'
            BY <2>0, <2>4, RequestsAssumption DEF Janitor, PurgeSelect, PurgeDelete,
               PurgeFail, SweepOne, session, history, causes, Disturbances, InStore
        <3> QED
            BY <2>0, <3>1, RequestsAssumption DEF Disturbances, InStore, About,
               request
    <2>5. CASE Crash
        BY <2>5 DEF Crash, Disturbances
    <2> QED
        BY <2>1, <2>2, <2>3, <2>4, <2>5 DEF Next
<1>2. Rooted'
    BY RootedStep DEF SessionOK
<1> QED
    BY <1>1, <1>2 DEF SessionOK

-----------------------------------------------------------------------------
(***************************************************************************)
(* Objects without rows                                                    *)
(***************************************************************************)
MidCreate(i) ==
    \E r \in Requests : item[r] = i /\ pc[r] \in {"write", "insert", "rollback"}
LeftBehind(i) ==
    MidCreate(i) \/ (jpc = "sweep" /\ i \in keys) \/ i \in unkeyed \/ i \in cut

\* On a share that works a call fails only beside a reconnect, and then its ids
\* are known.
LEMMA FailuresCut ==
    ASSUME Disturbances, ~MayFail("smb"), NEW c, StoreFails(c)
    PROVE  About(c) \subseteq cut
    BY DEF Disturbances, StoreFails

LEMMA DeleteFailureCut ==
    ASSUME Disturbances, ~MayFail("smb"), NEW r \in Requests, StoreDelete(r, item[r])
    PROVE  obj' = Removed(item[r]) \/ (obj' = obj /\ item[r] \in cut)
    BY FailuresCut, RequestsAssumption DEF StoreDelete, About

LEMMA EmptiedStep ==
    ASSUME IInv, Disturbances, \A s \in Requests : Emptied(s), Next,
           Faults \cap {"smb", "fetch", "crash"} = {}, NEW s \in Requests
    PROVE  Emptied(s)'
<1> SUFFICES ASSUME pc'[s] = "unrow", item'[s] \notin cut'
             PROVE  obj'[item'[s]] = "absent"
    BY DEF Emptied
<1>0. /\ cut \subseteq cut'
      /\ pc[s] = "unrow" /\ item[s] \notin cut =>
            item[s] \in Ids /\ obj[item[s]] = "absent"
    <2>1. cut \subseteq cut'
        BY DEF Next, Accept, AcceptCreate, AcceptLookup, Handle, PutCreate, PutWrite,
           InsertRow, Rollback, LookupRow, GetObject, CountDownload, RemoveObject,
           DeleteRow, Finish, Expire, Janitor, PurgeSelect, PurgeDelete, PurgeFail,
           SweepOne, Reconnect, Crash, history, causes
    <2> QED
        BY <2>1 DEF Emptied, IInv, TypeOK, Ledger, Handlers, HandlerOK
<1>1. ASSUME NEW r \in Requests, Accept(r) PROVE obj'[item'[s]] = "absent"
    <2>1. pc'[r] # "unrow" /\ obj' = obj
        BY <1>1 DEF Accept, AcceptCreate, AcceptLookup, IInv, TypeOK, store
    <2> QED
        BY <1>0, <1>1, <2>1, OnlyOwn DEF OthersKeep
<1>2. ASSUME NEW r \in Requests, Handle(r) PROVE obj'[item'[s]] = "absent"
    <2>0. OthersKeep(r)
        BY <1>2, OnlyOwn
    <2>1. CASE RemoveObject(r)
        <3>1. /\ item'[r] = item[r] /\ item[r] \in Ids
              /\ obj' = Removed(item[r]) \/ (obj' = obj /\ item[r] \in cut)
            BY <2>1, DeleteFailureCut DEF RemoveObject, MayFail, At, Goto, IInv,
               TypeOK, Ledger, Handlers, HandlerOK
        <3>2. CASE s = r
            BY <1>0, <3>1, <3>2 DEF Removed, IInv, TypeOK
        <3>3. CASE s # r
            BY <1>0, <2>0, <3>1, <3>3 DEF OthersKeep, Removed, IInv, TypeOK
        <3> QED
            BY <3>2, <3>3
    <2>2. CASE PutCreate(r) \/ PutWrite(r) \/ Rollback(r)
        <3>1. pc[r] \in Creating /\ pc'[r] # "unrow"
            BY <2>2 DEF PutCreate, PutWrite, CutShort, Rollback, Goto, Respond, At,
               Creating, IInv, TypeOK
        <3>2. /\ s # r /\ pc[s] = "unrow" /\ item'[s] = item[s]
              /\ item[s] \in Ids /\ obj[item[s]] = "absent"
            BY <1>0, <2>0, <3>1 DEF OthersKeep
        <3>3. item[s] # item[r]
            BY <3>1, <3>2 DEF IInv, Ledger, Handlers, HandlerOK
        <3>4. obj'[item[s]] = obj[item[s]]
            <4>1. \/ obj' = obj
                  \/ \E left \in {"absent", "partial", "full"} :
                        obj' = [obj EXCEPT ![item[r]] = left]
                BY <2>2 DEF PutCreate, PutWrite, Rollback, StoreDelete, Removed
            <4> QED
                BY <3>2, <3>3, <4>1 DEF IInv, TypeOK
        <3> QED
            BY <3>2, <3>4
    <2>3. CASE ~(RemoveObject(r) \/ PutCreate(r) \/ PutWrite(r) \/ Rollback(r))
        <3>1. pc'[r] # "unrow" /\ obj' = obj
            BY <1>2, <2>3 DEF Handle, InsertRow, LookupRow, AfterLookup, GetObject,
               CountDownload, DeleteRow, Finish, Goto, Respond, store, IInv, TypeOK
        <3> QED
            BY <1>0, <2>0, <3>1 DEF OthersKeep
    <2> QED
        BY <2>1, <2>2, <2>3
<1>3. CASE Janitor \/ (\E i \in Ids : Expire(i)) \/ (\E c \in Callers : Reconnect(c))
    <2>1. /\ UNCHANGED request
          /\ obj' = obj \/ \E j \in Ids : obj' = [obj EXCEPT ![j] = "absent"]
        BY <1>3 DEF Janitor, PurgeSelect, PurgeDelete, PurgeFail, SweepOne,
           StoreDelete, Removed, Expire, Reconnect, store
    <2>2. pc[s] = "unrow" /\ item'[s] = item[s]
        BY <2>1 DEF request
    <2> QED
        BY <1>0, <2>1, <2>2 DEF IInv, TypeOK
<1>4. ~Crash
    BY DEF Crash, MayFail
<1> QED
    BY <1>1, <1>2, <1>3, <1>4 DEF Next

LEMMA OrphansStep ==
    ASSUME IInv, SessionOK, OrphansOK, Next
    PROVE  OrphansOK'
<1> SUFFICES ASSUME Faults \cap {"smb", "fetch", "crash"} = {}
             PROVE  OrphanExplained' /\ \A s \in Requests : Emptied(s)'
    BY DEF OrphansOK
<1>0. Disturbances /\ ~MayFail("smb") /\ \A s \in Requests : Emptied(s)
    BY DEF SessionOK, OrphansOK, MayFail
<1>1. \A s \in Requests : Emptied(s)'
    BY <1>0, EmptiedStep
<1>2. cut' # {} => deleteAsked' \cup expired' # {}
    BY RootedStep DEF SessionOK, Rooted
<1> SUFFICES ASSUME NEW i \in Ids \ rows', obj'[i] # "absent" PROVE LeftBehind(i)'
    BY <1>1, <1>2 DEF OrphanExplained, LeftBehind, MidCreate
<1>3. ASSUME i \notin rows, obj[i] # "absent" PROVE LeftBehind(i)
    BY <1>3 DEF OrphansOK, OrphanExplained, LeftBehind, MidCreate
<1>4. ASSUME NEW r \in Requests, Accept(r) PROVE LeftBehind(i)'
    <2>1. pc[r] = "idle" /\ UNCHANGED <<rows, obj, janitor, causes>>
        BY <1>4 DEF Accept, AcceptCreate, AcceptLookup, At, store, history
    <2> QED
        BY <1>3, <1>4, <2>1, OnlyOwn DEF LeftBehind, MidCreate, OthersKeep, janitor,
           causes
<1>5. ASSUME NEW r \in Requests, Handle(r) PROVE LeftBehind(i)'
    <2>0. OthersKeep(r)
        BY <1>5, OnlyOwn
    <2>1. UNCHANGED <<janitor, causes>>
        BY <1>5 DEF Handle, PutCreate, PutWrite, InsertRow, Rollback, LookupRow,
           GetObject, CountDownload, RemoveObject, DeleteRow, Finish, history
    <2>2. CASE PutCreate(r) \/ PutWrite(r)
        <3>1. /\ rows' = rows
              /\ \/ pc'[r] \in {"write", "insert"} /\ item'[r] = item[r]
                 \/ StoreFails(r)
              /\ \E left \in {"absent", "partial", "full"} :
                    obj' = [obj EXCEPT ![item[r]] = left]
            BY <2>2 DEF PutCreate, PutWrite, MayFail, Goto, IInv, TypeOK
        <3>2. CASE i = item[r]
            <4>1. StoreFails(r) => item[r] \in cut
                BY <1>0, FailuresCut, RequestsAssumption DEF About
            <4> QED
                BY <2>1, <3>1, <3>2, <4>1 DEF LeftBehind, MidCreate, causes
        <3>3. CASE i # item[r]
            <4>1. obj'[i] = obj[i]
                BY <3>1, <3>3 DEF IInv, TypeOK
            <4> QED
                BY <1>3, <2>0, <2>1, <3>1, <3>3, <4>1 DEF LeftBehind, MidCreate,
                   OthersKeep, janitor, causes
        <3> QED
            BY <3>2, <3>3
    <2>3. CASE InsertRow(r)
        <3>1. /\ pc'[r] = "rollback" \/ rows' = rows \cup {item[r]}
              /\ item'[r] = item[r] /\ obj' = obj /\ rows \subseteq rows'
            BY <2>3 DEF InsertRow, Goto, IInv, TypeOK
        <3>2. CASE i = item[r]
            BY <3>1, <3>2 DEF LeftBehind, MidCreate
        <3>3. CASE i # item[r]
            BY <1>3, <2>0, <2>1, <3>1, <3>3 DEF LeftBehind, MidCreate, OthersKeep,
               janitor, causes
        <3> QED
            BY <3>2, <3>3
    <2>4. CASE Rollback(r) \/ RemoveObject(r)
        <3>1. rows' = rows
            BY <2>4 DEF Rollback, RemoveObject
        <3>2. obj' = Removed(item[r]) \/ (obj' = obj /\ item[r] \in cut)
            BY <1>0, <2>4, DeleteFailureCut DEF Rollback, RemoveObject
        <3>3. CASE i = item[r]
            BY <2>1, <3>2, <3>3 DEF Removed, LeftBehind, causes, IInv, TypeOK
        <3>4. CASE i # item[r]
            <4>1. obj'[i] = obj[i]
                BY <3>2, <3>4 DEF Removed, IInv, TypeOK
            <4> QED
                BY <1>3, <2>0, <2>1, <3>1, <3>4, <4>1 DEF LeftBehind, MidCreate,
                   OthersKeep, janitor, causes
        <3> QED
            BY <3>3, <3>4
    <2>5. CASE DeleteRow(r)
        <3>1. /\ pc[r] = "unrow" /\ obj' = obj
              /\ \A j \in Ids \ {item[r]} : j \in rows' <=> j \in rows
            BY <2>5 DEF DeleteRow, DropRows, Target, At
        <3>2. CASE i = item[r]
            BY <1>0, <2>1, <3>1, <3>2 DEF Emptied, LeftBehind, causes
        <3>3. CASE i # item[r]
            BY <1>3, <2>0, <2>1, <3>1, <3>3 DEF LeftBehind, MidCreate, OthersKeep,
               janitor, causes
        <3> QED
            BY <3>2, <3>3
    <2>6. CASE LookupRow(r) \/ GetObject(r) \/ CountDownload(r) \/ Finish(r)
        <3>1. /\ pc[r] \in {"lookup", "get", "count", "finish"}
              /\ rows' = rows /\ obj' = obj
            BY <2>6 DEF LookupRow, GetObject, CountDownload, Finish, At, store
        <3> QED
            BY <1>3, <2>0, <2>1, <3>1 DEF LeftBehind, MidCreate, OthersKeep, janitor,
               causes
    <2> QED
        BY <1>5, <2>2, <2>3, <2>4, <2>5, <2>6 DEF Handle
<1>6. CASE (\E j \in Ids : Expire(j)) \/ (\E c \in Callers : Reconnect(c))
    <2>1. UNCHANGED <<rows, obj, request, janitor, unkeyed>> /\ cut \subseteq cut'
        BY <1>6 DEF Expire, Reconnect, store, history, causes
    <2> QED
        BY <1>3, <2>1 DEF LeftBehind, MidCreate, request, janitor
<1>7. CASE Janitor
    <2>1. UNCHANGED <<request, cut>>
        BY <1>7 DEF Janitor, PurgeSelect, PurgeDelete, PurgeFail, SweepOne, history,
           causes
    <2>2. CASE PurgeDelete
        <3>1. /\ obj' = obj /\ jpc # "sweep" /\ jpc' = "sweep" /\ keys' = keys
              /\ unkeyed' = unkeyed \cup (Due \ keys) /\ rows' = rows \ Due
            BY <2>2 DEF PurgeDelete, DropRows
        <3>2. CASE i \in Due
            BY <3>1, <3>2 DEF LeftBehind
        <3>3. CASE i \notin Due
            BY <1>3, <2>1, <3>1, <3>3 DEF LeftBehind, MidCreate, request
        <3> QED
            BY <3>2, <3>3
    <2>3. CASE (\E found \in SUBSET Due : PurgeSelect(found)) \/ PurgeFail
        <3>1. rows' = rows /\ obj' = obj /\ jpc # "sweep" /\ UNCHANGED unkeyed
            BY <2>3 DEF PurgeSelect, PurgeFail, store, history, causes
        <3> QED
            BY <1>3, <2>1, <3>1 DEF LeftBehind, MidCreate, request
    <2>4. ASSUME NEW j \in Ids, SweepOne(j) PROVE LeftBehind(i)'
        <3>1. /\ rows' = rows /\ unkeyed' = unkeyed /\ j \in keys
              /\ keys' = keys \ {j} /\ jpc' = (IF keys' = {} THEN "wait" ELSE "sweep")
            BY <2>4 DEF SweepOne, history, causes
        <3>2. obj' = Removed(j) \/ (obj' = obj /\ j \in cut)
            <4>1. StoreFails("janitor") => keys \subseteq cut
                BY <1>0, FailuresCut DEF About
            <4> QED
                BY <2>4, <3>1, <4>1 DEF SweepOne, StoreDelete
        <3>3. CASE i = j
            BY <2>1, <3>2, <3>3 DEF Removed, LeftBehind, IInv, TypeOK
        <3>4. CASE i # j
            <4>1. obj'[i] = obj[i]
                BY <3>2, <3>4 DEF Removed, IInv, TypeOK
            <4> QED
                BY <1>3, <2>1, <3>1, <3>4, <4>1 DEF LeftBehind, MidCreate, request
        <3> QED
            BY <3>3, <3>4
    <2> QED
        BY <1>7, <2>2, <2>3, <2>4 DEF Janitor
<1>8. ~Crash
    BY DEF Crash, MayFail
<1> QED
    BY <1>4, <1>5, <1>6, <1>7, <1>8 DEF Next

-----------------------------------------------------------------------------
(***************************************************************************)
(* Download counts                                                         *)
(***************************************************************************)
Counting(i) == InFlight(i, "count")

LEMMA CountingFinite ==
    ASSUME NEW i
    PROVE  IsFiniteSet(Counting(i)) /\ Cardinality(Counting(i)) \in Nat
<1>1. IsFiniteSet(Counting(i))
    BY RequestsAssumption, FS_Subset DEF Counting, InFlight
<1> QED
    BY <1>1, FS_CardinalityType

\* A step that neither brings a request to its count nor takes one from it.
LEMMA CountingKept ==
    ASSUME NEW i, NEW r \in Requests, OthersKeep(r),
           pc[r] # "count", pc'[r] # "count"
    PROVE  Counting(i)' = Counting(i)
    BY DEF Counting, InFlight, OthersKeep

\* Items that were never listed have no downloads.
Unread(i) == downloads[i] = 0 /\ served[i] = 0

LEMMA UnreadStep ==
    ASSUME IInv, Next, NEW i \in Ids \ published', Unread(i)
    PROVE  Unread(i)'
<1>1. i \notin published /\ i \notin rows
    BY DEF IInv, Ledger, Next, Accept, AcceptCreate, AcceptLookup, Handle, PutCreate,
       PutWrite, InsertRow, Rollback, LookupRow, GetObject, CountDownload,
       RemoveObject, DeleteRow, Finish, Expire, Janitor, PurgeSelect, PurgeDelete,
       PurgeFail, SweepOne, Reconnect, Crash, history
<1>2. downloads'[i] = 0
    <2>1. ASSUME NEW r \in Requests, CountDownload(r) PROVE downloads'[i] = 0
        BY <1>1, <2>1 DEF CountDownload, Bump, IInv, TypeOK, Unread
    <2>2. ASSUME NEW S, DropRows(S) PROVE downloads'[i] = 0
        BY <2>2 DEF DropRows, Unread
    <2>3. CASE UNCHANGED downloads
        BY <2>3 DEF Unread
    <2> QED
        BY <2>1, <2>2, <2>3 DEF Next, Accept, AcceptCreate, AcceptLookup, Handle,
           PutCreate, PutWrite, InsertRow, Rollback, LookupRow, GetObject,
           RemoveObject, DeleteRow, Finish, Expire, Janitor, PurgeSelect,
           PurgeDelete, PurgeFail, SweepOne, Reconnect, Crash, store
<1>3. served'[i] = 0
    <2>1. ASSUME NEW r \in Requests, GetObject(r) PROVE served'[i] = 0
        BY <1>1, <2>1 DEF GetObject, At, IInv, TypeOK, Handlers, HandlerOK, Unread
    <2>2. CASE UNCHANGED served
        BY <2>2 DEF Unread
    <2> QED
        BY <2>1, <2>2 DEF Next, Accept, AcceptCreate, AcceptLookup, Handle,
           PutCreate, PutWrite, InsertRow, Rollback, LookupRow, CountDownload,
           RemoveObject, DeleteRow, Finish, Expire, Janitor, PurgeSelect,
           PurgeDelete, PurgeFail, SweepOne, Reconnect, Crash, history
<1> QED
    BY <1>2, <1>3 DEF Unread

\* One more download is served and not yet counted.
LEMMA GetObjectCounts ==
    ASSUME IInv, NEW i \in rows, NEW r \in Requests, GetObject(r),
           downloads[i] + Cardinality(Counting(i)) = served[i]
    PROVE  downloads'[i] + Cardinality(Counting(i)') = served'[i]
<1>0. OthersKeep(r) /\ downloads' = downloads /\ i \in Ids
    BY OnlyOwn DEF Handle, GetObject, store, IInv, TypeOK
<1>1. CASE pc'[r] = "count" /\ item[r] = i
    <2>1. served'[i] = served[i] + 1 /\ pc[r] # "count" /\ item'[r] = i
        BY <1>0, <1>1 DEF GetObject, At, Goto, Respond, IInv, TypeOK
    <2>2. Counting(i)' = Counting(i) \cup {r} /\ r \notin Counting(i)
        BY <1>0, <1>1, <2>1 DEF Counting, InFlight, OthersKeep
    <2>3. Cardinality(Counting(i)') = Cardinality(Counting(i)) + 1
        BY <2>2, CountingFinite, FS_AddElement
    <2> QED
        BY <1>0, <2>1, <2>3, CountingFinite DEF IInv, TypeOK
<1>2. CASE ~(pc'[r] = "count" /\ item[r] = i)
    <2>1. served'[i] = served[i]
        BY <1>0, <1>2 DEF GetObject, At, Goto, IInv, TypeOK
    <2>2. pc[r] # "count" /\ (pc'[r] # "count" \/ item'[r] # i)
        <3>1. pc[r] = "get" /\ (pc'[r] = "idle" \/ item'[r] = item[r])
            BY DEF GetObject, At, Goto, Respond, IInv, TypeOK
        <3> QED
            BY <1>2, <3>1
    <2>3. Counting(i)' = Counting(i)
        BY <1>0, <2>2 DEF Counting, InFlight, OthersKeep
    <2> QED
        BY <1>0, <2>1, <2>3
<1> QED
    BY <1>1, <1>2

\* One download that was served is counted.
LEMMA CountDownloadCounts ==
    ASSUME IInv, NEW i \in rows, NEW r \in Requests, CountDownload(r), ~MayFail("db"),
           downloads[i] + Cardinality(Counting(i)) = served[i]
    PROVE  downloads'[i] + Cardinality(Counting(i)') = served'[i]
<1>0. OthersKeep(r) /\ served' = served /\ i \in Ids
    BY OnlyOwn DEF Handle, CountDownload, history, IInv, TypeOK
<1>1. pc[r] = "count" /\ pc'[r] = "idle"
    BY DEF CountDownload, At, Respond, IInv, TypeOK
<1>2. CASE item[r] = i
    <2>1. downloads'[i] = downloads[i] + 1
        BY <1>0, <1>2 DEF CountDownload, Bump, IInv, TypeOK
    <2>2. Counting(i)' = Counting(i) \ {r} /\ r \in Counting(i)
        BY <1>0, <1>1, <1>2 DEF Counting, InFlight, OthersKeep
    <2>3. Cardinality(Counting(i)') = Cardinality(Counting(i)) - 1
        BY <2>2, CountingFinite, FS_RemoveElement
    <2> QED
        BY <1>0, <2>1, <2>3, CountingFinite DEF IInv, TypeOK
<1>3. CASE item[r] # i
    <2>1. downloads'[i] = downloads[i]
        BY <1>0, <1>3 DEF CountDownload, Bump, IInv, TypeOK
    <2>2. Counting(i)' = Counting(i)
        BY <1>0, <1>1, <1>3 DEF Counting, InFlight, OthersKeep
    <2> QED
        BY <1>0, <2>1, <2>2
<1> QED
    BY <1>2, <1>3

LEMMA CountsStep ==
    ASSUME IInv, CountsOK, Next
    PROVE  CountsOK'
<1> SUFFICES ASSUME Faults \cap {"db", "crash"} = {}
             PROVE  CountExact' /\ \A i \in Ids \ published' : Unread(i)'
    BY DEF CountsOK, Unread
<1>0. \A i \in Ids \ published : Unread(i)
    BY DEF CountsOK, Unread
<1>1. \A i \in Ids \ published' : Unread(i)'
    <2> SUFFICES ASSUME NEW i \in Ids \ published' PROVE Unread(i)'
        OBVIOUS
    <2>1. published \subseteq published'
        BY DEF Next, Accept, AcceptCreate, AcceptLookup, Handle, PutCreate, PutWrite,
           InsertRow, Rollback, LookupRow, GetObject, CountDownload, RemoveObject,
           DeleteRow, Finish, Expire, Janitor, PurgeSelect, PurgeDelete, PurgeFail,
           SweepOne, Reconnect, Crash, history
    <2> QED
        BY <1>0, <2>1, UnreadStep
<1> SUFFICES ASSUME NEW i \in rows'
             PROVE  downloads'[i] + Cardinality(Counting(i)') = served'[i]
    BY <1>1 DEF CountExact, Counting
<1>2. ASSUME i \in rows PROVE downloads[i] + Cardinality(Counting(i)) = served[i]
    BY <1>2 DEF CountsOK, CountExact, Counting
<1>3. ASSUME NEW r \in Requests, Accept(r)
      PROVE  downloads'[i] + Cardinality(Counting(i)') = served'[i]
    <2>1. pc[r] # "count" /\ pc'[r] # "count" /\ UNCHANGED <<rows, downloads, served>>
        BY <1>3 DEF Accept, AcceptCreate, AcceptLookup, At, store, history, IInv,
           TypeOK
    <2> QED
        BY <1>2, <1>3, <2>1, OnlyOwn, CountingKept
<1>4. ASSUME NEW r \in Requests, Handle(r)
      PROVE  downloads'[i] + Cardinality(Counting(i)') = served'[i]
    <2>0. OthersKeep(r)
        BY <1>4, OnlyOwn
    <2>1. CASE InsertRow(r)
        <3>1. /\ pc[r] = "insert" /\ pc'[r] # "count" /\ UNCHANGED <<downloads, served>>
              /\ rows' \subseteq rows \cup {item[r]}
            BY <2>1 DEF InsertRow, At, Goto, IInv, TypeOK
        <3>2. CASE i \in rows
            BY <1>2, <2>0, <3>1, <3>2, CountingKept
        <3>3. CASE i \notin rows
            <4>1. i = item[r] /\ i \in Ids \ published
                BY <3>1, <3>3 DEF IInv, TypeOK, Ledger, Handlers, HandlerOK, Creating
            <4>2. Counting(i) = {}
                BY <4>1 DEF Counting, InFlight, IInv, Handlers, HandlerOK
            <4>3. Cardinality(Counting(i)') = 0
                BY <2>0, <3>1, <4>2, CountingKept, FS_EmptySet
            <4> QED
                BY <1>0, <3>1, <4>1, <4>3 DEF Unread
        <3> QED
            BY <3>2, <3>3
    <2>2. CASE GetObject(r)
        <3>1. i \in rows
            BY <2>2 DEF GetObject, store
        <3> QED
            BY <1>2, <2>2, <3>1, GetObjectCounts
    <2>3. CASE CountDownload(r)
        <3>1. i \in rows /\ ~MayFail("db")
            BY <2>3 DEF CountDownload, MayFail
        <3> QED
            BY <1>2, <2>3, <3>1, CountDownloadCounts
    <2>4. CASE DeleteRow(r)
        <3>1. /\ pc[r] # "count" /\ pc'[r] # "count" /\ i \in rows
              /\ downloads'[i] = downloads[i] /\ served' = served
            BY <2>4 DEF DeleteRow, DropRows, At, Goto, IInv, TypeOK
        <3> QED
            BY <1>2, <2>0, <3>1, CountingKept
    <2>5. CASE ~(InsertRow(r) \/ GetObject(r) \/ CountDownload(r) \/ DeleteRow(r))
        <3>1. /\ pc[r] # "count" /\ pc'[r] # "count"
              /\ UNCHANGED <<rows, downloads, served>>
            BY <1>4, <2>5 DEF Handle, PutCreate, PutWrite, CutShort, Rollback,
               LookupRow, AfterLookup, RemoveObject, Finish, At, Goto, Respond,
               store, history, IInv, TypeOK
        <3> QED
            BY <1>2, <2>0, <3>1, CountingKept
    <2> QED
        BY <2>1, <2>2, <2>3, <2>4, <2>5
<1>5. CASE Janitor \/ (\E j \in Ids : Expire(j))
    <2>1. /\ i \in rows /\ downloads'[i] = downloads[i]
          /\ served' = served /\ UNCHANGED request
        BY <1>5 DEF Janitor, PurgeSelect, PurgeDelete, DropRows, PurgeFail, SweepOne,
           Expire, store, history, IInv, TypeOK
    <2>2. Counting(i)' = Counting(i)
        BY <2>1 DEF Counting, InFlight, request
    <2> QED
        BY <1>2, <2>1, <2>2
<1>6. ASSUME NEW c \in Callers, Reconnect(c)
      PROVE  downloads'[i] + Cardinality(Counting(i)') = served'[i]
    <2>1. /\ i \in rows /\ downloads' = downloads /\ served' = served
          /\ UNCHANGED request
        BY <1>6 DEF Reconnect, store
    <2>2. Counting(i)' = Counting(i)
        BY <2>1 DEF Counting, InFlight, request
    <2> QED
        BY <1>2, <2>1, <2>2
<1>7. ~Crash
    BY DEF Crash, MayFail
<1> QED
    BY <1>3, <1>4, <1>5, <1>6, <1>7 DEF Next

-----------------------------------------------------------------------------
LEMMA StepFInv == FInv /\ [Next]_vars => FInv'
<1>1. ASSUME FInv, Next PROVE FInv'
    BY <1>1, StepIInv, RoutesStep, AnnouncementsStep, DanglingStep, SessionStep,
       OrphansStep, CountsStep DEF FInv
<1>2. ASSUME FInv, UNCHANGED vars PROVE FInv'
    <2>1. IInv'
        BY <1>2, StutterStep DEF FInv
    <2>2. RoutesOK' /\ AnnouncementsOK'
        BY <1>2 DEF FInv, RoutesOK, RouteOK, Creating, AnnouncementsOK, Explained,
           WillAnnounce, Announces, vars, store, request, history, changes, causes
    <2>3. DanglingOK'
        BY <1>2 DEF FInv, DanglingOK, DanglingOnlyMidDelete, vars, store, request
    <2>4. SessionOK' /\ OrphansOK'
        BY <1>2 DEF FInv, SessionOK, Disturbances, Rooted, InStore, About, OrphansOK,
           OrphanExplained, Emptied, vars, store, request, janitor, session, history,
           causes
    <2>5. CountsOK'
        BY <1>2 DEF FInv, CountsOK, CountExact, InFlight, vars, store, request,
           history, changes, causes
    <2> QED
        BY <2>1, <2>2, <2>3, <2>4, <2>5 DEF FInv
<1> QED
    BY <1>1, <1>2

THEOREM FaultInvariance == Spec => []FInv
<1> QED
    BY InitFInv, StepFInv, PTL DEF Spec

\* Unless the process dies, a change of a list that was not announced is about to
\* be by its own handler, or the row was changed last by the INSERT of the multipart
\* form or the DELETE of the janitor.
THEOREM AnnouncedUnlessCrash == Spec => []("crash" \notin Faults => UnannouncedExplained)
<1>1. FInv => ("crash" \notin Faults => UnannouncedExplained)
    BY DEF FInv, AnnouncementsOK, Explained, WillAnnounce, Announces,
       UnannouncedExplained, InFlight
<1> QED
    BY <1>1, FaultInvariance, PTL

\* With a database that works and a process that lives, a row stands without
\* its object only between the two halves of a delete, whatever the share and
\* the remote servers do.
THEOREM RowsDangleOnlyMidDelete ==
    Spec => [](Faults \cap {"db", "crash"} = {} => DanglingOnlyMidDelete)
<1>1. FInv => (Faults \cap {"db", "crash"} = {} => DanglingOnlyMidDelete)
    BY DEF FInv, DanglingOK
<1> QED
    BY <1>1, FaultInvariance, PTL

\* With a share that works, whole bodies and a process that lives, however often
\* the database fails, an object without a row belongs to a create in flight, to a
\* key the janitor is about to sweep or was never given, or to a call of the store
\* that ran beside another's reconnect, after an item was deleted or expired.
THEOREM NoOrphansLeft ==
    Spec => [](Faults \cap {"smb", "fetch", "crash"} = {} => OrphanExplained)
<1>1. FInv => (Faults \cap {"smb", "fetch", "crash"} = {} => OrphanExplained)
    BY DEF FInv, OrphansOK
<1> QED
    BY <1>1, FaultInvariance, PTL

\* With a database that works and a process that lives, the count of a listed
\* file is what was served, less the downloads about to be counted.
THEOREM CountsExact ==
    Spec => [](Faults \cap {"db", "crash"} = {} => CountExact)
<1>1. FInv => (Faults \cap {"db", "crash"} = {} => CountExact)
    BY DEF FInv, CountsOK
<1> QED
    BY <1>1, FaultInvariance, PTL
=============================================================================
