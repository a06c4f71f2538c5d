------------------------------- MODULE Vault -------------------------------
(***************************************************************************)
(* The core of Share-Home: the handlers that create, read and delete       *)
(* files and clipboard entries, the expiry janitor, and the two stores     *)
(* they share and never update together: the SQLite tables `files` and     *)
(* `clipboard` (a row per item) and the SMB share (an encrypted object per *)
(* item).  net/http runs every request on a goroutine of its own and no    *)
(* lock is taken, so one step below is one SQL statement or one SMB call,  *)
(* and everything else interleaves.                                        *)
(***************************************************************************)
EXTENDS Naturals, FiniteSets

CONSTANTS
    Files,       \* uuids that uploads may draw
    Clips,       \* uuids that clipboard entries may draw
    Requests,    \* requests that may be in flight together
    NoId,        \* the item of a request that is not in flight
    Faults,      \* what may fail: a subset of {"smb", "db", "fetch", "crash"}
    MaxReads     \* bound of the model: downloads served per file

ASSUME IdsAssumption    == Files \cap Clips = {} /\ NoId \notin Files \cup Clips
ASSUME FaultsAssumption == Faults \subseteq {"smb", "db", "fetch", "crash"}
ASSUME ReadsAssumption  == MaxReads \in Nat
ASSUME RequestsAssumption == IsFiniteSet(Requests) /\ "janitor" \notin Requests

Ids == Files \cup Clips

CreateRoutes == {"upload", "upload_url", "clipboard", "clipboard_form", "share"}
ReadRoutes   == {"download", "clipboard_read"}
DeleteRoutes == {"delete_file", "delete_clipboard"}
Routes       == CreateRoutes \cup ReadRoutes \cup DeleteRoutes

\* The SQL table a route works on, as the set of ids that may be its keys.
Table(route) ==
    IF route \in {"upload", "upload_url", "download", "delete_file"}
    THEN Files ELSE Clips

VARIABLES
    rows,        \* ids with a committed row
    expiring,    \* ids whose row has an expires_at
    expired,     \* ids whose expires_at is before datetime('now')
    obj,         \* [Ids -> object on the share: "absent", "partial", "full"]
    downloads,   \* [Ids -> download_count of the row]
    pc,          \* [Requests -> the call the handler makes next]
    route,       \* [Requests -> the route being served]
    item,        \* [Requests -> the id it is about]
    jpc,         \* the janitor: "wait" (ticker), "purge" (DELETE), "sweep"
    keys,        \* the ids whose keys PurgeExpired read and still has to delete
    disturbed,   \* the store calls in flight beside which a reconnect has run
    broken       \* the shared session may be one that overlapping reconnects broke

\* History, read by no action: it only records what the properties speak of.
VARIABLES
    issued,      \* ids drawn by uuid.New so far
    published,   \* ids whose INSERT was committed
    acked,       \* ids whose creator got its success response
    deleteAsked, \* ids that a delete request found
    served,      \* [Ids -> how often a download got the object's contents]
    unannounced, \* ids whose row changed since the last call of Broadcast
    silent,      \* those of them that the multipart form or the janitor changed last
    unkeyed,     \* files the janitor's DELETE took and its SELECT had not returned
    cut          \* ids of the store calls that were disturbed

store   == <<rows, expiring, expired, obj, downloads>>
request == <<pc, route, item>>
janitor == <<jpc, keys>>
session == <<disturbed, broken>>
changes == <<unannounced, silent>>
causes  == <<unkeyed, cut>>
history == <<issued, published, acked, deleteAsked, served, changes, causes>>
vars    == <<store, request, janitor, session, history>>

Init ==
    /\ rows = {} /\ expiring = {} /\ expired = {}
    /\ obj = [i \in Ids |-> "absent"]
    /\ downloads = [i \in Ids |-> 0]
    /\ pc = [r \in Requests |-> "idle"]
    /\ route = [r \in Requests |-> "none"]
    /\ item = [r \in Requests |-> NoId]
    /\ jpc = "wait" /\ keys = {}
    /\ disturbed = {} /\ broken = FALSE
    /\ issued = {} /\ published = {} /\ acked = {} /\ deleteAsked = {}
    /\ served = [i \in Ids |-> 0]
    /\ unannounced = {}
    /\ silent = {} /\ unkeyed = {} /\ cut = {}

(***************************************************************************)
(* Small steps shared by the actions.                                      *)
(***************************************************************************)
At(r, point) == pc[r] = point

\* Where a handler is inside store.Put, store.Get or store.Delete, and where it
\* may find itself in reconnect: not once Put has created its file.
Reconnectable == {"create", "get", "rollback", "remove"}
StorePoints   == Reconnectable \cup {"write"}

Goto(r, point) ==
    /\ pc' = [pc EXCEPT ![r] = point]
    /\ disturbed' = IF point \in StorePoints THEN disturbed ELSE disturbed \ {r}
    /\ UNCHANGED <<route, item, broken>>
Respond(r) ==
    /\ pc' = [pc EXCEPT ![r] = "idle"]
    /\ route' = [route EXCEPT ![r] = "none"]
    /\ item' = [item EXCEPT ![r] = NoId]
    /\ disturbed' = disturbed \ {r}
    /\ UNCHANGED broken

MayFail(what) == what \in Faults

InFlight(i, point) == {r \in Requests : item[r] = i /\ pc[r] = point}

(***************************************************************************)
(* A request arrives.  Creators draw a fresh uuid after the checks of the  *)
(* body (a refused body changes nothing); readers and deleters name an id  *)
(* they saw in a list.  An id that was never drawn is answered 404 and     *)
(* changes nothing, so it is left out.                                     *)
(***************************************************************************)
\* Mutation: ids that repeat.
RepeatedIds(way) == Table(way)

FreshIds(way) == Table(way) \ issued

AcceptCreate(r, way, i) ==
    /\ At(r, "idle")
    /\ i \in FreshIds(way)
    /\ issued' = issued \cup {i}
    /\ pc' = [pc EXCEPT ![r] = "create"]
    /\ route' = [route EXCEPT ![r] = way]
    /\ item' = [item EXCEPT ![r] = i]
    /\ UNCHANGED <<store, janitor, session, published, acked, deleteAsked, served,
                   changes, causes>>

AcceptLookup(r, way, i) ==
    /\ At(r, "idle")
    /\ i \in Table(way) \cap issued
    /\ way = "download" =>                                  \* MaxReads bound
         served[i] + Cardinality(InFlight(i, "get"))
                   + Cardinality(InFlight(i, "lookup")) < MaxReads
    /\ pc' = [pc EXCEPT ![r] = "lookup"]
    /\ route' = [route EXCEPT ![r] = way]
    /\ item' = [item EXCEPT ![r] = i]
    /\ UNCHANGED <<store, janitor, session, history>>

Accept(r) ==
    \/ \E way \in CreateRoutes, i \in Ids : AcceptCreate(r, way, i)
    \/ \E way \in ReadRoutes \cup DeleteRoutes, i \in Ids :
          AcceptLookup(r, way, i)

(***************************************************************************)
(* The session all calls of the store share.  A call that meets an error,  *)
(* that its object is not there included, closes the session and dials a   *)
(* new one; whatever another call is doing beside it may fail, and         *)
(* reconnects that overlap may leave a session that is broken until the    *)
(* next call replaces it (SMBSession has the single steps).  A reconnect   *)
(* takes a while: Reconnect is any moment of it, and the call ends with an *)
(* action of its own.  A share that may fail anyway is not followed that   *)
(* closely.                                                                *)
(***************************************************************************)
Callers == Requests \cup {"janitor"}

\* The callers that are in a call of the store, and the ids they are about.
InStore ==
    {r \in Requests : pc[r] \in StorePoints}
        \cup (IF jpc = "sweep" THEN {"janitor"} ELSE {})
About(c) == IF c = "janitor" THEN keys ELSE {item[c]}
Beside(c) == InStore \ {c}

\* Put needs no object to be there.
Missing(c) ==
    /\ c # "janitor" => pc[c] # "create"
    /\ \E i \in About(c) : obj[i] = "absent"

Reconnect(c) ==
    /\ ~MayFail("smb")
    /\ c \in InStore /\ (c # "janitor" => pc[c] \in Reconnectable)
    /\ Missing(c) \/ c \in disturbed \/ broken
    /\ disturbed' = disturbed \cup Beside(c)
    /\ broken' = (Beside(c) # {})
    /\ cut' = cut \cup UNION {About(d) : d \in Beside(c)}
    /\ UNCHANGED <<store, request, janitor, issued, published, acked, deleteAsked,
                   served, changes, unkeyed>>

\* A call about a missing object ends only after its reconnect.
Reconnected(c, i) ==
    obj[i] = "absent" /\ ~MayFail("smb") => Beside(c) \subseteq disturbed

\* A call of the store fails with the share, or beside another's reconnect.
StoreFails(c) == MayFail("smb") \/ c \in disturbed

(***************************************************************************)
(* Creating: store.Put, then the INSERT, then Broadcast and the response.  *)
(* Put creates the object (empty), writes the nonce, reads the body and    *)
(* writes the sealed data; a failure after Create leaves what was written. *)
(***************************************************************************)
PutCreate(r) ==
    /\ At(r, "create")
    /\ \/ /\ obj' = [obj EXCEPT ![item[r]] = "partial"]
          /\ Goto(r, "write")
       \/ /\ StoreFails(r)
          /\ \E left \in {"absent", "partial"} :
                obj' = [obj EXCEPT ![item[r]] = left]
          /\ Respond(r)
    /\ UNCHANGED <<rows, expiring, expired, downloads, janitor, history>>

\* Mutation: the read error is ignored and the row inserted.
KeptShort(r) == Goto(r, "insert")

\* Where a Put goes on whose body could not be read to its end.
CutShort(r) == Respond(r)

\* A body that cannot be read to its end makes Put return before the second
\* Write; a Write that fails may or may not have reached the share.  It fails with
\* the share or when another call's reconnect has closed the session under it.
PutWrite(r) ==
    /\ At(r, "write")
    /\ \/ /\ obj' = [obj EXCEPT ![item[r]] = "full"]
          /\ Goto(r, "insert")
       \/ /\ StoreFails(r)
          /\ \E left \in {"partial", "full"} :
                obj' = [obj EXCEPT ![item[r]] = left]
          /\ Respond(r)
       \/ /\ MayFail("fetch") /\ route[r] = "upload_url"
          /\ CutShort(r)
          /\ UNCHANGED obj
    /\ UNCHANGED <<rows, expiring, expired, downloads, janitor, history>>

\* Only the upload form has an expires_at field.
ExpiryChoices(way) == IF way = "upload" THEN BOOLEAN ELSE {FALSE}

InsertRow(r) ==
    /\ At(r, "insert")
    /\ \/ /\ rows' = rows \cup {item[r]}
          /\ published' = published \cup {item[r]}
          /\ silent' = IF route[r] = "clipboard_form"
                       THEN silent \cup {item[r]} ELSE silent
          /\ unannounced' = unannounced \cup {item[r]}
          /\ \E limited \in ExpiryChoices(route[r]) :
                expiring' = IF limited THEN expiring \cup {item[r]} ELSE expiring
          /\ Goto(r, "finish")
       \/ /\ MayFail("db")
          /\ Goto(r, "rollback")
          /\ UNCHANGED <<rows, published, changes, expiring>>
    /\ UNCHANGED <<expired, obj, downloads, janitor, issued, acked, deleteAsked,
                   served, causes>>

\* store.Delete with its error ignored: the object is gone unless the call failed.
Removed(i) == [obj EXCEPT ![i] = "absent"]
StoreDelete(c, i) ==
    /\ Reconnected(c, i)
    /\ \/ obj' = Removed(i)
       \/ StoreFails(c) /\ UNCHANGED obj

\* Mutation: the object of a failed INSERT is left behind.
NoRollback(r) ==
    /\ At(r, "rollback")
    /\ Respond(r)
    /\ UNCHANGED <<store, janitor, history>>

Rollback(r) ==
    /\ At(r, "rollback")
    /\ StoreDelete(r, item[r])
    /\ Respond(r)
    /\ UNCHANGED <<rows, expiring, expired, downloads, janitor, history>>

(***************************************************************************)
(* Reading and deleting: both look the row up first.                       *)
(***************************************************************************)
AfterLookup(way) == IF way \in DeleteRoutes THEN "remove" ELSE "get"

LookupRow(r) ==
    /\ At(r, "lookup")
    /\ \/ /\ item[r] \in rows
          /\ Goto(r, AfterLookup(route[r]))
          /\ deleteAsked' = IF route[r] \in DeleteRoutes
                            THEN deleteAsked \cup {item[r]} ELSE deleteAsked
       \/ /\ item[r] \notin rows \/ MayFail("db")           \* 404 either way
          /\ Respond(r)
          /\ UNCHANGED deleteAsked
    /\ UNCHANGED <<store, janitor, issued, published, acked, served, changes, causes>>

\* store.Get reads the whole object and opens the AES-GCM seal, so an object
\* that is not complete is an error; the handler then answers 500.
Readable(i) == obj[i] = "full"

GetObject(r) ==
    /\ At(r, "get")
    /\ Reconnected(r, item[r])
    /\ \/ /\ Readable(item[r])
          /\ IF route[r] = "download"
             THEN /\ served' = [served EXCEPT ![item[r]] = @ + 1]
                  /\ Goto(r, "count")
             ELSE /\ Respond(r)
                  /\ UNCHANGED served
       \/ /\ ~Readable(item[r]) \/ StoreFails(r)
          /\ Respond(r)
          /\ UNCHANGED served
    /\ UNCHANGED <<store, janitor, issued, published, acked, deleteAsked,
                   changes, causes>>

\* UPDATE files SET download_count = download_count + 1 WHERE id = ?
\* Mutation: the count read at GetFile is written back instead.
SetCount(i) ==
    downloads' = IF i \in rows THEN [downloads EXCEPT ![i] = 1] ELSE downloads

Bump(i) ==
    downloads' = IF i \in rows THEN [downloads EXCEPT ![i] = @ + 1] ELSE downloads

CountDownload(r) ==
    /\ At(r, "count")
    /\ \/ Bump(item[r])
       \/ MayFail("db") /\ UNCHANGED downloads
    /\ Respond(r)
    /\ UNCHANGED <<rows, expiring, expired, obj, janitor, history>>

RemoveObject(r) ==
    /\ At(r, "remove")
    /\ StoreDelete(r, item[r])
    /\ Goto(r, "unrow")
    /\ UNCHANGED <<rows, expiring, expired, downloads, janitor, history>>

\* The rows of S leave their table, and their download_count with them.
DropRows(S) ==
    /\ rows' = rows \ S
    /\ downloads' = [i \in Ids |-> IF i \in S THEN 0 ELSE downloads[i]]
    /\ unannounced' = unannounced \cup (S \cap rows)

\* Mutation: both handlers delete from the table `files`.
FilesTarget(r) == {item[r]} \cap Files

\* The row a delete handler's statement names.
Target(r) == {item[r]} \cap Table(route[r])

DeleteRow(r) ==
    /\ At(r, "unrow")
    /\ \/ /\ DropRows(Target(r))
          /\ silent' = silent \ (Target(r) \cap rows)
       \/ MayFail("db") /\ UNCHANGED <<rows, downloads, changes>>
    /\ Goto(r, "finish")
    /\ UNCHANGED <<expiring, expired, obj, janitor, issued, published, acked,
                   deleteAsked, served, causes>>

(***************************************************************************)
(* The end of a create or a delete: Broadcast, then the response.  The     *)
(* multipart branch of POST /api/clipboard answers without Broadcast.      *)
(***************************************************************************)
\* Mutation: the share route does not call Broadcast either.
AnnouncesButShares(way) == way \notin {"clipboard_form", "share"}

Announces(way) == way # "clipboard_form"

Finish(r) ==
    /\ At(r, "finish")
    /\ IF Announces(route[r]) THEN unannounced' = {} /\ silent' = {}
       ELSE UNCHANGED changes
    /\ acked' = IF route[r] \in CreateRoutes THEN acked \cup {item[r]} ELSE acked
    /\ Respond(r)
    /\ UNCHANGED <<store, janitor, issued, published, deleteAsked, served, causes>>

(***************************************************************************)
(* Time passes, and every ten minutes the janitor runs PurgeExpired: a     *)
(* SELECT of the keys, a DELETE with the same condition evaluated anew,    *)
(* then one store.Delete per key.                                          *)
(***************************************************************************)
Expire(i) ==
    /\ i \in (rows \cap expiring) \ expired
    /\ expired' = expired \cup {i}
    /\ UNCHANGED <<rows, expiring, obj, downloads, request, janitor, session, history>>

\* Mutation: the condition forgets to compare expires_at with the time.
HasExpiry == rows \cap expiring

Due == rows \cap expired

\* rows.Err() is not read after the loop over the result: when the query breaks
\* off, the keys read so far pass for all of them.
PurgeSelect(found) ==
    /\ jpc = "wait"
    /\ found \subseteq Due /\ found # {}
    /\ found = Due \/ MayFail("db")
    /\ jpc' = "purge" /\ keys' = found
    /\ UNCHANGED <<store, request, session, history>>

PurgeDelete ==
    /\ jpc = "purge"
    /\ DropRows(Due)
    /\ silent' = silent \cup Due /\ unkeyed' = unkeyed \cup (Due \ keys)
    /\ jpc' = "sweep"
    /\ UNCHANGED <<expiring, expired, obj, request, keys, session, issued, published,
                   acked, deleteAsked, served, cut>>

\* Mutation: the keys are swept although the DELETE failed.
SweepAnyway ==
    /\ jpc = "purge" /\ MayFail("db")
    /\ jpc' = "sweep"
    /\ UNCHANGED <<store, request, keys, session, history>>

\* Mutation: the janitor gives up for good.
GiveUp ==
    /\ jpc = "purge" /\ MayFail("db")
    /\ jpc' = "stopped"
    /\ UNCHANGED <<store, request, keys, session, history>>

\* An error of the DELETE: main logs it and waits for the next tick.
PurgeFail ==
    /\ jpc = "purge" /\ MayFail("db")
    /\ jpc' = "wait" /\ keys' = {}
    /\ UNCHANGED <<store, request, session, history>>

SweepOne(i) ==
    /\ jpc = "sweep" /\ i \in keys
    /\ StoreDelete("janitor", i)
    /\ keys' = keys \ {i}
    /\ jpc' = IF keys' = {} THEN "wait" ELSE "sweep"
    /\ disturbed' = disturbed \ {"janitor"}
    /\ UNCHANGED <<rows, expiring, expired, downloads, request, broken, history>>

Janitor ==
    \/ \E found \in SUBSET Due : PurgeSelect(found)
    \/ PurgeDelete
    \/ PurgeFail
    \/ \E i \in Ids : SweepOne(i)

(***************************************************************************)
(* The process dies and starts again: what was in flight is forgotten,     *)
(* rows and objects stay.                                                  *)
(***************************************************************************)
Crash ==
    /\ MayFail("crash")
    /\ pc' = [r \in Requests |-> "idle"]
    /\ route' = [r \in Requests |-> "none"]
    /\ item' = [r \in Requests |-> NoId]
    /\ jpc' = "wait" /\ keys' = {}
    /\ disturbed' = {} /\ broken' = FALSE
    /\ UNCHANGED <<store, history>>

Handle(r) ==
    \/ PutCreate(r) \/ PutWrite(r) \/ InsertRow(r) \/ Rollback(r)
    \/ LookupRow(r) \/ GetObject(r) \/ CountDownload(r)
    \/ RemoveObject(r) \/ DeleteRow(r) \/ Finish(r)

Next ==
    \/ \E r \in Requests : Accept(r) \/ Handle(r)
    \/ \E i \in Ids : Expire(i)
    \/ Janitor
    \/ \E c \in Callers : Reconnect(c)
    \/ Crash

Spec == Init /\ [][Next]_vars

\* The ticker keeps ticking, a purge that keeps being tried is not failed by
\* SQLite or cut by a crash every single time, and store.Delete returns, its
\* reconnect too, whatever other calls do to the session meanwhile.
Fairness ==
    /\ SF_vars(\E found \in SUBSET Due : PurgeSelect(found))
    /\ SF_vars(PurgeDelete)
    /\ SF_vars(\E i \in Ids : SweepOne(i))
    /\ WF_vars(Reconnect("janitor"))

FairSpec == Spec /\ Fairness

(***************************************************************************)
(* Properties.                                                             *)
(***************************************************************************)
TypeOK ==
    /\ rows \subseteq Ids /\ expiring \subseteq Ids /\ expired \subseteq Ids
    /\ obj \in [Ids -> {"absent", "partial", "full"}]
    /\ downloads \in [Ids -> Nat]
    /\ pc \in [Requests -> {"idle", "create", "write", "insert", "rollback",
                            "lookup", "get", "count", "remove", "unrow", "finish"}]
    /\ route \in [Requests -> Routes \cup {"none"}]
    /\ item \in [Requests -> Ids \cup {NoId}]
    /\ jpc \in {"wait", "purge", "sweep"} /\ keys \subseteq Ids
    /\ disturbed \subseteq Callers /\ broken \in BOOLEAN
    /\ issued \subseteq Ids /\ published \subseteq Ids /\ acked \subseteq Ids
    /\ deleteAsked \subseteq Ids /\ unannounced \subseteq Ids
    /\ served \in [Ids -> Nat]
    /\ silent \subseteq Ids /\ unkeyed \subseteq Ids /\ cut \subseteq Ids

\* Whatever fails and wherever the process dies, a row never points at a
\* half-written object, and at a missing one only after somebody asked to
\* delete the item: the handlers Put before they INSERT.
RowReadable ==
    \A i \in rows : obj[i] = "full" \/ (obj[i] = "absent" /\ i \in deleteAsked)

\* What a creator was told is saved stays listed and readable through every
\* fault, crash, rollback and purge of the other requests, until it is
\* deleted on request or expires.
AckedSurvives ==
    \A i \in acked \ (deleteAsked \cup expired) : i \in rows /\ obj[i] = "full"

\* While the janitor removes objects none of them belongs to a listed file:
\* it never takes the contents away from under a row.
JanitorTodoRowless == jpc = "sweep" => keys \cap rows = {}

\* As long as SQLite does not fail and the process does not die, a row without
\* an object is seen only between the two halves of a delete in flight, the
\* store.Delete and the DELETE of delete_file.go and delete_clipboard.go.
DanglingOnlyMidDelete ==
    \A i \in rows : obj[i] = "absent" =>
        \E r \in Requests : pc[r] = "unrow" /\ item[r] = i

\* As long as the share does not fail, bodies are whole and the process does not
\* die, an object without a row belongs to a create in flight (its rollback
\* included), or the janitor is about to sweep it, but for two leaks of the code:
\* the janitor never got its key (PurgeReturnsEveryKey), or a store call about it
\* ran beside a reconnect, for which some item must have been deleted or have
\* expired.  Rejected uploads leave nothing else, and no delete does.
OrphanExplained ==
    \A i \in Ids \ rows : obj[i] # "absent" =>
        \/ \E r \in Requests :
              item[r] = i /\ pc[r] \in {"write", "insert", "rollback"}
        \/ jpc = "sweep" /\ i \in keys
        \/ i \in unkeyed
        \/ i \in cut /\ deleteAsked \cup expired # {}

\* download_count is what was really served, less the downloads between
\* store.Get and IncrementDownload, whatever they interleave with.
CountExact ==
    \A i \in rows : downloads[i] + Cardinality(InFlight(i, "count")) = served[i]

\* A change of the tables that no Broadcast followed is one whose handler is
\* about to call it, or the last change of that row was the INSERT of the
\* multipart form or the janitor's DELETE: no other create and no delete goes
\* unannounced, those of expired files and of the form's entries included.
UnannouncedExplained ==
    \A i \in unannounced :
        \/ \E r \in InFlight(i, "finish") : route[r] # "clipboard_form"
        \/ i \in silent

\* Every expired file is taken off the list in the end, through failing
\* statements and crashes: the janitor recomputes from the table what is due.
ExpiredPurged == \A i \in Files : i \in expired ~> i \notin rows

\* PurgeExpired "deletes expired files from the DB and returns their rgw_keys
\* for store cleanup" (db.go:85): every row it deletes is one it returns.
PurgeReturnsEveryKey ==
    [][jpc = "purge" /\ jpc' = "sweep" => rows \ rows' \subseteq keys]_vars

(***************************************************************************)
(* Vault implements ItemRegistry.                                          *)
(***************************************************************************)
StatusOf(i) == IF i \in rows THEN "listed"
               ELSE IF i \in published THEN "gone" ELSE "unborn"

Registry == INSTANCE ItemRegistry WITH
    Items <- Ids,
    status <- [i \in Ids |-> StatusOf(i)],
    condemned <- deleteAsked \cup expired,
    confirmed <- acked

\* Every step of a handler, the janitor or the clock is one step of the
\* household's view of its items, or none.
ImplementsRegistry == Registry!Spec
=============================================================================
