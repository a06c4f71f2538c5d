---------------------------- MODULE BulkActions -----------------------------
(***************************************************************************)
(* What the page does with a selection: bulkDelete, which tries the delete *)
(* routes of files, clipboard and links in turn for each id, and           *)
(* bulkDownload, for which the server packs the files into a ZIP one by    *)
(* one.  Both run beside each other and beside the creators of links; the  *)
(* delete handlers look a row up, remove its object and its row in three   *)
(* steps, and go on when the page has given their request up.              *)
(***************************************************************************)
EXTENDS UrlShortener, Sequences

CONSTANTS
    Files, Clips,   \* items that are listed when the model begins
    Bulks,          \* calls of bulkDelete; bound: each is called once
    Slots,          \* delete requests that may be served at the same time
    NoItem, NoSlot,
    MaxZip          \* the most ids a ZIP may name, 100 in the code

Items == Files \cup Clips
Ids   == Items \cup Codes

ASSUME IdsAssumption ==
  Files \cap Clips = {} /\ Items \cap Codes = {} /\ NoItem \notin Ids
ASSUME SlotsAssumption == NoSlot \notin Slots
ASSUME ZipAssumption == MaxZip \in Nat

VARIABLES
    rows, objects, downloads,   \* the tables, the share, download_count
    called,                     \* the bulks that have been called
    todo, cur, pIdx, awaits,    \* per bulk: ids left, the one in hand, the
                                \* route tried, the request waited for
    spc, did, route,            \* per slot: the handler's point, id, route
    zpc, zleft, zcur,           \* the ZIP handler: its point, ids left, file
    archive                     \* per file: "none" (not asked for), "missing"
                                \* (no entry yet), "empty" or "whole"

\* History, read by no action.
VARIABLES
    deleteAsked,                \* ids that a delete handler found
    troubled                    \* ids about which a call has failed

stores   == <<rows, objects, downloads>>
bulk     == <<called, todo, cur, pIdx, awaits>>
serving  == <<spc, did, route>>
zip      == <<zpc, zleft, zcur, archive>>
vars     == <<urlVars, stores, bulk, serving, zip, deleteAsked, troubled>>

Init ==
  /\ InitUrls
  /\ rows = Items /\ objects = Items /\ downloads = [f \in Files |-> 0]
  /\ called = {} /\ todo = [b \in Bulks |-> {}] /\ cur = [b \in Bulks |-> NoItem]
  /\ pIdx = [b \in Bulks |-> 1] /\ awaits = [b \in Bulks |-> NoSlot]
  /\ spc = [s \in Slots |-> "idle"] /\ did = [s \in Slots |-> NoItem]
  /\ route = [s \in Slots |-> "none"]
  /\ zpc = "none" /\ zleft = {} /\ zcur = NoItem
  /\ archive = [f \in Files |-> "none"]
  /\ deleteAsked = {} /\ troubled = {}
-----------------------------------------------------------------------------
\* Nothing is ever taken out of selectedIds because its item has gone, the
\* lists shown may be of any age and selectAllVisible takes what a search hides
\* too: a selection may be any set of ids.
Selections == SUBSET Ids \ {{}}

BulkDelete(b, selected) ==
  /\ b \notin called /\ called' = called \cup {b}
  /\ todo' = [todo EXCEPT ![b] = selected]
  /\ UNCHANGED <<urlVars, stores, cur, pIdx, awaits, serving, zip, deleteAsked,
                 troubled>>

\* Mutation: the route that answers 204 whatever the id comes first.
LinksFirst == <<"urls", "files", "clipboard">>

Paths == <<"files", "clipboard", "urls">>

NextId(b, i) ==
  /\ cur[b] = NoItem /\ i \in todo[b]
  /\ todo' = [todo EXCEPT ![b] = @ \ {i}]
  /\ cur' = [cur EXCEPT ![b] = i]
  /\ pIdx' = [pIdx EXCEPT ![b] = 1]
  /\ UNCHANGED <<urlVars, stores, called, awaits, serving, zip, deleteAsked,
                 troubled>>

TryPath(b, s) ==
  /\ cur[b] # NoItem /\ awaits[b] = NoSlot /\ spc[s] = "idle"
  /\ awaits' = [awaits EXCEPT ![b] = s]
  /\ spc' = [spc EXCEPT ![s] = "lookup"]
  /\ did' = [did EXCEPT ![s] = cur[b]]
  /\ route' = [route EXCEPT ![s] = Paths[pIdx[b]]]
  /\ UNCHANGED <<urlVars, stores, called, todo, cur, pIdx, zip, deleteAsked,
                 troubled>>

\* The callbacks of a fetch: next() after 2xx, the next path otherwise, and
\* next() again after the last.
GoOn(b, done) ==
  /\ awaits' = [awaits EXCEPT ![b] = NoSlot]
  /\ IF done \/ pIdx[b] = Len(Paths)
     THEN cur' = [cur EXCEPT ![b] = NoItem] /\ UNCHANGED <<called, todo, pIdx>>
     ELSE pIdx' = [pIdx EXCEPT ![b] = @ + 1] /\ UNCHANGED <<called, todo, cur>>

FreeSlot(s) ==
  /\ spc' = [spc EXCEPT ![s] = "idle"]
  /\ did' = [did EXCEPT ![s] = NoItem]
  /\ route' = [route EXCEPT ![s] = "none"]

\* The page has the answer: 204 after "deleted", 404 after "missing".
Answered(b, s) ==
  /\ awaits[b] = s /\ spc[s] \in {"deleted", "missing"}
  /\ GoOn(b, spc[s] = "deleted")
  /\ FreeSlot(s)
  /\ UNCHANGED <<urlVars, stores, zip, deleteAsked, troubled>>

\* The fetch is rejected.  The request may not have reached the server, or its
\* handler runs on with nobody waiting.
Rejected(b, s) ==
  /\ MayFail("net") /\ awaits[b] = s
  /\ GoOn(b, FALSE)
  /\ (spc[s] = "lookup" /\ FreeSlot(s)) \/ UNCHANGED serving
  /\ troubled' = troubled \cup {cur[b]}
  /\ UNCHANGED <<urlVars, stores, zip, deleteAsked>>

RunBulk(b) ==
  \/ \E i \in Ids : NextId(b, i)
  \/ \E s \in Slots : TryPath(b, s) \/ Answered(b, s)
-----------------------------------------------------------------------------
\* The delete handlers, a statement or an SMB call at a time.
Goto(s, point) == spc' = [spc EXCEPT ![s] = point] /\ UNCHANGED <<did, route>>

Table(way) == IF way = "files" THEN Files ELSE Clips

FindRow(s) ==
  /\ spc[s] = "lookup" /\ route[s] # "urls"
  /\ did[s] \in rows \cap Table(route[s])
  /\ deleteAsked' = deleteAsked \cup {did[s]}
  /\ Goto(s, "remove")
  /\ UNCHANGED <<urlVars, stores, bulk, zip, troubled>>

\* Mutation: an error of the SELECT is not looked at.
FindAnyway(s) ==
  /\ spc[s] = "lookup" /\ route[s] # "urls"
  /\ \/ /\ did[s] \notin rows \cap Table(route[s])
        /\ Goto(s, "missing") /\ UNCHANGED troubled
     \/ MayFail("db") /\ Goto(s, "remove") /\ troubled' = troubled \cup {did[s]}
  /\ UNCHANGED <<urlVars, stores, bulk, zip, deleteAsked>>

\* No row, or an error of the SELECT: 404 both times.
FindNone(s) ==
  /\ spc[s] = "lookup" /\ route[s] # "urls"
  /\ \/ did[s] \notin rows \cap Table(route[s]) /\ UNCHANGED troubled
     \/ MayFail("db") /\ troubled' = troubled \cup {did[s]}
  /\ Goto(s, "missing")
  /\ UNCHANGED <<urlVars, stores, bulk, zip, deleteAsked>>

\* store.Delete and DELETE FROM: the errors of both are ignored.
RemoveObject(s) ==
  /\ spc[s] = "remove"
  /\ \/ objects' = objects \ {did[s]}
     \/ MayFail("smb") /\ UNCHANGED objects
  /\ Goto(s, "unrow")
  /\ UNCHANGED <<urlVars, rows, downloads, bulk, zip, deleteAsked, troubled>>

RemoveRow(s) ==
  /\ spc[s] = "unrow"
  /\ \/ rows' = rows \ {did[s]} /\ UNCHANGED troubled
     \/ MayFail("db") /\ troubled' = troubled \cup {did[s]} /\ UNCHANGED rows
  /\ Goto(s, "deleted")
  /\ UNCHANGED <<urlVars, objects, downloads, bulk, zip, deleteAsked>>

RemoveLink(s) ==
  /\ spc[s] = "lookup" /\ route[s] = "urls"
  /\ \/ DeleteUrl(did[s]) /\ UNCHANGED troubled
     \/ MayFail("db") /\ troubled' = troubled \cup {did[s]} /\ UNCHANGED urlVars
  /\ Goto(s, "deleted")
  /\ UNCHANGED <<stores, bulk, zip, deleteAsked>>

\* Nobody reads the answer.
Unread(s) ==
  /\ spc[s] \in {"deleted", "missing"} /\ \A b \in Bulks : awaits[b] # s
  /\ FreeSlot(s)
  /\ UNCHANGED <<urlVars, stores, bulk, zip, deleteAsked, troubled>>

Serve(s) ==
  \/ FindRow(s) \/ FindNone(s) \/ RemoveObject(s) \/ RemoveRow(s)
  \/ RemoveLink(s) \/ Unread(s)
-----------------------------------------------------------------------------
\* The ZIP: the button sends the whole selection and leaves it as it is.  Bound
\* of the model: one ZIP.
BulkDownload(selected) ==
  /\ Cardinality(selected) <= MaxZip /\ zpc = "none"
  /\ zpc' = "next" /\ zleft' = selected
  /\ archive' = [f \in Files |-> IF f \in selected THEN "missing" ELSE "none"]
  /\ UNCHANGED <<urlVars, stores, bulk, serving, zcur, deleteAsked, troubled>>

\* The row is found and an entry opened.  Entries of files with one name get
\* names of their own; names are left out.
ZipEntry(i) ==
  /\ zpc = "next" /\ i \in zleft \cap Files \cap rows
  /\ zcur' = i /\ zpc' = "read" /\ zleft' = zleft \ {i}
  /\ archive' = [archive EXCEPT ![i] = "empty"]
  /\ UNCHANGED <<urlVars, stores, bulk, serving, deleteAsked, troubled>>

\* Mutation: the loop ends at an id without a row.
StopAt(i) == {}

\* What the loop goes on with after an id without a row.
Continue(i) == zleft \ {i}

\* Clipboard entries, links and files that are gone have no row in `files`.
ZipSkip(i) ==
  /\ zpc = "next" /\ i \in zleft
  /\ \/ i \notin Files \cap rows /\ UNCHANGED troubled
     \/ MayFail("db") /\ troubled' = troubled \cup {i}
  /\ zleft' = Continue(i)
  /\ UNCHANGED <<urlVars, stores, bulk, serving, zpc, zcur, archive,
                 deleteAsked>>

ZipRead ==
  /\ zpc = "read"
  /\ \/ /\ zcur \in objects
        /\ archive' = [archive EXCEPT ![zcur] = "whole"]
        /\ zpc' = "count" /\ UNCHANGED <<zcur, troubled>>
     \/ /\ \/ zcur \notin objects /\ UNCHANGED troubled
           \/ MayFail("smb") /\ troubled' = troubled \cup {zcur}
        /\ zpc' = "next" /\ zcur' = NoItem /\ UNCHANGED archive
  /\ UNCHANGED <<urlVars, stores, bulk, serving, zleft, deleteAsked>>

ZipCount ==
  /\ zpc = "count"
  /\ \/ /\ downloads' = IF zcur \in rows THEN [downloads EXCEPT ![zcur] = @ + 1]
                        ELSE downloads
        /\ UNCHANGED troubled
     \/ MayFail("db") /\ troubled' = troubled \cup {zcur} /\ UNCHANGED downloads
  /\ zpc' = "next" /\ zcur' = NoItem
  /\ UNCHANGED <<urlVars, rows, objects, bulk, serving, zleft, archive,
                 deleteAsked>>

ZipSend ==
  /\ zpc = "next" /\ zleft = {}
  /\ zpc' = "sent"
  /\ UNCHANGED <<urlVars, stores, bulk, serving, zleft, zcur, archive,
                 deleteAsked, troubled>>

Zip ==
  \/ \E i \in Ids : ZipEntry(i) \/ ZipSkip(i)
  \/ ZipRead \/ ZipCount \/ ZipSend

NewLink(r) ==
  /\ CreateUrl(r)
  /\ UNCHANGED <<stores, bulk, serving, zip, deleteAsked, troubled>>

Next ==
  \/ \E selected \in Selections :
       BulkDownload(selected) \/ \E b \in Bulks : BulkDelete(b, selected)
  \/ \E b \in Bulks : RunBulk(b) \/ \E s \in Slots : Rejected(b, s)
  \/ \E s \in Slots : Serve(s)
  \/ Zip
  \/ \E r \in Creators : NewLink(r)

Spec == Init /\ [][Next]_vars

\* The page's callbacks run, the browser sends what it was told to, and the
\* handlers' statements and calls return.
FairSpec ==
  /\ Spec
  /\ \A b \in Bulks : WF_vars(RunBulk(b))
  /\ \A s \in Slots : WF_vars(Serve(s))
-----------------------------------------------------------------------------
TypeOK ==
  /\ TypeOfUrls
  /\ rows \subseteq Items /\ objects \subseteq Items
  /\ downloads \in [Files -> Nat]
  /\ todo \in [Bulks -> SUBSET Ids] /\ cur \in [Bulks -> Ids \cup {NoItem}]
  /\ pIdx \in [Bulks -> 1..Len(Paths)] /\ awaits \in [Bulks -> Slots \cup {NoSlot}]
  /\ spc \in [Slots -> {"idle", "lookup", "remove", "unrow", "deleted", "missing"}]
  /\ did \in [Slots -> Ids \cup {NoItem}]
  /\ route \in [Slots -> {"none", "files", "clipboard", "urls"}]
  /\ zpc \in {"none", "next", "read", "count", "sent"}
  /\ zleft \subseteq Ids /\ zcur \in Files \cup {NoItem}
  /\ archive \in [Files -> {"none", "missing", "empty", "whole"}]
  /\ deleteAsked \subseteq Items /\ troubled \subseteq Ids

\* Every file that a ZIP was asked for is in it whole and counted once, unless
\* a delete has found the file or a call about it has failed: that other ids
\* have no row or no object (zip_download.go goes on after each) costs nothing.
ZipComplete ==
  zpc = "sent" =>
    \A f \in Files \ (deleteAsked \cup troubled) :
      archive[f] # "none" => archive[f] = "whole" /\ downloads[f] = 1

\* Beside each other, bulk deletes and the ZIP treat the items as ItemRegistry
\* says: an item leaves the lists for good and only after the handler of a delete
\* has found it, and a file goes into the ZIP once (handlers/delete_file.go, which
\* looks a row up three calls before it removes it, and zip_download.go).
StatusOf(i) == IF i \in rows THEN "listed" ELSE "gone"
Registry == INSTANCE ItemRegistry WITH
  status <- [i \in Items |-> StatusOf(i)],
  condemned <- deleteAsked,
  confirmed <- {},
  served <- [i \in Items |-> IF i \in Files /\ archive[i] = "whole" THEN 1 ELSE 0]
KeepsRegistry == [][Registry!Next]_(Registry!vars)

\* Every id that was confirmed for deletion is off the lists at some time, or a
\* call about it has failed: the bulk loop goes on after every answer, and an
\* id gets as far as the route that knows it.
Listed  == rows \cup Links
Waiting == UNION {todo[b] : b \in Bulks}
BulkGetsThrough ==
  \A i \in Ids : i \in Waiting ~> i \notin Listed \/ i \in troubled
=============================================================================
