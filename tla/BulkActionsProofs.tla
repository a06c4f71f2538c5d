-------------------------- MODULE BulkActionsProofs -------------------------
(***************************************************************************)
(* What holds of bulk deletes and of the ZIP for every number of items, of *)
(* bulks and of delete requests.  To the links a page is just another      *)
(* client: every step is one of UrlShortener or leaves the links alone.    *)
(* To the ZIP a delete is harmless until its handler has found the row,    *)
(* so each entry is followed from the request to the count under the       *)
(* condition that no delete has found it and no call about it has failed.  *)
(***************************************************************************)
EXTENDS BulkActions, UrlShortenerProofs

\* What a bulk and a delete handler have in hand.
InHandOK ==
  /\ \A b \in Bulks : awaits[b] # NoSlot => cur[b] # NoItem
  /\ \A s \in Slots : spc[s] # "idle" => did[s] \in Ids
  /\ \A s \in Slots : spc[s] \in {"remove", "unrow"} => did[s] \in deleteAsked

\* What no delete has found is still there.
StoredOK == Items \ deleteAsked \subseteq rows \cap objects

\* The ZIP handler has a file in hand in the middle of a round.
RoundOK ==
  /\ zpc \in {"read", "count"} => zcur \in Files
  /\ zpc = "none" => zleft = {}
  /\ zpc = "sent" => zleft = {}

Spoilt == deleteAsked \cup troubled

\* How far the ZIP has got with a file.
EntryOK(f) ==
  /\ zpc = "none" => archive[f] = "none" /\ downloads[f] = 0
  /\ f \in zleft => archive[f] = "missing" /\ downloads[f] = 0
  /\ zpc = "read" /\ zcur = f => archive[f] = "empty" /\ downloads[f] = 0
  /\ zpc = "count" /\ zcur = f => archive[f] = "whole" /\ downloads[f] = 0
  /\ archive[f] = "none" => downloads[f] = 0
  /\ archive[f] = "missing" => f \in zleft \cup Spoilt
  /\ archive[f] = "empty" => f \in Spoilt \/ (zpc = "read" /\ zcur = f)
  /\ archive[f] = "whole" =>
       f \in Spoilt \/ downloads[f] = 1 \/ (zpc = "count" /\ zcur = f)

ZipInv == StoredOK /\ RoundOK /\ \A f \in Files : EntryOK(f)
IInv   == UrlInv /\ TypeOK /\ InHandOK /\ ZipInv
-----------------------------------------------------------------------------
LEMMA ThreePaths ==
  /\ Len(Paths) = 3
  /\ \A k \in 1..Len(Paths) : Paths[k] \in {"files", "clipboard", "urls"}
BY DEF Paths

LEMMA IInvInit == Init => IInv
<1> SUFFICES ASSUME Init PROVE IInv
    OBVIOUS
<1>1. UrlInv
    BY UrlInvInit DEF Init
<1>2. TypeOK
    BY <1>1, ThreePaths DEF Init, TypeOK, UrlInv
<1>3. InHandOK
    BY DEF Init, InHandOK
<1>4. ZipInv
    BY DEF Init, ZipInv, StoredOK, RoundOK, EntryOK
<1> QED
    BY <1>1, <1>2, <1>3, <1>4 DEF IInv

\* A delete of an id that is no code changes nothing about the links.
LEMMA ForeignDelete ==
  ASSUME UrlInv, NEW i, i \notin Codes, DeleteUrl(i)
  PROVE  UNCHANGED urlVars
<1>1. leadsTo' = leadsTo
    BY DEF UrlInv, TypeOfUrls, DeleteUrl
<1>2. told' = told
    BY DEF UrlInv, TypeOfUrls, DeleteUrl
<1>3. voided' = voided
  <2>1. \A r \in Creators : upc[r] = "answer" => code[r] \in Codes
      BY DEF UrlInv, RequestOK
  <2> QED
      BY <2>1 DEF DeleteUrl
<1> QED
    BY <1>1, <1>2, <1>3 DEF DeleteUrl, urlVars

\* Every step is a step of the shortener or leaves the links alone.
LEMMA StepOfUrls ==
  ASSUME UrlInv, [Next]_vars
  PROVE  [NextUrls]_urlVars
<1>1. CASE UNCHANGED vars
    BY <1>1 DEF vars
<1>2. ASSUME NEW selected \in Selections,
             BulkDownload(selected) \/ \E b \in Bulks : BulkDelete(b, selected)
      PROVE  UNCHANGED urlVars
    BY <1>2 DEF BulkDownload, BulkDelete
<1>3. ASSUME NEW b \in Bulks,
             RunBulk(b) \/ \E s \in Slots : Rejected(b, s)
      PROVE  UNCHANGED urlVars
    BY <1>3 DEF RunBulk, NextId, TryPath, Answered, Rejected
<1>4. ASSUME NEW s \in Slots, Serve(s) PROVE [NextUrls]_urlVars
  <2>1. CASE RemoveLink(s)
    <3>1. CASE UNCHANGED urlVars
        BY <3>1
    <3>2. CASE DeleteUrl(did[s]) /\ did[s] \in Codes
        BY <3>2 DEF NextUrls
    <3>3. CASE DeleteUrl(did[s]) /\ did[s] \notin Codes
        BY <3>3, ForeignDelete
    <3> QED
        BY <2>1, <3>1, <3>2, <3>3 DEF RemoveLink
  <2>2. CASE ~RemoveLink(s)
      BY <1>4, <2>2 DEF Serve, FindRow, FindNone, RemoveObject, RemoveRow, Unread
  <2> QED
      BY <2>1, <2>2
<1>5. ASSUME Zip PROVE UNCHANGED urlVars
    BY <1>5 DEF Zip, ZipEntry, ZipSkip, ZipRead, ZipCount, ZipSend
<1>6. ASSUME NEW r \in Creators, NewLink(r) PROVE NextUrls
    BY <1>6 DEF NewLink, NextUrls
<1> QED
    BY <1>1, <1>2, <1>3, <1>4, <1>5, <1>6 DEF Next
-----------------------------------------------------------------------------
\* What a step that leaves ZIP and counts alone cannot disturb: deletes and
\* failures only ever spoil more.
LEMMA ZipKept ==
  ASSUME ZipInv, UNCHANGED <<zip, downloads>>,
         deleteAsked \subseteq deleteAsked', troubled \subseteq troubled',
         StoredOK'
  PROVE  ZipInv'
<1>1. RoundOK'
    BY DEF ZipInv, RoundOK, zip
<1>2. ASSUME NEW f \in Files PROVE EntryOK(f)'
    BY DEF ZipInv, EntryOK, Spoilt, zip
<1> QED
    BY <1>1, <1>2 DEF ZipInv

LEMMA StepPage ==
  ASSUME IInv, TypeOfUrls', NEW selected \in Selections,
         BulkDownload(selected) \/ \E b \in Bulks : BulkDelete(b, selected)
  PROVE  TypeOK' /\ InHandOK' /\ ZipInv'
<1>1. selected \subseteq Ids
    BY DEF Selections
<1>2. CASE BulkDownload(selected)
  <2>1. TypeOK'
      BY <1>1, <1>2 DEF IInv, TypeOK, BulkDownload, stores, bulk, serving
  <2>2. InHandOK'
      BY <1>2 DEF IInv, InHandOK, BulkDownload, bulk, serving
  <2>3. StoredOK' /\ RoundOK'
      BY <1>2 DEF IInv, ZipInv, StoredOK, RoundOK, BulkDownload, stores
  <2>4. ASSUME NEW f \in Files PROVE EntryOK(f)'
      BY <1>2 DEF IInv, ZipInv, EntryOK, Spoilt, BulkDownload, stores
  <2> QED
      BY <2>1, <2>2, <2>3, <2>4 DEF ZipInv
<1>3. ASSUME NEW b \in Bulks, BulkDelete(b, selected)
      PROVE  TypeOK' /\ InHandOK' /\ ZipInv'
  <2>1. TypeOK'
      BY <1>1, <1>3 DEF IInv, TypeOK, BulkDelete, stores, serving, zip
  <2>2. InHandOK'
      BY <1>3 DEF IInv, InHandOK, BulkDelete, serving
  <2>3. ZipInv'
    <3>1. StoredOK'
        BY <1>3 DEF IInv, ZipInv, StoredOK, BulkDelete, stores
    <3> QED
        BY <1>3, <3>1, ZipKept DEF IInv, BulkDelete, stores
  <2> QED
      BY <2>1, <2>2, <2>3
<1> QED
    BY <1>2, <1>3

\* The loop and its callbacks.
LEMMA StepBulk ==
  ASSUME IInv, TypeOfUrls', NEW b \in Bulks,
         RunBulk(b) \/ \E s \in Slots : Rejected(b, s)
  PROVE  TypeOK' /\ InHandOK' /\ ZipInv'
<1> USE ThreePaths
<1>1. CASE \E i \in Ids : NextId(b, i)
  <2> PICK i \in Ids : NextId(b, i)
      BY <1>1
  <2>1. TypeOK'
      BY DEF IInv, TypeOK, NextId, stores, serving, zip
  <2>2. InHandOK'
      BY IdsAssumption DEF IInv, TypeOK, InHandOK, NextId, serving
  <2>3. ZipInv'
      BY ZipKept DEF IInv, ZipInv, StoredOK, NextId, stores
  <2> QED
      BY <2>1, <2>2, <2>3
<1>2. ASSUME NEW s \in Slots, TryPath(b, s)
      PROVE  TypeOK' /\ InHandOK' /\ ZipInv'
  <2>1. cur[b] \in Ids /\ Paths[pIdx[b]] \in {"files", "clipboard", "urls"}
      BY <1>2 DEF IInv, TypeOK, TryPath
  <2>2. TypeOK'
      BY <1>2, <2>1 DEF IInv, TypeOK, TryPath, stores, zip
  <2>3. InHandOK'
      BY <1>2, <2>1 DEF IInv, TypeOK, InHandOK, TryPath
  <2>4. ZipInv'
      BY <1>2, ZipKept DEF IInv, ZipInv, StoredOK, TryPath, stores
  <2> QED
      BY <2>2, <2>3, <2>4
<1>3. ASSUME NEW s \in Slots, Answered(b, s) \/ Rejected(b, s)
      PROVE  TypeOK' /\ InHandOK' /\ ZipInv'
  <2>1. /\ awaits' = [awaits EXCEPT ![b] = NoSlot] /\ todo' = todo
        /\ \/ cur' = [cur EXCEPT ![b] = NoItem] /\ pIdx' = pIdx
           \/ /\ pIdx[b] # Len(Paths)
              /\ pIdx' = [pIdx EXCEPT ![b] = @ + 1] /\ cur' = cur
      BY <1>3 DEF Answered, Rejected, GoOn
  <2>2. FreeSlot(s) \/ UNCHANGED serving
      BY <1>3 DEF Answered, Rejected
  <2>3. UNCHANGED <<stores, zip, deleteAsked>>
      BY <1>3 DEF Answered, Rejected
  <2>4. cur[b] \in Ids
    <3>1. awaits[b] = s
        BY <1>3 DEF Answered, Rejected
    <3>2. cur[b] # NoItem
        BY <3>1, SlotsAssumption DEF IInv, InHandOK
    <3> QED
        BY <3>2 DEF IInv, TypeOK
  <2>5. troubled \subseteq troubled' /\ troubled' \subseteq Ids
      BY <1>3, <2>4 DEF IInv, TypeOK, Answered, Rejected
  <2>6. /\ todo' = todo /\ cur' \in [Bulks -> Ids \cup {NoItem}]
        /\ pIdx' \in [Bulks -> 1..Len(Paths)]
        /\ awaits' \in [Bulks -> Slots \cup {NoSlot}]
      BY <2>1 DEF IInv, TypeOK
  <2>7. /\ spc' \in [Slots -> {"idle", "lookup", "remove", "unrow", "deleted",
                               "missing"}]
        /\ did' \in [Slots -> Ids \cup {NoItem}]
        /\ route' \in [Slots -> {"none", "files", "clipboard", "urls"}]
      BY <2>2 DEF IInv, TypeOK, FreeSlot, serving
  <2>8. TypeOK'
      BY <2>3, <2>5, <2>6, <2>7 DEF IInv, TypeOK, stores, zip
  <2>9. \A c \in Bulks : awaits'[c] # NoSlot => cur'[c] # NoItem
      BY <2>1 DEF IInv, TypeOK, InHandOK
  <2>10. \A t \in Slots : spc'[t] = "idle" \/ (spc'[t] = spc[t] /\ did'[t] = did[t])
      BY <2>2 DEF IInv, TypeOK, FreeSlot, serving
  <2>11. InHandOK'
      BY <2>3, <2>9, <2>10 DEF IInv, InHandOK
  <2>12. ZipInv'
      BY <2>3, <2>5, ZipKept DEF IInv, ZipInv, StoredOK, stores
  <2> QED
      BY <2>8, <2>11, <2>12
<1> QED
    BY <1>1, <1>2, <1>3 DEF RunBulk

\* The delete handlers: what is removed was found before.
LEMMA StepServe ==
  ASSUME IInv, TypeOfUrls', NEW s \in Slots, Serve(s)
  PROVE  TypeOK' /\ InHandOK' /\ ZipInv'
<1>1. UNCHANGED <<bulk, zip, downloads>>
    BY DEF Serve, FindRow, FindNone, RemoveObject, RemoveRow, RemoveLink, Unread,
           stores
<1>2. deleteAsked \subseteq deleteAsked' /\ deleteAsked' \subseteq Items
    BY DEF IInv, TypeOK, Serve, FindRow, FindNone, RemoveObject, RemoveRow,
           RemoveLink, Unread
<1>3. troubled \subseteq troubled' /\ troubled' \subseteq Ids
  <2>1. spc[s] # "idle" => did[s] \in Ids
      BY DEF IInv, InHandOK
  <2> QED
      BY <2>1 DEF IInv, TypeOK, Serve, FindRow, FindNone, RemoveObject, RemoveRow,
                  RemoveLink, Unread
<1>4. /\ rows' \subseteq Items /\ objects' \subseteq Items
      /\ StoredOK'
  <2>1. spc[s] \in {"remove", "unrow"} => did[s] \in deleteAsked
      BY DEF IInv, InHandOK
  <2> QED
      BY <1>2, <2>1 DEF IInv, TypeOK, ZipInv, StoredOK, Serve, FindRow, FindNone,
                        RemoveObject, RemoveRow, RemoveLink, Unread, stores
<1>5. FreeSlot(s) \/ \E point \in {"remove", "unrow", "deleted", "missing"} :
         Goto(s, point)
    BY DEF Serve, FindRow, FindNone, RemoveObject, RemoveRow, RemoveLink, Unread
<1>6. /\ spc' \in [Slots -> {"idle", "lookup", "remove", "unrow", "deleted",
                             "missing"}]
      /\ did' \in [Slots -> Ids \cup {NoItem}]
      /\ route' \in [Slots -> {"none", "files", "clipboard", "urls"}]
    BY <1>5 DEF IInv, TypeOK, FreeSlot, Goto
<1>7. TypeOK'
    BY <1>1, <1>2, <1>3, <1>4, <1>6 DEF IInv, TypeOK, bulk, zip
<1>8. InHandOK'
  <2>1. \A b \in Bulks : awaits'[b] # NoSlot => cur'[b] # NoItem
      BY <1>1 DEF IInv, InHandOK, bulk
  <2>2. ASSUME NEW t \in Slots, t # s
        PROVE  spc'[t] = spc[t] /\ did'[t] = did[t]
      BY <1>5, <2>2 DEF IInv, TypeOK, FreeSlot, Goto
  <2>3. spc[s] # "idle"
      BY DEF Serve, FindRow, FindNone, RemoveObject, RemoveRow, RemoveLink, Unread
  <2>4. spc'[s] # "idle" => did'[s] = did[s]
      BY <1>5 DEF IInv, TypeOK, FreeSlot, Goto
  <2>5. spc'[s] \in {"remove", "unrow"} => did[s] \in deleteAsked'
    <3>1. spc[s] \in {"remove", "unrow"} => did[s] \in deleteAsked
        BY DEF IInv, InHandOK
    <3> QED
        BY <3>1, <1>2 DEF IInv, TypeOK, Serve, FindRow, FindNone, RemoveObject,
                          RemoveRow, RemoveLink, Unread, Goto, FreeSlot
  <2> QED
      BY <1>2, <2>1, <2>2, <2>3, <2>4, <2>5 DEF IInv, InHandOK
<1>9. ZipInv'
    BY <1>1, <1>2, <1>3, <1>4, ZipKept DEF IInv
<1> QED
    BY <1>7, <1>8, <1>9

\* A round of the ZIP.  The count is raised in the round that wrote the entry.
LEMMA StepZip ==
  ASSUME IInv, TypeOfUrls', Zip
  PROVE  TypeOK' /\ InHandOK' /\ ZipInv'
<1>1. UNCHANGED <<bulk, serving, rows, objects, deleteAsked>>
    BY DEF Zip, ZipEntry, ZipSkip, ZipRead, ZipCount, ZipSend, stores
<1>2. InHandOK' /\ StoredOK'
    BY <1>1 DEF IInv, InHandOK, ZipInv, StoredOK, bulk, serving
<1>3. ASSUME NEW i \in Ids, ZipEntry(i) PROVE TypeOK' /\ ZipInv'
  <2>1. TypeOK'
      BY <1>1, <1>3 DEF IInv, TypeOK, ZipEntry, stores, bulk, serving
  <2>2. RoundOK'
      BY <1>3 DEF RoundOK, ZipEntry
  <2>3. ASSUME NEW f \in Files PROVE EntryOK(f)'
    <3>1. CASE f = i
        BY <1>3, <3>1 DEF IInv, TypeOK, ZipInv, EntryOK, Spoilt, ZipEntry, stores
    <3>2. CASE f # i
        BY <1>3, <3>2 DEF IInv, TypeOK, ZipInv, EntryOK, Spoilt, ZipEntry, stores
    <3> QED
        BY <3>1, <3>2
  <2> QED
      BY <1>2, <2>1, <2>2, <2>3 DEF ZipInv
<1>4. ASSUME NEW i \in Ids, ZipSkip(i) PROVE TypeOK' /\ ZipInv'
  <2>1. TypeOK'
      BY <1>1, <1>4 DEF IInv, TypeOK, ZipSkip, Continue, stores, bulk, serving
  <2>2. RoundOK'
      BY <1>4 DEF IInv, ZipInv, RoundOK, ZipSkip, Continue
  <2>3. i \in Files => i \in Spoilt'
      BY <1>4 DEF IInv, ZipInv, StoredOK, Spoilt, ZipSkip, Items
  <2>4. ASSUME NEW f \in Files PROVE EntryOK(f)'
    <3>1. CASE f = i
        BY <1>4, <2>3, <3>1 DEF IInv, ZipInv, EntryOK, Spoilt, ZipSkip, Continue,
                                stores
    <3>2. CASE f # i
        BY <1>4, <3>2 DEF IInv, ZipInv, EntryOK, Spoilt, ZipSkip, Continue, stores
    <3> QED
        BY <3>1, <3>2
  <2> QED
      BY <1>2, <2>1, <2>2, <2>4 DEF ZipInv
<1>5. ASSUME ZipRead PROVE TypeOK' /\ ZipInv'
  <2>1. zcur \in Files
      BY <1>5 DEF IInv, ZipInv, RoundOK, ZipRead
  <2>2. TypeOK'
      BY <1>1, <1>5, <2>1 DEF IInv, TypeOK, ZipRead, stores, bulk, serving, Ids, Items
  <2>3. RoundOK'
      BY <1>5, <2>1 DEF RoundOK, ZipRead
  <2>4. zcur \notin objects \/ troubled' = troubled \cup {zcur} => zcur \in Spoilt'
      BY <1>5, <2>1 DEF IInv, ZipInv, StoredOK, Spoilt, ZipRead, Items
  <2>5. ASSUME NEW f \in Files PROVE EntryOK(f)'
    <3>1. CASE f = zcur
        BY <1>5, <2>4, <3>1 DEF IInv, TypeOK, ZipInv, EntryOK, Spoilt, ZipRead, stores
    <3>2. CASE f # zcur
        BY <1>5, <3>2 DEF IInv, TypeOK, ZipInv, EntryOK, Spoilt, ZipRead, stores
    <3> QED
        BY <3>1, <3>2
  <2> QED
      BY <1>2, <2>2, <2>3, <2>5 DEF ZipInv
<1>6. ASSUME ZipCount PROVE TypeOK' /\ ZipInv'
  <2>1. zcur \in Files
      BY <1>6 DEF IInv, ZipInv, RoundOK, ZipCount
  <2>2. downloads' \in [Files -> Nat]
    <3>1. downloads \in [Files -> Nat]
        BY DEF IInv, TypeOK
    <3>2. downloads' = [downloads EXCEPT ![zcur] = @ + 1] \/ downloads' = downloads
        BY <1>6 DEF ZipCount
    <3> QED
        BY <2>1, <3>1, <3>2
  <2>3. TypeOK'
      BY <1>1, <1>6, <2>1, <2>2 DEF IInv, TypeOK, ZipCount, bulk, serving, Ids, Items
  <2>4. RoundOK'
      BY <1>6 DEF RoundOK, ZipCount
  <2>5. zcur \in Spoilt' \/ downloads' = [downloads EXCEPT ![zcur] = @ + 1]
      BY <1>6, <2>1 DEF IInv, ZipInv, StoredOK, Spoilt, ZipCount, Items
  <2>6. /\ archive' = archive /\ zleft' = zleft /\ zpc' = "next"
        /\ Spoilt \subseteq Spoilt' /\ archive[zcur] = "whole" /\ downloads[zcur] = 0
      BY <1>6, <2>1 DEF IInv, ZipInv, EntryOK, Spoilt, ZipCount
  <2>7. zcur \notin zleft
      BY <2>1, <2>6 DEF IInv, ZipInv, EntryOK
  <2>8. ASSUME NEW f \in Files PROVE EntryOK(f)'
    <3>1. CASE f = zcur
      <4>1. f \in Spoilt' \/ downloads'[f] = 1
          BY <2>5, <2>6, <3>1 DEF IInv, TypeOK
      <4> QED
          BY <2>6, <2>7, <3>1, <4>1 DEF EntryOK
    <3>2. CASE f # zcur
      <4>1. downloads'[f] = downloads[f]
          BY <1>6, <3>2 DEF IInv, TypeOK, ZipCount
      <4>2. EntryOK(f)
          BY DEF IInv, ZipInv
      <4> QED
          BY <1>6, <2>6, <3>2, <4>1, <4>2 DEF EntryOK, ZipCount
    <3> QED
        BY <3>1, <3>2
  <2> QED
      BY <1>2, <2>3, <2>4, <2>8 DEF ZipInv
<1>7. ASSUME ZipSend PROVE TypeOK' /\ ZipInv'
  <2>1. TypeOK'
      BY <1>1, <1>7 DEF IInv, TypeOK, ZipSend, stores, bulk, serving
  <2>2. RoundOK' /\ \A f \in Files : EntryOK(f)'
      BY <1>7 DEF IInv, ZipInv, RoundOK, EntryOK, Spoilt, ZipSend, stores
  <2> QED
      BY <1>2, <2>1, <2>2 DEF ZipInv
<1> QED
    BY <1>2, <1>3, <1>4, <1>5, <1>6, <1>7 DEF Zip

LEMMA IInvStep == IInv /\ [Next]_vars => IInv'
<1> SUFFICES ASSUME IInv, [Next]_vars PROVE IInv'
    OBVIOUS
<1>1. UrlInv'
    BY StepOfUrls, UrlInvStep DEF IInv
<1>2. TypeOfUrls'
    BY <1>1 DEF UrlInv
<1>3. CASE UNCHANGED vars
  <2>1. TypeOK'
      BY <1>2, <1>3 DEF IInv, TypeOK, vars, stores, bulk, serving, zip
  <2>2. InHandOK'
      BY <1>3 DEF IInv, InHandOK, vars, bulk, serving
  <2>3. ZipInv'
      BY <1>3, ZipKept DEF IInv, ZipInv, StoredOK, vars, stores
  <2> QED
      BY <1>1, <2>1, <2>2, <2>3 DEF IInv
<1>4. ASSUME NEW r \in Creators, NewLink(r) PROVE IInv'
  <2>1. TypeOK'
      BY <1>2, <1>4 DEF IInv, TypeOK, NewLink, stores, bulk, serving, zip
  <2>2. InHandOK'
      BY <1>4 DEF IInv, InHandOK, NewLink, bulk, serving
  <2>3. ZipInv'
      BY <1>4, ZipKept DEF IInv, ZipInv, StoredOK, NewLink, stores
  <2> QED
      BY <1>1, <2>1, <2>2, <2>3 DEF IInv
<1> QED
    BY <1>1, <1>2, <1>3, <1>4, StepPage, StepBulk, StepServe, StepZip
    DEF Next, IInv
-----------------------------------------------------------------------------
\* The page and the server's handlers keep the types of their variables.
THEOREM PageTypes == Spec => []TypeOK
<1>1. IInv => TypeOK
    BY DEF IInv
<1> QED
    BY <1>1, IInvInit, IInvStep, PTL DEF Spec

\* Bulk deletes and ZIPs use the links as any client does: the composition
\* implements the shortener.
THEOREM UsesShortener == Spec => SpecUrls
<1>1. Init => InitUrls
    BY DEF Init
<1>2. IInv /\ [Next]_vars => [NextUrls]_urlVars
    BY StepOfUrls DEF IInv
<1> QED
    BY <1>1, <1>2, IInvInit, IInvStep, PTL DEF Spec, SpecUrls

\* Codes keep their targets under bulk deletes too.
THEOREM TargetsKeptInBulk == Spec => []TargetKept
<1> QED
    BY UsesShortener, TargetsKept, PTL

\* Whatever is deleted or fails beside it, a ZIP holds every file it was asked
\* for that no delete has found and no call has failed for (ZipDownloadHandler).
THEOREM ZipsComplete == Spec => []ZipComplete
<1>1. IInv => ZipComplete
  <2> SUFFICES ASSUME IInv, zpc = "sent", NEW f \in Files, f \notin Spoilt,
                      archive[f] # "none"
               PROVE  archive[f] = "whole" /\ downloads[f] = 1
      BY DEF ZipComplete, Spoilt
  <2>1. EntryOK(f) /\ zleft = {}
      BY DEF IInv, ZipInv, RoundOK
  <2>2. archive[f] \in {"missing", "empty", "whole"}
      BY DEF IInv, TypeOK
  <2> QED
      BY <2>1, <2>2 DEF EntryOK
<1> QED
    BY <1>1, IInvInit, IInvStep, PTL DEF Spec
-----------------------------------------------------------------------------
(***************************************************************************)
(* Bulk deletes and the ZIP take the steps of ItemRegistry.                *)
(***************************************************************************)

\* An entry of the archive that is whole stays it: before the ZIP is asked for
\* there are none, and the handler only writes to the entry it has just opened.
LEMMA RegistryKept ==
  ASSUME IInv, UNCHANGED <<rows, deleteAsked>>,
         \A f \in Files : (archive'[f] = "whole") <=> (archive[f] = "whole")
  PROVE  UNCHANGED Registry!vars
BY DEF Registry!vars, StatusOf

\* The handler of a delete finds a row: from now on the item may go.
LEMMA FindCondemns ==
  ASSUME IInv, NEW s \in Slots, FindRow(s)
  PROVE  Registry!Next
<1>1. did[s] \in Items /\ did[s] \in rows
    BY DEF IInv, TypeOK, FindRow
<1>2. Registry!Condemn(did[s])
    BY <1>1 DEF FindRow, StatusOf, Registry!Condemn, Registry!Listed, stores, zip
<1> QED
    BY <1>1, <1>2 DEF Registry!Next

\* Only an id that was found is taken off the lists.
LEMMA RemoveRetires ==
  ASSUME IInv, NEW s \in Slots, RemoveRow(s)
  PROVE  Registry!Next \/ UNCHANGED Registry!vars
<1>1. did[s] \in deleteAsked /\ deleteAsked \subseteq Items
    BY DEF IInv, TypeOK, InHandOK, RemoveRow
<1>2. UNCHANGED <<deleteAsked, archive>>
    BY DEF RemoveRow, zip
<1>3. CASE rows' = rows
    BY <1>2, <1>3, RegistryKept
<1>4. CASE rows' # rows
  <2>1. did[s] \in rows /\ rows' = rows \ {did[s]}
      BY <1>4 DEF RemoveRow
  <2>2. Registry!Retire({did[s]})
      BY <1>1, <1>2, <2>1 DEF StatusOf, Registry!Retire, Registry!Listed
  <2> QED
      BY <1>1, <2>2 DEF Registry!Next
<1> QED
    BY <1>3, <1>4

\* The handler of the ZIP hands a file out.
LEMMA ReadServes ==
  ASSUME IInv, ZipRead
  PROVE  Registry!Next \/ UNCHANGED Registry!vars
<1>1. UNCHANGED <<rows, deleteAsked>>
    BY DEF ZipRead, stores
<1>2. CASE UNCHANGED archive
    BY <1>1, <1>2, RegistryKept
<1>3. CASE archive' = [archive EXCEPT ![zcur] = "whole"]
  <2>1. PICK g \in Files : g = zcur /\ archive[g] = "empty"
      BY DEF IInv, ZipInv, RoundOK, EntryOK, ZipRead
  <2>2. /\ archive'[g] = "whole"
        /\ \A f \in Files \ {g} : archive'[f] = archive[f]
      BY <1>3, <2>1 DEF IInv, TypeOK
  <2>3. g \in Items
      BY DEF Items
  <2>4. [i \in Items |-> IF i \in Files /\ archive'[i] = "whole" THEN 1 ELSE 0]
        = [[i \in Items |-> IF i \in Files /\ archive[i] = "whole" THEN 1 ELSE 0]
           EXCEPT ![g] = @ + 1]
    <3> DEFINE times == [i \in Items |-> IF i \in Files /\ archive[i] = "whole" THEN 1 ELSE 0]
               next == [i \in Items |-> IF i \in Files /\ archive'[i] = "whole" THEN 1 ELSE 0]
    <3>1. \A i \in Items : next[i] = IF i = g THEN times[g] + 1 ELSE times[i]
        BY <2>1, <2>2
    <3>2. times \in [Items -> {0, 1}] /\ next \in [Items -> {0, 1}]
        OBVIOUS
    <3> HIDE DEF times, next
    <3>3. next = [times EXCEPT ![g] = times[g] + 1]
        BY <2>3, <3>1, <3>2
    <3> QED
        BY <3>3 DEF times, next
  <2>5. Registry!Serve(g)
      BY <1>1, <2>3, <2>4 DEF StatusOf, Registry!Serve, Registry!Born
  <2> QED
      BY <2>3, <2>5 DEF Registry!Next
<1> QED
    BY <1>2, <1>3 DEF ZipRead

LEMMA RegistryStep == IInv /\ [Next]_vars => [Registry!Next]_(Registry!vars)
<1> SUFFICES ASSUME IInv, [Next]_vars
             PROVE  Registry!Next \/ UNCHANGED Registry!vars
    OBVIOUS
<1>1. CASE UNCHANGED vars
    BY <1>1, RegistryKept DEF vars, stores, zip
<1>2. ASSUME NEW selected \in Selections,
             BulkDownload(selected) \/ \E b \in Bulks : BulkDelete(b, selected)
      PROVE  UNCHANGED Registry!vars
  <2>1. CASE BulkDownload(selected)
    <3>1. \A f \in Files : archive[f] = "none" /\ archive'[f] # "whole"
        BY <2>1 DEF IInv, ZipInv, EntryOK, BulkDownload
    <3> QED
        BY <2>1, <3>1, RegistryKept DEF BulkDownload, stores
  <2>2. CASE \E b \in Bulks : BulkDelete(b, selected)
      BY <2>2, RegistryKept DEF BulkDelete, stores, zip
  <2> QED
      BY <1>2, <2>1, <2>2
<1>3. ASSUME NEW b \in Bulks, RunBulk(b) \/ \E s \in Slots : Rejected(b, s)
      PROVE  UNCHANGED Registry!vars
    BY <1>3, RegistryKept DEF RunBulk, NextId, TryPath, Answered, Rejected, stores, zip
<1>4. ASSUME NEW s \in Slots, Serve(s)
      PROVE  Registry!Next \/ UNCHANGED Registry!vars
  <2>1. CASE FindRow(s)
      BY <2>1, FindCondemns
  <2>2. CASE RemoveRow(s)
      BY <2>2, RemoveRetires
  <2>3. CASE FindNone(s) \/ RemoveObject(s) \/ RemoveLink(s) \/ Unread(s)
    <3>1. UNCHANGED <<rows, archive, deleteAsked>>
        BY <2>3 DEF FindNone, RemoveObject, RemoveLink, Unread, stores, zip
    <3> QED
        BY <3>1, RegistryKept
  <2> QED
      BY <1>4, <2>1, <2>2, <2>3 DEF Serve
<1>5. ASSUME Zip PROVE Registry!Next \/ UNCHANGED Registry!vars
  <2>1. ASSUME NEW i \in Ids, ZipEntry(i) PROVE UNCHANGED Registry!vars
    <3>1. i \in Files /\ archive[i] = "missing"
        BY <2>1 DEF IInv, ZipInv, EntryOK, ZipEntry
    <3>2. \A f \in Files : archive'[f] = IF f = i THEN "empty" ELSE archive[f]
        BY <2>1 DEF IInv, TypeOK, ZipEntry
    <3> QED
        BY <2>1, <3>1, <3>2, RegistryKept DEF ZipEntry, stores
  <2>2. CASE (\E i \in Ids : ZipSkip(i)) \/ ZipCount \/ ZipSend
    <3>1. UNCHANGED <<rows, archive, deleteAsked>>
        BY <2>2 DEF ZipSkip, ZipCount, ZipSend, stores
    <3> QED
        BY <3>1, RegistryKept
  <2> QED
      BY <1>5, <2>1, <2>2, ReadServes DEF Zip
<1>6. ASSUME NEW r \in Creators, NewLink(r) PROVE UNCHANGED Registry!vars
    BY <1>6, RegistryKept DEF NewLink, stores, zip
<1> QED
    BY <1>1, <1>2, <1>3, <1>4, <1>5, <1>6 DEF Next

\* However many bulk deletes, delete requests and a ZIP run beside each other, no
\* item leaves the lists before a delete handler has found it, none comes back,
\* and no file is put into the ZIP twice.
THEOREM RegistryKeptInBulk == Spec => KeepsRegistry
<1>1. Spec => [][Registry!Next]_(Registry!vars)
    BY IInvInit, IInvStep, RegistryStep, PTL DEF Spec
<1> QED
    BY <1>1 DEF KeepsRegistry
-----------------------------------------------------------------------------
(***************************************************************************)
(* The loop of bulkDelete.  A request is followed from the page to the     *)
(* answer: what the slot of a bulk has come to is known to be about the    *)
(* item in hand, and once the route that knows it was tried it is gone.    *)
(***************************************************************************)

\* The item is off the lists, or a call about it has failed; or is so after the
\* step.
Through(i) == i \notin rows \/ i \in troubled
IsThen(i)  == i \notin rows' \/ i \in troubled'

\* The request a bulk waits for is its own and about the item in hand.
RequestsOK ==
  /\ \A b \in Bulks : awaits[b] # NoSlot =>
        /\ spc[awaits[b]] # "idle" /\ did[awaits[b]] = cur[b]
        /\ route[awaits[b]] = Paths[pIdx[b]]
  /\ \A b, c \in Bulks : awaits[b] # NoSlot /\ b # c => awaits[b] # awaits[c]

\* What the answer of a delete handler says of the item.
AnswersOK ==
  \A s \in Slots :
    /\ spc[s] \in {"remove", "unrow", "missing"} => route[s] # "urls"
    /\ spc[s] = "deleted" /\ route[s] # "urls" => Through(did[s])
    /\ spc[s] = "missing" /\ did[s] \in Table(route[s]) => Through(did[s])

\* What the routes tried so far say of the item in hand.
TriedOK ==
  \A b \in Bulks :
    /\ pIdx[b] >= 2 /\ cur[b] \in Files => Through(cur[b])
    /\ pIdx[b] >= 3 /\ cur[b] \in Items => Through(cur[b])

LoopInv == RequestsOK /\ AnswersOK /\ TriedOK

\* The loop lets go of a file or a clipboard entry only when it is through.
LetGo ==
  \A b \in Bulks : cur[b] \in Items /\ cur'[b] # cur[b] => IsThen(cur[b])

LEMMA PathNames ==
  /\ Paths[1] = "files" /\ Paths[2] = "clipboard" /\ Paths[3] = "urls" /\ Len(Paths) = 3
  /\ Items \subseteq Table("files") \cup Table("clipboard")
BY DEF Paths, Table, Items

\* Nothing is listed again and no trouble is forgotten.
LEMMA ThroughStays ==
  ASSUME IInv, [Next]_vars, NEW i, Through(i)
  PROVE  IsThen(i)
<1>1. rows' \subseteq rows /\ troubled \subseteq troubled'
    BY DEF Next, vars, BulkDownload, BulkDelete, RunBulk, NextId, TryPath, Answered,
           Rejected, Serve, FindRow, FindNone, RemoveObject, RemoveRow, RemoveLink,
           Unread, Zip, ZipEntry, ZipSkip, ZipRead, ZipCount, ZipSend, NewLink, stores
<1> QED
    BY <1>1 DEF Through, IsThen

LEMMA LoopInit == Init => LoopInv
BY SlotsAssumption, PathNames, IdsAssumption
   DEF Init, LoopInv, RequestsOK, AnswersOK, TriedOK, Ids, Items

\* Steps that leave the loop and the handlers alone.
LEMMA LoopKept ==
  ASSUME IInv, LoopInv, [Next]_vars, UNCHANGED <<cur, pIdx, awaits, serving>>
  PROVE  LoopInv' /\ LetGo
<1> USE DEF serving
<1>1. \A i : Through(i) => IsThen(i)
    BY ThroughStays
<1>2. RequestsOK'
    BY DEF LoopInv, RequestsOK
<1>3. AnswersOK'
    BY <1>1 DEF LoopInv, AnswersOK, Through, IsThen
<1>4. TriedOK'
    BY <1>1 DEF LoopInv, TriedOK, Through, IsThen
<1> QED
    BY <1>2, <1>3, <1>4 DEF LoopInv, LetGo

\* The next id is taken, or the next route tried.
LEMMA LoopTakes ==
  ASSUME IInv, LoopInv, [Next]_vars, NEW b \in Bulks,
         (\E i \in Ids : NextId(b, i)) \/ (\E s \in Slots : TryPath(b, s))
  PROVE  LoopInv' /\ LetGo
<1> USE SlotsAssumption, IdsAssumption
<1>1. \A i : Through(i) => IsThen(i)
    BY ThroughStays
<1>2. TypeOK
    BY DEF IInv
<1>3. ASSUME NEW i \in Ids, NextId(b, i) PROVE LoopInv' /\ LetGo
  <2>1. /\ cur[b] = NoItem /\ UNCHANGED <<awaits, spc, did, route>>
        /\ cur' = [cur EXCEPT ![b] = i] /\ pIdx' = [pIdx EXCEPT ![b] = 1]
      BY <1>3 DEF NextId, serving
  <2>2. awaits[b] = NoSlot
      BY <2>1 DEF IInv, InHandOK
  <2>3. /\ cur'[b] = i /\ pIdx'[b] = 1
        /\ \A c \in Bulks \ {b} : cur'[c] = cur[c] /\ pIdx'[c] = pIdx[c]
      BY <1>2, <2>1 DEF TypeOK
  <2>4. RequestsOK'
      BY <2>1, <2>2, <2>3 DEF LoopInv, RequestsOK
  <2>5. AnswersOK'
      BY <1>1, <2>1 DEF LoopInv, AnswersOK, Through, IsThen
  <2>6. TriedOK'
    <3> SUFFICES ASSUME NEW c \in Bulks
                 PROVE  /\ pIdx'[c] >= 2 /\ cur'[c] \in Files => IsThen(cur'[c])
                        /\ pIdx'[c] >= 3 /\ cur'[c] \in Items => IsThen(cur'[c])
        BY DEF TriedOK, Through, IsThen
    <3>1. CASE c = b
        BY <2>3, <3>1
    <3>2. CASE c # b
        BY <1>1, <2>3, <3>2 DEF LoopInv, TriedOK, Through, IsThen
    <3> QED
        BY <3>1, <3>2
  <2>7. LetGo
    <3>1. NoItem \notin Items
        BY DEF Ids
    <3> QED
        BY <2>1, <2>3, <3>1 DEF LetGo
  <2> QED
      BY <2>4, <2>5, <2>6, <2>7 DEF LoopInv
<1>4. ASSUME NEW s \in Slots, TryPath(b, s) PROVE LoopInv' /\ LetGo
  <2>1. /\ awaits[b] = NoSlot /\ spc[s] = "idle" /\ UNCHANGED <<cur, pIdx>>
        /\ awaits'[b] = s /\ \A c \in Bulks \ {b} : awaits'[c] = awaits[c]
        /\ spc'[s] = "lookup" /\ did'[s] = cur[b] /\ route'[s] = Paths[pIdx[b]]
        /\ \A t \in Slots \ {s} :
              spc'[t] = spc[t] /\ did'[t] = did[t] /\ route'[t] = route[t]
      BY <1>2, <1>4 DEF TryPath, TypeOK
  <2>2. \A c \in Bulks : awaits[c] # s
      BY <2>1 DEF LoopInv, RequestsOK
  <2>3. \A c \in Bulks : awaits[c] # NoSlot => awaits[c] \in Slots
      BY <1>2 DEF TypeOK
  <2>4. RequestsOK'
    <3>1. ASSUME NEW c \in Bulks, awaits'[c] # NoSlot
          PROVE  /\ spc'[awaits'[c]] # "idle" /\ did'[awaits'[c]] = cur'[c]
                 /\ route'[awaits'[c]] = Paths[pIdx'[c]]
      <4>1. CASE c = b
          BY <2>1, <4>1
      <4>2. CASE c # b
        <5>1. awaits'[c] = awaits[c] /\ awaits[c] \in Slots \ {s}
            BY <2>1, <2>2, <2>3, <3>1, <4>2
        <5> QED
            BY <2>1, <5>1, <3>1 DEF LoopInv, RequestsOK
      <4> QED
          BY <4>1, <4>2
    <3>2. \A c, d \in Bulks : awaits'[c] # NoSlot /\ c # d => awaits'[c] # awaits'[d]
        BY <2>1, <2>2 DEF LoopInv, RequestsOK
    <3> QED
        BY <3>1, <3>2 DEF RequestsOK
  <2>5. AnswersOK'
      BY <1>1, <2>1 DEF LoopInv, AnswersOK, Through, IsThen
  <2>6. TriedOK' /\ LetGo
      BY <1>1, <2>1 DEF LoopInv, TriedOK, LetGo, Through, IsThen
  <2> QED
      BY <2>4, <2>5, <2>6 DEF LoopInv
<1> QED
    BY <1>3, <1>4

\* An answer, or a fetch that is rejected: the loop goes on to the next route
\* only with an item that the route does not know, and to the next item only
\* with one that is through.
LEMMA LoopGoesOn ==
  ASSUME IInv, LoopInv, [Next]_vars, NEW b \in Bulks, NEW s \in Slots,
         Answered(b, s) \/ Rejected(b, s)
  PROVE  LoopInv' /\ LetGo
<1> USE SlotsAssumption, IdsAssumption, PathNames
<1>1. \A i : Through(i) => IsThen(i)
    BY ThroughStays
<1>2. TypeOK
    BY DEF IInv
<1>3. /\ awaits[b] = s /\ awaits'[b] = NoSlot
      /\ \A c \in Bulks \ {b} :
            awaits'[c] = awaits[c] /\ cur'[c] = cur[c] /\ pIdx'[c] = pIdx[c]
      /\ \/ cur'[b] = NoItem /\ pIdx'[b] = pIdx[b]
         \/ cur'[b] = cur[b] /\ pIdx'[b] = pIdx[b] + 1 /\ pIdx[b] # 3
      /\ FreeSlot(s) \/ UNCHANGED serving
  <2>1. /\ awaits[b] = s /\ awaits' = [awaits EXCEPT ![b] = NoSlot]
        /\ \/ cur' = [cur EXCEPT ![b] = NoItem] /\ pIdx' = pIdx
           \/ pIdx[b] # 3 /\ pIdx' = [pIdx EXCEPT ![b] = @ + 1] /\ cur' = cur
        /\ FreeSlot(s) \/ UNCHANGED serving
      BY DEF Answered, Rejected, GoOn
  <2> QED
      BY <1>2, <2>1 DEF TypeOK
<1>4. /\ spc[s] # "idle" /\ did[s] = cur[b] /\ route[s] = Paths[pIdx[b]]
      /\ pIdx[b] \in {1, 2, 3}
    BY <1>2, <1>3 DEF LoopInv, RequestsOK, TypeOK
\* What has become of the item in hand.
<1>5. /\ cur'[b] = NoItem /\ cur[b] \in Items => IsThen(cur[b])
      /\ cur'[b] # NoItem /\ cur[b] \in Table(Paths[pIdx[b]]) /\ pIdx[b] # 3 => IsThen(cur[b])
  <2>1. CASE Rejected(b, s)
      BY <2>1 DEF Rejected, IsThen
  <2>2. CASE Answered(b, s) /\ spc[s] = "deleted"
    <3>1. cur'[b] = NoItem
        BY <1>2, <2>2 DEF Answered, GoOn, TypeOK
    <3>2. CASE pIdx[b] # 3
        BY <1>1, <1>4, <2>2, <3>1, <3>2 DEF LoopInv, AnswersOK, Through, IsThen
    <3>3. CASE pIdx[b] = 3
        BY <1>1, <3>1, <3>3 DEF LoopInv, TriedOK, Through, IsThen
    <3> QED
        BY <3>2, <3>3
  <2>3. CASE Answered(b, s) /\ spc[s] = "missing"
    <3>1. pIdx[b] # 3
        BY <1>4, <2>3 DEF LoopInv, AnswersOK, Through, IsThen
    <3>2. cur' = cur
        BY <2>3, <3>1 DEF Answered, GoOn
    <3>3. cur[b] # NoItem
        BY <1>3 DEF IInv, InHandOK
    <3>4. cur[b] \in Table(Paths[pIdx[b]]) => Through(cur[b])
        BY <1>4, <2>3 DEF LoopInv, AnswersOK, Through, IsThen
    <3> QED
        BY <1>1, <3>2, <3>3, <3>4
  <2> QED
      BY <2>1, <2>2, <2>3 DEF Answered
<1>6. RequestsOK'
  <2>1. ASSUME NEW c \in Bulks, awaits'[c] # NoSlot
        PROVE  /\ spc'[awaits'[c]] # "idle" /\ did'[awaits'[c]] = cur'[c]
               /\ route'[awaits'[c]] = Paths[pIdx'[c]]
    <3>1. c # b /\ awaits'[c] = awaits[c] /\ awaits[c] \in Slots
        BY <1>2, <1>3, <2>1 DEF TypeOK
    <3>2. awaits[c] # s
        BY <1>3, <3>1 DEF LoopInv, RequestsOK
    <3>3. spc'[awaits[c]] = spc[awaits[c]] /\ did'[awaits[c]] = did[awaits[c]]
          /\ route'[awaits[c]] = route[awaits[c]]
        BY <1>2, <1>3, <3>1, <3>2 DEF FreeSlot, serving, TypeOK
    <3> QED
        BY <1>3, <2>1, <3>1, <3>3 DEF LoopInv, RequestsOK
  <2>2. \A c, d \in Bulks : awaits'[c] # NoSlot /\ c # d => awaits'[c] # awaits'[d]
      BY <1>3 DEF LoopInv, RequestsOK
  <2> QED
      BY <2>1, <2>2 DEF RequestsOK
<1>7. AnswersOK'
  <2>1. \A t \in Slots :
           \/ spc'[t] = "idle"
           \/ spc'[t] = spc[t] /\ did'[t] = did[t] /\ route'[t] = route[t]
      BY <1>2, <1>3 DEF FreeSlot, serving, TypeOK
  <2> QED
      BY <1>1, <2>1 DEF LoopInv, AnswersOK, Through, IsThen
<1>8. TriedOK'
  <2> SUFFICES ASSUME NEW c \in Bulks
               PROVE  /\ pIdx'[c] >= 2 /\ cur'[c] \in Files => IsThen(cur'[c])
                      /\ pIdx'[c] >= 3 /\ cur'[c] \in Items => IsThen(cur'[c])
      BY DEF TriedOK, Through, IsThen
  <2>1. CASE c # b
      BY <1>1, <1>3, <2>1 DEF LoopInv, TriedOK, Through, IsThen
  <2>2. CASE c = b /\ cur'[b] = NoItem
    <3>1. NoItem \notin Items /\ Files \subseteq Items
        BY DEF Items, Ids
    <3> QED
        BY <2>2, <3>1
  <2>3. CASE c = b /\ cur'[b] # NoItem
    <3>1. cur'[b] = cur[b] /\ pIdx'[b] = pIdx[b] + 1 /\ pIdx[b] \in {1, 2}
        BY <1>3, <1>4, <2>3
    <3>2. CASE pIdx[b] = 1
        BY <1>5, <2>3, <3>1, <3>2 DEF Table
    <3>3. CASE pIdx[b] = 2
      <4>1. cur[b] \in Files => IsThen(cur[b])
          BY <1>1, <3>3 DEF LoopInv, TriedOK, Through, IsThen
      <4>2. cur[b] \in Clips => IsThen(cur[b])
          BY <1>5, <2>3, <3>3 DEF Table
      <4> QED
          BY <2>3, <3>1, <4>1, <4>2 DEF Items
    <3> QED
        BY <3>1, <3>2, <3>3
  <2> QED
      BY <2>1, <2>2, <2>3
<1>9. LetGo
    BY <1>3, <1>5 DEF LetGo
<1> QED
    BY <1>6, <1>7, <1>8, <1>9 DEF LoopInv

\* A delete handler: its answer is true of the item.
LEMMA LoopServed ==
  ASSUME IInv, LoopInv, [Next]_vars, NEW s \in Slots, Serve(s)
  PROVE  LoopInv' /\ LetGo
<1>1. \A i : Through(i) => IsThen(i)
    BY ThroughStays
<1>2. TypeOK /\ UNCHANGED <<cur, pIdx, awaits>>
    BY DEF IInv, Serve, FindRow, FindNone, RemoveObject, RemoveRow, RemoveLink, Unread, bulk
<1>3. /\ \A t \in Slots \ {s} :
            spc'[t] = spc[t] /\ did'[t] = did[t] /\ route'[t] = route[t]
      /\ \/ Unread(s) /\ spc'[s] = "idle"
         \/ spc'[s] # "idle" /\ did'[s] = did[s] /\ route'[s] = route[s]
    BY <1>2 DEF TypeOK, Serve, FindRow, FindNone, RemoveObject, RemoveRow, RemoveLink,
                Unread, Goto, FreeSlot
<1>4. /\ spc'[s] \in {"remove", "unrow", "missing"} => route'[s] # "urls"
      /\ spc'[s] = "deleted" /\ route'[s] # "urls" => IsThen(did'[s])
      /\ spc'[s] = "missing" /\ did'[s] \in Table(route'[s]) => IsThen(did'[s])
  <2>1. CASE FindRow(s) \/ RemoveObject(s) \/ RemoveLink(s) \/ Unread(s)
      BY <1>2, <1>3, <2>1
         DEF TypeOK, LoopInv, AnswersOK, FindRow, RemoveObject, RemoveLink, Unread, Goto, FreeSlot
  <2>2. CASE FindNone(s)
    <3>1. spc'[s] = "missing" /\ did'[s] = did[s] /\ route'[s] = route[s] /\ route[s] # "urls"
        BY <1>2, <1>3, <2>2 DEF TypeOK, FindNone, Goto
    <3>2. did[s] \in Table(route[s]) => IsThen(did[s])
        BY <2>2 DEF FindNone, IsThen, stores
    <3> QED
        BY <3>1, <3>2
  <2>3. CASE RemoveRow(s)
    <3>1. spc'[s] = "deleted" /\ did'[s] = did[s] /\ IsThen(did[s])
        BY <1>2, <1>3, <2>3 DEF TypeOK, RemoveRow, Goto, IsThen
    <3> QED
        BY <3>1
  <2> QED
      BY <2>1, <2>2, <2>3 DEF Serve
<1>5. AnswersOK'
    BY <1>1, <1>3, <1>4 DEF LoopInv, AnswersOK, Through, IsThen
<1>6. RequestsOK'
  <2>1. ASSUME NEW c \in Bulks, awaits[c] # NoSlot
        PROVE  /\ spc'[awaits[c]] # "idle" /\ did'[awaits[c]] = cur[c]
               /\ route'[awaits[c]] = Paths[pIdx[c]]
    <3>1. awaits[c] \in Slots
        BY <1>2, <2>1 DEF TypeOK
    <3>2. awaits[c] = s => ~Unread(s)
        BY DEF Unread
    <3> QED
        BY <1>3, <2>1, <3>1, <3>2 DEF LoopInv, RequestsOK
  <2> QED
      BY <1>2, <2>1 DEF LoopInv, RequestsOK
<1>7. TriedOK' /\ LetGo
    BY <1>1, <1>2 DEF LoopInv, TriedOK, LetGo, Through, IsThen
<1> QED
    BY <1>5, <1>6, <1>7 DEF LoopInv

LEMMA LoopStep == IInv /\ LoopInv /\ [Next]_vars => LoopInv' /\ LetGo
<1> SUFFICES ASSUME IInv, LoopInv, [Next]_vars PROVE LoopInv' /\ LetGo
    OBVIOUS
<1>1. ASSUME NEW b \in Bulks, RunBulk(b) \/ \E s \in Slots : Rejected(b, s)
      PROVE  LoopInv' /\ LetGo
    BY <1>1, LoopTakes, LoopGoesOn DEF RunBulk
<1>2. ASSUME NEW s \in Slots, Serve(s) PROVE LoopInv' /\ LetGo
    BY <1>2, LoopServed
<1>3. CASE \/ UNCHANGED vars \/ Zip \/ \E r \in Creators : NewLink(r)
           \/ \E selected \in Selections :
                 BulkDownload(selected) \/ \E b \in Bulks : BulkDelete(b, selected)
  <2>1. UNCHANGED <<cur, pIdx, awaits, serving>>
      BY <1>3 DEF vars, bulk, Zip, ZipEntry, ZipSkip, ZipRead, ZipCount, ZipSend, NewLink,
                  BulkDownload, BulkDelete
  <2> QED
      BY <2>1, LoopKept
<1> QED
    BY <1>1, <1>2, <1>3 DEF Next

\* bulkDelete of app.js, which takes the first 204 for a success and links
\* answer with one always, all the same lets go of a file or a clipboard entry
\* only when it is off the lists or a call about it has failed, whatever other
\* bulks and handlers do beside it.
THEOREM LoopLetsGoOfGone == Spec => [][LetGo]_vars
<1>1. Init => IInv /\ LoopInv
    BY IInvInit, LoopInit
<1>2. IInv /\ LoopInv /\ [Next]_vars => IInv' /\ LoopInv' /\ LetGo
    BY IInvStep, LoopStep
<1> QED
    BY <1>1, <1>2, PTL DEF Spec
=============================================================================
