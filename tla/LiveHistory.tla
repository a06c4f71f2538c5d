----------------------------- MODULE LiveHistory -----------------------------
(***************************************************************************)
(* One browser tab of src/web/app.js against the server: the three history *)
(* lists, the loads that replace them, the event stream that asks for a    *)
(* load, and the tab's own creates and deletes, which change the lists on  *)
(* their own account.  Other tabs, the CLI and the janitor change the      *)
(* server's lists at any time.                                             *)
(*                                                                         *)
(* JavaScript runs one callback at a time, so a callback is one step; the  *)
(* server answers the three requests of a load separately.                 *)
(***************************************************************************)
EXTENDS Naturals, SequencesExt

CONSTANTS
    Files, Clips, Links,  \* ids that may be given out, never one twice
    MaxLoads,             \* bound on the loads in flight
    MaxOwn,               \* bound on the tab's own requests in flight
    MaxEvents             \* what a stream holds: one value in the broker's
                          \* channel and one event on the way

ASSUME BoundsAssumption == MaxLoads \in Nat \ {0} /\ MaxOwn \in Nat /\ MaxEvents \in Nat \ {0}

Items == Files \cup Clips \cup Links
Kinds == {"file", "clipboard", "url"}
Kind(i) == IF i \in Files THEN "file" ELSE IF i \in Clips THEN "clipboard" ELSE "url"

VARIABLES
    served,   \* the server's lists, newest first
    drawn,    \* ids given out
    admitted, \* the server lets the tab in: it is on the LAN, or has the token
    modal,    \* the dialog that asks for a token is open
    stream,   \* "open" or "closed"
    events,   \* events on their way to the tab
    shown,    \* filesData, clipboardData and linksData
    loads,    \* loads in flight, in the order they were sent
    own,      \* the tab's own request about each item
    behind,   \* history: the lists shown may lack a change that nothing will
              \* bring, because no event told of it, because an older load
              \* overwrote a newer one, or because a load failed or was refused
    late      \* history: an own create was answered after a load arrived

server == <<served, drawn>>
session == <<admitted, modal>>
history == <<behind, late>>
vars == <<server, session, stream, events, shown, loads, own, history>>

OwnStages == {"none", "post", "created", "passed", "delete", "deleted", "missing"}

TypeOK ==
  /\ \A k \in Kinds : served[k] \in Seq(Items) /\ shown[k] \in Seq(Items)
  /\ drawn \subseteq Items
  /\ admitted \in BOOLEAN /\ modal \in BOOLEAN
  /\ stream \in {"open", "closed"} /\ events \in 0..MaxEvents
  /\ loads \in Seq([permitted : BOOLEAN, awaited : SUBSET Kinds,
                    got : [Kinds -> Seq(Items)], behind : BOOLEAN])
  /\ own \in [Items -> OwnStages]
  /\ behind \in BOOLEAN /\ late \in BOOLEAN

\* The page is opened and sends the first load.  The dialog is open when the
\* server has a token and the tab has saved none, on the LAN too; a wrong token
\* that was saved, and a server without one, keep a tab out with no dialog.
NewLoad(permitted) == [permitted |-> permitted, awaited |-> Kinds,
                       got |-> [k \in Kinds |-> <<>>], behind |-> FALSE]
Init ==
  /\ served = [k \in Kinds |-> <<>>] /\ drawn = {}
  /\ admitted \in BOOLEAN /\ modal \in BOOLEAN
  /\ stream = "closed" /\ events = 0
  /\ shown = [k \in Kinds |-> <<>>]
  /\ loads = <<NewLoad(admitted)>>
  /\ own = [i \in Items |-> "none"]
  /\ behind = FALSE /\ late = FALSE

IsServed(i) == i \in ToSet(served[Kind(i)])
IsShown(i) == i \in ToSet(shown[Kind(i)])
-----------------------------------------------------------------------------
(***************************************************************************)
(* Changes of the server's lists and what the tab hears of them            *)
(***************************************************************************)

\* A change of kind k that no event tells the tab of: no later load need come,
\* and the lists that loads in flight have got may lack it.
Unheard(k) ==
  /\ behind' = TRUE
  /\ loads' = [n \in DOMAIN loads |->
                 [loads[n] EXCEPT !.behind = @ \/ k \notin loads[n].awaited]]
  /\ UNCHANGED <<events, late>>

\* Mutation: what the stream holds grows without bound.
Queued(n) == {n + 1}

\* What the stream may hold after a broadcast: the broker's channel has room for
\* one value, and two broadcasts that find it full or share it are one event.
Buffered(n) == {n, n + 1} \cap (1..MaxEvents)

\* Broadcast reaches the tab when its stream is open.
Broadcast ==
  /\ IF stream = "open" THEN events' \in Buffered(events) ELSE UNCHANGED events
  /\ UNCHANGED <<loads, history>>

\* A change and its broadcast; the event that a full channel holds covers the
\* change too.
Announce(k) == IF stream = "open" THEN Broadcast ELSE Unheard(k)

\* The routes that broadcast: the multipart clipboard form and the URL
\* shortener do not.
AnnouncedRoutes(i) ==
  IF i \in Files THEN {TRUE} ELSE IF i \in Clips THEN {TRUE, FALSE} ELSE {FALSE}
Tell(k, announced) == IF announced THEN Announce(k) ELSE Unheard(k)

Prepend(i) == served' = [served EXCEPT ![Kind(i)] = <<i>> \o @]

\* An id is the key of one row.
Drop(i) ==
  \E n \in DOMAIN served[Kind(i)] :
    /\ served[Kind(i)][n] = i
    /\ served' = [served EXCEPT ![Kind(i)] = RemoveAt(@, n)]

OtherCreates(i) ==
  /\ i \notin drawn /\ own[i] = "none"
  /\ drawn' = drawn \cup {i} /\ Prepend(i)
  /\ \E announced \in AnnouncedRoutes(i) : Tell(Kind(i), announced)
  /\ UNCHANGED <<session, stream, shown, own>>

\* The handlers drop the error of their DELETE and broadcast all the same.
Delete(i) ==
  \/ IsServed(i) /\ Drop(i) /\ Announce(Kind(i))
  \/ UNCHANGED served /\ Broadcast

OtherDeletes(i) ==
  /\ IsServed(i) /\ Delete(i)
  /\ UNCHANGED <<drawn, session, stream, shown, own>>

\* The janitor purges an expired file and tells nobody.
Purge(i) ==
  /\ i \in Files /\ IsServed(i)
  /\ Drop(i) /\ Unheard("file")
  /\ UNCHANGED <<drawn, session, stream, shown, own>>
-----------------------------------------------------------------------------
(***************************************************************************)
(* The event stream and the token                                          *)
(***************************************************************************)

\* startSSE, five seconds after the last error; a tab that is not let in fails
\* every time.  The "connected" event has a name and reaches no onmessage.  A
\* broadcast that was called before may still find the new channel in the map.
Connect ==
  /\ stream = "closed" /\ admitted
  /\ stream' = "open" /\ events' \in {0, 1}
  /\ UNCHANGED <<server, session, shown, loads, own, history>>

Behind(ls) == [n \in DOMAIN ls |-> [ls[n] EXCEPT !.behind = TRUE]]

\* onerror: the stream is closed with the events it held; nothing is loaded.
StreamBreaks ==
  /\ stream = "open"
  /\ stream' = "closed" /\ events' = 0
  /\ IF events = 0 THEN UNCHANGED <<behind, loads>>
     ELSE behind' = TRUE /\ loads' = Behind(loads)
  /\ UNCHANGED <<server, session, shown, own, late>>

\* Mutation: an event that comes while a load is in flight starts none.
SkipWhileLoading(ls) == IF ls = <<>> THEN <<NewLoad(admitted)>> ELSE ls

\* loadHistory, with the token of now.
Reload(ls) == Append(ls, NewLoad(admitted))

\* onmessage calls loadHistory.
HearEvent ==
  /\ events > 0 /\ Len(loads) < MaxLoads
  /\ events' = events - 1
  /\ loads' = Reload(loads)
  /\ UNCHANGED <<server, session, stream, shown, own, history>>

\* The form of the dialog: any text is saved, and the dialog goes for good.  A
\* tab that is let in while it is asked is on the LAN.
SubmitToken(right) ==
  /\ modal /\ Len(loads) < MaxLoads
  /\ admitted' = (admitted \/ right) /\ modal' = FALSE
  /\ loads' = Append(loads, NewLoad(admitted'))
  /\ UNCHANGED <<server, stream, events, shown, own, history>>
-----------------------------------------------------------------------------
(***************************************************************************)
(* loadHistory                                                             *)
(***************************************************************************)

\* The server answers one of the three requests; an answer that is not ok, for
\* being kept out or for an error of the database, counts as an empty list.
AnswerList(n, k) ==
  /\ n \in DOMAIN loads /\ k \in loads[n].awaited
  /\ \/ /\ loads[n].permitted
        /\ loads' = [loads EXCEPT ![n].awaited = @ \ {k}, ![n].got[k] = served[k]]
     \/ loads' = [loads EXCEPT ![n].awaited = @ \ {k}, ![n].behind = TRUE]
  /\ UNCHANGED <<server, session, stream, events, shown, own, history>>

\* The loads that are left when load n has ended: those sent before it can no
\* longer bring what it was sent for.
Without(n) == Behind(SubSeq(loads, 1, n - 1)) \o SubSeq(loads, n + 1, Len(loads))

\* Mutation: an empty answer leaves the list as it is.
NonEmptyOnly(got) == [k \in Kinds |-> IF got[k] = <<>> THEN shown[k] ELSE got[k]]

\* Mutation: what was loaded is put in front of what is there.
PutInFront(got) == [k \in Kinds |-> got[k] \o shown[k]]

Replaced(got) == got

\* Promise.all is fulfilled: the lists are replaced, by an older load too.
LoadArrives(n) ==
  /\ n \in DOMAIN loads /\ loads[n].awaited = {}
  /\ shown' = Replaced(loads[n].got)
  /\ behind' = loads[n].behind /\ late' = FALSE
  /\ loads' = Without(n)
  /\ own' = [i \in Items |-> IF own[i] = "created" THEN "passed" ELSE own[i]]
  /\ UNCHANGED <<server, session, stream, events>>

\* One of the requests is rejected: the lists stay as they are.
LoadFails(n) ==
  /\ n \in DOMAIN loads
  /\ behind' = TRUE
  /\ loads' = Without(n)
  /\ UNCHANGED <<server, session, stream, events, shown, own, late>>
-----------------------------------------------------------------------------
(***************************************************************************)
(* The tab's own requests                                                  *)
(***************************************************************************)

MayAsk(i) == own[i] = "none" /\ Cardinality({j \in Items : own[j] # "none"}) < MaxOwn

\* uploadSingle, handlePaste or the form of the shortener.  A tab that is not let
\* in is refused, and nothing changes.
Post(i) ==
  /\ admitted /\ i \notin drawn /\ MayAsk(i)
  /\ own' = [own EXCEPT ![i] = "post"]
  /\ UNCHANGED <<server, session, stream, events, shown, loads, history>>

StoreOwn(i) ==
  /\ own[i] = "post" /\ i \notin drawn
  /\ drawn' = drawn \cup {i} /\ Prepend(i)
  /\ own' = [own EXCEPT ![i] = "created"]
  /\ \E announced \in AnnouncedRoutes(i) : Tell(Kind(i), announced)
  /\ UNCHANGED <<session, stream, shown>>

\* A refusal, or an answer that is lost: a toast.
PostFails(i) ==
  /\ own[i] \in {"post", "created", "passed"}
  /\ own' = [own EXCEPT ![i] = "none"]
  /\ UNCHANGED <<server, session, stream, events, shown, loads, history>>

\* 201: the item is put at the head of its list, whatever is in it by now.
Unshift(i) == shown' = [shown EXCEPT ![Kind(i)] = <<i>> \o @]
PostAnswered(i) ==
  /\ own[i] \in {"created", "passed"}
  /\ Unshift(i)
  /\ own' = [own EXCEPT ![i] = "none"]
  /\ late' = (late \/ own[i] = "passed")
  /\ UNCHANGED <<server, session, stream, events, loads, behind>>

\* deleteItem, of an entry of the list on the page.
DeleteItem(i) ==
  /\ admitted /\ IsShown(i) /\ MayAsk(i)
  /\ own' = [own EXCEPT ![i] = "delete"]
  /\ UNCHANGED <<server, session, stream, events, shown, loads, history>>

\* The handlers of files and clipboard look the row up and answer 404 when
\* there is none or the lookup fails; the one of links asks for no row.
ServeDelete(i) ==
  /\ own[i] = "delete"
  /\ \/ /\ IsServed(i) \/ i \in Links
        /\ own' = [own EXCEPT ![i] = "deleted"]
        /\ Delete(i)
     \/ /\ i \notin Links
        /\ own' = [own EXCEPT ![i] = "missing"]
        /\ UNCHANGED <<served, events, loads, history>>
  /\ UNCHANGED <<drawn, session, stream, shown>>

\* A 204 is followed by a load, anything else by a toast.
DeleteAnswered(i) ==
  /\ own[i] = "deleted" /\ Len(loads) < MaxLoads
  /\ own' = [own EXCEPT ![i] = "none"]
  /\ loads' = Reload(loads)
  /\ UNCHANGED <<server, session, stream, events, shown, history>>
DeleteFails(i) ==
  /\ own[i] \in {"delete", "deleted", "missing"}
  /\ own' = [own EXCEPT ![i] = "none"]
  /\ UNCHANGED <<server, session, stream, events, shown, loads, history>>

Next ==
  \/ \E i \in Items :
       \/ OtherCreates(i) \/ OtherDeletes(i) \/ Purge(i)
       \/ Post(i) \/ StoreOwn(i) \/ PostFails(i) \/ PostAnswered(i)
       \/ DeleteItem(i) \/ ServeDelete(i) \/ DeleteAnswered(i) \/ DeleteFails(i)
  \/ Connect \/ StreamBreaks \/ HearEvent
  \/ \E right \in BOOLEAN : SubmitToken(right)
  \/ \E n \in 1..MaxLoads :
       (\E k \in Kinds : AnswerList(n, k)) \/ LoadArrives(n) \/ LoadFails(n)

Spec == Init /\ [][Next]_vars
-----------------------------------------------------------------------------
\* Nothing is on its way to the tab.
AtRest == loads = <<>> /\ events = 0 /\ \A i \in Items : own[i] = "none"

\* A tab at rest shows exactly the server's lists, unless one of the four
\* things the code does not repair has happened since the load it shows was
\* sent: a change no event told it of, an older load that overwrote a newer
\* one, a load that failed or was refused, or an answer to an own create that
\* came after a load.
SettledIsTrue == AtRest /\ ~behind /\ ~late => shown = served

\* An item stands twice in a list only when the answer to the tab's own create
\* came after a load had brought it, and then until the next load; never three
\* times.
Copies(i) == Cardinality({n \in DOMAIN shown[Kind(i)] : shown[Kind(i)][n] = i})
TwiceOnlyWhenLate ==
  \A i \in Items : Copies(i) <= IF late THEN 2 ELSE 1

\* A late answer only adds to the lists: with no other excuse, a tab at rest
\* shows everything the server has.
LateOnlyAdds ==
  AtRest /\ ~behind => \A i \in Items : IsServed(i) => IsShown(i)
=============================================================================
