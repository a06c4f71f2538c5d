----------------------------- MODULE SMBSession -----------------------------
(***************************************************************************)
(* The one SMB session that all requests share in               *)
(* go/internal/storage/smb.go: its fields conn, session and fs, which      *)
(* reconnect closes and replaces without a lock, after any error.          *)
(*                                                                         *)
(* Every dialled connection has a number; conn, session and fs hold the    *)
(* number of the connection they belong to.  A step is one call of the SMB *)
(* library or one assignment to a field.                                   *)
(***************************************************************************)
EXTENDS Naturals

CONSTANTS
    Calls,        \* calls of the store that may run at the same time
    MaxSessions   \* bound on the connections ever dialled

ASSUME SessionsAssumption == MaxSessions \in Nat \ {0}

Sessions == 1..MaxSessions
Ops == {"Put", "Get", "Delete", "SpaceInfo"}

VARIABLES
    dialled,              \* connections dialled so far
    open,                 \* those not closed on this side
    working,              \* those whose share answers
    conn, session, fs,    \* the fields of the store
    pc, op,               \* per call: where it is, what it does
    mine,                 \* per call: the connection it has dialled or the
                          \* one its open file belongs to, 0 for none
    result,               \* per call: what the last one came to
    undisturbed,          \* history, per call: no other call has run beside
                          \* it, and the network has not failed since it began
    raced                 \* history: connections dialled while calls were
                          \* reconnecting at the same time

fields == <<conn, session, fs>>
net == <<dialled, open, working>>
calls == <<pc, op, mine, result>>
history == <<undisturbed, raced>>
vars == <<net, fields, calls, history>>

Reconnect == {"umount", "logoff", "close", "dial", "mount", "conn", "session", "fs"}
Steps == {"idle", "try", "retry", "hold"} \cup Reconnect
Results == {"none", "ok", "refused", "failed", "cut"}

TypeOK ==
  /\ dialled \in Sessions /\ open \subseteq Sessions /\ working \subseteq Sessions
  /\ conn \in Sessions /\ session \in Sessions /\ fs \in Sessions
  /\ pc \in [Calls -> Steps] /\ op \in [Calls -> Ops]
  /\ mine \in [Calls -> Sessions \cup {0}] /\ result \in [Calls -> Results]
  /\ undisturbed \in [Calls -> BOOLEAN] /\ raced \subseteq Sessions

\* NewSMBStore has connected, or the server would not have started.
Init ==
  /\ dialled = 1 /\ open = {1} /\ working = {1}
  /\ conn = 1 /\ session = 1 /\ fs = 1
  /\ pc = [c \in Calls |-> "idle"] /\ op = [c \in Calls |-> "Get"]
  /\ mine = [c \in Calls |-> 0] /\ result = [c \in Calls |-> "none"]
  /\ undisturbed = [c \in Calls |-> FALSE] /\ raced = {}

Reconnecting(c) == pc[c] \in Reconnect
Go(c, to) == pc' = [pc EXCEPT ![c] = to]
-----------------------------------------------------------------------------
(***************************************************************************)
(* Calls                                                                   *)
(***************************************************************************)
Start(c, o) ==
  /\ pc[c] = "idle"
  /\ Go(c, "try") /\ op' = [op EXCEPT ![c] = o]
  /\ result' = [result EXCEPT ![c] = "none"]
  /\ undisturbed' = [d \in Calls |->
       IF d = c THEN \A e \in Calls \ {c} : pc[e] = "idle"
       ELSE undisturbed[d] /\ pc[d] = "idle"]
  /\ UNCHANGED <<net, fields, mine, raced>>

Return(c, r) ==
  /\ Go(c, "idle")
  /\ result' = [result EXCEPT ![c] = r] /\ mine' = [mine EXCEPT ![c] = 0]

\* The attempt goes well: Put and Get have an open file, the others are done.
Succeed(c) ==
  /\ fs \in working
  /\ IF op[c] \in {"Put", "Get"}
     THEN Go(c, "hold") /\ mine' = [mine EXCEPT ![c] = fs] /\ UNCHANGED result
     ELSE Return(c, "ok")

\* The first attempt, on whatever fs is now.
FirstSuccess(c) ==
  /\ pc[c] = "try" /\ Succeed(c)
  /\ UNCHANGED <<net, fields, op, history>>

\* Any error starts a reconnect, one that a working share answered too: an
\* object that is not there.
FirstError(c) ==
  /\ pc[c] = "try" /\ op[c] # "SpaceInfo"
  /\ Go(c, "umount")
  /\ raced' = raced \cup {mine[d] : d \in {e \in Calls : Reconnecting(e) /\ mine[e] # 0}}
  /\ UNCHANGED <<net, fields, op, mine, result, undisturbed>>

\* SpaceInfo never reconnects.
SpaceInfoError(c) ==
  /\ pc[c] = "try" /\ op[c] = "SpaceInfo"
  /\ Return(c, IF fs \in working THEN "refused" ELSE "failed")
  /\ UNCHANGED <<net, fields, op, history>>

\* The second attempt, after a reconnect that succeeded; an error is returned.
Retry(c) ==
  /\ pc[c] = "retry"
  /\ \/ Succeed(c)
     \/ Return(c, IF fs \in working THEN "refused" ELSE "failed")
  /\ UNCHANGED <<net, fields, op, history>>

\* The rest of Put and Get on the open file, which ends with its share.
UseFile(c) ==
  /\ pc[c] = "hold"
  /\ Return(c, IF mine[c] \in working THEN "ok" ELSE "cut")
  /\ UNCHANGED <<net, fields, op, history>>
-----------------------------------------------------------------------------
(***************************************************************************)
(* reconnect                                                               *)
(***************************************************************************)

\* The three fields are cleaned up one after the other, as they are read then.
Umount(c) ==
  /\ pc[c] = "umount" /\ Go(c, "logoff")
  /\ working' = working \ {fs}
  /\ UNCHANGED <<dialled, open, fields, op, mine, result, history>>
Logoff(c) ==
  /\ pc[c] = "logoff" /\ Go(c, "close")
  /\ working' = working \ {session}
  /\ UNCHANGED <<dialled, open, fields, op, mine, result, history>>
\* Mutation: the connection is forgotten and not closed.
ConnKept(c) ==
  /\ pc[c] = "close" /\ Go(c, "dial")
  /\ working' = working \ {conn}
  /\ UNCHANGED <<dialled, open, fields, op, mine, result, history>>

CloseConn(c) ==
  /\ pc[c] = "close" /\ Go(c, "dial")
  /\ working' = working \ {conn} /\ open' = open \ {conn}
  /\ UNCHANGED <<dialled, fields, op, mine, result, history>>

\* The network fails a call of reconnect: the first error is returned.
Disturb == undisturbed' = [d \in Calls |-> undisturbed[d] /\ pc[d] = "idle"]
\* Mutation: the error is logged and reconnect goes on.
GoesOn(c) == Go(c, "conn") /\ UNCHANGED <<mine, result>> /\ Disturb

GiveUp(c) == Return(c, "failed") /\ Disturb

Dial(c) ==
  /\ pc[c] = "dial" /\ dialled < MaxSessions
  /\ dialled' = dialled + 1 /\ open' = open \cup {dialled + 1}
  /\ mine' = [mine EXCEPT ![c] = dialled + 1] /\ Go(c, "mount")
  /\ raced' = IF \E d \in Calls \ {c} : Reconnecting(d)
              THEN raced \cup {dialled + 1} ELSE raced
  /\ UNCHANGED <<working, fields, op, result, undisturbed>>
NoConnection(c) ==
  /\ pc[c] = "dial" /\ GiveUp(c)
  /\ UNCHANGED <<net, fields, op, raced>>

\* The session is set up and the share mounted, or both are taken back.
Mount(c) ==
  /\ pc[c] = "mount" /\ Go(c, "conn")
  /\ working' = working \cup {mine[c]}
  /\ UNCHANGED <<dialled, open, fields, op, mine, result, history>>
NoShare(c) ==
  /\ pc[c] = "mount" /\ GiveUp(c)
  /\ open' = open \ {mine[c]}
  /\ UNCHANGED <<dialled, working, fields, op, raced>>

SetConn(c) ==
  /\ pc[c] = "conn" /\ Go(c, "session")
  /\ conn' = mine[c]
  /\ UNCHANGED <<net, session, fs, op, mine, result, history>>
\* Mutation: the new session is not kept.
SessionForgotten(c) ==
  /\ pc[c] = "session" /\ Go(c, "fs")
  /\ UNCHANGED <<net, fields, op, mine, result, history>>

SetSession(c) ==
  /\ pc[c] = "session" /\ Go(c, "fs")
  /\ session' = mine[c]
  /\ UNCHANGED <<net, conn, fs, op, mine, result, history>>
\* Mutation: the new share is not kept.
FsForgotten(c) ==
  /\ pc[c] = "fs" /\ Go(c, "retry")
  /\ mine' = [mine EXCEPT ![c] = 0]
  /\ UNCHANGED <<net, fields, op, result, history>>

SetFs(c) ==
  /\ pc[c] = "fs" /\ Go(c, "retry")
  /\ fs' = mine[c] /\ mine' = [mine EXCEPT ![c] = 0]
  /\ UNCHANGED <<net, conn, session, op, result, history>>

\* The connection is lost: the share stops answering, nothing is closed.
NetworkDrops(s) ==
  /\ s \in working
  /\ working' = working \ {s} /\ Disturb
  /\ UNCHANGED <<dialled, open, fields, calls, raced>>

Call(c) ==
  \/ \E o \in Ops : Start(c, o)
  \/ FirstSuccess(c) \/ FirstError(c) \/ SpaceInfoError(c) \/ Retry(c) \/ UseFile(c)
  \/ Umount(c) \/ Logoff(c) \/ CloseConn(c)
  \/ Dial(c) \/ NoConnection(c) \/ Mount(c) \/ NoShare(c)
  \/ SetConn(c) \/ SetSession(c) \/ SetFs(c)

Next == (\E c \in Calls : Call(c)) \/ (\E s \in Sessions : NetworkDrops(s))

Spec == Init /\ [][Next]_vars
-----------------------------------------------------------------------------
\* Whatever state earlier failures and overlapping reconnects have left the
\* three fields in, a call that runs alone while the network holds gets
\* through to the share: it ends well or with the share's own refusal.
\* SpaceInfo is excepted, which never reconnects.
AloneGetsThrough ==
  \A c \in Calls :
    pc[c] = "idle" /\ undisturbed[c] /\ op[c] # "SpaceInfo" => result[c] \in {"ok", "refused"}

\* A connection that is neither in the store nor in the hands of a reconnect is
\* never closed again.  Only reconnects that overlap leave one behind.
LeakOnlyFromRace ==
  \A s \in open :
    s # conn /\ (\A c \in Calls : Reconnecting(c) => mine[c] # s) => s \in raced

\* Between reconnects the three fields belong to one connection, unless one of
\* them was dialled in a race.
FieldsTogether ==
  (\A c \in Calls : ~Reconnecting(c)) =>
    (conn = session /\ session = fs) \/ {conn, session, fs} \cap raced # {}
=============================================================================
