-------------------------- MODULE SMBSessionProofs --------------------------
(***************************************************************************)
(* Proofs that SMBSession keeps its invariants, for every number of calls  *)
(* and of connections.                                                     *)
(***************************************************************************)
EXTENDS SMBSession, TLAPS

\* The call has dialled a connection and not yet put all of it into the store.
Holding(c) == pc[c] \in {"mount", "conn", "session", "fs"}

\* Numbers beyond dialled are not in use.
NumbersOK ==
  /\ open \subseteq 1..dialled /\ working \subseteq 1..dialled /\ raced \subseteq 1..dialled
  /\ conn <= dialled /\ session <= dialled /\ fs <= dialled
  /\ \A c \in Calls : mine[c] <= dialled

\* mine is the connection a reconnect has dialled, or that of an open file.
MineOK ==
  \A c \in Calls :
    /\ Holding(c) => mine[c] # 0
    /\ ~Holding(c) /\ pc[c] # "hold" => mine[c] = 0

\* Of two reconnects at work, each connection in hand is known to have raced.
RacedOK ==
  \A c, d \in Calls : c # d /\ Reconnecting(c) /\ Holding(d) => mine[d] \in raced

\* How far a reconnect has come says where the fields are, up to a race.
ClosedOK ==
  \A c \in Calls : pc[c] \in {"dial", "mount", "conn"} => conn \notin open \/ conn \in raced
StoredOK ==
  \A c \in Calls :
    /\ pc[c] \in {"session", "fs"} => conn = mine[c] \/ (conn \in raced /\ mine[c] \in raced)
    /\ pc[c] = "fs" => session = mine[c] \/ session \in raced

\* FieldsTogether, as long as no reconnect is between its assignments.
TogetherOK ==
  (\A c \in Calls : pc[c] \notin {"session", "fs"}) =>
    (conn = session /\ session = fs) \/ {conn, session, fs} \cap raced # {}

LeakOK ==
  \A s \in open : s = conn \/ s \in raced \/ \E c \in Calls : Holding(c) /\ mine[c] = s

\* A call that is undisturbed is alone, and what it has reached works.
AloneOK ==
  \A c \in Calls : undisturbed[c] =>
    /\ pc[c] # "idle" => \A d \in Calls : d # c => pc[d] = "idle"
    /\ pc[c] \in {"conn", "session", "fs", "hold"} => mine[c] \in working
    /\ pc[c] = "retry" => fs \in working
    /\ pc[c] = "idle" /\ op[c] # "SpaceInfo" => result[c] \in {"ok", "refused"}

IInv ==
  /\ TypeOK /\ NumbersOK /\ MineOK /\ RacedOK /\ ClosedOK /\ StoredOK /\ TogetherOK
  /\ LeakOK /\ AloneOK
-----------------------------------------------------------------------------
\* Only a reconnect that has dialled stores what it has in hand.
LEMMA TypeOKKept ==
  ASSUME TypeOK, MineOK, [Next]_vars
  PROVE  TypeOK'
<1> USE SessionsAssumption DEF net, fields, calls, history,
      TypeOK, MineOK, Holding, Sessions, Steps, Reconnect, Results, Ops
<1>1. ASSUME NEW c \in Calls, NEW o \in Ops, Start(c, o) PROVE TypeOK'
    BY <1>1 DEF Start, Go
<1>2. ASSUME NEW c \in Calls, FirstSuccess(c) PROVE TypeOK'
    BY <1>2 DEF FirstSuccess, Succeed, Return, Go
<1>3. ASSUME NEW c \in Calls, FirstError(c) PROVE TypeOK'
    BY <1>3 DEF FirstError, Go
<1>4. ASSUME NEW c \in Calls, SpaceInfoError(c) PROVE TypeOK'
    BY <1>4 DEF SpaceInfoError, Return, Go
<1>5. ASSUME NEW c \in Calls, Retry(c) PROVE TypeOK'
    BY <1>5 DEF Retry, Succeed, Return, Go
<1>6. ASSUME NEW c \in Calls, UseFile(c) PROVE TypeOK'
    BY <1>6 DEF UseFile, Return, Go
<1>7. ASSUME NEW c \in Calls, Umount(c) PROVE TypeOK'
    BY <1>7 DEF Umount, Go
<1>8. ASSUME NEW c \in Calls, Logoff(c) PROVE TypeOK'
    BY <1>8 DEF Logoff, Go
<1>9. ASSUME NEW c \in Calls, CloseConn(c) PROVE TypeOK'
    BY <1>9 DEF CloseConn, Go
<1>10. ASSUME NEW c \in Calls, Dial(c) PROVE TypeOK'
    BY <1>10 DEF Dial, Go
<1>11. ASSUME NEW c \in Calls, NoConnection(c) PROVE TypeOK'
    BY <1>11 DEF NoConnection, GiveUp, Disturb, Return, Go
<1>12. ASSUME NEW c \in Calls, Mount(c) PROVE TypeOK'
    BY <1>12 DEF Mount, Go
<1>13. ASSUME NEW c \in Calls, NoShare(c) PROVE TypeOK'
    BY <1>13 DEF NoShare, GiveUp, Disturb, Return, Go
<1>14. ASSUME NEW c \in Calls, SetConn(c) PROVE TypeOK'
    BY <1>14 DEF SetConn, Go
<1>15. ASSUME NEW c \in Calls, SetSession(c) PROVE TypeOK'
    BY <1>15 DEF SetSession, Go
<1>16. ASSUME NEW c \in Calls, SetFs(c) PROVE TypeOK'
    BY <1>16 DEF SetFs, Go
<1>17. ASSUME NEW n \in Sessions, NetworkDrops(n) PROVE TypeOK'
    BY <1>17 DEF NetworkDrops, Disturb
<1>18. CASE UNCHANGED vars
    BY <1>18 DEF vars
<1> QED
    BY <1>1, <1>2, <1>3, <1>4, <1>5, <1>6, <1>7, <1>8, <1>9,
       <1>10, <1>11, <1>12, <1>13, <1>14, <1>15, <1>16, <1>17, <1>18 DEF Next, Call

LEMMA NumbersOKKept ==
  ASSUME TypeOK, NumbersOK, MineOK, [Next]_vars
  PROVE  NumbersOK'
<1> USE SessionsAssumption DEF net, fields, calls, history,
      NumbersOK, MineOK, Holding, TypeOK, Sessions
<1>1. \A d \in Calls : mine[d] # 0 => mine[d] \in 1..dialled
    OBVIOUS
<1>2. ASSUME NEW c \in Calls, NEW o \in Ops, Start(c, o) PROVE NumbersOK'
    BY <1>2 DEF Start, Go
<1>3. ASSUME NEW c \in Calls, FirstSuccess(c) PROVE NumbersOK'
    BY <1>3 DEF FirstSuccess, Succeed, Return, Go
<1>4. ASSUME NEW c \in Calls, FirstError(c) PROVE NumbersOK'
  <2>1. raced' \subseteq 1..dialled
      BY <1>4, <1>1 DEF FirstError
  <2> QED
      BY <1>4, <2>1 DEF FirstError
<1>5. ASSUME NEW c \in Calls, SpaceInfoError(c) PROVE NumbersOK'
    BY <1>5 DEF SpaceInfoError, Return, Go
<1>6. ASSUME NEW c \in Calls, Retry(c) PROVE NumbersOK'
    BY <1>6 DEF Retry, Succeed, Return, Go
<1>7. ASSUME NEW c \in Calls, UseFile(c) PROVE NumbersOK'
    BY <1>7 DEF UseFile, Return, Go
<1>8. ASSUME NEW c \in Calls, Umount(c) PROVE NumbersOK'
    BY <1>8 DEF Umount, Go
<1>9. ASSUME NEW c \in Calls, Logoff(c) PROVE NumbersOK'
    BY <1>9 DEF Logoff, Go
<1>10. ASSUME NEW c \in Calls, CloseConn(c) PROVE NumbersOK'
    BY <1>10 DEF CloseConn, Go
<1>11. ASSUME NEW c \in Calls, Dial(c) PROVE NumbersOK'
    BY <1>11 DEF Dial, Go
<1>12. ASSUME NEW c \in Calls, NoConnection(c) PROVE NumbersOK'
    BY <1>12 DEF NoConnection, GiveUp, Disturb, Return, Go
<1>13. ASSUME NEW c \in Calls, Mount(c) PROVE NumbersOK'
  <2>1. working' \subseteq 1..dialled
      BY <1>13, <1>1 DEF Mount
  <2> QED
      BY <1>13, <2>1 DEF Mount
<1>14. ASSUME NEW c \in Calls, NoShare(c) PROVE NumbersOK'
  <2>1. open' \subseteq 1..dialled
      BY <1>14 DEF NoShare
  <2>2. \A d \in Calls : mine'[d] = mine[d] \/ mine'[d] = 0
      BY <1>14 DEF NoShare, GiveUp, Return
  <2>3. UNCHANGED <<dialled, working, conn, session, fs, raced>>
      BY <1>14 DEF NoShare
  <2> QED
      BY <2>1, <2>2, <2>3
<1>15. ASSUME NEW c \in Calls, SetConn(c) PROVE NumbersOK'
    BY <1>15 DEF SetConn, Go
<1>16. ASSUME NEW c \in Calls, SetSession(c) PROVE NumbersOK'
    BY <1>16 DEF SetSession, Go
<1>17. ASSUME NEW c \in Calls, SetFs(c) PROVE NumbersOK'
    BY <1>17 DEF SetFs, Go
<1>18. ASSUME NEW n \in Sessions, NetworkDrops(n) PROVE NumbersOK'
    BY <1>18 DEF NetworkDrops, Disturb
<1>19. CASE UNCHANGED vars
    BY <1>19 DEF vars
<1> QED
    BY <1>2, <1>3, <1>4, <1>5, <1>6, <1>7, <1>8, <1>9, <1>10,
       <1>11, <1>12, <1>13, <1>14, <1>15, <1>16, <1>17, <1>18, <1>19 DEF Next, Call

LEMMA MineOKKept ==
  ASSUME TypeOK, MineOK, [Next]_vars
  PROVE  MineOK'
<1> USE SessionsAssumption DEF net, fields, calls, history,
      MineOK, Holding, TypeOK, Sessions
<1>1. ASSUME NEW c \in Calls, NEW o \in Ops, Start(c, o) PROVE MineOK'
    BY <1>1 DEF Start, Go
<1>2. ASSUME NEW c \in Calls, FirstSuccess(c) PROVE MineOK'
    BY <1>2 DEF FirstSuccess, Succeed, Return, Go
<1>3. ASSUME NEW c \in Calls, FirstError(c) PROVE MineOK'
    BY <1>3 DEF FirstError, Go
<1>4. ASSUME NEW c \in Calls, SpaceInfoError(c) PROVE MineOK'
    BY <1>4 DEF SpaceInfoError, Return, Go
<1>5. ASSUME NEW c \in Calls, Retry(c) PROVE MineOK'
    BY <1>5 DEF Retry, Succeed, Return, Go
<1>6. ASSUME NEW c \in Calls, UseFile(c) PROVE MineOK'
    BY <1>6 DEF UseFile, Return, Go
<1>7. ASSUME NEW c \in Calls, Umount(c) PROVE MineOK'
    BY <1>7 DEF Umount, Go
<1>8. ASSUME NEW c \in Calls, Logoff(c) PROVE MineOK'
    BY <1>8 DEF Logoff, Go
<1>9. ASSUME NEW c \in Calls, CloseConn(c) PROVE MineOK'
    BY <1>9 DEF CloseConn, Go
<1>10. ASSUME NEW c \in Calls, Dial(c) PROVE MineOK'
    BY <1>10 DEF Dial, Go
<1>11. ASSUME NEW c \in Calls, NoConnection(c) PROVE MineOK'
    BY <1>11 DEF NoConnection, GiveUp, Disturb, Return, Go
<1>12. ASSUME NEW c \in Calls, Mount(c) PROVE MineOK'
    BY <1>12 DEF Mount, Go
<1>13. ASSUME NEW c \in Calls, NoShare(c) PROVE MineOK'
    BY <1>13 DEF NoShare, GiveUp, Disturb, Return, Go
<1>14. ASSUME NEW c \in Calls, SetConn(c) PROVE MineOK'
    BY <1>14 DEF SetConn, Go
<1>15. ASSUME NEW c \in Calls, SetSession(c) PROVE MineOK'
    BY <1>15 DEF SetSession, Go
<1>16. ASSUME NEW c \in Calls, SetFs(c) PROVE MineOK'
    BY <1>16 DEF SetFs, Go
<1>17. ASSUME NEW n \in Sessions, NetworkDrops(n) PROVE MineOK'
    BY <1>17 DEF NetworkDrops, Disturb
<1>18. CASE UNCHANGED vars
    BY <1>18 DEF vars
<1> QED
    BY <1>1, <1>2, <1>3, <1>4, <1>5, <1>6, <1>7, <1>8, <1>9,
       <1>10, <1>11, <1>12, <1>13, <1>14, <1>15, <1>16, <1>17, <1>18 DEF Next, Call

\* A connection in hand beside another reconnect has been noted as raced, by the
\* dial that came second or by the failure that did.
LEMMA RacedOKKept ==
  ASSUME TypeOK, RacedOK, MineOK, [Next]_vars
  PROVE  RacedOK'
<1> USE SessionsAssumption DEF net, fields, calls, history,
      RacedOK, MineOK, Reconnecting, Reconnect, Holding, TypeOK
<1>1. ASSUME NEW c \in Calls, NEW o \in Ops, Start(c, o) PROVE RacedOK'
    BY <1>1 DEF Start, Go
<1>2. ASSUME NEW c \in Calls, FirstSuccess(c) PROVE RacedOK'
    BY <1>2 DEF FirstSuccess, Succeed, Return, Go
<1>3. ASSUME NEW c \in Calls, FirstError(c) PROVE RacedOK'
    BY <1>3 DEF FirstError, Go
<1>4. ASSUME NEW c \in Calls, SpaceInfoError(c) PROVE RacedOK'
    BY <1>4 DEF SpaceInfoError, Return, Go
<1>5. ASSUME NEW c \in Calls, Retry(c) PROVE RacedOK'
    BY <1>5 DEF Retry, Succeed, Return, Go
<1>6. ASSUME NEW c \in Calls, UseFile(c) PROVE RacedOK'
    BY <1>6 DEF UseFile, Return, Go
<1>7. ASSUME NEW c \in Calls, Umount(c) PROVE RacedOK'
    BY <1>7 DEF Umount, Go
<1>8. ASSUME NEW c \in Calls, Logoff(c) PROVE RacedOK'
    BY <1>8 DEF Logoff, Go
<1>9. ASSUME NEW c \in Calls, CloseConn(c) PROVE RacedOK'
    BY <1>9 DEF CloseConn, Go
<1>10. ASSUME NEW c \in Calls, Dial(c) PROVE RacedOK'
    BY <1>10 DEF Dial, Go
<1>11. ASSUME NEW c \in Calls, NoConnection(c) PROVE RacedOK'
    BY <1>11 DEF NoConnection, GiveUp, Disturb, Return, Go
<1>12. ASSUME NEW c \in Calls, Mount(c) PROVE RacedOK'
    BY <1>12 DEF Mount, Go
<1>13. ASSUME NEW c \in Calls, NoShare(c) PROVE RacedOK'
    BY <1>13 DEF NoShare, GiveUp, Disturb, Return, Go
<1>14. ASSUME NEW c \in Calls, SetConn(c) PROVE RacedOK'
    BY <1>14 DEF SetConn, Go
<1>15. ASSUME NEW c \in Calls, SetSession(c) PROVE RacedOK'
    BY <1>15 DEF SetSession, Go
<1>16. ASSUME NEW c \in Calls, SetFs(c) PROVE RacedOK'
    BY <1>16 DEF SetFs, Go
<1>17. ASSUME NEW n \in Sessions, NetworkDrops(n) PROVE RacedOK'
    BY <1>17 DEF NetworkDrops, Disturb
<1>18. CASE UNCHANGED vars
    BY <1>18 DEF vars
<1> QED
    BY <1>1, <1>2, <1>3, <1>4, <1>5, <1>6, <1>7, <1>8, <1>9,
       <1>10, <1>11, <1>12, <1>13, <1>14, <1>15, <1>16, <1>17, <1>18 DEF Next, Call

LEMMA ClosedOKKept ==
  ASSUME TypeOK, ClosedOK, NumbersOK, MineOK, RacedOK, [Next]_vars
  PROVE  ClosedOK'
<1> USE SessionsAssumption DEF net, fields, calls, history,
      ClosedOK, NumbersOK, MineOK, RacedOK, Holding, Reconnecting, Reconnect, TypeOK, Sessions
<1>1. ASSUME NEW c \in Calls, NEW o \in Ops, Start(c, o) PROVE ClosedOK'
    BY <1>1 DEF Start, Go
<1>2. ASSUME NEW c \in Calls, FirstSuccess(c) PROVE ClosedOK'
    BY <1>2 DEF FirstSuccess, Succeed, Return, Go
<1>3. ASSUME NEW c \in Calls, FirstError(c) PROVE ClosedOK'
    BY <1>3 DEF FirstError, Go
<1>4. ASSUME NEW c \in Calls, SpaceInfoError(c) PROVE ClosedOK'
    BY <1>4 DEF SpaceInfoError, Return, Go
<1>5. ASSUME NEW c \in Calls, Retry(c) PROVE ClosedOK'
    BY <1>5 DEF Retry, Succeed, Return, Go
<1>6. ASSUME NEW c \in Calls, UseFile(c) PROVE ClosedOK'
    BY <1>6 DEF UseFile, Return, Go
<1>7. ASSUME NEW c \in Calls, Umount(c) PROVE ClosedOK'
    BY <1>7 DEF Umount, Go
<1>8. ASSUME NEW c \in Calls, Logoff(c) PROVE ClosedOK'
    BY <1>8 DEF Logoff, Go
<1>9. ASSUME NEW c \in Calls, CloseConn(c) PROVE ClosedOK'
    BY <1>9 DEF CloseConn, Go
<1>10. ASSUME NEW c \in Calls, Dial(c) PROVE ClosedOK'
    BY <1>10 DEF Dial, Go
<1>11. ASSUME NEW c \in Calls, NoConnection(c) PROVE ClosedOK'
    BY <1>11 DEF NoConnection, GiveUp, Disturb, Return, Go
<1>12. ASSUME NEW c \in Calls, Mount(c) PROVE ClosedOK'
    BY <1>12 DEF Mount, Go
<1>13. ASSUME NEW c \in Calls, NoShare(c) PROVE ClosedOK'
    BY <1>13 DEF NoShare, GiveUp, Disturb, Return, Go
<1>14. ASSUME NEW c \in Calls, SetConn(c) PROVE ClosedOK'
    BY <1>14 DEF SetConn, Go
<1>15. ASSUME NEW c \in Calls, SetSession(c) PROVE ClosedOK'
    BY <1>15 DEF SetSession, Go
<1>16. ASSUME NEW c \in Calls, SetFs(c) PROVE ClosedOK'
    BY <1>16 DEF SetFs, Go
<1>17. ASSUME NEW n \in Sessions, NetworkDrops(n) PROVE ClosedOK'
    BY <1>17 DEF NetworkDrops, Disturb
<1>18. CASE UNCHANGED vars
    BY <1>18 DEF vars
<1> QED
    BY <1>1, <1>2, <1>3, <1>4, <1>5, <1>6, <1>7, <1>8, <1>9,
       <1>10, <1>11, <1>12, <1>13, <1>14, <1>15, <1>16, <1>17, <1>18 DEF Next, Call

\* A second reconnect may overwrite a field, with a connection that has raced.
LEMMA StoredOKKept ==
  ASSUME TypeOK, StoredOK, NumbersOK, MineOK, RacedOK, [Next]_vars
  PROVE  StoredOK'
<1> USE SessionsAssumption DEF net, fields, calls, history,
      StoredOK, NumbersOK, MineOK, RacedOK, Holding, Reconnecting, Reconnect, TypeOK, Sessions
<1>1. ASSUME NEW c \in Calls, NEW o \in Ops, Start(c, o) PROVE StoredOK'
    BY <1>1 DEF Start, Go
<1>2. ASSUME NEW c \in Calls, FirstSuccess(c) PROVE StoredOK'
    BY <1>2 DEF FirstSuccess, Succeed, Return, Go
<1>3. ASSUME NEW c \in Calls, FirstError(c) PROVE StoredOK'
    BY <1>3 DEF FirstError, Go
<1>4. ASSUME NEW c \in Calls, SpaceInfoError(c) PROVE StoredOK'
    BY <1>4 DEF SpaceInfoError, Return, Go
<1>5. ASSUME NEW c \in Calls, Retry(c) PROVE StoredOK'
    BY <1>5 DEF Retry, Succeed, Return, Go
<1>6. ASSUME NEW c \in Calls, UseFile(c) PROVE StoredOK'
    BY <1>6 DEF UseFile, Return, Go
<1>7. ASSUME NEW c \in Calls, Umount(c) PROVE StoredOK'
    BY <1>7 DEF Umount, Go
<1>8. ASSUME NEW c \in Calls, Logoff(c) PROVE StoredOK'
    BY <1>8 DEF Logoff, Go
<1>9. ASSUME NEW c \in Calls, CloseConn(c) PROVE StoredOK'
    BY <1>9 DEF CloseConn, Go
<1>10. ASSUME NEW c \in Calls, Dial(c) PROVE StoredOK'
    BY <1>10 DEF Dial, Go
<1>11. ASSUME NEW c \in Calls, NoConnection(c) PROVE StoredOK'
    BY <1>11 DEF NoConnection, GiveUp, Disturb, Return, Go
<1>12. ASSUME NEW c \in Calls, Mount(c) PROVE StoredOK'
    BY <1>12 DEF Mount, Go
<1>13. ASSUME NEW c \in Calls, NoShare(c) PROVE StoredOK'
    BY <1>13 DEF NoShare, GiveUp, Disturb, Return, Go
<1>14. ASSUME NEW c \in Calls, SetConn(c) PROVE StoredOK'
    BY <1>14 DEF SetConn, Go
<1>15. ASSUME NEW c \in Calls, SetSession(c) PROVE StoredOK'
    BY <1>15 DEF SetSession, Go
<1>16. ASSUME NEW c \in Calls, SetFs(c) PROVE StoredOK'
    BY <1>16 DEF SetFs, Go
<1>17. ASSUME NEW n \in Sessions, NetworkDrops(n) PROVE StoredOK'
    BY <1>17 DEF NetworkDrops, Disturb
<1>18. CASE UNCHANGED vars
    BY <1>18 DEF vars
<1> QED
    BY <1>1, <1>2, <1>3, <1>4, <1>5, <1>6, <1>7, <1>8, <1>9,
       <1>10, <1>11, <1>12, <1>13, <1>14, <1>15, <1>16, <1>17, <1>18 DEF Next, Call

LEMMA TogetherOKKept ==
  ASSUME TypeOK, TogetherOK, MineOK, RacedOK, StoredOK, [Next]_vars
  PROVE  TogetherOK'
<1> USE SessionsAssumption DEF net, fields, calls, history,
      TogetherOK, MineOK, RacedOK, StoredOK, Holding, Reconnecting, Reconnect, TypeOK, Sessions
<1>1. ASSUME NEW c \in Calls, NEW o \in Ops, Start(c, o) PROVE TogetherOK'
    BY <1>1 DEF Start, Go
<1>2. ASSUME NEW c \in Calls, FirstSuccess(c) PROVE TogetherOK'
    BY <1>2 DEF FirstSuccess, Succeed, Return, Go
<1>3. ASSUME NEW c \in Calls, FirstError(c) PROVE TogetherOK'
    BY <1>3 DEF FirstError, Go
<1>4. ASSUME NEW c \in Calls, SpaceInfoError(c) PROVE TogetherOK'
    BY <1>4 DEF SpaceInfoError, Return, Go
<1>5. ASSUME NEW c \in Calls, Retry(c) PROVE TogetherOK'
    BY <1>5 DEF Retry, Succeed, Return, Go
<1>6. ASSUME NEW c \in Calls, UseFile(c) PROVE TogetherOK'
    BY <1>6 DEF UseFile, Return, Go
<1>7. ASSUME NEW c \in Calls, Umount(c) PROVE TogetherOK'
    BY <1>7 DEF Umount, Go
<1>8. ASSUME NEW c \in Calls, Logoff(c) PROVE TogetherOK'
    BY <1>8 DEF Logoff, Go
<1>9. ASSUME NEW c \in Calls, CloseConn(c) PROVE TogetherOK'
    BY <1>9 DEF CloseConn, Go
<1>10. ASSUME NEW c \in Calls, Dial(c) PROVE TogetherOK'
    BY <1>10 DEF Dial, Go
<1>11. ASSUME NEW c \in Calls, NoConnection(c) PROVE TogetherOK'
    BY <1>11 DEF NoConnection, GiveUp, Disturb, Return, Go
<1>12. ASSUME NEW c \in Calls, Mount(c) PROVE TogetherOK'
    BY <1>12 DEF Mount, Go
<1>13. ASSUME NEW c \in Calls, NoShare(c) PROVE TogetherOK'
    BY <1>13 DEF NoShare, GiveUp, Disturb, Return, Go
<1>14. ASSUME NEW c \in Calls, SetConn(c) PROVE TogetherOK'
    BY <1>14 DEF SetConn, Go
<1>15. ASSUME NEW c \in Calls, SetSession(c) PROVE TogetherOK'
    BY <1>15 DEF SetSession, Go
<1>16. ASSUME NEW c \in Calls, SetFs(c) PROVE TogetherOK'
    BY <1>16 DEF SetFs, Go
<1>17. ASSUME NEW n \in Sessions, NetworkDrops(n) PROVE TogetherOK'
    BY <1>17 DEF NetworkDrops, Disturb
<1>18. CASE UNCHANGED vars
    BY <1>18 DEF vars
<1> QED
    BY <1>1, <1>2, <1>3, <1>4, <1>5, <1>6, <1>7, <1>8, <1>9,
       <1>10, <1>11, <1>12, <1>13, <1>14, <1>15, <1>16, <1>17, <1>18 DEF Next, Call

\* SetConn drops a connection that is closed, or has raced; SetFs lets go of one
\* that is in the store, or has raced.
LEMMA LeakOKKept ==
  ASSUME TypeOK, LeakOK, NumbersOK, MineOK, ClosedOK, StoredOK, [Next]_vars
  PROVE  LeakOK'
<1> USE SessionsAssumption DEF net, fields, calls, history,
      LeakOK, NumbersOK, MineOK, ClosedOK, StoredOK, Holding, Reconnecting, Reconnect, TypeOK, Sessions
<1>1. ASSUME NEW c \in Calls, NEW o \in Ops, Start(c, o) PROVE LeakOK'
    BY <1>1 DEF Start, Go
<1>2. ASSUME NEW c \in Calls, FirstSuccess(c) PROVE LeakOK'
    BY <1>2 DEF FirstSuccess, Succeed, Return, Go
<1>3. ASSUME NEW c \in Calls, FirstError(c) PROVE LeakOK'
    BY <1>3 DEF FirstError, Go
<1>4. ASSUME NEW c \in Calls, SpaceInfoError(c) PROVE LeakOK'
    BY <1>4 DEF SpaceInfoError, Return, Go
<1>5. ASSUME NEW c \in Calls, Retry(c) PROVE LeakOK'
    BY <1>5 DEF Retry, Succeed, Return, Go
<1>6. ASSUME NEW c \in Calls, UseFile(c) PROVE LeakOK'
    BY <1>6 DEF UseFile, Return, Go
<1>7. ASSUME NEW c \in Calls, Umount(c) PROVE LeakOK'
    BY <1>7 DEF Umount, Go
<1>8. ASSUME NEW c \in Calls, Logoff(c) PROVE LeakOK'
    BY <1>8 DEF Logoff, Go
<1>9. ASSUME NEW c \in Calls, CloseConn(c) PROVE LeakOK'
    BY <1>9 DEF CloseConn, Go
<1>10. ASSUME NEW c \in Calls, Dial(c) PROVE LeakOK'
    BY <1>10 DEF Dial, Go
<1>11. ASSUME NEW c \in Calls, NoConnection(c) PROVE LeakOK'
    BY <1>11 DEF NoConnection, GiveUp, Disturb, Return, Go
<1>12. ASSUME NEW c \in Calls, Mount(c) PROVE LeakOK'
    BY <1>12 DEF Mount, Go
<1>13. ASSUME NEW c \in Calls, NoShare(c) PROVE LeakOK'
    BY <1>13 DEF NoShare, GiveUp, Disturb, Return, Go
<1>14. ASSUME NEW c \in Calls, SetConn(c) PROVE LeakOK'
    BY <1>14 DEF SetConn, Go
<1>15. ASSUME NEW c \in Calls, SetSession(c) PROVE LeakOK'
    BY <1>15 DEF SetSession, Go
<1>16. ASSUME NEW c \in Calls, SetFs(c) PROVE LeakOK'
    BY <1>16 DEF SetFs, Go
<1>17. ASSUME NEW n \in Sessions, NetworkDrops(n) PROVE LeakOK'
    BY <1>17 DEF NetworkDrops, Disturb
<1>18. CASE UNCHANGED vars
    BY <1>18 DEF vars
<1> QED
    BY <1>1, <1>2, <1>3, <1>4, <1>5, <1>6, <1>7, <1>8, <1>9,
       <1>10, <1>11, <1>12, <1>13, <1>14, <1>15, <1>16, <1>17, <1>18 DEF Next, Call

\* A call alone moves from what it has mounted to what it has stored.
LEMMA AloneOKKept ==
  ASSUME TypeOK, AloneOK, MineOK, [Next]_vars
  PROVE  AloneOK'
<1> USE SessionsAssumption DEF net, fields, calls, history,
      AloneOK, MineOK, Holding, Reconnecting, Reconnect, TypeOK, Sessions
<1>1. ASSUME NEW c \in Calls, NEW o \in Ops, Start(c, o) PROVE AloneOK'
  <2>1. ASSUME NEW d \in Calls, undisturbed'[d]
        PROVE  IF d = c THEN \A e \in Calls \ {c} : pc[e] = "idle"
               ELSE undisturbed[d] /\ pc[d] = "idle"
      BY <1>1, <2>1, Zenon DEF Start
  <2>2. ASSUME NEW d \in Calls, undisturbed'[d], d # c
        PROVE  pc'[d] = "idle" /\ op'[d] = op[d] /\ result'[d] = result[d]
      BY <1>1, <2>1, <2>2 DEF Start, Go
  <2>3. pc'[c] = "try" /\ \A e \in Calls : e # c => pc'[e] = pc[e]
      BY <1>1 DEF Start, Go
  <2>4. ASSUME NEW d \in Calls, undisturbed'[d]
        PROVE  pc'[d] # "idle" => \A e \in Calls : e # d => pc'[e] = "idle"
      BY <2>1, <2>2, <2>3, <2>4
  <2> QED
      BY <2>1, <2>2, <2>3, <2>4
<1>2. ASSUME NEW c \in Calls, FirstSuccess(c) PROVE AloneOK'
    BY <1>2 DEF FirstSuccess, Succeed, Return, Go
<1>3. ASSUME NEW c \in Calls, FirstError(c) PROVE AloneOK'
    BY <1>3 DEF FirstError, Go
<1>4. ASSUME NEW c \in Calls, SpaceInfoError(c) PROVE AloneOK'
    BY <1>4 DEF SpaceInfoError, Return, Go
<1>5. ASSUME NEW c \in Calls, Retry(c) PROVE AloneOK'
    BY <1>5 DEF Retry, Succeed, Return, Go
<1>6. ASSUME NEW c \in Calls, UseFile(c) PROVE AloneOK'
    BY <1>6 DEF UseFile, Return, Go
<1>7. ASSUME NEW c \in Calls, Umount(c) PROVE AloneOK'
    BY <1>7 DEF Umount, Go
<1>8. ASSUME NEW c \in Calls, Logoff(c) PROVE AloneOK'
    BY <1>8 DEF Logoff, Go
<1>9. ASSUME NEW c \in Calls, CloseConn(c) PROVE AloneOK'
    BY <1>9 DEF CloseConn, Go
<1>10. ASSUME NEW c \in Calls, Dial(c) PROVE AloneOK'
    BY <1>10 DEF Dial, Go
<1>11. ASSUME NEW c \in Calls, NoConnection(c) PROVE AloneOK'
    BY <1>11 DEF NoConnection, GiveUp, Disturb, Return, Go
<1>12. ASSUME NEW c \in Calls, Mount(c) PROVE AloneOK'
    BY <1>12 DEF Mount, Go
<1>13. ASSUME NEW c \in Calls, NoShare(c) PROVE AloneOK'
    BY <1>13 DEF NoShare, GiveUp, Disturb, Return, Go
<1>14. ASSUME NEW c \in Calls, SetConn(c) PROVE AloneOK'
    BY <1>14 DEF SetConn, Go
<1>15. ASSUME NEW c \in Calls, SetSession(c) PROVE AloneOK'
    BY <1>15 DEF SetSession, Go
<1>16. ASSUME NEW c \in Calls, SetFs(c) PROVE AloneOK'
    BY <1>16 DEF SetFs, Go
<1>17. ASSUME NEW n \in Sessions, NetworkDrops(n) PROVE AloneOK'
    BY <1>17 DEF NetworkDrops, Disturb
<1>18. CASE UNCHANGED vars
    BY <1>18 DEF vars
<1> QED
    BY <1>1, <1>2, <1>3, <1>4, <1>5, <1>6, <1>7, <1>8, <1>9,
       <1>10, <1>11, <1>12, <1>13, <1>14, <1>15, <1>16, <1>17, <1>18 DEF Next, Call

LEMMA InitIInv == Init => IInv
BY SessionsAssumption DEF Init, IInv, TypeOK, NumbersOK, MineOK, RacedOK, ClosedOK, StoredOK,
     TogetherOK, LeakOK, AloneOK, Holding, Reconnecting, Reconnect, Sessions, Steps, Results, Ops

LEMMA IInvAlways == Spec => []IInv
<1>1. IInv /\ [Next]_vars => IInv'
    BY TypeOKKept, NumbersOKKept, MineOKKept, RacedOKKept, ClosedOKKept, StoredOKKept,
       TogetherOKKept, LeakOKKept, AloneOKKept DEF IInv
<1> QED
    BY <1>1, InitIInv, PTL DEF Spec
-----------------------------------------------------------------------------
\* The fields of the store always hold connections that were dialled, whatever
\* reconnects overlap.
THEOREM TypeCorrect == Spec => []TypeOK
BY IInvAlways, PTL DEF IInv

\* A call that runs alone over a network that holds gets through to the share.
THEOREM AloneSucceeds == Spec => []AloneGetsThrough
<1>1. IInv => AloneGetsThrough
    BY DEF IInv, AloneOK, AloneGetsThrough
<1> QED
    BY <1>1, IInvAlways, PTL

\* Without overlapping reconnects no connection is left open and forgotten.
THEOREM NoLeakUnlessRaced == Spec => []LeakOnlyFromRace
<1>1. IInv => LeakOnlyFromRace
  <2>1. ASSUME NEW c \in Calls, Holding(c) PROVE Reconnecting(c)
      BY <2>1 DEF Holding, Reconnecting, Reconnect
  <2> QED
      BY <2>1 DEF IInv, LeakOK, LeakOnlyFromRace
<1> QED
    BY <1>1, IInvAlways, PTL

\* Without overlapping reconnects the three fields belong together.
THEOREM FieldsAgree == Spec => []FieldsTogether
<1>1. IInv => FieldsTogether
    BY DEF IInv, TogetherOK, FieldsTogether, Reconnecting, Reconnect
<1> QED
    BY <1>1, IInvAlways, PTL
=============================================================================
