-------------------------- MODULE LiveHistoryProofs --------------------------
(***************************************************************************)
(* What holds of a tab for all sets of items and all bounds on its loads,  *)
(* requests and events.  A tab at rest is right because the last load that *)
(* was sent is: what it has got of a list is still the server's, or an     *)
(* event is on its way, or the load is known to be behind.  Entries stand  *)
(* twice only after a late answer because the server hands out an id once. *)
(***************************************************************************)
EXTENDS LiveHistory, SequenceTheorems, FiniteSetTheorems, TLAPS

Lists == Seq(Items)
Load == [permitted : BOOLEAN, awaited : SUBSET Kinds,
         got : [Kinds -> Lists], behind : BOOLEAN]

\* TypeOK, with the lists as functions.
TypesOK == TypeOK /\ served \in [Kinds -> Lists] /\ shown \in [Kinds -> Lists]

\* No id stands twice in a list of the server or in what a load has got of it.
ServedOK == \A k \in Kinds : IsInjective(served[k])
GotOK == \A n \in DOMAIN loads : \A k \in Kinds : IsInjective(loads[n].got[k])

\* Whatever is in a list was drawn.
DrawnOK ==
  /\ \A k \in Kinds : ToSet(served[k]) \subseteq drawn /\ ToSet(shown[k]) \subseteq drawn
  /\ \A n \in DOMAIN loads : \A k \in Kinds : ToSet(loads[n].got[k]) \subseteq drawn
  /\ \A i \in Items : own[i] \in {"created", "passed"} => i \in drawn

\* Item i stands at most once, or at most twice, in the list s.
Once(s, i) == \A a, b \in DOMAIN s : s[a] = i /\ s[b] = i => a = b
Twice(s, i) ==
  \A a, b, c \in DOMAIN s : s[a] = i /\ s[b] = i /\ s[c] = i => a = b \/ b = c \/ a = c

\* An item whose create is not answered yet stands in its list at most once, and
\* not at all before a load has arrived.
CopiesOK ==
  \A i \in Items :
    /\ Twice(shown[Kind(i)], i)
    /\ ~late \/ own[i] = "passed" => Once(shown[Kind(i)], i)
    /\ own[i] = "created" => ~IsShown(i)

\* A closed stream holds nothing.
QuietOK == stream = "closed" => events = 0

\* What the last load has got is what the server has, or an event will bring a
\* new load, or the load is known to be behind.
FreshOK ==
  loads # <<>> /\ events = 0 /\ ~loads[Len(loads)].behind =>
    \A k \in Kinds \ loads[Len(loads)].awaited : loads[Len(loads)].got[k] = served[k]

\* While an own create waits for its answer and no load has arrived since, one
\* is on its way, or the lists are known to be behind.
CreatedOK ==
  \A i \in Items : own[i] = "created" => loads # <<>> \/ events > 0 \/ behind

\* With nothing on its way the lists are the server's, up to what is known.
MirrorOK ==
  loads = <<>> /\ events = 0 /\ ~behind =>
    /\ ~late => shown = served
    /\ \A i \in Items : IsServed(i) => IsShown(i)

IInv ==
  /\ TypesOK /\ ServedOK /\ GotOK /\ DrawnOK /\ CopiesOK
  /\ QuietOK /\ FreshOK /\ CreatedOK /\ MirrorOK
-----------------------------------------------------------------------------
(***************************************************************************)
(* Lemmas about the lists, which are sequences.                            *)
(***************************************************************************)
LEMMA KindType == \A i \in Items : Kind(i) \in Kinds
BY DEF Kind, Kinds

\* A list without its n-th entry.
LEMMA RemoveAtProperties ==
  ASSUME NEW S, NEW s \in Seq(S), NEW n \in DOMAIN s
  PROVE  /\ RemoveAt(s, n) \in Seq(S)
         /\ Len(RemoveAt(s, n)) = Len(s) - 1
         /\ \A m \in 1..Len(s) - 1 : RemoveAt(s, n)[m] = IF m < n THEN s[m] ELSE s[m + 1]
<1>1. n \in 1..Len(s) /\ Len(s) \in Nat
    BY LenProperties
<1> DEFINE head == SubSeq(s, 1, n - 1)
           tail == SubSeq(s, n + 1, Len(s))
<1>2. /\ head \in Seq(S) /\ Len(head) = n - 1
      /\ \A m \in 1..n - 1 : head[m] = s[m]
  <2>1. \A m \in 1..n - 1 : s[m] \in S
      BY <1>1, ElementOfSeq
  <2> QED
      BY <1>1, <2>1, SubSeqProperties
<1>3. /\ tail \in Seq(S) /\ Len(tail) = Len(s) - n
      /\ \A m \in 1..Len(s) - n : tail[m] = s[m + n]
  <2>1. \A m \in n + 1..Len(s) : s[m] \in S
      BY <1>1, ElementOfSeq
  <2>2. Len(tail) = IF n + 1 <= Len(s) THEN Len(s) - (n + 1) + 1 ELSE 0
      BY <1>1, <2>1, SubSeqProperties
  <2>3. tail \in Seq(S) /\ \A m \in 1..Len(s) - (n + 1) + 1 : tail[m] = s[n + 1 + m - 1]
      BY <1>1, <2>1, SubSeqProperties
  <2> QED
      BY <1>1, <2>2, <2>3
<1>4. RemoveAt(s, n) = head \o tail
    BY DEF RemoveAt
<1> HIDE DEF head, tail
<1> QED
    BY <1>1, <1>2, <1>3, <1>4, ConcatProperties

LEMMA RemoveAtInjective ==
  ASSUME NEW s \in Lists, NEW n \in DOMAIN s, IsInjective(s)
  PROVE  /\ RemoveAt(s, n) \in Lists /\ IsInjective(RemoveAt(s, n))
         /\ ToSet(RemoveAt(s, n)) \subseteq ToSet(s)
<1> DEFINE t == RemoveAt(s, n)
<1>1. /\ DOMAIN s = 1..Len(s) /\ Len(s) \in Nat /\ n \in 1..Len(s)
      /\ t \in Lists /\ DOMAIN t = 1..Len(s) - 1
      /\ \A m \in 1..Len(s) - 1 : t[m] = IF m < n THEN s[m] ELSE s[m + 1]
    BY RemoveAtProperties, LenProperties DEF Lists
<1> HIDE DEF t
<1>2. IsInjective(t)
  <2> SUFFICES ASSUME NEW a \in 1..Len(s) - 1, NEW b \in 1..Len(s) - 1, t[a] = t[b]
               PROVE  a = b
      BY <1>1 DEF IsInjective
  <2>1. \A c, d \in 1..Len(s) : s[c] = s[d] => c = d
      BY <1>1 DEF IsInjective
  <2> QED
      BY <1>1, <2>1
<1>3. ToSet(t) \subseteq ToSet(s)
  <2> SUFFICES ASSUME NEW a \in DOMAIN t PROVE t[a] \in ToSet(s)
      BY DEF ToSet
  <2>1. PICK c \in 1..Len(s) : t[a] = s[c]
    <3>1. CASE a < n
        BY <3>1, <1>1
    <3>2. CASE ~(a < n)
      <4>1. a + 1 \in 1..Len(s) /\ t[a] = s[a + 1]
          BY <3>2, <1>1
      <4> QED
          BY <4>1
    <3> QED
        BY <3>1, <3>2
  <2> QED
      BY <1>1, <2>1 DEF ToSet
<1> QED
    BY <1>1, <1>2, <1>3 DEF t

\* A list with i at its head.
LEMMA PrependProperties ==
  ASSUME NEW s \in Lists, NEW i \in Items
  PROVE  /\ <<i>> \o s \in Lists
         /\ DOMAIN s = 1..Len(s) /\ Len(s) \in Nat
         /\ DOMAIN (<<i>> \o s) = 1..Len(s) + 1
         /\ (<<i>> \o s)[1] = i
         /\ \A m \in 1..Len(s) : (<<i>> \o s)[m + 1] = s[m]
         /\ \A m \in 2..Len(s) + 1 : (<<i>> \o s)[m] = s[m - 1]
         /\ ToSet(<<i>> \o s) = ToSet(s) \cup {i}
<1>1. <<i>> \in Seq(Items) /\ Len(<<i>>) = 1 /\ <<i>>[1] = i
    OBVIOUS
<1>2. /\ <<i>> \o s \in Lists /\ Len(<<i>> \o s) = Len(s) + 1
      /\ \A m \in 1..Len(s) + 1 : (<<i>> \o s)[m] = IF m <= 1 THEN <<i>>[m] ELSE s[m - 1]
      /\ Len(s) \in Nat
    BY <1>1, ConcatProperties, LenProperties DEF Lists
<1>3. DOMAIN (<<i>> \o s) = 1..Len(s) + 1 /\ DOMAIN s = 1..Len(s)
    BY <1>2, LenProperties DEF Lists
<1>4. /\ (<<i>> \o s)[1] = i
      /\ \A m \in 2..Len(s) + 1 : (<<i>> \o s)[m] = s[m - 1]
    BY <1>1, <1>2
<1>5. \A m \in 1..Len(s) : (<<i>> \o s)[m + 1] = s[m]
    BY <1>2, <1>4
<1>6. ToSet(<<i>> \o s) = ToSet(s) \cup {i}
  <2>1. ToSet(<<i>> \o s) \subseteq ToSet(s) \cup {i}
    <3> SUFFICES ASSUME NEW m \in 1..Len(s) + 1
                 PROVE  (<<i>> \o s)[m] \in ToSet(s) \cup {i}
        BY <1>3 DEF ToSet
    <3>1. CASE m = 1
        BY <3>1, <1>4
    <3>2. CASE m \in 2..Len(s) + 1
        BY <3>2, <1>2, <1>3, <1>4 DEF ToSet
    <3> QED
        BY <3>1, <3>2, <1>2
  <2>2. i \in ToSet(<<i>> \o s)
      BY <1>2, <1>3, <1>4 DEF ToSet
  <2>3. ToSet(s) \subseteq ToSet(<<i>> \o s)
    <3> SUFFICES ASSUME NEW m \in 1..Len(s)
                 PROVE  s[m] \in ToSet(<<i>> \o s)
        BY <1>3 DEF ToSet
    <3>1. m + 1 \in 1..Len(s) + 1 /\ (<<i>> \o s)[m + 1] = s[m]
        BY <1>2, <1>5
    <3> QED
        BY <3>1, <1>3 DEF ToSet
  <2> QED
      BY <2>1, <2>2, <2>3
<1> QED
    BY <1>2, <1>3, <1>4, <1>5, <1>6
-----------------------------------------------------------------------------
(***************************************************************************)
(* Lemmas about the loads in flight.                                       *)
(***************************************************************************)
LEMMA LoadsTyped ==
  ASSUME TypesOK
  PROVE  /\ loads \in Seq(Load) /\ Len(loads) \in Nat /\ DOMAIN loads = 1..Len(loads)
         /\ loads = <<>> <=> Len(loads) = 0
         /\ \A n \in 1..Len(loads) : loads[n] \in Load
<1>1. loads \in Seq(Load)
    BY DEF TypesOK, TypeOK, Load, Lists
<1> QED
    BY <1>1, LenProperties, ElementOfSeq, EmptySeq

\* The loads with something done to each.
LEMMA BehindProperties ==
  ASSUME NEW ls \in Seq(Load)
  PROVE  /\ Behind(ls) \in Seq(Load) /\ Len(Behind(ls)) = Len(ls)
         /\ \A n \in 1..Len(ls) : Behind(ls)[n] = [ls[n] EXCEPT !.behind = TRUE]
<1>1. DOMAIN ls = 1..Len(ls) /\ Len(ls) \in Nat /\ \A n \in 1..Len(ls) : ls[n] \in Load
    BY LenProperties, ElementOfSeq
<1>2. \A n \in 1..Len(ls) : [ls[n] EXCEPT !.behind = TRUE] \in Load
    BY <1>1 DEF Load
<1>3. Behind(ls) \in [1..Len(ls) -> Load]
    BY <1>1, <1>2 DEF Behind
<1>4. Behind(ls) \in Seq(Load)
    BY <1>1, <1>3, SeqDef
<1>5. Len(Behind(ls)) = Len(ls)
    BY <1>1, <1>3, <1>4, LenProperties
<1> QED
    BY <1>1, <1>4, <1>5 DEF Behind

\* The loads that are left when load n has ended.
LEMMA WithoutProperties ==
  ASSUME TypesOK, NEW n \in DOMAIN loads
  PROVE  /\ Without(n) \in Seq(Load) /\ Len(Without(n)) = Len(loads) - 1
         /\ \A m \in 1..Len(loads) - 1 :
              Without(n)[m] = IF m < n THEN [loads[m] EXCEPT !.behind = TRUE] ELSE loads[m + 1]
<1>1. loads \in Seq(Load) /\ Len(loads) \in Nat /\ n \in 1..Len(loads)
    BY LoadsTyped
<1> DEFINE before == SubSeq(loads, 1, n - 1)
           after == SubSeq(loads, n + 1, Len(loads))
<1>2. /\ before \in Seq(Load) /\ Len(before) = n - 1
      /\ \A m \in 1..n - 1 : before[m] = loads[m]
  <2>1. \A m \in 1..n - 1 : loads[m] \in Load
      BY <1>1, ElementOfSeq
  <2> QED
      BY <1>1, <2>1, SubSeqProperties
<1>3. /\ after \in Seq(Load) /\ Len(after) = Len(loads) - n
      /\ \A m \in 1..Len(loads) - n : after[m] = loads[m + n]
  <2>1. \A m \in n + 1..Len(loads) : loads[m] \in Load
      BY <1>1, ElementOfSeq
  <2>2. Len(after) = IF n + 1 <= Len(loads) THEN Len(loads) - (n + 1) + 1 ELSE 0
      BY <1>1, <2>1, SubSeqProperties
  <2>3. /\ after \in Seq(Load)
        /\ \A m \in 1..Len(loads) - (n + 1) + 1 : after[m] = loads[n + 1 + m - 1]
      BY <1>1, <2>1, SubSeqProperties
  <2> QED
      BY <1>1, <2>2, <2>3
<1> HIDE DEF before, after
<1>4. /\ Behind(before) \in Seq(Load) /\ Len(Behind(before)) = n - 1
      /\ \A m \in 1..n - 1 : Behind(before)[m] = [loads[m] EXCEPT !.behind = TRUE]
    BY <1>1, <1>2, BehindProperties
<1>5. Without(n) = Behind(before) \o after
    BY DEF Without, before, after
<1>6. /\ Without(n) \in Seq(Load)
      /\ Len(Without(n)) = Len(Behind(before)) + Len(after)
      /\ \A m \in 1..Len(Behind(before)) + Len(after) :
            Without(n)[m] = IF m <= Len(Behind(before)) THEN Behind(before)[m]
                            ELSE after[m - Len(Behind(before))]
    BY <1>3, <1>4, <1>5, ConcatProperties
<1>7. Len(Behind(before)) + Len(after) = Len(loads) - 1
    BY <1>1, <1>3, <1>4
<1>8. ASSUME NEW m \in 1..Len(loads) - 1
      PROVE  Without(n)[m] = IF m < n THEN [loads[m] EXCEPT !.behind = TRUE] ELSE loads[m + 1]
  <2>1. CASE m < n
    <3>1. m \in 1..n - 1 /\ m <= Len(Behind(before))
        BY <2>1, <1>1, <1>4
    <3>2. Without(n)[m] = Behind(before)[m]
        BY <3>1, <1>6, <1>7
    <3> QED
        BY <2>1, <3>1, <3>2, <1>4
  <2>2. CASE ~(m < n)
    <3>1. m - (n - 1) \in 1..Len(loads) - n /\ m - (n - 1) + n = m + 1
        BY <2>2, <1>1
    <3>2. Without(n)[m] = after[m - (n - 1)]
        BY <2>2, <1>1, <1>4, <1>6, <1>7
    <3> QED
        BY <2>2, <3>1, <3>2, <1>3
  <2> QED
      BY <2>1, <2>2
<1> QED
    BY <1>6, <1>7, <1>8

\* The loads with one more.
LEMMA AppendLoad ==
  ASSUME TypesOK, NEW p \in BOOLEAN
  PROVE  LET ls == Append(loads, NewLoad(p)) IN
         /\ ls \in Seq(Load) /\ Len(ls) = Len(loads) + 1
         /\ \A n \in 1..Len(loads) : ls[n] = loads[n]
         /\ ls[Len(loads) + 1] = NewLoad(p)
<1>1. NewLoad(p) \in Load
  <2>1. [k \in Kinds |-> <<>>] \in [Kinds -> Lists]
      BY EmptySeq DEF Lists
  <2>2. Kinds \in SUBSET Kinds
      OBVIOUS
  <2> QED
      BY <2>1, <2>2 DEF NewLoad, Load
<1>2. loads \in Seq(Load) /\ Len(loads) \in Nat
    BY LoadsTyped
<1> HIDE DEF NewLoad
<1> QED
    BY <1>1, <1>2, AppendProperties

\* The loads after a change of list k that no event tells of.
LEMMA UnheardProperties ==
  ASSUME TypesOK, NEW k \in Kinds, Unheard(k)
  PROVE  /\ loads' \in Seq(Load) /\ Len(loads') = Len(loads)
         /\ \A n \in 1..Len(loads) : loads'[n] =
              [loads[n] EXCEPT !.behind = loads[n].behind \/ k \notin loads[n].awaited]
<1>1. DOMAIN loads = 1..Len(loads) /\ Len(loads) \in Nat
      /\ \A n \in 1..Len(loads) : loads[n] \in Load
    BY LoadsTyped
<1>2. \A n \in 1..Len(loads) :
        [loads[n] EXCEPT !.behind = loads[n].behind \/ k \notin loads[n].awaited] \in Load
    BY <1>1 DEF Load
<1>3. /\ loads' \in [1..Len(loads) -> Load]
      /\ \A n \in 1..Len(loads) : loads'[n] =
           [loads[n] EXCEPT !.behind = loads[n].behind \/ k \notin loads[n].awaited]
    BY <1>1, <1>2 DEF Unheard
<1>4. loads' \in Seq(Load)
    BY <1>1, <1>3, SeqDef
<1> QED
    BY <1>1, <1>3, <1>4, LenProperties
-----------------------------------------------------------------------------
LEMMA InitIInv == Init => IInv
<1> SUFFICES ASSUME Init PROVE IInv
    OBVIOUS
<1> DEFINE empty == [k \in Kinds |-> <<>>]
<1>1. empty \in [Kinds -> Lists] /\ \A k \in Kinds : empty[k] = <<>>
    BY EmptySeq DEF Lists
<1>2. NewLoad(admitted) \in Load
  <2>1. Kinds \in SUBSET Kinds /\ admitted \in BOOLEAN
      BY DEF Init
  <2> QED
      BY <1>1, <2>1 DEF NewLoad, Load
<1>3. /\ loads \in Seq(Load) /\ Len(loads) = 1 /\ DOMAIN loads = 1..1
      /\ loads[1] = NewLoad(admitted)
    BY <1>2 DEF Init
<1>4. served = empty /\ shown = empty
    BY DEF Init
<1>5. loads[1].got = empty /\ loads[1].awaited = Kinds
    BY <1>3 DEF NewLoad
<1> HIDE DEF empty
<1>6. IsInjective(<<>>) /\ ToSet(<<>>) = {} /\ DOMAIN <<>> = {}
    BY DEF IsInjective, ToSet
<1>7. TypesOK
  <2>1. events \in 0..MaxEvents
      BY BoundsAssumption DEF Init
  <2>2. own \in [Items -> OwnStages]
      BY DEF Init, OwnStages
  <2>3. drawn \subseteq Items /\ admitted \in BOOLEAN /\ modal \in BOOLEAN
        /\ stream \in {"open", "closed"} /\ behind \in BOOLEAN /\ late \in BOOLEAN
      BY DEF Init
  <2> QED
      BY <1>1, <1>3, <1>4, <2>1, <2>2, <2>3 DEF TypesOK, TypeOK, Lists, Load
<1>8. ServedOK /\ GotOK
    BY <1>1, <1>3, <1>4, <1>5, <1>6 DEF ServedOK, GotOK
<1>9. DrawnOK
    BY <1>1, <1>3, <1>4, <1>5, <1>6 DEF DrawnOK, Init
<1>10. CopiesOK
  <2>1. \A i \in Items : shown[Kind(i)] = <<>>
      BY <1>1, <1>4, KindType
  <2> QED
      BY <2>1, <1>6 DEF CopiesOK, Once, Twice, IsShown, Init
<1>11. QuietOK /\ FreshOK /\ CreatedOK /\ MirrorOK
    BY <1>3, <1>5, <1>6 DEF QuietOK, FreshOK, CreatedOK, MirrorOK, Init
<1> QED
    BY <1>7, <1>8, <1>9, <1>10, <1>11 DEF IInv
-----------------------------------------------------------------------------
(***************************************************************************)
(* Steps of a kind keep the invariant; one lemma per kind.                 *)
(***************************************************************************)

\* No own create comes to wait for its answer or to have been passed by a load.
OwnKept ==
  /\ own' \in [Items -> OwnStages]
  /\ \A i \in Items : own'[i] \in {"created", "passed"} => own'[i] = own[i]

\* Steps of the tab's requests that touch no list.
LEMMA OwnStep ==
  ASSUME IInv, OwnKept, UNCHANGED <<server, session, stream, events, shown, loads, history>>
  PROVE  IInv'
<1> USE DEF server, session, history
<1>1. TypesOK'
    BY DEF IInv, TypesOK, TypeOK, OwnKept
<1>2. ServedOK' /\ GotOK'
    BY DEF IInv, ServedOK, GotOK
<1>3. DrawnOK'
    BY DEF IInv, DrawnOK, OwnKept
<1>4. CopiesOK'
    BY DEF IInv, CopiesOK, OwnKept, IsShown
<1>5. QuietOK' /\ FreshOK' /\ CreatedOK'
    BY DEF IInv, QuietOK, FreshOK, CreatedOK, OwnKept
<1>6. MirrorOK'
    BY DEF IInv, MirrorOK, IsServed, IsShown
<1> QED
    BY <1>1, <1>2, <1>3, <1>4, <1>5, <1>6 DEF IInv

\* A load is sent: HearEvent, SubmitToken and DeleteAnswered.
LEMMA NewLoadStep ==
  ASSUME IInv, OwnKept, NEW p \in BOOLEAN, loads' = Append(loads, NewLoad(p)),
         admitted' \in BOOLEAN, modal' \in BOOLEAN,
         events' \in 0..MaxEvents, events = 0 => events' = 0,
         UNCHANGED <<server, stream, shown, history>>
  PROVE  IInv'
<1> USE DEF server, history
<1>1. TypesOK
    BY DEF IInv
<1>2. /\ loads' \in Seq(Load) /\ Len(loads') = Len(loads) + 1
      /\ DOMAIN loads' = 1..Len(loads) + 1
      /\ \A n \in 1..Len(loads) : loads'[n] = loads[n]
      /\ loads'[Len(loads')] = NewLoad(p)
      /\ DOMAIN loads = 1..Len(loads) /\ Len(loads) \in Nat
    BY <1>1, AppendLoad, LoadsTyped, LenProperties
<1>3. /\ NewLoad(p).awaited = Kinds
      /\ \A k \in Kinds : NewLoad(p).got[k] = <<>>
      /\ IsInjective(<<>>) /\ ToSet(<<>>) = {}
    BY DEF NewLoad, IsInjective, ToSet
<1>4. \A n \in DOMAIN loads' : n \in DOMAIN loads \/ n = Len(loads')
    BY <1>2
<1>5. TypesOK'
    BY <1>1, <1>2 DEF TypesOK, TypeOK, OwnKept, Load, Lists
<1>6. ServedOK' /\ GotOK'
    BY <1>2, <1>3, <1>4 DEF IInv, ServedOK, GotOK
<1>7. DrawnOK'
    BY <1>2, <1>3, <1>4 DEF IInv, DrawnOK, OwnKept
<1>8. CopiesOK'
    BY DEF IInv, CopiesOK, OwnKept, IsShown
<1>9. loads' # <<>>
    BY <1>2, EmptySeq
<1>10. QuietOK' /\ FreshOK' /\ CreatedOK' /\ MirrorOK'
    BY <1>2, <1>3, <1>9 DEF IInv, QuietOK, FreshOK, CreatedOK, MirrorOK
<1> QED
    BY <1>5, <1>6, <1>7, <1>8, <1>10 DEF IInv

\* A list of the server changes, and the tab is told or not.
LEMMA ToldStep ==
  ASSUME IInv, NEW k \in Kinds, NEW announced \in BOOLEAN, Tell(k, announced),
         NEW s \in Lists, served' = [served EXCEPT ![k] = s],
         IsInjective(s), ToSet(s) \subseteq drawn',
         drawn \subseteq drawn', drawn' \subseteq Items,
         own' \in [Items -> OwnStages],
         \A i \in Items : own'[i] \in {"created", "passed"} =>
            own'[i] = own[i] \/ (own'[i] = "created" /\ i \notin drawn /\ i \in drawn'),
         UNCHANGED <<session, stream, shown>>
  PROVE  IInv'
<1> USE DEF session, history
<1>1. TypesOK /\ events \in 0..MaxEvents /\ behind \in BOOLEAN /\ late \in BOOLEAN
    BY DEF IInv, TypesOK, TypeOK
<1>2. \/ stream = "open" /\ events' \in 1..MaxEvents /\ UNCHANGED <<loads, behind, late>>
      \/ Unheard(k)
    BY DEF Tell, Announce, Broadcast, Buffered
<1>3. /\ late' = late /\ events' \in 0..MaxEvents /\ behind' \in BOOLEAN
      /\ events' > 0 \/ (events' = events /\ behind')
      /\ stream = "closed" => events' = events
  <2>1. CASE stream = "open" /\ events' \in 1..MaxEvents /\ UNCHANGED <<loads, behind, late>>
      BY <2>1, <1>1, BoundsAssumption
  <2>2. CASE Unheard(k)
    <3>1. behind' = TRUE /\ events' = events /\ late' = late
        BY <2>2 DEF Unheard
    <3> QED
        BY <3>1, <1>1
  <2> QED
      BY <1>2, <2>1, <2>2
<1>4. /\ loads \in Seq(Load) /\ Len(loads) \in Nat /\ DOMAIN loads = 1..Len(loads)
      /\ loads = <<>> <=> Len(loads) = 0
      /\ \A n \in 1..Len(loads) : loads[n] \in Load
    BY <1>1, LoadsTyped
<1>5. /\ loads' \in Seq(Load) /\ Len(loads') = Len(loads)
      /\ \A n \in 1..Len(loads) :
           /\ loads'[n].got = loads[n].got /\ loads'[n].awaited = loads[n].awaited
           /\ loads[n].behind => loads'[n].behind
           /\ events' > 0 \/ k \in loads[n].awaited \/ loads'[n].behind
  <2>1. CASE events' \in 1..MaxEvents /\ UNCHANGED loads
      BY <2>1, <1>4, BoundsAssumption
  <2>2. CASE Unheard(k)
    <3>1. /\ loads' \in Seq(Load) /\ Len(loads') = Len(loads)
          /\ \A n \in 1..Len(loads) : loads'[n] =
               [loads[n] EXCEPT !.behind = loads[n].behind \/ k \notin loads[n].awaited]
        BY <2>2, <1>1, UnheardProperties
    <3> QED
        BY <3>1, <1>4 DEF Load
  <2> QED
      BY <1>2, <2>1, <2>2
<1>6. DOMAIN loads' = 1..Len(loads)
    BY <1>5, LenProperties
<1>7. /\ served' \in [Kinds -> Lists] /\ served'[k] = s
      /\ \A j \in Kinds \ {k} : served'[j] = served[j]
    BY <1>1 DEF TypesOK
<1>8. TypesOK'
    BY <1>1, <1>3, <1>5, <1>7 DEF TypesOK, TypeOK, Load, Lists
<1>9. ServedOK'
    BY <1>7 DEF IInv, ServedOK
<1>10. GotOK'
  <2>1. \A n \in 1..Len(loads) : loads'[n].got = loads[n].got
      BY <1>5
  <2> QED
      BY <2>1, <1>4, <1>6 DEF IInv, GotOK
<1>11. DrawnOK'
  <2>1. \A j \in Kinds : ToSet(served'[j]) \subseteq drawn'
      BY <1>7 DEF IInv, DrawnOK
  <2> QED
      BY <2>1, <1>4, <1>5, <1>6 DEF IInv, DrawnOK
<1>12. CopiesOK'
  <2>1. \A i \in Items : IsShown(i) => i \in drawn
      BY KindType DEF IInv, DrawnOK, IsShown
  <2> QED
      BY <2>1, <1>3 DEF IInv, CopiesOK, IsShown
<1>13. QuietOK'
    BY <1>3 DEF IInv, QuietOK
<1>14. FreshOK'
  <2> SUFFICES ASSUME Len(loads') # 0, events' = 0, ~loads'[Len(loads')].behind,
                      NEW j \in Kinds \ loads'[Len(loads')].awaited
               PROVE  loads'[Len(loads')].got[j] = served'[j]
      BY <1>5, EmptySeq DEF FreshOK
  <2> DEFINE last == Len(loads)
  <2>1. last \in 1..Len(loads) /\ last = Len(loads') /\ loads # <<>>
      BY <1>4, <1>5
  <2>2. events = 0 /\ ~loads[last].behind /\ j \notin loads[last].awaited /\ j # k
      BY <2>1, <1>3, <1>5
  <2> QED
      BY <2>1, <2>2, <1>5, <1>7 DEF IInv, FreshOK
<1>15. CreatedOK' /\ MirrorOK'
    BY <1>1, <1>3 DEF CreatedOK, MirrorOK
<1> QED
    BY <1>8, <1>9, <1>10, <1>11, <1>12, <1>13, <1>14, <1>15 DEF IInv

LEMMA ConnectStep ==
  ASSUME IInv, Connect
  PROVE  IInv'
<1> USE DEF Connect, server, session, history
<1>1. events = 0
    BY DEF IInv, QuietOK
<1>2. TypesOK'
    BY BoundsAssumption DEF IInv, TypesOK, TypeOK
<1>3. ServedOK' /\ GotOK' /\ DrawnOK' /\ CopiesOK' /\ QuietOK'
    BY DEF IInv, ServedOK, GotOK, DrawnOK, CopiesOK, QuietOK, IsShown
<1>4. FreshOK' /\ CreatedOK' /\ MirrorOK'
    BY <1>1 DEF IInv, FreshOK, CreatedOK, MirrorOK, IsServed, IsShown
<1> QED
    BY <1>2, <1>3, <1>4 DEF IInv

LEMMA StreamBreaksStep ==
  ASSUME IInv, StreamBreaks
  PROVE  IInv'
<1> USE DEF StreamBreaks, server, session
<1>1. TypesOK /\ events \in 0..MaxEvents
    BY DEF IInv, TypesOK, TypeOK
<1>2. /\ loads \in Seq(Load) /\ Len(loads) \in Nat /\ DOMAIN loads = 1..Len(loads)
      /\ loads = <<>> <=> Len(loads) = 0
      /\ \A n \in 1..Len(loads) : loads[n] \in Load
    BY <1>1, LoadsTyped
<1>3. /\ loads' \in Seq(Load) /\ Len(loads') = Len(loads)
      /\ \A n \in 1..Len(loads) :
           /\ loads'[n].got = loads[n].got /\ loads'[n].awaited = loads[n].awaited
           /\ (events = 0 /\ loads'[n].behind = loads[n].behind) \/ loads'[n].behind
      /\ events = 0 => UNCHANGED <<loads, behind>>
      /\ events # 0 => behind'
      /\ behind' \in BOOLEAN
  <2>1. CASE events = 0
      BY <2>1, <1>1, <1>2 DEF TypesOK, TypeOK
  <2>2. CASE events # 0
    <3>1. loads' = Behind(loads) /\ behind' = TRUE
        BY <2>2
    <3>2. /\ loads' \in Seq(Load) /\ Len(loads') = Len(loads)
          /\ \A n \in 1..Len(loads) : loads'[n] = [loads[n] EXCEPT !.behind = TRUE]
        BY <3>1, <1>2, BehindProperties
    <3>3. \A n \in 1..Len(loads) :
            /\ loads'[n].got = loads[n].got /\ loads'[n].awaited = loads[n].awaited
            /\ loads'[n].behind
        BY <3>2, <1>2 DEF Load
    <3> QED
        BY <2>2, <3>1, <3>2, <3>3
  <2> QED
      BY <2>1, <2>2
<1>4. DOMAIN loads' = 1..Len(loads) /\ (loads' = <<>> <=> loads = <<>>)
    BY <1>2, <1>3, LenProperties, EmptySeq
<1>5. TypesOK'
    BY <1>1, <1>3, BoundsAssumption DEF TypesOK, TypeOK, Load, Lists
<1>6. ServedOK' /\ GotOK' /\ DrawnOK'
    BY <1>2, <1>3, <1>4 DEF IInv, ServedOK, GotOK, DrawnOK
<1>7. CopiesOK' /\ QuietOK'
    BY DEF IInv, CopiesOK, QuietOK, IsShown
<1>8. FreshOK'
  <2> SUFFICES ASSUME loads' # <<>>, ~loads'[Len(loads')].behind
               PROVE  events = 0
      BY <1>3 DEF IInv, FreshOK
  <2>1. Len(loads') \in 1..Len(loads)
      BY <1>2, <1>3, <1>4
  <2> QED
      BY <2>1, <1>3
<1>9. CreatedOK' /\ MirrorOK'
    BY <1>1, <1>3, <1>4 DEF IInv, CreatedOK, MirrorOK, IsServed, IsShown
<1> QED
    BY <1>5, <1>6, <1>7, <1>8, <1>9 DEF IInv

LEMMA AnswerListStep ==
  ASSUME IInv, NEW n \in 1..MaxLoads, NEW k \in Kinds, AnswerList(n, k)
  PROVE  IInv'
<1> USE DEF server, session, history
<1>1. TypesOK /\ served \in [Kinds -> Lists]
    BY DEF IInv, TypesOK
<1>2. /\ loads \in Seq(Load) /\ Len(loads) \in Nat /\ DOMAIN loads = 1..Len(loads)
      /\ loads = <<>> <=> Len(loads) = 0
      /\ \A m \in 1..Len(loads) : loads[m] \in Load
    BY <1>1, LoadsTyped
<1>3. n \in 1..Len(loads) /\ k \in loads[n].awaited /\ loads[n] \in Load
    BY <1>2 DEF AnswerList
<1>4. PICK l \in Load :
        /\ loads' = [loads EXCEPT ![n] = l]
        /\ l.awaited = loads[n].awaited \ {k}
        /\ \/ l.got = [loads[n].got EXCEPT ![k] = served[k]] /\ l.behind = loads[n].behind
           \/ l.got = loads[n].got /\ l.behind
  <2>1. CASE loads' = [loads EXCEPT ![n].awaited = @ \ {k}, ![n].got[k] = served[k]]
    <3> DEFINE l == [loads[n] EXCEPT !.awaited = @ \ {k}, !.got[k] = served[k]]
    <3>1. l \in Load /\ l.awaited = loads[n].awaited \ {k} /\ l.behind = loads[n].behind
          /\ l.got = [loads[n].got EXCEPT ![k] = served[k]]
        BY <1>1, <1>3 DEF Load
    <3>2. loads' = [loads EXCEPT ![n] = l]
        BY <2>1, <1>2, <1>3 DEF Load
    <3> QED
        BY <3>1, <3>2
  <2>2. CASE loads' = [loads EXCEPT ![n].awaited = @ \ {k}, ![n].behind = TRUE]
    <3> DEFINE l == [loads[n] EXCEPT !.awaited = @ \ {k}, !.behind = TRUE]
    <3>1. l \in Load /\ l.awaited = loads[n].awaited \ {k} /\ l.behind
          /\ l.got = loads[n].got
        BY <1>3 DEF Load
    <3>2. loads' = [loads EXCEPT ![n] = l]
        BY <2>2, <1>2, <1>3 DEF Load
    <3> QED
        BY <3>1, <3>2
  <2> QED
      BY <2>1, <2>2 DEF AnswerList
<1>5. /\ loads' \in Seq(Load) /\ Len(loads') = Len(loads) /\ DOMAIN loads' = 1..Len(loads)
      /\ loads'[n] = l /\ \A m \in 1..Len(loads) : m # n => loads'[m] = loads[m]
    BY <1>2, <1>3, <1>4, ExceptSeq, LenProperties
<1>6. \A j \in Kinds : l.got[j] = loads[n].got[j] \/ l.got[j] = served[j]
    BY <1>3, <1>4 DEF Load
<1>7. UNCHANGED <<server, session, stream, events, shown, own, history>>
    BY DEF AnswerList
<1>8. TypesOK'
    BY <1>1, <1>5, <1>7 DEF TypesOK, TypeOK, Load, Lists
<1>9. ServedOK' /\ QuietOK' /\ CopiesOK'
    BY <1>7 DEF IInv, ServedOK, QuietOK, CopiesOK, IsShown
<1>10. GotOK'
    BY <1>2, <1>3, <1>5, <1>6 DEF IInv, GotOK, ServedOK
<1>11. DrawnOK'
    BY <1>2, <1>3, <1>5, <1>6, <1>7 DEF IInv, DrawnOK
<1>12. FreshOK'
  <2> SUFFICES ASSUME loads' # <<>>, events = 0, ~loads'[Len(loads)].behind,
                      NEW j \in Kinds \ loads'[Len(loads)].awaited
               PROVE  loads'[Len(loads)].got[j] = served[j]
      BY <1>5, <1>7 DEF FreshOK
  <2>1. CASE n # Len(loads)
    <3>1. Len(loads) \in 1..Len(loads) /\ loads # <<>>
        BY <1>2, <1>3
    <3>2. loads'[Len(loads)] = loads[Len(loads)]
        BY <2>1, <3>1, <1>5
    <3> QED
        BY <3>1, <3>2 DEF IInv, FreshOK
  <2>2. CASE n = Len(loads)
    <3>1. loads'[Len(loads)] = l /\ ~l.behind
        BY <2>2, <1>5
    <3>2. ~loads[n].behind /\ l.got = [loads[n].got EXCEPT ![k] = served[k]]
        BY <3>1, <1>4
    <3>3. CASE j = k
        BY <3>1, <3>2, <3>3, <1>3 DEF Load
    <3>4. CASE j # k
      <4>1. j \in Kinds \ loads[n].awaited
          BY <3>1, <3>4, <1>4
      <4>2. loads[n].got[j] = served[j]
          BY <2>2, <3>2, <4>1, <1>2, <1>3 DEF IInv, FreshOK
      <4> QED
          BY <3>1, <3>2, <3>4, <4>2, <1>3 DEF Load
    <3> QED
        BY <3>3, <3>4
  <2> QED
      BY <2>1, <2>2
<1>13. loads # <<>> /\ loads' # <<>>
  <2>1. Len(loads) # 0
      BY <1>2, <1>3
  <2> QED
      BY <2>1, <1>2, <1>5, EmptySeq
<1>14. CreatedOK' /\ MirrorOK'
    BY <1>7, <1>13 DEF IInv, CreatedOK, MirrorOK
<1> QED
    BY <1>8, <1>9, <1>10, <1>11, <1>12, <1>14 DEF IInv

\* What the other loads are when one has ended.
LEMMA RemainingLoads ==
  ASSUME TypesOK, GotOK, DrawnOK, FreshOK, NEW n \in DOMAIN loads, loads' = Without(n),
         UNCHANGED <<served, drawn, events>>
  PROVE  /\ loads' \in Seq(Load) /\ GotOK' /\ FreshOK'
         /\ \A m \in DOMAIN loads' : \A k \in Kinds : ToSet(loads'[m].got[k]) \subseteq drawn'
         /\ loads' = <<>> => n = Len(loads)
<1>1. /\ loads \in Seq(Load) /\ Len(loads) \in Nat /\ DOMAIN loads = 1..Len(loads)
      /\ loads = <<>> <=> Len(loads) = 0
      /\ \A m \in 1..Len(loads) : loads[m] \in Load
    BY LoadsTyped
<1>2. /\ loads' \in Seq(Load) /\ Len(loads') = Len(loads) - 1
      /\ \A m \in 1..Len(loads) - 1 : loads'[m] =
            IF m < n THEN [loads[m] EXCEPT !.behind = TRUE] ELSE loads[m + 1]
    BY WithoutProperties
<1>3. DOMAIN loads' = 1..Len(loads) - 1 /\ (loads' = <<>> <=> Len(loads) - 1 = 0)
    BY <1>1, <1>2, LenProperties, EmptySeq
<1>4. ASSUME NEW m \in 1..Len(loads) - 1
      PROVE  \/ /\ m < n /\ loads'[m].behind /\ loads'[m].got = loads[m].got
             \/ /\ ~(m < n) /\ m + 1 \in 1..Len(loads) /\ loads'[m] = loads[m + 1]
  <2>1. m \in 1..Len(loads) /\ m + 1 \in 1..Len(loads)
      BY <1>1
  <2> QED
      BY <2>1, <1>1, <1>2 DEF Load
<1>5. \A m \in 1..Len(loads) - 1 : \E o \in 1..Len(loads) : loads'[m].got = loads[o].got
  <2> TAKE m \in 1..Len(loads) - 1
  <2>1. m \in 1..Len(loads)
      BY <1>1
  <2> QED
      BY <2>1, <1>4
<1>6. GotOK'
    BY <1>1, <1>3, <1>5 DEF GotOK
<1>7. \A m \in DOMAIN loads' : \A k \in Kinds : ToSet(loads'[m].got[k]) \subseteq drawn'
    BY <1>1, <1>3, <1>5 DEF DrawnOK
<1>8. FreshOK'
  <2> SUFFICES ASSUME loads' # <<>>, events = 0, ~loads'[Len(loads')].behind,
                      NEW j \in Kinds \ loads'[Len(loads')].awaited
               PROVE  loads'[Len(loads')].got[j] = served[j]
      BY DEF FreshOK
  <2> DEFINE m == Len(loads) - 1
  <2>1. m \in 1..Len(loads) - 1 /\ m = Len(loads') /\ m + 1 = Len(loads)
      BY <1>1, <1>2, <1>3
  <2>2. loads'[m] = loads[Len(loads)] /\ loads # <<>>
      BY <2>1, <1>1, <1>4
  <2> QED
      BY <2>1, <2>2 DEF FreshOK
<1> QED
    BY <1>1, <1>2, <1>3, <1>6, <1>7, <1>8

LEMMA LoadArrivesStep ==
  ASSUME IInv, NEW n \in 1..MaxLoads, LoadArrives(n)
  PROVE  IInv'
<1> USE DEF server, session, history
<1>1. TypesOK
    BY DEF IInv
<1>2. /\ loads \in Seq(Load) /\ Len(loads) \in Nat /\ DOMAIN loads = 1..Len(loads)
      /\ (loads = <<>> <=> Len(loads) = 0) /\ n \in 1..Len(loads) /\ loads[n] \in Load
  <2>1. n \in DOMAIN loads
      BY DEF LoadArrives
  <2> QED
      BY <2>1, <1>1, LoadsTyped
<1>3. /\ loads' \in Seq(Load) /\ GotOK' /\ FreshOK'
      /\ \A m \in DOMAIN loads' : \A k \in Kinds : ToSet(loads'[m].got[k]) \subseteq drawn'
      /\ loads' = <<>> => n = Len(loads)
  <2>1. loads' = Without(n) /\ UNCHANGED <<served, drawn, events>>
      BY DEF LoadArrives
  <2> QED
      BY <2>1, <1>1, <1>2, RemainingLoads DEF IInv
<1>4. /\ shown' = loads[n].got /\ shown' \in [Kinds -> Lists]
      /\ behind' = loads[n].behind /\ behind' \in BOOLEAN
    BY <1>2 DEF LoadArrives, Replaced, Load
<1>5. \A k \in Kinds : IsInjective(shown'[k]) /\ ToSet(shown'[k]) \subseteq drawn
    BY <1>2, <1>4 DEF IInv, GotOK, DrawnOK
<1>6. /\ own' \in [Items -> OwnStages] /\ \A i \in Items : own'[i] # "created"
      /\ \A i \in Items : own'[i] = "passed" => own[i] \in {"created", "passed"}
    BY <1>1 DEF LoadArrives, TypesOK, TypeOK, OwnStages
<1>7. TypesOK'
    BY <1>1, <1>3, <1>4, <1>6 DEF LoadArrives, TypesOK, TypeOK, Load, Lists
<1>8. ServedOK' /\ QuietOK'
    BY DEF LoadArrives, IInv, ServedOK, QuietOK
<1>9. DrawnOK'
    BY <1>3, <1>5, <1>6 DEF LoadArrives, IInv, DrawnOK
<1>10. CopiesOK'
  <2>1. \A i \in Items : IsInjective(shown'[Kind(i)])
      BY <1>5, KindType
  <2> QED
      BY <2>1, <1>6 DEF CopiesOK, Once, Twice, IsInjective
<1>11. CreatedOK'
    BY <1>6 DEF CreatedOK
<1>12. MirrorOK'
  <2>0. served' = served /\ events' = events
      BY DEF LoadArrives
  <2> SUFFICES ASSUME loads' = <<>>, events' = 0, ~behind'
               PROVE  shown' = served'
    <3>1. shown' = served' => \A i \in Items : IsServed(i)' => IsShown(i)'
        BY DEF IsServed, IsShown
    <3> QED
        BY <3>1 DEF MirrorOK
  <2>1. n = Len(loads) /\ loads # <<>> /\ loads[n].awaited = {}
    <3>1. Len(loads) # 0
        BY <1>2
    <3>2. loads[n].awaited = {}
        BY DEF LoadArrives
    <3> QED
        BY <3>1, <3>2, <1>2, <1>3
  <2>2. \A k \in Kinds : loads[n].got[k] = served[k]
      BY <2>0, <2>1, <1>4 DEF IInv, FreshOK
  <2> QED
      BY <2>0, <2>2, <1>1, <1>4 DEF TypesOK
<1> QED
    BY <1>3, <1>7, <1>8, <1>9, <1>10, <1>11, <1>12 DEF IInv

LEMMA LoadFailsStep ==
  ASSUME IInv, NEW n \in 1..MaxLoads, LoadFails(n)
  PROVE  IInv'
<1> USE DEF server, session, history
<1>1. TypesOK
    BY DEF IInv
<1>2. /\ loads' = Without(n) /\ behind' = TRUE /\ n \in DOMAIN loads
      /\ UNCHANGED <<server, session, stream, events, shown, own, late>>
    BY DEF LoadFails
<1>3. /\ loads' \in Seq(Load) /\ GotOK' /\ FreshOK'
      /\ \A m \in DOMAIN loads' : \A k \in Kinds : ToSet(loads'[m].got[k]) \subseteq drawn'
    BY <1>1, <1>2, RemainingLoads DEF IInv
<1>4. TypesOK'
    BY <1>1, <1>2, <1>3 DEF TypesOK, TypeOK, Load, Lists
<1>5. ServedOK' /\ DrawnOK' /\ CopiesOK' /\ QuietOK'
    BY <1>2, <1>3 DEF IInv, ServedOK, DrawnOK, CopiesOK, QuietOK, IsShown
<1>6. CreatedOK' /\ MirrorOK'
    BY <1>2 DEF CreatedOK, MirrorOK
<1> QED
    BY <1>3, <1>4, <1>5, <1>6 DEF IInv

LEMMA PostAnsweredStep ==
  ASSUME IInv, NEW i \in Items, PostAnswered(i)
  PROVE  IInv'
<1> USE DEF server, session, history
<1> DEFINE k == Kind(i)
           s == shown[k]
<1>1. TypesOK /\ k \in Kinds /\ s \in Lists /\ own \in [Items -> OwnStages]
    BY KindType DEF IInv, TypesOK, TypeOK
<1>2. /\ own[i] \in {"created", "passed"} /\ i \in drawn
      /\ shown' = [shown EXCEPT ![k] = <<i>> \o s]
      /\ own' = [own EXCEPT ![i] = "none"]
      /\ late' = (late \/ own[i] = "passed")
      /\ UNCHANGED <<server, session, stream, events, loads, behind>>
    BY DEF PostAnswered, Unshift, IInv, DrawnOK
<1>3. /\ <<i>> \o s \in Lists
      /\ DOMAIN s = 1..Len(s) /\ Len(s) \in Nat
      /\ DOMAIN (<<i>> \o s) = 1..Len(s) + 1
      /\ (<<i>> \o s)[1] = i
      /\ \A m \in 2..Len(s) + 1 : (<<i>> \o s)[m] = s[m - 1]
      /\ ToSet(<<i>> \o s) = ToSet(s) \cup {i}
    BY <1>1, PrependProperties
<1>4. /\ shown' \in [Kinds -> Lists] /\ shown'[k] = <<i>> \o s
      /\ \A j \in Kinds \ {k} : shown'[j] = shown[j]
    BY <1>1, <1>2, <1>3 DEF TypesOK
<1> HIDE DEF k, s
<1>5. /\ own' \in [Items -> OwnStages] /\ own'[i] = "none"
      /\ \A j \in Items \ {i} : own'[j] = own[j]
    BY <1>1, <1>2 DEF OwnStages
<1>6. TypesOK'
  <2>1. late' \in BOOLEAN
      BY <1>1, <1>2 DEF TypesOK, TypeOK
  <2> QED
      BY <2>1, <1>1, <1>2, <1>4, <1>5 DEF TypesOK, TypeOK, Lists
<1>7. ServedOK' /\ GotOK' /\ QuietOK' /\ FreshOK'
    BY <1>2 DEF IInv, ServedOK, GotOK, QuietOK, FreshOK
<1>8. DrawnOK'
  <2>1. \A j \in Kinds : ToSet(shown'[j]) \subseteq drawn
      BY <1>2, <1>3, <1>4 DEF IInv, DrawnOK, s
  <2> QED
      BY <2>1, <1>2, <1>5 DEF IInv, DrawnOK
<1>9. CopiesOK'
  <2>1. ASSUME NEW j \in Items, j # i
        PROVE  /\ Twice(shown'[Kind(j)], j)
               /\ Once(shown[Kind(j)], j) => Once(shown'[Kind(j)], j)
               /\ IsShown(j)' => IsShown(j)
    <3>1. CASE Kind(j) # k
      <4>1. shown'[Kind(j)] = shown[Kind(j)]
          BY <3>1, <1>4, KindType
      <4> QED
          BY <4>1 DEF IInv, CopiesOK, IsShown
    <3>2. CASE Kind(j) = k
      <4> DEFINE t == <<i>> \o s
      <4>1. s = shown[Kind(j)] /\ t = shown'[Kind(j)]
          BY <3>2, <1>4 DEF s
      <4>2. \A m \in DOMAIN t : t[m] = j => m - 1 \in DOMAIN s /\ s[m - 1] = j /\ m \in Int
          BY <2>1, <1>3
      <4> HIDE DEF t
      <4>3. Twice(s, j) => Twice(t, j)
        <5> SUFFICES ASSUME Twice(s, j), NEW a \in DOMAIN t, NEW b \in DOMAIN t, NEW c \in DOMAIN t,
                            t[a] = j, t[b] = j, t[c] = j
                     PROVE  a = b \/ b = c \/ a = c
            BY DEF Twice
        <5>1. a - 1 = b - 1 \/ b - 1 = c - 1 \/ a - 1 = c - 1
            BY <4>2 DEF Twice
        <5> QED
            BY <5>1, <4>2
      <4>4. Once(s, j) => Once(t, j)
        <5> SUFFICES ASSUME Once(s, j), NEW a \in DOMAIN t, NEW b \in DOMAIN t, t[a] = j, t[b] = j
                     PROVE  a = b
            BY DEF Once
        <5>1. a - 1 = b - 1
            BY <4>2 DEF Once
        <5> QED
            BY <5>1, <4>2
      <4>5. j \in ToSet(t) => j \in ToSet(s)
          BY <2>1, <1>3 DEF t
      <4> QED
          BY <4>1, <4>3, <4>4, <4>5 DEF IInv, CopiesOK, IsShown
    <3> QED
        BY <3>1, <3>2
  <2>2. Twice(shown'[k], i) /\ (~late' => Once(shown'[k], i))
    <3> DEFINE t == <<i>> \o s
    <3>1. \A m \in DOMAIN t : t[m] = i => m = 1 \/ (m - 1 \in DOMAIN s /\ s[m - 1] = i /\ m \in Int)
        BY <1>3
    <3> HIDE DEF t
    <3>2. Once(s, i) /\ (~late' => i \notin ToSet(s))
      <4>1. CASE own[i] = "created"
        <5>1. i \notin ToSet(s)
            BY <4>1 DEF IInv, CopiesOK, IsShown, s, k
        <5> QED
            BY <5>1 DEF Once, ToSet
      <4>2. CASE own[i] = "passed"
          BY <4>2, <1>2 DEF IInv, CopiesOK, s, k
      <4> QED
          BY <4>1, <4>2, <1>2
    <3>3. Twice(t, i)
      <4> SUFFICES ASSUME NEW a \in DOMAIN t, NEW b \in DOMAIN t, NEW c \in DOMAIN t,
                          t[a] = i, t[b] = i, t[c] = i
                   PROVE  a = b \/ b = c \/ a = c
          BY DEF Twice
      <4>1. a = 1 \/ b = 1 \/ a - 1 = b - 1
          BY <3>1, <3>2 DEF Once
      <4>2. c = 1 \/ b = 1 \/ c - 1 = b - 1
          BY <3>1, <3>2 DEF Once
      <4>3. a = 1 \/ c = 1 \/ a - 1 = c - 1
          BY <3>1, <3>2 DEF Once
      <4> QED
          BY <4>1, <4>2, <4>3, <3>1
    <3>4. i \notin ToSet(s) => Once(t, i)
        BY <3>1 DEF Once, ToSet
    <3> QED
        BY <3>2, <3>3, <3>4, <1>4 DEF t
  <2>3. \A j \in Items :
          /\ Twice(shown'[Kind(j)], j)
          /\ ~late' \/ own'[j] = "passed" => Once(shown'[Kind(j)], j)
          /\ own'[j] = "created" => ~IsShown(j)'
    <3> TAKE j \in Items
    <3>1. CASE j = i
        BY <3>1, <2>2, <1>5 DEF k
    <3>2. CASE j # i
      <4>1. ~late' => ~late
          BY <1>2
      <4> QED
          BY <4>1, <3>2, <2>1, <1>5 DEF IInv, CopiesOK
    <3> QED
        BY <3>1, <3>2
  <2> QED
      BY <2>3 DEF CopiesOK
<1>10. CreatedOK'
    BY <1>2, <1>5 DEF IInv, CreatedOK
<1>11. MirrorOK'
  <2> SUFFICES ASSUME loads = <<>>, events = 0, ~behind
               PROVE  late' /\ \A j \in Items : IsServed(j) => IsShown(j)'
      BY <1>2 DEF MirrorOK, IsServed
  <2>1. own[i] = "passed"
      BY <1>2 DEF IInv, CreatedOK
  <2>2. \A j \in Items : IsServed(j) => IsShown(j)
      BY DEF IInv, MirrorOK
  <2>3. \A j \in Items : IsShown(j) => IsShown(j)'
      BY <1>3, <1>4, KindType DEF IsShown, s
  <2> QED
      BY <1>2, <2>1, <2>2, <2>3
<1> QED
    BY <1>6, <1>7, <1>8, <1>9, <1>10, <1>11 DEF IInv

\* A created item comes to the head of its list.
LEMMA CreateStep ==
  ASSUME IInv, NEW i \in Items, i \notin drawn, drawn' = drawn \cup {i}, Prepend(i),
         NEW announced \in AnnouncedRoutes(i), Tell(Kind(i), announced),
         own' \in [Items -> OwnStages],
         \A j \in Items : own'[j] \in {"created", "passed"} =>
            own'[j] = own[j] \/ (own'[j] = "created" /\ j \notin drawn /\ j \in drawn'),
         UNCHANGED <<session, stream, shown>>
  PROVE  IInv'
<1> DEFINE k == Kind(i)
           s == served[k]
           t == <<i>> \o s
<1>1. k \in Kinds /\ s \in Lists /\ announced \in BOOLEAN
    BY KindType DEF IInv, TypesOK, AnnouncedRoutes
<1>2. served' = [served EXCEPT ![k] = t]
    BY DEF Prepend
<1>3. /\ t \in Lists /\ DOMAIN s = 1..Len(s) /\ Len(s) \in Nat
      /\ DOMAIN t = 1..Len(s) + 1 /\ t[1] = i
      /\ \A m \in 2..Len(s) + 1 : t[m] = s[m - 1]
      /\ ToSet(t) = ToSet(s) \cup {i}
    BY <1>1, PrependProperties
<1>4. IsInjective(s) /\ ToSet(s) \subseteq drawn /\ drawn \subseteq Items
    BY <1>1 DEF IInv, ServedOK, DrawnOK, TypesOK, TypeOK
<1>5. Tell(k, announced)
    OBVIOUS
<1> HIDE DEF k, s, t
<1>6. IsInjective(t)
  <2> SUFFICES ASSUME NEW a \in DOMAIN t, NEW b \in DOMAIN t, t[a] = t[b], a # 1
               PROVE  a = b
      BY <1>3 DEF IsInjective
  <2>1. a - 1 \in DOMAIN s /\ t[a] = s[a - 1] /\ a \in Int
      BY <1>3
  <2>2. s[a - 1] # i
      BY <2>1, <1>4 DEF ToSet
  <2>3. b - 1 \in DOMAIN s /\ t[b] = s[b - 1] /\ b \in Int
    <3>1. b # 1
        BY <2>1, <2>2, <1>3
    <3>2. b \in 2..Len(s) + 1
        BY <3>1, <1>3
    <3> QED
        BY <3>2, <1>3
  <2>4. a - 1 = b - 1
      BY <2>1, <2>3, <1>4 DEF IsInjective
  <2> QED
      BY <2>1, <2>3, <2>4
<1>7. ToSet(t) \subseteq drawn' /\ drawn \subseteq drawn' /\ drawn' \subseteq Items
    BY <1>3, <1>4
<1> QED
    BY <1>1, <1>2, <1>3, <1>5, <1>6, <1>7, ToldStep

\* An item leaves its list.
LEMMA DropStep ==
  ASSUME IInv, OwnKept, NEW i \in Items, Drop(i),
         NEW announced \in BOOLEAN, Tell(Kind(i), announced),
         UNCHANGED <<drawn, session, stream, shown>>
  PROVE  IInv'
<1> DEFINE k == Kind(i)
           s == served[k]
<1>1. k \in Kinds /\ s \in Lists /\ IsInjective(s) /\ ToSet(s) \subseteq drawn
      /\ drawn \subseteq Items
    BY KindType DEF IInv, TypesOK, TypeOK, ServedOK, DrawnOK
<1>2. PICK n \in DOMAIN s : served' = [served EXCEPT ![k] = RemoveAt(s, n)]
    BY DEF Drop
<1>3. Tell(k, announced)
    OBVIOUS
<1> HIDE DEF k, s
<1>4. /\ RemoveAt(s, n) \in Lists /\ IsInjective(RemoveAt(s, n))
      /\ ToSet(RemoveAt(s, n)) \subseteq drawn
    BY <1>1, RemoveAtInjective
<1> QED
    BY <1>1, <1>2, <1>3, <1>4, ToldStep DEF OwnKept

\* The handler of a DELETE, whether its statement succeeds or fails.
LEMMA DeleteStep ==
  ASSUME IInv, OwnKept, NEW i \in Items, Delete(i),
         UNCHANGED <<drawn, session, stream, shown>>
  PROVE  IInv'
<1>1. CASE Drop(i) /\ Announce(Kind(i))
    BY <1>1, DropStep DEF Tell
<1>2. CASE UNCHANGED served /\ Broadcast
  <2>1. CASE stream = "open"
    <3> DEFINE k == Kind(i)
    <3>1. /\ k \in Kinds /\ served[k] \in Lists /\ IsInjective(served[k])
          /\ ToSet(served[k]) \subseteq drawn /\ drawn \subseteq Items
          /\ served' = [served EXCEPT ![k] = served[k]]
        BY <1>2, KindType DEF IInv, TypesOK, TypeOK, ServedOK, DrawnOK
    <3>2. Tell(k, TRUE)
        BY <1>2, <2>1 DEF Tell, Announce
    <3> HIDE DEF k
    <3> QED
        BY <3>1, <3>2, ToldStep DEF OwnKept
  <2>2. CASE stream # "open"
      BY <1>2, <2>2, OwnStep DEF Broadcast, server
  <2> QED
      BY <2>1, <2>2
<1> QED
    BY <1>1, <1>2 DEF Delete

LEMMA StepIInv == IInv /\ [Next]_vars => IInv'
<1> SUFFICES ASSUME IInv, [Next]_vars PROVE IInv'
    OBVIOUS
<1>1. /\ own \in [Items -> OwnStages] /\ events \in 0..MaxEvents
      /\ admitted \in BOOLEAN /\ modal \in BOOLEAN
    BY DEF IInv, TypesOK, TypeOK
<1>2. ASSUME NEW i \in Items, OtherCreates(i) PROVE IInv'
  <2>1. PICK announced \in AnnouncedRoutes(i) : Tell(Kind(i), announced)
      BY <1>2 DEF OtherCreates
  <2> QED
      BY <1>1, <1>2, <2>1, CreateStep DEF OtherCreates
<1>3. ASSUME NEW i \in Items, OtherDeletes(i) PROVE IInv'
    BY <1>1, <1>3, DeleteStep DEF OtherDeletes, OwnKept
<1>4. ASSUME NEW i \in Items, Purge(i) PROVE IInv'
  <2>1. Kind(i) = "file"
      BY <1>4 DEF Purge, Kind
  <2> QED
      BY <1>1, <1>4, <2>1, DropStep DEF Purge, OwnKept, Tell
<1>5. ASSUME NEW i \in Items, Post(i) PROVE IInv'
    BY <1>1, <1>5, OwnStep DEF Post, OwnKept, OwnStages
<1>6. ASSUME NEW i \in Items, StoreOwn(i) PROVE IInv'
  <2>1. PICK announced \in AnnouncedRoutes(i) : Tell(Kind(i), announced)
      BY <1>6 DEF StoreOwn
  <2>2. /\ own' \in [Items -> OwnStages] /\ own'[i] = "created"
        /\ \A j \in Items \ {i} : own'[j] = own[j]
        /\ i \notin drawn /\ drawn' = drawn \cup {i} /\ Prepend(i)
      BY <1>1, <1>6 DEF StoreOwn, OwnStages
  <2> QED
      BY <1>6, <2>1, <2>2, CreateStep DEF StoreOwn
<1>7. ASSUME NEW i \in Items, PostFails(i) PROVE IInv'
    BY <1>1, <1>7, OwnStep DEF PostFails, OwnKept, OwnStages
<1>8. ASSUME NEW i \in Items, PostAnswered(i) PROVE IInv'
    BY <1>8, PostAnsweredStep
<1>9. ASSUME NEW i \in Items, DeleteItem(i) PROVE IInv'
    BY <1>1, <1>9, OwnStep DEF DeleteItem, OwnKept, OwnStages
<1>10. ASSUME NEW i \in Items, ServeDelete(i) PROVE IInv'
  <2>1. OwnKept /\ UNCHANGED <<drawn, session, stream, shown>>
    <3>1. /\ own' = [own EXCEPT ![i] = "deleted"] \/ own' = [own EXCEPT ![i] = "missing"]
          /\ UNCHANGED <<drawn, session, stream, shown>>
        BY <1>10 DEF ServeDelete
    <3> QED
        BY <1>1, <3>1 DEF OwnKept, OwnStages
  <2>2. CASE Delete(i)
      BY <2>1, <2>2, DeleteStep
  <2>3. CASE UNCHANGED <<served, events, loads, history>>
      BY <2>1, <2>3, OwnStep DEF server
  <2> QED
      BY <1>10, <2>2, <2>3 DEF ServeDelete
<1>11. ASSUME NEW i \in Items, DeleteAnswered(i) PROVE IInv'
  <2>1. /\ OwnKept /\ loads' = Append(loads, NewLoad(admitted))
        /\ admitted' \in BOOLEAN /\ modal' \in BOOLEAN
        /\ events' \in 0..MaxEvents /\ (events = 0 => events' = 0)
        /\ UNCHANGED <<server, stream, shown, history>>
      BY <1>1, <1>11 DEF DeleteAnswered, Reload, OwnKept, OwnStages, session
  <2> QED
      BY <2>1, <1>1, NewLoadStep
<1>12. ASSUME NEW i \in Items, DeleteFails(i) PROVE IInv'
    BY <1>1, <1>12, OwnStep DEF DeleteFails, OwnKept, OwnStages
<1>13. CASE Connect
    BY <1>13, ConnectStep
<1>14. CASE StreamBreaks
    BY <1>14, StreamBreaksStep
<1>15. CASE HearEvent
    BY <1>1, <1>15, NewLoadStep, BoundsAssumption DEF HearEvent, Reload, OwnKept, session, server
<1>16. ASSUME NEW right \in BOOLEAN, SubmitToken(right) PROVE IInv'
    BY <1>1, <1>16, NewLoadStep DEF SubmitToken, OwnKept
<1>17. ASSUME NEW n \in 1..MaxLoads, NEW k \in Kinds, AnswerList(n, k) PROVE IInv'
    BY <1>17, AnswerListStep
<1>18. ASSUME NEW n \in 1..MaxLoads, LoadArrives(n) PROVE IInv'
    BY <1>18, LoadArrivesStep
<1>19. ASSUME NEW n \in 1..MaxLoads, LoadFails(n) PROVE IInv'
    BY <1>19, LoadFailsStep
<1>20. CASE UNCHANGED vars
    BY <1>1, <1>20, OwnStep DEF vars, OwnKept
<1> QED
    BY <1>2, <1>3, <1>4, <1>5, <1>6, <1>7, <1>8, <1>9, <1>10, <1>11, <1>12, <1>13, <1>14,
       <1>15, <1>16, <1>17, <1>18, <1>19, <1>20 DEF Next

LEMMA Invariance == Spec => []IInv
<1>1. Init => IInv
    BY InitIInv
<1>2. IInv /\ [Next]_vars => IInv'
    BY StepIInv
<1> QED
    BY <1>1, <1>2, PTL DEF Spec
-----------------------------------------------------------------------------
(***************************************************************************)
(* The properties.                                                         *)
(***************************************************************************)

\* Type correctness of the tab of app.js and the lists it is sent.
THEOREM TypeCorrect == Spec => []TypeOK
<1>1. IInv => TypeOK
    BY DEF IInv, TypesOK
<1> QED
    BY <1>1, Invariance, PTL

\* A tab at rest shows exactly the server's lists, for any number of loads that
\* overtake each other, unless one of the things app.js does not repair happened
\* since the load it shows was sent.
THEOREM SettledCorrect == Spec => []SettledIsTrue
<1>1. IInv => SettledIsTrue
    BY DEF IInv, MirrorOK, SettledIsTrue, AtRest
<1> QED
    BY <1>1, Invariance, PTL

\* The unshift of a late answer hides nothing that the server has.
THEOREM LateCorrect == Spec => []LateOnlyAdds
<1>1. IInv => LateOnlyAdds
    BY DEF IInv, MirrorOK, LateOnlyAdds, AtRest
<1> QED
    BY <1>1, Invariance, PTL

\* An entry stands twice only between a late answer and the next load, and never
\* three times.
THEOREM CopiesCorrect == Spec => []TwiceOnlyWhenLate
<1>1. ASSUME IInv, NEW i \in Items
      PROVE  Copies(i) <= IF late THEN 2 ELSE 1
  <2> DEFINE s == shown[Kind(i)]
             C == {n \in DOMAIN s : s[n] = i}
  <2>1. Copies(i) = Cardinality(C)
      BY DEF Copies
  <2>2. Twice(s, i) /\ (~late => Once(s, i))
      BY <1>1 DEF IInv, CopiesOK
  <2> HIDE DEF s
  <2>3. CASE C = {}
      BY <2>1, <2>3, FS_EmptySet
  <2>4. ASSUME NEW a \in C, C = {a}
        PROVE  Copies(i) <= IF late THEN 2 ELSE 1
    <3>1. Cardinality({a}) = 1
        BY FS_Singleton
    <3>2. Copies(i) = 1
        BY <2>1, <2>4, <3>1
    <3> QED
        BY <3>2
  <2>5. ASSUME NEW a \in C, NEW b \in C, a # b
        PROVE  Copies(i) <= IF late THEN 2 ELSE 1
    <3>1. C = {a, b} /\ late
        BY <2>2, <2>5 DEF Once, Twice
    <3>2. Cardinality({a, b}) = 2
      <4>1. IsFiniteSet({a}) /\ Cardinality({a}) = 1 /\ b \notin {a}
          BY <2>5, FS_Singleton
      <4>2. Cardinality({a} \cup {b}) = 2
          BY <4>1, FS_AddElement
      <4> QED
          BY <4>2
    <3> QED
        BY <2>1, <3>1, <3>2
  <2> QED
      BY <2>3, <2>4, <2>5
<1>2. IInv => TwiceOnlyWhenLate
    BY <1>1 DEF TwiceOnlyWhenLate
<1> QED
    BY <1>2, Invariance, PTL
=============================================================================
