------------------------- MODULE UrlShortenerProofs -------------------------
(***************************************************************************)
(* What holds of the short links for every number of codes, of requests    *)
(* and of attempts.  A promise is kept from the INSERT on, not only from   *)
(* the answer: until a request is answered, its row is its own unless it   *)
(* was deleted, and the primary key keeps every other request out.         *)
(***************************************************************************)
EXTENDS UrlShortener, TLAPS

\* A request in flight has a code, and from its INSERT on the row is its own.
RequestOK(r) ==
  /\ upc[r] # "idle" => code[r] \in Codes
  /\ upc[r] = "answer" /\ r \notin voided => leadsTo[code[r]] = r

UrlInv == TypeOfUrls /\ TargetKept /\ \A r \in Creators : RequestOK(r)
-----------------------------------------------------------------------------
LEMMA UrlInvInit == InitUrls => UrlInv
<1> SUFFICES ASSUME InitUrls PROVE UrlInv
    OBVIOUS
<1>1. TypeOfUrls
    BY AttemptsAssumption DEF InitUrls, TypeOfUrls
<1>2. TargetKept /\ \A r \in Creators : RequestOK(r)
    BY DEF InitUrls, TargetKept, RequestOK
<1> QED
    BY <1>1, <1>2 DEF UrlInv

\* The steps before the INSERT change no row and no promise.
LEMMA StepDraw ==
  ASSUME UrlInv, NEW r \in Creators, NEW c \in Codes,
         Post(r, c) \/ DrawAgain(r, c) \/ CodeIsFree(r)
  PROVE  UrlInv'
<1> USE AttemptsAssumption
<1>1. leadsTo' = leadsTo /\ told' = told /\ voided' = voided
    BY DEF Post, DrawAgain, CodeIsFree
<1>2. TypeOfUrls'
    BY <1>1 DEF UrlInv, TypeOfUrls, Post, DrawAgain, CodeIsFree
<1>3. TargetKept'
    BY <1>1 DEF UrlInv, TargetKept, Redirect
<1>4. ASSUME NEW q \in Creators PROVE RequestOK(q)'
  <2>1. CASE q = r
      BY <2>1, <1>1 DEF UrlInv, TypeOfUrls, RequestOK, Post, DrawAgain, CodeIsFree
  <2>2. CASE q # r
      BY <2>2, <1>1 DEF UrlInv, TypeOfUrls, RequestOK, Post, DrawAgain, CodeIsFree
  <2> QED
      BY <2>1, <2>2
<1> QED
    BY <1>2, <1>3, <1>4 DEF UrlInv

\* The row that is inserted was nobody's, so no promise was about it.
LEMMA StepInsert ==
  ASSUME UrlInv, NEW r \in Creators, InsertUrl(r)
  PROVE  UrlInv'
<1>1. code[r] \in Codes /\ leadsTo[code[r]] = Nobody
    BY DEF UrlInv, RequestOK, InsertUrl, KeyAdmits, Taken
<1>2. TypeOfUrls'
    BY <1>1 DEF UrlInv, TypeOfUrls, InsertUrl
<1>3. TargetKept'
  <2> SUFFICES ASSUME NEW p \in told' PROVE leadsTo'[p[1]] = p[2]
      BY DEF TargetKept, Redirect
  <2>1. p \in told /\ p[1] \in Codes /\ p[2] \in Creators /\ leadsTo[p[1]] = p[2]
      BY DEF UrlInv, TypeOfUrls, TargetKept, Redirect, InsertUrl
  <2>2. p[1] # code[r]
      BY <2>1, <1>1, CreatorsAssumption
  <2> QED
      BY <2>1, <2>2 DEF UrlInv, TypeOfUrls, InsertUrl
<1>4. ASSUME NEW q \in Creators PROVE RequestOK(q)'
  <2>1. CASE q = r
      BY <2>1, <1>1 DEF UrlInv, TypeOfUrls, RequestOK, InsertUrl
  <2>2. CASE q # r
    <3>1. upc'[q] = upc[q] /\ code'[q] = code[q] /\ voided' = voided
        BY <2>2 DEF UrlInv, TypeOfUrls, InsertUrl
    <3>2. ASSUME upc[q] = "answer", q \notin voided PROVE leadsTo'[code[q]] = q
      <4>1. code[q] \in Codes /\ leadsTo[code[q]] = q
          BY <3>2 DEF UrlInv, RequestOK
      <4>2. code[q] # code[r]
          BY <4>1, <1>1, CreatorsAssumption
      <4> QED
          BY <4>1, <4>2 DEF UrlInv, TypeOfUrls, InsertUrl
    <3> QED
        BY <3>1, <3>2 DEF UrlInv, RequestOK
  <2> QED
      BY <2>1, <2>2
<1> QED
    BY <1>2, <1>3, <1>4 DEF UrlInv

\* The answer, 201 or 500, ends the request.
LEMMA StepEnd ==
  ASSUME UrlInv, NEW r \in Creators, InsertFails(r) \/ AnswerCode(r)
  PROVE  UrlInv'
<1> USE AttemptsAssumption
<1>1. EndCreate(r) /\ leadsTo' = leadsTo
    BY DEF InsertFails, AnswerCode, EndCreate
<1>2. \A p \in told' : p \in told \/
        (p = <<code[r], r>> /\ upc[r] = "answer" /\ r \notin voided)
    BY DEF InsertFails, AnswerCode
<1>3. \A p \in told' : p \in Codes \X Creators
    BY <1>2 DEF UrlInv, TypeOfUrls, RequestOK
<1>4. TypeOfUrls'
    BY <1>1, <1>3 DEF UrlInv, TypeOfUrls, EndCreate
<1>5. TargetKept'
    BY <1>1, <1>2 DEF UrlInv, TargetKept, Redirect, RequestOK
<1>6. ASSUME NEW q \in Creators PROVE RequestOK(q)'
  <2>1. CASE q = r
      BY <2>1, <1>1 DEF UrlInv, TypeOfUrls, RequestOK, EndCreate
  <2>2. CASE q # r
      BY <2>2, <1>1 DEF UrlInv, TypeOfUrls, RequestOK, EndCreate
  <2> QED
      BY <2>1, <2>2
<1> QED
    BY <1>4, <1>5, <1>6 DEF UrlInv

\* A delete takes the promises about its code back.
LEMMA StepDelete ==
  ASSUME UrlInv, NEW c, DeleteUrl(c)
  PROVE  UrlInv'
<1>1. TypeOfUrls'
    BY DEF UrlInv, TypeOfUrls, DeleteUrl, creating
<1>2. TargetKept'
  <2> SUFFICES ASSUME NEW p \in told' PROVE leadsTo'[p[1]] = p[2]
      BY DEF TargetKept, Redirect
  <2>1. p \in told /\ p[1] # c /\ p[1] \in Codes /\ leadsTo[p[1]] = p[2]
      BY DEF UrlInv, TypeOfUrls, TargetKept, Redirect, DeleteUrl
  <2> QED
      BY <2>1 DEF DeleteUrl
<1>3. ASSUME NEW q \in Creators PROVE RequestOK(q)'
    BY DEF UrlInv, TypeOfUrls, RequestOK, DeleteUrl, creating
<1> QED
    BY <1>1, <1>2, <1>3 DEF UrlInv

LEMMA UrlInvStep == UrlInv /\ [NextUrls]_urlVars => UrlInv'
<1> SUFFICES ASSUME UrlInv, [NextUrls]_urlVars PROVE UrlInv'
    OBVIOUS
<1>1. CASE UNCHANGED urlVars
    BY <1>1 DEF urlVars, creating, UrlInv, TypeOfUrls, TargetKept, Redirect,
                RequestOK
<1>2. ASSUME NEW r \in Creators, CreateUrl(r) PROVE UrlInv'
  <2>1. CASE \E c \in Codes : Post(r, c) \/ DrawAgain(r, c)
      BY <2>1, StepDraw
  <2>2. CASE CodeIsFree(r)
    <3>1. code[r] \in Codes
        BY <2>2 DEF UrlInv, RequestOK, CodeIsFree
    <3> QED
        BY <2>2, <3>1, StepDraw
  <2>3. CASE InsertUrl(r)
      BY <2>3, StepInsert
  <2>4. CASE InsertFails(r) \/ AnswerCode(r)
      BY <2>4, StepEnd
  <2> QED
      BY <1>2, <2>1, <2>2, <2>3, <2>4 DEF CreateUrl
<1>3. ASSUME NEW c \in Codes, DeleteUrl(c) PROVE UrlInv'
    BY <1>3, StepDelete
<1> QED
    BY <1>1, <1>2, <1>3 DEF NextUrls

\* The shortener's variables keep their types (URLHandler, DeleteURLHandler).
THEOREM UrlTypes == SpecUrls => []TypeOfUrls
<1>1. UrlInv => TypeOfUrls
    BY DEF UrlInv
<1> QED
    BY <1>1, UrlInvInit, UrlInvStep, PTL DEF SpecUrls

\* However many requests look codes up and insert them at the same time, a code
\* leads to the address of the one that was given it, until it is deleted.
THEOREM TargetsKept == SpecUrls => []TargetKept
<1>1. UrlInv => TargetKept
    BY DEF UrlInv
<1> QED
    BY <1>1, UrlInvInit, UrlInvStep, PTL DEF SpecUrls
=============================================================================
