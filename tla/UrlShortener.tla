---------------------------- MODULE UrlShortener ----------------------------
(***************************************************************************)
(* The short links: URLHandler draws codes until a SELECT finds no row     *)
(* under one, and inserts.  Nothing joins the two statements but the       *)
(* primary key of `urls`, and the last of MaxAttempts draws is not looked  *)
(* up at all.  Each request posts an address of its own, which the request *)
(* stands for.                                                             *)
(***************************************************************************)
EXTENDS Naturals, FiniteSets

CONSTANTS
    Codes,        \* what generateCode may return
    Creators,     \* POST /api/url requests that may be in flight together
    Nobody,       \* the address of a code without a row
    NoCode,       \* the code of a request that is not in flight
    MaxAttempts,  \* maxCodeAttempts, 100 in the code
    Faults        \* what may fail: a subset of {"db", "smb", "net"}

ASSUME CreatorsAssumption == Nobody \notin Creators
ASSUME CodesAssumption    == NoCode \notin Codes
ASSUME AttemptsAssumption == MaxAttempts \in Nat \ {0}

VARIABLES
    leadsTo,   \* table urls: [Codes -> whose address, Nobody without a row]
    upc,       \* [Creators -> "idle", "check", "insert", "answer"]
    code,      \* [Creators -> the code drawn last]
    tries      \* [Creators -> rounds of the loop so far]

\* History, read by no action.
VARIABLES
    told,      \* pairs <<code, creator>>: answered 201, not deleted since
    voided     \* creators whose code was deleted before they were answered

creating == <<upc, code, tries>>
urlVars  == <<leadsTo, creating, told, voided>>

TypeOfUrls ==
  /\ leadsTo \in [Codes -> Creators \cup {Nobody}]
  /\ upc \in [Creators -> {"idle", "check", "insert", "answer"}]
  /\ code \in [Creators -> Codes \cup {NoCode}]
  /\ tries \in [Creators -> 0..MaxAttempts]
  /\ told \subseteq Codes \X Creators /\ voided \subseteq Creators

InitUrls ==
  /\ leadsTo = [c \in Codes |-> Nobody]
  /\ upc = [r \in Creators |-> "idle"]
  /\ code = [r \in Creators |-> NoCode]
  /\ tries = [r \in Creators |-> 0]
  /\ told = {} /\ voided = {}

MayFail(what) == what \in Faults
Taken(c)      == leadsTo[c] # Nobody
Links         == {c \in Codes : Taken(c)}

\* A request whose URL is http or https; any other is refused without effect.
Post(r, c) ==
  /\ upc[r] = "idle"
  /\ upc' = [upc EXCEPT ![r] = "check"]
  /\ code' = [code EXCEPT ![r] = c]
  /\ tries' = [tries EXCEPT ![r] = 0]
  /\ UNCHANGED <<leadsTo, told, voided>>

\* GetURL finds no row, or fails, which is taken for the same.
CodeIsFree(r) ==
  /\ upc[r] = "check"
  /\ ~Taken(code[r]) \/ MayFail("db")
  /\ upc' = [upc EXCEPT ![r] = "insert"]
  /\ tries' = [tries EXCEPT ![r] = 0]
  /\ UNCHANGED <<leadsTo, code, told, voided>>

\* GetURL finds one: another code is drawn, and looked up unless the loop ends.
DrawAgain(r, c) ==
  /\ upc[r] = "check" /\ Taken(code[r])
  /\ code' = [code EXCEPT ![r] = c]
  /\ IF tries[r] + 1 < MaxAttempts
     THEN tries' = [tries EXCEPT ![r] = @ + 1] /\ UNCHANGED upc
     ELSE /\ tries' = [tries EXCEPT ![r] = 0]
          /\ upc' = [upc EXCEPT ![r] = "insert"]
  /\ UNCHANGED <<leadsTo, told, voided>>

\* Mutation: INSERT OR REPLACE.
AnyCode(c) == TRUE

\* The primary key lets a code in once.
KeyAdmits(c) == ~Taken(c)

InsertUrl(r) ==
  /\ upc[r] = "insert" /\ KeyAdmits(code[r])
  /\ leadsTo' = [leadsTo EXCEPT ![code[r]] = r]
  /\ upc' = [upc EXCEPT ![r] = "answer"]
  /\ UNCHANGED <<code, tries, told, voided>>

EndCreate(r) ==
  /\ upc' = [upc EXCEPT ![r] = "idle"]
  /\ code' = [code EXCEPT ![r] = NoCode]
  /\ tries' = [tries EXCEPT ![r] = 0]
  /\ voided' = voided \ {r}
  /\ UNCHANGED leadsTo

InsertFails(r) ==
  /\ upc[r] = "insert"
  /\ ~KeyAdmits(code[r]) \/ MayFail("db")
  /\ EndCreate(r)
  /\ UNCHANGED told

\* 201 with the code.
AnswerCode(r) ==
  /\ upc[r] = "answer"
  /\ told' = IF r \in voided THEN told ELSE told \cup {<<code[r], r>>}
  /\ EndCreate(r)

CreateUrl(r) ==
  \/ \E c \in Codes : Post(r, c) \/ DrawAgain(r, c)
  \/ CodeIsFree(r) \/ InsertUrl(r) \/ InsertFails(r) \/ AnswerCode(r)

\* DELETE FROM urls: no lookup first, whatever the id.
DeleteUrl(c) ==
  /\ leadsTo' = [d \in Codes |-> IF d = c THEN Nobody ELSE leadsTo[d]]
  /\ told' = {p \in told : p[1] # c}
  /\ voided' = voided \cup {r \in Creators : upc[r] = "answer" /\ code[r] = c}
  /\ UNCHANGED creating

NextUrls ==
  \/ \E r \in Creators : CreateUrl(r)
  \/ \E c \in Codes : DeleteUrl(c)

SpecUrls == InitUrls /\ [][NextUrls]_urlVars

\* What GET /{code} redirects to; Nobody is 404.  The scheme it looks at again
\* is the one that was let in.
Redirect(c) == leadsTo[c]
-----------------------------------------------------------------------------
\* A code that a creator was given leads to the address they posted until
\* somebody deletes it, however many requests draw the same code at once
\* (url.go looks it up and inserts it in two statements).
TargetKept == \A p \in told : Redirect(p[1]) = p[2]
=============================================================================
