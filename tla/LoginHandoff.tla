---------------------------- MODULE LoginHandoff ----------------------------
(***************************************************************************)
(* The handoff codes of a login (biz LoginHandoffUseCase): a login that    *)
(* started with a PKCE challenge puts a code in the URL of the client's    *)
(* callback, and the client exchanges it for the session token.            *)
(*                                                                         *)
(* The code travels in a URL, so anybody may present it, several times and *)
(* at once, with any verifier and callback.  An exchange reads the clock,  *)
(* marks the code used and reads its row: three steps, with the sweeper,   *)
(* the deletion of the user and other exchanges in between.                *)
(*                                                                         *)
(* Time is relative: a code has an age, capped where no comparison tells   *)
(* it from an older one, so the clock is unbounded.                        *)
(***************************************************************************)
EXTENDS Naturals

CONSTANTS Code,       \* codes that GenerateVerifier may draw
          User,
          Verifier,   \* verifiers; S256 is taken to be one-to-one
          Callback,
          Request,    \* concurrent exchanges
          TTL,        \* LoginHandoffTTL, in ticks
          None

VARIABLES row,      \* rows of login_handoffs
          req,      \* exchanges under way
          first,    \* history: the presentation that found a code unused
          granted   \* history: session tokens given for a code

vars == <<row, req, first, granted>>

ASSUME ConstantsOK ==
  /\ TTL \in Nat \ {0}
  /\ None \notin Verifier \cup Callback \cup Code \cup User

MaxAge == TTL + 1
Older(a) == IF a < MaxAge THEN a + 1 ELSE a

Absent == [state |-> "absent", user |-> None, challenge |-> None,
           callback |-> None, used |-> FALSE, age |-> 0]

\* LoginHandoffRepo.Create: expires_at is LoginHandoffTTL ahead.
NewRow(u, challenge, callback) ==
  [state |-> "live", user |-> u, challenge |-> challenge, callback |-> callback,
   used |-> FALSE, age |-> 0]

Idle == [pc |-> "idle", code |-> None, verifier |-> None, callback |-> None,
         seen |-> 0, won |-> FALSE]

Unpresented == [verifier |-> None, callback |-> None, seen |-> 0]

Live(c) == row[c].state = "live"

\* The challenge that a verifier answers.  The model takes it as its name.
S256(v) == v

Init ==
  /\ row = [c \in Code |-> Absent]
  /\ req = [r \in Request |-> Idle]
  /\ first = [c \in Code |-> Unpresented]
  /\ granted = [c \in Code |-> 0]

\* LoginHandoffUseCase.Issue: a new code, for a valid challenge and a callback.
\* None stands for an invalid challenge, and for no callback.
Issue(c, u, challenge, callback) ==
  /\ row[c].state = "absent"
  /\ challenge \in {S256(v) : v \in Verifier}
  /\ callback # None
  /\ row' = [row EXCEPT ![c] = NewRow(u, challenge, callback)]
  /\ UNCHANGED <<req, first, granted>>

\* Exchange reads the clock.  Only a code that was issued can be presented.
Begin(r, c, v, callback) ==
  /\ req[r].pc = "idle"
  /\ row[c].state # "absent"
  /\ req' = [req EXCEPT ![r] = [pc |-> "consume", code |-> c, verifier |-> v,
               callback |-> callback, seen |-> row[c].age, won |-> FALSE]]
  /\ UNCHANGED <<row, first, granted>>

Presentation(r) ==
  [verifier |-> req[r].verifier, callback |-> req[r].callback, seen |-> req[r].seen]

\* The statement of Consume on an unused row, or on none.
Mark(r, hit) ==
  LET c == req[r].code IN
  /\ req[r].pc = "consume"
  /\ req' = [req EXCEPT ![r].pc = "find", ![r].won = hit]
  /\ row' = IF hit THEN [row EXCEPT ![c].used = TRUE] ELSE row
  /\ first' = IF first[c] = Unpresented /\ Live(c)
                THEN [first EXCEPT ![c] = Presentation(r)] ELSE first
  /\ UNCHANGED granted

\* Bug: the update does not ask for an unused row.
ConsumeAgain(r) == Mark(r, Live(req[r].code))

\* Bug: the verifier is part of the update, so a wrong one burns nothing.
ConsumeIfRight(r) ==
  LET c == req[r].code IN
  Mark(r, Live(c) /\ ~row[c].used /\ S256(req[r].verifier) = row[c].challenge)

\* LoginHandoffRepo.Consume, its conditional update.
Consume(r) ==
  LET c == req[r].code IN Mark(r, Live(c) /\ ~row[c].used)

\* The order of the checks tells the reasons apart in the log only.
Accepted(r) ==
  LET c == req[r].code IN
  /\ Live(c)
  /\ req[r].won
  /\ req[r].seen < TTL
  /\ S256(req[r].verifier) = row[c].challenge
  /\ req[r].callback = row[c].callback

\* The query of Consume, the checks of Exchange and the session token.
Find(r) ==
  LET c == req[r].code IN
  /\ req[r].pc = "find"
  /\ req' = [req EXCEPT ![r] = Idle]
  /\ granted' = IF Accepted(r) THEN [granted EXCEPT ![c] = @ + 1] ELSE granted
  /\ UNCHANGED <<row, first>>

\* An exchange fails, or its client goes away: the code stays as it is.
Fail(r) ==
  /\ req[r].pc # "idle"
  /\ req' = [req EXCEPT ![r] = Idle]
  /\ UNCHANGED <<row, first, granted>>

\* Deletion of the rows chosen.
Delete(S) ==
  row' = [c \in Code |-> IF c \in S THEN [row[c] EXCEPT !.state = "gone"] ELSE row[c]]

\* Bug: used codes are kept.
SweepUnused ==
  /\ Delete({c \in Code : Live(c) /\ row[c].age > TTL /\ ~row[c].used})
  /\ UNCHANGED <<req, first, granted>>

\* LoginHandoffUseCase.Sweep: the codes that expired before now, used or not.
Sweep ==
  /\ Delete({c \in Code : Live(c) /\ row[c].age > TTL})
  /\ UNCHANGED <<req, first, granted>>

\* The rows of a user who is deleted go with the user.
DeleteUser(u) ==
  /\ Delete({c \in Code : Live(c) /\ row[c].user = u})
  /\ UNCHANGED <<req, first, granted>>

Tick ==
  /\ row' = [c \in Code |->
       IF row[c].state = "absent" THEN row[c] ELSE [row[c] EXCEPT !.age = Older(@)]]
  /\ UNCHANGED <<req, first, granted>>

Next ==
  \/ \E c \in Code, u \in User :
       \E ch \in Verifier \cup {None}, cb \in Callback \cup {None} : Issue(c, u, ch, cb)
  \/ \E r \in Request :
       \/ \E c \in Code, v \in Verifier, cb \in Callback : Begin(r, c, v, cb)
       \/ Consume(r) \/ Find(r) \/ Fail(r)
  \/ \E u \in User : DeleteUser(u)
  \/ Sweep \/ Tick

Spec == Init /\ [][Next]_vars

\* The ticker of StartSweeper fires, whatever the last sweep's outcome, and time
\* passes.
FairSpec == Spec /\ WF_vars(Sweep) /\ WF_vars(Tick)

-----------------------------------------------------------------------------
(* Properties.                                                              *)

Presentations == [verifier : Verifier, callback : Callback, seen : 0..MaxAge]

Rows == [state : {"absent", "live", "gone"}, user : User \cup {None},
         challenge : Verifier \cup {None}, callback : Callback \cup {None},
         used : BOOLEAN, age : 0..MaxAge]

Exchanges == [pc : {"idle", "consume", "find"}, code : Code \cup {None},
              verifier : Verifier \cup {None}, callback : Callback \cup {None},
              seen : 0..MaxAge, won : BOOLEAN]

TypeOK ==
  /\ row \in [Code -> Rows]
  /\ \A c \in Code : row[c].state # "absent" => row[c].callback \in Callback
  /\ req \in [Request -> Exchanges]
  /\ \A r \in Request : req[r].pc # "idle" =>
       req[r].code \in Code /\ req[r].verifier \in Verifier /\ req[r].callback \in Callback
  /\ first \in [Code -> Presentations \cup {Unpresented}]
  /\ granted \in [Code -> Nat]

\* A code gives at most one session token, however many exchanges of it run at
\* once or are repeated.
SingleUse == \A c \in Code : granted[c] <= 1

\* The session token of a code goes to its first presentation, and only if that
\* one carried the verifier of the login's challenge and its callback, and read
\* the clock before the code expired: a presentation that fails burns the code.
RightfulSession ==
  \A c \in Code : granted[c] > 0 =>
    /\ first[c] # Unpresented
    /\ S256(first[c].verifier) = row[c].challenge
    /\ first[c].callback = row[c].callback
    /\ first[c].seen < TTL

\* The one-time code behind the rows and the exchanges: a used code is won while
\* the exchange that marked it is about to be accepted, and burnt otherwise.
Winning(c) == \E r \in Request : req[r].pc = "find" /\ req[r].code = c /\ Accepted(r)

CodePhase(c) ==
  IF granted[c] > 0 THEN "session"
  ELSE IF row[c].state = "absent" THEN "unborn"
  ELSE IF Live(c) /\ ~row[c].used THEN "fresh"
  ELSE IF Winning(c) THEN "won" ELSE "burnt"

Offer(verifier, callback) == [challenge |-> S256(verifier), callback |-> callback]
Offers == [challenge : {S256(v) : v \in Verifier}, callback : Callback]

CodePhases == [c \in Code |-> CodePhase(c)]
CodeTerms ==
  [c \in Code |-> IF row[c].state = "absent" THEN None
                  ELSE [challenge |-> row[c].challenge, callback |-> row[c].callback]]
CodeTakers ==
  [c \in Code |-> IF first[c] = Unpresented THEN None
                  ELSE [offer |-> Offer(first[c].verifier, first[c].callback),
                        ontime |-> first[c].seen < TTL]]

OTC == INSTANCE OneTimeCode WITH
  Terms <- Offers,
  phase <- CodePhases, terms <- CodeTerms, taker <- CodeTakers, sessions <- granted

\* The exchange, although it marks the code and reads its row in two steps, with
\* the sweeper, deletions, failures and other exchanges in between, acts on every
\* code as one step would: the first presentation settles it (Exchange, Consume).
ImplementsOneTimeCode == OTC!Spec

\* Every code is deleted in the end, used or not.
CodesDeleted == \A c \in Code : Live(c) ~> ~Live(c)
=============================================================================
