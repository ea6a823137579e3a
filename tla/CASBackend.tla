----------------------------- MODULE CASBackend -----------------------------
(***************************************************************************)
(* The CAS backends of one organization: which one is the default, which   *)
(* one the fallback, which ones are deleted and whether the last           *)
(* validation succeeded, under the requests of CASBackendUseCase (Create,  *)
(* Update, SoftDelete, PerformValidation, FindDefaultOrFallbackBackend)    *)
(* and of AttestationService.GetUploadCreds.                               *)
(*                                                                         *)
(* A request is a sequence of queries and transactions.  A transaction that*)
(* makes a backend the default first clears the flag of the rows that are  *)
(* committed with it when the UPDATE starts (PostgreSQL, READ COMMITTED),  *)
(* then waits for their locks and writes the ones that still have it: the  *)
(* step that picks the rows and the step that writes and commits.  A       *)
(* transaction that loses a deadlock is one of the requests that fail.     *)
(***************************************************************************)
EXTENDS Naturals, FiniteSets

CONSTANTS
  Backend,    \* backends, each created at most once
  Inline,     \* the organization's inline backend
  Managed,    \* backends provisioned by the operator, outside this code
  Unreliable, \* backends that may become unreachable and recover
  Request,    \* concurrent requests; one that has ended may be made again
  Ops,        \* the operations requested
  None,
  MaxFaults   \* bound: requests that fail half way

VARIABLES
  row,      \* cas_backends rows
  up,       \* whether a validation of each backend would succeed now
  req,      \* local state of each request
  overlap,  \* history: two requests that change rows were under way at once
  verdict,  \* history: the result of the last validation recorded for each backend
  faults

vars == <<row, up, req, overlap, verdict, faults>>

-----------------------------------------------------------------------------
\* Optional flags of an update are "unset", "yes" or "no".
Flag == {"unset", "yes", "no"}
CreateOp == [op : {"create"}, b : Backend, default : {"yes", "no"}, fallback : {"yes", "no"}]
UpdateOp == [op : {"update"}, b : Backend, default : Flag, fallback : Flag, creds : BOOLEAN]
PlainOp == [op : {"delete", "validate", "creds", "find"}, b : Backend]

Op == CreateOp \cup UpdateOp \cup PlainOp

NoOp == [op |-> "none"]

ASSUME ConstantsAssumption ==
  /\ Inline \in Backend
  /\ Managed \subseteq Backend \ {Inline}
  /\ \A a, b \in Managed : a = b   \* FindManagedBackend expects one at most
  /\ Unreliable \subseteq Backend \ {Inline}
  /\ Ops \subseteq Op
  /\ \A op \in Ops : op.op = "create" => op.b \notin Managed \cup {Inline}
  /\ None \notin Backend
  /\ MaxFaults \in Nat

Row == [exists : BOOLEAN, deleted : BOOLEAN, default : BOOLEAN, fallback : BOOLEAN,
        status : {"OK", "Invalid"}]

\* What a request remembers of the row it has read.
Known == [default : BOOLEAN, status : {"OK", "Invalid"}]

Phase == {"secret", "read", "pick", "commit", "after", "probe", "status", "reload",
          "softdelete", "fallback", "managed", "inline", "promote", "default", "second",
          "done", "failed"}

\* was: the row that the request has read; picked: the rows whose flag its UPDATE
\* will clear; cand: the backend to promote; ok: the result of its validation.
Idle == [pc |-> "done", op |-> NoOp, was |-> [default |-> FALSE, status |-> "OK"],
         picked |-> {}, cand |-> None, ok |-> TRUE]

\* An organization starts with its inline backend as the default; managed
\* backends are provisioned by somebody else.
Init ==
  /\ row = [b \in Backend |->
              [exists |-> b \in Managed \cup {Inline}, deleted |-> FALSE,
               default |-> b = Inline, fallback |-> FALSE, status |-> "OK"]]
  /\ up = [b \in Backend |-> TRUE]
  /\ req = [q \in Request |-> Idle]
  /\ overlap = FALSE
  /\ verdict = [b \in Backend |-> "OK"]
  /\ faults = 0

Live(b) == row[b].exists /\ ~row[b].deleted

Defaults == {b \in Backend : Live(b) /\ row[b].default}
Fallbacks == {b \in Backend : Live(b) /\ row[b].fallback}

Ended(q) == req[q].pc \in {"done", "failed"}
Writes(op) == op.op \in {"create", "update", "delete", "validate", "creds"}

Go(q, pc) == req' = [req EXCEPT ![q].pc = pc]
End(q, pc) == req' = [req EXCEPT ![q] = [Idle EXCEPT !.pc = pc]]

-----------------------------------------------------------------------------
\* The service validates new credentials before it calls the use case, which
\* refuses a backend that would be both default and fallback.
Begin(q, op) ==
  /\ Ended(q)
  /\ ~(op.op \in {"create", "update"} /\ op.default = "yes" /\ op.fallback = "yes")
  /\ req' = [req EXCEPT ![q] = [Idle EXCEPT !.op = op, !.pc =
               IF op.op = "create" THEN "secret" ELSE IF op.op = "find" THEN "default" ELSE "read"]]
  /\ overlap' = (overlap \/ (Writes(op) /\ \E r \in Request : ~Ended(r) /\ Writes(req[r].op)))
  /\ UNCHANGED <<row, up, verdict, faults>>

\* What a request does with the backend it has found.
AfterRead(op) ==
  CASE op.op = "update" ->
         IF op.b \in Managed \/ (op.creds /\ op.b = Inline) THEN "failed"
         ELSE IF op.creds THEN "secret" ELSE "pick"
    [] op.op = "delete" -> IF op.b \in Managed \cup {Inline} THEN "failed" ELSE "softdelete"
    [] op.op = "validate" -> IF op.b = Inline THEN "failed" ELSE "probe"
    [] OTHER -> IF row[op.b].status = "OK" THEN "done" ELSE "probe"   \* GetUploadCreds

\* FindByIDInOrg, or the backend of the run, which may be a deleted one.
Read(q) ==
  /\ req[q].pc = "read"
  /\ LET b == req[q].op.b
         found == IF req[q].op.op = "creds" THEN row[b].exists ELSE Live(b)
         next == IF found THEN AfterRead(req[q].op) ELSE "failed"
     IN  IF next \in {"done", "failed"} THEN End(q, next)
         ELSE req' = [req EXCEPT ![q].pc = next, ![q].was =
                                   [default |-> row[b].default, status |-> row[b].status]]
  /\ UNCHANGED <<row, up, overlap, verdict, faults>>

\* SaveCredentials: the credentials, which have just been checked, replace the
\* old ones whatever happens to the request later.
SaveCredentials(q) ==
  /\ req[q].pc = "secret"
  /\ up' = [up EXCEPT ![req[q].op.b] = TRUE]
  /\ Go(q, "pick")
  /\ UNCHANGED <<row, overlap, verdict, faults>>

\* Mutant of Picked: the previous default is not unset by an update.
PickedByCreate(op) ==
  IF op.default = "yes" /\ op.op = "create" THEN {b \in Backend : row[b].default}
  ELSE IF op.fallback = "yes" THEN {b \in Backend : row[b].fallback} ELSE {}

\* The rows that the UPDATE which unsets the flag of the others starts with.
Picked(op) ==
  IF op.default = "yes" THEN {b \in Backend : row[b].default}
  ELSE IF op.fallback = "yes" THEN {b \in Backend : row[b].fallback} ELSE {}

Pick(q) ==
  /\ req[q].pc = "pick"
  /\ req' = [req EXCEPT ![q].pc = "commit", ![q].picked = Picked(req[q].op)]
  /\ UNCHANGED <<row, up, overlap, verdict, faults>>

Cleared(op, r) ==
  IF op.default = "yes" THEN [r EXCEPT !.default = FALSE] ELSE [r EXCEPT !.fallback = FALSE]

\* Mutant of Written: an update does not make the two flags exclusive.
WrittenNotExclusive(q, r) ==
  LET op == req[q].op
      set(flag, old) == IF flag = "unset" THEN old ELSE flag = "yes"
  IN  [exists |-> TRUE, deleted |-> r.deleted,
       default |-> set(op.default, r.default), fallback |-> set(op.fallback, r.fallback),
       status |-> IF op.op = "update" /\ ~op.creds THEN req[q].was.status ELSE r.status]

\* Mutant of Written: an update resets the status.
WrittenResets(q, r) ==
  LET op == req[q].op
      set(flag, old) == IF flag = "unset" THEN old ELSE flag = "yes"
  IN  [exists |-> TRUE, deleted |-> r.deleted,
       default |-> op.fallback # "yes" /\ set(op.default, r.default),
       fallback |-> op.default # "yes" /\ set(op.fallback, r.fallback),
       status |-> IF op.op = "update" /\ ~op.creds THEN "OK" ELSE r.status]

\* The row of the backend itself: the flags that were given, each excluding the
\* other, and, unless the credentials change, the status that was read.
Written(q, r) ==
  LET op == req[q].op
      set(flag, old) == IF flag = "unset" THEN old ELSE flag = "yes"
  IN  [exists |-> TRUE, deleted |-> r.deleted,
       default |-> op.fallback # "yes" /\ set(op.default, r.default),
       fallback |-> op.default # "yes" /\ set(op.fallback, r.fallback),
       status |-> IF op.op = "update" /\ ~op.creds THEN req[q].was.status ELSE r.status]

\* CASBackendRepo.Create and Update.  A name that was taken meanwhile rolls the
\* creation back; an update does not notice that its row was deleted.
Commit(q) ==
  /\ req[q].pc = "commit"
  /\ LET op == req[q].op IN
     IF op.op = "create" /\ row[op.b].exists
     THEN End(q, "failed") /\ UNCHANGED row
     ELSE /\ row' = [b \in Backend |->
                       IF b = op.b THEN Written(q, row[b])
                       ELSE IF b \in req[q].picked THEN Cleared(op, row[b]) ELSE row[b]]
          /\ Go(q, "after")
  /\ UNCHANGED <<up, overlap, verdict, faults>>

\* If the backend was the default and is no longer, another one is promoted.
Decide(q) ==
  IF req[q].was.default /\ ~row[req[q].op.b].default THEN Go(q, "fallback") ELSE End(q, "done")

\* FindByID after the commit; a request whose backend is gone panics.
After(q) ==
  /\ req[q].pc = "after"
  /\ IF ~Live(req[q].op.b) THEN End(q, "failed")
     ELSE IF req[q].op.op = "create" THEN End(q, "done")
     ELSE IF req[q].op.creds THEN Go(q, "probe") ELSE Decide(q)
  /\ UNCHANGED <<row, up, overlap, verdict, faults>>

Reload(q) ==
  /\ req[q].pc = "reload"
  /\ IF Live(req[q].op.b) THEN Decide(q) ELSE End(q, "failed")
  /\ UNCHANGED <<row, up, overlap, verdict, faults>>

-----------------------------------------------------------------------------
\* PerformValidation: the backend is found and tried ...
Probe(q) ==
  /\ req[q].pc = "probe"
  /\ LET op == req[q].op IN
     IF Live(op.b) THEN req' = [req EXCEPT ![q].pc = "status", ![q].ok = up[op.b]]
     ELSE IF op.op = "update" THEN Go(q, "reload") ELSE End(q, "failed")
  /\ UNCHANGED <<row, up, overlap, verdict, faults>>

\* ... and the result recorded if the backend is still there.  A failed
\* validation is not an error: whoever called it goes on.
UpdateValidationStatus(q) ==
  /\ req[q].pc = "status"
  /\ IF Live(req[q].op.b)
     THEN LET status == IF req[q].ok THEN "OK" ELSE "Invalid" IN
          /\ row' = [row EXCEPT ![req[q].op.b].status = status]
          /\ verdict' = [verdict EXCEPT ![req[q].op.b] = status]
     ELSE UNCHANGED <<row, verdict>>
  /\ IF req[q].op.op = "update" THEN Go(q, "reload") ELSE End(q, "done")
  /\ UNCHANGED <<up, overlap, faults>>

-----------------------------------------------------------------------------
\* SoftDelete, and the promotion of the next default in a transaction of its own.
SoftDelete(q) ==
  /\ req[q].pc = "softdelete"
  /\ row' = [row EXCEPT ![req[q].op.b].deleted = TRUE]
  /\ IF req[q].was.default THEN Go(q, "fallback") ELSE End(q, "done")
  /\ UNCHANGED <<up, overlap, verdict, faults>>

\* The backend that was just demoted is not promoted.
Excluded(q) == IF req[q].op.op = "update" THEN {req[q].op.b} ELSE {}

\* A finder expects at most one row; otherwise the request fails.
TryCandidate(q, found, next) ==
  IF Cardinality(found) > 1 THEN End(q, "failed")
  ELSE IF found \ Excluded(q) = {} THEN IF next = "done" THEN End(q, next) ELSE Go(q, next)
  ELSE \E b \in found : req' = [req EXCEPT ![q].pc = "promote", ![q].cand = b]

\* findPromotionCandidate: the fallback, else the managed, else the inline one.
FindCandidate(q) ==
  /\ \/ req[q].pc = "fallback" /\ TryCandidate(q, Fallbacks, "managed")
     \/ req[q].pc = "managed" /\ TryCandidate(q, {b \in Managed : Live(b)}, "inline")
     \/ req[q].pc = "inline" /\ TryCandidate(q, {Inline}, "done")
  /\ UNCHANGED <<row, up, overlap, verdict, faults>>

\* Mutant of Promote: a request that deletes the default promotes nothing.
PromoteUpdated(q) ==
  /\ req[q].pc = "promote"
  /\ row' = IF req[q].op.op = "delete" THEN row
            ELSE [row EXCEPT ![req[q].cand].default = TRUE, ![req[q].cand].fallback = FALSE]
  /\ End(q, "done")
  /\ UNCHANGED <<up, overlap, verdict, faults>>

\* The update that promotes carries no organization: it unsets no other default.
Promote(q) ==
  /\ req[q].pc = "promote"
  /\ row' = [row EXCEPT ![req[q].cand].default = TRUE, ![req[q].cand].fallback = FALSE]
  /\ End(q, "done")
  /\ UNCHANGED <<up, overlap, verdict, faults>>

-----------------------------------------------------------------------------
\* FindDefaultOrFallbackBackend, when an attestation is initialized.
FindDefault(q) ==
  /\ req[q].pc = "default"
  /\ IF Cardinality(Defaults) # 1 THEN End(q, "failed")
     ELSE IF \E b \in Defaults : row[b].status = "OK" THEN End(q, "done") ELSE Go(q, "second")
  /\ UNCHANGED <<row, up, overlap, verdict, faults>>

FindFallback(q) ==
  /\ req[q].pc = "second"
  /\ End(q, IF Cardinality(Fallbacks) = 1 /\ \E b \in Fallbacks : row[b].status = "OK"
            THEN "done" ELSE "failed")
  /\ UNCHANGED <<row, up, overlap, verdict, faults>>

\* A query fails, the client's deadline passes or the server dies.
Fails(q) ==
  /\ ~Ended(q)
  /\ faults < MaxFaults
  /\ faults' = faults + 1
  /\ End(q, "failed")
  /\ UNCHANGED <<row, up, overlap, verdict>>

\* A backend becomes unreachable, its credentials expire, or it recovers.
Flip(b) ==
  /\ b \in Unreliable /\ row[b].exists
  /\ up' = [up EXCEPT ![b] = ~@]
  /\ UNCHANGED <<row, req, overlap, verdict, faults>>

-----------------------------------------------------------------------------
Step(q) ==
  \/ Read(q) \/ SaveCredentials(q) \/ Pick(q) \/ Commit(q) \/ After(q) \/ Reload(q)
  \/ Probe(q) \/ UpdateValidationStatus(q) \/ SoftDelete(q) \/ FindCandidate(q)
  \/ Promote(q) \/ FindDefault(q) \/ FindFallback(q)

Next ==
  \/ \E q \in Request : Step(q) \/ Fails(q) \/ \E op \in Ops : Begin(q, op)
  \/ \E b \in Backend : Flip(b)

Spec == Init /\ [][Next]_vars

-----------------------------------------------------------------------------
\* Properties.

\* Every variable keeps its type, and a request under way has an operation.
TypeOK ==
  /\ row \in [Backend -> Row]
  /\ up \in [Backend -> BOOLEAN]
  /\ req \in [Request -> [pc : Phase, op : Ops \cup {NoOp},
                          was : Known,
                          picked : SUBSET Backend, cand : Backend \cup {None}, ok : BOOLEAN]]
  /\ \A q \in Request : ~Ended(q) => req[q].op \in Ops
  /\ overlap \in BOOLEAN
  /\ verdict \in [Backend -> {"OK", "Invalid"}]
  /\ faults \in 0..MaxFaults

\* No backend is ever both the default and the fallback, however the requests
\* that set and unset the flags and the promotions interleave.
NeverBoth == \A b \in Backend : ~(row[b].default /\ row[b].fallback)

\* As long as requests that change backends do not overlap, an organization has
\* at most one default and one fallback, in any sequence of creations, updates
\* and deletions, whichever of them failed half way.
SerialElection ==
  ~overlap => Cardinality(Defaults) <= 1 /\ Cardinality(Fallbacks) <= 1

\* If besides none of them failed and none demotes the inline backend, there is
\* a default again once they have ended: the deletion or demotion of the default
\* always finds a successor.
DefaultKept ==
  (/\ ~overlap
   /\ faults = 0
   /\ \A op \in Ops : op.op = "update" /\ op.b = Inline => op.default # "no" /\ op.fallback # "yes"
   /\ \A q \in Request : Ended(q))
  => Defaults # {}

\* As long as requests do not overlap, the status of a backend is what its last
\* validation found: no update of other fields resets or revives one.
SerialStatus ==
  ~overlap => \A b \in Backend : row[b].status = verdict[b]
=============================================================================
