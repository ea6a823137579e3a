-------------------------- MODULE CASBackendProofs --------------------------
(***************************************************************************)
(* The safety of CAS backends under overlapping requests, for every set of *)
(* backends, requests and operations and every number of faults, and the   *)
(* mutual exclusion of the replicas that check them.                       *)
(***************************************************************************)
EXTENDS CASBackend, CASBackendChecker, FiniteSetTheorems, TLAPS

Local == [pc : Phase, op : Ops \cup {NoOp},
          was : Known,
          picked : SUBSET Backend, cand : Backend \cup {None}, ok : BOOLEAN]

\* A request that has ended, or moved on, is well formed.
LEMMA RequestType ==
  ASSUME NEW q \in Request, NEW pc \in Phase, req \in [Request -> Local]
  PROVE  /\ End(q, pc) => req' \in [Request -> Local]
         /\ Go(q, pc) => req' \in [Request -> Local]
<1>1. Idle \in Local
  BY DEF Idle, Local, Phase, Known
<1>2. [Idle EXCEPT !.pc = pc] \in Local /\ [req[q] EXCEPT !.pc = pc] \in Local
  BY <1>1 DEF Local
<1>3. End(q, pc) => req' \in [Request -> Local]
  BY <1>2 DEF End
<1>4. Go(q, pc) => req' \in [Request -> Local]
  <2>1. Go(q, pc) => req' = [req EXCEPT ![q] = [req[q] EXCEPT !.pc = pc]]
    BY DEF Go
  <2> QED BY <1>2, <2>1
<1> QED BY <1>3, <1>4

\* A request keeps its type whatever decision it takes after an update.
LEMMA DecideType ==
  ASSUME NEW q \in Request, req \in [Request -> Local], Decide(q)
  PROVE  req' \in [Request -> Local]
<1>1. "fallback" \in Phase /\ "done" \in Phase
  BY DEF Phase
<1> QED BY <1>1, RequestType DEF Decide

\* The row that a transaction leaves for its own backend is well formed, and has
\* both flags only if the row had them before.
LEMMA WrittenFacts ==
  ASSUME NEW q \in Request, NEW r \in Row, req \in [Request -> Local]
  PROVE  /\ Written(q, r) \in Row
         /\ ~(r.default /\ r.fallback) => ~(Written(q, r).default /\ Written(q, r).fallback)
<1>1. req[q].was.status \in {"OK", "Invalid"}
  BY DEF Local, Known
<1> DEFINE op == req[q].op
           set(flag, old) == IF flag = "unset" THEN old ELSE flag = "yes"
           d == op.fallback # "yes" /\ set(op.default, r.default)
           f == op.default # "yes" /\ set(op.fallback, r.fallback)
           s == IF op.op = "update" /\ ~op.creds THEN req[q].was.status ELSE r.status
<1>2. r.deleted \in BOOLEAN /\ r.default \in BOOLEAN /\ r.fallback \in BOOLEAN
      /\ r.status \in {"OK", "Invalid"}
  BY DEF Row
<1>3. d \in BOOLEAN /\ f \in BOOLEAN /\ s \in {"OK", "Invalid"}
  BY <1>1, <1>2
<1>4. ~(r.default /\ r.fallback) => ~(d /\ f)
  OBVIOUS
<1>5. Written(q, r) = [exists |-> TRUE, deleted |-> r.deleted, default |-> d,
                       fallback |-> f, status |-> s]
  BY DEF Written
<1> HIDE DEF d, f, s
<1> QED BY <1>2, <1>3, <1>4, <1>5 DEF Row

\* Unsetting a flag keeps a row well formed and adds no flag.
LEMMA ClearedFacts ==
  ASSUME NEW op, NEW r \in Row
  PROVE  /\ Cleared(op, r) \in Row
         /\ ~(r.default /\ r.fallback) => ~(Cleared(op, r).default /\ Cleared(op, r).fallback)
BY DEF Cleared, Row

\* The rows after a commit.
LEMMA CommitRows ==
  ASSUME NEW q \in Request, TypeOK, Commit(q)
  PROVE  row' \in [Backend -> Row] /\ (NeverBoth => NeverBoth')
<1>0. req \in [Request -> Local] /\ row \in [Backend -> Row]
  BY DEF TypeOK, Local
<1> DEFINE op == req[q].op
           new(b) == IF b = op.b THEN Written(q, row[b])
                     ELSE IF b \in req[q].picked THEN Cleared(op, row[b]) ELSE row[b]
<1>1. ASSUME NEW b \in Backend
      PROVE  /\ new(b) \in Row
             /\ ~(row[b].default /\ row[b].fallback) => ~(new(b).default /\ new(b).fallback)
  <2>1. row[b] \in Row
    BY <1>0
  <2> QED BY <1>0, <2>1, WrittenFacts, ClearedFacts
<1>2. CASE row' = row
  BY <1>0, <1>2 DEF NeverBoth
<1>3. CASE row' = [b \in Backend |-> new(b)]
  <2> HIDE DEF new
  <2> QED BY <1>1, <1>3 DEF NeverBoth
<1>4. row' = row \/ row' = [b \in Backend |-> new(b)]
  BY DEF Commit
<1> QED BY <1>2, <1>3, <1>4

\* Changing one row within its type keeps the rows well formed.
LEMMA OneRow ==
  ASSUME NEW b, NEW r, row \in [Backend -> Row], b \in Backend => r \in Row,
         row' = [row EXCEPT ![b] = r],
         b \in Backend => (~(row[b].default /\ row[b].fallback) => ~(r.default /\ r.fallback))
  PROVE  row' \in [Backend -> Row] /\ (NeverBoth => NeverBoth')
BY DEF NeverBoth

\* Every step that changes rows keeps them well formed and the flags exclusive.
LEMMA RowStep ==
  ASSUME TypeOK, [Next]_vars
  PROVE  row' \in [Backend -> Row] /\ (NeverBoth => NeverBoth')
<1>0. row \in [Backend -> Row]
  BY DEF TypeOK
<1>1. CASE row' = row
  BY <1>0, <1>1 DEF NeverBoth
<1>2. ASSUME NEW q \in Request, Commit(q)
      PROVE  row' \in [Backend -> Row] /\ (NeverBoth => NeverBoth')
  BY <1>2, CommitRows
<1>3. ASSUME NEW q \in Request, UpdateValidationStatus(q)
      PROVE  row' \in [Backend -> Row] /\ (NeverBoth => NeverBoth')
  <2> DEFINE b == req[q].op.b
             s == IF req[q].ok THEN "OK" ELSE "Invalid"
             r == [row[b] EXCEPT !.status = s]
  <2>1. CASE row' = [row EXCEPT ![b].status = s]
    <3>1. row' = [row EXCEPT ![b] = r]
      BY <2>1
    <3>2. b \in Backend => r \in Row
      BY <1>0 DEF Row
    <3>3. b \in Backend => (r.default = row[b].default /\ r.fallback = row[b].fallback)
      BY <1>0 DEF Row
    <3> HIDE DEF b, r
    <3> QED BY <1>0, <3>1, <3>2, <3>3, OneRow
  <2> QED BY <1>1, <1>3, <2>1 DEF UpdateValidationStatus
<1>4. ASSUME NEW q \in Request, SoftDelete(q)
      PROVE  row' \in [Backend -> Row] /\ (NeverBoth => NeverBoth')
  <2> DEFINE b == req[q].op.b
             r == [row[b] EXCEPT !.deleted = TRUE]
  <2>1. row' = [row EXCEPT ![b] = r]
    BY <1>4 DEF SoftDelete
  <2>2. b \in Backend => r \in Row
    BY <1>0 DEF Row
  <2>3. b \in Backend => (r.default = row[b].default /\ r.fallback = row[b].fallback)
    BY <1>0 DEF Row
  <2> HIDE DEF b, r
  <2> QED BY <1>0, <2>1, <2>2, <2>3, OneRow
<1>5. ASSUME NEW q \in Request, Promote(q)
      PROVE  row' \in [Backend -> Row] /\ (NeverBoth => NeverBoth')
  <2> DEFINE b == req[q].cand
             r == [row[b] EXCEPT !.default = TRUE, !.fallback = FALSE]
  <2>1. row' = [row EXCEPT ![b] = r]
    <3>1. row' = [row EXCEPT ![b].default = TRUE, ![b].fallback = FALSE]
      BY <1>5 DEF Promote
    <3> QED BY <1>0, <3>1
  <2>2. b \in Backend => r \in Row /\ ~r.fallback
    BY <1>0 DEF Row
  <2> HIDE DEF b, r
  <2> QED BY <1>0, <2>1, <2>2, OneRow
<1>6. \/ row' = row
      \/ \E q \in Request : \/ Commit(q) \/ UpdateValidationStatus(q)
                            \/ SoftDelete(q) \/ Promote(q)
  BY DEF Next, Step, Begin, Read, SaveCredentials, Pick, After, Reload, Probe, FindCandidate,
         FindDefault, FindFallback, Fails, Flip, vars
<1> QED BY <1>1, <1>2, <1>3, <1>4, <1>5, <1>6

\* A request under way is about some backend.
LEMMA OperationBackend ==
  ASSUME TypeOK, NEW q \in Request, ~Ended(q)
  PROVE  req[q].op.b \in Backend
<1>1. req[q].op \in Op
  BY ConstantsAssumption DEF TypeOK
<1> QED BY <1>1 DEF Op, CreateOp, UpdateOp, PlainOp

\* Requests keep their type in every step of one of them.
LEMMA RequestStep ==
  ASSUME TypeOK, NEW q \in Request, Step(q) \/ Fails(q)
  PROVE  req' \in [Request -> Local]
<1>0. req \in [Request -> Local] /\ row \in [Backend -> Row] /\ up \in [Backend -> BOOLEAN]
  BY DEF TypeOK, Local
<1>1. /\ "done" \in Phase /\ "failed" \in Phase /\ "pick" \in Phase /\ "after" \in Phase
      /\ "probe" \in Phase /\ "reload" \in Phase /\ "fallback" \in Phase /\ "managed" \in Phase
      /\ "inline" \in Phase /\ "second" \in Phase /\ "commit" \in Phase /\ "status" \in Phase
      /\ "promote" \in Phase
  BY DEF Phase
<1>2. CASE Read(q)
  <2> DEFINE b == req[q].op.b
             found == IF req[q].op.op = "creds" THEN row[b].exists ELSE Live(b)
             next == IF found THEN AfterRead(req[q].op) ELSE "failed"
  <2>1. AfterRead(req[q].op) \in Phase
    BY DEF AfterRead, Phase
  <2>2. next \in Phase
    BY <1>1, <2>1
  <2>3. CASE next \in {"done", "failed"}
    <3>1. End(q, next)
      BY <1>2, <2>3 DEF Read
    <3> HIDE DEF next
    <3> QED BY <1>0, <2>2, <3>1, RequestType
  <2>4. CASE next \notin {"done", "failed"}
    <3> DEFINE w == [default |-> row[b].default, status |-> row[b].status]
    <3>1. req' = [req EXCEPT ![q].pc = next, ![q].was = w]
      BY <1>2, <2>4 DEF Read
    <3>2. b \in Backend
      BY <1>2, OperationBackend DEF Read, Ended
    <3>3. row[b].default \in BOOLEAN /\ row[b].status \in {"OK", "Invalid"}
      BY <1>0, <3>2 DEF Row
    <3>4. w \in Known
      BY <3>3 DEF Known
    <3> HIDE DEF next, w
    <3>5. [req[q] EXCEPT !.pc = next, !.was = w] \in Local
      BY <1>0, <2>2, <3>4 DEF Local
    <3>6. req' = [req EXCEPT ![q] = [req[q] EXCEPT !.pc = next, !.was = w]]
      BY <1>0, <3>1
    <3> QED BY <1>0, <3>5, <3>6
  <2> QED BY <2>3, <2>4
<1>3. CASE SaveCredentials(q)
  BY <1>0, <1>1, <1>3, RequestType DEF SaveCredentials
<1>4. CASE Pick(q)
  <2>1. Picked(req[q].op) \in SUBSET Backend
    BY DEF Picked
  <2>2. req' = [req EXCEPT ![q].pc = "commit", ![q].picked = Picked(req[q].op)]
    BY <1>4 DEF Pick
  <2>3. [req[q] EXCEPT !.pc = "commit", !.picked = Picked(req[q].op)] \in Local
    BY <1>0, <1>1, <2>1 DEF Local
  <2>4. req' = [req EXCEPT ![q] = [req[q] EXCEPT !.pc = "commit", !.picked = Picked(req[q].op)]]
    BY <1>0, <2>2
  <2> QED BY <1>0, <2>3, <2>4
<1>5. CASE Commit(q)
  BY <1>0, <1>1, <1>5, RequestType DEF Commit
<1>6. CASE After(q) \/ Reload(q)
  BY <1>0, <1>1, <1>6, RequestType, DecideType DEF After, Reload
<1>7. CASE Probe(q)
  <2>1. CASE req' = [req EXCEPT ![q].pc = "status", ![q].ok = up[req[q].op.b]]
        /\ Live(req[q].op.b)
    <3>1. up[req[q].op.b] \in BOOLEAN
      BY <1>0, <1>7, OperationBackend DEF Probe, Ended
    <3> DEFINE u == up[req[q].op.b]
    <3>2. req' = [req EXCEPT ![q].pc = "status", ![q].ok = u]
      BY <2>1
    <3> HIDE DEF u
    <3>3. [req[q] EXCEPT !.pc = "status", !.ok = u] \in Local
      BY <1>0, <1>1, <3>1 DEF Local, u
    <3>4. req' = [req EXCEPT ![q] = [req[q] EXCEPT !.pc = "status", !.ok = u]]
      BY <1>0, <3>2
    <3> QED BY <1>0, <3>3, <3>4
  <2> QED BY <1>0, <1>1, <1>7, <2>1, RequestType DEF Probe
<1>8. CASE UpdateValidationStatus(q)
  BY <1>0, <1>1, <1>8, RequestType DEF UpdateValidationStatus
<1>9. CASE SoftDelete(q)
  BY <1>0, <1>1, <1>9, RequestType DEF SoftDelete
<1>10. CASE FindCandidate(q)
  <2>1. ASSUME NEW found \in SUBSET Backend, NEW next \in {"managed", "inline", "done"},
               TryCandidate(q, found, next)
        PROVE  req' \in [Request -> Local]
    <3>1. next \in Phase
      BY DEF Phase
    <3>2. ASSUME NEW b \in found,
                 req' = [req EXCEPT ![q].pc = "promote", ![q].cand = b]
          PROVE  req' \in [Request -> Local]
      <4>1. [req[q] EXCEPT !.pc = "promote", !.cand = b] \in Local
        BY <1>0, <1>1 DEF Local
      <4>2. req' = [req EXCEPT ![q] = [req[q] EXCEPT !.pc = "promote", !.cand = b]]
        BY <1>0, <3>2
      <4> QED BY <1>0, <4>1, <4>2
    <3> QED BY <1>0, <1>1, <2>1, <3>1, <3>2, RequestType DEF TryCandidate
  <2>2. Fallbacks \in SUBSET Backend /\ {b \in Managed : Live(b)} \in SUBSET Backend
        /\ {Inline} \in SUBSET Backend
    BY ConstantsAssumption DEF Fallbacks
  <2> QED BY <1>10, <2>1, <2>2 DEF FindCandidate
<1>11. CASE Promote(q)
  BY <1>0, <1>1, <1>11, RequestType DEF Promote
<1>12. CASE FindDefault(q)
  BY <1>0, <1>1, <1>12, RequestType DEF FindDefault
<1>13. CASE FindFallback(q)
  BY <1>0, <1>1, <1>13, RequestType DEF FindFallback
<1>14. CASE Fails(q)
  BY <1>0, <1>1, <1>14, RequestType DEF Fails
<1> QED BY <1>2, <1>3, <1>4, <1>5, <1>6, <1>7, <1>8, <1>9, <1>10, <1>11, <1>12, <1>13, <1>14
        DEF Step

\* A request that goes on keeps its operation.
LEMMA OperationKept ==
  ASSUME TypeOK, NEW q \in Request, Step(q) \/ Fails(q)
  PROVE  \A r \in Request : ~Ended(r)' => req'[r].op \in Ops
<1>0. req \in [Request -> Local] /\ \A r \in Request : ~Ended(r) => req[r].op \in Ops
  BY DEF TypeOK, Local
<1>1. ~Ended(q)
  BY DEF Step, Fails, Ended, Read, SaveCredentials, Pick, Commit, After, Reload, Probe,
         UpdateValidationStatus, SoftDelete, FindCandidate, Promote, FindDefault, FindFallback
<1>2. ASSUME NEW r \in Request \ {q} PROVE req'[r] = req[r]
  BY <1>0 DEF Step, Fails, Read, SaveCredentials, Pick, Commit, After, Reload, Decide, Probe,
         UpdateValidationStatus, SoftDelete, FindCandidate, TryCandidate, Promote, FindDefault,
         FindFallback, Go, End
<1>3. req'[q].op = req[q].op \/ req'[q].pc \in {"done", "failed"}
  <2>1. ASSUME NEW pc, End(q, pc) PROVE req'[q].pc = pc
    BY <1>0, <2>1 DEF End, Idle
  <2>2. ASSUME NEW pc, Go(q, pc) PROVE req'[q].op = req[q].op
    BY <1>0, <2>2 DEF Go, Local
  <2>3. CASE Read(q)
    BY <1>0, <2>1, <2>3 DEF Read, Local
  <2>4. CASE Pick(q) \/ SaveCredentials(q)
    BY <1>0, <2>2, <2>4 DEF Pick, SaveCredentials, Local
  <2>5. CASE Probe(q) \/ UpdateValidationStatus(q)
    BY <1>0, <2>1, <2>2, <2>5 DEF Probe, UpdateValidationStatus, Local
  <2>6. CASE After(q) \/ Reload(q) \/ Commit(q)
    BY <2>1, <2>2, <2>6 DEF After, Reload, Decide, Commit
  <2>7. CASE SoftDelete(q) \/ Promote(q) \/ FindDefault(q) \/ FindFallback(q) \/ Fails(q)
    BY <2>1, <2>2, <2>7 DEF SoftDelete, Promote, FindDefault, FindFallback, Fails
  <2>8. CASE FindCandidate(q)
    BY <1>0, <2>1, <2>2, <2>8 DEF FindCandidate, TryCandidate, Local
  <2> QED BY <2>3, <2>4, <2>5, <2>6, <2>7, <2>8 DEF Step
<1>4. ASSUME NEW r \in Request, ~Ended(r)' PROVE req'[r].op \in Ops
  <2>1. CASE r = q
    BY <1>0, <1>1, <1>3, <1>4, <2>1 DEF Ended
  <2>2. CASE r # q
    <3>1. req'[r] = req[r]
      BY <1>2, <2>2
    <3> QED BY <1>0, <1>4, <3>1 DEF Ended
  <2> QED BY <2>1, <2>2
<1> QED BY <1>4

\* Type correctness and the exclusion of the two flags are preserved by every step.
LEMMA SafetyStep == TypeOK /\ NeverBoth /\ [Next]_vars => TypeOK' /\ NeverBoth'
<1> SUFFICES ASSUME TypeOK, NeverBoth, [Next]_vars PROVE TypeOK' /\ NeverBoth'
  OBVIOUS
<1>1. row' \in [Backend -> Row] /\ NeverBoth'
  BY RowStep
<1>2. /\ req' \in [Request -> Local]
      /\ \A q \in Request : ~Ended(q)' => req'[q].op \in Ops
  <2>1. ASSUME NEW q \in Request, Step(q) \/ Fails(q)
        PROVE  /\ req' \in [Request -> Local]
               /\ \A r \in Request : ~Ended(r)' => req'[r].op \in Ops
    BY <2>1, RequestStep, OperationKept
  <2>2. ASSUME NEW q \in Request, NEW op \in Ops, Begin(q, op)
        PROVE  /\ req' \in [Request -> Local]
               /\ \A r \in Request : ~Ended(r)' => req'[r].op \in Ops
    <3> DEFINE pc == IF op.op = "create" THEN "secret"
                     ELSE IF op.op = "find" THEN "default" ELSE "read"
               new == [Idle EXCEPT !.op = op, !.pc = pc]
    <3>0. req \in [Request -> Local] /\ \A r \in Request : ~Ended(r) => req[r].op \in Ops
      BY DEF TypeOK, Local
    <3>1. Idle \in Local /\ pc \in Phase
      BY DEF Idle, Local, Phase, Known
    <3>2. req' = [req EXCEPT ![q] = new]
      BY <2>2 DEF Begin
    <3> HIDE DEF pc
    <3>3. new \in Local /\ new.op = op
      BY <3>1 DEF Local
    <3> HIDE DEF new
    <3> QED BY <3>0, <3>2, <3>3 DEF Ended
  <2>3. CASE UNCHANGED req
    BY <2>3 DEF TypeOK, Local, Ended
  <2> QED BY <2>1, <2>2, <2>3 DEF Next, Flip, vars
<1>3. up' \in [Backend -> BOOLEAN]
  BY DEF TypeOK, Next, Step, Begin, Read, SaveCredentials, Pick, Commit, After, Reload, Probe,
         UpdateValidationStatus, SoftDelete, FindCandidate, Promote, FindDefault, FindFallback,
         Fails, Flip, vars
<1>4. overlap' \in BOOLEAN
  BY DEF TypeOK, Next, Step, Begin, Read, SaveCredentials, Pick, Commit, After, Reload, Probe,
         UpdateValidationStatus, SoftDelete, FindCandidate, Promote, FindDefault, FindFallback,
         Fails, Flip, vars
<1>6. faults' \in 0..MaxFaults
  <2>1. faults' = faults \/ (faults < MaxFaults /\ faults' = faults + 1)
    BY DEF Next, Step, Begin, Read, SaveCredentials, Pick, Commit, After, Reload, Probe,
           UpdateValidationStatus, SoftDelete, FindCandidate, Promote, FindDefault, FindFallback,
           Fails, Flip, vars
  <2> QED BY <2>1, ConstantsAssumption DEF TypeOK
<1>5. verdict' \in [Backend -> {"OK", "Invalid"}]
  BY DEF TypeOK, Next, Step, Begin, Read, SaveCredentials, Pick, Commit, After, Reload, Probe,
         UpdateValidationStatus, SoftDelete, FindCandidate, Promote, FindDefault, FindFallback,
         Fails, Flip, vars
<1> QED BY <1>1, <1>2, <1>3, <1>4, <1>5, <1>6 DEF TypeOK, Local

\* The initial state is well formed, and only the inline backend has a flag.
LEMMA InitSafe == Init => TypeOK /\ NeverBoth
<1> SUFFICES ASSUME Init PROVE TypeOK /\ NeverBoth
  OBVIOUS
<1>1. row \in [Backend -> Row] /\ NeverBoth
  BY DEF Init, Row, NeverBoth
<1>2. Idle \in Local
  BY DEF Idle, Local, Phase, Known
<1>3. req \in [Request -> Local] /\ \A q \in Request : Ended(q)
  BY <1>2 DEF Init, Ended, Idle
<1>4. up \in [Backend -> BOOLEAN] /\ overlap \in BOOLEAN
  BY DEF Init
<1>5. verdict \in [Backend -> {"OK", "Invalid"}]
  BY DEF Init
<1>6. faults \in 0..MaxFaults
  BY ConstantsAssumption DEF Init
<1> QED BY <1>1, <1>3, <1>4, <1>5, <1>6 DEF TypeOK, Local

\* Every variable keeps its type, and a request under way has an operation.
THEOREM TypeCorrect == Spec => []TypeOK
<1>1. Spec => [](TypeOK /\ NeverBoth)
  BY InitSafe, SafetyStep, PTL DEF Spec
<1> QED BY <1>1, PTL

\* However many requests set and unset the flags, demote, delete and promote
\* backends at the same time, no backend is both the default and the fallback.
THEOREM NeverBothHolds == Spec => []NeverBoth
<1>1. Spec => [](TypeOK /\ NeverBoth)
  BY InitSafe, SafetyStep, PTL DEF Spec
<1> QED BY <1>1, PTL

-----------------------------------------------------------------------------
(***************************************************************************)
(* Requests one after the other: as long as no two requests that change    *)
(* rows overlap, what a request has read of the rows still holds when it   *)
(* writes them.                                                            *)
(***************************************************************************)

Promoting == {"fallback", "managed", "inline", "promote"}

\* The operations that get to each phase.
Kind(q) ==
  /\ req[q].pc \in {"default", "second"} => req[q].op.op = "find"
  /\ req[q].pc = "read" => req[q].op.op \in {"update", "delete", "validate", "creds"}
  /\ req[q].pc \in {"secret", "pick", "commit", "after"} => req[q].op.op \in {"create", "update"}
  /\ req[q].pc \in {"probe", "status"} => req[q].op.op \in {"update", "validate", "creds"}
  /\ req[q].pc = "reload" => req[q].op.op = "update"
  /\ req[q].pc = "softdelete" => req[q].op.op = "delete" /\ req[q].op.b # Inline
  /\ req[q].pc \in Promoting => req[q].op.op \in {"update", "delete"}
  /\ ~Ended(q) /\ req[q].op.op \in {"create", "update"} =>
       ~(req[q].op.default = "yes" /\ req[q].op.fallback = "yes")

KindInv == \A q \in Request : Kind(q)

\* The request q may write rows in one of its next steps.
Writing(q) == req[q].pc \notin {"done", "failed", "default", "second"}

Sole == \A q, r \in Request : Writing(q) /\ Writing(r) => q = r

OneOf(S) == \A a, b \in S : a = b

\* No operation takes the default away from the inline backend for another flag.
InlineKept ==
  \A op \in Ops : op.op = "update" /\ op.b = Inline => op.default # "no" /\ op.fallback # "yes"

\* What a request that runs alone has read still holds before it writes ...
Fresh(q) ==
  \/ req[q].pc \in {"secret", "pick", "commit"} /\ req[q].op.op = "update"
  \/ req[q].pc = "softdelete"

\* ... and after it has written its row it is the one that decides on the default.
Deciding(q) == req[q].pc \in {"after", "probe", "status", "reload"} /\ req[q].op.op = "update"

Working(q) ==
  LET b == req[q].op.b IN
  /\ Fresh(q) => /\ Live(b)
                 /\ req[q].was.default = row[b].default
                 /\ req[q].was.status = row[b].status
  /\ req[q].pc = "commit" => req[q].picked = Picked(req[q].op)
  /\ Deciding(q) => /\ Live(b)
                    /\ req[q].was.default => Defaults \subseteq {b}
                    /\ InlineKept /\ b = Inline /\ req[q].was.default => row[b].default
  /\ req[q].pc \in Promoting => /\ Defaults = {}
                                /\ InlineKept /\ req[q].op.op = "update" => b # Inline
  /\ req[q].pc = "promote" => req[q].cand \in Backend /\ Live(req[q].cand)

\* The rows of an organization whose requests do not overlap.
Serial ==
  /\ Sole
  /\ OneOf(Defaults) /\ OneOf(Fallbacks)
  /\ \A b \in Backend : row[b].deleted => row[b].exists
  /\ \A b \in Backend : row[b].status = verdict[b]
  /\ \A q \in Request : Working(q)

InlineLive == Live(Inline)

\* There is a default, or some request is about to promote one.
Successor(q) ==
  \/ req[q].pc \in Promoting
  \/ Deciding(q) /\ req[q].was.default /\ ~row[req[q].op.b].default

Elected ==
  (~overlap /\ faults = 0 /\ InlineKept) => Defaults # {} \/ \E q \in Request : Successor(q)

SerialInv == TypeOK /\ KindInv /\ InlineLive /\ (~overlap => Serial) /\ Elected

-----------------------------------------------------------------------------
\* What the steps of a request do to requests.

LEMMA EndFacts ==
  ASSUME req \in [Request -> Local], NEW q \in Request, NEW pc, End(q, pc)
  PROVE  req'[q].pc = pc /\ \A r \in Request \ {q} : req'[r] = req[r]
BY DEF End, Idle

LEMMA GoFacts ==
  ASSUME req \in [Request -> Local], NEW q \in Request, NEW pc, Go(q, pc)
  PROVE  /\ req'[q].pc = pc /\ req'[q].op = req[q].op /\ req'[q].was = req[q].was
         /\ req'[q].picked = req[q].picked /\ req'[q].cand = req[q].cand
         /\ \A r \in Request \ {q} : req'[r] = req[r]
<1>1. req[q] \in Local /\ req' = [req EXCEPT ![q] = [@ EXCEPT !.pc = pc]]
  BY DEF Go
<1>2. req'[q] = [req[q] EXCEPT !.pc = pc] /\ \A r \in Request \ {q} : req'[r] = req[r]
  BY <1>1
<1> QED BY <1>1, <1>2 DEF Local

\* A step that leads on to pc and may remember the row, the rows to clear or the
\* backend to promote.
Leads(q, pc) ==
  /\ req'[q].pc = pc /\ req'[q].op = req[q].op
  /\ \A r \in Request \ {q} : req'[r] = req[r]
KeepsWas(q) == req'[q].was = req[q].was
Ends(q) ==
  /\ req'[q].pc \in {"done", "failed"}
  /\ \A r \in Request \ {q} : req'[r] = req[r]

\* Every step of a request in terms of what follows from it.
LEMMA ReadFacts ==
  ASSUME TypeOK, NEW q \in Request, Read(q)
  PROVE  \/ Ends(q)
         \/ LET b == req[q].op.b IN
            /\ Leads(q, AfterRead(req[q].op)) /\ AfterRead(req[q].op) \notin {"done", "failed"}
            /\ req[q].op.op # "creds" => Live(b)
            /\ req'[q].was.default = row[b].default /\ req'[q].was.status = row[b].status
<1> DEFINE b == req[q].op.b
           found == IF req[q].op.op = "creds" THEN row[b].exists ELSE Live(b)
           next == IF found THEN AfterRead(req[q].op) ELSE "failed"
           w == [default |-> row[b].default, status |-> row[b].status]
<1>0. req \in [Request -> Local]
  BY DEF TypeOK, Local
<1>1. CASE next \in {"done", "failed"}
  <2>1. End(q, next)
    BY <1>1 DEF Read
  <2> HIDE DEF next
  <2> QED BY <1>0, <1>1, <2>1, EndFacts DEF Ends
<1>2. CASE next \notin {"done", "failed"}
  <2>0. found /\ next = AfterRead(req[q].op)
    BY <1>2
  <2>1. req' = [req EXCEPT ![q].pc = next, ![q].was = w]
    BY <1>2 DEF Read
  <2> HIDE DEF next, w
  <2>2. req[q] \in Local /\ req' = [req EXCEPT ![q] = [@ EXCEPT !.pc = next, !.was = w]]
    BY <1>0, <2>1
  <2>3. /\ req'[q] = [req[q] EXCEPT !.pc = next, !.was = w]
        /\ \A r \in Request \ {q} : req'[r] = req[r]
    BY <1>0, <2>2
  <2>4. req'[q].pc = next /\ req'[q].op = req[q].op /\ req'[q].was = w
    BY <2>2, <2>3 DEF Local
  <2>5. w.default = row[b].default /\ w.status = row[b].status
    BY DEF w
  <2> QED BY <1>2, <2>0, <2>3, <2>4, <2>5 DEF Leads
<1> QED BY <1>1, <1>2

LEMMA PickFacts ==
  ASSUME TypeOK, NEW q \in Request, Pick(q)
  PROVE  Leads(q, "commit") /\ KeepsWas(q) /\ req'[q].picked = Picked(req[q].op)
<1> DEFINE s == Picked(req[q].op)
<1>0. req \in [Request -> Local] /\ req[q] \in Local
  BY DEF TypeOK, Local
<1>1. req' = [req EXCEPT ![q].pc = "commit", ![q].picked = s]
  BY DEF Pick
<1> HIDE DEF s
<1>2. req' = [req EXCEPT ![q] = [@ EXCEPT !.pc = "commit", !.picked = s]]
  BY <1>0, <1>1
<1>3. /\ req'[q] = [req[q] EXCEPT !.pc = "commit", !.picked = s]
      /\ \A r \in Request \ {q} : req'[r] = req[r]
  BY <1>0, <1>2
<1>4. /\ req'[q].pc = "commit" /\ req'[q].op = req[q].op /\ req'[q].was = req[q].was
      /\ req'[q].picked = s
  BY <1>0, <1>3 DEF Local
<1> QED BY <1>3, <1>4 DEF Leads, KeepsWas, s

LEMMA DecideFacts ==
  ASSUME TypeOK, NEW q \in Request, Decide(q)
  PROVE  \/ /\ Ends(q) /\ ~(req[q].was.default /\ ~row[req[q].op.b].default)
         \/ /\ Leads(q, "fallback") /\ KeepsWas(q)
            /\ req[q].was.default /\ ~row[req[q].op.b].default
<1>0. req \in [Request -> Local]
  BY DEF TypeOK, Local
<1> QED BY <1>0, EndFacts, GoFacts DEF Decide, Ends, Leads, KeepsWas

LEMMA AfterFacts ==
  ASSUME TypeOK, NEW q \in Request, After(q) \/ Reload(q) \/ Probe(q),
         req[q].op.op = "update", Live(req[q].op.b)
  PROVE  \/ \E pc \in {"probe", "status", "reload"} : Leads(q, pc) /\ KeepsWas(q)
         \/ /\ Ends(q) /\ ~(req[q].was.default /\ ~row[req[q].op.b].default)
         \/ /\ Leads(q, "fallback") /\ KeepsWas(q)
            /\ req[q].was.default /\ ~row[req[q].op.b].default
<1>0. req \in [Request -> Local] /\ req[q] \in Local
  BY DEF TypeOK, Local
<1>1. CASE Decide(q)
  BY <1>1, DecideFacts
<1>2. CASE After(q) /\ ~Decide(q)
  <2>1. Go(q, "probe")
    BY <1>2 DEF After
  <2> QED BY <1>0, <2>1, GoFacts DEF Leads, KeepsWas
<1>3. CASE Reload(q)
  BY <1>1, <1>3 DEF Reload
<1>4. CASE Probe(q)
  <2> DEFINE u == up[req[q].op.b]
  <2>1. req' = [req EXCEPT ![q].pc = "status", ![q].ok = u]
    BY <1>4 DEF Probe
  <2> HIDE DEF u
  <2>2. req' = [req EXCEPT ![q] = [@ EXCEPT !.pc = "status", !.ok = u]]
    BY <1>0, <2>1
  <2>3. /\ req'[q] = [req[q] EXCEPT !.pc = "status", !.ok = u]
        /\ \A r \in Request \ {q} : req'[r] = req[r]
    BY <1>0, <2>2
  <2>4. req'[q].pc = "status" /\ req'[q].op = req[q].op /\ req'[q].was = req[q].was
    BY <1>0, <2>3 DEF Local
  <2> QED BY <2>3, <2>4 DEF Leads, KeepsWas
<1> QED BY <1>1, <1>2, <1>3, <1>4

\* The other requests that validate have nothing to decide.
LEMMA ValidatingFacts ==
  ASSUME TypeOK, NEW q \in Request, After(q) \/ Probe(q),
         req[q].op.op # "update", Kind(q)
  PROVE  Ends(q) \/ (Leads(q, "status") /\ req[q].op.op \in {"validate", "creds"})
<1>0. req \in [Request -> Local] /\ req[q] \in Local
  BY DEF TypeOK, Local
<1>1. CASE \E pc \in {"done", "failed"} : End(q, pc)
  BY <1>0, <1>1, EndFacts DEF Ends
<1>2. CASE After(q)
  BY <1>1, <1>2 DEF After, Kind
<1>3. CASE Probe(q) /\ ~End(q, "failed")
  <2> DEFINE u == up[req[q].op.b]
  <2>0. req[q].op.op \in {"validate", "creds"}
    BY <1>3 DEF Probe, Kind
  <2>1. req' = [req EXCEPT ![q].pc = "status", ![q].ok = u]
    BY <1>3 DEF Probe
  <2> HIDE DEF u
  <2>2. req' = [req EXCEPT ![q] = [@ EXCEPT !.pc = "status", !.ok = u]]
    BY <1>0, <2>1
  <2>3. /\ req'[q] = [req[q] EXCEPT !.pc = "status", !.ok = u]
        /\ \A r \in Request \ {q} : req'[r] = req[r]
    BY <1>0, <2>2
  <2>4. req'[q].pc = "status" /\ req'[q].op = req[q].op
    BY <1>0, <2>3 DEF Local
  <2> QED BY <2>0, <2>3, <2>4 DEF Leads
<1> QED BY <1>1, <1>2, <1>3

LEMMA CandidateFacts ==
  ASSUME TypeOK, NEW q \in Request, NEW found \in SUBSET Backend,
         NEW next \in {"managed", "inline", "done"}, TryCandidate(q, found, next)
  PROVE  \/ Ends(q) /\ (Cardinality(found) > 1 \/ (next = "done" /\ found \ Excluded(q) = {}))
         \/ Leads(q, next) /\ next # "done"
         \/ Leads(q, "promote") /\ req'[q].cand \in found
<1>0. req \in [Request -> Local] /\ req[q] \in Local
  BY DEF TypeOK, Local
<1>1. CASE Cardinality(found) > 1
  BY <1>0, <1>1, EndFacts DEF TryCandidate, Ends
<1>2. CASE ~(Cardinality(found) > 1) /\ found \ Excluded(q) = {}
  BY <1>0, <1>2, EndFacts, GoFacts DEF TryCandidate, Ends, Leads
<1>3. CASE ~(Cardinality(found) > 1) /\ found \ Excluded(q) # {}
  <2>1. PICK b \in found : req' = [req EXCEPT ![q].pc = "promote", ![q].cand = b]
    BY <1>3 DEF TryCandidate
  <2>2. req' = [req EXCEPT ![q] = [@ EXCEPT !.pc = "promote", !.cand = b]]
    BY <1>0, <2>1
  <2>3. /\ req'[q] = [req[q] EXCEPT !.pc = "promote", !.cand = b]
        /\ \A r \in Request \ {q} : req'[r] = req[r]
    BY <1>0, <2>2
  <2>4. req'[q].pc = "promote" /\ req'[q].op = req[q].op /\ req'[q].cand = b
    BY <1>0, <2>3 DEF Local
  <2> QED BY <2>3, <2>4 DEF Leads
<1> QED BY <1>1, <1>2, <1>3

\* Every step of a request moves that request only.
LEMMA StepMoves ==
  ASSUME TypeOK, NEW q \in Request, Step(q) \/ Fails(q)
  PROVE  ~Ended(q) /\ \A r \in Request \ {q} : req'[r] = req[r]
<1>0. req \in [Request -> Local]
  BY DEF TypeOK, Local
<1>1. ~Ended(q)
  BY DEF Step, Fails, Ended, Read, SaveCredentials, Pick, Commit, After, Reload, Probe,
         UpdateValidationStatus, SoftDelete, FindCandidate, Promote, FindDefault, FindFallback
<1>2. ASSUME NEW r \in Request \ {q} PROVE req'[r] = req[r]
  BY <1>0 DEF Step, Fails, Read, SaveCredentials, Pick, Commit, After, Reload, Decide, Probe,
         UpdateValidationStatus, SoftDelete, FindCandidate, TryCandidate, Promote, FindDefault,
         FindFallback, Go, End
<1> QED BY <1>1, <1>2

\* Where the steps that write rows, and those that only read, lead.
LEMMA PlainFacts ==
  ASSUME TypeOK, NEW q \in Request
  PROVE  /\ SaveCredentials(q) => Leads(q, "pick") /\ KeepsWas(q)
         /\ Commit(q) => Ends(q) \/ (Leads(q, "after") /\ KeepsWas(q))
         /\ UpdateValidationStatus(q) =>
              IF req[q].op.op = "update" THEN Leads(q, "reload") /\ KeepsWas(q) ELSE Ends(q)
         /\ SoftDelete(q) => IF req[q].was.default THEN Leads(q, "fallback") ELSE Ends(q)
         /\ Promote(q) \/ FindFallback(q) \/ Fails(q) => Ends(q)
         /\ FindDefault(q) => Ends(q) \/ Leads(q, "second")
<1>0. req \in [Request -> Local]
  BY DEF TypeOK, Local
<1>1. ASSUME NEW pc \in {"done", "failed"}, End(q, pc) PROVE Ends(q)
  BY <1>0, <1>1, EndFacts DEF Ends
<1>2. ASSUME NEW pc, Go(q, pc) PROVE Leads(q, pc) /\ KeepsWas(q)
  BY <1>0, <1>2, GoFacts DEF Leads, KeepsWas
<1>3. SaveCredentials(q) => Leads(q, "pick") /\ KeepsWas(q)
  BY <1>2 DEF SaveCredentials
<1>4. Commit(q) => Ends(q) \/ (Leads(q, "after") /\ KeepsWas(q))
  BY <1>1, <1>2 DEF Commit
<1>5. UpdateValidationStatus(q) =>
        IF req[q].op.op = "update" THEN Leads(q, "reload") /\ KeepsWas(q) ELSE Ends(q)
  BY <1>1, <1>2 DEF UpdateValidationStatus
<1>6. SoftDelete(q) => IF req[q].was.default THEN Leads(q, "fallback") ELSE Ends(q)
  BY <1>1, <1>2 DEF SoftDelete
<1>7. Promote(q) \/ FindFallback(q) \/ Fails(q) => Ends(q)
  BY <1>1 DEF Promote, FindFallback, Fails
<1>8. FindDefault(q) => Ends(q) \/ Leads(q, "second")
  BY <1>1, <1>2 DEF FindDefault
<1> QED BY <1>3, <1>4, <1>5, <1>6, <1>7, <1>8

\* A step that leads on to a phase its operation gets to.
LEMMA KindLeads ==
  ASSUME TypeOK, NEW q \in Request, Kind(q), ~Ended(q), NEW pc, Leads(q, pc),
         \/ pc \in {"default", "second"} /\ req[q].op.op = "find"
         \/ pc \in {"pick", "secret", "commit", "after"} /\ req[q].op.op \in {"create", "update"}
         \/ pc \in {"probe", "status"} /\ req[q].op.op \in {"update", "validate", "creds"}
         \/ pc = "reload" /\ req[q].op.op = "update"
         \/ pc = "softdelete" /\ req[q].op.op = "delete" /\ req[q].op.b # Inline
         \/ pc \in Promoting /\ req[q].op.op \in {"update", "delete"}
  PROVE  Kind(q)'
BY DEF Kind, Leads, Promoting, Ended

LEMMA KindEnds == ASSUME NEW q \in Request, Ends(q) PROVE Kind(q)'
BY DEF Kind, Ends, Promoting, Ended

LEMMA KindMoves ==
  ASSUME TypeOK, NEW q \in Request, Kind(q), Step(q) \/ Fails(q)
  PROVE  Kind(q)'
<1>0. ~Ended(q)
  BY StepMoves
<1>1. CASE Ends(q)
  BY <1>1, KindEnds
<1>2. CASE Read(q) /\ ~Ends(q)
  <2>1. Leads(q, AfterRead(req[q].op)) /\ AfterRead(req[q].op) \notin {"done", "failed"}
    BY <1>2, ReadFacts
  <2>2. req[q].op.op \in {"update", "delete", "validate", "creds"}
    BY <1>2 DEF Read, Kind
  <2>3. \/ AfterRead(req[q].op) \in {"pick", "secret"} /\ req[q].op.op = "update"
        \/ AfterRead(req[q].op) = "probe" /\ req[q].op.op \in {"validate", "creds"}
        \/ AfterRead(req[q].op) = "softdelete" /\ req[q].op.op = "delete" /\ req[q].op.b # Inline
    BY <2>1, <2>2 DEF AfterRead
  <2> HIDE DEF AfterRead
  <2> QED BY <1>0, <2>1, <2>3, KindLeads
<1>3. CASE SaveCredentials(q) \/ Pick(q)
  <2>1. req[q].op.op \in {"create", "update"} /\ (Leads(q, "pick") \/ Leads(q, "commit"))
    BY <1>3, PlainFacts, PickFacts DEF SaveCredentials, Pick, Kind
  <2> QED BY <1>0, <2>1, KindLeads
<1>4. CASE Commit(q) /\ ~Ends(q)
  <2>1. req[q].op.op \in {"create", "update"} /\ Leads(q, "after")
    BY <1>4, PlainFacts DEF Commit, Kind
  <2> QED BY <1>0, <2>1, KindLeads
<1>5. CASE After(q) /\ ~Ends(q)
  <2>1. req[q].op.op = "update" /\ Live(req[q].op.b)
    <3>1. req \in [Request -> Local]
      BY DEF TypeOK, Local
    <3> QED BY <1>5, <3>1, EndFacts DEF After, Kind, Ends
  <2>2. \E pc \in {"probe", "status", "reload", "fallback"} : Leads(q, pc)
    BY <1>5, <2>1, AfterFacts
  <2> QED BY <1>0, <2>1, <2>2, KindLeads DEF Promoting
<1>6. CASE Reload(q) /\ ~Ends(q)
  <2>1. req[q].op.op = "update" /\ Live(req[q].op.b)
    <3>1. req \in [Request -> Local]
      BY DEF TypeOK, Local
    <3> QED BY <1>6, <3>1, EndFacts DEF Reload, Kind, Ends
  <2>2. \E pc \in {"probe", "status", "reload", "fallback"} : Leads(q, pc)
    BY <1>6, <2>1, AfterFacts
  <2> QED BY <1>0, <2>1, <2>2, KindLeads DEF Promoting
<1>7. CASE Probe(q) /\ ~Ends(q)
  <2>1. CASE req[q].op.op # "update"
    <3>1. Leads(q, "status") /\ req[q].op.op \in {"validate", "creds"}
      BY <1>7, <2>1, ValidatingFacts
    <3> QED BY <1>0, <3>1, KindLeads
  <2>2. CASE req[q].op.op = "update"
    <3>1. \E pc \in {"probe", "status", "reload", "fallback"} : Leads(q, pc)
      <4>1. CASE Live(req[q].op.b)
        BY <1>7, <2>2, <4>1, AfterFacts
      <4>2. CASE ~Live(req[q].op.b)
        <5>1. Go(q, "reload") /\ req \in [Request -> Local]
          BY <1>7, <2>2, <4>2 DEF Probe, TypeOK, Local
        <5> QED BY <5>1, GoFacts DEF Leads
      <4> QED BY <4>1, <4>2
    <3> QED BY <1>0, <2>2, <3>1, KindLeads DEF Promoting
  <2> QED BY <2>1, <2>2
<1>8. CASE UpdateValidationStatus(q) /\ ~Ends(q)
  <2>1. req[q].op.op = "update" /\ Leads(q, "reload")
    BY <1>8, PlainFacts
  <2> QED BY <1>0, <2>1, KindLeads
<1>9. CASE SoftDelete(q) /\ ~Ends(q)
  <2>1. req[q].op.op = "delete" /\ Leads(q, "fallback")
    BY <1>9, PlainFacts DEF SoftDelete, Kind
  <2> QED BY <1>0, <2>1, KindLeads DEF Promoting
<1>10. CASE FindCandidate(q) /\ ~Ends(q)
  <2>0. Fallbacks \in SUBSET Backend /\ {b \in Managed : Live(b)} \in SUBSET Backend
        /\ {Inline} \in SUBSET Backend
    BY ConstantsAssumption DEF Fallbacks
  <2>1. req[q].op.op \in {"update", "delete"}
    BY <1>10 DEF FindCandidate, Kind, Promoting
  <2>2. \E pc \in Promoting : Leads(q, pc)
    <3>1. PICK found \in SUBSET Backend, next \in {"managed", "inline", "done"} :
            TryCandidate(q, found, next)
      BY <1>10, <2>0 DEF FindCandidate
    <3>2. (Leads(q, next) /\ next # "done") \/ Leads(q, "promote")
      BY <1>10, <3>1, CandidateFacts
    <3> QED BY <3>2 DEF Promoting
  <2> QED BY <1>0, <2>1, <2>2, KindLeads
<1>11. CASE FindDefault(q) /\ ~Ends(q)
  <2>1. req[q].op.op = "find" /\ Leads(q, "second")
    BY <1>11, PlainFacts DEF FindDefault, Kind
  <2> QED BY <1>0, <2>1, KindLeads
<1>12. CASE Promote(q) \/ FindFallback(q) \/ Fails(q)
  BY <1>1, <1>12, PlainFacts
<1> QED BY <1>1, <1>2, <1>3, <1>4, <1>5, <1>6, <1>7, <1>8, <1>9, <1>10, <1>11, <1>12
        DEF Step

\* A request begins with an operation that writes, or looks up the default.
LEMMA BeginFacts ==
  ASSUME TypeOK, NEW q \in Request, NEW op \in Ops, Begin(q, op)
  PROVE  /\ req'[q].pc = (IF op.op = "create" THEN "secret"
                          ELSE IF op.op = "find" THEN "default" ELSE "read")
         /\ req'[q].op = op /\ Ended(q)
         /\ \A r \in Request \ {q} : req'[r] = req[r]
         /\ ~(op.op \in {"create", "update"} /\ op.default = "yes" /\ op.fallback = "yes")
         /\ op.op \in {"create", "update", "delete", "validate", "creds", "find"}
         /\ UNCHANGED <<row, up, verdict, faults>>
<1> DEFINE pc == IF op.op = "create" THEN "secret"
                 ELSE IF op.op = "find" THEN "default" ELSE "read"
<1>0. req \in [Request -> Local] /\ Idle \in Local
  BY DEF TypeOK, Local, Idle, Phase, Known
<1>1. op \in Op
  BY ConstantsAssumption
<1>2. op.op \in {"create", "update", "delete", "validate", "creds", "find"}
  BY <1>1 DEF Op, CreateOp, UpdateOp, PlainOp
<1>3. req' = [req EXCEPT ![q] = [Idle EXCEPT !.op = op, !.pc = pc]]
  BY DEF Begin
<1> HIDE DEF pc
<1>4. /\ req'[q] = [Idle EXCEPT !.op = op, !.pc = pc]
      /\ \A r \in Request \ {q} : req'[r] = req[r]
  BY <1>0, <1>3
<1>5. req'[q].pc = pc /\ req'[q].op = op
  BY <1>0, <1>4 DEF Local
<1> QED BY <1>2, <1>4, <1>5 DEF pc, Begin

LEMMA KindStep == TypeOK /\ KindInv /\ [Next]_vars => KindInv'
<1> SUFFICES ASSUME TypeOK, KindInv, [Next]_vars, NEW r \in Request PROVE Kind(r)'
  BY DEF KindInv
<1>0. Kind(r)
  BY DEF KindInv
<1>1. ASSUME req'[r] = req[r] PROVE Kind(r)'
  BY <1>0, <1>1 DEF Kind, Ended
<1>2. ASSUME NEW q \in Request, Step(q) \/ Fails(q) PROVE Kind(r)'
  BY <1>0, <1>1, <1>2, KindMoves, StepMoves
<1>3. ASSUME NEW q \in Request, NEW op \in Ops, Begin(q, op) PROVE Kind(r)'
  <2>1. CASE r # q
    BY <1>1, <1>3, <2>1, BeginFacts
  <2>2. CASE r = q
    BY <1>3, <2>2, BeginFacts DEF Kind, Promoting, Ended
  <2> QED BY <2>1, <2>2
<1>4. CASE UNCHANGED req
  BY <1>1, <1>4
<1> QED BY <1>2, <1>3, <1>4 DEF Next, Flip, vars

-----------------------------------------------------------------------------
\* What the writing steps do to rows.

Flags(b) == row[b].exists \in BOOLEAN /\ row[b].deleted \in BOOLEAN
            /\ row[b].default \in BOOLEAN /\ row[b].fallback \in BOOLEAN

LEMMA RowFlags == ASSUME TypeOK PROVE \A b \in Backend : Flags(b)
<1>1. \A b \in Backend : row[b] \in Row
  BY DEF TypeOK
<1> QED BY <1>1 DEF Flags, Row

\* The rows of the others after a commit of op: only the flag that op claims is
\* taken away, and only from the rows that were picked.
CommitOthers(q) ==
  LET op == req[q].op IN
  \A b \in Backend \ {op.b} :
    /\ row'[b].exists = row[b].exists /\ row'[b].deleted = row[b].deleted
    /\ row'[b].status = row[b].status
    /\ row'[b].default = (row[b].default /\ ~(b \in req[q].picked /\ op.default = "yes"))
    /\ row'[b].fallback = (row[b].fallback /\ ~(b \in req[q].picked /\ op.default # "yes"))

CommitOwn(q) ==
  LET op == req[q].op
      b == op.b
      set(flag, old) == IF flag = "unset" THEN old ELSE flag = "yes"
  IN  /\ row'[b].exists /\ row'[b].deleted = row[b].deleted
      /\ row'[b].default = (op.fallback # "yes" /\ set(op.default, row[b].default))
      /\ row'[b].fallback = (op.default # "yes" /\ set(op.fallback, row[b].fallback))
      /\ row'[b].status = IF op.op = "update" /\ ~op.creds THEN req[q].was.status
                          ELSE row[b].status

LEMMA CommitFacts ==
  ASSUME TypeOK, NEW q \in Request, Commit(q)
  PROVE  \/ UNCHANGED row /\ Ends(q)
         \/ /\ Leads(q, "after") /\ KeepsWas(q)
            /\ req[q].op.op = "create" => ~row[req[q].op.b].exists
            /\ CommitOthers(q) /\ CommitOwn(q)
<1> DEFINE op == req[q].op
<1>0. /\ req \in [Request -> Local] /\ op.b \in Backend
      /\ \A b \in Backend : row[b] \in Row /\ Flags(b)
  <2>1. op.b \in Backend
    BY OperationBackend DEF Commit, Ended
  <2> QED BY <2>1, RowFlags DEF TypeOK, Local
<1>1. CASE op.op = "create" /\ row[op.b].exists
  <2>1. End(q, "failed") /\ UNCHANGED row
    BY <1>1 DEF Commit
  <2> QED BY <1>0, <2>1, EndFacts DEF Ends
<1>2. CASE ~(op.op = "create" /\ row[op.b].exists)
  <2>1. /\ row' = [b \in Backend |->
                     IF b = op.b THEN Written(q, row[b])
                     ELSE IF b \in req[q].picked THEN Cleared(op, row[b]) ELSE row[b]]
        /\ Go(q, "after")
    BY <1>2 DEF Commit
  <2>2. Leads(q, "after") /\ KeepsWas(q)
    BY <1>0, <2>1, GoFacts DEF Leads, KeepsWas
  <2>3. CommitOwn(q)
    <3>1. row'[op.b] = Written(q, row[op.b])
      BY <1>0, <2>1
    <3> QED BY <3>1 DEF CommitOwn, Written
  <2>4. CommitOthers(q)
    <3> SUFFICES ASSUME NEW b \in Backend \ {op.b}
                 PROVE  /\ row'[b].exists = row[b].exists /\ row'[b].deleted = row[b].deleted
                        /\ row'[b].status = row[b].status
                        /\ row'[b].default = (row[b].default
                             /\ ~(b \in req[q].picked /\ op.default = "yes"))
                        /\ row'[b].fallback = (row[b].fallback
                             /\ ~(b \in req[q].picked /\ op.default # "yes"))
      BY DEF CommitOthers
    <3>1. row[b] \in Row /\ Flags(b)
      BY <1>0
    <3>2. CASE b \notin req[q].picked
      <4>1. row'[b] = row[b]
        BY <2>1, <3>2
      <4> QED BY <3>1, <3>2, <4>1 DEF Flags
    <3>3. CASE b \in req[q].picked /\ op.default = "yes"
      <4>1. row'[b] = [row[b] EXCEPT !.default = FALSE]
        BY <2>1, <3>3 DEF Cleared
      <4> QED BY <3>1, <3>3, <4>1 DEF Flags, Row
    <3>4. CASE b \in req[q].picked /\ op.default # "yes"
      <4>1. row'[b] = [row[b] EXCEPT !.fallback = FALSE]
        BY <2>1, <3>4 DEF Cleared
      <4> QED BY <3>1, <3>4, <4>1 DEF Flags, Row
    <3> QED BY <3>2, <3>3, <3>4
  <2> QED BY <1>2, <2>2, <2>3, <2>4
<1> QED BY <1>1, <1>2

LEMMA StatusFacts ==
  ASSUME TypeOK, NEW q \in Request, UpdateValidationStatus(q)
  PROVE  /\ \A b \in Backend : /\ row'[b].exists = row[b].exists
                               /\ row'[b].deleted = row[b].deleted
                               /\ row'[b].default = row[b].default
                               /\ row'[b].fallback = row[b].fallback
                               /\ row[b].status = verdict[b] => row'[b].status = verdict'[b]
<1> DEFINE k == req[q].op.b
           s == IF req[q].ok THEN "OK" ELSE "Invalid"
<1>1. CASE UNCHANGED <<row, verdict>>
  BY <1>1
<1>2. CASE row' = [row EXCEPT ![k].status = s] /\ verdict' = [verdict EXCEPT ![k] = s]
  <2>0. row \in [Backend -> Row] /\ k \in Backend /\ verdict \in [Backend -> {"OK", "Invalid"}]
    BY OperationBackend DEF TypeOK, UpdateValidationStatus, Ended
  <2> HIDE DEF k, s
  <2>1. row' = [row EXCEPT ![k] = [@ EXCEPT !.status = s]]
    BY <1>2
  <2>2. /\ row'[k] = [row[k] EXCEPT !.status = s] /\ row[k] \in Row
        /\ \A b \in Backend \ {k} : row'[b] = row[b]
    BY <2>0, <2>1
  <2>3. /\ row'[k].exists = row[k].exists /\ row'[k].deleted = row[k].deleted
        /\ row'[k].default = row[k].default /\ row'[k].fallback = row[k].fallback
        /\ row'[k].status = s
    BY <2>2 DEF Row
  <2>4. verdict'[k] = s /\ \A b \in Backend \ {k} : verdict'[b] = verdict[b]
    BY <1>2, <2>0
  <2> QED BY <2>2, <2>3, <2>4
<1> QED BY <1>1, <1>2 DEF UpdateValidationStatus

LEMMA DeleteFacts ==
  ASSUME TypeOK, NEW q \in Request, SoftDelete(q)
  PROVE  /\ req[q].op.b \in Backend
         /\ \A b \in Backend \ {req[q].op.b} : row'[b] = row[b]
         /\ row'[req[q].op.b].deleted
         /\ row'[req[q].op.b].exists = row[req[q].op.b].exists
         /\ row'[req[q].op.b].status = row[req[q].op.b].status
<1> DEFINE k == req[q].op.b
<1>0. row \in [Backend -> Row] /\ k \in Backend
  BY OperationBackend DEF TypeOK, SoftDelete, Ended
<1>1. row' = [row EXCEPT ![k] = [@ EXCEPT !.deleted = TRUE]]
  BY DEF SoftDelete
<1> HIDE DEF k
<1>2. /\ row'[k] = [row[k] EXCEPT !.deleted = TRUE] /\ row[k] \in Row
      /\ \A b \in Backend \ {k} : row'[b] = row[b]
  BY <1>0, <1>1
<1>3. row'[k].deleted /\ row'[k].exists = row[k].exists /\ row'[k].status = row[k].status
  BY <1>2 DEF Row
<1> QED BY <1>0, <1>2, <1>3 DEF k

LEMMA PromoteFacts ==
  ASSUME TypeOK, NEW q \in Request, Promote(q), req[q].cand \in Backend
  PROVE  /\ \A b \in Backend \ {req[q].cand} : row'[b] = row[b]
         /\ row'[req[q].cand].default /\ ~row'[req[q].cand].fallback
         /\ row'[req[q].cand].exists = row[req[q].cand].exists
         /\ row'[req[q].cand].deleted = row[req[q].cand].deleted
         /\ row'[req[q].cand].status = row[req[q].cand].status
<1> DEFINE k == req[q].cand
<1>0. row \in [Backend -> Row] /\ k \in Backend
  BY DEF TypeOK
<1>a. row' = [row EXCEPT ![k].default = TRUE, ![k].fallback = FALSE]
  BY DEF Promote
<1>1. row' = [row EXCEPT ![k] = [@ EXCEPT !.default = TRUE, !.fallback = FALSE]]
  BY <1>0, <1>a
<1> HIDE DEF k
<1>2. /\ row'[k] = [row[k] EXCEPT !.default = TRUE, !.fallback = FALSE] /\ row[k] \in Row
      /\ \A b \in Backend \ {k} : row'[b] = row[b]
  BY <1>0, <1>1
<1>3. /\ row'[k].default /\ ~row'[k].fallback /\ row'[k].exists = row[k].exists
      /\ row'[k].deleted = row[k].deleted /\ row'[k].status = row[k].status
  BY <1>2 DEF Row
<1> QED BY <1>2, <1>3 DEF k

\* The steps that touch no row.
LEMMA RowsKept ==
  ASSUME NEW q \in Request,
         \/ Read(q) \/ SaveCredentials(q) \/ Pick(q) \/ After(q) \/ Reload(q) \/ Probe(q)
         \/ FindCandidate(q) \/ FindDefault(q) \/ FindFallback(q) \/ Fails(q)
  PROVE  UNCHANGED <<row, verdict, overlap>>
BY DEF Read, SaveCredentials, Pick, After, Reload, Probe, FindCandidate, FindDefault,
       FindFallback, Fails

LEMMA InlineStep == TypeOK /\ KindInv /\ InlineLive /\ [Next]_vars => InlineLive'
<1> SUFFICES ASSUME TypeOK, KindInv, InlineLive, [Next]_vars PROVE InlineLive'
  OBVIOUS
<1>0. Inline \in Backend /\ row[Inline].exists /\ ~row[Inline].deleted
  BY ConstantsAssumption DEF InlineLive, Live
<1>1. CASE UNCHANGED row
  BY <1>0, <1>1 DEF InlineLive, Live
<1>2. ASSUME NEW q \in Request, Commit(q) PROVE InlineLive'
  <2>1. CASE Inline = req[q].op.b
    BY <1>0, <1>1, <1>2, <2>1, CommitFacts DEF CommitOwn, InlineLive, Live
  <2>2. CASE Inline # req[q].op.b
    BY <1>0, <1>1, <1>2, <2>2, CommitFacts DEF CommitOthers, InlineLive, Live
  <2> QED BY <2>1, <2>2
<1>3. ASSUME NEW q \in Request, UpdateValidationStatus(q) PROVE InlineLive'
  BY <1>0, <1>3, StatusFacts DEF InlineLive, Live
<1>4. ASSUME NEW q \in Request, SoftDelete(q) PROVE InlineLive'
  <2>1. req[q].op.b # Inline
    BY <1>4 DEF SoftDelete, KindInv, Kind
  <2> QED BY <1>0, <1>4, <2>1, DeleteFacts DEF InlineLive, Live
<1>5. ASSUME NEW q \in Request, Promote(q) PROVE InlineLive'
  <2>1. CASE req[q].cand \in Backend
    BY <1>0, <1>5, <2>1, PromoteFacts DEF InlineLive, Live
  <2>2. CASE req[q].cand \notin Backend
    BY <1>0, <1>5, <2>2 DEF Promote, TypeOK, InlineLive, Live
  <2> QED BY <2>1, <2>2
<1> QED BY <1>1, <1>2, <1>3, <1>4, <1>5, RowsKept DEF Next, Step, Begin, Flip, vars

-----------------------------------------------------------------------------
\* Requests that do not overlap.

\* A request that may write has an operation that writes.
LEMMA WritingFacts ==
  ASSUME TypeOK, KindInv, NEW q \in Request, Writing(q)
  PROVE  ~Ended(q) /\ Writes(req[q].op) /\ req[q].op.b \in Backend
<1>1. req[q].pc \in Phase
  BY DEF TypeOK
<1>2. Kind(q) /\ ~Ended(q)
  BY DEF KindInv, Writing, Ended
<1>3. Writes(req[q].op)
  BY <1>1, <1>2 DEF Kind, Writing, Writes, Phase, Promoting
<1> QED BY <1>2, <1>3, OperationBackend

\* A step of a request that may write leaves the others out of their writing.
LEMMA WritingMoves ==
  ASSUME TypeOK, NEW q \in Request, Step(q) \/ Fails(q), ~Writing(q)
  PROVE  ~Writing(q)' /\ UNCHANGED <<row, verdict>>
<1>0. ~Ended(q)
  BY StepMoves
<1>1. req[q].pc \in {"default", "second"}
  BY <1>0 DEF Writing, Ended
<1>2. FindDefault(q) \/ FindFallback(q) \/ Fails(q)
  BY <1>1 DEF Step, Read, SaveCredentials, Pick, Commit, After, Reload, Probe,
         UpdateValidationStatus, SoftDelete, FindCandidate, Promote
<1>3. Ends(q) \/ Leads(q, "second")
  BY <1>2, PlainFacts
<1> QED BY <1>2, <1>3, RowsKept DEF Ends, Leads, Writing

LEMMA SoleStep ==
  ASSUME TypeOK, KindInv, Sole, [Next]_vars, ~overlap'
  PROVE  Sole'
<1>1. ASSUME NEW q \in Request, Step(q) \/ Fails(q) PROVE Sole'
  <2>1. ~Writing(q) => ~Writing(q)'
    BY <1>1, WritingMoves
  <2>2. \A r \in Request \ {q} : Writing(r)' <=> Writing(r)
    BY <1>1, StepMoves DEF Writing
  <2> QED BY <2>1, <2>2 DEF Sole
<1>2. ASSUME NEW q \in Request, NEW op \in Ops, Begin(q, op) PROVE Sole'
  <2>1. \A r \in Request \ {q} : Writing(r)' <=> Writing(r)
    BY <1>2, BeginFacts DEF Writing
  <2>2. CASE op.op = "find"
    <3>1. ~Writing(q)'
      BY <1>2, <2>2, BeginFacts DEF Writing
    <3> QED BY <2>1, <3>1 DEF Sole
  <2>3. CASE op.op # "find"
    <3>1. Writes(op)
      BY <1>2, <2>3, BeginFacts DEF Writes
    <3>2. \A r \in Request : ~(~Ended(r) /\ Writes(req[r].op))
      BY <1>2, <3>1 DEF Begin
    <3>3. \A r \in Request : ~Writing(r)
      BY <3>2, WritingFacts
    <3> QED BY <2>1, <3>3 DEF Sole
  <2> QED BY <2>2, <2>3
<1>3. CASE UNCHANGED req
  BY <1>3 DEF Sole, Writing
<1> QED BY <1>1, <1>2, <1>3 DEF Next, Flip, vars

\* A request that writes no rows relies on none, and one that stays where it is
\* relies on what it did as long as no row changes.
LEMMA IdleWorking ==
  ASSUME NEW r \in Request, ~Writing(r)'
  PROVE  Working(r)' /\ ~Successor(r)'
BY DEF Working, Writing, Fresh, Deciding, Promoting, Successor

LEMMA WorkingKept ==
  ASSUME UNCHANGED row, NEW r \in Request, req'[r] = req[r], Working(r)
  PROVE  Working(r)'
BY DEF Working, Fresh, Deciding, Live, Picked, Defaults

\* The steps that touch no row lead to where what they have read holds.
LEMMA QuietWorking ==
  ASSUME TypeOK, KindInv, InlineLive, Serial, NEW q \in Request,
         \/ Read(q) \/ SaveCredentials(q) \/ Pick(q) \/ After(q) \/ Reload(q) \/ Probe(q)
         \/ FindCandidate(q)
  PROVE  Working(q)'
<1> DEFINE b == req[q].op.b
<1>0. /\ UNCHANGED row /\ Working(q) /\ Kind(q) /\ ~Ended(q)
      /\ b \in Backend /\ Live(Inline) /\ Inline \in Backend
  <2>1. UNCHANGED row /\ ~Ended(q)
    BY RowsKept, StepMoves DEF Step
  <2> QED BY <2>1, OperationBackend, ConstantsAssumption DEF Serial, KindInv, InlineLive
<1>1. CASE Ends(q)
  BY <1>1, IdleWorking DEF Ends, Writing
<1>2. CASE Read(q) /\ ~Ends(q)
  <2>1. /\ Leads(q, AfterRead(req[q].op)) /\ AfterRead(req[q].op) \notin {"done", "failed"}
        /\ req[q].op.op # "creds" => Live(b)
        /\ req'[q].was.default = row[b].default /\ req'[q].was.status = row[b].status
    BY <1>2, ReadFacts
  <2>2. req[q].op.op \in {"update", "delete", "validate", "creds"}
    BY <1>0, <1>2 DEF Read, Kind
  <2>3. \/ AfterRead(req[q].op) \in {"pick", "secret"} /\ req[q].op.op = "update"
        \/ AfterRead(req[q].op) = "probe" /\ req[q].op.op \in {"validate", "creds"}
        \/ AfterRead(req[q].op) = "softdelete" /\ req[q].op.op = "delete"
    BY <2>1, <2>2 DEF AfterRead
  <2>4. /\ req'[q].op = req[q].op
        /\ \/ req'[q].pc \in {"pick", "secret"} /\ req[q].op.op = "update"
           \/ req'[q].pc = "probe" /\ req[q].op.op \in {"validate", "creds"}
           \/ req'[q].pc = "softdelete" /\ req[q].op.op = "delete"
    BY <2>1, <2>3 DEF Leads
  <2> QED BY <1>0, <2>1, <2>4 DEF Working, Fresh, Deciding, Live, Promoting
<1>3. CASE SaveCredentials(q)
  <2>1. Leads(q, "pick") /\ KeepsWas(q) /\ req[q].pc = "secret"
    BY <1>3, PlainFacts DEF SaveCredentials
  <2> QED BY <1>0, <2>1 DEF Working, Fresh, Deciding, Live, Promoting, Leads, KeepsWas
<1>4. CASE Pick(q)
  <2>1. /\ Leads(q, "commit") /\ KeepsWas(q) /\ req[q].pc = "pick"
        /\ req'[q].picked = Picked(req[q].op)
    BY <1>4, PickFacts DEF Pick
  <2> QED BY <1>0, <2>1 DEF Working, Fresh, Deciding, Live, Promoting, Leads, KeepsWas, Picked
<1>5. CASE (After(q) \/ Reload(q) \/ Probe(q)) /\ req[q].op.op = "update" /\ ~Ends(q)
  <2>1. Deciding(q)
    BY <1>5 DEF After, Reload, Probe, Deciding
  <2>2. /\ Live(b)
        /\ req[q].was.default => Defaults \subseteq {b}
        /\ InlineKept /\ b = Inline /\ req[q].was.default => row[b].default
    BY <1>0, <2>1 DEF Working
  <2>3. CASE \E pc \in {"probe", "status", "reload"} : Leads(q, pc) /\ KeepsWas(q)
    BY <1>0, <2>1, <2>2, <2>3
       DEF Working, Fresh, Deciding, Live, Defaults, Promoting, Leads, KeepsWas
  <2>4. CASE /\ Leads(q, "fallback") /\ KeepsWas(q)
             /\ req[q].was.default /\ ~row[b].default
    <3>1. Defaults = {} /\ (InlineKept => b # Inline)
      BY <2>2, <2>4 DEF Defaults
    <3>2. Defaults' = {}
      BY <1>0, <3>1 DEF Defaults, Live
    <3> QED BY <3>1, <3>2, <2>4 DEF Working, Fresh, Deciding, Promoting, Leads
  <2> QED BY <1>5, <2>2, <2>3, <2>4, AfterFacts
<1>6. CASE (After(q) \/ Reload(q) \/ Probe(q)) /\ req[q].op.op # "update" /\ ~Ends(q)
  <2>1. Leads(q, "status") /\ req[q].op.op \in {"validate", "creds"}
    BY <1>0, <1>6, ValidatingFacts DEF Reload, Kind
  <2> QED BY <2>1 DEF Working, Fresh, Deciding, Promoting, Leads
<1>7. CASE FindCandidate(q) /\ ~Ends(q)
  <2>1. req[q].pc \in Promoting
    BY <1>7 DEF FindCandidate, Promoting
  <2>2. Defaults = {} /\ (InlineKept /\ req[q].op.op = "update" => b # Inline)
    BY <1>0, <2>1 DEF Working
  <2>3. PICK found \in SUBSET {c \in Backend : Live(c)}, next \in {"managed", "inline", "done"} :
          TryCandidate(q, found, next)
    <3>1. /\ Fallbacks \in SUBSET {c \in Backend : Live(c)}
          /\ {c \in Managed : Live(c)} \in SUBSET {c \in Backend : Live(c)}
          /\ {Inline} \in SUBSET {c \in Backend : Live(c)}
      BY <1>0, ConstantsAssumption DEF Fallbacks
    <3> QED BY <1>7, <3>1 DEF FindCandidate
  <2>4. \/ Leads(q, next) /\ next # "done"
        \/ Leads(q, "promote") /\ req'[q].cand \in found
    BY <1>7, <2>3, CandidateFacts
  <2>5. Defaults' = {} /\ \A c \in Backend : Live(c)' <=> Live(c)
    BY <1>0, <2>2 DEF Defaults, Live
  <2>6. req'[q].pc = "promote" => req'[q].cand \in Backend /\ Live(req[q].cand)'
    <3> SUFFICES ASSUME req'[q].pc = "promote"
                 PROVE  req'[q].cand \in Backend /\ Live(req[q].cand)'
      OBVIOUS
    <3>1. req'[q].cand \in found
      BY <2>4 DEF Leads
    <3>2. Live(req'[q].cand)
      BY <2>3, <3>1
    <3> QED BY <1>0, <2>3, <3>1, <3>2 DEF Live
  <2>7. req'[q].op = req[q].op /\ req'[q].pc \in Promoting
    BY <2>4 DEF Leads, Promoting
  <2> QED BY <2>2, <2>5, <2>6, <2>7 DEF Working, Fresh, Deciding, Promoting
<1> QED BY <1>1, <1>2, <1>3, <1>4, <1>5, <1>6, <1>7

\* What Serial says of the rows.
RowsSerial ==
  /\ OneOf(Defaults) /\ OneOf(Fallbacks)
  /\ \A b \in Backend : row[b].deleted => row[b].exists
  /\ \A b \in Backend : row[b].status = verdict[b]

\* The backend c has a row that is not deleted after the step.
LiveNext(c) == row'[c].exists /\ ~row'[c].deleted

\* Every step that writes keeps the rows in order, leads its request to where it
\* may go on, and takes the default away only if the request will promote another.
LEMMA CommitSerial ==
  ASSUME TypeOK, KindInv, InlineLive, Serial, NEW q \in Request, Commit(q)
  PROVE  /\ RowsSerial' /\ Working(q)'
         /\ InlineKept /\ Defaults # {} => Defaults' # {} \/ Successor(q)'
<1> DEFINE op == req[q].op
           b == op.b
<1>0. /\ Working(q) /\ Kind(q) /\ req[q].pc = "commit" /\ b \in Backend /\ op \in Ops
      /\ op.op \in {"create", "update"} /\ UNCHANGED verdict
      /\ ~(op.default = "yes" /\ op.fallback = "yes")
      /\ \A c \in Backend : Flags(c)
      /\ RowsSerial
  <2>1. Working(q) /\ Kind(q) /\ RowsSerial
    BY DEF Serial, KindInv, RowsSerial
  <2>2. req[q].pc = "commit" /\ UNCHANGED verdict /\ ~Ended(q)
    BY DEF Commit, Ended
  <2> QED BY <2>1, <2>2, OperationBackend, RowFlags DEF Kind, TypeOK
<1>1. CASE UNCHANGED row /\ Ends(q)
  <2>1. Working(q)'
    BY <1>1, IdleWorking DEF Ends, Writing
  <2>2. RowsSerial' /\ Defaults' = Defaults
    BY <1>0, <1>1 DEF RowsSerial, OneOf, Defaults, Fallbacks, Live
  <2> QED BY <2>1, <2>2
<1>2. CASE /\ Leads(q, "after") /\ KeepsWas(q)
           /\ op.op = "create" => ~row[b].exists
           /\ CommitOthers(q) /\ CommitOwn(q)
  <2>0. /\ op.op = "update" => /\ Live(b)
                               /\ req[q].was.default = row[b].default
                               /\ req[q].was.status = row[b].status
        /\ req[q].picked = Picked(op)
    BY <1>0 DEF Working, Fresh
  <2>1. /\ op.default = "yes" => req[q].picked = {c \in Backend : row[c].default}
        /\ op.default # "yes" /\ op.fallback = "yes" =>
             req[q].picked = {c \in Backend : row[c].fallback}
        /\ op.default # "yes" /\ op.fallback # "yes" => req[q].picked = {}
    BY <2>0 DEF Picked
  <2>2. \A c \in Backend \ {b} :
          /\ Live(c)' <=> Live(c)
          /\ row'[c].default <=> row[c].default /\ op.default # "yes"
          /\ row'[c].fallback <=> row[c].fallback /\ op.fallback # "yes"
    BY <1>0, <1>2, <2>1 DEF CommitOthers, Live, Flags
  <2>3. /\ LiveNext(b) <=> ~row[b].deleted
        /\ op.op = "create" => ~row[b].deleted
        /\ op.op = "create" => op.default # "unset" /\ op.fallback # "unset"
    <3>1. LiveNext(b) <=> ~row[b].deleted
      BY <1>2 DEF CommitOwn, LiveNext
    <3>2. op.op = "create" => ~row[b].deleted
      BY <1>0, <1>2 DEF RowsSerial
    <3>3. op.op = "create" => op.default # "unset" /\ op.fallback # "unset"
      <4>1. op \in Op
        BY <1>0, ConstantsAssumption
      <4> QED BY <4>1 DEF Op, CreateOp, UpdateOp, PlainOp
    <3> QED BY <3>1, <3>2, <3>3
  <2>4. /\ row'[b].default <=> /\ op.fallback # "yes"
                               /\ op.default = "yes" \/ (op.default = "unset" /\ row[b].default)
        /\ row'[b].fallback <=> /\ op.default # "yes"
                                /\ op.fallback = "yes" \/ (op.fallback = "unset" /\ row[b].fallback)
    BY <1>2 DEF CommitOwn
  <2>5. b \in Defaults' => op.default = "yes" \/ b \in Defaults
    BY <1>0, <2>0, <2>3, <2>4 DEF Defaults, Live, LiveNext
  <2>6. b \in Fallbacks' => op.fallback = "yes" \/ b \in Fallbacks
    BY <1>0, <2>0, <2>3, <2>4 DEF Fallbacks, Live, LiveNext
  <2>7. \A c \in Backend \ {b} :
          /\ c \in Defaults' <=> c \in Defaults /\ op.default # "yes"
          /\ c \in Fallbacks' <=> c \in Fallbacks /\ op.fallback # "yes"
    BY <2>2 DEF Defaults, Fallbacks
  <2>8. OneOf(Defaults)' /\ OneOf(Fallbacks)'
    <3>1. Defaults' \subseteq Backend /\ Fallbacks' \subseteq Backend
          /\ OneOf(Defaults) /\ OneOf(Fallbacks)
      BY <1>0 DEF Defaults, Fallbacks, RowsSerial
    <3>2. ASSUME NEW c \in Defaults', NEW d \in Defaults' PROVE c = d
      BY <2>5, <2>7, <3>1, <3>2 DEF OneOf
    <3>3. ASSUME NEW c \in Fallbacks', NEW d \in Fallbacks' PROVE c = d
      BY <2>6, <2>7, <3>1, <3>3 DEF OneOf
    <3> QED BY <3>2, <3>3 DEF OneOf
  <2>9. \A c \in Backend : row'[c].deleted => row'[c].exists
    BY <1>0, <1>2 DEF CommitOthers, CommitOwn, RowsSerial
  <2>10. \A c \in Backend : row'[c].status = verdict'[c]
    BY <1>0, <1>2, <2>0 DEF CommitOthers, CommitOwn, RowsSerial
  <2>11. RowsSerial'
    BY <2>8, <2>9, <2>10 DEF RowsSerial
  <2>12. op.op = "update" =>
           /\ LiveNext(b)
           /\ req[q].was.default => Defaults' \subseteq {b}
           /\ InlineKept /\ b = Inline /\ req[q].was.default => row'[b].default
    <3> SUFFICES ASSUME op.op = "update"
                 PROVE  /\ LiveNext(b)
                        /\ req[q].was.default => Defaults' \subseteq {b}
                        /\ InlineKept /\ b = Inline /\ req[q].was.default => row'[b].default
      OBVIOUS
    <3>1. LiveNext(b)
      BY <2>0, <2>3 DEF Live, LiveNext
    <3>2. req[q].was.default => b \in Defaults
      BY <1>0, <2>0 DEF Defaults
    <3>3. req[q].was.default => Defaults' \subseteq {b}
      <4>1. Defaults' \subseteq Backend /\ OneOf(Defaults)
        BY <1>0 DEF Defaults, RowsSerial
      <4> QED BY <2>7, <3>2, <4>1 DEF OneOf
    <3>4. InlineKept /\ b = Inline => op.default # "no" /\ op.fallback # "yes"
      BY <1>0 DEF InlineKept
    <3>5. op.default \in {"unset", "yes", "no"}
      <4>1. op \in UpdateOp
        BY <1>0, ConstantsAssumption DEF Op, CreateOp, PlainOp
      <4> QED BY <4>1 DEF UpdateOp, Flag
    <3>6. InlineKept /\ b = Inline /\ req[q].was.default => row'[b].default
      BY <2>0, <2>4, <3>4, <3>5
    <3> QED BY <3>1, <3>3, <3>6
  <2>13. Working(q)'
    <3>1. req'[q].pc = "after" /\ req'[q].op = op /\ req'[q].was = req[q].was
      BY <1>2 DEF Leads, KeepsWas
    <3> HIDE DEF op, b
    <3>2. Deciding(q)' => /\ Live(req[q].op.b)'
                          /\ (req[q].was.default => Defaults \subseteq {req[q].op.b})'
                          /\ InlineKept /\ req'[q].op.b = Inline /\ req'[q].was.default =>
                               row'[req'[q].op.b].default
      BY <2>12, <3>1 DEF Deciding, Live, LiveNext, b, op
    <3> QED BY <3>1, <3>2 DEF Working, Fresh, Promoting, InlineKept
  <2>14. Defaults # {} => Defaults' # {} \/ Successor(q)'
    <3> SUFFICES ASSUME Defaults # {} PROVE Defaults' # {} \/ Successor(q)'
      OBVIOUS
    <3>1. CASE op.default = "yes"
      <4>1. b \in Defaults'
        BY <1>0, <2>0, <2>3, <2>4, <3>1 DEF Defaults, Live, LiveNext
      <4> QED BY <4>1
    <3>2. CASE op.default # "yes" /\ b \notin Defaults
      BY <2>7, <3>2 DEF Defaults
    <3>3. CASE op.default # "yes" /\ b \in Defaults /\ b \notin Defaults'
      <4>1. op.op = "update" /\ row[b].default
        BY <1>0, <1>2, <3>3 DEF Defaults, Live
      <4>2. ~row'[b].default
        BY <1>0, <2>12, <3>3, <4>1 DEF Defaults, Live, LiveNext
      <4>3. req[q].was.default
        BY <2>0, <4>1
      <4> QED BY <1>2, <4>1, <4>2, <4>3 DEF Successor, Deciding, Leads, KeepsWas
    <3> QED BY <3>1, <3>2, <3>3
  <2> QED BY <2>11, <2>13, <2>14
<1> QED BY <1>1, <1>2, CommitFacts

LEMMA StatusSerial ==
  ASSUME TypeOK, KindInv, Serial, NEW q \in Request, UpdateValidationStatus(q)
  PROVE  RowsSerial' /\ Working(q)' /\ Defaults' = Defaults /\ (Successor(q) => Successor(q)')
<1>0. /\ Working(q) /\ req[q].pc = "status" /\ req[q].op.b \in Backend
  BY OperationBackend DEF Serial, UpdateValidationStatus, Ended
<1>1. /\ \A c \in Backend : Live(c)' <=> Live(c)
      /\ \A c \in Backend : row'[c].default = row[c].default /\ row'[c].fallback = row[c].fallback
      /\ Defaults' = Defaults /\ Fallbacks' = Fallbacks
  BY StatusFacts DEF Live, Defaults, Fallbacks
<1>2. RowsSerial'
  BY <1>1, StatusFacts DEF Serial, RowsSerial, OneOf
<1>3. CASE req[q].op.op = "update"
  <2>1. Leads(q, "reload") /\ KeepsWas(q)
    BY <1>3, PlainFacts
  <2>2. /\ Live(req[q].op.b)
        /\ req[q].was.default => Defaults \subseteq {req[q].op.b}
        /\ InlineKept /\ req[q].op.b = Inline /\ req[q].was.default => row[req[q].op.b].default
    BY <1>0, <1>3 DEF Working, Deciding
  <2>3. req'[q].op.b = req[q].op.b /\ req'[q].was = req[q].was /\ req'[q].pc = "reload"
    BY <2>1 DEF Leads, KeepsWas
  <2>4. Live(req[q].op.b)'
    BY <1>0, <1>1, <2>2, <2>3 DEF Live
  <2>5. Working(q)'
    BY <1>0, <1>1, <2>2, <2>3, <2>4 DEF Working, Fresh, Deciding, Promoting, InlineKept
  <2>6. Successor(q) => Successor(q)'
    BY <1>0, <1>1, <1>3, <2>1 DEF Successor, Deciding, Leads, KeepsWas, Promoting
  <2> QED BY <1>1, <1>2, <2>5, <2>6
<1>4. CASE req[q].op.op # "update"
  <2>1. Ends(q) /\ ~Successor(q)
    BY <1>0, <1>4, PlainFacts DEF Successor, Deciding, Promoting
  <2> QED BY <1>1, <1>2, <2>1, IdleWorking DEF Ends, Writing
<1> QED BY <1>3, <1>4

LEMMA DeleteSerial ==
  ASSUME TypeOK, KindInv, Serial, NEW q \in Request, SoftDelete(q)
  PROVE  /\ RowsSerial' /\ Working(q)'
         /\ Defaults # {} => Defaults' # {} \/ Successor(q)'
<1> DEFINE b == req[q].op.b
<1>0. /\ Working(q) /\ req[q].pc = "softdelete" /\ req[q].op.op = "delete" /\ RowsSerial
      /\ UNCHANGED verdict
      /\ Live(b) /\ req[q].was.default = row[b].default
  BY DEF Serial, RowsSerial, SoftDelete, KindInv, Kind, Working, Fresh
<1>1. /\ b \in Backend /\ \A c \in Backend \ {b} : row'[c] = row[c]
      /\ row'[b].deleted /\ row'[b].exists = row[b].exists /\ row'[b].status = row[b].status
  BY DeleteFacts
<1>2. Defaults' = Defaults \ {b} /\ Fallbacks' = Fallbacks \ {b}
  <2>1. ~LiveNext(b) /\ \A c \in Backend \ {b} : Live(c)' <=> Live(c)
    BY <1>1 DEF Live, LiveNext
  <2>2. Defaults' = Defaults \ {b}
    BY <1>1, <2>1 DEF Defaults, Live, LiveNext
  <2>3. Fallbacks' = Fallbacks \ {b}
    BY <1>1, <2>1 DEF Fallbacks, Live, LiveNext
  <2> QED BY <2>2, <2>3
<1>3. RowsSerial'
  <2>1. \A c \in Backend : row'[c].deleted => row'[c].exists
    BY <1>0, <1>1 DEF RowsSerial, Live
  <2>2. \A c \in Backend : row'[c].status = verdict'[c]
    BY <1>0, <1>1 DEF RowsSerial
  <2> QED BY <1>0, <1>2, <2>1, <2>2 DEF RowsSerial, OneOf
<1>4. CASE req[q].was.default
  <2>1. Leads(q, "fallback")
    BY <1>4, PlainFacts
  <2>2. Defaults' = {}
    BY <1>0, <1>1, <1>2, <1>4 DEF RowsSerial, OneOf, Defaults
  <2>3. Working(q)'
    BY <1>0, <2>1, <2>2 DEF Working, Fresh, Deciding, Promoting, Leads
  <2> QED BY <1>3, <2>1, <2>3 DEF Successor, Leads, Promoting
<1>5. CASE ~req[q].was.default
  <2>1. Ends(q)
    BY <1>5, PlainFacts
  <2>2. Defaults' = Defaults
    BY <1>0, <1>2, <1>5 DEF Defaults
  <2> QED BY <1>3, <2>1, <2>2, IdleWorking DEF Ends, Writing
<1> QED BY <1>4, <1>5

LEMMA PromoteSerial ==
  ASSUME TypeOK, Serial, NEW q \in Request, Promote(q)
  PROVE  RowsSerial' /\ Working(q)' /\ Defaults' # {}
<1> DEFINE b == req[q].cand
<1>0. /\ b \in Backend /\ Live(b) /\ Defaults = {} /\ RowsSerial /\ UNCHANGED verdict
  <2>1. Working(q) /\ req[q].pc = "promote" /\ req[q].pc \in Promoting
    BY DEF Serial, Promote, Promoting
  <2> QED BY <2>1 DEF Working, Serial, RowsSerial, Promote
<1>1. /\ \A c \in Backend \ {b} : row'[c] = row[c]
      /\ row'[b].default /\ ~row'[b].fallback
      /\ row'[b].exists = row[b].exists /\ row'[b].deleted = row[b].deleted
      /\ row'[b].status = row[b].status
  BY <1>0, PromoteFacts
<1>2. \A c \in Backend : Live(c)' <=> Live(c)
  BY <1>1 DEF Live
<1>3. Defaults' = {b} /\ Fallbacks' = Fallbacks \ {b}
  <2>1. Defaults' = {b}
    BY <1>0, <1>1, <1>2 DEF Defaults
  <2>2. Fallbacks' = Fallbacks \ {b}
    BY <1>0, <1>1, <1>2 DEF Fallbacks
  <2> QED BY <2>1, <2>2
<1>4. RowsSerial'
  <2>1. \A c \in Backend : row'[c].deleted => row'[c].exists
    BY <1>0, <1>1 DEF RowsSerial
  <2>2. \A c \in Backend : row'[c].status = verdict'[c]
    BY <1>0, <1>1 DEF RowsSerial
  <2> QED BY <1>0, <1>3, <2>1, <2>2 DEF RowsSerial, OneOf
<1>5. Working(q)'
  BY PlainFacts, IdleWorking DEF Ends, Writing
<1> QED BY <1>3, <1>4, <1>5

\* A set with one member at most has cardinality one at most.
LEMMA OneOfCardinality ==
  ASSUME NEW S, OneOf(S)
  PROVE  Cardinality(S) \in Nat /\ Cardinality(S) <= 1
<1>1. CASE S = {}
  BY <1>1, FS_EmptySet
<1>2. CASE S # {}
  <2>1. PICK a \in S : S = {a}
    BY <1>2 DEF OneOf
  <2> QED BY <2>1, FS_Singleton
<1> QED BY <1>1, <1>2

\* The search for a candidate by a request that runs alone always goes on.
LEMMA CandidateFound ==
  ASSUME TypeOK, KindInv, Serial, InlineKept, NEW q \in Request, FindCandidate(q)
  PROVE  \E pc \in Promoting : Leads(q, pc)
<1>1. OneOf(Fallbacks) /\ OneOf({b \in Managed : Live(b)}) /\ OneOf({Inline})
  BY ConstantsAssumption DEF Serial, OneOf
<1>2. /\ Fallbacks \in SUBSET Backend /\ {b \in Managed : Live(b)} \in SUBSET Backend
      /\ {Inline} \in SUBSET Backend
  BY ConstantsAssumption DEF Fallbacks
<1>3. \A S : OneOf(S) => ~(Cardinality(S) > 1)
  <2> SUFFICES ASSUME NEW S, OneOf(S) PROVE ~(Cardinality(S) > 1)
    OBVIOUS
  <2>1. Cardinality(S) \in Nat /\ Cardinality(S) <= 1
    BY OneOfCardinality
  <2> QED BY <2>1
<1>4. CASE req[q].pc = "fallback" /\ TryCandidate(q, Fallbacks, "managed")
  BY <1>1, <1>2, <1>3, <1>4, CandidateFacts DEF Promoting
<1>5. CASE req[q].pc = "managed" /\ TryCandidate(q, {b \in Managed : Live(b)}, "inline")
  BY <1>1, <1>2, <1>3, <1>5, CandidateFacts DEF Promoting
<1>6. CASE req[q].pc = "inline" /\ TryCandidate(q, {Inline}, "done")
  <2>1. Inline \notin Excluded(q)
    BY <1>6 DEF Serial, Working, Promoting, Excluded
  <2>2. {Inline} \ Excluded(q) # {}
    BY <2>1
  <2> QED BY <1>1, <1>2, <1>3, <1>6, <2>2, CandidateFacts DEF Promoting
<1> QED BY <1>4, <1>5, <1>6 DEF FindCandidate

\* A request that is to promote a default is still to do so after a step that
\* touches no row.
LEMMA SuccessorKept ==
  ASSUME TypeOK, KindInv, Serial, InlineKept, NEW q \in Request, Successor(q),
         \/ Read(q) \/ SaveCredentials(q) \/ Pick(q) \/ After(q) \/ Reload(q) \/ Probe(q)
         \/ FindCandidate(q) \/ FindDefault(q) \/ FindFallback(q)
  PROVE  Successor(q)'
<1>0. UNCHANGED row
  BY RowsKept
<1>1. CASE FindCandidate(q)
  BY <1>1, CandidateFound DEF Successor, Leads
<1>2. CASE After(q) \/ Reload(q) \/ Probe(q)
  <2>1. Deciding(q) /\ req[q].was.default /\ ~row[req[q].op.b].default
    BY <1>2 DEF Successor, After, Reload, Probe, Promoting
  <2>2. Live(req[q].op.b) /\ req[q].op.op = "update"
    BY <2>1 DEF Serial, Working, Deciding
  <2>3. \/ \E pc \in {"probe", "status", "reload"} : Leads(q, pc) /\ KeepsWas(q)
        \/ Leads(q, "fallback") /\ KeepsWas(q)
    BY <1>2, <2>1, <2>2, AfterFacts
  <2> QED BY <1>0, <2>1, <2>2, <2>3 DEF Successor, Deciding, Leads, KeepsWas, Promoting
<1>3. ~(Read(q) \/ SaveCredentials(q) \/ Pick(q) \/ FindDefault(q) \/ FindFallback(q))
  BY DEF Successor, Deciding, Promoting, Read, SaveCredentials, Pick, FindDefault, FindFallback
<1> QED BY <1>1, <1>2, <1>3

\* Serial and Elected after the steps of a request.
LEMMA RequestSerial ==
  ASSUME SerialInv, ~overlap, ~overlap', NEW q \in Request, Step(q) \/ Fails(q), Sole'
  PROVE  /\ Serial'
         /\ (faults = 0 /\ faults' = 0 /\ InlineKept) =>
              Defaults' # {} \/ \E r \in Request : Successor(r)'
<1>0. /\ TypeOK /\ KindInv /\ InlineLive /\ Serial /\ Elected /\ RowsSerial
      /\ ~Ended(q) /\ \A r \in Request \ {q} : req'[r] = req[r]
  BY StepMoves DEF SerialInv, Serial, RowsSerial
<1>1. ASSUME Writing(q), RowsSerial', Working(q)' PROVE Serial'
  <2>1. \A r \in Request \ {q} : ~Writing(r)'
    BY <1>0, <1>1 DEF Serial, Sole, Writing
  <2>2. \A r \in Request \ {q} : Working(r)'
    BY <2>1, IdleWorking
  <2> QED BY <1>1, <2>2 DEF Serial, RowsSerial
<1>2. ASSUME UNCHANGED <<row, verdict>>, Working(q)' PROVE Serial'
  <2>1. \A r \in Request \ {q} : Working(r)'
    BY <1>0, <1>2, WorkingKept DEF Serial
  <2>2. RowsSerial'
    BY <1>0, <1>2 DEF RowsSerial, OneOf, Defaults, Fallbacks, Live
  <2> QED BY <1>2, <2>1, <2>2 DEF Serial, RowsSerial
<1>3. ASSUME UNCHANGED row, Successor(q) => Successor(q)', faults = 0, InlineKept
      PROVE  Defaults' # {} \/ \E r \in Request : Successor(r)'
  <2>1. Defaults # {} \/ \E r \in Request : Successor(r)
    BY <1>0, <1>3 DEF Elected
  <2>2. Defaults' = Defaults
    BY <1>3 DEF Defaults, Live
  <2>3. \A r \in Request \ {q} : Successor(r) => Successor(r)'
    BY <1>0, <1>3 DEF Successor, Deciding
  <2> QED BY <1>3, <2>1, <2>2, <2>3
\* A request that writes is the only one that may be about to promote.
<1>4. ASSUME Writing(q), faults = 0, InlineKept
      PROVE  Defaults # {} \/ Successor(q)
  <2>1. \A r \in Request : Successor(r) => Writing(r)
    BY DEF Successor, Deciding, Writing, Promoting
  <2> QED BY <1>0, <1>4, <2>1 DEF Elected, Serial, Sole
<1>5. CASE \/ Read(q) \/ SaveCredentials(q) \/ Pick(q) \/ After(q) \/ Reload(q) \/ Probe(q)
           \/ FindCandidate(q)
  <2>1. UNCHANGED <<row, verdict>> /\ Working(q)'
    BY <1>0, <1>5, RowsKept, QuietWorking
  <2> QED BY <1>0, <1>2, <1>3, <1>5, <2>1, SuccessorKept
<1>6. CASE FindDefault(q) \/ FindFallback(q)
  <2>1. UNCHANGED <<row, verdict>> /\ Working(q)'
    <3>1. ~Writing(q)
      BY <1>6 DEF FindDefault, FindFallback, Writing
    <3> QED BY <1>0, <3>1, WritingMoves, IdleWorking
  <2> QED BY <1>0, <1>2, <1>3, <1>6, <2>1, SuccessorKept
<1>7. CASE Fails(q)
  <2>1. UNCHANGED <<row, verdict>> /\ Working(q)'
    BY <1>0, <1>7, RowsKept, PlainFacts, IdleWorking DEF Ends, Writing
  <2>2. ~(faults = 0 /\ faults' = 0)
    BY <1>7 DEF Fails
  <2> QED BY <1>2, <2>1, <2>2
<1>8. CASE Commit(q)
  <2>1. Writing(q) /\ ~Successor(q)
    BY <1>8 DEF Commit, Writing, Successor, Deciding, Promoting
  <2>2. /\ RowsSerial' /\ Working(q)'
        /\ InlineKept /\ Defaults # {} => Defaults' # {} \/ Successor(q)'
    BY <1>0, <1>8, CommitSerial
  <2> QED BY <1>1, <1>4, <2>1, <2>2
<1>9. CASE UpdateValidationStatus(q)
  <2>1. Writing(q)
    BY <1>9 DEF UpdateValidationStatus, Writing
  <2>2. RowsSerial' /\ Working(q)' /\ Defaults' = Defaults /\ (Successor(q) => Successor(q)')
    BY <1>0, <1>9, StatusSerial
  <2> QED BY <1>1, <1>4, <2>1, <2>2
<1>10. CASE SoftDelete(q)
  <2>1. Writing(q) /\ ~Successor(q)
    BY <1>10 DEF SoftDelete, Writing, Successor, Deciding, Promoting
  <2>2. /\ RowsSerial' /\ Working(q)'
        /\ Defaults # {} => Defaults' # {} \/ Successor(q)'
    BY <1>0, <1>10, DeleteSerial
  <2> QED BY <1>1, <1>4, <2>1, <2>2
<1>11. CASE Promote(q)
  <2>1. Writing(q)
    BY <1>11 DEF Promote, Writing
  <2>2. RowsSerial' /\ Working(q)' /\ Defaults' # {}
    BY <1>0, <1>11, PromoteSerial
  <2> QED BY <1>1, <2>1, <2>2
<1> QED BY <1>5, <1>6, <1>7, <1>8, <1>9, <1>10, <1>11 DEF Step

\* SerialInv is an invariant.
LEMMA SerialStep == SerialInv /\ NeverBoth /\ [Next]_vars => SerialInv'
<1> SUFFICES ASSUME SerialInv, NeverBoth, [Next]_vars PROVE SerialInv'
  OBVIOUS
<1>0. TypeOK /\ KindInv /\ InlineLive /\ Elected /\ (~overlap => Serial)
  BY DEF SerialInv
<1>1. TypeOK' /\ KindInv' /\ InlineLive'
  BY <1>0, SafetyStep, KindStep, InlineStep
<1>2. ~overlap' => ~overlap
  BY DEF Next, Step, Begin, Read, SaveCredentials, Pick, Commit, After, Reload, Probe,
         UpdateValidationStatus, SoftDelete, FindCandidate, Promote, FindDefault, FindFallback,
         Fails, Flip, vars
<1>3. faults' = 0 => faults = 0
  <2>1. faults' = faults \/ faults' = faults + 1
    BY DEF Next, Step, Begin, Read, SaveCredentials, Pick, Commit, After, Reload, Probe,
           UpdateValidationStatus, SoftDelete, FindCandidate, Promote, FindDefault, FindFallback,
           Fails, Flip, vars
  <2>2. faults \in Nat
    BY <1>0, ConstantsAssumption DEF TypeOK
  <2> QED BY <2>1, <2>2
<1>4. ~overlap' => Sole'
  BY <1>0, <1>2, SoleStep DEF Serial
<1>5. ASSUME ~overlap'
      PROVE  /\ Serial'
             /\ (faults' = 0 /\ InlineKept) => Defaults' # {} \/ \E r \in Request : Successor(r)'
  <2>0. ~overlap /\ Sole' /\ Serial /\ RowsSerial
    BY <1>0, <1>2, <1>4, <1>5 DEF Serial, RowsSerial
  <2>1. ASSUME NEW q \in Request, Step(q) \/ Fails(q)
        PROVE  /\ Serial'
               /\ (faults' = 0 /\ InlineKept) => Defaults' # {} \/ \E r \in Request : Successor(r)'
    BY <1>3, <1>5, <2>0, <2>1, RequestSerial
  <2>2. ASSUME UNCHANGED <<row, verdict>>,
               \A r \in Request : (Working(r)' /\ ~Successor(r)) \/ req'[r] = req[r]
        PROVE  /\ Serial'
               /\ (faults' = 0 /\ InlineKept) => Defaults' # {} \/ \E r \in Request : Successor(r)'
    <3>1. RowsSerial' /\ Defaults' = Defaults
      BY <2>0, <2>2 DEF RowsSerial, OneOf, Defaults, Fallbacks, Live
    <3>2. \A r \in Request : Working(r)'
      BY <2>0, <2>2, WorkingKept DEF Serial
    <3>3. \A r \in Request : Successor(r) => Successor(r)'
      BY <2>2 DEF Successor, Deciding
    <3> QED BY <1>0, <1>3, <2>0, <3>1, <3>2, <3>3 DEF Serial, RowsSerial, Elected
  <2>3. ASSUME NEW q \in Request, NEW op \in Ops, Begin(q, op)
        PROVE  /\ UNCHANGED <<row, verdict>>
               /\ \A r \in Request : (Working(r)' /\ ~Successor(r)) \/ req'[r] = req[r]
    <3>1. /\ req'[q].pc \in {"secret", "default", "read"}
          /\ req'[q].pc = "secret" => req'[q].op.op = "create"
          /\ UNCHANGED <<row, verdict>> /\ Ended(q)
          /\ \A r \in Request \ {q} : req'[r] = req[r]
      BY <1>0, <2>3, BeginFacts
    <3>2. Working(q)' /\ ~Successor(q)
      BY <3>1 DEF Working, Fresh, Deciding, Promoting, Successor, Ended
    <3> QED BY <3>1, <3>2
  <2>4. CASE UNCHANGED <<row, req, verdict>>
    BY <2>2, <2>4
  <2> QED BY <2>1, <2>2, <2>3, <2>4 DEF Next, Flip, vars
<1>6. Elected'
  BY <1>5 DEF Elected, InlineKept
<1> QED BY <1>1, <1>5, <1>6 DEF SerialInv

LEMMA InitSerial == Init => SerialInv
<1> SUFFICES ASSUME Init PROVE SerialInv
  OBVIOUS
<1>1. TypeOK
  BY InitSafe
<1>2. \A q \in Request : req[q].pc = "done"
  BY DEF Init, Idle
<1>3. KindInv /\ Sole /\ \A q \in Request : Working(q)
  BY <1>2 DEF KindInv, Kind, Sole, Writing, Working, Fresh, Deciding, Promoting, Ended
<1>4. InlineLive /\ Defaults = {Inline} /\ Fallbacks = {}
  BY ConstantsAssumption DEF Init, InlineLive, Live, Defaults, Fallbacks
<1>5. /\ \A b \in Backend : row[b].deleted => row[b].exists
      /\ \A b \in Backend : row[b].status = verdict[b]
  BY DEF Init
<1>6. Serial
  BY <1>3, <1>4, <1>5 DEF Serial, OneOf
<1>7. Elected
  BY <1>4 DEF Elected
<1> QED BY <1>1, <1>3, <1>4, <1>6, <1>7 DEF SerialInv

LEMMA SerialHolds == Spec => []SerialInv
<1>1. Init => SerialInv /\ NeverBoth
  BY InitSerial, InitSafe
<1>2. SerialInv /\ NeverBoth /\ [Next]_vars => SerialInv' /\ NeverBoth'
  BY SerialStep, SafetyStep DEF SerialInv
<1>3. Spec => [](SerialInv /\ NeverBoth)
  BY <1>1, <1>2, PTL DEF Spec
<1> QED BY <1>3, PTL

\* In any sequence of creations, updates and deletions that do not overlap, an
\* organization has at most one default and one fallback, whichever of them failed.
THEOREM ElectionIsSerial == Spec => []SerialElection
<1>1. SerialInv => SerialElection
  BY OneOfCardinality DEF SerialInv, Serial, SerialElection
<1> QED BY <1>1, SerialHolds, PTL

\* If none of them failed and none takes the flag from the inline backend, there
\* is a default whenever all have ended.
THEOREM DefaultIsKept == Spec => []DefaultKept
<1>1. ASSUME SerialInv PROVE DefaultKept
  <2>1. \A q \in Request : Ended(q) => ~Successor(q)
    BY DEF Ended, Successor, Deciding, Promoting
  <2> QED BY <1>1, <2>1 DEF SerialInv, Elected, DefaultKept, InlineKept
<1> QED BY <1>1, SerialHolds, PTL

\* The status of a backend is what its last validation found: no update of other
\* fields resets or revives one.
THEOREM StatusIsSerial == Spec => []SerialStatus
<1>1. SerialInv => SerialStatus
  BY DEF SerialInv, Serial, SerialStatus
<1> QED BY <1>1, SerialHolds, PTL

-----------------------------------------------------------------------------
(* The periodic check of the backends: what the lock of a scope gives, for  *)
(* every number of replicas, scopes, backends and faults.                   *)

CheckerLocal == [pc : {"sleep", "list", "next", "call"}, todo : SUBSET CheckedBackend,
          at : CheckedBackend \cup {Nil}, seen : Health, late : BOOLEAN,
          lost : BOOLEAN, kept : BOOLEAN]

\* The types that the argument needs.
CheckerTyped ==
  /\ holder \in [Scope -> Checker \cup {Nil}]
  /\ chk \in [Checker -> CheckerLocal]
  /\ health \in [CheckedBackend -> Health]

\* A live session of c holds the lock: that of its tick, or one kept in the pool.
Claims(c) == \/ chk[c].pc # "sleep" /\ ~chk[c].lost
             \/ chk[c].kept

\* What PostgreSQL says of a lock and what the replicas may say of their sessions
\* agree, and a tick that lost its session holds no other.
LockInv ==
  /\ \A s \in Scope : \A c \in Checker :
       holder[s] = c <=> ScopeOf[c] = s /\ Claims(c)
  /\ \A c \in Checker : chk[c].lost => chk[c].pc # "sleep" /\ ~chk[c].kept

CheckerInv == CheckerTyped /\ LockInv

\* A checker that moves on stays well formed, and leaves the others alone.
LEMMA CheckerMoves ==
  ASSUME NEW c \in Checker, NEW l \in CheckerLocal, CheckerTyped, chk' = [chk EXCEPT ![c] = l]
  PROVE  /\ chk' \in [Checker -> CheckerLocal]
         /\ chk'[c] = l
         /\ \A d \in Checker \ {c} : chk'[d] = chk[d]
BY DEF CheckerTyped

\* A step of a checker that changes neither its claim nor the lock.
LEMMA LockStays ==
  ASSUME NEW c \in Checker, NEW l \in CheckerLocal, CheckerInv,
         chk' = [chk EXCEPT ![c] = l], holder' = holder, health' = health,
         ((l.pc # "sleep" /\ ~l.lost) \/ l.kept) <=> Claims(c),
         l.lost => l.pc # "sleep" /\ ~l.kept
  PROVE  CheckerInv'
<1>1. /\ chk' \in [Checker -> CheckerLocal] /\ chk'[c] = l
      /\ \A d \in Checker \ {c} : chk'[d] = chk[d]
  BY CheckerMoves DEF CheckerInv
<1>2. CheckerTyped'
  BY <1>1 DEF CheckerInv, CheckerTyped
<1>3. ASSUME NEW d \in Checker PROVE Claims(d)' <=> Claims(d)
  BY <1>1 DEF Claims
<1>4. ASSUME NEW d \in Checker, chk'[d].lost PROVE chk'[d].pc # "sleep" /\ ~chk'[d].kept
  BY <1>1, <1>4 DEF CheckerInv, LockInv
<1> QED BY <1>2, <1>3, <1>4 DEF CheckerInv, LockInv

\* A checker that takes the free lock of its scope, on a session of its own.
LEMMA LockTaken ==
  ASSUME NEW c \in Checker, NEW l \in CheckerLocal, CheckerInv,
         chk' = [chk EXCEPT ![c] = l], health' = health,
         holder[ScopeOf[c]] = Nil, holder' = [holder EXCEPT ![ScopeOf[c]] = c],
         l.pc # "sleep", ~l.lost
  PROVE  CheckerInv'
<1>c. ScopeOf \in [Checker -> Scope] /\ Nil \notin Checker
  BY CheckerAssumption
<1>1. /\ chk' \in [Checker -> CheckerLocal] /\ chk'[c] = l
      /\ \A d \in Checker \ {c} : chk'[d] = chk[d]
  BY CheckerMoves DEF CheckerInv
<1>2. CheckerTyped'
  BY <1>c, <1>1 DEF CheckerInv, CheckerTyped
<1>3. ASSUME NEW s \in Scope, NEW d \in Checker
      PROVE  holder'[s] = d <=> ScopeOf[d] = s /\ Claims(d)'
  <2>1. holder'[s] = IF s = ScopeOf[c] THEN c ELSE holder[s]
    BY <1>c DEF CheckerInv, CheckerTyped
  <2>2. holder[s] = d <=> ScopeOf[d] = s /\ Claims(d)
    BY DEF CheckerInv, LockInv
  <2>3. CASE d = c
    <3>1. Claims(c)'
      BY <1>1 DEF Claims
    <3> QED BY <2>1, <2>2, <2>3, <3>1
  <2>4. CASE d # c
    <3>1. Claims(d)' <=> Claims(d)
      BY <1>1, <2>4 DEF Claims
    <3>2. CASE s = ScopeOf[c]
      BY <1>c, <2>1, <2>2, <2>4, <3>1, <3>2
    <3>3. CASE s # ScopeOf[c]
      BY <2>1, <2>2, <3>1, <3>3
    <3> QED BY <3>2, <3>3
  <2> QED BY <2>3, <2>4
<1>4. ASSUME NEW d \in Checker, chk'[d].lost PROVE chk'[d].pc # "sleep" /\ ~chk'[d].kept
  BY <1>1, <1>4 DEF CheckerInv, LockInv
<1> QED BY <1>2, <1>3, <1>4 DEF CheckerInv, LockInv

\* A session that claims the lock gives it up: nobody else of the scope held it.
LEMMA LockGiven ==
  ASSUME NEW c \in Checker, NEW l \in CheckerLocal, CheckerInv,
         chk' = [chk EXCEPT ![c] = l], health' = health,
         Claims(c), holder' = [holder EXCEPT ![ScopeOf[c]] = Nil],
         l.pc = "sleep" \/ l.lost, ~l.kept, l.lost => l.pc # "sleep"
  PROVE  CheckerInv'
<1>c. ScopeOf \in [Checker -> Scope] /\ Nil \notin Checker
  BY CheckerAssumption
<1>1. /\ chk' \in [Checker -> CheckerLocal] /\ chk'[c] = l
      /\ \A d \in Checker \ {c} : chk'[d] = chk[d]
  BY CheckerMoves DEF CheckerInv
<1>2. CheckerTyped'
  BY <1>c, <1>1 DEF CheckerInv, CheckerTyped
<1>h. holder[ScopeOf[c]] = c
  BY <1>c DEF CheckerInv, LockInv
<1>3. ASSUME NEW s \in Scope, NEW d \in Checker
      PROVE  holder'[s] = d <=> ScopeOf[d] = s /\ Claims(d)'
  <2>1. holder'[s] = IF s = ScopeOf[c] THEN Nil ELSE holder[s]
    BY <1>c DEF CheckerInv, CheckerTyped
  <2>2. holder[s] = d <=> ScopeOf[d] = s /\ Claims(d)
    BY DEF CheckerInv, LockInv
  <2>3. CASE d = c
    <3>1. ~Claims(c)'
      BY <1>1 DEF Claims
    <3> QED BY <1>c, <2>1, <2>2, <2>3, <3>1
  <2>4. CASE d # c
    <3>1. Claims(d)' <=> Claims(d)
      BY <1>1, <2>4 DEF Claims
    <3>2. CASE s = ScopeOf[c]
      BY <1>c, <1>h, <2>1, <2>2, <2>4, <3>1, <3>2
    <3>3. CASE s # ScopeOf[c]
      BY <2>1, <2>2, <3>1, <3>3
    <3> QED BY <3>2, <3>3
  <2> QED BY <2>3, <2>4
<1>4. ASSUME NEW d \in Checker, chk'[d].lost PROVE chk'[d].pc # "sleep" /\ ~chk'[d].kept
  BY <1>1, <1>4 DEF CheckerInv, LockInv
<1> QED BY <1>2, <1>3, <1>4 DEF CheckerInv, LockInv

\* The steps inside a tick that touch no session.
LEMMA TickStep ==
  ASSUME NEW c \in Checker, CheckerInv,
         \/ ListBackends(c) \/ ListFails(c) \/ Validate(c) \/ Record(c)
         \/ ValidationFails(c) \/ TickTimeout(c)
  PROVE  CheckerInv'
<1>c. /\ ScopeOf \in [Checker -> Scope] /\ Listed \in [Scope -> SUBSET CheckedBackend]
      /\ "ok" \in Health
  BY CheckerAssumption
<1>t. chk[c] \in CheckerLocal /\ chk \in [Checker -> CheckerLocal]
  BY DEF CheckerInv, CheckerTyped
<1>u. /\ chk[c].pc # "sleep" /\ holder' = holder /\ health' = health
  BY DEF ListBackends, ListFails, Validate, Record, ValidationFails, TickTimeout
<1>l. chk[c].lost => ~chk[c].kept
  BY DEF CheckerInv, LockInv
<1>1. ASSUME NEW l \in CheckerLocal, chk' = [chk EXCEPT ![c] = l],
             l.pc # "sleep", l.lost = chk[c].lost, l.kept = chk[c].kept
      PROVE  CheckerInv'
  <2>1. ((l.pc # "sleep" /\ ~l.lost) \/ l.kept) <=> Claims(c)
    BY <1>1, <1>u DEF Claims
  <2> QED BY <1>1, <1>u, <1>l, <2>1, LockStays
<1>2. CASE ListBackends(c)
  <2> DEFINE t == IF chk[c].late THEN {} ELSE Listed[ScopeOf[c]]
             l == [chk[c] EXCEPT !.pc = "next", !.todo = t]
  <2>1. t \in SUBSET CheckedBackend
    BY <1>c
  <2>2. chk' = [chk EXCEPT ![c] = l]
    BY <1>2, <1>t DEF ListBackends
  <2> HIDE DEF t
  <2>3. l \in CheckerLocal
    BY <1>t, <2>1 DEF CheckerLocal
  <2>4. l.pc # "sleep" /\ l.lost = chk[c].lost /\ l.kept = chk[c].kept
    BY <1>t DEF CheckerLocal
  <2> QED BY <1>1, <2>2, <2>3, <2>4
<1>3. CASE ListFails(c)
  <2> DEFINE l == [chk[c] EXCEPT !.pc = "next"]
  <2>1. chk' = [chk EXCEPT ![c] = l]
    BY <1>3, <1>t DEF ListFails
  <2>2. l \in CheckerLocal
    BY <1>t DEF CheckerLocal
  <2>3. l.pc # "sleep" /\ l.lost = chk[c].lost /\ l.kept = chk[c].kept
    BY <1>t DEF CheckerLocal
  <2> QED BY <1>1, <2>1, <2>2, <2>3
<1>4. CASE Validate(c)
  <2>1. PICK b \in chk[c].todo :
          chk' = IF chk[c].late THEN [chk EXCEPT ![c].todo = @ \ {b}]
                 ELSE [chk EXCEPT ![c].todo = @ \ {b}, ![c].pc = "call",
                                  ![c].at = b, ![c].seen = health[b]]
    BY <1>4 DEF Validate
  <2> DEFINE t == chk[c].todo \ {b}
             h == health[b]
             x == [chk[c] EXCEPT !.todo = t]
             l == [chk[c] EXCEPT !.todo = t, !.pc = "call", !.at = b, !.seen = h]
  <2>2. b \in CheckedBackend /\ t \in SUBSET CheckedBackend
    BY <1>t DEF CheckerLocal
  <2>3. h \in Health
    BY <2>2 DEF CheckerInv, CheckerTyped
  <2>4. chk[c].late => chk' = [chk EXCEPT ![c] = x]
    BY <1>t, <2>1
  <2>5. ~chk[c].late => chk' = [chk EXCEPT ![c] = l]
    BY <1>t, <2>1
  <2> HIDE DEF t, h
  <2>6. x \in CheckerLocal /\ x.pc = chk[c].pc /\ x.lost = chk[c].lost /\ x.kept = chk[c].kept
    BY <1>t, <2>2 DEF CheckerLocal
  <2>7. l \in CheckerLocal
    BY <1>t, <2>2, <2>3 DEF CheckerLocal
  <2>8. l.pc = "call" /\ l.lost = chk[c].lost /\ l.kept = chk[c].kept
    BY <1>t DEF CheckerLocal
  <2> HIDE DEF x, l
  <2>9. CASE chk[c].late
    BY <1>1, <1>u, <2>4, <2>6, <2>9
  <2>10. CASE ~chk[c].late
    BY <1>1, <2>5, <2>7, <2>8, <2>10
  <2> QED BY <2>9, <2>10
<1>5. CASE Record(c) \/ ValidationFails(c)
  <2> DEFINE l == [chk[c] EXCEPT !.pc = "next", !.at = Nil, !.seen = "ok"]
  <2>1. chk' = [chk EXCEPT ![c] = l]
    BY <1>5, <1>t DEF Record, ValidationFails
  <2>2. l \in CheckerLocal
    BY <1>t, <1>c DEF CheckerLocal
  <2>3. l.pc # "sleep" /\ l.lost = chk[c].lost /\ l.kept = chk[c].kept
    BY <1>t DEF CheckerLocal
  <2> QED BY <1>1, <2>1, <2>2, <2>3
<1>6. CASE TickTimeout(c)
  <2> DEFINE l == [chk[c] EXCEPT !.late = TRUE]
  <2>1. chk' = [chk EXCEPT ![c] = l]
    BY <1>6, <1>t DEF TickTimeout
  <2>2. l \in CheckerLocal
    BY <1>t DEF CheckerLocal
  <2>3. l.pc = chk[c].pc /\ l.lost = chk[c].lost /\ l.kept = chk[c].kept
    BY <1>t DEF CheckerLocal
  <2> QED BY <1>1, <1>u, <2>1, <2>2, <2>3
<1> QED BY <1>2, <1>3, <1>4, <1>5, <1>6

\* The steps that begin or end a tick or a session.
LEMMA SessionStep ==
  ASSUME NEW c \in Checker, CheckerInv,
         \/ TryAcquire(c) \/ Reacquire(c) \/ Release(c) \/ UnlockFails(c)
         \/ LoseSession(c) \/ EndKeptSession(c) \/ Crash(c)
  PROVE  CheckerInv'
<1>t. chk[c] \in CheckerLocal /\ chk \in [Checker -> CheckerLocal]
  BY DEF CheckerInv, CheckerTyped
<1>l. chk[c].lost => chk[c].pc # "sleep" /\ ~chk[c].kept
  BY DEF CheckerInv, LockInv
<1>a. /\ Asleep \in CheckerLocal
      /\ Asleep.pc = "sleep" /\ ~Asleep.lost /\ ~Asleep.kept
  BY CheckerAssumption DEF Asleep, CheckerLocal
<1>h. health' = health
  BY DEF TryAcquire, Reacquire, Release, UnlockFails, LoseSession, EndKeptSession, Crash
<1>k. ASSUME NEW k \in BOOLEAN
      PROVE  /\ [Asleep EXCEPT !.kept = k] \in CheckerLocal
             /\ [Asleep EXCEPT !.kept = k].pc = "sleep"
             /\ ~[Asleep EXCEPT !.kept = k].lost
             /\ [Asleep EXCEPT !.kept = k].kept = k
  BY <1>k, <1>a DEF CheckerLocal
<1>o. /\ [chk[c] EXCEPT !.pc = "list"] \in CheckerLocal
      /\ [chk[c] EXCEPT !.pc = "list"].pc = "list"
      /\ [chk[c] EXCEPT !.pc = "list"].lost = chk[c].lost
      /\ [chk[c] EXCEPT !.pc = "list"].kept = chk[c].kept
  BY <1>t DEF CheckerLocal
<1>1. CASE TryAcquire(c)
  <2>1. PICK l \in CheckerLocal : l = [chk[c] EXCEPT !.pc = "list"]
    BY <1>o
  <2>2. chk' = [chk EXCEPT ![c] = l]
    BY <1>1, <1>t, <2>1 DEF TryAcquire
  <2>3. l.pc # "sleep" /\ ~l.lost
    BY <1>1, <1>l, <1>o, <2>1 DEF TryAcquire
  <2> QED BY <1>1, <1>h, <2>2, <2>3, LockTaken DEF TryAcquire
<1>2. CASE Reacquire(c)
  <2>1. PICK l \in CheckerLocal : l = [chk[c] EXCEPT !.pc = "list"]
    BY <1>o
  <2>2. chk' = [chk EXCEPT ![c] = l] /\ holder' = holder
    BY <1>2, <1>t, <2>1 DEF Reacquire
  <2>3. l.kept /\ ~l.lost /\ Claims(c)
    BY <1>2, <1>l, <1>o, <2>1 DEF Reacquire, Claims
  <2>4. ((l.pc # "sleep" /\ ~l.lost) \/ l.kept) <=> Claims(c)
    BY <2>3
  <2> QED BY <1>h, <2>2, <2>3, <2>4, LockStays
<1>3. CASE Release(c) /\ (chk[c].lost \/ chk[c].kept)
  <2>1. PICK l \in CheckerLocal : l = [Asleep EXCEPT !.kept = chk[c].kept]
    BY <1>k, <1>t DEF CheckerLocal
  <2>2. chk' = [chk EXCEPT ![c] = l] /\ holder' = holder
    BY <1>3, <2>1 DEF Release
  <2>3. l.pc = "sleep" /\ ~l.lost /\ l.kept = chk[c].kept
    BY <1>k, <1>t, <2>1 DEF CheckerLocal
  <2>4. ((l.pc # "sleep" /\ ~l.lost) \/ l.kept) <=> Claims(c)
    BY <1>3, <1>l, <2>3, Zenon DEF Claims
  <2> QED BY <1>h, <2>2, <2>3, <2>4, LockStays
<1>4. CASE Release(c) /\ ~(chk[c].lost \/ chk[c].kept)
  <2>1. PICK l \in CheckerLocal : l = [Asleep EXCEPT !.kept = chk[c].kept]
    BY <1>k, <1>t DEF CheckerLocal
  <2>2. /\ chk' = [chk EXCEPT ![c] = l]
        /\ holder' = [holder EXCEPT ![ScopeOf[c]] = Nil]
    BY <1>4, <2>1 DEF Release
  <2>3. l.pc = "sleep" /\ ~l.lost /\ ~l.kept
    BY <1>4, <1>k, <1>t, <2>1 DEF CheckerLocal
  <2>4. Claims(c)
    BY <1>4 DEF Release, TickOver, Claims
  <2> QED BY <1>h, <2>2, <2>3, <2>4, LockGiven
<1>5. CASE UnlockFails(c)
  <2>1. PICK l \in CheckerLocal : l = [Asleep EXCEPT !.kept = TRUE]
    BY <1>k
  <2>2. chk' = [chk EXCEPT ![c] = l] /\ holder' = holder
    BY <1>5, <2>1 DEF UnlockFails
  <2>3. l.pc = "sleep" /\ ~l.lost /\ l.kept
    BY <1>k, <2>1
  <2>4. Claims(c)
    BY <1>5 DEF UnlockFails, TickOver, Claims
  <2>5. ((l.pc # "sleep" /\ ~l.lost) \/ l.kept) <=> Claims(c)
    BY <2>3, <2>4
  <2> QED BY <1>h, <2>2, <2>3, <2>5, LockStays
<1>6. CASE LoseSession(c)
  <2> DEFINE x == [chk[c] EXCEPT !.lost = TRUE, !.kept = FALSE]
  <2>1. x \in CheckerLocal /\ x.lost /\ ~x.kept /\ x.pc = chk[c].pc
    BY <1>t DEF CheckerLocal
  <2>2. PICK l \in CheckerLocal : l = x
    BY <2>1
  <2>3. chk' = [chk EXCEPT ![c] = l]
    BY <1>6, <1>t, <2>2 DEF LoseSession
  <2>4. l.lost /\ ~l.kept /\ l.pc # "sleep"
    BY <1>6, <2>1, <2>2 DEF LoseSession
  <2>5. Claims(c) /\ holder' = [holder EXCEPT ![ScopeOf[c]] = Nil]
    BY <1>6 DEF LoseSession, Claims
  <2> QED BY <1>h, <2>3, <2>4, <2>5, LockGiven
<1>7. CASE EndKeptSession(c)
  <2>1. chk' = [chk EXCEPT ![c] = Asleep] /\ holder' = [holder EXCEPT ![ScopeOf[c]] = Nil]
    BY <1>7 DEF EndKeptSession
  <2>2. Claims(c)
    BY <1>7 DEF EndKeptSession, Claims
  <2> QED BY <1>a, <1>h, <2>1, <2>2, LockGiven
<1>8. CASE Crash(c) /\ chk[c].lost
  <2>1. chk' = [chk EXCEPT ![c] = Asleep] /\ holder' = holder
    BY <1>8 DEF Crash
  <2>2. ~Claims(c)
    BY <1>8, <1>l DEF Claims
  <2>3. ((Asleep.pc # "sleep" /\ ~Asleep.lost) \/ Asleep.kept) <=> Claims(c)
    BY <1>a, <2>2
  <2> QED BY <1>a, <1>h, <2>1, <2>3, LockStays
<1>9. CASE Crash(c) /\ ~chk[c].lost
  <2>1. chk' = [chk EXCEPT ![c] = Asleep] /\ holder' = [holder EXCEPT ![ScopeOf[c]] = Nil]
    BY <1>9 DEF Crash
  <2>2. Claims(c)
    BY <1>9 DEF Crash, Claims
  <2> QED BY <1>a, <1>h, <2>1, <2>2, LockGiven
<1> QED BY <1>1, <1>2, <1>3, <1>4, <1>5, <1>6, <1>7, <1>8, <1>9

\* Every step keeps the lock and the sessions in agreement.
LEMMA CheckerInvStep ==
  CheckerInv /\ [CheckerNext]_checkerVars => CheckerInv'
<1> SUFFICES ASSUME CheckerInv, [CheckerNext]_checkerVars PROVE CheckerInv'
  OBVIOUS
<1>1. ASSUME NEW c \in Checker,
             \/ ListBackends(c) \/ ListFails(c) \/ Validate(c) \/ Record(c)
             \/ ValidationFails(c) \/ TickTimeout(c)
      PROVE  CheckerInv'
  BY <1>1, TickStep
<1>2. ASSUME NEW c \in Checker,
             \/ TryAcquire(c) \/ Reacquire(c) \/ Release(c) \/ UnlockFails(c)
             \/ LoseSession(c) \/ EndKeptSession(c) \/ Crash(c)
      PROVE  CheckerInv'
  BY <1>2, SessionStep
<1>3. ASSUME NEW b \in CheckedBackend, ChangeHealth(b) PROVE CheckerInv'
  BY <1>3 DEF ChangeHealth, CheckerInv, CheckerTyped, LockInv, Claims
<1>4. CASE UNCHANGED checkerVars
  BY <1>4 DEF checkerVars, CheckerInv, CheckerTyped, LockInv, Claims
<1> QED BY <1>1, <1>2, <1>3, <1>4 DEF CheckerNext, CheckerStep

\* For any number of replicas, crashes, lost sessions, failed unlocks and expired
\* ticks: two replicas check one scope at once only while one of them is in a tick
\* whose session was lost, which takes the lock from nobody when it ends; and a
\* lock that outlives its tick is one whose unlock failed.
THEOREM OneCheckerHolds ==
  CheckerSpec => []OneChecker
<1>1. CheckerInit => CheckerInv
  <2> SUFFICES ASSUME CheckerInit PROVE CheckerInv
    OBVIOUS
  <2>1. Asleep \in CheckerLocal
    BY CheckerAssumption DEF Asleep, CheckerLocal
  <2>2. CheckerTyped
    BY <2>1 DEF CheckerInit, CheckerTyped
  <2>3. ASSUME NEW c \in Checker PROVE ~Claims(c) /\ ~chk[c].lost
    BY DEF CheckerInit, Claims, Asleep
  <2>4. ASSUME NEW s \in Scope, NEW c \in Checker PROVE holder[s] # c
    BY CheckerAssumption DEF CheckerInit
  <2> QED BY <2>2, <2>3, <2>4 DEF CheckerInv, LockInv
<1>2. CheckerInv => OneChecker
  <2> SUFFICES ASSUME CheckerInv PROVE OneChecker
    OBVIOUS
  <2>1. ASSUME NEW c \in Checker, NEW d \in Checker, c # d, ScopeOf[c] = ScopeOf[d],
               chk[c].pc # "sleep", chk[d].pc # "sleep", ~chk[c].lost, ~chk[d].lost
        PROVE  FALSE
    <3>1. Claims(c) /\ Claims(d) /\ ScopeOf[c] \in Scope
      BY <2>1, CheckerAssumption DEF Claims
    <3>2. holder[ScopeOf[c]] = c /\ holder[ScopeOf[c]] = d
      BY <2>1, <3>1 DEF CheckerInv, LockInv
    <3> QED BY <2>1, <3>2
  <2>2. ASSUME NEW s \in Scope, NEW c \in Checker, holder[s] = c
        PROVE  (chk[c].pc # "sleep" /\ ~chk[c].lost) \/ chk[c].kept
    BY <2>2 DEF CheckerInv, LockInv, Claims
  <2> QED BY <2>1, <2>2 DEF OneChecker
<1>3. CheckerSpec => []CheckerInv
  BY <1>1, CheckerInvStep, PTL DEF CheckerSpec
<1> QED BY <1>2, <1>3, PTL
=============================================================================
