------------------------- MODULE WorkflowRunProofs --------------------------
(***************************************************************************)
(* What Store leaves behind is consistent, complete and final, for every   *)
(* set of runs, versions and requests, every choice of where the bundles   *)
(* are kept, and any number of failures.                                   *)
(*                                                                         *)
(* The argument is about what a request may rely on when it stands at a    *)
(* phase of Store: the effects of the phases before it (Progress).  They   *)
(* last because nothing that a request adds is ever taken away (Grow) and  *)
(* because the attestation row of a run is written once.                   *)
(***************************************************************************)
EXTENDS WorkflowRun, TLAPS

\* The phases at and after each step of Store.
Finished == {"finish", "done"}
Dispatched == {"release"} \cup Finished
Mapped == {"dispatch"} \cup Dispatched
Referred == {"mappings"} \cup Mapped
Polled == {"referrers"} \cup Referred
Saved == {"policy"} \cup Polled
Checked == {"lock", "commit"} \cup Saved
Uploaded == {"check"} \cup Checked

\* What the steps that a request has behind it have left.
Progress(s) ==
  /\ req[s].pc \in Uploaded /\ ModeOf(s) = "cas" => s \in cas
  /\ req[s].pc \in {"upload"} \cup Checked => s \in Satisfies
  /\ req[s].pc \in {"contract", "upload"} => ModeOf(s) = "cas"
  /\ req[s].pc \in Saved =>
       s \in recorded /\ (ModeOf(s) # "cas" => run[RunOf[s]].digest = s)
  /\ req[s].pc \in Polled /\ ModeOf(s) # "cas" => run[RunOf[s]].policy = s
  /\ req[s].pc \in Referred => s \in referrers
  /\ req[s].pc \in Mapped /\ ModeOf(s) # "inline" => s \in mappings
  /\ req[s].pc \in Dispatched => s \in dispatched
  /\ req[s].pc \in Finished /\ s \in Releases => ~prerelease[V(s)]

ProgressInv == \A s \in Request : Progress(s)

\* With the bundle in the DB, the digest on a run and its attestation row are
\* written together.
RowIsDigest == \A r \in Run : Mode[r] # "cas" => run[r].row = run[r].digest

\* A request that passed the check of its version under the row lock still
\* holds the lock, and so the version is still a prerelease.
LockInv ==
  \A s \in Request : (req[s].pc = "commit" /\ req[s].block) =>
    lock[V(s)] = s /\ prerelease[V(s)]

\* Only requests that ended were acknowledged, and only bundles that satisfy
\* their contract are being uploaded.
EndsInv == uploads \subseteq Satisfies /\ \A s \in acked : req[s].pc = "done"

IInv == /\ StorageConsistent /\ ProgressInv /\ RowIsDigest /\ LockInv /\ EndsInv
        /\ SuccessComplete
LEMMA InitInv == Init => IInv
<1> SUFFICES ASSUME Init PROVE IInv
  OBVIOUS
<1> USE ConstantsAssumption
<1>1. TypeOK
  BY DEF Init, TypeOK, States, Phase
<1>2. DigestDurable /\ RejectedLeavesNoBlob /\ RowIsDigest /\ EndsInv /\ SuccessComplete
  BY DEF Init, DigestDurable, RejectedLeavesNoBlob, RowIsDigest, EndsInv, SuccessComplete
<1>3. ProgressInv /\ LockInv
  BY DEF Init, ProgressInv, Progress, LockInv, Uploaded, Checked, Saved, Polled, Referred,
         Mapped, Dispatched, Finished
<1> QED BY <1>1, <1>2, <1>3 DEF IInv, StorageConsistent

-----------------------------------------------------------------------------
\* Types.

Rows == [state : States, digest : Request \cup {None}, row : Request \cup {None},
         policy : Request \cup {None}]
Local == [pc : Phase, block : BOOLEAN]

\* Moving a request to a phase keeps the type of the requests, changes only its
\* program counter, and leaves the other requests alone.
LEMMA GoType ==
  ASSUME req \in [Request -> Local], NEW s \in Request, NEW pc \in Phase, Go(s, pc)
  PROVE  /\ req' \in [Request -> Local]
         /\ req'[s].pc = pc /\ req'[s].block = req[s].block
         /\ \A t \in Request \ {s} : req'[t] = req[t]
<1>1. req' = [req EXCEPT ![s] = [@ EXCEPT !.pc = pc]]
  BY DEF Go
<1>2. req[s] \in Local
  OBVIOUS
<1>3. [req[s] EXCEPT !.pc = pc] \in Local
  BY <1>2 DEF Local
<1> QED BY <1>1, <1>2, <1>3 DEF Local

LEMMA UnlockType ==
  ASSUME lock \in [Version -> Request \cup {None}], NEW s \in Request
  PROVE  Unlocked(s) \in [Version -> Request \cup {None}]
BY DEF Unlocked

\* The steps of Store that touch neither the rows nor the locks.
LEMMA QuietType ==
  ASSUME TypeOK, NEW s \in Request,
         \/ Begin(s) \/ ValidateContract(s) \/ Upload(s) \/ ExtractAndPersist(s)
         \/ CreateMappings(s) \/ RunDispatcher(s) \/ Release(s)
  PROVE  TypeOK'
<1> USE ConstantsAssumption
<1>0. req \in [Request -> Local]
  BY DEF TypeOK, Local
<1>1. PICK pc \in Phase : Go(s, pc)
  BY DEF Begin, ValidateContract, Upload, ExtractAndPersist, CreateMappings,
         RunDispatcher, Release, Phase
<1>2. req' \in [Request -> [pc : Phase, block : BOOLEAN]]
  BY <1>0, <1>1, GoType DEF Local
<1>3. CASE Begin(s) \/ ValidateContract(s)
  BY <1>2, <1>3 DEF TypeOK, Begin, ValidateContract
<1>4. CASE Upload(s) \/ ExtractAndPersist(s)
  BY <1>2, <1>4 DEF TypeOK, Upload, ExtractAndPersist
<1>5. CASE CreateMappings(s) \/ RunDispatcher(s)
  BY <1>2, <1>5 DEF TypeOK, CreateMappings, RunDispatcher
<1>6. CASE Release(s)
  BY <1>2, <1>6 DEF TypeOK, Release
<1> QED BY <1>3, <1>4, <1>5, <1>6

\* The fault counter stays within its bound when a failure is allowed.
LEMMA FaultType ==
  ASSUME faults \in 0..MaxFaults, faults < MaxFaults, faults' = faults + 1
  PROVE  faults' \in 0..MaxFaults
BY ConstantsAssumption

\* Rewriting one row keeps the type of the rows.
LEMMA RowType ==
  ASSUME run \in [Run -> Rows], NEW r \in Run
  PROVE  /\ \A state \in States : [run EXCEPT ![r].state = state] \in [Run -> Rows]
         /\ \A policy \in Request : [run EXCEPT ![r].policy = policy] \in [Run -> Rows]
         /\ \A digest \in Request, row \in Request \cup {None} :
              [run EXCEPT ![r].digest = digest, ![r].row = row] \in [Run -> Rows]
<1>1. run[r] \in Rows
  OBVIOUS
<1>2. ASSUME NEW state \in States PROVE [run EXCEPT ![r].state = state] \in [Run -> Rows]
  <2>1. [run[r] EXCEPT !.state = state] \in Rows
    BY <1>1 DEF Rows
  <2>2. [run EXCEPT ![r].state = state] = [run EXCEPT ![r] = [@ EXCEPT !.state = state]]
    OBVIOUS
  <2> QED BY <2>1, <2>2
<1>3. ASSUME NEW policy \in Request PROVE [run EXCEPT ![r].policy = policy] \in [Run -> Rows]
  <2>1. [run[r] EXCEPT !.policy = policy] \in Rows
    BY <1>1 DEF Rows
  <2>2. [run EXCEPT ![r].policy = policy] = [run EXCEPT ![r] = [@ EXCEPT !.policy = policy]]
    OBVIOUS
  <2> QED BY <2>1, <2>2
<1>4. ASSUME NEW digest \in Request, NEW row \in Request \cup {None}
      PROVE  [run EXCEPT ![r].digest = digest, ![r].row = row] \in [Run -> Rows]
  <2>1. [run[r] EXCEPT !.digest = digest, !.row = row] \in Rows
    BY <1>1 DEF Rows
  <2>2. [run EXCEPT ![r].digest = digest, ![r].row = row]
          = [run EXCEPT ![r] = [@ EXCEPT !.digest = digest, !.row = row]]
    OBVIOUS
  <2> QED BY <2>1, <2>2
<1> QED BY <1>2, <1>3, <1>4

LEMMA TypeStep == TypeOK /\ [Next]_vars => TypeOK'
<1> SUFFICES ASSUME TypeOK, [Next]_vars PROVE TypeOK'
  OBVIOUS
<1> USE ConstantsAssumption
<1>0. req \in [Request -> Local] /\ run \in [Run -> Rows]
      /\ (req' \in [Request -> Local] <=> req' \in [Request -> [pc : Phase, block : BOOLEAN]])
      /\ (run' \in [Run -> Rows] <=> run' \in [Run -> [state : States,
            digest : Request \cup {None}, row : Request \cup {None}, policy : Request \cup {None}]])
  BY DEF TypeOK, Local, Rows
<1>1. ASSUME NEW s \in Request,
             \/ Begin(s) \/ ValidateContract(s) \/ Upload(s) \/ ExtractAndPersist(s)
             \/ CreateMappings(s) \/ RunDispatcher(s) \/ Release(s)
      PROVE  TypeOK'
  BY <1>1, QuietType
<1>2. ASSUME NEW s \in Request, Check(s) PROVE TypeOK'
  <2>1. PICK pc \in Phase : req' = [req EXCEPT ![s].block = block, ![s].pc = pc]
    BY <1>2 DEF Check, Phase
  <2>2. req' = [req EXCEPT ![s] = [@ EXCEPT !.block = block, !.pc = pc]]
    BY <2>1
  <2>a. req[s] \in Local /\ block \in BOOLEAN
    BY <1>0 DEF TypeOK
  <2>3. [req[s] EXCEPT !.block = block, !.pc = pc] \in Local
    BY <2>a DEF Local
  <2>4. req' \in [Request -> Local]
    BY <1>0, <2>2, <2>3
  <2> QED BY <1>0, <1>2, <2>4 DEF Check, TypeOK
<1>3. ASSUME NEW s \in Request, AssertVersionAcceptsAttestation(s) PROVE TypeOK'
  <2>1. PICK pc \in Phase : Go(s, pc)
    BY <1>3 DEF AssertVersionAcceptsAttestation, Phase
  <2>2. req' \in [Request -> Local]
    BY <1>0, <2>1, GoType
  <2>3. lock' \in [Version -> Request \cup {None}]
    BY <1>3 DEF AssertVersionAcceptsAttestation, TypeOK
  <2> QED BY <1>0, <1>3, <2>2, <2>3 DEF AssertVersionAcceptsAttestation, TypeOK
<1>4. ASSUME NEW s \in Request, SaveAttestation(s) PROVE TypeOK'
  <2>1. PICK pc \in Phase : Go(s, pc)
    BY <1>4 DEF SaveAttestation, Phase
  <2>2. req' \in [Request -> Local]
    BY <1>0, <2>1, GoType
  <2>3. lock' \in [Version -> Request \cup {None}]
    BY <1>4, UnlockType DEF SaveAttestation, TypeOK
  <2>4. run' \in [Run -> Rows]
    <3> DEFINE r == RunOf[s]
               new == IF ModeOf(s) = "cas" THEN run[r].row ELSE s
    <3>1. r \in Run /\ run[r] \in Rows
      BY <1>0
    <3>2. new \in Request \cup {None}
      BY <3>1 DEF Rows
    <3>3. run' = run \/ run' = [run EXCEPT ![r].digest = s, ![r].row = new]
      BY <1>4 DEF SaveAttestation
    <3>4. [run EXCEPT ![r].digest = s, ![r].row = new] \in [Run -> Rows]
      <4> HIDE DEF r, new
      <4> QED BY <1>0, <3>1, <3>2, RowType
    <3> QED BY <1>0, <3>3, <3>4
  <2>5. recorded' \subseteq Request
    BY <1>4 DEF SaveAttestation, TypeOK
  <2> QED BY <1>0, <1>4, <2>2, <2>3, <2>4, <2>5 DEF SaveAttestation, TypeOK
<1>5. ASSUME NEW s \in Request, UpdatePolicyStatus(s) \/ MarkAsFinished(s) PROVE TypeOK'
  <2>1. PICK pc \in Phase : Go(s, pc)
    BY <1>5 DEF UpdatePolicyStatus, MarkAsFinished, Phase
  <2>2. req' \in [Request -> Local]
    BY <1>0, <2>1, GoType
  <2>3. run' \in [Run -> Rows]
    <3> DEFINE r == RunOf[s]
    <3>1. r \in Run /\ "success" \in States
      BY DEF States
    <3>2. \/ run' = [run EXCEPT ![r].policy = s]
          \/ run' = [run EXCEPT ![r].state = "success"]
      BY <1>5 DEF UpdatePolicyStatus, MarkAsFinished
    <3> HIDE DEF r
    <3>3. /\ [run EXCEPT ![r].policy = s] \in [Run -> Rows]
          /\ [run EXCEPT ![r].state = "success"] \in [Run -> Rows]
      BY <1>0, <3>1, RowType
    <3> QED BY <3>2, <3>3
  <2> QED BY <1>0, <1>5, <2>2, <2>3 DEF UpdatePolicyStatus, MarkAsFinished, TypeOK
<1>6. ASSUME NEW s \in Request, StoreFails(s) PROVE TypeOK'
  <2>1. req' \in [Request -> Local]
    BY <1>0, <1>6, GoType DEF StoreFails, Phase
  <2>2. lock' \in [Version -> Request \cup {None}] /\ faults' \in 0..MaxFaults
    BY <1>6, UnlockType, FaultType DEF StoreFails, TypeOK
  <2> QED BY <1>0, <1>6, <2>1, <2>2 DEF StoreFails, TypeOK
<1>7. ASSUME NEW s \in Request, AsyncUpload(s) PROVE TypeOK'
  <2>1. faults' \in 0..MaxFaults
    BY <1>7, FaultType DEF AsyncUpload, TypeOK
  <2> QED BY <1>7, <2>1 DEF AsyncUpload, TypeOK
<1>8. ASSUME NEW r \in Run, Cancel(r) \/ Expire(r) PROVE TypeOK'
  <2>1. run' \in [Run -> Rows]
    <3>1. PICK state \in States : run' = [run EXCEPT ![r].state = state]
      BY <1>8 DEF Cancel, Expire, States
    <3>2. [run EXCEPT ![r].state = state] \in [Run -> Rows]
      BY <1>0, RowType
    <3> QED BY <3>1, <3>2
  <2> QED BY <1>0, <1>8, <2>1 DEF Cancel, Expire, TypeOK
<1>9. CASE ListNotFinished \/ UpdateOrg
  BY <1>9 DEF ListNotFinished, UpdateOrg, TypeOK
<1>10. CASE SweepFails
  <2>1. faults' \in 0..MaxFaults
    BY <1>10, FaultType DEF SweepFails, TypeOK
  <2> QED BY <1>10, <2>1 DEF SweepFails, TypeOK
<1>11. CASE UNCHANGED vars
  BY <1>11 DEF vars, TypeOK
<1> QED BY <1>1, <1>2, <1>3, <1>4, <1>5, <1>6, <1>7, <1>8, <1>9, <1>10, <1>11
        DEF Next, Step

-----------------------------------------------------------------------------
\* What the writers of a run's row write.

LEMMA SaveFacts ==
  ASSUME TypeOK, NEW s \in Request, SaveAttestation(s)
  PROVE  \/ /\ ModeOf(s) # "cas" /\ run[RunOf[s]].row # None
            /\ UNCHANGED <<run, recorded>> /\ Go(s, "failed")
         \/ /\ ModeOf(s) # "cas" => run[RunOf[s]].row = None
            /\ \A r \in Run : /\ run'[r].state = run[r].state
                              /\ run'[r].policy = run[r].policy
                              /\ r # RunOf[s] => run'[r] = run[r]
            /\ run'[RunOf[s]].digest = s
            /\ run'[RunOf[s]].row = IF ModeOf(s) = "cas" THEN run[RunOf[s]].row ELSE s
            /\ recorded' = recorded \cup {s} /\ Go(s, "policy")
<1> USE ConstantsAssumption
<1> DEFINE q == RunOf[s]
           new == IF ModeOf(s) = "cas" THEN run[q].row ELSE s
<1>1. CASE ModeOf(s) # "cas" /\ run[q].row # None
  BY <1>1 DEF SaveAttestation
<1>2. CASE ~(ModeOf(s) # "cas" /\ run[q].row # None)
  <2>1. /\ run' = [run EXCEPT ![q].digest = s, ![q].row = new]
        /\ recorded' = recorded \cup {s} /\ Go(s, "policy")
    BY <1>2 DEF SaveAttestation
  <2>2. q \in Run /\ run \in [Run -> Rows]
    BY DEF TypeOK, Rows
  <2> HIDE DEF q, new
  <2>3. run' = [run EXCEPT ![q] = [@ EXCEPT !.digest = s, !.row = new]]
    BY <2>1
  <2>4. \A r \in Run : r # q => run'[r] = run[r]
    BY <2>2, <2>3
  <2>5. run'[q] = [run[q] EXCEPT !.digest = s, !.row = new] /\ run[q] \in Rows
    BY <2>2, <2>3
  <2>6. /\ run'[q].digest = s /\ run'[q].row = new
        /\ run'[q].state = run[q].state /\ run'[q].policy = run[q].policy
    BY <2>5 DEF Rows
  <2>7. \A r \in Run : run'[r].state = run[r].state /\ run'[r].policy = run[r].policy
    BY <2>4, <2>6
  <2> QED BY <1>2, <2>1, <2>4, <2>6, <2>7 DEF q, new
<1> QED BY <1>1, <1>2

LEMMA PolicyFacts ==
  ASSUME TypeOK, NEW s \in Request, UpdatePolicyStatus(s)
  PROVE  /\ \A r \in Run : /\ run'[r].state = run[r].state
                           /\ run'[r].digest = run[r].digest
                           /\ run'[r].row = run[r].row
                           /\ r # RunOf[s] => run'[r].policy = run[r].policy
         /\ run'[RunOf[s]].policy = s
<1> USE ConstantsAssumption
<1> DEFINE q == RunOf[s]
<1>1. q \in Run /\ run \in [Run -> Rows] /\ run' = [run EXCEPT ![q].policy = s]
  BY DEF TypeOK, Rows, UpdatePolicyStatus
<1> HIDE DEF q
<1>2. run' = [run EXCEPT ![q] = [@ EXCEPT !.policy = s]]
  BY <1>1
<1>3. run'[q] = [run[q] EXCEPT !.policy = s] /\ run[q] \in Rows
      /\ \A r \in Run : r # q => run'[r] = run[r]
  BY <1>1, <1>2
<1>4. /\ run'[q].state = run[q].state /\ run'[q].digest = run[q].digest
      /\ run'[q].row = run[q].row /\ run'[q].policy = s
  BY <1>3 DEF Rows
<1> QED BY <1>3, <1>4 DEF q

\* The state of the row of r becomes state, and nothing else of a row changes.
SetsState(r, state) ==
  /\ \A q \in Run : /\ run'[q].digest = run[q].digest
                    /\ run'[q].row = run[q].row
                    /\ run'[q].policy = run[q].policy
                    /\ q # r => run'[q].state = run[q].state
  /\ run'[r].state = state

LEMMA StateFacts ==
  ASSUME TypeOK, NEW r \in Run, NEW state, run' = [run EXCEPT ![r].state = state]
  PROVE  SetsState(r, state)
<1>1. run \in [Run -> Rows]
  BY DEF TypeOK, Rows
<1>2. run' = [run EXCEPT ![r] = [@ EXCEPT !.state = state]]
  OBVIOUS
<1>3. run'[r] = [run[r] EXCEPT !.state = state] /\ run[r] \in Rows
      /\ \A q \in Run : q # r => run'[q] = run[q]
  BY <1>1, <1>2
<1>4. /\ run'[r].state = state /\ run'[r].digest = run[r].digest
      /\ run'[r].row = run[r].row /\ run'[r].policy = run[r].policy
  BY <1>3 DEF Rows
<1> QED BY <1>3, <1>4 DEF SetsState

\* The steps that only set the state of a run: the end of a Store sets success,
\* the others never do.
LEMMA StateSetters ==
  ASSUME TypeOK
  PROVE  /\ \A s \in Request : MarkAsFinished(s) => SetsState(RunOf[s], "success")
         /\ \A r \in Run : Cancel(r) \/ Expire(r) =>
              \E state \in States \ {"success"} : SetsState(r, state)
<1> USE ConstantsAssumption
<1>1. ASSUME NEW s \in Request, MarkAsFinished(s) PROVE SetsState(RunOf[s], "success")
  <2>1. RunOf[s] \in Run /\ run' = [run EXCEPT ![RunOf[s]].state = "success"]
    BY <1>1 DEF MarkAsFinished
  <2> QED BY <2>1, StateFacts
<1>2. ASSUME NEW r \in Run, Cancel(r) \/ Expire(r)
      PROVE  \E state \in States \ {"success"} : SetsState(r, state)
  <2>1. PICK state \in States \ {"success"} : run' = [run EXCEPT ![r].state = state]
    BY <1>2 DEF Cancel, Expire, States
  <2> QED BY <2>1, StateFacts
<1> QED BY <1>1, <1>2

-----------------------------------------------------------------------------
\* Nothing that a Store leaves is taken away: the sets grow, a released version
\* stays released, and what a run keeps in the DB stays with its policy status.
GrowSets ==
  /\ cas \subseteq cas' /\ recorded \subseteq recorded' /\ referrers \subseteq referrers'
  /\ mappings \subseteq mappings' /\ dispatched \subseteq dispatched'
  /\ \A v \in Version : ~prerelease[v] => ~prerelease'[v]

GrowRows ==
  \A r \in Run : \A s \in Request : (Mode[r] # "cas" /\ run[r].digest = s) =>
    /\ run'[r].digest = s /\ run'[r].row = run[r].row
    /\ run[r].policy = s => run'[r].policy = s

Grow == GrowSets /\ GrowRows

LEMMA SetsGrow == TypeOK /\ [Next]_vars => GrowSets
<1> SUFFICES ASSUME TypeOK, [Next]_vars PROVE GrowSets
  OBVIOUS
<1> USE ConstantsAssumption DEF GrowSets
<1>1. ASSUME NEW s \in Request, Begin(s) \/ ValidateContract(s) \/ Check(s) \/ Upload(s)
      PROVE  GrowSets
  BY <1>1 DEF Begin, ValidateContract, Check, Upload
<1>2. ASSUME NEW s \in Request, AssertVersionAcceptsAttestation(s) \/ UpdatePolicyStatus(s)
      PROVE  GrowSets
  BY <1>2 DEF AssertVersionAcceptsAttestation, UpdatePolicyStatus
<1>3. ASSUME NEW s \in Request, SaveAttestation(s) PROVE GrowSets
  BY <1>3 DEF SaveAttestation
<1>4. ASSUME NEW s \in Request,
             ExtractAndPersist(s) \/ CreateMappings(s) \/ RunDispatcher(s)
      PROVE  GrowSets
  BY <1>4 DEF ExtractAndPersist, CreateMappings, RunDispatcher
<1>5. ASSUME NEW s \in Request, Release(s) PROVE GrowSets
  BY <1>5 DEF Release, TypeOK
<1>6. ASSUME NEW s \in Request, MarkAsFinished(s) \/ StoreFails(s) \/ AsyncUpload(s)
      PROVE  GrowSets
  BY <1>6 DEF MarkAsFinished, StoreFails, AsyncUpload
<1>7. ASSUME NEW r \in Run, Cancel(r) \/ Expire(r) PROVE GrowSets
  BY <1>7 DEF Cancel, Expire
<1>8. CASE ListNotFinished \/ SweepFails \/ UpdateOrg \/ UNCHANGED vars
  BY <1>8 DEF ListNotFinished, SweepFails, UpdateOrg, vars
<1> QED BY <1>1, <1>2, <1>3, <1>4, <1>5, <1>6, <1>7, <1>8 DEF Next, Step

\* The steps that touch no row.
RowsUntouched ==
  \/ \E s \in Request :
       \/ Begin(s) \/ ValidateContract(s) \/ Upload(s) \/ Check(s)
       \/ AssertVersionAcceptsAttestation(s) \/ ExtractAndPersist(s) \/ CreateMappings(s)
       \/ RunDispatcher(s) \/ Release(s) \/ StoreFails(s) \/ AsyncUpload(s)
  \/ ListNotFinished \/ SweepFails \/ UpdateOrg \/ UNCHANGED vars

LEMMA UntouchedFacts == RowsUntouched => UNCHANGED <<run, recorded, acked>>
BY DEF RowsUntouched, Begin, ValidateContract, Upload, Check,
       AssertVersionAcceptsAttestation, ExtractAndPersist, CreateMappings, RunDispatcher,
       Release, StoreFails, AsyncUpload, ListNotFinished, SweepFails, UpdateOrg, vars

\* Every step touches no row or is one of the five that write one.
LEMMA Writers ==
  [Next]_vars =>
    \/ RowsUntouched
    \/ \E s \in Request : SaveAttestation(s) \/ UpdatePolicyStatus(s) \/ MarkAsFinished(s)
    \/ \E r \in Run : Cancel(r) \/ Expire(r)
BY DEF Next, Step, RowsUntouched

LEMMA RowsGrow == IInv /\ [Next]_vars => GrowRows
<1> SUFFICES ASSUME IInv, [Next]_vars, NEW r \in Run, NEW s \in Request,
                    Mode[r] # "cas", run[r].digest = s
             PROVE  /\ run'[r].digest = s /\ run'[r].row = run[r].row
                    /\ run[r].policy = s => run'[r].policy = s
  BY DEF GrowRows
<1> USE ConstantsAssumption
<1>0. TypeOK /\ run[r].row = s /\ s # None
  BY DEF IInv, StorageConsistent, RowIsDigest
<1>1. CASE RowsUntouched
  BY <1>1, UntouchedFacts
<1>2. ASSUME NEW t \in Request, SaveAttestation(t)
      PROVE  run'[r] = run[r]
  <2>1. RunOf[t] = r => ModeOf(t) # "cas" /\ run[RunOf[t]].row # None
    BY <1>0 DEF ModeOf
  <2> QED BY <1>0, <1>2, <2>1, SaveFacts
<1>3. ASSUME NEW t \in Request, UpdatePolicyStatus(t)
      PROVE  /\ run'[r].digest = s /\ run'[r].row = run[r].row
             /\ run[r].policy = s => run'[r].policy = s
  <2>1. Progress(t) /\ req[t].pc \in Saved
    BY <1>3 DEF IInv, ProgressInv, UpdatePolicyStatus, Saved
  <2>2. RunOf[t] = r => t = s
    BY <2>1 DEF Progress, ModeOf
  <2> QED BY <1>0, <1>3, <2>2, PolicyFacts
<1>4. ASSUME NEW t \in Request, MarkAsFinished(t)
      PROVE  /\ run'[r].digest = s /\ run'[r].row = run[r].row
             /\ run'[r].policy = run[r].policy
  BY <1>0, <1>4, StateSetters DEF SetsState
<1>5. ASSUME NEW q \in Run, Cancel(q) \/ Expire(q)
      PROVE  /\ run'[r].digest = s /\ run'[r].row = run[r].row
             /\ run'[r].policy = run[r].policy
  BY <1>0, <1>5, StateSetters DEF SetsState
<1> QED BY <1>1, <1>2, <1>3, <1>4, <1>5, Writers

LEMMA StepsGrow == IInv /\ [Next]_vars => Grow
BY SetsGrow, RowsGrow DEF IInv, StorageConsistent, Grow

-----------------------------------------------------------------------------
\* Progress.

\* A request that stays at its phase keeps what it relies on.
LEMMA ProgressKept ==
  ASSUME TypeOK, Grow, NEW t \in Request, Progress(t), req'[t].pc = req[t].pc
  PROVE  Progress(t)'
<1> USE ConstantsAssumption
<1>1. RunOf[t] \in Run /\ V(t) \in Version
  BY DEF V
<1>2. (req[t].pc \in Saved /\ ModeOf(t) # "cas") => run'[RunOf[t]].digest = t
  BY <1>1 DEF Grow, GrowRows, Progress, ModeOf
<1>3. (req[t].pc \in Polled /\ ModeOf(t) # "cas") => run'[RunOf[t]].policy = t
  <2>1. req[t].pc \in Polled => req[t].pc \in Saved
    BY DEF Saved
  <2> QED BY <1>1, <2>1 DEF Grow, GrowRows, Progress, ModeOf
<1>4. (req[t].pc \in Finished /\ t \in Releases) => ~prerelease'[V(t)]
  BY <1>1 DEF Grow, GrowSets, Progress
<1> QED BY <1>2, <1>3, <1>4 DEF Grow, GrowSets, Progress, ModeOf, V

\* Nothing is asked of a request that has not begun or has failed.
LEMMA ProgressIdle ==
  ASSUME NEW s \in Request, req'[s].pc \in {"idle", "failed"}
  PROVE  Progress(s)'
BY DEF Progress, Uploaded, Checked, Saved, Polled, Referred, Mapped, Dispatched, Finished

\* The step of s leads from one phase to the next with the effect of the step.
LEMMA ProgressMoves ==
  ASSUME IInv, Grow, TypeOK', NEW s \in Request, Begin(s) \/ Step(s) \/ StoreFails(s)
  PROVE  Progress(s)'
<1> USE ConstantsAssumption
<1>0. /\ TypeOK /\ Progress(s) /\ req \in [Request -> Local]
      /\ RunOf[s] \in Run /\ V(s) \in Version
  BY DEF IInv, StorageConsistent, TypeOK, ProgressInv, Local, V
<1>a. ASSUME NEW pc \in Phase, Go(s, pc) PROVE req'[s].pc = pc
  BY <1>0, <1>a, GoType
<1>b. "idle" \in Phase /\ "contract" \in Phase /\ "upload" \in Phase /\ "check" \in Phase
      /\ "lock" \in Phase /\ "commit" \in Phase /\ "policy" \in Phase /\ "referrers" \in Phase
      /\ "mappings" \in Phase /\ "dispatch" \in Phase /\ "release" \in Phase
      /\ "finish" \in Phase /\ "done" \in Phase /\ "failed" \in Phase
  BY DEF Phase
<1>1. CASE Begin(s)
  <2>1. req'[s].pc = IF ModeOf(s) = "cas" THEN "contract" ELSE "check"
    BY <1>1, <1>a, <1>b DEF Begin
  <2> QED BY <2>1 DEF Progress, Uploaded, Checked, Saved, Polled, Referred, Mapped,
                     Dispatched, Finished, ModeOf
<1>2. CASE ValidateContract(s)
  <2>1. /\ req'[s].pc = IF s \in Satisfies THEN "upload" ELSE "failed"
        /\ req[s].pc = "contract"
    BY <1>2, <1>a, <1>b DEF ValidateContract
  <2> QED BY <1>0, <2>1 DEF Progress, Uploaded, Checked, Saved, Polled, Referred, Mapped,
                           Dispatched, Finished, ModeOf
<1>3. CASE Upload(s)
  <2>1. req'[s].pc = "check" /\ s \in cas'
    BY <1>3, <1>a, <1>b DEF Upload
  <2> QED BY <2>1 DEF Progress, Uploaded, Checked, Saved, Polled, Referred, Mapped,
                     Dispatched, Finished, ModeOf
<1>4. CASE Check(s)
  <2>1. /\ req[s].pc = "check"
        /\ req'[s].pc = "failed" \/ (req'[s].pc = "lock" /\ s \in Satisfies)
    <3>1. \/ /\ req' = [req EXCEPT ![s] = [@ EXCEPT !.block = block, !.pc = "lock"]]
             /\ s \in Satisfies
          \/ req' = [req EXCEPT ![s] = [@ EXCEPT !.block = block, !.pc = "failed"]]
      BY <1>4 DEF Check
    <3>2. req[s] \in Local
      BY <1>0
    <3>3. \/ req'[s] = [req[s] EXCEPT !.block = block, !.pc = "lock"] /\ s \in Satisfies
          \/ req'[s] = [req[s] EXCEPT !.block = block, !.pc = "failed"]
      BY <1>0, <3>1
    <3>4. req'[s].pc = "failed" \/ (req'[s].pc = "lock" /\ s \in Satisfies)
      BY <3>2, <3>3 DEF Local
    <3> QED BY <1>4, <3>4 DEF Check
  <2>2. UNCHANGED cas
    BY <1>4 DEF Check
  <2> QED BY <1>0, <2>1, <2>2 DEF Progress, Uploaded, Checked, Saved, Polled, Referred,
                                  Mapped, Dispatched, Finished, ModeOf
<1>5. CASE AssertVersionAcceptsAttestation(s)
  <2>1. req[s].pc = "lock" /\ req'[s].pc \in {"commit", "failed"} /\ UNCHANGED cas
    BY <1>5, <1>a, <1>b DEF AssertVersionAcceptsAttestation
  <2> QED BY <1>0, <2>1 DEF Progress, Uploaded, Checked, Saved, Polled, Referred,
                            Mapped, Dispatched, Finished, ModeOf
<1>6. CASE SaveAttestation(s)
  <2>1. \/ req'[s].pc = "failed"
        \/ req'[s].pc = "policy" /\ run'[RunOf[s]].digest = s /\ s \in recorded'
    BY <1>0, <1>6, <1>a, <1>b, SaveFacts
  <2>2. req[s].pc = "commit" /\ UNCHANGED cas
    BY <1>6 DEF SaveAttestation
  <2> QED BY <1>0, <2>1, <2>2 DEF Progress, Uploaded, Checked, Saved, Polled, Referred,
                                  Mapped, Dispatched, Finished, ModeOf
<1>7. CASE UpdatePolicyStatus(s)
  <2>1. /\ req[s].pc = "policy" /\ req'[s].pc = "referrers" /\ UNCHANGED <<cas, recorded>>
        /\ run'[RunOf[s]].policy = s /\ run'[RunOf[s]].digest = run[RunOf[s]].digest
    BY <1>0, <1>7, <1>a, <1>b, PolicyFacts DEF UpdatePolicyStatus
  <2> QED BY <1>0, <2>1 DEF Progress, Uploaded, Checked, Saved, Polled, Referred,
                            Mapped, Dispatched, Finished, ModeOf
<1>8. CASE ExtractAndPersist(s)
  <2>1. /\ req[s].pc = "referrers" /\ s \in referrers' /\ UNCHANGED <<cas, recorded, run>>
        /\ req'[s].pc = IF ModeOf(s) = "inline" THEN "dispatch" ELSE "mappings"
    BY <1>8, <1>a, <1>b DEF ExtractAndPersist
  <2> QED BY <1>0, <2>1 DEF Progress, Uploaded, Checked, Saved, Polled, Referred,
                            Mapped, Dispatched, Finished, ModeOf
<1>9. CASE CreateMappings(s)
  <2>1. /\ req[s].pc = "mappings" /\ req'[s].pc = "dispatch" /\ s \in mappings'
        /\ UNCHANGED <<cas, recorded, run, referrers>>
    BY <1>9, <1>a, <1>b DEF CreateMappings
  <2> QED BY <1>0, <2>1 DEF Progress, Uploaded, Checked, Saved, Polled, Referred,
                            Mapped, Dispatched, Finished, ModeOf
<1>10. CASE RunDispatcher(s)
  <2>1. /\ req[s].pc = "dispatch" /\ s \in dispatched'
        /\ req'[s].pc = IF s \in Releases THEN "release" ELSE "finish"
        /\ UNCHANGED <<cas, recorded, run, referrers, mappings>>
    BY <1>10, <1>a, <1>b DEF RunDispatcher
  <2> QED BY <1>0, <2>1 DEF Progress, Uploaded, Checked, Saved, Polled, Referred,
                            Mapped, Dispatched, Finished, ModeOf
<1>11. CASE Release(s)
  <2>1. /\ req[s].pc = "release" /\ req'[s].pc = "finish" /\ ~prerelease'[V(s)]
        /\ UNCHANGED <<cas, recorded, run, referrers, mappings, dispatched>>
    BY <1>0, <1>11, <1>a, <1>b DEF Release, TypeOK
  <2> QED BY <1>0, <2>1 DEF Progress, Uploaded, Checked, Saved, Polled, Referred,
                            Mapped, Dispatched, Finished, ModeOf, V
<1>12. CASE MarkAsFinished(s)
  <2>1. /\ req[s].pc = "finish" /\ req'[s].pc = "done"
        /\ UNCHANGED <<cas, recorded, referrers, mappings, dispatched, prerelease>>
    BY <1>12, <1>a, <1>b DEF MarkAsFinished
  <2>2. /\ run'[RunOf[s]].digest = run[RunOf[s]].digest
        /\ run'[RunOf[s]].policy = run[RunOf[s]].policy
    BY <1>0, <1>12, StateSetters DEF SetsState
  <2> QED BY <1>0, <2>1, <2>2 DEF Progress, Uploaded, Checked, Saved, Polled, Referred,
                                  Mapped, Dispatched, Finished, ModeOf, V
<1>13. CASE StoreFails(s)
  BY <1>13, <1>a, <1>b, ProgressIdle DEF StoreFails
<1> QED BY <1>1, <1>2, <1>3, <1>4, <1>5, <1>6, <1>7, <1>8, <1>9, <1>10, <1>11, <1>12,
           <1>13 DEF Step

\* The requests that do not take the step stay where they are.
LEMMA OthersStay ==
  ASSUME TypeOK, NEW s \in Request, Begin(s) \/ Step(s) \/ StoreFails(s)
  PROVE  \A t \in Request \ {s} : req'[t] = req[t]
<1>1. CASE Check(s)
  BY <1>1 DEF Check, TypeOK
<1>2. CASE ~Check(s)
  <2>1. \E pc \in Phase : Go(s, pc)
    <3>1. CASE Begin(s) \/ ValidateContract(s) \/ Upload(s)
      BY <3>1 DEF Begin, ValidateContract, Upload, Phase
    <3>2. CASE AssertVersionAcceptsAttestation(s) \/ SaveAttestation(s)
      BY <3>2 DEF AssertVersionAcceptsAttestation, SaveAttestation, Phase
    <3>3. CASE UpdatePolicyStatus(s) \/ ExtractAndPersist(s) \/ CreateMappings(s)
      BY <3>3 DEF UpdatePolicyStatus, ExtractAndPersist, CreateMappings, Phase
    <3>4. CASE RunDispatcher(s) \/ Release(s) \/ MarkAsFinished(s) \/ StoreFails(s)
      BY <3>4 DEF RunDispatcher, Release, MarkAsFinished, StoreFails, Phase
    <3> QED BY <1>2, <3>1, <3>2, <3>3, <3>4 DEF Step
  <2> QED BY <2>1 DEF TypeOK, Go
<1> QED BY <1>1, <1>2

\* Uploads, cancellations, the expirer and the administrator move no request.
LEMMA RequestsStay ==
  [Next]_vars =>
    \/ \E s \in Request : Begin(s) \/ Step(s) \/ StoreFails(s)
    \/ UNCHANGED <<req, lock, prerelease>>
BY DEF Next, AsyncUpload, Cancel, Expire, ListNotFinished, SweepFails, UpdateOrg, vars

LEMMA ProgressStep == IInv /\ [Next]_vars => ProgressInv'
<1> SUFFICES ASSUME IInv, [Next]_vars, NEW t \in Request PROVE Progress(t)'
  BY DEF ProgressInv
<1>1. TypeOK /\ TypeOK' /\ Grow /\ Progress(t)
  BY TypeStep, StepsGrow DEF IInv, StorageConsistent, ProgressInv
<1>2. ASSUME NEW s \in Request, Begin(s) \/ Step(s) \/ StoreFails(s) PROVE Progress(t)'
  <2>1. CASE t = s
    BY <1>1, <1>2, <2>1, ProgressMoves
  <2>2. CASE t # s
    BY <1>1, <1>2, <2>2, OthersStay, ProgressKept
  <2> QED BY <2>1, <2>2
<1>3. CASE UNCHANGED req
  BY <1>1, <1>3, ProgressKept
<1> QED BY <1>2, <1>3, RequestsStay

-----------------------------------------------------------------------------
\* The rows, the locks, and the theorems.

\* The row and the digest of a run are written together, and a digest is written
\* when its bundle is in the row or in the CAS.
LEMMA DurableStep ==
  IInv /\ [Next]_vars => RowIsDigest' /\ DigestDurable'
<1> SUFFICES ASSUME IInv, [Next]_vars, NEW r \in Run
             PROVE  /\ Mode[r] # "cas" => run'[r].row = run'[r].digest
                    /\ run'[r].digest # None =>
                         run'[r].row = run'[r].digest \/ run'[r].digest \in cas'
  BY DEF RowIsDigest, DigestDurable
<1> USE ConstantsAssumption
<1>0. /\ TypeOK /\ cas \subseteq cas'
      /\ Mode[r] # "cas" => run[r].row = run[r].digest
      /\ run[r].digest # None => run[r].row = run[r].digest \/ run[r].digest \in cas
  BY SetsGrow DEF IInv, StorageConsistent, RowIsDigest, DigestDurable, GrowSets
<1>1. CASE run'[r].digest = run[r].digest /\ run'[r].row = run[r].row
  BY <1>0, <1>1
<1>2. CASE RowsUntouched
  BY <1>1, <1>2, UntouchedFacts
<1>3. ASSUME NEW s \in Request, SaveAttestation(s), RunOf[s] = r,
             run'[r].digest = s,
             run'[r].row = IF ModeOf(s) = "cas" THEN run[r].row ELSE s
      PROVE  /\ Mode[r] # "cas" => run'[r].row = run'[r].digest
             /\ run'[r].row = run'[r].digest \/ run'[r].digest \in cas'
  <2>1. req[s].pc \in Uploaded /\ Progress(s)
    BY <1>3 DEF SaveAttestation, Uploaded, Checked, IInv, ProgressInv
  <2>2. ModeOf(s) = "cas" => s \in cas
    BY <2>1 DEF Progress
  <2> QED BY <1>0, <1>3, <2>2 DEF ModeOf
<1>4. ASSUME NEW s \in Request, SaveAttestation(s)
      PROVE  \/ run'[r].digest = run[r].digest /\ run'[r].row = run[r].row
             \/ /\ RunOf[s] = r /\ run'[r].digest = s
                /\ run'[r].row = IF ModeOf(s) = "cas" THEN run[r].row ELSE s
  BY <1>0, <1>4, SaveFacts
<1>5. ASSUME NEW s \in Request, UpdatePolicyStatus(s) \/ MarkAsFinished(s)
      PROVE  run'[r].digest = run[r].digest /\ run'[r].row = run[r].row
  BY <1>0, <1>5, PolicyFacts, StateSetters DEF SetsState
<1>6. ASSUME NEW q \in Run, Cancel(q) \/ Expire(q)
      PROVE  run'[r].digest = run[r].digest /\ run'[r].row = run[r].row
  BY <1>0, <1>6, StateSetters DEF SetsState
<1> QED BY <1>1, <1>2, <1>3, <1>4, <1>5, <1>6, Writers

\* Only bundles that satisfy their contract reach the CAS, on either path.
LEMMA BlobStep ==
  IInv /\ [Next]_vars => RejectedLeavesNoBlob' /\ uploads' \subseteq Satisfies
<1> SUFFICES ASSUME IInv, [Next]_vars
             PROVE  cas' \subseteq Satisfies /\ uploads' \subseteq Satisfies
  BY DEF RejectedLeavesNoBlob
<1>0. cas \subseteq Satisfies /\ uploads \subseteq Satisfies
  BY DEF IInv, StorageConsistent, RejectedLeavesNoBlob, EndsInv
<1>1. ASSUME NEW s \in Request, Upload(s) \/ UpdatePolicyStatus(s)
      PROVE  cas' \subseteq Satisfies /\ uploads' \subseteq Satisfies
  <2>1. req[s].pc \in {"upload"} \cup Checked /\ Progress(s)
    BY <1>1 DEF Upload, UpdatePolicyStatus, Checked, Saved, IInv, ProgressInv
  <2>2. s \in Satisfies
    BY <2>1 DEF Progress
  <2> QED BY <1>0, <1>1, <2>2 DEF Upload, UpdatePolicyStatus
<1>2. ASSUME NEW s \in Request, AsyncUpload(s)
      PROVE  cas' \subseteq Satisfies /\ uploads' \subseteq Satisfies
  BY <1>0, <1>2 DEF AsyncUpload
<1>3. ASSUME NEW s \in Request,
             \/ Begin(s) \/ ValidateContract(s) \/ Check(s) \/ SaveAttestation(s)
             \/ AssertVersionAcceptsAttestation(s) \/ ExtractAndPersist(s)
             \/ CreateMappings(s) \/ RunDispatcher(s) \/ Release(s) \/ MarkAsFinished(s)
             \/ StoreFails(s)
      PROVE  UNCHANGED <<cas, uploads>>
  BY <1>3 DEF Begin, ValidateContract, Check, SaveAttestation,
     AssertVersionAcceptsAttestation, ExtractAndPersist, CreateMappings, RunDispatcher,
     Release, MarkAsFinished, StoreFails
<1>4. ASSUME NEW r \in Run, Cancel(r) \/ Expire(r) PROVE UNCHANGED <<cas, uploads>>
  BY <1>4 DEF Cancel, Expire
<1>5. CASE ListNotFinished \/ SweepFails \/ UpdateOrg \/ UNCHANGED vars
  BY <1>0, <1>5 DEF ListNotFinished, SweepFails, UpdateOrg, vars
<1> QED BY <1>0, <1>1, <1>2, <1>3, <1>4, <1>5 DEF Next, Step

\* An acknowledged request has ended, and ended requests do not move.
LEMMA AckedStep == IInv /\ [Next]_vars => \A s \in acked' : req'[s].pc = "done"
<1> SUFFICES ASSUME IInv, [Next]_vars, NEW t \in acked' PROVE req'[t].pc = "done"
  OBVIOUS
<1>0. /\ TypeOK /\ TypeOK' /\ req \in [Request -> Local] /\ t \in Request
      /\ "done" \in Phase
      /\ t \in acked => req[t].pc = "done"
  BY TypeStep DEF IInv, StorageConsistent, TypeOK, Local, Phase, EndsInv
<1>1. ASSUME NEW s \in Request, MarkAsFinished(s) PROVE req'[t].pc = "done"
  BY <1>0, <1>1, GoType DEF MarkAsFinished
<1>2. ASSUME NEW s \in Request, Begin(s) \/ Step(s) \/ StoreFails(s), ~MarkAsFinished(s)
      PROVE  req'[t].pc = "done"
  <2>1. UNCHANGED acked /\ req[s].pc # "done"
    <3>1. CASE Begin(s) \/ ValidateContract(s) \/ Upload(s) \/ Check(s)
      BY <3>1 DEF Begin, ValidateContract, Upload, Check
    <3>2. CASE AssertVersionAcceptsAttestation(s) \/ SaveAttestation(s)
      BY <3>2 DEF AssertVersionAcceptsAttestation, SaveAttestation
    <3>3. CASE UpdatePolicyStatus(s) \/ ExtractAndPersist(s) \/ CreateMappings(s)
      BY <3>3 DEF UpdatePolicyStatus, ExtractAndPersist, CreateMappings
    <3>4. CASE RunDispatcher(s) \/ Release(s) \/ StoreFails(s)
      BY <3>4 DEF RunDispatcher, Release, StoreFails
    <3> QED BY <1>2, <3>1, <3>2, <3>3, <3>4 DEF Step
  <2> QED BY <1>0, <1>2, <2>1, OthersStay
<1>3. CASE \E s \in Request : AsyncUpload(s)
  BY <1>0, <1>3 DEF AsyncUpload
<1>4. CASE \E r \in Run : Cancel(r) \/ Expire(r)
  BY <1>0, <1>4 DEF Cancel, Expire
<1>5. CASE ListNotFinished \/ SweepFails \/ UpdateOrg \/ UNCHANGED vars
  BY <1>0, <1>5 DEF ListNotFinished, SweepFails, UpdateOrg, vars
<1> QED BY <1>1, <1>2, <1>3, <1>4, <1>5 DEF Next

\* The lock taken by the check of the version is held until the attestation is
\* saved, and no Store releases the version in between.
LEMMA LockStep == IInv /\ [Next]_vars => LockInv'
<1> SUFFICES ASSUME IInv, [Next]_vars, NEW t \in Request,
                    req'[t].pc = "commit", req'[t].block
             PROVE  lock'[V(t)] = t /\ prerelease'[V(t)]
  BY DEF LockInv, V
<1> USE ConstantsAssumption
<1>0. /\ TypeOK /\ req \in [Request -> Local] /\ V(t) \in Version /\ t # None
      /\ req[t].pc = "commit" /\ req[t].block => lock[V(t)] = t /\ prerelease[V(t)]
  BY DEF IInv, StorageConsistent, TypeOK, LockInv, Local, V
<1>1. CASE UNCHANGED <<req, lock, prerelease>>
  BY <1>0, <1>1
<1>2. ASSUME NEW s \in Request, AssertVersionAcceptsAttestation(s)
      PROVE  lock'[V(t)] = t /\ prerelease'[V(t)]
  <2>1. CASE s = t
    <3>1. ~(~req[s].block /\ Go(s, "commit")) /\ ~Go(s, "failed")
      BY <1>0, <2>1, GoType DEF Phase
    <3> QED BY <1>0, <1>2, <2>1, <3>1 DEF AssertVersionAcceptsAttestation, TypeOK
  <2>2. CASE s # t
    <3>1. req'[t] = req[t]
      BY <1>0, <1>2, <2>2, OthersStay DEF Step
    <3>2. lock' = lock \/ (lock[V(s)] = None /\ lock' = [lock EXCEPT ![V(s)] = s])
      BY <1>2 DEF AssertVersionAcceptsAttestation
    <3>3. UNCHANGED prerelease
      BY <1>2 DEF AssertVersionAcceptsAttestation
    <3> QED BY <1>0, <3>1, <3>2, <3>3 DEF TypeOK
  <2> QED BY <2>1, <2>2
<1>3. ASSUME NEW s \in Request, SaveAttestation(s) \/ StoreFails(s)
      PROVE  lock'[V(t)] = t /\ prerelease'[V(t)]
  <2>1. s # t
    <3>1. PICK pc \in Phase \ {"commit"} : Go(s, pc)
      BY <1>3 DEF SaveAttestation, StoreFails, Phase
    <3> QED BY <1>0, <3>1, GoType
  <2>2. req'[t] = req[t]
    BY <1>0, <1>3, <2>1, OthersStay DEF Step
  <2>3. lock' = Unlocked(s) /\ UNCHANGED prerelease
    BY <1>3 DEF SaveAttestation, StoreFails
  <2> QED BY <1>0, <2>1, <2>2, <2>3 DEF Unlocked
<1>4. ASSUME NEW s \in Request, Release(s)
      PROVE  lock'[V(t)] = t /\ prerelease'[V(t)]
  <2>1. s # t
    BY <1>0, <1>4, GoType DEF Release, Phase
  <2>2. req'[t] = req[t]
    BY <1>0, <1>4, <2>1, OthersStay DEF Step
  <2>3. lock[V(t)] = t /\ V(s) # V(t)
    BY <1>0, <1>4, <2>2 DEF Release
  <2> QED BY <1>0, <1>4, <2>2, <2>3 DEF Release, TypeOK
<1>5. ASSUME NEW s \in Request,
             \/ Begin(s) \/ ValidateContract(s) \/ Upload(s) \/ Check(s)
             \/ UpdatePolicyStatus(s) \/ ExtractAndPersist(s) \/ CreateMappings(s)
             \/ RunDispatcher(s) \/ MarkAsFinished(s)
      PROVE  lock'[V(t)] = t /\ prerelease'[V(t)]
  <2>1. UNCHANGED <<lock, prerelease>>
    BY <1>5 DEF Begin, ValidateContract, Upload, Check, UpdatePolicyStatus,
       ExtractAndPersist, CreateMappings, RunDispatcher, MarkAsFinished
  <2>2. s # t
    <3>1. CASE Check(s)
      <4>1. PICK pc \in {"lock", "failed"} :
              req' = [req EXCEPT ![s] = [@ EXCEPT !.block = block, !.pc = pc]]
        BY <3>1 DEF Check
      <4>2. req'[s] = [req[s] EXCEPT !.block = block, !.pc = pc] /\ req[s] \in Local
        BY <1>0, <4>1
      <4>3. req'[s].pc = pc
        BY <4>2 DEF Local
      <4> QED BY <4>3
    <3>2. CASE ~Check(s)
      <4>1. PICK pc \in Phase \ {"commit"} : Go(s, pc)
        BY <1>5, <3>2 DEF Begin, ValidateContract, Upload, UpdatePolicyStatus,
           ExtractAndPersist, CreateMappings, RunDispatcher, MarkAsFinished, Phase
      <4> QED BY <1>0, <4>1, GoType
    <3> QED BY <3>1, <3>2
  <2>3. req'[t] = req[t]
    BY <1>0, <1>5, <2>2, OthersStay DEF Step
  <2> QED BY <1>0, <2>1, <2>3
<1> QED BY <1>1, <1>2, <1>3, <1>4, <1>5, RequestsStay DEF Step

\* The request s went through every step of Store for the run r.
Complete(s, r) ==
  /\ s \in recorded \cap referrers \cap dispatched
  /\ RunOf[s] = r
  /\ Mode[r] # "inline" => s \in mappings
  /\ Mode[r] # "cas" => run[r].digest = s /\ run[r].policy = s
  /\ s \in Releases => ~prerelease[VersionOf[r]]

\* Success stays backed by the Store that set it, and a Store sets it when it
\* has everything else behind it.
LEMMA SuccessStep == IInv /\ [Next]_vars => SuccessComplete'
<1> SUFFICES ASSUME IInv, [Next]_vars PROVE SuccessComplete'
  OBVIOUS
<1> USE ConstantsAssumption
<1>0. TypeOK /\ TypeOK' /\ Grow
  BY TypeStep, StepsGrow DEF IInv, StorageConsistent
<1> SUFFICES ASSUME NEW r \in Run, run'[r].state = "success"
             PROVE  \E s \in Request : Complete(s, r)'
  BY <1>0 DEF SuccessComplete, Complete, TypeOK
<1>1. CASE run[r].state = "success"
  <2>1. PICK s \in Request : Complete(s, r)
    BY <1>0, <1>1 DEF IInv, SuccessComplete, Complete, TypeOK
  <2>2. Mode[r] # "cas" => run'[r].digest = s /\ run'[r].policy = s
    BY <1>0, <2>1 DEF Complete, Grow, GrowRows
  <2>3. s \in Releases => ~prerelease'[VersionOf[r]]
    BY <1>0, <2>1 DEF Complete, Grow, GrowSets
  <2>4. Complete(s, r)'
    BY <1>0, <2>1, <2>2, <2>3 DEF Complete, Grow, GrowSets
  <2> QED BY <2>4
<1>2. ASSUME NEW s \in Request, MarkAsFinished(s), RunOf[s] = r
      PROVE  Complete(s, r)'
  <2>1. req'[s].pc = "done" /\ TypeOK' /\ ProgressInv'
    <3>1. req \in [Request -> Local] /\ Go(s, "done") /\ "done" \in Phase
      BY <1>0, <1>2 DEF TypeOK, Local, MarkAsFinished, Phase
    <3> QED BY <1>0, <3>1, GoType, TypeStep, ProgressStep
  <2>2. /\ req'[s].pc \in Saved /\ req'[s].pc \in Polled /\ req'[s].pc \in Referred
        /\ req'[s].pc \in Mapped /\ req'[s].pc \in Dispatched /\ req'[s].pc \in Finished
    BY <2>1 DEF Saved, Polled, Referred, Mapped, Dispatched, Finished
  <2>3. Progress(s)'
    BY <2>1 DEF ProgressInv
  <2> QED BY <1>2, <2>2, <2>3 DEF Progress, Complete, ModeOf, V
<1>3. CASE RowsUntouched
  BY <1>1, <1>3, UntouchedFacts
<1>4. ASSUME NEW s \in Request, MarkAsFinished(s), RunOf[s] # r
      PROVE  run[r].state = "success"
  BY <1>0, <1>4, StateSetters DEF SetsState
<1>5. ASSUME NEW s \in Request, SaveAttestation(s) \/ UpdatePolicyStatus(s)
      PROVE  run[r].state = "success"
  BY <1>0, <1>5, SaveFacts, PolicyFacts
<1>6. ASSUME NEW q \in Run, Cancel(q) \/ Expire(q)
      PROVE  run[r].state = "success"
  BY <1>0, <1>6, StateSetters DEF SetsState
<1> QED BY <1>1, <1>2, <1>3, <1>4, <1>5, <1>6, Writers

\* IInv is an invariant: it holds at first and every step keeps it.
LEMMA InductiveStep == IInv /\ [Next]_vars => IInv'
<1> SUFFICES ASSUME IInv, [Next]_vars PROVE IInv'
  OBVIOUS
<1>1. TypeOK'
  BY TypeStep DEF IInv, StorageConsistent
<1>2. RowIsDigest' /\ DigestDurable' /\ RejectedLeavesNoBlob' /\ EndsInv'
  BY DurableStep, BlobStep, AckedStep DEF EndsInv
<1>3. ProgressInv' /\ LockInv' /\ SuccessComplete'
  BY ProgressStep, LockStep, SuccessStep
<1> QED BY <1>1, <1>2, <1>3 DEF IInv, StorageConsistent

LEMMA InvHolds == Spec => []IInv
BY InitInv, InductiveStep, PTL DEF Spec

\* What is stored about a run fits together whichever requests failed half way:
\* the rows are well formed, the bundle of a recorded digest is in the row or in
\* the CAS, and no bundle that violates its contract is in the CAS.
THEOREM StoredConsistently == Spec => []StorageConsistent
<1>1. IInv => StorageConsistent
  BY DEF IInv
<1> QED BY <1>1, InvHolds, PTL

\* A Store that replied with success can be read back, whatever other requests
\* store into the same run before or after it.
THEOREM AckedAreRetrievable == Spec => []AckedRetrievable
<1>1. ASSUME IInv PROVE AckedRetrievable
  <2> SUFFICES ASSUME NEW s \in acked
               PROVE  IF ModeOf(s) = "cas" THEN s \in cas \cap mappings
                      ELSE run[RunOf[s]].row = s /\ run[RunOf[s]].digest = s
    BY DEF AckedRetrievable
  <2>1. s \in Request /\ Progress(s) /\ req[s].pc = "done" /\ RunOf[s] \in Run
    BY <1>1, ConstantsAssumption
       DEF IInv, StorageConsistent, TypeOK, ProgressInv, EndsInv
  <2>2. req[s].pc \in Uploaded /\ req[s].pc \in Saved /\ req[s].pc \in Mapped
    BY <2>1 DEF Uploaded, Checked, Saved, Polled, Referred, Mapped, Dispatched, Finished
  <2>3. ModeOf(s) = "cas" => s \in cas \cap mappings
    BY <2>1, <2>2 DEF Progress
  <2>4. ModeOf(s) # "cas" => run[RunOf[s]].digest = s
    BY <2>1, <2>2 DEF Progress
  <2>5. ModeOf(s) # "cas" => run[RunOf[s]].row = run[RunOf[s]].digest
    BY <1>1, <2>1 DEF IInv, RowIsDigest, ModeOf
  <2> QED BY <2>3, <2>4, <2>5
<1> QED BY <1>1, InvHolds, PTL

\* A run in state success went through every step of some Store, whatever
\* another Store, Cancel or the expirer did in between.
THEOREM SuccessIsComplete == Spec => []SuccessComplete
<1>1. IInv => SuccessComplete
  BY DEF IInv
<1> QED BY <1>1, InvHolds, PTL

\* No Store that read the setting as blocking records an attestation on a
\* version that is released at that moment.
THEOREM ReleasedIsImmutable == Spec => ReleasedVersionImmutable
<1> DEFINE A == \A r \in Run : (~prerelease[VersionOf[r]] /\ run'[r].digest # run[r].digest) =>
                  \E s \in Request : RunOf[s] = r /\ req[s].pc = "commit" /\ ~req[s].block
<1>1. ASSUME IInv, [Next]_vars PROVE [A]_vars
  <2> SUFFICES ASSUME NEW r \in Run, ~prerelease[VersionOf[r]],
                      run'[r].digest # run[r].digest
               PROVE  \E s \in Request : RunOf[s] = r /\ req[s].pc = "commit" /\ ~req[s].block
    OBVIOUS
  <2>0. TypeOK
    BY <1>1 DEF IInv, StorageConsistent
  <2>1. PICK s \in Request : SaveAttestation(s)
    <3>1. ~RowsUntouched
      BY UntouchedFacts
    <3>2. \A s \in Request : ~UpdatePolicyStatus(s) /\ ~MarkAsFinished(s)
      BY <2>0, PolicyFacts, StateSetters DEF SetsState
    <3>3. \A q \in Run : ~Cancel(q) /\ ~Expire(q)
      BY <2>0, StateSetters DEF SetsState
    <3> QED BY <1>1, <3>1, <3>2, <3>3, Writers
  <2>2. RunOf[s] = r /\ req[s].pc = "commit"
    BY <2>0, <2>1, SaveFacts DEF SaveAttestation
  <2>3. req[s].block => prerelease[V(s)]
    BY <1>1, <2>2 DEF IInv, LockInv
  <2> QED BY <2>2, <2>3 DEF V
<1>2. Spec => [][A]_vars
  BY <1>1, InvHolds, PTL DEF Spec
<1> QED BY <1>2 DEF ReleasedVersionImmutable

\* What is kept in the DB is kept for good, however many requests store into
\* the run and however late.
THEOREM AttestationIsImmutable == Spec => AttestationImmutable
<1> DEFINE A == \A r \in Run : (Mode[r] # "cas" /\ run[r].digest # None) =>
                  run'[r].digest = run[r].digest /\ run'[r].row = run[r].row
<1>1. ASSUME IInv, [Next]_vars PROVE [A]_vars
  <2> SUFFICES ASSUME NEW r \in Run, Mode[r] # "cas", run[r].digest # None
               PROVE  run'[r].digest = run[r].digest /\ run'[r].row = run[r].row
    OBVIOUS
  <2>1. run[r].digest \in Request
    BY <1>1 DEF IInv, StorageConsistent, TypeOK
  <2> QED BY <1>1, <2>1, RowsGrow DEF GrowRows
<1>2. Spec => [][A]_vars
  BY <1>1, InvHolds, PTL DEF Spec
<1> QED BY <1>2 DEF AttestationImmutable
=============================================================================
