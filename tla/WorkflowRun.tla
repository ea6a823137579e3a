---------------------------- MODULE WorkflowRun ----------------------------
(***************************************************************************)
(* The life of workflow runs in the control plane: AttestationService.Store*)
(* (storeAttestation) step by step, the async upload it leaves behind, and *)
(* the other writers of a run: Cancel and the expirer.                     *)
(*                                                                         *)
(* Every step of a Store request is one database or CAS operation.  Any of *)
(* them may fail (a fault, the client's deadline, a crash), which ends the *)
(* request and leaves what it has done so far.  Several requests may store *)
(* into one run: nothing in Store asks whether the run is finished, and a  *)
(* client that lost a reply sends a newly signed bundle.                   *)
(*                                                                         *)
(* A request stands for its bundle and for the digest of that bundle.      *)
(***************************************************************************)
EXTENDS Naturals, FiniteSets

CONSTANTS
  Run,        \* workflow runs, all initialized at first
  Version,    \* project versions
  VersionOf,  \* the version of each run
  Mode,       \* where a run's bundle goes: "inline" (DB), "db" (DB, then CAS),
              \* "cas" (skip_db_storage: CAS only)
  Request,    \* Store requests
  RunOf,      \* the run of each request
  Satisfies,  \* requests whose bundle satisfies the contract of their run
  Depends,    \* the digests of the attestations among a bundle's materials
  Releases,   \* requests that ask to mark the version as released
  None,
  AdminActs,  \* whether the organization's setting changes during the behaviour
  MaxFaults   \* bound: operations that fail

VARIABLES
  run,        \* rows: state, attestation digest, attestation row, policy status
  prerelease, \* of each version
  lock,       \* who holds the row lock of each version
  block,      \* organization setting: block attestations on released versions
  req,        \* program counter of each request, and the setting it read
  cas,        \* digests in the CAS
  mappings,   \* digests with a CAS mapping
  referrers,  \* digests whose referrers are stored
  dispatched, \* digests handed to the integrations dispatcher
  uploads,    \* digests that a goroutine is uploading
  listed,     \* runs that the expirer's sweep has listed and not yet expired
  acked,      \* history: requests that replied with success
  recorded,   \* history: requests whose attestation was saved
  faults

vars == <<run, prerelease, lock, block, req, cas, mappings, referrers, dispatched,
          uploads, listed, acked, recorded, faults>>

-----------------------------------------------------------------------------
States == {"initialized", "success", "error", "canceled", "expired"}

Phase == {"idle", "contract", "upload", "check", "lock", "commit", "policy",
          "referrers", "mappings", "dispatch", "release", "finish", "done", "failed"}

ASSUME ConstantsAssumption ==
  /\ VersionOf \in [Run -> Version]
  /\ Mode \in [Run -> {"inline", "db", "cas"}]
  /\ RunOf \in [Request -> Run]
  /\ Satisfies \subseteq Request
  /\ Depends \in [Request -> SUBSET Request]
  /\ Releases \subseteq Request
  /\ None \notin Request
  /\ AdminActs \in BOOLEAN
  /\ MaxFaults \in Nat

Init ==
  /\ run = [r \in Run |-> [state |-> "initialized", digest |-> None, row |-> None,
                           policy |-> None]]
  /\ prerelease = [v \in Version |-> TRUE]
  /\ lock = [v \in Version |-> None]
  /\ block \in BOOLEAN
  /\ req = [s \in Request |-> [pc |-> "idle", block |-> FALSE]]
  /\ cas = {} /\ mappings = {} /\ referrers = {} /\ dispatched = {} /\ uploads = {}
  /\ listed = {}
  /\ acked = {} /\ recorded = {}
  /\ faults = 0

ModeOf(s) == Mode[RunOf[s]]
V(s) == VersionOf[RunOf[s]]

Go(s, pc) == req' = [req EXCEPT ![s].pc = pc]

Unlocked(s) == [v \in Version |-> IF lock[v] = s THEN None ELSE lock[v]]

-----------------------------------------------------------------------------
\* Store.

\* Mutant of Begin: with skip_db_storage the digest is saved before the upload.
BeginSavesFirst(s) ==
  /\ req[s].pc = "idle"
  /\ Go(s, "check")
  /\ UNCHANGED <<run, prerelease, lock, block, cas, mappings, referrers, dispatched, uploads, listed, acked, recorded, faults>>

\* The run is found in the organization; its state is not looked at.
Begin(s) ==
  /\ req[s].pc = "idle"
  /\ Go(s, IF ModeOf(s) = "cas" THEN "contract" ELSE "check")
  /\ UNCHANGED <<run, prerelease, lock, block, cas, mappings, referrers, dispatched,
                 uploads, listed, acked, recorded, faults>>

\* ValidateAttestationContract, before the bundle goes to the CAS.
ValidateContract(s) ==
  /\ req[s].pc = "contract"
  /\ Go(s, IF s \in Satisfies THEN "upload" ELSE "failed")
  /\ UNCHANGED <<run, prerelease, lock, block, cas, mappings, referrers, dispatched,
                 uploads, listed, acked, recorded, faults>>

\* Mutant of Upload: the upload is left to a goroutine on this path too.
UploadDetached(s) ==
  /\ req[s].pc = "upload"
  /\ uploads' = uploads \cup {s}
  /\ Go(s, "check")
  /\ UNCHANGED <<run, prerelease, lock, block, cas, mappings, referrers, dispatched,
                 listed, acked, recorded, faults>>

\* uploadAttestationToCASWithRetry, awaited.
Upload(s) ==
  /\ req[s].pc = "upload"
  /\ cas' = cas \cup {s}
  /\ Go(s, "check")
  /\ UNCHANGED <<run, prerelease, lock, block, mappings, referrers, dispatched,
                 uploads, listed, acked, recorded, faults>>

\* SaveAttestation reads the organization's setting, then validates the bundle:
\* the attestations it depends on exist, and its contract is satisfied.
Check(s) ==
  /\ req[s].pc = "check"
  /\ LET valid == /\ s \in Satisfies
                  /\ \A d \in Depends[s] : \E r \in Run : run[r].digest = d
     IN  req' = [req EXCEPT ![s].block = block,
                            ![s].pc = IF valid THEN "lock" ELSE "failed"]
  /\ UNCHANGED <<run, prerelease, lock, block, cas, mappings, referrers, dispatched,
                 uploads, listed, acked, recorded, faults>>

\* Mutant: the version is read without FOR UPDATE.
AssertWithoutLock(s) ==
  /\ req[s].pc = "lock"
  /\ Go(s, IF req[s].block /\ ~prerelease[V(s)] THEN "failed" ELSE "commit")
  /\ UNCHANGED <<run, prerelease, lock, block, cas, mappings, referrers, dispatched, uploads, listed, acked, recorded, faults>>

\* assertVersionAcceptsAttestationWithTx: SELECT ... FOR UPDATE waits for the row
\* lock; a rejection rolls the transaction back, which drops the lock.
AssertVersionAcceptsAttestation(s) ==
  /\ req[s].pc = "lock"
  /\ \/ /\ ~req[s].block
        /\ Go(s, "commit")
        /\ UNCHANGED lock
     \/ /\ req[s].block
        /\ lock[V(s)] = None
        /\ prerelease[V(s)]
        /\ lock' = [lock EXCEPT ![V(s)] = s]
        /\ Go(s, "commit")
     \/ /\ req[s].block
        /\ lock[V(s)] = None
        /\ ~prerelease[V(s)]
        /\ Go(s, "failed")
        /\ UNCHANGED lock
  /\ UNCHANGED <<run, prerelease, block, cas, mappings, referrers, dispatched,
                 uploads, listed, acked, recorded, faults>>

\* Mutant of SaveAttestation: the attestation row is not unique per run.
SaveAttestationAgain(s) ==
  /\ req[s].pc = "commit"
  /\ lock' = Unlocked(s)
  /\ run' = [run EXCEPT ![RunOf[s]].digest = s,
                        ![RunOf[s]].row = IF ModeOf(s) = "cas" THEN @ ELSE s]
  /\ recorded' = recorded \cup {s}
  /\ Go(s, "policy")
  /\ UNCHANGED <<prerelease, block, cas, mappings, referrers, dispatched, uploads, listed, acked, faults>>

\* SaveAttestationBundle and SaveAttestationDigest.  The attestation row of a
\* run is unique: a second one rolls the digest back too.
SaveAttestation(s) ==
  /\ req[s].pc = "commit"
  /\ lock' = Unlocked(s)
  /\ IF ModeOf(s) # "cas" /\ run[RunOf[s]].row # None
     THEN /\ Go(s, "failed")
          /\ UNCHANGED <<run, recorded>>
     ELSE /\ run' = [run EXCEPT ![RunOf[s]].digest = s,
                                ![RunOf[s]].row = IF ModeOf(s) = "cas" THEN @ ELSE s]
          /\ recorded' = recorded \cup {s}
          /\ Go(s, "policy")
  /\ UNCHANGED <<prerelease, block, cas, mappings, referrers, dispatched, uploads,
                 listed, acked, faults>>

\* UpdatePolicyStatus, the last step of SaveAttestation; then the bundle saved
\* in the DB is uploaded by a goroutine that nobody waits for.
UpdatePolicyStatus(s) ==
  /\ req[s].pc = "policy"
  /\ run' = [run EXCEPT ![RunOf[s]].policy = s]
  /\ uploads' = IF ModeOf(s) = "db" THEN uploads \cup {s} ELSE uploads
  /\ Go(s, "referrers")
  /\ UNCHANGED <<prerelease, lock, block, cas, mappings, referrers, dispatched,
                 listed, acked, recorded, faults>>

\* Mutant of ExtractAndPersist: its error is only logged.
ExtractAndPersistLogged(s) ==
  /\ req[s].pc = "referrers"
  /\ referrers' \in {referrers, referrers \cup {s}}
  /\ Go(s, IF ModeOf(s) = "inline" THEN "dispatch" ELSE "mappings")
  /\ UNCHANGED <<run, prerelease, lock, block, cas, mappings, dispatched, uploads, listed, acked, recorded, faults>>

ExtractAndPersist(s) ==
  /\ req[s].pc = "referrers"
  /\ referrers' = referrers \cup {s}
  /\ Go(s, IF ModeOf(s) = "inline" THEN "dispatch" ELSE "mappings")
  /\ UNCHANGED <<run, prerelease, lock, block, cas, mappings, dispatched, uploads,
                 listed, acked, recorded, faults>>

CreateMappings(s) ==
  /\ req[s].pc = "mappings"
  /\ mappings' = mappings \cup {s}
  /\ Go(s, "dispatch")
  /\ UNCHANGED <<run, prerelease, lock, block, cas, referrers, dispatched, uploads,
                 listed, acked, recorded, faults>>

RunDispatcher(s) ==
  /\ req[s].pc = "dispatch"
  /\ dispatched' = dispatched \cup {s}
  /\ Go(s, IF s \in Releases THEN "release" ELSE "finish")
  /\ UNCHANGED <<run, prerelease, lock, block, cas, mappings, referrers, uploads,
                 listed, acked, recorded, faults>>

\* UpdateReleaseStatus: an UPDATE of the version row, which waits for its lock.
Release(s) ==
  /\ req[s].pc = "release"
  /\ lock[V(s)] = None
  /\ prerelease' = [prerelease EXCEPT ![V(s)] = FALSE]
  /\ Go(s, "finish")
  /\ UNCHANGED <<run, lock, block, cas, mappings, referrers, dispatched, uploads,
                 listed, acked, recorded, faults>>

\* MarkAsFinished(success), whatever the state of the run, and the reply.
MarkAsFinished(s) ==
  /\ req[s].pc = "finish"
  /\ run' = [run EXCEPT ![RunOf[s]].state = "success"]
  /\ acked' = acked \cup {s}
  /\ Go(s, "done")
  /\ UNCHANGED <<prerelease, lock, block, cas, mappings, referrers, dispatched,
                 uploads, listed, recorded, faults>>

\* Mutant of StoreFails: the failed transaction is left open with its lock.
StoreFailsLeaksLock(s) ==
  /\ req[s].pc \notin {"idle", "done", "failed"}
  /\ faults < MaxFaults
  /\ faults' = faults + 1
  /\ Go(s, "failed")
  /\ UNCHANGED <<run, prerelease, lock, block, cas, mappings, referrers, dispatched, uploads, listed, acked, recorded>>

\* An operation fails, or the server dies: the transaction, if any, rolls back.
StoreFails(s) ==
  /\ req[s].pc \notin {"idle", "done", "failed"}
  /\ faults < MaxFaults
  /\ faults' = faults + 1
  /\ lock' = Unlocked(s)
  /\ Go(s, "failed")
  /\ UNCHANGED <<run, prerelease, block, cas, mappings, referrers, dispatched,
                 uploads, listed, acked, recorded>>

-----------------------------------------------------------------------------
\* The goroutine of a bundle saved in the DB: it uploads within a minute, or its
\* failure is only logged.
AsyncUpload(s) ==
  /\ s \in uploads
  /\ uploads' = uploads \ {s}
  /\ \/ cas' = cas \cup {s} /\ UNCHANGED faults
     \/ faults < MaxFaults /\ faults' = faults + 1 /\ UNCHANGED cas
  /\ UNCHANGED <<run, prerelease, lock, block, req, mappings, referrers, dispatched,
                 listed, acked, recorded>>

\* AttestationService.Cancel: a failure or a cancellation, in any state.
Cancel(r) ==
  /\ \E state \in {"error", "canceled"} : run' = [run EXCEPT ![r].state = state]
  /\ UNCHANGED <<prerelease, lock, block, req, cas, mappings, referrers, dispatched,
                 uploads, listed, acked, recorded, faults>>

\* ExpirationSweep lists the initialized runs and expires them one by one ...
ListNotFinished ==
  /\ listed = {}
  /\ listed' = {r \in Run : run[r].state = "initialized"}
  /\ UNCHANGED <<run, prerelease, lock, block, req, cas, mappings, referrers,
                 dispatched, uploads, acked, recorded, faults>>

Expire(r) ==
  /\ r \in listed
  /\ listed' = listed \ {r}
  /\ run' = [run EXCEPT ![r].state = "expired"]
  /\ UNCHANGED <<prerelease, lock, block, req, cas, mappings, referrers, dispatched,
                 uploads, acked, recorded, faults>>

\* ... until an error ends the sweep.
SweepFails ==
  /\ listed # {}
  /\ faults < MaxFaults
  /\ faults' = faults + 1
  /\ listed' = {}
  /\ UNCHANGED <<run, prerelease, lock, block, req, cas, mappings, referrers,
                 dispatched, uploads, acked, recorded>>

\* An administrator changes the organization's setting.
UpdateOrg ==
  /\ AdminActs
  /\ block' = ~block
  /\ UNCHANGED <<run, prerelease, lock, req, cas, mappings, referrers, dispatched,
                 uploads, listed, acked, recorded, faults>>

-----------------------------------------------------------------------------
Step(s) ==
  \/ ValidateContract(s) \/ Upload(s) \/ Check(s) \/ AssertVersionAcceptsAttestation(s)
  \/ SaveAttestation(s) \/ UpdatePolicyStatus(s) \/ ExtractAndPersist(s)
  \/ CreateMappings(s) \/ RunDispatcher(s) \/ Release(s) \/ MarkAsFinished(s)

Next ==
  \/ \E s \in Request : Begin(s) \/ Step(s) \/ StoreFails(s) \/ AsyncUpload(s)
  \/ \E r \in Run : Cancel(r) \/ Expire(r)
  \/ ListNotFinished \/ SweepFails \/ UpdateOrg

Spec == Init /\ [][Next]_vars

\* A request that has begun runs on (a lock that is free again and again is
\* granted: row locks queue), and so does an upload.
FairSpec == /\ Spec
            /\ \A s \in Request : SF_vars(Step(s)) /\ WF_vars(AsyncUpload(s))

-----------------------------------------------------------------------------
\* Properties.

\* Every variable keeps its type.
TypeOK ==
  /\ run \in [Run -> [state : States, digest : Request \cup {None},
                      row : Request \cup {None}, policy : Request \cup {None}]]
  /\ prerelease \in [Version -> BOOLEAN]
  /\ lock \in [Version -> Request \cup {None}]
  /\ block \in BOOLEAN
  /\ req \in [Request -> [pc : Phase, block : BOOLEAN]]
  /\ cas \subseteq Request /\ mappings \subseteq Request /\ referrers \subseteq Request
  /\ dispatched \subseteq Request /\ uploads \subseteq Request
  /\ listed \subseteq Run
  /\ acked \subseteq Request /\ recorded \subseteq Request
  /\ faults \in 0..MaxFaults

\* A released version is immutable: no Store that read the organization's
\* setting as blocking records an attestation on a version that is released at
\* that moment, whatever another Store releases between its check and its write.
ReleasedVersionImmutable ==
  [][\A r \in Run : (~prerelease[VersionOf[r]] /\ run'[r].digest # run[r].digest) =>
       \E s \in Request : RunOf[s] = r /\ req[s].pc = "commit" /\ ~req[s].block]_vars

\* The digest on a run is never ahead of its bundle: the bundle is in the DB row
\* or already in the CAS, whichever requests failed half way.
DigestDurable ==
  \A r \in Run : run[r].digest # None =>
    run[r].row = run[r].digest \/ run[r].digest \in cas

\* What is kept in the DB is kept for good: once a run has an attestation row,
\* neither the row nor the digest on the run changes, however many requests
\* store into the run and however late.
AttestationImmutable ==
  [][\A r \in Run : (Mode[r] # "cas" /\ run[r].digest # None) =>
       run'[r].digest = run[r].digest /\ run'[r].row = run[r].row]_vars

\* A Store that replied with success can be read back: its bundle is the run's
\* row, or it is in the CAS with a mapping that finds it there.
AckedRetrievable ==
  \A s \in acked :
    IF ModeOf(s) = "cas" THEN s \in cas \cap mappings
    ELSE run[RunOf[s]].row = s /\ run[RunOf[s]].digest = s

\* A run in state success went through every step of some Store: success is
\* never set ahead of the record, the referrers, the mappings, the dispatch or
\* the release it asked for.
SuccessComplete ==
  \A r \in Run : run[r].state = "success" =>
    \E s \in recorded \cap referrers \cap dispatched :
      /\ RunOf[s] = r
      /\ Mode[r] # "inline" => s \in mappings
      /\ Mode[r] # "cas" => run[r].digest = s /\ run[r].policy = s
      /\ s \in Releases => ~prerelease[VersionOf[r]]

\* A bundle that violates its contract leaves no blob in the CAS: on the path
\* that uploads first, the contract is checked before the upload.
RejectedLeavesNoBlob == cas \subseteq Satisfies

\* Every Store that began ends, although requests wait for the row locks of
\* other requests and any of them may fail while it holds one.
StoresEnd ==
  \A s \in Request : (req[s].pc \notin {"idle", "done", "failed"}) ~>
                     (req[s].pc \in {"done", "failed"})

\* What is stored about a run fits together at all times, whichever requests
\* failed half way: the rows are well formed, the bundle of a recorded digest can
\* be found, and no bundle that violates its contract is in the CAS.
StorageConsistent == TypeOK /\ DigestDurable /\ RejectedLeavesNoBlob
=============================================================================
