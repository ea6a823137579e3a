# Chainloop: formal models

Chainloop records *attestations*: signed statements about what a CI job built,
with which inputs ("materials") and which policy results.  A CLI crafts an
attestation step by step, a control plane keeps the runs, the contracts and the
project versions in PostgreSQL, and a content-addressable store (CAS) keeps the
artifacts.  This directory holds TLA+ models of the parts where concurrency,
failures and ordering decide whether the record can be trusted, TLC
configurations that check them on small instances, and TLAPS proofs.

## 1. The system

| Part | State it keeps | Operations | Modelled in |
|---|---|---|---|
| Remote crafting state (`pkg/attestation/crafter`, `biz/attestationstate.go`, `data/attestationstate.go`, CLI actions init/add/push/reset) | one encrypted column of the workflow run, a copy and a digest in every CLI process | init, add (named, unnamed, auto-detected kind, with a policy input, archive), push, reset; server-side save, read, reset | `CraftingState`, `MaterialStore`, `CraftingStateProofs` |
| Workflow runs and Store (`service/attestation.go`, `biz/workflowrun.go`, `data/workflowrun.go`) | run rows (state, digest, attestation row, policy status), CAS blobs, mappings, referrers | Store (about ten steps), async upload, Cancel, expiration sweep | `WorkflowRun`, `WorkflowRunProofs` |
| Project versions (`data/projectversion.go`, `biz/projectversion.go`, `data/workflowrun.go` Create) | version rows: prerelease, latest, run count | run creation, version creation, promotion, release | `ProjectVersion`, `ProjectVersionProofs` |
| CAS backends (`biz/casbackend.go`, `data/casbackend.go`, checker) | backend rows: default, fallback, deleted, validation status | create, update, soft delete, promotion, validation, periodic check | `CASBackend`, `CASBackendChecker`, `CASBackendProofs` |
| Artifact CAS (`app/artifact-cas`, `pkg/casexistence`, blob providers) | blobs, staging files, existence cache, cache of clients | streaming upload, download over gRPC and HTTP | `ArtifactCAS`, `VerifiedStore`, `ArtifactCASProofs` |
| Organizations, memberships, groups, invitations (`biz/membership.go`, `biz/group.go`, `biz/orginvitation.go` and their repositories) | memberships and roles, group members and maintainers, member count, invitations | remove, leave, change a role, invite, revoke, add to and drop from a group, make a maintainer, delete a group, accept at login | `Membership`, `MembershipProofs` |
| API tokens (`biz/apitoken.go`, `data/apitoken.go`, middlewares, `service/apitoken.go`, `biz/apitoken_stale_revoker.go`) | token rows, JWTs in circulation, last use | mint, sign again, authenticate on two chains, authorize, revoke; sweep of unused tokens | `APIToken`, `TokenSweeper`, `APITokenProofs` |
| Login handoff (`biz/loginhandoff.go`, `data/loginhandoff.go`, `service/auth.go`) | single-use codes | issue, exchange, sweep | `LoginHandoff`, `OneTimeCode`, `LoginHandoffProofs` |
| CAS mappings, referrers | rows that tie a digest to a backend, and digests to each other | create (a step of Store), lookup with visibility | not modelled (section 8) |
| Integrations dispatcher | in-memory queue per run | build queue, load inputs, dispatch with retry | not modelled (section 8) |
| Contracts | revisions | create, update, find-or-create workflow | not modelled (section 8) |
| Filesystem state, policies engine, renderer and signing, CLI trace, plugins, generated code | - | - | not modelled (section 8) |

How they interact.  `attestation init` creates a run (and, when it is new, its
project version) in one transaction and then saves the first crafting state
into the run's row.  Every later command of that attestation, in whichever
process or machine, reads that column, changes its copy and saves it back.
`attestation push` renders and signs a bundle from its copy and calls Store,
which records the attestation on the run, uploads it to the CAS backend the run
was created with, writes referrers and mappings, hands the envelope to the
dispatcher, may release the version, and finally marks the run as finished,
which drops the crafting state.  In the background the expirer expires runs
that were never finished and the checker validates the CAS backends.  Artifacts
themselves go to the artifact CAS, with credentials the control plane gives for
the backend of the run, and are read back from there by digest.  Users log in
through OIDC: the login accepts the invitations sent to the user and hands the
session to the CLI with a single-use code.  Machines authenticate with API
tokens, which are revoked by administrators, by other tokens or, when an
organization asks for it, by a sweeper of unused tokens.

What is hard about it:

* several CLI processes share one crafting state with nothing but optimistic
  concurrency control between them; commands are retried as a whole, replies
  get lost, and a save is not idempotent;
* Store is a sequence of independent transactions and calls with no overall
  transaction and no check of the run's state, and any step may fail;
* the version of a run may be released while an attestation is being stored
  into it; PostgreSQL runs everything at READ COMMITTED, so that an `UPDATE ...
  WHERE latest` does not see what a concurrent transaction is about to commit;
* transactions take the rows they lock in different orders;
* background jobs list rows first and change them later;
* the default CAS backend is a flag on one of several rows, which requests and
  promotions set and unset in separate transactions, and a validation is a call
  to a third party between two queries; the checkers' lock lives in a database session
  that nobody looks at while the check goes on;
* the artifact CAS keeps two caches in front of blob stores that others may change,
  whose credentials rotate and whose calls fail in the middle of a stream;
* every request about memberships decides on what it read and writes later, and
  a login that accepts invitations may fail half way and is simply repeated;
* the row of a token, its policies and the target of a management call are read
  at different moments of one request, while the token may be revoked;
* a handoff code travels in a URL: whoever saw it may present it at the same time.

`PROJECT.json` lists the hazards one by one, each at its line, with the
properties that would catch it going wrong, and with a note where the code lets a
part of the hazard happen and no property says otherwise.

What makes each modelled part correct:

* crafting state: no acknowledged material is lost, the attestation contains
  what was acknowledged before the push sealed it, the state stays readable by
  the token that created it, names allocated for an archive override nobody's
  material, and every command ends;
* Store: an acknowledged attestation can be read back, a digest is never
  recorded ahead of its bundle, `success` means that every step was done, what
  is kept in the database does not change, a released version gets no
  attestation when the organization forbids it, every request ends;
* project versions: `--latest-version` always resolves, run counts are exact,
  released versions are neither promoted nor (when blocked) attested to,
  requests that deadlock still end;
* CAS backends: an organization has one default backend, no row is default and
  fallback at once, the status is what the last validation found, and a scope is
  checked by one replica at a time unless it lost the session of its lock;
* artifact CAS: an acknowledged upload is in the backend, nothing but verified
  bytes is stored or delivered, a cache entry that is wrong is so for a bounded
  time, and uploads survive a rotation of credentials;
* memberships: an organization keeps an owner, nobody but an owner makes owners,
  the tables of a group agree, and an invitation does what it says, in the end;
* API tokens: a revoked token is not served, a token is served as what its JWT
  signs, a token minted by a token mints none, a token in use is not swept and one
  left unused is;
* login handoff: a code gives one session, to the first who presents it and only
  with the right verifier and callback in time, and no code stays for ever.

## 2. Plan

Done, in this order:

1. `CraftingState` with the abstract `MaterialStore`;
2. `WorkflowRun`: the Store pipeline and the other writers of a run;
3. `ProjectVersion`: the transactions on the versions of a project;
4. `CASBackend` (election of the default and of the fallback, promotion of a
   successor, soft deletion, validation) and `CASBackendChecker` (the periodic
   check under an advisory lock);
5. `ArtifactCAS`: uploads and downloads, the caches and their faults, with the
   abstract `VerifiedStore`;
6. `Membership`: memberships, groups and invitations;
7. `APIToken` and `TokenSweeper`;
8. `LoginHandoff`, with the abstract `OneTimeCode`;
9. the proofs: every safety invariant and action property that a run checks is a
   theorem, and so are the three refinements, of `MaterialStore`, `VerifiedStore` and
   `OneTimeCode` (section 6).

Next, as models: CAS mappings with referrers (which backend a digest is served
from, for which organization, against a declarative definition of visibility),
the dispatcher, the revisions of contracts, and a composition of
`CraftingState` and `WorkflowRun` in which the `store` and `finish` steps of a
push are a Store request.

## 3. Modules

### CraftingState

One attestation whose crafting state is kept remotely.

| Variable | In the code |
|---|---|
| `stored` | `workflow_run.attestation_state` (nullable): the digest of the encrypted bytes, the token whose passphrase encrypts them, the materials in them |
| `runState` | `workflow_run.state` |
| `proc` | a CLI process: its command, the crafter's copy of the state (`mats`), `UpdateCheckSum` (`base`), attempts of `runWithBackoffRetry` |
| `listed` | the run is in the list that an expiration sweep is working through |
| `bundle` | the attestation that Store recorded, and what had been acknowledged when its push saved last |
| `rev`, `acked`, `faults` | number of saves (a fresh digest each), history of what `add` reported, bound on faults |

A material is a name, the process that added it and the kind it was added as.
Names given by users, names allocated for archive entries, names made from the
clock and names of evidence are disjoint families.  The rest of the crafting state
(environment variables, policy results, runner data) never decides what happens
to the materials and is left out.  The constant `Commands` says which commands
the user of each process may run.

An add that is given a policy input file saves twice: the material, and then the
file as evidence that refers to it (`addPolicyInputEvidence`, phase `evidence`).  The
add is acknowledged after the second save.  If that one fails, the whole command is
run again; it then finds its first material in the state, and overrides it if it was
given a name.  One file per add is modelled; each further one would be another save
of the same kind.

| Action | In the code |
|---|---|
| `SaveOK`, `SaveConflict`, `SaveNotFound`, `SaveUnavailable`, `SaveReplyLost` | `Crafter.addMaterial`, `ResolveEnvVars`, collectors and policies down to `Remote.Write`, `AttestationStateService.Save`, `AttestationStateRepo.Save`: one transaction that locks the row and compares digests; then the way the command reacts |
| `EnvFails`, `CollectSkip`, `Reload`, `Wipe` | the steps of `attestation init` after the run exists; `Reload` is the load before the collectors and the one after them, which leave an empty state when they fail, of which init can make no renderer |
| `Start`, `Load`, `GiveUp` | a command starts; `AlreadyInitialized` and `LoadCraftingState`; the retry loop ends |
| `StoreSave`, `StoreFinish` | the two transactions of Store that matter here (`WorkflowRun` has all of them) |
| `Cancel`, `Reset` | `attestation reset`: Cancel, then `AttestationStateRepo.Reset`, which a push calls too |
| `CallFails` | any other call fails before it commits |
| `ListRun`, `ExpireRun` | the two halves of `ExpirationSweep` |

`MaterialStore` is the abstract specification: a set of materials that is
created once, updated atomically over its current content, and dropped once.
The refinement mapping `Content` reads it off `stored`.

### WorkflowRun

Runs, the versions they belong to, and requests that run
`storeAttestation` as a sequence of steps, one per database or CAS operation:
`Begin`, `ValidateContract` and `Upload` (only when the bundle is kept out of
the database), `Check`, `AssertVersionAcceptsAttestation` (row lock),
`SaveAttestation` (same transaction), `UpdatePolicyStatus`,
`ExtractAndPersist`, `CreateMappings`, `RunDispatcher`, `Release`,
`MarkAsFinished`.  `StoreFails` stops a request between any two of them.
`AsyncUpload` is the goroutine that uploads a bundle kept in the database.
`Cancel`, `ListNotFinished`, `Expire`, `SweepFails` are the other writers, and
`UpdateOrg` an administrator who changes the organization's setting.  A request
stands for its bundle and for the bundle's digest.

### ProjectVersion

The version rows of one project and requests that each run one transaction:
`attest` (`WorkflowRunRepo.Create`), `promote`, `create`, `release`, and
`workflow` (`WorkflowRepo.Create`, which makes sure that the default version
exists).  The module models what READ COMMITTED means for these statements: an
`UPDATE ... WHERE latest` is a snapshot of the rows it will visit (`Snapshot`)
followed by one step per row that waits for its lock and looks at it again
(`ClearLatest`); a unique index makes a second insert wait (`InsertVersion`);
writes show at `Commit`.  A transaction that waits in a cycle may be chosen as
`DeadlockVictim`.

### CASBackend

The backend rows of one organization (`row`), whether a validation of each would
succeed now (`up`), and requests (`req`) that go through the queries and
transactions of `CASBackendUseCase` one by one.

| Action | In the code |
|---|---|
| `Begin`, `Read` | a request arrives; `FindByIDInOrg` and the refusals (inline, managed, both flags) |
| `SaveCredentials` | the secrets manager takes the credentials that the service has just checked |
| `Pick`, `Commit` | the transaction of `CASBackendRepo.Create` and `Update`: the rows that the unsetting UPDATE sees when it starts, then the writes |
| `After`, `Reload` | the row is read again, and `Update` decides whether to promote |
| `Probe`, `UpdateValidationStatus` | `PerformValidation`: the call of the provider, then the deferred write |
| `SoftDelete` | `deleted_at` is set |
| `FindCandidate`, `Promote` | `findPromotionCandidate` (fallback, managed, inline: one query each) and the update of the one it found |
| `FindDefault`, `FindFallback` | `FindDefaultOrFallbackBackend` |
| `Fails`, `Flip` | a request stops half way; a backend becomes unreachable or recovers |

A request that has ended may be made again, so the runs see unbounded sequences
of requests.  `overlap` remembers whether two requests that write were ever under
way at once; what the code guarantees only without overlap is stated so.
A transaction that unsets flags is two steps: at READ COMMITTED an UPDATE visits
the rows that match when it starts, waits for their locks, and looks at each
again.  A transaction that PostgreSQL rolls back because of a deadlock is one that
`Fails`.  When the inline backend itself is demoted and there is neither a fallback
nor a managed one, the code finds no successor and the organization has no
default; `DefaultKept` says so in its assumption.

### CASBackendChecker

`checkBackends` on several replicas.

| Action | In the code |
|---|---|
| `TryAcquire`, `Reacquire` | `PostgresLock.TryAcquire`, on any connection, or on the very one whose session still holds the lock, where PostgreSQL grants it once more |
| `ListBackends`, `Validate`, `Record` | the query, the provider's call and the deferred write of each backend; a tick whose context is over lists and calls nothing |
| `Release` | `pg_advisory_unlock` on the connection that took the lock: it gives up one hold of that session, and nobody else's |
| `LoseSession` | the connection of the lock breaks: PostgreSQL frees the lock, and the tick goes on, because nothing looks at that connection before the release |
| `UnlockFails`, `EndKeptSession` | the unlock fails on a connection that is not bad: `conn.Close()` only returns it to the pool, with the lock, until the pool closes it or the replica dies |
| `ListFails`, `ValidationFails`, `TickTimeout`, `Crash` | a query fails; the context of the tick ends; the replica dies, and its lock with it |
| `ChangeHealth` | a backend breaks, slows down or recovers |

`lost` says that the session of the tick is gone, `kept` that a connection of the pool
holds the lock.  A backend is `ok`, `bad`, `slow`
(answers after the validation timeout, so that the deferred write fails with the
context) or `stuck` (does not answer: the provider's call takes no context).
Which backends a scope lists is a constant here: `CASBackend` has the flags.
`CASBackendProofs` extends both modules, so the checker's constants, variables and
specification have names of their own (`CheckedBackend`, `tickFaults`,
`CheckerInit`, `CheckerNext`, `CheckerSpec`).

### ArtifactCAS

Slots of concurrent uploads (`up`) and downloads (`down`) in front of the
backends (`blob`), with the existence cache (`existence`, the ticks its entries
have left) and the cache of clients (`client`, the generation of the credentials
a client was built with; `secret` is the one the provider accepts).

| Action | In the code |
|---|---|
| `LookupExistence`, `StoreExistence` | `casexistence`: the entry that ends an upload early, and its write at the end |
| `ReuseClient`, `LoadClient`, `AddClient`, `DropAndRetry` | the cached client of a backend: loaded with its secret, kept, dropped after a failed call and loaded once more |
| `CheckExists`, `DescribeFound` | `backendExists`, then the size of a blob that is there already |
| `SpillVerify`, `UploadBackend` | `spillVerifyUpload`: the stream goes to a staging file and is hashed; only then does the provider get it |
| `ReadStart`, `DescribeHTTP`, `StageDownload`, `SendStaged` | `Read` and the HTTP download: describe, stage and verify, send |
| `Purge`, `Replace`, `Rotate`, `Evict`, `Crash`, `Tick` | a blob is removed or changed outside Chainloop, the credentials rotate, a cached client expires, the server dies, cache entries age |

The bytes of an artifact are abstracted to whether they hash to the digest they
are sent, stored or asked for under.  `gone` (ticks since a purge) and `fresh`
(nobody was about to cache outdated credentials when the upload began) are
history.

`VerifiedStore` is the abstract specification, what the clients are promised: a key
has at most one object, which is written whole and verified; an upload is
acknowledged (`Acknowledge`) only for a key whose object is there or was lost lately;
and a download is sent the whole object that the key has when it is staged, verified
(`Send`).  Objects are lost or spoilt from outside (`Lose`, `Spoil`), and a loss is
recent for a while (`Age`).  There are no caches, credentials, phases, retries or
crashes in it.  The mapping reads `content` off `blob`, `lost` off the ticks since the
purge and the TTL (`Lost`), the receipts off the uploads that ended with an
acknowledgement (`Receipts`) and what is sent off the downloads whose staged file is
being copied (`Sending`).

### Membership

One organization with one group: the role and row of each user (`org`), the
members of the group (`gm`), the maintainer rows among the memberships (`mrow`),
the member count kept with the group, and the invitations (`inv`).  Requests
(removal, leaving, change of a role, invitation, its revocation, adding to and
dropping from the group, change of a maintainer, deletion of the group) read
and check first and write in a later step, because that is what the code does;
a login walks through the pending invitations of its user one by one, with the
membership, the group membership, the count and the status as steps of their
own.  A request may fail between any two steps; a login that fails is repeated.
Two additions of one user may both find no row, and then the unique index of the
group's members lets one of them insert (`AddWrite`); a removal of a membership that
has gone meanwhile ends as done or as an error, depending on which of its queries
finds it gone (`DeleteMembership`).
`ever`, `left`, `acted` and `serial` are history; what the code guarantees only
for requests that do not overlap is stated with `serial`.  An organization to begin
with (`Initial`) is one that such requests leave: it has an owner, and the members
of its group, maintainers among them, are members of it.

### APIToken

Rows of tokens (`tok`), JWTs in circulation as the claims they sign (`jwts`) and
requests (`req`) that go through one of the two authentication chains:
`LoadToken` (row and claims, `VerifyClaims`), `PassSuspension`, `Authorize` (the
policies, read again), then the handler, with `CreateToken`, `FindToRevoke` and
`RevokeToken` for the management calls.  The rest of the world revokes, mints
product and instance tokens (`PlatformCreate`), signs JWTs again
(`RegenerateJWT`), sweeps (`RevokeStale`), and rewrites the scope columns of a
row (`RewriteRow`).  A JWT minted before scopes were signed carries none, and
takes the older path through `VerifyClaims`.  A request remembers whether its
token was revoked when it arrived (`late`).  `Revoke` is always called with an
organization, by the service and by the sweeper; the branch of the repository for a
token without one has no caller and is not taken by any action.  All tokens ask for one name, so that
the unique indexes are met; JWTs do not expire, which only adds requests.

### TokenSweeper

The age of `last_used_at` (`idle`), the age of the newest use ever recorded
(`seen`, history), thresholds, recordings under way (`use`: the clock is read by
`StampUse` and written by `WriteUse`) and sweeps (`sweep`: organizations, clock,
one query per organization, one update per token).  Time is relative, so that
behaviours are unbounded; `MaxLag` bounds the time between reading a clock and
using it, which is seconds against thresholds of days.  As with the checker, one
module of proofs extends `APIToken` and `TokenSweeper`: the latter's names are
`SweptToken`, `SweptOrg`, `Recorder`, `MintToken`, `RevokeByHand`, `RevokeUnused`,
`SweeperSpec`.

### LoginHandoff

Codes with their row (`row`: user, challenge, callback, used, age) and exchanges
(`req`) of three steps: the clock is read with the presentation (`Begin`), the
code is marked in one conditional update (`Consume`), and its row is read and
compared (`Find`); `Fail` is an error in between.  `Sweep` deletes expired codes,
used or not, and `DeleteUser` those of a deleted user.  `first` is the presentation
that marked a code and `granted` counts the sessions it gave.  The hash of a verifier
is taken to be one-to-one.

`OneTimeCode` is the abstract specification: a code is issued once, on terms (the
challenge and the callback); the first presentation settles it in one step, and wins
it only if it is on time and offers exactly the terms; a code that is won gives one
session or none; and codes that gave none may be dropped (`Burn`).  The mapping
(`CodePhase`) calls a used code `won` exactly while the exchange that marked it is
about to read a row that it will accept, so that `Consume` is the step that settles
and `Find` the one that grants; the sweeper or the deletion of the user in between
burns the code.

## 4. Runs

| Run | Checks | Instance |
|---|---|---|
| `crafting` | `NoLostUpdate`, `AttestationCoversAcked`, `PassphraseStable`, `OnlyOverrides`, `ImplementsMaterialStore`, `CommandsTerminate` | init and three processes, one with another token that adds or resets, the others with a handful of commands each (one of them an add with a policy input), two attempts each, one fault, with fairness |
| `crafting_auto_add` | `OneMaterialPerAdd`, violated | one add with kind detection, one fault |
| `store_db` | `SuccessComplete`, `AttestationImmutable`, `StoresEnd` | two requests into a run kept in the database, one of which releases the version, one fault, with fairness |
| `store_cas` | `StorageConsistent`, `AckedRetrievable`, `ReleasedVersionImmutable` | three requests into two runs of one version (CAS and inline), one bundle that violates its contract, one that depends on another, a release, a changing setting, one fault |
| `versions` | `VersionsConsistent`, `ReleasedVersionsRejected`, `RequestsEnd` | three requests out of eight operations on three versions and two workflows, with fairness |
| `cas_backends` | `NeverBoth`, `SerialElection`, `DefaultKept`, `SerialStatus` | inline, managed and two more backends, one of them unreliable; two requests at a time out of twelve operations (flags, rotation of credentials, validation, deletion, lookup, upload credentials), one failure |
| `checker` | `OneChecker`, `StatusConverges` | two checkers of one scope and one of another, two backends that may be slow, two faults, with fairness |
| `artifact_cas` | `CachesConsistent`, `AckedStored`, `RotationHeals`, `CanonicalContent`, `ImplementsVerifiedStore` | two uploads and a download of one digest, each repeated without end, in front of a registry or an object store; two faults (failed calls, purges, replacements, rotations, crashes) |
| `membership` | `MembershipsConsistent`, `OwnersKept`, `NoEscalation`, `AcceptedJoined`, `InvitationsSettle` | an owner, an administrator and a third user who logs in, two requests out of the ten kinds, one failure, four organizations to begin with, with one or two owners, the third user outside, in the organization or in the group, with fairness |
| `api_tokens` | `TokensConsistent`, `RevokedNotServed`, `ServedAsSigned`, `NoSuccession` | two tokens, one of them older than signed scopes, two organizations, two projects and a product, two requests on either chain, two acts of the platform |
| `token_sweeper` | `ActiveSpared`, `UnusedRevoked` | two tokens, two requests, a threshold of two ticks that may change, one fault, with fairness |
| `login_handoff` | `RightfulSession`, `CodesDeleted`, `ImplementsOneTimeCode` | one code, two verifiers, two callbacks, two exchanges, each repeated without end, a life of two ticks, with fairness |

The type invariants are proved (section 6), those of `WorkflowRun`,
`ProjectVersion`, `ArtifactCAS`, `Membership` and `APIToken` as conjuncts of
`StorageConsistent`, `VersionsConsistent`, `CachesConsistent`,
`MembershipsConsistent` and `TokensConsistent`.

Why the bounds are enough to see the interesting cases.  A lost update needs two
processes and one save in between, an override by an archive two adds, a revival
of a dropped state one reset or push next to an add; a second attempt is needed
for the retry of a conflict and of a lost reply, and one fault gives every
single point of failure.  In Store, two requests for one run give the second
push after a lost reply, and a request of another run of the version the release
between a check and a write.
Three transactions give a deadlock with somebody else's release in it,
and the three version names the old latest, a new one and a bystander.
Two backends besides the inline and the managed one give a default and a
fallback that change places, and two requests every pairwise race.  For the
checker, one replica next to the holder of the lock and one checker of the other
scope give both kinds of competition, and two faults a session that is lost before
another crash, time-out or lost session.  In the artifact CAS two uploads give every
race on the caches and on a key, and two faults a purge or a rotation with a
failed call or a crash after it; keys are independent of each other.  For
memberships two requests give every pairwise race next to a login (the
invariants also hold with three requests, 7.6 million states).  A token that
mints and one that is minted are the chain that `NoSuccession` is about; a second
exchange is enough to compete for a code.  The sweeper was also checked with two
replicas and two organizations, and one token.

The violation is a behaviour of the code that its own comments do not allow for
(`findings` in `PROJECT.json`): an `attestation add` without a name and a kind
treats a transient error of the save as a kind that does not match, keeps what it
staged, and saves two materials when the next kind matches.

More behaviours are in the models, and no property claims the contrary:

* an add acknowledged after a push has last written the state, and before the run
  is finished, is in no attestation;
* the expirer expires by ID a run that Store finished after the sweep listed it
  (its comment speaks of runs that never finished); a late cancellation overwrites
  `success`, and a late Store turns an expired run into a successful one;
* two concurrent promotions or creations leave two latest versions (a comment in
  `projectversion.go` concedes that they are not serialised);
* a server that dies after the default backend was deleted and before its successor
  was promoted leaves the organization without a default;
* a change of the description of the default backend that overlaps the creation
  of a new default promotes a second one, since the promotion unsets nothing;
* an update of a backend without credentials writes back the validation status it
  has read earlier, so a validation in between is lost; `SerialStatus` holds
  without overlap;
* a checker whose lock session is lost goes on, and another replica may check the same
  scope at the same time: `OneChecker` says that there is no other way to it;
* an unlock that fails on a sound connection leaves the lock with a pooled connection,
  and nobody else checks the scope until that connection is closed (a comment in
  `lock.go` speaks of dropping the connection); `StatusConverges` asks for one scope
  of the backend in which this does not last;
* upload credentials are given for a backend whose new validation has failed;
* the result of a validation that ends after its timeout is not recorded, and a
  provider that never answers keeps the checker's lock although the tick is bounded
  (a `stuck` backend; the run has slow ones only);
* `downloadError` looks for resets in errors of the backend too: such a download ends
  without an error and without all its bytes, none of which is wrong;
* two owners who leave at the same time leave an organization without an owner,
  concurrent changes of a group leave its tables or its count in disagreement,
  and a group that is deleted between the check of `AddMember` and its invitation
  keeps the receiver from logging in; all of these need overlapping requests;
* a token that is used between `FindInactive` and its revocation is revoked, and a
  token that is revoked after a request has read its row is still served that request;
* an exchange whose reply is lost cannot be repeated: the user logs in again.

Deadlock checking is off in every run but `login_handoff` and `checker`: commands and
requests end, and nobody has to start another one.  What must not get stuck is stated as liveness.

## 5. Fairness

* `CraftingState`: weak fairness of `Step(p)`: a CLI process that runs keeps
  running, and `runWithBackoffRetry` bounds its retries by time.  Users who never
  start a command and the expirer owe nothing.  The fault bound is not needed for
  termination: `MaxAttempts` stands for the three minutes of the retry loop.
* `WorkflowRun` and `ProjectVersion`: strong fairness of a request's steps: it
  keeps running, and PostgreSQL queues the waiters of a row lock, so that a lock
  that becomes free again and again is granted in the end.  Weak fairness of the
  upload goroutine.  A cycle of waiters is broken by PostgreSQL
  (`deadlock_timeout`), which is the fair step `DeadlockVictim`.
* `CASBackendChecker`: weak fairness of `CheckerStep(c)`: the ticker of every checker keeps
  firing and a tick that has begun goes on, except inside a provider's call that
  does not return.  `MaxTickFaults` bounds crashes, lost sessions, failed queries and
  unlocks and ticks that time out: `StatusConverges` speaks of checkers whose ticks go
  well from some point on.  Nothing obliges the pool to close a connection that kept a
  lock (`EndKeptSession`) or to hand it to the checker again (`Reacquire`): there is no
  fairness for either, and `StatusConverges` has `Unpinned` as its premise.
* `Membership`: weak fairness of the steps of requests and logins, which run on once
  begun, and of a user's next login: an invitation settles when its receiver keeps
  logging in.
* `TokenSweeper`: weak fairness of `WriteUse`, of every sweeper's steps (its ticker
  fires and its loop runs on) and of time.
* `LoginHandoff`: weak fairness of `Sweep` and of time; exchanges owe nothing.

## 6. Proofs

Every theorem holds for all values of the constants that satisfy the named
assumption of the module: any number of processes, requests, users, rows and
faults.  The assumptions say which sets the constants are and what the program
guarantees of them; the ones that are more than a type are

* `ProjectVersion`: a run that asks for the latest version does not ask to mark its
  version as the latest;
* `CASBackend`: an organization has at most one managed backend, and requests create
  neither it nor the inline one;
* `ArtifactCAS`: there is a backend and a digest;
* `Membership`: requests are none of the logins, and the initial organization is one
  as section 3 describes.

All proofs have one shape: an inductive invariant, one lemma per action (or per family
of actions that do the same), lemmas about what the helpers of the model return and
preserve, and the theorems, which follow with one temporal step each.  The inductive
invariants that are new in comparison with the runs' properties were checked by
TLC on the instances of section 4 before they were proved.

### Crafting state (`CraftingStateProofs`)

| Theorem | States |
|---|---|
| `TypeCorrect` | `Spec => []TypeOK` |
| `NoLostUpdateHolds` | `Spec => []NoLostUpdate` |
| `AttestationCoversAckedHolds` | `Spec => []AttestationCoversAcked` |
| `PassphraseStableHolds` | `Spec => []PassphraseStable` |
| `RefinementHolds` | `Spec => ImplementsMaterialStore` |
| `OnlyOverridesHolds` | `Spec => OnlyOverrides` |

None of the invariants is inductive as it stands.  `NoLostUpdate` talks about the
row, while what is written into the row comes from the copy of a process: the
argument needs that a copy whose base digest is the stored one has every stored
name (`CopyCurrent`), which needs that digests are never reused
(`DigestsKnown`: every digest in use is at most the number of saves) and that a
save without a base digest happens once, as the first save of init
(`BlindSaveOnce`), before anybody else knows the attestation (`Roles`,
`InitFirst`).  `AttestationCoversAcked` needs the same of the copy a push is
about to store (`SealedInCopy`), and `PassphraseStable` that whoever may save
could read (`TokensAgree`).  An add that is at its evidence has its material in its
copy already (`AddedInCopy`), so that what it reports at the end is in what it saves.
`IInv` is their conjunction.  The refinement
needs two more facts: materials in a state have distinct names
(`DistinctNames`), and there is neither a state nor a copy before the first save
(`Unborn`); then each save is an atomic `Update` of the current content and
each drop a `Drop` or a stutter.  `OnlyOverrides` is about the materials and not
only about their names: a copy whose base digest is the stored one has every stored
material but for those that failed saves of the same add, or of init, have
overridden in it (`CopyKeeps`), and what an archive stages has names that are not in
its copy (`AllocatedNamesAreNew`).

### Store (`WorkflowRunProofs`)

| Theorem | States |
|---|---|
| `StoredConsistently` | `Spec => []StorageConsistent` |
| `AckedAreRetrievable` | `Spec => []AckedRetrievable` |
| `SuccessIsComplete` | `Spec => []SuccessComplete` |
| `ReleasedIsImmutable` | `Spec => ReleasedVersionImmutable` |
| `AttestationIsImmutable` | `Spec => AttestationImmutable` |

The inductive invariant says what the steps that a request has behind it have left
(`Progress`: the check, the upload, the record, the referrers, the mappings, the
dispatch, the release).  These effects last because nothing that a request adds is
ever taken away (`Grow`) and because the attestation row of a run is written once,
together with the digest (`RowIsDigest`).  `SuccessComplete` needs that a run becomes
successful only by a request at its last step, which has all of them behind it.
`ReleasedVersionImmutable` needs the row lock: a request that passed the check of
its version and blocks on released ones still holds the lock when it writes, so that
the version is still a prerelease (`LockInv`).

### Project versions (`ProjectVersionProofs`)

| Theorem | States |
|---|---|
| `VersionsAreConsistent` | `Spec => []VersionsConsistent` |
| `ReleasedAreRejected` | `Spec => ReleasedVersionsRejected` |

For every transaction the invariant says what it has checked at each of its steps
(`Progress`), which locks it holds (`Locking`: none unless it is writing, the one of
its version when it is about to commit) and what it therefore still knows of its
version's row (`Knowing`: that a row it is about to insert is absent, that the
version is a prerelease if the transaction asked, that the count it will write is
one more than the row has).  That some version is the latest survives because only
a transaction that makes its own version the latest has unset others (`Progress`),
and both show in the same commit.

### CAS backends and the checker (`CASBackendProofs`)

| Theorem | States |
|---|---|
| `TypeCorrect` | `Spec => []TypeOK` |
| `NeverBothHolds` | `Spec => []NeverBoth` |
| `ElectionIsSerial` | `Spec => []SerialElection` |
| `DefaultIsKept` | `Spec => []DefaultKept` |
| `StatusIsSerial` | `Spec => []SerialStatus` |
| `OneCheckerHolds` | `CheckerSpec => []OneChecker` |

`NeverBoth` is inductive together with `TypeOK`, whose conjunct that a request under
way has an operation the argument needs: every write of a row either sets one flag
and unsets the other in the same statement, or leaves a flag as it was, or unsets
it (`WrittenFacts`, `ClearedFacts`, `CommitRows`; `OneRow` for the writes of a single
row).  The serial properties need `SerialInv`.  Without overlap at most one request is
writing (`Sole`); what it has read still holds before it writes (`Fresh`), and at
every later phase the rows are what that phase leaves (`Working`: for instance, a
request that looks for a successor has left no default).  There is a default, or
somebody is about to promote one (`Elected`, `Successor`), which is what `DefaultKept`
says once the requests have ended; the inline backend, which is never deleted, is
the last candidate (`InlineLive`).

`OneChecker` is not inductive.  `CheckerInv` adds to the types (`CheckerTyped`) whose
the lock is (`LockInv`): a checker claims the lock of its scope when it is inside a tick
and has not lost its session, or when a connection of its pool kept the lock
(`Claims`); whoever claims a lock holds it, whoever holds one claims it, and nobody
outside a tick has a lost session.  Two checkers inside ticks of one scope that had
both kept their sessions would both hold its lock.  The lemmas go by what a step does
to the lock: it stays (`LockStays`), a checker that did not claim it takes it when it is
free (`LockTaken`), or one that claims it gives it up (`LockGiven`); the end of a tick
that lost its session must leave the lock alone, since another may claim it by then.

### Artifact CAS (`ArtifactCASProofs`)

| Theorem | States |
|---|---|
| `CachesAreConsistent` | `Spec => []CachesConsistent` |
| `AckedAreStored` | `Spec => []AckedStored` |
| `OnlyVerifiedBytes` | `Spec => []NoUnverifiedByte` |
| `RotationsHeal` | `Spec => []RotationHeals` |
| `ContentIsCanonical` | `Spec => CanonicalContent` |
| `CASImplementsVerifiedStore` | `Spec => ImplementsVerifiedStore` |

An entry of the existence cache, an acknowledged upload and an upload that is about
to write an entry all stand for a blob that is, or was until a purge (`SeenInv`); an
entry and the time since the purge share one TTL (`ClockInv`), which needs that an
upload that has just seen the blob writes its entry within the tick.  What is staged
for an upload was verified (`DataInv`).  `RotationHeals` needs to know where an
upload's client comes from (`HealInv`): as long as nobody is about to cache outdated
credentials, an upload that dropped the cached client can only find a current one,
and a client that a call has succeeded with is current.

The refinement rests on `IInv` and on one more invariant: a request under way has not
answered yet (`OpenInv`).  An acknowledgement is justified in each of the three places
that give one: `LookupExistence`, because an entry stands for a blob that is there or
was lost within the TTL, and `StoreExistence` and `DescribeFound`, because the upload
saw the blob in this tick (`SeenInv`, `ClockInv`).  A hand-over to the backend is a
`Put` of verified bytes even when its call is then reported as failed; a download that
starts to send does so from a blob that is `good` in that step.  Steps of the caches,
of the clients and of staging change nothing that clients see, and a crash closes all
downloads at once and takes no receipt back.  `NoUnverifiedByte`, which `Send` implies of
what is sent, remains a theorem and part of `IInv`.

### Memberships (`MembershipProofs`)

| Theorem | States |
|---|---|
| `MembershipsAreConsistent` | `Spec => []MembershipsConsistent` |
| `OwnersAreKept` | `Spec => []OwnersKept` |
| `NobodyEscalates` | `Spec => []NoEscalation` |
| `AcceptedHaveJoined` | `Spec => []AcceptedJoined` |

The invariant says for every request what it still knows of what it has checked, in
three strengths.  Always: a login has read invitations of its user, and stands at
the step that accepts one only when the user has been where it leads (`Invited`;
ids are never reused, so that the row whose status changes is the one that was read).
Until an owner acts: no request under way was begun by an owner, none is about to
make or unmake one, and nobody is invited as one (`Unescalated`, `EscalationInv`).
Always, too: no two rows of the group are of one user (`OneRow`), since `AddWrite` looks
again in the step that inserts, as the unique index does.
`EscalationInv` holds whatever overlaps, because the role a request acts with is the one its
caller had at the beginning and an administrator's check of the target cannot become
wrong: no target becomes an owner before an owner acts.  And as long as requests do
not overlap: everything that was read is still so (`Undisturbed`, `Alone`), from which
the agreement of the tables, the last owner and the member count follow.  For the
count the invariant adds that it is right or that somebody is about to set it right
(`CountInv`).

### API tokens and the sweeper (`APITokenProofs`)

| Theorem | States |
|---|---|
| `TokensAreConsistent` | `Spec => []TokensConsistent` |
| `RevokedAreNotServed` | `Spec => []RevokedNotServed` |
| `RequestsServedAsSigned` | `Spec => []ServedAsSigned` |
| `NoTokenSucceeds` | `Spec => []NoSuccession` |
| `SweeperTypeCorrect` | `SweeperSpec => []SweeperTypeOK` |
| `ActiveSparedHolds` | `SweeperSpec => ActiveSpared` |

JWTs are signed for rows of the table (`Minted`), tokens that tokens minted manage
nothing (`NoHeir`), and the auditor has heard of no revocation more than once
(`AuditedOnce`).  Of a request the invariant says, per step, that its context is what
its JWT signs (`SignedFor`), that one which came after the revocation never gets past
the row, and that a management call in a handler was authorized by the policies of a
token that a user made (`ReqInv`).

`ActiveSpared` is about a step; it needs that the column is behind the
newest use by at most `MaxLag` (`ColumnLag`), which is inductive with the types:
whichever request writes last read its clock at most `MaxLag` ticks ago, and both
ages grow together up to their cap.

### Login handoff (`LoginHandoffProofs`)

| Theorem | States |
|---|---|
| `TypeCorrect` | `Spec => []TypeOK` |
| `SingleUseHolds` | `Spec => []SingleUse` |
| `RightfulSessionHolds` | `Spec => []RightfulSession` |
| `ExchangeImplementsOneTimeCode` | `Spec => ImplementsOneTimeCode` |

`SingleUse` and `RightfulSession` are not inductive: between the
update that marks a code and the read of its row, the exchange relies on being the
only one that marked it, on its presentation being the first and on no session given
yet (`HolderInv`); and a code that nobody marked has given nothing and was presented
to no live row (`UnusedInv`).  The conditional update of `Consume` establishes
`HolderInv` from `UnusedInv`, and every other step keeps both.

The refinement needs besides that a marked code was presented (`UsedInv`), so that
the presentation that settles a code is its first.  A hit of `Consume` is then a
`Settle`, won exactly if `Find` would accept what was presented; a miss changes
nothing, since the exchange that won, if any, is another one (`HolderInv`); `Find` is a
`Grant` or, when it does not accept, a stutter; and the sweeper, the deletion of a user,
an error between the two statements and the clock at most burn codes (`BurnStep`).
The runs check the refinement in the place of `SingleUse`, which it implies.

## 7. What is only model-checked

Liveness (`CommandsTerminate`, `StoresEnd`, `RequestsEnd`, `StatusConverges`,
`InvitationsSettle`, `UnusedRevoked`, `CodesDeleted`): the proof system does not handle
fairness and ENABLED.  Every other property of a passing run is proved.

## 8. What is not modelled, and why

| Part | Reason |
|---|---|
| Crafting state in a local file | one process at a time, no concurrency control |
| Policies engine | evaluates Rego and WASM over large documents: pure functions without state |
| Renderer, signing, verification | cryptography and formats |
| CLI trace | local capture of coding sessions, outside the control plane |
| Plugins and integrations | third-party services behind a plugin interface |
| Generated code (ent, protobuf) | follows from the schema; the unique indexes that decide a race (names of versions, of backends and of tokens, members of a group, the attestation of a run) are part of the models |
| CAS mappings, referrers | rows written once by Store, where their creation is a step; which of them a reader may see is a pure query, planned (section 2) |
| Integrations dispatcher | an in-memory queue per run that dies with its process; the hand-over is a step of Store; planned (section 2) |
| Contracts | revisions are numbered inside one transaction; planned (section 2) |

Left out of the modelled parts: reading and listing runs, deletion of projects,
hard deletion of backends, the Describe call of the artifact CAS and its audit
events, creation and deletion of organizations and users, project memberships and
the roles inherited through groups, system and workflow-bound tokens, the revocation of
tokens without an organization, the expiration of JWTs, second and further policy input
files of one add, and the OIDC login before a handoff.

Within the modelled parts: encryption is the token that can decrypt, a digest is
a fresh number, clock-made names never collide, a fault is an error before the
commit or a reply lost after it; bugs of PostgreSQL and of the network beyond
that are not considered.
