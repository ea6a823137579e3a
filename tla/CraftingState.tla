--------------------------- MODULE CraftingState ---------------------------
(***************************************************************************)
(* The crafting state of one attestation kept remotely (attestation init   *)
(* --remote-state): one nullable column of the workflow run row, written   *)
(* by AttestationStateRepo.Save under optimistic concurrency control, and  *)
(* the CLI processes that read, change and write it.                       *)
(*                                                                         *)
(* One process runs `attestation init`; every other process runs one       *)
(* command, `attestation add`, `push` or `reset`, and knows the attestation*)
(* only once init has printed its ID.  Every RPC is one step: its server   *)
(* side is one transaction.  An RPC may fail before it commits, and its    *)
(* reply may be lost after it committed (faults); the CLI retries both,    *)
(* and conflicts, by running the whole command again.                      *)
(***************************************************************************)
EXTENDS Naturals, FiniteSets

CONSTANTS
  Proc,        \* CLI processes
  Initiator,   \* the one that runs `attestation init`
  TokenOf,     \* the token of each process: the passphrase of what it saves
  Base,        \* material names and archive prefixes a user may give
  Required,    \* names the contract requires before a push
  Entries,     \* number of files in an archive
  Commands,    \* the commands each process may run
  MaxAttempts, \* bound: attempts of one command within the retry time
  MaxFaults    \* bound: RPCs that fail or whose reply is lost

VARIABLES
  stored,    \* workflow_run.attestation_state: NoState or the saved state
  runState,  \* workflow_run.state
  proc,      \* local state of each CLI process
  listed,    \* the expirer has read this run as initialized
  rev,       \* number of saves so far: the next digest
  bundle,    \* the attestation stored by Store, or NoBundle
  acked,     \* history: names that an `attestation add` reported as added
  faults     \* faults so far

vars == <<stored, runState, proc, listed, rev, bundle, acked, faults>>

-----------------------------------------------------------------------------
\* Names: a name given by the user is <<b, "given", 0>>; an archive of prefix b
\* takes <<b, "given", i>> and <<b, "archive", i>>; a name made of the clock is
\* <<p, "clock", k>>, the k-th name process p made; the evidence of a policy input
\* is named after the material it was given for.
Name == ((Base \cup Proc) \X {"given", "archive", "clock", "evidence"} \X Nat)

Material == [name : Name, by : Proc, kind : Nat]

NoState == [digest |-> 0, token |-> "none", mats |-> {}]

NoBundle == [mats |-> {}, sealed |-> {}, by |-> "none"]

Names(mats) == {m.name : m \in mats}

Put(mats, new) ==
  {m \in mats : \A n \in new : n.name # m.name} \cup new

Distinct(mats) == \A m, n \in mats : m.name = n.name => m = n

Given(b) == <<b, "given", 0>>

\* `attestation add` by name or without one, of a given kind or of the kinds
\* 1 .. kinds that the file matches, tried in order, with a policy input file or
\* without; of an archive; push; reset.
AddCommand == [op : {"add"}, base : Base, named : BOOLEAN, auto : BOOLEAN,
               kinds : Nat \ {0}, input : BOOLEAN]

ArchiveCommand == [op : {"archive"}, base : Base]

UserCommand ==
  AddCommand \cup ArchiveCommand \cup {[op |-> "push"], [op |-> "reset"]}

Command == UserCommand \cup {[op |-> "init"], [op |-> "none"]}

ASSUME ConstantsAssumption ==
  /\ Initiator \in Proc
  /\ DOMAIN TokenOf = Proc
  /\ Required \subseteq Base
  /\ Entries \in Nat \ {0}
  /\ Commands \in [Proc -> SUBSET UserCommand]
  /\ MaxAttempts \in Nat \ {0}
  /\ MaxFaults \in Nat

Saving == {"create", "env", "collect", "policies", "save", "evidence"}

Phase == Saving \cup {"ready", "load", "wipe", "collectors", "reload", "store", "finish",
                      "cancel", "reset", "done", "failed"}

Local == [pc : Phase, cmd : Command, mats : SUBSET Material, base : Nat,
          kind : Nat, made : Nat, attempts : 0..MaxAttempts, sealed : SUBSET Name]

Init ==
  /\ stored = NoState
  /\ runState = "initialized"
  /\ proc = [p \in Proc |->
               [pc |-> IF p = Initiator THEN "create" ELSE "ready",
                cmd |-> [op |-> IF p = Initiator THEN "init" ELSE "none"],
                mats |-> {}, base |-> 0, kind |-> 1, made |-> 0,
                attempts |-> 0, sealed |-> {}]]
  /\ listed = FALSE
  /\ rev = 0
  /\ bundle = NoBundle
  /\ acked = {}
  /\ faults = 0

-----------------------------------------------------------------------------
\* What a process writes.

\* Mutant of FreeIndex: the allocator is not seeded with the existing names.
FreeIndexUnseeded(mats, b, suffix) == 0..(Cardinality(mats) + Entries)

\* NameAllocator.AllocateNamed: the first Entries free indexes of a prefix.
FreeIndex(mats, b, suffix) ==
  {i \in 0..(Cardinality(mats) + Entries) : <<b, suffix, i>> \notin Names(mats)}

Allocate(mats, b, suffix, k) ==
  {<<b, suffix, i>> : i \in {i \in FreeIndex(mats, b, suffix) :
     Cardinality({j \in FreeIndex(mats, b, suffix) : j < i}) < k}}

AddName(p) ==
  IF proc[p].cmd.named THEN Given(proc[p].cmd.base)
  ELSE <<p, "clock", proc[p].made>>

EvidenceName(p) == <<AddName(p)[1], "evidence", AddName(p)[3]>>

\* The materials the current command stages over its copy of the state.
StagedNames(p) ==
  LET cmd == proc[p].cmd IN
  IF cmd.op = "add" THEN {IF proc[p].pc = "evidence" THEN EvidenceName(p) ELSE AddName(p)}
  ELSE IF cmd.op = "archive"
       THEN Allocate(proc[p].mats, cmd.base, "given", Entries)
              \cup Allocate(proc[p].mats, cmd.base, "archive", 1)
       ELSE IF proc[p].pc = "collect" THEN {<<p, "given", 0>>} ELSE {}

Staged(p) ==
  {[name |-> n, by |-> p, kind |-> proc[p].kind] : n \in StagedNames(p)}

NewState(p) == Put(proc[p].mats, Staged(p))

Go(p, pc) == proc' = [proc EXCEPT ![p].pc = pc]

-----------------------------------------------------------------------------
\* Save: AttestationStateRepo.Save, one transaction that locks the run row when
\* a base digest is given, and the crafter step around it.

\* Mutants of BaseMatches: no digest check; none for a push; a base digest given
\* for a state that is gone is accepted.
BaseMatchesAny(p) == TRUE
BaseMatchesAddOnly(p) ==
  \/ proc[p].base = 0 \/ proc[p].cmd.op = "push"
  \/ stored # NoState /\ stored.digest = proc[p].base
BaseMatchesGone(p) ==
  proc[p].base = 0 \/ stored = NoState \/ stored.digest = proc[p].base

BaseMatches(p) ==
  \/ proc[p].base = 0
  \/ stored # NoState /\ stored.digest = proc[p].base

\* The digest is the SHA-256 of the encrypted state, whose salt and IV are
\* random: every save makes a digest never seen before.
Commit(p) ==
  /\ BaseMatches(p)
  /\ rev' = rev + 1
  /\ stored' = [digest |-> rev + 1, token |-> TokenOf[p], mats |-> NewState(p)]

AfterSave(p) ==
  CASE proc[p].pc = "create" -> "env"
    [] proc[p].pc = "env" -> "collectors"
    [] proc[p].pc = "collect" -> "reload"
    [] proc[p].pc = "policies" -> "done"
    [] proc[p].cmd.op = "push" -> "store"
    [] proc[p].pc = "save" /\ proc[p].cmd.op = "add" /\ proc[p].cmd.input -> "evidence"
    [] OTHER -> "done"

\* Init is not retried on the same run: its retry creates a new one.
AfterError(p) ==
  CASE proc[p].pc = "create" -> "failed"
    [] proc[p].pc = "env" -> "wipe"
    [] proc[p].pc = "collect" -> "reload"
    [] proc[p].pc = "policies" -> "failed"
    [] OTHER -> "load"

\* What the command has added so far, once it ends with success.
Added(p) ==
  StagedNames(p) \cup (IF proc[p].cmd.op = "add" THEN {AddName(p)} ELSE {})

SaveOK(p) ==
  /\ proc[p].pc \in Saving
  /\ Commit(p)
  /\ proc' = [proc EXCEPT ![p].pc = AfterSave(p),
                          ![p].mats = NewState(p),
                          ![p].base = rev + 1,
                          ![p].sealed = IF proc[p].cmd.op = "push" THEN acked ELSE @]
  /\ acked' = IF proc[p].cmd.op \in {"add", "archive"} /\ AfterSave(p) = "done"
              THEN acked \cup Added(p) ELSE acked
  /\ UNCHANGED <<runState, listed, bundle, faults>>

\* A transient error of Save (unavailable, internal, deadline).  An add that
\* is detecting the kind tries the next kind with what it has staged; every
\* other command returns the error and is run again.
TransientError(p) ==
  IF proc[p].pc = "save" /\ proc[p].cmd.op = "add" /\ proc[p].cmd.auto
  THEN IF proc[p].kind < proc[p].cmd.kinds
       THEN proc' = [proc EXCEPT ![p].mats = NewState(p),
                                 ![p].kind = @ + 1,
                                 ![p].made = @ + 1]
       ELSE Go(p, "failed")
  ELSE proc' = [proc EXCEPT ![p].pc = AfterError(p), ![p].mats = NewState(p)]

SaveReplyLost(p) ==
  /\ proc[p].pc \in Saving
  /\ faults < MaxFaults
  /\ faults' = faults + 1
  /\ Commit(p)
  /\ TransientError(p)
  /\ UNCHANGED <<runState, listed, bundle, acked>>

SaveUnavailable(p) ==
  /\ proc[p].pc \in Saving
  /\ faults < MaxFaults
  /\ faults' = faults + 1
  /\ TransientError(p)
  /\ UNCHANGED <<stored, rev, runState, listed, bundle, acked>>

SaveConflict(p) ==
  /\ proc[p].pc \in Saving
  /\ proc[p].base # 0 /\ stored # NoState /\ stored.digest # proc[p].base
  /\ proc' = [proc EXCEPT ![p].pc = AfterError(p), ![p].mats = NewState(p)]
  /\ UNCHANGED <<stored, rev, runState, listed, bundle, acked, faults>>

\* The state was dropped: not found, which is not retried.
SaveNotFound(p) ==
  /\ proc[p].pc \in Saving
  /\ proc[p].base # 0 /\ stored = NoState
  /\ Go(p, IF proc[p].pc \in {"save", "evidence"} THEN "failed" ELSE AfterError(p))
  /\ UNCHANGED <<stored, rev, runState, listed, bundle, acked, faults>>

-----------------------------------------------------------------------------
\* attestation init, after the run was created.

\* ResolveEnvVars fails before it saves.
EnvFails(p) ==
  /\ proc[p].pc = "env"
  /\ Go(p, "wipe")
  /\ UNCHANGED <<stored, runState, listed, rev, bundle, acked, faults>>

\* Outside a pull request the collector has nothing to add.
CollectSkip(p) ==
  /\ proc[p].pc = "collect"
  /\ Go(p, "reload")
  /\ UNCHANGED <<stored, runState, listed, rev, bundle, acked, faults>>

\* Mutant of Readable: the state is not encrypted with the token.
ReadableByAll(p) == stored # NoState

Readable(p) == stored # NoState /\ stored.token = TokenOf[p]

\* RunCollectors loads the state before and after the collectors and only logs
\* an error; but that leaves an empty state, of which init makes no renderer.
Reload(p) ==
  /\ proc[p].pc \in {"collectors", "reload"}
  /\ \/ /\ Readable(p)
        /\ proc' = [proc EXCEPT ![p].pc = IF @ = "reload" THEN "policies" ELSE "collect",
                                ![p].mats = stored.mats, ![p].base = stored.digest]
        /\ UNCHANGED faults
     \/ ~Readable(p) /\ Go(p, "failed") /\ UNCHANGED faults
     \/ /\ faults < MaxFaults
        /\ faults' = faults + 1
        /\ Go(p, "failed")
  /\ UNCHANGED <<stored, runState, listed, rev, bundle, acked>>

\* Init drops the state when the environment cannot be resolved.
Wipe(p) ==
  /\ proc[p].pc = "wipe"
  /\ stored' = NoState
  /\ Go(p, "failed")
  /\ UNCHANGED <<runState, listed, rev, bundle, acked, faults>>

-----------------------------------------------------------------------------
\* attestation add, push and reset.

Start(p, cmd) ==
  /\ proc[p].pc = "ready"
  /\ proc[Initiator].pc = "done"
  /\ proc' = [proc EXCEPT ![p].pc = "load", ![p].cmd = cmd]
  /\ UNCHANGED <<stored, runState, listed, rev, bundle, acked, faults>>

\* AlreadyInitialized, then LoadCraftingState: no state, or a state encrypted
\* with another token, ends the command.
AfterLoad(p) ==
  CASE proc[p].cmd.op = "reset" -> "cancel"
    [] proc[p].cmd.op = "push" /\ ~({Given(b) : b \in Required} \subseteq Names(stored.mats))
         -> "failed"
    [] OTHER -> "save"

Load(p) ==
  /\ proc[p].pc = "load"
  /\ proc[p].attempts < MaxAttempts
  /\ IF Readable(p)
     THEN proc' = [proc EXCEPT ![p].pc = AfterLoad(p), ![p].mats = stored.mats,
                               ![p].base = stored.digest, ![p].kind = 1,
                               ![p].made = @ + 1, ![p].attempts = @ + 1]
     ELSE Go(p, "failed")
  /\ UNCHANGED <<stored, runState, listed, rev, bundle, acked, faults>>

\* Mutant of GiveUp: a command that was retried never returns its error.
GiveUpNever(p) ==
  /\ proc[p].pc = "load"
  /\ proc[p].attempts > MaxAttempts
  /\ Go(p, "failed")
  /\ UNCHANGED <<stored, runState, listed, rev, bundle, acked, faults>>

\* runWithBackoffRetry stops retrying three minutes after the first attempt.
GiveUp(p) ==
  /\ proc[p].pc = "load"
  /\ proc[p].attempts > 0
  /\ Go(p, "failed")
  /\ UNCHANGED <<stored, runState, listed, rev, bundle, acked, faults>>

\* Store records the attestation (a run has at most one attestation row) ...
StoreSave(p) ==
  /\ proc[p].pc = "store"
  /\ IF bundle = NoBundle
     THEN /\ bundle' = [mats |-> proc[p].mats, sealed |-> proc[p].sealed, by |-> p]
          /\ Go(p, "finish")
     ELSE /\ Go(p, "load")
          /\ UNCHANGED bundle
  /\ UNCHANGED <<stored, runState, listed, rev, acked, faults>>

\* ... and later, unless a step in between fails, finishes the run, which
\* clears its crafting state.
StoreFinish(p) ==
  /\ proc[p].pc = "finish"
  /\ runState' = "success"
  /\ stored' = NoState
  /\ \/ Go(p, "reset") /\ UNCHANGED faults
     \/ /\ faults < MaxFaults
        /\ faults' = faults + 1
        /\ Go(p, "load")
  /\ UNCHANGED <<listed, rev, bundle, acked>>

\* Any other call fails before it commits.  The error of the final Reset of init
\* is dropped, `attestation reset` is not retried, and the rest is run again.
CallFails(p) ==
  /\ proc[p].pc \in {"load", "store", "finish", "wipe", "cancel", "reset"}
  /\ proc[p].pc = "load" => proc[p].attempts < MaxAttempts
  /\ faults < MaxFaults
  /\ faults' = faults + 1
  /\ proc' = [proc EXCEPT
       ![p].pc = IF proc[p].pc = "wipe" \/ proc[p].cmd.op = "reset" THEN "failed" ELSE "load",
       ![p].attempts = IF proc[p].pc = "load" THEN @ + 1 ELSE @]
  /\ UNCHANGED <<stored, runState, listed, rev, bundle, acked>>

\* attestation reset: MarkAsFinished through Cancel, whatever the run's state.
Cancel(p) ==
  /\ proc[p].pc = "cancel"
  /\ runState' \in {"canceled", "error"}
  /\ stored' = NoState
  /\ \/ Go(p, "reset") /\ UNCHANGED faults
     \/ /\ faults < MaxFaults
        /\ faults' = faults + 1
        /\ Go(p, "failed")
  /\ UNCHANGED <<listed, rev, bundle, acked>>

\* AttestationStateRepo.Reset, after a push and after a reset.
Reset(p) ==
  /\ proc[p].pc = "reset"
  /\ stored' = NoState
  /\ \/ Go(p, "done") /\ UNCHANGED faults
     \/ /\ faults < MaxFaults
        /\ faults' = faults + 1
        /\ Go(p, IF proc[p].cmd.op = "reset" THEN "failed" ELSE "load")
  /\ UNCHANGED <<runState, listed, rev, bundle, acked>>

-----------------------------------------------------------------------------
\* The expirer lists the initialized runs, then expires them one by one.
ListRun ==
  /\ runState = "initialized"
  /\ listed' = TRUE
  /\ UNCHANGED <<stored, runState, proc, rev, bundle, acked, faults>>

ExpireRun ==
  /\ listed
  /\ listed' = FALSE
  /\ runState' = "expired"
  /\ stored' = NoState
  /\ UNCHANGED <<proc, rev, bundle, acked, faults>>

-----------------------------------------------------------------------------
Step(p) ==
  \/ SaveOK(p) \/ SaveReplyLost(p) \/ SaveUnavailable(p) \/ SaveConflict(p)
  \/ SaveNotFound(p) \/ EnvFails(p) \/ CollectSkip(p) \/ Reload(p) \/ Wipe(p)
  \/ Load(p) \/ GiveUp(p) \/ StoreSave(p) \/ StoreFinish(p) \/ CallFails(p)
  \/ Cancel(p) \/ Reset(p)

Next ==
  \/ \E p \in Proc : Step(p) \/ \E cmd \in Commands[p] : Start(p, cmd)
  \/ ListRun
  \/ ExpireRun

Spec == Init /\ [][Next]_vars

\* A started CLI process keeps running; users and the expirer owe nothing.
FairSpec == Spec /\ \A p \in Proc : WF_vars(Step(p))
-----------------------------------------------------------------------------
\* Properties.

\* Every variable keeps its type; digests are never reused (a digest in use,
\* by the row or by a copy, is at most the number of saves).
TypeOK ==
  /\ stored \in [digest : 0..rev, token : {TokenOf[p] : p \in Proc} \cup {"none"},
                 mats : SUBSET Material]
  /\ runState \in {"initialized", "success", "error", "canceled", "expired"}
  /\ proc \in [Proc -> Local]
  /\ listed \in BOOLEAN
  /\ rev \in Nat
  /\ bundle \in [mats : SUBSET Material, sealed : SUBSET Name, by : Proc \cup {"none"}]
  /\ acked \in SUBSET Name
  /\ faults \in 0..MaxFaults

\* No lost update: a material whose `attestation add` reported success is in
\* the crafting state for as long as the run has one, whatever other adds,
\* archives and pushes read and wrote in between (Save's base digest check).
NoLostUpdate ==
  stored # NoState => acked \subseteq Names(stored.mats)

\* The attestation that Store records contains every material whose add had
\* been acknowledged when the push last wrote the state it renders from.
AttestationCoversAcked ==
  bundle.sealed \subseteq Names(bundle.mats)

\* Whatever is stored stays readable by the token that initialized the
\* attestation: a process with another token cannot read, so cannot get the
\* digest it would need to replace the state with one nobody else can read.
PassphraseStable ==
  stored # NoState => stored.token = TokenOf[Initiator]

\* A material leaves a live crafting state only when an add that names it
\* overrides it: an archive allocates names next to what others have added,
\* and a push or a collector removes nothing.
OnlyOverrides ==
  [][(stored # NoState /\ stored' # NoState) =>
       \A m \in stored.mats : m \in stored'.mats \/
         \E n \in stored'.mats : n.name = m.name /\ proc[n.by].cmd.op \in {"add", "init"}]_vars

\* Optimistic concurrency control makes the sequence of saves an atomic
\* material store, created once and never revived after it was dropped.
Content ==
  [phase |-> IF stored # NoState THEN "live"
             ELSE IF proc[Initiator].pc = "create" THEN "unborn" ELSE "gone",
   mats |-> stored.mats]

Store == INSTANCE MaterialStore WITH content <- Content

ImplementsMaterialStore == Store!Spec

\* Every command ends: conflicts and lost replies cannot keep two processes
\* retrying against each other for ever.
CommandsTerminate ==
  \A p \in Proc : (proc[p].pc \notin {"ready", "done", "failed"}) ~>
                  (proc[p].pc \in {"done", "failed"})

\* One `attestation add` of one file records one material, next to the evidence
\* of its policy input.
OneMaterialPerAdd ==
  \A p \in Proc : proc[p].cmd.op = "add" =>
    Cardinality({m \in stored.mats : m.by = p /\ m.name[2] # "evidence"}) <= 1

-----------------------------------------------------------------------------
\* The inductive invariant behind the safety properties.

InitPhase == {"create", "env", "collectors", "collect", "policies", "reload", "wipe"}

\* Only the initiator runs init, and it runs nothing else.
Roles ==
  \A p \in Proc :
    IF p = Initiator
    THEN proc[p].cmd.op = "init" /\ proc[p].pc \in InitPhase \cup {"done", "failed"}
    ELSE proc[p].pc \notin InitPhase

\* Nobody knows the attestation before init is done.
InitFirst ==
  proc[Initiator].pc # "done" =>
    acked = {} /\ \A p \in Proc \ {Initiator} : proc[p].pc = "ready"

\* Only the first save of init is made without a base digest.
BlindSaveOnce ==
  \A p \in Proc : (proc[p].pc \in Saving /\ proc[p].base = 0) => proc[p].pc = "create"

\* An add that goes on to its evidence has the material itself in its copy.
AddedInCopy ==
  \A p \in Proc : proc[p].pc = "evidence" =>
    proc[p].cmd.op = "add" /\ AddName(p) \in Names(proc[p].mats)

\* Digests come from saves that happened; none stands for "no state".
DigestsKnown ==
  /\ stored = NoState \/ stored.digest > 0
  /\ \A p \in Proc : proc[p].base <= rev

\* A copy whose base digest is the stored one has every stored name.
CopyCurrent ==
  \A p \in Proc :
    (proc[p].pc \in Saving /\ stored # NoState /\ proc[p].base = stored.digest) =>
      Names(stored.mats) \subseteq Names(proc[p].mats)

\* Who may save has the initiator's token.
TokensAgree ==
  \A p \in Proc : proc[p].pc \in Saving => TokenOf[p] = TokenOf[Initiator]

\* What a push is about to store has the names acknowledged at its save.
SealedInCopy ==
  \A p \in Proc : proc[p].pc \in {"store", "finish"} =>
    proc[p].sealed \subseteq Names(proc[p].mats)

DistinctNames ==
  Distinct(stored.mats) /\ \A p \in Proc : Distinct(proc[p].mats)

\* Until init saves for the first time there is neither a state nor a copy.
Unborn ==
  proc[Initiator].pc = "create" => stored = NoState /\ proc[Initiator].mats = {}

IInv ==
  /\ TypeOK
  /\ Roles
  /\ InitFirst
  /\ BlindSaveOnce
  /\ AddedInCopy
  /\ DigestsKnown
  /\ CopyCurrent
  /\ TokensAgree
  /\ SealedInCopy
  /\ DistinctNames
  /\ NoLostUpdate
  /\ AttestationCoversAcked
  /\ PassphraseStable
=============================================================================
