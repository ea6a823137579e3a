--------------------------- MODULE ProjectVersion ---------------------------
(***************************************************************************)
(* The versions of one project: which one is the latest, which ones are    *)
(* released and how many runs each has, under the concurrent transactions  *)
(* that create runs (WorkflowRunRepo.Create), create and promote versions  *)
(* (ProjectVersionRepo) and release them.                                  *)
(*                                                                         *)
(* PostgreSQL runs them at READ COMMITTED.  An UPDATE picks its rows from  *)
(* what is committed when it starts, takes their row locks one by one,     *)
(* waiting for the ones held by others, and looks at each row again once   *)
(* it has the lock.  Writes show when their transaction commits.  A waiting*)
(* transaction may be chosen as the victim of a deadlock.                  *)
(***************************************************************************)
EXTENDS Naturals, FiniteSets

CONSTANTS
  Version,    \* version names
  Tx,         \* requests, each of which runs one transaction
  Workflow,   \* workflows of the project
  Ops,        \* the operations requested
  None

VARIABLES
  row,     \* committed rows: exists, prerelease, latest, runs
  lock,    \* row locks; the lock of an absent row is the pending unique key
  wfLock,  \* lock of each workflow row, which every new run of it updates
  runs,    \* number of workflow runs of each version
  tx       \* local state of each request

vars == <<row, lock, wfLock, runs, tx>>

-----------------------------------------------------------------------------
\* mark is the optional MarkAsLatest: "unset", "yes" or "no"; block is what the
\* request read of the organization's setting that blocks attestations on released
\* versions; use-latest-version goes with neither a version name nor mark.
AttestOp == [op : {"attest"}, wf : Workflow, v : Version, useLatest : BOOLEAN,
             require : BOOLEAN, mark : {"unset", "yes", "no"}, block : BOOLEAN]
PromoteOp == [op : {"promote"}, v : Version]
WorkflowOp == [op : {"workflow"}, v : Version]
CreateOp == [op : {"create"}, v : Version, prerelease : BOOLEAN]
ReleaseOp == [op : {"release"}, v : Version, release : BOOLEAN]

NoOp == [op |-> "none"]

Op == AttestOp \cup PromoteOp \cup WorkflowOp \cup CreateOp \cup ReleaseOp

ASSUME ConstantsAssumption ==
  /\ Ops \subseteq Op
  /\ \A op \in Ops : op.op = "attest" /\ op.useLatest => op.mark = "unset"
  /\ None \notin Tx \cup Version \cup Workflow

Phase == {"idle", "find", "lock", "snapshot", "clear", "insert", "run", "count",
          "commit", "done", "failed"}

Row == [exists : BOOLEAN, prerelease : BOOLEAN, latest : BOOLEAN, runs : Nat]

Absent == [exists |-> FALSE, prerelease |-> TRUE, latest |-> FALSE, runs |-> 0]

\* v: the version found or to be inserted (new); clear: rows the UPDATE still has
\* to visit, at: the one it is at, cleared: the ones it has changed; count: the
\* new run count.
Idle == [pc |-> "idle", op |-> NoOp, v |-> None, new |-> FALSE, clear |-> {},
         at |-> None, cleared |-> {}, count |-> 0]

\* Creating the first workflow of a project creates its default version, so that
\* a project with a workflow has a latest version.
Init ==
  \E v \in Version :
    /\ row = [w \in Version |->
                IF w = v THEN [Absent EXCEPT !.exists = TRUE, !.latest = TRUE] ELSE Absent]
    /\ lock = [w \in Version |-> None]
    /\ wfLock = [f \in Workflow |-> None]
    /\ runs = [w \in Version |-> 0]
    /\ tx = [t \in Tx |-> Idle]

Free(t, v) == lock[v] \in {None, t}

\* The locks of a table once t has let go of its own.
Released(locks, t) == [x \in DOMAIN locks |-> IF locks[x] = t THEN None ELSE locks[x]]

\* Whether the operation makes its version the latest one: a new version does
\* unless it opts out, an existing one only on demand.
Promotes(t) ==
  LET op == tx[t].op IN
  \/ op.op \in {"create", "promote", "workflow"}
  \/ op.op = "attest" /\ (op.mark = "yes" \/ (tx[t].new /\ op.mark = "unset"))

Go(t, pc) == /\ tx' = [tx EXCEPT ![t].pc = pc]
             /\ UNCHANGED <<row, wfLock, runs>>

\* Mutant of Rollback: the transaction is left open.
RollbackForgotten(t) ==
  /\ tx' = [tx EXCEPT ![t].pc = "failed"]
  /\ UNCHANGED <<row, runs, lock, wfLock>>

\* WithTx rolls back: the locks go, nothing was written.
Rollback(t) ==
  /\ tx' = [tx EXCEPT ![t].pc = "failed"]
  /\ lock' = Released(lock, t)
  /\ wfLock' = Released(wfLock, t)
  /\ UNCHANGED <<row, runs>>

-----------------------------------------------------------------------------
Begin(t, op) ==
  /\ tx[t].pc = "idle"
  /\ tx' = [tx EXCEPT ![t].op = op, ![t].v = op.v, ![t].new = (op.op = "create"),
                      ![t].pc = IF op.op \in {"attest", "workflow"} THEN "find"
                                ELSE IF op.op = "create" THEN "snapshot" ELSE "lock"]
  /\ UNCHANGED <<row, lock, wfLock, runs>>

\* WorkflowRunRepo.Create looks the version up before its transaction starts.
FindLatest(t) ==
  /\ tx[t].pc = "find" /\ tx[t].op.op = "attest" /\ tx[t].op.useLatest
  /\ \E v \in Version \cup {None} :
       /\ IF v = None THEN \A w \in Version : ~row[w].latest ELSE row[v].latest
       /\ tx' = [tx EXCEPT ![t].v = v,
                           ![t].pc = IF v = None THEN "failed"
                                     ELSE IF tx[t].op.block THEN "lock" ELSE "run"]
  /\ UNCHANGED <<row, lock, wfLock, runs>>

FindByName(t) ==
  /\ tx[t].pc = "find" /\ tx[t].op.op = "attest" /\ ~tx[t].op.useLatest
  /\ LET op == tx[t].op
         found == row[op.v].exists
     IN  tx' = [tx EXCEPT ![t].new = ~found,
                  ![t].pc = IF found THEN IF op.block \/ op.mark = "yes" THEN "lock" ELSE "run"
                            ELSE IF op.require THEN "failed"
                            ELSE IF op.mark = "no" THEN "insert" ELSE "snapshot"]
  /\ UNCHANGED <<row, lock, wfLock, runs>>

\* WorkflowRepo.Create makes sure that the default version exists.
FindDefault(t) ==
  /\ tx[t].pc = "find" /\ tx[t].op.op = "workflow"
  /\ tx' = [tx EXCEPT ![t].new = ~row[tx[t].v].exists,
                      ![t].pc = IF row[tx[t].v].exists THEN "done" ELSE "snapshot"]
  /\ UNCHANGED <<row, lock, wfLock, runs>>

\* What a locked row may refuse: a new run on a released version when the
\* organization blocks it, and a promotion of a released version.
Accepts(t) ==
  LET v == tx[t].v IN
  /\ row[v].exists
  /\ ((tx[t].op.op = "attest" /\ tx[t].op.block) \/ Promotes(t)) => row[v].prerelease

\* Mutant of LockVersion: the version is read without FOR UPDATE.
LockVersionNot(t) ==
  /\ tx[t].pc = "lock"
  /\ \/ /\ Accepts(t)
        /\ Go(t, IF tx[t].op.op = "release" THEN "commit"
                 ELSE IF Promotes(t) THEN "snapshot" ELSE "run")
        /\ UNCHANGED lock
     \/ /\ ~Accepts(t)
        /\ Rollback(t)

\* SELECT ... FOR UPDATE of the version, or the UPDATE that releases it.
LockVersion(t) ==
  /\ tx[t].pc = "lock"
  /\ Free(t, tx[t].v)
  /\ \/ /\ Accepts(t)
        /\ lock' = [lock EXCEPT ![tx[t].v] = t]
        /\ Go(t, IF tx[t].op.op = "release" THEN "commit"
                 ELSE IF Promotes(t) THEN "snapshot" ELSE "run")
     \/ /\ ~Accepts(t)
        /\ Rollback(t)

\* UPDATE ... SET latest = false WHERE latest: its rows, in any order ...
AfterClear(t) ==
  IF tx[t].new THEN "insert" ELSE IF tx[t].op.op = "attest" THEN "run" ELSE "commit"

Visit(t, rows, cleared) ==
  IF rows = {}
  THEN tx' = [tx EXCEPT ![t].clear = {}, ![t].at = None, ![t].cleared = cleared,
                        ![t].pc = AfterClear(t)]
  ELSE \E w \in rows :
         tx' = [tx EXCEPT ![t].clear = rows, ![t].at = w, ![t].cleared = cleared,
                          ![t].pc = "clear"]

Snapshot(t) ==
  /\ tx[t].pc = "snapshot"
  /\ Visit(t, {w \in Version : row[w].latest}, {})
  /\ UNCHANGED <<row, lock, wfLock, runs>>

\* ... each locked, looked at again, and changed if it is still the latest.
ClearLatest(t) ==
  /\ tx[t].pc = "clear"
  /\ Free(t, tx[t].at)
  /\ lock' = [lock EXCEPT ![tx[t].at] = t]
  /\ Visit(t, tx[t].clear \ {tx[t].at},
           IF row[tx[t].at].latest THEN tx[t].cleared \cup {tx[t].at} ELSE tx[t].cleared)
  /\ UNCHANGED <<row, wfLock, runs>>

\* The unique index on (version, project_id) makes a second insert of the same
\* name wait for the first and then fail.
InsertVersion(t) ==
  /\ tx[t].pc = "insert"
  /\ Free(t, tx[t].v)
  /\ \/ /\ ~row[tx[t].v].exists
        /\ lock' = [lock EXCEPT ![tx[t].v] = t]
        /\ Go(t, IF tx[t].op.op = "attest" THEN "run" ELSE "commit")
     \/ /\ row[tx[t].v].exists
        /\ Rollback(t)

\* The new run, and the run count of its workflow.
CreateRun(t) ==
  /\ tx[t].pc = "run"
  /\ wfLock[tx[t].op.wf] = None
  /\ wfLock' = [wfLock EXCEPT ![tx[t].op.wf] = t]
  /\ tx' = [tx EXCEPT ![t].pc = "count"]
  /\ UNCHANGED <<row, lock, runs>>

\* Mutant of AddWorkflowRunCount: the count is read before the row is locked.
AddWorkflowRunCountStale(t) ==
  /\ tx[t].pc = "count"
  /\ tx' = [tx EXCEPT ![t].pc = "commit", ![t].count = row[tx[t].v].runs + 1]
  /\ UNCHANGED <<row, lock, wfLock, runs>>

\* UPDATE project_versions SET workflow_run_count = workflow_run_count + 1.
AddWorkflowRunCount(t) ==
  /\ tx[t].pc = "count"
  /\ Free(t, tx[t].v)
  /\ lock' = [lock EXCEPT ![tx[t].v] = t]
  /\ tx' = [tx EXCEPT ![t].pc = "commit", ![t].count = row[tx[t].v].runs + 1]
  /\ UNCHANGED <<row, wfLock, runs>>

\* What the transaction leaves in a row.
Written(t, v) ==
  LET op == tx[t].op IN
  IF v # tx[t].v
  THEN [row[v] EXCEPT !.latest = @ /\ v \notin tx[t].cleared]
  ELSE [exists |-> TRUE,
        prerelease |-> IF op.op = "create" THEN op.prerelease
                       ELSE IF op.op = "release" THEN ~op.release
                       ELSE row[v].prerelease,
        latest |-> Promotes(t) \/ row[v].latest,
        runs |-> IF op.op = "attest" THEN tx[t].count ELSE row[v].runs]

Commit(t) ==
  /\ tx[t].pc = "commit"
  /\ row' = [v \in Version |-> Written(t, v)]
  /\ runs' = IF tx[t].op.op = "attest" THEN [runs EXCEPT ![tx[t].v] = @ + 1] ELSE runs
  /\ lock' = Released(lock, t)
  /\ wfLock' = Released(wfLock, t)
  /\ tx' = [tx EXCEPT ![t].pc = "done"]

-----------------------------------------------------------------------------
\* Who a transaction waits for, and PostgreSQL's choice of a deadlock's victim.
WaitsFor(t) ==
  CASE tx[t].pc \in {"lock", "insert", "count"} -> {lock[tx[t].v]} \ {None, t}
    [] tx[t].pc = "clear" -> {lock[tx[t].at]} \ {None, t}
    [] tx[t].pc = "run" -> {wfLock[tx[t].op.wf]} \ {None, t}
    [] OTHER -> {}

Deadlocked(t) ==
  \E S \in SUBSET Tx : t \in S /\ \A u \in S : WaitsFor(u) \cap S # {}

DeadlockVictim(t) == Deadlocked(t) /\ Rollback(t)

-----------------------------------------------------------------------------
Step(t) ==
  \/ FindLatest(t) \/ FindByName(t) \/ FindDefault(t) \/ LockVersion(t) \/ Snapshot(t)
  \/ ClearLatest(t) \/ InsertVersion(t) \/ CreateRun(t)
  \/ AddWorkflowRunCount(t) \/ Commit(t)
  \/ DeadlockVictim(t)

Next == \E t \in Tx : Step(t) \/ \E op \in Ops : Begin(t, op)

Spec == Init /\ [][Next]_vars

\* A request that has begun runs on; a lock that is free again and again is
\* granted (row locks queue).
FairSpec == Spec /\ \A t \in Tx : SF_vars(Step(t))

-----------------------------------------------------------------------------
\* Properties.

\* Every variable keeps its type, and a request that has ended, in whatever way,
\* holds no lock.
TypeOK ==
  /\ row \in [Version -> Row]
  /\ lock \in [Version -> Tx \cup {None}]
  /\ wfLock \in [Workflow -> Tx \cup {None}]
  /\ runs \in [Version -> Nat]
  /\ \A t \in Tx : /\ tx[t].pc \in Phase
                   /\ tx[t].op \in Ops \cup {NoOp}
                   /\ tx[t].v \in Version \cup {None}
                   /\ tx[t].clear \cup tx[t].cleared \subseteq Version
                   /\ tx[t].pc \in {"idle", "done", "failed"} =>
                        /\ \A v \in Version : lock[v] # t
                        /\ \A f \in Workflow : wfLock[f] # t

\* A project with a latest version always has one: whatever promotions, new
\* versions, failures and deadlocks interleave, --latest-version resolves.
SomeLatest == \E v \in Version : row[v].exists /\ row[v].latest

\* No transaction makes an existing released version the latest, and none that
\* was told to block adds a run to a released version, even when the version is
\* released between the lookup and the write.
ReleasedVersionsRejected ==
  [][\A v \in Version : row[v].exists /\ ~row[v].prerelease =>
       /\ row'[v].latest => row[v].latest
       /\ runs'[v] # runs[v] => \E t \in Tx : /\ tx[t].pc = "commit" /\ tx[t].v = v
                                              /\ tx[t].op.op = "attest" /\ ~tx[t].op.block]_vars

\* The run count of a version counts its runs: no increment is lost.
RunCountExact == \A v \in Version : row[v].runs = runs[v]

\* Every request ends, although it may wait for locks that other requests took
\* in another order.
RequestsEnd ==
  \A t \in Tx : (tx[t].pc \notin {"idle", "done", "failed"}) ~>
                (tx[t].pc \in {"done", "failed"})

\* The versions of a project fit together at all times, whatever transactions
\* interleave, fail or deadlock: there is a latest one, each counts its runs, and
\* no request that has ended, a deadlock's victim included, keeps a row lock.
VersionsConsistent == TypeOK /\ SomeLatest /\ RunCountExact
=============================================================================
