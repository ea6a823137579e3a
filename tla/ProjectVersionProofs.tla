------------------------ MODULE ProjectVersionProofs ------------------------
(***************************************************************************)
(* Proofs about the versions of a project, for any number of versions,     *)
(* requests and workflows.                                                 *)
(*                                                                         *)
(* The inductive invariant is about the row locks: a transaction that is   *)
(* about to commit holds the lock of its version, one that was told to     *)
(* look at the row before (a promotion, a run that is blocked on released  *)
(* versions) has held it since it looked, and what it looked at - that the *)
(* row exists or does not, that it is a pre-release, how many runs it has  *)
(* - is therefore still so.                                                *)
(***************************************************************************)
EXTENDS ProjectVersion, TLAPS

-----------------------------------------------------------------------------
\* The inductive invariant.

TxRec == [pc : Phase, op : Ops \cup {NoOp}, v : Version \cup {None}, new : BOOLEAN,
          clear : SUBSET Version, at : Version \cup {None}, cleared : SUBSET Version,
          count : Nat]

\* Promotes, of the local state x of a request.
Promoting(x) ==
  \/ x.op.op \in {"create", "promote", "workflow"}
  \/ x.op.op = "attest" /\ (x.op.mark = "yes" \/ (x.new /\ x.op.mark = "unset"))

Blocking(x) == x.op.op = "attest" /\ x.op.block

Writing == {"snapshot", "clear", "insert", "run", "count", "commit"}

\* What a request with local state x has checked, at each point of its
\* transaction.
Progress(x) ==
  /\ x.pc = "idle" => x = Idle
  /\ x.pc # "idle" => x.op \in Ops
  /\ x.pc \notin {"idle", "done", "failed"} => x.v \in Version
  /\ x.pc \in {"find", "lock", "snapshot"} => x.cleared = {}
  /\ x.pc \in {"find", "lock"} /\ x.op.op # "workflow" => ~x.new
  /\ x.pc \in {"run", "count"} => x.op.op = "attest"
  /\ x.pc = "insert" => x.new
  /\ x.pc \in {"snapshot", "clear"} => Promoting(x)
  /\ x.pc = "clear" => x.at \in x.clear
  /\ x.cleared # {} => Promoting(x)

\* The locks that t holds, lk and wl being the tables of locks.
Locking(t, x, lk, wl) ==
  /\ \A v \in Version : lk[v] = t => x.pc \in Writing
  /\ \A f \in Workflow : wl[f] = t => x.pc \in {"count", "commit"}
  /\ x.pc = "commit" => lk[x.v] = t

\* What t knows of its version's row r and still holds, as it has its lock.
Knowing(t, x, lk, r) ==
  /\ (~x.new /\ x.pc \in Writing /\ (Promoting(x) \/ Blocking(x)))
     => lk[x.v] = t /\ r[x.v].exists /\ r[x.v].prerelease
  /\ (x.new /\ x.pc \in {"run", "count", "commit"}) => lk[x.v] = t /\ ~r[x.v].exists
  /\ (x.pc = "commit" /\ x.op.op = "attest") => x.count = r[x.v].runs + 1

TxInv(t, x, lk, wl, r) ==
  Progress(x) /\ Locking(t, x, lk, wl) /\ Knowing(t, x, lk, r)

TablesOK ==
  /\ row \in [Version -> Row]
  /\ lock \in [Version -> Tx \cup {None}]
  /\ wfLock \in [Workflow -> Tx \cup {None}]
  /\ runs \in [Version -> Nat]
  /\ tx \in [Tx -> TxRec]

IInv ==
  /\ TablesOK
  /\ \A t \in Tx : TxInv(t, tx[t], lock, wfLock, row)
  /\ SomeLatest
  /\ RunCountExact

-----------------------------------------------------------------------------
\* Facts about operations and requests.

\* What every requested operation has.
LEMMA OpFacts ==
  ASSUME NEW op \in Ops
  PROVE  /\ op.op \in {"attest", "promote", "workflow", "create", "release"}
         /\ op.v \in Version
         /\ op.op = "attest" => /\ op.wf \in Workflow
                                /\ op.mark \in {"unset", "yes", "no"}
                                /\ op.useLatest => op.mark = "unset"
         /\ op.op = "create" => op.prerelease \in BOOLEAN
         /\ op.op = "release" => op.release \in BOOLEAN
  BY ConstantsAssumption DEF Op, AttestOp, PromoteOp, WorkflowOp, CreateOp, ReleaseOp

\* Promotes looks at nothing but the request's own state.
LEMMA PromotesPromoting ==
  ASSUME NEW t \in Tx
  PROVE  Promotes(t) <=> Promoting(tx[t])
  BY DEF Promotes, Promoting

LEMMA IdleRec == Idle \in TxRec
  BY DEF Idle, TxRec, Phase, NoOp

\* The locks that t lets go of are nobody's, the others stay where they are.
LEMMA ReleasedLocks ==
  ASSUME NEW S, NEW lk \in [S -> Tx \cup {None}], NEW u \in Tx
  PROVE  /\ Released(lk, u) \in [S -> Tx \cup {None}]
         /\ \A x \in S : Released(lk, u)[x] # u
         /\ \A t \in Tx \ {u}, x \in S : Released(lk, u)[x] = t <=> lk[x] = t
  BY ConstantsAssumption DEF Released

\* A request that does not move keeps what it holds and knows, as long as nobody
\* touches its locks or the rows it has locked.
LEMMA OthersKeep ==
  ASSUME NEW t \in Tx, tx[t] \in TxRec, TxInv(t, tx[t], lock, wfLock, row),
         tx'[t] = tx[t],
         \A v \in Version : lock'[v] = t <=> lock[v] = t,
         \A f \in Workflow : wfLock'[f] = t <=> wfLock[f] = t,
         \A v \in Version : lock[v] = t => /\ row'[v].exists = row[v].exists
                                           /\ row'[v].prerelease = row[v].prerelease
                                           /\ row'[v].runs = row[v].runs
  PROVE  TxInv(t, tx'[t], lock', wfLock', row')
<1> DEFINE x == tx[t]
<1>1. Locking(t, x, lock', wfLock')
  BY DEF TxInv, Progress, Locking
<1>2. Knowing(t, x, lock', row')
  <2>1. x.pc \in Writing => x.v \in Version
    BY DEF TxInv, Progress, Writing
  <2> QED BY <2>1 DEF TxInv, Locking, Knowing, Writing
<1> QED BY <1>1, <1>2 DEF TxInv

\* The invariant survives a step of u that writes no row: what is to be shown is
\* about u alone.
LEMMA LocalStep ==
  ASSUME IInv, NEW u \in Tx,
         row' = row, runs' = runs,
         lock' \in [Version -> Tx \cup {None}],
         wfLock' \in [Workflow -> Tx \cup {None}],
         \A t \in Tx \ {u}, v \in Version : lock'[v] = t <=> lock[v] = t,
         \A t \in Tx \ {u}, f \in Workflow : wfLock'[f] = t <=> wfLock[f] = t,
         NEW x \in TxRec, tx' = [tx EXCEPT ![u] = x],
         TxInv(u, x, lock', wfLock', row)
  PROVE  IInv'
<1>1. TablesOK'
  BY DEF IInv, TablesOK
<1>2. ASSUME NEW t \in Tx PROVE TxInv(t, tx'[t], lock', wfLock', row')
  <2>1. CASE t = u
    <3>1. tx'[t] = x
      BY <2>1 DEF IInv, TablesOK
    <3> QED BY <2>1, <3>1
  <2>2. CASE t # u
    <3>1. tx'[t] = tx[t] /\ tx[t] \in TxRec
      BY <2>2 DEF IInv, TablesOK
    <3>2. TxInv(t, tx[t], lock, wfLock, row)
      BY DEF IInv
    <3>3. \A v \in Version : lock'[v] = t <=> lock[v] = t
      BY <2>2
    <3>4. \A f \in Workflow : wfLock'[f] = t <=> wfLock[f] = t
      BY <2>2
    <3> QED BY <3>1, <3>2, <3>3, <3>4, OthersKeep
  <2> QED BY <2>1, <2>2
<1>3. SomeLatest' /\ RunCountExact'
  BY DEF IInv, SomeLatest, RunCountExact
<1> QED BY <1>1, <1>2, <1>3 DEF IInv

-----------------------------------------------------------------------------
\* The steps of a transaction.

\* A rollback lets go of every lock.
LEMMA RollbackStep ==
  ASSUME IInv, NEW u \in Tx, tx[u].pc # "idle", Rollback(u)
  PROVE  IInv'
<1> DEFINE x == [tx[u] EXCEPT !.pc = "failed"]
<1>1. x \in TxRec
  BY DEF IInv, TablesOK, TxRec, Phase
<1>2. tx' = [tx EXCEPT ![u] = x]
  BY DEF IInv, TablesOK, TxRec, Rollback
<1>3. /\ lock' \in [Version -> Tx \cup {None}]
      /\ \A v \in Version : lock'[v] # u
      /\ \A t \in Tx \ {u}, v \in Version : lock'[v] = t <=> lock[v] = t
  BY ReleasedLocks DEF IInv, TablesOK, Rollback
<1>4. /\ wfLock' \in [Workflow -> Tx \cup {None}]
      /\ \A f \in Workflow : wfLock'[f] # u
      /\ \A t \in Tx \ {u}, f \in Workflow : wfLock'[f] = t <=> wfLock[f] = t
  BY ReleasedLocks DEF IInv, TablesOK, Rollback
<1>5. Progress(x)
  <2>1. Progress(tx[u])
    BY DEF IInv, TxInv
  <2> QED BY <2>1 DEF IInv, TablesOK, TxRec, Progress, Promoting
<1>6. Locking(u, x, lock', wfLock')
  BY <1>3, <1>4 DEF Locking, IInv, TablesOK, TxRec
<1>7. Knowing(u, x, lock', row)
  BY DEF Knowing, Writing, IInv, TablesOK, TxRec
<1>8. TxInv(u, x, lock', wfLock', row)
  BY <1>5, <1>6, <1>7 DEF TxInv
<1> HIDE DEF x
<1> QED BY <1>1, <1>2, <1>3, <1>4, <1>8, LocalStep DEF Rollback

\* A step of u that takes no lock, up to the point where u has begun to write.
LEMMA UnlockedStep ==
  ASSUME IInv, NEW u \in Tx, UNCHANGED <<row, lock, wfLock, runs>>,
         NEW x \in TxRec, tx' = [tx EXCEPT ![u] = x],
         tx[u].pc \in {"idle", "find"},
         x.pc \in {"find", "lock", "snapshot", "insert", "run", "done", "failed"},
         Progress(x),
         x.pc \in {"snapshot", "insert", "run"} /\ ~x.new => ~Promoting(x) /\ ~Blocking(x),
         x.pc = "run" => ~x.new
  PROVE  IInv'
<1>1. /\ \A v \in Version : lock[v] # u
      /\ \A f \in Workflow : wfLock[f] # u
  BY DEF IInv, TxInv, Locking, Writing
<1>2. Locking(u, x, lock', wfLock')
  BY <1>1 DEF Locking
<1>3. Knowing(u, x, lock', row)
  BY DEF Knowing, Writing
<1>4. TxInv(u, x, lock', wfLock', row)
  BY <1>2, <1>3 DEF TxInv
<1>5. lock' \in [Version -> Tx \cup {None}] /\ wfLock' \in [Workflow -> Tx \cup {None}]
  BY DEF IInv, TablesOK
<1> QED BY <1>4, <1>5, LocalStep

LEMMA BeginStep ==
  ASSUME IInv, NEW u \in Tx, NEW op \in Ops, Begin(u, op)
  PROVE  IInv'
<1> DEFINE x == [tx[u] EXCEPT !.op = op, !.v = op.v, !.new = (op.op = "create"),
                              !.pc = IF op.op \in {"attest", "workflow"} THEN "find"
                                     ELSE IF op.op = "create" THEN "snapshot" ELSE "lock"]
<1>1. tx[u] = Idle /\ tx[u] \in TxRec
  BY DEF IInv, TablesOK, TxInv, Progress, Begin
<1>2. x \in TxRec
  BY <1>1, OpFacts DEF TxRec, Phase
<1>3. tx' = [tx EXCEPT ![u] = x]
  BY <1>1 DEF IInv, TablesOK, TxRec, Begin
<1>4. Progress(x)
  <2>1. /\ x.op = op /\ x.v = op.v /\ x.new = (op.op = "create") /\ x.cleared = {}
        /\ x.pc = IF op.op \in {"attest", "workflow"} THEN "find"
                  ELSE IF op.op = "create" THEN "snapshot" ELSE "lock"
    BY <1>1 DEF Idle
  <2> HIDE DEF x
  <2> QED BY <2>1, OpFacts DEF Progress, Promoting
<1>5. x.pc \in {"snapshot", "insert", "run"} => x.new
  BY <1>1, OpFacts DEF Idle
<1>6. x.pc \in {"find", "lock", "snapshot"}
  BY <1>1 DEF Idle
<1>7. tx[u].pc \in {"idle", "find"}
  BY <1>1 DEF Idle
<1>8. x.pc # "run"
  BY <1>6
<1>9. UNCHANGED <<row, lock, wfLock, runs>>
  BY DEF Begin
<1> HIDE DEF x
<1> QED BY <1>2, <1>3, <1>4, <1>5, <1>6, <1>7, <1>8, <1>9, UnlockedStep

LEMMA FindLatestStep ==
  ASSUME IInv, NEW u \in Tx, FindLatest(u)
  PROVE  IInv'
<1>1. PICK v \in Version \cup {None} :
        tx' = [tx EXCEPT ![u].v = v,
                         ![u].pc = IF v = None THEN "failed"
                                   ELSE IF tx[u].op.block THEN "lock" ELSE "run"]
  BY DEF FindLatest
<1> DEFINE x == [tx[u] EXCEPT !.v = v,
                              !.pc = IF v = None THEN "failed"
                                     ELSE IF tx[u].op.block THEN "lock" ELSE "run"]
<1>2. tx[u] \in TxRec /\ Progress(tx[u])
  BY DEF IInv, TablesOK, TxInv
<1>3. /\ tx[u].pc = "find" /\ tx[u].op \in Ops /\ tx[u].op.op = "attest"
      /\ tx[u].op.mark = "unset" /\ ~tx[u].new /\ tx[u].cleared = {}
  BY <1>2, OpFacts DEF FindLatest, Progress
<1>4. x \in TxRec
  BY <1>2 DEF TxRec, Phase
<1>5. tx' = [tx EXCEPT ![u] = x]
  BY <1>1, <1>2 DEF IInv, TablesOK, TxRec
<1>6. Progress(x)
  BY <1>2, <1>3, ConstantsAssumption DEF Progress, Promoting, TxRec
<1>7. /\ x.pc \in {"failed", "lock", "run"} /\ ~x.new
      /\ x.pc = "run" => ~Promoting(x) /\ ~Blocking(x)
  BY <1>2, <1>3 DEF TxRec, Promoting, Blocking
<1>8. UNCHANGED <<row, lock, wfLock, runs>>
  BY DEF FindLatest
<1> HIDE DEF x
<1> QED BY <1>3, <1>4, <1>5, <1>6, <1>7, <1>8, UnlockedStep

LEMMA FindByNameStep ==
  ASSUME IInv, NEW u \in Tx, FindByName(u)
  PROVE  IInv'
<1> DEFINE op == tx[u].op
           found == row[op.v].exists
           x == [tx[u] EXCEPT !.new = ~found,
                   !.pc = IF found THEN IF op.block \/ op.mark = "yes" THEN "lock" ELSE "run"
                          ELSE IF op.require THEN "failed"
                          ELSE IF op.mark = "no" THEN "insert" ELSE "snapshot"]
<1>2. tx[u] \in TxRec /\ Progress(tx[u])
  BY DEF IInv, TablesOK, TxInv
<1>3. /\ tx[u].pc = "find" /\ op \in Ops /\ op.op = "attest"
      /\ op.mark \in {"unset", "yes", "no"} /\ op.v \in Version /\ tx[u].cleared = {}
  BY <1>2, OpFacts DEF FindByName, Progress
<1>4. x \in TxRec
  BY <1>2 DEF TxRec, Phase
<1>5. tx' = [tx EXCEPT ![u] = x]
  BY <1>2 DEF IInv, TablesOK, TxRec, FindByName
<1>6. Progress(x)
  BY <1>2, <1>3 DEF Progress, Promoting, TxRec
<1>7. /\ x.pc \in {"failed", "lock", "run", "insert", "snapshot"}
      /\ x.pc = "run" => ~x.new /\ ~Promoting(x) /\ ~Blocking(x)
      /\ x.pc \in {"insert", "snapshot"} => x.new
  BY <1>2, <1>3 DEF TxRec, Promoting, Blocking
<1>8. UNCHANGED <<row, lock, wfLock, runs>>
  BY DEF FindByName
<1> HIDE DEF x
<1> QED BY <1>3, <1>4, <1>5, <1>6, <1>7, <1>8, UnlockedStep

LEMMA FindDefaultStep ==
  ASSUME IInv, NEW u \in Tx, FindDefault(u)
  PROVE  IInv'
<1> DEFINE x == [tx[u] EXCEPT !.new = ~row[tx[u].v].exists,
                              !.pc = IF row[tx[u].v].exists THEN "done" ELSE "snapshot"]
<1>2. tx[u] \in TxRec /\ Progress(tx[u])
  BY DEF IInv, TablesOK, TxInv
<1>3. /\ tx[u].pc = "find" /\ tx[u].op \in Ops /\ tx[u].op.op = "workflow"
      /\ tx[u].v \in Version /\ tx[u].cleared = {}
  BY <1>2 DEF FindDefault, Progress
<1>4. x \in TxRec
  BY <1>2 DEF TxRec, Phase
<1>5. tx' = [tx EXCEPT ![u] = x]
  BY <1>2 DEF IInv, TablesOK, TxRec, FindDefault
<1>6. Progress(x)
  BY <1>2, <1>3 DEF Progress, Promoting, TxRec
<1>7. x.pc \in {"done", "snapshot"} /\ (x.pc = "snapshot" => x.new)
  BY <1>2, <1>3 DEF TxRec
<1>8. UNCHANGED <<row, lock, wfLock, runs>>
  BY DEF FindDefault
<1> HIDE DEF x
<1> QED BY <1>3, <1>4, <1>5, <1>6, <1>7, <1>8, UnlockedStep

\* Progress and locks of a request that writes, after it took the lock of w.
LEMMA LockedStep ==
  ASSUME IInv, NEW u \in Tx, NEW w \in Version, Free(u, w),
         lock' = [lock EXCEPT ![w] = u], UNCHANGED <<row, wfLock, runs>>,
         NEW x \in TxRec, tx' = [tx EXCEPT ![u] = x],
         Progress(x), x.pc \in Writing,
         tx[u].pc \in {"count", "commit"} => x.pc \in {"count", "commit"},
         Knowing(u, x, lock', row),
         x.pc = "commit" => lock'[x.v] = u
  PROVE  IInv'
<1>1. /\ lock' \in [Version -> Tx \cup {None}]
      /\ \A t \in Tx \ {u}, v \in Version : lock'[v] = t <=> lock[v] = t
  BY ConstantsAssumption DEF IInv, TablesOK, Free
<1>2. wfLock' \in [Workflow -> Tx \cup {None}]
  BY DEF IInv, TablesOK
<1>3. Locking(u, x, lock', wfLock')
  BY DEF IInv, TxInv, Locking
<1>4. TxInv(u, x, lock', wfLock', row)
  BY <1>3 DEF TxInv
<1> QED BY <1>1, <1>2, <1>4, LocalStep

LEMMA LockVersionStep ==
  ASSUME IInv, NEW u \in Tx, LockVersion(u)
  PROVE  IInv'
<1>1. CASE ~Accepts(u) /\ Rollback(u)
  BY <1>1, RollbackStep DEF LockVersion
<1>2. CASE /\ Accepts(u)
           /\ lock' = [lock EXCEPT ![tx[u].v] = u]
           /\ Go(u, IF tx[u].op.op = "release" THEN "commit"
                    ELSE IF Promotes(u) THEN "snapshot" ELSE "run")
  <2> DEFINE pc == IF tx[u].op.op = "release" THEN "commit"
                   ELSE IF Promotes(u) THEN "snapshot" ELSE "run"
             x == [tx[u] EXCEPT !.pc = pc]
  <2>1. tx[u] \in TxRec /\ Progress(tx[u])
    BY DEF IInv, TablesOK, TxInv
  <2>2. pc \in {"commit", "snapshot", "run"}
    OBVIOUS
  <2>3. x \in TxRec
    BY <2>1, <2>2 DEF TxRec, Phase
  <2>4. tx' = [tx EXCEPT ![u] = x]
    BY <1>2, <2>1 DEF IInv, TablesOK, TxRec, Go
  <2>5. /\ tx[u].pc = "lock" /\ tx[u].v \in Version /\ tx[u].op \in Ops
        /\ tx[u].cleared = {}
        /\ tx[u].op.op # "workflow" => ~tx[u].new
    BY <2>1 DEF LockVersion, Progress
  <2>6. /\ x.pc = pc /\ x.op = tx[u].op /\ x.v = tx[u].v /\ x.new = tx[u].new
        /\ x.cleared = {}
    BY <2>1, <2>5 DEF TxRec
  <2>7. Promoting(x) <=> Promotes(u)
    BY <2>6 DEF Promoting, Promotes
  <2>8. Progress(x)
    <3>1. tx[u].op.op \in {"attest", "promote", "workflow", "create", "release"}
      BY <2>5, OpFacts
    <3>2. pc = "run" => tx[u].op.op = "attest"
      BY <3>1 DEF Promotes
    <3> HIDE DEF x
    <3> QED BY <2>2, <2>5, <2>6, <2>7, <3>2 DEF Progress
  <2>9. lock'[x.v] = u
    BY <1>2, <2>5, <2>6 DEF IInv, TablesOK
  <2>10. Knowing(u, x, lock', row)
    <3>1. (Promoting(x) \/ Blocking(x)) => row[x.v].exists /\ row[x.v].prerelease
      BY <1>2, <2>6, <2>7 DEF Accepts, Blocking
    <3>2. x.new => pc # "run" /\ pc # "commit"
      BY <2>5, <2>6 DEF Promotes
    <3>3. pc = "commit" => x.op.op # "attest"
      BY <2>6
    <3> HIDE DEF x, pc
    <3> QED BY <2>2, <2>6, <2>9, <3>1, <3>2, <3>3 DEF Knowing
  <2>11. x.pc \in Writing
    BY <2>2, <2>6 DEF Writing
  <2>12. Free(u, tx[u].v) /\ UNCHANGED <<row, wfLock, runs>>
    BY <1>2 DEF LockVersion, Go
  <2> HIDE DEF x, pc
  <2> QED BY <1>2, <2>3, <2>4, <2>5, <2>8, <2>9, <2>10, <2>11, <2>12, LockedStep
<1> QED BY <1>1, <1>2 DEF LockVersion

\* Where Visit leaves a request: it goes on to the next row, or past the UPDATE.
LEMMA VisitStep ==
  ASSUME IInv, NEW u \in Tx, tx[u].pc \in {"snapshot", "clear"},
         NEW rows \in SUBSET Version, NEW cleared \in SUBSET Version,
         Visit(u, rows, cleared),
         \/ UNCHANGED lock
         \/ \E w \in Version : Free(u, w) /\ lock' = [lock EXCEPT ![w] = u],
         UNCHANGED <<row, wfLock, runs>>
  PROVE  IInv'
<1> DEFINE y == tx[u]
<1>1. y \in TxRec /\ Progress(y) /\ Locking(u, y, lock, wfLock) /\ Knowing(u, y, lock, row)
  BY DEF IInv, TablesOK, TxInv
<1>2. PICK pc \in {"insert", "run", "commit", "clear"}, at \in Version \cup {None} :
        /\ tx' = [tx EXCEPT ![u].clear = rows, ![u].at = at, ![u].cleared = cleared, ![u].pc = pc]
        /\ pc = "clear" => at \in rows
        /\ pc # "clear" => pc = AfterClear(u)
  <2>1. CASE rows = {}
    <3>1. AfterClear(u) \in {"insert", "run", "commit"}
      BY DEF AfterClear
    <3>2. tx' = [tx EXCEPT ![u].clear = rows, ![u].at = None, ![u].cleared = cleared,
                           ![u].pc = AfterClear(u)]
      BY <2>1 DEF Visit
    <3> QED BY <3>1, <3>2
  <2>2. CASE rows # {}
    <3>1. PICK w \in rows :
            tx' = [tx EXCEPT ![u].clear = rows, ![u].at = w, ![u].cleared = cleared,
                             ![u].pc = "clear"]
      BY <2>2 DEF Visit
    <3> QED BY <3>1
  <2> QED BY <2>1, <2>2
<1> DEFINE x == [y EXCEPT !.clear = rows, !.at = at, !.cleared = cleared, !.pc = pc]
<1>3. x \in TxRec
  BY <1>1 DEF TxRec, Phase
<1>4. tx' = [tx EXCEPT ![u] = x]
  BY <1>1, <1>2 DEF IInv, TablesOK, TxRec
<1>5. /\ x.pc = pc /\ x.op = y.op /\ x.v = y.v /\ x.new = y.new
      /\ x.clear = rows /\ x.at = at /\ x.cleared = cleared
  BY <1>1 DEF TxRec
<1>6. y.op \in Ops /\ y.v \in Version /\ Promoting(y)
  BY <1>1 DEF Progress
<1>7. Promoting(x)
  BY <1>5, <1>6 DEF Promoting
<1>8. /\ pc = "insert" => y.new
      /\ pc = "run" => ~y.new /\ y.op.op = "attest"
      /\ pc = "commit" => ~y.new /\ y.op.op # "attest"
  BY <1>2 DEF AfterClear
<1>9. ~y.new => lock[y.v] = u /\ row[y.v].exists /\ row[y.v].prerelease
  BY <1>1, <1>6 DEF Knowing, Writing
<1>10. /\ lock' \in [Version -> Tx \cup {None}]
       /\ \A t \in Tx \ {u}, v \in Version : lock'[v] = t <=> lock[v] = t
       /\ \A v \in Version : lock[v] = u => lock'[v] = u
  BY ConstantsAssumption DEF IInv, TablesOK, Free
<1>11. wfLock' \in [Workflow -> Tx \cup {None}]
  BY DEF IInv, TablesOK
<1> HIDE DEF x
<1>12. Progress(x)
  BY <1>2, <1>5, <1>6, <1>7, <1>8 DEF Progress
<1>13. Locking(u, x, lock', wfLock')
  BY <1>1, <1>5, <1>6, <1>8, <1>9, <1>10 DEF Locking, Writing
<1>14. Knowing(u, x, lock', row)
  BY <1>5, <1>6, <1>8, <1>9, <1>10 DEF Knowing
<1>15. TxInv(u, x, lock', wfLock', row)
  BY <1>12, <1>13, <1>14 DEF TxInv
<1> QED BY <1>3, <1>4, <1>10, <1>11, <1>15, LocalStep

LEMMA SnapshotStep ==
  ASSUME IInv, NEW u \in Tx, Snapshot(u)
  PROVE  IInv'
  BY VisitStep DEF Snapshot

LEMMA ClearLatestStep ==
  ASSUME IInv, NEW u \in Tx, ClearLatest(u)
  PROVE  IInv'
<1> DEFINE rows == tx[u].clear \ {tx[u].at}
           cleared == IF row[tx[u].at].latest THEN tx[u].cleared \cup {tx[u].at}
                      ELSE tx[u].cleared
<1>1. tx[u] \in TxRec /\ Progress(tx[u])
  BY DEF IInv, TablesOK, TxInv
<1>2. tx[u].at \in tx[u].clear /\ tx[u].clear \subseteq Version /\ tx[u].cleared \subseteq Version
  BY <1>1 DEF ClearLatest, Progress, TxRec
<1>3. rows \in SUBSET Version /\ cleared \in SUBSET Version /\ tx[u].at \in Version
  BY <1>2
<1>4. Visit(u, rows, cleared) /\ tx[u].pc = "clear" /\ UNCHANGED <<row, wfLock, runs>>
      /\ Free(u, tx[u].at) /\ lock' = [lock EXCEPT ![tx[u].at] = u]
  BY DEF ClearLatest
<1> HIDE DEF rows, cleared
<1> QED BY <1>3, <1>4, VisitStep

LEMMA InsertVersionStep ==
  ASSUME IInv, NEW u \in Tx, InsertVersion(u)
  PROVE  IInv'
<1>1. CASE row[tx[u].v].exists /\ Rollback(u)
  BY <1>1, RollbackStep DEF InsertVersion
<1>2. CASE /\ ~row[tx[u].v].exists
           /\ lock' = [lock EXCEPT ![tx[u].v] = u]
           /\ Go(u, IF tx[u].op.op = "attest" THEN "run" ELSE "commit")
  <2> DEFINE pc == IF tx[u].op.op = "attest" THEN "run" ELSE "commit"
             x == [tx[u] EXCEPT !.pc = pc]
  <2>1. tx[u] \in TxRec /\ Progress(tx[u])
    BY DEF IInv, TablesOK, TxInv
  <2>2. pc \in {"run", "commit"} /\ (pc = "run" <=> tx[u].op.op = "attest")
    OBVIOUS
  <2>3. x \in TxRec
    BY <2>1, <2>2 DEF TxRec, Phase
  <2>4. tx' = [tx EXCEPT ![u] = x]
    BY <1>2, <2>1 DEF IInv, TablesOK, TxRec, Go
  <2>5. /\ tx[u].pc = "insert" /\ tx[u].v \in Version /\ tx[u].op \in Ops /\ tx[u].new
        /\ tx[u].cleared # {} => Promoting(tx[u])
    BY <2>1 DEF InsertVersion, Progress
  <2>6. /\ x.pc = pc /\ x.op = tx[u].op /\ x.v = tx[u].v /\ x.new = tx[u].new
        /\ x.cleared = tx[u].cleared
    BY <2>1 DEF TxRec
  <2>7. lock'[x.v] = u
    BY <1>2, <2>5, <2>6 DEF IInv, TablesOK
  <2>8. Free(u, tx[u].v) /\ UNCHANGED <<row, wfLock, runs>>
    BY <1>2 DEF InsertVersion, Go
  <2> HIDE DEF x, pc
  <2>9. Progress(x)
    BY <2>2, <2>5, <2>6 DEF Progress, Promoting
  <2>10. Knowing(u, x, lock', row)
    BY <1>2, <2>2, <2>5, <2>6, <2>7 DEF Knowing
  <2>11. x.pc \in Writing
    BY <2>2, <2>6 DEF Writing
  <2> QED BY <1>2, <2>3, <2>4, <2>5, <2>7, <2>8, <2>9, <2>10, <2>11, LockedStep
<1> QED BY <1>1, <1>2 DEF InsertVersion

LEMMA CreateRunStep ==
  ASSUME IInv, NEW u \in Tx, CreateRun(u)
  PROVE  IInv'
<1> DEFINE y == tx[u]
           x == [y EXCEPT !.pc = "count"]
<1>1. y \in TxRec /\ Progress(y) /\ Locking(u, y, lock, wfLock) /\ Knowing(u, y, lock, row)
  BY DEF IInv, TablesOK, TxInv
<1>2. x \in TxRec
  BY <1>1 DEF TxRec, Phase
<1>3. tx' = [tx EXCEPT ![u] = x]
  BY <1>1 DEF IInv, TablesOK, TxRec, CreateRun
<1>4. y.pc = "run" /\ y.v \in Version /\ y.op \in Ops /\ y.op.wf \in Workflow
  BY <1>1, OpFacts DEF CreateRun, Progress
<1>5. /\ x.pc = "count" /\ x.op = y.op /\ x.v = y.v /\ x.new = y.new /\ x.cleared = y.cleared
  BY <1>1 DEF TxRec
<1>6. /\ wfLock' \in [Workflow -> Tx \cup {None}]
      /\ \A t \in Tx \ {u}, f \in Workflow : wfLock'[f] = t <=> wfLock[f] = t
  BY <1>4, ConstantsAssumption DEF IInv, TablesOK, CreateRun
<1>7. lock' = lock /\ lock \in [Version -> Tx \cup {None}] /\ UNCHANGED <<row, runs>>
  BY DEF IInv, TablesOK, CreateRun
<1> HIDE DEF x
<1>8. Progress(x)
  BY <1>1, <1>4, <1>5 DEF Progress, Promoting
<1>9. Locking(u, x, lock', wfLock')
  BY <1>5, <1>7 DEF Locking, Writing
<1>10. Knowing(u, x, lock', row)
  BY <1>1, <1>4, <1>5, <1>7 DEF Knowing, Promoting, Blocking, Writing
<1>11. TxInv(u, x, lock', wfLock', row)
  BY <1>8, <1>9, <1>10 DEF TxInv
<1> QED BY <1>2, <1>3, <1>6, <1>7, <1>11, LocalStep

LEMMA AddWorkflowRunCountStep ==
  ASSUME IInv, NEW u \in Tx, AddWorkflowRunCount(u)
  PROVE  IInv'
<1> DEFINE y == tx[u]
           x == [y EXCEPT !.pc = "commit", !.count = row[y.v].runs + 1]
<1>1. y \in TxRec /\ Progress(y) /\ Knowing(u, y, lock, row)
  BY DEF IInv, TablesOK, TxInv
<1>2. /\ y.pc = "count" /\ y.v \in Version /\ y.op \in Ops
      /\ y.op.op = "attest" /\ row[y.v].runs + 1 \in Nat
  BY <1>1 DEF AddWorkflowRunCount, Progress, IInv, TablesOK, Row
<1>3. x \in TxRec
  BY <1>1, <1>2 DEF TxRec, Phase
<1>4. tx' = [tx EXCEPT ![u] = x]
  BY <1>1 DEF IInv, TablesOK, TxRec, AddWorkflowRunCount
<1>5. /\ x.pc = "commit" /\ x.op = y.op /\ x.v = y.v /\ x.new = y.new /\ x.cleared = y.cleared
      /\ x.count = row[y.v].runs + 1
  BY <1>1 DEF TxRec
<1>6. lock'[x.v] = u
  BY <1>2, <1>5 DEF IInv, TablesOK, AddWorkflowRunCount
<1>7. /\ Free(u, y.v) /\ UNCHANGED <<row, wfLock, runs>>
      /\ lock' = [lock EXCEPT ![y.v] = u]
  BY DEF AddWorkflowRunCount
<1> HIDE DEF x
<1>8. Progress(x)
  BY <1>1, <1>2, <1>5 DEF Progress, Promoting
<1>9. Knowing(u, x, lock', row)
  BY <1>1, <1>2, <1>5, <1>6 DEF Knowing, Promoting, Blocking, Writing
<1>10. x.pc \in Writing
  BY <1>5 DEF Writing
<1> QED BY <1>2, <1>3, <1>4, <1>5, <1>6, <1>7, <1>8, <1>9, <1>10, LockedStep

LEMMA DeadlockVictimStep ==
  ASSUME IInv, NEW u \in Tx, DeadlockVictim(u)
  PROVE  IInv'
<1>1. WaitsFor(u) # {}
  BY DEF DeadlockVictim, Deadlocked
<1>2. tx[u].pc # "idle"
  BY <1>1 DEF WaitsFor
<1> QED BY <1>2, RollbackStep DEF DeadlockVictim

\* What a commit writes: its own version, whose lock it holds, and the flag of
\* the versions it has cleared.
LEMMA CommitWrites ==
  ASSUME IInv, NEW u \in Tx, Commit(u)
  PROVE  /\ tx[u].v \in Version /\ lock[tx[u].v] = u /\ tx[u].op \in Ops
         /\ row' \in [Version -> Row]
         /\ row'[tx[u].v].exists
         /\ Promoting(tx[u]) => row'[tx[u].v].latest
         /\ row'[tx[u].v].latest => Promoting(tx[u]) \/ row[tx[u].v].latest
         /\ row[tx[u].v].latest => row'[tx[u].v].latest
         /\ row'[tx[u].v].runs = IF tx[u].op.op = "attest" THEN row[tx[u].v].runs + 1
                                 ELSE row[tx[u].v].runs
         /\ \A w \in Version \ {tx[u].v} :
              /\ row'[w].exists = row[w].exists /\ row'[w].prerelease = row[w].prerelease
              /\ row'[w].runs = row[w].runs
              /\ row'[w].latest => row[w].latest
              /\ row[w].latest /\ ~Promoting(tx[u]) => row'[w].latest
<1> DEFINE x == tx[u]
<1>1. /\ x \in TxRec /\ Progress(x) /\ Locking(u, x, lock, wfLock) /\ Knowing(u, x, lock, row)
      /\ row \in [Version -> Row]
  BY DEF IInv, TablesOK, TxInv
<1>2. x.pc = "commit" /\ x.v \in Version /\ lock[x.v] = u /\ x.op \in Ops /\ x.count \in Nat
  BY <1>1 DEF Commit, Progress, Locking, TxRec
<1>3. \A w \in Version : row'[w] = Written(u, w)
  BY DEF Commit
<1>4. /\ row'[x.v] \in Row
      /\ row'[x.v].exists
      /\ row'[x.v].latest <=> (Promoting(x) \/ row[x.v].latest)
      /\ row'[x.v].runs = IF x.op.op = "attest" THEN x.count ELSE row[x.v].runs
  <2>1. x.op.op = "create" => x.op.prerelease \in BOOLEAN
    BY <1>2, OpFacts
  <2>2. row[x.v] \in Row
    BY <1>1, <1>2
  <2>3. Promotes(u) <=> Promoting(x)
    BY PromotesPromoting
  <2> DEFINE p == IF x.op.op = "create" THEN x.op.prerelease
                  ELSE IF x.op.op = "release" THEN ~x.op.release
                  ELSE row[x.v].prerelease
             l == Promotes(u) \/ row[x.v].latest
             n == IF x.op.op = "attest" THEN x.count ELSE row[x.v].runs
  <2>4. row'[x.v] = [exists |-> TRUE, prerelease |-> p, latest |-> l, runs |-> n]
    BY <1>2, <1>3 DEF Written
  <2>5. p \in BOOLEAN
    <3>1. row[x.v].prerelease \in BOOLEAN
      BY <2>2 DEF Row
    <3> QED BY <2>1, <3>1
  <2>6. l \in BOOLEAN
    OBVIOUS
  <2>7. n \in Nat
    BY <1>2, <2>2 DEF Row
  <2>8. l <=> (Promoting(x) \/ row[x.v].latest)
    BY <2>3
  <2> HIDE DEF p, l
  <2>9. row'[x.v] \in Row /\ row'[x.v].exists /\ row'[x.v].latest = l /\ row'[x.v].runs = n
    BY <2>4, <2>5, <2>6, <2>7 DEF Row
  <2> QED BY <2>8, <2>9
<1>5. ASSUME NEW w \in Version \ {x.v}
      PROVE  /\ row'[w] \in Row
             /\ row'[w].exists = row[w].exists /\ row'[w].prerelease = row[w].prerelease
             /\ row'[w].runs = row[w].runs
             /\ row'[w].latest <=> (row[w].latest /\ w \notin x.cleared)
  <2>1. row'[w] = [row[w] EXCEPT !.latest = @ /\ w \notin x.cleared]
    BY <1>3 DEF Written
  <2>2. row[w] \in Row
    BY <1>1
  <2> QED BY <2>1, <2>2 DEF Row
<1>6. row' \in [Version -> Row]
  BY <1>4, <1>5 DEF Commit
<1>7. x.cleared # {} => Promoting(x)
  BY <1>1 DEF Progress
<1>8. x.op.op = "attest" => x.count = row[x.v].runs + 1
  BY <1>1, <1>2 DEF Knowing
<1> QED BY <1>2, <1>4, <1>5, <1>6, <1>7, <1>8

LEMMA CommitStep ==
  ASSUME IInv, NEW u \in Tx, Commit(u)
  PROVE  IInv'
<1> DEFINE y == tx[u]
           x == [y EXCEPT !.pc = "done"]
<1>1. /\ y \in TxRec /\ Progress(y) /\ y.v \in Version /\ lock[y.v] = u /\ y.op \in Ops
      /\ y.pc = "commit"
  BY CommitWrites DEF IInv, TablesOK, TxInv, Commit
<1>2. x \in TxRec /\ x.pc = "done" /\ x.op = y.op /\ x.v = y.v /\ x.new = y.new
      /\ x.cleared = y.cleared
  BY <1>1 DEF TxRec, Phase
<1>3. tx' = [tx EXCEPT ![u] = x]
  BY <1>1 DEF IInv, TablesOK, TxRec, Commit
<1>4. /\ lock' \in [Version -> Tx \cup {None}]
      /\ \A v \in Version : lock'[v] # u
      /\ \A t \in Tx \ {u}, v \in Version : lock'[v] = t <=> lock[v] = t
  BY ReleasedLocks DEF IInv, TablesOK, Commit
<1>5. /\ wfLock' \in [Workflow -> Tx \cup {None}]
      /\ \A f \in Workflow : wfLock'[f] # u
      /\ \A t \in Tx \ {u}, f \in Workflow : wfLock'[f] = t <=> wfLock[f] = t
  BY ReleasedLocks DEF IInv, TablesOK, Commit
<1>6. /\ runs' \in [Version -> Nat]
      /\ \A v \in Version : runs'[v] = IF v = y.v /\ y.op.op = "attest" THEN runs[v] + 1
                                       ELSE runs[v]
  BY <1>1 DEF IInv, TablesOK, Commit
<1> HIDE DEF x
<1>7. TablesOK'
  BY <1>2, <1>3, <1>4, <1>5, <1>6, CommitWrites DEF IInv, TablesOK
<1>8. ASSUME NEW t \in Tx PROVE TxInv(t, tx'[t], lock', wfLock', row')
  <2>1. CASE t = u
    <3>1. tx'[t] = x
      BY <1>3, <2>1 DEF IInv, TablesOK
    <3>2. Progress(x)
      BY <1>1, <1>2 DEF Progress, Promoting
    <3>3. Locking(u, x, lock', wfLock')
      BY <1>2, <1>4, <1>5 DEF Locking
    <3>4. Knowing(u, x, lock', row')
      BY <1>2 DEF Knowing, Writing
    <3> QED BY <2>1, <3>1, <3>2, <3>3, <3>4 DEF TxInv
  <2>2. CASE t # u
    <3>1. tx'[t] = tx[t] /\ tx[t] \in TxRec
      BY <1>3, <2>2 DEF IInv, TablesOK
    <3>5. TxInv(t, tx[t], lock, wfLock, row)
      BY DEF IInv
    <3>2. \A v \in Version : lock[v] = t => /\ row'[v].exists = row[v].exists
                                            /\ row'[v].prerelease = row[v].prerelease
                                            /\ row'[v].runs = row[v].runs
      BY <1>1, <2>2, CommitWrites
    <3>3. \A v \in Version : lock'[v] = t <=> lock[v] = t
      BY <1>4, <2>2
    <3>4. \A f \in Workflow : wfLock'[f] = t <=> wfLock[f] = t
      BY <1>5, <2>2
    <3> QED BY <3>1, <3>2, <3>3, <3>4, <3>5, OthersKeep
  <2> QED BY <2>1, <2>2
<1>9. SomeLatest'
  <2>1. CASE Promoting(y)
    BY <1>1, <2>1, CommitWrites DEF SomeLatest
  <2>2. CASE ~Promoting(y)
    <3>1. PICK v \in Version : row[v].exists /\ row[v].latest
      BY DEF IInv, SomeLatest
    <3>2. row'[v].exists /\ row'[v].latest
      BY <2>2, <3>1, CommitWrites
    <3> QED BY <3>2 DEF SomeLatest
  <2> QED BY <2>1, <2>2
<1>10. RunCountExact'
  <2>1. ASSUME NEW v \in Version PROVE row'[v].runs = runs'[v]
    <3>1. row[v].runs = runs[v]
      BY DEF IInv, RunCountExact
    <3>2. CASE v = y.v
      BY <1>1, <1>6, <3>1, <3>2, CommitWrites
    <3>3. CASE v # y.v
      BY <1>1, <1>6, <3>1, <3>3, CommitWrites
    <3> QED BY <3>2, <3>3
  <2> QED BY <2>1 DEF RunCountExact
<1> QED BY <1>7, <1>8, <1>9, <1>10 DEF IInv

-----------------------------------------------------------------------------
\* The theorems.

LEMMA InitIInv == Init => IInv
<1> SUFFICES ASSUME Init PROVE IInv
  OBVIOUS
<1>1. PICK v \in Version :
        /\ row = [w \in Version |->
                    IF w = v THEN [Absent EXCEPT !.exists = TRUE, !.latest = TRUE] ELSE Absent]
        /\ lock = [w \in Version |-> None]
        /\ wfLock = [f \in Workflow |-> None]
        /\ runs = [w \in Version |-> 0]
        /\ tx = [t \in Tx |-> Idle]
  BY DEF Init
<1>2. TablesOK
  BY <1>1, IdleRec DEF TablesOK, Row, Absent
<1>3. ASSUME NEW t \in Tx PROVE TxInv(t, tx[t], lock, wfLock, row)
  <2>1. tx[t] = Idle
    BY <1>1
  <2>2. Progress(Idle)
    BY DEF Progress, Idle
  <2>3. Locking(t, Idle, lock, wfLock)
    BY <1>1, ConstantsAssumption DEF Locking, Idle
  <2>4. Knowing(t, Idle, lock, row)
    BY DEF Knowing, Idle, Writing
  <2> QED BY <2>1, <2>2, <2>3, <2>4 DEF TxInv
<1>4. SomeLatest
  BY <1>1 DEF SomeLatest, Absent
<1>5. RunCountExact
  BY <1>1 DEF RunCountExact, Absent
<1> QED BY <1>2, <1>3, <1>4, <1>5 DEF IInv

LEMMA NextIInv == IInv /\ [Next]_vars => IInv'
<1> SUFFICES ASSUME IInv, [Next]_vars PROVE IInv'
  OBVIOUS
<1>1. CASE UNCHANGED vars
  BY <1>1 DEF vars, IInv, TablesOK, SomeLatest, RunCountExact
<1>2. ASSUME NEW t \in Tx, Step(t) PROVE IInv'
  <2>1. CASE FindLatest(t)
    BY <2>1, FindLatestStep
  <2>2. CASE FindByName(t)
    BY <2>2, FindByNameStep
  <2>3. CASE FindDefault(t)
    BY <2>3, FindDefaultStep
  <2>4. CASE LockVersion(t)
    BY <2>4, LockVersionStep
  <2>5. CASE Snapshot(t)
    BY <2>5, SnapshotStep
  <2>6. CASE ClearLatest(t)
    BY <2>6, ClearLatestStep
  <2>7. CASE InsertVersion(t)
    BY <2>7, InsertVersionStep
  <2>8. CASE CreateRun(t)
    BY <2>8, CreateRunStep
  <2>9. CASE AddWorkflowRunCount(t)
    BY <2>9, AddWorkflowRunCountStep
  <2>10. CASE Commit(t)
    BY <2>10, CommitStep
  <2>11. CASE DeadlockVictim(t)
    BY <2>11, DeadlockVictimStep
  <2> QED BY <1>2, <2>1, <2>2, <2>3, <2>4, <2>5, <2>6, <2>7, <2>8, <2>9, <2>10, <2>11 DEF Step
<1>3. ASSUME NEW t \in Tx, NEW op \in Ops, Begin(t, op) PROVE IInv'
  BY <1>3, BeginStep
<1> QED BY <1>1, <1>2, <1>3 DEF Next

LEMMA IInvHolds == Spec => []IInv
  BY InitIInv, NextIInv, PTL DEF Spec

LEMMA IInvConsistent == IInv => VersionsConsistent
<1> SUFFICES ASSUME IInv PROVE VersionsConsistent
  OBVIOUS
<1>1. ASSUME NEW t \in Tx
      PROVE  /\ tx[t].pc \in Phase
             /\ tx[t].op \in Ops \cup {NoOp}
             /\ tx[t].v \in Version \cup {None}
             /\ tx[t].clear \cup tx[t].cleared \subseteq Version
             /\ tx[t].pc \in {"idle", "done", "failed"} =>
                  /\ \A v \in Version : lock[v] # t
                  /\ \A f \in Workflow : wfLock[f] # t
  <2>1. tx[t] \in TxRec
    BY DEF IInv, TablesOK
  <2>2. Locking(t, tx[t], lock, wfLock)
    BY DEF IInv, TxInv
  <2>3. tx[t].pc \in {"idle", "done", "failed"} =>
          /\ \A v \in Version : lock[v] # t
          /\ \A f \in Workflow : wfLock[f] # t
    BY <2>2 DEF Locking, Writing
  <2> QED BY <2>1, <2>3 DEF TxRec
<1>2. TypeOK
  BY <1>1 DEF TypeOK, IInv, TablesOK
<1> QED BY <1>2 DEF IInv, VersionsConsistent

\* The versions of a project fit together whatever transactions interleave, fail
\* or deadlock: there is always a latest version (a transaction that clears the
\* flag sets it on its own version), each version counts its runs (the increment
\* is read and written under the row's lock), and a request that has ended keeps
\* no lock.
THEOREM VersionsAreConsistent == Spec => []VersionsConsistent
  BY IInvHolds, IInvConsistent, PTL

\* What a single step may do to a released version.
LEMMA ReleasedStep ==
  ASSUME IInv, [Next]_vars, NEW v \in Version, row[v].exists, ~row[v].prerelease
  PROVE  /\ row'[v].latest => row[v].latest
         /\ runs'[v] # runs[v] => \E t \in Tx : /\ tx[t].pc = "commit" /\ tx[t].v = v
                                                /\ tx[t].op.op = "attest" /\ ~tx[t].op.block
<1>1. CASE UNCHANGED <<row, runs>>
  BY <1>1
<1>2. ASSUME NEW u \in Tx, Commit(u)
      PROVE  /\ row'[v].latest => row[v].latest
             /\ runs'[v] # runs[v] => \E t \in Tx : /\ tx[t].pc = "commit" /\ tx[t].v = v
                                                    /\ tx[t].op.op = "attest" /\ ~tx[t].op.block
  <2> DEFINE x == tx[u]
  <2>1. Knowing(u, x, lock, row) /\ x.pc = "commit"
    BY <1>2 DEF IInv, TxInv, Commit
  <2>2. v = x.v => ~Promoting(x) /\ ~Blocking(x)
    BY <2>1 DEF Knowing, Writing
  <2>3. row'[v].latest => row[v].latest
    BY <1>2, <2>2, CommitWrites
  <2>4. runs'[v] # runs[v] => x.v = v /\ x.op.op = "attest"
    BY <1>2 DEF IInv, TablesOK, Commit
  <2>5. runs'[v] # runs[v] => ~x.op.block
    BY <2>2, <2>4 DEF Blocking
  <2> QED BY <2>1, <2>3, <2>4, <2>5
<1>3. \/ UNCHANGED <<row, runs>>
      \/ \E u \in Tx : Commit(u)
  BY DEF Next, Step, vars, Begin, FindLatest, FindByName, FindDefault, LockVersion, Snapshot,
         ClearLatest, InsertVersion, CreateRun, AddWorkflowRunCount, DeadlockVictim, Rollback, Go
<1> QED BY <1>1, <1>2, <1>3

\* No transaction makes an existing released version the latest one, and none
\* that was told to block adds a run to it, even if the version was released
\* between the lookup and the write: whoever checks the version holds its lock
\* until it commits.
THEOREM ReleasedAreRejected == Spec => ReleasedVersionsRejected
<1>1. ASSUME IInv, [Next]_vars
      PROVE  [\A v \in Version : row[v].exists /\ ~row[v].prerelease =>
                /\ row'[v].latest => row[v].latest
                /\ runs'[v] # runs[v] =>
                     \E t \in Tx : /\ tx[t].pc = "commit" /\ tx[t].v = v
                                   /\ tx[t].op.op = "attest" /\ ~tx[t].op.block]_vars
  BY <1>1, ReleasedStep
<1> QED BY <1>1, IInvHolds, PTL DEF Spec, ReleasedVersionsRejected
=============================================================================
