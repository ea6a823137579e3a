------------------------ MODULE CraftingStateProofs ------------------------
(***************************************************************************)
(* The safety of the crafting state, for every set of processes, tokens,   *)
(* names and commands and every number of faults.                          *)
(***************************************************************************)
EXTENDS CraftingState, TLAPS

\* The names a command allocates or takes are well formed.
LEMMA StagedNamesType ==
  ASSUME NEW p \in Proc, TypeOK
  PROVE  StagedNames(p) \subseteq Name
<1>1. proc[p].made \in Nat /\ proc[p].cmd \in Command
  BY DEF TypeOK, Local
<1>2. <<p, "given", 0>> \in Name
  BY DEF Name
<1>3. CASE proc[p].cmd.op = "add"
  <2>1. proc[p].cmd \in AddCommand
    BY <1>1, <1>3 DEF Command, UserCommand, AddCommand, ArchiveCommand
  <2>2. AddName(p) \in Name
    BY <1>1, <2>1 DEF AddName, Name, Given, AddCommand
  <2>3. EvidenceName(p) \in Name
    BY <2>2 DEF EvidenceName, Name
  <2> QED BY <1>3, <2>2, <2>3 DEF StagedNames
<1>4. CASE proc[p].cmd.op = "archive"
  <2>1. proc[p].cmd \in ArchiveCommand
    BY <1>1, <1>4 DEF Command, UserCommand, AddCommand, ArchiveCommand
  <2>2. proc[p].cmd.base \in Base
    BY <2>1 DEF ArchiveCommand
  <2>3. ASSUME NEW s \in {"given", "archive"}, NEW k
        PROVE  Allocate(proc[p].mats, proc[p].cmd.base, s, k) \subseteq Name
    <3>1. FreeIndex(proc[p].mats, proc[p].cmd.base, s) \subseteq Nat
      BY DEF FreeIndex
    <3>2. ASSUME NEW i \in Nat PROVE <<proc[p].cmd.base, s, i>> \in Name
      BY <2>2, <3>2 DEF Name
    <3> QED BY <3>1, <3>2 DEF Allocate
  <2>4. StagedNames(p) = Allocate(proc[p].mats, proc[p].cmd.base, "given", Entries)
                           \cup Allocate(proc[p].mats, proc[p].cmd.base, "archive", 1)
    BY <1>4 DEF StagedNames
  <2> QED BY <2>3, <2>4
<1>5. CASE proc[p].cmd.op \notin {"add", "archive"}
  BY <1>2, <1>5 DEF StagedNames
<1> QED BY <1>3, <1>4, <1>5

\* What a process saves is a set of well-formed materials, with every name of
\* its copy and every name it stages.
LEMMA NewStateFacts ==
  ASSUME NEW p \in Proc, TypeOK
  PROVE  /\ NewState(p) \in SUBSET Material
         /\ Names(proc[p].mats) \subseteq Names(NewState(p))
         /\ StagedNames(p) \subseteq Names(NewState(p))
         /\ Distinct(proc[p].mats) => Distinct(NewState(p))
<1>1. proc[p].kind \in Nat /\ proc[p].mats \in SUBSET Material
  BY DEF TypeOK, Local
<1>2. Staged(p) \in SUBSET Material
  BY <1>1, StagedNamesType DEF Staged, Material
<1>3. ASSUME NEW n \in StagedNames(p) PROVE \E m \in Staged(p) : m.name = n
  <2>1. [name |-> n, by |-> p, kind |-> proc[p].kind] \in Staged(p)
    BY DEF Staged
  <2> QED BY <2>1
<1>4. Distinct(Staged(p))
  BY DEF Staged, Distinct
<1> QED BY <1>1, <1>2, <1>3, <1>4 DEF NewState, Put, Names, Distinct

\* The successor phases are phases.
LEMMA PhaseType ==
  ASSUME NEW p \in Proc
  PROVE  AfterSave(p) \in Phase /\ AfterError(p) \in Phase /\ AfterLoad(p) \in Phase
BY DEF AfterSave, AfterError, AfterLoad, Phase, Saving

\* Moving a process to another phase keeps its local state well formed.
LEMMA GoType ==
  ASSUME NEW p \in Proc, NEW pc \in Phase, TypeOK, Go(p, pc)
  PROVE  proc' \in [Proc -> Local]
BY DEF TypeOK, Go, Local

\* So does replacing its copy of the materials with one of the right type.
LEMMA TwoFields ==
  ASSUME NEW p \in Proc, NEW pc \in Phase, NEW m \in SUBSET Material, TypeOK,
         proc' = [proc EXCEPT ![p].pc = pc, ![p].mats = m]
  PROVE  proc' \in [Proc -> Local]
<1>1. proc[p] \in Local
  BY DEF TypeOK
<1>2. [proc[p] EXCEPT !.pc = pc, !.mats = m] \in Local
  BY <1>1 DEF Local
<1>3. proc' = [proc EXCEPT ![p] = [proc[p] EXCEPT !.pc = pc, !.mats = m]]
  BY DEF TypeOK
<1> QED BY <1>2, <1>3 DEF TypeOK

\* A transient error keeps the local state well formed.
LEMMA TransientErrorType ==
  ASSUME NEW p \in Proc, TypeOK, TransientError(p)
  PROVE  proc' \in [Proc -> Local]
<1>1. NewState(p) \in SUBSET Material /\ AfterError(p) \in Phase /\ "failed" \in Phase
  BY NewStateFacts, PhaseType DEF Phase
<1> DEFINE detecting == proc[p].pc = "save" /\ proc[p].cmd.op = "add" /\ proc[p].cmd.auto
<1>2. CASE detecting /\ ~(proc[p].kind < proc[p].cmd.kinds)
  BY <1>1, <1>2, GoType DEF TransientError
<1>3. CASE detecting /\ proc[p].kind < proc[p].cmd.kinds
  <2>1. proc' = [proc EXCEPT ![p].mats = NewState(p), ![p].kind = @ + 1, ![p].made = @ + 1]
    BY <1>3 DEF TransientError
  <2> QED BY <1>1, <2>1 DEF TypeOK, Local
<1>4. CASE ~detecting
  <2>1. proc' = [proc EXCEPT ![p].pc = AfterError(p), ![p].mats = NewState(p)]
    BY <1>4 DEF TransientError
  <2> QED BY <1>1, <2>1, TwoFields
<1> QED BY <1>2, <1>3, <1>4

\* A committed save is well formed and its digest is the new counter.
LEMMA CommitType ==
  ASSUME NEW p \in Proc, TypeOK, Commit(p)
  PROVE  /\ rev' = rev + 1 /\ rev' \in Nat
         /\ stored' \in [digest : 0..rev', token : {TokenOf[q] : q \in Proc} \cup {"none"},
                        mats : SUBSET Material]
         /\ stored'.digest = rev + 1
         /\ stored' # NoState
         /\ stored'.mats = NewState(p)
         /\ stored'.token = TokenOf[p]
BY NewStateFacts DEF TypeOK, Commit, NoState

\* Type correctness is preserved by every step.
LEMMA TypeStep == TypeOK /\ [Next]_vars => TypeOK'
<1> SUFFICES ASSUME TypeOK, [Next]_vars PROVE TypeOK'
  OBVIOUS
<1> USE ConstantsAssumption
<1>0. NoState \in [digest : 0..rev, token : {TokenOf[q] : q \in Proc} \cup {"none"},
                   mats : SUBSET Material]
  BY DEF TypeOK, NoState
<1>1. ASSUME NEW p \in Proc, SaveOK(p) PROVE TypeOK'
  <2>1. proc' \in [Proc -> Local]
    <3>1. NewState(p) \in SUBSET Material /\ AfterSave(p) \in Phase
      BY NewStateFacts, PhaseType
    <3>2. rev + 1 \in Nat /\ acked \in SUBSET Name
      BY DEF TypeOK
    <3> DEFINE s == IF proc[p].cmd.op = "push" THEN acked ELSE proc[p].sealed
               r == [proc[p] EXCEPT !.pc = AfterSave(p), !.mats = NewState(p),
                                    !.base = rev + 1, !.sealed = s]
    <3>3. proc[p] \in Local
      BY DEF TypeOK
    <3>4. s \in SUBSET Name
      BY <3>2, <3>3 DEF Local
    <3>5. r \in Local
      <4> HIDE DEF s
      <4> QED BY <3>1, <3>2, <3>3, <3>4 DEF Local
    <3>6. proc' = [proc EXCEPT ![p] = r]
      BY <1>1 DEF SaveOK, TypeOK
    <3> QED BY <3>5, <3>6 DEF TypeOK
  <2>2. acked' \in SUBSET Name
    <3>1. ASSUME proc[p].cmd.op = "add" PROVE AddName(p) \in Name
      <4>1. proc[p].made \in Nat /\ proc[p].cmd \in AddCommand
        BY <3>1 DEF TypeOK, Local, Command, UserCommand, ArchiveCommand, AddCommand
      <4> QED BY <4>1 DEF AddName, Name, Given, AddCommand
    <3> QED BY <1>1, <3>1, StagedNamesType DEF SaveOK, Added, TypeOK
  <2> QED BY <1>1, <2>1, <2>2, CommitType DEF SaveOK, TypeOK
<1>2. ASSUME NEW p \in Proc, SaveReplyLost(p) PROVE TypeOK'
  BY <1>2, TransientErrorType, CommitType DEF SaveReplyLost, TypeOK
<1>3. ASSUME NEW p \in Proc, SaveUnavailable(p) PROVE TypeOK'
  BY <1>3, TransientErrorType DEF SaveUnavailable, TypeOK
<1>4. ASSUME NEW p \in Proc, SaveConflict(p) PROVE TypeOK'
  <2>1. NewState(p) \in SUBSET Material /\ AfterError(p) \in Phase
    BY NewStateFacts, PhaseType
  <2>2. proc' \in [Proc -> Local]
    BY <1>4, <2>1, TwoFields DEF SaveConflict
  <2> QED BY <1>4, <2>2 DEF SaveConflict, TypeOK
<1>5. ASSUME NEW p \in Proc, SaveNotFound(p) PROVE TypeOK'
  <2>1. (IF proc[p].pc \in {"save", "evidence"} THEN "failed" ELSE AfterError(p)) \in Phase
    BY PhaseType DEF Phase
  <2> QED BY <1>5, <2>1, GoType DEF SaveNotFound, TypeOK
<1>6. ASSUME NEW p \in Proc, Reload(p) PROVE TypeOK'
  <2>1. /\ {"policies", "collect", "failed"} \subseteq Phase
        /\ stored.digest \in Nat /\ stored.mats \in SUBSET Material
    BY DEF Phase, Saving, TypeOK
  <2>2. proc' \in [Proc -> Local]
    BY <1>6, <2>1, GoType DEF Reload, TypeOK, Local
  <2> QED BY <1>6, <2>2 DEF Reload, TypeOK
<1>7. ASSUME NEW p \in Proc, Load(p) PROVE TypeOK'
  <2>1. /\ AfterLoad(p) \in Phase /\ "failed" \in Phase
        /\ stored.digest \in Nat /\ stored.mats \in SUBSET Material
    BY PhaseType DEF Phase, TypeOK
  <2>2. CASE Readable(p)
    <3>1. proc' = [proc EXCEPT ![p].pc = AfterLoad(p), ![p].mats = stored.mats,
                               ![p].base = stored.digest, ![p].kind = 1,
                               ![p].made = @ + 1, ![p].attempts = @ + 1]
      BY <1>7, <2>2 DEF Load
    <3>2. proc[p].attempts + 1 \in 0..MaxAttempts /\ proc[p].made + 1 \in Nat
      BY <1>7 DEF Load, TypeOK, Local
    <3>3. proc' \in [Proc -> Local]
      BY <2>1, <3>1, <3>2 DEF TypeOK, Local
    <3> QED BY <1>7, <3>3 DEF Load, TypeOK
  <2>3. CASE ~Readable(p)
    BY <1>7, <2>1, <2>3, GoType DEF Load, TypeOK
  <2> QED BY <2>2, <2>3
<1>8. ASSUME NEW p \in Proc, NEW cmd \in Commands[p], Start(p, cmd) PROVE TypeOK'
  <2>1. cmd \in Command /\ "load" \in Phase
    BY DEF Command, Phase
  <2> DEFINE r == [proc[p] EXCEPT !.pc = "load", !.cmd = cmd]
  <2>2. proc[p] \in Local
    BY DEF TypeOK
  <2>3. r \in Local
    BY <2>1, <2>2 DEF Local
  <2>4. proc' = [proc EXCEPT ![p] = r]
    BY <1>8 DEF Start, TypeOK
  <2> QED BY <1>8, <2>3, <2>4 DEF Start, TypeOK
<1>9. ASSUME NEW p \in Proc, StoreSave(p) PROVE TypeOK'
  <2>1. "finish" \in Phase /\ "load" \in Phase
    BY DEF Phase
  <2>2. proc' \in [Proc -> Local]
    BY <1>9, <2>1, GoType DEF StoreSave
  <2> QED BY <1>9, <2>2 DEF StoreSave, TypeOK, Local
<1>10. ASSUME NEW p \in Proc,
              \/ EnvFails(p) \/ CollectSkip(p) \/ Wipe(p) \/ GiveUp(p)
              \/ StoreFinish(p) \/ CallFails(p) \/ Cancel(p) \/ Reset(p)
       PROVE  TypeOK'
  <2>1. {"wipe", "policies", "reload", "failed", "reset", "load", "done"} \subseteq Phase
    BY DEF Phase, Saving
  <2>2. CASE CallFails(p)
    <3> DEFINE a == IF proc[p].pc = "load" THEN proc[p].attempts + 1 ELSE proc[p].attempts
    <3>1. a \in 0..MaxAttempts
      BY <2>2 DEF CallFails, TypeOK, Local
    <3>2. PICK q \in Phase : proc' = [proc EXCEPT ![p].pc = q, ![p].attempts = a]
      BY <2>1, <2>2 DEF CallFails
    <3> HIDE DEF a
    <3> DEFINE r == [proc[p] EXCEPT !.pc = q, !.attempts = a]
    <3>3. proc[p] \in Local /\ proc' = [proc EXCEPT ![p] = r]
      BY <3>2 DEF TypeOK
    <3>4. r \in Local
      BY <3>1, <3>3 DEF Local
    <3>5. proc' \in [Proc -> Local]
      BY <3>3, <3>4 DEF TypeOK
    <3> QED BY <2>2, <3>5 DEF CallFails, TypeOK
  <2>3. CASE ~CallFails(p)
    <3>1. (IF proc[p].cmd.op = "reset" THEN "failed" ELSE "load") \in Phase
      BY <2>1
    <3>2. proc' \in [Proc -> Local]
      BY <1>10, <2>1, <2>3, <3>1, GoType
         DEF EnvFails, CollectSkip, Wipe, GiveUp, StoreFinish, Cancel, Reset
    <3> QED BY <1>0, <1>10, <2>3, <3>2
         DEF EnvFails, CollectSkip, Wipe, GiveUp, StoreFinish, Cancel, Reset, TypeOK
  <2> QED BY <2>2, <2>3
<1>11. CASE ListRun
  BY <1>11 DEF ListRun, TypeOK
<1>12. CASE ExpireRun
  BY <1>0, <1>12 DEF ExpireRun, TypeOK
<1>13. CASE UNCHANGED vars
  BY <1>13 DEF vars, TypeOK
<1> QED BY <1>1, <1>2, <1>3, <1>4, <1>5, <1>6, <1>7, <1>8, <1>9, <1>10, <1>11,
           <1>12, <1>13 DEF Next, Step

\* The initial state has its types.
LEMMA InitType == Init => TypeOK
<1> SUFFICES ASSUME Init PROVE TypeOK
  OBVIOUS
<1> USE ConstantsAssumption
<1>1. proc \in [Proc -> Local]
  <2> SUFFICES ASSUME NEW p \in Proc PROVE
        [pc |-> IF p = Initiator THEN "create" ELSE "ready",
         cmd |-> [op |-> IF p = Initiator THEN "init" ELSE "none"],
         mats |-> {}, base |-> 0, kind |-> 1, made |-> 0,
         attempts |-> 0, sealed |-> {}] \in Local
    BY DEF Init
  <2>1. [op |-> IF p = Initiator THEN "init" ELSE "none"] \in Command
    BY DEF Command
  <2>2. (IF p = Initiator THEN "create" ELSE "ready") \in Phase
    BY DEF Phase, Saving
  <2> QED BY <2>1, <2>2 DEF Local
<1>2. rev = 0 /\ stored \in [digest : 0..rev, mats : SUBSET Material,
                            token : {TokenOf[p] : p \in Proc} \cup {"none"}]
  BY DEF Init, NoState
<1>3. bundle \in [mats : SUBSET Material, sealed : SUBSET Name, by : Proc \cup {"none"}]
  BY DEF Init, NoBundle
<1>4. faults \in 0..MaxFaults
  BY DEF Init
<1>5. /\ runState = "initialized" /\ listed = FALSE /\ acked = {}
  BY DEF Init
<1> QED BY <1>1, <1>2, <1>3, <1>4, <1>5 DEF TypeOK

\* The specification is type correct.
THEOREM TypeCorrect == Spec => []TypeOK
BY InitType, TypeStep, PTL DEF Spec

-----------------------------------------------------------------------------
\* A step of a process leaves the other processes alone.
LEMMA OthersUnchanged ==
  ASSUME NEW p \in Proc, TypeOK,
         Step(p) \/ \E cmd \in Commands[p] : Start(p, cmd)
  PROVE  \A q \in Proc \ {p} : proc'[q] = proc[q]
BY DEF Step, Start, SaveOK, SaveReplyLost, SaveUnavailable, SaveConflict, SaveNotFound,
       EnvFails, CollectSkip, Reload, Wipe, Load, GiveUp, StoreSave, StoreFinish,
       CallFails, Cancel, Reset, TransientError, Go, TypeOK

\* Only a save that succeeds goes on to the evidence.
LEMMA AddedKept ==
  ASSUME NEW p \in Proc, AddedInCopy, proc'[p].pc # "evidence",
         \A q \in Proc \ {p} : proc'[q] = proc[q]
  PROVE  AddedInCopy'
BY DEF AddedInCopy, AddName

\* A save that fails, or whose reply is lost, leaves the process with the base
\* digest it had and with at least the names it had.
LEMMA ErrorFacts ==
  ASSUME NEW p \in Proc, IInv, proc[p].pc \in Saving,
         \/ TransientError(p)
         \/ proc' = [proc EXCEPT ![p].pc = AfterError(p), ![p].mats = NewState(p)]
         \/ Go(p, IF proc[p].pc \in {"save", "evidence"} THEN "failed" ELSE AfterError(p))
  PROVE  /\ proc'[p].base = proc[p].base
         /\ proc'[p].cmd = proc[p].cmd
         /\ Names(proc[p].mats) \subseteq Names(proc'[p].mats)
         /\ Distinct(proc'[p].mats)
         /\ proc'[p].pc \notin {"create", "ready", "store", "finish", "done"}
         /\ p = Initiator => proc'[p].pc \in InitPhase \cup {"failed"}
         /\ p # Initiator => proc'[p].pc \notin InitPhase
         /\ proc'[p].pc \in Saving => proc'[p].pc = "save" /\ proc[p].pc = "save"
         /\ \A q \in Proc \ {p} : proc'[q] = proc[q]
<1>1. TypeOK /\ proc[p] \in Local
  BY DEF IInv, TypeOK
<1>2. /\ Names(proc[p].mats) \subseteq Names(NewState(p))
      /\ Distinct(proc[p].mats) /\ Distinct(NewState(p))
  BY <1>1, NewStateFacts DEF IInv, DistinctNames
<1>3. /\ p = Initiator => proc[p].cmd.op = "init" /\ proc[p].pc \notin {"save", "evidence"}
      /\ p # Initiator => proc[p].pc \in {"save", "evidence"}
  BY DEF IInv, Roles, InitPhase, Saving
<1>4. CASE TransientError(p)
  <2>1. CASE ~(proc[p].pc = "save" /\ proc[p].cmd.op = "add" /\ proc[p].cmd.auto)
    <3>1. proc' = [proc EXCEPT ![p].pc = AfterError(p), ![p].mats = NewState(p)]
      BY <1>4, <2>1 DEF TransientError
    <3> QED BY <1>1, <1>2, <1>3, <3>1 DEF AfterError, InitPhase, Saving, TypeOK
  <2>2. CASE proc[p].pc = "save" /\ proc[p].cmd.op = "add" /\ proc[p].cmd.auto
    <3>1. p # Initiator /\ proc[p].pc = "save"
      BY <1>3, <2>2
    <3>2. \/ proc' = [proc EXCEPT ![p].mats = NewState(p), ![p].kind = @ + 1, ![p].made = @ + 1]
          \/ Go(p, "failed")
      BY <1>4, <2>2 DEF TransientError
    <3>3. CASE Go(p, "failed")
      BY <1>1, <1>2, <3>1, <3>3 DEF Go, InitPhase, Saving, TypeOK
    <3>4. CASE proc' = [proc EXCEPT ![p].mats = NewState(p), ![p].kind = @ + 1,
                                    ![p].made = @ + 1]
      <4>1. /\ proc'[p].base = proc[p].base /\ proc'[p].cmd = proc[p].cmd
            /\ proc'[p].pc = "save" /\ proc'[p].mats = NewState(p)
            /\ \A q \in Proc \ {p} : proc'[q] = proc[q]
        BY <1>1, <3>1, <3>4 DEF TypeOK, Local
      <4> QED BY <1>2, <3>1, <4>1 DEF InitPhase
    <3> QED BY <3>2, <3>3, <3>4
  <2> QED BY <2>1, <2>2
<1>5. CASE proc' = [proc EXCEPT ![p].pc = AfterError(p), ![p].mats = NewState(p)]
  BY <1>1, <1>2, <1>3, <1>5 DEF AfterError, InitPhase, Saving, TypeOK
<1>6. CASE Go(p, IF proc[p].pc \in {"save", "evidence"} THEN "failed" ELSE AfterError(p))
  BY <1>1, <1>2, <1>3, <1>6 DEF Go, AfterError, InitPhase, Saving, TypeOK
<1> QED BY <1>4, <1>5, <1>6

\* What a save commits has every acknowledged name, and is readable by the
\* initiator: the base digest is checked, or nothing was acknowledged yet.
LEMMA CommitSafe ==
  ASSUME NEW p \in Proc, IInv, proc[p].pc \in Saving, Commit(p)
  PROVE  /\ acked \subseteq Names(NewState(p))
         /\ stored # NoState => Names(stored.mats) \subseteq Names(NewState(p))
                               \/ proc[p].pc = "create"
         /\ TokenOf[p] = TokenOf[Initiator]
         /\ \A q \in Proc : proc[q].base < rev + 1
<1>1. Names(proc[p].mats) \subseteq Names(NewState(p))
  BY NewStateFacts DEF IInv
<1>2. CASE proc[p].base = 0
  <2>1. proc[p].pc = "create" /\ p = Initiator /\ acked = {}
    BY <1>2 DEF IInv, BlindSaveOnce, Roles, InitPhase, InitFirst, Saving
  <2> QED BY <2>1 DEF IInv, DigestsKnown, TypeOK, Local
<1>3. CASE proc[p].base # 0
  <2>1. stored # NoState /\ stored.digest = proc[p].base
    BY <1>3 DEF Commit, BaseMatches
  <2>2. Names(stored.mats) \subseteq Names(proc[p].mats) /\ acked \subseteq Names(stored.mats)
    BY <2>1 DEF IInv, CopyCurrent, NoLostUpdate
  <2>3. TokenOf[p] = TokenOf[Initiator]
    BY DEF IInv, TokensAgree
  <2>4. \A q \in Proc : proc[q].base < rev + 1
    BY DEF IInv, DigestsKnown, TypeOK, Local
  <2> QED BY <1>1, <2>2, <2>3, <2>4
<1> QED BY <1>2, <1>3

\* A save whose reply arrives preserves the invariant.
LEMMA SaveOKStep ==
  ASSUME NEW p \in Proc, IInv, TypeOK', SaveOK(p)
  PROVE  IInv'
<1> USE ConstantsAssumption
<1>1. proc[p].pc \in Saving /\ Commit(p) /\ proc[p] \in Local /\ TypeOK
  BY DEF SaveOK, IInv, TypeOK
<1>2. /\ stored'.digest = rev + 1 /\ stored' # NoState /\ rev' = rev + 1 /\ rev \in Nat
      /\ stored'.mats = NewState(p) /\ stored'.token = TokenOf[p]
  BY <1>1, CommitType DEF TypeOK
<1>3. /\ proc'[p].pc = AfterSave(p) /\ proc'[p].mats = NewState(p)
      /\ proc'[p].base = rev + 1 /\ proc'[p].cmd = proc[p].cmd /\ proc'[p].made = proc[p].made
      /\ proc[p].cmd.op = "push" => proc'[p].sealed = acked
      /\ \A q \in Proc \ {p} : proc'[q] = proc[q]
  BY <1>1 DEF SaveOK, TypeOK, Local
<1>4. /\ acked \subseteq Names(NewState(p)) /\ TokenOf[p] = TokenOf[Initiator]
      /\ \A q \in Proc : proc[q].base < rev + 1
  BY <1>1, CommitSafe
<1>5. /\ p = Initiator => proc[p].cmd.op = "init" /\ proc[p].pc \notin {"save", "evidence"}
      /\ p # Initiator => proc[p].pc \in {"save", "evidence"}
  BY <1>1 DEF IInv, Roles, InitPhase, Saving
<1>6. acked' = acked \/ (p # Initiator /\ acked' = acked \cup Added(p))
  BY <1>5 DEF SaveOK
<1>7. acked' \subseteq Names(NewState(p))
  <2>1. StagedNames(p) \subseteq Names(NewState(p))
    BY <1>1, NewStateFacts DEF IInv
  <2>2. ASSUME proc[p].cmd.op = "add" PROVE AddName(p) \in Names(NewState(p))
    <3>1. CASE proc[p].pc = "evidence"
      BY <1>1, <3>1, NewStateFacts DEF IInv, AddedInCopy
    <3>2. CASE proc[p].pc # "evidence"
      BY <2>1, <2>2, <3>2 DEF StagedNames
    <3> QED BY <3>1, <3>2
  <2>3. Added(p) \subseteq Names(NewState(p))
    BY <2>1, <2>2 DEF Added
  <2> QED BY <1>4, <1>6, <2>3
<1>8. Distinct(NewState(p))
  BY <1>1, NewStateFacts DEF IInv, DistinctNames
<1>9. /\ p = Initiator => AfterSave(p) \in (InitPhase \ {"create"}) \cup {"done"}
      /\ p # Initiator => AfterSave(p) \in {"store", "done", "evidence"}
      /\ AfterSave(p) = "evidence" => proc[p].pc = "save" /\ proc[p].cmd.op = "add"
      /\ AfterSave(p) \in {"store", "finish"} => proc[p].cmd.op = "push"
  BY <1>1, <1>5 DEF AfterSave, InitPhase, Saving
<1>10. Roles'
  BY <1>3, <1>5, <1>9 DEF IInv, Roles, InitPhase
<1>11. InitFirst'
  <2>1. CASE p = Initiator
    BY <1>3, <1>6, <2>1, <1>1 DEF IInv, InitFirst, Saving
  <2>2. CASE p # Initiator
    BY <1>3, <1>5, <2>2 DEF IInv, InitFirst
  <2> QED BY <2>1, <2>2
<1>12. BlindSaveOnce' /\ AddedInCopy'
  <2>1. BlindSaveOnce'
    BY <1>2, <1>3, <1>4 DEF IInv, BlindSaveOnce
  <2>2. ASSUME AfterSave(p) = "evidence"
        PROVE  proc'[p].cmd.op = "add" /\ AddName(p)' \in Names(proc'[p].mats)
    <3>1. AddName(p)' = AddName(p) /\ StagedNames(p) = {AddName(p)}
      BY <1>3, <1>9, <2>2 DEF AddName, StagedNames
    <3> QED BY <1>1, <1>3, <1>9, <2>2, <3>1, NewStateFacts
  <2>3. ASSUME NEW q \in Proc \ {p}, proc'[q].pc = "evidence"
        PROVE  proc'[q].cmd.op = "add" /\ AddName(q)' \in Names(proc'[q].mats)
    BY <1>3, <2>3 DEF IInv, AddedInCopy, AddName
  <2>4. AddedInCopy'
    BY <1>3, <2>2, <2>3 DEF AddedInCopy
  <2> QED BY <2>1, <2>4
<1>13. DigestsKnown'
  BY <1>2, <1>3, <1>4 DEF IInv, DigestsKnown, TypeOK, Local
<1>14. CopyCurrent'
  BY <1>2, <1>3, <1>4 DEF CopyCurrent
<1>15. TokensAgree'
  BY <1>3, <1>4 DEF IInv, TokensAgree
<1>16. SealedInCopy'
  BY <1>3, <1>4, <1>9 DEF IInv, SealedInCopy
<1>17. DistinctNames'
  BY <1>2, <1>3, <1>8 DEF IInv, DistinctNames
<1>18. NoLostUpdate' /\ PassphraseStable'
  BY <1>2, <1>4, <1>7 DEF NoLostUpdate, PassphraseStable
<1>19. AttestationCoversAcked'
  BY DEF SaveOK, IInv, AttestationCoversAcked
<1> QED BY <1>10, <1>11, <1>12, <1>13, <1>14, <1>15, <1>16, <1>17, <1>18, <1>19 DEF IInv

\* So does a save whose reply is lost.
LEMMA SaveReplyLostStep ==
  ASSUME NEW p \in Proc, IInv, TypeOK', SaveReplyLost(p)
  PROVE  IInv'
<1> USE ConstantsAssumption
<1>1. proc[p].pc \in Saving /\ Commit(p) /\ proc[p] \in Local /\ TypeOK /\ TransientError(p)
  BY DEF SaveReplyLost, IInv, TypeOK
<1>2. /\ stored'.digest = rev + 1 /\ stored' # NoState /\ rev' = rev + 1 /\ rev \in Nat
      /\ stored'.mats = NewState(p) /\ stored'.token = TokenOf[p]
  BY <1>1, CommitType DEF TypeOK
<1>3. /\ proc'[p].base = proc[p].base
      /\ proc'[p].cmd = proc[p].cmd
      /\ Distinct(proc'[p].mats)
      /\ proc'[p].pc \notin {"create", "ready", "store", "finish", "done"}
      /\ p = Initiator => proc'[p].pc \in InitPhase \cup {"failed"}
      /\ p # Initiator => proc'[p].pc \notin InitPhase
      /\ proc'[p].pc \in Saving => proc'[p].pc = "save" /\ proc[p].pc = "save"
      /\ \A q \in Proc \ {p} : proc'[q] = proc[q]
  BY <1>1, ErrorFacts
<1>4. /\ acked \subseteq Names(NewState(p)) /\ TokenOf[p] = TokenOf[Initiator]
      /\ \A q \in Proc : proc[q].base < rev + 1
  BY <1>1, CommitSafe
<1>5. UNCHANGED <<acked, bundle>>
  BY DEF SaveReplyLost
<1>6. Distinct(NewState(p))
  BY <1>1, NewStateFacts DEF IInv, DistinctNames
<1>7. Roles'
  BY <1>3 DEF IInv, Roles
<1>8. InitFirst'
  BY <1>1, <1>3, <1>5 DEF IInv, InitFirst, Saving
<1>9. BlindSaveOnce' /\ AddedInCopy'
  <2>1. proc'[p].pc # "evidence"
    BY <1>3 DEF Saving
  <2> QED BY <1>1, <1>2, <1>3, <1>4, <2>1, AddedKept
          DEF IInv, BlindSaveOnce, TypeOK, Local
<1>10. DigestsKnown'
  BY <1>2, <1>3, <1>4 DEF IInv, DigestsKnown, TypeOK, Local
<1>11. CopyCurrent'
  BY <1>2, <1>3, <1>4 DEF CopyCurrent, TypeOK, Local
<1>12. TokensAgree'
  BY <1>3, <1>4 DEF IInv, TokensAgree
<1>13. SealedInCopy'
  BY <1>3 DEF IInv, SealedInCopy
<1>14. DistinctNames'
  BY <1>2, <1>3, <1>6 DEF IInv, DistinctNames
<1>15. NoLostUpdate' /\ PassphraseStable' /\ AttestationCoversAcked'
  BY <1>2, <1>4, <1>5 DEF IInv, NoLostUpdate, PassphraseStable, AttestationCoversAcked
<1> QED BY <1>7, <1>8, <1>9, <1>10, <1>11, <1>12, <1>13, <1>14, <1>15 DEF IInv

\* A save that does not commit preserves the invariant.
LEMMA SaveErrorStep ==
  ASSUME NEW p \in Proc, IInv, TypeOK',
         SaveUnavailable(p) \/ SaveConflict(p) \/ SaveNotFound(p)
  PROVE  IInv'
<1> USE ConstantsAssumption
<1>1. /\ proc[p].pc \in Saving
      /\ \/ TransientError(p)
         \/ proc' = [proc EXCEPT ![p].pc = AfterError(p), ![p].mats = NewState(p)]
         \/ Go(p, IF proc[p].pc \in {"save", "evidence"} THEN "failed" ELSE AfterError(p))
  BY DEF SaveUnavailable, SaveConflict, SaveNotFound
<1>2. UNCHANGED <<stored, rev, acked, bundle>>
  BY DEF SaveUnavailable, SaveConflict, SaveNotFound
<1>3. /\ proc'[p].base = proc[p].base
      /\ proc'[p].cmd = proc[p].cmd
      /\ Names(proc[p].mats) \subseteq Names(proc'[p].mats)
      /\ Distinct(proc'[p].mats)
      /\ proc'[p].pc \notin {"create", "ready", "store", "finish", "done"}
      /\ p = Initiator => proc'[p].pc \in InitPhase \cup {"failed"}
      /\ p # Initiator => proc'[p].pc \notin InitPhase
      /\ proc'[p].pc \in Saving => proc'[p].pc = "save" /\ proc[p].pc = "save"
      /\ \A q \in Proc \ {p} : proc'[q] = proc[q]
  BY <1>1, ErrorFacts
<1>4. Roles'
  BY <1>3 DEF IInv, Roles
<1>5. InitFirst'
  BY <1>1, <1>2, <1>3 DEF IInv, InitFirst, Saving
<1>6. BlindSaveOnce' /\ AddedInCopy'
  <2>1. proc'[p].pc # "evidence"
    BY <1>3 DEF Saving
  <2> QED BY <1>1, <1>2, <1>3, <2>1, AddedKept DEF IInv, BlindSaveOnce
<1>7. DigestsKnown'
  BY <1>2, <1>3 DEF IInv, DigestsKnown
<1>8. CopyCurrent'
  BY <1>1, <1>2, <1>3 DEF IInv, CopyCurrent
<1>9. TokensAgree'
  BY <1>1, <1>3 DEF IInv, TokensAgree
<1>10. SealedInCopy'
  BY <1>3 DEF IInv, SealedInCopy
<1>11. DistinctNames'
  BY <1>2, <1>3 DEF IInv, DistinctNames
<1>12. NoLostUpdate' /\ PassphraseStable' /\ AttestationCoversAcked'
  BY <1>2 DEF IInv, NoLostUpdate, PassphraseStable, AttestationCoversAcked
<1> QED BY <1>4, <1>5, <1>6, <1>7, <1>8, <1>9, <1>10, <1>11, <1>12 DEF IInv

\* A read gives the process a current copy.
LEMMA ReadStep ==
  ASSUME NEW p \in Proc, IInv, TypeOK', Load(p) \/ Reload(p)
  PROVE  IInv'
<1> USE ConstantsAssumption
<1>0. UNCHANGED <<stored, rev, acked, bundle>> /\ TypeOK /\ proc[p] \in Local
  BY DEF Load, Reload, IInv, TypeOK
<1>1. \A q \in Proc \ {p} : proc'[q] = proc[q]
  BY <1>0 DEF Load, Reload, Go, TypeOK
<1>2. /\ proc[p].pc \in {"load", "collectors", "reload"}
      /\ proc[p].pc # "load" <=> p = Initiator
  BY DEF Load, Reload, IInv, Roles, InitPhase
<1>3. proc'[p].cmd = proc[p].cmd
  BY <1>0 DEF Load, Reload, Go, TypeOK, Local
<1>4. /\ p = Initiator => proc'[p].pc \in {"collect", "policies", "failed"}
      /\ p # Initiator => proc'[p].pc \in {"save", "cancel", "failed"}
  <2>1. AfterLoad(p) \in {"save", "cancel", "failed"}
    BY DEF AfterLoad
  <2>2. ASSUME Reload(p) PROVE p = Initiator /\ proc'[p].pc \in {"collect", "policies", "failed"}
    BY <1>0, <1>2, <2>2 DEF Reload, Go, TypeOK, Local
  <2>3. ASSUME Load(p) PROVE p # Initiator /\ proc'[p].pc \in {AfterLoad(p), "failed"}
    BY <1>0, <1>2, <2>3 DEF Load, Go, TypeOK, Local
  <2> QED BY <2>1, <2>2, <2>3
<1>5. \/ Readable(p) /\ proc'[p].mats = stored.mats /\ proc'[p].base = stored.digest
      \/ /\ proc'[p].mats = proc[p].mats /\ proc'[p].base = proc[p].base
         /\ proc'[p].pc \notin Saving
  BY <1>0, <1>2 DEF Load, Reload, Go, TypeOK, Local, Saving
<1>6. Roles'
  BY <1>1, <1>2, <1>3, <1>4 DEF IInv, Roles, InitPhase
<1>7. InitFirst'
  BY <1>0, <1>1, <1>2, <1>4 DEF IInv, InitFirst
<1>8. BlindSaveOnce' /\ AddedInCopy'
  <2>1. stored # NoState => stored.digest # 0
    BY <1>0 DEF IInv, DigestsKnown, TypeOK
  <2>2. proc'[p].pc \in Saving => proc'[p].base # 0
    BY <1>5, <2>1 DEF Readable
  <2>3. BlindSaveOnce'
    BY <1>1, <2>2 DEF IInv, BlindSaveOnce
  <2>4. AddedInCopy'
    BY <1>1, <1>4, AddedKept DEF IInv
  <2> QED BY <2>3, <2>4
<1>9. DigestsKnown'
  BY <1>0, <1>1, <1>5 DEF IInv, DigestsKnown, TypeOK
<1>10. CopyCurrent'
  BY <1>0, <1>1, <1>5 DEF IInv, CopyCurrent
<1>11. TokensAgree'
  BY <1>0, <1>1, <1>5 DEF IInv, TokensAgree, Readable, PassphraseStable
<1>12. SealedInCopy'
  BY <1>1, <1>4 DEF IInv, SealedInCopy
<1>13. DistinctNames'
  BY <1>0, <1>1, <1>5 DEF IInv, DistinctNames
<1>14. NoLostUpdate' /\ PassphraseStable' /\ AttestationCoversAcked'
  BY <1>0 DEF IInv, NoLostUpdate, PassphraseStable, AttestationCoversAcked
<1> QED BY <1>6, <1>7, <1>8, <1>9, <1>10, <1>11, <1>12, <1>13, <1>14 DEF IInv

\* A step that drops the state.
LEMMA DropStep ==
  ASSUME IInv, TypeOK', ExpireRun \/ \E p \in Proc :
           Wipe(p) \/ StoreFinish(p) \/ Cancel(p) \/ Reset(p)
  PROVE  IInv'
<1> USE ConstantsAssumption
<1>1. stored' = NoState /\ UNCHANGED <<rev, acked, bundle>> /\ TypeOK
  BY DEF ExpireRun, Wipe, StoreFinish, Cancel, Reset, IInv
<1>2. Distinct({})
  BY DEF Distinct
<1>3. NoState.mats = {}
  BY DEF NoState
<1>4. ASSUME UNCHANGED proc PROVE IInv'
  BY <1>1, <1>2, <1>3, <1>4
     DEF IInv, Roles, InitFirst, BlindSaveOnce, DigestsKnown, CopyCurrent, TokensAgree,
         SealedInCopy, DistinctNames, NoLostUpdate, AttestationCoversAcked, PassphraseStable,
         AddedInCopy, AddName
<1>5. ASSUME NEW p \in Proc, NEW pc \in {"failed", "reset", "done", "load"}, Go(p, pc),
             pc # "failed" => p # Initiator,
             proc[p].pc \in {"wipe", "finish", "cancel", "reset"},
             p = Initiator => proc[p].pc = "wipe"
      PROVE  IInv'
  <2>1. /\ proc'[p].pc = pc /\ proc'[p].cmd = proc[p].cmd /\ proc'[p].base = proc[p].base
        /\ proc'[p].mats = proc[p].mats /\ \A q \in Proc \ {p} : proc'[q] = proc[q]
    BY <1>1, <1>5 DEF Go, TypeOK, Local
  <2>2. Roles' /\ InitFirst'
    BY <1>1, <1>5, <2>1 DEF IInv, Roles, InitFirst, InitPhase
  <2>3. pc \notin Saving /\ pc \notin {"evidence", "store", "finish"}
    BY <1>5 DEF Saving
  <2>4. BlindSaveOnce' /\ TokensAgree' /\ SealedInCopy'
    BY <2>1, <2>3 DEF IInv, BlindSaveOnce, TokensAgree, SealedInCopy
  <2>5. AddedInCopy' /\ CopyCurrent' /\ NoLostUpdate' /\ PassphraseStable'
    BY <1>1, <2>1, <2>3, AddedKept DEF IInv, CopyCurrent, NoLostUpdate, PassphraseStable
  <2>6. DigestsKnown' /\ AttestationCoversAcked'
    BY <1>1, <2>1 DEF IInv, DigestsKnown, AttestationCoversAcked
  <2>7. DistinctNames'
    BY <1>1, <1>2, <1>3, <2>1 DEF IInv, DistinctNames
  <2> QED BY <2>2, <2>4, <2>5, <2>6, <2>7 DEF IInv
<1>6. CASE ExpireRun
  BY <1>4, <1>6 DEF ExpireRun
<1>7. ASSUME NEW p \in Proc, Wipe(p) \/ StoreFinish(p) \/ Cancel(p) \/ Reset(p)
      PROVE  IInv'
  BY <1>5, <1>7 DEF Wipe, StoreFinish, Cancel, Reset, IInv, Roles, InitPhase
<1> QED BY <1>6, <1>7

\* A step that changes neither the stored state nor a copy of it.
LEMMA QuietStep ==
  ASSUME IInv, TypeOK',
         \/ ListRun \/ UNCHANGED vars
         \/ \E p \in Proc : \/ EnvFails(p) \/ CollectSkip(p) \/ GiveUp(p)
                            \/ CallFails(p) \/ StoreSave(p)
                            \/ \E cmd \in Commands[p] : Start(p, cmd)
  PROVE  IInv'
<1> USE ConstantsAssumption
<1>1. UNCHANGED <<stored, rev, acked>> /\ TypeOK
  BY DEF ListRun, vars, EnvFails, CollectSkip, GiveUp, CallFails, StoreSave, Start, IInv
<1>2. AttestationCoversAcked'
  <2>1. UNCHANGED bundle \/ \E p \in Proc :
          /\ proc[p].pc = "store"
          /\ bundle' = [mats |-> proc[p].mats, sealed |-> proc[p].sealed, by |-> p]
    BY DEF ListRun, vars, EnvFails, CollectSkip, GiveUp, CallFails, StoreSave, Start
  <2> QED BY <2>1 DEF IInv, AttestationCoversAcked, SealedInCopy
<1>3. NoLostUpdate' /\ PassphraseStable'
  BY <1>1 DEF IInv, NoLostUpdate, PassphraseStable
<1>4. ASSUME UNCHANGED proc PROVE IInv'
  BY <1>1, <1>2, <1>3, <1>4
     DEF IInv, Roles, InitFirst, BlindSaveOnce, AddedInCopy, AddName, DigestsKnown,
         CopyCurrent, TokensAgree, SealedInCopy, DistinctNames
<1>5. ASSUME NEW p \in Proc, NEW q \in Phase,
             /\ proc'[p].pc = q /\ proc'[p].base = proc[p].base
             /\ proc'[p].mats = proc[p].mats /\ proc'[p].sealed = proc[p].sealed
             /\ \A r \in Proc \ {p} : proc'[r] = proc[r],
             \/ /\ p = Initiator /\ proc[p].pc \in Saving \ {"create"}
                /\ q \in {"wipe", "reload"}
                /\ proc'[p].cmd = proc[p].cmd
             \/ /\ p = Initiator /\ proc[p].pc = "wipe" /\ q = "failed"
                /\ proc'[p].cmd = proc[p].cmd
             \/ /\ p # Initiator /\ q \in {"failed", "load", "finish"}
                /\ q = "finish" => proc[p].pc = "store"
                /\ proc[Initiator].pc = "done"
      PROVE  IInv'
  <2>1. Roles'
    BY <1>5 DEF IInv, Roles, InitPhase
  <2>2. InitFirst'
    BY <1>1, <1>5 DEF IInv, InitFirst, Saving
  <2>3. q \in Saving => proc[p].pc \in Saving \ {"create"}
    BY <1>5 DEF Saving
  <2>4. q # "evidence" /\ (q \in {"store", "finish"} => proc[p].pc = "store")
    BY <1>5
  <2>5. BlindSaveOnce'
    BY <1>5, <2>3 DEF IInv, BlindSaveOnce
  <2>6. AddedInCopy' /\ CopyCurrent'
    BY <1>1, <1>5, <2>3, <2>4, AddedKept DEF IInv, CopyCurrent
  <2>7. DigestsKnown' /\ DistinctNames'
    BY <1>1, <1>5 DEF IInv, DigestsKnown, DistinctNames
  <2>8. TokensAgree'
    BY <1>5, <2>3 DEF IInv, TokensAgree
  <2>9. SealedInCopy'
    BY <1>5, <2>4 DEF IInv, SealedInCopy
  <2> QED BY <1>2, <1>3, <2>1, <2>2, <2>5, <2>6, <2>7, <2>8, <2>9 DEF IInv
<1>6. CASE ListRun \/ UNCHANGED vars
  BY <1>4, <1>6 DEF ListRun, vars
<1>7. ASSUME NEW p \in Proc, EnvFails(p) \/ CollectSkip(p)
      PROVE  IInv'
  <2>1. p = Initiator /\ proc[p].pc \in Saving \ {"create"}
    BY <1>7 DEF EnvFails, CollectSkip, IInv, Roles, InitPhase, Saving
  <2>2. PICK q \in {"wipe", "reload"} : Go(p, q)
    BY <1>7 DEF EnvFails, CollectSkip
  <2>3. /\ proc'[p].pc = q /\ proc'[p].base = proc[p].base /\ proc'[p].cmd = proc[p].cmd
        /\ proc'[p].mats = proc[p].mats /\ proc'[p].sealed = proc[p].sealed
        /\ \A r \in Proc \ {p} : proc'[r] = proc[r]
    BY <1>1, <2>2 DEF Go, TypeOK, Local
  <2>4. q \in Phase
    BY DEF Phase, Saving
  <2> QED BY <1>5, <2>1, <2>3, <2>4
<1>8. ASSUME NEW p \in Proc,
             \/ GiveUp(p) \/ CallFails(p) \/ StoreSave(p)
             \/ \E cmd \in Commands[p] : Start(p, cmd)
      PROVE  IInv'
  <2>0. CASE p = Initiator
    <3>1. CallFails(p) /\ proc[p].pc = "wipe"
      BY <1>8, <2>0 DEF GiveUp, CallFails, StoreSave, Start, IInv, Roles, InitPhase
    <3>2. /\ proc'[p].pc = "failed" /\ proc'[p].base = proc[p].base
          /\ proc'[p].cmd = proc[p].cmd
          /\ proc'[p].mats = proc[p].mats /\ proc'[p].sealed = proc[p].sealed
          /\ \A r \in Proc \ {p} : proc'[r] = proc[r]
      BY <1>1, <3>1 DEF CallFails, TypeOK, Local
    <3>3. "failed" \in Phase
      BY DEF Phase
    <3> QED BY <1>5, <2>0, <3>1, <3>2, <3>3
  <2>2. ASSUME p # Initiator PROVE proc[Initiator].pc = "done"
    BY <1>8, <2>2 DEF GiveUp, CallFails, StoreSave, Start, IInv, InitFirst
  <2>4. PICK q \in {"failed", "load", "finish"} :
          /\ proc'[p].pc = q /\ proc'[p].base = proc[p].base
          /\ proc'[p].mats = proc[p].mats /\ proc'[p].sealed = proc[p].sealed
          /\ \A r \in Proc \ {p} : proc'[r] = proc[r]
          /\ q = "finish" => proc[p].pc = "store"
    <3>1. CASE \E cmd \in Commands[p] : Start(p, cmd)
      BY <1>1, <3>1 DEF Start, TypeOK, Local
    <3>2. CASE GiveUp(p) \/ StoreSave(p)
      <4>1. PICK q \in {"failed", "load", "finish"} :
              Go(p, q) /\ (q = "finish" => proc[p].pc = "store")
        BY <3>2 DEF GiveUp, StoreSave
      <4> QED BY <1>1, <4>1 DEF Go, TypeOK, Local
    <3>3. CASE CallFails(p)
      BY <1>1, <3>3 DEF CallFails, TypeOK, Local
    <3> QED BY <1>8, <3>1, <3>2, <3>3
  <2>5. q \in Phase
    BY DEF Phase
  <2> QED BY <1>5, <2>0, <2>2, <2>4, <2>5
<1> QED BY <1>6, <1>7, <1>8

\* The invariant is inductive.
LEMMA InductiveStep == IInv /\ [Next]_vars => IInv'
<1> SUFFICES ASSUME IInv, [Next]_vars PROVE IInv'
  OBVIOUS
<1>1. TypeOK'
  BY TypeStep DEF IInv
<1>2. ASSUME NEW p \in Proc, Step(p) PROVE IInv'
  BY <1>1, <1>2, SaveOKStep, SaveReplyLostStep, SaveErrorStep, ReadStep, DropStep,
     QuietStep DEF Step
<1>3. ASSUME NEW p \in Proc, NEW cmd \in Commands[p], Start(p, cmd) PROVE IInv'
  BY <1>1, <1>3, QuietStep
<1>4. CASE ListRun \/ UNCHANGED vars
  BY <1>1, <1>4, QuietStep
<1>5. CASE ExpireRun
  BY <1>1, <1>5, DropStep
<1> QED BY <1>2, <1>3, <1>4, <1>5 DEF Next

\* The initial state satisfies the invariant.
LEMMA InitIInv == Init => IInv
<1> SUFFICES ASSUME Init PROVE IInv
  OBVIOUS
<1> USE ConstantsAssumption
<1>1. TypeOK
  BY InitType
<1>2. \A p \in Proc :
        /\ proc[p].pc = IF p = Initiator THEN "create" ELSE "ready"
        /\ proc[p].cmd.op = IF p = Initiator THEN "init" ELSE "none"
        /\ proc[p].mats = {} /\ proc[p].base = 0
  BY DEF Init
<1>3. stored = NoState /\ rev = 0 /\ acked = {} /\ stored.mats = {}
      /\ bundle.sealed = {}
  BY DEF Init, NoState, NoBundle
<1>4. Roles /\ InitFirst
  BY <1>2, <1>3 DEF Roles, InitFirst, InitPhase
<1>5. BlindSaveOnce /\ TokensAgree
  BY <1>2 DEF BlindSaveOnce, TokensAgree, Saving
<1>6. AddedInCopy /\ SealedInCopy
  BY <1>2 DEF AddedInCopy, SealedInCopy
<1>7. DigestsKnown /\ CopyCurrent /\ DistinctNames
  BY <1>2, <1>3 DEF DigestsKnown, CopyCurrent, DistinctNames, Distinct
<1>8. NoLostUpdate /\ PassphraseStable /\ AttestationCoversAcked
  BY <1>3 DEF NoLostUpdate, PassphraseStable, AttestationCoversAcked
<1> QED BY <1>1, <1>4, <1>5, <1>6, <1>7, <1>8 DEF IInv

\* The invariant holds in every reachable state.
THEOREM Invariance == Spec => []IInv
BY InitIInv, InductiveStep, PTL DEF Spec

\* No acknowledged material is lost, whatever the number of processes, faults
\* and retries: Save's check of the base digest is enough.
THEOREM NoLostUpdateHolds == Spec => []NoLostUpdate
<1>1. IInv => NoLostUpdate
  BY DEF IInv
<1> QED BY <1>1, Invariance, PTL

\* The recorded attestation has every material acknowledged before the push
\* wrote the state it renders from.
THEOREM AttestationCoversAckedHolds == Spec => []AttestationCoversAcked
<1>1. IInv => AttestationCoversAcked
  BY DEF IInv
<1> QED BY <1>1, Invariance, PTL

\* The stored state stays readable by the token that initialized it.
THEOREM PassphraseStableHolds == Spec => []PassphraseStable
<1>1. IInv => PassphraseStable
  BY DEF IInv
<1> QED BY <1>1, Invariance, PTL

-----------------------------------------------------------------------------
\* Init saves first: a step that leaves it before its first save is one of the
\* expirer, and creates nothing.
LEMMA BeforeFirstSave ==
  ASSUME IInv, [Next]_vars, proc'[Initiator].pc = "create"
  PROVE  proc'[Initiator] = proc[Initiator] /\ (stored' = stored \/ stored' = NoState)
<1> USE ConstantsAssumption
<1>0. TypeOK /\ proc[Initiator] \in Local /\ Initiator \in Proc
  BY DEF IInv, TypeOK
<1>1. ASSUME Step(Initiator) PROVE FALSE
  <2>1. ASSUME proc[Initiator].pc \in Saving,
               \/ TransientError(Initiator)
               \/ proc' = [proc EXCEPT ![Initiator].pc = AfterError(Initiator),
                                       ![Initiator].mats = NewState(Initiator)]
               \/ Go(Initiator, IF proc[Initiator].pc \in {"save", "evidence"} THEN "failed"
                                ELSE AfterError(Initiator))
        PROVE FALSE
    BY <2>1, ErrorFacts
  <2>2. ASSUME SaveOK(Initiator) PROVE FALSE
    <3>1. proc'[Initiator].pc = AfterSave(Initiator)
      BY <1>0, <2>2 DEF SaveOK, TypeOK, Local
    <3> QED BY <3>1 DEF AfterSave
  <2>3. ASSUME Load(Initiator) PROVE FALSE
    BY <2>3 DEF Load, IInv, Roles, InitPhase
  <2>4. ASSUME Reload(Initiator) PROVE FALSE
    BY <1>0, <2>4 DEF Reload, Go, TypeOK, Local
  <2>5. ASSUME NEW pc, Go(Initiator, pc), pc # "create" PROVE FALSE
    BY <1>0, <2>5 DEF Go, TypeOK, Local
  <2>6. ~ EnvFails(Initiator) /\ ~ CollectSkip(Initiator) /\ ~ Wipe(Initiator)
        /\ ~ GiveUp(Initiator) /\ ~ StoreSave(Initiator) /\ ~ StoreFinish(Initiator)
        /\ ~ Cancel(Initiator) /\ ~ Reset(Initiator)
    BY <2>5 DEF EnvFails, CollectSkip, Wipe, GiveUp, StoreSave, StoreFinish,
                Cancel, Reset
  <2>7. ASSUME CallFails(Initiator) PROVE FALSE
    BY <1>0, <2>7 DEF CallFails, TypeOK, Local
  <2> QED BY <1>1, <2>1, <2>2, <2>3, <2>4, <2>6, <2>7
          DEF Step, SaveReplyLost, SaveUnavailable, SaveConflict, SaveNotFound
<1>2. ASSUME NEW p \in Proc, p # Initiator, Step(p) PROVE FALSE
  <2>1. proc'[Initiator] = proc[Initiator]
    BY <1>0, <1>2, OthersUnchanged
  <2>2. proc[p].pc = "ready"
    BY <1>2, <2>1 DEF IInv, InitFirst
  <2> QED BY <1>2, <2>2
     DEF Step, SaveOK, SaveReplyLost, SaveUnavailable, SaveConflict, SaveNotFound,
         EnvFails, CollectSkip, Reload, Wipe, Load, GiveUp, StoreSave, StoreFinish,
         CallFails, Cancel, Reset, Saving
<1>3. ASSUME NEW p \in Proc, NEW cmd \in Commands[p], Start(p, cmd) PROVE FALSE
  <2>1. proc[Initiator].pc = "done" /\ p # Initiator
    BY <1>3 DEF Start
  <2> QED BY <1>0, <1>3, <2>1, OthersUnchanged
<1>4. CASE ListRun \/ ExpireRun \/ UNCHANGED vars
  BY <1>4 DEF ListRun, ExpireRun, vars
<1> QED BY <1>1, <1>2, <1>3, <1>4 DEF Next

\* Hence there is neither a state nor a copy before that save.
LEMMA UnbornStep == IInv /\ Unborn /\ [Next]_vars => Unborn'
BY BeforeFirstSave DEF Unborn

\* What a step can do to the stored state.
LEMMA StoredChanges ==
  ASSUME [Next]_vars
  PROVE  \/ stored' = stored
         \/ stored' = NoState
         \/ \E p \in Proc : Commit(p) /\ proc[p].pc \in Saving
BY DEF Next, Step, Start, SaveOK, SaveReplyLost, SaveUnavailable, SaveConflict,
       SaveNotFound, EnvFails, CollectSkip, Reload, Wipe, Load, GiveUp, StoreSave,
       StoreFinish, CallFails, Cancel, Reset, ListRun, ExpireRun, vars

\* A set of materials that keeps every name of a set with distinct names is the
\* result of putting the new materials over it.
LEMMA PutDifference ==
  ASSUME NEW old, NEW new, Distinct(old), Distinct(new), Names(old) \subseteq Names(new)
  PROVE  new = Put(old, new \ old)
<1>1. ASSUME NEW m \in new PROVE m \in Put(old, new \ old)
  BY <1>1 DEF Distinct, Put
<1>2. ASSUME NEW m \in Put(old, new \ old) PROVE m \in new
  <2>1. CASE m \in new \ old
    BY <2>1
  <2>2. CASE m \notin new \ old
    <3>1. m \in old /\ \A n \in new \ old : n.name # m.name
      BY <1>2, <2>2 DEF Put
    <3>2. PICK n \in new : n.name = m.name
      BY <3>1 DEF Names
    <3> QED BY <3>1, <3>2 DEF Distinct
  <2> QED BY <2>1, <2>2
<1> QED BY <1>1, <1>2

\* Every step is an atomic step of the material store, or leaves it alone.
LEMMA StepRefines == IInv /\ IInv' /\ Unborn /\ [Next]_vars => [Store!Next]_Content
<1> SUFFICES ASSUME IInv, IInv', Unborn, [Next]_vars PROVE [Store!Next]_Content
  OBVIOUS
<1> USE ConstantsAssumption
<1> DEFINE create == proc[Initiator].pc = "create"
<1>1. create' => create
  BY BeforeFirstSave
<1>2. NoState.mats = {}
  BY DEF NoState
<1>3. CASE stored' = stored
  <2>1. CASE create' = create
    BY <1>3, <2>1 DEF Content
  <2>2. CASE ~create' /\ create
    BY <1>2, <1>3, <2>2 DEF Content, Unborn, Store!Next, Store!Drop
  <2> QED BY <1>1, <2>1, <2>2
<1>4. CASE stored' = NoState /\ stored # NoState
  BY <1>1, <1>2, <1>4 DEF Content, Unborn, Store!Next, Store!Drop
<1>5. ASSUME NEW p \in Proc, Commit(p), proc[p].pc \in Saving PROVE [Store!Next]_Content
  <2>1. stored' # NoState /\ stored'.mats = NewState(p)
    BY <1>5, CommitType DEF IInv
  <2>2. CASE create
    <3>1. p = Initiator
      BY <1>5, <2>2 DEF IInv, InitFirst, Saving
    <3>2. proc[p].mats = {} /\ StagedNames(p) = {} /\ stored = NoState
      BY <2>2, <3>1 DEF StagedNames, IInv, Roles, Unborn
    <3>3. NewState(p) = {}
      BY <3>2 DEF NewState, Put, Staged
    <3>4. Content.phase = "unborn"
      BY <2>2, <3>2 DEF Content
    <3>5. Content' = [phase |-> "live", mats |-> {}]
      BY <2>1, <3>3 DEF Content
    <3> QED BY <3>4, <3>5 DEF Store!Next, Store!Create
  <2>3. CASE ~create
    <3>1. proc[p].pc # "create"
      BY <2>3 DEF IInv, Roles, InitPhase
    <3>2. proc[p].base # 0
      BY <1>5, <3>1 DEF IInv, BlindSaveOnce
    <3>3. stored # NoState
      BY <1>5, <3>2 DEF Commit, BaseMatches
    <3>4. Names(stored.mats) \subseteq Names(stored'.mats)
      BY <1>5, <2>1, <3>1, <3>3, CommitSafe
    <3>5. Distinct(stored.mats) /\ Distinct(stored'.mats)
      BY DEF IInv, DistinctNames
    <3>6. stored'.mats = Put(stored.mats, stored'.mats \ stored.mats)
      BY <3>4, <3>5, PutDifference
    <3>7. Content.phase = "live" /\ Content.mats = stored.mats
      BY <3>3 DEF Content
    <3>8. Content'.phase = "live" /\ Content'.mats = stored'.mats
      BY <2>1 DEF Content
    <3> QED BY <3>5, <3>6, <3>7, <3>8
            DEF Store!Next, Store!Update, Store!Put, Put, Store!Distinct, Distinct
  <2> QED BY <2>2, <2>3
<1> QED BY <1>3, <1>4, <1>5, StoredChanges

\* Optimistic concurrency control implements the atomic material store.
THEOREM RefinementHolds == Spec => ImplementsMaterialStore
<1>1. Init => Store!Init /\ Unborn
  <2> SUFFICES ASSUME Init PROVE Store!Init /\ Unborn
    OBVIOUS
  <2>1. Initiator \in Proc
    BY ConstantsAssumption
  <2>2. /\ proc[Initiator].pc = "create" /\ proc[Initiator].mats = {}
        /\ stored = NoState
    BY <2>1 DEF Init
  <2>3. Content = [phase |-> "unborn", mats |-> {}]
    BY <2>2 DEF Content, NoState
  <2> QED BY <2>2, <2>3 DEF Store!Init, Unborn
<1> QED BY <1>1, Invariance, UnbornStep, StepRefines, PTL
        DEF Spec, ImplementsMaterialStore, Store!Spec

-----------------------------------------------------------------------------
\* What a save of p removes from the stored state, its own add or init overrides.
Keeps(p, mats) ==
  \A m \in stored.mats :
    m \in mats \/ \E n \in mats : /\ n.name = m.name /\ n.by = p
                                  /\ proc[p].cmd.op \in {"add", "init"}

\* A copy whose base digest is the stored one has every stored material, but for
\* those that failed saves of the same command have overridden in it.
CopyKeeps ==
  \A p \in Proc :
    proc[p].pc \in Saving /\ stored # NoState /\ proc[p].base = stored.digest =>
      Keeps(p, proc[p].mats)

\* An archive allocates names that are not in the copy.
LEMMA AllocatedNamesAreNew ==
  ASSUME NEW p \in Proc, proc[p].cmd.op = "archive"
  PROVE  StagedNames(p) \cap Names(proc[p].mats) = {}
<1>1. ASSUME NEW s, NEW k
      PROVE  Allocate(proc[p].mats, proc[p].cmd.base, s, k) \cap Names(proc[p].mats) = {}
  BY DEF Allocate, FreeIndex
<1> QED BY <1>1 DEF StagedNames

\* Staging over a copy that keeps the stored materials keeps them.
LEMMA StagingKeeps ==
  ASSUME NEW p \in Proc, IInv, Keeps(p, proc[p].mats)
  PROVE  Keeps(p, NewState(p))
<1>1. ASSUME NEW n \in StagedNames(p)
      PROVE  \E s \in Staged(p) : s.name = n /\ s.by = p
  <2>1. [name |-> n, by |-> p, kind |-> proc[p].kind] \in Staged(p)
    BY DEF Staged
  <2> QED BY <2>1
<1>2. \A s \in Staged(p) : s.name \in StagedNames(p) /\ s.by = p
  BY DEF Staged
<1>3. ASSUME NEW m \in proc[p].mats
      PROVE  m \in NewState(p) \/ \E s \in Staged(p) : s.name = m.name /\ s.by = p
  BY <1>2 DEF NewState, Put, Names
<1>4. Staged(p) \subseteq NewState(p)
  BY DEF NewState, Put
<1>5. ASSUME NEW m \in proc[p].mats, NEW s \in Staged(p), s.name = m.name
      PROVE  proc[p].cmd.op \in {"add", "init"}
  <2>1. s.name \in StagedNames(p) /\ m.name \in Names(proc[p].mats)
    BY <1>2, <1>5 DEF Names
  <2>2. proc[p].cmd.op # "archive"
    BY <1>5, <2>1, AllocatedNamesAreNew
  <2>3. proc[p].cmd.op = "add" \/ proc[p].pc = "collect"
    BY <2>1, <2>2 DEF StagedNames
  <2> QED BY <2>3 DEF IInv, Roles, InitPhase
<1> SUFFICES ASSUME NEW m \in stored.mats
             PROVE  m \in NewState(p) \/ \E n \in NewState(p) :
                      n.name = m.name /\ n.by = p /\ proc[p].cmd.op \in {"add", "init"}
  BY DEF Keeps
<1>6. CASE m \in proc[p].mats
  BY <1>3, <1>4, <1>5, <1>6
<1>7. CASE m \notin proc[p].mats
  <2>1. PICK n \in proc[p].mats :
          n.name = m.name /\ n.by = p /\ proc[p].cmd.op \in {"add", "init"}
    BY <1>7 DEF Keeps
  <2>2. n \in NewState(p) \/ \E s \in NewState(p) : s.name = n.name /\ s.by = p
    BY <1>3, <1>4
  <2> QED BY <2>1, <2>2
<1> QED BY <1>6, <1>7

\* A step of p after which its copy is the stored state, what it was, or what it
\* was with the staged materials.
LEMMA CopyMoves ==
  ASSUME NEW p \in Proc, IInv, CopyKeeps, stored' = stored,
         \A q \in Proc \ {p} : proc'[q] = proc[q],
         proc'[p].pc \in Saving =>
           \/ proc'[p].mats = stored.mats
           \/ /\ proc[p].pc \in Saving
              /\ proc'[p].base = proc[p].base /\ proc'[p].cmd = proc[p].cmd
              /\ proc'[p].mats \in {proc[p].mats, NewState(p)}
  PROVE  CopyKeeps'
<1> SUFFICES ASSUME NEW q \in Proc, proc'[q].pc \in Saving, stored' # NoState,
                    proc'[q].base = stored'.digest
             PROVE  Keeps(q, proc[q].mats)'
  BY DEF CopyKeeps
<1>1. CASE q # p
  <2>1. proc'[q] = proc[q] /\ Keeps(q, proc[q].mats)
    BY <1>1 DEF CopyKeeps
  <2> QED BY <2>1 DEF Keeps
<1>2. CASE q = p /\ proc'[p].mats = stored.mats
  BY <1>2 DEF Keeps
<1>3. CASE q = p /\ proc'[p].mats # stored.mats
  <2>1. Keeps(p, proc[p].mats) /\ proc'[p].cmd = proc[p].cmd
    BY <1>3 DEF CopyKeeps
  <2>2. Keeps(p, NewState(p))
    BY <2>1, StagingKeeps
  <2> QED BY <1>3, <2>1, <2>2 DEF Keeps
<1> QED BY <1>1, <1>2, <1>3

\* A save that is not committed stages into the copy, or leaves it.
LEMMA ErrorCopy ==
  ASSUME NEW p \in Proc, IInv,
         \/ TransientError(p)
         \/ proc' = [proc EXCEPT ![p].pc = AfterError(p), ![p].mats = NewState(p)]
         \/ Go(p, IF proc[p].pc \in {"save", "evidence"} THEN "failed" ELSE AfterError(p))
  PROVE  proc'[p].mats \in {proc[p].mats, NewState(p)}
<1>1. proc \in [Proc -> Local] /\ proc[p] \in Local
  BY DEF IInv, TypeOK
<1>2. CASE TransientError(p)
  BY <1>1, <1>2 DEF TransientError, Go, Local
<1>3. CASE proc' = [proc EXCEPT ![p].pc = AfterError(p), ![p].mats = NewState(p)]
  BY <1>1, <1>3 DEF Local
<1>4. CASE Go(p, IF proc[p].pc \in {"save", "evidence"} THEN "failed" ELSE AfterError(p))
  BY <1>1, <1>4 DEF Go, Local
<1> QED BY <1>2, <1>3, <1>4

LEMMA CopyKeepsStep == IInv /\ CopyKeeps /\ [Next]_vars => CopyKeeps'
<1> SUFFICES ASSUME IInv, CopyKeeps, [Next]_vars PROVE CopyKeeps'
  OBVIOUS
<1>0. TypeOK
  BY DEF IInv
<1>1. ASSUME stored' = NoState PROVE CopyKeeps'
  BY <1>1 DEF CopyKeeps
<1>2. ASSUME NEW p \in Proc, SaveOK(p) \/ SaveReplyLost(p) PROVE CopyKeeps'
  <2>1. proc[p].pc \in Saving /\ Commit(p) /\ Step(p)
    BY <1>2 DEF SaveOK, SaveReplyLost, Step
  <2>2. stored'.digest = rev + 1 /\ stored'.mats = NewState(p) /\ rev \in Nat
    BY <1>0, <2>1, CommitType DEF TypeOK
  <2>3. \A q \in Proc : proc[q].base < rev + 1
    BY <2>1, CommitSafe
  <2>4. \A q \in Proc \ {p} : proc'[q].base # rev + 1
    BY <1>0, <2>1, <2>3, OthersUnchanged DEF TypeOK, Local
  <2>5. proc'[p].base # rev + 1 \/ proc'[p].mats = NewState(p)
    <3>1. CASE SaveOK(p)
      BY <1>0, <3>1 DEF SaveOK, TypeOK, Local
    <3>2. CASE SaveReplyLost(p)
      <4>1. proc'[p].base = proc[p].base /\ proc[p].base \in Nat
        BY <1>0, <2>1, <3>2, ErrorFacts DEF SaveReplyLost, TypeOK, Local
      <4> QED BY <2>2, <2>3, <4>1
    <3> QED BY <1>2, <3>1, <3>2
  <2> QED BY <2>2, <2>4, <2>5 DEF CopyKeeps, Keeps
<1>3. ASSUME NEW p \in Proc, SaveUnavailable(p) \/ SaveConflict(p) \/ SaveNotFound(p)
      PROVE  CopyKeeps'
  <2>1. /\ proc[p].pc \in Saving /\ stored' = stored
        /\ \/ TransientError(p)
           \/ proc' = [proc EXCEPT ![p].pc = AfterError(p), ![p].mats = NewState(p)]
           \/ Go(p, IF proc[p].pc \in {"save", "evidence"} THEN "failed" ELSE AfterError(p))
    BY <1>3 DEF SaveUnavailable, SaveConflict, SaveNotFound
  <2>2. /\ proc'[p].base = proc[p].base /\ proc'[p].cmd = proc[p].cmd
        /\ \A q \in Proc \ {p} : proc'[q] = proc[q]
    BY <2>1, ErrorFacts
  <2>3. proc'[p].mats \in {proc[p].mats, NewState(p)}
    BY <2>1, ErrorCopy
  <2> QED BY <2>1, <2>2, <2>3, CopyMoves
<1>4. ASSUME NEW p \in Proc, EnvFails(p) \/ CollectSkip(p) \/ Reload(p) \/ Load(p)
      PROVE  CopyKeeps'
  <2>1. stored' = stored /\ Step(p) /\ proc[p] \in Local
    BY <1>0, <1>4 DEF EnvFails, CollectSkip, Reload, Load, Step, TypeOK
  <2>2. \A q \in Proc \ {p} : proc'[q] = proc[q]
    BY <1>0, <2>1, OthersUnchanged
  <2>3. CASE EnvFails(p) \/ CollectSkip(p)
    BY <1>0, <2>1, <2>2, <2>3, CopyMoves DEF EnvFails, CollectSkip, Go, Saving, TypeOK, Local
  <2>4. CASE Reload(p)
    <3>1. proc[p].pc \notin Saving
      BY <2>4 DEF Reload, Saving
    <3>2. CASE Go(p, "failed")
      BY <1>0, <2>1, <2>2, <3>2, CopyMoves DEF Go, Saving, TypeOK, Local
    <3>3. CASE ~Go(p, "failed")
      BY <1>0, <2>1, <2>2, <2>4, <3>3, CopyMoves DEF Reload, TypeOK, Local
    <3> QED BY <3>2, <3>3
  <2>5. CASE Load(p)
    BY <1>0, <2>1, <2>2, <2>5, CopyMoves DEF Load, Go, Saving, TypeOK, Local
  <2> QED BY <1>4, <2>3, <2>4, <2>5
<1>5. ASSUME NEW p \in Proc, \/ GiveUp(p) \/ StoreSave(p) \/ CallFails(p)
                             \/ \E cmd \in Commands[p] : Start(p, cmd)
      PROVE  CopyKeeps'
  <2>1. /\ stored' = stored /\ proc[p] \in Local
        /\ Step(p) \/ \E cmd \in Commands[p] : Start(p, cmd)
    BY <1>0, <1>5 DEF GiveUp, StoreSave, CallFails, Start, Step, TypeOK
  <2>2. \A q \in Proc \ {p} : proc'[q] = proc[q]
    BY <1>0, <2>1, OthersUnchanged
  <2>3. proc'[p].pc \notin Saving
    BY <1>0, <1>5 DEF GiveUp, StoreSave, CallFails, Start, Go, Saving, TypeOK, Local
  <2> QED BY <2>1, <2>2, <2>3, CopyMoves
<1>6. ASSUME NEW p \in Proc, Wipe(p) \/ StoreFinish(p) \/ Cancel(p) \/ Reset(p) PROVE CopyKeeps'
  BY <1>1, <1>6 DEF Wipe, StoreFinish, Cancel, Reset
<1>7. CASE ListRun \/ ExpireRun \/ UNCHANGED vars
  <2>1. CASE ExpireRun
    BY <1>1, <2>1 DEF ExpireRun
  <2>2. CASE ListRun \/ UNCHANGED vars
    BY <2>2 DEF ListRun, vars, CopyKeeps, Keeps
  <2> QED BY <1>7, <2>1, <2>2
<1> QED BY <1>2, <1>3, <1>4, <1>5, <1>6, <1>7 DEF Next, Step

\* A material leaves a live crafting state only when an add, or the collector of
\* init, saves another one of that name: an archive allocates names next to what
\* others have added, also when they did so while it was retried
\* (NameAllocator.AllocateNamed and Save's check of the base digest).
THEOREM OnlyOverridesHolds == Spec => OnlyOverrides
<1>1. Init => CopyKeeps /\ Unborn
  BY ConstantsAssumption DEF Init, CopyKeeps, Unborn
<1>2. ASSUME IInv, CopyKeeps, Unborn, [Next]_vars, stored # NoState, stored' # NoState,
             NEW m \in stored.mats
      PROVE  m \in stored'.mats \/
               \E n \in stored'.mats : n.name = m.name /\ proc[n.by].cmd.op \in {"add", "init"}
  <2>1. CASE stored' = stored
    BY <2>1
  <2>2. ASSUME NEW p \in Proc, Commit(p), proc[p].pc \in Saving
        PROVE  m \in stored'.mats \/ \E n \in stored'.mats :
                 n.name = m.name /\ proc[n.by].cmd.op \in {"add", "init"}
    <3>1. stored'.mats = NewState(p)
      BY <1>2, <2>2, CommitType DEF IInv
    <3>2. proc[p].pc # "create"
      BY <1>2, ConstantsAssumption DEF IInv, Roles, InitPhase, Unborn
    <3>3. proc[p].base = stored.digest
      BY <1>2, <2>2, <3>2 DEF Commit, BaseMatches, IInv, BlindSaveOnce
    <3>4. Keeps(p, NewState(p))
      BY <1>2, <2>2, <3>3, StagingKeeps DEF CopyKeeps
    <3> QED BY <1>2, <3>1, <3>4 DEF Keeps
  <2> QED BY <1>2, <2>1, <2>2, StoredChanges
<1>3. IInv /\ CopyKeeps /\ Unborn /\ [Next]_vars =>
        [(stored # NoState /\ stored' # NoState) =>
           \A m \in stored.mats : m \in stored'.mats \/
             \E n \in stored'.mats : n.name = m.name /\ proc[n.by].cmd.op \in {"add", "init"}]_vars
  BY <1>2
<1> QED BY <1>1, <1>3, Invariance, UnbornStep, CopyKeepsStep, PTL DEF Spec, OnlyOverrides
=============================================================================
