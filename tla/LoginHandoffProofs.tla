------------------------- MODULE LoginHandoffProofs -------------------------
(***************************************************************************)
(* A code gives one session token at most, to its first presentation, for  *)
(* every set of codes, users, verifiers, callbacks and exchanges, and the  *)
(* handoff implements the one-time codes of OneTimeCode.                   *)
(***************************************************************************)
EXTENDS LoginHandoff, TLAPS

\* The exchange r marked its code used and has yet to read the row.
Holds(r) == req[r].pc = "find" /\ req[r].won

\* What an exchange that marked the code used may rely on: the code was unused
\* until then, nobody else marked it, and its presentation was the first.
HolderInv ==
  \A r \in Request : Holds(r) =>
    /\ row[req[r].code].used
    /\ granted[req[r].code] = 0
    /\ first[req[r].code] = Presentation(r)
    /\ \A q \in Request \ {r} : Holds(q) => req[q].code # req[r].code

\* A code nobody marked was presented to no live row, and gave nothing.
UnusedInv ==
  \A c \in Code :
    /\ ~row[c].used => granted[c] = 0 /\ first[c] = Unpresented
    /\ row[c].state = "absent" =>
         ~row[c].used /\ \A r \in Request : req[r].pc # "idle" => req[r].code # c

IInv == TypeOK /\ HolderInv /\ UnusedInv /\ SingleUse /\ RightfulSession

LEMMA InitInv == Init => IInv
<1> SUFFICES ASSUME Init PROVE IInv
  OBVIOUS
<1> USE ConstantsOK
<1>1. TypeOK
  BY DEF Init, TypeOK, Unpresented, Absent, Idle, MaxAge, Rows, Exchanges
<1>2. HolderInv /\ UnusedInv /\ SingleUse /\ RightfulSession
  BY DEF Init, HolderInv, Holds, UnusedInv, SingleUse, RightfulSession, Absent, Idle
<1> QED BY <1>1, <1>2 DEF IInv

-----------------------------------------------------------------------------
\* Rows keep their type when some of them are deleted, and nothing but their
\* state changes.
LEMMA DeleteFacts ==
  ASSUME TypeOK, NEW S \in SUBSET Code, Delete(S), \A c \in S : Live(c)
  PROVE  /\ row' \in [Code -> Rows]
         /\ \A c \in Code : /\ row'[c].used = row[c].used
                            /\ row'[c].challenge = row[c].challenge
                            /\ row'[c].callback = row[c].callback
                            /\ row'[c].state = "absent" <=> row[c].state = "absent"
BY DEF Delete, TypeOK, Live, Rows

LEMMA TickFacts ==
  ASSUME TypeOK, Tick
  PROVE  /\ row' \in [Code -> Rows]
         /\ \A c \in Code : /\ row'[c].used = row[c].used
                            /\ row'[c].challenge = row[c].challenge
                            /\ row'[c].callback = row[c].callback
                            /\ row'[c].state = "absent" <=> row[c].state = "absent"
<1> USE ConstantsOK
<1>1. \A a \in 0..MaxAge : Older(a) \in 0..MaxAge
  BY DEF Older, MaxAge
<1>2. ASSUME NEW c \in Code
      PROVE  /\ row'[c] \in Rows
             /\ row'[c].used = row[c].used
             /\ row'[c].challenge = row[c].challenge
             /\ row'[c].callback = row[c].callback
             /\ row'[c].state = row[c].state
  <2>1. row[c] \in Rows
    BY DEF TypeOK
  <2>2. CASE row[c].state = "absent"
    BY <2>1, <2>2 DEF Tick
  <2>3. CASE row[c].state # "absent"
    <3>1. row'[c] = [row[c] EXCEPT !.age = Older(row[c].age)]
      BY <2>3 DEF Tick
    <3> HIDE DEF Older, MaxAge
    <3> QED BY <1>1, <2>1, <3>1 DEF Rows
  <2> QED BY <2>2, <2>3
<1>3. DOMAIN row' = Code /\ row' = [c \in Code |-> row'[c]]
  BY DEF Tick
<1> QED BY <1>2, <1>3

\* The sweeper and the deletion of a user delete some live rows.
LEMMA DeletedRows ==
  ASSUME Sweep \/ \E u \in User : DeleteUser(u)
  PROVE  \E S \in SUBSET Code : Delete(S) /\ \A c \in S : Live(c)
<1>1. CASE Sweep
  <2> WITNESS {c \in Code : Live(c) /\ row[c].age > TTL} \in SUBSET Code
  <2> QED BY <1>1 DEF Sweep
<1>2. ASSUME NEW u \in User, DeleteUser(u)
      PROVE  \E S \in SUBSET Code : Delete(S) /\ \A c \in S : Live(c)
  <2> WITNESS {c \in Code : Live(c) /\ row[c].user = u} \in SUBSET Code
  <2> QED BY <1>2 DEF DeleteUser
<1> QED BY <1>1, <1>2

\* Every step keeps the types.
LEMMA TypeStep == TypeOK /\ [Next]_vars => TypeOK'
<1> SUFFICES ASSUME TypeOK, [Next]_vars PROVE TypeOK'
  OBVIOUS
<1> USE ConstantsOK
<1>1. ASSUME NEW c \in Code, NEW u \in User, NEW ch \in Verifier \cup {None},
             NEW cb \in Callback \cup {None}, Issue(c, u, ch, cb)
      PROVE  TypeOK'
  <2>1. /\ ch \in Verifier /\ cb \in Callback
        /\ row' = [row EXCEPT ![c] = NewRow(u, ch, cb)]
    BY <1>1 DEF Issue, S256
  <2>2. NewRow(u, ch, cb) \in Rows /\ NewRow(u, ch, cb).callback \in Callback
    BY <2>1 DEF NewRow, Rows, MaxAge
  <2> QED BY <1>1, <2>1, <2>2 DEF Issue, TypeOK
<1>2. ASSUME NEW r \in Request, NEW c \in Code, NEW v \in Verifier, NEW cb \in Callback,
             Begin(r, c, v, cb)
      PROVE  TypeOK'
  BY <1>2 DEF Begin, TypeOK, Exchanges, Rows
<1>3. ASSUME NEW r \in Request, Consume(r) PROVE TypeOK'
  <2>1. req[r] \in Exchanges /\ req[r].code \in Code /\ Presentation(r) \in Presentations
    BY <1>3 DEF Consume, Mark, TypeOK, Exchanges, Presentation, Presentations
  <2>2. PICK hit \in BOOLEAN : Mark(r, hit)
    BY <1>3 DEF Consume
  <2>3. row' \in [Code -> Rows] /\ \A c \in Code :
          row'[c].state = row[c].state /\ row'[c].callback = row[c].callback
    <3>1. CASE hit
      <4> DEFINE k == req[r].code
                 new == [row[k] EXCEPT !.used = TRUE]
      <4>1. row' = [row EXCEPT ![k] = new]
        BY <2>2, <3>1 DEF Mark
      <4>2. row[k] \in Rows
        BY <2>1 DEF TypeOK
      <4>3. new \in Rows /\ new.state = row[k].state /\ new.callback = row[k].callback
        BY <4>2 DEF Rows
      <4> HIDE DEF k, new
      <4> QED BY <2>1, <4>1, <4>3 DEF TypeOK
    <3>2. CASE ~hit
      BY <2>2, <3>2 DEF Mark, TypeOK
    <3> QED BY <3>1, <3>2
  <2>4. req' \in [Request -> Exchanges] /\ \A q \in Request :
          /\ req'[q].code = req[q].code /\ req'[q].verifier = req[q].verifier
          /\ req'[q].callback = req[q].callback
          /\ req'[q].pc # "idle" => req[q].pc # "idle"
    BY <2>1, <2>2 DEF Mark, TypeOK, Exchanges
  <2>5. first' \in [Code -> Presentations \cup {Unpresented}] /\ granted' = granted
    BY <2>1, <2>2 DEF Mark, TypeOK
  <2> QED BY <2>3, <2>4, <2>5 DEF TypeOK
<1>4. ASSUME NEW r \in Request, Find(r) \/ Fail(r) PROVE TypeOK'
  <2>1. Idle \in Exchanges
    BY DEF Idle, Exchanges, MaxAge
  <2>2. req' \in [Request -> Exchanges] /\ req' = [req EXCEPT ![r] = Idle]
    BY <1>4, <2>1 DEF Find, Fail, TypeOK
  <2>3. \A q \in Request : req'[q].pc # "idle" => q # r
    BY <2>2 DEF Idle, TypeOK
  <2>4. \A q \in Request : q # r => req'[q] = req[q]
    BY <2>2 DEF TypeOK
  <2>5. granted' \in [Code -> Nat]
    BY <1>4 DEF Find, Fail, TypeOK
  <2> QED BY <1>4, <2>2, <2>3, <2>4, <2>5 DEF Find, Fail, TypeOK
<1>5. CASE Sweep \/ \E u \in User : DeleteUser(u)
  <2>1. PICK S \in SUBSET Code : Delete(S) /\ \A c \in S : Live(c)
    BY <1>5, DeletedRows
  <2> QED BY <1>5, <2>1, DeleteFacts DEF Sweep, DeleteUser, TypeOK
<1>6. CASE Tick
  BY <1>6, TickFacts DEF Tick, TypeOK
<1>7. CASE UNCHANGED vars
  BY <1>7 DEF vars, TypeOK
<1> QED BY <1>1, <1>2, <1>3, <1>4, <1>5, <1>6, <1>7 DEF Next

\* The specification is type correct.
THEOREM TypeCorrect == Spec => []TypeOK
<1>1. Init => TypeOK
  BY InitInv DEF IInv
<1> QED BY <1>1, TypeStep, PTL DEF Spec

-----------------------------------------------------------------------------
\* A step that leaves the exchanges and the histories alone, and of the rows
\* changes only their age or deletes some.
LEMMA QuietStep ==
  ASSUME IInv, TypeOK', UNCHANGED <<req, first, granted>>,
         \A c \in Code : /\ row'[c].used = row[c].used
                         /\ row'[c].challenge = row[c].challenge
                         /\ row'[c].callback = row[c].callback
                         /\ row'[c].state = "absent" <=> row[c].state = "absent"
  PROVE  IInv'
<1>1. TypeOK /\ \A r \in Request : req[r].pc # "idle" => req[r].code \in Code
  BY DEF IInv, TypeOK
<1>2. HolderInv'
  BY <1>1 DEF IInv, HolderInv, Holds, Presentation
<1>3. UnusedInv'
  BY DEF IInv, UnusedInv
<1>4. SingleUse' /\ RightfulSession'
  BY DEF IInv, SingleUse, RightfulSession, S256
<1> QED BY <1>2, <1>3, <1>4 DEF IInv

\* Marking a code: the exchange becomes its only holder.
LEMMA ConsumeStep ==
  ASSUME IInv, TypeOK', NEW r \in Request, Consume(r)
  PROVE  IInv'
<1> DEFINE c == req[r].code
           hit == Live(c) /\ ~row[c].used
<1>1. TypeOK /\ req[r].pc = "consume" /\ c \in Code
  BY DEF IInv, TypeOK, Consume, Mark
<1>2. /\ \A q \in Request : /\ req'[q].code = req[q].code
                            /\ req'[q].verifier = req[q].verifier
                            /\ req'[q].callback = req[q].callback
                            /\ req'[q].seen = req[q].seen
      /\ \A q \in Request \ {r} : req'[q] = req[q]
      /\ req'[r].pc = "find" /\ req'[r].won = hit
      /\ granted' = granted
  BY <1>1 DEF Consume, Mark, TypeOK, Exchanges
<1>3. /\ \A d \in Code \ {c} : row'[d] = row[d] /\ first'[d] = first[d]
      /\ row'[c].used = (row[c].used \/ hit)
      /\ row'[c].state = row[c].state /\ row'[c].challenge = row[c].challenge
      /\ row'[c].callback = row[c].callback
  <2>1. CASE hit
    <3>1. row[c] \in Rows /\ row' = [row EXCEPT ![c] = [row[c] EXCEPT !.used = TRUE]]
      BY <1>1, <2>1 DEF Consume, Mark, TypeOK
    <3>2. \A d \in Code \ {c} : first'[d] = first[d]
      BY <1>1 DEF Consume, Mark, TypeOK
    <3> HIDE DEF c
    <3> QED BY <1>1, <2>1, <3>1, <3>2 DEF TypeOK, Rows
  <2>2. CASE ~hit
    BY <1>1, <2>2 DEF Consume, Mark, TypeOK, Rows
  <2> QED BY <2>1, <2>2
<1>4. first'[c] = IF first[c] = Unpresented /\ Live(c) THEN Presentation(r) ELSE first[c]
  BY <1>1 DEF Consume, Mark, TypeOK
<1>5. ~row[c].used => granted[c] = 0 /\ first[c] = Unpresented
  BY <1>1 DEF IInv, UnusedInv
<1>6. row[c].used /\ granted[c] > 0 => first[c] # Unpresented
  BY <1>1 DEF IInv, RightfulSession
<1>7. \A q \in Request \ {r} : Holds(q)' <=> Holds(q)
  BY <1>2 DEF Holds
<1>8. Holds(r)' <=> hit
  BY <1>2 DEF Holds
<1>9. \A q \in Request : Holds(q) => row[req[q].code].used /\ req[q].code \in Code
  BY <1>1 DEF IInv, HolderInv, Holds, TypeOK
<1>10. Presentation(r) \in Presentations /\ Presentation(r) # Unpresented
  BY <1>1, ConstantsOK DEF Presentation, Presentations, Unpresented, TypeOK, Exchanges
<1> HIDE DEF c, hit
<1>11. HolderInv'
  <2> SUFFICES ASSUME NEW q \in Request, Holds(q)'
               PROVE  /\ row'[req'[q].code].used
                      /\ granted'[req'[q].code] = 0
                      /\ first'[req'[q].code] = Presentation(q)'
                      /\ \A p \in Request \ {q} : Holds(p)' => req'[p].code # req'[q].code
    BY DEF HolderInv
  <2>1. Presentation(q)' = Presentation(q)
    BY <1>2 DEF Presentation
  <2>2. CASE q = r
    BY <1>1, <1>2, <1>3, <1>4, <1>5, <1>7, <1>8, <1>9, <2>1, <2>2 DEF c, hit
  <2>3. CASE q # r
    <3>1. /\ Holds(q) /\ req[q].code \in Code /\ row[req[q].code].used
          /\ granted[req[q].code] = 0 /\ first[req[q].code] = Presentation(q)
          /\ \A p \in Request \ {q} : Holds(p) => req[p].code # req[q].code
      BY <1>7, <1>9, <2>3 DEF IInv, HolderInv
    <3>2. Presentation(q) # Unpresented
      BY <1>1, <3>1, ConstantsOK DEF Holds, Presentation, Unpresented, TypeOK, Exchanges
    <3>3. first'[req[q].code] = first[req[q].code] /\ row'[req[q].code].used
      BY <1>3, <1>4, <3>1, <3>2
    <3>4. hit => c # req[q].code
      BY <3>1 DEF hit
    <3> QED BY <1>2, <1>7, <1>8, <2>1, <2>3, <3>1, <3>3, <3>4 DEF c
  <2> QED BY <2>2, <2>3
<1>12. UnusedInv'
  <2>1. \A d \in Code : ~row'[d].used => granted'[d] = 0 /\ first'[d] = Unpresented
    <3>1. ~row'[c].used => granted'[c] = 0 /\ first'[c] = Unpresented
      BY <1>2, <1>3, <1>4, <1>5 DEF hit
    <3> QED BY <1>2, <1>3, <3>1 DEF IInv, UnusedInv
  <2>2. \A d \in Code : row'[d].state = "absent" =>
          ~row'[d].used /\ \A q \in Request : req'[q].pc # "idle" => req'[q].code # d
    <3>1. \A d \in Code : row'[d].state = row[d].state
      BY <1>3
    <3>3. row[c].state = "absent" => ~hit /\ ~row[c].used
      BY <1>1 DEF IInv, UnusedInv, hit, Live
    <3>4. \A d \in Code : row[d].state = "absent" => ~row'[d].used
      BY <1>3, <3>3 DEF IInv, UnusedInv
    <3>2. \A q \in Request : req'[q].pc # "idle" => req[q].pc # "idle"
      BY <1>1, <1>2
    <3> QED BY <1>2, <3>1, <3>2, <3>4 DEF IInv, UnusedInv
  <2> QED BY <2>1, <2>2 DEF UnusedInv
<1>13. SingleUse' /\ RightfulSession'
  BY <1>1, <1>2, <1>3, <1>4, <1>5, <1>6 DEF IInv, SingleUse, RightfulSession, S256
<1> QED BY <1>11, <1>12, <1>13 DEF IInv

\* Reading the row: the holder, and nobody else, may be given a session.
LEMMA FindStep ==
  ASSUME IInv, TypeOK', NEW r \in Request, Find(r)
  PROVE  IInv'
<1> DEFINE c == req[r].code
<1>1. TypeOK /\ req[r].pc = "find" /\ c \in Code
  BY DEF IInv, TypeOK, Find
<1>2. /\ \A q \in Request \ {r} : req'[q] = req[q]
      /\ req'[r].pc = "idle"
      /\ row' = row /\ first' = first
      /\ \A d \in Code \ {c} : granted'[d] = granted[d]
      /\ granted'[c] = IF Accepted(r) THEN granted[c] + 1 ELSE granted[c]
  BY <1>1 DEF Find, TypeOK, Idle
<1>3. Accepted(r) => /\ Holds(r) /\ row[c].used /\ granted[c] = 0
                     /\ first[c] = Presentation(r) /\ first[c] # Unpresented
                     /\ S256(first[c].verifier) = row[c].challenge
                     /\ first[c].callback = row[c].callback
                     /\ first[c].seen < TTL
  <2> SUFFICES ASSUME Accepted(r)
               PROVE  /\ Holds(r) /\ row[c].used /\ granted[c] = 0
                      /\ first[c] = Presentation(r) /\ first[c] # Unpresented
                      /\ S256(first[c].verifier) = row[c].challenge
                      /\ first[c].callback = row[c].callback
                      /\ first[c].seen < TTL
    OBVIOUS
  <2>1. Holds(r)
    BY <1>1 DEF Accepted, Holds
  <2>2. row[c].used /\ granted[c] = 0 /\ first[c] = Presentation(r)
    BY <2>1 DEF IInv, HolderInv
  <2>3. Presentation(r) # Unpresented
    BY <1>1, ConstantsOK DEF Presentation, Unpresented, TypeOK, Exchanges
  <2> QED BY <2>1, <2>2, <2>3 DEF Accepted, Presentation
<1>4. HolderInv'
  <2> SUFFICES ASSUME NEW q \in Request, Holds(q)'
               PROVE  /\ row'[req'[q].code].used
                      /\ granted'[req'[q].code] = 0
                      /\ first'[req'[q].code] = Presentation(q)'
                      /\ \A p \in Request \ {q} : Holds(p)' => req'[p].code # req'[q].code
    BY DEF HolderInv
  <2>1. q # r /\ Holds(q) /\ req'[q] = req[q] /\ Presentation(q)' = Presentation(q)
    BY <1>2 DEF Holds, Presentation
  <2>2. req[q].code \in Code
    BY <1>1, <2>1 DEF Holds, TypeOK
  <2>3. /\ row[req[q].code].used /\ granted[req[q].code] = 0
        /\ first[req[q].code] = Presentation(q)
        /\ \A p \in Request \ {q} : Holds(p) => req[p].code # req[q].code
    BY <2>1 DEF IInv, HolderInv
  <2>4. Accepted(r) => c # req[q].code
    BY <1>3, <2>1, <2>3
  <2>5. \A p \in Request : Holds(p)' => Holds(p) /\ req'[p] = req[p]
    BY <1>2 DEF Holds
  <2> QED BY <1>1, <1>2, <2>1, <2>2, <2>3, <2>4, <2>5
<1>5. UnusedInv'
  <2>1. \A q \in Request : req'[q].pc # "idle" => req'[q] = req[q]
    BY <1>2
  <2> QED BY <1>1, <1>2, <1>3, <2>1 DEF IInv, UnusedInv
<1>6. SingleUse' /\ RightfulSession'
  BY <1>1, <1>2, <1>3 DEF IInv, SingleUse, RightfulSession, TypeOK
<1> QED BY <1>4, <1>5, <1>6 DEF IInv

\* The invariant is inductive.
LEMMA InductiveStep == IInv /\ [Next]_vars => IInv'
<1> SUFFICES ASSUME IInv, [Next]_vars PROVE IInv'
  OBVIOUS
<1>0. TypeOK /\ TypeOK'
  BY TypeStep DEF IInv
<1>1. ASSUME NEW c \in Code, NEW u \in User, NEW ch \in Verifier \cup {None},
             NEW cb \in Callback \cup {None}, Issue(c, u, ch, cb)
      PROVE  IInv'
  <2>1. /\ row[c].state = "absent" /\ row'[c].state = "live" /\ ~row'[c].used
        /\ \A d \in Code \ {c} : row'[d] = row[d]
        /\ UNCHANGED <<req, first, granted>>
    BY <1>0, <1>1 DEF Issue, NewRow, TypeOK
  <2>2. \A r \in Request : req[r].pc # "idle" => req[r].code \in Code \ {c}
    BY <1>0, <2>1 DEF IInv, UnusedInv, TypeOK
  <2>3. granted[c] = 0 /\ first[c] = Unpresented
    BY <2>1 DEF IInv, UnusedInv
  <2>4. HolderInv'
    BY <2>1, <2>2 DEF IInv, HolderInv, Holds, Presentation
  <2>5. UnusedInv' /\ SingleUse' /\ RightfulSession'
    BY <1>0, <2>1, <2>3 DEF IInv, UnusedInv, SingleUse, RightfulSession
  <2> QED BY <1>0, <2>4, <2>5 DEF IInv
<1>2. ASSUME NEW r \in Request, NEW c \in Code, NEW v \in Verifier, NEW cb \in Callback,
             Begin(r, c, v, cb)
      PROVE  IInv'
  <2>1. /\ \A q \in Request \ {r} : req'[q] = req[q]
        /\ req'[r].pc = "consume" /\ req'[r].code = c /\ row[c].state # "absent"
        /\ UNCHANGED <<row, first, granted>>
    BY <1>0, <1>2 DEF Begin, TypeOK
  <2>2. \A q \in Request : Holds(q)' => Holds(q) /\ req'[q] = req[q]
    BY <2>1 DEF Holds
  <2>3. HolderInv'
    BY <2>1, <2>2 DEF IInv, HolderInv, Presentation
  <2>4. UnusedInv' /\ SingleUse' /\ RightfulSession'
    BY <2>1 DEF IInv, UnusedInv, SingleUse, RightfulSession
  <2> QED BY <1>0, <2>3, <2>4 DEF IInv
<1>3. ASSUME NEW r \in Request, Consume(r) PROVE IInv'
  BY <1>0, <1>3, ConsumeStep
<1>4. ASSUME NEW r \in Request, Find(r) PROVE IInv'
  BY <1>0, <1>4, FindStep
<1>5. ASSUME NEW r \in Request, Fail(r) PROVE IInv'
  <2>1. /\ \A q \in Request \ {r} : req'[q] = req[q]
        /\ req'[r].pc = "idle" /\ UNCHANGED <<row, first, granted>>
    BY <1>0, <1>5 DEF Fail, TypeOK, Idle
  <2>2. \A q \in Request : Holds(q)' => Holds(q) /\ req'[q] = req[q]
    BY <2>1 DEF Holds
  <2>3. HolderInv'
    BY <2>1, <2>2 DEF IInv, HolderInv, Presentation
  <2>4. UnusedInv' /\ SingleUse' /\ RightfulSession'
    BY <2>1 DEF IInv, UnusedInv, SingleUse, RightfulSession
  <2> QED BY <1>0, <2>3, <2>4 DEF IInv
<1>6. CASE Sweep \/ \E u \in User : DeleteUser(u)
  <2>1. PICK S \in SUBSET Code : Delete(S) /\ \A c \in S : Live(c)
    BY <1>6, DeletedRows
  <2> QED BY <1>0, <1>6, <2>1, DeleteFacts, QuietStep DEF Sweep, DeleteUser
<1>7. CASE Tick
  BY <1>0, <1>7, TickFacts, QuietStep DEF Tick
<1>8. CASE UNCHANGED vars
  BY <1>0, <1>8, QuietStep DEF vars
<1> QED BY <1>1, <1>2, <1>3, <1>4, <1>5, <1>6, <1>7, <1>8 DEF Next

LEMMA Invariance == Spec => []IInv
BY InitInv, InductiveStep, PTL DEF Spec

\* However many exchanges of a code run at once, one gives a session.
THEOREM SingleUseHolds == Spec => []SingleUse
<1>1. IInv => SingleUse
  BY DEF IInv
<1> QED BY <1>1, Invariance, PTL

\* The session goes to the first presentation, which was the rightful one.
THEOREM RightfulSessionHolds == Spec => []RightfulSession
<1>1. IInv => RightfulSession
  BY DEF IInv
<1> QED BY <1>1, Invariance, PTL
-----------------------------------------------------------------------------
(* The exchange implements the one-time code.                               *)

\* A code that was marked was presented to its row before.
UsedInv == \A c \in Code : row[c].used => first[c] # Unpresented

LEMMA UsedStep == IInv /\ UsedInv /\ [Next]_vars => UsedInv'
<1> SUFFICES ASSUME IInv, UsedInv, [Next]_vars PROVE UsedInv'
  OBVIOUS
<1>0. TypeOK
  BY DEF IInv
<1>1. CASE \E c \in Code, u \in User :
             \E ch \in Verifier \cup {None}, cb \in Callback \cup {None} : Issue(c, u, ch, cb)
  BY <1>0, <1>1 DEF UsedInv, Issue, NewRow, TypeOK
<1>2. ASSUME NEW r \in Request, Consume(r) PROVE UsedInv'
  <2> DEFINE c == req[r].code
             hit == Live(c) /\ ~row[c].used
  <2>1. /\ c \in Code /\ req[r].verifier \in Verifier
        /\ row' = IF hit THEN [row EXCEPT ![c].used = TRUE] ELSE row
        /\ first' = IF first[c] = Unpresented /\ Live(c)
                      THEN [first EXCEPT ![c] = Presentation(r)] ELSE first
    BY <1>0, <1>2 DEF Consume, Mark, TypeOK
  <2>2. Presentation(r) # Unpresented
    BY <2>1, ConstantsOK DEF Presentation, Unpresented
  <2>3. ASSUME NEW d \in Code, row'[d].used PROVE first'[d] # Unpresented
    <3>1. CASE d # c
      BY <1>0, <2>1, <2>3, <3>1 DEF UsedInv, TypeOK
    <3>2. CASE d = c /\ hit
      BY <1>0, <2>1, <2>2, <3>2 DEF TypeOK
    <3>3. CASE d = c /\ ~hit
      BY <1>0, <2>1, <2>2, <2>3, <3>3 DEF UsedInv, TypeOK
    <3> QED BY <3>1, <3>2, <3>3
  <2> QED BY <2>3 DEF UsedInv
<1>3. CASE Sweep \/ \E u \in User : DeleteUser(u)
  <2>1. PICK S \in SUBSET Code : Delete(S) /\ \A c \in S : Live(c)
    BY <1>3, DeletedRows
  <2> QED BY <1>0, <1>3, <2>1, DeleteFacts DEF UsedInv, Sweep, DeleteUser
<1>4. CASE Tick
  BY <1>0, <1>4, TickFacts DEF UsedInv, Tick
<1>5. CASE UNCHANGED <<row, first>>
  BY <1>5 DEF UsedInv
<1> QED
  BY <1>1, <1>2, <1>3, <1>4, <1>5 DEF Next, vars, Begin, Find, Fail

\* Steps that only drop codes, or leave them all as they are.
LEMMA BurnStep ==
  ASSUME UNCHANGED <<CodeTerms, CodeTakers, granted>>,
         \A c \in Code : \/ CodePhase(c)' = CodePhase(c)
                         \/ CodePhase(c) \in {"fresh", "won"} /\ CodePhase(c)' = "burnt"
  PROVE  OTC!Next
<1>1. PICK S : S = {c \in Code : CodePhase(c) \in {"fresh", "won"} /\ CodePhase(c)' = "burnt"}
  OBVIOUS
<1>2. \A c \in S : CodePhases[c] \in {"fresh", "won"}
  BY <1>1 DEF CodePhases
<1>3. CodePhases' = [c \in Code |-> IF c \in S THEN "burnt" ELSE CodePhases[c]]
  BY <1>1 DEF CodePhases
<1>4. S \in SUBSET Code /\ OTC!Burn(S)
  BY <1>1, <1>2, <1>3 DEF OTC!Burn
<1> QED BY <1>4 DEF OTC!Next

\* A code whose row, sessions and winner stay keeps its phase.
LEMMA PhaseKept ==
  ASSUME NEW c \in Code, row'[c].state = row[c].state, row'[c].used = row[c].used,
         granted'[c] = granted[c], Winning(c)' <=> Winning(c)
  PROVE  CodePhase(c)' = CodePhase(c)
BY DEF CodePhase, Live

\* An exchange that is about to be accepted holds its code.
LEMMA WinnerHolds ==
  ASSUME NEW r \in Request, req[r].pc = "find", Accepted(r)
  PROVE  Holds(r) /\ Live(req[r].code)
BY DEF Accepted, Holds, Live

\* A new code: fresh, on the terms of its login.
LEMMA IssueSettles ==
  ASSUME IInv, NEW c \in Code, NEW u \in User, NEW ch \in Verifier \cup {None},
         NEW cb \in Callback \cup {None}, Issue(c, u, ch, cb)
  PROVE  OTC!Issue(c)
<1>0. TypeOK /\ UnusedInv
  BY DEF IInv
<1>1. /\ row[c].state = "absent" /\ ch \in Verifier /\ cb \in Callback
      /\ row' = [row EXCEPT ![c] = NewRow(u, ch, cb)]
      /\ UNCHANGED <<req, first, granted>>
  BY ConstantsOK DEF Issue, S256
<1>2. /\ row'[c] = NewRow(u, ch, cb)
      /\ \A d \in Code \ {c} : row'[d] = row[d]
  BY <1>0, <1>1 DEF TypeOK
<1>3. granted[c] = 0
  BY <1>0, <1>1 DEF UnusedInv
<1>4. CodePhase(c) = "unborn" /\ CodePhase(c)' = "fresh"
  BY <1>1, <1>2, <1>3 DEF CodePhase, Live, NewRow
<1>5. ASSUME NEW d \in Code \ {c} PROVE CodePhase(d)' = CodePhase(d)
  <2>1. Winning(d)' <=> Winning(d)
    BY <1>1, <1>2, <1>5 DEF Winning, Accepted, Live
  <2> QED BY <1>1, <1>2, <2>1, PhaseKept
<1>6. CodePhases[c] = "unborn" /\ CodePhases' = [CodePhases EXCEPT ![c] = "fresh"]
  BY <1>4, <1>5 DEF CodePhases
<1>7. CodeTerms' = [CodeTerms EXCEPT ![c] = Offer(ch, cb)]
  BY <1>0, <1>1, <1>2 DEF CodeTerms, Offer, S256, NewRow, TypeOK
<1>8. Offer(ch, cb) \in Offers
  BY <1>1 DEF Offer, Offers, S256
<1>9. UNCHANGED <<CodeTakers, granted>>
  BY <1>1 DEF CodeTakers
<1> QED BY <1>6, <1>7, <1>8, <1>9 DEF OTC!Issue

\* The first presentation of a live code settles it.
LEMMA HitSettles ==
  ASSUME IInv, NEW r \in Request, NEW c \in Code, c = req[r].code, Consume(r),
         Live(c), ~row[c].used
  PROVE  OTC!Settle(c)
<1> DEFINE t == Offer(req[r].verifier, req[r].callback)
           ontime == req[r].seen < TTL
<1>0. TypeOK /\ UnusedInv /\ HolderInv
  BY DEF IInv
<1>1. /\ c \in Code /\ req[r].pc = "consume"
      /\ req[r].verifier \in Verifier /\ req[r].callback \in Callback
  BY <1>0 DEF Consume, Mark, TypeOK
<1>2. granted[c] = 0 /\ first[c] = Unpresented
  BY <1>0, <1>1 DEF UnusedInv
<1>3. /\ req' = [req EXCEPT ![r].pc = "find", ![r].won = TRUE]
      /\ row' = [row EXCEPT ![c].used = TRUE]
      /\ first' = [first EXCEPT ![c] = Presentation(r)]
      /\ granted' = granted
  BY <1>2 DEF Consume, Mark
<1>4. /\ req'[r].pc = "find" /\ req'[r].won /\ req'[r].code = c
      /\ req'[r].verifier = req[r].verifier /\ req'[r].callback = req[r].callback
      /\ req'[r].seen = req[r].seen
      /\ \A q \in Request \ {r} : req'[q] = req[q]
  BY <1>0, <1>3 DEF TypeOK, Exchanges
<1>5. /\ row'[c].used /\ row'[c].state = row[c].state
      /\ row'[c].challenge = row[c].challenge /\ row'[c].callback = row[c].callback
      /\ \A d \in Code \ {c} : row'[d] = row[d]
  BY <1>0, <1>1, <1>3 DEF TypeOK, Rows
<1>6. first'[c] = Presentation(r) /\ \A d \in Code \ {c} : first'[d] = first[d]
  BY <1>0, <1>1, <1>3 DEF TypeOK
<1>7. Presentation(r) # Unpresented
  BY <1>1, ConstantsOK DEF Presentation, Unpresented
<1>8. CodePhase(c) = "fresh"
  BY <1>2 DEF CodePhase, Live
<1>9. Winning(c)' <=> ontime /\ t = CodeTerms[c]
  <2>1. Accepted(r)' <=> ontime /\ S256(req[r].verifier) = row[c].challenge
                                /\ req[r].callback = row[c].callback
    BY <1>4, <1>5 DEF Accepted, Live, S256
  <2>2. CodeTerms[c] = [challenge |-> row[c].challenge, callback |-> row[c].callback]
    BY <1>1 DEF CodeTerms, Live
  <2>3. t = CodeTerms[c] <=> S256(req[r].verifier) = row[c].challenge
                             /\ req[r].callback = row[c].callback
    BY <2>2 DEF Offer
  <2>4. ASSUME NEW q \in Request \ {r}, req'[q].pc = "find", req'[q].code = c, Accepted(q)'
        PROVE  FALSE
    <3>1. Holds(q) /\ req[q].code = c
      BY <1>4, <2>4 DEF Accepted, Holds
    <3> QED BY <1>0, <3>1 DEF HolderInv
  <2>5. Winning(c)' <=> Accepted(r)'
    BY <1>4, <2>4 DEF Winning
  <2> QED BY <2>1, <2>3, <2>5
<1>10. CodePhase(c)' = IF ontime /\ t = CodeTerms[c] THEN "won" ELSE "burnt"
  BY <1>2, <1>3, <1>5, <1>9 DEF CodePhase, Live
<1>11. ASSUME NEW d \in Code \ {c} PROVE CodePhase(d)' = CodePhase(d)
  <2>1. ASSUME NEW q \in Request, req'[q].code = d
        PROVE  req'[q] = req[q] /\ q # r
    BY <1>4, <1>11, <2>1
  <2>2. ASSUME NEW q \in Request, req[q].code = d
        PROVE  req'[q] = req[q] /\ q # r
    BY <1>4, <1>11, <2>2
  <2>3. Winning(d)' <=> Winning(d)
    BY <1>5, <2>1, <2>2 DEF Winning, Accepted, Live
  <2> QED BY <1>3, <1>5, <2>3, PhaseKept
<1>12. /\ CodePhases[c] = "fresh"
       /\ CodePhases' = [CodePhases EXCEPT ![c] = IF ontime /\ t = CodeTerms[c] THEN "won" ELSE "burnt"]
  BY <1>1, <1>8, <1>10, <1>11 DEF CodePhases
<1>13. CodeTakers' = [CodeTakers EXCEPT ![c] = [offer |-> t, ontime |-> ontime]]
  <2>1. /\ first'[c].verifier = req[r].verifier /\ first'[c].callback = req[r].callback
        /\ first'[c].seen = req[r].seen
    BY <1>6 DEF Presentation
  <2> QED BY <1>1, <1>6, <1>7, <2>1 DEF CodeTakers
<1>14. UNCHANGED <<CodeTerms, granted>>
  BY <1>1, <1>3, <1>5 DEF CodeTerms
<1>15. t \in Offers /\ ontime \in BOOLEAN
  BY <1>1 DEF Offer, Offers
<1> HIDE DEF t, ontime
<1> QED BY <1>12, <1>13, <1>14, <1>15 DEF OTC!Settle

\* A later presentation, or one of a deleted code, changes nothing.
LEMMA MissSettles ==
  ASSUME IInv, UsedInv, NEW r \in Request, NEW c \in Code, c = req[r].code, Consume(r),
         ~(Live(c) /\ ~row[c].used)
  PROVE  OTC!Next
<1>0. TypeOK
  BY DEF IInv
<1>1. /\ req' = [req EXCEPT ![r].pc = "find", ![r].won = FALSE]
      /\ UNCHANGED <<row, first, granted>> /\ req[r].pc = "consume"
  BY DEF Consume, Mark, UsedInv
<1>2. ~req'[r].won /\ \A q \in Request \ {r} : req'[q] = req[q]
  BY <1>0, <1>1 DEF TypeOK, Exchanges
<1>3. ASSUME NEW d \in Code PROVE CodePhase(d)' = CodePhase(d)
  <2>1. ASSUME NEW q \in Request, req'[q].pc = "find", req'[q].code = d, Accepted(q)'
        PROVE  q # r
    BY <1>2, <2>1 DEF Accepted
  <2>2. ASSUME NEW q \in Request, req[q].pc = "find" PROVE q # r
    BY <1>1, <2>2
  <2>3. \A q \in Request \ {r} : Accepted(q)' <=> Accepted(q)
    BY <1>1, <1>2 DEF Accepted, Live
  <2>4. Winning(d)' <=> Winning(d)
    BY <1>2, <2>1, <2>2, <2>3 DEF Winning
  <2> QED BY <1>1, <2>4, PhaseKept
<1>4. UNCHANGED <<CodeTerms, CodeTakers, granted>>
  BY <1>1 DEF CodeTerms, CodeTakers
<1> QED BY <1>3, <1>4, BurnStep

\* The exchange that reads the row gives a session for a code that is won, or
\* nothing.
LEMMA FindSettles ==
  ASSUME IInv, NEW r \in Request, NEW c \in Code, c = req[r].code, Find(r)
  PROVE  OTC!Next
<1>0. TypeOK /\ HolderInv
  BY DEF IInv
<1>1. /\ req' = [req EXCEPT ![r] = Idle] /\ req[r].pc = "find"
      /\ UNCHANGED <<row, first>>
      /\ granted' = IF Accepted(r) THEN [granted EXCEPT ![c] = @ + 1] ELSE granted
  BY DEF Find
<1>2. req'[r].pc = "idle" /\ \A q \in Request \ {r} : req'[q] = req[q]
  BY <1>0, <1>1 DEF TypeOK, Idle
<1>3. UNCHANGED <<CodeTerms, CodeTakers>>
  BY <1>1 DEF CodeTerms, CodeTakers
<1>4. ASSUME NEW d \in Code, d # c \/ ~Accepted(r) PROVE Winning(d)' <=> Winning(d)
  <2>1. ASSUME NEW q \in Request, req'[q].pc = "find" PROVE q # r
    BY <1>2, <2>1
  <2>2. ASSUME NEW q \in Request, req[q].pc = "find", req[q].code = d, Accepted(q) PROVE q # r
    BY <1>4, <2>2
  <2> QED BY <1>1, <1>2, <2>1, <2>2 DEF Winning, Accepted, Live
<1>5. CASE ~Accepted(r)
  <2>1. \A d \in Code : CodePhase(d)' = CodePhase(d)
    BY <1>1, <1>4, <1>5, PhaseKept
  <2> QED BY <1>1, <1>3, <1>5, <2>1, BurnStep
<1>6. CASE Accepted(r)
  <2>1. Holds(r) /\ Live(c)
    BY <1>1, <1>6, WinnerHolds
  <2>2. row[c].used /\ granted[c] = 0
    BY <1>0, <2>1 DEF HolderInv
  <2>3. CodePhase(c) = "won"
    BY <1>1, <1>6, <2>1, <2>2 DEF CodePhase, Winning, Live
  <2>4. granted'[c] = 1 /\ \A d \in Code \ {c} : granted'[d] = granted[d]
    BY <1>0, <1>1, <1>6, <2>2 DEF TypeOK
  <2>5. CodePhase(c)' = "session"
    BY <2>4 DEF CodePhase
  <2>6. \A d \in Code \ {c} : CodePhase(d)' = CodePhase(d)
    BY <1>1, <1>4, <2>4, PhaseKept
  <2>7. CodePhases[c] = "won" /\ CodePhases' = [CodePhases EXCEPT ![c] = "session"]
    BY <2>3, <2>5, <2>6 DEF CodePhases
  <2>8. granted' = [granted EXCEPT ![c] = @ + 1]
    BY <1>1, <1>6
  <2>9. OTC!Grant(c)
    BY <1>3, <2>7, <2>8 DEF OTC!Grant
  <2> QED BY <2>9 DEF OTC!Next
<1> QED BY <1>5, <1>6

\* An exchange that begins, or ends before it reads the row.
LEMMA ExchangeSettles ==
  ASSUME IInv, NEW r \in Request, UNCHANGED <<row, first, granted>>,
         req' \in [Request -> Exchanges], req'[r].pc # "find",
         \A q \in Request \ {r} : req'[q] = req[q]
  PROVE  OTC!Next
<1>0. TypeOK /\ HolderInv
  BY DEF IInv
<1>1. UNCHANGED <<CodeTerms, CodeTakers>>
  BY DEF CodeTerms, CodeTakers
<1>2. ASSUME NEW c \in Code
      PROVE  \/ CodePhase(c)' = CodePhase(c)
             \/ CodePhase(c) \in {"fresh", "won"} /\ CodePhase(c)' = "burnt"
  <2>1. Winning(c)' => Winning(c)
    BY DEF Winning, Accepted, Live
  <2> QED BY <2>1 DEF CodePhase, Live
<1> QED BY <1>1, <1>2, BurnStep

\* Deleting rows drops their codes.
LEMMA DeleteSettles ==
  ASSUME IInv, NEW S \in SUBSET Code, Delete(S), \A c \in S : Live(c),
         UNCHANGED <<req, first, granted>>
  PROVE  OTC!Next
<1>0. TypeOK
  BY DEF IInv
<1>1. \A c \in Code : /\ row'[c].used = row[c].used
                      /\ row'[c].challenge = row[c].challenge
                      /\ row'[c].callback = row[c].callback
                      /\ row'[c].state = "absent" <=> row[c].state = "absent"
                      /\ row'[c].state = IF c \in S THEN "gone" ELSE row[c].state
  BY <1>0, DeleteFacts DEF Delete, TypeOK, Rows
<1>2. UNCHANGED <<CodeTerms, CodeTakers>>
  BY <1>1 DEF CodeTerms, CodeTakers
<1>3. ASSUME NEW c \in Code
      PROVE  \/ CodePhase(c)' = CodePhase(c)
             \/ CodePhase(c) \in {"fresh", "won"} /\ CodePhase(c)' = "burnt"
  <2>1. CASE c \notin S
    <3>1. Winning(c)' <=> Winning(c)
      BY <1>1, <2>1 DEF Winning, Accepted, Live
    <3> QED BY <1>1, <2>1, <3>1, PhaseKept
  <2>2. CASE c \in S
    <3>1. ~Winning(c)'
      BY <1>1, <2>2 DEF Winning, Accepted, Live
    <3> QED BY <1>1, <2>2, <3>1 DEF CodePhase, Live
  <2> QED BY <2>1, <2>2
<1> QED BY <1>2, <1>3, BurnStep

\* The passing of time settles nothing.
LEMMA TickSettles ==
  ASSUME IInv, Tick
  PROVE  OTC!Next
<1>0. TypeOK
  BY DEF IInv
<1>1. \A c \in Code : /\ row'[c].used = row[c].used
                      /\ row'[c].challenge = row[c].challenge
                      /\ row'[c].callback = row[c].callback
                      /\ row'[c].state = row[c].state
  BY <1>0 DEF Tick, TypeOK, Rows
<1>2. UNCHANGED <<req, first, granted, CodeTerms, CodeTakers>>
  BY <1>1 DEF Tick, CodeTerms, CodeTakers
<1>3. ASSUME NEW c \in Code PROVE CodePhase(c)' = CodePhase(c)
  <2>1. Winning(c)' <=> Winning(c)
    BY <1>1, <1>2 DEF Winning, Accepted, Live
  <2> QED BY <1>1, <1>2, <2>1, PhaseKept
<1> QED BY <1>2, <1>3, BurnStep

LEMMA StepSettles == IInv /\ UsedInv /\ [Next]_vars => [OTC!Next]_(OTC!vars)
<1> SUFFICES ASSUME IInv, UsedInv, [Next]_vars PROVE OTC!Next \/ UNCHANGED OTC!vars
  OBVIOUS
<1>0. TypeOK /\ TypeOK'
  BY TypeStep DEF IInv
<1>1. ASSUME NEW c \in Code, NEW u \in User, NEW ch \in Verifier \cup {None},
             NEW cb \in Callback \cup {None}, Issue(c, u, ch, cb)
      PROVE  OTC!Next
  BY <1>1, IssueSettles DEF OTC!Next
<1>2. ASSUME NEW r \in Request, NEW c \in Code, NEW v \in Verifier, NEW cb \in Callback,
             Begin(r, c, v, cb)
      PROVE  OTC!Next
  <2>1. req'[r].pc # "find" /\ \A q \in Request \ {r} : req'[q] = req[q]
    BY <1>0, <1>2 DEF Begin, TypeOK
  <2> QED BY <1>0, <1>2, <2>1, ExchangeSettles DEF Begin, TypeOK
<1>3. ASSUME NEW r \in Request, Consume(r) PROVE OTC!Next
  <2>1. PICK c \in Code : c = req[r].code
    BY <1>0, <1>3 DEF Consume, Mark, TypeOK
  <2>2. CASE Live(c) /\ ~row[c].used
    BY <1>3, <2>1, <2>2, HitSettles DEF OTC!Next
  <2> QED BY <1>3, <2>1, <2>2, MissSettles
<1>4. ASSUME NEW r \in Request, Find(r) PROVE OTC!Next
  <2>1. PICK c \in Code : c = req[r].code
    BY <1>0, <1>4 DEF Find, TypeOK
  <2> QED BY <1>4, <2>1, FindSettles
<1>5. ASSUME NEW r \in Request, Fail(r) PROVE OTC!Next
  <2>1. req'[r].pc # "find" /\ \A q \in Request \ {r} : req'[q] = req[q]
    BY <1>0, <1>5 DEF Fail, TypeOK, Idle
  <2> QED BY <1>0, <1>5, <2>1, ExchangeSettles DEF Fail, TypeOK
<1>6. CASE Sweep \/ \E u \in User : DeleteUser(u)
  <2>1. PICK S \in SUBSET Code : Delete(S) /\ \A c \in S : Live(c)
    BY <1>6, DeletedRows
  <2>2. UNCHANGED <<req, first, granted>>
    BY <1>6 DEF Sweep, DeleteUser
  <2> QED BY <2>1, <2>2, DeleteSettles
<1>7. CASE Tick
  BY <1>7, TickSettles
<1>8. CASE UNCHANGED vars
  BY <1>8 DEF vars, OTC!vars, CodePhases, CodePhase, CodeTerms, CodeTakers, Winning, Accepted, Live
<1> QED BY <1>1, <1>2, <1>3, <1>4, <1>5, <1>6, <1>7, <1>8 DEF Next

\* The exchange implements the one-time code: its first presentation settles a
\* code, and a session follows at most once, although Consume marks the row in
\* one statement and reads it in another, with the sweeper, the deletion of
\* users, failures and other exchanges in between.
THEOREM ExchangeImplementsOneTimeCode == Spec => ImplementsOneTimeCode
<1>1. Init => UsedInv /\ OTC!Init
  BY DEF Init, UsedInv, OTC!Init, CodePhases, CodePhase, CodeTerms, CodeTakers, Absent
<1>2. Spec => []UsedInv
  BY <1>1, Invariance, UsedStep, PTL DEF Spec
<1> QED BY <1>1, <1>2, Invariance, StepSettles, PTL DEF Spec, ImplementsOneTimeCode, OTC!Spec
=============================================================================
