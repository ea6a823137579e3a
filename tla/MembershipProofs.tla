-------------------------- MODULE MembershipProofs --------------------------
(***************************************************************************)
(* Proofs about an organization, its group and its invitations, for any    *)
(* number of users, requests and logins.                                   *)
(*                                                                         *)
(* The inductive invariant says, for every request, what it still knows of *)
(* what it has checked: always, that a login that accepts an invitation    *)
(* has joined what the invitation is for; until an owner acts, that        *)
(* nobody's request can make or unmake an owner; and as long as requests   *)
(* do not overlap, that everything which was read is still so.             *)
(***************************************************************************)
EXTENDS Membership, FiniteSetTheorems, TLAPS

-----------------------------------------------------------------------------
\* The inductive invariant.

Phase == {"idle", "check", "write", "create", "invitations", "next", "find group",
          "add read", "add write", "count", "set count", "read", "accept", "done", "failed"}

Invitation == [id : Nat, user : User, role : Role, group : BOOLEAN, maintainer : BOOLEAN,
               status : {"pending", "accepted"}]

ReqRec == [pc : Phase, op : Operation, as : Role \cup {"none"}, id : Nat, flag : BOOLEAN,
           n : Nat, todo : SUBSET Invitation, cur : Invitation]

\* Subject, of the local state x of a request.
SubjectOf(x) == IF x.op.kind \in {"leave", "login"} THEN x.op.by ELSE x.op.of

\* Who makes which operation.
Shaped(q, x) ==
  /\ ~Ended(x.pc) /\ q \in Session => x.op.kind = "login" /\ x.op.by = q
  /\ ~Ended(x.pc) /\ q \notin Session => x.op \in Op

\* Ids were given before they are used.
Bounded(x) == x.id <= ids /\ x.cur.id <= ids /\ \A j \in x.todo : j.id <= ids

\* An invitation and a copy of it that a login has read.
Agree(i, j) == i.id = j.id => i.user = j.user /\ i.group = j.group

\* What a login has read are invitations of its user, who is or has been where
\* the invitation that is about to be accepted leads.
Invited(q, x) ==
  /\ \A i \in inv : Agree(i, x.cur) /\ \A j \in x.todo : Agree(i, j)
  /\ q \in Session =>
       /\ \A j \in x.todo : j.user = q
       /\ x.pc \in {"invitations", "next"} /\ x.flag => <<q, "org">> \in ever
       /\ x.pc \in {"find group", "add read", "add write", "count", "set count", "accept"} =>
            x.cur.user = q /\ <<q, "org">> \in ever
       /\ x.pc \in {"count", "set count"} \/ (x.pc = "accept" /\ x.cur.group) =>
            <<q, "group">> \in ever

\* Until an owner acts no request is an owner's, and none is about to make or to
\* unmake one.
Unescalated(x) ==
  ~acted =>
    /\ \A j \in x.todo : j.role # "owner"
    /\ ~Ended(x.pc) /\ x.op.kind \in {"remove", "role", "invite"} => x.as # "owner"
    /\ x.pc = "create" /\ x.op.kind = "invite" => x.op.role # "owner"
    /\ x.pc = "write" /\ x.op.kind \in {"remove", "role"} => org[x.op.of].role # "owner"
    /\ x.pc = "write" /\ x.op.kind = "role" => x.op.role # "owner"

\* What a request that nobody disturbs has checked still holds.
Undisturbed(q, x) ==
  /\ x.pc = "check" /\ q \in Request => x.as = org[x.op.by].role
  /\ x.pc = "write" /\ x.op.kind \in {"remove", "role"} =>
       /\ x.as = org[x.op.by].role
       /\ x.op.of # x.op.by
       /\ org[x.op.of].role = "owner" => x.as = "owner"
  /\ x.pc = "write" /\ x.op.kind = "leave" => Owners # {x.op.by}
  /\ ~Ended(x.pc) /\ x.op.kind = "login" /\ x.flag => Member(SubjectOf(x))
  /\ x.pc \in {"find group", "add read", "add write"} => Member(SubjectOf(x))
  /\ x.pc \in {"add read", "add write"} => group
  /\ x.pc = "add write" => RowsOf(SubjectOf(x)) = {}
  /\ x.pc = "set count" => x.n = Cardinality(gm)
  /\ x.pc = "write" /\ x.op.kind \in {"drop", "maintainer"} =>
       \E r \in gm : r.user = x.op.of /\ r.id = x.id /\ r.maintainer = x.flag

ReqInv(q, x) ==
  /\ Shaped(q, x) /\ Bounded(x) /\ Invited(q, x) /\ Unescalated(x)
  /\ serial => Undisturbed(q, x)

TablesOK ==
  /\ org \in [User -> [role : Role \cup {"none"}, id : 0 .. ids]]
  /\ gm \subseteq [id : 0 .. ids, user : User, maintainer : BOOLEAN] /\ IsFiniteSet(gm)
  /\ OneRow
  /\ mrow \subseteq User
  /\ group \in BOOLEAN
  /\ count \in Nat
  /\ inv \subseteq [id : 1 .. ids, user : User, role : Role, group : BOOLEAN,
                    maintainer : BOOLEAN, status : {"pending", "accepted"}]
  /\ ids \in Nat
  /\ acted \in BOOLEAN /\ serial \in BOOLEAN
  /\ faults \in 0 .. MaxFaults

\* Invitations have ids of their own; who is in the organization or in the group
\* has been there.
HistoryInv ==
  /\ \A i, j \in inv : Agree(i, j)
  /\ \A u \in User : Member(u) => <<u, "org">> \in ever
  /\ \A r \in gm : <<r.user, "group">> \in ever

\* Until an owner acts nobody is invited as one.
EscalationInv == NoEscalation /\ (~acted => \A i \in inv : i.role # "owner")

\* As long as requests do not overlap one is under way at most.
Alone == serial => \A p, q \in Actor : ~Ended(req[p].pc) /\ ~Ended(req[q].pc) => p = q

\* The request will set the count right.
Settling(x) == x.pc = "count" \/ (x.pc = "set count" /\ x.n = Cardinality(gm))

\* The count is right or somebody is about to set it right.
CountInv ==
  serial /\ faults = 0 /\ group =>
    count = Cardinality(gm) \/ \E q \in Actor : Settling(req[q])

ReqsInv == req \in [Actor -> ReqRec] /\ \A q \in Actor : ReqInv(q, req[q])

IInv ==
  /\ TablesOK /\ ReqsInv /\ HistoryInv /\ AcceptedJoined /\ EscalationInv
  /\ OwnersKept /\ GroupConsistent /\ Alone /\ CountInv

-----------------------------------------------------------------------------
\* What a step does to the requests.

\* A request that has ended, or has not begun, knows nothing.
EndedAs(pc) == [Idle EXCEPT !.pc = pc]

LEMMA EndedRec ==
  ASSUME User # {}, NEW pc \in {"idle", "done", "failed"}
  PROVE  /\ EndedAs(pc) \in ReqRec /\ EndedAs(pc).pc = pc /\ EndedAs(pc).todo = {}
         /\ EndedAs(pc).op = NoOp /\ EndedAs(pc).id = 0 /\ EndedAs(pc).cur.id = 0
         /\ EndedAs(pc).cur = NoInvitation /\ EndedAs(pc).n = 0 /\ EndedAs(pc).as = "none"
         /\ EndedAs(pc).flag = FALSE
         /\ NoOp.kind = "none" /\ NoOp \in Operation
         /\ NoInvitation \in Invitation /\ NoInvitation.id = 0
         /\ Idle \in ReqRec /\ Idle.todo = {} /\ Idle.id = 0 /\ Idle.cur.id = 0
         /\ Idle.flag = FALSE
<1>1. (CHOOSE u \in User : TRUE) \in User
  OBVIOUS
<1>2. NoOp \in Operation /\ NoOp.kind = "none"
  BY <1>1 DEF NoOp, Operation, Kind, Role
<1>3. NoInvitation \in Invitation /\ NoInvitation.id = 0
  BY <1>1 DEF NoInvitation, Invitation, Role
<1>4. Idle \in ReqRec /\ Idle.todo = {} /\ Idle.op = NoOp /\ Idle.id = 0 /\ Idle.n = 0
      /\ Idle.cur = NoInvitation /\ Idle.as = "none" /\ Idle.flag = FALSE
  BY <1>2, <1>3 DEF Idle, ReqRec, Phase
<1> QED BY <1>2, <1>3, <1>4 DEF EndedAs, ReqRec, Phase

LEMMA UserNotEmpty ==
  ASSUME TablesOK, ReqsInv, NEW q \in Actor
  PROVE  User # {}
<1>1. req[q].op.by \in User
  BY DEF ReqsInv, ReqRec, Operation
<1> QED BY <1>1

\* Ended requests satisfy the invariant whatever the tables hold.
LEMMA EndedReqInv ==
  ASSUME TablesOK, User # {}, NEW q \in Actor, NEW pc \in {"idle", "done", "failed"}
  PROVE  ReqInv(q, EndedAs(pc))
<1> DEFINE x == EndedAs(pc)
<1>1. /\ x.pc = pc /\ x.todo = {} /\ x.op = NoOp /\ x.id = 0 /\ x.cur.id = 0
      /\ x.op.kind = "none"
  BY EndedRec
<1>2. Shaped(q, x)
  BY <1>1 DEF Shaped, Ended, EndedAs
<1>3. Bounded(x)
  BY <1>1 DEF Bounded, TablesOK
<1>4. Invited(q, x)
  <2>1. \A i \in inv : i.id # 0
    BY DEF TablesOK
  <2> HIDE DEF x
  <2> QED BY <1>1, <2>1 DEF Invited, Agree
<1>5. Unescalated(x)
  BY <1>1 DEF Unescalated, Ended
<1>6. Undisturbed(q, x)
  BY <1>1 DEF Undisturbed
<1> QED BY <1>2, <1>3, <1>4, <1>5, <1>6 DEF ReqInv

LEMMA EndedReqInvNext ==
  ASSUME TablesOK', User # {}, NEW q \in Actor, NEW pc \in {"idle", "done", "failed"}
  PROVE  ReqInv(q, EndedAs(pc))'
<1> DEFINE x == EndedAs(pc)
<1>1. /\ x.pc = pc /\ x.todo = {} /\ x.op = NoOp /\ x.id = 0 /\ x.cur.id = 0
      /\ x.op.kind = "none"
  BY EndedRec
<1>2. x' = x
  BY DEF EndedAs, Idle, NoOp, NoInvitation
<1>3. Shaped(q, x)
  BY <1>1 DEF Shaped, Ended, EndedAs
<1>4. Bounded(x)'
  BY <1>1, <1>2 DEF Bounded, TablesOK
<1>5. Invited(q, x)'
  <2>1. \A i \in inv' : i.id # 0
    BY DEF TablesOK
  <2> HIDE DEF x
  <2> QED BY <1>1, <1>2, <2>1 DEF Invited, Agree
<1>6. Unescalated(x)'
  BY <1>1, <1>2 DEF Unescalated, Ended
<1>7. Undisturbed(q, x)'
  BY <1>1, <1>2 DEF Undisturbed
<1> QED BY <1>2, <1>3, <1>4, <1>5, <1>6, <1>7 DEF ReqInv

\* The tables change in a way that leaves what other requests know: ids grow,
\* histories grow, an invitation is new or an old one, and nobody becomes an owner
\* before an owner acts.
Grows ==
  /\ ids \in Nat /\ ids' \in Nat /\ ids <= ids'
  /\ ever \subseteq ever'
  /\ acted => acted'
  /\ \A i \in inv' : i.id > ids \/ \E k \in inv : k.id = i.id /\ k.user = i.user /\ k.group = i.group
  /\ ~acted' => \A u \in User : org'[u].role = "owner" => org[u].role = "owner"

LEMMA GrowsAlike ==
  ASSUME ids \in Nat, ids' \in Nat, ids <= ids', ever \subseteq ever',
         acted' = acted, inv' = inv, org' = org
  PROVE  Grows
<1>1. \A i \in inv' : \E k \in inv : k.id = i.id /\ k.user = i.user /\ k.group = i.group
  OBVIOUS
<1> QED BY <1>1 DEF Grows

LEMMA OthersKeep ==
  ASSUME NEW q \in Actor, NEW x \in ReqRec, ReqInv(q, x), Grows,
         inv' \subseteq [id : 1 .. ids', user : User, role : Role, group : BOOLEAN,
                         maintainer : BOOLEAN, status : {"pending", "accepted"}],
         serial' => Ended(x.pc)
  PROVE  ReqInv(q, x)'
<1>1. Shaped(q, x)
  BY DEF ReqInv
<1>2. Bounded(x)'
  BY DEF ReqInv, Bounded, Grows, ReqRec, Invitation
<1>3. Invited(q, x)'
  <2>1. ASSUME NEW i \in inv', NEW j \in Invitation, j.id <= ids, \A k \in inv : Agree(k, j)
        PROVE  Agree(i, j)
    BY <2>1 DEF Agree, Grows, Invitation
  <2>2. \A i \in inv' : Agree(i, x.cur) /\ \A j \in x.todo : Agree(i, j)
    BY <2>1 DEF ReqInv, Bounded, Invited, ReqRec
  <2> QED BY <2>2 DEF ReqInv, Invited, Grows
<1>4. Unescalated(x)'
  <2>1. x.op.of \in User
    BY DEF ReqRec, Operation
  <2> QED BY <2>1 DEF ReqInv, Unescalated, Grows
<1>5. Ended(x.pc) => Undisturbed(q, x)'
  BY DEF Ended, Undisturbed
<1> QED BY <1>1, <1>2, <1>3, <1>4, <1>5 DEF ReqInv

\* The requests after a step of q that leaves it with the local state x.
LEMMA RequestMoves ==
  ASSUME IInv, TablesOK', Grows, NEW q \in Actor, NEW x \in ReqRec,
         req' = [req EXCEPT ![q] = x], ReqInv(q, x)',
         serial' => serial,
         \/ ~Ended(req[q].pc)
         \/ serial' => \A p \in Actor \ {q} : Ended(req[p].pc)
  PROVE  ReqsInv' /\ Alone'
<1>1. serial' => \A p \in Actor \ {q} : Ended(req[p].pc)
  BY DEF IInv, Alone
<1>2. req' \in [Actor -> ReqRec] /\ req'[q] = x /\ \A p \in Actor \ {q} : req'[p] = req[p]
  BY DEF IInv, ReqsInv
<1>3. ASSUME NEW p \in Actor PROVE ReqInv(p, req[p])'
  <2>1. CASE p = q
    <3>1. req'[p] = x
      BY <1>2, <2>1
    <3> QED BY <2>1, <3>1
  <2>2. CASE p # q
    <3>1. req'[p] = req[p] /\ req[p] \in ReqRec /\ ReqInv(p, req[p])
      BY <1>2, <2>2 DEF IInv, ReqsInv
    <3>2. serial' => Ended(req[p].pc)
      BY <1>1, <2>2
    <3>3. inv' \subseteq [id : 1 .. ids', user : User, role : Role, group : BOOLEAN,
                          maintainer : BOOLEAN, status : {"pending", "accepted"}]
      BY DEF TablesOK
    <3>4. PICK y \in ReqRec : y = req[p]
      BY <3>1
    <3>5. ReqInv(p, y)'
      BY <3>1, <3>2, <3>3, <3>4, OthersKeep
    <3>6. req'[p] = y
      BY <3>1, <3>4
    <3> QED BY <3>5, <3>6
  <2> QED BY <2>1, <2>2
<1>4. Alone'
  BY <1>1, <1>2 DEF Alone
<1> QED BY <1>2, <1>3, <1>4 DEF ReqsInv

-----------------------------------------------------------------------------
\* The steps that change nothing but the local state of the request.

Tables == <<org, gm, mrow, group, count, inv, ids, ever, left, acted, serial>>

LEMMA LocalStep ==
  ASSUME IInv, NEW q \in Actor, ~Ended(req[q].pc),
         UNCHANGED Tables, faults' \in 0 .. MaxFaults, faults' >= faults,
         NEW x \in ReqRec, req' = [req EXCEPT ![q] = x], ReqInv(q, x),
         Settling(req[q]) => Settling(x) \/ faults' > 0
  PROVE  IInv'
<1>1. TablesOK'
  BY DEF IInv, TablesOK, Tables, OneRow
<1>2. ReqInv(q, x)'
  <2>1. Shaped(q, x) /\ Bounded(x)' /\ Invited(q, x)' /\ Unescalated(x)'
    BY DEF Tables, ReqInv, Bounded, Invited, Unescalated
  <2>2. serial => Undisturbed(q, x)'
    BY DEF Tables, ReqInv, Undisturbed, Owners, Member, RowsOf
  <2> QED BY <2>1, <2>2 DEF Tables, ReqInv
<1>3. Grows
  BY DEF IInv, TablesOK, Grows, Tables
<1>4. ReqsInv' /\ Alone'
  BY <1>1, <1>2, <1>3, RequestMoves DEF Tables
<1>5. HistoryInv' /\ AcceptedJoined'
  BY DEF IInv, HistoryInv, AcceptedJoined, Member, Tables
<1>6. EscalationInv'
  BY DEF IInv, EscalationInv, NoEscalation, Owners, Tables
<1>7. OwnersKept' /\ GroupConsistent'
  BY DEF IInv, OwnersKept, GroupConsistent, Owners, Member, RowsOf, Tables
<1>8. CountInv'
  <2> SUFFICES ASSUME serial', faults' = 0, group'
               PROVE  count' = Cardinality(gm') \/ \E p \in Actor : Settling(req[p])'
    BY DEF CountInv
  <2>1. serial /\ faults = 0 /\ group
    BY DEF IInv, TablesOK, Tables
  <2>2. CASE count = Cardinality(gm)
    BY <2>2 DEF Tables
  <2>3. ASSUME NEW p \in Actor, Settling(req[p]) PROVE \E r \in Actor : Settling(req[r])'
    <3>1. Settling(req[p])'
      <4>1. CASE p = q
        <5>1. Settling(x) /\ req'[p] = x
          BY <2>3, <4>1 DEF IInv, ReqsInv
        <5> QED BY <5>1 DEF Settling, Tables
      <4>2. CASE p # q
        BY <2>3, <4>2 DEF IInv, ReqsInv, Settling, Tables
      <4> QED BY <4>1, <4>2
    <3> QED BY <3>1
  <2> QED BY <2>1, <2>2, <2>3 DEF IInv, CountInv
<1> QED BY <1>1, <1>4, <1>5, <1>6, <1>7, <1>8 DEF IInv

\* The same for a request that ends.
LEMMA LocalEnd ==
  ASSUME IInv, NEW q \in Actor, ~Ended(req[q].pc),
         UNCHANGED Tables, faults' \in 0 .. MaxFaults, faults' >= faults,
         NEW pc \in {"done", "failed"}, End(q, pc),
         Settling(req[q]) => faults' > 0
  PROVE  IInv'
<1>1. User # {}
  BY UserNotEmpty DEF IInv
<1>2. ReqInv(q, EndedAs(pc))
  BY <1>1, EndedReqInv DEF IInv
<1>3. EndedAs(pc) \in ReqRec
  BY <1>1, EndedRec
<1>4. req' = [req EXCEPT ![q] = EndedAs(pc)]
  BY DEF End, EndedAs
<1>5. PICK x \in ReqRec : x = EndedAs(pc)
  BY <1>3
<1> QED BY <1>2, <1>4, <1>5, LocalStep

LEMMA FailStep ==
  ASSUME IInv, NEW q \in Actor, Fail(q)
  PROVE  IInv'
<1>1. faults' \in 0 .. MaxFaults /\ faults' >= faults /\ faults' > 0
  BY ConstantsAssumption DEF IInv, TablesOK, Fail
<1> QED BY <1>1, LocalEnd DEF Fail, Tables, ghosts

\* What the invariant says of one request.
LEMMA OneRequest ==
  ASSUME IInv, NEW q \in Actor
  PROVE  /\ req[q] \in ReqRec
         /\ Shaped(q, req[q]) /\ Bounded(req[q]) /\ Invited(q, req[q]) /\ Unescalated(req[q])
         /\ serial => Undisturbed(q, req[q])
  BY DEF IInv, ReqsInv, ReqInv

\* The operation of a request that is under way.
LEMMA Operations ==
  ASSUME IInv, NEW q \in Actor, ~Ended(req[q].pc)
  PROVE  /\ q \in Session <=> req[q].op.kind = "login"
         /\ q \in Session => q \in User /\ req[q].op.by = q /\ Subject(q) = q
         /\ q \notin Session => q \in Request /\ req[q].op.kind # "none"
         /\ req[q].op \in Operation /\ req[q].op.by \in User /\ req[q].op.of \in User
         /\ Subject(q) \in User /\ Subject(q) = SubjectOf(req[q])
<1>1. req[q] \in ReqRec /\ Shaped(q, req[q])
  BY OneRequest
<1>2. req[q].op \in Operation /\ req[q].op.by \in User /\ req[q].op.of \in User
  BY <1>1 DEF ReqRec, Operation
<1> QED BY <1>1, <1>2, ConstantsAssumption DEF Shaped, Subject, SubjectOf, Actor

LEMMA SameFaults ==
  ASSUME TablesOK, faults' = faults
  PROVE  faults' \in 0 .. MaxFaults /\ faults' >= faults
<1>1. MaxFaults \in Nat
  BY ConstantsAssumption
<1>2. faults \in 0 .. MaxFaults
  BY DEF TablesOK
<1> QED BY <1>1, <1>2

\* A request that goes on with other values of some fields.
LEMMA GoStep ==
  ASSUME IInv, NEW q \in Actor, ~Ended(req[q].pc), UNCHANGED Tables, faults' = faults,
         NEW x \in ReqRec, req' = [req EXCEPT ![q] = x], ~Ended(x.pc),
         x.op = req[q].op, x.as = req[q].as,
         Bounded(x), Invited(q, x), Unescalated(x), serial => Undisturbed(q, x),
         req[q].pc \notin {"count", "set count"} \/ Settling(x)
  PROVE  IInv'
<1>1. Shaped(q, x)
  <2>1. Shaped(q, req[q])
    BY OneRequest
  <2> QED BY <2>1 DEF Shaped
<1>2. faults' \in 0 .. MaxFaults /\ faults' >= faults
  BY SameFaults DEF IInv
<1>3. Settling(req[q]) => Settling(x)
  BY DEF Settling
<1>4. ReqInv(q, x)
  BY <1>1 DEF ReqInv
<1> QED BY <1>2, <1>3, <1>4, LocalStep

\* A request that fails its check, or finds nothing to do.
LEMMA StopStep ==
  ASSUME IInv, NEW q \in Actor, ~Ended(req[q].pc), req[q].pc \notin {"count", "set count"},
         UNCHANGED Tables, faults' = faults, NEW pc \in {"done", "failed"}, End(q, pc)
  PROVE  IInv'
<1>1. faults' \in 0 .. MaxFaults /\ faults' >= faults
  BY SameFaults DEF IInv
<1> QED BY <1>1, LocalEnd DEF Settling

\* x is the local state of q with another pc, id and flag.
Moved(q, x, pc, id, flag) ==
  /\ x \in ReqRec /\ req' = [req EXCEPT ![q] = x]
  /\ x.pc = pc /\ x.id = id /\ x.flag = flag
  /\ x.op = req[q].op /\ x.as = req[q].as /\ x.n = req[q].n
  /\ x.todo = req[q].todo /\ x.cur = req[q].cur

LEMMA GoMoves ==
  ASSUME IInv, NEW q \in Actor, NEW pc \in Phase, Go(q, pc)
  PROVE  \E x : Moved(q, x, pc, req[q].id, req[q].flag)
<1> DEFINE x == [req[q] EXCEPT !.pc = pc]
<1>1. req[q] \in ReqRec /\ req \in [Actor -> ReqRec]
  BY DEF IInv, ReqsInv
<1>2. x \in ReqRec
  BY <1>1 DEF ReqRec
<1>3. req' = [req EXCEPT ![q] = x]
  BY <1>1 DEF ReqRec, Go
<1>4. Moved(q, x, pc, req[q].id, req[q].flag)
  BY <1>1, <1>2, <1>3 DEF Moved, ReqRec
<1> QED BY <1>4

CheckedRow(q) == req' = [req EXCEPT ![q].pc = "write", ![q].id = org[Subject(q)].id]

LEMMA CheckMembershipStep ==
  ASSUME IInv, NEW q \in Actor, CheckMembership(q)
  PROVE  IInv'
<1> DEFINE y == req[q]
<1>1. /\ y.pc = "check" /\ y.op.kind \in {"remove", "leave", "role"} /\ ~Ended(y.pc)
      /\ UNCHANGED Tables /\ faults' = faults
  BY DEF CheckMembership, At, Ended, Tables, ghosts
<1>2. y \in ReqRec /\ Bounded(y) /\ Invited(q, y) /\ Unescalated(y) /\ (serial => Undisturbed(q, y))
  BY OneRequest
<1>3. q \notin Session /\ q \in Request /\ Subject(q) \in User
  BY <1>1, Operations
<1>4. CASE End(q, "failed")
  BY <1>1, <1>4, StopStep
<1>5. CASE /\ CheckedRow(q)
           /\ y.op.kind = "remove" => MayRemove(q)
           /\ y.op.kind = "role" => MaySetRole(q)
           /\ y.op.kind = "leave" => MayLeave(q)
  <2>1. org[Subject(q)].id \in Nat /\ org[Subject(q)].id <= ids
    BY <1>3 DEF IInv, TablesOK
  <2> DEFINE z == [y EXCEPT !.pc = "write", !.id = org[Subject(q)].id]
  <2>2. z \in ReqRec
    BY <1>2, <2>1 DEF ReqRec, Phase
  <2>3. req' = [req EXCEPT ![q] = z]
    BY <1>2, <1>5 DEF CheckedRow, IInv, ReqsInv, ReqRec
  <2>4. Moved(q, z, "write", org[Subject(q)].id, y.flag)
    BY <1>2, <2>2, <2>3 DEF Moved, ReqRec
  <2>5. PICK x : Moved(q, x, "write", org[Subject(q)].id, y.flag)
    BY <2>4
  <2> HIDE DEF z
  <2>6. Bounded(x) /\ Invited(q, x)
    BY <1>2, <1>3, <2>1, <2>5 DEF Bounded, Invited, Moved
  <2>7. Unescalated(x)
    BY <1>1, <1>2, <1>5, <2>5
       DEF Unescalated, Moved, MayRemove, MaySetRole, ManageOwners, Ended
  <2>8. serial => Undisturbed(q, x)
    BY <1>1, <1>2, <1>3, <1>5, <2>5
       DEF Undisturbed, Moved, MayRemove, MaySetRole, MayLeave, ManageOwners
  <2> QED BY <1>1, <2>5, <2>6, <2>7, <2>8, GoStep DEF Moved, Ended
<1>6. End(q, "failed") \/ (/\ CheckedRow(q)
                           /\ y.op.kind = "remove" => MayRemove(q)
                           /\ y.op.kind = "role" => MaySetRole(q)
                           /\ y.op.kind = "leave" => MayLeave(q))
  BY <1>1 DEF CheckMembership, CheckedRow
<1> QED BY <1>4, <1>5, <1>6

LEMMA CheckInviteStep ==
  ASSUME IInv, NEW q \in Actor, CheckInvite(q)
  PROVE  IInv'
<1> DEFINE y == req[q]
<1>1. /\ y.pc = "check" /\ y.op.kind = "invite" /\ ~Ended(y.pc)
      /\ UNCHANGED Tables /\ faults' = faults
  BY DEF CheckInvite, At, Ended, Tables, ghosts
<1>2. y \in ReqRec /\ Bounded(y) /\ Invited(q, y) /\ Unescalated(y)
  BY OneRequest
<1>3. q \notin Session
  BY <1>1, Operations
<1>4. CASE End(q, "failed")
  BY <1>1, <1>4, StopStep
<1>5. CASE MayInvite(q) /\ Go(q, "create")
  <2>1. PICK x : Moved(q, x, "create", y.id, y.flag)
    BY <1>5, GoMoves DEF Phase
  <2>2. Bounded(x) /\ Invited(q, x)
    BY <1>2, <1>3, <2>1 DEF Bounded, Invited, Moved
  <2>3. Unescalated(x)
    BY <1>1, <1>2, <1>5, <2>1 DEF Unescalated, Moved, MayInvite, ManageOwners, Ended
  <2>4. Undisturbed(q, x)
    BY <1>1, <2>1 DEF Undisturbed, Moved
  <2> QED BY <1>1, <2>1, <2>2, <2>3, <2>4, GoStep DEF Moved, Ended
<1> QED BY <1>4, <1>5 DEF CheckInvite, GoOn

LEMMA CheckRevokeStep ==
  ASSUME IInv, NEW q \in Actor, CheckRevoke(q)
  PROVE  IInv'
<1> DEFINE y == req[q]
<1>1. /\ y.pc = "check" /\ y.op.kind = "revoke" /\ ~Ended(y.pc)
      /\ UNCHANGED Tables /\ faults' = faults
  BY DEF CheckRevoke, At, Ended, Tables, ghosts
<1>2. y \in ReqRec /\ Bounded(y) /\ Invited(q, y) /\ Unescalated(y) /\ (serial => Undisturbed(q, y))
  BY OneRequest
<1>3. q \notin Session
  BY <1>1, Operations
<1>4. CASE End(q, "failed")
  BY <1>1, <1>4, StopStep
<1>5. ASSUME NEW i \in PendingOf(y.op.of),
             req' = [req EXCEPT ![q].pc = "write", ![q].id = i.id]
      PROVE  IInv'
  <2>1. i.id \in Nat /\ i.id <= ids
    BY <1>5 DEF IInv, TablesOK, PendingOf
  <2> DEFINE z == [y EXCEPT !.pc = "write", !.id = i.id]
  <2>2. z \in ReqRec
    BY <1>2, <2>1 DEF ReqRec, Phase
  <2>3. req' = [req EXCEPT ![q] = z]
    BY <1>2, <1>5 DEF IInv, ReqsInv, ReqRec
  <2>4. Moved(q, z, "write", i.id, y.flag)
    BY <1>2, <2>2, <2>3 DEF Moved, ReqRec
  <2>5. PICK x : Moved(q, x, "write", i.id, y.flag)
    BY <2>4
  <2> HIDE DEF z
  <2>6. Bounded(x) /\ Invited(q, x)
    BY <1>2, <1>3, <2>1, <2>5 DEF Bounded, Invited, Moved
  <2>7. Unescalated(x)
    BY <1>1, <1>2, <2>5 DEF Unescalated, Moved, Ended
  <2>8. serial => Undisturbed(q, x)
    BY <1>1, <1>2, <2>5 DEF Undisturbed, Moved
  <2> QED BY <1>1, <2>5, <2>6, <2>7, <2>8, GoStep DEF Moved, Ended
<1> QED BY <1>4, <1>5 DEF CheckRevoke

LEMMA FindMembershipsStep ==
  ASSUME IInv, NEW q \in Actor, FindMemberships(q)
  PROVE  IInv'
<1> DEFINE y == req[q]
<1>1. /\ y.pc = "check" /\ y.op.kind = "login" /\ ~Ended(y.pc)
      /\ UNCHANGED Tables /\ faults' = faults
  BY DEF FindMemberships, At, Ended, Tables, ghosts
<1>2. y \in ReqRec /\ Bounded(y) /\ Invited(q, y) /\ Unescalated(y)
  BY OneRequest
<1>3. q \in Session /\ q \in User /\ y.op.by = q
  BY <1>1, Operations
<1>4. PICK m \in BOOLEAN : m = Member(q)
  BY DEF Member
<1> DEFINE z == [y EXCEPT !.pc = "invitations", !.flag = m]
<1>5. z \in ReqRec
  BY <1>2 DEF ReqRec, Phase
<1>6. req' = [req EXCEPT ![q] = z]
  BY <1>2, <1>4 DEF IInv, ReqsInv, ReqRec, FindMemberships
<1>7. Moved(q, z, "invitations", y.id, m)
  BY <1>2, <1>5, <1>6 DEF Moved, ReqRec
<1>8. PICK x : Moved(q, x, "invitations", y.id, m)
  BY <1>7
<1> HIDE DEF z
<1>9. m => <<q, "org">> \in ever
  BY <1>3, <1>4 DEF IInv, HistoryInv
<1>10. Bounded(x) /\ Invited(q, x)
  BY <1>2, <1>3, <1>8, <1>9 DEF Bounded, Invited, Moved
<1>11. Unescalated(x)
  BY <1>1, <1>2, <1>8 DEF Unescalated, Moved
<1>12. Undisturbed(q, x)
  BY <1>1, <1>3, <1>4, <1>8 DEF Undisturbed, Moved, SubjectOf
<1> QED BY <1>1, <1>8, <1>10, <1>11, <1>12, GoStep DEF Moved, Ended

LEMMA FindInvitationsStep ==
  ASSUME IInv, NEW q \in Actor, FindInvitations(q)
  PROVE  IInv'
<1> DEFINE y == req[q]
<1>1. /\ y.pc = "invitations" /\ y.op.kind = "login" /\ ~Ended(y.pc)
      /\ UNCHANGED Tables /\ faults' = faults
  BY DEF FindInvitations, At, Ended, Tables, ghosts
<1>2. y \in ReqRec /\ Bounded(y) /\ Invited(q, y) /\ Unescalated(y) /\ (serial => Undisturbed(q, y))
  BY OneRequest
<1>3. q \in Session /\ q \in User /\ y.op.by = q
  BY <1>1, Operations
<1>4. /\ PendingOf(q) \subseteq inv /\ PendingOf(q) \subseteq Invitation
      /\ \A j \in PendingOf(q) : j.id <= ids /\ j.user = q
  BY DEF PendingOf, IInv, TablesOK, Invitation
<1> DEFINE z == [y EXCEPT !.pc = "next", !.todo = PendingOf(q)]
<1>5. z \in ReqRec
  BY <1>2, <1>4 DEF ReqRec, Phase
<1>6. req' = [req EXCEPT ![q] = z]
  BY <1>2 DEF IInv, ReqsInv, ReqRec, FindInvitations
<1>7. PICK x \in ReqRec : x = z
  BY <1>5
<1>8. /\ x.pc = "next" /\ x.todo = PendingOf(q) /\ x.op = y.op /\ x.as = y.as
      /\ x.id = y.id /\ x.flag = y.flag /\ x.cur = y.cur
  BY <1>2, <1>7 DEF ReqRec
<1>9. req' = [req EXCEPT ![q] = x]
  BY <1>6, <1>7
<1> HIDE DEF z
<1>10. Bounded(x)
  BY <1>2, <1>4, <1>8 DEF Bounded
<1>11. Invited(q, x)
  <2>1. \A i, j \in inv : Agree(i, j)
    BY DEF IInv, HistoryInv
  <2>2. \A i \in inv : Agree(i, x.cur) /\ \A j \in x.todo : Agree(i, j)
    BY <1>2, <1>4, <1>8, <2>1 DEF Invited
  <2> QED BY <1>1, <1>2, <1>3, <1>4, <1>8, <2>2 DEF Invited
<1>12. Unescalated(x)
  BY <1>1, <1>2, <1>4, <1>8 DEF Unescalated, IInv, EscalationInv
<1>13. serial => Undisturbed(q, x)
  BY <1>1, <1>2, <1>8 DEF Undisturbed, SubjectOf
<1> QED BY <1>1, <1>8, <1>9, <1>10, <1>11, <1>12, <1>13, GoStep DEF Ended

LEMMA FindGroupStep ==
  ASSUME IInv, NEW q \in Actor, FindGroup(q)
  PROVE  IInv'
<1> DEFINE y == req[q]
<1>1. /\ y.pc = "find group" /\ y.op.kind = "login" /\ ~Ended(y.pc)
      /\ UNCHANGED Tables /\ faults' = faults
  BY DEF FindGroup, At, Ended, Tables, ghosts
<1>2. y \in ReqRec /\ Bounded(y) /\ Invited(q, y) /\ Unescalated(y) /\ (serial => Undisturbed(q, y))
  BY OneRequest
<1>3. CASE End(q, "failed")
  BY <1>1, <1>3, StopStep
<1>4. CASE group /\ Go(q, "add read")
  <2>1. PICK x : Moved(q, x, "add read", y.id, y.flag)
    BY <1>4, GoMoves DEF Phase
  <2>2. Bounded(x) /\ Invited(q, x)
    BY <1>1, <1>2, <2>1 DEF Bounded, Invited, Moved
  <2>3. Unescalated(x)
    BY <1>1, <1>2, <2>1 DEF Unescalated, Moved
  <2>4. serial => Undisturbed(q, x)
    BY <1>1, <1>2, <1>4, <2>1 DEF Undisturbed, Moved, SubjectOf
  <2> QED BY <1>1, <2>1, <2>2, <2>3, <2>4, GoStep DEF Moved, Ended
<1> QED BY <1>3, <1>4 DEF FindGroup, GoOn

LEMMA CheckAddStep ==
  ASSUME IInv, NEW q \in Actor, CheckAdd(q)
  PROVE  IInv'
<1> DEFINE y == req[q]
<1>1. /\ y.pc = "check" /\ y.op.kind = "add" /\ ~Ended(y.pc)
      /\ UNCHANGED Tables /\ faults' = faults
  BY DEF CheckAdd, At, Ended, Tables, ghosts
<1>2. y \in ReqRec /\ Bounded(y) /\ Invited(q, y) /\ Unescalated(y)
  BY OneRequest
<1>3. q \notin Session
  BY <1>1, Operations
<1>4. CASE End(q, "failed")
  BY <1>1, <1>4, StopStep
<1>5. ASSUME NEW pc \in {"add read", "create"}, Go(q, pc),
             pc = "add read" => group /\ Member(y.op.of)
      PROVE  IInv'
  <2>1. PICK x : Moved(q, x, pc, y.id, y.flag)
    BY <1>5, GoMoves DEF Phase
  <2>2. Bounded(x) /\ Invited(q, x)
    BY <1>2, <1>3, <2>1 DEF Bounded, Invited, Moved
  <2>3. Unescalated(x)
    BY <1>1, <1>2, <1>5, <2>1 DEF Unescalated, Moved
  <2>4. Undisturbed(q, x)
    BY <1>1, <1>5, <2>1 DEF Undisturbed, Moved, SubjectOf
  <2> QED BY <1>1, <1>5, <2>1, <2>2, <2>3, <2>4, GoStep DEF Moved, Ended
<1> QED BY <1>4, <1>5 DEF CheckAdd, GoOn

LEMMA AddReadStep ==
  ASSUME IInv, NEW q \in Actor, AddRead(q)
  PROVE  IInv'
<1> DEFINE y == req[q]
<1>1. /\ y.pc = "add read" /\ y.op.kind \in {"add", "login"} /\ ~Ended(y.pc)
      /\ UNCHANGED Tables /\ faults' = faults
  BY DEF AddRead, At, Ended, Tables, ghosts
<1>2. y \in ReqRec /\ Bounded(y) /\ Invited(q, y) /\ Unescalated(y) /\ (serial => Undisturbed(q, y))
  BY OneRequest
<1>3. CASE End(q, "failed")
  BY <1>1, <1>3, StopStep
<1>4. ASSUME NEW pc \in {"accept", "add write"}, Go(q, pc),
             pc = "accept" => q \in Session /\ RowsOf(Subject(q)) # {},
             pc = "add write" => RowsOf(Subject(q)) = {}
      PROVE  IInv'
  <2>1. PICK x : Moved(q, x, pc, y.id, y.flag)
    BY <1>4, GoMoves DEF Phase
  <2>2. Bounded(x)
    BY <1>2, <2>1 DEF Bounded, Moved
  <2>3. pc = "accept" => <<q, "group">> \in ever
    <3>1. q \in Session => Subject(q) = q
      BY <1>1, Operations
    <3> QED BY <1>4, <3>1 DEF RowsOf, IInv, HistoryInv
  <2>4. Invited(q, x)
    BY <1>1, <1>2, <1>4, <2>1, <2>3 DEF Invited, Moved
  <2>5. Unescalated(x)
    BY <1>1, <1>2, <1>4, <2>1 DEF Unescalated, Moved
  <2>6. serial => Undisturbed(q, x)
    <3>1. Subject(q) = SubjectOf(x)
      BY <2>1 DEF Subject, SubjectOf, Moved
    <3>2. SubjectOf(y) = SubjectOf(x)
      BY <2>1 DEF SubjectOf, Moved
    <3> QED BY <1>1, <1>2, <1>4, <2>1, <3>1, <3>2 DEF Undisturbed, Moved
  <2> QED BY <1>1, <1>4, <2>1, <2>2, <2>4, <2>5, <2>6, GoStep DEF Moved, Ended
<1> QED BY <1>3, <1>4 DEF AddRead, AlreadyMember

LEMMA CountMembersStep ==
  ASSUME IInv, NEW q \in Actor, CountMembers(q)
  PROVE  IInv'
<1> DEFINE y == req[q]
<1>1. /\ y.pc = "count" /\ ~Ended(y.pc)
      /\ UNCHANGED Tables /\ faults' = faults
  BY DEF CountMembers, Ended, Tables, ghosts
<1>2. y \in ReqRec /\ Bounded(y) /\ Invited(q, y) /\ Unescalated(y)
  BY OneRequest
<1>3. PICK n \in Nat : n = Cardinality(gm)
  BY FS_CardinalityType DEF IInv, TablesOK
<1> DEFINE z == [y EXCEPT !.pc = "set count", !.n = n]
<1>5. z \in ReqRec
  BY <1>2 DEF ReqRec, Phase
<1>6. req' = [req EXCEPT ![q] = z]
  BY <1>2, <1>3 DEF IInv, ReqsInv, ReqRec, CountMembers
<1>7. PICK x \in ReqRec : x = z
  BY <1>5
<1>8. /\ x.pc = "set count" /\ x.n = n /\ x.op = y.op /\ x.as = y.as
      /\ x.id = y.id /\ x.flag = y.flag /\ x.cur = y.cur /\ x.todo = y.todo
  BY <1>2, <1>7 DEF ReqRec
<1>9. req' = [req EXCEPT ![q] = x]
  BY <1>6, <1>7
<1> HIDE DEF z
<1>10. Bounded(x) /\ Invited(q, x)
  BY <1>1, <1>2, <1>8 DEF Bounded, Invited
<1>11. Unescalated(x)
  BY <1>1, <1>2, <1>8 DEF Unescalated, Ended
<1>12. serial => Undisturbed(q, x)
  <2>1. serial => Undisturbed(q, y)
    BY OneRequest
  <2> QED BY <1>1, <1>3, <1>8, <2>1 DEF Undisturbed, SubjectOf
<1>13. Settling(x)
  BY <1>3, <1>8 DEF Settling
<1> QED BY <1>1, <1>8, <1>9, <1>10, <1>11, <1>12, <1>13, GoStep DEF Ended

LEMMA CheckGroupMemberStep ==
  ASSUME IInv, NEW q \in Actor, CheckGroupMember(q)
  PROVE  IInv'
<1> DEFINE y == req[q]
<1>1. /\ y.pc = "check" /\ y.op.kind \in {"drop", "maintainer"} /\ ~Ended(y.pc)
      /\ UNCHANGED Tables /\ faults' = faults
  BY DEF CheckGroupMember, At, Ended, Tables, ghosts
<1>2. y \in ReqRec /\ Bounded(y) /\ Invited(q, y) /\ Unescalated(y)
  BY OneRequest
<1>3. q \notin Session
  BY <1>1, Operations
<1>4. CASE End(q, "failed")
  BY <1>1, <1>4, StopStep
<1>5. CASE Go(q, "read")
  <2>1. PICK x : Moved(q, x, "read", y.id, y.flag)
    BY <1>5, GoMoves DEF Phase
  <2>2. Bounded(x) /\ Invited(q, x)
    BY <1>2, <1>3, <2>1 DEF Bounded, Invited, Moved
  <2>3. Unescalated(x)
    BY <1>1, <1>2, <2>1 DEF Unescalated, Moved
  <2>4. Undisturbed(q, x)
    BY <1>1, <2>1 DEF Undisturbed, Moved
  <2> QED BY <1>1, <2>1, <2>2, <2>3, <2>4, GoStep DEF Moved, Ended
<1> QED BY <1>4, <1>5 DEF CheckGroupMember, GoOn

LEMMA ReadGroupMemberStep ==
  ASSUME IInv, NEW q \in Actor, ReadGroupMember(q)
  PROVE  IInv'
<1> DEFINE y == req[q]
<1>1. /\ y.pc = "read" /\ y.op.kind \in {"drop", "maintainer"} /\ ~Ended(y.pc)
      /\ UNCHANGED Tables /\ faults' = faults
  BY DEF ReadGroupMember, At, Ended, Tables, ghosts
<1>2. y \in ReqRec /\ Bounded(y) /\ Invited(q, y) /\ Unescalated(y)
  BY OneRequest
<1>3. q \notin Session
  BY <1>1, Operations
<1>4. ASSUME NEW pc \in {"done", "failed"}, End(q, pc) PROVE IInv'
  BY <1>1, <1>4, StopStep
<1>5. ASSUME NEW r \in RowsOf(y.op.of),
             req' = [req EXCEPT ![q].pc = "write", ![q].id = r.id, ![q].flag = r.maintainer]
      PROVE  IInv'
  <2>1. /\ r \in gm /\ r.user = y.op.of /\ r.id \in Nat /\ r.id <= ids
        /\ r.maintainer \in BOOLEAN
    BY <1>5 DEF IInv, TablesOK, RowsOf
  <2> DEFINE z == [y EXCEPT !.pc = "write", !.id = r.id, !.flag = r.maintainer]
  <2>2. z \in ReqRec
    BY <1>2, <2>1 DEF ReqRec, Phase
  <2>3. req' = [req EXCEPT ![q] = z]
    BY <1>2, <1>5 DEF IInv, ReqsInv, ReqRec
  <2>4. Moved(q, z, "write", r.id, r.maintainer)
    BY <1>2, <2>2, <2>3 DEF Moved, ReqRec
  <2>5. PICK x : Moved(q, x, "write", r.id, r.maintainer)
    BY <2>4
  <2> HIDE DEF z
  <2>6. Bounded(x) /\ Invited(q, x)
    BY <1>2, <1>3, <2>1, <2>5 DEF Bounded, Invited, Moved
  <2>7. Unescalated(x)
    BY <1>1, <1>2, <2>5 DEF Unescalated, Moved
  <2>8. serial => Undisturbed(q, x)
    <3>1. \E s \in gm : s.user = x.op.of /\ s.id = x.id /\ s.maintainer = x.flag
      BY <2>1, <2>5 DEF Moved
    <3>2. x.pc = "write" /\ x.op.kind \in {"drop", "maintainer"}
      BY <1>1, <2>5 DEF Moved
    <3> QED BY <3>1, <3>2 DEF Undisturbed
  <2> QED BY <1>1, <2>5, <2>6, <2>7, <2>8, GoStep DEF Moved, Ended
<1> QED BY <1>4, <1>5 DEF ReadGroupMember

-----------------------------------------------------------------------------
\* The steps that write.

\* A request that ends with its write.
LEMMA EndMoves ==
  ASSUME IInv, TablesOK', Grows, NEW q \in Actor, ~Ended(req[q].pc),
         NEW pc \in {"done", "failed"}, End(q, pc), serial' => serial
  PROVE  ReqsInv' /\ Alone'
<1>1. User # {}
  BY UserNotEmpty DEF IInv
<1>2. ReqInv(q, EndedAs(pc))'
  BY <1>1, EndedReqInvNext
<1>3. EndedAs(pc) \in ReqRec
  BY <1>1, EndedRec
<1>4. PICK x \in ReqRec : x = EndedAs(pc)
  BY <1>3
<1>5. req' = [req EXCEPT ![q] = x]
  BY <1>4 DEF End, EndedAs
<1>6. EndedAs(pc)' = EndedAs(pc)
  BY DEF EndedAs, Idle, NoOp, NoInvitation
<1>7. ReqInv(q, x)'
  BY <1>2, <1>4, <1>6
<1> QED BY <1>5, <1>7, RequestMoves

\* The count stays right if the number of rows does not change.
LEMMA CountKeeps ==
  ASSUME IInv, NEW q \in Actor, \A p \in Actor \ {q} : req'[p] = req[p],
         req[q].pc \notin {"count", "set count"},
         count' = count, faults' = faults, serial' => serial, group' => group,
         serial => Cardinality(gm') = Cardinality(gm)
  PROVE  CountInv'
<1> SUFFICES ASSUME serial', faults' = 0, group'
             PROVE  count' = Cardinality(gm') \/ \E p \in Actor : Settling(req[p])'
  BY DEF CountInv
<1>1. count = Cardinality(gm) \/ \E p \in Actor : Settling(req[p])
  BY DEF IInv, CountInv
<1>2. ASSUME NEW p \in Actor, Settling(req[p]) PROVE Settling(req[p])'
  <2>1. p # q
    BY <1>2 DEF Settling
  <2>2. req'[p] = req[p]
    BY <2>1
  <2> QED BY <1>2, <2>2 DEF Settling
<1> QED BY <1>1, <1>2

\* A request that has changed the number of rows will count them.
LEMMA CountComes ==
  ASSUME NEW q \in Actor, req'[q].pc = "count"
  PROVE  CountInv'
<1>1. Settling(req[q])'
  BY DEF Settling
<1> QED BY <1>1 DEF CountInv

LEMMA MovedOne ==
  ASSUME IInv, NEW q \in Actor, NEW x, req' = [req EXCEPT ![q] = x]
  PROVE  req'[q] = x /\ \A p \in Actor \ {q} : req'[p] = req[p]
  BY DEF IInv, ReqsInv

LEMMA BeganStep ==
  ASSUME IInv, NEW q \in Actor, NEW o \in Operation, Ended(req[q].pc), Began(q, o),
         IF q \in Session THEN o.kind = "login" /\ o.by = q ELSE o \in Op
  PROVE  IInv'
<1> DEFINE z == [Idle EXCEPT !.pc = "check", !.op = o, !.as = org[o.by].role]
<1>1. User # {} /\ o.by \in User
  BY DEF Operation
<1>2. org[o.by].role \in Role \cup {"none"}
  BY <1>1 DEF IInv, TablesOK
<1>3. Idle \in ReqRec /\ Idle.todo = {} /\ Idle.id = 0 /\ Idle.cur.id = 0 /\ Idle.flag = FALSE
  BY <1>1, EndedRec
<1>4. z \in ReqRec /\ z.pc = "check" /\ z.op = o /\ z.as = org[o.by].role /\ z.flag = FALSE
      /\ z.todo = {} /\ z.id = 0 /\ z.cur.id = 0
  BY <1>2, <1>3 DEF ReqRec, Phase
<1>5. PICK x \in ReqRec : x = z
  BY <1>4
<1>6. req' = [req EXCEPT ![q] = x]
  BY <1>5 DEF Began
<1>7. /\ x.pc = "check" /\ x.op = o /\ x.as = org[o.by].role /\ x.flag = FALSE
      /\ x.todo = {} /\ x.id = 0 /\ x.cur.id = 0
  BY <1>4, <1>5
<1> HIDE DEF z
<1>8. UNCHANGED <<org, gm, mrow, group, count, inv, ids, ever, left, faults>>
  BY DEF Began
<1>22. serial' => serial
  BY DEF Began
<1>9. TablesOK'
  BY <1>8 DEF Began, IInv, TablesOK, OneRow
<1>10. Grows
  BY <1>8 DEF Began, Grows, IInv, TablesOK
<1>11. Shaped(q, x)
  BY <1>7 DEF Shaped, Ended
<1>12. Bounded(x)'
  BY <1>7, <1>9 DEF Bounded, TablesOK
<1>13. Invited(q, x)'
  <2>1. \A i \in inv' : i.id # 0
    BY <1>9 DEF TablesOK
  <2> QED BY <1>7, <2>1 DEF Invited, Agree
<1>14. Unescalated(x)'
  BY <1>7 DEF Unescalated, Began
<1>15. Undisturbed(q, x)'
  BY <1>7, <1>8 DEF Undisturbed
<1>16. ReqInv(q, x)'
  BY <1>11, <1>12, <1>13, <1>14, <1>15 DEF ReqInv
<1>17. ReqsInv' /\ Alone'
  BY <1>6, <1>9, <1>10, <1>16, RequestMoves DEF Began
<1>18. HistoryInv' /\ AcceptedJoined'
  BY <1>8 DEF IInv, HistoryInv, AcceptedJoined, Member
<1>19. EscalationInv'
  BY <1>8 DEF Began, IInv, EscalationInv, NoEscalation, Owners
<1>20. OwnersKept' /\ GroupConsistent'
  BY <1>8, <1>22 DEF IInv, OwnersKept, GroupConsistent, Owners, Member, RowsOf
<1>21. CountInv'
  <2>1. req[q].pc \notin {"count", "set count"}
    BY DEF Ended
  <2>2. \A p \in Actor \ {q} : req'[p] = req[p]
    BY <1>6, MovedOne
  <2>3. count' = count /\ faults' = faults /\ group' = group /\ gm' = gm
    BY <1>8
  <2> QED BY <1>22, <2>1, <2>2, <2>3, CountKeeps
<1> QED BY <1>9, <1>17, <1>18, <1>19, <1>20, <1>21 DEF IInv

LEMMA BeginStep ==
  ASSUME IInv, NEW q \in Actor, Begin(q)
  PROVE  IInv'
<1>1. PICK o \in Op : Began(q, o)
  BY DEF Begin
<1>2. o \in Operation /\ q \notin Session
  BY <1>1, ConstantsAssumption DEF Begin
<1>3. Ended(req[q].pc)
  BY DEF Begin, Ended
<1> QED BY <1>1, <1>2, <1>3, BeganStep

LEMMA LoginStep ==
  ASSUME IInv, NEW q \in Actor, Login(q)
  PROVE  IInv'
<1> DEFINE o == [NoOp EXCEPT !.kind = "login", !.by = q]
<1>1. q \in User /\ User # {}
  BY ConstantsAssumption DEF Login
<1>2. NoOp \in Operation
  BY <1>1, EndedRec
<1>3. o \in Operation /\ o.kind = "login" /\ o.by = q
  BY <1>1, <1>2 DEF Operation, Kind
<1>4. Began(q, o) /\ Ended(req[q].pc) /\ q \in Session
  BY DEF Login
<1> HIDE DEF o
<1> QED BY <1>3, <1>4, BeganStep

\* Removing a row of the organization: who else is an owner stays one.
LEMMA DeleteMembershipStep ==
  ASSUME IInv, NEW q \in Actor, DeleteMembership(q)
  PROVE  IInv'
<1> DEFINE y == req[q]
           u == Subject(q)
<1>1. /\ y.pc = "write" /\ y.op.kind \in {"remove", "leave"} /\ ~Ended(y.pc)
      /\ UNCHANGED <<group, count, inv, ids, ever, acted, serial, faults>>
  BY DEF DeleteMembership, At, Ended
<1>2. y \in ReqRec /\ Bounded(y) /\ Invited(q, y) /\ Unescalated(y) /\ (serial => Undisturbed(q, y))
  BY OneRequest
<1>3. /\ q \notin Session /\ q \in Request /\ u \in User
      /\ y.op.kind = "remove" => u = y.op.of
      /\ y.op.kind = "leave" => u = y.op.by
  BY <1>1, Operations DEF Subject
<1>4. CASE ~SameRow(q)
  <2>1. (End(q, "done") \/ End(q, "failed")) /\ UNCHANGED Tables /\ faults' = faults
    BY <1>1, <1>4 DEF DeleteMembership, Tables
  <2> QED BY <1>1, <2>1, StopStep
<1>5. CASE SameRow(q)
  <2>1. /\ org' = [org EXCEPT ![u] = NoRow]
        /\ mrow' = mrow \ {u}
        /\ gm' = gm \ RowsOf(u)
        /\ left' = IF y.op.kind = "leave" THEN left \cup {u} ELSE left
        /\ IF RowsOf(u) # {} THEN Go(q, "count") ELSE End(q, "done")
    BY <1>5 DEF DeleteMembership, DeletedRows
  <2>2. org'[u].role = "none" /\ \A v \in User \ {u} : org'[v] = org[v]
    BY <1>3, <2>1 DEF IInv, TablesOK, NoRow
  <2>3. TablesOK'
    <3>1. org' \in [User -> [role : Role \cup {"none"}, id : 0 .. ids']]
      BY <1>1, <1>3, <2>1 DEF IInv, TablesOK, NoRow
    <3>2. IsFiniteSet(gm')
      BY <2>1, FS_Difference DEF IInv, TablesOK
    <3> QED BY <1>1, <2>1, <3>1, <3>2 DEF IInv, TablesOK, OneRow
  <2>4. Owners' = Owners \ {u}
    BY <2>2 DEF Owners
  <2>5. Grows
    BY <1>1, <2>2 DEF Grows, IInv, TablesOK
  <2>6. HistoryInv' /\ AcceptedJoined'
    BY <1>1, <2>1, <2>2 DEF IInv, HistoryInv, AcceptedJoined, Member
  <2>7. EscalationInv'
    <3>1. ~acted /\ y.op.kind = "remove" => u \notin Owners
      BY <1>1, <1>2, <1>3 DEF Unescalated, Owners
    <3>2. y.op.kind # "remove" => left' = left \cup {u}
      BY <1>1, <2>1
    <3>3. y.op.kind = "remove" => left' = left
      BY <2>1
    <3>4. NoEscalation'
      <4>1. CASE y.op.kind = "remove"
        BY <1>1, <2>4, <3>1, <3>3, <4>1 DEF IInv, EscalationInv, NoEscalation
      <4>2. CASE y.op.kind # "remove"
        BY <1>1, <2>4, <3>2, <4>2 DEF IInv, EscalationInv, NoEscalation
      <4> QED BY <4>1, <4>2
    <3> QED BY <1>1, <3>4 DEF IInv, EscalationInv
  <2>8. OwnersKept'
    <3> SUFFICES ASSUME serial PROVE Owners' # {}
      BY <1>1 DEF OwnersKept
    <3>1. Owners # {} /\ Undisturbed(q, y)
      BY <1>2 DEF IInv, OwnersKept
    <3>2. CASE y.op.kind = "leave"
      BY <1>1, <1>3, <2>4, <3>1, <3>2 DEF Undisturbed
    <3>3. CASE y.op.kind = "remove" /\ u \notin Owners
      BY <2>4, <3>1, <3>3
    <3>4. CASE y.op.kind = "remove" /\ u \in Owners
      <4>1. y.op.by \in Owners /\ y.op.by # u
        BY <1>1, <1>2, <1>3, <3>1, <3>4 DEF Undisturbed, Owners, ReqRec, Operation
      <4> QED BY <2>4, <4>1
    <3> QED BY <1>1, <3>2, <3>3, <3>4
  <2>9. GroupConsistent'
    <3> SUFFICES ASSUME serial
                 PROVE  /\ \A r \in gm' : Member(r.user)' /\ RowsOf(r.user)' = {r}
                        /\ mrow' = {r.user : r \in {s \in gm' : s.maintainer}}
                        /\ ~group' => gm' = {} /\ mrow' = {}
      BY <1>1 DEF GroupConsistent
    <3>1. /\ \A r \in gm : Member(r.user) /\ RowsOf(r.user) = {r}
          /\ mrow = {r.user : r \in {s \in gm : s.maintainer}}
          /\ ~group => gm = {} /\ mrow = {}
      BY DEF IInv, GroupConsistent
    <3>2. gm' = {r \in gm : r.user # u}
      BY <2>1 DEF RowsOf
    <3>3. gm \subseteq [id : 0 .. ids, user : User, maintainer : BOOLEAN]
      BY DEF IInv, TablesOK
    <3>4. ASSUME NEW r \in gm' PROVE Member(r.user)' /\ RowsOf(r.user)' = {r}
      BY <2>2, <3>1, <3>2, <3>3 DEF Member, RowsOf
    <3>5. mrow' = {r.user : r \in {s \in gm' : s.maintainer}}
      BY <2>1, <3>1, <3>2
    <3> QED BY <1>1, <2>1, <3>1, <3>4, <3>5
  <2>10. CASE RowsOf(u) # {}
    <3>1. PICK x : Moved(q, x, "count", y.id, y.flag)
      BY <2>1, <2>10, GoMoves DEF Phase
    <3>2. Shaped(q, x)
      <4>1. Shaped(q, y)
        BY OneRequest
      <4> QED BY <1>1, <3>1, <4>1 DEF Shaped, Moved
    <3>3. Bounded(x)' /\ Invited(q, x)'
      BY <1>1, <1>2, <1>3, <3>1 DEF Bounded, Invited, Moved
    <3>4. Unescalated(x)'
      BY <1>1, <1>2, <3>1 DEF Unescalated, Moved
    <3>5. Undisturbed(q, x)'
      BY <1>1, <3>1 DEF Undisturbed, Moved
    <3>6. ReqInv(q, x)'
      BY <3>2, <3>3, <3>4, <3>5 DEF ReqInv
    <3>7. ReqsInv' /\ Alone'
      BY <1>1, <2>3, <2>5, <3>1, <3>6, RequestMoves DEF Moved
    <3>8. CountInv'
      BY <3>1, MovedOne, CountComes DEF Moved
    <3> QED BY <2>3, <2>6, <2>7, <2>8, <2>9, <3>7, <3>8 DEF IInv
  <2>11. CASE RowsOf(u) = {}
    <3>1. End(q, "done") /\ gm' = gm
      BY <2>1, <2>11
    <3>2. ReqsInv' /\ Alone'
      BY <1>1, <2>3, <2>5, <3>1, EndMoves
    <3>3. CountInv'
      <4>1. \A p \in Actor \ {q} : req'[p] = req[p]
        BY <3>1, MovedOne DEF End
      <4> QED BY <1>1, <3>1, <4>1, CountKeeps
    <3> QED BY <2>3, <2>6, <2>7, <2>8, <2>9, <3>2, <3>3 DEF IInv
  <2> QED BY <2>10, <2>11
<1> QED BY <1>4, <1>5

LEMMA SetRoleStep ==
  ASSUME IInv, NEW q \in Actor, SetRole(q)
  PROVE  IInv'
<1> DEFINE y == req[q]
           u == y.op.of
<1>1. /\ y.pc = "write" /\ y.op.kind = "role" /\ ~Ended(y.pc)
      /\ UNCHANGED <<gm, mrow, group, count, inv, ids, ever, left, acted, serial, faults>>
  BY DEF SetRole, At, Ended, ghosts
<1>2. y \in ReqRec /\ Unescalated(y) /\ (serial => Undisturbed(q, y))
  BY OneRequest
<1>3. u \in User /\ u = Subject(q) /\ y.op.by \in User /\ y.op.role \in Role
  BY <1>1, <1>2, Operations DEF Subject, ReqRec, Operation
<1>4. CASE ~SameRow(q)
  <2>1. End(q, "failed") /\ UNCHANGED Tables
    BY <1>1, <1>4 DEF SetRole, Tables
  <2> QED BY <1>1, <2>1, StopStep
<1>5. CASE SameRow(q)
  <2>1. org' = [org EXCEPT ![u].role = y.op.role] /\ End(q, "done")
    BY <1>3, <1>5 DEF SetRole
  <2>2. /\ org'[u].role = y.op.role /\ \A v \in User \ {u} : org'[v] = org[v]
        /\ Member(u)
    BY <1>3, <1>5, <2>1 DEF IInv, TablesOK, SameRow
  <2>3. TablesOK'
    <3>1. org' \in [User -> [role : Role \cup {"none"}, id : 0 .. ids']]
      BY <1>1, <1>3, <2>1 DEF IInv, TablesOK
    <3> QED BY <1>1, <3>1 DEF IInv, TablesOK, OneRow
  <2>4. \A v \in User : Member(v)' <=> Member(v)
    BY <1>3, <2>2 DEF Member, Role
  <2>5. ~acted => u \notin Owners /\ u \notin Owners'
    BY <1>1, <1>2, <2>2 DEF Unescalated, Owners
  <2>6. Owners \ {u} = Owners' \ {u}
    BY <2>2 DEF Owners
  <2>7. Grows
    BY <1>1, <1>2, <2>2 DEF Grows, IInv, TablesOK, Unescalated
  <2>8. ReqsInv' /\ Alone'
    BY <1>1, <2>1, <2>3, <2>7, EndMoves
  <2>9. HistoryInv' /\ AcceptedJoined'
    BY <1>1, <2>4 DEF IInv, HistoryInv, AcceptedJoined
  <2>10. EscalationInv'
    BY <1>1, <2>5, <2>6 DEF IInv, EscalationInv, NoEscalation
  <2>11. OwnersKept'
    <3> SUFFICES ASSUME serial PROVE Owners' # {}
      BY <1>1 DEF OwnersKept
    <3>1. Owners # {} /\ Undisturbed(q, y)
      BY <1>2 DEF IInv, OwnersKept
    <3>2. CASE u \notin Owners
      BY <2>6, <3>1, <3>2
    <3>3. CASE u \in Owners
      <4>1. y.op.by \in Owners /\ y.op.by # u
        BY <1>1, <1>3, <3>1, <3>3 DEF Undisturbed, Owners
      <4> QED BY <2>6, <4>1
    <3> QED BY <3>2, <3>3
  <2>12. GroupConsistent'
    <3>1. gm \subseteq [id : 0 .. ids, user : User, maintainer : BOOLEAN]
      BY DEF IInv, TablesOK
    <3> QED BY <1>1, <2>4, <3>1 DEF IInv, GroupConsistent, RowsOf
  <2>13. CountInv'
    <3>1. \A p \in Actor \ {q} : req'[p] = req[p]
      BY <2>1, MovedOne DEF End
    <3> QED BY <1>1, <3>1, CountKeeps
  <2> QED BY <2>3, <2>8, <2>9, <2>10, <2>11, <2>12, <2>13 DEF IInv
<1> QED BY <1>4, <1>5

\* The tables but the invitations and the last id.
Unmoved == <<org, gm, mrow, group, count, ever, left, acted, serial, faults>>

\* A step that writes invitations only.
LEMMA InvitationStep ==
  ASSUME IInv, NEW q \in Actor, ReqsInv', Alone', TablesOK', UNCHANGED Unmoved,
         \A p \in Actor \ {q} : req'[p] = req[p], req[q].pc \notin {"count", "set count"},
         \A i, j \in inv' : Agree(i, j),
         AcceptedJoined',
         ~acted => \A i \in inv' : i.role # "owner"
  PROVE  IInv'
<1>1. HistoryInv'
  BY DEF IInv, HistoryInv, Member, Unmoved
<1>2. EscalationInv'
  BY DEF IInv, EscalationInv, NoEscalation, Owners, Unmoved
<1>3. OwnersKept' /\ GroupConsistent'
  BY DEF IInv, OwnersKept, GroupConsistent, Owners, Member, RowsOf, Unmoved
<1>4. CountInv'
  BY CountKeeps DEF Unmoved
<1> QED BY <1>1, <1>2, <1>3, <1>4 DEF IInv

LEMMA CreateInvitationStep ==
  ASSUME IInv, NEW q \in Actor, CreateInvitation(q)
  PROVE  IInv'
<1> DEFINE y == req[q]
<1>1. /\ y.pc = "create" /\ y.op.kind \in {"invite", "add"} /\ ~Ended(y.pc)
      /\ UNCHANGED Unmoved /\ ids' = ids + 1 /\ End(q, "done")
  BY DEF CreateInvitation, At, Ended, ghosts, Unmoved
<1>2. y \in ReqRec /\ Unescalated(y) /\ y.op \in Operation
  BY OneRequest DEF ReqRec
<1>3. PICK n \in Invitation : /\ inv' = inv \cup {n} /\ n.id = ids + 1 /\ n.status = "pending"
                              /\ ~acted => n.role # "owner"
  <2> DEFINE n == [id |-> ids + 1, user |-> y.op.of, status |-> "pending",
                   role |-> IF y.op.kind = "add" THEN "member" ELSE y.op.role,
                   group |-> y.op.kind = "add",
                   maintainer |-> y.op.kind = "add" /\ y.op.maintainer]
  <2>1. ids + 1 \in Nat /\ y.op.of \in User /\ y.op.role \in Role
    BY <1>2 DEF IInv, TablesOK, Operation
  <2>2. (IF y.op.kind = "add" THEN "member" ELSE y.op.role) \in Role
    BY <2>1 DEF Role
  <2>3. n \in Invitation
    BY <2>1, <2>2 DEF Invitation
  <2>4. ~acted => n.role # "owner"
    BY <1>1, <1>2 DEF Unescalated
  <2>5. inv' = inv \cup {n}
    BY DEF CreateInvitation
  <2> QED BY <2>3, <2>4, <2>5
<1>4. ids \in Nat
  BY DEF IInv, TablesOK
<1>5. \A i \in inv : i.id \in Nat /\ i.id <= ids
  BY DEF IInv, TablesOK
<1>6. TablesOK'
  <2>1. n \in [id : 1 .. ids', user : User, role : Role, group : BOOLEAN,
               maintainer : BOOLEAN, status : {"pending", "accepted"}]
    BY <1>1, <1>3, <1>4 DEF Invitation
  <2>2. inv \subseteq [id : 1 .. ids', user : User, role : Role, group : BOOLEAN,
                       maintainer : BOOLEAN, status : {"pending", "accepted"}]
    BY <1>1, <1>4 DEF IInv, TablesOK
  <2>3. org \in [User -> [role : Role \cup {"none"}, id : 0 .. ids']]
    BY <1>1, <1>4 DEF IInv, TablesOK
  <2>4. gm \subseteq [id : 0 .. ids', user : User, maintainer : BOOLEAN]
    BY <1>1, <1>4 DEF IInv, TablesOK
  <2>5. ids' \in Nat
    BY <1>1, <1>4
  <2> QED BY <1>1, <1>3, <2>1, <2>2, <2>3, <2>4, <2>5 DEF IInv, TablesOK, Unmoved, OneRow
<1>7. Grows
  BY <1>1, <1>3, <1>4 DEF Grows, Unmoved
<1>8. ReqsInv' /\ Alone'
  BY <1>1, <1>6, <1>7, EndMoves DEF Unmoved
<1>9. \A i, j \in inv' : Agree(i, j)
  BY <1>3, <1>4, <1>5 DEF IInv, HistoryInv, Agree
<1>10. AcceptedJoined'
  BY <1>1, <1>3 DEF IInv, AcceptedJoined, Unmoved
<1>11. ~acted => \A i \in inv' : i.role # "owner"
  BY <1>3 DEF IInv, EscalationInv
<1>12. \A p \in Actor \ {q} : req'[p] = req[p]
  BY <1>1, MovedOne DEF End
<1> QED BY <1>1, <1>6, <1>8, <1>9, <1>10, <1>11, <1>12, InvitationStep

LEMMA RevokeStep ==
  ASSUME IInv, NEW q \in Actor, Revoke(q)
  PROVE  IInv'
<1>1. /\ req[q].pc = "write" /\ ~Ended(req[q].pc)
      /\ UNCHANGED Unmoved /\ ids' = ids /\ inv' \subseteq inv /\ End(q, "done")
  BY DEF Revoke, At, Ended, ghosts, Unmoved
<1>2. TablesOK'
  BY <1>1 DEF IInv, TablesOK, Unmoved, OneRow
<1>3. Grows
  BY <1>1 DEF Grows, Unmoved, IInv, TablesOK
<1>4. ReqsInv' /\ Alone'
  BY <1>1, <1>2, <1>3, EndMoves DEF Unmoved
<1>5. \A i, j \in inv' : Agree(i, j)
  BY <1>1 DEF IInv, HistoryInv
<1>6. AcceptedJoined'
  BY <1>1 DEF IInv, AcceptedJoined, Unmoved
<1>7. ~acted => \A i \in inv' : i.role # "owner"
  BY <1>1 DEF IInv, EscalationInv
<1>8. \A p \in Actor \ {q} : req'[p] = req[p]
  BY <1>1, MovedOne DEF End
<1> QED BY <1>1, <1>2, <1>4, <1>5, <1>6, <1>7, <1>8, InvitationStep

\* An invitation is accepted once its receiver has joined what it is for.
LEMMA ChangeStatusStep ==
  ASSUME IInv, NEW q \in Actor, ChangeStatus(q)
  PROVE  IInv'
<1> DEFINE y == req[q]
           Accepted(i) == IF i.id = y.cur.id THEN [i EXCEPT !.status = "accepted"] ELSE i
<1>1. /\ y.pc = "accept" /\ y.op.kind = "login" /\ ~Ended(y.pc)
      /\ UNCHANGED Unmoved /\ ids' = ids
      /\ inv' = {Accepted(i) : i \in inv}
  BY DEF ChangeStatus, At, Ended, ghosts, Unmoved
<1>2. y \in ReqRec /\ Bounded(y) /\ Invited(q, y) /\ Unescalated(y) /\ (serial => Undisturbed(q, y))
  BY OneRequest
<1>3. q \in Session /\ q \in User
  BY <1>1, Operations
<1>4. \A i \in inv : /\ Accepted(i) \in [id : 1 .. ids, user : User, role : Role, group : BOOLEAN,
                                         maintainer : BOOLEAN, status : {"pending", "accepted"}]
                     /\ Accepted(i).id = i.id /\ Accepted(i).user = i.user
                     /\ Accepted(i).group = i.group /\ Accepted(i).role = i.role
                     /\ i.id # y.cur.id => Accepted(i) = i
  BY DEF IInv, TablesOK
<1> HIDE DEF Accepted
<1>5. TablesOK'
  BY <1>1, <1>4 DEF IInv, TablesOK, Unmoved, OneRow
<1>6. Grows
  <2>1. \A i \in inv' : \E k \in inv : k.id = i.id /\ k.user = i.user /\ k.group = i.group
    BY <1>1, <1>4
  <2> QED BY <1>1, <2>1 DEF Grows, Unmoved, IInv, TablesOK
<1>7. \A i, j \in inv' : Agree(i, j)
  BY <1>1, <1>4 DEF IInv, HistoryInv, Agree
<1>8. AcceptedJoined'
  <2> SUFFICES ASSUME NEW i \in inv, Accepted(i).status = "accepted"
               PROVE  /\ <<Accepted(i).user, "org">> \in ever
                      /\ Accepted(i).group => <<Accepted(i).user, "group">> \in ever
    BY <1>1 DEF AcceptedJoined, Unmoved
  <2>1. CASE i.id # y.cur.id
    BY <1>4, <2>1 DEF IInv, AcceptedJoined
  <2>2. CASE i.id = y.cur.id
    <3>1. i.user = q /\ i.group = y.cur.group
      BY <1>1, <1>2, <1>3, <2>2 DEF Invited, Agree
    <3>2. <<q, "org">> \in ever /\ (y.cur.group => <<q, "group">> \in ever)
      BY <1>1, <1>2, <1>3 DEF Invited
    <3> QED BY <1>4, <3>1, <3>2
  <2> QED BY <2>1, <2>2
<1>9. ~acted => \A i \in inv' : i.role # "owner"
  BY <1>1, <1>4 DEF IInv, EscalationInv
<1>10. User # {}
  BY <1>3
<1>11. NoInvitation \in Invitation /\ NoInvitation.id = 0
  BY <1>10, EndedRec
<1> DEFINE z == [y EXCEPT !.pc = "next", !.cur = NoInvitation]
<1>12. z \in ReqRec
  BY <1>2, <1>11 DEF ReqRec, Phase
<1>13. PICK x \in ReqRec : x = z
  BY <1>12
<1>14. req' = [req EXCEPT ![q] = x]
  BY <1>2, <1>13 DEF IInv, ReqsInv, ReqRec, ChangeStatus
<1>15. /\ x.pc = "next" /\ x.cur.id = 0 /\ x.op = y.op /\ x.as = y.as
       /\ x.id = y.id /\ x.flag = y.flag /\ x.todo = y.todo
  BY <1>2, <1>11, <1>13 DEF ReqRec
<1> HIDE DEF z
<1>16. Shaped(q, x)
  <2>1. Shaped(q, y)
    BY OneRequest
  <2> QED BY <1>1, <1>15, <2>1 DEF Shaped
<1>17. Bounded(x)'
  BY <1>1, <1>2, <1>15 DEF Bounded, IInv, TablesOK
<1>18. Invited(q, x)'
  <2>1. \A i \in inv : i.id # 0
    BY DEF IInv, TablesOK
  <2>2. \A i \in inv' : Agree(i, x.cur) /\ \A j \in x.todo : Agree(i, j)
    BY <1>1, <1>2, <1>4, <1>15, <2>1 DEF Agree, Invited
  <2>3. \A j \in x.todo : j.user = q
    BY <1>2, <1>3, <1>15 DEF Invited
  <2>4. <<q, "org">> \in ever'
    BY <1>1, <1>2, <1>3 DEF Invited, Unmoved
  <2> QED BY <1>15, <2>2, <2>3, <2>4 DEF Invited
<1>19. Unescalated(x)'
  BY <1>1, <1>2, <1>15 DEF Unescalated, Unmoved
<1>20. serial => Undisturbed(q, x)'
  BY <1>1, <1>2, <1>15 DEF Undisturbed, SubjectOf, Member, Unmoved
<1>21. ReqInv(q, x)'
  BY <1>1, <1>16, <1>17, <1>18, <1>19, <1>20 DEF ReqInv, Unmoved
<1>22. ReqsInv' /\ Alone'
  BY <1>1, <1>5, <1>6, <1>14, <1>21, RequestMoves DEF Unmoved
<1>23. \A p \in Actor \ {q} : req'[p] = req[p]
  BY <1>14, MovedOne
<1> QED BY <1>1, <1>5, <1>7, <1>8, <1>9, <1>22, <1>23, InvitationStep

\* The local state of a login that has joined for the invitation i.
JoinedFor(y, i) == [y EXCEPT !.todo = @ \ {i}, !.cur = i,
                             !.pc = IF i.group THEN "find group" ELSE "accept"]

LEMMA JoinStep ==
  ASSUME IInv, NEW q \in Actor, Join(q)
  PROVE  IInv'
<1> DEFINE y == req[q]
<1>1. /\ y.pc = "next" /\ y.op.kind = "login" /\ ~Ended(y.pc)
      /\ UNCHANGED <<gm, mrow, group, count, inv, left, acted, serial, faults>>
  BY DEF Join, At, Ended
<1>2. /\ y \in ReqRec /\ Shaped(q, y) /\ Bounded(y) /\ Invited(q, y) /\ Unescalated(y)
      /\ serial => Undisturbed(q, y)
  BY OneRequest
<1>3. q \in Session /\ q \in User /\ SubjectOf(y) = q
  BY <1>1, Operations
<1>4. ASSUME NEW pc \in {"done", "failed"}, End(q, pc), UNCHANGED <<org, ids, ever>>
      PROVE  IInv'
  BY <1>1, <1>4, StopStep DEF Tables
<1>5. ASSUME NEW i \in y.todo, req' = [req EXCEPT ![q] = JoinedFor(y, i)],
             \/ y.flag /\ UNCHANGED <<org, ids, ever>>
             \/ /\ ~Member(q)
                /\ org' = [org EXCEPT ![q] = [role |-> i.role, id |-> ids + 1]]
                /\ ids' = ids + 1
                /\ ever' = ever \cup {<<q, "org">>}
      PROVE  IInv'
  <2>1. i \in Invitation /\ i.user = q /\ (~acted => i.role # "owner") /\ i.id <= ids
    BY <1>2, <1>3, <1>5 DEF ReqRec, Invited, Unescalated, Bounded
  <2>2. JoinedFor(y, i) \in ReqRec
    BY <1>2, <2>1 DEF JoinedFor, ReqRec, Phase
  <2>3. PICK x \in ReqRec : x = JoinedFor(y, i)
    BY <2>2
  <2>4. req' = [req EXCEPT ![q] = x]
    BY <1>5, <2>3
  <2>5. /\ x.pc \in {"find group", "accept"} /\ (x.pc = "accept" => ~i.group)
        /\ x.cur = i /\ x.todo = y.todo \ {i}
        /\ x.op = y.op /\ x.as = y.as /\ x.id = y.id /\ x.flag = y.flag
    BY <1>2, <2>3 DEF JoinedFor, ReqRec
  <2>6. Shaped(q, x)
    BY <1>1, <1>2, <2>5 DEF Shaped
  <2>7. SubjectOf(x) = q
    BY <1>3, <2>5 DEF SubjectOf
  <2>8. \A k \in inv : Agree(k, x.cur) /\ \A j \in x.todo : Agree(k, j)
    BY <1>2, <1>5, <2>5 DEF Invited
  <2>9. \A j \in x.todo : j.user = q /\ j.id <= ids /\ (~acted => j.role # "owner")
    BY <1>2, <1>3, <2>5 DEF Invited, Bounded, Unescalated
  <2>10. x.id <= ids /\ x.cur.id <= ids
    BY <1>2, <2>1, <2>5 DEF Bounded
  <2>11. CASE y.flag /\ UNCHANGED <<org, ids, ever>>
    <3>1. <<q, "org">> \in ever
      BY <1>1, <1>2, <1>3, <2>11 DEF Invited
    <3>2. Bounded(x)
      BY <2>9, <2>10 DEF Bounded
    <3>3. Invited(q, x)
      BY <2>1, <2>5, <2>8, <2>9, <3>1 DEF Invited
    <3>4. Unescalated(x)
      BY <1>1, <2>5, <2>9 DEF Unescalated
    <3>5. serial => Undisturbed(q, x)
      <4>1. serial => Member(q)
        BY <1>1, <1>2, <1>3, <2>11 DEF Undisturbed
      <4> QED BY <1>1, <2>5, <2>7, <4>1 DEF Undisturbed
    <3>6. UNCHANGED Tables /\ faults' = faults
      BY <1>1, <2>11 DEF Tables
    <3>7. ~Ended(x.pc)
      BY <2>5 DEF Ended
    <3> QED BY <1>1, <2>4, <2>5, <3>2, <3>3, <3>4, <3>5, <3>6, <3>7, GoStep
  <2>12. CASE /\ ~Member(q)
              /\ org' = [org EXCEPT ![q] = [role |-> i.role, id |-> ids + 1]]
              /\ ids' = ids + 1
              /\ ever' = ever \cup {<<q, "org">>}
    <3>1. ids \in Nat /\ ids' \in Nat /\ i.role \in Role
      BY <2>1, <2>12 DEF IInv, TablesOK, Invitation
    <3>2. /\ org'[q].role = i.role /\ i.role # "none"
          /\ \A v \in User \ {q} : org'[v] = org[v]
      BY <1>3, <2>12, <3>1 DEF IInv, TablesOK, Role
    <3>3. TablesOK'
      <4>1. \A v \in User : org'[v] \in [role : Role \cup {"none"}, id : 0 .. ids']
        BY <1>3, <2>12, <3>1, <3>2 DEF IInv, TablesOK
      <4>2. org' \in [User -> [role : Role \cup {"none"}, id : 0 .. ids']]
        BY <2>12, <4>1 DEF IInv, TablesOK
      <4>3. gm \subseteq [id : 0 .. ids', user : User, maintainer : BOOLEAN]
        BY <2>12, <3>1 DEF IInv, TablesOK
      <4>4. inv \subseteq [id : 1 .. ids', user : User, role : Role, group : BOOLEAN,
                           maintainer : BOOLEAN, status : {"pending", "accepted"}]
        BY <2>12, <3>1 DEF IInv, TablesOK
      <4> QED BY <1>1, <3>1, <4>2, <4>3, <4>4 DEF IInv, TablesOK, OneRow
    <3>4. Owners \subseteq Owners' /\ (~acted => Owners' = Owners)
      BY <1>3, <2>1, <2>12, <3>2 DEF Owners, Member
    <3>5. Grows
      BY <1>1, <2>1, <2>12, <3>1, <3>2 DEF Grows
    <3>6. Bounded(x)'
      <4>1. \A n \in Nat : n <= ids => n <= ids'
        BY <2>12, <3>1
      <4> QED BY <2>5, <2>9, <2>10, <4>1, <2>1 DEF Bounded, ReqRec, Invitation
    <3>7. Invited(q, x)'
      BY <1>1, <2>1, <2>5, <2>8, <2>9, <2>12 DEF Invited
    <3>8. Unescalated(x)'
      BY <1>1, <2>5, <2>9 DEF Unescalated
    <3>9. Undisturbed(q, x)'
      <4>1. Member(q)'
        BY <3>2 DEF Member
      <4> QED BY <1>1, <2>5, <2>7, <4>1 DEF Undisturbed
    <3>10. ReqInv(q, x)'
      BY <2>6, <3>6, <3>7, <3>8, <3>9 DEF ReqInv
    <3>11. ReqsInv' /\ Alone'
      BY <1>1, <2>4, <3>3, <3>5, <3>10, RequestMoves
    <3>12. HistoryInv' /\ AcceptedJoined'
      BY <1>1, <2>12, <3>2 DEF IInv, HistoryInv, AcceptedJoined, Member
    <3>13. EscalationInv'
      <4>1. \A u \in User : <<u, "owner">> \in ever' <=> <<u, "owner">> \in ever
        BY <2>12
      <4> QED BY <1>1, <3>4, <4>1 DEF IInv, EscalationInv, NoEscalation
    <3>14. OwnersKept'
      BY <1>1, <3>4 DEF IInv, OwnersKept
    <3>15. GroupConsistent'
      <4>1. \A v \in User : Member(v) => Member(v)'
        BY <3>2 DEF Member
      <4>2. gm \subseteq [id : 0 .. ids, user : User, maintainer : BOOLEAN]
        BY DEF IInv, TablesOK
      <4> QED BY <1>1, <4>1, <4>2 DEF IInv, GroupConsistent, RowsOf
    <3>16. CountInv'
      <4>1. \A p \in Actor \ {q} : req'[p] = req[p]
        BY <2>4, MovedOne
      <4> QED BY <1>1, <4>1, CountKeeps
    <3> QED BY <3>3, <3>11, <3>12, <3>13, <3>14, <3>15, <3>16 DEF IInv
  <2> QED BY <1>5, <2>11, <2>12
<1>6. \A i : [req EXCEPT ![q].todo = @ \ {i}, ![q].cur = i,
                         ![q].pc = IF i.group THEN "find group" ELSE "accept"]
             = [req EXCEPT ![q] = JoinedFor(y, i)]
  BY <1>2 DEF JoinedFor, IInv, ReqsInv, ReqRec
<1>7. CASE /\ End(q, IF y.todo = {} THEN "done" ELSE "failed")
           /\ UNCHANGED <<org, ids, ever>>
  BY <1>4, <1>7
<1>8. ASSUME NEW i \in y.todo,
             \/ y.flag /\ UNCHANGED <<org, ids, ever>>
             \/ /\ ~y.flag /\ ~Member(q)
                /\ org' = [org EXCEPT ![q] = [role |-> i.role, id |-> ids + 1]]
                /\ ids' = ids + 1
                /\ ever' = ever \cup {<<q, "org">>},
             req' = [req EXCEPT ![q].todo = @ \ {i}, ![q].cur = i,
                                ![q].pc = IF i.group THEN "find group" ELSE "accept"]
      PROVE  IInv'
  <2>1. req' = [req EXCEPT ![q] = JoinedFor(y, i)]
    BY <1>6, <1>8
  <2>2. CASE y.flag /\ UNCHANGED <<org, ids, ever>>
    BY <1>5, <2>1, <2>2
  <2>3. CASE /\ ~Member(q)
             /\ org' = [org EXCEPT ![q] = [role |-> i.role, id |-> ids + 1]]
             /\ ids' = ids + 1
             /\ ever' = ever \cup {<<q, "org">>}
    BY <1>5, <2>1, <2>3
  <2> QED BY <1>8, <2>2, <2>3
<1> QED BY <1>7, <1>8 DEF Join

\* A row is added for somebody who had none.
LEMMA AddWriteStep ==
  ASSUME IInv, NEW q \in Actor, AddWrite(q)
  PROVE  IInv'
<1> DEFINE y == req[q]
           u == Subject(q)
           m == IF q \in Session THEN y.cur.maintainer ELSE y.op.maintainer
<1>1. /\ y.pc = "add write" /\ y.op.kind \in {"add", "login"} /\ ~Ended(y.pc)
      /\ UNCHANGED <<org, group, count, inv, left, acted, serial, faults>>
  BY DEF AddWrite, At, Ended
<1>2. /\ y \in ReqRec /\ Shaped(q, y) /\ Bounded(y) /\ Invited(q, y) /\ Unescalated(y)
      /\ serial => Undisturbed(q, y)
  BY OneRequest
<1>3. u \in User /\ u = SubjectOf(y) /\ (q \in Session => u = q)
  BY <1>1, Operations
<1>4. m \in BOOLEAN
  BY <1>2 DEF ReqRec, Operation, Invitation
<1>5. CASE End(q, "failed") /\ UNCHANGED <<gm, mrow, ids, ever>>
  BY <1>1, <1>5, StopStep DEF Tables
<1>6. ASSUME NEW n, n = [id |-> ids + 1, user |-> u, maintainer |-> m],
             RowsOf(u) = {}, ~(m /\ u \in mrow),
             gm' = gm \cup {n}, mrow' = IF m THEN mrow \cup {u} ELSE mrow,
             ids' = ids + 1, ever' = ever \cup {<<u, "group">>}, Go(q, "count")
      PROVE  IInv'
  <2>1. ids \in Nat /\ ids' \in Nat /\ n.user = u /\ n.maintainer = m
    BY <1>6 DEF IInv, TablesOK
  <2>2. TablesOK'
    <3>1. org \in [User -> [role : Role \cup {"none"}, id : 0 .. ids']]
      BY <1>6, <2>1 DEF IInv, TablesOK
    <3>2. gm' \subseteq [id : 0 .. ids', user : User, maintainer : BOOLEAN]
      <4>1. gm \subseteq [id : 0 .. ids', user : User, maintainer : BOOLEAN]
        BY <1>6, <2>1 DEF IInv, TablesOK
      <4>2. n \in [id : 0 .. ids', user : User, maintainer : BOOLEAN]
        BY <1>3, <1>4, <1>6, <2>1
      <4> QED BY <1>6, <4>1, <4>2
    <3>3. IsFiniteSet(gm')
      BY <1>6, FS_AddElement DEF IInv, TablesOK
    <3>4. inv \subseteq [id : 1 .. ids', user : User, role : Role, group : BOOLEAN,
                         maintainer : BOOLEAN, status : {"pending", "accepted"}]
      BY <1>6, <2>1 DEF IInv, TablesOK
    <3>5. mrow' \subseteq User
      BY <1>3, <1>6 DEF IInv, TablesOK
    <3>6. OneRow'
      <4>1. OneRow /\ \A r \in gm : r.user # u
        BY <1>6 DEF IInv, TablesOK, RowsOf
      <4> QED BY <1>6, <2>1, <4>1 DEF OneRow
    <3> QED BY <1>1, <2>1, <3>1, <3>2, <3>3, <3>4, <3>5, <3>6 DEF IInv, TablesOK
  <2>3. Grows
    <3>1. ids <= ids' /\ ever \subseteq ever'
      BY <1>6, <2>1
    <3> QED BY <1>1, <2>1, <3>1, GrowsAlike
  <2>4. PICK x : Moved(q, x, "count", y.id, y.flag)
    BY <1>6, GoMoves DEF Phase
  <2>5. Shaped(q, x)
    BY <1>1, <1>2, <2>4 DEF Shaped, Moved
  <2>6. Bounded(x)'
    <3>1. \A k \in Nat : k <= ids => k <= ids'
      BY <1>6, <2>1
    <3> QED BY <1>2, <2>4, <3>1 DEF Bounded, Moved, ReqRec, Invitation
  <2>7. Invited(q, x)'
    BY <1>1, <1>2, <1>3, <1>6, <2>4 DEF Invited, Moved
  <2>8. Unescalated(x)'
    BY <1>1, <1>2, <2>4 DEF Unescalated, Moved
  <2>9. serial => Undisturbed(q, x)'
    BY <1>1, <1>2, <2>4 DEF Undisturbed, Moved, SubjectOf, Member
  <2>10. ReqInv(q, x)'
    BY <1>1, <2>5, <2>6, <2>7, <2>8, <2>9 DEF ReqInv
  <2>11. ReqsInv' /\ Alone'
    BY <1>1, <2>2, <2>3, <2>4, <2>10, RequestMoves DEF Moved
  <2>12. HistoryInv' /\ AcceptedJoined'
    BY <1>1, <1>6, <2>1 DEF IInv, HistoryInv, AcceptedJoined, Member
  <2>13. EscalationInv'
    <3>1. \A v \in User : <<v, "owner">> \in ever' <=> <<v, "owner">> \in ever
      BY <1>6
    <3> QED BY <1>1, <3>1 DEF IInv, EscalationInv, NoEscalation, Owners
  <2>14. OwnersKept'
    BY <1>1 DEF IInv, OwnersKept, Owners
  <2>15. GroupConsistent'
    <3> SUFFICES ASSUME serial
                 PROVE  /\ \A r \in gm' : Member(r.user)' /\ RowsOf(r.user)' = {r}
                        /\ mrow' = {r.user : r \in {s \in gm' : s.maintainer}}
                        /\ ~group' => gm' = {} /\ mrow' = {}
      BY <1>1 DEF GroupConsistent
    <3>1. /\ \A r \in gm : Member(r.user) /\ RowsOf(r.user) = {r}
          /\ mrow = {r.user : r \in {s \in gm : s.maintainer}}
      BY DEF IInv, GroupConsistent
    <3>2. group /\ Member(u) /\ RowsOf(u) = {}
      BY <1>1, <1>2, <1>3 DEF Undisturbed
    <3>3. \A r \in gm : r.user # u
      BY <3>2 DEF RowsOf
    <3>4. ASSUME NEW r \in gm' PROVE Member(r.user)' /\ RowsOf(r.user)' = {r}
      <4>1. CASE r = n
        BY <1>1, <1>6, <2>1, <3>2, <3>3, <4>1 DEF Member, RowsOf
      <4>2. CASE r \in gm
        BY <1>1, <1>6, <2>1, <3>1, <3>3, <4>2 DEF Member, RowsOf
      <4> QED BY <1>6, <4>1, <4>2
    <3>5. mrow' = {r.user : r \in {s \in gm' : s.maintainer}}
      BY <1>6, <2>1, <3>1
    <3> QED BY <1>1, <3>2, <3>4, <3>5
  <2>16. CountInv'
    BY <2>4, MovedOne, CountComes DEF Moved
  <2> QED BY <2>2, <2>11, <2>12, <2>13, <2>14, <2>15, <2>16 DEF IInv
<1> QED BY <1>5, <1>6 DEF AddWrite

LEMMA SetMemberCountStep ==
  ASSUME IInv, NEW q \in Actor, SetMemberCount(q)
  PROVE  IInv'
<1> DEFINE y == req[q]
<1>1. /\ y.pc = "set count" /\ ~Ended(y.pc) /\ count' = y.n
      /\ UNCHANGED <<org, gm, mrow, group, inv, ids, ever, left, acted, serial, faults>>
  BY DEF SetMemberCount, Ended, ghosts
<1>2. /\ y \in ReqRec /\ Shaped(q, y) /\ Bounded(y) /\ Invited(q, y) /\ Unescalated(y)
      /\ serial => Undisturbed(q, y)
  BY OneRequest
<1>3. TablesOK'
  <2>1. y.n \in Nat
    BY <1>2 DEF ReqRec
  <2> QED BY <1>1, <2>1 DEF IInv, TablesOK, OneRow
<1>4. Grows
  <2>1. ids \in Nat
    BY DEF IInv, TablesOK
  <2>2. ids' = ids /\ ever' = ever
    BY <1>1
  <2>3. ids' \in Nat /\ ids <= ids' /\ ever \subseteq ever'
    BY <2>1, <2>2
  <2> QED BY <1>1, <2>1, <2>3, GrowsAlike
<1>5. ReqsInv' /\ Alone'
  <2>1. CASE q \notin Session
    <3>1. End(q, "done")
      BY <2>1 DEF SetMemberCount
    <3> QED BY <1>1, <1>3, <1>4, <3>1, EndMoves
  <2>2. CASE q \in Session
    <3> DEFINE z == [y EXCEPT !.pc = "accept", !.n = 0]
    <3>1. z \in ReqRec
      BY <1>2 DEF ReqRec, Phase
    <3>2. PICK x \in ReqRec : x = z
      BY <3>1
    <3>3. req' = [req EXCEPT ![q] = x]
      BY <1>2, <2>2, <3>2 DEF SetMemberCount, IInv, ReqsInv, ReqRec
    <3>4. /\ x.pc = "accept" /\ x.op = y.op /\ x.as = y.as /\ x.id = y.id
          /\ x.flag = y.flag /\ x.cur = y.cur /\ x.todo = y.todo
      BY <1>2, <3>2 DEF ReqRec
    <3> HIDE DEF z
    <3>5. Shaped(q, x) /\ Bounded(x)' /\ Invited(q, x)'
      BY <1>1, <1>2, <3>4 DEF Shaped, Bounded, Invited
    <3>6. Unescalated(x)'
      BY <1>1, <1>2, <3>4 DEF Unescalated, Ended
    <3>7. serial => Undisturbed(q, x)'
      BY <1>1, <1>2, <3>4 DEF Undisturbed, SubjectOf, Member
    <3>8. ReqInv(q, x)'
      BY <1>1, <3>5, <3>6, <3>7 DEF ReqInv
    <3> QED BY <1>1, <1>3, <1>4, <3>3, <3>8, RequestMoves
  <2> QED BY <2>1, <2>2
<1>6. HistoryInv' /\ AcceptedJoined'
  BY <1>1 DEF IInv, HistoryInv, AcceptedJoined, Member
<1>7. EscalationInv'
  BY <1>1 DEF IInv, EscalationInv, NoEscalation, Owners
<1>8. OwnersKept' /\ GroupConsistent'
  BY <1>1 DEF IInv, OwnersKept, GroupConsistent, Owners, Member, RowsOf
<1>9. CountInv'
  <2>1. serial => y.n = Cardinality(gm)
    BY <1>1, <1>2 DEF Undisturbed
  <2> QED BY <1>1, <2>1 DEF CountInv
<1> QED BY <1>3, <1>5, <1>6, <1>7, <1>8, <1>9 DEF IInv

\* A request about a member of the group, which nobody disturbs, finds the row it
\* has read, and no other row of the user.
LEMMA TheRow ==
  ASSUME IInv, NEW q \in Actor, serial,
         req[q].pc = "write", req[q].op.kind \in {"drop", "maintainer"}
  PROVE  \E r \in gm : /\ r.user = req[q].op.of /\ r.maintainer = req[q].flag
                       /\ \A s \in gm : ReadRow(q, s) <=> s = r
                       /\ \A s \in gm : s.user = r.user => s = r
<1>1. Undisturbed(q, req[q])
  BY OneRequest
<1>2. PICK r \in gm : r.user = req[q].op.of /\ r.id = req[q].id /\ r.maintainer = req[q].flag
  BY <1>1 DEF Undisturbed
<1>3. RowsOf(r.user) = {r}
  BY <1>2 DEF IInv, GroupConsistent
<1>4. \A s \in gm : s.user = r.user => s = r
  BY <1>3 DEF RowsOf
<1>5. \A s \in gm : ReadRow(q, s) <=> s = r
  BY <1>2, <1>4 DEF ReadRow
<1> QED BY <1>2, <1>4, <1>5

LEMMA DropMemberStep ==
  ASSUME IInv, NEW q \in Actor, DropMember(q)
  PROVE  IInv'
<1> DEFINE y == req[q]
           u == y.op.of
<1>1. /\ y.pc = "write" /\ y.op.kind = "drop" /\ ~Ended(y.pc)
      /\ gm' = {r \in gm : ~ReadRow(q, r)}
      /\ mrow' = IF y.flag THEN mrow \ {u} ELSE mrow
      /\ UNCHANGED <<org, group, count, inv, ids, ever, left, acted, serial, faults>>
      /\ Go(q, "count")
  BY DEF DropMember, At, Ended, ghosts, MaintainersAfter
<1>2. /\ y \in ReqRec /\ Shaped(q, y) /\ Bounded(y) /\ Invited(q, y) /\ Unescalated(y)
  BY OneRequest
<1>3. q \notin Session /\ u \in User
  BY <1>1, Operations
<1>4. TablesOK'
  <2>1. IsFiniteSet(gm')
    BY <1>1, FS_Subset DEF IInv, TablesOK
  <2> QED BY <1>1, <2>1 DEF IInv, TablesOK, OneRow
<1>5. Grows
  BY <1>1 DEF Grows, IInv, TablesOK
<1>6. PICK x : Moved(q, x, "count", y.id, y.flag)
  BY <1>1, GoMoves DEF Phase
<1>7. Shaped(q, x) /\ Bounded(x)' /\ Invited(q, x)'
  BY <1>1, <1>2, <1>3, <1>6 DEF Shaped, Bounded, Invited, Moved
<1>8. Unescalated(x)'
  BY <1>1, <1>2, <1>6 DEF Unescalated, Moved
<1>9. Undisturbed(q, x)'
  BY <1>1, <1>6 DEF Undisturbed, Moved
<1>10. ReqInv(q, x)'
  BY <1>7, <1>8, <1>9 DEF ReqInv
<1>11. ReqsInv' /\ Alone'
  BY <1>1, <1>4, <1>5, <1>6, <1>10, RequestMoves DEF Moved
<1>12. HistoryInv' /\ AcceptedJoined'
  BY <1>1 DEF IInv, HistoryInv, AcceptedJoined, Member
<1>13. EscalationInv' /\ OwnersKept'
  BY <1>1 DEF IInv, EscalationInv, NoEscalation, OwnersKept, Owners
<1>14. GroupConsistent'
  <2> SUFFICES ASSUME serial
               PROVE  /\ \A r \in gm' : Member(r.user)' /\ RowsOf(r.user)' = {r}
                      /\ mrow' = {r.user : r \in {s \in gm' : s.maintainer}}
                      /\ ~group' => gm' = {} /\ mrow' = {}
    BY <1>1 DEF GroupConsistent
  <2>1. /\ \A r \in gm : Member(r.user) /\ RowsOf(r.user) = {r}
        /\ mrow = {r.user : r \in {s \in gm : s.maintainer}}
        /\ ~group => gm = {} /\ mrow = {}
    BY DEF IInv, GroupConsistent
  <2>2. PICK r \in gm : /\ r.user = u /\ r.maintainer = y.flag
                        /\ \A s \in gm : ReadRow(q, s) <=> s = r
                        /\ \A s \in gm : s.user = r.user => s = r
    BY <1>1, TheRow
  <2>3. gm' = gm \ {r}
    BY <1>1, <2>2
  <2>4. \A s \in gm' : Member(s.user)' /\ RowsOf(s.user)' = {s}
    BY <1>1, <2>1, <2>3 DEF Member, RowsOf
  <2>5. mrow' = {s.user : s \in {t \in gm' : t.maintainer}}
    <3>1. CASE y.flag
      BY <1>1, <2>1, <2>2, <2>3, <3>1
    <3>2. CASE ~y.flag
      BY <1>1, <2>1, <2>2, <2>3, <3>2
    <3> QED BY <3>1, <3>2
  <2>6. ~group' => gm' = {} /\ mrow' = {}
    BY <1>1, <2>1
  <2> QED BY <2>4, <2>5, <2>6
<1>15. CountInv'
  BY <1>6, MovedOne, CountComes DEF Moved
<1> QED BY <1>4, <1>11, <1>12, <1>13, <1>14, <1>15 DEF IInv

LEMMA SetMaintainerStep ==
  ASSUME IInv, NEW q \in Actor, SetMaintainer(q)
  PROVE  IInv'
<1> DEFINE y == req[q]
           u == y.op.of
           m == y.op.maintainer
           Row == [id : 0 .. ids, user : User, maintainer : BOOLEAN]
           Set(r) == IF ReadRow(q, r) THEN [r EXCEPT !.maintainer = m] ELSE r
<1>1. /\ y.pc = "write" /\ y.op.kind = "maintainer" /\ ~Ended(y.pc)
      /\ gm' = {Set(r) : r \in gm}
      /\ mrow' = IF m THEN mrow \cup {u} ELSE mrow \ {u}
      /\ UNCHANGED <<org, group, count, inv, ids, ever, left, acted, serial, faults>>
      /\ End(q, "done")
  BY DEF SetMaintainer, At, Ended, ghosts
<1>2. u \in User /\ m \in BOOLEAN /\ gm \subseteq Row
  BY <1>1, Operations DEF Operation, IInv, TablesOK
<1>3. \A r \in gm : Set(r) \in Row /\ Set(r).user = r.user
  BY <1>2
<1>4. IsFiniteSet(gm')
  <2> DEFINE f == [r \in gm |-> Set(r)]
  <2>1. f \in Surjection(gm, gm')
    BY <1>1 DEF Surjection
  <2> QED BY <2>1, FS_Surjection DEF IInv, TablesOK
<1>5. ASSUME serial
      PROVE  \E r \in gm : /\ r.user = u /\ \A s \in gm : s.user = u => s = r
                           /\ gm' = (gm \ {r}) \cup {[r EXCEPT !.maintainer = m]}
  <2>1. PICK r \in gm : /\ r.user = u
                        /\ \A s \in gm : ReadRow(q, s) <=> s = r
                        /\ \A s \in gm : s.user = r.user => s = r
    BY <1>1, <1>5, TheRow
  <2>2. Set(r) = [r EXCEPT !.maintainer = m] /\ \A s \in gm \ {r} : Set(s) = s
    BY <2>1
  <2> HIDE DEF Set
  <2>3. gm' = (gm \ {r}) \cup {[r EXCEPT !.maintainer = m]}
    BY <1>1, <2>2
  <2> QED BY <2>1, <2>3
<1> HIDE DEF Set
<1>6. TablesOK'
  <2>1. gm' \subseteq Row
    BY <1>1, <1>3
  <2>2. mrow' \subseteq User
    BY <1>1, <1>2 DEF IInv, TablesOK
  <2>3. OneRow'
    BY <1>1, <1>3 DEF IInv, TablesOK, OneRow
  <2> QED BY <1>1, <1>4, <2>1, <2>2, <2>3 DEF IInv, TablesOK
<1>7. Grows
  <2>1. ids \in Nat
    BY DEF IInv, TablesOK
  <2>2. ids' = ids /\ ever' = ever
    BY <1>1
  <2>3. ids' \in Nat /\ ids <= ids' /\ ever \subseteq ever'
    BY <2>1, <2>2
  <2> QED BY <1>1, <2>1, <2>3, GrowsAlike
<1>8. ReqsInv' /\ Alone'
  BY <1>1, <1>6, <1>7, EndMoves
<1>9. HistoryInv' /\ AcceptedJoined'
  BY <1>1, <1>3 DEF IInv, HistoryInv, AcceptedJoined, Member
<1>10. EscalationInv' /\ OwnersKept'
  BY <1>1 DEF IInv, EscalationInv, NoEscalation, OwnersKept, Owners
<1>11. GroupConsistent'
  <2> SUFFICES ASSUME serial
               PROVE  /\ \A r \in gm' : Member(r.user)' /\ RowsOf(r.user)' = {r}
                      /\ mrow' = {r.user : r \in {s \in gm' : s.maintainer}}
                      /\ ~group' => gm' = {} /\ mrow' = {}
    BY <1>1 DEF GroupConsistent
  <2>1. /\ \A r \in gm : Member(r.user) /\ RowsOf(r.user) = {r}
        /\ mrow = {r.user : r \in {s \in gm : s.maintainer}}
        /\ ~group => gm = {} /\ mrow = {}
    BY DEF IInv, GroupConsistent
  <2>2. PICK r \in gm : /\ r.user = u /\ \A s \in gm : s.user = u => s = r
                        /\ gm' = (gm \ {r}) \cup {[r EXCEPT !.maintainer = m]}
    BY <1>5
  <2>3. PICK n : n = [r EXCEPT !.maintainer = m] /\ n.user = u /\ n.maintainer = m
    <3>1. r \in Row
      BY <1>2
    <3>2. [r EXCEPT !.maintainer = m].user = u /\ [r EXCEPT !.maintainer = m].maintainer = m
      BY <1>2, <2>2, <3>1
    <3> QED BY <3>2
  <2>4. gm' = (gm \ {r}) \cup {n} /\ \A s \in gm \ {r} : s.user # u
    BY <2>2, <2>3
  <2>5. ASSUME NEW s \in gm' PROVE Member(s.user)' /\ RowsOf(s.user)' = {s}
    <3>1. Member(s.user)'
      BY <1>1, <2>1, <2>2, <2>3, <2>4 DEF Member
    <3>2. CASE s = n
      BY <2>3, <2>4, <3>1, <3>2 DEF RowsOf
    <3>3. CASE s \in gm \ {r}
      <4>1. RowsOf(s.user) = {s} /\ s.user # u
        BY <2>1, <2>4, <3>3
      <4>2. \A t \in gm' : t.user = s.user <=> t = s
        BY <2>3, <2>4, <3>3, <4>1 DEF RowsOf
      <4> QED BY <3>1, <4>2 DEF RowsOf
    <3> QED BY <2>4, <3>2, <3>3
  <2>6. mrow' = {s.user : s \in {t \in gm' : t.maintainer}}
    <3>1. CASE m
      <4>1. \A v : v \in mrow' <=> v = u \/ \E t \in gm \ {r} : t.maintainer /\ t.user = v
        BY <1>1, <2>1, <2>2, <3>1
      <4>2. \A v : v \in mrow' <=> \E t \in gm' : t.maintainer /\ t.user = v
        BY <2>3, <2>4, <3>1, <4>1
      <4> QED BY <4>2
    <3>2. CASE ~m
      BY <1>1, <2>1, <2>2, <2>3, <2>4, <3>2
    <3> QED BY <3>1, <3>2
  <2>7. ~group' => gm' = {} /\ mrow' = {}
    BY <1>1, <2>1, <2>2
  <2> QED BY <2>5, <2>6, <2>7
<1>12. CountInv'
  <2>1. ASSUME serial PROVE Cardinality(gm') = Cardinality(gm)
    <3>1. PICK r \in gm : /\ r.user = u /\ \A s \in gm : s.user = u => s = r
                          /\ gm' = (gm \ {r}) \cup {[r EXCEPT !.maintainer = m]}
      BY <1>5, <2>1
    <3>2. PICK n : n = [r EXCEPT !.maintainer = m] /\ n.user = u
      <4>1. r \in Row
        BY <1>2
      <4>2. [r EXCEPT !.maintainer = m].user = u
        BY <1>2, <3>1, <4>1
      <4> QED BY <4>2
    <3>3. n \notin gm \ {r} /\ gm' = (gm \ {r}) \cup {n}
      BY <3>1, <3>2
    <3>4. IsFiniteSet(gm) /\ Cardinality(gm) \in Nat
      BY FS_CardinalityType DEF IInv, TablesOK
    <3>5. IsFiniteSet(gm \ {r}) /\ Cardinality(gm \ {r}) = Cardinality(gm) - 1
      BY <3>1, <3>4, FS_RemoveElement
    <3>6. Cardinality(gm') = Cardinality(gm \ {r}) + 1
      BY <3>3, <3>5, FS_AddElement
    <3> QED BY <3>4, <3>5, <3>6
  <2>2. \A p \in Actor \ {q} : req'[p] = req[p]
    BY <1>1, MovedOne DEF End
  <2> QED BY <1>1, <2>1, <2>2, CountKeeps
<1> QED BY <1>6, <1>8, <1>9, <1>10, <1>11, <1>12 DEF IInv

LEMMA DeleteGroupStep ==
  ASSUME IInv, NEW q \in Actor, DeleteGroup(q)
  PROVE  IInv'
<1>1. /\ req[q].pc = "check" /\ ~Ended(req[q].pc)
      /\ UNCHANGED <<org, count, ids, ever, left, acted, serial, faults>>
  BY DEF DeleteGroup, At, Ended, ghosts
<1>2. CASE ~group
  <2>1. End(q, "failed") /\ UNCHANGED Tables
    BY <1>1, <1>2 DEF DeleteGroup, Tables
  <2> QED BY <1>1, <2>1, StopStep
<1>3. CASE group
  <2>1. group' = FALSE /\ gm' = {} /\ mrow' = {} /\ inv' \subseteq inv /\ End(q, "done")
    BY <1>3 DEF DeleteGroup
  <2>2. TablesOK'
    <3>1. IsFiniteSet({})
      BY FS_EmptySet
    <3> QED BY <1>1, <2>1, <3>1 DEF IInv, TablesOK, OneRow
  <2>3. Grows
    <3>1. \A i \in inv' : \E k \in inv : k.id = i.id /\ k.user = i.user /\ k.group = i.group
      BY <2>1
    <3> QED BY <1>1, <3>1 DEF Grows, IInv, TablesOK
  <2>4. ReqsInv' /\ Alone'
    BY <1>1, <2>1, <2>2, <2>3, EndMoves
  <2>5. HistoryInv' /\ AcceptedJoined'
    BY <1>1, <2>1 DEF IInv, HistoryInv, AcceptedJoined, Member
  <2>6. EscalationInv' /\ OwnersKept'
    BY <1>1, <2>1 DEF IInv, EscalationInv, NoEscalation, OwnersKept, Owners
  <2>7. GroupConsistent'
    BY <2>1 DEF GroupConsistent
  <2>8. CountInv'
    BY <2>1 DEF CountInv
  <2> QED BY <2>2, <2>4, <2>5, <2>6, <2>7, <2>8 DEF IInv
<1> QED BY <1>2, <1>3

-----------------------------------------------------------------------------
\* The theorems.

LEMMA InitIInv == Init => IInv
<1> SUFFICES ASSUME Init PROVE IInv
  OBVIOUS
<1>1. PICK i \in Initial :
        /\ org = [u \in User |-> [role |-> i.role[u], id |-> 0]]
        /\ gm = {[id |-> 0, user |-> u, maintainer |-> u \in i.maintainers] : u \in i.members}
        /\ mrow = i.maintainers
        /\ count = Cardinality(i.members)
        /\ ever = {<<u, "org">> : u \in {v \in User : i.role[v] # "none"}}
                    \cup {<<u, "group">> : u \in i.members}
                    \cup {<<u, "owner">> : u \in {v \in User : i.role[v] = "owner"}}
  BY DEF Init
<1>2. /\ group = TRUE /\ inv = {} /\ req = [q \in Actor |-> Idle] /\ ids = 0
      /\ left = {} /\ acted = FALSE /\ serial = TRUE /\ faults = 0
  BY DEF Init
<1>3. /\ i.role \in [User -> Role \cup {"none"}] /\ i.members \subseteq User
      /\ i.maintainers \subseteq i.members
      /\ \A u \in i.members : i.role[u] # "none"
      /\ IsFiniteSet(i.members)
  BY ConstantsAssumption
<1>4. PICK o \in User : i.role[o] = "owner"
  BY ConstantsAssumption
<1> DEFINE row(u) == [id |-> 0, user |-> u, maintainer |-> u \in i.maintainers]
<1>5. \A u \in i.members : /\ row(u) \in [id : 0 .. 0, user : User, maintainer : BOOLEAN]
                           /\ row(u).user = u /\ (row(u).maintainer <=> u \in i.maintainers)
  <2> SUFFICES ASSUME NEW u \in i.members
               PROVE  /\ row(u) \in [id : 0 .. 0, user : User, maintainer : BOOLEAN]
                      /\ row(u).user = u /\ (row(u).maintainer <=> u \in i.maintainers)
    OBVIOUS
  <2> DEFINE b == u \in i.maintainers
  <2>1. b \in BOOLEAN /\ (b <=> u \in i.maintainers)
    OBVIOUS
  <2>2. row(u) = [id |-> 0, user |-> u, maintainer |-> b]
    OBVIOUS
  <2> HIDE DEF b, row
  <2>3. row(u).maintainer = b
    BY <2>2
  <2>4. row(u) \in [id : 0 .. 0, user : User, maintainer : BOOLEAN] /\ row(u).user = u
    BY <1>3, <2>1, <2>2
  <2> QED BY <2>1, <2>3, <2>4
<1>6. gm = {row(u) : u \in i.members}
  BY <1>1
<1> HIDE DEF row
<1>7. IsFiniteSet(gm) /\ Cardinality(gm) = Cardinality(i.members)
  <2> DEFINE f == [u \in i.members |-> row(u)]
  <2>1. f \in Bijection(i.members, gm)
    BY <1>5, <1>6 DEF Bijection, Injection, Surjection, IsInjective
  <2>2. ExistsBijection(i.members, gm)
    BY <2>1 DEF ExistsBijection
  <2> QED BY <1>3, <2>2, FS_Bijection
<1>8. TablesOK
  <2>1. org \in [User -> [role : Role \cup {"none"}, id : 0 .. ids]]
    BY <1>1, <1>2, <1>3
  <2>2. gm \subseteq [id : 0 .. ids, user : User, maintainer : BOOLEAN]
    BY <1>2, <1>5, <1>6
  <2>3. count \in Nat
    BY <1>1, <1>3, FS_CardinalityType
  <2>4. faults \in 0 .. MaxFaults
    BY <1>2, ConstantsAssumption
  <2>5. OneRow
    BY <1>5, <1>6 DEF OneRow
  <2> QED BY <1>1, <1>2, <1>3, <1>7, <2>1, <2>2, <2>3, <2>4, <2>5 DEF TablesOK
<1>9. ReqsInv
  <2>1. User # {}
    BY <1>4
  <2>2. /\ Idle \in ReqRec /\ Idle.todo = {} /\ Idle.id = 0 /\ Idle.cur.id = 0
    BY <2>1, EndedRec
  <2>3. Idle.pc = "idle"
    BY DEF Idle
  <2>4. ASSUME NEW q \in Actor PROVE ReqInv(q, Idle)
    <3>1. Shaped(q, Idle) /\ Bounded(Idle) /\ Unescalated(Idle) /\ Undisturbed(q, Idle)
      BY <1>2, <2>2, <2>3 DEF Shaped, Bounded, Unescalated, Undisturbed, Ended
    <3>2. Invited(q, Idle)
      BY <1>2, <2>2, <2>3 DEF Invited
    <3> QED BY <3>1, <3>2 DEF ReqInv
  <2>5. \A q \in Actor : req[q] = Idle
    BY <1>2
  <2> QED BY <1>2, <2>2, <2>4, <2>5 DEF ReqsInv
<1>10. HistoryInv /\ AcceptedJoined
  BY <1>1, <1>2, <1>5, <1>6 DEF HistoryInv, AcceptedJoined, Member
<1>11. EscalationInv
  BY <1>1, <1>2 DEF EscalationInv, NoEscalation, Owners
<1>12. OwnersKept
  BY <1>1, <1>4 DEF OwnersKept, Owners
<1>13. GroupConsistent
  <2>1. ASSUME NEW r \in gm PROVE Member(r.user) /\ RowsOf(r.user) = {r}
    <3>1. PICK u \in i.members : r = row(u)
      BY <1>6
    <3>2. Member(r.user)
      BY <1>1, <1>3, <1>5, <3>1 DEF Member
    <3>3. \A s \in gm : s.user = r.user <=> s = r
      BY <1>5, <1>6, <3>1
    <3> QED BY <3>2, <3>3 DEF RowsOf
  <2>2. mrow = {r.user : r \in {s \in gm : s.maintainer}}
    BY <1>1, <1>3, <1>5, <1>6
  <2> QED BY <1>2, <2>1, <2>2 DEF GroupConsistent
<1>14. Alone
  BY <1>2 DEF Alone, Ended, Idle
<1>15. CountInv
  BY <1>1, <1>7 DEF CountInv
<1> QED BY <1>8, <1>9, <1>10, <1>11, <1>12, <1>13, <1>14, <1>15 DEF IInv

LEMMA StutterIInv ==
  ASSUME IInv, UNCHANGED vars
  PROVE  IInv'
<1>1. TablesOK'
  BY DEF IInv, TablesOK, vars, OneRow
<1>2. ReqsInv'
  <2>1. req' = req /\ req \in [Actor -> ReqRec]
    BY DEF IInv, ReqsInv, vars
  <2>2. ASSUME NEW q \in Actor PROVE ReqInv(q, req[q])'
    <3>1. PICK x \in ReqRec : x = req[q]
      BY <2>1
    <3>2. ReqInv(q, x)
      BY <3>1 DEF IInv, ReqsInv
    <3>3. ReqInv(q, x)'
      <4>1. Shaped(q, x) /\ Bounded(x)' /\ Invited(q, x)' /\ Unescalated(x)'
        BY <3>2 DEF vars, ReqInv, Bounded, Invited, Unescalated
      <4>2. serial => Undisturbed(q, x)'
        BY <3>2 DEF vars, ReqInv, Undisturbed, Owners, Member, RowsOf
      <4> QED BY <4>1, <4>2 DEF vars, ReqInv
    <3>4. req'[q] = x
      BY <2>1, <3>1
    <3> QED BY <3>3, <3>4
  <2> QED BY <2>1, <2>2 DEF ReqsInv
<1>3. HistoryInv' /\ AcceptedJoined'
  BY DEF IInv, HistoryInv, AcceptedJoined, Member, vars
<1>4. EscalationInv'
  BY DEF IInv, EscalationInv, NoEscalation, Owners, vars
<1>5. OwnersKept' /\ GroupConsistent'
  BY DEF IInv, OwnersKept, GroupConsistent, Owners, Member, RowsOf, vars
<1>6. Alone' /\ CountInv'
  BY DEF IInv, Alone, CountInv, Settling, vars
<1> QED BY <1>1, <1>2, <1>3, <1>4, <1>5, <1>6 DEF IInv

LEMMA NextIInv ==
  ASSUME IInv, [Next]_vars
  PROVE  IInv'
<1>1. ASSUME NEW q \in Actor, Begin(q) PROVE IInv'
  BY <1>1, BeginStep
<1>2. ASSUME NEW q \in Actor, Login(q) PROVE IInv'
  BY <1>2, LoginStep
<1>3. ASSUME NEW q \in Actor, Fail(q) PROVE IInv'
  BY <1>3, FailStep
<1>4. ASSUME NEW q \in Actor, Step(q) PROVE IInv'
  <2>1. CASE CheckMembership(q)
    BY <2>1, CheckMembershipStep
  <2>2. CASE DeleteMembership(q)
    BY <2>2, DeleteMembershipStep
  <2>3. CASE SetRole(q)
    BY <2>3, SetRoleStep
  <2>4. CASE CheckInvite(q)
    BY <2>4, CheckInviteStep
  <2>5. CASE CreateInvitation(q)
    BY <2>5, CreateInvitationStep
  <2>6. CASE CheckRevoke(q)
    BY <2>6, CheckRevokeStep
  <2>7. CASE Revoke(q)
    BY <2>7, RevokeStep
  <2>8. CASE FindMemberships(q)
    BY <2>8, FindMembershipsStep
  <2>9. CASE FindInvitations(q)
    BY <2>9, FindInvitationsStep
  <2>10. CASE Join(q)
    BY <2>10, JoinStep
  <2>11. CASE FindGroup(q)
    BY <2>11, FindGroupStep
  <2>12. CASE ChangeStatus(q)
    BY <2>12, ChangeStatusStep
  <2>13. CASE CheckAdd(q)
    BY <2>13, CheckAddStep
  <2>14. CASE AddRead(q)
    BY <2>14, AddReadStep
  <2>15. CASE AddWrite(q)
    BY <2>15, AddWriteStep
  <2>16. CASE CountMembers(q)
    BY <2>16, CountMembersStep
  <2>17. CASE SetMemberCount(q)
    BY <2>17, SetMemberCountStep
  <2>18. CASE CheckGroupMember(q)
    BY <2>18, CheckGroupMemberStep
  <2>19. CASE ReadGroupMember(q)
    BY <2>19, ReadGroupMemberStep
  <2>20. CASE DropMember(q)
    BY <2>20, DropMemberStep
  <2>21. CASE SetMaintainer(q)
    BY <2>21, SetMaintainerStep
  <2>22. CASE DeleteGroup(q)
    BY <2>22, DeleteGroupStep
  <2> QED
    BY <1>4, <2>1, <2>2, <2>3, <2>4, <2>5, <2>6, <2>7, <2>8, <2>9, <2>10, <2>11, <2>12,
       <2>13, <2>14, <2>15, <2>16, <2>17, <2>18, <2>19, <2>20, <2>21, <2>22 DEF Step
<1> QED BY <1>1, <1>2, <1>3, <1>4, StutterIInv DEF Next

LEMMA IInvHolds == Spec => []IInv
<1>1. IInv /\ [Next]_vars => IInv'
  BY NextIInv
<1> QED BY <1>1, InitIInv, PTL DEF Spec

\* Whatever requests fail, the tables that record who is in the organization and in
\* the group agree as long as requests do not overlap: members of the group are in
\* the organization, once, its maintainers are those who have the role, a deleted
\* group has nobody (MembershipRepo.Delete, GroupRepo), and the count kept with the
\* group is exact when no request failed and none is under way.
THEOREM MembershipsAreConsistent == Spec => []MembershipsConsistent
<1>1. IInv => MembershipsConsistent
  <2> SUFFICES ASSUME IInv PROVE MembershipsConsistent
    OBVIOUS
  <2>1. TypeOK
    <3>1. ASSUME NEW q \in Actor
          PROVE  req[q].pc \in Phase /\ req[q].op \in Operation /\ req[q].id \in 0 .. ids
      <4>1. req[q] \in ReqRec /\ req[q].id <= ids
        BY DEF IInv, ReqsInv, ReqInv, Bounded
      <4>2. ids \in Nat
        BY DEF IInv, TablesOK
      <4> QED BY <4>1, <4>2 DEF ReqRec
    <3> QED BY <3>1 DEF IInv, TablesOK, TypeOK, Phase
  <2>2. CountExact
    <3>1. ASSUME NEW q \in Actor, Ended(req[q].pc) PROVE ~Settling(req[q])
      BY <3>1 DEF Ended, Settling
    <3> QED BY <3>1 DEF IInv, CountInv, CountExact
  <2> QED BY <2>1, <2>2 DEF IInv, TablesOK, MembershipsConsistent
<1> QED BY <1>1, IInvHolds, PTL

\* Requests that do not overlap never take the last owner of an organization: no
\* removal, no change of role and no owner who leaves (Leave, DeleteOther,
\* UpdateRole), whatever failed before.
THEOREM OwnersAreKept == Spec => []OwnersKept
<1>1. IInv => OwnersKept
  BY DEF IInv
<1> QED BY <1>1, IInvHolds, PTL

\* Until an owner acts nobody becomes an owner, and only an owner who leaves ceases
\* to be one, in every interleaving of the requests of administrators, maintainers
\* and invited users (enforceManageOwners).
THEOREM NobodyEscalates == Spec => []NoEscalation
<1>1. IInv => NoEscalation
  BY DEF IInv, EscalationInv
<1> QED BY <1>1, IInvHolds, PTL

\* An accepted invitation has brought its receiver into the organization, and into
\* the group that it names, in every interleaving and whatever failed before
\* (AcceptPendingInvitations).
THEOREM AcceptedHaveJoined == Spec => []AcceptedJoined
<1>1. IInv => AcceptedJoined
  BY DEF IInv
<1> QED BY <1>1, IInvHolds, PTL
=============================================================================
