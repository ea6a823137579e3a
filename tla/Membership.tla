----------------------------- MODULE Membership -----------------------------
(***************************************************************************)
(* Who belongs to an organization and to one of its groups: memberships,   *)
(* roles, group memberships with their maintainers, and invitations, which *)
(* are accepted by the next login of their receiver.                       *)
(*                                                                         *)
(* Every request reads and decides first and writes later, in statements   *)
(* or transactions of their own.  A transaction that decides on what it    *)
(* reads is two steps, since nothing is locked between its read and its    *)
(* writes; its writes are one step.  Any request may fail between two      *)
(* steps.  A login that fails is no login: the user tries again.           *)
(***************************************************************************)
EXTENDS Integers, FiniteSets

CONSTANTS
  User,
  Request,    \* API requests, each of which is made once
  Session,    \* the users that log in, again and again
  Op,         \* the operations that the requests may be
  Initial,    \* the organizations to begin with: each has an owner, and a group of
              \* some of its members
  MaxFaults   \* bound: requests that fail half way

Role == {"owner", "admin", "member"}    \* "member": every other role
Kind == {"remove", "leave", "role", "invite", "revoke", "add", "drop", "maintainer",
         "delete group", "login", "none"}

Operation == [kind : Kind, by : User, of : User, role : Role, maintainer : BOOLEAN]

ASSUME ConstantsAssumption ==
  /\ Session \subseteq User
  /\ Session \cap Request = {}
  /\ Op \subseteq {o \in Operation : o.kind \notin {"login", "none"}}
  /\ Initial \subseteq [role : [User -> Role \cup {"none"}], members : SUBSET User,
                        maintainers : SUBSET User]
  /\ \A i \in Initial :
       /\ \E u \in User : i.role[u] = "owner"
       /\ i.maintainers \subseteq i.members
       /\ \A u \in i.members : i.role[u] # "none"
       /\ IsFiniteSet(i.members)
  /\ MaxFaults \in Nat

VARIABLES
  org,        \* the role of each user and the id of its row
  gm,         \* live group memberships
  mrow,       \* users with a maintainer row of the group among the memberships
  group,      \* whether the group is live
  count,      \* the member count kept with the group
  inv,        \* invitations that were not deleted
  req,        \* requests and logins
  ids,        \* last id given to a row
  ever,       \* history: who has ever been in the organization, in the group, and
              \* who was an owner at the beginning
  left,       \* history: who left the organization
  acted,      \* history: an owner began to change, remove or invite somebody
  serial,     \* history: no two requests have overlapped
  faults

vars == <<org, gm, mrow, group, count, inv, req, ids, ever, left, acted, serial, faults>>
ghosts == <<ever, left, acted, serial>>

Actor == Request \cup Session
NoRow == [role |-> "none", id |-> 0]
NoOp == [kind |-> "none", by |-> CHOOSE u \in User : TRUE, of |-> CHOOSE u \in User : TRUE,
         role |-> "member", maintainer |-> FALSE]
NoInvitation == [id |-> 0, user |-> CHOOSE u \in User : TRUE, role |-> "member",
                 group |-> FALSE, maintainer |-> FALSE, status |-> "accepted"]
Idle == [pc |-> "idle", op |-> NoOp, as |-> "none", id |-> 0, flag |-> FALSE, n |-> 0,
         todo |-> {}, cur |-> NoInvitation]

Init ==
  /\ \E i \in Initial :
       /\ org = [u \in User |-> [role |-> i.role[u], id |-> 0]]
       /\ gm = {[id |-> 0, user |-> u, maintainer |-> u \in i.maintainers] : u \in i.members}
       /\ mrow = i.maintainers
       /\ count = Cardinality(i.members)
       /\ ever = {<<u, "org">> : u \in {v \in User : i.role[v] # "none"}}
                   \cup {<<u, "group">> : u \in i.members}
                   \cup {<<u, "owner">> : u \in {v \in User : i.role[v] = "owner"}}
  /\ group = TRUE
  /\ inv = {}
  /\ req = [q \in Actor |-> Idle]
  /\ ids = 0
  /\ left = {} /\ acted = FALSE /\ serial = TRUE
  /\ faults = 0

-----------------------------------------------------------------------------
IsAdmin(role) == role \in {"owner", "admin"}
Member(u) == org[u].role # "none"
Owners == {u \in User : org[u].role = "owner"}
RowsOf(u) == {r \in gm : r.user = u}
PendingOf(u) == {i \in inv : i.user = u /\ i.status = "pending"}

Ended(pc) == pc \in {"idle", "done", "failed"}
At(q, pc, kinds) == req[q].pc = pc /\ req[q].op.kind \in kinds
Go(q, pc) == req' = [req EXCEPT ![q].pc = pc]
End(q, pc) == req' = [req EXCEPT ![q] = [Idle EXCEPT !.pc = pc]]
GoOn(q, ok, pc) == IF ok THEN Go(q, pc) ELSE End(q, "failed")

\* Whose membership of the organization or the group a request is about.
Subject(q) == IF req[q].op.kind \in {"leave", "login"} THEN req[q].op.by ELSE req[q].op.of

\* The middleware lets administrators manage the organization; GroupService asks
\* for an administrator or a maintainer of the group.
Authorized(o) ==
  CASE o.kind \in {"remove", "role", "invite", "revoke", "delete group"} -> IsAdmin(org[o.by].role)
    [] o.kind \in {"add", "drop", "maintainer"} -> Member(o.by) /\ (IsAdmin(org[o.by].role) \/ o.by \in mrow)
    [] OTHER -> o.kind = "login" \/ Member(o.by)

Began(q, o) ==
  /\ req' = [req EXCEPT ![q] = [Idle EXCEPT !.pc = "check", !.op = o, !.as = org[o.by].role]]
  /\ serial' = (serial /\ \A p \in Actor \ {q} : Ended(req[p].pc))
  /\ acted' = (acted \/ (org[o.by].role = "owner" /\ o.kind \in {"remove", "role", "invite"}))
  /\ UNCHANGED <<org, gm, mrow, group, count, inv, ids, ever, left, faults>>

\* A request carries the role that its caller had when it began.
Begin(q) ==
  /\ q \in Request /\ req[q].pc = "idle"
  /\ \E o \in Op : Authorized(o) /\ Began(q, o)

\* A user logs in with the identity provider.
Login(q) ==
  /\ q \in Session /\ Ended(req[q].pc)
  /\ Began(q, [NoOp EXCEPT !.kind = "login", !.by = q])

-----------------------------------------------------------------------------
\* MembershipUseCase.

\* enforceManageOwners.
ManageOwners(q) == req[q].as = "owner"

\* DeleteOther.
MayRemove(q) ==
  LET o == req[q].op IN
  /\ Member(o.of) /\ o.of # o.by
  /\ org[o.of].role = "owner" => ManageOwners(q)

\* Mutant: users may change their own role.
MaySetRoleOwn(q) ==
  LET o == req[q].op IN
  /\ Member(o.of)
  /\ "owner" \in {org[o.of].role, o.role} => ManageOwners(q)
\* UpdateRole.
MaySetRole(q) ==
  LET o == req[q].op IN
  /\ Member(o.of) /\ o.of # o.by
  /\ "owner" \in {org[o.of].role, o.role} => ManageOwners(q)

\* Leave, isUserSoleOwner.
MayLeave(q) == Member(req[q].op.by) /\ Owners # {req[q].op.by}

CheckMembership(q) ==
  /\ At(q, "check", {"remove", "leave", "role"})
  /\ LET kind == req[q].op.kind
         ok == CASE kind = "remove" -> MayRemove(q)
                 [] kind = "role" -> MaySetRole(q)
                 [] OTHER -> MayLeave(q)
     IN  IF ok THEN req' = [req EXCEPT ![q].pc = "write", ![q].id = org[Subject(q)].id]
         ELSE End(q, "failed")
  /\ UNCHANGED <<org, gm, mrow, group, count, inv, ids, ghosts, faults>>

SameRow(q) == Member(Subject(q)) /\ org[Subject(q)].id = req[q].id

\* MembershipRepo.Delete: the other memberships of the user in the organization
\* and its group memberships go too.  A row that is gone when Delete fetches it is
\* no error; one that goes between the fetch and the transaction is.
DeletedRows(u) == gm \ RowsOf(u)

DeleteMembership(q) ==
  /\ At(q, "write", {"remove", "leave"})
  /\ LET u == Subject(q) IN
     IF SameRow(q)
     THEN /\ org' = [org EXCEPT ![u] = NoRow]
          /\ mrow' = mrow \ {u}
          /\ gm' = DeletedRows(u)
          /\ left' = IF req[q].op.kind = "leave" THEN left \cup {u} ELSE left
          /\ IF RowsOf(u) # {} THEN Go(q, "count") ELSE End(q, "done")
     ELSE /\ End(q, "done") \/ End(q, "failed")
          /\ UNCHANGED <<org, mrow, gm, left>>
  /\ UNCHANGED <<group, count, inv, ids, ever, acted, serial, faults>>

SetRole(q) ==
  /\ At(q, "write", {"role"})
  /\ IF SameRow(q)
     THEN org' = [org EXCEPT ![Subject(q)].role = req[q].op.role] /\ End(q, "done")
     ELSE End(q, "failed") /\ UNCHANGED org
  /\ UNCHANGED <<gm, mrow, group, count, inv, ids, ghosts, faults>>

-----------------------------------------------------------------------------
\* OrgInvitationUseCase.

\* Mutant: administrators may invite owners.
MayInviteAny(q) ==
  LET o == req[q].op IN o.of # o.by /\ ~Member(o.of) /\ PendingOf(o.of) = {}
\* Create: only owners invite owners; the receiver is somebody else, who is not in
\* the organization and has no pending invitation.
MayInvite(q) ==
  LET o == req[q].op IN
  /\ o.role = "owner" => ManageOwners(q)
  /\ o.of # o.by /\ ~Member(o.of) /\ PendingOf(o.of) = {}

CheckInvite(q) ==
  /\ At(q, "check", {"invite"})
  /\ GoOn(q, MayInvite(q), "create")
  /\ UNCHANGED <<org, gm, mrow, group, count, inv, ids, ghosts, faults>>

\* An invitation from AddMember is one to the organization and to the group.
CreateInvitation(q) ==
  /\ At(q, "create", {"invite", "add"})
  /\ LET o == req[q].op IN
     inv' = inv \cup {[id |-> ids + 1, user |-> o.of, status |-> "pending",
                       role |-> IF o.kind = "add" THEN "member" ELSE o.role,
                       group |-> o.kind = "add", maintainer |-> o.kind = "add" /\ o.maintainer]}
  /\ ids' = ids + 1
  /\ End(q, "done")
  /\ UNCHANGED <<org, gm, mrow, group, count, ghosts, faults>>

\* Revoke: a pending invitation is looked up, and soft-deleted by its id.
CheckRevoke(q) ==
  /\ At(q, "check", {"revoke"})
  /\ \/ \E i \in PendingOf(req[q].op.of) : req' = [req EXCEPT ![q].pc = "write", ![q].id = i.id]
     \/ PendingOf(req[q].op.of) = {} /\ End(q, "failed")
  /\ UNCHANGED <<org, gm, mrow, group, count, inv, ids, ghosts, faults>>

Revoke(q) ==
  /\ At(q, "write", {"revoke"})
  /\ inv' = {i \in inv : i.id # req[q].id}
  /\ End(q, "done")
  /\ UNCHANGED <<org, gm, mrow, group, count, ids, ghosts, faults>>

\* AcceptPendingInvitations: the memberships of the user are read once (flag) ...
FindMemberships(q) ==
  /\ At(q, "check", {"login"})
  /\ req' = [req EXCEPT ![q].pc = "invitations", ![q].flag = Member(q)]
  /\ UNCHANGED <<org, gm, mrow, group, count, inv, ids, ghosts, faults>>

\* ... then the pending invitations ...
FindInvitations(q) ==
  /\ At(q, "invitations", {"login"})
  /\ req' = [req EXCEPT ![q].pc = "next", ![q].todo = PendingOf(q)]
  /\ UNCHANGED <<org, gm, mrow, group, count, inv, ids, ghosts, faults>>

\* ... and the user joins for one after the other.  The row of the organization is
\* unique: a second invitation, or another login, fails on it.
Join(q) ==
  /\ At(q, "next", {"login"})
  /\ \/ /\ req[q].todo = {} \/ (~req[q].flag /\ Member(q))
        /\ End(q, IF req[q].todo = {} THEN "done" ELSE "failed")
        /\ UNCHANGED <<org, ids, ever>>
     \/ \E i \in req[q].todo :
          /\ \/ req[q].flag /\ UNCHANGED <<org, ids, ever>>
             \/ /\ ~req[q].flag /\ ~Member(q)
                /\ org' = [org EXCEPT ![q] = [role |-> i.role, id |-> ids + 1]]
                /\ ids' = ids + 1
                /\ ever' = ever \cup {<<q, "org">>}
          /\ req' = [req EXCEPT ![q].todo = @ \ {i}, ![q].cur = i,
                                ![q].pc = IF i.group THEN "find group" ELSE "accept"]
  /\ UNCHANGED <<gm, mrow, group, count, inv, left, acted, serial, faults>>

\* Mutant: a group that was deleted is skipped.
FindGroupSkips(q) ==
  /\ At(q, "find group", {"login"})
  /\ Go(q, IF group THEN "add read" ELSE "accept")
  /\ UNCHANGED <<org, gm, mrow, group, count, inv, ids, ghosts, faults>>

\* processGroupMembership: a group that was deleted is an error.
FindGroup(q) ==
  /\ At(q, "find group", {"login"})
  /\ GoOn(q, group, "add read")
  /\ UNCHANGED <<org, gm, mrow, group, count, inv, ids, ghosts, faults>>

ChangeStatus(q) ==
  /\ At(q, "accept", {"login"})
  /\ inv' = {IF i.id = req[q].cur.id THEN [i EXCEPT !.status = "accepted"] ELSE i : i \in inv}
  /\ req' = [req EXCEPT ![q].pc = "next", ![q].cur = NoInvitation]
  /\ UNCHANGED <<org, gm, mrow, group, count, ids, ghosts, faults>>

-----------------------------------------------------------------------------
\* GroupUseCase and GroupRepo.

\* validateRequesterPermissions, with the roles of the moment.
RequesterMay(q) ==
  LET u == req[q].op.by IN Member(u) /\ (IsAdmin(org[u].role) \/ u \in mrow)

\* AddMemberToGroup adds a member of the organization, or invites somebody else
\* if the requester is an administrator.
CheckAdd(q) ==
  /\ At(q, "check", {"add"})
  /\ LET u == req[q].op.of
         ok == group /\ RequesterMay(q)
     IN  IF Member(u) THEN GoOn(q, ok /\ RowsOf(u) = {}, "add read")
         ELSE GoOn(q, ok /\ PendingOf(u) = {} /\ IsAdmin(org[req[q].op.by].role), "create")
  /\ UNCHANGED <<org, gm, mrow, group, count, inv, ids, ghosts, faults>>

\* Mutant: a login takes a member of the group for an error.
AlreadyMemberFails(q) == End(q, "failed")
\* A user who is in the group already is an error, which a login ignores.
AlreadyMember(q) == IF q \in Session THEN Go(q, "accept") ELSE End(q, "failed")

\* GroupRepo.AddMemberToGroup: the transaction looks for a live row ...
AddRead(q) ==
  /\ At(q, "add read", {"add", "login"})
  /\ IF RowsOf(Subject(q)) # {} THEN AlreadyMember(q) ELSE Go(q, "add write")
  /\ UNCHANGED <<org, gm, mrow, group, count, inv, ids, ghosts, faults>>

\* ... and creates one, with a maintainer row; both are unique for the user, and a
\* row that another transaction created since makes this one fail.
AddWrite(q) ==
  /\ At(q, "add write", {"add", "login"})
  /\ LET u == Subject(q)
         m == IF q \in Session THEN req[q].cur.maintainer ELSE req[q].op.maintainer
     IN  IF RowsOf(u) # {} \/ (m /\ u \in mrow)
         THEN End(q, "failed") /\ UNCHANGED <<gm, mrow, ids, ever>>
         ELSE /\ gm' = gm \cup {[id |-> ids + 1, user |-> u, maintainer |-> m]}
              /\ mrow' = IF m THEN mrow \cup {u} ELSE mrow
              /\ ids' = ids + 1
              /\ ever' = ever \cup {<<u, "group">>}
              /\ Go(q, "count")
  /\ UNCHANGED <<org, group, count, inv, left, acted, serial, faults>>

\* UpdateGroupMemberCount counts the live rows, and writes the number.
CountMembers(q) ==
  /\ req[q].pc = "count"
  /\ req' = [req EXCEPT ![q].pc = "set count", ![q].n = Cardinality(gm)]
  /\ UNCHANGED <<org, gm, mrow, group, count, inv, ids, ghosts, faults>>

SetMemberCount(q) ==
  /\ req[q].pc = "set count"
  /\ count' = req[q].n
  /\ IF q \in Session THEN req' = [req EXCEPT ![q].pc = "accept", ![q].n = 0] ELSE End(q, "done")
  /\ UNCHANGED <<org, gm, mrow, group, inv, ids, ghosts, faults>>

\* RemoveMemberFromGroup and UpdateMemberMaintainerStatus.
CheckGroupMember(q) ==
  /\ At(q, "check", {"drop", "maintainer"})
  /\ GoOn(q, group /\ RequesterMay(q) /\ Member(req[q].op.of) /\ RowsOf(req[q].op.of) # {}, "read")
  /\ UNCHANGED <<org, gm, mrow, group, count, inv, ids, ghosts, faults>>

\* The transaction reads the row of the user, of which there must be one.
ReadGroupMember(q) ==
  /\ At(q, "read", {"drop", "maintainer"})
  /\ LET rows == RowsOf(req[q].op.of) IN
     \/ Cardinality(rows) # 1 /\ End(q, "failed")
     \/ /\ Cardinality(rows) = 1
        /\ \E r \in rows :
             IF req[q].op.kind = "maintainer" /\ r.maintainer = req[q].op.maintainer
             THEN End(q, "done")
             ELSE req' = [req EXCEPT ![q].pc = "write", ![q].id = r.id, ![q].flag = r.maintainer]
  /\ UNCHANGED <<org, gm, mrow, group, count, inv, ids, ghosts, faults>>

ReadRow(q, r) == r.user = req[q].op.of /\ r.id = req[q].id

\* Mutant: the maintainer row stays.
MaintainersLeft(q) == mrow
\* The maintainer row goes if the row that was read says maintainer.
MaintainersAfter(q) == IF req[q].flag THEN mrow \ {req[q].op.of} ELSE mrow

DropMember(q) ==
  /\ At(q, "write", {"drop"})
  /\ gm' = {r \in gm : ~ReadRow(q, r)}
  /\ mrow' = MaintainersAfter(q)
  /\ Go(q, "count")
  /\ UNCHANGED <<org, group, count, inv, ids, ghosts, faults>>

SetMaintainer(q) ==
  /\ At(q, "write", {"maintainer"})
  /\ LET o == req[q].op IN
     /\ gm' = {IF ReadRow(q, r) THEN [r EXCEPT !.maintainer = o.maintainer] ELSE r : r \in gm}
     /\ mrow' = IF o.maintainer THEN mrow \cup {o.of} ELSE mrow \ {o.of}
  /\ End(q, "done")
  /\ UNCHANGED <<org, group, count, inv, ids, ghosts, faults>>

\* Delete and SoftDelete: the group, its members, its memberships and the pending
\* invitations to it.
DeleteGroup(q) ==
  /\ At(q, "check", {"delete group"})
  /\ IF group
     THEN /\ group' = FALSE /\ gm' = {} /\ mrow' = {}
          /\ inv' = {i \in inv : ~(i.group /\ i.status = "pending")}
          /\ End(q, "done")
     ELSE End(q, "failed") /\ UNCHANGED <<group, gm, mrow, inv>>
  /\ UNCHANGED <<org, count, ids, ghosts, faults>>

-----------------------------------------------------------------------------
\* A statement fails, or the server dies: an open transaction is rolled back.
Fail(q) ==
  /\ ~Ended(req[q].pc) /\ faults < MaxFaults
  /\ faults' = faults + 1
  /\ End(q, "failed")
  /\ UNCHANGED <<org, gm, mrow, group, count, inv, ids, ghosts>>

Step(q) ==
  \/ CheckMembership(q) \/ DeleteMembership(q) \/ SetRole(q)
  \/ CheckInvite(q) \/ CreateInvitation(q) \/ CheckRevoke(q) \/ Revoke(q)
  \/ FindMemberships(q) \/ FindInvitations(q) \/ Join(q) \/ FindGroup(q) \/ ChangeStatus(q)
  \/ CheckAdd(q) \/ AddRead(q) \/ AddWrite(q) \/ CountMembers(q) \/ SetMemberCount(q)
  \/ CheckGroupMember(q) \/ ReadGroupMember(q) \/ DropMember(q) \/ SetMaintainer(q)
  \/ DeleteGroup(q)

Next == \E q \in Actor : Begin(q) \/ Login(q) \/ Step(q) \/ Fail(q)

Spec == Init /\ [][Next]_vars

\* A request that began runs on, and users keep logging in.
FairSpec == Spec /\ \A q \in Actor : WF_vars(Step(q)) /\ WF_vars(Login(q))

-----------------------------------------------------------------------------
\* Every variable keeps its type; ids are unique among the rows of a user.
TypeOK ==
  /\ org \in [User -> [role : Role \cup {"none"}, id : 0 .. ids]]
  /\ gm \subseteq [id : 0 .. ids, user : User, maintainer : BOOLEAN]
  /\ mrow \subseteq User
  /\ group \in BOOLEAN
  /\ count \in Nat
  /\ inv \subseteq [id : 1 .. ids, user : User, role : Role, group : BOOLEAN,
                    maintainer : BOOLEAN, status : {"pending", "accepted"}]
  /\ \A q \in Actor :
       /\ req[q].pc \in {"idle", "check", "write", "create", "invitations", "next", "find group",
                         "add read", "add write", "count", "set count", "read", "accept",
                         "done", "failed"}
       /\ req[q].op \in Operation
       /\ req[q].id \in 0 .. ids
  /\ ids \in Nat
  /\ faults \in 0 .. MaxFaults

\* An organization keeps an owner as long as requests do not overlap: neither
\* removals, role changes nor owners who leave take the last one (Leave, DeleteOther,
\* UpdateRole).
OwnersKept == serial => Owners # {}

\* Nobody becomes or ceases to be an owner through others than owners: until an
\* owner acts, the owners are the ones of the beginning but for those who left,
\* whatever administrators, maintainers and invited users do, in any order and
\* however their requests overlap (enforceManageOwners).
NoEscalation == ~acted => Owners = {u \in User : <<u, "owner">> \in ever} \ left

\* A group and the memberships agree as long as requests do not overlap, after
\* failures too: members of the group are in the organization, once, and those who
\* have the maintainer role are its maintainers; a deleted group has neither.
GroupConsistent ==
  serial =>
    /\ \A r \in gm : Member(r.user) /\ RowsOf(r.user) = {r}
    /\ mrow = {r.user : r \in {s \in gm : s.maintainer}}
    /\ ~group => gm = {} /\ mrow = {}

\* Nobody is in the group twice, however requests overlap: of two transactions that
\* both found no row of the user, one fails (the unique index of group_memberships).
OneRow == \A r, s \in gm : r.user = s.user => r = s

\* The member count of a group is exact once requests that do not overlap and do
\* not fail have ended (UpdateGroupMemberCount).
CountExact ==
  serial /\ faults = 0 /\ group /\ (\A q \in Actor : Ended(req[q].pc)) => count = Cardinality(gm)

\* An accepted invitation has done what it said: its receiver joined the
\* organization, and the group if it names one, whatever failed before and whatever
\* else happened meanwhile (AcceptPendingInvitations).
AcceptedJoined ==
  \A i \in inv : i.status = "accepted" =>
    <<i.user, "org">> \in ever /\ (i.group => <<i.user, "group">> \in ever)

\* A login that fails half way is repeated with success: as long as requests do not
\* overlap, no invitation stays pending for ever, which would keep its receiver from
\* logging in (AcceptPendingInvitations and its caller, callback).
InvitationsSettle ==
  \A u \in Session : (PendingOf(u) # {}) ~> (PendingOf(u) = {} \/ ~serial)

\* The tables that record who is in the organization and in the group agree as
\* long as requests do not overlap, and nobody is ever twice in the group.
MembershipsConsistent == TypeOK /\ OneRow /\ GroupConsistent /\ CountExact
=============================================================================
