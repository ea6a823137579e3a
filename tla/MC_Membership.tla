--------------------------- MODULE MC_Membership ---------------------------
(* An organization with an owner, another owner or administrator, and a user *)
(* who is a member of it or has to be invited.                               *)
EXTENDS Membership

CONSTANTS o1, a1, u1, q1, q2, q3

Do(kind, by, of) == [NoOp EXCEPT !.kind = kind, !.by = by, !.of = of]
As(op, role) == [op EXCEPT !.role = role]
Maintainer(op) == [op EXCEPT !.maintainer = TRUE]

MCOp ==
  {Do("remove", a1, o1), Do("remove", a1, u1), Do("remove", o1, a1),
   Do("leave", o1, o1), Do("leave", a1, a1),
   As(Do("role", a1, o1), "member"), As(Do("role", a1, u1), "owner"), As(Do("role", o1, o1), "member"),
   As(Do("invite", a1, u1), "owner"), Do("invite", a1, u1), Do("revoke", a1, u1),
   Maintainer(Do("add", a1, u1)), Do("add", a1, u1), Do("add", u1, a1),
   Do("drop", a1, u1), Do("drop", u1, u1),
   Maintainer(Do("maintainer", a1, u1)), Do("maintainer", u1, u1),
   Do("delete group", a1, a1)}

MCRole(a, u) == [x \in User |-> CASE x = o1 -> "owner" [] x = a1 -> a [] OTHER -> u]
MCInitial ==
  {[role |-> MCRole("admin", "none"), members |-> {}, maintainers |-> {}],
   [role |-> MCRole("owner", "member"), members |-> {u1}, maintainers |-> {}],
   [role |-> MCRole("admin", "member"), members |-> {}, maintainers |-> {}],
   [role |-> MCRole("admin", "member"), members |-> {a1, u1}, maintainers |-> {u1}]}
=============================================================================
