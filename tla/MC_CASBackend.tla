---------------------------- MODULE MC_CASBackend ----------------------------
(* An inline, a managed and two user backends, two concurrent requests.      *)
EXTENDS CASBackend

CONSTANTS inline, managed, b1, b2, q1, q2

Create(b, default, fallback) ==
  [op |-> "create", b |-> b, default |-> default, fallback |-> fallback]
Update(b, default, fallback, creds) ==
  [op |-> "update", b |-> b, default |-> default, fallback |-> fallback, creds |-> creds]
Plain(op, b) == [op |-> op, b |-> b]

\* What administrators may do to two user backends and must not do to the others,
\* validations and lookups.
MCOps ==
  {Create(b1, "yes", "no"), Create(b2, "no", "yes"),
   Update(b1, "no", "yes", FALSE), Update(b2, "yes", "unset", FALSE),
   Update(b1, "unset", "unset", TRUE),
   Update(inline, "unset", "unset", TRUE), Update(managed, "yes", "unset", FALSE),
   Plain("delete", b1), Plain("delete", inline), Plain("validate", b1),
   Plain("find", inline), Plain("creds", b1)}
=============================================================================
