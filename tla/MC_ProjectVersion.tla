------------------------- MODULE MC_ProjectVersion -------------------------
(* Three version names and a few concurrent requests.                       *)
EXTENDS ProjectVersion

CONSTANTS va, vb, vc, t1, t2, t3, f1, f2

Attest(f, v, mark, block) ==
  [op |-> "attest", wf |-> f, v |-> v, useLatest |-> FALSE, require |-> FALSE,
   mark |-> mark, block |-> block]

MCOps ==
  {Attest(f1, vb, "unset", TRUE), Attest(f1, vb, "yes", FALSE),
   [Attest(f1, va, "yes", TRUE) EXCEPT !.require = TRUE],
   [Attest(f2, va, "unset", FALSE) EXCEPT !.useLatest = TRUE],
   [op |-> "promote", v |-> vb],
   [op |-> "workflow", v |-> vc],
   [op |-> "create", v |-> vc, prerelease |-> FALSE],
   [op |-> "release", v |-> vb, release |-> TRUE]}
=============================================================================
