---------------------------- MODULE MC_APIToken ----------------------------
(* Two organizations, a project of each and a product; one token          *)
(* minted before the scope claims. *)
EXTENDS APIToken

CONSTANTS t1, t2, o1, o2, p1, p2, q1, r1, r2

MCOrgOf == [x \in {p1, p2, q1} |-> IF x = p2 THEN o2 ELSE o1]
MCLegacyShape == {OrgShape(o1), ProjectShape(p1), InstanceShape}
MCRewrites ==
  {OrgShape(o2), ProjectShape(p2),
   [scope |-> None, id |-> None, org |-> o1, project |-> None]}

\* Both requests may carry a token, one may be an administrator's.
MCCalls ==
  [r \in Request |->
     IF r = r1 THEN {c \in Call : c.by = "token"} ELSE Call]
=============================================================================
