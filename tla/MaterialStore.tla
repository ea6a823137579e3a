--------------------------- MODULE MaterialStore ---------------------------
(***************************************************************************)
(* What the remote crafting state promises the CLI processes that share    *)
(* one attestation: a set of materials, at most one per name, on which     *)
(* every save acts as one atomic step applied to the CURRENT set.  A save  *)
(* puts materials over the set (overriding those of the same names), and   *)
(* the set is created once and dropped once.  Nothing is said of digests,  *)
(* copies held by clients, conflicts or retries: CraftingState shows that  *)
(* optimistic concurrency control implements this.                         *)
(***************************************************************************)

VARIABLE content   \* unborn, then live with a set of materials, then gone

\* Materials put over a set replace those of the same names.
Put(mats, new) ==
  {m \in mats : \A n \in new : n.name # m.name} \cup new

Distinct(mats) == \A m, n \in mats : m.name = n.name => m = n

Init == content = [phase |-> "unborn", mats |-> {}]

Create == /\ content.phase = "unborn"
          /\ content' = [phase |-> "live", mats |-> {}]

\* Some materials are put, at once, over the materials of this moment.
Update == /\ content.phase = "live" /\ content'.phase = "live"
          /\ content'.mats = Put(content.mats, content'.mats \ content.mats)
          /\ Distinct(content'.mats)

Drop == /\ content.phase \in {"unborn", "live"}
        /\ content' = [phase |-> "gone", mats |-> {}]

Next == Create \/ Update \/ Drop

Spec == Init /\ [][Next]_content
=============================================================================
