-------------------------- MODULE MC_CraftingState --------------------------
(* A small instance: one init, three commands, two material names.          *)
EXTENDS CraftingState

CONSTANTS init, p1, p2, p3, t1, t2, sbom, sarif

MCTokenOf == [p \in Proc |-> IF p = p3 THEN t2 ELSE t1]
MCSameToken == [p \in Proc |-> t1]

Add(b, named, auto) ==
  [op |-> "add", base |-> b, named |-> named, auto |-> auto, kinds |-> 2,
   input |-> FALSE]

\* The process with another token finds a state it cannot read, whatever its
\* command: it adds or resets.
MCCommands ==
  LET shared == {Add(sbom, TRUE, FALSE), Add(sarif, TRUE, TRUE),
                 [op |-> "archive", base |-> sbom], [op |-> "push"], [op |-> "reset"]}
  IN  [p \in Proc |->
         CASE p = p1 -> shared \cup {[Add(sarif, FALSE, FALSE) EXCEPT !.input = TRUE]}
           [] p = p3 -> {Add(sbom, TRUE, FALSE), [op |-> "reset"]}
           [] OTHER -> shared]

MCAutoAdd == [p \in Proc |-> {Add(sarif, FALSE, TRUE)}]
=============================================================================
