-------------------------- MODULE MC_TokenSweeper --------------------------
(* An organization with two tokens, and two requests that use them.         *)
EXTENDS TokenSweeper

CONSTANTS t1, t2, o1, o2, r1, r2, s1, s2

MCOwnerOf == [t \in SweptToken |-> o1]
=============================================================================
