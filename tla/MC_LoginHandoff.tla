-------------------------- MODULE MC_LoginHandoff --------------------------
(* One code, which two clients present over and over, with a right and a    *)
(* wrong verifier, a right and a wrong callback, before and after it        *)
(* expires.                                                                 *)
EXTENDS LoginHandoff

CONSTANTS c1, u1, v1, v2, cli, web, r1, r2
=============================================================================
