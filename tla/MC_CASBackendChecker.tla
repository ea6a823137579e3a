------------------------ MODULE MC_CASBackendChecker ------------------------
(* Two replicas check the default backend, one of them all backends.         *)
EXTENDS CASBackendChecker

CONSTANTS b1, b2, c1, c2, c3

MCScopeOf == [c \in Checker |-> IF c = c3 THEN "all" ELSE "defaults"]
MCListed == [s \in Scope |-> IF s = "all" THEN CheckedBackend ELSE {b1}]
=============================================================================
