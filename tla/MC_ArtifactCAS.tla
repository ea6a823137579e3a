--------------------------- MODULE MC_ArtifactCAS ---------------------------
(* Concurrent uploads and a download of one digest in one backend.           *)
EXTENDS ArtifactCAS

CONSTANTS b1, u1, u2, w1, d1
=============================================================================
