--------------------------- MODULE MC_WorkflowRun ---------------------------
(* Two runs of one version and three Store requests.                        *)
EXTENDS WorkflowRun

CONSTANTS r1, r2, v1, s1, s2, s3

MCVersionOf == [r \in Run |-> v1]
MCRunOf == [s \in Request |-> IF s = s3 THEN r2 ELSE r1]
MCDepends == [s \in Request |-> IF s = s3 THEN {s1} ELSE {}]
MCNoDepends == [s \in Request |-> {}]

\* The first run keeps its bundle in the DB, the second one in the CAS.
MCModeDB == [r \in Run |-> IF r = r1 THEN "db" ELSE "cas"]
\* The other way round, with an inline backend.
MCModeCAS == [r \in Run |-> IF r = r1 THEN "cas" ELSE "inline"]
=============================================================================
