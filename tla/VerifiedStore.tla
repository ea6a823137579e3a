--------------------------- MODULE VerifiedStore ---------------------------
(***************************************************************************)
(* What the artifact CAS promises its clients: every key has at most one   *)
(* object, written whole and verified in one step; an upload gets a        *)
(* receipt only for a key whose object is there or was lost lately; and a  *)
(* download is sent one whole verified object, the one the key has at that *)
(* moment.  Objects may be lost or spoilt from outside at any time.        *)
(* Nothing is said of caches, credentials, retries, staging or crashes:    *)
(* ArtifactCAS shows that they keep these promises.                        *)
(***************************************************************************)
CONSTANTS Key, Upload, Download, Nothing

VARIABLES content,  \* what each key has: none, good, bad or foreign bytes
          lost,     \* whether its object was lost: no, lately or long ago
          receipt,  \* the key that each upload was acknowledged for
          sending   \* the object that each download is sent

vars == <<content, lost, receipt, sending>>

Init ==
  /\ content = [k \in Key |-> "none"]
  /\ lost = [k \in Key |-> "no"]
  /\ receipt = [u \in Upload |-> Nothing]
  /\ sending = [w \in Download |-> Nothing]

Put(k) ==
  /\ content' = [content EXCEPT ![k] = "good"]
  /\ lost' = [lost EXCEPT ![k] = "no"]
  /\ UNCHANGED <<receipt, sending>>

\* An upload answers, whoever stored the object.
Acknowledge(u, k) ==
  /\ content[k] # "none" \/ lost[k] = "lately"
  /\ receipt' = [receipt EXCEPT ![u] = k]
  /\ UNCHANGED <<content, lost, sending>>

Forget(u) ==
  /\ receipt' = [receipt EXCEPT ![u] = Nothing]
  /\ UNCHANGED <<content, lost, sending>>

Send(w, k) ==
  /\ content[k] = "good"
  /\ sending' = [sending EXCEPT ![w] = [key |-> k, bytes |-> "good"]]
  /\ UNCHANGED <<content, lost, receipt>>

\* Downloads end, several at once if the server dies.
Close(W) ==
  /\ sending' = [w \in Download |-> IF w \in W THEN Nothing ELSE sending[w]]
  /\ UNCHANGED <<content, lost, receipt>>

Lose(k) ==
  /\ content[k] # "none"
  /\ content' = [content EXCEPT ![k] = "none"]
  /\ lost' = [lost EXCEPT ![k] = "lately"]
  /\ UNCHANGED <<receipt, sending>>

Spoil(k) ==
  /\ content[k] = "good"
  /\ \E c \in {"bad", "foreign"} : content' = [content EXCEPT ![k] = c]
  /\ UNCHANGED <<lost, receipt, sending>>

\* Time passes for some of the keys.
Age(S) ==
  /\ \A k \in S : lost[k] = "lately"
  /\ lost' = [k \in Key |-> IF k \in S THEN "long ago" ELSE lost[k]]
  /\ UNCHANGED <<content, receipt, sending>>

Next ==
  \/ \E k \in Key : Put(k) \/ Lose(k) \/ Spoil(k)
  \/ \E u \in Upload : Forget(u) \/ \E k \in Key : Acknowledge(u, k)
  \/ \E w \in Download, k \in Key : Send(w, k)
  \/ \E W \in SUBSET Download : Close(W)
  \/ \E S \in SUBSET Key : Age(S)

Spec == Init /\ [][Next]_vars
=============================================================================
