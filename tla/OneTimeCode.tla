---------------------------- MODULE OneTimeCode ----------------------------
(***************************************************************************)
(* What the handoff codes of a login promise: a code is issued once, on    *)
(* terms; its first presentation settles it in one step, and wins it only  *)
(* if it is on time and offers exactly the terms; a code that is won gives *)
(* one session or none.  Nothing is said of rows, clocks, concurrent       *)
(* exchanges or the sweeper: LoginHandoff shows that its conditional       *)
(* update and the query behind it implement this.                          *)
(***************************************************************************)
EXTENDS Naturals

CONSTANTS Code, Terms, None

VARIABLES phase,     \* unborn, fresh, then won or burnt, and at last session
          terms,     \* what each code was issued for
          taker,     \* the presentation that settled it
          sessions   \* sessions given for it

vars == <<phase, terms, taker, sessions>>

Init ==
  /\ phase = [c \in Code |-> "unborn"]
  /\ terms = [c \in Code |-> None]
  /\ taker = [c \in Code |-> None]
  /\ sessions = [c \in Code |-> 0]

Issue(c) ==
  /\ phase[c] = "unborn"
  /\ phase' = [phase EXCEPT ![c] = "fresh"]
  /\ \E t \in Terms : terms' = [terms EXCEPT ![c] = t]
  /\ UNCHANGED <<taker, sessions>>

\* The first presentation, whoever makes it and whatever it offers.
Settle(c) ==
  /\ phase[c] = "fresh"
  /\ \E t \in Terms, ontime \in BOOLEAN :
       /\ taker' = [taker EXCEPT ![c] = [offer |-> t, ontime |-> ontime]]
       /\ phase' = [phase EXCEPT ![c] = IF ontime /\ t = terms[c] THEN "won" ELSE "burnt"]
  /\ UNCHANGED <<terms, sessions>>

Grant(c) ==
  /\ phase[c] = "won"
  /\ phase' = [phase EXCEPT ![c] = "session"]
  /\ sessions' = [sessions EXCEPT ![c] = @ + 1]
  /\ UNCHANGED <<terms, taker>>

\* Codes that gave no session may be dropped at any time, and stay so.
Burn(S) ==
  /\ \A c \in S : phase[c] \in {"fresh", "won"}
  /\ phase' = [c \in Code |-> IF c \in S THEN "burnt" ELSE phase[c]]
  /\ UNCHANGED <<terms, taker, sessions>>

Next ==
  \/ \E c \in Code : Issue(c) \/ Settle(c) \/ Grant(c)
  \/ \E S \in SUBSET Code : Burn(S)

Spec == Init /\ [][Next]_vars
=============================================================================
