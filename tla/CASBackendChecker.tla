------------------------- MODULE CASBackendChecker -------------------------
(***************************************************************************)
(* The periodic check of CAS backends (CASBackendChecker.checkBackends) on *)
(* several replicas of the control plane.  Every replica runs one checker  *)
(* per scope (default and fallback backends, and all of them); a session   *)
(* advisory lock of PostgreSQL per scope keeps the replicas from checking  *)
(* at the same time, as long as the session lives: a checker never asks    *)
(* again whether it still holds the lock, and goes on when its session is  *)
(* lost.  A validation runs with a context of its own, inside the context  *)
(* of the tick; but the provider's call takes no context: it returns when  *)
(* it returns, and the result is recorded only if both contexts are still  *)
(* alive then.                                                             *)
(***************************************************************************)
EXTENDS Naturals, FiniteSets

CONSTANTS
  CheckedBackend,
  Checker,        \* one per replica and scope
  Scope,
  ScopeOf,        \* the scope of each checker
  Listed,         \* the backends that ListBackends returns for each scope
  Health,         \* how a backend may behave: "ok", "bad", "slow" (answers after
                  \* the validation timeout), "stuck" (does not answer at all)
  Nil,
  MaxTickFaults   \* bound: crashes, lost sessions, failed queries and unlocks, and
                  \* ticks that take too long

VARIABLES
  status,   \* validation status of each backend
  health,   \* how each backend behaves now
  holder,   \* whose session holds the advisory lock of each scope
  chk,      \* local state of each checker
  tickFaults

checkerVars == <<status, health, holder, chk, tickFaults>>

ASSUME CheckerAssumption ==
  /\ ScopeOf \in [Checker -> Scope]
  /\ Listed \in [Scope -> SUBSET CheckedBackend]
  /\ Health \subseteq {"ok", "bad", "slow", "stuck"}
  /\ "ok" \in Health
  /\ Nil \notin Checker \cup CheckedBackend
  /\ MaxTickFaults \in Nat

\* todo: backends still to validate; at: the one being validated; seen: how it
\* behaved when the provider was called; late: the context of the tick is over;
\* lost: the session that took the lock of this tick is gone; kept: an unlock
\* failed, and a connection in the replica's pool still holds the lock.
Asleep == [pc |-> "sleep", todo |-> {}, at |-> Nil, seen |-> "ok", late |-> FALSE,
           lost |-> FALSE, kept |-> FALSE]

CheckerInit ==
  /\ status = [b \in CheckedBackend |-> "OK"]
  /\ health \in [CheckedBackend -> Health]
  /\ holder = [s \in Scope |-> Nil]
  /\ chk = [c \in Checker |-> Asleep]
  /\ tickFaults = 0

-----------------------------------------------------------------------------
\* A tick: pg_try_advisory_lock; a checker that does not get it skips the tick.
TryAcquire(c) ==
  /\ chk[c].pc = "sleep"
  /\ holder[ScopeOf[c]] = Nil
  /\ holder' = [holder EXCEPT ![ScopeOf[c]] = c]
  /\ chk' = [chk EXCEPT ![c].pc = "list"]
  /\ UNCHANGED <<status, health, tickFaults>>

\* The pool hands out the very connection that kept the lock: its session may
\* take it once more.
Reacquire(c) ==
  /\ chk[c].pc = "sleep" /\ chk[c].kept
  /\ chk' = [chk EXCEPT ![c].pc = "list"]
  /\ UNCHANGED <<status, health, holder, tickFaults>>

\* The query fails if the context of the tick is over.
ListBackends(c) ==
  /\ chk[c].pc = "list"
  /\ chk' = [chk EXCEPT ![c].pc = "next",
                        ![c].todo = IF chk[c].late THEN {} ELSE Listed[ScopeOf[c]]]
  /\ UNCHANGED <<status, health, holder, tickFaults>>

\* PerformValidation of the next backend calls the provider, unless the context
\* of the tick is over.
Validate(c) ==
  /\ chk[c].pc = "next"
  /\ \E b \in chk[c].todo :
       chk' = IF chk[c].late THEN [chk EXCEPT ![c].todo = @ \ {b}]
              ELSE [chk EXCEPT ![c].todo = @ \ {b}, ![c].pc = "call",
                               ![c].at = b, ![c].seen = health[b]]
  /\ UNCHANGED <<status, health, holder, tickFaults>>

\* Mutant of Record: only failures are recorded.
RecordFailure(c) ==
  /\ chk[c].pc = "call" /\ chk[c].seen # "stuck"
  /\ status' = IF chk[c].late \/ chk[c].seen # "bad" THEN status
               ELSE [status EXCEPT ![chk[c].at] = "Invalid"]
  /\ chk' = [chk EXCEPT ![c].pc = "next", ![c].at = Nil, ![c].seen = "ok"]
  /\ UNCHANGED <<health, holder, tickFaults>>

\* The provider answers.  The deferred write of the result uses the context of
\* the validation: if that one is over, the result is lost.
Record(c) ==
  /\ chk[c].pc = "call" /\ chk[c].seen # "stuck"
  /\ status' = IF chk[c].late \/ chk[c].seen = "slow" THEN status
               ELSE [status EXCEPT ![chk[c].at] = IF chk[c].seen = "ok" THEN "OK" ELSE "Invalid"]
  /\ chk' = [chk EXCEPT ![c].pc = "next", ![c].at = Nil, ![c].seen = "ok"]
  /\ UNCHANGED <<health, holder, tickFaults>>

TickOver(c) == chk[c].pc = "next" /\ chk[c].todo = {}

\* Mutant of Release: the lock is given back by its key, from any session.
ReleaseByKey(c) ==
  /\ TickOver(c)
  /\ holder' = [holder EXCEPT ![ScopeOf[c]] = Nil]
  /\ chk' = [chk EXCEPT ![c] = Asleep]
  /\ UNCHANGED <<status, health, tickFaults>>

\* pg_advisory_unlock on the connection that took the lock.  If its session is
\* gone that fails, and takes the lock from nobody; if the session held the lock
\* once more than this tick took it, it still does.
Release(c) ==
  /\ TickOver(c)
  /\ holder' = IF chk[c].lost \/ chk[c].kept THEN holder
               ELSE [holder EXCEPT ![ScopeOf[c]] = Nil]
  /\ chk' = [chk EXCEPT ![c] = [Asleep EXCEPT !.kept = chk[c].kept]]
  /\ UNCHANGED <<status, health, tickFaults>>

-----------------------------------------------------------------------------
\* Faults.
Fault == tickFaults < MaxTickFaults /\ tickFaults' = tickFaults + 1

\* ListBackends fails: the deferred release is next.
ListFails(c) ==
  /\ chk[c].pc = "list"
  /\ Fault
  /\ chk' = [chk EXCEPT ![c].pc = "next"]
  /\ UNCHANGED <<status, health, holder>>

\* A query of PerformValidation fails: there is no result, or it is not recorded.
ValidationFails(c) ==
  /\ chk[c].pc = "call"
  /\ Fault
  /\ chk' = [chk EXCEPT ![c].pc = "next", ![c].at = Nil, ![c].seen = "ok"]
  /\ UNCHANGED <<status, health, holder>>

\* The unlock fails on a connection the driver finds no fault with: conn.Close()
\* only returns it to the pool, with the lock.
UnlockFails(c) ==
  /\ TickOver(c) /\ ~chk[c].lost
  /\ Fault
  /\ chk' = [chk EXCEPT ![c] = [Asleep EXCEPT !.kept = TRUE]]
  /\ UNCHANGED <<status, health, holder>>

\* The connection that holds the lock breaks: PostgreSQL gives the lock up, and
\* the tick goes on without it.
LoseSession(c) ==
  /\ chk[c].pc # "sleep" /\ ~chk[c].lost
  /\ Fault
  /\ holder' = [holder EXCEPT ![ScopeOf[c]] = Nil]
  /\ chk' = [chk EXCEPT ![c].lost = TRUE, ![c].kept = FALSE]
  /\ UNCHANGED <<status, health>>

\* The pool closes the idle connection that kept a lock, or the replica dies
\* between two ticks.
EndKeptSession(c) ==
  /\ chk[c].pc = "sleep" /\ chk[c].kept
  /\ holder' = [holder EXCEPT ![ScopeOf[c]] = Nil]
  /\ chk' = [chk EXCEPT ![c] = Asleep]
  /\ UNCHANGED <<status, health, tickFaults>>

\* The replica dies inside a tick: the lock goes with the session that holds it.
Crash(c) ==
  /\ chk[c].pc # "sleep"
  /\ Fault
  /\ holder' = IF chk[c].lost THEN holder ELSE [holder EXCEPT ![ScopeOf[c]] = Nil]
  /\ chk' = [chk EXCEPT ![c] = Asleep]
  /\ UNCHANGED <<status, health>>

\* The tick takes longer than defaultMaxTickDuration.
TickTimeout(c) ==
  /\ chk[c].pc # "sleep" /\ ~chk[c].late
  /\ Fault
  /\ chk' = [chk EXCEPT ![c].late = TRUE]
  /\ UNCHANGED <<status, health, holder>>

\* A backend breaks, slows down or recovers.
ChangeHealth(b) ==
  /\ \E h \in Health \ {health[b]} : health' = [health EXCEPT ![b] = h]
  /\ UNCHANGED <<status, holder, chk, tickFaults>>

-----------------------------------------------------------------------------
CheckerStep(c) ==
  TryAcquire(c) \/ ListBackends(c) \/ Validate(c) \/ Record(c) \/ Release(c)

CheckerNext ==
  \/ \E c \in Checker :
       \/ CheckerStep(c)
       \/ ListFails(c) \/ ValidationFails(c) \/ TickTimeout(c)
       \/ UnlockFails(c) \/ Reacquire(c) \/ EndKeptSession(c)
       \/ LoseSession(c) \/ Crash(c)
  \/ \E b \in CheckedBackend : ChangeHealth(b)

CheckerSpec == CheckerInit /\ [][CheckerNext]_checkerVars

\* The ticker of every checker keeps firing and a tick that has begun goes on.
\* Nothing obliges the pool to close a connection that kept a lock, or to hand it
\* to the checker again.
FairCheckerSpec == CheckerSpec /\ \A c \in Checker : WF_checkerVars(CheckerStep(c))

-----------------------------------------------------------------------------
\* Properties.

\* The lock of lock.go:77-90 as far as it goes.  Two replicas check one scope at
\* once only if one of them lost the session of its lock during the tick it is
\* still in, and the end of that tick does not take the lock from the one that
\* got it since.  A lock nobody is checking under is one whose unlock failed.
OneChecker ==
  /\ \A c, d \in Checker :
       /\ c # d /\ ScopeOf[c] = ScopeOf[d]
       /\ chk[c].pc # "sleep" /\ chk[d].pc # "sleep"
       => chk[c].lost \/ chk[d].lost
  /\ \A s \in Scope : \A c \in Checker :
       holder[s] = c => \/ chk[c].pc # "sleep" /\ ~chk[c].lost
                        \/ chk[c].kept

\* No connection of a pool keeps the lock of scope s.
Unpinned(s) == \A c \in Checker : ScopeOf[c] = s => ~chk[c].kept

\* The status converges: a backend that stays broken ends up invalid, one that
\* stays well ends up valid, if some scope that lists it is not locked for good
\* by a failed unlock; although results of two scopes, and of two checkers of one
\* scope, are recorded in any order and checkers crash or time out.
StatusConverges ==
  \A s \in Scope : \A b \in Listed[s] :
    (<>[]Unpinned(s)) =>
      /\ (<>[](health[b] = "bad")) => <>[](status[b] = "Invalid")
      /\ (<>[](health[b] = "ok")) => <>[](status[b] = "OK")
=============================================================================
