---------------------------- MODULE TokenSweeper ----------------------------
(***************************************************************************)
(* The recorded use of API tokens and the background process that revokes  *)
(* the ones an organization left unused (biz APITokenStaleRevoker).  Every *)
(* request that a token authenticates writes last_used_at, with a clock    *)
(* read before the write; every replica of the control plane sweeps.       *)
(*                                                                         *)
(* Time is relative: a timestamp is its age in ticks, capped where no      *)
(* comparison tells it from an older one, so the clock is unbounded.       *)
(***************************************************************************)
EXTENDS Naturals

CONSTANTS SweptToken, SweptOrg,
          OwnerOf,       \* the organization of a token
          Days,          \* inactivity thresholds an administrator may set
          Recorder,      \* requests that tokens authenticate
          Sweeper,       \* one per replica
          MaxLag,        \* ticks between reading the clock and using it
          MaxDays,       \* the largest threshold
          MaxFaults,     \* database errors
          MaxChanges,    \* changes of the organizations' settings
          Nil

VARIABLES state,      \* api_tokens: absent, live or revoked
          idle,       \* age of COALESCE(last_used_at, created_at)
          seen,       \* age of the newest use ever recorded (history)
          threshold,  \* organizations.api_token_inactivity_threshold_days, 0: NULL
          use,        \* recordings of a use under way
          sweep,      \* sweeps under way
          faults, changes

sweeperVars == <<state, idle, seen, threshold, use, sweep, faults, changes>>

ASSUME SweeperAssumption ==
  /\ OwnerOf \in [SweptToken -> SweptOrg]
  /\ Days \subseteq 0..MaxDays
  /\ {MaxLag, MaxDays, MaxFaults, MaxChanges} \subseteq Nat

MaxAge == MaxDays + MaxLag + 1
Older(a) == IF a < MaxAge THEN a + 1 ELSE a
Unrevoked(t) == state[t] = "live"

NoUse == [token |-> Nil, lag |-> 0]
Asleep == [pc |-> "idle", days |-> [o \in SweptOrg |-> 0], orgs |-> {}, org |-> Nil,
           todo |-> {}, lag |-> 0]

Fault == faults > 0 /\ faults' = faults - 1

SweeperInit ==
  /\ state = [t \in SweptToken |-> "absent"]
  /\ idle = [t \in SweptToken |-> 0]
  /\ seen = [t \in SweptToken |-> 0]
  /\ threshold \in [SweptOrg -> Days]
  /\ use = [r \in Recorder |-> NoUse]
  /\ sweep = [s \in Sweeper |-> Asleep]
  /\ faults = MaxFaults
  /\ changes = MaxChanges

\* APITokenRepo.Create: created_at is now.
MintToken(t) ==
  /\ state[t] = "absent"
  /\ state' = [state EXCEPT ![t] = "live"]
  /\ idle' = [idle EXCEPT ![t] = 0]
  /\ seen' = [seen EXCEPT ![t] = 0]
  /\ UNCHANGED <<threshold, use, sweep, faults, changes>>

\* OrganizationUseCase.Update: zero clears the threshold.
UpdateOrg(o, d) ==
  /\ changes > 0 /\ threshold[o] # d
  /\ threshold' = [threshold EXCEPT ![o] = d]
  /\ changes' = changes - 1
  /\ UNCHANGED <<state, idle, seen, use, sweep, faults>>

\* The middleware found the token live; UpdateLastUsedAt reads the clock.
StampUse(r, t) ==
  /\ use[r] = NoUse /\ Unrevoked(t)
  /\ use' = [use EXCEPT ![r] = [token |-> t, lag |-> 0]]
  /\ UNCHANGED <<state, idle, seen, threshold, sweep, faults, changes>>

\* Its update matches a live token only; a failure is logged.
WriteUse(r) ==
  LET t == use[r].token
      age == use[r].lag IN
  /\ t # Nil
  /\ use' = [use EXCEPT ![r] = NoUse]
  /\ \/ /\ Unrevoked(t)
        /\ idle' = [idle EXCEPT ![t] = age]
        /\ seen' = [seen EXCEPT ![t] = IF age < @ THEN age ELSE @]
        /\ UNCHANGED faults
     \/ ~Unrevoked(t) /\ UNCHANGED <<idle, seen, faults>>
     \/ Fault /\ UNCHANGED <<idle, seen>>
  /\ UNCHANGED <<state, threshold, sweep, changes>>

\* An administrator or another token revokes it.
RevokeByHand(t) ==
  /\ Unrevoked(t)
  /\ state' = [state EXCEPT ![t] = "revoked"]
  /\ UNCHANGED <<idle, seen, threshold, use, sweep, faults, changes>>

\* Sweep reads the organizations that have a threshold, then the clock.  A
\* failure ends the sweep; the ticker brings the next one.
BeginSweep(s) ==
  /\ sweep[s].pc = "idle"
  /\ \/ /\ sweep' = [sweep EXCEPT ![s] =
             [Asleep EXCEPT !.pc = "orgs", !.days = threshold,
                            !.orgs = {o \in SweptOrg : threshold[o] > 0}]]
        /\ UNCHANGED faults
     \/ Fault /\ UNCHANGED sweep
  /\ UNCHANGED <<state, idle, seen, threshold, use, changes>>

\* Bug: the cutoff lies ahead of the clock.
InactiveWrongSign(s, t, o) ==
  Unrevoked(t) /\ OwnerOf[t] = o /\ idle[t] + sweep[s].days[o] > sweep[s].lag

\* FindInactive: the last use, or the creation of a token never used, is before
\* the cutoff that the sweep's clock and the threshold it read give.
Inactive(s, t, o) ==
  Unrevoked(t) /\ OwnerOf[t] = o /\ idle[t] > sweep[s].days[o] + sweep[s].lag

\* A query that fails skips the organization.
FindInactive(s, o) ==
  LET w == sweep[s]
      rest == w.orgs \ {o}
      lag == IF rest = {} THEN 0 ELSE w.lag IN
  /\ w.pc = "orgs" /\ o \in w.orgs
  /\ \/ /\ sweep' = [sweep EXCEPT ![s] =
               [w EXCEPT !.pc = "tokens", !.orgs = rest, !.org = o, !.lag = lag,
                         !.todo = {t \in SweptToken : Inactive(s, t, o)}]]
        /\ UNCHANGED faults
     \/ Fault /\ sweep' = [sweep EXCEPT ![s].orgs = rest, ![s].lag = lag]
  /\ UNCHANGED <<state, idle, seen, threshold, use, changes>>

\* Each token of the list is revoked unless it was meanwhile; an error skips it.
RevokeUnused(s, t) ==
  /\ sweep[s].pc = "tokens" /\ t \in sweep[s].todo
  /\ sweep' = [sweep EXCEPT ![s].todo = @ \ {t}]
  /\ \/ /\ state' = IF Unrevoked(t) THEN [state EXCEPT ![t] = "revoked"] ELSE state
        /\ UNCHANGED faults
     \/ Fault /\ UNCHANGED state
  /\ UNCHANGED <<idle, seen, threshold, use, changes>>

NextOrg(s) ==
  /\ sweep[s].pc = "tokens" /\ sweep[s].todo = {}
  /\ sweep' = [sweep EXCEPT ![s].pc = "orgs", ![s].org = Nil]
  /\ UNCHANGED <<state, idle, seen, threshold, use, faults, changes>>

\* Bug: a sweep with an error in it ends the background process.
EndSweepStops(s) ==
  /\ sweep[s].pc = "orgs" /\ sweep[s].orgs = {}
  /\ faults = MaxFaults
  /\ sweep' = [sweep EXCEPT ![s] = Asleep]
  /\ UNCHANGED <<state, idle, seen, threshold, use, faults, changes>>

\* The loop of Start waits for the next tick of its ticker.
EndSweep(s) ==
  /\ sweep[s].pc = "orgs" /\ sweep[s].orgs = {}
  /\ sweep' = [sweep EXCEPT ![s] = Asleep]
  /\ UNCHANGED <<state, idle, seen, threshold, use, faults, changes>>

\* A reading of the clock is used within MaxLag ticks: the context of a request,
\* and the queries of a sweep, are far shorter than a day.
Tick ==
  /\ \A r \in Recorder : use[r] # NoUse => use[r].lag < MaxLag
  /\ \A s \in Sweeper : sweep[s].orgs # {} => sweep[s].lag < MaxLag
  /\ use' = [r \in Recorder |->
       IF use[r] = NoUse THEN NoUse ELSE [use[r] EXCEPT !.lag = @ + 1]]
  /\ sweep' = [s \in Sweeper |->
       IF sweep[s].orgs = {} THEN sweep[s] ELSE [sweep[s] EXCEPT !.lag = @ + 1]]
  /\ idle' = [t \in SweptToken |-> IF Unrevoked(t) THEN Older(idle[t]) ELSE idle[t]]
  /\ seen' = [t \in SweptToken |-> IF Unrevoked(t) THEN Older(seen[t]) ELSE seen[t]]
  /\ UNCHANGED <<state, threshold, faults, changes>>

SweepStep(s) ==
  \/ BeginSweep(s) \/ NextOrg(s) \/ EndSweep(s)
  \/ \E o \in SweptOrg : FindInactive(s, o)
  \/ \E t \in SweptToken : RevokeUnused(s, t)

SweeperNext ==
  \/ \E t \in SweptToken : MintToken(t) \/ RevokeByHand(t)
  \/ \E o \in SweptOrg, d \in Days : UpdateOrg(o, d)
  \/ \E r \in Recorder : WriteUse(r) \/ \E t \in SweptToken : StampUse(r, t)
  \/ \E s \in Sweeper : SweepStep(s)
  \/ Tick

SweeperSpec == SweeperInit /\ [][SweeperNext]_sweeperVars

\* Requests run on, the ticker of every sweeper fires and its loop runs on, and
\* time passes.
FairSweeperSpec ==
  /\ SweeperSpec
  /\ \A r \in Recorder : WF_sweeperVars(WriteUse(r))
  /\ \A s \in Sweeper : WF_sweeperVars(SweepStep(s))
  /\ WF_sweeperVars(Tick)

-----------------------------------------------------------------------------
SweeperTypeOK ==
  /\ state \in [SweptToken -> {"absent", "live", "revoked"}]
  /\ idle \in [SweptToken -> 0..MaxAge]
  /\ seen \in [SweptToken -> 0..MaxAge]
  /\ threshold \in [SweptOrg -> Days]
  /\ use \in [Recorder -> [token : SweptToken \cup {Nil}, lag : 0..MaxLag]]
  /\ sweep \in [Sweeper -> [pc : {"idle", "orgs", "tokens"},
                            days : [SweptOrg -> 0..MaxDays], orgs : SUBSET SweptOrg,
                            org : SweptOrg \cup {Nil}, todo : SUBSET SweptToken,
                            lag : 0..MaxLag]]
  /\ faults \in 0..MaxFaults
  /\ changes \in 0..MaxChanges

\* FindInactive picks no token with a use recorded within the threshold the
\* sweep read, up to MaxLag: concurrent requests write last_used_at in any
\* order, so the column may go back by as much.
ActiveSpared ==
  [][\A s \in Sweeper : \A t \in sweep'[s].todo \ sweep[s].todo :
       seen[t] + MaxLag > sweep'[s].days[sweep'[s].org]]_sweeperVars

\* A live token of an organization with a threshold is used again or revoked,
\* unless the threshold is cleared: the sweepers find every token left unused,
\* whichever of their queries and updates fail.
UnusedRevoked ==
  \A t \in SweptToken :
    (Unrevoked(t) /\ threshold[OwnerOf[t]] > 0)
      ~> \/ ~Unrevoked(t)
         \/ threshold[OwnerOf[t]] = 0
         \/ \E r \in Recorder : use[r].token = t
=============================================================================
