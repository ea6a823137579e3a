-------------------------- MODULE ArtifactCASProofs --------------------------
(***************************************************************************)
(* What the artifact CAS promises, for every number of concurrent uploads, *)
(* downloads, backends and digests, every TTL and every number of faults,  *)
(* and that it implements VerifiedStore.                                   *)
(***************************************************************************)
EXTENDS ArtifactCAS, TLAPS

UpPC == {"idle", "load", "add", "exists", "describe", "spill", "upload", "store", "done"}

UpRec ==
  [pc : UpPC, b : Backend, d : Digest, data : {"good", "bad"}, gen : Nat \cup {NoClient},
   cached : BOOLEAN, attempt : 0 .. 1, fresh : BOOLEAN,
   out : {"none", "ok", "failed", "stale"}]

DownRec ==
  [pc : {"idle", "describe", "stage", "send", "done"}, b : Backend, d : Digest,
   gen : Nat \cup {NoClient}, got : Content, out : {"none", "ok", "failed"}]

\* The types of all variables but the requests, and of the requests.
StoreType ==
  /\ kind \in Kind
  /\ blob \in [Key -> Content]
  /\ gone \in [Key -> 0 .. TTL + 1]
  /\ existence \in [Key -> 0 .. TTL]
  /\ faults \in 0 .. MaxFaults

ClientType ==
  /\ secret \in [Backend -> Nat]
  /\ client \in [Backend -> Nat \cup {NoClient}]

\* A blob is, or was until a purge.
Stored(k) == blob[k] # "none" \/ gone[k] > 0

\* What the existence cache and the answers rest on.  An upload between the
\* backend's answer and the write to the cache saw the blob, and no tick passed
\* since: had it been purged meanwhile, that was in this tick.
SeenInv ==
  /\ \A k \in Key : existence[k] > 0 => Stored(k)
  /\ \A u \in Upload :
       /\ up[u].out = "ok" => Stored(<<up[u].b, up[u].d>>)
       /\ up[u].pc \in {"describe", "store"} =>
            Stored(<<up[u].b, up[u].d>>) /\ gone[<<up[u].b, up[u].d>>] <= 1

\* The clocks: a purged blob's entry runs out before a TTL has passed.
ClockInv ==
  \A k \in Key : gone[k] > 0 => blob[k] = "none" /\ existence[k] + gone[k] <= TTL + 1

\* What an upload holds in its staging file was verified.
DataInv == \A u \in Upload : up[u].data = "good"

\* No credentials older than the last rotation are about to be cached for b.
NoStaleLoad(b) ==
  \A v \in Upload : up[v].pc = "add" /\ up[v].b = b => up[v].gen = secret[b]

\* The points of an upload to an object store at which its client, loaded anew or
\* proved by a call that succeeded, is current.
Proved(r) ==
  \/ r.pc \in {"describe", "spill", "upload", "store"}
  \/ r.pc = "exists" /\ (~r.cached \/ r.attempt = 1)

\* A fresh upload: none of the old credentials is about to be cached, so once it
\* has dropped the cached client only a current one can take its place.
HealInv ==
  \A u \in Upload : up[u].fresh =>
    /\ NoStaleLoad(up[u].b)
    /\ up[u].attempt = 1 => client[up[u].b] \in {NoClient, secret[up[u].b]}
    /\ kind = "object" =>
         /\ Proved(up[u]) => up[u].gen = secret[up[u].b]
         /\ up[u].out # "stale"

\* The inductive invariant.
IInv == TypeOK /\ SeenInv /\ ClockInv /\ DataInv /\ HealInv /\ NoUnverifiedByte

-----------------------------------------------------------------------------
(* The records of the requests.                                             *)

LEMMA TypeParts == TypeOK <=> /\ StoreType /\ ClientType
                              /\ up \in [Upload -> UpRec] /\ down \in [Download -> DownRec]
  BY DEF TypeOK, StoreType, ClientType, UpRec, UpPC, DownRec

LEMMA UpTyped == up \in [Upload -> UpRec] =>
  \A u \in Upload :
    /\ up[u] \in UpRec /\ <<up[u].b, up[u].d>> \in Key
    /\ up[u].b \in Backend /\ up[u].d \in Digest /\ up[u].gen \in Nat \cup {NoClient}
    /\ up[u].attempt \in 0 .. 1 /\ up[u].cached \in BOOLEAN /\ up[u].fresh \in BOOLEAN
  BY DEF UpRec, Key

LEMMA IdleUpFacts ==
  /\ IdleUp \in UpRec
  /\ IdleUp.pc = "idle" /\ IdleUp.data = "good" /\ IdleUp.attempt = 0
  /\ IdleUp.cached = FALSE /\ IdleUp.fresh = FALSE /\ IdleUp.out = "none"
<1> DEFINE b == CHOOSE b \in Backend : TRUE
           d == CHOOSE d \in Digest : TRUE
<1>1. b \in Backend /\ d \in Digest
  BY ConstantsAssumption
<1>2. IdleUp = [pc |-> "idle", b |-> b, d |-> d, data |-> "good", gen |-> NoClient,
                cached |-> FALSE, attempt |-> 0, fresh |-> FALSE, out |-> "none"]
  BY DEF IdleUp
<1> HIDE DEF b, d
<1> QED
  BY <1>1, <1>2 DEF UpRec, UpPC, NoClient

LEMMA IdleDownFacts ==
  IdleDown \in DownRec /\ IdleDown.got = "none"
<1> DEFINE b == CHOOSE b \in Backend : TRUE
           d == CHOOSE d \in Digest : TRUE
<1>1. b \in Backend /\ d \in Digest
  BY ConstantsAssumption
<1>2. IdleDown = [pc |-> "idle", b |-> b, d |-> d, gen |-> NoClient, got |-> "none",
                  out |-> "none"]
  BY DEF IdleDown
<1> HIDE DEF b, d
<1> QED
  BY <1>1, <1>2 DEF DownRec, NoClient, Content

\* What is left of an upload that ended.
LEMMA EndedFacts ==
  ASSUME NEW r \in UpRec, NEW out \in {"none", "ok", "failed", "stale"}
  PROVE  LET q == Ended(r, out) IN
         /\ q \in UpRec /\ q.pc = "done" /\ q.b = r.b /\ q.d = r.d /\ q.data = "good"
         /\ q.attempt = 0 /\ q.fresh = r.fresh /\ q.out = out
<1>1. r.b \in Backend /\ r.d \in Digest /\ r.fresh \in BOOLEAN
  BY DEF UpRec
<1> QED
  BY <1>1, IdleUpFacts DEF Ended, UpRec, UpPC

LEMMA InitInv == Init => IInv
<1> SUFFICES ASSUME Init PROVE IInv
  OBVIOUS
<1>1. TypeOK
  <2>1. StoreType
    BY ConstantsAssumption DEF Init, StoreType, Content
  <2>2. ClientType
    BY DEF Init, ClientType, NoClient
  <2> QED
    BY <2>1, <2>2, TypeParts, IdleUpFacts, IdleDownFacts DEF Init
<1>2. SeenInv /\ ClockInv /\ DataInv
  BY <1>1, UpTyped, TypeParts, IdleUpFacts DEF Init, SeenInv, ClockInv, DataInv
<1>3. HealInv /\ NoUnverifiedByte
  BY IdleUpFacts, IdleDownFacts DEF Init, HealInv, NoUnverifiedByte
<1> QED
  BY <1>1, <1>2, <1>3 DEF IInv

-----------------------------------------------------------------------------
(* The step of one upload.                                                  *)

StoredNext(k) == blob'[k] # "none" \/ gone'[k] > 0
NoStaleLoadNext(b) ==
  \A v \in Upload : up'[v].pc = "add" /\ up'[v].b = b => up'[v].gen = secret'[b]

UpMove(u) ==
  /\ up' = [up EXCEPT ![u] = up'[u]]
  /\ up'[u] \in UpRec /\ up'[u].data = "good"
  /\ UNCHANGED <<kind, secret, down>>

\* Nothing that was stored is forgotten, and the upload answers, or is about to
\* fill the cache, only for what is stored.
SeenMove(u) ==
  /\ StoreType' /\ ClockInv'
  /\ \A k \in Key :
       /\ existence'[k] > 0 => StoredNext(k)
       /\ Stored(k) => StoredNext(k)
       /\ gone[k] <= 1 => gone'[k] <= 1
  /\ LET k == <<up'[u].b, up'[u].d>> IN
     /\ up'[u].out = "ok" => StoredNext(k)
     /\ up'[u].pc \in {"describe", "store"} => StoredNext(k) /\ gone'[k] <= 1

\* A client is cached by whoever loaded it only, and the upload's own is current
\* where it must be.
HealMove(u) ==
  /\ ClientType'
  /\ \A b \in Backend :
       \/ client'[b] \in {client[b], NoClient}
       \/ up[u].pc = "add" /\ up[u].b = b /\ client'[b] = up[u].gen
  /\ up'[u].pc = "add" => up'[u].gen = secret[up'[u].b]
  /\ up'[u].fresh =>
       /\ NoStaleLoad(up'[u].b)
       /\ up'[u].attempt = 1 => client'[up'[u].b] \in {NoClient, secret[up'[u].b]}
       /\ kind = "object" =>
            /\ Proved(up'[u]) => up'[u].gen = secret[up'[u].b]
            /\ up'[u].out # "stale"

LEMMA UploadMoves ==
  ASSUME IInv, NEW u \in Upload, UpMove(u), SeenMove(u), HealMove(u)
  PROVE  IInv'
<1> USE DEF IInv
<1>1. up \in [Upload -> UpRec] /\ down \in [Download -> DownRec]
  BY TypeParts
<1>2. up' \in [Upload -> UpRec] /\ down' \in [Download -> DownRec]
  BY <1>1 DEF UpMove
<1>3. \A v \in Upload : v # u => up'[v] = up[v]
  BY <1>1 DEF UpMove
<1>4. TypeOK'
  BY <1>2 DEF SeenMove, HealMove, TypeOK, StoreType, ClientType, UpRec, UpPC, DownRec
<1>5. SeenInv'
  <2>1. \A v \in Upload :
          /\ up'[v].out = "ok" => StoredNext(<<up'[v].b, up'[v].d>>)
          /\ up'[v].pc \in {"describe", "store"} =>
               StoredNext(<<up'[v].b, up'[v].d>>) /\ gone'[<<up'[v].b, up'[v].d>>] <= 1
    <3> TAKE v \in Upload
    <3>1. CASE v = u
      BY <3>1 DEF SeenMove
    <3>2. CASE v # u
      BY <3>2, <1>1, <1>3, UpTyped DEF SeenMove, SeenInv
    <3> QED
      BY <3>1, <3>2
  <2> QED
    BY <2>1 DEF SeenInv, SeenMove, Stored, StoredNext
<1>6. DataInv'
  BY <1>3 DEF UpMove, DataInv
<1>7. HealInv'
  <2>1. \A b \in Backend : NoStaleLoad(b) => NoStaleLoadNext(b)
    BY <1>3 DEF NoStaleLoad, NoStaleLoadNext, HealMove, UpMove
  <2> SUFFICES ASSUME NEW v \in Upload, up'[v].fresh
               PROVE  /\ NoStaleLoadNext(up'[v].b)
                      /\ up'[v].attempt = 1 => client'[up'[v].b] \in {NoClient, secret'[up'[v].b]}
                      /\ kind' = "object" =>
                           /\ Proved(up'[v]) => up'[v].gen = secret'[up'[v].b]
                           /\ up'[v].out # "stale"
    BY DEF HealInv, NoStaleLoad, NoStaleLoadNext, Proved
  <2>2. up'[v].b \in Backend
    BY <1>2 DEF UpRec
  <2>3. CASE v = u
    BY <2>1, <2>2, <2>3 DEF HealMove, UpMove
  <2>4. CASE v # u
    <3>1. up'[v] = up[v] /\ NoStaleLoad(up[v].b)
      BY <2>4, <1>3 DEF HealInv
    <3>2. client'[up[v].b] \in {client[up[v].b], NoClient, secret[up[v].b]}
      BY <3>1, <2>2 DEF HealMove, NoStaleLoad
    <3> QED
      BY <2>1, <2>2, <3>1, <3>2 DEF HealInv, UpMove
  <2> QED
    BY <2>3, <2>4
<1>8. NoUnverifiedByte'
  BY DEF UpMove, NoUnverifiedByte
<1> QED
  BY <1>4, <1>5, <1>6, <1>7, <1>8 DEF SeenMove

\* A step that leaves the stores and the existence cache alone.
LEMMA Unstored ==
  ASSUME IInv, NEW u \in Upload, UpMove(u),
         UNCHANGED <<blob, gone, existence>>, faults' \in 0 .. MaxFaults,
         up'[u].out = "ok" => Stored(<<up'[u].b, up'[u].d>>),
         up'[u].pc \in {"describe", "store"} =>
           Stored(<<up'[u].b, up'[u].d>>) /\ gone[<<up'[u].b, up'[u].d>>] <= 1
  PROVE  SeenMove(u)
<1>1. StoreType'
  BY TypeParts DEF IInv, StoreType, UpMove
<1>2. ClockInv'
  BY DEF IInv, ClockInv
<1> QED
  BY <1>1, <1>2 DEF SeenMove, IInv, SeenInv, Stored, StoredNext

LEMMA FaultBound == ASSUME IInv, Fault \/ UNCHANGED faults PROVE faults' \in 0 .. MaxFaults
  BY ConstantsAssumption DEF IInv, TypeOK, Fault

LEMMA LookupStep ==
  ASSUME IInv, NEW u \in Upload, LookupExistence(u)
  PROVE  IInv'
<1> USE DEF IInv
<1>t. up \in [Upload -> UpRec] /\ ClientType
  BY TypeParts
<1>1. PICK b \in Backend, d \in Digest :
        \/ up' = [up EXCEPT ![u] = [IdleUp EXCEPT !.pc = "load", !.b = b, !.d = d,
                                                  !.fresh = ~StaleLoads(b)]]
        \/ /\ existence[existenceKey(b, d)] > 0
           /\ up' = [up EXCEPT ![u] = [IdleUp EXCEPT !.pc = "done", !.b = b, !.d = d, !.out = "ok"]]
  BY DEF LookupExistence
<1>2. UNCHANGED <<kind, blob, gone, existence, secret, client, down, faults>>
  BY DEF LookupExistence
<1>k. <<b, d>> \in Key
  BY DEF Key
<1>3. \/ /\ up'[u] = [IdleUp EXCEPT !.pc = "load", !.b = b, !.d = d, !.fresh = ~StaleLoads(b)]
      \/ /\ existence[<<b, d>>] > 0
         /\ up'[u] = [IdleUp EXCEPT !.pc = "done", !.b = b, !.d = d, !.out = "ok"]
  BY <1>1, <1>t DEF existenceKey
<1>4. UpMove(u)
  <2>1. up' = [up EXCEPT ![u] = up'[u]]
    BY <1>1, <1>t
  <2>2. StaleLoads(b) \in BOOLEAN
    BY DEF StaleLoads
  <2>3. up'[u] \in UpRec /\ up'[u].data = "good"
    BY <1>3, <2>2, IdleUpFacts DEF UpRec, UpPC
  <2> QED
    BY <2>1, <2>3, <1>2 DEF UpMove
<1>5. /\ up'[u].pc \in {"load", "done"} /\ up'[u].attempt = 0
      /\ up'[u].b = b /\ up'[u].d = d
      /\ up'[u].out \in {"none", "ok"}
      /\ up'[u].out = "ok" => existence[<<b, d>>] > 0
      /\ up'[u].fresh => ~StaleLoads(b)
  BY <1>3, IdleUpFacts DEF UpRec
<1>6. SeenMove(u)
  <2>1. up'[u].out = "ok" => Stored(<<b, d>>)
    BY <1>5, <1>k DEF SeenInv
  <2> QED
    BY <1>2, <1>4, <1>5, <2>1, FaultBound, Unstored
<1>7. HealMove(u)
  BY <1>2, <1>5, <1>t DEF HealMove, ClientType, NoStaleLoad, StaleLoads, Proved
<1> QED
  BY <1>4, <1>6, <1>7, UploadMoves

LEMMA ReuseStep ==
  ASSUME IInv, NEW u \in Upload, ReuseClient(u)
  PROVE  IInv'
<1> USE DEF IInv
<1>t. up \in [Upload -> UpRec] /\ ClientType
  BY TypeParts
<1>1. /\ up' = [up EXCEPT ![u] = up'[u]] /\ up'[u] \in UpRec
      /\ up'[u].pc = "exists" /\ up'[u].cached = TRUE /\ up'[u].gen = client[up[u].b]
      /\ up'[u].b = up[u].b /\ up'[u].d = up[u].d /\ up'[u].data = up[u].data
      /\ up'[u].attempt = up[u].attempt /\ up'[u].fresh = up[u].fresh /\ up'[u].out = up[u].out
  BY <1>t, UpTyped DEF ReuseClient, UpRec, UpPC, ClientType
<1>2. UNCHANGED <<kind, blob, gone, existence, secret, client, down, faults>>
  BY DEF ReuseClient
<1>3. UpMove(u)
  BY <1>1, <1>2 DEF UpMove, DataInv
<1>4. SeenMove(u)
  BY <1>1, <1>2, <1>3, FaultBound, Unstored DEF SeenInv
<1>5. HealMove(u)
  BY <1>1, <1>2, <1>t DEF HealMove, HealInv, ClientType, Proved, ReuseClient
<1> QED
  BY <1>3, <1>4, <1>5, UploadMoves

\* An upload that ends leaves its backend's client cached or not, and answers
\* "ok" only for what is stored.
LEMMA EndStep ==
  ASSUME IInv, NEW u \in Upload, NEW out \in {"ok", "failed", "stale"}, EndUp(u, out),
         UNCHANGED <<kind, secret, down>>,
         \A b \in Backend : client'[b] \in {client[b], NoClient}, ClientType',
         up[u].fresh /\ kind = "object" => out # "stale"
  PROVE  /\ UpMove(u) /\ HealMove(u)
         /\ up'[u].pc = "done" /\ up'[u].out = out
         /\ up'[u].b = up[u].b /\ up'[u].d = up[u].d
<1> USE DEF IInv
<1>t. up \in [Upload -> UpRec] /\ up[u] \in UpRec
  BY TypeParts
<1>1. up' = [up EXCEPT ![u] = Ended(up[u], out)]
  BY DEF EndUp
<1>2. up'[u] = Ended(up[u], out)
  BY <1>1, <1>t
<1>3. /\ up'[u] \in UpRec /\ up'[u].pc = "done" /\ up'[u].data = "good"
      /\ up'[u].b = up[u].b /\ up'[u].d = up[u].d
      /\ up'[u].attempt = 0 /\ up'[u].fresh = up[u].fresh /\ up'[u].out = out
  BY <1>2, <1>t, EndedFacts
<1>4. UpMove(u)
  BY <1>1, <1>2, <1>3 DEF UpMove
<1>5. HealMove(u)
  BY <1>3 DEF HealMove, HealInv, Proved
<1> QED
  BY <1>3, <1>4, <1>5

LEMMA DropFacts ==
  ASSUME IInv, NEW u \in Upload, DropUploadBackend(up[u].b) \/ UNCHANGED client, UNCHANGED secret
  PROVE  ClientType' /\ \A b \in Backend : client'[b] \in {client[b], NoClient}
<1>1. PICK b0 \in Backend : b0 = up[u].b
  BY TypeParts, UpTyped DEF IInv
<1> QED
  BY <1>1, TypeParts DEF IInv, ClientType, DropUploadBackend

\* An upload that ends and leaves the stores and the existence cache alone.
LEMMA EndQuietly ==
  ASSUME IInv, NEW u \in Upload, NEW out \in {"ok", "failed", "stale"}, EndUp(u, out),
         UNCHANGED <<kind, secret, down, blob, gone, existence>>, Fault \/ UNCHANGED faults,
         DropUploadBackend(up[u].b) \/ UNCHANGED client,
         up[u].fresh /\ kind = "object" => out # "stale",
         out = "ok" => Stored(<<up[u].b, up[u].d>>)
  PROVE  IInv'
<1> USE DEF IInv
<1>t. up \in [Upload -> UpRec] /\ ClientType
  BY TypeParts
<1>1. ClientType' /\ \A b \in Backend : client'[b] \in {client[b], NoClient}
  BY DropFacts
<1>2. UpMove(u) /\ HealMove(u) /\ up'[u].pc = "done" /\ up'[u].out = out
      /\ up'[u].b = up[u].b /\ up'[u].d = up[u].d
  BY <1>1, EndStep
<1>3. SeenMove(u)
  BY <1>2, FaultBound, Unstored
<1> QED
  BY <1>2, <1>3, UploadMoves

LEMMA LoadStep ==
  ASSUME IInv, NEW u \in Upload, LoadClient(u)
  PROVE  IInv'
<1> USE DEF IInv
<1>t. up \in [Upload -> UpRec] /\ ClientType
  BY TypeParts
<1>2. UNCHANGED <<kind, blob, gone, existence, secret, client, down>>
  BY DEF LoadClient
<1>a. CASE up' = [up EXCEPT ![u].pc = "add", ![u].gen = secret[up[u].b], ![u].cached = FALSE]
           /\ UNCHANGED faults
  <2>1. /\ up' = [up EXCEPT ![u] = up'[u]] /\ up'[u] \in UpRec
        /\ up'[u].pc = "add" /\ up'[u].gen = secret[up[u].b]
        /\ up'[u].b = up[u].b /\ up'[u].d = up[u].d /\ up'[u].data = up[u].data
        /\ up'[u].attempt = up[u].attempt /\ up'[u].fresh = up[u].fresh /\ up'[u].out = up[u].out
    BY <1>a, <1>t, UpTyped DEF UpRec, UpPC, ClientType
  <2>3. UpMove(u)
    BY <2>1, <1>2 DEF UpMove, DataInv
  <2>4. SeenMove(u)
    BY <2>1, <1>2, <2>3, <1>a, FaultBound, Unstored DEF SeenInv
  <2>5. HealMove(u)
    BY <2>1, <1>2, <1>t DEF HealMove, HealInv, ClientType, Proved
  <2> QED
    BY <2>3, <2>4, <2>5, UploadMoves
<1>b. CASE Fault /\ EndUp(u, "failed")
  BY <1>b, <1>2, EndQuietly
<1> QED
  BY <1>a, <1>b DEF LoadClient

LEMMA AddStep ==
  ASSUME IInv, NEW u \in Upload, AddClient(u)
  PROVE  IInv'
<1> USE DEF IInv
<1>t. up \in [Upload -> UpRec] /\ ClientType
  BY TypeParts
<1>1. /\ up' = [up EXCEPT ![u] = up'[u]] /\ up'[u] \in UpRec
      /\ up'[u].pc = "exists" /\ up'[u].gen = up[u].gen
      /\ up'[u].b = up[u].b /\ up'[u].d = up[u].d /\ up'[u].data = up[u].data
      /\ up'[u].attempt = up[u].attempt /\ up'[u].fresh = up[u].fresh /\ up'[u].out = up[u].out
  BY <1>t, UpTyped DEF AddClient, UpRec, UpPC
<1>2. /\ UNCHANGED <<kind, blob, gone, existence, secret, down, faults>>
      /\ up[u].pc = "add" /\ client' = [client EXCEPT ![up[u].b] = up[u].gen]
  BY DEF AddClient
<1>3. UpMove(u)
  BY <1>1, <1>2 DEF UpMove, DataInv
<1>4. SeenMove(u)
  BY <1>1, <1>2, <1>3, FaultBound, Unstored DEF SeenInv
<1>5. HealMove(u)
  <2>1. ClientType'
    BY <1>2, <1>t, UpTyped DEF ClientType
  <2>2. up[u].b \in Backend /\ client'[up[u].b] = up[u].gen
    BY <1>2, <1>t, UpTyped DEF ClientType
  <2>3. up[u].fresh => up[u].gen = secret[up[u].b] /\ NoStaleLoad(up[u].b)
    BY <1>2 DEF HealInv, NoStaleLoad
  <2>4. \A b \in Backend : client'[b] = client[b] \/ (b = up[u].b /\ client'[b] = up[u].gen)
    BY <1>2, <1>t DEF ClientType
  <2> QED
    BY <1>1, <1>2, <2>1, <2>2, <2>3, <2>4 DEF HealMove, HealInv
<1> QED
  BY <1>3, <1>4, <1>5, UploadMoves

\* An upload that tries once more.
Retried(r) == [r EXCEPT !.pc = "load", !.attempt = 1]

LEMMA RetryFacts ==
  ASSUME NEW r \in UpRec
  PROVE  LET q == Retried(r) IN
         /\ q \in UpRec /\ q.pc = "load" /\ q.b = r.b /\ q.d = r.d /\ q.data = r.data
         /\ q.fresh = r.fresh /\ q.out = r.out
<1>1. PICK n \in 0 .. 1 : n = 1
  OBVIOUS
<1>2. PICK pc \in UpPC : pc = "load"
  BY DEF UpPC
<1>3. Retried(r) = [r EXCEPT !.pc = pc, !.attempt = n]
  BY <1>1, <1>2 DEF Retried
<1> QED
  BY <1>2, <1>3 DEF UpRec

\* A call of Exists failed: the client is dropped, and the upload tries once more
\* or ends.
LEMMA RetryStep ==
  ASSUME IInv, NEW u \in Upload, up[u].pc = "exists", kind = "object", DropAndRetry(u),
         UNCHANGED <<kind, blob, gone, existence, secret, down>>, Fault \/ UNCHANGED faults
  PROVE  IInv'
<1> USE DEF IInv
<1>t. up \in [Upload -> UpRec] /\ ClientType
  BY TypeParts
<1>d. DropUploadBackend(up[u].b)
  BY DEF DropAndRetry
<1>a. CASE up[u].cached /\ up[u].attempt = 0
  <2>0. up' = [up EXCEPT ![u].pc = "load", ![u].attempt = 1]
    BY <1>a DEF DropAndRetry
  <2>r. up'[u] = Retried(up[u])
    BY <2>0, <1>t DEF Retried
  <2>s. up' = [up EXCEPT ![u] = up'[u]]
    BY <2>0, <1>t
  <2>1. /\ up'[u] \in UpRec
        /\ up'[u].pc = "load"
        /\ up'[u].b = up[u].b /\ up'[u].d = up[u].d /\ up'[u].data = up[u].data
        /\ up'[u].fresh = up[u].fresh /\ up'[u].out = up[u].out
    BY <2>r, <1>t, RetryFacts
  <2>3. UpMove(u)
    BY <2>s, <2>1 DEF UpMove, DataInv
  <2>4. SeenMove(u)
    BY <2>1, <2>3, FaultBound, Unstored DEF SeenInv
  <2>5. ClientType' /\ client'[up[u].b] = NoClient
        /\ \A b \in Backend : client'[b] \in {client[b], NoClient}
    BY <1>d, <1>t, UpTyped DEF ClientType, DropUploadBackend
  <2>6. up[u].fresh => NoStaleLoad(up[u].b) /\ up[u].out # "stale"
    BY DEF HealInv
  <2>7. ~Proved(up'[u]) /\ up'[u].pc # "add"
    BY <2>1 DEF Proved
  <2>8. HealMove(u)
    BY <2>1, <2>5, <2>6, <2>7 DEF HealMove
  <2> QED
    BY <2>3, <2>4, <2>8, UploadMoves
<1>b. CASE ~(up[u].cached /\ up[u].attempt = 0)
  <2>1. EndUp(u, IF Stale(up[u]) THEN "stale" ELSE "failed")
    BY <1>b DEF DropAndRetry
  <2>p. Proved(up[u])
    <3>1. up[u].attempt \in 0 .. 1
      BY <1>t, UpTyped
    <3> QED
      BY <1>b, <3>1 DEF Proved
  <2>2. Stale(up[u]) => ~up[u].fresh
    BY <2>p DEF HealInv, Stale
  <2>3. CASE Stale(up[u])
    BY <2>1, <2>2, <2>3, <1>d, EndQuietly
  <2>4. CASE ~Stale(up[u])
    BY <2>1, <2>4, <1>d, EndQuietly
  <2> QED
    BY <2>3, <2>4
<1> QED
  BY <1>a, <1>b

\* The upload goes on to pc, its client, its digest and its answer as they were.
LEMMA GoOn ==
  ASSUME IInv, NEW u \in Upload, NEW pc \in UpPC \ {"add", "exists"},
         up' = [up EXCEPT ![u].pc = pc], UNCHANGED <<kind, secret, client, down>>,
         up[u].fresh /\ kind = "object" /\ pc \in {"describe", "spill", "upload", "store"} =>
           up[u].gen = secret[up[u].b]
  PROVE  /\ UpMove(u) /\ HealMove(u) /\ up'[u].pc = pc
         /\ up'[u].b = up[u].b /\ up'[u].d = up[u].d /\ up'[u].out = up[u].out
<1> USE DEF IInv
<1>t. up \in [Upload -> UpRec] /\ ClientType
  BY TypeParts
<1>1. /\ up' = [up EXCEPT ![u] = up'[u]] /\ up'[u] \in UpRec
      /\ up'[u].pc = pc /\ up'[u].gen = up[u].gen
      /\ up'[u].b = up[u].b /\ up'[u].d = up[u].d /\ up'[u].data = up[u].data
      /\ up'[u].attempt = up[u].attempt /\ up'[u].fresh = up[u].fresh /\ up'[u].out = up[u].out
  BY <1>t, UpTyped DEF UpRec
<1>2. UpMove(u)
  BY <1>1 DEF UpMove, DataInv
<1>3. HealMove(u)
  BY <1>1, <1>t DEF HealMove, HealInv, ClientType, Proved
<1> QED
  BY <1>1, <1>2, <1>3

LEMMA CheckStep ==
  ASSUME IInv, NEW u \in Upload, CheckExists(u)
  PROVE  IInv'
<1> USE DEF IInv
<1>t. up \in [Upload -> UpRec] /\ ClientType /\ StoreType
  BY TypeParts
<1>2. up[u].pc = "exists" /\ UNCHANGED <<kind, blob, gone, existence, secret, down>>
  BY DEF CheckExists
<1>k. <<up[u].b, up[u].d>> \in Key
  BY <1>t, UpTyped
<1>a. CASE /\ ~ExistsFails(up[u])
           /\ up' = [up EXCEPT ![u].pc = IF Found(up[u]) /\ ~Stale(up[u]) THEN "describe" ELSE "spill"]
           /\ UNCHANGED <<client, faults>>
  <2> DEFINE pc == IF Found(up[u]) /\ ~Stale(up[u]) THEN "describe" ELSE "spill"
  <2>1. pc \in UpPC \ {"add", "exists"} /\ up' = [up EXCEPT ![u].pc = pc]
    BY <1>a DEF UpPC
  <2>2. kind = "object" => up[u].gen = secret[up[u].b]
    BY <1>a DEF ExistsFails, Stale
  <2>3. pc \in {"describe", "store"} => Stored(<<up[u].b, up[u].d>>)
                                        /\ gone[<<up[u].b, up[u].d>>] <= 1
    <3>1. SUFFICES ASSUME Found(up[u]) PROVE Stored(<<up[u].b, up[u].d>>)
                                             /\ gone[<<up[u].b, up[u].d>>] <= 1
      OBVIOUS
    <3>2. blob[<<up[u].b, up[u].d>>] # "none"
      BY <3>1 DEF Found
    <3> QED
      BY <3>2, <1>k, <1>t DEF Stored, ClockInv, StoreType
  <2> HIDE DEF pc
  <2>4. /\ UpMove(u) /\ HealMove(u) /\ up'[u].pc = pc
        /\ up'[u].b = up[u].b /\ up'[u].d = up[u].d /\ up'[u].out = up[u].out
    BY <2>1, <2>2, <1>2, <1>a, GoOn
  <2>5. SeenMove(u)
    BY <2>3, <2>4, <1>2, <1>a, FaultBound, Unstored DEF SeenInv
  <2> QED
    BY <2>4, <2>5, UploadMoves
<1>b. CASE ExistsFails(up[u]) /\ DropAndRetry(u) /\ UNCHANGED faults
  BY <1>b, <1>2, RetryStep DEF ExistsFails
<1>c. CASE kind = "object" /\ Fault /\ DropAndRetry(u)
  BY <1>c, <1>2, RetryStep
<1>d. CASE kind = "oci" /\ Fault /\ up' = [up EXCEPT ![u].pc = "spill"] /\ UNCHANGED client
  <2>4. /\ UpMove(u) /\ HealMove(u) /\ up'[u].pc = "spill"
        /\ up'[u].b = up[u].b /\ up'[u].d = up[u].d /\ up'[u].out = up[u].out
    BY <1>2, <1>d, GoOn DEF UpPC
  <2>5. SeenMove(u)
    BY <2>4, <1>2, <1>d, FaultBound, Unstored DEF SeenInv
  <2> QED
    BY <2>4, <2>5, UploadMoves
<1> QED
  BY <1>a, <1>b, <1>c, <1>d DEF CheckExists

LEMMA DescribeStep ==
  ASSUME IInv, NEW u \in Upload, DescribeFound(u)
  PROVE  IInv'
<1> USE DEF IInv
<1>2. up[u].pc = "describe" /\ UNCHANGED <<kind, blob, gone, existence, secret, client, down, faults>>
  BY DEF DescribeFound
<1>3. Stored(<<up[u].b, up[u].d>>) /\ gone[<<up[u].b, up[u].d>>] <= 1
  BY <1>2 DEF SeenInv
<1>a. CASE ~Stale(up[u]) /\ up' = [up EXCEPT ![u].pc = "store"]
  <2>4. /\ UpMove(u) /\ HealMove(u) /\ up'[u].pc = "store"
        /\ up'[u].b = up[u].b /\ up'[u].d = up[u].d /\ up'[u].out = up[u].out
    BY <1>2, <1>a, GoOn DEF UpPC, Stale
  <2>5. SeenMove(u)
    BY <2>4, <1>2, <1>3, FaultBound, Unstored DEF SeenInv
  <2> QED
    BY <2>4, <2>5, UploadMoves
<1>b. CASE EndUp(u, "ok")
  BY <1>b, <1>2, <1>3, EndQuietly
<1> QED
  BY <1>a, <1>b DEF DescribeFound

LEMMA SpillStep ==
  ASSUME IInv, NEW u \in Upload, SpillVerify(u)
  PROVE  IInv'
<1> USE DEF IInv
<1>t. up \in [Upload -> UpRec] /\ ClientType
  BY TypeParts
<1>2. up[u].pc = "spill" /\ UNCHANGED <<kind, blob, gone, existence, secret, client, down, faults>>
  BY DEF SpillVerify
<1>a. CASE up' = [up EXCEPT ![u].pc = "upload", ![u].data = "good"]
  <2>1. /\ up' = [up EXCEPT ![u] = up'[u]] /\ up'[u] \in UpRec
        /\ up'[u].pc = "upload" /\ up'[u].gen = up[u].gen
        /\ up'[u].b = up[u].b /\ up'[u].d = up[u].d /\ up'[u].data = "good"
        /\ up'[u].attempt = up[u].attempt /\ up'[u].fresh = up[u].fresh /\ up'[u].out = up[u].out
    BY <1>a, <1>t, UpTyped DEF UpRec, UpPC
  <2>3. UpMove(u)
    BY <2>1, <1>2 DEF UpMove
  <2>4. SeenMove(u)
    BY <2>1, <1>2, <2>3, FaultBound, Unstored DEF SeenInv
  <2>5. HealMove(u)
    BY <2>1, <1>2, <1>t DEF HealMove, HealInv, ClientType, Proved
  <2> QED
    BY <2>3, <2>4, <2>5, UploadMoves
<1>b. CASE EndUp(u, "failed")
  BY <1>b, <1>2, EndQuietly
<1> QED
  BY <1>a, <1>b DEF SpillVerify

\* Storing verified bytes forgets nothing, whoever's step it is.
LEMMA PutFacts ==
  ASSUME IInv, NEW u \in Upload, Put(up[u]), UNCHANGED <<kind, existence>>,
         faults' \in 0 .. MaxFaults
  PROVE  /\ StoreType' /\ ClockInv'
         /\ StoredNext(<<up[u].b, up[u].d>>) /\ gone'[<<up[u].b, up[u].d>>] = 0
         /\ \A k \in Key :
              /\ existence'[k] > 0 => StoredNext(k)
              /\ Stored(k) => StoredNext(k)
              /\ gone[k] <= 1 => gone'[k] <= 1
              /\ blob'[k] # blob[k] => blob'[k] = "good"
<1> USE DEF IInv
<1>t. up \in [Upload -> UpRec] /\ StoreType
  BY TypeParts
<1>k. <<up[u].b, up[u].d>> \in Key /\ up[u].data = "good"
  BY <1>t, UpTyped DEF DataInv
<1>1. PICK k0 \in Key : k0 = <<up[u].b, up[u].d>>
  BY <1>k
<1>2. blob' = [blob EXCEPT ![k0] = "good"] /\ gone' = [gone EXCEPT ![k0] = 0]
  BY <1>1, <1>k DEF Put
<1>3. StoreType'
  BY <1>2, <1>t, ConstantsAssumption DEF StoreType, Content
<1>4. blob'[k0] = "good" /\ gone'[k0] = 0
  BY <1>2, <1>t DEF StoreType
<1>5. \A k \in Key : k # k0 => blob'[k] = blob[k] /\ gone'[k] = gone[k]
  BY <1>2, <1>t DEF StoreType
<1>6. ClockInv'
  BY <1>4, <1>5, <1>t DEF ClockInv
<1>7. \A k \in Key : /\ existence'[k] > 0 => StoredNext(k)
                     /\ Stored(k) => StoredNext(k)
                     /\ gone[k] <= 1 => gone'[k] <= 1
                     /\ blob'[k] # blob[k] => blob'[k] = "good"
  BY <1>4, <1>5 DEF SeenInv, Stored, StoredNext
<1> QED
  BY <1>1, <1>3, <1>4, <1>6, <1>7 DEF StoredNext

LEMMA UploadBackendStep ==
  ASSUME IInv, NEW u \in Upload, UploadBackend(u)
  PROVE  IInv'
<1> USE DEF IInv
<1>t. up \in [Upload -> UpRec] /\ ClientType
  BY TypeParts
<1>2. up[u].pc = "upload" /\ UNCHANGED <<kind, existence, secret, down>>
  BY DEF UploadBackend
<1>3. up[u].fresh /\ kind = "object" => ~Stale(up[u])
  BY <1>2 DEF HealInv, Proved, Stale
<1>a. CASE ~Stale(up[u]) /\ Put(up[u]) /\ up' = [up EXCEPT ![u].pc = "store"]
           /\ UNCHANGED <<client, faults>>
  <2>4. /\ UpMove(u) /\ HealMove(u) /\ up'[u].pc = "store"
        /\ up'[u].b = up[u].b /\ up'[u].d = up[u].d /\ up'[u].out = up[u].out
    BY <1>2, <1>a, GoOn DEF UpPC, Stale
  <2>5. SeenMove(u)
    BY <2>4, <1>2, <1>a, FaultBound, PutFacts DEF SeenMove
  <2> QED
    BY <2>4, <2>5, UploadMoves
<1>b. CASE Stale(up[u]) /\ EndUp(u, "stale") /\ DropUploadBackend(up[u].b)
           /\ UNCHANGED <<blob, gone, faults>>
  BY <1>b, <1>2, <1>3, EndQuietly
<1>c. CASE Fault /\ EndUp(u, "failed") /\ DropUploadBackend(up[u].b) /\ UNCHANGED <<blob, gone>>
  BY <1>c, <1>2, EndQuietly
<1>d. CASE Fault /\ EndUp(u, "failed") /\ DropUploadBackend(up[u].b) /\ Put(up[u])
  <2>1. ClientType' /\ \A b \in Backend : client'[b] \in {client[b], NoClient}
    BY <1>2, <1>d, DropFacts
  <2>2. UpMove(u) /\ HealMove(u) /\ up'[u].pc = "done" /\ up'[u].out = "failed"
    BY <2>1, <1>2, <1>d, EndStep
  <2>3. SeenMove(u)
    BY <2>2, <1>2, <1>d, FaultBound, PutFacts DEF SeenMove
  <2> QED
    BY <2>2, <2>3, UploadMoves
<1> QED
  BY <1>a, <1>b, <1>c, <1>d DEF UploadBackend

LEMMA StoreStep ==
  ASSUME IInv, NEW u \in Upload, StoreExistence(u)
  PROVE  IInv'
<1> USE DEF IInv
<1>t. up \in [Upload -> UpRec] /\ ClientType /\ StoreType
  BY TypeParts
<1>2. /\ up[u].pc = "store" /\ EndUp(u, "ok")
      /\ UNCHANGED <<kind, blob, gone, secret, client, down, faults>>
  BY DEF StoreExistence
<1>3. Stored(<<up[u].b, up[u].d>>) /\ gone[<<up[u].b, up[u].d>>] <= 1
  BY <1>2 DEF SeenInv
<1>a. CASE existence' = [existence EXCEPT ![existenceKey(up[u].b, up[u].d)] = TTL]
  <2>1. ClientType' /\ \A b \in Backend : client'[b] \in {client[b], NoClient}
    BY <1>2, <1>t DEF ClientType
  <2>2. UpMove(u) /\ HealMove(u) /\ up'[u].pc = "done"
        /\ up'[u].b = up[u].b /\ up'[u].d = up[u].d
    BY <2>1, <1>2, EndStep
  <2>3. PICK k0 \in Key : k0 = <<up[u].b, up[u].d>>
    BY <1>t, UpTyped
  <2>4. existence' = [existence EXCEPT ![k0] = TTL] /\ Stored(k0) /\ gone[k0] <= 1
    BY <1>a, <1>3, <2>3 DEF existenceKey
  <2>5. StoreType'
    BY <2>4, <1>2, <1>t, ConstantsAssumption DEF StoreType
  <2>6. existence'[k0] = TTL /\ \A k \in Key : k # k0 => existence'[k] = existence[k]
    BY <2>4, <1>t DEF StoreType
  <2>7. ClockInv'
    <3> SUFFICES ASSUME NEW k \in Key, gone[k] > 0
                 PROVE  blob[k] = "none" /\ existence'[k] + gone[k] <= TTL + 1
      BY <1>2 DEF ClockInv
    <3>1. gone[k] \in Nat /\ TTL \in Nat
      BY <1>t, ConstantsAssumption DEF StoreType
    <3> QED
      BY <3>1, <2>4, <2>6, <1>t DEF ClockInv, StoreType
  <2>8. SeenMove(u)
    <3>1. \A k \in Key : /\ existence'[k] > 0 => StoredNext(k)
                         /\ Stored(k) => StoredNext(k)
                         /\ gone[k] <= 1 => gone'[k] <= 1
      BY <2>4, <2>6, <1>2 DEF SeenInv, Stored, StoredNext
    <3> QED
      BY <2>2, <2>3, <2>4, <2>5, <2>7, <3>1, <1>2 DEF SeenMove
  <2> QED
    BY <2>2, <2>8, UploadMoves
<1>b. CASE UNCHANGED existence
  BY <1>b, <1>2, <1>3, EndQuietly
<1> QED
  BY <1>a, <1>b DEF StoreExistence

-----------------------------------------------------------------------------
(* The downloads.                                                           *)

LEMMA DownloadMoves ==
  ASSUME IInv, NEW w \in Download, NEW q \in DownRec, down' = [down EXCEPT ![w] = q],
         q.got \in {"none", "good"}, Fault \/ UNCHANGED faults,
         UNCHANGED <<kind, blob, gone, existence, secret, client, up>>
  PROVE  IInv'
<1> USE DEF IInv
<1>1. down' \in [Download -> DownRec] /\ NoUnverifiedByte'
  BY TypeParts DEF NoUnverifiedByte
<1>2. TypeOK'
  BY <1>1, FaultBound DEF TypeOK, DownRec
<1>3. SeenInv' /\ ClockInv' /\ DataInv'
  BY DEF SeenInv, Stored, ClockInv, DataInv
<1>4. HealInv'
  BY DEF HealInv, NoStaleLoad, Proved
<1> QED
  BY <1>1, <1>2, <1>3, <1>4

LEMMA DownloadEnds ==
  ASSUME IInv, NEW w \in Download, NEW out \in {"ok", "failed"}, EndDown(w, out),
         Fault \/ UNCHANGED faults,
         UNCHANGED <<kind, blob, gone, existence, secret, client, up>>
  PROVE  IInv'
<1> DEFINE q == [IdleDown EXCEPT !.pc = "done", !.got = down[w].got, !.out = out]
<1>1. down[w].got \in {"none", "good"}
  BY DEF IInv, NoUnverifiedByte
<1>2. q \in DownRec /\ q.got \in {"none", "good"}
  BY <1>1, IdleDownFacts DEF DownRec, Content
<1>3. down' = [down EXCEPT ![w] = q]
  BY DEF EndDown
<1> HIDE DEF q
<1> QED
  BY <1>2, <1>3, DownloadMoves

LEMMA DownloadInv ==
  ASSUME IInv, NEW w \in Download, ReadStart(w) \/ DownloadStep(w)
  PROVE  IInv'
<1> USE DEF IInv
<1>t. down \in [Download -> DownRec] /\ down[w] \in DownRec /\ ClientType
      /\ down[w].got \in {"none", "good"}
  BY TypeParts DEF NoUnverifiedByte
<1>1. CASE ReadStart(w)
  <2>1. PICK b \in Backend, d \in Digest, pc \in {"stage", "describe"} :
          \/ /\ down' = [down EXCEPT ![w] = [IdleDown EXCEPT !.pc = pc, !.b = b, !.d = d, !.gen = secret[b]]]
             /\ UNCHANGED faults
          \/ /\ Fault
             /\ down' = [down EXCEPT ![w] = [IdleDown EXCEPT !.pc = "done", !.out = "failed"]]
    BY <1>1 DEF ReadStart
  <2>2. UNCHANGED <<kind, blob, gone, existence, secret, client, up>>
    BY <1>1 DEF ReadStart
  <2> DEFINE q1 == [IdleDown EXCEPT !.pc = pc, !.b = b, !.d = d, !.gen = secret[b]]
             q2 == [IdleDown EXCEPT !.pc = "done", !.out = "failed"]
  <2>3. q1 \in DownRec /\ q1.got = "none"
    BY <1>t, IdleDownFacts DEF DownRec, ClientType
  <2>4. q2 \in DownRec /\ q2.got = "none"
    BY IdleDownFacts DEF DownRec
  <2> HIDE DEF q1, q2
  <2>5. CASE down' = [down EXCEPT ![w] = q1] /\ UNCHANGED faults
    BY <2>2, <2>3, <2>5, DownloadMoves
  <2>6. CASE Fault /\ down' = [down EXCEPT ![w] = q2]
    BY <2>2, <2>4, <2>6, DownloadMoves
  <2> QED
    BY <2>1, <2>5, <2>6 DEF q1, q2
<1>2. CASE DescribeHTTP(w)
  <2>1. UNCHANGED <<kind, blob, gone, existence, secret, client, up>>
    BY <1>2 DEF DescribeHTTP
  <2>2. CASE down' = [down EXCEPT ![w].pc = "stage"] /\ UNCHANGED faults
    <3> DEFINE q == [down[w] EXCEPT !.pc = "stage"]
    <3>1. q \in DownRec /\ q.got = down[w].got
      BY <1>t DEF DownRec
    <3>2. down' = [down EXCEPT ![w] = q]
      BY <2>2, <1>t
    <3> HIDE DEF q
    <3> QED
      BY <2>1, <2>2, <3>1, <3>2, <1>t, DownloadMoves
  <2>3. CASE EndDown(w, "failed") /\ (Fault \/ UNCHANGED faults)
    BY <2>1, <2>3, DownloadEnds
  <2> QED
    BY <1>2, <2>2, <2>3 DEF DescribeHTTP
<1>3. CASE StageDownload(w)
  <2>1. UNCHANGED <<kind, blob, gone, existence, secret, client, up>>
    BY <1>3 DEF StageDownload
  <2>2. CASE down' = [down EXCEPT ![w].pc = "send", ![w].got = "good"] /\ UNCHANGED faults
    <3> DEFINE q == [down[w] EXCEPT !.pc = "send", !.got = "good"]
    <3>1. q \in DownRec /\ q.got = "good"
      BY <1>t DEF DownRec, Content
    <3>2. down' = [down EXCEPT ![w] = q]
      BY <2>2, <1>t
    <3> HIDE DEF q
    <3> QED
      BY <2>1, <2>2, <3>1, <3>2, DownloadMoves
  <2>3. CASE \E out \in {"failed", "ok"} : EndDown(w, out) /\ (Fault \/ UNCHANGED faults)
    BY <2>1, <2>3, DownloadEnds
  <2> QED
    BY <1>3, <2>2, <2>3 DEF StageDownload
<1>4. CASE SendStaged(w)
  <2>1. UNCHANGED <<kind, blob, gone, existence, secret, client, up, faults>>
    BY <1>4 DEF SendStaged
  <2>2. CASE down' = [down EXCEPT ![w].pc = "done", ![w].out = "ok"]
    <3> DEFINE q == [down[w] EXCEPT !.pc = "done", !.out = "ok"]
    <3>1. q \in DownRec /\ q.got = down[w].got
      BY <1>t DEF DownRec
    <3>2. down' = [down EXCEPT ![w] = q]
      BY <2>2, <1>t
    <3> HIDE DEF q
    <3> QED
      BY <2>1, <2>2, <3>1, <3>2, <1>t, DownloadMoves
  <2>3. CASE EndDown(w, "failed")
    BY <2>1, <2>3, DownloadEnds
  <2> QED
    BY <1>4, <2>2, <2>3 DEF SendStaged
<1> QED
  BY <1>1, <1>2, <1>3, <1>4 DEF DownloadStep

-----------------------------------------------------------------------------
(* The environment.                                                         *)

\* The stores and the clocks change, and the requests stay where they are.
LEMMA StoresMove ==
  ASSUME IInv, UNCHANGED <<kind, secret, client, up, down>>, StoreType', ClockInv',
         \A k \in Key : /\ existence'[k] > 0 => StoredNext(k)
                        /\ Stored(k) => StoredNext(k),
         \/ \A k \in Key : gone[k] <= 1 => gone'[k] <= 1
         \/ \A u \in Upload : up[u].pc \notin {"describe", "store"}
  PROVE  IInv'
<1> USE DEF IInv
<1>t. up \in [Upload -> UpRec]
  BY TypeParts
<1>1. TypeOK'
  BY DEF TypeOK, StoreType
<1>2. SeenInv'
  BY <1>t, UpTyped DEF SeenInv, Stored, StoredNext
<1>3. DataInv' /\ NoUnverifiedByte'
  BY DEF DataInv, NoUnverifiedByte
<1>4. HealInv'
  BY DEF HealInv, NoStaleLoad, Proved
<1> QED
  BY <1>1, <1>2, <1>3, <1>4

LEMMA PurgeStep ==
  ASSUME IInv, NEW k0 \in Key, Purge(k0)
  PROVE  IInv'
<1> USE DEF IInv
<1>t. StoreType
  BY TypeParts
<1>1. /\ blob' = [blob EXCEPT ![k0] = "none"] /\ gone' = [gone EXCEPT ![k0] = 1]
      /\ UNCHANGED <<kind, existence, secret, client, up, down>>
  BY DEF Purge
<1>2. blob'[k0] = "none" /\ gone'[k0] = 1
      /\ \A k \in Key : k # k0 => blob'[k] = blob[k] /\ gone'[k] = gone[k]
  BY <1>1, <1>t DEF StoreType
<1>3. StoreType'
  BY <1>1, <1>t, FaultBound, ConstantsAssumption DEF StoreType, Purge, Content
<1>4. ClockInv'
  <2>1. existence[k0] + 1 <= TTL + 1
    BY <1>t, ConstantsAssumption DEF StoreType
  <2> QED
    BY <1>1, <1>2, <2>1 DEF ClockInv
<1>5. \A k \in Key : /\ existence'[k] > 0 => StoredNext(k)
                     /\ Stored(k) => StoredNext(k)
                     /\ gone[k] <= 1 => gone'[k] <= 1
  BY <1>1, <1>2 DEF SeenInv, Stored, StoredNext
<1> QED
  BY <1>1, <1>3, <1>4, <1>5, StoresMove

LEMMA ReplaceStep ==
  ASSUME IInv, NEW k0 \in Key, NEW c \in {"bad", "foreign"}, Replace(k0, c)
  PROVE  IInv'
<1> USE DEF IInv
<1>t. StoreType
  BY TypeParts
<1>1. /\ blob[k0] = "good" /\ blob' = [blob EXCEPT ![k0] = c]
      /\ UNCHANGED <<kind, gone, existence, secret, client, up, down>>
  BY DEF Replace
<1>2. blob'[k0] = c /\ \A k \in Key : k # k0 => blob'[k] = blob[k]
  BY <1>1, <1>t DEF StoreType
<1>3. StoreType'
  BY <1>1, <1>t, FaultBound DEF StoreType, Replace, Content
<1>4. ClockInv'
  BY <1>1, <1>2 DEF ClockInv
<1>5. \A k \in Key : /\ existence'[k] > 0 => StoredNext(k)
                     /\ Stored(k) => StoredNext(k)
                     /\ gone[k] <= 1 => gone'[k] <= 1
  BY <1>1, <1>2 DEF SeenInv, Stored, StoredNext
<1> QED
  BY <1>1, <1>3, <1>4, <1>5, StoresMove

LEMMA TickStep ==
  ASSUME IInv, Tick
  PROVE  IInv'
<1> USE DEF IInv
<1>t. StoreType
  BY TypeParts
<1>1. /\ existence' = [k \in Key |-> IF existence[k] > 0 THEN existence[k] - 1 ELSE 0]
      /\ gone' = [k \in Key |-> IF gone[k] \in 1 .. TTL THEN gone[k] + 1 ELSE gone[k]]
      /\ \A u \in Upload : up[u].pc \notin {"describe", "store"}
      /\ UNCHANGED <<kind, blob, secret, client, up, down, faults>>
  BY DEF Tick
<1>2. \A k \in Key :
        /\ existence'[k] = (IF existence[k] > 0 THEN existence[k] - 1 ELSE 0)
        /\ gone'[k] = (IF gone[k] \in 1 .. TTL THEN gone[k] + 1 ELSE gone[k])
        /\ existence[k] \in 0 .. TTL /\ gone[k] \in 0 .. TTL + 1
  BY <1>1, <1>t DEF StoreType
<1>3. StoreType'
  <2>1. \A k \in Key : existence'[k] \in 0 .. TTL /\ gone'[k] \in 0 .. TTL + 1
    BY <1>2, ConstantsAssumption
  <2> QED
    BY <1>1, <1>t, <2>1 DEF StoreType
<1>4. ClockInv'
  BY <1>1, <1>2, ConstantsAssumption DEF ClockInv
<1>5. \A k \in Key : /\ existence'[k] > 0 => StoredNext(k)
                     /\ Stored(k) => StoredNext(k)
  BY <1>1, <1>2, ConstantsAssumption DEF SeenInv, Stored, StoredNext
<1> QED
  BY <1>1, <1>3, <1>4, <1>5, StoresMove

LEMMA EvictStep ==
  ASSUME IInv, NEW b \in Backend, Evict(b)
  PROVE  IInv'
<1> USE DEF IInv
<1>t. ClientType
  BY TypeParts
<1>1. /\ client' = [client EXCEPT ![b] = NoClient]
      /\ UNCHANGED <<kind, blob, gone, existence, secret, up, down, faults>>
  BY DEF Evict
<1>2. ClientType' /\ \A c \in Backend : client'[c] \in {client[c], NoClient}
  BY <1>1, <1>t DEF ClientType
<1>3. TypeOK'
  BY <1>1, <1>2 DEF TypeOK, ClientType
<1>4. SeenInv' /\ ClockInv' /\ DataInv' /\ NoUnverifiedByte'
  BY <1>1 DEF SeenInv, Stored, ClockInv, DataInv, NoUnverifiedByte
<1>5. HealInv'
  BY <1>1, <1>2, TypeParts, UpTyped DEF HealInv, NoStaleLoad, Proved
<1> QED
  BY <1>3, <1>4, <1>5

LEMMA RotateStep ==
  ASSUME IInv, NEW b \in Backend, Rotate(b)
  PROVE  IInv'
<1> USE DEF IInv
<1>t. up \in [Upload -> UpRec] /\ ClientType
  BY TypeParts
<1>1. /\ secret' = [secret EXCEPT ![b] = @ + 1]
      /\ up' = [u \in Upload |-> IF up[u].b = b THEN [up[u] EXCEPT !.fresh = FALSE] ELSE up[u]]
      /\ UNCHANGED <<kind, blob, gone, existence, client, down>>
  BY DEF Rotate
<1>2. \A c \in Backend : c # b => secret'[c] = secret[c]
  BY <1>1, <1>t DEF ClientType
<1>3. \A u \in Upload :
        /\ up'[u] \in UpRec
        /\ up'[u].pc = up[u].pc /\ up'[u].b = up[u].b /\ up'[u].d = up[u].d
        /\ up'[u].data = up[u].data /\ up'[u].gen = up[u].gen /\ up'[u].out = up[u].out
        /\ up[u].b # b => up'[u] = up[u]
        /\ up'[u].fresh => up[u].b # b
  BY <1>1, <1>t DEF UpRec
<1>4. up' \in [Upload -> UpRec] /\ ClientType'
  BY <1>1, <1>3, <1>t DEF ClientType
<1>5. TypeOK'
  BY <1>1, <1>4, FaultBound DEF Rotate, TypeOK, ClientType, UpRec, UpPC
<1>6. SeenInv' /\ ClockInv' /\ DataInv' /\ NoUnverifiedByte'
  BY <1>1, <1>3 DEF SeenInv, Stored, ClockInv, DataInv, NoUnverifiedByte
<1>7. HealInv'
  <2> SUFFICES ASSUME NEW u \in Upload, up'[u].fresh
               PROVE  /\ NoStaleLoadNext(up'[u].b)
                      /\ up'[u].attempt = 1 => client'[up'[u].b] \in {NoClient, secret'[up'[u].b]}
                      /\ kind' = "object" =>
                           /\ Proved(up'[u]) => up'[u].gen = secret'[up'[u].b]
                           /\ up'[u].out # "stale"
    BY DEF HealInv, NoStaleLoad, NoStaleLoadNext, Proved
  <2>1. up'[u] = up[u] /\ up[u].b # b /\ up[u].b \in Backend
    BY <1>3, <1>t, UpTyped
  <2>2. secret'[up[u].b] = secret[up[u].b]
    BY <2>1, <1>2
  <2>3. NoStaleLoadNext(up[u].b)
    BY <2>1, <2>2, <1>3 DEF HealInv, NoStaleLoad, NoStaleLoadNext
  <2> QED
    BY <2>1, <2>2, <2>3, <1>1 DEF HealInv
<1> QED
  BY <1>5, <1>6, <1>7

LEMMA CrashStep ==
  ASSUME IInv, Crash
  PROVE  IInv'
<1> USE DEF IInv
<1>t. up \in [Upload -> UpRec] /\ ClientType /\ StoreType /\ down \in [Download -> DownRec]
  BY TypeParts
<1>1. /\ client' = [b \in Backend |-> NoClient]
      /\ up' = [u \in Upload |-> IF up[u].pc \in {"idle", "done"} THEN up[u] ELSE Ended(up[u], "failed")]
      /\ UNCHANGED <<kind, blob, gone, secret>>
  BY DEF Crash
<1>2. \A u \in Upload :
        /\ up'[u] \in UpRec
        /\ up'[u].pc \in {"idle", "done"} /\ up'[u].b = up[u].b /\ up'[u].d = up[u].d
        /\ up'[u].data = "good" /\ up'[u].out \in {up[u].out, "failed"}
        /\ up'[u].fresh = up[u].fresh
  BY <1>1, <1>t, EndedFacts DEF DataInv
<1>3. existence' \in [Key -> 0 .. TTL] /\ \A k \in Key : existence'[k] \in {existence[k], 0}
  BY <1>t, ConstantsAssumption DEF Crash, StoreType
<1>4. down' \in [Download -> DownRec] /\ NoUnverifiedByte'
  <2> DEFINE q == [IdleDown EXCEPT !.pc = "done", !.out = "failed"]
  <2>1. q \in DownRec /\ q.got = "none"
    BY IdleDownFacts DEF DownRec
  <2>2. down' = [w \in Download |-> IF down[w].pc \in {"idle", "done"} THEN down[w] ELSE q]
    BY DEF Crash
  <2> HIDE DEF q
  <2> QED
    BY <2>1, <2>2, <1>t DEF NoUnverifiedByte
<1>5. TypeOK'
  <2>1. up' \in [Upload -> UpRec] /\ ClientType'
    BY <1>1, <1>2, <1>t DEF ClientType
  <2>2. StoreType'
    BY <1>1, <1>3, <1>t, FaultBound DEF Crash, StoreType
  <2> QED
    BY <2>1, <2>2, <1>4 DEF TypeOK, ClientType, StoreType, UpRec, UpPC, DownRec
<1>6. SeenInv' /\ DataInv'
  BY <1>1, <1>2, <1>3 DEF SeenInv, Stored, DataInv
<1>7. ClockInv'
  BY <1>1, <1>3, <1>t DEF ClockInv, StoreType
<1>8. HealInv'
  <2>1. \A u \in Upload : client'[up[u].b] = NoClient
    BY <1>1, <1>t, UpTyped
  <2>2. \A u \in Upload : up'[u].pc # "add" /\ ~Proved(up'[u])
    BY <1>2 DEF Proved
  <2> QED
    BY <1>1, <1>2, <2>1, <2>2 DEF HealInv, NoStaleLoad, Proved
<1> QED
  BY <1>4, <1>5, <1>6, <1>7, <1>8

-----------------------------------------------------------------------------
(* The theorems.                                                            *)

LEMMA NextInv == IInv /\ [Next]_vars => IInv'
<1> SUFFICES ASSUME IInv, [Next]_vars PROVE IInv'
  OBVIOUS
<1>1. ASSUME NEW u \in Upload, LookupExistence(u) \/ UploadStep(u) PROVE IInv'
  BY <1>1, LookupStep, ReuseStep, LoadStep, AddStep, CheckStep, DescribeStep, SpillStep,
     UploadBackendStep, StoreStep DEF UploadStep
<1>2. ASSUME NEW w \in Download, ReadStart(w) \/ DownloadStep(w) PROVE IInv'
  BY <1>2, DownloadInv
<1>3. CASE Environment
  BY <1>3, PurgeStep, ReplaceStep, RotateStep, EvictStep, TickStep, CrashStep DEF Environment
<1>4. CASE UNCHANGED vars
  BY <1>4 DEF vars, IInv, TypeOK, SeenInv, Stored, ClockInv, DataInv, HealInv, NoStaleLoad,
     Proved, NoUnverifiedByte
<1> QED
  BY <1>1, <1>2, <1>3, <1>4 DEF Next

LEMMA Invariance == Spec => []IInv
  BY InitInv, NextInv, PTL DEF Spec

\* Well-formed caches and requests (Write, loadUploadBackend, casexistence): an
\* upload is retried at most once, and an entry of the existence cache outlives a
\* purge of its blob by at most the TTL, whatever the number of uploads racing.
THEOREM CachesAreConsistent == Spec => []CachesConsistent
<1>1. IInv => CachesConsistent
  <2> SUFFICES ASSUME IInv PROVE CachesConsistent
    OBVIOUS
  <2>1. StaleEntryBounded
    <3> SUFFICES ASSUME NEW k \in Key, blob[k] = "none", existence[k] > 0
                 PROVE  gone[k] \in 1 .. TTL
      BY DEF StaleEntryBounded
    <3>1. existence[k] \in 0 .. TTL /\ gone[k] \in 0 .. TTL + 1 /\ TTL \in Nat
      BY ConstantsAssumption DEF IInv, TypeOK
    <3>2. gone[k] > 0
      BY DEF IInv, SeenInv, Stored
    <3>3. existence[k] + gone[k] <= TTL + 1
      BY <3>2 DEF IInv, ClockInv
    <3> QED
      BY <3>1, <3>2, <3>3
  <2> QED
    BY <2>1 DEF IInv, CachesConsistent
<1> QED
  BY <1>1, Invariance, PTL

\* An acknowledged upload has its blob in the backend of its token, unless it was
\* purged outside Chainloop (Write): neither a cached answer nor a failed call of
\* the backend acknowledges an artifact that was never stored.
THEOREM AckedAreStored == Spec => []AckedStored
<1>1. IInv => AckedStored
  BY DEF IInv, SeenInv, Stored, AckedStored
<1> QED
  BY <1>1, Invariance, PTL

\* No client of a download gets bytes that do not hash to the digest it asked for,
\* whatever is replaced in the backend meanwhile (stageAndVerify).
THEOREM OnlyVerifiedBytes == Spec => []NoUnverifiedByte
<1>1. IInv => NoUnverifiedByte
  BY DEF IInv
<1> QED
  BY <1>1, Invariance, PTL

\* After a rotation, an upload to an object store that began when nobody was about
\* to cache the old credentials does not fail because of them, for every number
\* of uploads sharing the cached client (backendExists, dropUploadBackend).
THEOREM RotationsHeal == Spec => []RotationHeals
<1>1. IInv => RotationHeals
  BY DEF IInv, HealInv, RotationHeals
<1> QED
  BY <1>1, Invariance, PTL

\* What a request changes in a backend is verified content: no step of an upload,
\* a crash in the middle of one included, leaves under a digest bytes that do not
\* hash to it (spillVerifyUpload).
THEOREM ContentIsCanonical == Spec => CanonicalContent
<1>1. IInv /\ [Next]_vars =>
        [\A k \in Key : up' # up /\ blob'[k] # blob[k] => blob'[k] = "good"]_vars
  <2> SUFFICES ASSUME IInv, Next, NEW k \in Key, up' # up, blob'[k] # blob[k]
               PROVE  blob'[k] = "good"
    OBVIOUS
  <2>1. PICK u \in Upload : UploadBackend(u)
    BY DEF Next, LookupExistence, UploadStep, ReuseClient, LoadClient, AddClient, CheckExists,
       DescribeFound, SpillVerify, StoreExistence, ReadStart, DownloadStep, DescribeHTTP,
       StageDownload, SendStaged, Environment, Purge, Replace, Rotate, Evict, Tick, Crash
  <2>2. Put(up[u]) /\ UNCHANGED <<kind, existence>> /\ (Fault \/ UNCHANGED faults)
    BY <2>1 DEF UploadBackend
  <2> QED
    BY <2>2, FaultBound, PutFacts
<1> QED
  BY <1>1, Invariance, PTL DEF Spec, CanonicalContent

-----------------------------------------------------------------------------
(* The CAS implements the verified store.                                   *)

\* An upload has an answer only when it has ended.
OpenInv == \A u \in Upload : up[u].pc # "done" => up[u].out = "none"

\* What an upload that ends leaves behind.
LEMMA EndFacts ==
  ASSUME IInv, NEW u \in Upload, NEW out \in {"ok", "failed", "stale"}, EndUp(u, out)
  PROVE  /\ up'[u].pc = "done" /\ up'[u].out = out
         /\ up'[u].b = up[u].b /\ up'[u].d = up[u].d
         /\ \A v \in Upload \ {u} : up'[v] = up[v]
<1>1. up \in [Upload -> UpRec] /\ up[u] \in UpRec
  BY TypeParts DEF IInv
<1>2. up'[u] = Ended(up[u], out) /\ \A v \in Upload \ {u} : up'[v] = up[v]
  BY <1>1 DEF EndUp
<1> QED BY <1>1, <1>2, EndedFacts

\* An upload that goes on, or ends without an acknowledgement, changes no receipt.
LEMMA StaysOpen ==
  ASSUME OpenInv, NEW u \in Upload, up[u].pc # "done", up'[u].out # "ok",
         up'[u].pc # "done" => up'[u].out = "none",
         \A v \in Upload \ {u} : up'[v] = up[v]
  PROVE  UNCHANGED Receipts /\ OpenInv'
<1>1. up[u].out = "none"
  BY DEF OpenInv
<1>2. OpenInv'
  BY DEF OpenInv
<1>3. ASSUME NEW v \in Upload
      PROVE  (IF up'[v].out = "ok" THEN KeyOf(up'[v]) ELSE NoKey)
             = IF up[v].out = "ok" THEN KeyOf(up[v]) ELSE NoKey
  BY <1>1
<1>4. UNCHANGED Receipts
  BY <1>3 DEF Receipts, KeyOf
<1> QED BY <1>2, <1>4

\* The steps of an upload before it writes to the backend or answers.
LEMMA QuietUpload ==
  ASSUME IInv, OpenInv, NEW u \in Upload,
         ReuseClient(u) \/ LoadClient(u) \/ AddClient(u) \/ CheckExists(u) \/ SpillVerify(u)
  PROVE  UNCHANGED Receipts /\ OpenInv'
<1>0. up \in [Upload -> UpRec] /\ up[u] \in UpRec
  BY TypeParts DEF IInv
<1>1. up[u].pc # "done" /\ up[u].out = "none"
  BY DEF OpenInv, ReuseClient, LoadClient, AddClient, CheckExists, SpillVerify
<1>2. ASSUME NEW out \in {"failed", "stale"}, EndUp(u, out)
      PROVE  UNCHANGED Receipts /\ OpenInv'
  BY <1>1, <1>2, EndFacts, StaysOpen
<1>3. ASSUME NEW q \in UpRec, up' = [up EXCEPT ![u] = q], q.out = "none"
      PROVE  UNCHANGED Receipts /\ OpenInv'
  BY <1>0, <1>1, <1>3, StaysOpen
<1>4. ASSUME NEW pc \in UpPC, up' = [up EXCEPT ![u].pc = pc]
      PROVE  UNCHANGED Receipts /\ OpenInv'
  <2>1. up'[u].out = "none" /\ \A v \in Upload \ {u} : up'[v] = up[v]
    BY <1>0, <1>1, <1>4 DEF UpRec
  <2> QED BY <1>1, <2>1, StaysOpen
<1>5. CASE ReuseClient(u)
  <2>1. up'[u].out = "none" /\ \A v \in Upload \ {u} : up'[v] = up[v]
    BY <1>0, <1>1, <1>5 DEF ReuseClient, UpRec
  <2> QED BY <1>1, <2>1, StaysOpen
<1>6. CASE LoadClient(u)
  <2>1. CASE up' = [up EXCEPT ![u].pc = "add", ![u].gen = secret[up[u].b], ![u].cached = FALSE]
    <3>1. up'[u].out = "none" /\ \A v \in Upload \ {u} : up'[v] = up[v]
      BY <1>0, <1>1, <2>1 DEF UpRec
    <3> QED BY <1>1, <3>1, StaysOpen
  <2> QED BY <1>2, <1>6, <2>1 DEF LoadClient
<1>7. CASE AddClient(u)
  BY <1>4, <1>7 DEF AddClient, UpPC
<1>8. CASE CheckExists(u)
  <2>1. ASSUME DropAndRetry(u) PROVE UNCHANGED Receipts /\ OpenInv'
    <3>1. CASE up[u].cached /\ up[u].attempt = 0
      <4>1. up' = [up EXCEPT ![u].pc = "load", ![u].attempt = 1]
        BY <2>1, <3>1 DEF DropAndRetry
      <4>2. up'[u].out = "none" /\ \A v \in Upload \ {u} : up'[v] = up[v]
        BY <1>0, <1>1, <4>1 DEF UpRec
      <4> QED BY <1>1, <4>2, StaysOpen
    <3>2. CASE ~(up[u].cached /\ up[u].attempt = 0)
      <4>1. EndUp(u, "stale") \/ EndUp(u, "failed")
        BY <2>1, <3>2 DEF DropAndRetry
      <4> QED BY <1>2, <4>1
    <3> QED BY <3>1, <3>2
  <2>2. CASE up' = [up EXCEPT ![u].pc = IF Found(up[u]) /\ ~Stale(up[u]) THEN "describe" ELSE "spill"]
    <3>1. (IF Found(up[u]) /\ ~Stale(up[u]) THEN "describe" ELSE "spill") \in UpPC
      BY DEF UpPC
    <3> QED BY <1>4, <2>2, <3>1
  <2>3. CASE up' = [up EXCEPT ![u].pc = "spill"]
    BY <1>4, <2>3 DEF UpPC
  <2> QED BY <1>8, <2>1, <2>2, <2>3 DEF CheckExists
<1>9. CASE SpillVerify(u)
  <2>1. CASE up' = [up EXCEPT ![u].pc = "upload", ![u].data = "good"]
    <3>1. up'[u].out = "none" /\ \A v \in Upload \ {u} : up'[v] = up[v]
      BY <1>0, <1>1, <2>1 DEF UpRec
    <3> QED BY <1>1, <3>1, StaysOpen
  <2> QED BY <1>2, <1>9, <2>1 DEF SpillVerify
<1> QED BY <1>5, <1>6, <1>7, <1>8, <1>9

\* An upload that answers "ok" gets a receipt for its key, if the object is there
\* or was purged within the TTL.
LEMMA Answers ==
  ASSUME IInv, OpenInv, NEW u \in Upload, NEW k \in Key,
         Stored(k), gone[k] <= TTL, up'[u].out = "ok", up'[u].pc = "done",
         up'[u].b = k[1], up'[u].d = k[2],
         \A v \in Upload \ {u} : up'[v] = up[v], UNCHANGED <<blob, gone, down>>
  PROVE  VS!Next /\ OpenInv'
<1>1. k = <<k[1], k[2]>> /\ gone[k] \in Nat
  BY DEF Key, IInv, TypeOK
<1>2. KeyOf(up[u])' = k
  BY <1>1 DEF KeyOf
<1>3. Receipts' = [Receipts EXCEPT ![u] = k]
  BY <1>2 DEF Receipts, KeyOf
<1>4. blob[k] # "none" \/ Lost[k] = "lately"
  BY <1>1 DEF Stored, Lost
<1>5. UNCHANGED <<Lost, Sending>>
  BY DEF Lost, Sending, KeyOf
<1>6. VS!Acknowledge(u, k)
  BY <1>3, <1>4, <1>5 DEF VS!Acknowledge
<1>7. OpenInv'
  BY DEF OpenInv
<1> QED BY <1>6, <1>7 DEF VS!Next

\* A lookup forgets the last answer, or answers from the existence cache.
LEMMA LookupServes ==
  ASSUME IInv, OpenInv, NEW u \in Upload, LookupExistence(u)
  PROVE  VS!Next /\ OpenInv'
<1>0. up \in [Upload -> UpRec]
  BY TypeParts DEF IInv
<1>1. PICK b \in Backend, d \in Digest :
        \/ up' = [up EXCEPT ![u] = [IdleUp EXCEPT !.pc = "load", !.b = b, !.d = d,
                                                  !.fresh = ~StaleLoads(b)]]
        \/ /\ existence[existenceKey(b, d)] > 0
           /\ up' = [up EXCEPT ![u] = [IdleUp EXCEPT !.pc = "done", !.b = b, !.d = d, !.out = "ok"]]
  BY DEF LookupExistence
<1>2. UNCHANGED <<blob, gone, down>> /\ \A v \in Upload \ {u} : up'[v] = up[v]
  BY <1>0, <1>1 DEF LookupExistence
<1>3. CASE up' = [up EXCEPT ![u] = [IdleUp EXCEPT !.pc = "load", !.b = b, !.d = d,
                                                  !.fresh = ~StaleLoads(b)]]
  <2>1. up'[u].out = "none" /\ up'[u].pc = "load"
    BY <1>0, <1>3, IdleUpFacts DEF UpRec
  <2>2. Receipts' = [Receipts EXCEPT ![u] = NoKey]
    BY <1>2, <2>1 DEF Receipts, KeyOf
  <2>3. UNCHANGED <<Lost, Sending>>
    BY <1>2 DEF Lost, Sending, KeyOf
  <2>4. VS!Forget(u)
    BY <1>2, <2>2, <2>3 DEF VS!Forget
  <2>5. OpenInv'
    BY <1>2, <2>1 DEF OpenInv
  <2> QED BY <2>4, <2>5 DEF VS!Next
<1>4. CASE /\ existence[existenceKey(b, d)] > 0
           /\ up' = [up EXCEPT ![u] = [IdleUp EXCEPT !.pc = "done", !.b = b, !.d = d, !.out = "ok"]]
  <2>1. PICK k \in Key : k = <<b, d>>
    BY DEF Key
  <2>2. up'[u].out = "ok" /\ up'[u].pc = "done" /\ up'[u].b = k[1] /\ up'[u].d = k[2]
    BY <1>0, <1>4, <2>1, IdleUpFacts DEF UpRec
  <2>3. existence[k] > 0 /\ Stored(k)
    BY <1>4, <2>1 DEF existenceKey, IInv, SeenInv
  <2>4. existence[k] \in Nat /\ gone[k] \in Nat /\ TTL \in Nat
    BY ConstantsAssumption DEF IInv, TypeOK
  <2>5. gone[k] > 0 => existence[k] + gone[k] <= TTL + 1
    BY DEF IInv, ClockInv
  <2>6. gone[k] <= TTL
    BY <2>3, <2>4, <2>5
  <2> QED BY <1>2, <2>2, <2>3, <2>6, Answers
<1> QED BY <1>1, <1>3, <1>4

\* The blob was found, or stored: the upload answers, or goes on to the cache.
LEMMA AnswerServes ==
  ASSUME IInv, OpenInv, NEW u \in Upload, DescribeFound(u) \/ StoreExistence(u)
  PROVE  (VS!Next \/ UNCHANGED VS!vars) /\ OpenInv'
<1>0. up \in [Upload -> UpRec] /\ up[u] \in UpRec
  BY TypeParts DEF IInv
<1>1. PICK k \in Key : k = <<up[u].b, up[u].d>>
  BY <1>0, UpTyped
<1>2. up[u].pc \in {"describe", "store"} /\ UNCHANGED <<blob, gone, down>>
  BY DEF DescribeFound, StoreExistence
<1>3. Stored(k) /\ gone[k] <= 1
  BY <1>1, <1>2 DEF IInv, SeenInv
<1>4. gone[k] <= TTL
  <2>1. gone[k] \in Nat /\ TTL \in Nat \ {0}
    BY ConstantsAssumption DEF IInv, TypeOK
  <2> QED BY <1>3, <2>1
<1>5. CASE EndUp(u, "ok")
  <2>1. /\ up'[u].out = "ok" /\ up'[u].pc = "done" /\ up'[u].b = k[1] /\ up'[u].d = k[2]
        /\ \A v \in Upload \ {u} : up'[v] = up[v]
    BY <1>1, <1>5, EndFacts
  <2> QED BY <1>2, <1>3, <1>4, <2>1, Answers
<1>6. CASE up' = [up EXCEPT ![u].pc = "store"]
  <2>1. up[u].pc # "done" /\ up[u].out = "none"
    BY <1>2 DEF OpenInv
  <2>2. up'[u].out = "none" /\ \A v \in Upload \ {u} : up'[v] = up[v]
    BY <1>0, <1>6, <2>1 DEF UpRec
  <2>3. UNCHANGED Receipts /\ OpenInv'
    BY <2>1, <2>2, StaysOpen
  <2>4. UNCHANGED VS!vars
    BY <1>2, <2>3 DEF VS!vars, Lost, Sending, KeyOf
  <2> QED BY <2>3, <2>4
<1> QED BY <1>5, <1>6 DEF DescribeFound, StoreExistence

\* The verified file reaches the backend, with an answer or without one.
LEMMA UploadServes ==
  ASSUME IInv, OpenInv, NEW u \in Upload, UploadBackend(u)
  PROVE  (VS!Next \/ UNCHANGED VS!vars) /\ OpenInv'
<1>0. up \in [Upload -> UpRec] /\ up[u] \in UpRec /\ StoreType
  BY TypeParts DEF IInv
<1>1. up[u].pc # "done" /\ up[u].out = "none" /\ down' = down /\ up[u].data = "good"
  BY DEF UploadBackend, OpenInv, IInv, DataInv
<1>2. UNCHANGED Receipts /\ OpenInv'
  <2>1. CASE EndUp(u, "stale") \/ EndUp(u, "failed")
    BY <1>1, <2>1, EndFacts, StaysOpen
  <2>2. CASE up' = [up EXCEPT ![u].pc = "store"]
    <3>1. up'[u].out = "none" /\ \A v \in Upload \ {u} : up'[v] = up[v]
      BY <1>0, <1>1, <2>2 DEF UpRec
    <3> QED BY <1>1, <3>1, StaysOpen
  <2> QED BY <2>1, <2>2 DEF UploadBackend
<1>3. UNCHANGED Sending
  BY <1>1 DEF Sending, KeyOf
<1>4. CASE UNCHANGED <<blob, gone>>
  BY <1>2, <1>3, <1>4 DEF VS!vars, Lost
<1>5. CASE Put(up[u])
  <2>1. PICK k \in Key : k = <<up[u].b, up[u].d>>
    BY <1>0, UpTyped
  <2>2. blob' = [blob EXCEPT ![k] = "good"] /\ gone' = [gone EXCEPT ![k] = 0]
    BY <1>1, <1>5, <2>1 DEF Put
  <2>3. Lost' = [Lost EXCEPT ![k] = "no"]
    BY <1>0, <2>2 DEF Lost, StoreType
  <2>4. VS!Put(k)
    BY <1>2, <1>3, <2>2, <2>3 DEF VS!Put
  <2> QED BY <1>2, <2>4 DEF VS!Next
<1> QED BY <1>4, <1>5 DEF UploadBackend

\* The downloads: one that staged the good blob sends it, the others send nothing.
LEMMA DownloadServes ==
  ASSUME IInv, OpenInv, NEW w \in Download, ReadStart(w) \/ DownloadStep(w)
  PROVE  (VS!Next \/ UNCHANGED VS!vars) /\ OpenInv'
<1>0. down \in [Download -> DownRec] /\ down[w] \in DownRec
  BY TypeParts DEF IInv
<1>1. UNCHANGED <<blob, gone, up>>
  BY DEF ReadStart, DownloadStep, DescribeHTTP, StageDownload, SendStaged
<1>2. OpenInv' /\ UNCHANGED <<Lost, Receipts>>
  BY <1>1 DEF OpenInv, Lost, Receipts, KeyOf
<1>3. ASSUME \A v \in Download \ {w} : down'[v] = down[v], down'[w].pc # "send"
      PROVE  VS!Next
  <2>1. PICK W : W = {w}
    OBVIOUS
  <2>2. Sending' = [v \in Download |-> IF v \in W THEN NoKey ELSE Sending[v]]
    BY <1>3, <2>1 DEF Sending, KeyOf
  <2>3. W \in SUBSET Download /\ VS!Close(W)
    BY <1>1, <1>2, <2>1, <2>2 DEF VS!Close
  <2> QED BY <2>3 DEF VS!Next
<1>4. ASSUME NEW out \in {"ok", "failed"}, EndDown(w, out) PROVE VS!Next
  <2>1. down'[w].pc = "done" /\ \A v \in Download \ {w} : down'[v] = down[v]
    BY <1>0, <1>4, IdleDownFacts DEF EndDown, DownRec
  <2> QED BY <1>3, <2>1
<1>5. CASE ReadStart(w)
  <2>1. down'[w].pc # "send" /\ \A v \in Download \ {w} : down'[v] = down[v]
    BY <1>0, <1>5, IdleDownFacts DEF ReadStart, DownRec
  <2> QED BY <1>2, <1>3, <2>1
<1>6. CASE DescribeHTTP(w)
  <2>1. CASE down' = [down EXCEPT ![w].pc = "stage"]
    <3>1. down'[w].pc # "send" /\ \A v \in Download \ {w} : down'[v] = down[v]
      BY <1>0, <2>1 DEF DownRec
    <3> QED BY <1>2, <1>3, <3>1
  <2> QED BY <1>2, <1>4, <1>6, <2>1 DEF DescribeHTTP
<1>7. CASE StageDownload(w)
  <2>1. CASE /\ blob[<<down[w].b, down[w].d>>] = "good"
             /\ down' = [down EXCEPT ![w].pc = "send", ![w].got = "good"]
    <3>1. PICK k \in Key : k = <<down[w].b, down[w].d>>
      BY <1>0 DEF Key, DownRec
    <3>2. /\ down'[w].pc = "send" /\ down'[w].got = "good"
          /\ down'[w].b = down[w].b /\ down'[w].d = down[w].d
          /\ \A v \in Download \ {w} : down'[v] = down[v]
      BY <1>0, <2>1 DEF DownRec
    <3>3. Sending' = [Sending EXCEPT ![w] = [key |-> k, bytes |-> "good"]]
      BY <3>1, <3>2 DEF Sending, KeyOf
    <3>4. VS!Send(w, k)
      BY <1>1, <1>2, <2>1, <3>1, <3>3 DEF VS!Send
    <3> QED BY <1>2, <3>4 DEF VS!Next
  <2> QED BY <1>2, <1>4, <1>7, <2>1 DEF StageDownload
<1>8. CASE SendStaged(w)
  <2>1. CASE down' = [down EXCEPT ![w].pc = "done", ![w].out = "ok"]
    <3>1. down'[w].pc # "send" /\ \A v \in Download \ {w} : down'[v] = down[v]
      BY <1>0, <2>1 DEF DownRec
    <3> QED BY <1>2, <1>3, <3>1
  <2> QED BY <1>2, <1>4, <1>8, <2>1 DEF SendStaged
<1> QED BY <1>5, <1>6, <1>7, <1>8 DEF DownloadStep

\* The environment: blobs lost and spoilt, time, rotations, evictions and crashes.
LEMMA EnvironmentServes ==
  ASSUME IInv, OpenInv, Environment
  PROVE  (VS!Next \/ UNCHANGED VS!vars) /\ OpenInv'
<1>0. StoreType /\ up \in [Upload -> UpRec] /\ TTL \in Nat \ {0}
  BY TypeParts, ConstantsAssumption DEF IInv
<1>1. ASSUME NEW k \in Key, Purge(k) PROVE (VS!Next \/ UNCHANGED VS!vars) /\ OpenInv'
  <2>1. /\ blob[k] # "none" /\ blob' = [blob EXCEPT ![k] = "none"]
        /\ gone' = [gone EXCEPT ![k] = 1] /\ UNCHANGED <<up, down>>
    BY <1>1 DEF Purge
  <2>2. gone \in [Key -> 0 .. TTL + 1]
    BY <1>0 DEF StoreType
  <2>3. Lost' = [Lost EXCEPT ![k] = "lately"]
    <3>1. ASSUME NEW j \in Key
          PROVE  (IF gone'[j] = 0 THEN "no" ELSE IF gone'[j] <= TTL THEN "lately" ELSE "long ago")
                 = IF j = k THEN "lately" ELSE Lost[j]
      <4>1. CASE j = k
        <5>1. gone'[j] = 1 /\ TTL \in Nat /\ 1 <= TTL
          BY <1>0, <2>2, <2>1, <4>1
        <5> QED BY <4>1, <5>1
      <4>2. CASE j # k
        <5>1. gone'[j] = gone[j]
          BY <2>2, <2>1, <4>2
        <5> QED BY <4>2, <5>1 DEF Lost
      <4> QED BY <4>1, <4>2
    <3> QED BY <3>1 DEF Lost
  <2>4. UNCHANGED <<Receipts, Sending>> /\ OpenInv'
    BY <2>1 DEF Receipts, Sending, KeyOf, OpenInv
  <2>5. VS!Lose(k)
    BY <2>1, <2>3, <2>4 DEF VS!Lose
  <2> QED BY <2>4, <2>5 DEF VS!Next
<1>2. ASSUME NEW k \in Key, NEW c \in {"bad", "foreign"}, Replace(k, c)
      PROVE  (VS!Next \/ UNCHANGED VS!vars) /\ OpenInv'
  <2>1. blob[k] = "good" /\ blob' = [blob EXCEPT ![k] = c] /\ UNCHANGED <<gone, up, down>>
    BY <1>2 DEF Replace
  <2>2. UNCHANGED <<Lost, Receipts, Sending>> /\ OpenInv'
    BY <2>1 DEF Lost, Receipts, Sending, KeyOf, OpenInv
  <2>3. VS!Spoil(k)
    BY <2>1, <2>2 DEF VS!Spoil
  <2> QED BY <2>2, <2>3 DEF VS!Next
<1>3. ASSUME NEW b \in Backend, Rotate(b) PROVE (VS!Next \/ UNCHANGED VS!vars) /\ OpenInv'
  <2>1. \A u \in Upload : /\ up'[u].out = up[u].out /\ up'[u].pc = up[u].pc
                          /\ up'[u].b = up[u].b /\ up'[u].d = up[u].d
    <3> SUFFICES ASSUME NEW u \in Upload
                 PROVE  /\ up'[u].out = up[u].out /\ up'[u].pc = up[u].pc
                        /\ up'[u].b = up[u].b /\ up'[u].d = up[u].d
      OBVIOUS
    <3>1. up'[u] = IF up[u].b = b THEN [up[u] EXCEPT !.fresh = FALSE] ELSE up[u]
      BY <1>3 DEF Rotate
    <3>2. up[u] \in UpRec
      BY <1>0
    <3> QED BY <3>1, <3>2 DEF UpRec
  <2>2. UNCHANGED <<blob, gone, down>>
    BY <1>3 DEF Rotate
  <2>3. UNCHANGED <<Lost, Receipts, Sending>> /\ OpenInv'
    BY <2>1, <2>2 DEF Lost, Receipts, Sending, KeyOf, OpenInv
  <2> QED BY <2>2, <2>3 DEF VS!vars
<1>4. ASSUME NEW b \in Backend, Evict(b) PROVE (VS!Next \/ UNCHANGED VS!vars) /\ OpenInv'
  BY <1>4 DEF Evict, VS!vars, Lost, Receipts, Sending, KeyOf, OpenInv
<1>5. CASE Tick
  <2>1. PICK S : S = {k \in Key : gone[k] = TTL}
    OBVIOUS
  <2>2. UNCHANGED <<blob, up, down>>
    BY <1>5 DEF Tick
  <2>3. \A k \in Key : gone[k] \in Nat /\ gone'[k] = IF gone[k] \in 1 .. TTL THEN gone[k] + 1 ELSE gone[k]
    BY <1>0, <1>5 DEF Tick, StoreType
  <2>4. ASSUME NEW k \in Key
        PROVE  (IF gone'[k] = 0 THEN "no" ELSE IF gone'[k] <= TTL THEN "lately" ELSE "long ago")
               = IF k \in S THEN "long ago" ELSE Lost[k]
    <3>1. gone[k] \in Nat /\ TTL \in Nat /\ TTL > 0
      BY <1>0, <2>3
    <3>2. Lost[k] = IF gone[k] = 0 THEN "no" ELSE IF gone[k] <= TTL THEN "lately" ELSE "long ago"
      BY DEF Lost
    <3>3. CASE gone[k] = TTL
      <4>1. k \in S /\ gone'[k] = TTL + 1
        BY <2>1, <2>3, <3>1, <3>3
      <4> QED BY <3>1, <4>1
    <3>4. CASE gone[k] # TTL
      <4>1. k \notin S
        BY <2>1, <3>4
      <4>2. gone'[k] = IF gone[k] \in 1 .. TTL THEN gone[k] + 1 ELSE gone[k]
        BY <2>3
      <4>3. /\ gone'[k] = 0 <=> gone[k] = 0
            /\ gone'[k] <= TTL <=> gone[k] <= TTL
        BY <3>1, <3>4, <4>2
      <4> QED BY <3>2, <4>1, <4>3
    <3> QED BY <3>3, <3>4
  <2>5. Lost' = [k \in Key |-> IF k \in S THEN "long ago" ELSE Lost[k]]
    BY <2>4 DEF Lost
  <2>6. S \in SUBSET Key /\ \A k \in S : Lost[k] = "lately"
    BY <1>0, <2>1 DEF Lost
  <2>7. UNCHANGED <<Receipts, Sending>> /\ OpenInv'
    BY <2>2 DEF Receipts, Sending, KeyOf, OpenInv
  <2>8. VS!Age(S)
    BY <2>2, <2>5, <2>6, <2>7 DEF VS!Age
  <2> QED BY <2>6, <2>7, <2>8 DEF VS!Next
<1>6. CASE Crash
  <2>1. /\ UNCHANGED <<blob, gone>>
        /\ up' = [u \in Upload |-> IF up[u].pc \in {"idle", "done"} THEN up[u]
                                   ELSE Ended(up[u], "failed")]
        /\ down' = [w \in Download |-> IF down[w].pc \in {"idle", "done"} THEN down[w]
                                       ELSE [IdleDown EXCEPT !.pc = "done", !.out = "failed"]]
    BY <1>6 DEF Crash
  <2>2. ASSUME NEW w \in Download PROVE down'[w].pc # "send"
    <3>1. [IdleDown EXCEPT !.pc = "done", !.out = "failed"].pc = "done"
      BY IdleDownFacts DEF DownRec
    <3>2. down'[w] = IF down[w].pc \in {"idle", "done"} THEN down[w]
                     ELSE [IdleDown EXCEPT !.pc = "done", !.out = "failed"]
      BY <2>1
    <3>3. CASE down[w].pc \in {"idle", "done"}
      BY <3>2, <3>3
    <3>4. CASE down[w].pc \notin {"idle", "done"}
      BY <3>1, <3>2, <3>4
    <3> QED BY <3>3, <3>4
  <2>3. ASSUME NEW u \in Upload
        PROVE  /\ up'[u] = up[u] \/ (up'[u].out = "failed" /\ up[u].out = "none" /\ up'[u].pc = "done")
    <3>1. CASE up[u].pc \in {"idle", "done"}
      BY <2>1, <3>1
    <3>2. CASE up[u].pc \notin {"idle", "done"}
      <4>1. up'[u] = Ended(up[u], "failed") /\ up[u] \in UpRec /\ up[u].out = "none"
        BY <1>0, <2>1, <3>2 DEF OpenInv
      <4> QED BY <4>1, EndedFacts
    <3> QED BY <3>1, <3>2
  <2>4. ASSUME NEW u \in Upload
        PROVE  (IF up'[u].out = "ok" THEN KeyOf(up'[u]) ELSE NoKey)
               = IF up[u].out = "ok" THEN KeyOf(up[u]) ELSE NoKey
    BY <2>3
  <2>5. UNCHANGED <<Lost, Receipts>> /\ OpenInv'
    BY <2>1, <2>3, <2>4 DEF Lost, Receipts, KeyOf, OpenInv
  <2>6. PICK W : W = Download
    OBVIOUS
  <2>7. Sending' = [w \in Download |-> IF w \in W THEN NoKey ELSE Sending[w]]
    BY <2>2, <2>6 DEF Sending
  <2>8. W \in SUBSET Download /\ VS!Close(W)
    BY <2>1, <2>5, <2>6, <2>7 DEF VS!Close
  <2> QED BY <2>5, <2>8 DEF VS!Next
<1> QED BY <1>1, <1>2, <1>3, <1>4, <1>5, <1>6 DEF Environment

LEMMA StepServes == IInv /\ OpenInv /\ [Next]_vars => [VS!Next]_(VS!vars) /\ OpenInv'
<1> SUFFICES ASSUME IInv, OpenInv, [Next]_vars
             PROVE  (VS!Next \/ UNCHANGED VS!vars) /\ OpenInv'
  OBVIOUS
<1>1. ASSUME NEW u \in Upload, LookupExistence(u) \/ UploadStep(u)
      PROVE  (VS!Next \/ UNCHANGED VS!vars) /\ OpenInv'
  <2>1. CASE ReuseClient(u) \/ LoadClient(u) \/ AddClient(u) \/ CheckExists(u) \/ SpillVerify(u)
    <3>1. UNCHANGED Receipts /\ OpenInv'
      BY <2>1, QuietUpload
    <3>2. UNCHANGED <<blob, gone, down>>
      BY <2>1 DEF ReuseClient, LoadClient, AddClient, CheckExists, SpillVerify
    <3> QED BY <3>1, <3>2 DEF VS!vars, Lost, Sending, KeyOf
  <2> QED
    BY <1>1, <2>1, LookupServes, AnswerServes, UploadServes DEF UploadStep
<1>2. ASSUME NEW w \in Download, ReadStart(w) \/ DownloadStep(w)
      PROVE  (VS!Next \/ UNCHANGED VS!vars) /\ OpenInv'
  BY <1>2, DownloadServes
<1>3. CASE Environment
  BY <1>3, EnvironmentServes
<1>4. CASE UNCHANGED vars
  BY <1>4 DEF vars, VS!vars, Lost, Receipts, Sending, KeyOf, OpenInv
<1> QED BY <1>1, <1>2, <1>3, <1>4 DEF Next

\* The artifact CAS implements the verified store (Write, Read, ServeHTTP), for
\* every number of uploads and downloads sharing the two caches, whatever calls
\* fail, blobs are purged or replaced, credentials rotated, and wherever it dies.
THEOREM CASImplementsVerifiedStore == Spec => ImplementsVerifiedStore
<1>1. Init => OpenInv /\ VS!Init
  <2> SUFFICES ASSUME Init PROVE OpenInv /\ VS!Init
    OBVIOUS
  <2>1. \A u \in Upload : up[u].out = "none"
    BY IdleUpFacts DEF Init
  <2>2. \A w \in Download : down[w].pc = "idle"
    BY DEF Init, IdleDown
  <2> QED BY <2>1, <2>2 DEF Init, OpenInv, VS!Init, Lost, Receipts, Sending
<1>2. Spec => []OpenInv
  BY <1>1, Invariance, StepServes, PTL DEF Spec
<1> QED BY <1>1, <1>2, Invariance, StepServes, PTL DEF Spec, ImplementsVerifiedStore, VS!Spec
=============================================================================
