---------------------------- MODULE ArtifactCAS ----------------------------
(***************************************************************************)
(* The artifact CAS: ByteStreamService.Write and Read, the HTTP download   *)
(* and the two caches of uploads, in front of the blob stores (OCI         *)
(* registry, S3, Azure).  A request is one step per external call; every   *)
(* call may fail, blobs may be purged or replaced outside Chainloop, the   *)
(* credentials of a backend may be rotated, and the server may crash.      *)
(* The bytes of an artifact are abstracted to whether they hash to the     *)
(* digest they are stored, sent or asked for under.  Both caches are       *)
(* enabled; "failed" is any end without an acknowledgement.                *)
(***************************************************************************)
EXTENDS Integers

CONSTANTS
  Upload,     \* slots of concurrent uploads
  Download,   \* slots of concurrent downloads
  Backend,    \* a backend of an organization: its type and secret reference
  Digest,
  Kind,       \* kinds of provider: "oci", "object" (S3, S3 access point, Azure)
  TTL,        \* life of an entry of the existence cache, in clock ticks
  MaxFaults   \* bound: failed calls, purges, corruptions, rotations, crashes

ASSUME ConstantsAssumption ==
  /\ Backend # {} /\ Digest # {}
  /\ Kind \subseteq {"oci", "object"}
  /\ TTL \in Nat \ {0}
  /\ MaxFaults \in Nat

VARIABLES
  kind,       \* the provider of the backends
  blob,       \* what a backend holds under a digest
  gone,       \* ticks since a blob was purged (at least 1; 0: not purged)
  existence,  \* ticks left of the existence cache's entry, 0: no entry
  secret,     \* generation of the credentials the provider accepts
  client,     \* generation of the cached client of a backend, or NoClient
  up, down,   \* the uploads and the downloads
  faults

vars == <<kind, blob, gone, existence, secret, client, up, down, faults>>

Key == Backend \X Digest
NoClient == -1
\* "bad": other bytes, with Chainloop's metadata; "foreign": an object that
\* Chainloop did not upload, or whose checksum in the store is another one
Content == {"none", "good", "bad", "foreign"}

\* fresh: nobody who loaded the credentials before the last rotation was about
\* to cache them when the upload began, and they were not rotated since.
IdleUp == [pc |-> "idle", b |-> CHOOSE b \in Backend : TRUE, d |-> CHOOSE d \in Digest : TRUE,
           data |-> "good", gen |-> NoClient, cached |-> FALSE, attempt |-> 0,
           fresh |-> FALSE, out |-> "none"]

IdleDown == [pc |-> "idle", b |-> CHOOSE b \in Backend : TRUE, d |-> CHOOSE d \in Digest : TRUE,
             gen |-> NoClient, got |-> "none", out |-> "none"]

Init ==
  /\ kind \in Kind
  /\ blob = [k \in Key |-> "none"]
  /\ gone = [k \in Key |-> 0]
  /\ existence = [k \in Key |-> 0]
  /\ secret = [b \in Backend |-> 0]
  /\ client = [b \in Backend |-> NoClient]
  /\ up = [u \in Upload |-> IdleUp]
  /\ down = [w \in Download |-> IdleDown]
  /\ faults = 0

-----------------------------------------------------------------------------
\* casexistence.Key: an entry belongs to one backend of one organization.
existenceKey(b, d) == <<b, d>>

Fault == faults < MaxFaults /\ faults' = faults + 1

\* What is left of a request that has ended.
Ended(r, out) == [IdleUp EXCEPT !.pc = "done", !.b = r.b, !.d = r.d, !.fresh = r.fresh, !.out = out]
EndUp(u, out) == up' = [up EXCEPT ![u] = Ended(@, out)]
EndDown(w, out) == down' = [down EXCEPT ![w] = [IdleDown EXCEPT !.pc = "done", !.got = down[w].got, !.out = out]]

StaleLoads(b) == \E u \in Upload : up[u].pc = "add" /\ up[u].b = b /\ up[u].gen # secret[b]

\* Write: the token and the resource name are checked, then the existence cache.
\* A cached blob ends the request; an error of the cache is a miss.
\* Mutant: a hit renews the entry.
LookupRenews(u) ==
  /\ up[u].pc \in {"idle", "done"}
  /\ \E b \in Backend, d \in Digest :
       /\ \/ up' = [up EXCEPT ![u] = [IdleUp EXCEPT !.pc = "load", !.b = b, !.d = d,
                                                     !.fresh = ~StaleLoads(b)]]
          \/ /\ existence[existenceKey(b, d)] > 0
             /\ up' = [up EXCEPT ![u] = [IdleUp EXCEPT !.pc = "done", !.b = b, !.d = d, !.out = "ok"]]
       /\ existence' = [existence EXCEPT ![existenceKey(b, d)] = IF @ > 0 THEN TTL ELSE 0]
  /\ UNCHANGED <<kind, blob, gone, secret, client, down, faults>>

LookupExistence(u) ==
  /\ up[u].pc \in {"idle", "done"}
  /\ \E b \in Backend, d \in Digest :
       \/ up' = [up EXCEPT ![u] = [IdleUp EXCEPT !.pc = "load", !.b = b, !.d = d,
                                                  !.fresh = ~StaleLoads(b)]]
       \/ /\ existence[existenceKey(b, d)] > 0
          /\ up' = [up EXCEPT ![u] = [IdleUp EXCEPT !.pc = "done", !.b = b, !.d = d, !.out = "ok"]]
  /\ UNCHANGED <<kind, blob, gone, existence, secret, client, down, faults>>

\* loadUploadBackend: the cached client is reused ...
ReuseClient(u) ==
  LET b == up[u].b IN
  /\ up[u].pc = "load" /\ client[b] # NoClient
  /\ up' = [up EXCEPT ![u].pc = "exists", ![u].gen = client[b], ![u].cached = TRUE]
  /\ UNCHANGED <<kind, blob, gone, existence, secret, client, down, faults>>

\* ... or the credentials are read from the secrets manager, which may fail ...
LoadClient(u) ==
  LET b == up[u].b IN
  /\ up[u].pc = "load" /\ client[b] = NoClient
  /\ \/ /\ up' = [up EXCEPT ![u].pc = "add", ![u].gen = secret[b], ![u].cached = FALSE]
        /\ UNCHANGED faults
     \/ Fault /\ EndUp(u, "failed")
  /\ UNCHANGED <<kind, blob, gone, existence, secret, client, down>>

\* ... and the new client is cached, over one that another upload cached since.
AddClient(u) ==
  /\ up[u].pc = "add"
  /\ client' = [client EXCEPT ![up[u].b] = up[u].gen]
  /\ up' = [up EXCEPT ![u].pc = "exists"]
  /\ UNCHANGED <<kind, blob, gone, existence, secret, down, faults>>

-----------------------------------------------------------------------------
\* Exists of the backends: an OCI registry answers "no" to every error and to an
\* image that does not validate; an object store looks at the metadata only.
Stale(r) == r.gen # secret[r.b]
Found(r) == LET c == blob[<<r.b, r.d>>] IN IF kind = "oci" THEN c = "good" ELSE c \in {"good", "bad"}
ExistsFails(r) == kind = "object" /\ (Stale(r) \/ blob[<<r.b, r.d>>] = "foreign")

DropUploadBackend(b) == client' = [client EXCEPT ![b] = NoClient]

\* Mutant: a client that failed is tried again without dropping it.
RetryWithoutDrop(u) ==
  /\ IF up[u].cached /\ up[u].attempt = 0
       THEN up' = [up EXCEPT ![u].pc = "load", ![u].attempt = 1]
       ELSE EndUp(u, IF Stale(up[u]) THEN "stale" ELSE "failed")
  /\ UNCHANGED client

\* backendExists drops the client whose call failed and tries once more if it was
\* a reused one, since its credentials may have been rotated.
DropAndRetry(u) ==
  /\ IF up[u].cached /\ up[u].attempt = 0
       THEN up' = [up EXCEPT ![u].pc = "load", ![u].attempt = 1]
       ELSE EndUp(u, IF Stale(up[u]) THEN "stale" ELSE "failed")
  /\ DropUploadBackend(up[u].b)

CheckExists(u) ==
  LET r == up[u] IN
  /\ r.pc = "exists"
  /\ \/ /\ ~ExistsFails(r)
        /\ up' = [up EXCEPT ![u].pc = IF Found(r) /\ ~Stale(r) THEN "describe" ELSE "spill"]
        /\ UNCHANGED <<client, faults>>
     \/ ExistsFails(r) /\ DropAndRetry(u) /\ UNCHANGED faults
     \/ kind = "object" /\ Fault /\ DropAndRetry(u)
     \/ kind = "oci" /\ Fault /\ up' = [up EXCEPT ![u].pc = "spill"] /\ UNCHANGED client
  /\ UNCHANGED <<kind, blob, gone, existence, secret, down>>

\* The blob is there: its size is looked up, and only a known size is cached; a
\* lookup that fails changes nothing for the client.
DescribeFound(u) ==
  /\ up[u].pc = "describe"
  /\ \/ ~Stale(up[u]) /\ Found(up[u]) /\ up' = [up EXCEPT ![u].pc = "store"]
     \/ EndUp(u, "ok")
  /\ UNCHANGED <<kind, blob, gone, existence, secret, client, down, faults>>

\* spillVerifyUpload stages the stream and compares its hash with the digest.  A
\* client that went away, too many bytes and other bytes end the upload.
\* Mutant: the hash is not compared.
SpillUnverified(u) ==
  /\ up[u].pc = "spill"
  /\ \/ \E data \in {"good", "bad"} : up' = [up EXCEPT ![u].pc = "upload", ![u].data = data]
     \/ EndUp(u, "failed")
  /\ UNCHANGED <<kind, blob, gone, existence, secret, client, down, faults>>

SpillVerify(u) ==
  /\ up[u].pc = "spill"
  /\ \/ up' = [up EXCEPT ![u].pc = "upload", ![u].data = "good"]
     \/ EndUp(u, "failed")
  /\ UNCHANGED <<kind, blob, gone, existence, secret, client, down, faults>>

Put(r) ==
  /\ blob' = [blob EXCEPT ![<<r.b, r.d>>] = r.data]
  /\ gone' = [gone EXCEPT ![<<r.b, r.d>>] = 0]

\* Mutant: a failure of the backend counts as a client that went away.
UploadResetIsDisconnect(u) ==
  LET r == up[u] IN
  /\ r.pc = "upload"
  /\ \/ ~Stale(r) /\ Put(r) /\ up' = [up EXCEPT ![u].pc = "store"] /\ UNCHANGED <<client, faults>>
     \/ /\ Stale(r) /\ EndUp(u, "ok")
        /\ UNCHANGED <<client, blob, gone, faults>>
     \/ /\ Fault /\ EndUp(u, "ok")
        /\ \/ UNCHANGED <<blob, gone>>
           \/ ~Stale(r) /\ Put(r)
        /\ UNCHANGED client
  /\ UNCHANGED <<kind, existence, secret, down>>

\* The verified file is handed to the backend.  A call that fails may have stored
\* the blob; its client is dropped and the error is never taken for a disconnect.
UploadBackend(u) ==
  LET r == up[u] IN
  /\ r.pc = "upload"
  /\ \/ ~Stale(r) /\ Put(r) /\ up' = [up EXCEPT ![u].pc = "store"] /\ UNCHANGED <<client, faults>>
     \/ /\ Stale(r) /\ EndUp(u, "stale") /\ DropUploadBackend(r.b)
        /\ UNCHANGED <<blob, gone, faults>>
     \/ /\ Fault /\ EndUp(u, "failed") /\ DropUploadBackend(r.b)
        /\ \/ UNCHANGED <<blob, gone>>
           \/ ~Stale(r) /\ Put(r)
  /\ UNCHANGED <<kind, existence, secret, down>>

\* storeExistence is best effort; the client gets its answer.
StoreExistence(u) ==
  LET r == up[u] IN
  /\ r.pc = "store"
  /\ \/ existence' = [existence EXCEPT ![existenceKey(r.b, r.d)] = TTL]
     \/ UNCHANGED existence
  /\ EndUp(u, "ok")
  /\ UNCHANGED <<kind, blob, gone, secret, client, down, faults>>

-----------------------------------------------------------------------------
\* Read and ServeHTTP load the backend's credentials anew.
ReadStart(w) ==
  /\ down[w].pc \in {"idle", "done"}
  /\ \E b \in Backend, d \in Digest, pc \in {"stage", "describe"} :
       \/ /\ down' = [down EXCEPT ![w] = [IdleDown EXCEPT !.pc = pc, !.b = b, !.d = d, !.gen = secret[b]]]
          /\ UNCHANGED faults
       \/ /\ Fault
          /\ down' = [down EXCEPT ![w] = [IdleDown EXCEPT !.pc = "done", !.out = "failed"]]
  /\ UNCHANGED <<kind, blob, gone, existence, secret, client, up>>

\* ServeHTTP describes the blob first; a browser that has it gets a 304.
DescribeHTTP(w) ==
  LET r == down[w] IN
  /\ r.pc = "describe"
  /\ \/ /\ ~Stale(r) /\ Found(r)
        /\ \/ down' = [down EXCEPT ![w].pc = "stage"]
           \/ EndDown(w, "failed")
        /\ UNCHANGED faults
     \/ (Stale(r) \/ ~Found(r)) /\ EndDown(w, "failed") /\ UNCHANGED faults
     \/ Fault /\ EndDown(w, "failed")
  /\ UNCHANGED <<kind, blob, gone, existence, secret, client, up>>

\* Mutant: the backend's bytes go to the client as they are.
StageUnverified(w) ==
  LET r == down[w] IN
  /\ r.pc = "stage"
  /\ \/ ~Stale(r) /\ Found(r) /\ down' = [down EXCEPT ![w].pc = "send", ![w].got = blob[<<r.b, r.d>>]]
     \/ (Stale(r) \/ ~Found(r)) /\ EndDown(w, "failed")
  /\ UNCHANGED <<kind, blob, gone, existence, secret, client, up, faults>>

\* stageDownload stages what the backend holds and verifies it before the first
\* byte is sent.  downloadError takes a backend's reset or cancellation for a
\* client that went away: the request ends without an error.
StageDownload(w) ==
  LET r == down[w] IN
  /\ r.pc = "stage"
  /\ \/ /\ ~Stale(r) /\ Found(r)
        /\ IF blob[<<r.b, r.d>>] = "good"
             THEN down' = [down EXCEPT ![w].pc = "send", ![w].got = "good"]
             ELSE EndDown(w, "failed")
        /\ UNCHANGED faults
     \/ (Stale(r) \/ ~Found(r)) /\ EndDown(w, "failed") /\ UNCHANGED faults
     \/ Fault /\ \E out \in {"failed", "ok"} : EndDown(w, out)
  /\ UNCHANGED <<kind, blob, gone, existence, secret, client, up>>

\* The staged file is copied to the client, who may go away meanwhile.
SendStaged(w) ==
  /\ down[w].pc = "send"
  /\ \/ down' = [down EXCEPT ![w].pc = "done", ![w].out = "ok"]
     \/ EndDown(w, "failed")
  /\ UNCHANGED <<kind, blob, gone, existence, secret, client, up, faults>>

-----------------------------------------------------------------------------
\* The environment.  A blob is purged or replaced outside Chainloop.
Purge(k) ==
  /\ Fault
  /\ blob[k] # "none"
  /\ blob' = [blob EXCEPT ![k] = "none"]
  /\ gone' = [gone EXCEPT ![k] = 1]
  /\ UNCHANGED <<kind, existence, secret, client, up, down>>

Replace(k, c) ==
  /\ Fault
  /\ blob[k] = "good"
  /\ blob' = [blob EXCEPT ![k] = c]
  /\ UNCHANGED <<kind, gone, existence, secret, client, up, down>>

\* The secrets manager and the provider get new credentials.
Rotate(b) ==
  /\ Fault
  /\ secret' = [secret EXCEPT ![b] = @ + 1]
  /\ up' = [u \in Upload |-> IF up[u].b = b THEN [up[u] EXCEPT !.fresh = FALSE] ELSE up[u]]
  /\ UNCHANGED <<kind, blob, gone, existence, client, down>>

\* A cached client expires or is evicted.  (An evicted entry of the existence
\* cache is a miss, which a lookup may be anyway.)
Evict(b) ==
  /\ client[b] # NoClient
  /\ client' = [client EXCEPT ![b] = NoClient]
  /\ UNCHANGED <<kind, blob, gone, existence, secret, up, down, faults>>

\* An hour passes; no request stays that long between an answer of the backend
\* and the write to the cache.
Tick ==
  /\ \E k \in Key : existence[k] > 0 \/ gone[k] \in 1 .. TTL
  /\ \A u \in Upload : up[u].pc \notin {"describe", "store"}
  /\ existence' = [k \in Key |-> IF existence[k] > 0 THEN existence[k] - 1 ELSE 0]
  /\ gone' = [k \in Key |-> IF gone[k] \in 1 .. TTL THEN gone[k] + 1 ELSE gone[k]]
  /\ UNCHANGED <<kind, blob, secret, client, up, down, faults>>

\* The server dies: the clients are in its memory, the existence cache in NATS or
\* in memory too; staged files are unlinked and go with the process.
Crash ==
  /\ Fault
  /\ client' = [b \in Backend |-> NoClient]
  /\ \/ existence' = [k \in Key |-> 0]
     \/ UNCHANGED existence
  /\ up' = [u \in Upload |-> IF up[u].pc \in {"idle", "done"} THEN up[u]
                             ELSE Ended(up[u], "failed")]
  /\ down' = [w \in Download |-> IF down[w].pc \in {"idle", "done"} THEN down[w]
                                 ELSE [IdleDown EXCEPT !.pc = "done", !.out = "failed"]]
  /\ UNCHANGED <<kind, blob, gone, secret>>

UploadStep(u) ==
  \/ ReuseClient(u) \/ LoadClient(u) \/ AddClient(u) \/ CheckExists(u)
  \/ DescribeFound(u) \/ SpillVerify(u) \/ UploadBackend(u) \/ StoreExistence(u)

DownloadStep(w) == DescribeHTTP(w) \/ StageDownload(w) \/ SendStaged(w)

Environment ==
  \/ \E k \in Key : Purge(k) \/ \E c \in {"bad", "foreign"} : Replace(k, c)
  \/ \E b \in Backend : Rotate(b) \/ Evict(b)
  \/ Tick \/ Crash

Next ==
  \/ \E u \in Upload : LookupExistence(u) \/ UploadStep(u)
  \/ \E w \in Download : ReadStart(w) \/ DownloadStep(w)
  \/ Environment

Spec == Init /\ [][Next]_vars

-----------------------------------------------------------------------------
\* The variables of the artifact CAS have their types.
TypeOK ==
  /\ kind \in Kind
  /\ blob \in [Key -> Content]
  /\ gone \in [Key -> 0 .. TTL + 1]
  /\ existence \in [Key -> 0 .. TTL]
  /\ secret \in [Backend -> Nat]
  /\ client \in [Backend -> Nat \cup {NoClient}]
  /\ up \in [Upload ->
       [pc : {"idle", "load", "add", "exists", "describe", "spill", "upload", "store", "done"},
        b : Backend, d : Digest, data : {"good", "bad"}, gen : Nat \cup {NoClient},
        cached : BOOLEAN, attempt : 0 .. 1, fresh : BOOLEAN,
        out : {"none", "ok", "failed", "stale"}]]
  /\ down \in [Download ->
       [pc : {"idle", "describe", "stage", "send", "done"}, b : Backend, d : Digest,
        gen : Nat \cup {NoClient}, got : Content,
        out : {"none", "ok", "failed"}]]
  /\ faults \in 0 .. MaxFaults

\* The canonical key of a digest never gets, from an upload, bytes that do not
\* hash to it: what a request changes in a backend is verified content, whatever
\* other uploads, crashes and failed calls do (spillVerifyUpload).
CanonicalContent ==
  [][\A k \in Key : up' # up /\ blob'[k] # blob[k] => blob'[k] = "good"]_vars

\* An upload that was acknowledged has its blob in the backend of its token,
\* unless the blob was purged outside Chainloop: neither a cached "already
\* exists", nor one of another backend, nor a call of the backend that failed
\* acknowledges an artifact that was never stored (Write).
AckedStored ==
  \A u \in Upload : up[u].out = "ok" =>
    LET k == <<up[u].b, up[u].d>> IN blob[k] # "none" \/ gone[k] > 0

\* An entry of the existence cache outlives a purge by at most the cache's TTL:
\* later, the digest can be uploaded again (casexistence.ttl).
StaleEntryBounded ==
  \A k \in Key : blob[k] = "none" /\ existence[k] > 0 => gone[k] \in 1 .. TTL

\* A client of a download never gets bytes that do not hash to the digest it
\* asked for, whatever the backend holds or becomes meanwhile (stageAndVerify).
NoUnverifiedByte == \A w \in Download : down[w].got \in {"none", "good"}

\* After a rotation, uploads to an object store recover by themselves: one that
\* began when nobody was about to cache the old credentials does not fail because
\* of them, although it may find the old client cached (backendExists).
RotationHeals ==
  \A u \in Upload : up[u].out = "stale" /\ kind = "object" => ~up[u].fresh

\* The caches and the requests are well formed, in particular no upload is retried
\* more than once, and what the existence cache holds is so, or was until a purge
\* at most a TTL ago.
CachesConsistent == TypeOK /\ StaleEntryBounded

\* The store behind the caches and the requests: what a download sends is what it
\* staged, and a purge is recent until the TTL of the existence cache is over.
KeyOf(r) == <<r.b, r.d>>
NoKey == <<>>
Lost ==
  [k \in Key |-> IF gone[k] = 0 THEN "no" ELSE IF gone[k] <= TTL THEN "lately" ELSE "long ago"]
Receipts == [u \in Upload |-> IF up[u].out = "ok" THEN KeyOf(up[u]) ELSE NoKey]
Sending ==
  [w \in Download |-> IF down[w].pc = "send" THEN [key |-> KeyOf(down[w]), bytes |-> down[w].got]
                      ELSE NoKey]

VS == INSTANCE VerifiedStore WITH
  Nothing <- NoKey, content <- blob, lost <- Lost, receipt <- Receipts, sending <- Sending

\* Seen by its clients the CAS is one verified store, although uploads share two
\* caches, credentials rotate under them, calls fail half way, blobs are purged or
\* replaced and the server dies: no step acknowledges, stores or sends what a
\* store without any of these would not (Write, Read, ServeHTTP).
ImplementsVerifiedStore == VS!Spec
=============================================================================
