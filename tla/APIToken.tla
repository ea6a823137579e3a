------------------------------ MODULE APIToken ------------------------------
(***************************************************************************)
(* API tokens of the control plane: minting (biz APITokenUseCase.Create    *)
(* and RegenerateJWT), the two authentication chains a token's request     *)
(* goes through, and the token management endpoints.                       *)
(*                                                                         *)
(* A request is a sequence of database reads and writes: the middlewares   *)
(* read the token's row, then its policies, the endpoints look the target  *)
(* up and update it, and a revocation or another request may fall between  *)
(* any two of them.  The recording of a token's use and the sweeper of     *)
(* unused tokens are in TokenSweeper.                                      *)
(*                                                                         *)
(* All tokens ask for one name, so that every conflict of the unique       *)
(* indexes is met.  JWTs do not expire: the JWT layer refuses one that     *)
(* did before any of this, which only takes requests away.                 *)
(***************************************************************************)
EXTENDS Naturals, FiniteSets

CONSTANTS TokenID,     \* identifiers uuid.New may draw
          Legacy,      \* a token minted before the scope was signed
          LegacyShape, \* what that token may be scoped to
          Org, Project, Product,
          OrgOf,       \* the organization of a project or a product
          Listed,      \* the projects in a product token's list
          Request,     \* concurrent requests
          Calls,       \* the calls each of them may be
          Admin,       \* the organizations with an administrator at work
          Rewrites,    \* scope columns another writer may put in a row
          MaxEvents,   \* acts of the platform on the table
          None

VARIABLES tok,     \* rows of api_tokens
          jwts,    \* the JWTs in circulation, as the claims they sign
          req,     \* requests in flight
          audits,  \* APITokenRevoked events dispatched
          budget   \* platform acts left

vars == <<tok, jwts, req, audits, budget>>

Kinds == {"instance", "organization", "project", "product"}
OrgBound == Org \cup {None}

Shapes == [scope : Kinds \cup {None}, id : Org \cup Project \cup Product \cup {None},
           org : OrgBound, project : Project \cup {None}]

Ops == {"use", "create", "revoke"}

\* An administrator manages tokens; the attestation chain serves ordinary
\* operations only.
Call ==
  {c \in [by : {"token", "user"}, op : Ops, api : BOOLEAN] :
     IF c.by = "user" THEN c.api /\ c.op # "use" ELSE c.api \/ c.op = "use"}

ASSUME ConstantsOK ==
  /\ None \notin Kinds \cup Org \cup Project \cup Product
  /\ Calls \in [Request -> SUBSET Call]
  /\ Legacy \in TokenID
  /\ OrgOf \in [Project \cup Product -> Org]
  /\ Listed \subseteq Project /\ Admin \subseteq Org
  /\ Rewrites \subseteq Shapes /\ LegacyShape \subseteq Shapes
  /\ MaxEvents \in Nat

-----------------------------------------------------------------------------
(* The shape of a token: its scope columns.                                 *)

OrgShape(o) ==
  [scope |-> "organization", id |-> o, org |-> o, project |-> None]
ProjectShape(p) ==
  [scope |-> "project", id |-> p, org |-> OrgOf[p], project |-> p]
ProductShape(q) ==
  [scope |-> "product", id |-> q, org |-> OrgOf[q], project |-> None]
InstanceShape ==
  [scope |-> "instance", id |-> None, org |-> None, project |-> None]

\* biz.ValidateTokenShape, the coherence of a row's columns.
ValidateTokenShape(s) ==
  CASE s.scope = None           -> s.id = None
    [] s.scope = "organization" -> s.project = None /\ s.id = s.org /\ s.org # None
    [] s.scope = "project"      -> s.id = s.project /\ s.project # None
    [] s.scope = "instance"     -> s.id = None /\ s.org = None /\ s.project = None
    [] s.scope = "product"      -> s.id # None /\ s.org # None /\ s.project = None

IsOrgScoped(s) == s.scope = "organization"
IsInstanceScoped(s) == s.scope = "instance"
OrgWide(s) == IsOrgScoped(s) \/ IsInstanceScoped(s)

\* entities.APIToken.ReachesProject.
ReachesProject(s, p) ==
  \/ OrgWide(s)
  \/ s.scope = "project" /\ s.id = p
  \/ s.scope = "product" /\ p \in Listed

\* The claims GenerateJWT signs for a row.  "named" tells a token whose scope
\* is signed from one minted before, whose scope claim is empty, or
\* INSTANCE_ADMIN.
Claims(t, s) ==
  [jti |-> t, named |-> TRUE, scope |-> s.scope, id |-> s.id,
   org |-> s.org, project |-> s.project]

LegacyClaims(t, s) ==
  [jti |-> t, named |-> FALSE,
   scope |-> IF s.scope = "instance" THEN "instance" ELSE None,
   id |-> None, org |-> s.org, project |-> s.project]

JWTs ==
  [jti : TokenID, named : BOOLEAN, scope : Kinds \cup {None},
   id : Org \cup Project \cup Product \cup {None},
   org : OrgBound, project : Project \cup {None}]

\* CustomClaims.namedScope and legacyScope.
NamedScope(c) ==
  IF c.named THEN [scope |-> c.scope, id |-> c.id]
  ELSE CASE c.scope = "instance" -> [scope |-> "instance", id |-> None]
         [] c.scope # "instance" /\ c.project # None ->
              [scope |-> "project", id |-> c.project]
         [] c.scope # "instance" /\ c.project = None /\ c.org # None ->
              [scope |-> "organization", id |-> c.org]
         [] OTHER -> [scope |-> None, id |-> None]

\* CustomClaims.validateScope: the other claims fit the scope.
ValidateScope(c, k) ==
  CASE k.scope = "instance"     -> c.org = None /\ c.project = None /\ k.id = None
    [] k.scope = "organization" -> c.org = k.id /\ c.org # None /\ c.project = None
    [] k.scope = "project"      -> c.org # None /\ c.project = k.id /\ k.id # None
    [] k.scope = "product"      -> c.org # None /\ c.project = None /\ k.id # None
    [] OTHER                    -> FALSE

\* Bug: an older token is let in without comparing its row.
VerifyNamedOnly(row, c) ==
  LET k == NamedScope(c) IN
  /\ ValidateScope(c, k)
  /\ c.named => /\ row.scope = k.scope /\ row.id = k.id
                /\ row.org = c.org /\ row.project = c.project

\* biz.APIToken.VerifyClaims: the row has the scope, the organization and the
\* project the claims sign.
VerifyClaims(row, c) ==
  LET k == NamedScope(c) IN
  /\ ValidateScope(c, k)
  /\ row.scope = k.scope /\ row.id = k.id
  /\ row.org = c.org
  /\ row.project = c.project

-----------------------------------------------------------------------------
(* Rows.                                                                    *)

Absent == [state |-> "absent"]
Rows ==
  {Absent} \cup
  [state : {"live", "revoked"}, scope : Kinds \cup {None},
   id : Org \cup Project \cup Product \cup {None}, org : OrgBound,
   project : Project \cup {None},
   manage : BOOLEAN,     \* holds the policies that manage tokens
   made : {"user", "token"}]

Live(t) == tok[t].state = "live"

ShapeOf(row) ==
  [scope |-> row.scope, id |-> row.id, org |-> row.org, project |-> row.project]

Row(s, manage, made) ==
  [state |-> "live", scope |-> s.scope, id |-> s.id, org |-> s.org,
   project |-> s.project, manage |-> manage, made |-> made]

\* The partial unique indexes on the name: per organization for the tokens
\* confined to neither a project nor a product, per product, per project, and
\* over all instance tokens.
NameTaken(s) ==
  \E t \in TokenID :
    /\ Live(t)
    /\ LET o == tok[t] IN
       \/ /\ o.project = None /\ o.scope # "product" /\ o.org # None
          /\ s.project = None /\ s.scope # "product" /\ o.org = s.org
       \/ o.scope = "product" /\ s.scope = "product" /\ o.id = s.id
       \/ o.project # None /\ o.project = s.project
       \/ o.org = None /\ s.org = None

\* The policies of a new token: the ones given or the default, and the
\* token-management ones on top for an organization-wide token only.
PoliciesOf(s, given) == given \/ s.scope = "organization"

\* APITokenUseCase.Create and the repository's insert, then the JWT.
Create(t, s, given, made) ==
  /\ tok[t] = Absent
  /\ s.project # None => s.org # None
  /\ ValidateTokenShape(s)
  /\ s.scope = "product" => ~given
  /\ ~NameTaken(s)
  /\ tok' = [tok EXCEPT ![t] = Row(s, PoliciesOf(s, given), made)]
  /\ jwts' = jwts \cup {Claims(t, s)}

\* Bug: the update does not ask for a live row.
RevokeAgain(t, o) ==
  IF tok[t] # Absent /\ tok[t].org = o
    THEN /\ tok' = [tok EXCEPT ![t].state = "revoked"]
         /\ audits' = [audits EXCEPT ![t] = IF @ < 2 THEN @ + 1 ELSE @]
    ELSE UNCHANGED <<tok, audits>>

\* APITokenRepo.Revoke: one conditional update, for a live token of the
\* organization.  APITokenUseCase.Revoke dispatches the event if it matched.  Its
\* callers, the service and the sweeper, always name an organization; nothing in
\* the repository revokes a token that belongs to none.
Revoke(t, o) ==
  IF Live(t) /\ tok[t].org = o
    THEN /\ tok' = [tok EXCEPT ![t].state = "revoked"]
         /\ audits' = [audits EXCEPT ![t] = @ + 1]
    ELSE UNCHANGED <<tok, audits>>

-----------------------------------------------------------------------------
(* Requests.  A request authenticated by a JWT carries it, and the context  *)
(* the middlewares fill in; an administrator's carries none.                *)

Done ==
  [pc |-> "idle", jwt |-> None, op |-> None, api |-> FALSE, ctx |-> None,
   org |-> None, late |-> FALSE, target |-> None]

Goto(r, pc) == req' = [req EXCEPT ![r].pc = pc]
End(r) == req' = [req EXCEPT ![r] = Done]
At(r, pc) == req[r].pc = pc

\* A request arrives with a JWT whose signature and expiration the JWT layer
\* accepts: on the API chain, for an operation a token's policies decide, or
\* on the attestation chain.  "late" notes that its token was revoked already.
Start(r, c, op, api) ==
  /\ At(r, "idle")
  /\ [by |-> "token", op |-> op, api |-> api] \in Calls[r]
  /\ req' = [req EXCEPT ![r] =
       [Done EXCEPT !.pc = "row", !.jwt = c, !.op = op, !.api = api,
                    !.late = ~Live(c.jti)]]
  /\ UNCHANGED <<tok, jwts, audits, budget>>

\* An administrator calls the token endpoints for an organization.
StartUser(r, o, op) ==
  /\ At(r, "idle")
  /\ [by |-> "user", op |-> op, api |-> TRUE] \in Calls[r]
  /\ req' = [req EXCEPT ![r] = [Done EXCEPT !.pc = "handler", !.op = op, !.org = o]]
  /\ UNCHANGED <<tok, jwts, audits, budget>>

\* Bug: revocation is left to the expiration of the JWT.
LoadTokenAnyState(r, o) ==
  LET row == tok[req[r].jwt.jti] IN
  /\ At(r, "row")
  /\ VerifyClaims(row, req[r].jwt)
  /\ ~IsInstanceScoped(row) => o = row.org
  /\ req' = [req EXCEPT ![r].pc = IF req[r].api THEN "authz" ELSE "suspension",
                        ![r].ctx = ShapeOf(row), ![r].org = o]
  /\ UNCHANGED <<tok, jwts, audits, budget>>

\* setCurrentOrgAndAPIToken: the row is read, checked against the claims and
\* for revocation; the organization is the row's, and for an instance token
\* the one the header names, if any.
LoadToken(r, o) ==
  LET row == tok[req[r].jwt.jti] IN
  /\ At(r, "row")
  /\ VerifyClaims(row, req[r].jwt)
  /\ row.state # "revoked"
  /\ ~IsInstanceScoped(row) => o = row.org
  /\ req' = [req EXCEPT ![r].pc = IF req[r].api THEN "authz" ELSE "suspension",
                        ![r].ctx = ShapeOf(row), ![r].org = o]
  /\ UNCHANGED <<tok, jwts, audits, budget>>

\* The refusals: the claims do not match, the token is revoked, the
\* organization is gone or suspended, a read fails.
Refuse(r) ==
  /\ req[r].pc \in {"row", "suspension", "authz"}
  /\ End(r)
  /\ UNCHANGED <<tok, jwts, audits, budget>>

\* WithSuspensionMiddleware lets the attestation request pass.
PassSuspension(r) ==
  /\ At(r, "suspension")
  /\ Goto(r, "handler")
  /\ UNCHANGED <<tok, jwts, audits, budget>>

\* WithAuthzMiddleware: Enforce reads the token again, for its policies.
\* Every token holds the ones of an ordinary operation.
Authorize(r) ==
  /\ At(r, "authz")
  /\ req[r].op = "use" \/ tok[req[r].jwt.jti].manage
  /\ Goto(r, "handler")
  /\ UNCHANGED <<tok, jwts, audits, budget>>

RbacEnabled(q) == q.ctx # None /\ ~OrgWide(q.ctx)

\* Bug: an organization-wide token need not name a project.
MayCreateOrgWide(q, p) ==
  /\ RbacEnabled(q) => p # None
  /\ p # None => OrgOf[p] = q.org
  /\ p # None /\ RbacEnabled(q) => ReachesProject(q.ctx, p)

\* APITokenService.Create, the checks before the use case.  None: the request
\* names no project.
MayCreate(q, p) ==
  /\ RbacEnabled(q) => p # None
  /\ q.ctx # None /\ OrgWide(q.ctx) => p # None
  /\ p # None => OrgOf[p] = q.org
  /\ p # None /\ RbacEnabled(q) => ReachesProject(q.ctx, p)

CreateToken(r, t, p) ==
  /\ At(r, "handler") /\ req[r].op = "create"
  /\ req[r].org # None
  /\ MayCreate(req[r], p)
  /\ Create(t, IF p = None THEN OrgShape(req[r].org) ELSE ProjectShape(p), FALSE,
            IF req[r].ctx = None THEN "user" ELSE "token")
  /\ End(r)
  /\ UNCHANGED <<audits, budget>>

\* APITokenService.Revoke, the checks on the live token of the organization.
MayRevoke(q, row) ==
  /\ OrgWide(row) => ~RbacEnabled(q)
  /\ q.ctx # None /\ OrgWide(q.ctx) => row.project # None
  /\ ~OrgWide(row) =>
       \/ /\ row.scope \in {"project", "product"} /\ row.id # None
          /\ RbacEnabled(q) => row.scope = "project" /\ ReachesProject(q.ctx, row.id)
       \/ row.scope = None /\ ~RbacEnabled(q)

FindToRevoke(r, t) ==
  /\ At(r, "handler") /\ req[r].op = "revoke"
  /\ Live(t) /\ tok[t].org = req[r].org /\ req[r].org # None
  /\ MayRevoke(req[r], tok[t])
  /\ req' = [req EXCEPT ![r].pc = "revoke", ![r].target = t]
  /\ UNCHANGED <<tok, jwts, audits, budget>>

RevokeToken(r) ==
  /\ At(r, "revoke")
  /\ Revoke(req[r].target, req[r].org)
  /\ End(r)
  /\ UNCHANGED <<jwts, budget>>

\* The handler returns: an ordinary operation, or a management one that found
\* nothing to act on or was refused.
HandlerEnds(r) ==
  /\ At(r, "handler")
  /\ End(r)
  /\ UNCHANGED <<tok, jwts, audits, budget>>

-----------------------------------------------------------------------------
(* The rest of the world.                                                   *)

\* APITokenStaleRevoker revokes a token from the list it made earlier, by its
\* id and organization.  (TokenSweeper models how the list is made.)
RevokeStale(t, o) ==
  /\ Revoke(t, o)
  /\ UNCHANGED <<jwts, req, budget>>

\* The platform mints product and instance tokens in process.
PlatformCreate(t, s, given) ==
  /\ s.scope \in {"product", "instance"}
  /\ Create(t, s, given, "user")
  /\ budget > 0 /\ budget' = budget - 1
  /\ UNCHANGED <<req, audits>>

\* RegenerateJWT signs what the row records, for a revoked token too, and
\* leaves the JWTs signed before in circulation.
RegenerateJWT(t) ==
  LET s == ShapeOf(tok[t])
      c == Claims(t, s) IN
  /\ tok[t] # Absent
  /\ s.scope # None
  /\ ValidateTokenShape(s)
  /\ ValidateScope(c, NamedScope(c))
  /\ budget > 0 /\ budget' = budget - 1
  /\ jwts' = jwts \cup {c}
  /\ UNCHANGED <<tok, req, audits>>

\* Another writer of the table (the platform, a migration) puts other scope
\* columns in a row.
RewriteRow(t, s) ==
  /\ tok[t] # Absent /\ budget > 0
  /\ ShapeOf(tok[t]) # s
  /\ tok' = [tok EXCEPT ![t].scope = s.scope, ![t].id = s.id,
                        ![t].org = s.org, ![t].project = s.project]
  /\ budget' = budget - 1
  /\ UNCHANGED <<jwts, req, audits>>

-----------------------------------------------------------------------------
Init ==
  /\ \E s \in LegacyShape :
       /\ tok = [t \in TokenID |->
            IF t = Legacy THEN Row(s, s.scope = "organization", "user") ELSE Absent]
       /\ jwts = {LegacyClaims(Legacy, s)}
  /\ req = [r \in Request |-> Done]
  /\ audits = [t \in TokenID |-> 0]
  /\ budget = MaxEvents

RequestStep(r) ==
  \/ \E o \in OrgBound : LoadToken(r, o)
  \/ PassSuspension(r) \/ Authorize(r) \/ Refuse(r)
  \/ \E t \in TokenID, p \in Project \cup {None} : CreateToken(r, t, p)
  \/ \E t \in TokenID : FindToRevoke(r, t)
  \/ RevokeToken(r) \/ HandlerEnds(r)

Environment ==
  \/ \E r \in Request, op \in Ops :
       \/ \E c \in jwts, api \in BOOLEAN : Start(r, c, op, api)
       \/ \E o \in Admin : StartUser(r, o, op)
  \/ \E t \in TokenID, given \in BOOLEAN :
       \E s \in {ProductShape(q) : q \in Product} \cup {InstanceShape} :
         PlatformCreate(t, s, given)
  \/ \E t \in TokenID : RegenerateJWT(t)
  \/ \E t \in TokenID, o \in Org : RevokeStale(t, o)
  \/ \E t \in TokenID, s \in Rewrites : RewriteRow(t, s)

Next ==
  \/ \E r \in Request : RequestStep(r)
  \/ Environment

Spec == Init /\ [][Next]_vars

-----------------------------------------------------------------------------
(* Properties.                                                              *)

TypeOK ==
  /\ tok \in [TokenID -> Rows]
  /\ jwts \subseteq JWTs
  /\ budget \in 0..MaxEvents
  /\ \A r \in Request :
       /\ req[r].pc \in {"idle", "row", "suspension", "authz",
                         "handler", "revoke"}
       /\ req[r].jwt \in JWTs \cup {None}
       /\ req[r].op \in Ops \cup {None}
       /\ req[r].ctx \in Shapes \cup {None}
       /\ req[r].org \in OrgBound /\ req[r].target \in TokenID \cup {None}

Served(r) == req[r].pc \in {"handler", "revoke"} /\ req[r].jwt # None

\* A request that arrives once its token's revocation is committed reaches no
\* handler, on neither chain, whichever of the token's JWTs it carries: one
\* signed again after the revocation included.
RevokedNotServed == \A r \in Request : Served(r) => ~req[r].late

\* The scope, organization and project a request acts for are those its JWT
\* signs, even when another writer changes the row before, while or after the
\* request is authenticated, and for the JWTs that sign no scope.
ServedAsSigned ==
  \A r \in Request : Served(r) =>
    LET c == req[r].jwt
        s == req[r].ctx IN
    /\ s.org = c.org /\ s.project = c.project
    /\ s.org # None => req[r].org = s.org
    /\ OrgWide(s) => c.project = None
    /\ IsInstanceScoped(s) => c.scope = "instance"
    /\ IsOrgScoped(s) => c.org # None /\ (c.named => c.scope = "organization")

\* A token minted with another token's credentials mints and revokes none
\* itself: neither its policies nor any request it authenticates allow it.
NoSuccession ==
  /\ \A t \in TokenID : tok[t] # Absent => (tok[t].made = "token" => ~tok[t].manage)
  /\ \A r \in Request :
       Served(r) /\ req[r].op # "use" => tok[req[r].jwt.jti].made = "user"

\* A revocation is announced to the auditor at most once, and only when it
\* happened, though an administrator, a token and the sweeper race for it.
AuditedOnce ==
  \A t \in TokenID :
    audits[t] <= IF tok[t].state = "revoked" THEN 1 ELSE 0

\* The rows, the JWTs and the requests are well formed, and the auditor has been
\* told of every revocation at most once and of none that did not happen.
TokensConsistent == TypeOK /\ AuditedOnce
=============================================================================
