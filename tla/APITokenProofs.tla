--------------------------- MODULE APITokenProofs ---------------------------
(***************************************************************************)
(* What the API tokens promise, for every set of tokens, organizations,    *)
(* projects, products and concurrent requests, and whatever shapes other   *)
(* writers put in the rows; and what the sweeper of unused tokens does.    *)
(***************************************************************************)
EXTENDS APIToken, TokenSweeper, TLAPS

PCs == {"idle", "row", "suspension", "authz", "handler", "revoke"}

\* The records of the requests.
ReqRec ==
  [pc : PCs, jwt : JWTs \cup {None}, op : Ops \cup {None}, api : BOOLEAN,
   ctx : Shapes \cup {None}, org : OrgBound, late : BOOLEAN,
   target : TokenID \cup {None}]

TableType ==
  /\ tok \in [TokenID -> Rows]
  /\ jwts \subseteq JWTs
  /\ audits \in [TokenID -> Nat]
  /\ budget \in 0 .. MaxEvents

\* A JWT in circulation was signed for a row of the table, which stays.
Minted == \A c \in jwts : tok[c.jti] # Absent

\* A token that another token minted holds no policy that manages tokens.
NoHeir == \A t \in TokenID : tok[t] # Absent => (tok[t].made = "token" => ~tok[t].manage)

\* The context of an authenticated request is what its JWT signs.
SignedFor(q) ==
  LET c == q.jwt
      s == q.ctx IN
  /\ s.org = c.org /\ s.project = c.project
  /\ s.org # None => q.org = s.org
  /\ OrgWide(s) => c.project = None
  /\ IsInstanceScoped(s) => c.scope = "instance"
  /\ IsOrgScoped(s) => c.org # None /\ (c.named => c.scope = "organization")

\* What holds of a request at every point: it carries a JWT in circulation; it is
\* late only before the middleware reads the row, and then the row is revoked for
\* good; past that read its context is what it signs; and past the policies it is
\* an ordinary operation or its token was made by a user.
ReqInv(q) ==
  /\ q.jwt # None \/ q.pc \in {"row", "suspension", "authz"} => q.jwt \in jwts
  /\ q.late => q.pc = "row" /\ tok[q.jwt.jti].state = "revoked"
  /\ q.pc \in {"suspension", "authz", "handler", "revoke"} /\ q.jwt # None => SignedFor(q)
  /\ q.pc = "suspension" => ~q.api
  /\ q.jwt # None /\ ~q.api => q.op = "use"
  /\ q.pc \in {"handler", "revoke"} /\ q.jwt # None /\ q.op # "use" =>
       tok[q.jwt.jti].made = "user"
  /\ q.pc = "revoke" => q.target \in TokenID

\* The inductive invariant.
IInv ==
  /\ TableType
  /\ req \in [Request -> ReqRec]
  /\ Minted /\ NoHeir /\ AuditedOnce
  /\ \A r \in Request : ReqInv(req[r])

-----------------------------------------------------------------------------
(* Rows, shapes and claims.                                                 *)

RowSet ==
  [state : {"live", "revoked"}, scope : Kinds \cup {None},
   id : Org \cup Project \cup Product \cup {None}, org : OrgBound,
   project : Project \cup {None}, manage : BOOLEAN, made : {"user", "token"}]

LEMMA RowsFacts ==
  /\ Rows = {Absent} \cup RowSet
  /\ Absent.state = "absent"
  /\ \A row \in RowSet : row # Absent
<1>1. Rows = {Absent} \cup RowSet
  BY DEF Rows, RowSet
<1>2. Absent.state = "absent"
  BY DEF Absent
<1>3. \A row \in RowSet : row.state # "absent"
  BY DEF RowSet
<1> QED
  BY <1>1, <1>2, <1>3

LEMMA RowFields ==
  \A row \in RowSet :
    /\ row.state \in {"live", "revoked"} /\ row.made \in {"user", "token"}
    /\ row.manage \in BOOLEAN
    /\ row.org \in OrgBound
    /\ ShapeOf(row) \in Shapes
    /\ ShapeOf(row).scope = row.scope /\ ShapeOf(row).id = row.id
    /\ ShapeOf(row).org = row.org /\ ShapeOf(row).project = row.project
  BY DEF RowSet, ShapeOf, Shapes

LEMMA NewRow ==
  ASSUME NEW s \in Shapes, NEW manage \in BOOLEAN, NEW made \in {"user", "token"}
  PROVE  /\ Row(s, manage, made) \in RowSet
         /\ Row(s, manage, made).state = "live"
         /\ Row(s, manage, made).manage = manage /\ Row(s, manage, made).made = made
  BY DEF Row, RowSet, Shapes

LEMMA ClaimsTyped ==
  ASSUME NEW s \in Shapes, NEW t \in TokenID
  PROVE  /\ Claims(t, s) \in JWTs /\ Claims(t, s).jti = t
         /\ LegacyClaims(t, s) \in JWTs /\ LegacyClaims(t, s).jti = t
<1>1. /\ s.scope \in Kinds \cup {None} /\ s.id \in Org \cup Project \cup Product \cup {None}
      /\ s.org \in OrgBound /\ s.project \in Project \cup {None} /\ "instance" \in Kinds
  BY DEF Shapes, Kinds
<1>2. Claims(t, s) \in JWTs /\ Claims(t, s).jti = t
  BY <1>1 DEF Claims, JWTs
<1>3. LegacyClaims(t, s) \in JWTs /\ LegacyClaims(t, s).jti = t
  BY <1>1 DEF LegacyClaims, JWTs
<1> QED
  BY <1>2, <1>3

\* The shapes the endpoints and the platform give a new token.
LEMMA NewShapes ==
  /\ \A o \in Org : OrgShape(o) \in Shapes
  /\ \A p \in Project : ProjectShape(p) \in Shapes /\ ProjectShape(p).scope = "project"
  /\ \A q \in Product : ProductShape(q) \in Shapes
  /\ InstanceShape \in Shapes
  BY ConstantsOK DEF OrgShape, ProjectShape, ProductShape, InstanceShape, Shapes, Kinds, OrgBound

\* VerifyClaims, field by field: the row's columns are what the claims sign.
LEMMA Verified ==
  ASSUME NEW row \in RowSet, NEW c \in JWTs, VerifyClaims(row, c)
  PROVE  /\ row.org = c.org /\ row.project = c.project
         /\ row.scope = "instance" => c.org = None /\ c.project = None /\ c.scope = "instance"
         /\ row.scope = "organization" =>
              c.org # None /\ c.project = None /\ (c.named => c.scope = "organization")
<1> DEFINE k == NamedScope(c)
<1>1. /\ ValidateScope(c, k) /\ row.scope = k.scope
      /\ row.org = c.org /\ row.project = c.project
  BY DEF VerifyClaims
<1>2. None \notin Kinds
  BY ConstantsOK
<1>3. k.scope = "instance" => c.scope = "instance"
  BY <1>2 DEF NamedScope, Kinds
<1>4. k.scope = "organization" => (c.named => c.scope = "organization")
  BY DEF NamedScope
<1> HIDE DEF k
<1>5. k.scope = "instance" => c.org = None /\ c.project = None
  BY <1>1 DEF ValidateScope
<1>6. k.scope = "organization" => c.org # None /\ c.project = None
  BY <1>1 DEF ValidateScope
<1> QED
  BY <1>1, <1>3, <1>4, <1>5, <1>6

LEMMA DoneFacts ==
  /\ Done \in ReqRec /\ Done.pc = "idle" /\ Done.jwt = None /\ Done.late = FALSE
  /\ Done.ctx = None
  BY DEF Done, ReqRec, PCs, OrgBound

LEMMA DoneInv == ReqInv(Done)
  BY DoneFacts DEF ReqInv

LEMMA InitInv == Init => IInv
<1> SUFFICES ASSUME Init PROVE IInv
  OBVIOUS
<1>1. PICK s \in LegacyShape :
        /\ tok = [t \in TokenID |->
             IF t = Legacy THEN Row(s, s.scope = "organization", "user") ELSE Absent]
        /\ jwts = {LegacyClaims(Legacy, s)}
  BY DEF Init
<1>2. s \in Shapes /\ Legacy \in TokenID
  BY ConstantsOK
<1> DEFINE row == Row(s, s.scope = "organization", "user")
<1>3. row \in RowSet /\ row.state = "live" /\ row.made = "user"
  BY <1>2, NewRow
<1>4. tok = [t \in TokenID |-> IF t = Legacy THEN row ELSE Absent]
  BY <1>1
<1> HIDE DEF row
<1>5. TableType
  BY <1>1, <1>2, <1>3, <1>4, RowsFacts, ClaimsTyped, ConstantsOK DEF Init, TableType
<1>6. Minted
  BY <1>1, <1>2, <1>3, <1>4, RowsFacts, ClaimsTyped DEF Minted
<1>7. NoHeir
  BY <1>3, <1>4, RowsFacts DEF NoHeir
<1>8. AuditedOnce
  BY DEF Init, AuditedOnce
<1>9. req \in [Request -> ReqRec] /\ \A r \in Request : ReqInv(req[r])
  BY DoneFacts, DoneInv DEF Init
<1> QED
  BY <1>5, <1>6, <1>7, <1>8, <1>9 DEF IInv

-----------------------------------------------------------------------------
(* How the table and a request move.                                        *)

\* A row is never taken back, keeps its maker and stays revoked; JWTs are only
\* added, for rows of the table.
TableMove ==
  /\ TableType' /\ Minted' /\ NoHeir' /\ AuditedOnce'
  /\ jwts \subseteq jwts'
  /\ \A t \in TokenID : tok[t] # Absent =>
       /\ tok'[t].made = tok[t].made
       /\ tok[t].state = "revoked" => tok'[t].state = "revoked"

ReqInvNext(q) ==
  /\ q.jwt # None \/ q.pc \in {"row", "suspension", "authz"} => q.jwt \in jwts'
  /\ q.late => q.pc = "row" /\ tok'[q.jwt.jti].state = "revoked"
  /\ q.pc \in {"suspension", "authz", "handler", "revoke"} /\ q.jwt # None => SignedFor(q)
  /\ q.pc = "suspension" => ~q.api
  /\ q.jwt # None /\ ~q.api => q.op = "use"
  /\ q.pc \in {"handler", "revoke"} /\ q.jwt # None /\ q.op # "use" =>
       tok'[q.jwt.jti].made = "user"
  /\ q.pc = "revoke" => q.target \in TokenID

LEMMA DoneInvNext == ReqInvNext(Done)
  BY DoneFacts DEF ReqInvNext

\* A request the step leaves alone stays in its invariant as the table moves.
LEMMA Kept ==
  ASSUME IInv, TableMove, NEW r \in Request
  PROVE  ReqInvNext(req[r])
<1>1. ReqInv(req[r]) /\ req[r] \in ReqRec
  BY DEF IInv
<1>2. ASSUME req[r].jwt \in jwts
      PROVE  /\ req[r].jwt.jti \in TokenID /\ tok[req[r].jwt.jti] # Absent
             /\ req[r].jwt \in jwts'
  BY <1>2 DEF IInv, TableType, Minted, TableMove, JWTs
<1>3. req[r].late => req[r].jwt \in jwts
  BY <1>1 DEF ReqInv
<1>4. req[r].late => req[r].pc = "row" /\ tok'[req[r].jwt.jti].state = "revoked"
  BY <1>1, <1>2, <1>3 DEF ReqInv, TableMove
<1>5. req[r].pc \in {"handler", "revoke"} /\ req[r].jwt # None /\ req[r].op # "use" =>
        tok'[req[r].jwt.jti].made = "user"
  BY <1>1, <1>2 DEF ReqInv, TableMove
<1>6. req[r].jwt # None \/ req[r].pc \in {"row", "suspension", "authz"} => req[r].jwt \in jwts'
  BY <1>1, <1>2 DEF ReqInv
<1> QED
  BY <1>1, <1>4, <1>5, <1>6 DEF ReqInv, ReqInvNext

LEMMA RequestMoves ==
  ASSUME IInv, TableMove, NEW r \in Request, NEW q \in ReqRec,
         req' = [req EXCEPT ![r] = q], ReqInvNext(q)
  PROVE  IInv'
<1>1. req \in [Request -> ReqRec]
  BY DEF IInv
<1>2. req' \in [Request -> ReqRec]
  BY <1>1
<1>3. \A v \in Request : ReqInvNext(req'[v])
  BY <1>1, Kept
<1>4. \A v \in Request : ReqInv(req[v])'
  BY <1>3 DEF ReqInv, ReqInvNext, SignedFor, OrgWide, IsInstanceScoped, IsOrgScoped
<1> QED
  BY <1>2, <1>4 DEF IInv, TableMove

LEMMA RequestsStay ==
  ASSUME IInv, TableMove, UNCHANGED req
  PROVE  IInv'
<1>1. \A v \in Request : ReqInvNext(req[v])
  BY Kept
<1>2. \A v \in Request : ReqInv(req[v])'
  BY <1>1 DEF ReqInv, ReqInvNext, SignedFor, OrgWide, IsInstanceScoped, IsOrgScoped
<1> QED
  BY <1>2 DEF IInv, TableMove

LEMMA TableStays ==
  ASSUME IInv, UNCHANGED <<tok, jwts, audits, budget>>
  PROVE  TableMove
  BY DEF IInv, TableMove, TableType, Minted, NoHeir, AuditedOnce

LEMMA TokRows ==
  ASSUME IInv, NEW t \in TokenID, tok[t] # Absent
  PROVE  tok[t] \in RowSet
  BY RowsFacts DEF IInv, TableType

\* One row becomes another of the same maker, revoked if it was, and the auditor
\* hears of it.
LEMMA RowMoves ==
  ASSUME IInv, NEW t \in TokenID, NEW row \in RowSet, tok' = [tok EXCEPT ![t] = row],
         row.made = "token" => ~row.manage,
         jwts' \subseteq JWTs, jwts \subseteq jwts', \A c \in jwts' : c \in jwts \/ c.jti = t,
         tok[t] # Absent => /\ row.made = tok[t].made
                            /\ tok[t].state = "revoked" => row.state = "revoked",
         audits' \in [TokenID -> Nat], \A v \in TokenID : v # t => audits'[v] = audits[v],
         audits'[t] <= IF row.state = "revoked" THEN 1 ELSE 0,
         budget' \in 0 .. MaxEvents
  PROVE  TableMove
<1>1. tok \in [TokenID -> Rows] /\ row # Absent /\ row \in Rows
  BY RowsFacts DEF IInv, TableType
<1>2. tok'[t] = row /\ \A v \in TokenID : v # t => tok'[v] = tok[v]
  BY <1>1
<1>3. TableType'
  BY <1>1 DEF TableType
<1>4. Minted'
  <2> SUFFICES ASSUME NEW c \in jwts' PROVE tok'[c.jti] # Absent
    BY DEF Minted
  <2>1. c.jti \in TokenID
    BY DEF JWTs
  <2>2. CASE c.jti = t
    BY <2>2, <1>1, <1>2
  <2>3. CASE c.jti # t
    BY <2>1, <2>3, <1>2 DEF IInv, Minted
  <2> QED
    BY <2>2, <2>3
<1>5. NoHeir'
  BY <1>2 DEF IInv, NoHeir
<1>6. AuditedOnce'
  BY <1>2 DEF IInv, AuditedOnce
<1> QED
  BY <1>2, <1>3, <1>4, <1>5, <1>6 DEF TableMove

LEMMA CreateMoves ==
  ASSUME IInv, NEW t \in TokenID, NEW s \in Shapes, NEW given \in BOOLEAN,
         NEW made \in {"user", "token"}, made = "token" => ~PoliciesOf(s, given),
         Create(t, s, given, made), UNCHANGED audits, budget' \in 0 .. MaxEvents
  PROVE  TableMove
<1> DEFINE row == Row(s, PoliciesOf(s, given), made)
<1>1. PoliciesOf(s, given) \in BOOLEAN
  BY DEF PoliciesOf
<1>2. row \in RowSet /\ row.state = "live" /\ row.manage = PoliciesOf(s, given) /\ row.made = made
  BY <1>1, NewRow
<1>3. /\ tok[t] = Absent /\ tok' = [tok EXCEPT ![t] = row]
      /\ jwts' = jwts \cup {Claims(t, s)}
  BY DEF Create
<1> HIDE DEF row
<1>4. Claims(t, s) \in JWTs /\ Claims(t, s).jti = t /\ jwts \subseteq JWTs
      /\ audits \in [TokenID -> Nat]
  BY ClaimsTyped DEF IInv, TableType
<1>5. tok[t].state = "absent"
  BY <1>3, RowsFacts
<1>6. audits'[t] <= IF row.state = "revoked" THEN 1 ELSE 0
  BY <1>2, <1>5 DEF IInv, AuditedOnce
<1>7. /\ jwts' \subseteq JWTs /\ jwts \subseteq jwts' /\ \A c \in jwts' : c \in jwts \/ c.jti = t
      /\ audits' \in [TokenID -> Nat] /\ \A v \in TokenID : v # t => audits'[v] = audits[v]
      /\ row.made = "token" => ~row.manage
  BY <1>2, <1>3, <1>4
<1> QED
  BY <1>2, <1>3, <1>6, <1>7, RowMoves

LEMMA RevokeMoves ==
  ASSUME IInv, NEW t \in TokenID, NEW o, Revoke(t, o), UNCHANGED <<jwts, budget>>
  PROVE  TableMove
<1>1. CASE UNCHANGED <<tok, audits>>
  BY <1>1, TableStays
<1>2. CASE /\ Live(t)
           /\ tok' = [tok EXCEPT ![t].state = "revoked"]
           /\ audits' = [audits EXCEPT ![t] = @ + 1]
  <2> DEFINE row == [tok[t] EXCEPT !.state = "revoked"]
  <2>1. tok[t].state = "live" /\ tok[t] # Absent
    BY <1>2, RowsFacts DEF Live
  <2>2. tok[t] \in RowSet
    BY <2>1, TokRows
  <2>3. /\ row \in RowSet /\ row.state = "revoked" /\ row.made = tok[t].made
        /\ row.manage = tok[t].manage
    BY <2>2 DEF RowSet
  <2>4. tok' = [tok EXCEPT ![t] = row]
    BY <1>2 DEF IInv, TableType
  <2> HIDE DEF row
  <2>5. audits \in [TokenID -> Nat] /\ audits[t] <= 0 /\ jwts \subseteq JWTs
        /\ budget \in 0 .. MaxEvents
    BY <2>1 DEF IInv, TableType, AuditedOnce
  <2>6. /\ audits' \in [TokenID -> Nat] /\ \A v \in TokenID : v # t => audits'[v] = audits[v]
        /\ audits'[t] <= 1
    BY <1>2, <2>5
  <2>7. row.made = "token" => ~row.manage
    BY <2>1, <2>3 DEF IInv, NoHeir
  <2> QED
    BY <2>1, <2>3, <2>4, <2>5, <2>6, <2>7, RowMoves
<1> QED
  BY <1>1, <1>2 DEF Revoke

-----------------------------------------------------------------------------
(* The steps of a request.                                                  *)

LEMMA EndsInv ==
  ASSUME IInv, TableMove, NEW r \in Request, End(r)
  PROVE  IInv'
  BY DoneFacts, DoneInvNext, RequestMoves DEF End

LEMMA StartStep ==
  ASSUME IInv, NEW r \in Request, NEW c \in jwts, NEW op \in Ops, NEW api \in BOOLEAN,
         Start(r, c, op, api)
  PROVE  IInv'
<1> DEFINE q == [Done EXCEPT !.pc = "row", !.jwt = c, !.op = op, !.api = api,
                             !.late = ~Live(c.jti)]
<1>1. c \in JWTs /\ c.jti \in TokenID /\ tok[c.jti] # Absent
  BY DEF IInv, TableType, Minted, JWTs
<1>2. ~Live(c.jti) => tok[c.jti].state = "revoked"
  BY <1>1, TokRows, RowFields DEF Live
<1>3. Live(c.jti) \in BOOLEAN
  BY DEF Live
<1>4. /\ q \in ReqRec /\ q.pc = "row" /\ q.jwt = c /\ q.op = op /\ q.api = api
      /\ q.late = ~Live(c.jti)
  BY <1>1, <1>3, DoneFacts DEF ReqRec, PCs
<1>5. ~api => op = "use"
  BY ConstantsOK DEF Start, Call
<1>6. req' = [req EXCEPT ![r] = q] /\ UNCHANGED <<tok, jwts, audits, budget>>
  BY DEF Start
<1> HIDE DEF q
<1>7. ReqInvNext(q)
  BY <1>2, <1>4, <1>5, <1>6 DEF ReqInvNext
<1> QED
  BY <1>4, <1>6, <1>7, TableStays, RequestMoves

LEMMA StartUserStep ==
  ASSUME IInv, NEW r \in Request, NEW o \in Admin, NEW op \in Ops, StartUser(r, o, op)
  PROVE  IInv'
<1> DEFINE q == [Done EXCEPT !.pc = "handler", !.op = op, !.org = o]
<1>1. o \in OrgBound
  BY ConstantsOK DEF OrgBound
<1>2. q \in ReqRec /\ q.pc = "handler" /\ q.jwt = None /\ q.late = FALSE
  BY <1>1, DoneFacts DEF ReqRec, PCs
<1>3. req' = [req EXCEPT ![r] = q] /\ UNCHANGED <<tok, jwts, audits, budget>>
  BY DEF StartUser
<1> HIDE DEF q
<1>4. ReqInvNext(q)
  BY <1>2 DEF ReqInvNext
<1> QED
  BY <1>2, <1>3, <1>4, TableStays, RequestMoves

LEMMA LoadStep ==
  ASSUME IInv, NEW r \in Request, NEW o \in OrgBound, LoadToken(r, o)
  PROVE  IInv'
<1> DEFINE row == tok[req[r].jwt.jti]
           pc == IF req[r].api THEN "authz" ELSE "suspension"
           q == [req[r] EXCEPT !.pc = pc, !.ctx = ShapeOf(row), !.org = o]
<1>1. req \in [Request -> ReqRec] /\ req[r] \in ReqRec /\ ReqInv(req[r])
  BY DEF IInv
<1>2. At(r, "row") /\ VerifyClaims(row, req[r].jwt) /\ row.state # "revoked"
      /\ (~IsInstanceScoped(row) => o = row.org) /\ UNCHANGED <<tok, jwts, audits, budget>>
  BY DEF LoadToken
<1>3. req[r].jwt \in jwts /\ ~req[r].late
  BY <1>1, <1>2 DEF ReqInv, At
<1>4. req[r].jwt \in JWTs /\ row \in RowSet
  BY <1>3, TokRows DEF IInv, TableType, Minted, JWTs
<1>5. req' = [req EXCEPT ![r] = q]
  BY <1>1 DEF LoadToken
<1>6. ShapeOf(row) \in Shapes /\ pc \in PCs /\ (pc = "suspension" => ~req[r].api)
      /\ pc \in {"authz", "suspension"}
  BY <1>4, RowFields DEF PCs
<1> DEFINE s == ShapeOf(row)
<1>7. /\ s.scope = row.scope /\ s.org = row.org /\ s.project = row.project
  BY <1>4, RowFields
<1>8. LET c == req[r].jwt IN
      /\ row.org = c.org /\ row.project = c.project
      /\ row.scope = "instance" => c.org = None /\ c.project = None /\ c.scope = "instance"
      /\ row.scope = "organization" =>
           c.org # None /\ c.project = None /\ (c.named => c.scope = "organization")
  BY <1>2, <1>4, Verified
<1> HIDE DEF pc
<1>9. /\ q \in ReqRec /\ q.pc = pc /\ q.ctx = s /\ q.org = o /\ q.jwt = req[r].jwt
      /\ q.late = req[r].late /\ q.api = req[r].api /\ q.op = req[r].op
  BY <1>1, <1>6 DEF ReqRec
<1> HIDE DEF q, s
<1>10. SignedFor(q)
  BY <1>2, <1>7, <1>8, <1>9 DEF SignedFor, OrgWide, IsInstanceScoped, IsOrgScoped
<1>11. ReqInvNext(q)
  BY <1>1, <1>2, <1>3, <1>6, <1>9, <1>10 DEF ReqInv, ReqInvNext
<1> QED
  BY <1>2, <1>5, <1>9, <1>11, TableStays, RequestMoves

\* A request that passes the middlewares, or the checks of Revoke, stays as it is.
LEMMA PassesInv ==
  ASSUME IInv, NEW r \in Request, NEW q, UNCHANGED <<tok, jwts, audits, budget>>,
         req[r].pc \in {"suspension", "authz", "handler"},
         req' = [req EXCEPT ![r] = q],
         q \in ReqRec, q.pc \in {"handler", "revoke"}, q.jwt = req[r].jwt, q.op = req[r].op,
         q.ctx = req[r].ctx, q.org = req[r].org, q.api = req[r].api, q.late = req[r].late,
         q.pc = "revoke" => q.target \in TokenID,
         req[r].jwt # None /\ req[r].op # "use" => tok[req[r].jwt.jti].made = "user"
  PROVE  IInv'
<1>1. ReqInv(req[r])
  BY DEF IInv
<1>2. SignedFor(req[r]) => SignedFor(q)
  BY DEF SignedFor
<1>3. ReqInvNext(q)
  BY <1>1, <1>2 DEF ReqInv, ReqInvNext
<1> QED
  BY <1>3, TableStays, RequestMoves

LEMMA PassStep ==
  ASSUME IInv, NEW r \in Request, PassSuspension(r) \/ Authorize(r)
  PROVE  IInv'
<1> DEFINE q == [req[r] EXCEPT !.pc = "handler"]
<1>1. req \in [Request -> ReqRec] /\ req[r] \in ReqRec /\ ReqInv(req[r])
  BY DEF IInv
<1>2. req' = [req EXCEPT ![r] = q] /\ UNCHANGED <<tok, jwts, audits, budget>>
      /\ req[r].pc \in {"suspension", "authz"}
  BY <1>1 DEF PassSuspension, Authorize, Goto, At
<1>3. /\ q \in ReqRec /\ q.pc = "handler" /\ q.jwt = req[r].jwt /\ q.op = req[r].op
      /\ q.ctx = req[r].ctx /\ q.org = req[r].org /\ q.api = req[r].api /\ q.late = req[r].late
  BY <1>1 DEF ReqRec, PCs
<1> HIDE DEF q
<1>4. ASSUME req[r].jwt # None, req[r].op # "use"
      PROVE  tok[req[r].jwt.jti].made = "user"
  <2>1. req[r].api /\ req[r].jwt \in jwts
    BY <1>1, <1>4 DEF ReqInv
  <2>2. req[r].pc # "suspension"
    BY <2>1, <1>1 DEF ReqInv
  <2>3. tok[req[r].jwt.jti].manage
    BY <2>2, <1>4 DEF PassSuspension, Authorize, At
  <2>4. req[r].jwt.jti \in TokenID /\ tok[req[r].jwt.jti] # Absent
    BY <2>1 DEF IInv, TableType, Minted, JWTs
  <2>5. tok[req[r].jwt.jti].made # "token"
    BY <2>3, <2>4 DEF IInv, NoHeir
  <2> QED
    BY <2>4, <2>5, TokRows, RowFields
<1> QED
  BY <1>2, <1>3, <1>4, PassesInv

LEMMA CreateStep ==
  ASSUME IInv, NEW r \in Request, NEW t \in TokenID, NEW p \in Project \cup {None},
         CreateToken(r, t, p)
  PROVE  IInv'
<1> DEFINE s == IF p = None THEN OrgShape(req[r].org) ELSE ProjectShape(p)
           made == IF req[r].ctx = None THEN "user" ELSE "token"
<1>1. /\ req[r].org # None /\ MayCreate(req[r], p) /\ Create(t, s, FALSE, made)
      /\ End(r) /\ UNCHANGED <<audits, budget>>
  BY DEF CreateToken
<1>2. req[r].org \in Org
  BY <1>1 DEF IInv, ReqRec, OrgBound
<1>3. s \in Shapes /\ made \in {"user", "token"}
  BY <1>2, NewShapes
<1>4. made = "token" => ~PoliciesOf(s, FALSE)
  <2> SUFFICES ASSUME req[r].ctx # None PROVE ~PoliciesOf(s, FALSE)
    OBVIOUS
  <2>1. p # None
    BY <1>1 DEF MayCreate, RbacEnabled
  <2>2. s.scope = "project"
    BY <2>1, NewShapes
  <2> QED
    BY <2>2 DEF PoliciesOf
<1> HIDE DEF s, made
<1>5. budget' \in 0 .. MaxEvents
  BY <1>1 DEF IInv, TableType
<1>6. TableMove
  BY <1>1, <1>3, <1>4, <1>5, CreateMoves
<1> QED
  BY <1>1, <1>6, EndsInv

LEMMA FindStep ==
  ASSUME IInv, NEW r \in Request, NEW t \in TokenID, FindToRevoke(r, t)
  PROVE  IInv'
<1> DEFINE q == [req[r] EXCEPT !.pc = "revoke", !.target = t]
<1>1. req \in [Request -> ReqRec] /\ req[r] \in ReqRec /\ ReqInv(req[r])
  BY DEF IInv
<1>2. req' = [req EXCEPT ![r] = q] /\ UNCHANGED <<tok, jwts, audits, budget>>
      /\ req[r].pc = "handler"
  BY <1>1 DEF FindToRevoke, At
<1>3. /\ q \in ReqRec /\ q.pc = "revoke" /\ q.jwt = req[r].jwt /\ q.op = req[r].op
      /\ q.ctx = req[r].ctx /\ q.org = req[r].org /\ q.api = req[r].api /\ q.late = req[r].late
      /\ q.target = t
  BY <1>1 DEF ReqRec, PCs
<1> HIDE DEF q
<1>4. req[r].jwt # None /\ req[r].op # "use" => tok[req[r].jwt.jti].made = "user"
  BY <1>1, <1>2 DEF ReqInv
<1> QED
  BY <1>2, <1>3, <1>4, PassesInv

LEMMA RevokeStep ==
  ASSUME IInv, NEW r \in Request, RevokeToken(r)
  PROVE  IInv'
<1>1. /\ req[r].pc = "revoke" /\ Revoke(req[r].target, req[r].org) /\ End(r)
      /\ UNCHANGED <<jwts, budget>>
  BY DEF RevokeToken, At
<1>2. req[r].target \in TokenID
  BY <1>1 DEF IInv, ReqInv
<1>3. TableMove
  BY <1>1, <1>2, RevokeMoves
<1> QED
  BY <1>1, <1>3, EndsInv

LEMMA RequestStepInv ==
  ASSUME IInv, NEW r \in Request, RequestStep(r)
  PROVE  IInv'
<1>1. CASE Refuse(r) \/ HandlerEnds(r)
  BY <1>1, TableStays, EndsInv DEF Refuse, HandlerEnds
<1> QED
  BY <1>1, LoadStep, PassStep, CreateStep, FindStep, RevokeStep DEF RequestStep

-----------------------------------------------------------------------------
(* The rest of the world.                                                   *)

LEMMA PlatformStep ==
  ASSUME IInv, NEW t \in TokenID, NEW given \in BOOLEAN,
         NEW s \in {ProductShape(q) : q \in Product} \cup {InstanceShape},
         PlatformCreate(t, s, given)
  PROVE  IInv'
<1>1. s \in Shapes
  BY NewShapes
<1>2. /\ Create(t, s, given, "user") /\ UNCHANGED <<req, audits>>
      /\ budget' \in 0 .. MaxEvents
  BY ConstantsOK DEF PlatformCreate, IInv, TableType
<1>3. TableMove
  BY <1>1, <1>2, CreateMoves
<1> QED
  BY <1>2, <1>3, RequestsStay

LEMMA RegenerateStep ==
  ASSUME IInv, NEW t \in TokenID, RegenerateJWT(t)
  PROVE  IInv'
<1> DEFINE c == Claims(t, ShapeOf(tok[t]))
<1>1. /\ tok[t] # Absent /\ jwts' = jwts \cup {c} /\ UNCHANGED <<tok, req, audits>>
      /\ budget' \in 0 .. MaxEvents
  BY ConstantsOK DEF RegenerateJWT, IInv, TableType
<1>2. c \in JWTs /\ c.jti = t
  BY <1>1, TokRows, RowFields, ClaimsTyped
<1> HIDE DEF c
<1>3. TableMove
  BY <1>1, <1>2 DEF IInv, TableMove, TableType, Minted, NoHeir, AuditedOnce
<1> QED
  BY <1>1, <1>3, RequestsStay

LEMMA RewriteStep ==
  ASSUME IInv, NEW t \in TokenID, NEW s \in Rewrites, RewriteRow(t, s)
  PROVE  IInv'
<1> DEFINE row == [tok[t] EXCEPT !.scope = s.scope, !.id = s.id, !.org = s.org,
                                 !.project = s.project]
<1>1. /\ tok[t] # Absent /\ UNCHANGED <<jwts, req, audits>> /\ budget' \in 0 .. MaxEvents
  BY ConstantsOK DEF RewriteRow, IInv, TableType
<1>2. tok' = [tok EXCEPT ![t] = row]
  BY DEF RewriteRow, IInv, TableType
<1>3. s \in Shapes /\ tok[t] \in RowSet
  BY <1>1, ConstantsOK, TokRows
<1>4. /\ row \in RowSet /\ row.state = tok[t].state /\ row.made = tok[t].made
      /\ row.manage = tok[t].manage
  BY <1>3 DEF Shapes, RowSet
<1> HIDE DEF row
<1>5. audits \in [TokenID -> Nat] /\ jwts \subseteq JWTs
      /\ audits[t] <= IF row.state = "revoked" THEN 1 ELSE 0
  BY <1>4 DEF IInv, TableType, AuditedOnce
<1>6. row.made = "token" => ~row.manage
  BY <1>1, <1>4 DEF IInv, NoHeir
<1>7. TableMove
  BY <1>1, <1>2, <1>4, <1>5, <1>6, RowMoves
<1> QED
  BY <1>1, <1>7, RequestsStay

LEMMA StaleStep ==
  ASSUME IInv, NEW t \in TokenID, NEW o \in Org, RevokeStale(t, o)
  PROVE  IInv'
  BY RevokeMoves, RequestsStay DEF RevokeStale

LEMMA NextInv == IInv /\ [Next]_vars => IInv'
<1> SUFFICES ASSUME IInv, [Next]_vars PROVE IInv'
  OBVIOUS
<1>1. ASSUME NEW r \in Request, RequestStep(r) PROVE IInv'
  BY <1>1, RequestStepInv
<1>2. CASE Environment
  BY <1>2, StartStep, StartUserStep, PlatformStep, RegenerateStep, StaleStep, RewriteStep
     DEF Environment
<1>3. CASE UNCHANGED vars
  BY <1>3, TableStays, RequestsStay DEF vars
<1> QED
  BY <1>1, <1>2, <1>3 DEF Next

LEMMA Invariance == Spec => []IInv
  BY InitInv, NextInv, PTL DEF Spec

-----------------------------------------------------------------------------
(* The theorems.                                                            *)

\* The rows, the JWTs and the requests are well formed, and however many requests
\* and sweepers race to revoke a token, the auditor hears of the revocation at
\* most once, and of none that did not happen (APITokenRepo.Revoke).
THEOREM TokensAreConsistent == Spec => []TokensConsistent
<1>1. IInv => TokensConsistent
  BY DEF IInv, TableType, ReqRec, PCs, TypeOK, TokensConsistent
<1> QED
  BY <1>1, Invariance, PTL

\* A request that arrives after its token's revocation committed reaches no handler
\* on either chain, whichever JWT of the token it carries
\* (setCurrentOrgAndAPIToken).
THEOREM RevokedAreNotServed == Spec => []RevokedNotServed
<1>1. IInv => RevokedNotServed
  BY DEF IInv, ReqInv, RevokedNotServed, Served
<1> QED
  BY <1>1, Invariance, PTL

\* A request acts for the scope, the organization and the project its JWT signs,
\* whatever other writers put in the row, and for JWTs that sign no scope too
\* (VerifyClaims).
THEOREM RequestsServedAsSigned == Spec => []ServedAsSigned
<1>1. IInv => ServedAsSigned
  BY DEF IInv, ReqInv, SignedFor, ServedAsSigned, Served
<1> QED
  BY <1>1, Invariance, PTL

\* A token minted with another token's credentials mints and revokes none itself
\* (APITokenService.Create, APITokenUseCase.Create, Enforce).
THEOREM NoTokenSucceeds == Spec => []NoSuccession
<1>1. IInv => NoSuccession
  BY DEF IInv, NoHeir, ReqInv, NoSuccession, Served
<1> QED
  BY <1>1, Invariance, PTL

-----------------------------------------------------------------------------
(* The sweeper of unused tokens: its types, and that it lists no token used *)
(* within the threshold, for every number of tokens, organizations,         *)
(* requests, replicas, faults and changes.                                  *)

\* The column last_used_at is behind the newest use by at most MaxLag: whichever
\* request writes last read its clock at most that long before.
ColumnLag == \A t \in SweptToken : idle[t] <= seen[t] + MaxLag

SweeperInv == SweeperTypeOK /\ ColumnLag

Uses == [token : SweptToken \cup {Nil}, lag : 0..MaxLag]
Sweeps == [pc : {"idle", "orgs", "tokens"}, days : [SweptOrg -> 0..MaxDays],
           orgs : SUBSET SweptOrg, org : SweptOrg \cup {Nil}, todo : SUBSET SweptToken,
           lag : 0..MaxLag]

LEMMA SweeperBounds ==
  MaxLag \in Nat /\ MaxDays \in Nat /\ MaxFaults \in Nat /\ MaxChanges \in Nat /\ MaxAge \in Nat
BY SweeperAssumption DEF MaxAge

LEMMA SweeperRecords ==
  NoUse \in Uses /\ Asleep \in Sweeps
BY SweeperBounds DEF NoUse, Asleep, Uses, Sweeps

LEMMA SweeperFaults ==
  ASSUME SweeperTypeOK, Fault PROVE faults' \in 0..MaxFaults
BY SweeperBounds DEF SweeperTypeOK, Fault

LEMMA SweeperStarts ==
  SweeperInit => SweeperInv
<1> SUFFICES ASSUME SweeperInit PROVE SweeperInv
  OBVIOUS
<1>1. SweeperTypeOK
  BY SweeperBounds, SweeperRecords DEF SweeperInit, SweeperTypeOK, Uses, Sweeps, MaxAge
<1>2. ColumnLag
  <2> SUFFICES ASSUME NEW t \in SweptToken PROVE idle[t] <= seen[t] + MaxLag
    BY DEF ColumnLag
  <2>1. idle[t] = 0 /\ seen[t] = 0
    BY DEF SweeperInit
  <2> QED
    BY <2>1, SweeperBounds
<1> QED
  BY <1>1, <1>2 DEF SweeperInv

\* The steps of one token, one organization or one request.
LEMMA TokenSteps ==
  ASSUME SweeperInv, NEW t \in SweptToken, MintToken(t) \/ RevokeByHand(t)
  PROVE  SweeperInv'
<1>1. SweeperTypeOK'
  <2>1. 0 \in 0..MaxAge
    BY SweeperBounds
  <2>2. CASE MintToken(t)
    BY <2>1, <2>2 DEF SweeperInv, SweeperTypeOK, MintToken
  <2>3. CASE RevokeByHand(t)
    BY <2>3 DEF SweeperInv, SweeperTypeOK, RevokeByHand
  <2> QED
    BY <2>2, <2>3
<1>2. ColumnLag'
  BY SweeperBounds DEF SweeperInv, SweeperTypeOK, ColumnLag, MintToken, RevokeByHand
<1> QED
  BY <1>1, <1>2 DEF SweeperInv

LEMMA OrgSteps ==
  ASSUME SweeperInv, NEW o \in SweptOrg, NEW d \in Days, UpdateOrg(o, d)
  PROVE  SweeperInv'
<1>1. SweeperTypeOK'
  BY SweeperBounds DEF SweeperInv, SweeperTypeOK, UpdateOrg
<1>2. ColumnLag'
  BY DEF SweeperInv, ColumnLag, UpdateOrg
<1> QED
  BY <1>1, <1>2 DEF SweeperInv

LEMMA StampSteps ==
  ASSUME SweeperInv, NEW r \in Recorder, NEW t \in SweptToken, StampUse(r, t)
  PROVE  SweeperInv'
<1>1. SweeperTypeOK'
  <2>1. [token |-> t, lag |-> 0] \in Uses
    BY SweeperBounds DEF Uses
  <2> QED
    BY <2>1 DEF SweeperInv, SweeperTypeOK, StampUse, Uses
<1>2. ColumnLag'
  BY DEF SweeperInv, ColumnLag, StampUse
<1> QED
  BY <1>1, <1>2 DEF SweeperInv

LEMMA WriteSteps ==
  ASSUME SweeperInv, NEW r \in Recorder, WriteUse(r)
  PROVE  SweeperInv'
<1> DEFINE t == use[r].token
           age == use[r].lag
<1>1. t \in SweptToken /\ age \in 0..MaxLag /\ age \in 0..MaxAge
  BY SweeperBounds DEF SweeperInv, SweeperTypeOK, WriteUse, MaxAge
<1>2. use' \in [Recorder -> Uses]
  BY SweeperRecords DEF SweeperInv, SweeperTypeOK, WriteUse, Uses
<1>3. faults' \in 0..MaxFaults
  BY SweeperFaults DEF SweeperInv, SweeperTypeOK, WriteUse
<1>4. /\ idle' \in [SweptToken -> 0..MaxAge]
      /\ seen' \in [SweptToken -> 0..MaxAge]
      /\ ColumnLag'
  <2>1. CASE UNCHANGED <<idle, seen>>
    BY <2>1 DEF SweeperInv, SweeperTypeOK, ColumnLag
  <2>2. CASE /\ idle' = [idle EXCEPT ![t] = age]
             /\ seen' = [seen EXCEPT ![t] = IF age < @ THEN age ELSE @]
    BY <2>2, <1>1, SweeperBounds DEF SweeperInv, SweeperTypeOK, ColumnLag
  <2> QED
    BY <2>1, <2>2 DEF WriteUse
<1>5. SweeperTypeOK'
  BY <1>2, <1>3, <1>4 DEF SweeperInv, SweeperTypeOK, WriteUse, Uses
<1> QED
  BY <1>4, <1>5 DEF SweeperInv

\* The steps of a sweep leave the times alone.
LEMMA SweepSteps ==
  ASSUME SweeperInv, NEW s \in Sweeper, SweepStep(s)
  PROVE  SweeperInv'
<1> SUFFICES /\ sweep' \in [Sweeper -> Sweeps]
             /\ state' \in [SweptToken -> {"absent", "live", "revoked"}]
             /\ faults' \in 0..MaxFaults
             /\ UNCHANGED <<idle, seen, threshold, use, changes>>
  BY DEF SweeperInv, SweeperTypeOK, ColumnLag, Sweeps
<1> USE DEF SweeperInv
<1>1. sweep \in [Sweeper -> Sweeps] /\ sweep[s] \in Sweeps
  BY DEF SweeperTypeOK, Sweeps
<1>2. CASE BeginSweep(s)
  <2>1. threshold \in [SweptOrg -> 0..MaxDays]
    BY SweeperAssumption DEF SweeperTypeOK
  <2>2. [Asleep EXCEPT !.pc = "orgs", !.days = threshold,
                       !.orgs = {o \in SweptOrg : threshold[o] > 0}] \in Sweeps
    BY <2>1, SweeperRecords DEF Sweeps
  <2> QED
    BY <1>1, <1>2, <2>2, SweeperFaults DEF SweeperTypeOK, BeginSweep
<1>3. CASE NextOrg(s)
  <2>1. [sweep[s] EXCEPT !.pc = "orgs", !.org = Nil] \in Sweeps
    BY <1>1 DEF Sweeps
  <2>2. sweep' = [sweep EXCEPT ![s] = [sweep[s] EXCEPT !.pc = "orgs", !.org = Nil]]
    BY <1>1, <1>3 DEF NextOrg, Sweeps
  <2> QED
    BY <1>1, <1>3, <2>1, <2>2 DEF SweeperTypeOK, NextOrg
<1>4. CASE EndSweep(s)
  BY <1>1, <1>4, SweeperRecords DEF SweeperTypeOK, EndSweep
<1>5. CASE \E o \in SweptOrg : FindInactive(s, o)
  <2>1. PICK o \in SweptOrg : FindInactive(s, o)
    BY <1>5
  <2> DEFINE rest == sweep[s].orgs \ {o}
             lag == IF rest = {} THEN 0 ELSE sweep[s].lag
             todo == {t \in SweptToken : Inactive(s, t, o)}
  <2>2. rest \in SUBSET SweptOrg /\ lag \in 0..MaxLag /\ todo \in SUBSET SweptToken
    BY <1>1, SweeperBounds DEF Sweeps
  <2> HIDE DEF rest, lag, todo
  <2>3. [sweep[s] EXCEPT !.pc = "tokens", !.orgs = rest, !.org = o, !.lag = lag,
                         !.todo = todo] \in Sweeps
    BY <1>1, <2>2 DEF Sweeps
  <2>4. [sweep[s] EXCEPT !.orgs = rest, !.lag = lag] \in Sweeps
    BY <1>1, <2>2 DEF Sweeps
  <2>5. \/ /\ sweep' = [sweep EXCEPT ![s] = [sweep[s] EXCEPT !.pc = "tokens", !.orgs = rest,
                                      !.org = o, !.lag = lag, !.todo = todo]]
           /\ UNCHANGED faults
        \/ Fault /\ sweep' = [sweep EXCEPT ![s] = [sweep[s] EXCEPT !.orgs = rest, !.lag = lag]]
    BY <1>1, <2>1 DEF FindInactive, rest, lag, todo, Sweeps
  <2>6. sweep' \in [Sweeper -> Sweeps]
    BY <1>1, <2>3, <2>4, <2>5
  <2>7. faults' \in 0..MaxFaults
    BY <2>5, SweeperFaults DEF SweeperTypeOK
  <2> QED
    BY <2>1, <2>6, <2>7 DEF SweeperTypeOK, FindInactive
<1>6. CASE \E t \in SweptToken : RevokeUnused(s, t)
  <2>1. PICK t \in SweptToken : RevokeUnused(s, t)
    BY <1>6
  <2>2. [sweep[s] EXCEPT !.todo = @ \ {t}] \in Sweeps
    BY <1>1 DEF Sweeps
  <2>3. sweep' = [sweep EXCEPT ![s] = [sweep[s] EXCEPT !.todo = @ \ {t}]]
    BY <1>1, <2>1 DEF RevokeUnused, Sweeps
  <2>4. state' \in [SweptToken -> {"absent", "live", "revoked"}]
    BY <2>1 DEF SweeperTypeOK, RevokeUnused
  <2>5. faults' \in 0..MaxFaults
    BY <2>1, SweeperFaults DEF SweeperTypeOK, RevokeUnused
  <2> QED
    BY <1>1, <2>1, <2>2, <2>3, <2>4, <2>5 DEF RevokeUnused
<1> QED
  BY <1>2, <1>3, <1>4, <1>5, <1>6 DEF SweepStep

\* Time passes for the column and for the newest use alike.
LEMMA TickSteps ==
  ASSUME SweeperInv, Tick
  PROVE  SweeperInv'
<1>1. use' \in [Recorder -> Uses]
  <2> SUFFICES ASSUME NEW r \in Recorder
               PROVE  (IF use[r] = NoUse THEN NoUse ELSE [use[r] EXCEPT !.lag = @ + 1]) \in Uses
    BY DEF Tick
  <2> QED
    BY SweeperRecords, SweeperBounds DEF SweeperInv, SweeperTypeOK, Tick, Uses
<1>2. sweep' \in [Sweeper -> Sweeps]
  <2> SUFFICES ASSUME NEW s \in Sweeper
               PROVE  (IF sweep[s].orgs = {} THEN sweep[s]
                       ELSE [sweep[s] EXCEPT !.lag = @ + 1]) \in Sweeps
    BY DEF Tick
  <2>1. sweep[s] \in Sweeps
    BY DEF SweeperInv, SweeperTypeOK, Sweeps
  <2>2. CASE sweep[s].orgs = {}
    BY <2>1, <2>2
  <2>3. CASE sweep[s].orgs # {}
    <3>1. sweep[s].lag + 1 \in 0..MaxLag
      BY <2>1, <2>3, SweeperBounds DEF Tick, Sweeps
    <3> QED
      BY <2>1, <2>3, <3>1 DEF Sweeps
  <2> QED
    BY <2>2, <2>3
<1>3. /\ idle' \in [SweptToken -> 0..MaxAge]
      /\ seen' \in [SweptToken -> 0..MaxAge]
  BY SweeperBounds DEF SweeperInv, SweeperTypeOK, Tick, Older
<1>4. ColumnLag'
  BY SweeperBounds DEF SweeperInv, SweeperTypeOK, ColumnLag, Tick, Older
<1>5. SweeperTypeOK'
  BY <1>1, <1>2, <1>3 DEF SweeperInv, SweeperTypeOK, Tick, Uses, Sweeps
<1> QED
  BY <1>4, <1>5 DEF SweeperInv

LEMMA SweeperGoesOn ==
  SweeperInv /\ [SweeperNext]_sweeperVars => SweeperInv'
<1> SUFFICES ASSUME SweeperInv, [SweeperNext]_sweeperVars PROVE SweeperInv'
  OBVIOUS
<1>1. CASE \E t \in SweptToken : MintToken(t) \/ RevokeByHand(t)
  BY <1>1, TokenSteps
<1>2. CASE \E o \in SweptOrg, d \in Days : UpdateOrg(o, d)
  BY <1>2, OrgSteps
<1>3. CASE \E r \in Recorder : WriteUse(r) \/ \E t \in SweptToken : StampUse(r, t)
  BY <1>3, WriteSteps, StampSteps
<1>4. CASE \E s \in Sweeper : SweepStep(s)
  BY <1>4, SweepSteps
<1>5. CASE Tick
  BY <1>5, TickSteps
<1>6. CASE UNCHANGED sweeperVars
  BY <1>6 DEF sweeperVars, SweeperInv, SweeperTypeOK, ColumnLag
<1> QED
  BY <1>1, <1>2, <1>3, <1>4, <1>5, <1>6 DEF SweeperNext

\* The rows, the recordings under way and the sweeps of TokenSweeper keep their
\* types, whatever fails (APITokenRepo, APITokenStaleRevoker).
THEOREM SweeperTypeCorrect ==
  SweeperSpec => []SweeperTypeOK
<1>1. SweeperInv => SweeperTypeOK
  BY DEF SweeperInv
<1> QED
  BY SweeperStarts, SweeperGoesOn, <1>1, PTL DEF SweeperSpec

\* A step that lists tokens lists none that is recorded as used within the
\* threshold: the column is behind by no more than the lag of one clock.
LEMMA SparedByStep ==
  ASSUME SweeperInv, [SweeperNext]_sweeperVars, NEW s \in Sweeper, NEW t \in sweep'[s].todo \ sweep[s].todo
  PROVE  seen[t] + MaxLag > sweep'[s].days[sweep'[s].org]
<1> USE DEF SweeperInv
<1>1. sweep \in [Sweeper -> Sweeps]
  BY DEF SweeperTypeOK, Sweeps
<1>2. sweep'[s] # sweep[s]
  OBVIOUS
<1>3. PICK w \in Sweeper : SweepStep(w) \/ Tick
  BY <1>2 DEF SweeperNext, sweeperVars, MintToken, RevokeByHand, UpdateOrg, WriteUse, StampUse
<1>4. ~Tick
  <2> SUFFICES ASSUME Tick PROVE FALSE
    OBVIOUS
  <2>1. sweep'[s].todo = sweep[s].todo
    BY <1>1 DEF Tick, Sweeps
  <2> QED
    BY <2>1
<1>5. PICK o \in SweptOrg : FindInactive(w, o)
  <2>1. CASE BeginSweep(w)
    <3>1. sweep'[s].todo = {} \/ sweep' = sweep
      BY <1>1, <1>2, <2>1 DEF BeginSweep, Asleep
    <3> QED
      BY <3>1
  <2>2. CASE NextOrg(w)
    <3>1. sweep'[s].todo = sweep[s].todo
      BY <1>1, <2>2 DEF NextOrg, Sweeps
    <3> QED
      BY <3>1
  <2>3. CASE EndSweep(w)
    <3>1. sweep'[s].todo = {}
      BY <1>1, <1>2, <2>3 DEF EndSweep, Asleep
    <3> QED
      BY <3>1
  <2>4. CASE \E u \in SweptToken : RevokeUnused(w, u)
    <3>1. sweep'[s].todo \subseteq sweep[s].todo
      BY <1>1, <2>4 DEF RevokeUnused, Sweeps
    <3> QED
      BY <3>1
  <2> QED
    BY <1>3, <1>4, <2>1, <2>2, <2>3, <2>4 DEF SweepStep
<1>6. /\ w = s
      /\ sweep'[s].todo = {u \in SweptToken : Inactive(s, u, o)}
      /\ sweep'[s].org = o
      /\ sweep'[s].days = sweep[s].days
  <2>1. w = s
    BY <1>1, <1>2, <1>5 DEF FindInactive
  <2>2. sweep[s] \in Sweeps
    BY <1>1
  <2> DEFINE todo == {u \in SweptToken : Inactive(s, u, o)}
             rest == sweep[s].orgs \ {o}
             lag == IF rest = {} THEN 0 ELSE sweep[s].lag
  <2>3. CASE sweep' = [sweep EXCEPT ![s] =
               [sweep[s] EXCEPT !.pc = "tokens", !.orgs = rest, !.org = o, !.lag = lag,
                                !.todo = todo]]
    <3> HIDE DEF todo, rest, lag
    <3>1. sweep'[s] = [sweep[s] EXCEPT !.pc = "tokens", !.orgs = rest, !.org = o, !.lag = lag,
                                       !.todo = todo]
      BY <1>1, <2>3
    <3>2. sweep'[s].todo = todo /\ sweep'[s].org = o /\ sweep'[s].days = sweep[s].days
      BY <2>2, <3>1 DEF Sweeps
    <3> QED
      BY <2>1, <3>2 DEF todo
  <2>4. CASE sweep' = [sweep EXCEPT ![s].orgs = rest, ![s].lag = lag]
    <3> HIDE DEF rest, lag
    <3>1. sweep'[s].todo = sweep[s].todo
      BY <1>1, <2>2, <2>4 DEF Sweeps
    <3> QED
      BY <3>1
  <2> QED
    BY <1>5, <2>1, <2>3, <2>4 DEF FindInactive
<1>7. t \in SweptToken /\ idle[t] > sweep[s].days[o] + sweep[s].lag
  BY <1>6 DEF Inactive
<1>8. /\ sweep[s].days[o] \in Nat /\ sweep[s].lag \in Nat
      /\ idle[t] \in Nat /\ seen[t] \in Nat /\ idle[t] <= seen[t] + MaxLag
  BY <1>1, <1>7, SweeperBounds DEF SweeperTypeOK, ColumnLag, Sweeps
<1> QED
  BY <1>6, <1>7, <1>8, SweeperBounds

\* No sweep lists a token that was used within the threshold it read, up to the
\* lag of a clock, whatever order concurrent requests write last_used_at in
\* (FindInactive).
THEOREM ActiveSparedHolds ==
  SweeperSpec => ActiveSpared
<1>1. SweeperInv /\ [SweeperNext]_sweeperVars =>
        [\A s \in Sweeper : \A t \in sweep'[s].todo \ sweep[s].todo :
           seen[t] + MaxLag > sweep'[s].days[sweep'[s].org]]_sweeperVars
  BY SparedByStep
<1> QED
  BY SweeperStarts, SweeperGoesOn, <1>1, PTL DEF SweeperSpec, ActiveSpared
=============================================================================
