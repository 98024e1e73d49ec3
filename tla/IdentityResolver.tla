--------------------------- MODULE IdentityResolver ---------------------------
(***************************************************************************)
(* The roles identity resolver (package roles; only its tests are in src/, *)
(* src/pkg/tasks/scheduler.go lines 461-1019, so the resolver itself is    *)
(* modelled from spec.md sections 4.2-4.5 and 7).  Each request walks the *)
(* tiers TLS, DPoP, JWT in order (Unresolved -> TLS-checked -> DPoP-checked *)
(* -> JWT-checked -> Resolved); DPoP and JWT call the injected claims      *)
(* collaborators, which may block until the request deadline passes.  A   *)
(* tier that fails advances to the next one; the last one to Guest.        *)
(*                                                                         *)
(* The collaborators are the tests' mocks: mockJWT.ParseToken returns its  *)
(* claims with the error claims.Valid(cfg) (issuer and audience checks),  *)
(* mockAccessToken.Claims answers only "pat." tokens and returns nil, nil *)
(* for any other, so that the JWT verifier is tried next.                  *)
(***************************************************************************)
EXTENDS Naturals, Sequences

CONSTANTS
    Requests,     \* the requests in flight
    Creds,        \* raw credentials: [cert, auth |-> [scheme, token], proof]
    Fixtures,     \* [idmap, jwt, at]: an IdentityMap and its collaborators,
                  \* each the set of the claims its mock returns ({} for nil)
    CertIds,      \* single trust identifiers (SPIFFE URIs) a certificate may carry
    Thumbprints,  \* key thumbprints a well-formed DPoP proof may have
    GuestRole     \* identity.GuestRoleName

VARIABLES
    fixture,      \* roles.New(idmap, jwtParser, atProvider), fixed thereafter
    cred,         \* cred[r]: what the HTTP or gRPC binding extracted for r
    deadline,     \* deadline[r]: r's context carries a deadline
    expired,      \* expired[r]: r's deadline has passed
    stage,        \* stage[r]: the tier being tried, "tls" .. "jwt", or "done"
    calling,      \* calling[r]: r is blocked in a collaborator call
    identity      \* identity[r]: Unresolved, then the resolved Identity

vars == <<fixture, cred, deadline, expired, stage, calling, identity>>

Guest == [role |-> GuestRole, subject |-> "", tenant |-> ""]
NoGrant == [role |-> "", subject |-> "", tenant |-> ""]
Unresolved == [role |-> "unresolved", subject |-> "", tenant |-> ""]

-----------------------------------------------------------------------------
\* Role Mapper: the role whose value set holds v (first match), else the
\* default; an empty default contributes no role ("").
MapRole(v, roles, default) ==
    IF \E role \in DOMAIN roles : v \in roles[role]
    THEN CHOOSE role \in DOMAIN roles : v \in roles[role]
    ELSE default

\* SubjectClaim and RoleClaim name a claim; unset, the subject is "sub".
ClaimName(name) == IF name = "" THEN "sub" ELSE name

\* Mutant: the audience is not checked.
ValidClaimsNoAudience(claims, cfg) ==
    cfg.issuer = "" \/ claims.iss = cfg.issuer

\* claims.Valid(cfg): issuer and audience match the configured ones.
ValidClaims(claims, cfg) ==
    /\ cfg.issuer = "" \/ claims.iss = cfg.issuer
    /\ cfg.audience = "" \/ cfg.audience \in claims.aud

\* The claims provider contract: the access-token introspector for a "pat."
\* token, else the JWT verifier; nil collaborators disable the capability.
\* Result: the set of claims that were obtained and pass those checks.
ObtainClaims(fx, c, cfg) ==
    LET got == IF fx.at # {} /\ c.auth.token = "pat" THEN fx.at ELSE fx.jwt
    IN  {claims \in got : ValidClaims(claims, cfg)}

\* The Identity a verified token maps to, or NoGrant without a role.
TokenIdentity(claims, cfg) ==
    LET role == MapRole(claims[ClaimName(cfg.roleClaim)], cfg.roles, cfg.default)
    IN  IF role = "" THEN NoGrant
        ELSE [role |-> role, subject |-> claims[ClaimName(cfg.subjectClaim)],
              tenant |-> claims.tenant]

\* DPoP Binding Validation: a well-formed proof whose thumbprint equals the
\* cnf thumbprint of the access token's claims.
BindingValid(c, claims) == c.proof \in Thumbprints /\ claims.cnf = c.proof

\* A tier's syntactic precondition (ApplicableForRequest/Context per source).
SourceApplies(s, fx, c) ==
    CASE s = "tls"  -> fx.idmap.tls.enabled /\ c.cert # "none"
      [] s = "dpop" -> fx.idmap.dpop.enabled /\ c.auth.scheme = "DPoP"
      [] s = "jwt"  -> fx.idmap.jwt.enabled /\ c.auth.scheme # "none"

\* What source s grants credential c, or NoGrant.
Grant(s, fx, c) ==
    CASE ~SourceApplies(s, fx, c) -> NoGrant
      [] s = "tls" ->
            LET role == MapRole(c.cert, fx.idmap.tls.roles, fx.idmap.tls.default)
            IN  IF c.cert \in CertIds /\ role # ""
                THEN [role |-> role, subject |-> c.cert, tenant |-> ""]
                ELSE NoGrant
      [] s = "dpop" ->
            LET got == ObtainClaims(fx, c, fx.idmap.dpop)
            IN  IF got # {} /\ BindingValid(c, CHOOSE cl \in got : TRUE)
                THEN TokenIdentity(CHOOSE cl \in got : TRUE, fx.idmap.dpop)
                ELSE NoGrant
      [] s = "jwt" ->
            LET got == ObtainClaims(fx, c, fx.idmap.jwt)
            IN  IF got # {} THEN TokenIdentity(CHOOSE cl \in got : TRUE, fx.idmap.jwt)
                ELSE NoGrant

\* ApplicableForRequest / ApplicableForContext.
Applicable(fx, c) == \E s \in {"tls", "dpop", "jwt"} : SourceApplies(s, fx, c)

-----------------------------------------------------------------------------
Init ==
    /\ fixture \in Fixtures
    /\ cred \in [Requests -> Creds]
    /\ deadline \in [Requests -> BOOLEAN]
    /\ expired = [r \in Requests |-> FALSE]
    /\ stage = [r \in Requests |-> "tls"]
    /\ calling = [r \in Requests |-> FALSE]
    /\ identity = [r \in Requests |-> Unresolved]

\* A failed tier hands r to the next one; after JWT, r resolves to Guest.
Advance(r) ==
    IF stage[r] = "jwt"
    THEN /\ stage' = [stage EXCEPT ![r] = "done"]
         /\ identity' = [identity EXCEPT ![r] = Guest]
    ELSE /\ stage' = [stage EXCEPT ![r] = IF stage[r] = "tls" THEN "dpop" ELSE "jwt"]
         /\ UNCHANGED identity

\* A tier grants an identity: r is resolved.
Resolved(r, id) ==
    /\ stage' = [stage EXCEPT ![r] = "done"]
    /\ identity' = [identity EXCEPT ![r] = id]

\* TLS check: reads the already-validated peer certificate; never blocks.
CheckTLS(r) ==
    /\ stage[r] = "tls"
    /\ LET id == Grant("tls", fixture, cred[r])
       IN  IF id # NoGrant THEN Resolved(r, id) ELSE Advance(r)
    /\ UNCHANGED <<fixture, cred, deadline, expired, calling>>

\* DPoP or JWT tier whose precondition does not hold: skipped.
Skip(r) ==
    /\ stage[r] \in {"dpop", "jwt"}
    /\ ~calling[r]
    /\ ~SourceApplies(stage[r], fixture, cred[r])
    /\ Advance(r)
    /\ UNCHANGED <<fixture, cred, deadline, expired, calling>>

\* DPoP or JWT tier applies: r calls the claims collaborator and blocks.
Call(r) ==
    /\ stage[r] \in {"dpop", "jwt"}
    /\ ~calling[r]
    /\ SourceApplies(stage[r], fixture, cred[r])
    /\ calling' = [calling EXCEPT ![r] = TRUE]
    /\ UNCHANGED <<fixture, cred, deadline, expired, stage, identity>>

\* Mutant: a failed tier resolves to Guest instead of falling through.
ReturnNoFallThrough(r) ==
    /\ calling[r]
    /\ calling' = [calling EXCEPT ![r] = FALSE]
    /\ LET id == IF expired[r] THEN NoGrant ELSE Grant(stage[r], fixture, cred[r])
       IN  Resolved(r, IF id # NoGrant THEN id ELSE Guest)
    /\ UNCHANGED <<fixture, cred, deadline, expired>>

\* The collaborator returns; past the deadline it returns the context's
\* error, and the tier degrades.
Return(r) ==
    /\ calling[r]
    /\ calling' = [calling EXCEPT ![r] = FALSE]
    /\ LET id == IF expired[r] THEN NoGrant ELSE Grant(stage[r], fixture, cred[r])
       IN  IF id # NoGrant THEN Resolved(r, id) ELSE Advance(r)
    /\ UNCHANGED <<fixture, cred, deadline, expired>>

\* The caller's deadline passes while r is unresolved.
Expire(r) ==
    /\ deadline[r]
    /\ stage[r] # "done"
    /\ ~expired[r]
    /\ expired' = [expired EXCEPT ![r] = TRUE]
    /\ UNCHANGED <<fixture, cred, deadline, stage, calling, identity>>

Next ==
    \E r \in Requests :
        CheckTLS(r) \/ Skip(r) \/ Call(r) \/ Return(r) \/ Expire(r)

\* Each request runs on its own goroutine, so its non-blocking steps are
\* taken.  A deadline, when r has one, arrives; a blocked collaborator
\* call is only bound to return once the deadline propagated into it has
\* passed (spec section 5).  Before that, or without a deadline, it may
\* block for ever.
Fairness ==
    \A r \in Requests :
        /\ WF_vars(CheckTLS(r)) /\ WF_vars(Skip(r)) /\ WF_vars(Call(r))
        /\ WF_vars(Expire(r))
        /\ WF_vars(expired[r] /\ Return(r))

Spec == Init /\ [][Next]_vars /\ Fairness

-----------------------------------------------------------------------------
\* The refinement mapping: the tier being tried and the blocked call are
\* hidden; the rest maps one to one.
Abstract == INSTANCE IdentityResolverSpec
    WITH Requests <- Requests, Creds <- Creds, Fixtures <- Fixtures,
         Grant <- Grant, NoGrant <- NoGrant, Guest <- Guest,
         Unresolved <- Unresolved, fixture <- fixture, cred <- cred,
         deadline <- deadline, expired <- expired, identity <- identity

\* The tiered resolver implements the contract: every request with a
\* deadline is resolved, and every resolved request gets what the first
\* authenticating source in TLS > DPoP > JWT grants, or Guest, with only
\* the tiers cut off by the deadline allowed to degrade.
ImplementsIdentityResolverSpec == Abstract!Spec

\* A DPoP-bound token is honoured only with a matching thumbprint: a
\* request with the DPoP scheme, not authenticated by its certificate,
\* whose proof does not match the cnf claim of its token resolves to
\* Guest (spec.md section 8).
DPoPBindingEnforced ==
    \A r \in Requests :
        (/\ identity[r] \notin {Unresolved, Guest}
         /\ cred[r].auth.scheme = "DPoP"
         /\ Grant("tls", fixture, cred[r]) = NoGrant)
            => \E claims \in fixture.jwt \cup fixture.at :
                  BindingValid(cred[r], claims)
=============================================================================
