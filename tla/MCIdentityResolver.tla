------------------------- MODULE MCIdentityResolver -------------------------
(***************************************************************************)
(* IdentityResolver instantiated with the fixtures of the roles tests      *)
(* (src/pkg/tasks/scheduler.go 486-1019): their IdentityMaps, the claims   *)
(* their mocks return, and the credentials their requests carry.  Every    *)
(* map is combined with every mock, so that combinations the tests never   *)
(* tried (a DPoP request with JWT also enabled, say) are covered as well.  *)
(***************************************************************************)
EXTENDS IdentityResolver, TLC

\* The DPoP proof the tests send carries this key thumbprint.
TP == "C8kBamVR4FbaWBy4nsR6yRMWsf1dSoUqvRp5i-ixux4"
SPIFFE == "spiffe://trusty/client"

NoRoles == [x \in {} |-> {}]
Off == [enabled |-> FALSE, issuer |-> "", audience |-> "", subjectClaim |-> "",
        roleClaim |-> "", default |-> "", roles |-> NoRoles]
TLSOff == [enabled |-> FALSE, default |-> "", roles |-> NoRoles]

\* Test_Empty: roles.New(&roles.IdentityMap{}, nil, nil).
EmptyMap == [tls |-> TLSOff, jwt |-> Off, dpop |-> Off]

\* Test_All.
AllMap ==
    [tls  |-> [enabled |-> TRUE, default |-> "tls_authenticated",
               roles |-> "trusty-client" :> {SPIFFE}],
     jwt  |-> [Off EXCEPT !.enabled = TRUE, !.subjectClaim = "email",
               !.roleClaim = "email", !.default = "jwt_authenticated",
               !.roles = "trusty-client" :> {"denis@trusty.ca"}],
     dpop |-> [Off EXCEPT !.enabled = TRUE, !.roleClaim = "sub",
               !.default = "dpop_authenticated",
               !.roles = "trusty-admin" :> {"12234"}]]
AllClaims ==
    [sub |-> "12234", email |-> "denis@trusty.com", tenant |-> "t12341234",
     iss |-> "", aud |-> {}, cnf |-> TP]

\* TestInvalidIssuer (Audience left empty) and TestInvalidAudience.
IssuerMap(aud) ==
    [tls  |-> TLSOff,
     jwt  |-> [Off EXCEPT !.enabled = TRUE, !.default = "jwt_authenticated",
               !.issuer = "expected_issuer", !.audience = aud,
               !.roles = "trusty-client" :> {"denis@trusty.ca"}],
     dpop |-> [Off EXCEPT !.enabled = TRUE, !.default = "dpop_authenticated",
               !.issuer = "expected_issuer", !.audience = aud,
               !.roles = "trusty-admin" :> {"denis@trusty.ca"}]]
IssuerClaims == [AllClaims EXCEPT !.tenant = "", !.iss = "issuer"]
AudienceClaims == [AllClaims EXCEPT !.tenant = "", !.iss = "expected_issuer",
                                    !.aud = {"aud"}]

\* Test_DPoPInvalid: only DPoP enabled; a cnf that is not a map, and one
\* whose thumbprint does not match.
DPoPOnlyMap ==
    [tls |-> TLSOff, jwt |-> Off,
     dpop |-> [Off EXCEPT !.enabled = TRUE, !.default = "dpop_authenticated",
               !.roles = "trusty-admin" :> {"denis@trusty.ca"}]]
BadCnfClaims ==
    [sub |-> "denis@trusty.com", email |-> "", tenant |-> "", iss |-> "",
     aud |-> {}, cnf |-> "malformed"]
MismatchClaims == [BadCnfClaims EXCEPT !.cnf = "mismatch"]

\* TestTLSOnly.
TLSOnlyMap ==
    [EmptyMap EXCEPT !.tls = [enabled |-> TRUE, default |-> "tls_authenticated",
                              roles |-> "trusty-client" :> {SPIFFE}]]

MCMaps == {EmptyMap, AllMap, IssuerMap(""), IssuerMap("expected_aud"),
           DPoPOnlyMap, TLSOnlyMap}
MCClaims == {AllClaims, IssuerClaims, AudienceClaims, BadCnfClaims, MismatchClaims}

\* The tests pass one claims set to both mocks, or nil for either.
MCFixtures ==
    LET Mocks == {{}} \cup {{c} : c \in MCClaims}
    IN  UNION {{[idmap |-> m, jwt |-> j, at |-> a] : a \in {{}, j}} :
                  m \in MCMaps, j \in Mocks}

\* setAuthorizationHeader: "Bearer " + token; setAuthorizationDPoPHeader:
\* the proof header and "DPoP " + token; gRPC metadata: the bare token.
MCCreds ==
    [cert  : {"none", SPIFFE, "spiffe://other", "ambiguous"},
     auth  : [scheme : {"none", "Bearer", "DPoP", "raw"}, token : {"jwt", "pat"}],
     proof : {"none", TP, "other", "malformed"}]

MCCertIds == {SPIFFE, "spiffe://other"}
MCThumbprints == {TP, "other"}

-----------------------------------------------------------------------------
Req(cert, scheme, token, proof) ==
    [cert |-> cert, auth |-> [scheme |-> scheme, token |-> token], proof |-> proof]
Fx(m, c, a) == [idmap |-> m, jwt |-> c, at |-> a]

\* The assertions of the tests: fixture, request, expected role, and the
\* ApplicableForRequest/Context value asserted ({} where none is, and
\* role "-" where no role is asserted).
TestCases ==
  { [fx |-> Fx(EmptyMap, {}, {}), cred |-> Req("none", "none", "jwt", "none"),
     role |-> "guest", applicable |-> {}] }
  \cup
  { [fx |-> Fx(AllMap, {AllClaims}, {AllClaims}), cred |-> tc[1],
     role |-> tc[2], applicable |-> tc[3]] :
      tc \in { <<Req("none", "Bearer", "jwt", "none"), "jwt_authenticated", {TRUE}>>,
               <<Req("none", "Bearer", "pat", "none"), "jwt_authenticated", {TRUE}>>,
               <<Req("none", "DPoP", "jwt", TP), "trusty-admin", {TRUE}>>,
               <<Req("none", "none", "jwt", "none"), "-", {FALSE}>>,
               <<Req("none", "raw", "jwt", "none"), "jwt_authenticated", {}>>,
               <<Req(SPIFFE, "none", "jwt", "none"), "trusty-client", {}>> } }
  \cup
  { [fx |-> Fx(IssuerMap(""), {IssuerClaims}, {IssuerClaims}), cred |-> tc[1],
     role |-> "guest", applicable |-> tc[2]] :
      tc \in { <<Req("none", "Bearer", "jwt", "none"), {TRUE}>>,
               <<Req("none", "Bearer", "pat", "none"), {TRUE}>>,
               <<Req("none", "DPoP", "jwt", TP), {TRUE}>>,
               <<Req("none", "raw", "jwt", "none"), {}>> } }
  \cup
  { [fx |-> Fx(IssuerMap("expected_aud"), {AudienceClaims}, {AudienceClaims}),
     cred |-> tc[1], role |-> "guest", applicable |-> tc[2]] :
      tc \in { <<Req("none", "Bearer", "jwt", "none"), {TRUE}>>,
               <<Req("none", "Bearer", "pat", "none"), {TRUE}>>,
               <<Req("none", "DPoP", "jwt", TP), {TRUE}>>,
               <<Req("none", "raw", "jwt", "none"), {}>> } }
  \cup
  { [fx |-> Fx(DPoPOnlyMap, {cl}, {}), cred |-> Req("none", "DPoP", "jwt", TP),
     role |-> "guest", applicable |-> {TRUE}] : cl \in {BadCnfClaims, MismatchClaims} }
  \cup
  { [fx |-> Fx(TLSOnlyMap, {}, {}), cred |-> tc[1],
     role |-> tc[2], applicable |-> tc[3]] :
      tc \in { <<Req("none", "Bearer", "jwt", "none"), "guest", {FALSE}>>,
               <<Req("none", "raw", "jwt", "none"), "guest", {}>>,
               <<Req(SPIFFE, "none", "jwt", "none"), "trusty-client", {TRUE}>>,
               <<Req("ambiguous", "none", "jwt", "none"), "guest", {TRUE}>> } }

\* The roles tests' assertions hold in every resolution the model reaches
\* without a deadline passing (the tests use context.Background and plain
\* http.NewRequest): each tested request resolves to the asserted role, and
\* ApplicableForRequest/Context returns what the tests assert.
TestAssertionsHold ==
    \A r \in Requests, tc \in TestCases :
        (tc.fx = fixture /\ tc.cred = cred[r] /\ identity[r] # Unresolved /\ ~expired[r])
            => /\ tc.role # "-" => identity[r].role = tc.role
               /\ tc.applicable # {} => Applicable(fixture, cred[r]) \in tc.applicable
=============================================================================
