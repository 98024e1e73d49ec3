------------------------- MODULE IdentityResolverSpec -------------------------
(***************************************************************************)
(* What the roles identity resolver promises (spec.md sections 4.2, 4.5,   *)
(* 7): Resolve(rawCredential) is total; each request gets exactly one     *)
(* Identity, the one granted by the first source in the precedence order  *)
(* TLS > DPoP > JWT that authenticates the caller, or Guest.  A source     *)
(* whose collaborator call runs past the request deadline degrades as if *)
(* it had failed; nothing else may change the outcome.                     *)
(*                                                                         *)
(* Grant(s, fx, c) is what source s grants for credential c under fixture *)
(* fx (configuration and collaborators), or NoGrant; the detailed module   *)
(* supplies it.                                                            *)
(***************************************************************************)
EXTENDS Naturals, Sequences

CONSTANTS
    Requests,      \* the requests in flight
    Creds,         \* raw credentials a request may carry
    Fixtures,      \* IdentityMap configurations with their collaborators
    Grant(_, _, _),
    NoGrant,
    Guest,
    Unresolved

VARIABLES
    fixture,       \* the resolver's configuration, fixed at construction
    cred,          \* cred[r]: what the transport binding extracted for r
    deadline,      \* deadline[r]: r's context carries a deadline
    expired,       \* expired[r]: r's deadline has passed
    identity       \* identity[r]: Unresolved, then the resolved Identity

vars == <<fixture, cred, deadline, expired, identity>>

\* The sources in precedence order; only DPoP and JWT call collaborators.
Tiers == <<"tls", "dpop", "jwt">>
Blocking == {"dpop", "jwt"}

\* The outcome when the sources in failed degraded for lack of time.
RECURSIVE FirstGrant(_, _, _, _)
FirstGrant(fx, c, failed, i) ==
    IF i > Len(Tiers) THEN Guest
    ELSE IF Tiers[i] \notin failed /\ Grant(Tiers[i], fx, c) # NoGrant
         THEN Grant(Tiers[i], fx, c)
         ELSE FirstGrant(fx, c, failed, i + 1)

Init ==
    /\ fixture \in Fixtures
    /\ cred \in [Requests -> Creds]
    /\ deadline \in [Requests -> BOOLEAN]
    /\ expired = [r \in Requests |-> FALSE]
    /\ identity = [r \in Requests |-> Unresolved]

\* The request-scoped deadline passes while r is being resolved.
Expire(r) ==
    /\ deadline[r]
    /\ identity[r] = Unresolved
    /\ ~expired[r]
    /\ expired' = [expired EXCEPT ![r] = TRUE]
    /\ UNCHANGED <<fixture, cred, deadline, identity>>

\* r is resolved in one step; only after its deadline may sources degrade.
Resolve(r) ==
    /\ identity[r] = Unresolved
    /\ \E failed \in SUBSET (IF expired[r] THEN Blocking ELSE {}) :
          identity' = [identity EXCEPT ![r] = FirstGrant(fixture, cred[r], failed, 1)]
    /\ UNCHANGED <<fixture, cred, deadline, expired>>

Next == \E r \in Requests : Expire(r) \/ Resolve(r)

\* A deadline, when there is one, does arrive, and once it has passed the
\* resolution does not hang: a request with a deadline is eventually
\* resolved.  Without a deadline a blocked collaborator may hold it forever.
Spec == Init /\ [][Next]_vars
            /\ \A r \in Requests : WF_vars(Expire(r)) /\ WF_vars(expired[r] /\ Resolve(r))
=============================================================================
