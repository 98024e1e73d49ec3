\* The same fixtures and credentials, checking that a DPoP-bound token is
\* honoured only with a matching proof thumbprint.
CONSTANTS
    Requests = {r1}
    GuestRole = "guest"
    Creds <- MCCreds
    Fixtures <- MCFixtures
    CertIds <- MCCertIds
    Thumbprints <- MCThumbprints
SPECIFICATION Spec
INVARIANT DPoPBindingEnforced
\* Every request ends resolved; nothing is left to do after that.
CHECK_DEADLOCK FALSE
