\* One request (resolution shares no mutable state between requests) with
\* every credential shape, under every combination of the tests' maps and
\* mocks; it may carry a deadline, which may pass at any point.
CONSTANTS
    Requests = {r1}
    GuestRole = "guest"
    Creds <- MCCreds
    Fixtures <- MCFixtures
    CertIds <- MCCertIds
    Thumbprints <- MCThumbprints
SPECIFICATION Spec
INVARIANT
    TestAssertionsHold
PROPERTY
    ImplementsIdentityResolverSpec
\* A resolved request, or one blocked in a collaborator without a
\* deadline, has nothing more to do.
CHECK_DEADLOCK FALSE
