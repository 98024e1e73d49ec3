\* newClient with an expired stored token.
CONSTANTS
    Schemes = {"https", "http", "unixs", "unix", "none"}
    Tokens = {"error", "valid", "expired"}
    MaxCloses = 2
SPECIFICATION Spec
INVARIANT NoLeakedContext
CHECK_DEADLOCK FALSE
