\* newClient with unix:// and unixs:// endpoints.
CONSTANTS
    Schemes = {"https", "http", "unixs", "unix", "none"}
    Tokens = {"error", "valid"}
    MaxCloses = 2
SPECIFICATION Spec
INVARIANT UnixTargetHasNoPort
CHECK_DEADLOCK FALSE
