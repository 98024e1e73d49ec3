\* newClient over every config shape: no endpoint, each scheme with and
\* without a port, TLS or not, each LoadAuthToken outcome (an expired
\* token included), DialTimeout set or not.
CONSTANTS
    Schemes = {"https", "http", "unixs", "unix", "none"}
    Tokens = {"error", "valid", "expired"}
    MaxCloses = 2
SPECIFICATION Spec
INVARIANTS
    CloseReportsContextErrors
\* A client that failed, or was closed MaxCloses times, does nothing more.
CHECK_DEADLOCK FALSE
