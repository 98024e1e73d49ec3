----------------------------- MODULE RPCClient -----------------------------
(***************************************************************************)
(* The gRPC client of package rpcclient (src/pkg/tasks/scheduler.go, lines *)
(* 238-460): newClient derives a cancellable context from cfg.Context,     *)
(* picks TLS credentials and attaches the stored auth token when the      *)
(* endpoint is https:// or unixs://, normalises the endpoint to a dial     *)
(* target and dials, blocking up to DialTimeout when one is set.  Close    *)
(* cancels the context and closes the connection, mapping the error       *)
(* through toErr.  cfg.Context may be cancelled by its owner at any time. *)
(*                                                                         *)
(* An endpoint is abstracted to its scheme and whether the rest of it has  *)
(* a colon (a port); the dial target to whether ":443" was appended.       *)
(***************************************************************************)
EXTENDS Integers, Sequences

CONSTANTS
    Schemes,   \* endpoint schemes: "https", "http", "unixs", "unix", "none"
    Tokens,    \* what cfg.LoadAuthToken() yields: "error", "valid", "expired"
    MaxCloses  \* bound on the Close calls

VARIABLES
    cfg,       \* the Config newClient was given
    parentCtx, \* cfg.Context: "live" or "canceled"
    ctx,       \* client.ctx: "none" (not yet derived), "live" or "canceled"
    creds,     \* transport credentials: "none", "tls" or "insecure"
    token,     \* the auth token was attached as per-RPC credentials
    target,    \* the dial target, [port443], or <<>> before dial
    conn,      \* client.conn: "none", "open" or "closed"
    pc,        \* "new", "dial", "ready" (client returned) or "failed"
    closes     \* results of the Close calls made so far, in order

vars == <<cfg, parentCtx, ctx, creds, token, target, conn, pc, closes>>

Endpoints == [scheme : Schemes, colon : BOOLEAN]
Configs ==
    [endpoints : {<<>>} \cup {<<e>> : e \in Endpoints},
     tls : BOOLEAN, token : Tokens, dialTimeout : BOOLEAN]

-----------------------------------------------------------------------------
\* removePrefix strips every scheme; a target left without a colon gets
\* ":443" appended, whatever the scheme was.
DialTarget(e) == [port443 |-> ~e.colon]

\* pberror.Code of the errors conn.Close can return.
Code(err) == IF err = "ErrClientConnClosing" THEN "Canceled" ELSE "OK"

\* The error ctx.Err() returns.
CtxErr == IF ctx = "canceled" THEN "Canceled" ELSE "nil"

\* Mutant: toErr without the Canceled case.
ToErrDeadlineOnly(err) ==
    IF err # "nil" /\ Code(err) = "DeadlineExceeded" /\ CtxErr # "nil"
    THEN CtxErr ELSE err

\* toErr: DeadlineExceeded and Canceled become ctx.Err() once ctx is done.
ToErr(err) ==
    IF err # "nil" /\ Code(err) \in {"DeadlineExceeded", "Canceled"}
       /\ CtxErr # "nil"
    THEN CtxErr ELSE err

\* context.WithCancel(baseCtx): done already when the parent is.
Derived == IF parentCtx = "canceled" THEN "canceled" ELSE "live"

-----------------------------------------------------------------------------
\* New / NewFromURL hand newClient a config; the parent context is live.
Init ==
    /\ cfg \in Configs
    /\ parentCtx = "live"
    /\ ctx = "none"
    /\ creds = "none"
    /\ token = FALSE
    /\ target = <<>>
    /\ conn = "none"
    /\ pc = "new"
    /\ closes = <<>>

\* dialSetupOpts: the bundle's TLS credentials, or insecure ones when
\* newClient chose none (keepalive and extra dial options left out).
TransportCreds(secure) == IF secure THEN "tls" ELSE "insecure"

\* The auth token is attached only on the TLS branch.
AttachToken(e) ==
    /\ cfg.tls
    /\ e.scheme \in {"https", "unixs"}
    /\ cfg.token = "valid"

\* newClient up to the dial: no endpoint is an error before any context
\* exists; an expired token is an error returned without calling cancel.
NewClient ==
    /\ pc = "new"
    /\ \/ /\ cfg.endpoints = <<>>
          /\ pc' = "failed"
          /\ UNCHANGED <<ctx, creds, token>>
       \/ LET e == cfg.endpoints[1]
              secure == cfg.tls /\ e.scheme \in {"https", "unixs"}
          IN  /\ cfg.endpoints # <<>>
              /\ ctx' = Derived
              /\ creds' = TransportCreds(secure)
              /\ IF secure /\ cfg.token = "expired"
                 THEN /\ pc' = "failed"
                      /\ token' = FALSE
                 ELSE /\ pc' = "dial"
                      /\ token' = AttachToken(e)
    /\ UNCHANGED <<cfg, parentCtx, target, conn, closes>>

\* dial fails: an error from grpc.DialContext, the DialTimeout expiring, or
\* (blocking) the context being done; newClient calls client.cancel().
DialFails ==
    /\ pc = "dial"
    /\ target' = DialTarget(cfg.endpoints[1])
    /\ ctx' = "canceled"
    /\ pc' = "failed"
    /\ UNCHANGED <<cfg, parentCtx, creds, token, conn, closes>>

\* dial succeeds: a non-blocking dial returns a connection even when ctx
\* is done; a blocking one (DialTimeout set) needs a live ctx.
DialSucceeds ==
    /\ pc = "dial"
    /\ cfg.dialTimeout => ctx = "live"
    /\ target' = DialTarget(cfg.endpoints[1])
    /\ conn' = "open"
    /\ pc' = "ready"
    /\ UNCHANGED <<cfg, parentCtx, ctx, creds, token, closes>>

\* Close: cancel, then conn.Close() through toErr; a second conn.Close()
\* returns grpc's ErrClientConnClosing.
Close ==
    /\ pc = "ready"
    /\ Len(closes) < MaxCloses
    /\ LET err == IF conn = "open" THEN "nil" ELSE "ErrClientConnClosing"
       IN  closes' = Append(closes, ToErr(err))
    /\ ctx' = "canceled"
    /\ conn' = "closed"
    /\ UNCHANGED <<cfg, parentCtx, creds, token, target, pc>>

\* The owner of cfg.Context cancels it; the derived ctx is done with it.
CancelParent ==
    /\ parentCtx = "live"
    /\ parentCtx' = "canceled"
    /\ ctx' = IF ctx = "none" THEN "none" ELSE "canceled"
    /\ UNCHANGED <<cfg, creds, token, target, conn, pc, closes>>

Next == NewClient \/ DialFails \/ DialSucceeds \/ Close \/ CancelParent

Spec == Init /\ [][Next]_vars

-----------------------------------------------------------------------------
\* newClient must not leave behind the context it derived: whenever it
\* has returned an error, client.ctx has been cancelled (go vet's
\* lostcancel); the context of a returned client ends with Close.
NoLeakedContext == pc = "failed" => ctx # "live"

\* Close reports context errors, never gRPC's internal ones: the first
\* Close returns nil, and a repeated Close returns ctx.Err() (Canceled)
\* rather than ErrClientConnClosing.
CloseReportsContextErrors ==
    \A i \in 1..Len(closes) : closes[i] = IF i = 1 THEN "nil" ELSE "Canceled"

\* unix:// and unixs:// endpoints name a socket path (newClient even picks
\* TLS for unixs://): the dial target must not get a TCP port appended.
UnixTargetHasNoPort ==
    (pc # "new" /\ target # <<>> /\ cfg.endpoints[1].scheme \in {"unix", "unixs"})
        => ~target.port443
=============================================================================
