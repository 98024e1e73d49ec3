----------------------------- MODULE Discovery -----------------------------
(***************************************************************************)
(* Package discovery (src/unnamed/part_001): a registry of services keyed  *)
(* by "server/" + reflect.TypeOf(service).String().  Register refuses a    *)
(* key already present; Find sets *v to the first registered service whose *)
(* type implements v's interface type; ForEach calls f(key) for every such *)
(* service and stops at the first error f returns.  Both walk the map in   *)
(* Go's randomised iteration order, a nondeterministic choice here.        *)
(*                                                                         *)
(* Types, their String() and the interfaces they implement are constants;  *)
(* the argument v is abstracted to its reflect kind.                       *)
(***************************************************************************)
EXTENDS Naturals, Sequences, FiniteSetsExt, Functions, TLC

CONSTANTS
    Servers,      \* server names
    Services,     \* service values that may be registered
    Interfaces,   \* interface types a caller may look up
    TypeOf,       \* reflect.TypeOf: Services -> concrete types
    TypeString,   \* reflect.Type.String(): types -> names
    Implements,   \* Implements[t]: the interfaces type t implements
    Fails         \* keys for which a ForEach callback may return an error

VARIABLES
    reg,          \* d.reg: key -> serviceInfo
    last          \* the outcome of the last call, for the properties

vars == <<reg, last>>

\* What v may be: a pointer to an interface, or one of the invalid arguments.
ArgKinds == {"ptrToInterface", "nilPointer", "notPointer", "ptrToNonInterface"}

\* fmt.Sprintf("%s/%s", server, typ.String())
Key(server, svc) == <<server, TypeString[TypeOf[svc]]>>

\* The registered keys whose type implements the interface i.
ImplementersOf(i) == {k \in DOMAIN reg : i \in Implements[reg[k].type]}

\* The early returns on v shared by Find and ForEach.
ArgError(kind) ==
    CASE kind \in {"nilPointer", "notPointer"} -> "pointer to interface required"
      [] kind = "ptrToNonInterface"            -> "non interface type"
      [] OTHER                                 -> "none"

\* All orders in which range can visit a set of keys.
Orders(S) == {s \in [1..Cardinality(S) -> S] : Range(s) = S}

-----------------------------------------------------------------------------
\* New: an empty registry.
Init ==
    /\ reg = [k \in {} |-> {}]
    /\ last = [op |-> "New"]

\* Register: a key present already is an error; otherwise the service is
\* stored under its key.
Register(server, svc) ==
    LET key == Key(server, svc)
    IN  /\ IF key \in DOMAIN reg
           THEN /\ last' = [op |-> "Register", server |-> server, service |-> svc,
                            err |-> "already registered"]
                /\ UNCHANGED reg
           ELSE /\ reg' = (key :> [server |-> server, service |-> svc,
                                   type |-> TypeOf[svc]]) @@ reg
                /\ last' = [op |-> "Register", server |-> server, service |-> svc,
                            err |-> "none"]

\* Mutant: the first entry the walk meets, implementer or not.
FindAnyEntry(i, kind) ==
    /\ kind = "ptrToInterface"
    /\ \E order \in Orders(DOMAIN reg) :
          last' = [op |-> "Find", iface |-> i,
                   found |-> IF DOMAIN reg = {} THEN "none" ELSE reg[order[1]].service,
                   err |-> IF DOMAIN reg = {} THEN "not implemented" ELSE "none"]
    /\ UNCHANGED reg

\* Find: the argument checks, then the first implementer in map order.
Find(i, kind) ==
    /\ IF ArgError(kind) # "none"
       THEN last' = [op |-> "Find", iface |-> i, found |-> "none", err |-> ArgError(kind)]
       ELSE \E order \in Orders(DOMAIN reg) :
              LET hits == SelectSeq(order, LAMBDA k : k \in ImplementersOf(i))
              IN  last' = [op |-> "Find", iface |-> i,
                           found |-> IF hits = <<>> THEN "none" ELSE reg[hits[1]].service,
                           err |-> IF hits = <<>> THEN "not implemented" ELSE "none"]
    /\ UNCHANGED reg

\* Mutant: the walk goes on after a callback error.
ForEachNoStop(i, kind) ==
    /\ kind = "ptrToInterface"
    /\ \E order \in Orders(ImplementersOf(i)), failing \in SUBSET Fails :
          last' = [op |-> "ForEach", iface |-> i, failing |-> failing, calls |-> order,
                   err |-> IF Range(order) \cap failing = {} THEN "none" ELSE "callback"]
    /\ UNCHANGED reg

\* ForEach: the argument checks, then f(key) for each implementer in map
\* order, returning the first error f returns.
ForEach(i, kind) ==
    /\ IF ArgError(kind) # "none"
       THEN last' = [op |-> "ForEach", iface |-> i, failing |-> {}, calls |-> <<>>,
                     err |-> ArgError(kind)]
       ELSE \E order \in Orders(ImplementersOf(i)), failing \in SUBSET Fails :
              LET stop == {n \in 1..Len(order) : order[n] \in failing}
                  calls == IF stop = {} THEN order
                           ELSE SubSeq(order, 1, Min(stop))
              IN  last' = [op |-> "ForEach", iface |-> i, failing |-> failing,
                           calls |-> calls,
                           err |-> IF stop = {} THEN "none" ELSE "callback"]
    /\ UNCHANGED reg

Next ==
    \/ \E s \in Servers, svc \in Services : Register(s, svc)
    \/ \E i \in Interfaces, kind \in ArgKinds : Find(i, kind) \/ ForEach(i, kind)

Spec == Init /\ [][Next]_vars

-----------------------------------------------------------------------------
\* Find succeeds exactly when some registered service implements the
\* interface, and the service it sets is one of those.
FindReturnsAnImplementer ==
    [][last'.op = "Find" /\ last'.err \notin {"pointer to interface required",
                                              "non interface type"}
       => IF \E k \in DOMAIN reg : last'.iface \in Implements[reg[k].type]
          THEN /\ last'.err = "none"
               /\ \E k \in DOMAIN reg : /\ reg[k].service = last'.found
                                        /\ last'.iface \in Implements[reg[k].type]
          ELSE last'.err = "not implemented"]_vars

\* ForEach calls f once for each registered implementer, in some order,
\* and nothing else; after the first callback error it calls f no more.
ForEachCallsEachImplementerOnce ==
    [][last'.op = "ForEach" /\ last'.err \in {"none", "callback"}
       => LET calls == last'.calls
              n == Len(calls)
          IN  /\ \A a, b \in 1..n : calls[a] = calls[b] => a = b
              /\ Range(calls) \subseteq ImplementersOf(last'.iface)
              /\ \A a \in 1..n - 1 : calls[a] \notin last'.failing
              /\ IF last'.err = "none"
                 THEN Range(calls) = ImplementersOf(last'.iface)
                 ELSE n > 0 /\ calls[n] \in last'.failing]_vars

\* A service of a type not yet registered under its server can always be
\* registered: "already registered" means that type was.
RegisterRejectsOnlyRegisteredTypes ==
    [][last'.op = "Register" /\ last'.err = "already registered"
       => \E k \in DOMAIN reg : /\ reg[k].server = last'.server
                                /\ reg[k].type = TypeOf[last'.service]]_vars
=============================================================================
