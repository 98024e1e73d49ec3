---------------------------- MODULE MCDiscovery ----------------------------
(***************************************************************************)
(* Discovery with two servers and three service values: two of one type,  *)
(* so that a true re-registration happens, and one of a second type that  *)
(* also implements a second interface.                                     *)
(***************************************************************************)
EXTENDS Discovery

MCTypeOf == [svc \in Services |-> IF svc = "b" THEN "B" ELSE "A"]
MCImplements == "A" :> {"I"} @@ "B" :> {"I", "J"}

\* Distinct String() for distinct types.
MCTypeString == "A" :> "api.Service" @@ "B" :> "api.Client"

\* Type B from another package whose String() is the same as A's: both
\* are "api.Service" (reflect: String is not unique among types).
MCTypeStringClash == "A" :> "api.Service" @@ "B" :> "api.Service"

\* A callback may fail on any key.
MCFails == {<<s, n>> : s \in Servers, n \in Range(TypeString)}
=============================================================================
