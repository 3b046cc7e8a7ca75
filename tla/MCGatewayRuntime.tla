--------------------------- MODULE MCGatewayRuntime ---------------------------
(* Small instances of the runtime: two upstream names, two variants. *)
EXTENDS GatewayRuntime, TLC

CONSTANTS t1, r1, a, b, n1, n2, v1, v2, v3, x, y

Places == n1 :> 1 @@ n2 :> 2

\* The version tag keeps the id of n1 when its schema changes; n2 keeps its own.
SameIdIds == [d \in Def |-> IF d.name = n1 THEN a ELSE b]

\* v1 takes any argument, v2 only one of them.
Arguments == [v \in Variant |-> IF v = v1 THEN Arg ELSE {x}]
================================================================================
