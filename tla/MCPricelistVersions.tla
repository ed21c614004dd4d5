----------------------- MODULE MCPricelistVersions -----------------------
(* Small instances of PricelistVersions. *)
EXTENDS PricelistVersions, TLC

CONSTANTS studnie, preco, rury, s1, s2, p1, p2, r1, r2, r3, a, b, offer, copy

OneAxis == rury :> r1

TwoAxes == studnie :> s1 @@ preco :> p1

BothRury == [d \in Docs |-> rury]

NoTypes == [d \in {} |-> rury]

(* Request b is a deletion, or an edit, and a anything that may meet it.    *)
Deletions == a :> {"create", "approve", "cancel", "pin", "delete"} @@ b :> {"delete"}

Edits == a :> Ops \ {"pin"} @@ b :> {"update"}

(* The label that the next draft will derive.                               *)
Typed == {<<2, 0>>}
==========================================================================
