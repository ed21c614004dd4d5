------------------------- MODULE MCSingleClaims -------------------------
(* Small instances of SingleClaims: one owner of numbers, one year. *)
EXTENDS SingleClaims, TLC

CONSTANTS u, bottom, empty, other

NoSubs == [x \in {u} |-> {}]

FromOne == [x \in {u} |-> 1]

ThisYear == {26}

AllDocs == Elements \X (1 .. MaxOrders)

AllKeys == Elements \cup AllDocs

AllNumbers == {[owner |-> u, year |-> 26, seq |-> s] : s \in 1 .. MaxSeq}
=========================================================================
