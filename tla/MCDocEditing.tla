-------------------------- MODULE MCDocEditing --------------------------
(* Small instances of DocEditing. *)
EXTENDS DocEditing, TLC

CONSTANTS u1, u2, t1, t2, order, offer

ByTwo == t1 :> u1 @@ t2 :> u2

ByOne == t1 :> u1 @@ t2 :> u1
=========================================================================
