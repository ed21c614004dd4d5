--------------------------- MODULE MCDraftSync ---------------------------
(* Small instances of DraftSync. *)
EXTENDS DraftSync, TLC

CONSTANTS desk, laptop

(* Two browsers edit at once and settle their conflicts; one discards.      *)
Settled == desk :> {"edit", "flush", "keep", "adopt", "close"}
        @@ laptop :> {"edit", "restore", "keep", "discard"}

(* One browser leaves work behind, the other resumes and saves it, perhaps  *)
(* after the copy has grown old.                                            *)
Resumed == laptop :> {"edit", "leave"} @@ desk :> {"restore", "dismiss", "save", "away"}

SettledOrResumed == {Settled, Resumed}

(* The other looks at the work left behind, and starts over.                *)
LookedAt == {laptop :> {"edit"} @@ desk :> {"edit", "dismiss"}}
==========================================================================
