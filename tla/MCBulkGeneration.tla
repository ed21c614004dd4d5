------------------------ MODULE MCBulkGeneration ------------------------
(* Small instances of BulkGeneration. *)
EXTENDS BulkGeneration, TLC

CONSTANTS u1, u2, u3, r1, r2, r3, r4, r5, r6, q1, q2

\* u2 has role 'pro' and u1 among subUsers: u2 edits and deletes what r3 and r6 store.
MCSubs == [u \in Users |-> IF u = u2 THEN {u1} ELSE {}]
FromOne == [u \in Users |-> 1]

\* r1 and r3 take two chunks; the requests of r4 are repeated.
MCUser == [r \in Runs |-> IF r \in {r3, r6} THEN u1 ELSE u3]
MCSize == [r \in Runs |-> IF r \in {r1, r3} THEN 3 ELSE IF r = r5 THEN 2 ELSE 1]
MCAttempts == [r \in Runs |-> IF r = r4 THEN 2 ELSE 1]
MCDocs == {<<r1, 1>>, <<r1, 2>>, <<r1, 3>>, <<r2, 1>>, <<r3, 1>>, <<r3, 2>>, <<r3, 3>>,
           <<r4, 1>>, <<r5, 1>>, <<r5, 2>>, <<r6, 1>>}

RepeatingDocs == {<<r2, 1>>, <<r4, 1>>, <<r5, 1>>, <<r5, 2>>}

\* A request by the parent, and a batch by the owner.
BothDelete == q1 :> u2 @@ q2 :> u1
OneAndBatch == q1 :> "one" @@ q2 :> "batch"
ByOwner == q1 :> u1
InBatch == q1 :> "batch"
NoDeletes == <<>>
StoredDocs == {<<r3, 1>>, <<r3, 2>>, <<r3, 3>>}

-------------------------------------------------------------------------
(* What a behaviour of MCSpec is about.                                    *)

Asks(runs, deletes) ==
    /\ \A r \in Runs : run[r] = Begun <=> r \in runs
    /\ \A q \in Deletes : del[q].stage = "new" <=> q \in deletes

LastYear == year + 1 \notin Years

\* Requests lost, repeated and taken up late, beside a run whose network answers.
Repeated == Asks({r2, r4}, {}) /\ LastYear

\* The chunks of a run that loses its requests, across the turn of the year.
Chunked == Asks({r1}, {}) /\ ~LastYear

\* Numbers that come back after the turn of the year, above the new year's head.
Turned == Asks({r2, r5}, {}) /\ ~LastYear

\* The deleting, accepting and reassigning of what a run in chunks stores.
Deleted == Asks({r3}, Deletes) /\ LastYear

\* Two runs whose orders change hands while the other one claims and saves.
Reassigned == Asks({r3, r6}, {}) /\ LastYear

MCInit == Init /\ (Reassigned \/ Repeated \/ Chunked \/ Turned \/ Deleted)

MCSpec == MCInit /\ [][Next]_vars /\ Fairness
=========================================================================
