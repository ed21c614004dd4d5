-------------------------- MODULE IdempotencyKeys --------------------------
(***************************************************************************)
(* The table idempotency_keys: what the server remembers of a request that *)
(* carries an Idempotency-Key, and the statements of claimIdempotencyKey   *)
(* and completeIdempotencyKey (idempotency.ts).                            *)
(*                                                                         *)
(* createdAt is kept as the row's age in units of the clock; expiresAt is  *)
(* always createdAt plus the TTL and needs no field.  A row is PENDING     *)
(* while it has no result.  5xx is never stored, so a result is an answer. *)
(***************************************************************************)
EXTENDS Integers

CONSTANTS
    Keys,      \* triples of user, endpoint and key
    Bodies,    \* request bodies, told apart by their hash
    Results,   \* answers
    NoResult,  \* no answer yet
    NoKey,     \* no row for the key
    Reclaim,   \* PENDING_RECLAIM_MS in units of the clock
    Ttl        \* REPLAY_TTL_MS in units of the clock

ASSUME AgesAssumption == Reclaim \in Nat \ {0} /\ Ttl \in Nat /\ Reclaim < Ttl

Ages == 0 .. (Ttl + 1)

KeyRow == [body : Bodies, result : Results \cup {NoResult}, age : Ages]

ASSUME NoKeyAssumption == NoKey \notin KeyRow /\ NoResult \notin Results

VARIABLE keys   \* the rows of idempotency_keys

KeysTypeOK == keys \in [Keys -> KeyRow \cup {NoKey}]

(* The table when the server starts: of the requests, pairs of a key and a  *)
(* body, that its last process was executing, some have left a PENDING row. *)
KeysLeft(requests) ==
    \E crashed \in SUBSET requests :
        keys = [k \in Keys |->
                   IF \E r \in crashed : r[1] = k
                   THEN [body |-> (CHOOSE r \in crashed : r[1] = k)[2],
                         result |-> NoResult, age |-> 0]
                   ELSE NoKey]

-----------------------------------------------------------------------------
Pending(k) == keys[k] # NoKey /\ keys[k].result = NoResult

Young(row) == row.age < Reclaim

Stale(row) == row.age > Ttl

\* What a request that could not create the row makes of the one it finds.
Decision(row, body) ==
    CASE row = NoKey             -> "proceed"
      [] row # NoKey /\ Stale(row) -> "forget"
      [] row # NoKey /\ ~Stale(row) /\ row.body # body -> "reuse"
      [] row # NoKey /\ ~Stale(row) /\ row.body = body ->
            CASE row.result # NoResult -> "replay"
              [] row.result = NoResult /\ Young(row)  -> "in-progress"
              [] row.result = NoResult /\ ~Young(row) -> "reclaim"

\* Ages past the TTL are all alike.
Older(age) == IF age > Ttl THEN age ELSE age + 1

-----------------------------------------------------------------------------
(* What one statement does to the table, for a request that read its clock  *)
(* age units ago.                                                           *)

Claimed(k, body, age) ==
    [keys EXCEPT ![k] = [body |-> body, result |-> NoResult, age |-> age]]

(* cleanupExpired, best effort, follows a claim; it touches no row that the *)
(* claim has met, and is done with it in one step.                          *)
Cleaned(rows, age) ==
    [k \in Keys |-> IF rows[k] # NoKey /\ rows[k].age - age > Ttl THEN NoKey ELSE rows[k]]

CreateKey(k, body, age) ==
    /\ keys[k] = NoKey
    /\ \/ keys' = Claimed(k, body, age)
       \/ keys' = Cleaned(Claimed(k, body, age), age)

\* Faulty variant: the row stays.
ForgetNothing(k) == k \in Keys /\ keys' = keys

ForgetKey(k) == keys' = [keys EXCEPT ![k] = NoKey]

ReclaimKey(k, body, age) == Pending(k) /\ keys' = Claimed(k, body, age)

\* Faulty variant: the answer is not kept.
CompleteNothing(k, result) == k \in Keys /\ result \in Results /\ keys' = keys

CompleteKey(k, result) ==
    keys' = IF Pending(k) THEN [keys EXCEPT ![k].result = result] ELSE keys

KeysAge ==
    keys' = [k \in Keys |->
                IF keys[k] = NoKey THEN NoKey ELSE [keys[k] EXCEPT !.age = Older(@)]]
=============================================================================
