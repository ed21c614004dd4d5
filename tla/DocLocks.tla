----------------------------- MODULE DocLocks -----------------------------
(***************************************************************************)
(* The table doc_locks: one row for a document that somebody edits, and    *)
(* the conditions its statements test.                                     *)
(*                                                                         *)
(* heartbeatAt is kept as the row's age in units of the clock.  Two tests  *)
(* of it differ by one instant: isLockFresh is age < TTL, the WHERE        *)
(* heartbeatAt < cutoff of the statements is age > TTL, and a row of age   *)
(* exactly TTL is neither fresh nor expired.  A handler reads the clock    *)
(* before it sends a statement: what the statement writes and the cutoff   *)
(* that it compares with may be `late` units old when it takes effect.     *)
(* lockedAt and userName are only shown to the user and are left out.      *)
(***************************************************************************)
EXTENDS Integers, FiniteSets

CONSTANTS
    Users,   \* users who may write the documents
    Docs,    \* documents (docType and docId)
    TTL,     \* DOC_LOCK_TTL_MS in units of the clock
    MaxLate, \* bound: the age of a statement's clock when it takes effect
    NoLock   \* no row for the document

ASSUME TTLAssumption == TTL \in Nat \ {0} /\ MaxLate \in Nat

Lateness == 0 .. MaxLate

\* Rows past this age are expired for every statement, and all alike.
MaxAge == TTL + MaxLate + 1

LockRow == [user : Users, age : 0 .. MaxAge]

ASSUME NoLockAssumption == NoLock \notin LockRow

VARIABLE lock   \* the rows of doc_locks

LocksTypeOK == lock \in [Docs -> LockRow \cup {NoLock}]

-----------------------------------------------------------------------------
HasLock(d) == lock[d] # NoLock

Owns(u, d) == HasLock(d) /\ lock[d].user = u

\* isLockFresh(lock.heartbeatAt)
Fresh(d) == HasLock(d) /\ lock[d].age < TTL

\* Faulty variant: the comparison with the cutoff is turned around.
ExpiredTurned(d, late) == HasLock(d) /\ lock[d].age - late < TTL

\* heartbeatAt: { lt: cutoff }, with a clock that was read `late` units ago.
Expired(d, late) == HasLock(d) /\ lock[d].age - late > TTL

\* The test that answers 423: somebody else's row, and fresh.
HeldByOther(u, d) == Fresh(d) /\ ~Owns(u, d)

Older(age) == IF age < MaxAge THEN age + 1 ELSE MaxAge

-----------------------------------------------------------------------------
(* What one statement does to the table.                                    *)

Hold(u, d, late) == lock' = [lock EXCEPT ![d] = [user |-> u, age |-> late]]

Drop(d) == lock' = [lock EXCEPT ![d] = NoLock]

LocksAge ==
    lock' = [d \in Docs |->
                IF HasLock(d)
                THEN [user |-> lock[d].user, age |-> Older(lock[d].age)]
                ELSE NoLock]

\* acquireDocLock, first statement: UPDATE ... WHERE own or expired.
Takeable(u, d, late) == Owns(u, d) \/ Expired(d, late)

\* releaseDocLock: DELETE ... WHERE own or expired.
ReleaseRow(u, d, late) ==
    IF Owns(u, d) \/ Expired(d, late) THEN Drop(d) ELSE UNCHANGED lock
=============================================================================
