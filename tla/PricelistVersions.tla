------------------------- MODULE PricelistVersions -------------------------
(***************************************************************************)
(* The life of price list versions: src/services/pricelist/lifecycle.ts,   *)
(* its in-process mutex per axis, and the documents that keep the id of    *)
(* the version they were priced with (their stamp).                        *)
(*                                                                         *)
(* Every operation reads and checks a row before it waits for the mutex of *)
(* the axis, checks again in a transaction, and writes at its COMMIT.      *)
(* Documents take no mutex; time passes between any two steps.  A failure  *)
(* of the database rolls one request back, a restart of the process loses  *)
(* them all, with the mutexes.                                             *)
(***************************************************************************)
EXTENDS PriceTimeline

CONSTANTS
    Requests, \* requests of administrators, handled at the same time
    Asked,    \* Asked[r]: the operations that request r may come for
    Docs,     \* offers and orders
    DocType,  \* DocType[d]: the axis of document d
    NoDoc     \* no document with that id

Ops == {"create", "update", "replace", "label", "approve", "cancel", "pin",
        "unpin", "delete", "clone"}

ASSUME DocsAssumption ==
    /\ Asked \in [Requests -> SUBSET Ops]
    /\ DocType \in [Docs -> Types]
    /\ NoDoc \notin Ids \cup {None}
    /\ None \notin Requests

VARIABLES
    now,
    version, \* version[i]: the row of version i
    pin,     \* settings: pricelist_active_override_<type>
    lock,    \* lock[t]: the request that holds the mutex of axis t
    req,     \* req[r]: the operation that request r has come to
    stamp,   \* stamp[d]: pricelistVersionId of the row of document d
    pending, \* pending[d]: the stamp that a save of d has read
    raced    \* history: versions withdrawn although they had come into force

vars == <<now, version, pin, lock, req, stamp, pending, raced>>

-----------------------------------------------------------------------------
(* stage: waiting for the mutex, for that of studnie too (DELETE of PRECO), *)
(* in the transaction, with its checks passed.  seq and at are what the     *)
(* handler has read: the next number, and the clock.                        *)
Request == [op : Ops, stage : {"lock", "inner", "tx", "commit"}, type : Types,
            id : Ids \cup {None}, from : Times \cup {None}, rows : Contents,
            sha : Contents \cup {None}, label : LabelSet \cup {None},
            seq : Nat, at : Times]

ASSUME RequestAssumption == None \notin Request \cup Times \cup Contents

TypeOK ==
    /\ now \in Times
    /\ version \in Table
    /\ pin \in Pins
    /\ lock \in [Types -> Requests \cup {None}]
    /\ req \in [Requests -> Request \cup {None}]
    /\ stamp \in [Docs -> Ids \cup {None, NoDoc}]
    /\ pending \in [Docs -> Ids \cup {None, NoDoc}]
    /\ raced \subseteq Ids

Init ==
    /\ now = 0
    /\ version = Baseline
    /\ pin = NoPins
    /\ lock = [t \in Types |-> None]
    /\ req = [r \in Requests |-> None]
    /\ stamp = [d \in Docs |-> NoDoc]
    /\ pending = [d \in Docs |-> NoDoc]
    /\ raced = {}

-----------------------------------------------------------------------------
Active(t) == ResolveActive(version, pin, t, now)

Usage(i) == {d \in Docs : stamp[d] = i}

\* Faulty variant: the version in force may be deleted.
CanDeleteActive(i) ==
    /\ version[i].type = Preco => PrecoReferences(version, i) = {}
    /\ version[i].status = "APPROVED" => Usage(i) = {}

\* Faulty variant: the choice by hand is not looked at.
CanDeletePinned(i) ==
    /\ version[i].type = Preco => PrecoReferences(version, i) = {}
    /\ version[i].status = "APPROVED" =>
           /\ Latest(version, Due(version, version[i].type, now)) # i
           /\ Usage(i) = {}

\* The checks of DELETE, made before the mutex and again in the transaction.
CanDelete(i) ==
    /\ version[i].type = Preco => PrecoReferences(version, i) = {}
    /\ version[i].status = "APPROVED" =>
           /\ Active(version[i].type) # i
           /\ Usage(i) = {}

Ask(op, t, i) ==
    [op |-> op, stage |-> "lock", type |-> t, id |-> i, from |-> None,
     rows |-> Seed, sha |-> None, label |-> None, seq |-> 0, at |-> 0]

\* Bound: there is an id for every version that the requests may insert.
Room ==
    Cardinality({r \in Requests : req[r] # None /\ req[r].op \in {"create", "clone"}})
        < Cardinality({i \in Ids : version[i] = None})

\* Request r has passed the checks that come before the mutex.
Queue(r, ask) ==
    /\ req[r] = None
    /\ ask.op \in Asked[r]
    /\ ask.op \in {"create", "clone"} => Room
    /\ req' = [req EXCEPT ![r] = ask]
    /\ UNCHANGED <<now, version, pin, lock, stamp, pending, raced>>

CreateDraft(r, t) ==
    \E from \in Times, rows \in Contents :
        Queue(r, [Ask("create", t, None) EXCEPT !.from = from, !.rows = rows])

UpdateDraft(r, i, rows, sha) ==
    /\ version[i].status = "DRAFT"
    /\ Queue(r, [Ask("update", version[i].type, i) EXCEPT !.rows = rows, !.sha = sha])

ReplaceVersionRows(r, i, rows, sha) ==
    /\ version[i].status = "APPROVED"
    /\ Queue(r, [Ask("replace", version[i].type, i) EXCEPT !.rows = rows, !.sha = sha])

\* The editor: into the draft of the axis when it has one, into a new one else.
SaveRowsToDraft(r, t, rows, sha) ==
    \/ \E i \in Drafts(version, t) : UpdateDraft(r, i, rows, sha)
    \/ /\ Drafts(version, t) = {}
       /\ Queue(r, [Ask("create", t, None) EXCEPT !.from = now, !.rows = rows])

SetLabelOverride(r, i) ==
    \E label \in Labels \cup {None} :
        Queue(r, [Ask("label", version[i].type, i) EXCEPT !.label = label])

\* from = None: the date that the draft has.
ApproveVersion(r, i) ==
    \E from \in Times \cup {None} :
        Queue(r, [Ask("approve", version[i].type, i) EXCEPT !.from = from])

CancelScheduledRelease(r, i) == Queue(r, Ask("cancel", version[i].type, i))

SetActiveVersion(r, i) ==
    /\ i \in Due(version, version[i].type, now)
    /\ Queue(r, [Ask("pin", version[i].type, i) EXCEPT !.at = now])

ClearActiveOverride(r, t) == Queue(r, Ask("unpin", t, None))

DeleteVersion(r, i) ==
    /\ CanDelete(i)
    /\ Queue(r, Ask("delete", version[i].type, i))

\* The rows are read now, the source is not looked at again.
CloneAsDraft(r, i) ==
    Queue(r, [Ask("clone", version[i].type, i) EXCEPT !.rows = version[i].rows])

-----------------------------------------------------------------------------
\* The mutexes without those of request r.
Unlocked(r) == [t \in Types |-> IF lock[t] = r THEN None ELSE lock[t]]

\* Faulty variant: lockFor makes a new mutex at every call.
FreeAlways(t) == TRUE

Free(t) == lock[t] = None

\* The mutex that request r waits for.
Awaited(r) == IF req[r].stage = "lock" THEN req[r].type ELSE Studnie

Waits(r) == req[r] # None /\ req[r].stage \in {"lock", "inner"}

\* Faulty variant: DELETE of PRECO takes the mutex of its own axis only.
AcquireOne(r) ==
    /\ Waits(r)
    /\ Free(Awaited(r))
    /\ lock' = [lock EXCEPT ![Awaited(r)] = r]
    /\ req' = [req EXCEPT ![r].stage = "tx"]
    /\ UNCHANGED <<now, version, pin, stamp, pending, raced>>

AcquireLock(r) ==
    /\ Waits(r)
    /\ Free(Awaited(r))
    /\ lock' = [lock EXCEPT ![Awaited(r)] = r]
    /\ req' = [req EXCEPT ![r].stage =
                  IF @ = "lock" /\ req[r].op = "delete" /\ req[r].type = Preco
                  THEN "inner" ELSE "tx"]
    /\ UNCHANGED <<now, version, pin, stamp, pending, raced>>

\* Faulty variant: the mutex that the request holds is forgotten.
BusyHolding(r) ==
    /\ Waits(r)
    /\ ~Free(Awaited(r))
    /\ req' = [req EXCEPT ![r] = None]
    /\ UNCHANGED <<now, version, pin, lock, stamp, pending, raced>>

\* Faulty variant: the wait for the second mutex has no limit.
BusyOnce(r) ==
    /\ Waits(r)
    /\ req[r].stage = "lock"
    /\ ~Free(Awaited(r))
    /\ req' = [req EXCEPT ![r] = None]
    /\ UNCHANGED <<now, version, pin, lock, stamp, pending, raced>>

\* LOCK_BUSY, after 30 seconds; what the request holds is released.
Busy(r) ==
    /\ Waits(r)
    /\ ~Free(Awaited(r))
    /\ lock' = Unlocked(r)
    /\ req' = [req EXCEPT ![r] = None]
    /\ UNCHANGED <<now, version, pin, stamp, pending, raced>>

\* The date that an approval gives to its version.
ApprovedFrom(r) == IF req[r].from = None THEN version[req[r].id].from ELSE req[r].from

\* If-Match
Matches(r, i) == req[r].sha \in {None, version[i].rows}

\* Faulty variant: the status is not looked at again in the transaction.
MayEditAny(r, i) == Matches(r, i)

MayEdit(r, i) ==
    /\ version[i].status = IF req[r].op = "update" THEN "DRAFT" ELSE "APPROVED"
    /\ Matches(r, i)

\* Faulty variant: the labels of the other versions are not compared.
MayRelabelAny(r, i) == req[r].label # None

MayRelabel(r, i) ==
    \/ Override(version[i], req[r].label) = None
    \/ ~LabelTaken(version, i, req[r].label)

MayApprove(r, i) ==
    /\ version[i].status = "DRAFT"
    /\ ~InstantTaken(version, i, ApprovedFrom(r))

\* Faulty variant: a version that is in force already may be cancelled.
MayCancelDue(i) ==
    /\ version[i].status = "APPROVED"
    /\ Drafts(version, version[i].type) = {}

MayCancel(i) ==
    /\ version[i].status = "APPROVED"
    /\ version[i].from > now
    /\ Drafts(version, version[i].type) = {}

\* The checks in the transaction of request r; i is its version.
Permitted(r, i) ==
    \/ req[r].op = "unpin"
    \/ req[r].op \in {"create", "clone"} /\ Drafts(version, req[r].type) = {}
    \/ /\ i \in Stored(version)
       /\ \/ req[r].op \in {"update", "replace"} /\ MayEdit(r, i)
          \/ req[r].op = "label" /\ MayRelabel(r, i)
          \/ req[r].op = "approve" /\ MayApprove(r, i)
          \/ req[r].op = "cancel" /\ MayCancel(i)
          \/ req[r].op = "pin" /\ i \in Due(version, req[r].type, req[r].at)
          \/ req[r].op = "delete" /\ CanDelete(i)

InTx(r) == req[r] # None /\ req[r].stage = "tx"

Check(r) ==
    /\ InTx(r)
    /\ Permitted(r, req[r].id)
    /\ req' = [req EXCEPT ![r].stage = "commit",
                          ![r].seq = NextSeq(version, req[r].type),
                          ![r].at = IF req[r].op = "pin" THEN @ ELSE now]
    /\ UNCHANGED <<now, version, pin, lock, stamp, pending, raced>>

Refuse(r) ==
    /\ InTx(r)
    /\ ~Permitted(r, req[r].id)
    /\ lock' = Unlocked(r)
    /\ req' = [req EXCEPT ![r] = None]
    /\ UNCHANGED <<now, version, pin, stamp, pending, raced>>

-----------------------------------------------------------------------------
Put(i, row) == version' = [version EXCEPT ![i] = row]

Unpinned(t) == [pin EXCEPT ![t] = None]

\* DELETE ... WHERE key = the override of the axis AND value = i
UnpinnedFrom(i) == [t \in Types |-> IF pin[t] = i THEN None ELSE pin[t]]

Insert(m, from) ==
    \E i \in Ids :
        /\ version[i] = None
        /\ Put(i, NewDraft(m.type, m.seq, from, m.rows))
        /\ pin' = pin

WriteRows(m) ==
    /\ Put(m.id, [version[m.id] EXCEPT !.rows = m.rows])
    /\ pin' = pin

WriteLabel(m) ==
    /\ Put(m.id, [version[m.id] EXCEPT !.label = Override(version[m.id], m.label)])
    /\ pin' = pin

\* Faulty variant: a status of the time before S2 is stored.
WriteLegacyApproval(m, from) ==
    /\ Put(m.id, [version[m.id] EXCEPT !.status = "ACTIVE", !.from = from])
    /\ pin' = IF from <= m.at THEN Unpinned(m.type) ELSE pin

WriteApproval(m, from) ==
    /\ Put(m.id, [version[m.id] EXCEPT !.status = "APPROVED", !.from = from])
    /\ pin' = IF from <= m.at THEN Unpinned(m.type) ELSE pin

WriteCancel(m) ==
    /\ Put(m.id, [version[m.id] EXCEPT !.status = "DRAFT"])
    /\ pin' = UnpinnedFrom(m.id)

WritePin(m) ==
    /\ pin' = [pin EXCEPT ![m.type] = m.id]
    /\ version' = version

WriteUnpin(m) ==
    /\ pin' = Unpinned(m.type)
    /\ version' = version

WriteDelete(m) ==
    /\ pin' = UnpinnedFrom(m.id)
    /\ Put(m.id, Deleted)

\* An operation that writes a row finds it.
InCommit(r, ops) ==
    /\ req[r] # None
    /\ req[r].stage = "commit"
    /\ req[r].op \in ops
    /\ req[r].op \in {"create", "clone", "pin", "unpin"} \/ req[r].id \in Stored(version)

(* The version that request r withdraws has come into force since its check. *)
CancelsLate(r) ==
    /\ InCommit(r, {"cancel"})
    /\ req[r].at < version[req[r].id].from
    /\ version[req[r].id].from <= now

Commit(r) ==
    /\ \/ InCommit(r, {"create"}) /\ Insert(req[r], req[r].from)
       \/ InCommit(r, {"clone"}) /\ Insert(req[r], req[r].at)
       \/ InCommit(r, {"update", "replace"}) /\ WriteRows(req[r])
       \/ InCommit(r, {"label"}) /\ WriteLabel(req[r])
       \/ InCommit(r, {"approve"}) /\ WriteApproval(req[r], ApprovedFrom(r))
       \/ InCommit(r, {"cancel"}) /\ WriteCancel(req[r])
       \/ InCommit(r, {"pin"}) /\ WritePin(req[r])
       \/ InCommit(r, {"unpin"}) /\ WriteUnpin(req[r])
       \/ InCommit(r, {"delete"}) /\ WriteDelete(req[r])
    /\ UniqueIndexes(version')
    /\ lock' = Unlocked(r)
    /\ req' = [req EXCEPT ![r] = None]
    /\ raced' = IF CancelsLate(r) THEN raced \cup {req[r].id} ELSE raced
    /\ UNCHANGED <<now, stamp, pending>>

\* The transaction rolls back: an error of the database, a lost connection.
Fail(r) ==
    /\ req[r] # None
    /\ req[r].stage \in {"tx", "commit"}
    /\ lock' = Unlocked(r)
    /\ req' = [req EXCEPT ![r] = None]
    /\ UNCHANGED <<now, version, pin, stamp, pending, raced>>

\* The process starts anew: nothing it was doing is done.
Restart ==
    /\ \E r \in Requests : req[r] # None
    /\ lock' = [t \in Types |-> None]
    /\ req' = [r \in Requests |-> None]
    /\ pending' = [d \in Docs |-> NoDoc]
    /\ UNCHANGED <<now, version, pin, stamp, raced>>

-----------------------------------------------------------------------------
(* Documents.  A stamp is read before the transaction that writes it.       *)

(* The version in force, for a new offer and for one recalculated to it; for *)
(* a duplicate of an offer, or an order made from it, also the stamp of that.*)
Stamps(d) ==
    {Active(DocType[d])} \cup
    {stamp[e] : e \in {e \in Docs : stamp[d] = NoDoc /\ DocType[e] = DocType[d]}}

ReadStamp(d) ==
    /\ pending[d] = NoDoc
    /\ \E s \in Stamps(d) \ {None, NoDoc} : pending' = [pending EXCEPT ![d] = s]
    /\ UNCHANGED <<now, version, pin, lock, req, stamp, raced>>

SaveDoc(d) ==
    /\ pending[d] # NoDoc
    /\ stamp' = [stamp EXCEPT ![d] = pending[d]]
    /\ pending' = [pending EXCEPT ![d] = NoDoc]
    /\ UNCHANGED <<now, version, pin, lock, req, raced>>

\* A save of the document that is under way then finds no row.
DeleteDoc(d) ==
    /\ stamp[d] # NoDoc
    /\ stamp' = [stamp EXCEPT ![d] = NoDoc]
    /\ pending' = [pending EXCEPT ![d] = NoDoc]
    /\ UNCHANGED <<now, version, pin, lock, req, raced>>

Tick ==
    /\ now < MaxTime
    /\ now' = now + 1
    /\ UNCHANGED <<version, pin, lock, req, stamp, pending, raced>>

-----------------------------------------------------------------------------
Begin(r) ==
    \/ \E t \in Types :
           \/ CreateDraft(r, t)
           \/ ClearActiveOverride(r, t)
           \/ \E rows \in Contents, sha \in Contents \cup {None} :
                  SaveRowsToDraft(r, t, rows, sha)
    \/ \E i \in Stored(version) :
           \/ \E rows \in Contents, sha \in Contents \cup {None} :
                  \/ UpdateDraft(r, i, rows, sha)
                  \/ ReplaceVersionRows(r, i, rows, sha)
           \/ SetLabelOverride(r, i)
           \/ ApproveVersion(r, i)
           \/ CancelScheduledRelease(r, i)
           \/ SetActiveVersion(r, i)
           \/ DeleteVersion(r, i)
           \/ CloneAsDraft(r, i)

AwaitLock(r) == AcquireLock(r) \/ Busy(r)

Proceed(r) == AwaitLock(r) \/ Check(r) \/ Refuse(r) \/ Commit(r)

Next ==
    \/ \E r \in Requests : Begin(r) \/ Proceed(r) \/ Fail(r)
    \/ \E d \in Docs :
           \/ ReadStamp(d)
           \/ SaveDoc(d)
           \/ DeleteDoc(d)
    \/ Restart
    \/ Tick

Spec == Init /\ [][Next]_vars

(* The poll of a mutex goes on until it ends, whatever its holder does.     *)
FairSpec == Spec /\ \A r \in Requests : WF_vars(AwaitLock(r))

-----------------------------------------------------------------------------
(* Properties.                                                              *)

(* Every axis always has a version in force: no order of deletions,          *)
(* cancellations, choices by hand and hours of entry leaves offers without a *)
(* price list (DELETE refuses the version in force, cancel one that is due). *)
AlwaysPriced == \A t \in Types : Active(t) # None

(* A choice by hand names an approved version of its axis that is due.       *)
(* setActiveVersion looks at the version before the mutex, when a deletion   *)
(* may be on its way.                                                        *)
OverrideResolves == \A t \in Types : pin[t] # None => pin[t] \in Due(version, t, now)

(* A mutex belongs to a request that is using it: whatever way a request     *)
(* ends, a refused second mutex included, it leaves no axis locked for good. *)
LocksReleased ==
    \A t \in Types :
        LET r == lock[t] IN
        r # None => /\ req[r] # None
                    /\ req[r].stage # "lock"
                    /\ t \in {req[r].type, Studnie}

\* The requests of one of ops about version i that end in this step.
Ending(ops, i) ==
    {r \in Requests : InCommit(r, ops) /\ req[r].id = i /\ req'[r] = None}

RowsChange(i) ==
    /\ i \in Stored(version) /\ version'[i] # Deleted
    /\ version'[i].rows # version[i].rows

(* The rows of a published version change only by the explicit correction    *)
(* of published versions: an edit of the draft that was on its way when the  *)
(* draft was approved changes nothing.                                       *)
PublishedFrozen ==
    [][\A i \in Ids :
           RowsChange(i) /\ version[i].status = "APPROVED" => Ending({"replace"}, i) # {}]_vars

(* An edit that names the rows it was made from (If-Match) replaces those    *)
(* rows and no others, whatever other edits were on their way.               *)
EditsOnlySeen ==
    [][\A i \in Ids :
           RowsChange(i) =>
               \E r \in Ending({"update", "replace"}, i) :
                   req[r].sha \in {None, version[i].rows}]_vars

(* A version of PRECO that a version of studnie is exported with is never    *)
(* deleted: the deletion holds the mutexes of both axes.                     *)
PickedPrecoKept ==
    [][\A i \in Stored(version) :
           version'[i] = Deleted /\ version[i].type = Preco
               => PrecoReferences(version, i) = {}]_vars

(* The version that a document is stamped with, or that a save of it is about *)
(* to stamp it with, stays approved and in force while it exists, so that no  *)
(* edit of a draft changes the rows it was priced with.  There is one         *)
(* exception: the version came into force between the check of a cancellation *)
(* and its commit.                                                            *)
StampedInForce ==
    \A d \in Docs :
        ({stamp[d], pending[d]} \cap Stored(version)) \ raced \subseteq Due(version, DocType[d], now)

(* No request waits for good, not even behind a transaction that hangs:      *)
(* each of the two mutexes that a deletion takes is awaited a limited time.  *)
WaitsEnd == \A r \in Requests : Waits(r) ~> ~Waits(r)

(* Checks and writes that are apart in the code act as one step: the         *)
(* operations implement those of PriceList.                                  *)
Promised == INSTANCE PriceList WITH versions <- version, pins <- pin, clock <- now

Atomic == Promised!Spec
=============================================================================
