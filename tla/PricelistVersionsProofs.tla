---------------------- MODULE PricelistVersionsProofs ----------------------
(***************************************************************************)
(* Proofs about PricelistVersions, for every set of axes, ids, contents,   *)
(* labels, requests and documents, and every horizon of time.              *)
(***************************************************************************)
EXTENDS PricelistVersions, PriceTimelineProofs

(* What a request carries fits what it has come for: the version that it    *)
(* names is, or was, one of its axis.                                       *)
Fits(r) ==
    LET m == req[r] IN
    m # None =>
        /\ m.op = "create" => m.from # None
        /\ m.label \in Labels \cup {None}
        /\ m.at <= now
        /\ m.stage = "commit" => m.seq # 0
        /\ m.stage = "inner" => m.op = "delete" /\ m.type = Preco
        /\ m.op \notin {"create", "clone", "unpin"} =>
               /\ m.id \in Ids
               /\ version[m.id] # None
               /\ m.id \in Stored(version) => version[m.id].type = m.type

TypeInv ==
    /\ TypeOK
    /\ OwnInstants(version)
    /\ \A r \in Requests : Fits(r)

(* Past its wait a request holds the mutex of its axis, and the deletion of *)
(* a PRECO version that of studnie too.                                     *)
Holds(r) ==
    LET m == req[r] IN
    m # None =>
        /\ m.stage # "lock" => lock[m.type] = r
        /\ m.stage \in {"tx", "commit"} /\ m.op = "delete" /\ m.type = Preco
               => lock[Studnie] = r

MutexInv == LocksReleased /\ \A r \in Requests : Holds(r)

\* The axis of version i is priced without it.
Spared(i) ==
    /\ pin[version[i].type] # i
    /\ Due(version, version[i].type, now) \ {i} # {}

(* What a request has checked still holds when it writes.                   *)
Checked(r) ==
    LET m == req[r]
        i == m.id
    IN
    m # None /\ m.stage = "commit" =>
        /\ m.op \in {"create", "clone"} =>
               Drafts(version, m.type) = {} /\ m.seq = NextSeq(version, m.type)
        /\ m.op \notin {"create", "clone", "unpin"} => i \in Stored(version)
        /\ m.op \in {"update", "replace"} => MayEdit(r, i)
        /\ m.op = "label" => MayRelabel(r, i)
        /\ m.op = "approve" => MayApprove(r, i)
        /\ m.op = "cancel" =>
               /\ version[i].status = "APPROVED"
               /\ version[i].from > m.at
               /\ Drafts(version, m.type) = {}
               /\ Spared(i)
        /\ m.op = "pin" => i \in Due(version, m.type, now)
        /\ m.op = "delete" =>
               /\ m.type = Preco => PrecoReferences(version, i) = {}
               /\ version[i].status = "APPROVED" => Spared(i)

Priced == \A t \in Types : Due(version, t, now) # {}

CheckInv ==
    /\ Priced
    /\ OverrideResolves
    /\ \A r \in Requests : Checked(r)

-----------------------------------------------------------------------------
\* A request on its way is a record of an operation on one of the axes.
LEMMA RequestFacts ==
    ASSUME TypeOK, NEW r \in Requests, req[r] # None
    PROVE  /\ req[r] \in Request
           /\ req[r].type \in Types
  BY DEF TypeOK, Request

\* Another version in the place of one: that of a change of req[r].
RowOf(r, i) ==
    /\ i \in Ids
    /\ \A j \in Ids \ {i} : version'[j] = version[j]
    /\ version'[i] # None
    /\ i \in Stored(version) => i = req[r].id /\ version[i].type = req[r].type
    /\ i \notin Stored(version) => version[i] = None /\ req[r].op \in {"create", "clone"}
    /\ i \in Stored(version') => version'[i].type = req[r].type

(* A write in place.                                                        *)
LEMMA PutSteps ==
    ASSUME TypeInv, NEW r \in Requests, req[r] # None,
           req[r].op \notin {"create", "clone", "unpin"},
           req[r].id \in Stored(version), NEW row, row \in Version \cup {Deleted},
           row \in Version => row.type = req[r].type, Put(req[r].id, row)
    PROVE  version' \in Table /\ RowOf(r, req[r].id)
<1> DEFINE i == req[r].id
<1>1. i \in Ids /\ version \in Table
  BY DEF Stored, TypeInv, TypeOK
<1>2. version[i].type = req[r].type
  BY DEF TypeInv, Fits
<1>3. version' = [version EXCEPT ![i] = row]
  BY DEF Put
<1>4. version' \in Table /\ version'[i] = row /\ \A j \in Ids \ {i} : version'[j] = version[j]
  BY <1>1, <1>3 DEF Table
<1>5. row # None
  BY RowAssumption
<1>6. i \in Stored(version') => row \in Version
  BY <1>4 DEF Stored
<1> HIDE DEF i
<1>7. RowOf(r, i)
  BY <1>1, <1>2, <1>4, <1>5, <1>6 DEF RowOf, i
<1> QED
  BY <1>4, <1>7 DEF i

\* createDraftTx and cloneAsDraft write one new draft under the id of the request.
LEMMA InsertSteps ==
    ASSUME TypeInv, NEW r \in Requests, req[r] # None, req[r].stage = "commit",
           req[r].op \in {"create", "clone"}, NEW from \in Times, Insert(req[r], from)
    PROVE  /\ version' \in Table
           /\ pin' = pin
           /\ \E i \in Ids : /\ RowOf(r, i)
                             /\ version[i] = None
                             /\ Put(i, NewDraft(req[r].type, req[r].seq, from, req[r].rows))
<1>1. PICK i \in Ids :
          /\ version[i] = None
          /\ Put(i, NewDraft(req[r].type, req[r].seq, from, req[r].rows))
          /\ pin' = pin
  BY DEF Insert
<1> DEFINE row == NewDraft(req[r].type, req[r].seq, from, req[r].rows)
<1>2. req[r] \in Request /\ req[r].seq # 0
  BY RequestFacts DEF TypeInv, Fits
<1>3. row \in Version /\ row.type = req[r].type
  BY <1>2 DEF NewDraft, Version, Request
<1>4. version' = [version EXCEPT ![i] = row]
  BY <1>1 DEF Put
<1> HIDE DEF row
<1>5. version' \in Table /\ version'[i] = row /\ \A j \in Ids \ {i} : version'[j] = version[j]
  BY <1>3, <1>4 DEF Table, TypeInv, TypeOK
<1>6. row # None /\ i \notin Stored(version)
  BY <1>1, <1>3, RowAssumption DEF Stored
<1>7. RowOf(r, i)
  BY <1>1, <1>3, <1>5, <1>6 DEF RowOf
<1> QED
  BY <1>1, <1>5, <1>7

(* The commit of an operation on a version writes a row in its place.       *)
LEMMA CommitPuts ==
    ASSUME TypeInv, NEW r \in Requests, Commit(r),
           req[r].op \in {"update", "replace", "label", "approve", "cancel", "delete"}
    PROVE  /\ req[r].id \in Stored(version)
           /\ \E row \in Version \cup {Deleted} :
                  /\ Put(req[r].id, row)
                  /\ row \in Version => row.type = req[r].type
<1> DEFINE m == req[r]
           i == req[r].id
<1>1. m \in Request /\ i \in Stored(version)
  BY RequestFacts DEF Commit, InCommit, TypeInv
<1>2. version[i] \in Version /\ version[i].type = m.type
  BY <1>1, TableFacts DEF TypeInv, TypeOK, Fits, Commit, InCommit
<1>3. CASE m.op \in {"update", "replace"}
  <2>1. Put(i, [version[i] EXCEPT !.rows = m.rows])
    BY <1>3 DEF Commit, InCommit, WriteRows
  <2>2. /\ [version[i] EXCEPT !.rows = m.rows] \in Version
        /\ [version[i] EXCEPT !.rows = m.rows].type = m.type
    BY <1>1, <1>2 DEF Version, Request
  <2> QED
    BY <1>1, <2>1, <2>2
<1>4. CASE m.op = "label"
  <2> DEFINE l == Override(version[i], m.label)
  <2>1. Put(i, [version[i] EXCEPT !.label = l])
    BY <1>4 DEF Commit, InCommit, WriteLabel
  <2>2. l \in LabelSet \cup {None}
    BY <1>1 DEF Override, Request
  <2> HIDE DEF l
  <2>3. /\ [version[i] EXCEPT !.label = l] \in Version
        /\ [version[i] EXCEPT !.label = l].type = m.type
    BY <1>2, <2>2 DEF Version
  <2> QED
    BY <1>1, <2>1, <2>3
<1>5. CASE m.op = "approve"
  <2> DEFINE f == ApprovedFrom(r)
  <2>1. Put(i, [version[i] EXCEPT !.status = "APPROVED", !.from = f])
    BY <1>5 DEF Commit, InCommit, WriteApproval
  <2>2. f \in Times
    BY <1>1, <1>2 DEF ApprovedFrom, Request, Version
  <2> HIDE DEF f
  <2>3. /\ [version[i] EXCEPT !.status = "APPROVED", !.from = f] \in Version
        /\ [version[i] EXCEPT !.status = "APPROVED", !.from = f].type = m.type
    BY <1>2, <2>2 DEF Version
  <2> QED
    BY <1>1, <2>1, <2>3
<1>6. CASE m.op = "cancel"
  <2>1. Put(i, [version[i] EXCEPT !.status = "DRAFT"])
    BY <1>6 DEF Commit, InCommit, WriteCancel
  <2>2. /\ [version[i] EXCEPT !.status = "DRAFT"] \in Version
        /\ [version[i] EXCEPT !.status = "DRAFT"].type = m.type
    BY <1>2 DEF Version
  <2> QED
    BY <1>1, <2>1, <2>2
<1>7. CASE m.op = "delete"
  <2>1. Put(i, Deleted)
    BY <1>7 DEF Commit, InCommit, WriteDelete
  <2> QED
    BY <1>1, <2>1, RowAssumption
<1> QED
  BY <1>3, <1>4, <1>5, <1>6, <1>7

\* A commit leaves a well-typed table and changes one row at most.
LEMMA CommitSteps ==
    ASSUME TypeInv, NEW r \in Requests, Commit(r)
    PROVE  /\ req[r] # None /\ req[r].stage = "commit"
           /\ version' \in Table
           /\ pin' \in Pins
           /\ version' = version \/ \E i \in Ids : RowOf(r, i)
<1> DEFINE m == req[r]
<1>1. m # None /\ m.stage = "commit"
  BY DEF Commit, InCommit
<1>2. m \in Request
  BY <1>1, RequestFacts DEF TypeInv
<1>3. pin \in Pins /\ version \in Table
  BY DEF TypeInv, TypeOK
<1>4. CASE m.op \in {"create", "clone"}
  <2>1. PICK from \in Times : Insert(m, from)
    BY <1>1, <1>2, <1>4 DEF Commit, InCommit, Request, TypeInv, Fits
  <2> QED
    BY <1>1, <1>3, <1>4, <2>1, InsertSteps
<1>5. CASE m.op \in {"update", "replace", "label", "approve", "cancel", "delete"}
  <2>1. PICK row \in Version \cup {Deleted} :
            Put(m.id, row) /\ (row \in Version => row.type = m.type)
    BY <1>5, CommitPuts
  <2>2. m.id \in Stored(version)
    BY <1>5, CommitPuts
  <2>3. version' \in Table /\ RowOf(r, m.id)
    BY <1>1, <1>5, <2>1, <2>2, PutSteps
  <2>4. pin' \in {pin, Unpinned(m.type), UnpinnedFrom(m.id)}
    BY <1>5 DEF Commit, InCommit, WriteRows, WriteLabel, WriteApproval, WriteCancel, WriteDelete
  <2>5. pin' \in Pins
    BY <1>3, <2>4 DEF Unpinned, UnpinnedFrom, Pins
  <2> QED
    BY <1>1, <2>3, <2>5 DEF RowOf
<1>6. CASE m.op \in {"pin", "unpin"}
  <2>1. version' = version
    BY <1>6 DEF Commit, InCommit, WritePin, WriteUnpin
  <2>2. m.op = "pin" => m.id \in Ids
    BY <1>1 DEF TypeInv, Fits
  <2>3. pin' \in Pins
    BY <1>3, <1>6, <2>2 DEF Commit, InCommit, WritePin, WriteUnpin, Unpinned, Pins
  <2> QED
    BY <1>1, <1>3, <2>1, <2>3
<1> QED
  BY <1>2, <1>4, <1>5, <1>6 DEF Request, Ops

-----------------------------------------------------------------------------
\* A request as an operation begins it.
Fresh(ask) ==
    /\ ask \in Request
    /\ ask.stage = "lock"
    /\ ask.op = "create" => ask.from # None
    /\ ask.label \in Labels \cup {None}
    /\ ask.at <= now
    /\ ask.op \notin {"create", "clone", "unpin"} =>
           ask.id \in Stored(version) /\ version[ask.id].type = ask.type

\* What the operations begin with comes down to one shape of queueing.
LEMMA QueueSteps ==
    ASSUME NEW r, NEW ask, Fresh(ask), Queue(r, ask)
    PROVE  \E a \in Request : Fresh(a) /\ Queue(r, a)
  BY DEF Fresh

\* Every operation begins by queueing a fresh request for the mutexes of its axes.
LEMMA BeginSteps ==
    ASSUME TypeInv, NEW r \in Requests, Begin(r)
    PROVE  \E a \in Request : Fresh(a) /\ Queue(r, a)
<1>1. now \in Times /\ 0 \in Times /\ 0 <= now /\ now <= now /\ None \notin Times /\ None \notin Contents
  BY TimelineAssumption, RequestAssumption DEF TypeInv, TypeOK, Times
<1>2. Seed \in Contents /\ 0 \in Nat
  BY TimelineAssumption
<1>3. ASSUME NEW t \in Types, NEW from \in Times, NEW rows \in Contents
      PROVE  Fresh([Ask("create", t, None) EXCEPT !.from = from, !.rows = rows])
  BY <1>1, <1>2, <1>3 DEF Fresh, Ask, Request, Ops
<1>4. ASSUME NEW i \in Stored(version), NEW op \in {"update", "replace"},
             NEW rows \in Contents, NEW sha \in Contents \cup {None}
      PROVE  Fresh([Ask(op, version[i].type, i) EXCEPT !.rows = rows, !.sha = sha])
  <2>1. i \in Ids /\ version[i].type \in Types
    BY TableFacts DEF TypeInv, TypeOK, Version
  <2> QED
    BY <1>1, <1>2, <1>4, <2>1 DEF Fresh, Ask, Request, Ops
<1>5. \A i \in Stored(version) : i \in Ids /\ version[i] \in Version
  BY TableFacts DEF TypeInv, TypeOK
<1>6. ASSUME NEW i \in Stored(version), NEW op \in {"cancel", "delete"}
      PROVE  Fresh(Ask(op, version[i].type, i))
  BY <1>1, <1>2, <1>5, <1>6 DEF Fresh, Ask, Request, Ops, Version
<1>7. CASE \E t \in Types : CreateDraft(r, t)
  BY <1>3, <1>7, QueueSteps DEF CreateDraft
<1>8. CASE \E t \in Types : ClearActiveOverride(r, t)
  <2>1. PICK t \in Types : Queue(r, Ask("unpin", t, None))
    BY <1>8 DEF ClearActiveOverride
  <2>2. Fresh(Ask("unpin", t, None))
    BY <1>1, <1>2 DEF Fresh, Ask, Request, Ops
  <2> QED
    BY <2>1, <2>2, QueueSteps
<1>9. ASSUME NEW i \in Stored(version), NEW rows \in Contents,
             NEW sha \in Contents \cup {None}, UpdateDraft(r, i, rows, sha)
      PROVE  \E a \in Request : Fresh(a) /\ Queue(r, a)
  BY <1>4, <1>9, QueueSteps DEF UpdateDraft
<1>10. ASSUME NEW i \in Stored(version), NEW rows \in Contents,
              NEW sha \in Contents \cup {None}, ReplaceVersionRows(r, i, rows, sha)
       PROVE  \E a \in Request : Fresh(a) /\ Queue(r, a)
  BY <1>4, <1>10, QueueSteps DEF ReplaceVersionRows
<1>11. ASSUME NEW t \in Types, NEW rows \in Contents, NEW sha \in Contents \cup {None},
              SaveRowsToDraft(r, t, rows, sha)
       PROVE  \E a \in Request : Fresh(a) /\ Queue(r, a)
  <2>1. Drafts(version, t) \subseteq Stored(version)
    BY DEF Drafts, OfType
  <2> QED
    BY <1>1, <1>3, <1>9, <1>11, <2>1, QueueSteps DEF SaveRowsToDraft
<1>12. ASSUME NEW i \in Stored(version), SetLabelOverride(r, i)
       PROVE  \E a \in Request : Fresh(a) /\ Queue(r, a)
  <2>1. PICK label \in Labels \cup {None} :
            Queue(r, [Ask("label", version[i].type, i) EXCEPT !.label = label])
    BY <1>12 DEF SetLabelOverride
  <2>2. label \in LabelSet \cup {None}
    BY TimelineAssumption
  <2>3. Fresh([Ask("label", version[i].type, i) EXCEPT !.label = label])
    BY <1>1, <1>2, <1>5, <2>2 DEF Fresh, Ask, Request, Ops, Version
  <2> QED
    BY <2>1, <2>3, QueueSteps
<1>13. ASSUME NEW i \in Stored(version), ApproveVersion(r, i)
       PROVE  \E a \in Request : Fresh(a) /\ Queue(r, a)
  <2>1. PICK from \in Times \cup {None} :
            Queue(r, [Ask("approve", version[i].type, i) EXCEPT !.from = from])
    BY <1>13 DEF ApproveVersion
  <2>2. Fresh([Ask("approve", version[i].type, i) EXCEPT !.from = from])
    BY <1>1, <1>2, <1>5 DEF Fresh, Ask, Request, Ops, Version
  <2> QED
    BY <2>1, <2>2, QueueSteps
<1>14. ASSUME NEW i \in Stored(version), SetActiveVersion(r, i)
       PROVE  \E a \in Request : Fresh(a) /\ Queue(r, a)
  <2>1. Fresh([Ask("pin", version[i].type, i) EXCEPT !.at = now])
    BY <1>1, <1>2, <1>5 DEF Fresh, Ask, Request, Ops, Version
  <2> QED
    BY <1>14, <2>1, QueueSteps DEF SetActiveVersion
<1>15. ASSUME NEW i \in Stored(version), CloneAsDraft(r, i)
       PROVE  \E a \in Request : Fresh(a) /\ Queue(r, a)
  <2>1. Fresh([Ask("clone", version[i].type, i) EXCEPT !.rows = version[i].rows])
    BY <1>1, <1>2, <1>5 DEF Fresh, Ask, Request, Ops, Version
  <2> QED
    BY <1>15, <2>1, QueueSteps DEF CloneAsDraft
<1>16. ASSUME NEW i \in Stored(version), CancelScheduledRelease(r, i) \/ DeleteVersion(r, i)
       PROVE  \E a \in Request : Fresh(a) /\ Queue(r, a)
  BY <1>6, <1>16, QueueSteps DEF CancelScheduledRelease, DeleteVersion
<1> QED
  BY <1>7, <1>8, <1>9, <1>10, <1>11, <1>12, <1>13, <1>14, <1>15, <1>16 DEF Begin

-----------------------------------------------------------------------------
\* Rows stay on their axis, and no id is used twice.
AxesKept ==
    \A i \in Ids :
        version[i] # None =>
            /\ version'[i] # None
            /\ i \in Stored(version') => /\ i \in Stored(version)
                                         /\ version'[i].type = version[i].type

\* No operation moves a row from one axis to another.
LEMMA CommitKeepsAxes ==
    ASSUME TypeInv, NEW r \in Requests, Commit(r)
    PROVE  AxesKept
<1>1. CASE version' = version
  BY <1>1 DEF AxesKept
<1>2. CASE \E i \in Ids : RowOf(r, i)
  <2>1. PICK i \in Ids : RowOf(r, i)
    BY <1>2
  <2>2. ASSUME NEW j \in Ids \ {i}, j \in Stored(version')
        PROVE  j \in Stored(version)
    BY <2>1, <2>2 DEF RowOf, Stored
  <2> QED
    BY <2>1, <2>2 DEF RowOf, AxesKept
<1> QED
  BY <1>1, <1>2, CommitSteps

\* What a request has read of its axis stays true of another request's step.
LEMMA FitsKept ==
    ASSUME TypeOK, now' \in Nat, now <= now', AxesKept,
           NEW r \in Requests, Fits(r), req'[r] = req[r]
    PROVE  Fits(r)'
<1>1. req[r] # None => req[r].at \in Int /\ now \in Int
  BY TimelineAssumption DEF TypeOK, Request, Times
<1> QED
  BY <1>1 DEF Fits, AxesKept

(* A step after which r, and no other request, has changed.                 *)
LEMMA OthersFit ==
    ASSUME TypeInv, now' \in Nat, now <= now', AxesKept, NEW r \in Requests,
           NEW m \in Request \cup {None}, req' = [req EXCEPT ![r] = m], Fits(r)'
    PROVE  /\ req' \in [Requests -> Request \cup {None}]
           /\ \A q \in Requests : Fits(q)'
<1>1. req \in [Requests -> Request \cup {None}]
  BY DEF TypeInv, TypeOK
<1>2. req' \in [Requests -> Request \cup {None}] /\ \A q \in Requests \ {r} : req'[q] = req[q]
  BY <1>1
<1>3. ASSUME NEW q \in Requests \ {r}
      PROVE  Fits(q)'
  BY <1>2, <1>3, FitsKept DEF TypeInv
<1> QED
  BY <1>2, <1>3

\* Releasing the mutexes leaves each of them free or with a request.
LEMMA UnlockedType ==
    ASSUME TypeOK, NEW r
    PROVE  Unlocked(r) \in [Types -> Requests \cup {None}]
  BY DEF TypeOK, Unlocked

\* The clock is a number.
LEMMA NowIsNat ==
    ASSUME TypeOK
    PROVE  now \in Nat /\ now <= now
  BY TimelineAssumption DEF TypeOK, Times

\* A stamp names a version, or none, or the document is gone.
LEMMA StampType ==
    ASSUME TypeInv, NEW d \in Docs, NEW s \in Stamps(d)
    PROVE  s \in Ids \cup {None, NoDoc}
<1>1. DocType[d] \in Types
  BY DocsAssumption
<1>2. Active(DocType[d]) \in Ids \cup {None}
  <2> DEFINE S == Due(version, DocType[d], now)
  <2>1. CASE S = {}
    BY <2>1 DEF Active, ResolveActive, Latest
  <2>2. CASE S # {}
    BY <1>1, <2>2, ResolveActiveIsDue
       DEF Active, TypeInv, TypeOK, Due, Approved, OfType, Stored
  <2> QED
    BY <2>1, <2>2
<1> QED
  BY <1>2 DEF Stamps, TypeInv, TypeOK

\* The baseline versions of ensureBaselineVersions are well-typed.
LEMMA TypeInvInit == Init => TypeInv
<1> SUFFICES ASSUME Init
             PROVE  TypeInv
  OBVIOUS
<1>1. ASSUME NEW i \in Ids
      PROVE  Baseline[i] \in Version \cup {None}
  <2>1. CASE \E t \in Types : BaselineId[t] = i
    <3> DEFINE u == CHOOSE t \in Types : BaselineId[t] = i
    <3>1. u \in Types
      BY <2>1
    <3>2. Baseline[i] = [NewDraft(u, 1, 0, Seed) EXCEPT !.status = "APPROVED"]
      BY <2>1 DEF Baseline
    <3> HIDE DEF u
    <3> QED
      BY <3>1, <3>2, TimelineAssumption DEF NewDraft, Version, Times
  <2> QED
    BY <2>1 DEF Baseline
<1>2. Baseline \in Table
  BY <1>1 DEF Baseline, Table
<1>3. OwnInstants(Baseline)
  <2> SUFFICES ASSUME NEW t \in Types, NEW i \in Approved(Baseline, t)
               PROVE  i = BaselineId[t]
    BY DEF OwnInstants
  <2>1. i \in Ids /\ Baseline[i] # None /\ Baseline[i].type = t
    BY DEF Approved, OfType, Stored
  <2>2. \E v \in Types : BaselineId[v] = i
    BY <2>1 DEF Baseline
  <2> DEFINE u == CHOOSE v \in Types : BaselineId[v] = i
  <2>3. BaselineId[u] = i
    BY <2>2
  <2>4. Baseline[i].type = u
    BY <2>1, <2>2 DEF Baseline, NewDraft
  <2> HIDE DEF u
  <2> QED
    BY <2>1, <2>3, <2>4
<1>4. now \in Times
  BY TimelineAssumption DEF Init, Times
<1>5. pin \in Pins /\ lock \in [Types -> Requests \cup {None}]
  BY DEF Init, NoPins, Pins
<1> QED
  BY <1>2, <1>3, <1>4, <1>5 DEF Init, TypeInv, TypeOK, Fits

\* Two approved versions of an axis never come into force at the same instant.
LEMMA CommitKeepsInstants ==
    ASSUME NEW r \in Requests, Commit(r)
    PROVE  OwnInstants(version)'
  BY DEF Commit, UniqueIndexes, OwnInstants

(* A check notes the next number and, save for a choice by hand, the hour.  *)
LEMMA CheckSteps ==
    ASSUME TypeInv, NEW r \in Requests, Check(r)
    PROVE  /\ req[r] # None /\ req[r].stage = "tx"
           /\ UNCHANGED <<now, version, pin, lock, stamp, pending, raced>>
           /\ \E m \in Request :
                  /\ req' = [req EXCEPT ![r] = m]
                  /\ m = [req[r] EXCEPT !.stage = "commit", !.seq = m.seq, !.at = m.at]
                  /\ m.stage = "commit"
                  /\ m.seq = NextSeq(version, req[r].type) /\ m.seq # 0
                  /\ m.at = IF req[r].op = "pin" THEN req[r].at ELSE now
                  /\ m.at <= now
<1> DEFINE n == NextSeq(version, req[r].type)
           c == IF req[r].op = "pin" THEN req[r].at ELSE now
           m == [req[r] EXCEPT !.stage = "commit", !.seq = n, !.at = c]
<1>1. req[r] \in Request /\ req[r] # None /\ req[r].stage = "tx"
  BY RequestFacts DEF Check, InTx, TypeInv
<1>2. n \in Nat \ {0}
  BY NextSeqType DEF TypeInv, TypeOK
<1>3. c \in Times /\ c <= now
  BY <1>1, NowIsNat DEF TypeInv, TypeOK, Request, Fits
<1>4. /\ req' = [req EXCEPT ![r] = m]
      /\ UNCHANGED <<now, version, pin, lock, stamp, pending, raced>>
  BY DEF Check, TypeInv, TypeOK
<1> HIDE DEF n, c
<1>5. m \in Request /\ m.stage = "commit" /\ m.seq = n /\ m.at = c
  BY <1>1, <1>2, <1>3 DEF Request
<1> QED
  BY <1>1, <1>2, <1>3, <1>4, <1>5 DEF n, c

\* Every step keeps the types.
LEMMA TypeInvStep == TypeInv /\ [Next]_vars => TypeInv'
<1> SUFFICES ASSUME TypeInv, [Next]_vars
             PROVE  TypeInv'
  OBVIOUS
<1>1. TypeOK /\ OwnInstants(version) /\ \A r \in Requests : Fits(r)
  BY DEF TypeInv
<1>2. now \in Nat /\ now <= now
  BY <1>1, NowIsNat
<1>3. version' = version => AxesKept
  BY DEF AxesKept
<1>4. version' = version => OwnInstants(version)'
  BY <1>1 DEF OwnInstants
<1>5. \A r \in Requests : req[r] # None => req[r] \in Request
  BY <1>1, RequestFacts
<1>6. ASSUME NEW r \in Requests, req' = [req EXCEPT ![r] = None], lock' = Unlocked(r),
             UNCHANGED <<now, version, pin, stamp, pending, raced>>
      PROVE  TypeInv'
  <2>1. Fits(r)'
    BY <1>1, <1>6 DEF Fits, TypeOK
  <2>2. /\ req' \in [Requests -> Request \cup {None}]
        /\ \A q \in Requests : Fits(q)'
    BY <1>2, <1>3, <1>6, <2>1, OthersFit
  <2>3. lock' \in [Types -> Requests \cup {None}]
    BY <1>1, <1>6, UnlockedType
  <2> QED
    BY <1>1, <1>4, <1>6, <2>2, <2>3 DEF TypeInv, TypeOK
<1>7. ASSUME NEW r \in Requests, Begin(r)
      PROVE  TypeInv'
  <2>1. PICK a \in Request : Fresh(a) /\ Queue(r, a)
    BY <1>7, BeginSteps
  <2>2. /\ req' = [req EXCEPT ![r] = a]
        /\ UNCHANGED <<now, version, pin, lock, stamp, pending, raced>>
    BY <2>1 DEF Queue
  <2>3. Fits(r)'
    BY <1>1, <2>1, <2>2 DEF Fits, Fresh, TypeOK, Stored
  <2>4. /\ req' \in [Requests -> Request \cup {None}]
        /\ \A q \in Requests : Fits(q)'
    BY <1>2, <1>3, <2>2, <2>3, OthersFit
  <2> QED
    BY <1>1, <1>4, <2>2, <2>4 DEF TypeInv, TypeOK
<1>8. ASSUME NEW r \in Requests, AcquireLock(r)
      PROVE  TypeInv'
  <2> DEFINE stage == IF req[r].stage = "lock" /\ req[r].op = "delete" /\ req[r].type = Preco
                      THEN "inner" ELSE "tx"
             m == [req[r] EXCEPT !.stage = stage]
  <2>1. req[r] \in Request
    BY <1>5, <1>8 DEF AcquireLock, Waits
  <2>2. m \in Request
    BY <2>1 DEF Request
  <2>3. req' = [req EXCEPT ![r] = m] /\ UNCHANGED <<now, version, pin, stamp, pending, raced>>
    BY <1>1, <1>8 DEF AcquireLock, TypeOK
  <2>4. req'[r] = m
    BY <1>1, <2>3 DEF TypeOK
  <2>5. Fits(r)'
    BY <1>1, <2>1, <2>3, <2>4, RequestAssumption DEF Fits, Request
  <2>6. /\ req' \in [Requests -> Request \cup {None}]
        /\ \A q \in Requests : Fits(q)'
    BY <1>2, <1>3, <2>2, <2>3, <2>5, OthersFit
  <2>7. lock' \in [Types -> Requests \cup {None}]
    BY <1>1, <1>8 DEF AcquireLock, TypeOK
  <2> QED
    BY <1>1, <1>4, <2>3, <2>6, <2>7 DEF TypeInv, TypeOK
<1>9. ASSUME NEW r \in Requests, Busy(r) \/ Refuse(r) \/ Fail(r)
      PROVE  TypeInv'
  BY <1>6, <1>9 DEF Busy, Refuse, Fail
<1>10. ASSUME NEW r \in Requests, Check(r)
       PROVE  TypeInv'
  <2>1. PICK m \in Request :
            /\ req' = [req EXCEPT ![r] = m]
            /\ m = [req[r] EXCEPT !.stage = "commit", !.seq = m.seq, !.at = m.at]
            /\ m.stage = "commit"
            /\ m.seq # 0
            /\ m.at <= now
    BY <1>10, CheckSteps
  <2>2. UNCHANGED <<now, version, pin, lock, stamp, pending, raced>>
    BY <1>10, CheckSteps
  <2>3. req'[r] = m /\ req[r] \in Request /\ req[r] # None
    BY <1>1, <1>5, <1>10, <2>1, CheckSteps DEF TypeOK
  <2>4. Fits(r)'
    <3>1. /\ m.op = req[r].op /\ m.type = req[r].type /\ m.id = req[r].id
          /\ m.from = req[r].from /\ m.label = req[r].label
      BY <2>1, <2>3 DEF Request
    <3> QED
      BY <1>1, <2>1, <2>2, <2>3, <3>1 DEF Fits, Stored
  <2>5. /\ req' \in [Requests -> Request \cup {None}]
        /\ \A q \in Requests : Fits(q)'
    BY <1>2, <1>3, <2>1, <2>2, <2>4, OthersFit
  <2> QED
    BY <1>1, <1>4, <2>2, <2>5 DEF TypeInv, TypeOK
<1>11. ASSUME NEW r \in Requests, Commit(r)
       PROVE  TypeInv'
  <2>1. version' \in Table /\ pin' \in Pins /\ AxesKept /\ OwnInstants(version)'
    BY <1>11, CommitSteps, CommitKeepsAxes, CommitKeepsInstants
  <2>2. /\ req' = [req EXCEPT ![r] = None]
        /\ lock' = Unlocked(r)
        /\ UNCHANGED <<now, stamp, pending>>
    BY <1>11 DEF Commit
  <2>3. Fits(r)'
    BY <1>1, <2>2 DEF Fits, TypeOK
  <2>4. /\ req' \in [Requests -> Request \cup {None}]
        /\ \A q \in Requests : Fits(q)'
    BY <1>2, <2>1, <2>2, <2>3, OthersFit
  <2>5. lock' \in [Types -> Requests \cup {None}]
    BY <1>1, <2>2, UnlockedType
  <2>6. raced' \subseteq Ids
    BY <1>1, <1>11 DEF Commit, CancelsLate, InCommit, TypeOK, Fits
  <2> QED
    BY <1>1, <2>1, <2>2, <2>4, <2>5, <2>6 DEF TypeInv, TypeOK
<1>12. CASE Restart
  <2>1. req' = [r \in Requests |-> None]
    BY <1>12 DEF Restart
  <2>2. \A r \in Requests : Fits(r)'
    BY <2>1 DEF Fits
  <2> QED
    BY <1>1, <1>4, <1>12, <2>2 DEF Restart, TypeInv, TypeOK
<1>13. ASSUME NEW d \in Docs, ReadStamp(d) \/ SaveDoc(d) \/ DeleteDoc(d)
       PROVE  TypeInv'
  <2>1. UNCHANGED <<now, version, pin, lock, req, raced>>
    BY <1>13 DEF ReadStamp, SaveDoc, DeleteDoc
  <2>2. \A r \in Requests : Fits(r)'
    BY <1>1, <2>1 DEF Fits, Stored
  <2>3. /\ stamp' \in [Docs -> Ids \cup {None, NoDoc}]
        /\ pending' \in [Docs -> Ids \cup {None, NoDoc}]
    BY <1>1, <1>13, StampType DEF ReadStamp, SaveDoc, DeleteDoc, TypeOK
  <2> QED
    BY <1>1, <1>4, <2>1, <2>2, <2>3 DEF TypeInv, TypeOK
<1>14. CASE Tick
  <2>1. now' \in Times /\ now' \in Nat /\ now <= now'
    BY <1>1, <1>2, <1>14, TimelineAssumption DEF Tick, TypeOK, Times
  <2>2. UNCHANGED <<version, pin, lock, req, stamp, pending, raced>>
    BY <1>14 DEF Tick
  <2>3. \A r \in Requests : Fits(r)'
    BY <1>1, <1>3, <2>1, <2>2, FitsKept
  <2> QED
    BY <1>1, <1>4, <2>1, <2>2, <2>3 DEF TypeInv, TypeOK
<1>15. CASE UNCHANGED vars
  <2>1. \A r \in Requests : Fits(r)'
    BY <1>1, <1>15 DEF vars, Fits, Stored
  <2> QED
    BY <1>1, <1>4, <1>15, <2>1 DEF vars, TypeInv, TypeOK
<1> QED
  BY <1>7, <1>8, <1>9, <1>10, <1>11, <1>12, <1>13, <1>14, <1>15 DEF Next, Proceed, AwaitLock

(* TypeOK: everything stays of its type.                                    *)
THEOREM TypeCorrect == Spec => []TypeOK
<1>1. TypeInv => TypeOK
  BY DEF TypeInv
<1> QED
  BY <1>1, TypeInvInit, TypeInvStep, PTL DEF Spec

-----------------------------------------------------------------------------
\* The mutexes that r has to wait for, all of axes that there are.
LEMMA AxesOf ==
    ASSUME TypeInv, NEW r \in Requests, req[r] # None
    PROVE  /\ req[r].type \in Types
           /\ req[r].type = Preco => Studnie \in Types /\ Studnie # Preco
           /\ Waits(r) => Awaited(r) \in Types
<1>1. req[r].type \in Types
  BY RequestFacts DEF TypeInv
<1>2. req[r].type = Preco => Studnie \in Types /\ Studnie # Preco
  BY <1>1, TimelineAssumption
<1>3. Waits(r) => Awaited(r) \in Types
  BY <1>1, <1>2 DEF Waits, Awaited, TypeInv, Fits
<1> QED
  BY <1>1, <1>2, <1>3

\* At the start nobody holds a mutex.
LEMMA MutexInvInit == Init => MutexInv
  BY DEF Init, MutexInv, LocksReleased, Holds

\* A request that ends takes its mutexes with it and no other's.
LEMMA EndKeepsMutexInv ==
    ASSUME TypeInv, MutexInv, NEW r \in Requests,
           req' = [req EXCEPT ![r] = None], lock' = Unlocked(r)
    PROVE  MutexInv'
<1>1. req \in [Requests -> Request \cup {None}] /\ lock \in [Types -> Requests \cup {None}]
  BY DEF TypeInv, TypeOK
<1>2. req'[r] = None /\ \A q \in Requests \ {r} : req'[q] = req[q]
  BY <1>1
<1>3. \A t \in Types : lock'[t] = IF lock[t] = r THEN None ELSE lock[t]
  BY DEF Unlocked
<1>4. r # None
  BY DocsAssumption
<1>5. LocksReleased'
  <2> SUFFICES ASSUME NEW t \in Types, lock'[t] # None
               PROVE  /\ req'[lock'[t]] # None
                      /\ req'[lock'[t]].stage # "lock"
                      /\ t \in {req'[lock'[t]].type, Studnie}
    BY DEF LocksReleased
  <2>1. lock'[t] = lock[t] /\ lock[t] \in Requests \ {r}
    BY <1>1, <1>3
  <2> QED
    BY <1>2, <2>1 DEF MutexInv, LocksReleased
<1>6. ASSUME NEW q \in Requests
      PROVE  Holds(q)'
  <2>1. CASE q = r
    BY <1>2, <2>1 DEF Holds
  <2>2. CASE q # r
    BY <1>2, <1>3, <2>2, AxesOf DEF MutexInv, Holds
  <2> QED
    BY <2>1, <2>2
<1> QED
  BY <1>5, <1>6 DEF MutexInv

\* Every step keeps the mutexes with those that work under them.
LEMMA MutexInvStep == TypeInv /\ MutexInv /\ [Next]_vars => MutexInv'
<1> SUFFICES ASSUME TypeInv, MutexInv, [Next]_vars
             PROVE  MutexInv'
  OBVIOUS
<1>1. req \in [Requests -> Request \cup {None}] /\ lock \in [Types -> Requests \cup {None}]
  BY DEF TypeInv, TypeOK
<1>2. ASSUME UNCHANGED <<req, lock>>
      PROVE  MutexInv'
  BY <1>2 DEF MutexInv, LocksReleased, Holds
<1>3. ASSUME NEW r \in Requests, Begin(r)
      PROVE  MutexInv'
  <2>1. PICK a \in Request : Fresh(a) /\ Queue(r, a)
    BY <1>3, BeginSteps
  <2>2. req[r] = None /\ req' = [req EXCEPT ![r] = a] /\ lock' = lock /\ a.stage = "lock"
    BY <2>1 DEF Queue, Fresh
  <2>3. req'[r] = a /\ \A q \in Requests \ {r} : req'[q] = req[q]
    BY <1>1, <2>2
  <2>4. \A t \in Types : lock[t] # r
    BY <2>2, DocsAssumption DEF MutexInv, LocksReleased
  <2>5. LocksReleased'
    BY <1>1, <2>2, <2>3, <2>4 DEF MutexInv, LocksReleased
  <2>6. ASSUME NEW q \in Requests
        PROVE  Holds(q)'
    BY <2>2, <2>3 DEF MutexInv, Holds
  <2> QED
    BY <2>5, <2>6 DEF MutexInv
<1>4. ASSUME NEW r \in Requests, AcquireLock(r)
      PROVE  MutexInv'
  <2> DEFINE w == Awaited(r)
             m == req[r]
  <2>1. /\ Waits(r)
        /\ m # None
        /\ lock[w] = None
        /\ lock' = [lock EXCEPT ![w] = r]
        /\ req' = [req EXCEPT ![r].stage =
                      IF @ = "lock" /\ m.op = "delete" /\ m.type = Preco THEN "inner" ELSE "tx"]
    BY <1>4 DEF AcquireLock, Waits, Free
  <2>2. w \in Types /\ m \in Request /\ m.type \in Types
    BY <1>1, <2>1, AxesOf
  <2>3. lock'[w] = r /\ \A t \in Types \ {w} : lock'[t] = lock[t]
    BY <1>1, <2>1, <2>2
  <2>4. /\ req'[r] # None
        /\ req'[r].type = m.type /\ req'[r].op = m.op
        /\ req'[r].stage = IF m.stage = "lock" /\ m.op = "delete" /\ m.type = Preco
                           THEN "inner" ELSE "tx"
        /\ \A q \in Requests \ {r} : req'[q] = req[q]
    <3> DEFINE n == [m EXCEPT !.stage = IF @ = "lock" /\ m.op = "delete" /\ m.type = Preco
                                        THEN "inner" ELSE "tx"]
    <3>1. req'[r] = n /\ \A q \in Requests \ {r} : req'[q] = req[q]
      BY <1>1, <2>1
    <3>2. n \in Request
      BY <2>2 DEF Request
    <3> QED
      BY <2>2, <3>1, <3>2, RequestAssumption DEF Request
  <2>5. m.stage = "inner" => m.op = "delete" /\ m.type = Preco
    BY <2>1 DEF TypeInv, Fits
  <2>6. w = IF m.stage = "lock" THEN m.type ELSE Studnie
    BY DEF Awaited
  <2>7. LocksReleased'
    <3> SUFFICES ASSUME NEW t \in Types, lock'[t] # None
                 PROVE  /\ req'[lock'[t]] # None
                        /\ req'[lock'[t]].stage # "lock"
                        /\ t \in {req'[lock'[t]].type, Studnie}
      BY DEF LocksReleased
    <3>1. CASE t = w
      BY <2>3, <2>4, <2>6, <3>1
    <3>2. CASE t # w
      <4>1. lock'[t] = lock[t] /\ lock[t] \in Requests
        BY <1>1, <2>3, <3>2
      <4>2. /\ req[lock[t]] # None /\ req[lock[t]].stage # "lock"
            /\ t \in {req[lock[t]].type, Studnie}
        BY <3>2, <4>1 DEF MutexInv, LocksReleased
      <4> QED
        BY <2>4, <4>1, <4>2
    <3> QED
      BY <3>1, <3>2
  <2>8. ASSUME NEW q \in Requests \ {r}
        PROVE  Holds(q)'
    <3>1. \A t \in Types : lock[t] = q => lock'[t] = q
      BY <2>1, <2>3, DocsAssumption
    <3> QED
      BY <2>4, <3>1, AxesOf DEF MutexInv, Holds
  <2>9. Holds(r)'
    <3>1. CASE m.stage = "lock"
      BY <2>3, <2>4, <2>6, <3>1 DEF Holds
    <3>2. CASE m.stage = "inner"
      <4>1. lock[m.type] = r /\ Studnie # Preco
        BY <2>1, <3>2, <2>5, AxesOf DEF MutexInv, Holds
      <4>2. lock'[m.type] = r /\ lock'[Studnie] = r
        BY <2>2, <2>3, <2>5, <2>6, <3>2, <4>1
      <4> QED
        BY <2>4, <4>2 DEF Holds
    <3> QED
      BY <2>1, <3>1, <3>2 DEF Waits
  <2> QED
    BY <2>7, <2>8, <2>9 DEF MutexInv
<1>5. ASSUME NEW r \in Requests, Busy(r) \/ Refuse(r) \/ Fail(r) \/ Commit(r)
      PROVE  MutexInv'
  BY <1>5, EndKeepsMutexInv DEF Busy, Refuse, Fail, Commit
<1>6. ASSUME NEW r \in Requests, Check(r)
      PROVE  MutexInv'
  <2>1. PICK m \in Request :
            /\ req' = [req EXCEPT ![r] = m]
            /\ m = [req[r] EXCEPT !.stage = "commit", !.seq = m.seq, !.at = m.at]
            /\ m.stage = "commit"
    BY <1>6, CheckSteps
  <2>2. req[r] \in Request /\ req[r] # None /\ req[r].stage = "tx" /\ lock' = lock
    BY <1>1, <1>6, CheckSteps
  <2>3. req'[r] = m /\ \A q \in Requests \ {r} : req'[q] = req[q]
    BY <1>1, <2>1
  <2>4. m.type = req[r].type /\ m.op = req[r].op /\ m # None
    BY <2>1, <2>2, RequestAssumption DEF Request
  <2>5. LocksReleased'
    <3> SUFFICES ASSUME NEW t \in Types, lock[t] # None
                 PROVE  /\ req'[lock[t]] # None
                        /\ req'[lock[t]].stage # "lock"
                        /\ t \in {req'[lock[t]].type, Studnie}
      BY <2>2 DEF LocksReleased
    <3>1. /\ lock[t] \in Requests
          /\ req[lock[t]] # None
          /\ req[lock[t]].stage # "lock"
          /\ t \in {req[lock[t]].type, Studnie}
      BY <1>1 DEF MutexInv, LocksReleased
    <3> QED
      BY <2>1, <2>3, <2>4, <3>1
  <2>6. ASSUME NEW q \in Requests
        PROVE  Holds(q)'
    BY <2>1, <2>2, <2>3, <2>4 DEF MutexInv, Holds
  <2> QED
    BY <2>5, <2>6 DEF MutexInv
<1>7. CASE Restart
  BY <1>7 DEF Restart, MutexInv, LocksReleased, Holds
<1>8. ASSUME NEW d \in Docs, ReadStamp(d) \/ SaveDoc(d) \/ DeleteDoc(d)
      PROVE  MutexInv'
  BY <1>2, <1>8 DEF ReadStamp, SaveDoc, DeleteDoc
<1>9. CASE Tick \/ UNCHANGED vars
  BY <1>2, <1>9 DEF Tick, vars
<1> QED
  BY <1>3, <1>4, <1>5, <1>6, <1>7, <1>8, <1>9 DEF Next, Proceed, AwaitLock

(* LocksReleased: whatever way a request ends, it leaves no axis locked.    *)
THEOREM LocksReleasedCorrect == Spec => []LocksReleased
<1>1. MutexInv => LocksReleased
  BY DEF MutexInv
<1> QED
  BY <1>1, TypeInvInit, TypeInvStep, MutexInvInit, MutexInvStep, PTL DEF Spec

-----------------------------------------------------------------------------
(* A row that a commit changes is that of the version it is about.          *)
LEMMA CommitAt ==
    ASSUME TypeInv, NEW r \in Requests, Commit(r), NEW i \in Stored(version),
           version'[i] # version[i]
    PROVE  /\ i = req[r].id
           /\ req[r].op \in {"update", "replace", "label", "approve", "cancel", "delete"}
<1> DEFINE m == req[r]
<1>1. /\ m # None /\ m.stage = "commit" /\ m \in Request
      /\ i \in Ids /\ version \in Table /\ version[i] \in Version
  BY CommitSteps, RequestFacts, TableFacts DEF TypeInv, TypeOK
<1>2. PICK j \in Ids : RowOf(r, j)
  BY CommitSteps
<1>3. i = j /\ i = m.id
  BY <1>1, <1>2 DEF RowOf
<1>4. m.op \notin {"create", "clone"}
  <2> SUFFICES ASSUME m.op \in {"create", "clone"}
               PROVE  FALSE
    OBVIOUS
  <2>1. PICK from \in Times : Insert(m, from)
    BY <1>1 DEF Commit, InCommit, Request, TypeInv, Fits
  <2>2. PICK k \in Ids : RowOf(r, k) /\ version[k] = None
    BY <1>1, <2>1, InsertSteps
  <2> QED
    BY <1>1, <2>2, RowAssumption DEF RowOf
<1>5. m.op \notin {"pin", "unpin"}
  BY DEF Commit, InCommit, WritePin, WriteUnpin
<1> QED
  BY <1>1, <1>3, <1>4, <1>5 DEF Request, Ops

(* What a commit does to its own axis, and to the others.                   *)
LEMMA CommitKeepsDue ==
    ASSUME TypeInv, CheckInv, NEW r \in Requests, Commit(r), NEW i \in Due(version, req[r].type, now),
           req[r].op \in {"cancel", "delete"} => i # req[r].id
    PROVE  i \in Due(version', req[r].type, now)
<1> DEFINE m == req[r]
<1>1. /\ i \in Ids /\ version[i] \in Version
      /\ version[i].type = m.type /\ version[i].status = "APPROVED" /\ version[i].from <= now
  BY TableFacts DEF Due, Approved, OfType, TypeInv, TypeOK, Stored
<1>2. m # None /\ m.stage = "commit" /\ m \in Request /\ version \in Table /\ version' \in Table
  BY CommitSteps, RequestFacts DEF TypeInv, TypeOK
<1>3. SUFFICES /\ version'[i] \in Version
               /\ version'[i].type = m.type /\ version'[i].status = "APPROVED"
               /\ version'[i].from <= now
  BY <1>1, <1>2, TableFacts DEF Due, Approved, OfType
<1>4. CASE version'[i] = version[i]
  BY <1>1, <1>4
<1>5. CASE version'[i] # version[i]
  <2>1. i = m.id /\ m.op \in {"update", "replace", "label", "approve", "cancel", "delete"}
    BY <1>5, CommitAt DEF Due, Approved, OfType
  <2>2. m.op # "approve"
    BY <1>1, <1>2, <2>1 DEF CheckInv, Checked, MayApprove
  <2>3. CASE m.op \in {"update", "replace"}
    <3>1. version' = [version EXCEPT ![i] = [version[i] EXCEPT !.rows = m.rows]]
      BY <2>1, <2>3 DEF Commit, InCommit, WriteRows, Put
    <3>2. version'[i] = [version[i] EXCEPT !.rows = m.rows]
      BY <1>1, <1>2, <3>1 DEF Table
    <3> QED
      BY <1>1, <1>2, <3>2 DEF Version, Request
  <2>4. CASE m.op = "label"
    <3> DEFINE l == Override(version[i], m.label)
    <3>1. version' = [version EXCEPT ![i] = [version[i] EXCEPT !.label = l]]
      BY <2>1, <2>4 DEF Commit, InCommit, WriteLabel, Put
    <3>2. version'[i] = [version[i] EXCEPT !.label = l]
      BY <1>1, <1>2, <3>1 DEF Table
    <3>3. l \in LabelSet \cup {None}
      BY <1>2 DEF Override, Request
    <3> HIDE DEF l
    <3> QED
      BY <1>1, <3>2, <3>3 DEF Version
  <2> QED
    BY <2>1, <2>2, <2>3, <2>4
<1> QED
  BY <1>4, <1>5

\* A commit leaves the rows and the choice by hand of the other axis alone.
LEMMA CommitLeavesAxis ==
    ASSUME TypeInv, CheckInv, NEW r \in Requests, Commit(r), NEW t \in Types, t # req[r].type
    PROVE  SameAxis(version, version', t) /\ pin'[t] = pin[t]
<1> DEFINE m == req[r]
<1>1. m # None /\ m \in Request /\ version \in Table /\ version' \in Table /\ pin \in Pins
  BY CommitSteps, RequestFacts DEF TypeInv, TypeOK
<1>2. SameAxis(version, version', t)
  <2>1. CASE version' = version
    BY <2>1 DEF SameAxis
  <2>2. CASE \E i \in Ids : RowOf(r, i)
    <3>1. PICK i \in Ids : RowOf(r, i)
      BY <2>2
    <3> QED
      BY <1>1, <3>1, OtherAxis DEF RowOf
  <2> QED
    BY <2>1, <2>2, CommitSteps
<1>3. \/ pin' = pin
      \/ pin' = Unpinned(m.type)
      \/ pin' = [pin EXCEPT ![m.type] = m.id]
      \/ m.op \in {"cancel", "delete"} /\ pin' = UnpinnedFrom(m.id)
  <2>1. CASE m.op \in {"create", "clone"}
    <3>1. \E from : Insert(m, from)
      BY <2>1 DEF Commit, InCommit
    <3> QED
      BY <3>1 DEF Insert
  <2>2. CASE m.op \in {"update", "replace", "label"}
    BY <2>2 DEF Commit, InCommit, WriteRows, WriteLabel
  <2>3. CASE m.op \in {"approve", "pin", "unpin"}
    BY <2>3 DEF Commit, InCommit, WriteApproval, WritePin, WriteUnpin
  <2>4. CASE m.op \in {"cancel", "delete"}
    BY <2>4 DEF Commit, InCommit, WriteCancel, WriteDelete
  <2>5. m.op \in Ops
    BY <1>1 DEF Request
  <2> QED
    BY <2>1, <2>2, <2>3, <2>4, <2>5 DEF Ops
<1>4. CASE m.op \in {"cancel", "delete"} /\ pin' = UnpinnedFrom(m.id)
  <2>1. pin'[t] = IF pin[t] = m.id THEN None ELSE pin[t]
    BY <1>4 DEF UnpinnedFrom
  <2>2. pin[t] # None => version[pin[t]].type = t
    BY DEF CheckInv, OverrideResolves, Due, Approved, OfType
  <2>3. m.id \in Stored(version) /\ m.id # None
    BY <1>4, CommitPuts, TimelineAssumption DEF Stored
  <2>4. version[m.id].type = m.type
    BY <1>1, <1>4, <2>3 DEF TypeInv, Fits
  <2> QED
    BY <1>2, <2>1, <2>2, <2>3, <2>4
<1>5. CASE \/ pin' = pin
           \/ pin' = Unpinned(m.type)
           \/ pin' = [pin EXCEPT ![m.type] = m.id]
  <2>1. pin'[t] = pin[t]
    BY <1>1, <1>5 DEF Unpinned, Pins
  <2> QED
    BY <1>2, <2>1
<1> QED
  BY <1>3, <1>4, <1>5

(* As long as its axis stays as it is, what a request has checked holds; a   *)
(* deletion looks at the axis of studnie too.                                *)
LEMMA CheckedKept ==
    ASSUME TypeInv, version' \in Table, now' \in Nat, now <= now',
           NEW r \in Requests, req'[r] = req[r], Checked(r), req[r] # None,
           SameAxis(version, version', req[r].type), pin'[req[r].type] = pin[req[r].type],
           req[r].op = "delete" /\ req[r].type = Preco => SameAxis(version, version', Studnie)
    PROVE  Checked(r)'
<1> DEFINE m == req[r]
           t == req[r].type
           i == req[r].id
<1>1. SUFFICES ASSUME m.stage = "commit"
               PROVE  Checked(r)'
  BY DEF Checked
<1>2. m \in Request /\ t \in Types /\ version \in Table /\ now \in Nat
  BY RequestFacts, NowIsNat DEF TypeInv, TypeOK
<1>3. /\ Drafts(version', t) = Drafts(version, t)
      /\ Approved(version', t) = Approved(version, t)
      /\ \A at : Due(version', t, at) = Due(version, t, at)
      /\ NextSeq(version', t) = NextSeq(version, t)
  BY SameAxisFacts
<1>4. Due(version, t, now) \subseteq Due(version', t, now')
  <2>1. \A j \in Due(version, t, now) : version[j].from \in Int
    BY <1>2, TableFacts, TimelineAssumption DEF Due, Approved, OfType, Version, Times
  <2>2. Due(version, t, now) \subseteq Due(version, t, now')
    BY <1>2, <2>1 DEF Due
  <2> QED
    BY <1>3, <2>2
<1>5. CASE m.op \in {"create", "clone"}
  BY <1>3, <1>5 DEF Checked
<1>6. CASE m.op = "unpin"
  BY <1>6 DEF Checked
<1>7. CASE m.op \notin {"create", "clone", "unpin"}
  <2>1. i \in OfType(version, t) /\ i \in Stored(version) /\ version[i].type = t
    BY <1>1, <1>7 DEF Checked, TypeInv, Fits, OfType
  <2>2. version'[i] = version[i] /\ i \in Stored(version')
    BY <2>1 DEF SameAxis, OfType
  <2>3. m.op \in {"update", "replace"} => MayEdit(r, i)'
    BY <1>1, <2>2 DEF Checked, MayEdit, Matches
  <2>4. \A l : LabelTaken(version', i, l) = LabelTaken(version, i, l)
    BY <2>1, <2>2 DEF LabelTaken, SameAxis, EffectiveLabel
  <2>5. m.op = "label" => MayRelabel(r, i)'
    BY <1>1, <2>2, <2>4 DEF Checked, MayRelabel, Override
  <2>6. \A f : InstantTaken(version', i, f) = InstantTaken(version, i, f)
    BY <1>3, <2>1, <2>2 DEF InstantTaken, SameAxis, Approved
  <2>7. m.op = "approve" => MayApprove(r, i)'
    BY <1>1, <2>2, <2>6 DEF Checked, MayApprove, ApprovedFrom
  <2>8. Spared(i) => Spared(i)'
    BY <1>4, <2>1, <2>2 DEF Spared
  <2>9. m.op = "delete" /\ t = Preco => PrecoReferences(version', i) = PrecoReferences(version, i)
    BY <1>2, SamePreco DEF TypeInv
  <2> HIDE DEF m, t, i
  <2> QED
    BY <1>1, <1>3, <1>4, <1>7, <2>2, <2>3, <2>5, <2>7, <2>8, <2>9 DEF Checked, m, t, i
<1> QED
  BY <1>5, <1>6, <1>7

\* The baseline leaves no request to have checked anything.
LEMMA CheckInvInit == Init => CheckInv
<1> SUFFICES ASSUME Init
             PROVE  CheckInv
  OBVIOUS
<1>1. ASSUME NEW t \in Types
      PROVE  BaselineId[t] \in Due(version, t, now)
  <2> DEFINE i == BaselineId[t]
             u == CHOOSE v \in Types : BaselineId[v] = i
  <2>1. i \in Ids
    BY TimelineAssumption
  <2>2. u = t
    BY TimelineAssumption
  <2>3. version[i] = [NewDraft(u, 1, 0, Seed) EXCEPT !.status = "APPROVED"]
    BY <2>1 DEF Init, Baseline
  <2> HIDE DEF i, u
  <2>4. version[i].type = t /\ version[i].status = "APPROVED" /\ version[i].from = 0
    BY <2>2, <2>3 DEF NewDraft
  <2>5. version[i] \in Version
    BY <2>2, <2>3, TimelineAssumption DEF NewDraft, Version, Times
  <2>6. i \in Stored(version) /\ 0 <= now
    BY <2>1, <2>5, RowAssumption DEF Stored, Init
  <2> QED
    BY <2>4, <2>6 DEF Due, Approved, OfType, i
<1>2. Priced
  BY <1>1 DEF Priced
<1> QED
  BY <1>2 DEF Init, NoPins, CheckInv, OverrideResolves, Checked

(* The checks in the transaction are those that the write relies on.        *)
LEMMA CheckEstablishes ==
    ASSUME TypeInv, CheckInv, NEW r \in Requests, Check(r)
    PROVE  Checked(r)'
<1> DEFINE m == req[r]
           t == req[r].type
           i == req[r].id
<1>1. /\ req[r] \in Request /\ req[r] # None
      /\ UNCHANGED <<now, version, pin, lock, stamp, pending, raced>>
  BY CheckSteps, RequestFacts DEF TypeInv
<1>2. PICK n \in Request :
          /\ req' = [req EXCEPT ![r] = n]
          /\ n = [req[r] EXCEPT !.stage = "commit", !.seq = n.seq, !.at = n.at]
          /\ n.seq = NextSeq(version, req[r].type)
          /\ n.at = IF req[r].op = "pin" THEN req[r].at ELSE now
  BY CheckSteps
<1>3. req'[r] = n
  BY <1>2 DEF TypeInv, TypeOK
<1>4. /\ n.op = m.op /\ n.type = t /\ n.id = i /\ n.from = m.from
      /\ n.label = m.label /\ n.sha = m.sha /\ n.rows = m.rows
  BY <1>1, <1>2 DEF Request
<1>5. Permitted(r, i) /\ t \in Types /\ now \in Nat /\ version \in Table
  BY <1>1, NowIsNat, AxesOf DEF Check, TypeInv, TypeOK
<1>6. m.op \notin {"create", "clone", "unpin"} =>
          /\ i \in Stored(version)
          /\ version[i] \in Version
          /\ version[i].type = t
          /\ i # None
  BY <1>1, <1>5, TableFacts, TimelineAssumption DEF Permitted, TypeInv, Fits
<1>7. m.op \in {"create", "clone"} => Drafts(version, t) = {}
  BY <1>5 DEF Permitted
<1>8. m.op \in {"update", "replace"} => MayEdit(r, i)'
  BY <1>1, <1>3, <1>4, <1>5 DEF Permitted, MayEdit, Matches
<1>9. m.op = "label" => MayRelabel(r, i)'
  BY <1>1, <1>3, <1>4, <1>5 DEF Permitted, MayRelabel
<1>10. m.op = "approve" => MayApprove(r, i)'
  BY <1>1, <1>3, <1>4, <1>5 DEF Permitted, MayApprove, ApprovedFrom
<1>11. m.op = "cancel" =>
           /\ version[i].status = "APPROVED"
           /\ version[i].from > n.at
           /\ Drafts(version, t) = {}
           /\ Spared(i)
  <2> SUFFICES ASSUME m.op = "cancel"
               PROVE  /\ version[i].status = "APPROVED"
                      /\ version[i].from > n.at
                      /\ Drafts(version, t) = {}
                      /\ Spared(i)
    OBVIOUS
  <2>1. MayCancel(i) /\ n.at = now
    BY <1>2, <1>5 DEF Permitted
  <2>2. i \notin Due(version, t, now)
    BY <1>5, <1>6, <2>1, TimelineAssumption DEF MayCancel, Due, Version, Times
  <2>3. pin[t] # i
    BY <1>5, <1>6, <2>2 DEF CheckInv, OverrideResolves
  <2>4. Due(version, t, now) \ {i} # {}
    BY <1>5, <2>2 DEF CheckInv, Priced
  <2> QED
    BY <1>6, <2>1, <2>3, <2>4 DEF MayCancel, Spared
<1>12. m.op = "pin" => i \in Due(version, t, now)
  <2> SUFFICES ASSUME m.op = "pin"
               PROVE  i \in Due(version, t, now)
    OBVIOUS
  <2>1. i \in Due(version, t, m.at)
    BY <1>5 DEF Permitted
  <2>2. m.at <= now /\ m.at \in Int /\ version[i].from \in Int
    BY <1>1, <1>6, TimelineAssumption DEF TypeInv, Fits, Request, Times, Version
  <2> QED
    BY <1>5, <2>1, <2>2 DEF Due
<1>13. m.op = "delete" =>
           /\ t = Preco => PrecoReferences(version, i) = {}
           /\ version[i].status = "APPROVED" => Spared(i)
  <2> SUFFICES ASSUME m.op = "delete"
               PROVE  /\ t = Preco => PrecoReferences(version, i) = {}
                      /\ version[i].status = "APPROVED" => Spared(i)
    OBVIOUS
  <2>1. CanDelete(i)
    BY <1>5 DEF Permitted
  <2>2. ASSUME version[i].status = "APPROVED"
        PROVE  Spared(i)
    <3>1. Active(t) \in Due(version, t, now)
      BY <1>5, ResolveActiveIsDue DEF Active, TypeInv, CheckInv, Priced
    <3>2. Active(t) # i
      BY <1>6, <2>1, <2>2 DEF CanDelete
    <3>3. pin[t] # i
      <4> SUFFICES ASSUME pin[t] = i
                   PROVE  FALSE
        OBVIOUS
      <4>1. pin[t] \in Due(version, t, now)
        BY <1>5, <1>6 DEF CheckInv, OverrideResolves
      <4> QED
        BY <3>2, <4>1 DEF Active, ResolveActive
    <3> QED
      BY <1>6, <3>1, <3>2, <3>3 DEF Spared
  <2> QED
    BY <1>6, <2>1, <2>2 DEF CanDelete
<1>14. req'[r].id = i /\ (Spared(i) => Spared(req[r].id)')
  BY <1>1, <1>3, <1>4 DEF Spared
<1> HIDE DEF m, t, i
<1> QED
  BY <1>1, <1>2, <1>3, <1>4, <1>6, <1>7, <1>8, <1>9, <1>10, <1>11, <1>12, <1>13, <1>14
     DEF Checked, m, t, i

(* Requests that have made their checks are on different axes.              *)
LEMMA ApartAtCommit ==
    ASSUME TypeInv, MutexInv, NEW r \in Requests, NEW q \in Requests, q # r,
           req[r] # None, req[q] # None, req[r].stage = "commit", req[q].stage = "commit"
    PROVE  /\ req[q].type # req[r].type
           /\ req[q].op = "delete" /\ req[q].type = Preco => Studnie # req[r].type
  BY DEF MutexInv, Holds

\* A commit under one mutex leaves true what a request under another has checked.
LEMMA CommitKeepsChecked ==
    ASSUME TypeInv, MutexInv, CheckInv, NEW r \in Requests, Commit(r), NEW q \in Requests, q # r
    PROVE  Checked(q)'
<1>1. req'[q] = req[q]
  BY DEF Commit, TypeInv, TypeOK
<1>2. CASE req[q] = None \/ req[q].stage # "commit"
  BY <1>1, <1>2 DEF Checked
<1>3. CASE req[q] # None /\ req[q].stage = "commit"
  <2>1. req[r] # None /\ req[r].stage = "commit" /\ version' \in Table /\ now' = now
    BY CommitSteps DEF Commit
  <2>2. req[q].type \in Types /\ (req[q].type = Preco => Studnie \in Types)
    BY <1>3, AxesOf
  <2>3. SameAxis(version, version', req[q].type) /\ pin'[req[q].type] = pin[req[q].type]
    BY <1>3, <2>1, <2>2, ApartAtCommit, CommitLeavesAxis
  <2>4. req[q].op = "delete" /\ req[q].type = Preco => SameAxis(version, version', Studnie)
    BY <1>3, <2>1, <2>2, ApartAtCommit, CommitLeavesAxis
  <2>5. now' \in Nat /\ now <= now' /\ Checked(q)
    BY <2>1, NowIsNat DEF TypeInv, CheckInv
  <2> QED
    BY <1>1, <1>3, <2>1, <2>3, <2>4, <2>5, CheckedKept
<1> QED
  BY <1>2, <1>3

\* A commit leaves every axis with a version in force, and the choice by hand valid.
LEMMA CommitKeepsPriced ==
    ASSUME TypeInv, CheckInv, NEW r \in Requests, Commit(r)
    PROVE  Priced' /\ OverrideResolves'
<1> DEFINE m == req[r]
           t == req[r].type
           i == req[r].id
<1>1. /\ m # None /\ m.stage = "commit" /\ m \in Request /\ t \in Types
      /\ now' = now /\ pin \in Pins /\ None \notin Ids
  BY CommitSteps, RequestFacts, AxesOf, TimelineAssumption DEF TypeInv, TypeOK, Commit
<1>2. ASSUME NEW u \in Types, u # t
      PROVE  /\ Due(version', u, now') = Due(version, u, now)
             /\ pin'[u] = pin[u]
  BY <1>1, <1>2, CommitLeavesAxis, SameAxisFacts
<1>3. Checked(r)
  BY DEF CheckInv
<1>4. CASE m.op \in {"cancel", "delete"}
  <2>1. i \in Stored(version) /\ version[i].type = t
    BY <1>1, <1>4, CommitPuts DEF TypeInv, Fits
  <2>2. pin' = UnpinnedFrom(i)
    BY <1>4 DEF Commit, InCommit, WriteCancel, WriteDelete
  <2>3. pin'[t] = IF pin[t] = i THEN None ELSE pin[t]
    BY <1>1, <2>2 DEF UnpinnedFrom
  <2>4. Due(version, t, now) \ {i} \subseteq Due(version', t, now')
    BY <1>1, CommitKeepsDue
  <2>5. Due(version, t, now) \ {i} # {}
    <3>1. CASE version[i].status = "APPROVED"
      BY <1>1, <1>3, <1>4, <2>1, <3>1 DEF Checked, Spared
    <3>2. CASE version[i].status # "APPROVED"
      BY <1>1, <3>2 DEF CheckInv, Priced, Due, Approved
    <3> QED
      BY <3>1, <3>2
  <2>6. pin'[t] # None => pin'[t] \in Due(version', t, now')
    BY <1>1, <2>3, <2>4 DEF CheckInv, OverrideResolves
  <2> QED
    BY <1>2, <2>4, <2>5, <2>6 DEF CheckInv, Priced, OverrideResolves
<1>5. CASE m.op \notin {"cancel", "delete"}
  <2>1. Due(version, t, now) \subseteq Due(version', t, now')
    BY <1>1, <1>5, CommitKeepsDue
  <2>2. pin'[t] \in {pin[t], None} \/ (m.op = "pin" /\ pin'[t] = i)
    <3>1. CASE m.op \in {"create", "clone"}
      <4>1. \E from : Insert(m, from)
        BY <3>1 DEF Commit, InCommit
      <4> QED
        BY <4>1 DEF Insert
    <3>2. CASE m.op \in {"update", "replace", "label"}
      BY <3>2 DEF Commit, InCommit, WriteRows, WriteLabel
    <3>3. CASE m.op \in {"approve", "unpin"}
      BY <1>1, <3>3 DEF Commit, InCommit, WriteApproval, WriteUnpin, Unpinned, Pins
    <3>4. CASE m.op = "pin"
      BY <1>1, <3>4 DEF Commit, InCommit, WritePin, Pins
    <3>5. m.op \in Ops
      BY <1>1 DEF Request
    <3> QED
      BY <1>5, <3>1, <3>2, <3>3, <3>4, <3>5 DEF Ops
  <2>3. m.op = "pin" => i \in Due(version, t, now)
    BY <1>1, <1>3 DEF Checked
  <2>4. pin'[t] # None => pin'[t] \in Due(version', t, now')
    BY <1>1, <2>1, <2>2, <2>3 DEF CheckInv, OverrideResolves
  <2> QED
    BY <1>1, <1>2, <2>1, <2>4 DEF CheckInv, Priced, OverrideResolves
<1> QED
  BY <1>4, <1>5

\* Every step keeps what was checked inside a transaction true until its commit.
LEMMA CheckInvStep == TypeInv /\ MutexInv /\ CheckInv /\ [Next]_vars => CheckInv'
<1> SUFFICES ASSUME TypeInv, MutexInv, CheckInv, [Next]_vars
             PROVE  CheckInv'
  OBVIOUS
<1>1. /\ req \in [Requests -> Request \cup {None}] /\ version \in Table
      /\ now \in Nat /\ now <= now
  BY NowIsNat DEF TypeInv, TypeOK
<1>2. ASSUME UNCHANGED <<now, version, pin>>
      PROVE  Priced' /\ OverrideResolves'
  BY <1>2 DEF CheckInv, Priced, OverrideResolves
<1>3. ASSUME UNCHANGED <<version, pin>>, now' \in Nat, now <= now',
             NEW r \in Requests, req'[r] = req[r]
      PROVE  Checked(r)'
  <2>1. \A t : SameAxis(version, version', t)
    BY <1>3 DEF SameAxis
  <2>2. CASE req[r] = None
    BY <1>3, <2>2 DEF Checked
  <2>3. CASE req[r] # None
    BY <1>1, <1>3, <2>1, <2>3, CheckedKept DEF CheckInv
  <2> QED
    BY <2>2, <2>3
<1>4. ASSUME NEW r \in Requests, NEW m, req' = [req EXCEPT ![r] = m],
             m = None \/ m.stage # "commit", UNCHANGED <<now, version, pin>>
      PROVE  CheckInv'
  <2>1. req'[r] = m /\ \A q \in Requests \ {r} : req'[q] = req[q]
    BY <1>1, <1>4
  <2>2. Checked(r)'
    BY <1>4, <2>1 DEF Checked
  <2>3. \A q \in Requests \ {r} : Checked(q)'
    BY <1>1, <1>3, <1>4, <2>1
  <2> QED
    BY <1>2, <1>4, <2>2, <2>3 DEF CheckInv
<1>5. ASSUME NEW r \in Requests, Begin(r)
      PROVE  CheckInv'
  <2>1. PICK a \in Request : Fresh(a) /\ Queue(r, a)
    BY <1>5, BeginSteps
  <2> QED
    BY <1>4, <2>1 DEF Fresh, Queue
<1>6. ASSUME NEW r \in Requests, AcquireLock(r)
      PROVE  CheckInv'
  <2> DEFINE s == IF req[r].stage = "lock" /\ req[r].op = "delete" /\ req[r].type = Preco
                  THEN "inner" ELSE "tx"
             m == [req[r] EXCEPT !.stage = s]
  <2>1. req[r] \in Request
    BY <1>1, <1>6 DEF AcquireLock, Waits
  <2>2. req' = [req EXCEPT ![r] = m] /\ UNCHANGED <<now, version, pin>>
    BY <1>1, <1>6 DEF AcquireLock
  <2>3. m.stage # "commit"
    BY <2>1 DEF Request
  <2> HIDE DEF m
  <2> QED
    BY <1>4, <2>2, <2>3
<1>7. ASSUME NEW r \in Requests, Busy(r) \/ Refuse(r) \/ Fail(r)
      PROVE  CheckInv'
  BY <1>4, <1>7 DEF Busy, Refuse, Fail
<1>8. ASSUME NEW r \in Requests, Check(r)
      PROVE  CheckInv'
  <2>1. UNCHANGED <<now, version, pin>>
    BY <1>8, CheckSteps
  <2>2. \E m \in Request : req' = [req EXCEPT ![r] = m]
    BY <1>8, CheckSteps
  <2>3. \A q \in Requests \ {r} : req'[q] = req[q]
    BY <1>1, <2>2
  <2>4. \A q \in Requests : Checked(q)'
    BY <1>1, <1>3, <1>8, <2>1, <2>3, CheckEstablishes
  <2> QED
    BY <1>2, <2>1, <2>4 DEF CheckInv
<1>9. ASSUME NEW r \in Requests, Commit(r)
      PROVE  CheckInv'
  <2>1. req'[r] = None
    BY <1>1, <1>9 DEF Commit
  <2>2. Checked(r)'
    BY <2>1 DEF Checked
  <2> QED
    BY <1>9, <2>2, CommitKeepsChecked, CommitKeepsPriced DEF CheckInv
<1>10. CASE Restart
  BY <1>2, <1>10 DEF Restart, CheckInv, Checked
<1>11. ASSUME NEW d \in Docs, ReadStamp(d) \/ SaveDoc(d) \/ DeleteDoc(d)
       PROVE  CheckInv'
  <2>1. UNCHANGED <<now, version, pin, req>>
    BY <1>11 DEF ReadStamp, SaveDoc, DeleteDoc
  <2> QED
    BY <1>1, <1>2, <1>3, <2>1 DEF CheckInv
<1>12. CASE Tick
  <2>1. UNCHANGED <<version, pin, req>> /\ now' \in Nat /\ now <= now'
    BY <1>1, <1>12 DEF Tick
  <2>2. ASSUME NEW t \in Types
        PROVE  Due(version, t, now) \subseteq Due(version, t, now')
    <3>1. \A j \in Due(version, t, now) : version[j].from \in Int
      BY <1>1, TableFacts, TimelineAssumption DEF Due, Approved, OfType, Version, Times
    <3> QED
      BY <1>1, <2>1, <3>1 DEF Due
  <2>3. Priced' /\ OverrideResolves'
    BY <2>1, <2>2 DEF CheckInv, Priced, OverrideResolves
  <2> QED
    BY <1>3, <2>1, <2>3 DEF CheckInv
<1>13. CASE UNCHANGED vars
  BY <1>1, <1>2, <1>3, <1>13 DEF vars, CheckInv
<1> QED
  BY <1>5, <1>6, <1>7, <1>8, <1>9, <1>10, <1>11, <1>12, <1>13 DEF Next, Proceed, AwaitLock

-----------------------------------------------------------------------------
Inv == TypeInv /\ MutexInv /\ CheckInv

\* The inductive invariant holds in every reachable state.
THEOREM InvCorrect == Spec => []Inv
<1>1. Init => Inv
  BY TypeInvInit, MutexInvInit, CheckInvInit DEF Inv
<1>2. Inv /\ [Next]_vars => Inv'
  BY TypeInvStep, MutexInvStep, CheckInvStep DEF Inv
<1> QED
  BY <1>1, <1>2, PTL DEF Spec

(* AlwaysPriced: no sequence of operations, and no hour, leaves an axis       *)
(* without a version in force.                                               *)
THEOREM AlwaysPricedCorrect == Spec => []AlwaysPriced
<1>1. Inv => AlwaysPriced
  <2> SUFFICES ASSUME Inv, NEW t \in Types
               PROVE  Active(t) # None
    BY DEF AlwaysPriced
  <2>1. Active(t) \in Due(version, t, now)
    BY ResolveActiveIsDue DEF Active, Inv, TypeInv, TypeOK, CheckInv, Priced
  <2> QED
    BY <2>1, TimelineAssumption DEF Due, Approved, OfType, Stored
<1> QED
  BY <1>1, InvCorrect, PTL

(* OverrideResolves: a choice by hand is approved and due.                  *)
THEOREM OverrideResolvesCorrect == Spec => []OverrideResolves
<1>1. Inv => OverrideResolves
  BY DEF Inv, CheckInv
<1> QED
  BY <1>1, InvCorrect, PTL

-----------------------------------------------------------------------------
(* Only a commit touches the versions.                                      *)
LEMMA WhoseCommit ==
    ASSUME Inv, [Next]_vars, NEW i \in Stored(version), version'[i] # version[i]
    PROVE  \E r \in Requests :
               /\ Commit(r)
               /\ req[r].id = i
               /\ InCommit(r, {"update", "replace", "label", "approve", "cancel", "delete"})
               /\ req'[r] = None
<1>1. version' # version
  OBVIOUS
<1>2. PICK r \in Requests : Commit(r)
  <2>1. ASSUME NEW r \in Requests, Begin(r)
        PROVE  FALSE
    BY <1>1, <2>1, BeginSteps DEF Queue, Inv
  <2>2. ASSUME NEW r \in Requests, AwaitLock(r) \/ Check(r) \/ Refuse(r) \/ Fail(r)
        PROVE  FALSE
    BY <1>1, <2>2 DEF AwaitLock, AcquireLock, Busy, Check, Refuse, Fail
  <2>3. ASSUME NEW d \in Docs, ReadStamp(d) \/ SaveDoc(d) \/ DeleteDoc(d)
        PROVE  FALSE
    BY <1>1, <2>3 DEF ReadStamp, SaveDoc, DeleteDoc
  <2>4. ~(Restart \/ Tick \/ UNCHANGED vars)
    BY <1>1 DEF Restart, Tick, vars
  <2> QED
    BY <2>1, <2>2, <2>3, <2>4 DEF Next, Proceed
<1>3. /\ i = req[r].id
      /\ req[r].op \in {"update", "replace", "label", "approve", "cancel", "delete"}
  BY <1>2, CommitAt DEF Inv
<1>4. req'[r] = None
  BY <1>2 DEF Commit, Inv, TypeInv, TypeOK
<1>5. InCommit(r, {"update", "replace", "label", "approve", "cancel", "delete"})
  BY <1>2, <1>3, CommitSteps, CommitPuts DEF Inv, InCommit
<1> QED
  BY <1>2, <1>3, <1>4, <1>5

(* Rows are changed by an edit, which finds the status and the rows that it *)
(* has checked.                                                             *)
LEMMA WhoseEdit ==
    ASSUME Inv, [Next]_vars, NEW i \in Ids, RowsChange(i)
    PROVE  \E r \in Requests :
               /\ InCommit(r, {"update", "replace"})
               /\ req[r].id = i
               /\ req'[r] = None
               /\ MayEdit(r, i)
<1>1. i \in Stored(version) /\ version'[i] # Deleted /\ version'[i].rows # version[i].rows
  BY DEF RowsChange
<1>2. PICK r \in Requests :
          /\ Commit(r)
          /\ req[r].id = i
          /\ InCommit(r, {"update", "replace", "label", "approve", "cancel", "delete"})
          /\ req'[r] = None
  BY <1>1, WhoseCommit
<1>3. version \in Table /\ version[i] \in Version /\ req[r] # None /\ req[r].stage = "commit"
  BY <1>1, <1>2, TableFacts, CommitSteps DEF Inv, TypeInv, TypeOK
<1>4. req[r].op # "delete"
  <2> SUFFICES ASSUME req[r].op = "delete"
               PROVE  FALSE
    OBVIOUS
  <2>1. version' = [version EXCEPT ![i] = Deleted]
    BY <1>2 DEF Commit, InCommit, WriteDelete, Put
  <2> QED
    BY <1>1, <1>3, <2>1 DEF Table
<1>5. req[r].op \notin {"label", "approve", "cancel"}
  <2>1. ASSUME req[r].op = "label"
        PROVE  FALSE
    <3> DEFINE l == Override(version[i], req[r].label)
    <3>1. version' = [version EXCEPT ![i] = [version[i] EXCEPT !.label = l]]
      BY <1>2, <2>1 DEF Commit, InCommit, WriteLabel, Put
    <3>2. version'[i] = [version[i] EXCEPT !.label = l]
      BY <1>3, <3>1 DEF Table
    <3> HIDE DEF l
    <3> QED
      BY <1>1, <1>3, <3>2 DEF Version
  <2>2. ASSUME req[r].op = "approve"
        PROVE  FALSE
    <3> DEFINE f == ApprovedFrom(r)
    <3>1. version' = [version EXCEPT ![i] = [version[i] EXCEPT !.status = "APPROVED", !.from = f]]
      BY <1>2, <2>2 DEF Commit, InCommit, WriteApproval, Put
    <3>2. version'[i] = [version[i] EXCEPT !.status = "APPROVED", !.from = f]
      BY <1>3, <3>1 DEF Table
    <3> HIDE DEF f
    <3> QED
      BY <1>1, <1>3, <3>2 DEF Version
  <2>3. ASSUME req[r].op = "cancel"
        PROVE  FALSE
    <3>1. version' = [version EXCEPT ![i] = [version[i] EXCEPT !.status = "DRAFT"]]
      BY <1>2, <2>3 DEF Commit, InCommit, WriteCancel, Put
    <3>2. version'[i] = [version[i] EXCEPT !.status = "DRAFT"]
      BY <1>3, <3>1 DEF Table
    <3> QED
      BY <1>1, <1>3, <3>2 DEF Version
  <2> QED
    BY <2>1, <2>2, <2>3
<1>6. InCommit(r, {"update", "replace"})
  BY <1>2, <1>4, <1>5 DEF InCommit
<1>7. MayEdit(r, i)
  BY <1>2, <1>3, <1>6 DEF Inv, CheckInv, Checked, InCommit
<1> QED
  BY <1>2, <1>6, <1>7

(* PublishedFrozen: the rows of a published version change only by the       *)
(* explicit correction of published versions.                               *)
THEOREM PublishedFrozenCorrect == Spec => PublishedFrozen
<1> DEFINE A == \A i \in Ids :
                    RowsChange(i) /\ version[i].status = "APPROVED" => Ending({"replace"}, i) # {}
<1>1. Inv /\ [Next]_vars => A
  <2> SUFFICES ASSUME Inv, [Next]_vars, NEW i \in Ids, RowsChange(i),
                      version[i].status = "APPROVED"
               PROVE  Ending({"replace"}, i) # {}
    OBVIOUS
  <2>1. PICK r \in Requests :
            /\ InCommit(r, {"update", "replace"})
            /\ req[r].id = i
            /\ req'[r] = None
            /\ MayEdit(r, i)
    BY WhoseEdit
  <2>2. InCommit(r, {"replace"})
    BY <2>1 DEF InCommit, MayEdit
  <2> QED
    BY <2>1, <2>2 DEF Ending
<1> QED
  BY <1>1, InvCorrect, PTL DEF Spec, PublishedFrozen

(* EditsOnlySeen: an edit made from certain rows replaces those.            *)
THEOREM EditsOnlySeenCorrect == Spec => EditsOnlySeen
<1> DEFINE A == \A i \in Ids :
                    RowsChange(i) =>
                        \E r \in Ending({"update", "replace"}, i) :
                            req[r].sha \in {None, version[i].rows}
<1>1. Inv /\ [Next]_vars => A
  BY WhoseEdit DEF Ending, MayEdit, Matches
<1> QED
  BY <1>1, InvCorrect, PTL DEF Spec, EditsOnlySeen

(* PickedPrecoKept: no version of PRECO that one of studnie is exported with *)
(* is deleted.                                                              *)
THEOREM PickedPrecoKeptCorrect == Spec => PickedPrecoKept
<1> DEFINE A == \A i \in Stored(version) :
                    version'[i] = Deleted /\ version[i].type = Preco
                        => PrecoReferences(version, i) = {}
<1>1. Inv /\ [Next]_vars => A
  <2> SUFFICES ASSUME Inv, [Next]_vars, NEW i \in Stored(version),
                      version'[i] = Deleted, version[i].type = Preco
               PROVE  PrecoReferences(version, i) = {}
    OBVIOUS
  <2>1. version \in Table /\ version[i] \in Version /\ i \in Ids /\ Deleted \notin Version
    BY TableFacts, RowAssumption DEF Inv, TypeInv, TypeOK
  <2>2. PICK r \in Requests :
            /\ Commit(r)
            /\ req[r].id = i
            /\ InCommit(r, {"update", "replace", "label", "approve", "cancel", "delete"})
    BY <2>1, WhoseCommit
  <2>3. req[r] \in Request /\ req[r] # None /\ req[r].stage = "commit" /\ req[r].type = version[i].type
    BY <2>2, CommitSteps, RequestFacts DEF Inv, TypeInv, Fits, InCommit
  <2>4. req[r].op = "delete"
    <3>1. ASSUME req[r].op \in {"update", "replace"}
          PROVE  FALSE
      <4>1. version'[i] = [version[i] EXCEPT !.rows = req[r].rows]
        BY <2>1, <2>2, <3>1 DEF Commit, InCommit, WriteRows, Put, Table
      <4> QED
        BY <2>1, <2>3, <4>1 DEF Version, Request
    <3>2. ASSUME req[r].op = "label"
          PROVE  FALSE
      <4> DEFINE l == Override(version[i], req[r].label)
      <4>1. version'[i] = [version[i] EXCEPT !.label = l]
        BY <2>1, <2>2, <3>2 DEF Commit, InCommit, WriteLabel, Put, Table
      <4>2. l \in LabelSet \cup {None}
        BY <2>3 DEF Override, Request
      <4> HIDE DEF l
      <4> QED
        BY <2>1, <4>1, <4>2 DEF Version
    <3>3. ASSUME req[r].op = "approve"
          PROVE  FALSE
      <4> DEFINE f == ApprovedFrom(r)
      <4>1. version'[i] = [version[i] EXCEPT !.status = "APPROVED", !.from = f]
        BY <2>1, <2>2, <3>3 DEF Commit, InCommit, WriteApproval, Put, Table
      <4>2. f \in Times
        BY <2>1, <2>2, <2>3 DEF ApprovedFrom, Request, Version
      <4> HIDE DEF f
      <4> QED
        BY <2>1, <4>1, <4>2 DEF Version
    <3>4. ASSUME req[r].op = "cancel"
          PROVE  FALSE
      <4>1. version'[i] = [version[i] EXCEPT !.status = "DRAFT"]
        BY <2>1, <2>2, <3>4 DEF Commit, InCommit, WriteCancel, Put, Table
      <4> QED
        BY <2>1, <4>1 DEF Version
    <3> QED
      BY <2>2, <3>1, <3>2, <3>3, <3>4 DEF InCommit
  <2> QED
    BY <2>2, <2>3, <2>4 DEF Inv, CheckInv, Checked
<1> QED
  BY <1>1, InvCorrect, PTL DEF Spec, PickedPrecoKept

-----------------------------------------------------------------------------
\* A stamp names a version that there is or was.
StampsNameVersions ==
    \A d \in Docs : \A i \in {stamp[d], pending[d]} \cap Ids : version[i] # None

StampInv == StampsNameVersions /\ StampedInForce

\* Every step keeps stamps on published versions, but for a cancellation that raced.
LEMMA StampInvStep == Inv /\ StampInv /\ [Next]_vars => StampInv'
<1> SUFFICES ASSUME Inv, StampInv, [Next]_vars
             PROVE  StampInv'
  OBVIOUS
<1>1. /\ stamp \in [Docs -> Ids \cup {None, NoDoc}] /\ pending \in [Docs -> Ids \cup {None, NoDoc}]
      /\ version \in Table /\ now \in Nat /\ DocType \in [Docs -> Types] /\ NoDoc \notin Ids
  BY DocsAssumption, NowIsNat DEF Inv, TypeInv, TypeOK
<1> DEFINE Good(i, t) ==
        i \in Ids => version[i] # None /\ (i \in Stored(version) \ raced => i \in Due(version, t, now))
<1>2. \A d \in Docs : Good(stamp[d], DocType[d]) /\ Good(pending[d], DocType[d])
  BY DEF StampInv, StampsNameVersions, StampedInForce
<1>3. SUFFICES ASSUME NEW d \in Docs
               PROVE  Good(stamp[d], DocType[d])' /\ Good(pending[d], DocType[d])'
  BY DEF StampInv, StampsNameVersions, StampedInForce, Stored
<1> HIDE DEF Good
<1>4. ASSUME UNCHANGED <<now, version, raced, stamp, pending>>
      PROVE  Good(stamp[d], DocType[d])' /\ Good(pending[d], DocType[d])'
  BY <1>2, <1>4 DEF Good
<1>5. ASSUME NEW r \in Requests, Commit(r)
      PROVE  Good(stamp[d], DocType[d])' /\ Good(pending[d], DocType[d])'
  <2>1. UNCHANGED <<now, stamp, pending>> /\ AxesKept
    BY <1>5, CommitKeepsAxes DEF Commit, Inv
  <2>2. ASSUME NEW i, Good(i, DocType[d])
        PROVE  /\ i \in Ids => version'[i] # None
               /\ i \in Ids /\ i \in Stored(version') \ raced' => i \in Due(version', DocType[d], now')
    <3>1. i \in Ids => version'[i] # None
      BY <2>1, <2>2 DEF AxesKept, Good
    <3>2. SUFFICES ASSUME i \in Ids, i \in Stored(version') \ raced'
                   PROVE  i \in Due(version', DocType[d], now)
      BY <2>1, <3>1
    <3>3. i \in Stored(version) /\ i \notin raced
      BY <1>5, <2>1, <2>2, <3>2 DEF AxesKept, Good, Commit
    <3>4. i \in Due(version, DocType[d], now)
      BY <2>2, <3>2, <3>3 DEF Good
    <3>5. CASE DocType[d] # req[r].type
      BY <1>1, <1>5, <3>4, <3>5, CommitLeavesAxis, SameAxisFacts DEF Inv
    <3>6. CASE DocType[d] = req[r].type
      <4>1. ~ (req[r].op \in {"cancel", "delete"} /\ i = req[r].id)
        <5> SUFFICES ASSUME req[r].op \in {"cancel", "delete"}, i = req[r].id
                     PROVE  FALSE
          OBVIOUS
        <5>1. CASE req[r].op = "delete"
          <6>1. version'[i] = Deleted
            BY <1>1, <1>5, <3>2, <5>1 DEF Commit, InCommit, WriteDelete, Put, Table
          <6> QED
            BY <3>2, <6>1 DEF Stored
        <5>2. CASE req[r].op = "cancel"
          <6>1. InCommit(r, {"cancel"})
            BY <1>5, <5>2, <3>3 DEF Commit, InCommit
          <6>2. version[i].from > req[r].at
            BY <6>1 DEF Inv, CheckInv, Checked, InCommit
          <6>3. version[i].from <= now
            BY <3>4 DEF Due
          <6>4. req[r].at \in Int /\ version[i].from \in Int
            BY <1>1, <3>3, <6>1, TableFacts, RequestFacts, TimelineAssumption
               DEF InCommit, Inv, TypeInv, TypeOK, Version, Request, Times
          <6>5. CancelsLate(r)
            BY <6>1, <6>2, <6>3, <6>4 DEF CancelsLate
          <6> QED
            BY <1>5, <3>2, <6>5 DEF Commit
        <5> QED
          BY <5>1, <5>2
      <4> QED
        BY <1>5, <3>4, <3>6, <4>1, CommitKeepsDue DEF Inv
    <3> QED
      BY <3>5, <3>6
  <2> QED
    BY <1>2, <2>1, <2>2 DEF Good
<1>6. ASSUME NEW e \in Docs, ReadStamp(e) \/ SaveDoc(e) \/ DeleteDoc(e)
      PROVE  Good(stamp[d], DocType[d])' /\ Good(pending[d], DocType[d])'
  <2>1. UNCHANGED <<now, version, raced>>
    BY <1>6 DEF ReadStamp, SaveDoc, DeleteDoc
  <2>2. ASSUME ReadStamp(e)
        PROVE  Good(pending'[e], DocType[e])
    <3>1. PICK s \in Stamps(e) : pending' = [pending EXCEPT ![e] = s]
      BY <2>2 DEF ReadStamp
    <3>2. pending'[e] = s
      BY <1>1, <3>1
    <3>3. CASE s = Active(DocType[e])
      <4>1. s \in Due(version, DocType[e], now)
        BY <1>1, <3>3, ResolveActiveIsDue DEF Active, Inv, TypeInv, CheckInv, Priced
      <4> QED
        BY <3>2, <4>1 DEF Good, Due, Approved, OfType, Stored
    <3>4. CASE s # Active(DocType[e])
      <4>1. PICK f \in Docs : s = stamp[f] /\ DocType[f] = DocType[e]
        BY <3>4 DEF Stamps
      <4> QED
        BY <1>2, <3>2, <4>1
    <3> QED
      BY <3>3, <3>4
  <2>3. Good(NoDoc, DocType[e])
    BY <1>1 DEF Good
  <2>4. Good(stamp'[d], DocType[d]) /\ Good(pending'[d], DocType[d])
    BY <1>1, <1>2, <1>6, <2>2, <2>3 DEF ReadStamp, SaveDoc, DeleteDoc
  <2> QED
    BY <2>1, <2>4 DEF Good
<1>7. CASE Restart
  <2>1. UNCHANGED <<now, version, raced, stamp>> /\ pending'[d] = NoDoc
    BY <1>7 DEF Restart
  <2> QED
    BY <1>1, <1>2, <2>1 DEF Good
<1>8. CASE Tick
  <2>1. UNCHANGED <<version, raced, stamp, pending>> /\ now' \in Nat /\ now <= now'
    BY <1>1, <1>8 DEF Tick
  <2>2. Due(version, DocType[d], now) \subseteq Due(version, DocType[d], now')
    <3>1. \A j \in Due(version, DocType[d], now) : version[j].from \in Int
      BY <1>1, TableFacts, TimelineAssumption DEF Due, Approved, OfType, Version, Times
    <3> QED
      BY <1>1, <2>1, <3>1 DEF Due
  <2> QED
    BY <1>2, <2>1, <2>2 DEF Good
<1>9. ASSUME NEW r \in Requests,
             Begin(r) \/ AwaitLock(r) \/ Check(r) \/ Refuse(r) \/ Fail(r)
      PROVE  UNCHANGED <<now, version, raced, stamp, pending>>
  BY <1>9, BeginSteps, CheckSteps
     DEF Queue, AwaitLock, AcquireLock, Busy, Refuse, Fail, Inv
<1>10. CASE UNCHANGED vars
  BY <1>4, <1>10 DEF vars
<1> QED
  BY <1>4, <1>5, <1>6, <1>7, <1>8, <1>9, <1>10 DEF Next, Proceed

(* StampedInForce: what a document is stamped with stays in force, unless it *)
(* is deleted or its release was withdrawn at the hour of its entry.        *)
THEOREM StampedInForceCorrect == Spec => []StampedInForce
<1>1. Init => StampInv
  <2>1. NoDoc \notin Ids
    BY DocsAssumption
  <2> QED
    BY <2>1 DEF Init, StampInv, StampsNameVersions, StampedInForce, Stored
<1>2. StampInv => StampedInForce
  BY DEF StampInv
<1> QED
  BY <1>1, <1>2, StampInvStep, InvCorrect, PTL DEF Spec

-----------------------------------------------------------------------------
(* PriceList speaks of the versions as PricelistVersions does.              *)
LEMMA SameNotions ==
    /\ Promised!Stored(version) = Stored(version)
    /\ Promised!Times = Times
    /\ Promised!Baseline = Baseline
    /\ Promised!NoPins = NoPins
    /\ \A t : /\ Promised!Drafts(version, t) = Drafts(version, t)
              /\ Promised!Approved(version, t) = Approved(version, t)
              /\ \A at : Promised!Due(version, t, at) = Due(version, t, at)
              /\ Promised!NextSeq(version, t) = NextSeq(version, t)
    /\ \A i, l : Promised!LabelTaken(version, i, l) = LabelTaken(version, i, l)
    /\ \A i, f : Promised!InstantTaken(version, i, f) = InstantTaken(version, i, f)
    /\ \A i : Promised!PrecoReferences(version, i) = PrecoReferences(version, i)
    /\ \A t, n, f, rows : Promised!NewDraft(t, n, f, rows) = NewDraft(t, n, f, rows)
<1>1. Promised!Stored(version) = Stored(version) /\ Promised!Times = Times
  BY DEF Promised!Stored, Stored, Promised!Times, Times
<1>2. \A t, n, f, rows : Promised!NewDraft(t, n, f, rows) = NewDraft(t, n, f, rows)
  BY DEF Promised!NewDraft, NewDraft
<1>3. Promised!Baseline = Baseline /\ Promised!NoPins = NoPins
  BY DEF Promised!Baseline, Baseline, Promised!NoPins, NoPins, Promised!NewDraft, NewDraft
<1>4. \A t : Promised!OfType(version, t) = OfType(version, t)
  BY <1>1 DEF Promised!OfType, OfType
<1>5. \A t : /\ Promised!Drafts(version, t) = Drafts(version, t)
             /\ Promised!Approved(version, t) = Approved(version, t)
  BY <1>4 DEF Promised!Drafts, Drafts, Promised!Approved, Approved
<1>6. \A t, at : Promised!Due(version, t, at) = Due(version, t, at)
  BY <1>5 DEF Promised!Due, Due
<1>7. \A t : Promised!NextSeq(version, t) = NextSeq(version, t)
  <2>1. \A S : Promised!Max(S) = Max(S)
    BY DEF Promised!Max, Max
  <2>2. \A t : {version[i].seq : i \in Promised!OfType(version, t)}
                   = {version[i].seq : i \in OfType(version, t)}
    BY <1>4
  <2> QED
    BY <2>1, <2>2 DEF Promised!NextSeq, NextSeq
<1>8. \A i, l : Promised!LabelTaken(version, i, l) = LabelTaken(version, i, l)
  BY <1>4 DEF Promised!LabelTaken, LabelTaken, Promised!EffectiveLabel, EffectiveLabel
<1>9. \A i, f : Promised!InstantTaken(version, i, f) = InstantTaken(version, i, f)
  BY <1>5 DEF Promised!InstantTaken, InstantTaken
<1>10. \A i : Promised!PrecoReferences(version, i) = PrecoReferences(version, i)
  BY <1>4, <1>5 DEF Promised!PrecoReferences, PrecoReferences, Promised!PickedPreco, PickedPreco,
     Promised!Latest, Latest, Promised!Precedes, Precedes
<1> QED
  BY <1>1, <1>2, <1>3, <1>5, <1>6, <1>7, <1>8, <1>9, <1>10


(* The commit of an operation is one step of PriceList: what the code has    *)
(* checked apart from it, and before, is what that step asks for.            *)
LEMMA CommitImplements ==
    ASSUME Inv, NEW r \in Requests, Commit(r)
    PROVE  Promised!Next
<1> DEFINE m == req[r]
           i == req[r].id
<1>1. /\ m # None /\ m.stage = "commit" /\ m \in Request /\ m.type \in Types
      /\ now' = now /\ pin \in Pins /\ version \in Table
  BY CommitSteps, RequestFacts DEF Inv, TypeInv, TypeOK, Commit
<1>2. Fits(r) /\ Checked(r)
  BY DEF Inv, TypeInv, CheckInv
<1>3. m.op \notin {"create", "clone", "unpin"} =>
          /\ i \in Stored(version) /\ i \in Ids /\ i # None
          /\ version[i] \in Version /\ version[i].type = m.type
  <2>1. m.op \notin {"create", "clone", "unpin"} =>
            i \in Stored(version) /\ version[i].type = m.type
    BY <1>1, <1>2 DEF Fits, Checked
  <2> QED
    BY <1>1, <2>1, TableFacts, TimelineAssumption DEF Stored
<1>4. CASE m.op \in {"create", "clone"}
  <2>1. PICK from \in Times : Insert(m, from)
    BY <1>1, <1>2, <1>4 DEF Commit, InCommit, Request, Fits
  <2>2. PICK j \in Ids : /\ version[j] = None
                         /\ Put(j, NewDraft(m.type, m.seq, from, m.rows))
                         /\ pin' = pin
    BY <2>1 DEF Insert
  <2>3. Drafts(version, m.type) = {} /\ m.seq = NextSeq(version, m.type)
    BY <1>1, <1>2, <1>4 DEF Checked
  <2>4. Promised!Create(m.type, j, from, m.rows)
    BY <1>1, <2>2, <2>3, SameNotions DEF Promised!Create, Promised!Put, Put
  <2>5. m.rows \in Contents /\ Promised!Times = Times
    BY <1>1, SameNotions DEF Request
  <2> QED
    BY <1>1, <2>4, <2>5 DEF Promised!Next
<1>5. CASE m.op \in {"update", "replace"}
  <2>1. Promised!Edit(i, m.rows)
    BY <1>1, <1>5 DEF Commit, InCommit, WriteRows, Promised!Edit, Promised!Put, Put
  <2>2. m.rows \in Contents /\ i \in Promised!Stored(version)
    BY <1>1, <1>3, <1>5, SameNotions DEF Request
  <2> QED
    BY <2>1, <2>2 DEF Promised!Next
<1>6. CASE m.op = "label"
  <2> DEFINE l == Override(version[i], m.label)
  <2>1. Put(i, [version[i] EXCEPT !.label = l]) /\ pin' = pin
    BY <1>6 DEF Commit, InCommit, WriteLabel
  <2>2. l = None \/ ~LabelTaken(version, i, l)
    <3>1. l = None \/ l = m.label
      BY DEF Override
    <3>2. l = None \/ ~LabelTaken(version, i, m.label)
      BY <1>1, <1>2, <1>6 DEF Checked, MayRelabel
    <3> QED
      BY <3>1, <3>2
  <2>3. l \in Labels \cup {None}
    BY <1>1, <1>2 DEF Override, Fits
  <2> HIDE DEF l
  <2>4. Promised!Relabel(i, l)
    BY <1>1, <2>1, <2>2, SameNotions DEF Promised!Relabel, Promised!Put, Put
  <2> QED
    BY <1>3, <1>6, <2>3, <2>4, SameNotions DEF Promised!Next
<1>7. CASE m.op = "approve"
  <2> DEFINE f == ApprovedFrom(r)
  <2>1. /\ Put(i, [version[i] EXCEPT !.status = "APPROVED", !.from = f])
        /\ pin' = pin \/ pin' = Unpinned(m.type)
    BY <1>7 DEF Commit, InCommit, WriteApproval
  <2>2. version[i].status = "DRAFT" /\ ~InstantTaken(version, i, f)
    BY <1>1, <1>2, <1>7 DEF Checked, MayApprove
  <2>3. f \in Times
    BY <1>1, <1>3, <1>7 DEF ApprovedFrom, Request, Version
  <2> HIDE DEF f
  <2>4. i \in Drafts(version, version[i].type)
    BY <1>3, <1>7, <2>2 DEF Drafts, OfType
  <2>5. Promised!Publish(i, f)
    BY <1>1, <1>3, <1>7, <2>1, <2>2, <2>4, SameNotions
       DEF Promised!Publish, Promised!Put, Put, Unpinned
  <2> QED
    BY <1>3, <1>7, <2>3, <2>5, SameNotions DEF Promised!Next
<1>8. ASSUME m.op \in {"cancel", "delete"}, Spared(i)
      PROVE  pin' = pin /\ Promised!Dispensable(i)
  <2>1. pin' = UnpinnedFrom(i)
    BY <1>8 DEF Commit, InCommit, WriteCancel, WriteDelete
  <2>2. ASSUME NEW t \in Types
        PROVE  pin[t] # i
    <3>1. CASE t = m.type
      BY <1>3, <1>8, <3>1 DEF Spared
    <3>2. CASE t # m.type
      <4>1. pin[t] # None => version[pin[t]].type = t
        BY DEF Inv, CheckInv, OverrideResolves, Due, Approved, OfType
      <4> QED
        BY <1>3, <1>8, <3>2, <4>1
    <3> QED
      BY <3>1, <3>2
  <2>3. pin' = pin
    BY <1>1, <2>1, <2>2 DEF UnpinnedFrom, Pins
  <2>4. Promised!Due(version, version[i].type, now) = Due(version, version[i].type, now)
    BY SameNotions
  <2> QED
    BY <1>8, <2>3, <2>4 DEF Spared, Promised!Dispensable
<1>9. CASE m.op = "cancel"
  <2>1. /\ version[i].status = "APPROVED"
        /\ Drafts(version, version[i].type) = {}
        /\ Spared(i)
    BY <1>1, <1>2, <1>3, <1>9 DEF Checked
  <2>2. i \in Approved(version, version[i].type)
    BY <1>3, <1>9, <2>1 DEF Approved, OfType
  <2>3. Put(i, [version[i] EXCEPT !.status = "DRAFT"])
    BY <1>9 DEF Commit, InCommit, WriteCancel
  <2>4. pin' = pin /\ Promised!Dispensable(i)
    BY <1>8, <1>9, <2>1
  <2>5. Promised!Withdraw(i)
    BY <1>1, <2>1, <2>2, <2>3, <2>4, SameNotions DEF Promised!Withdraw, Promised!Put, Put
  <2> QED
    BY <1>3, <1>9, <2>5, SameNotions DEF Promised!Next
<1>10. CASE m.op = "delete"
  <2>1. /\ version[i].type = Preco => PrecoReferences(version, i) = {}
        /\ version[i].status = "APPROVED" => Spared(i)
    BY <1>1, <1>2, <1>3, <1>10 DEF Checked
  <2>2. Put(i, Deleted) /\ pin' = UnpinnedFrom(i)
    BY <1>10 DEF Commit, InCommit, WriteDelete
  <2>3. CASE version[i].status = "APPROVED"
    <3>1. pin' = pin /\ Promised!Dispensable(i)
      BY <1>8, <1>10, <2>1, <2>3
    <3>2. Promised!Remove(i)
      BY <1>1, <2>1, <2>2, <3>1, SameNotions DEF Promised!Remove, Promised!Put, Put
    <3> QED
      BY <1>3, <1>10, <3>2, SameNotions DEF Promised!Next
  <2>4. CASE version[i].status = "DRAFT"
    <3>1. ASSUME NEW t \in Types
          PROVE  pin[t] # i
      <4>1. pin[t] # None => version[pin[t]].status = "APPROVED"
        BY DEF Inv, CheckInv, OverrideResolves, Due, Approved
      <4> QED
        BY <1>3, <1>10, <2>4, <4>1
    <3>2. pin' = pin
      BY <1>1, <2>2, <3>1 DEF UnpinnedFrom, Pins
    <3>3. i \in Drafts(version, version[i].type)
      BY <1>3, <1>10, <2>4 DEF Drafts, OfType
    <3>4. Promised!Remove(i)
      BY <1>1, <2>1, <2>2, <3>2, <3>3, SameNotions DEF Promised!Remove, Promised!Put, Put
    <3> QED
      BY <1>3, <1>10, <3>4, SameNotions DEF Promised!Next
  <2> QED
    BY <1>3, <1>10, <2>3, <2>4 DEF Version
<1>11. CASE m.op = "pin"
  <2>1. i \in Due(version, version[i].type, now)
    BY <1>1, <1>2, <1>3, <1>11 DEF Checked
  <2>2. pin' = [pin EXCEPT ![version[i].type] = i] /\ version' = version
    BY <1>3, <1>11 DEF Commit, InCommit, WritePin
  <2>3. Promised!Pin(i)
    BY <1>1, <2>1, <2>2, SameNotions DEF Promised!Pin
  <2> QED
    BY <1>3, <1>11, <2>3, SameNotions DEF Promised!Next
<1>12. CASE m.op = "unpin"
  <2>1. Promised!Unpin(m.type)
    BY <1>1, <1>12 DEF Commit, InCommit, WriteUnpin, Unpinned, Promised!Unpin
  <2> QED
    BY <1>1, <2>1 DEF Promised!Next
<1> QED
  BY <1>1, <1>4, <1>5, <1>6, <1>7, <1>9, <1>10, <1>11, <1>12 DEF Request, Ops

(* Atomic: the operations, whose checks and writes are apart and have others *)
(* between them, implement those of PriceList, which take one step each.     *)
THEOREM AtomicCorrect == Spec => Atomic
<1>1. Init => Promised!Init
  BY SameNotions DEF Init, Promised!Init
<1>2. Inv /\ [Next]_vars => [Promised!Next]_<<version, pin, now>>
  <2> SUFFICES ASSUME Inv, [Next]_vars
               PROVE  Promised!Next \/ UNCHANGED <<version, pin, now>>
    OBVIOUS
  <2>1. CASE \E r \in Requests : Commit(r)
    BY <2>1, CommitImplements
  <2>2. CASE Tick
    BY <2>2 DEF Tick, Promised!Next, Promised!Advance
  <2>3. ASSUME NEW r \in Requests, Begin(r)
        PROVE  UNCHANGED <<version, pin, now>>
    BY <2>3, BeginSteps DEF Inv, Queue
  <2>4. ASSUME NEW r \in Requests, AwaitLock(r) \/ Check(r) \/ Refuse(r) \/ Fail(r)
        PROVE  UNCHANGED <<version, pin, now>>
    BY <2>4 DEF AwaitLock, AcquireLock, Busy, Check, Refuse, Fail
  <2>5. CASE (\E d \in Docs : ReadStamp(d) \/ SaveDoc(d) \/ DeleteDoc(d)) \/ Restart
    BY <2>5 DEF ReadStamp, SaveDoc, DeleteDoc, Restart
  <2>6. CASE UNCHANGED vars
    BY <2>6 DEF vars
  <2> QED
    BY <2>1, <2>2, <2>3, <2>4, <2>5, <2>6 DEF Next, Proceed
<1> QED
  BY <1>1, <1>2, InvCorrect, PTL DEF Spec, Atomic, Promised!Spec

=============================================================================
