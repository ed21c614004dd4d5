-------------------------- MODULE BulkGeneration --------------------------
(***************************************************************************)
(* Production orders in bulk: the browser's executeBulkGeneration, the     *)
(* network between it and the server, and the users who meanwhile accept,  *)
(* reassign and delete orders.                                             *)
(*                                                                         *)
(* A run claims numbers in chunks, PUTs the orders in chunks and at the    *)
(* end returns, in slices, the numbers of the orders it believes unsaved.  *)
(* A request is a message: the server may take it up long after the client *)
(* stopped waiting for it, or never.  An answer is heard at once or not at *)
(* all: what the client does next depends on nothing but the answer, so an *)
(* answer that is late and still heard adds no behaviour.                  *)
(***************************************************************************)
EXTENDS ProductionNumbers

CONSTANTS
    Runs,         \* runs of executeBulkGeneration
    RunBy,        \* RunBy[r]: the user at the browser
    RunFor,       \* RunFor[r]: the user whose numbers are claimed
    Size,         \* Size[r]: the number of elements of the run
    ChunkSize,    \* _BULK_CHUNK, elements per request
    MaxAttempts,  \* MaxAttempts[r]: attempts per request (fetchWithRetry429)
    Lossy,        \* runs whose requests and answers may be lost, and tabs closed
    Deletes,      \* requests to delete orders
    DeleteBy,     \* DeleteBy[q]: the user who sends it
    DeleteKind,   \* DeleteKind[q]: "one" (DELETE /:id) or "batch" (/batch-delete)
    Editors,      \* users who accept, reopen and reassign orders
    NoNumber,     \* the number of a position that has none yet
    MaxSeq        \* bound: no counter passes it

ASSUME RunsAssumption ==
    /\ RunBy \in [Runs -> Users]
    /\ RunFor \in [Runs -> Users]
    /\ Size \in [Runs -> Nat]
    /\ ChunkSize \in Nat \ {0}
    /\ MaxAttempts \in [Runs -> Nat \ {0}]
    /\ Lossy \subseteq Runs
    /\ NoNumber \notin Number
    /\ MaxSeq \in Nat

ASSUME DeletesAssumption ==
    /\ DeleteBy \in [Deletes -> Users]
    /\ DeleteKind \in [Deletes -> {"one", "batch"}]
    /\ Editors \subseteq Users

\* The id of an order is made up by the client, one for each position of a run.
ASSUME DocsAssumption == Docs = UNION {{<<r, i>> : i \in 1 .. Size[r]} : r \in Runs}

VARIABLES
    run,        \* run[r]: how far run r has come
    claimed,    \* claimed[d]: the number the run holds for order d
    saved,      \* orders the runs were told are saved (savedIds)
    net,        \* requests of the runs that the server has not finished with
    del,        \* del[q]: how far delete request q has come
    owed,       \* history: owed[r], granted to r and neither saved nor returned
    misplaced   \* history: numbers saved, or returned, without being owed

clientVars == <<run, claimed, saved>>
history    == <<owed, misplaced>>
vars       == <<tables, clientVars, net, del, history>>

-----------------------------------------------------------------------------
Phases == {"claim", "put", "putting", "return", "returning", "done"}

RunState == [phase : Phases, start : Nat, attempt : Nat]

Request == [op : {"put", "recycle"}, run : Runs, start : Nat, attempt : Nat,
            read : BOOLEAN, found : SUBSET Docs]

DeleteState == [stage : {"new", "read", "checked", "done"},
                rows : [Docs -> OrderRow \cup {NoRow}]]

NoDocs == [d \in Docs |-> NoRow]

TypeOK ==
    /\ TablesTypeOK
    /\ run \in [Runs -> RunState]
    /\ claimed \in [Docs -> Number \cup {NoNumber}]
    /\ saved \in SUBSET Docs
    /\ net \in SUBSET Request
    /\ del \in [Deletes -> DeleteState]
    /\ owed \in [Runs -> SUBSET Number]
    /\ misplaced \in SUBSET Number

Begun == [phase |-> "claim", start |-> 0, attempt |-> 1]

NotAsked == [phase |-> "done", start |-> 0, attempt |-> 1]

\* Any of the runs and of the deletes are asked for, in any year.
Init ==
    /\ TablesInit
    /\ run \in [Runs -> {Begun, NotAsked}]
    /\ claimed = [d \in Docs |-> NoNumber]
    /\ saved = {}
    /\ net = {}
    /\ del \in [Deletes -> {[stage |-> s, rows |-> NoDocs] : s \in {"new", "done"}}]
    /\ owed = [r \in Runs |-> {}]
    /\ misplaced = {}

-----------------------------------------------------------------------------
(* The client.                                                              *)

DocsOf(r) == {d \in Docs : d[1] = r}

Chunk(r, start) == {d \in DocsOf(r) : start < d[2] /\ d[2] <= start + ChunkSize}

\* Phase 3: the numbers in hand whose order is not among the saved ones.
Unsaved(r, known) == {d \in DocsOf(r) : claimed[d] # NoNumber /\ d \notin known}

\* The numbers that are left to return from a place in their list on.
ToReturn(r, start) ==
    LET left == Unsaved(r, saved)
    IN  {d \in left : Cardinality({e \in left : e[2] < d[2]}) >= start}

\* The numbers that one request returns.
Slice(r, start) == ToReturn(r, start) \ ToReturn(r, start + ChunkSize)

Go(r, phase, start, attempt) ==
    run' = [run EXCEPT ![r] = [phase |-> phase, start |-> start, attempt |-> attempt]]

\* Faulty variant: the run ends without returning what it has not saved.
StopKeepsNumbers(r, known) == known \subseteq Docs /\ Go(r, "done", 0, 1)

\* Out of the PUT loop or before it: nothing to return, or the first slice.
StopWith(r, known) ==
    Go(r, IF Unsaved(r, known) = {} THEN "done" ELSE "return", 0, 1)

NextChunk(r, known) ==
    IF run[r].start + ChunkSize < Size[r]
    THEN Go(r, "put", run[r].start + ChunkSize, 1)
    ELSE StopWith(r, known)

\* A slice is best effort: whatever became of it, the next one follows.
NextSlice(r) ==
    IF ToReturn(r, run[r].start + ChunkSize) = {}
    THEN Go(r, "done", 0, 1)
    ELSE Go(r, "return", run[r].start + ChunkSize, 1)

Send(r, op) ==
    net' = net \cup {[op |-> op, run |-> r, start |-> run[r].start,
                      attempt |-> run'[r].attempt, read |-> FALSE, found |-> {}]}

(* One claim request, answered.  The key of the chunk makes its retries     *)
(* replay the first answer, so they are one grant.                          *)
ClaimChunk(r) ==
    LET u == RunFor[r]
        chunk == Chunk(r, run[r].start)
    IN  /\ run[r].phase = "claim"
        /\ CanWriteDoc(RunBy[r], u)
        /\ \E head \in lastNumber[u][year] .. MaxSeq :
            LET seqs == ClaimedSeqs(u, Cardinality(chunk), head)
            IN  /\ ClaimProductionSeqs(u, Cardinality(chunk), head)
                /\ owed' = [owed EXCEPT ![r] = @ \cup NumbersOf(u, seqs)]
                /\ \/ /\ \E give \in [chunk -> seqs] :
                           /\ \A d, e \in chunk : d[2] < e[2] => give[d] < give[e]
                           /\ claimed' = [d \in Docs |->
                                IF d \in chunk
                                THEN [owner |-> u, year |-> year, seq |-> give[d]]
                                ELSE claimed[d]]
                      /\ IF run[r].start + ChunkSize < Size[r]
                         THEN Go(r, "claim", run[r].start + ChunkSize, 1)
                         ELSE Go(r, "put", 0, 1)
                   \/ /\ r \in Lossy
                      /\ claimed' = claimed
                      /\ StopWith(r, saved)
    /\ UNCHANGED <<year, orders, saved, net, del, misplaced>>

(* The user cancels, or a claim is refused or fails before it takes effect. *)
Stop(r) ==
    /\ run[r].phase \in {"claim", "put"}
    /\ StopWith(r, saved)
    /\ UNCHANGED <<tables, claimed, saved, net, del, history>>

SendPut(r) ==
    /\ run[r].phase = "put"
    /\ Go(r, "putting", run[r].start, 1)
    /\ Send(r, "put")
    /\ UNCHANGED <<tables, claimed, saved, del, history>>

SendReturn(r) ==
    /\ run[r].phase = "return"
    /\ Go(r, "returning", run[r].start, 1)
    /\ Send(r, "recycle")
    /\ UNCHANGED <<tables, claimed, saved, del, history>>

\* The attempt failed in the network, or was answered 429, and there is one more.
Retry(r) ==
    /\ r \in Lossy
    /\ run[r].phase \in {"putting", "returning"}
    /\ run[r].attempt < MaxAttempts[r]
    /\ Go(r, run[r].phase, run[r].start, run[r].attempt + 1)
    /\ Send(r, IF run[r].phase = "putting" THEN "put" ELSE "recycle")
    /\ UNCHANGED <<tables, claimed, saved, del, history>>

\* No attempt is left: the chunk counts as unsaved, the slice as best effort.
GiveUp(r) ==
    /\ r \in Lossy
    /\ run[r].attempt = MaxAttempts[r]
    /\ \/ run[r].phase = "putting" /\ NextChunk(r, saved)
       \/ run[r].phase = "returning" /\ NextSlice(r)
    /\ UNCHANGED <<tables, claimed, saved, net, del, history>>

\* Cancelled while waiting to retry: no more chunks are sent, but the slices are.
Abort(r) ==
    /\ r \in Lossy
    /\ \/ run[r].phase = "putting" /\ StopWith(r, saved)
       \/ run[r].phase = "returning" /\ NextSlice(r)
    /\ UNCHANGED <<tables, claimed, saved, net, del, history>>

\* The tab is closed: nothing more is sent, what was claimed is forgotten.
CloseTab(r) ==
    /\ r \in Lossy
    /\ run[r].phase # "done"
    /\ Go(r, "done", 0, 1)
    /\ UNCHANGED <<tables, claimed, saved, net, del, history>>

-----------------------------------------------------------------------------
(* The server, on requests of runs.                                         *)

Awaits(m) ==
    /\ run[m.run].phase = IF m.op = "put" THEN "putting" ELSE "returning"
    /\ run[m.run].start = m.start
    /\ run[m.run].attempt = m.attempt

\* Faulty variant: the run goes on only when the answer is a success.
HearSuccess(m, ok) ==
    LET known == IF m.op = "put" THEN saved \cup Chunk(m.run, m.start) ELSE saved
    IN  IF Awaits(m) /\ ok
        THEN /\ saved' = known
             /\ IF m.op = "put" THEN NextChunk(m.run, known) ELSE NextSlice(m.run)
        ELSE UNCHANGED <<run, saved>>

\* The run hears the answer, when it still waits for this very attempt.
Hear(m, ok) ==
    LET known == IF m.op = "put" /\ ok THEN saved \cup Chunk(m.run, m.start) ELSE saved
    IN  IF Awaits(m)
        THEN /\ saved' = known
             /\ IF m.op = "put" THEN NextChunk(m.run, known) ELSE NextSlice(m.run)
        ELSE UNCHANGED <<run, saved>>

Answer(m, ok) ==
    /\ net' = net \ {m}
    /\ claimed' = claimed
    /\ \/ Hear(m, ok)
       \/ m.run \in Lossy /\ UNCHANGED <<run, saved>>

\* The transaction of a PUT begins: which orders exist, and may the user write them.
PutRead(m) ==
    /\ m.op = "put" /\ ~m.read
    /\ LET found == {d \in Chunk(m.run, m.start) : Live(d)}
       IN  /\ CanWriteDoc(RunBy[m.run], RunFor[m.run])
           /\ \A d \in found : CanWriteDoc(RunBy[m.run], orders[d].userId)
           /\ net' = (net \ {m}) \cup {[m EXCEPT !.read = TRUE, !.found = found]}
    /\ UNCHANGED <<tables, clientVars, del, history>>

\* It commits: the whole chunk is stored under the user whose numbers it carries.
PutCommit(m) ==
    LET chunk   == Chunk(m.run, m.start)
        uid     == RunFor[m.run]
        created == {claimed[d] : d \in chunk \ m.found}
    IN  /\ m.op = "put" /\ m.read
        /\ BatchFits(chunk, m.found, uid, claimed)
        /\ orders' = Saved(chunk, uid, claimed)
        /\ owed' = [owed EXCEPT ![m.run] = @ \ created]
        /\ misplaced' = misplaced \cup (created \ owed[m.run])
        /\ Answer(m, TRUE)
        /\ UNCHANGED <<year, lastNumber, recycled, del>>

\* P2002 or P2025: the whole chunk is rolled back, the client hears 409 or 404.
PutRollback(m) ==
    /\ m.op = "put" /\ m.read
    /\ ~BatchFits(Chunk(m.run, m.start), m.found, RunFor[m.run], claimed)
    /\ Answer(m, FALSE)
    /\ UNCHANGED <<tables, del, history>>

(* POST /recycle-numbers takes sequences and a user from the client and     *)
(* the year from its own clock.                                             *)
ReturnCommit(m) ==
    LET uid   == RunFor[m.run]
        seqs  == {claimed[d].seq : d \in Slice(m.run, m.start)}
        given == NumbersOf(uid, seqs)
    IN  /\ m.op = "recycle"
        /\ CanWriteDoc(RunBy[m.run], uid)
        /\ ReturnNumbers(given)
        /\ owed' = [owed EXCEPT ![m.run] = @ \ given]
        /\ misplaced' = misplaced \cup (given \ owed[m.run])
        /\ Answer(m, TRUE)
        /\ UNCHANGED <<year, lastNumber, orders, del>>

\* Any refusal before an effect: a limiter, 401, 403, 423, a time limit, 500.
Refuse(m) ==
    /\ m.op = "put" \/ m.run \in Lossy
    /\ Answer(m, FALSE)
    /\ UNCHANGED <<tables, del, history>>

Lose(m) ==
    /\ m.run \in Lossy
    /\ net' = net \ {m}
    /\ UNCHANGED <<tables, clientVars, del, history>>

-----------------------------------------------------------------------------
(* Deleting orders.  Both handlers read the orders, test them, read them    *)
(* again in a transaction that locks nothing, test them again, and then     *)
(* write; what they return comes from the FIRST read.                       *)

SetDelete(q, stage, rows) == del' = [del EXCEPT ![q] = [stage |-> stage, rows |-> rows]]

InHand(q) == {d \in Docs : del[q].rows[d] # NoRow}

\* Ids of orders that are not there are passed over.
DeleteRead(q) ==
    /\ del[q].stage = "new"
    /\ \E found \in SUBSET {d \in Docs : Live(d)} :
        LET open == {d \in found : ~orders[d].accepted}
        IN  /\ DeleteKind[q] = "one" => Cardinality(found) = 1
            /\ open # {}
            /\ \A d \in found : CanWriteDoc(DeleteBy[q], orders[d].userId)
            /\ SetDelete(q, "read", [d \in Docs |-> IF d \in open THEN orders[d] ELSE NoRow])
    /\ UNCHANGED <<tables, clientVars, net, history>>

(* The re-check in the transaction.  DELETE /:id goes on when the row has   *)
(* vanished meanwhile; the batch leaves out what vanished or was accepted.  *)
DeleteCheck(q) ==
    LET there == {d \in InHand(q) : Live(d)}
        keep  == IF DeleteKind[q] = "one"
                 THEN InHand(q)
                 ELSE {d \in there : ~orders[d].accepted}
    IN  /\ del[q].stage = "read"
        /\ \A d \in there : CanWriteDoc(DeleteBy[q], orders[d].userId)
        /\ DeleteKind[q] = "one" => \A d \in there : ~orders[d].accepted
        /\ SetDelete(q, "checked",
                     [d \in Docs |-> IF d \in keep THEN del[q].rows[d] ELSE NoRow])
        /\ UNCHANGED <<tables, clientVars, net, history>>

(* The write.  DELETE /:id of a user who is no admin removes the row only   *)
(* where it is that user's own; the number is returned either way.          *)
DeleteCommit(q) ==
    LET gone == {d \in InHand(q) :
                    /\ Live(d)
                    /\ \/ DeleteKind[q] = "batch"
                       \/ DeleteBy[q] \in Admins
                       \/ orders[d].userId = DeleteBy[q]}
        returned == {ReturnedAs(del[q].rows[d]) : d \in InHand(q)}
        freed    == {orders[d].number : d \in gone}
    IN  /\ del[q].stage = "checked"
        /\ RemoveOrders(gone)
        /\ ReturnNumbers(returned)
        /\ misplaced' = misplaced \cup (returned \ freed) \cup (freed \ returned)
        /\ SetDelete(q, "done", NoDocs)
        /\ UNCHANGED <<year, lastNumber, clientVars, net, owed>>

\* 403, 423 (another user edits the order) or a rollback: nothing happens.
DeleteRefused(q) ==
    /\ del[q].stage \in {"read", "checked"}
    /\ SetDelete(q, "done", NoDocs)
    /\ UNCHANGED <<tables, clientVars, net, history>>

-----------------------------------------------------------------------------
EditOrder(actor, d, userId, accepted) ==
    /\ UpdateOrder(actor, d, userId, accepted)
    /\ UNCHANGED <<year, lastNumber, recycled, clientVars, net, del, history>>

NewYear ==
    /\ year + 1 \in Years
    /\ year' = year + 1
    /\ UNCHANGED <<lastNumber, recycled, orders, clientVars, net, del, history>>

-----------------------------------------------------------------------------
Client(r) ==
    \/ ClaimChunk(r)
    \/ Stop(r)
    \/ SendPut(r)
    \/ SendReturn(r)
    \/ Retry(r)
    \/ GiveUp(r)
    \/ Abort(r)
    \/ CloseTab(r)

Serve(m) ==
    \/ PutRead(m)
    \/ PutCommit(m)
    \/ PutRollback(m)
    \/ ReturnCommit(m)
    \/ Refuse(m)
    \/ Lose(m)

Delete(q) ==
    \/ DeleteRead(q)
    \/ DeleteCheck(q)
    \/ DeleteCommit(q)
    \/ DeleteRefused(q)

Edit == \E actor \in Editors, d \in Docs, userId \in Users, accepted \in BOOLEAN :
            EditOrder(actor, d, userId, accepted)

Next ==
    \/ \E r \in Runs : Client(r)
    \/ \E m \in net : Serve(m)
    \/ \E q \in Deletes : Delete(q)
    \/ Edit
    \/ NewYear

Spec == Init /\ [][Next]_vars

(* The browser's loop goes on by itself, a fetch ends by an answer or by an *)
(* error, and the server finishes the requests it has.                      *)
Fairness ==
    /\ \A r \in Runs : WF_vars(Client(r))
    /\ WF_vars(\E m \in net : Serve(m))

FairSpec == Spec /\ Fairness

-----------------------------------------------------------------------------
(* Properties.  `misplaced` collects the numbers that somebody stored or    *)
(* returned although they were not his: a PUT taken up after its run gave   *)
(* up, a return sent twice, a DELETE that removed no row.  Every other      *)
(* number obeys the ledger below.                                           *)

\* A number free to be granted again is on no order and is owed to no run.
PoolIsFree ==
    \A n \in recycled \ misplaced :
        /\ Holders(n) = {}
        /\ \A r \in Runs : n \notin owed[r]

\* A return that is sent once more changes nothing: no number is granted twice.
GrantedOnce == \A r, q \in Runs : r # q => owed[r] \cap owed[q] = {}

\* A granted number is owed to one run only, and is on no order yet.
OwedOnce ==
    \A r \in Runs : \A n \in owed[r] \ misplaced :
        /\ Holders(n) = {}
        /\ \A q \in Runs \ {r} : n \notin owed[q]

\* No two orders carry the same number, whoever owns them.
OneHolder ==
    \A d, e \in Docs :
        /\ Live(d)
        /\ Live(e)
        /\ orders[d].number = orders[e].number
        /\ orders[d].number \notin misplaced
        => d = e

\* The counter has passed every number in use: it never grants one of them.
InUse ==
    recycled
    \cup (UNION {owed[r] : r \in Runs})
    \cup {orders[d].number : d \in {e \in Docs : Live(e)}}

CounterPassed == \A n \in InUse \ misplaced : n.seq <= lastNumber[n.owner][n.year]

-----------------------------------------------------------------------------
\* claimed = saved + recycled (+ still owed): no number below the head is lost.
NoGaps ==
    LET known == InUse \cup misplaced
    IN  \A u \in Users, y \in Years : \A s \in StartNumber[u] .. lastNumber[u][y] :
            [owner |-> u, year |-> y, seq |-> s] \in known

(* When a run that loses no message is over, no number of this year is owed *)
(* to it any more.  A run that claims before the year turns and returns     *)
(* after it returns numbers of the new year instead (ReturnCommit).         *)
AllSettled ==
    \A r \in Runs \ Lossy :
        run[r].phase = "done" => \A n \in owed[r] : n.year # year

\* Every run comes to its end.
RunsFinish == <>(\A r \in Runs : run[r].phase = "done")

\* An accepted order is not deleted.
AcceptedStays ==
    [][\A d \in Docs : Live(d) /\ orders[d].accepted => Live(d)']_vars
=============================================================================
