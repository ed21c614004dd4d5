--------------------------- MODULE SingleClaims ---------------------------
(***************************************************************************)
(* Production orders one by one: saveProductionOrder in the browser, which *)
(* claims a number under an Idempotency-Key, keeps it in the list of the   *)
(* page and PUTs the whole list; POST /claim-production-number with its    *)
(* key; and the deletion that returns a number to the pool.                *)
(*                                                                         *)
(* A key is made of what the number is for (the element, or the order that *)
(* has none yet) and the owner of the numbers, so its retries are answered *)
(* alike.  A handler takes one step for each statement about the key, and  *)
(* one for claimProductionSeqs, which is a transaction.  The PUT and the   *)
(* DELETE are one step each (BulkGeneration splits them); versions, locks  *)
(* and rights are a refusal that may come at any time, and no order is     *)
(* accepted.  An answer is heard at once or not at all.                    *)
(***************************************************************************)
EXTENDS ProductionNumbers, IdempotencyKeys

CONSTANTS
    Owner,       \* whose numbers are claimed
    Elements,    \* elements of wells, each with one production order at most
    NoNumber,    \* the number '' of an order whose claim failed
    Absent,      \* not in the list of the page
    FormBody,    \* the body of the page's claims, always the same
    MaxAttempts, \* attempts per claim (fetchWithRetry429)
    MaxOrders,   \* bound: orders made for an element
    MaxSeq,      \* bound: no counter passes it
    MaxNet,      \* bound: claims at a time
    MaxWrites,   \* bound: saves and deletions at a time
    MaxFaults    \* bound: failures of the server, losses and reloads

ASSUME ClaimsAssumption ==
    /\ Owner \in Users
    /\ FormBody \in Bodies
    /\ Docs = Elements \X (1 .. MaxOrders)
    /\ Keys = Elements \cup Docs
    /\ Results = [owner : Users, year : Years, seq : 1 .. MaxSeq]
    /\ NoNumber \notin Number
    /\ Absent \notin Number \cup {NoNumber}
    /\ {MaxAttempts, MaxOrders, MaxSeq, MaxNet, MaxWrites} \subseteq Nat \ {0}
    /\ MaxFaults \in Nat

VARIABLES
    mem,     \* mem[d]: the number of order d in productionOrders of the page
    made,    \* made[e]: how many orders were made for element e
    page,    \* what saveProductionOrder or deleteProductionOrder waits for
    net,     \* claims that the server has not finished with
    out,     \* saves and deletions that the server has not finished with
    faults,  \* failures so far
    told,    \* history: told[k], answers given in this life of the key
    crossed  \* history: crossed[k], two executions met in this life of the key

vars   == <<tables, keys, mem, made, page, net, out, faults, told, crossed>>

-----------------------------------------------------------------------------
Idle == [phase |-> "idle", doc |-> Absent, attempt |-> 0]

Page == [phase : {"idle", "claiming", "putting", "deleting"},
         doc : Docs \cup {Absent}, attempt : 0 .. MaxAttempts]

(* same: the row of the key still has the createdAt that was read; stale:   *)
(* history, a row past its TTL was met, or one that went away, or the row   *)
(* of this claim was deleted by a request that had met the one before it.   *)
Claim == [id : 1 .. MaxNet, key : Keys, body : Bodies, awaited : BOOLEAN, age : Ages,
          pc : {"create", "find", "forget", "reclaim", "work", "complete"},
          same : BOOLEAN, stale : BOOLEAN, number : Number \cup {NoNumber}]

List == [Docs -> Number \cup {NoNumber, Absent}]

Write == [op : {"put", "delete"}, doc : Docs \cup {Absent}, list : List, awaited : BOOLEAN]

SavedRow == [userId : {Owner}, number : Number \cup {NoNumber}, accepted : {FALSE}]

TypeOK ==
    /\ recycled \in SUBSET Number
    /\ orders \in [Docs -> SavedRow \cup {NoRow}]
    /\ KeysTypeOK
    /\ mem \in List
    /\ made \in [Elements -> 0 .. MaxOrders]
    /\ page \in Page
    /\ net \in SUBSET Claim
    /\ out \in SUBSET Write
    /\ told \in [Keys -> SUBSET (Bodies \X Number)]
    /\ crossed \in [Keys -> BOOLEAN]

NoList == [d \in Docs |-> Absent]

Init ==
    /\ TablesInit
    /\ KeysLeft(Elements \X Bodies)
    /\ mem = NoList
    /\ made = [e \in Elements |-> 0]
    /\ page = Idle
    /\ net = {}
    /\ out = {}
    /\ faults = 0
    /\ told = [k \in Keys |-> {}]
    /\ crossed = [k \in Keys |-> FALSE]

-----------------------------------------------------------------------------
(* The page.                                                                *)

\* The orders of element e in the list (findPzForElement).
Mine(e) == {d \in Docs : d[1] = e /\ mem[d] # Absent}

\* An order that is not in the list yet is claimed for under its element.
KeyOf(d) == IF mem[d] = Absent THEN d[1] ELSE d

\* The claims n and one more, of a request that reads its clock now.
WithClaim(n, k, body, awaited) ==
    LET free == {i \in 1 .. MaxNet : \A m \in n : m.id # i}
        id   == CHOOSE i \in free : \A j \in free : i <= j
    IN  n \cup {[id |-> id, key |-> k, body |-> body, awaited |-> awaited, age |-> 0,
                 pc |-> "create", same |-> FALSE, stale |-> FALSE, number |-> NoNumber]}

Put(list) ==
    /\ page' = [phase |-> "putting", doc |-> Absent, attempt |-> 0]
    /\ out' = out \cup {[op |-> "put", doc |-> Absent, list |-> list, awaited |-> TRUE]}

(* saveProductionOrder for element e: a number is claimed unless its order  *)
(* has one, and the list is sent.                                           *)
Save(e) ==
    /\ page = Idle
    /\ Cardinality(out) < MaxWrites
    /\ \E d \in Docs :
        /\ d[1] = e
        /\ d \in Mine(e) \/ (Mine(e) = {} /\ d[2] = made[e] + 1)
        /\ \/ /\ mem[d] \in Number
              /\ Put(mem)
              /\ net' = net
           \/ /\ mem[d] \notin Number
              /\ Cardinality(net) < MaxNet
              /\ page' = [phase |-> "claiming", doc |-> d, attempt |-> 1]
              /\ net' = WithClaim(net, KeyOf(d), FormBody, TRUE)
              /\ out' = out
    /\ UNCHANGED <<tables, keys, mem, made, faults, told, crossed>>

(* The claim has come to its end: the order gets the number, or '' after    *)
(* any error, and the list is sent.                                         *)
Built(number) ==
    LET d == page.doc IN
    /\ mem' = [mem EXCEPT ![d] = number]
    /\ made' = [made EXCEPT ![d[1]] = IF d[2] > @ THEN d[2] ELSE @]
    /\ Put(mem')

\* The page, when claim m is answered, or fails.
Hears(m, number) ==
    IF m.awaited THEN Built(number) ELSE UNCHANGED <<mem, made, page, out>>

Cut(m) == [m EXCEPT !.awaited = FALSE]

(* No connection: the request never came, or goes on unheard.  The page     *)
(* tries again under the same key, three times at most.  A connection that  *)
(* breaks more than once in a claim counts as one fault.                    *)
LoseClaim(m) ==
    /\ m.awaited
    /\ \/ page.attempt = 1 /\ faults < MaxFaults /\ faults' = faults + 1
       \/ page.attempt > 1 /\ faults' = faults
    /\ \E rest \in {net \ {m}, (net \ {m}) \cup {Cut(m)}} :
        \/ /\ page.attempt < MaxAttempts
           /\ Cardinality(rest) < MaxNet
           /\ page' = [page EXCEPT !.attempt = @ + 1]
           /\ net' = WithClaim(rest, m.key, FormBody, TRUE)
           /\ UNCHANGED <<mem, made, out>>
        \/ /\ page.attempt = MaxAttempts
           /\ net' = rest
           /\ Built(NoNumber)
    /\ UNCHANGED <<tables, keys, told, crossed>>

DeleteProductionOrder(d) ==
    /\ page = Idle
    /\ mem[d] # Absent
    /\ Cardinality(out) < MaxWrites
    /\ page' = [phase |-> "deleting", doc |-> d, attempt |-> 0]
    /\ out' = out \cup {[op |-> "delete", doc |-> d, list |-> NoList, awaited |-> TRUE]}
    /\ UNCHANGED <<tables, keys, mem, made, net, faults, told, crossed>>

\* The page is loaded again: the list is what the server has.
Reload ==
    /\ faults < MaxFaults
    /\ faults' = faults + 1
    /\ page' = Idle
    /\ mem' = [d \in Docs |-> IF Live(d) THEN orders[d].number ELSE Absent]
    /\ net' = {Cut(m) : m \in net}
    /\ out' = {Cut(w) : w \in out}
    /\ UNCHANGED <<tables, keys, made, told, crossed>>

-----------------------------------------------------------------------------
(* POST /claim-production-number.                                           *)

Executing(k) == {m \in net : m.key = k /\ m.pc \in {"work", "complete"}}

GoOn(m, n) == net' = (net \ {m}) \cup {n}

\* The row of m.key is written anew: who read the old one sees that.
GoOnFresh(m, n) ==
    net' = {IF o.key = m.key THEN [o EXCEPT !.same = FALSE] ELSE o : o \in net \ {m}} \cup {n}

\* Claim o, when the row of k is deleted.
Bereft(o, k) ==
    IF o.key = k THEN [o EXCEPT !.same = FALSE, !.stale = @ \/ o \in Executing(k)] ELSE o

Crossing(m) == crossed' = [crossed EXCEPT ![m.key] = TRUE]

\* create of claimIdempotencyKey; P2002 when there is a row.
TryCreate(m) ==
    /\ m.pc = "create"
    /\ \/ /\ CreateKey(m.key, m.body, m.age)
          /\ GoOnFresh(m, [m EXCEPT !.pc = "work"])
          /\ told' = [told EXCEPT ![m.key] = {}]
          /\ crossed' = [crossed EXCEPT ![m.key] = Executing(m.key) # {}]
       \/ /\ keys[m.key] # NoKey
          /\ GoOn(m, [m EXCEPT !.pc = "find"])
          /\ UNCHANGED <<keys, told, crossed>>
    /\ UNCHANGED <<tables, mem, made, page, out, faults>>

\* findUnique and the decision; the one that does not forget the row cleans up.
Find(m) ==
    /\ m.pc = "find"
    /\ LET choice == Decision(keys[m.key], m.body) IN
       \/ /\ choice = "proceed"
          /\ GoOn(m, [m EXCEPT !.pc = "work", !.stale = TRUE])
          /\ Crossing(m)
          /\ UNCHANGED <<keys, told, mem, made, page, out>>
       \/ /\ choice = "forget"
          /\ GoOn(m, [m EXCEPT !.pc = "forget", !.stale = TRUE])
          /\ UNCHANGED <<keys, told, crossed, mem, made, page, out>>
       \/ /\ choice = "replay"
          /\ keys' \in {keys, Cleaned(keys, m.age)}
          /\ net' = net \ {m}
          /\ told' = [told EXCEPT ![m.key] = @ \cup {<<m.body, keys[m.key].result>>}]
          /\ Hears(m, keys[m.key].result)
          /\ crossed' = crossed
       \/ /\ choice \in {"reuse", "in-progress"}
          /\ keys' \in {keys, Cleaned(keys, m.age)}
          /\ net' = net \ {m}
          /\ Hears(m, NoNumber)
          /\ UNCHANGED <<told, crossed>>
       \/ /\ choice = "reclaim"
          /\ keys' \in {keys, Cleaned(keys, m.age)}
          /\ GoOn(m, [m EXCEPT !.pc = "reclaim", !.same = TRUE])
          /\ UNCHANGED <<told, crossed, mem, made, page, out>>
    /\ UNCHANGED <<tables, faults>>

(* A row past its TTL is deleted by its key, and the claim starts over.  The *)
(* row that goes may be a newer one, of a claim that executes.              *)
Forget(m) ==
    /\ m.pc = "forget"
    /\ ForgetKey(m.key)
    /\ net' = {Bereft(o, m.key) : o \in net \ {m}} \cup {[m EXCEPT !.pc = "create", !.age = 0]}
    /\ UNCHANGED <<tables, mem, made, page, out, faults, told, crossed>>

\* Faulty variant: the UPDATE finds any row that is PENDING.
StillThereAny(m) == Pending(m.key)

\* WHERE status = 'PENDING' AND createdAt = the one that was read.
StillThere(m) == Pending(m.key) /\ m.same

TakeOver(m) ==
    /\ m.pc = "reclaim"
    /\ \/ /\ StillThere(m)
          /\ ReclaimKey(m.key, m.body, m.age)
          /\ GoOnFresh(m, [m EXCEPT !.pc = "work"])
          /\ IF Executing(m.key) = {} THEN crossed' = crossed ELSE Crossing(m)
          /\ UNCHANGED <<mem, made, page, out>>
       \/ /\ ~StillThere(m)
          /\ net' = net \ {m}
          /\ Hears(m, NoNumber)
          /\ UNCHANGED <<keys, crossed>>
    /\ UNCHANGED <<tables, faults, told>>

Work(m) ==
    /\ m.pc = "work"
    /\ \E head \in lastNumber[Owner][year] .. MaxSeq :
        /\ ClaimProductionSeqs(Owner, 1, head)
        /\ \E n \in NumbersOf(Owner, ClaimedSeqs(Owner, 1, head)) :
              GoOn(m, [m EXCEPT !.pc = "complete", !.number = n])
    /\ UNCHANGED <<year, orders, keys, mem, made, page, out, faults, told, crossed>>

\* completeIdempotencyKey, and the answer.
Complete(m) ==
    /\ m.pc = "complete"
    /\ CompleteKey(m.key, m.number)
    /\ net' = net \ {m}
    /\ told' = [told EXCEPT ![m.key] = @ \cup {<<m.body, m.number>>}]
    /\ Hears(m, m.number)
    /\ UNCHANGED <<tables, faults, crossed>>

\* Faulty variant: the error is kept as the answer of the key.
FailClaimKept(m) ==
    /\ faults < MaxFaults
    /\ faults' = faults + 1
    /\ net' = net \ {m}
    /\ Hears(m, NoNumber)
    /\ CompleteKey(m.key, NoNumber)
    /\ UNCHANGED <<tables, told, crossed>>

\* An error of the database: 500, and the row stays as it is.
FailClaim(m) ==
    /\ faults < MaxFaults
    /\ faults' = faults + 1
    /\ net' = net \ {m}
    /\ Hears(m, NoNumber)
    /\ UNCHANGED <<tables, keys, told, crossed>>

Serve(m) == TryCreate(m) \/ Find(m) \/ Forget(m) \/ TakeOver(m) \/ Work(m) \/ Complete(m)

-----------------------------------------------------------------------------
(* PUT /production with the list of the page; DELETE /production/:id.       *)

Done(w, list) ==
    /\ out' = out \ {w}
    /\ IF w.awaited THEN page' = Idle /\ mem' = list ELSE UNCHANGED <<page, mem>>
    /\ UNCHANGED <<year, lastNumber, keys, made, net, faults, told, crossed>>

\* The rows when the list is written: what is not there is created.
Written(list) ==
    [d \in Docs |-> IF list[d] = Absent THEN orders[d]
                    ELSE [userId |-> Owner, number |-> list[d], accepted |-> FALSE]]

PutList(w) ==
    /\ w.op = "put"
    /\ UniqueOwnerNumber(Written(w.list))
    /\ orders' = Written(w.list)
    /\ Done(w, mem)
    /\ recycled' = recycled

DeleteOrder(w) ==
    /\ w.op = "delete"
    /\ IF Live(w.doc) /\ orders[w.doc].number # NoNumber
       THEN ReturnNumbers({ReturnedAs(orders[w.doc])})
       ELSE recycled' = recycled
    /\ RemoveOrders({w.doc})
    /\ Done(w, [mem EXCEPT ![w.doc] = Absent])

\* A number that is taken (P2002), a version, a lock, a right.
Refuse(w) ==
    /\ Done(w, mem)
    /\ UNCHANGED <<orders, recycled>>

\* No connection: the page gives up, the request never came or goes on.
LoseWrite(w) ==
    /\ w.awaited
    /\ faults < MaxFaults
    /\ faults' = faults + 1
    /\ page' = Idle
    /\ out' \in {out \ {w}, (out \ {w}) \cup {Cut(w)}}
    /\ UNCHANGED <<tables, keys, mem, made, net, told, crossed>>

-----------------------------------------------------------------------------
Tick ==
    /\ KeysAge
    /\ net' = {[m EXCEPT !.age = Older(@)] : m \in net}
    /\ UNCHANGED <<tables, mem, made, page, out, faults, told, crossed>>

Next ==
    \/ \E e \in Elements : Save(e)
    \/ \E d \in Docs : DeleteProductionOrder(d)
    \/ Reload
    \/ \E m \in net : Serve(m) \/ LoseClaim(m) \/ FailClaim(m)
    \/ \E w \in out : PutList(w) \/ DeleteOrder(w) \/ Refuse(w) \/ LoseWrite(w)
    \/ Tick

Spec == Init /\ [][Next]_vars

Handled(i) == \E m \in net : m.id = i /\ Serve(m)

Settled(op) == \E w \in out : w.op = op /\ (PutList(w) \/ DeleteOrder(w) \/ Refuse(w))

(* Time passes and the server finishes what it has begun.                   *)
FairSpec ==
    /\ Spec
    /\ WF_vars(Tick)
    /\ \A i \in 1 .. MaxNet : WF_vars(Handled(i))
    /\ \A op \in {"put", "delete"} : WF_vars(Settled(op))

-----------------------------------------------------------------------------
(* Properties.                                                              *)

\* The claims that begin to execute in this step.
Admitted == {m \in net' : m.pc = "work" /\ \A o \in net : o.id = m.id => o.pc # "work"}

(* Two executions of one key run at a time only when the first is older     *)
(* than PENDING_RECLAIM_MS, or one of them met a row past its TTL or lost    *)
(* its own to a request that had met one.                                   *)
OneExecution ==
    [][\A m \in Admitted, o \in net :
          o \in Executing(m.key) => o.age >= Reclaim \/ o.stale \/ m.stale]_vars

(* In one life of a key all its answers name one number, and all are given  *)
(* to one body, whatever was lost, failed or repeated; unless executions    *)
(* crossed.                                                                 *)
OneAnswerPerKey == \A k \in Keys : crossed[k] \/ Cardinality(told[k]) <= 1

(* Who keeps saving an order gets a number for it: no key is blocked for    *)
(* good by a request that failed, or by another one's.                      *)
Asks(e) == page.phase = "claiming" /\ page.doc[1] = e

GetsNumber ==
    \A e \in Elements : []<>Asks(e) => []<>(\E d \in Mine(e) : mem[d] \in Number)

(* D-008: a key stands for one intention, and a new one gets a number of    *)
(* its own: the pool does not hold what a page has just been given.         *)
GivenIsTaken ==
    [][page.phase = "claiming" /\ page'.phase = "putting"
           => \A d \in Docs : mem'[d] # mem[d] => mem'[d] \notin recycled']_vars
=============================================================================
