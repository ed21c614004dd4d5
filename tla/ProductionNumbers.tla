------------------------- MODULE ProductionNumbers -------------------------
(***************************************************************************)
(* The tables behind production numbers ("numery produkcyjne") and the     *)
(* database transactions that move a number between them.                  *)
(*                                                                         *)
(* A number is printed as symbol/letter/seq/yy.  The symbol and the letter *)
(* are functions of the user and of the year, so a number is a record      *)
(* [owner, year, seq].  It lives in one of three places: below the head of *)
(* production_order_counters (granted once), in recycled_production_numbers*)
(* (free to be granted again), or on a row of production_orders_rel.       *)
(*                                                                         *)
(* Each operator below is what ONE transaction of the server does to the   *)
(* tables.  claimProductionSeqs locks the recycled rows it reads (SELECT   *)
(* ... FOR UPDATE) and then the counter row (UPDATE), so it is atomic; the *)
(* PUT and the DELETE read before they write without a lock, so they are   *)
(* split in BulkGeneration into a read and a commit.                       *)
(***************************************************************************)
EXTENDS Integers, FiniteSets

CONSTANTS
    Users,        \* ids of users
    Admins,       \* users with role 'admin'
    Subs,         \* Subs[u]: subUsers of u when u has role 'pro', else {}
    StartNumber,  \* StartNumber[u]: users.productionOrderStartNumber
    Years,        \* calendar years, a set of consecutive integers
    Docs,         \* ids of production orders
    NoRow         \* no row with that id

ASSUME UsersAssumption ==
    /\ Admins \subseteq Users
    /\ Subs \in [Users -> SUBSET Users]
    /\ StartNumber \in [Users -> Nat \ {0}]

ASSUME YearsAssumption == Years \subseteq Nat

VARIABLES
    year,        \* the year of the server's clock
    lastNumber,  \* production_order_counters.lastNumber
    recycled,    \* rows of recycled_production_numbers
    orders       \* rows of production_orders_rel

tables == <<year, lastNumber, recycled, orders>>

Number == [owner : Users, year : Years, seq : Nat \ {0}]

OrderRow == [userId : Users, number : Number, accepted : BOOLEAN]

ASSUME NoRowAssumption == NoRow \notin OrderRow

TablesTypeOK ==
    /\ year \in Years
    /\ lastNumber \in [Users -> [Years -> Nat]]
    /\ recycled \in SUBSET Number
    /\ orders \in [Docs -> OrderRow \cup {NoRow}]

(* The counter row is inserted with startNum - 1 by the first claim of a   *)
(* year; a missing row and that value are the same thing to every reader.  *)
TablesInit ==
    /\ year \in Years
    /\ lastNumber = [u \in Users |-> [y \in Years |-> StartNumber[u] - 1]]
    /\ recycled = {}
    /\ orders = [d \in Docs |-> NoRow]

-----------------------------------------------------------------------------
Live(d) == orders[d] # NoRow

\* The production orders that carry number n.
Holders(n) == {d \in Docs : Live(d) /\ orders[d].number = n}

\* canWriteDoc, and canDeleteDoc and canClaimNumber, which are the same test.
CanWriteDoc(actor, owner) ==
    \/ actor \in Admins
    \/ actor = owner
    \/ owner \in Subs[actor]

\* The UNIQUE index on (userId, productionNumber), for a new content of orders.
UniqueOwnerNumber(rows) ==
    \A d, e \in Docs :
        /\ rows[d] # NoRow
        /\ rows[e] # NoRow
        /\ rows[d].userId = rows[e].userId
        /\ rows[d].number = rows[e].number
        => d = e

-----------------------------------------------------------------------------
(* Claiming.  The lowest recycled numbers of the user and year first, the   *)
(* rest from the counter: the loop raises lastNumber by what is still       *)
(* missing until it has enough numbers that were not among the recycled     *)
(* ones, so it stops at the first head that gives enough.                   *)

RecycledSeqs(u) == {n.seq : n \in {m \in recycled : m.owner = u /\ m.year = year}}

Lowest(S, k) == {s \in S : Cardinality({t \in S : t < s}) < k}

ReusedSeqs(u, k) == Lowest(RecycledSeqs(u), k)

\* Faulty variant: the range starts at the head instead of behind it.
FreshFromHead(u, k, head) == (lastNumber[u][year] .. head) \ ReusedSeqs(u, k)

FreshSeqs(u, k, head) == ((lastNumber[u][year] + 1) .. head) \ ReusedSeqs(u, k)

ClaimedSeqs(u, k, head) == ReusedSeqs(u, k) \cup FreshSeqs(u, k, head)

NumbersOf(u, seqs) == {[owner |-> u, year |-> year, seq |-> s] : s \in seqs}

\* Faulty variants: the recycled rows are read and not deleted; all of the
\* user's rows are deleted; the counter is read and not raised; it is raised
\* by one too little.
ClaimKeepsRecycled(u, k, head) ==
    /\ head \in lastNumber[u][year] .. (lastNumber[u][year] + k)
    /\ Cardinality(FreshSeqs(u, k, head)) = k - Cardinality(ReusedSeqs(u, k))
    /\ head = lastNumber[u][year] \/ head \in FreshSeqs(u, k, head)
    /\ lastNumber' = [lastNumber EXCEPT ![u][year] = head]
    /\ recycled' = recycled

ClaimDropsPool(u, k, head) ==
    /\ head \in lastNumber[u][year] .. (lastNumber[u][year] + k)
    /\ Cardinality(FreshSeqs(u, k, head)) = k - Cardinality(ReusedSeqs(u, k))
    /\ head = lastNumber[u][year] \/ head \in FreshSeqs(u, k, head)
    /\ lastNumber' = [lastNumber EXCEPT ![u][year] = head]
    /\ recycled' = {n \in recycled : n.owner # u \/ n.year # year}

ClaimKeepsHead(u, k, head) ==
    /\ head \in lastNumber[u][year] .. (lastNumber[u][year] + k)
    /\ Cardinality(FreshSeqs(u, k, head)) = k - Cardinality(ReusedSeqs(u, k))
    /\ head = lastNumber[u][year] \/ head \in FreshSeqs(u, k, head)
    /\ lastNumber' = lastNumber
    /\ recycled' = recycled \ NumbersOf(u, ReusedSeqs(u, k))

ClaimHeadShort(u, k, head) ==
    /\ head \in lastNumber[u][year] .. (lastNumber[u][year] + k)
    /\ Cardinality(FreshSeqs(u, k, head)) = k - Cardinality(ReusedSeqs(u, k))
    /\ head = lastNumber[u][year] \/ head \in FreshSeqs(u, k, head)
    /\ lastNumber' = [lastNumber EXCEPT ![u][year] = IF head > 0 THEN head - 1 ELSE 0]
    /\ recycled' = recycled \ NumbersOf(u, ReusedSeqs(u, k))

ClaimProductionSeqs(u, k, head) ==
    /\ head \in lastNumber[u][year] .. (lastNumber[u][year] + k)
    /\ Cardinality(FreshSeqs(u, k, head)) = k - Cardinality(ReusedSeqs(u, k))
    /\ head = lastNumber[u][year] \/ head \in FreshSeqs(u, k, head)
    /\ lastNumber' = [lastNumber EXCEPT ![u][year] = head]
    /\ recycled' = recycled \ NumbersOf(u, ReusedSeqs(u, k))

-----------------------------------------------------------------------------
(* Saving.  PUT /production writes a batch of orders that carry their       *)
(* numbers.  It creates the orders it did not find when it read the table   *)
(* and updates, with no version, the ones it found; a create that meets a   *)
(* row, an update that meets none and a number that its owner already has   *)
(* on another row each roll the whole batch back.                           *)

Saved(batch, uid, numberOf) ==
    [d \in Docs |->
        IF d \in batch
        THEN [userId |-> uid, number |-> numberOf[d], accepted |-> FALSE]
        ELSE orders[d]]

BatchFits(batch, found, uid, numberOf) ==
    /\ \A d \in batch : Live(d) <=> d \in found
    /\ UniqueOwnerNumber(Saved(batch, uid, numberOf))

(* PUT or POST of one stored order by a client that holds its version:      *)
(* a change of guardian (userId) needs the right to write for the old and   *)
(* for the new one, accepting or reopening changes the status.              *)
UpdateOrder(actor, d, userId, accepted) ==
    /\ Live(d)
    /\ CanWriteDoc(actor, orders[d].userId)
    /\ userId # orders[d].userId => CanWriteDoc(actor, userId)
    /\ LET rows == [orders EXCEPT ![d].userId = userId, ![d].accepted = accepted]
       IN  /\ UniqueOwnerNumber(rows)
           /\ orders' = rows

-----------------------------------------------------------------------------
(* Returning.  recycleProductionNumber and its bulk form take the sequence  *)
(* and the year out of the printed number and file them under the order's   *)
(* current owner; an INSERT that meets the same row does nothing.           *)

ReturnedAs(row) ==
    [owner |-> row.userId, year |-> row.number.year, seq |-> row.number.seq]

\* Faulty variants: the insert is lost; the rows stay.
ReturnLost(numbers) == numbers # {} /\ recycled' = recycled

RemoveNothing(docs) == docs \subseteq Docs /\ orders' = orders

ReturnNumbers(numbers) == recycled' = recycled \cup numbers

RemoveOrders(docs) ==
    orders' = [d \in Docs |-> IF d \in docs THEN NoRow ELSE orders[d]]
=============================================================================
