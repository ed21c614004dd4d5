------------------------ MODULE SingleClaimsProofs ------------------------
(***************************************************************************)
(* Proofs about SingleClaims, for every set of elements and of bodies, and *)
(* every bound on claims, attempts, orders, saves, failures and numbers.   *)
(***************************************************************************)
EXTENDS SingleClaims, FiniteSetTheorems, WellFoundedInduction, TLAPS

-----------------------------------------------------------------------------
(* The inductive invariant under the types.  No number passes the bound.    *)

Claims == [id : 1 .. MaxNet, key : Keys, body : Bodies, awaited : BOOLEAN, age : Ages,
           pc : {"create", "find", "forget", "reclaim", "work", "complete"},
           same : BOOLEAN, stale : BOOLEAN, number : Results \cup {NoNumber}]

Lists == [Docs -> Results \cup {NoNumber, Absent}]

Writes == [op : {"put", "delete"}, doc : Docs \cup {Absent}, list : Lists, awaited : BOOLEAN]

Rows == [userId : {Owner}, number : Results \cup {NoNumber}, accepted : {FALSE}]

TablesInv ==
    /\ year \in Years
    /\ lastNumber \in [Users -> [Years -> Nat]]
    /\ recycled \in SUBSET Results
    /\ orders \in [Docs -> Rows \cup {NoRow}]

PageType ==
    /\ mem \in Lists
    /\ made \in [Elements -> 0 .. MaxOrders]
    /\ page \in Page
    /\ out \in SUBSET Writes

HistoryType ==
    /\ told \in [Keys -> SUBSET (Bodies \X Results)]
    /\ crossed \in [Keys -> BOOLEAN]

TypeInv == TablesInv /\ KeysTypeOK /\ PageType /\ net \in SUBSET Claims /\ HistoryType

\* Claims have ids of their own, and the page waits for one at most.
Lone(n) == \A m, o \in n : m.id = o.id \/ (m.awaited /\ o.awaited) => m = o

NetInv ==
    /\ Lone(net)
    /\ \A m \in net : /\ m.awaited => page.phase = "claiming"
                      /\ m.pc = "complete" => m.number \in Results

OutInv ==
    /\ page.phase = "claiming" => page.doc \in Docs
    /\ \A w \in out : /\ w.awaited => page.phase \in {"putting", "deleting"}
                      /\ w.op = "delete" => w.doc \in Docs
    /\ \A w, v \in out : w.awaited /\ v.awaited => w = v

IndInv == TypeInv /\ NetInv /\ OutInv

-----------------------------------------------------------------------------
(* A finite set of integers that has an element has a least one: the        *)
(* elements below x are fewest when there are none.                         *)
LEMMA MinimumExists ==
    ASSUME NEW S, S \subseteq Int, IsFiniteSet(S), S # {}
    PROVE  \E x \in S : \A y \in S : x <= y
<1> DEFINE Below(x) == {y \in S : y < x}
           T == {Below(x) : x \in S}
<1>1. IsWellFoundedOn(StrictSubsetOrdering(S), FiniteSubsetsOf(S))
  BY FS_StrictSubsetOrderingWellFounded
<1>2. T \subseteq FiniteSubsetsOf(S)
  <2> SUFFICES ASSUME NEW x \in S
               PROVE  Below(x) \in FiniteSubsetsOf(S)
    OBVIOUS
  <2>1. Below(x) \in SUBSET S
    OBVIOUS
  <2> QED
    BY <2>1, FS_Subset DEF FiniteSubsetsOf
<1>3. PICK A \in T : \A B \in T : ~ (<<B, A>> \in StrictSubsetOrdering(S))
  <2>1. T # {}
    OBVIOUS
  <2> HIDE DEF T
  <2> QED
    BY <1>1, <1>2, <2>1, WFMin
<1>4. PICK x \in S : A = Below(x)
  OBVIOUS
<1>5. ASSUME NEW y \in S, y < x
      PROVE  FALSE
  <2>1. Below(y) \in T /\ Below(y) \in SUBSET S /\ Below(x) \in SUBSET S
    OBVIOUS
  <2>2. y \in Below(x) /\ y \notin Below(y) /\ \A z \in Below(y) : z \in Below(x)
    BY <1>5
  <2>3. <<Below(y), Below(x)>> \in StrictSubsetOrdering(S)
    BY <2>1, <2>2 DEF StrictSubsetOrdering
  <2> QED
    BY <1>3, <1>4, <2>1, <2>3
<1> QED
  BY <1>5

(* The bounds are positive, the ids are finitely many, and what is stored   *)
(* in a key or on an order is a number.                                     *)
LEMMA Bounds ==
    /\ MaxAttempts \in Nat \ {0}
    /\ MaxOrders \in Nat \ {0}
    /\ MaxSeq \in Nat \ {0}
    /\ MaxNet \in Nat \ {0}
    /\ IsFiniteSet(1 .. MaxNet) /\ Cardinality(1 .. MaxNet) = MaxNet
    /\ Results \subseteq Number
    /\ Reclaim \in Nat /\ Ttl \in Nat /\ Reclaim < Ttl
    /\ 0 \in Ages
<1>1. \A x \in {MaxAttempts, MaxOrders, MaxSeq, MaxNet, MaxWrites} : x \in Nat \ {0}
  BY ClaimsAssumption
<1>2. /\ MaxAttempts \in Nat \ {0}
      /\ MaxOrders \in Nat \ {0}
      /\ MaxSeq \in Nat \ {0}
      /\ MaxNet \in Nat \ {0}
  BY <1>1
<1>3. IsFiniteSet(1 .. MaxNet) /\ Cardinality(1 .. MaxNet) = MaxNet
  BY <1>2, FS_Interval
<1>4. Results \subseteq Number
  BY <1>2, ClaimsAssumption DEF Number
<1> QED
  BY <1>2, <1>3, <1>4, AgesAssumption DEF Ages

(* Claims with ids of their own are no more than there are ids.             *)
LEMMA NetIsFinite ==
    ASSUME NEW n \in SUBSET Claims, Lone(n)
    PROVE  IsFiniteSet(n)
<1> DEFINE f == [m \in n |-> m.id]
<1>1. f \in [n -> 1 .. MaxNet]
  BY DEF Claims
<1>2. \A m, o \in n : f[m] = f[o] => m = o
  BY DEF Lone
<1>3. f \in Injection(n, 1 .. MaxNet)
  <2> HIDE DEF f
  <2> QED
    BY <1>1, <1>2 DEF Injection, IsInjective
<1>4. IsFiniteSet(1 .. MaxNet)
  BY Bounds
<1> QED
  BY <1>3, <1>4, FS_Injection

(* Of fewer than MaxNet claims some id is free.                             *)
LEMMA FreeId ==
    ASSUME NEW n \in SUBSET Claims, Lone(n), Cardinality(n) < MaxNet
    PROVE  \E i \in 1 .. MaxNet : \A m \in n : m.id # i
<1> SUFFICES ASSUME \A i \in 1 .. MaxNet : \E m \in n : m.id = i
             PROVE  FALSE
  OBVIOUS
<1> DEFINE f == [m \in n |-> m.id]
<1>1. f \in [n -> 1 .. MaxNet]
  BY DEF Claims
<1>2. \A i \in 1 .. MaxNet : \E m \in n : f[m] = i
  OBVIOUS
<1>3. f \in Surjection(n, 1 .. MaxNet)
  <2> HIDE DEF f
  <2> QED
    BY <1>1, <1>2 DEF Surjection
<1>4. IsFiniteSet(n)
  BY NetIsFinite
<1>5. Cardinality(1 .. MaxNet) <= Cardinality(n)
  <2> HIDE DEF f
  <2> QED
    BY <1>3, <1>4, FS_Surjection
<1>6. Cardinality(1 .. MaxNet) = MaxNet
  BY Bounds
<1>7. Cardinality(n) \in Nat
  BY <1>4, FS_CardinalityType
<1> QED
  BY <1>5, <1>6, <1>7, Bounds

\* The claims n and one that the page waits for.
Asked(n, k) == WithClaim(n, k, FormBody, TRUE)

(* A new claim is told from the others by its id.                           *)
LEMMA NewClaim ==
    ASSUME NEW n \in SUBSET Claims, Lone(n), Cardinality(n) < MaxNet,
           NEW k \in Keys
    PROVE  \E c \in Claims :
              /\ Asked(n, k) = n \cup {c}
              /\ \A m \in n : m.id # c.id
              /\ c.key = k
              /\ c.pc = "create"
<1> DEFINE free == {i \in 1 .. MaxNet : \A m \in n : m.id # i}
           id   == CHOOSE i \in free : \A j \in free : i <= j
           c    == [id |-> id, key |-> k, body |-> FormBody, awaited |-> TRUE, age |-> 0,
                    pc |-> "create", same |-> FALSE, stale |-> FALSE, number |-> NoNumber]
<1>1. free \subseteq Int /\ free # {}
  BY FreeId
<1>2. \E i \in free : \A j \in free : i <= j
  <2>1. IsFiniteSet(1 .. MaxNet) /\ free \in SUBSET (1 .. MaxNet)
    BY Bounds
  <2> HIDE DEF free
  <2>2. IsFiniteSet(free)
    BY <2>1, FS_Subset
  <2> QED
    BY <1>1, <2>2, MinimumExists
<1>3. id \in free
  <2> HIDE DEF free
  <2> QED
    BY <1>2
<1>4. id \in 1 .. MaxNet /\ \A m \in n : m.id # id
  BY <1>3
<1>5. Asked(n, k) = n \cup {c}
  BY DEF Asked, WithClaim
<1> HIDE DEF id
<1>6. c \in Claims
  BY <1>4, AgesAssumption, ClaimsAssumption DEF Claims, Ages
<1> QED
  BY <1>4, <1>5, <1>6

-----------------------------------------------------------------------------
(* What a step does to the claims.                                          *)

\* Each claim goes on as f says, for the same request.
Goes(f) ==
    /\ f \in [net -> Claims]
    /\ net' = {f[o] : o \in net}
    /\ \A o \in net : /\ f[o].id = o.id
                      /\ f[o].key = o.key
                      /\ f[o].body = o.body
                      /\ f[o].awaited = o.awaited

\* Claim m goes on as n; the others do not move.
Keeps(f, m, n) ==
    /\ f[m] = n
    /\ \A o \in net : o # m =>
          /\ f[o].age = o.age
          /\ f[o].pc = o.pc
          /\ f[o].number = o.number
          /\ f[o].same => o.same
          /\ o.stale => f[o].stale

(* Claim m goes on, and no other one does.                                  *)
LEMMA GoOnMoves ==
    ASSUME net \in SUBSET Claims, NEW m \in net, NEW n \in Claims,
           n.id = m.id, n.key = m.key, n.body = m.body, n.awaited = m.awaited, GoOn(m, n)
    PROVE  \E f : /\ Goes(f)
                  /\ Keeps(f, m, n)
                  /\ \A o \in net : o # m => f[o] = o
<1> DEFINE f == [o \in net |-> IF o = m THEN n ELSE o]
<1>1. f \in [net -> Claims]
  OBVIOUS
<1>2. f[m] = n /\ \A o \in net : o # m => f[o] = o
  OBVIOUS
<1> HIDE DEF f
<1>3. net' = {f[o] : o \in net}
  BY <1>2 DEF GoOn
<1> QED
  BY <1>1, <1>2, <1>3 DEF Goes, Keeps

(* The row of claim m is written anew: the others that had read it see that. *)
LEMMA GoOnFreshMoves ==
    ASSUME net \in SUBSET Claims, NEW m \in net, NEW n \in Claims,
           n.id = m.id, n.key = m.key, n.body = m.body, n.awaited = m.awaited, GoOnFresh(m, n)
    PROVE  \E f : /\ Goes(f)
                  /\ Keeps(f, m, n)
                  /\ \A o \in net : o # m =>
                        /\ f[o].stale = o.stale
                        /\ IF o.key = m.key THEN ~ f[o].same ELSE f[o] = o
<1> DEFINE g(o) == IF o.key = m.key THEN [o EXCEPT !.same = FALSE] ELSE o
           f == [o \in net |-> IF o = m THEN n ELSE g(o)]
<1>1. ASSUME NEW o \in net
      PROVE  /\ g(o) \in Claims
             /\ g(o).id = o.id /\ g(o).key = o.key /\ g(o).body = o.body
             /\ g(o).awaited = o.awaited /\ g(o).age = o.age /\ g(o).pc = o.pc
             /\ g(o).number = o.number /\ g(o).stale = o.stale
             /\ IF o.key = m.key THEN ~ g(o).same ELSE g(o) = o
  <2>1. o \in Claims
    OBVIOUS
  <2> QED
    BY <2>1 DEF Claims
<1>2. net' = {g(o) : o \in net \ {m}} \cup {n}
  BY DEF GoOnFresh
<1> HIDE DEF g
<1>3. f \in [net -> Claims]
  BY <1>1
<1>4. f[m] = n /\ \A o \in net : o # m => f[o] = g(o)
  OBVIOUS
<1> HIDE DEF f
<1>5. net' = {f[o] : o \in net}
  BY <1>2, <1>4
<1> QED
  BY <1>1, <1>3, <1>4, <1>5 DEF Goes, Keeps

(* The row of claim m is deleted: those that had read it or execute see it.  *)
LEMMA ForgetMoves ==
    ASSUME net \in SUBSET Claims, NEW m \in net, Forget(m)
    PROVE  \E f : /\ Goes(f)
                  /\ Keeps(f, m, [m EXCEPT !.pc = "create", !.age = 0])
                  /\ \A o \in net : o # m =>
                        /\ o \in Executing(m.key) => f[o].stale
                        /\ IF o.key = m.key THEN ~ f[o].same ELSE f[o] = o
<1> DEFINE g(o) == Bereft(o, m.key)
           n == [m EXCEPT !.pc = "create", !.age = 0]
           f == [o \in net |-> IF o = m THEN n ELSE g(o)]
<1>1. ASSUME NEW o \in net
      PROVE  /\ g(o) \in Claims
             /\ g(o).id = o.id /\ g(o).key = o.key /\ g(o).body = o.body
             /\ g(o).awaited = o.awaited /\ g(o).age = o.age /\ g(o).pc = o.pc
             /\ g(o).number = o.number
             /\ o.stale => g(o).stale
             /\ o \in Executing(m.key) => g(o).stale
             /\ IF o.key = m.key THEN ~ g(o).same ELSE g(o) = o
  <2>1. o \in Claims /\ o.stale \in BOOLEAN
    BY DEF Claims
  <2>2. CASE o.key # m.key
    <3>1. g(o) = o /\ o \notin Executing(m.key)
      BY <2>2 DEF Bereft, Executing
    <3> QED
      BY <2>1, <2>2, <3>1
  <2>3. CASE o.key = m.key
    <3> DEFINE s == o.stale \/ o \in Executing(m.key)
    <3>1. g(o) = [o EXCEPT !.same = FALSE, !.stale = s]
      BY <2>3 DEF Bereft
    <3>2. s \in BOOLEAN /\ (o.stale => s) /\ (o \in Executing(m.key) => s)
      OBVIOUS
    <3> HIDE DEF s, g
    <3> QED
      BY <2>1, <2>3, <3>1, <3>2 DEF Claims
  <2> QED
    BY <2>2, <2>3
<1>2. net' = {g(o) : o \in net \ {m}} \cup {n}
  BY DEF Forget
<1>3. n \in Claims /\ n.id = m.id /\ n.key = m.key /\ n.body = m.body /\ n.awaited = m.awaited
  <2>1. m \in Claims
    OBVIOUS
  <2> QED
    BY <2>1, Bounds DEF Claims
<1> HIDE DEF g
<1>4. f \in [net -> Claims]
  BY <1>1, <1>3
<1>5. f[m] = n /\ \A o \in net : o # m => f[o] = g(o)
  OBVIOUS
<1> HIDE DEF f
<1>6. net' = {f[o] : o \in net}
  BY <1>2, <1>5
<1>7. n = [m EXCEPT !.pc = "create", !.age = 0]
  OBVIOUS
<1> HIDE DEF n
<1>8. Goes(f) /\ Keeps(f, m, n)
  BY <1>1, <1>3, <1>4, <1>5, <1>6 DEF Goes, Keeps
<1> QED
  BY <1>1, <1>5, <1>7, <1>8

(* Claims that go on stay apart from each other.                            *)
LEMMA GoesLone ==
    ASSUME NEW f, Goes(f), Lone(net)
    PROVE  net' \in SUBSET Claims /\ Lone(net')
<1>1. net' \in SUBSET Claims
  BY DEF Goes
<1>2. ASSUME NEW x \in net', NEW y \in net', x.id = y.id \/ (x.awaited /\ y.awaited)
      PROVE  x = y
  <2>1. PICK o \in net : x = f[o]
    BY DEF Goes
  <2>2. PICK p \in net : y = f[p]
    BY DEF Goes
  <2>3. o.id = p.id \/ (o.awaited /\ p.awaited)
    BY <1>2, <2>1, <2>2 DEF Goes
  <2>4. o = p
    BY <2>3 DEF Lone
  <2> QED
    BY <2>1, <2>2, <2>4
<1> QED
  BY <1>1, <1>2 DEF Lone

(* A claim that is added stays apart too.                                   *)
LEMMA MoreLone ==
    ASSUME NEW n \in SUBSET Claims, Lone(n), NEW c \in Claims,
           \A m \in n : m.id # c.id, \A m \in n : ~ m.awaited
    PROVE  n \cup {c} \in SUBSET Claims /\ Lone(n \cup {c})
  BY DEF Lone


-----------------------------------------------------------------------------
(* What a step does to the rows of the keys.                                *)

\* The row of key j stays, or it was past its TTL and is gone.
Swept(j) ==
    \/ keys'[j] = keys[j]
    \/ /\ keys[j] # NoKey
       /\ keys[j].age > Ttl
       /\ keys'[j] = NoKey

NewRow(body, age) == [body |-> body, result |-> NoResult, age |-> age]

(* cleanupExpired takes rows past their TTL only.                           *)
LEMMA CleanedFacts ==
    ASSUME KeysTypeOK, NEW a \in Ages, keys' \in {keys, Cleaned(keys, a)}
    PROVE  KeysTypeOK' /\ \A j \in Keys : Swept(j)
<1>1. ASSUME NEW j \in Keys, keys[j] # NoKey, keys[j].age - a > Ttl
      PROVE  keys[j].age > Ttl
  <2>1. keys[j] \in KeyRow
    BY <1>1 DEF KeysTypeOK
  <2>2. keys[j].age \in Int /\ a \in Int /\ a >= 0
    BY <2>1, Bounds DEF KeyRow, Ages
  <2> QED
    BY <1>1, <2>2, Bounds
<1>2. CASE keys' = keys
  BY <1>2 DEF KeysTypeOK, Swept
<1>3. CASE keys' = Cleaned(keys, a)
  <2>1. \A j \in Keys :
           keys'[j] = IF keys[j] # NoKey /\ keys[j].age - a > Ttl THEN NoKey ELSE keys[j]
    BY <1>3 DEF Cleaned
  <2>2. keys' \in [Keys -> KeyRow \cup {NoKey}]
    BY <1>3 DEF Cleaned, KeysTypeOK
  <2> QED
    BY <1>1, <2>1, <2>2 DEF KeysTypeOK, Swept
<1> QED
  BY <1>2, <1>3

(* A new row has the age of its request, and the sweep leaves it there.     *)
LEMMA CreateFacts ==
    ASSUME KeysTypeOK, NEW k \in Keys, NEW b \in Bodies, NEW a \in Ages, CreateKey(k, b, a)
    PROVE  /\ KeysTypeOK'
           /\ keys[k] = NoKey
           /\ keys'[k] = NewRow(b, a)
           /\ \A j \in Keys : j # k => Swept(j)
<1> DEFINE row == NewRow(b, a)
           rows == Claimed(k, b, a)
<1>1. row \in KeyRow /\ row # NoKey /\ row.age = a
  BY NoKeyAssumption DEF KeyRow, NewRow
<1>2. a - a = 0 /\ ~ (0 > Ttl)
  BY Bounds DEF Ages
<1>3. rows = [keys EXCEPT ![k] = row]
  BY DEF Claimed, NewRow
<1> HIDE DEF row, rows
<1>4. rows \in [Keys -> KeyRow \cup {NoKey}] /\ rows[k] = row /\ \A j \in Keys : j # k => rows[j] = keys[j]
  BY <1>1, <1>3 DEF KeysTypeOK
<1>5. keys[k] = NoKey /\ (keys' = rows \/ keys' = Cleaned(rows, a))
  BY DEF CreateKey, rows
<1>6. ASSUME NEW j \in Keys, keys[j] # NoKey, keys[j].age - a > Ttl
      PROVE  keys[j].age > Ttl
  <2>1. keys[j] \in KeyRow
    BY <1>6 DEF KeysTypeOK
  <2>2. keys[j].age \in Int /\ a \in Int /\ a >= 0
    BY <2>1, Bounds DEF KeyRow, Ages
  <2> QED
    BY <1>6, <2>2, Bounds
<1>7. CASE keys' = rows
  BY <1>4, <1>5, <1>7 DEF KeysTypeOK, Swept, row
<1>8. CASE keys' = Cleaned(rows, a)
  <2>1. \A j \in Keys :
           keys'[j] = IF rows[j] # NoKey /\ rows[j].age - a > Ttl THEN NoKey ELSE rows[j]
    BY <1>8 DEF Cleaned
  <2>2. keys' \in [Keys -> KeyRow \cup {NoKey}]
    BY <1>4, <1>8 DEF Cleaned
  <2>3. keys'[k] = row
    BY <1>1, <1>2, <1>4, <2>1
  <2>4. \A j \in Keys : j # k => Swept(j)
    BY <1>4, <1>6, <2>1 DEF Swept
  <2> QED
    BY <1>5, <2>2, <2>3, <2>4 DEF KeysTypeOK, row
<1> QED
  BY <1>5, <1>7, <1>8

\* A reclaim starts the pending row of a key anew, and no other row.
LEMMA ReclaimFacts ==
    ASSUME KeysTypeOK, NEW k \in Keys, NEW b \in Bodies, NEW a \in Ages, ReclaimKey(k, b, a)
    PROVE  /\ KeysTypeOK'
           /\ Pending(k)
           /\ keys'[k] = NewRow(b, a)
           /\ \A j \in Keys : j # k => keys'[j] = keys[j]
<1>1. NewRow(b, a) \in KeyRow
  BY DEF KeyRow, NewRow
<1>2. keys' = [keys EXCEPT ![k] = NewRow(b, a)] /\ Pending(k)
  BY DEF ReclaimKey, Claimed, NewRow
<1> QED
  BY <1>1, <1>2 DEF KeysTypeOK

\* deleteMany takes the row of a key, and no other row.
LEMMA ForgetFacts ==
    ASSUME KeysTypeOK, NEW k \in Keys, ForgetKey(k)
    PROVE  /\ KeysTypeOK'
           /\ keys'[k] = NoKey
           /\ \A j \in Keys : j # k => keys'[j] = keys[j]
  BY DEF ForgetKey, KeysTypeOK

(* Only a row that is PENDING takes an answer; its body and age stay.       *)
LEMMA CompleteFacts ==
    ASSUME KeysTypeOK, NEW k \in Keys, NEW r \in Results, CompleteKey(k, r)
    PROVE  /\ KeysTypeOK'
           /\ \A j \in Keys : j # k => keys'[j] = keys[j]
           /\ ~ Pending(k) => keys'[k] = keys[k]
           /\ Pending(k) => /\ keys'[k] # NoKey
                            /\ keys'[k].result = r
                            /\ keys'[k].body = keys[k].body
                            /\ keys'[k].age = keys[k].age
<1>1. CASE Pending(k)
  <2> DEFINE row == [keys[k] EXCEPT !.result = r]
  <2>1. keys[k] \in KeyRow
    BY <1>1 DEF KeysTypeOK, Pending
  <2>2. row \in KeyRow /\ row.result = r /\ row.body = keys[k].body /\ row.age = keys[k].age
    BY <2>1 DEF KeyRow
  <2>3. keys' = [keys EXCEPT ![k] = row]
    BY <1>1 DEF CompleteKey
  <2> HIDE DEF row
  <2>4. keys' \in [Keys -> KeyRow \cup {NoKey}] /\ keys'[k] = row /\ row # NoKey
        /\ \A j \in Keys : j # k => keys'[j] = keys[j]
    BY <2>2, <2>3, NoKeyAssumption DEF KeysTypeOK
  <2> QED
    BY <1>1, <2>2, <2>4 DEF KeysTypeOK
<1>2. CASE ~ Pending(k)
  BY <1>2 DEF CompleteKey, KeysTypeOK
<1> QED
  BY <1>1, <1>2

\* Ageing stays within the ages, and nothing gets younger.
LEMMA OlderFacts ==
    ASSUME NEW a \in Ages
    PROVE  Older(a) \in Ages /\ Older(a) >= a
  BY Bounds DEF Ages, Older

\* The clock makes every row older and leaves what it says.
LEMMA KeysAgeFacts ==
    ASSUME KeysTypeOK, KeysAge
    PROVE  /\ KeysTypeOK'
           /\ \A j \in Keys : IF keys[j] = NoKey THEN keys'[j] = NoKey
                              ELSE /\ keys'[j] # NoKey
                                   /\ keys'[j].result = keys[j].result
                                   /\ keys'[j].body = keys[j].body
                                   /\ keys'[j].age = Older(keys[j].age)
<1> DEFINE older(j) == [keys[j] EXCEPT !.age = Older(@)]
<1>1. ASSUME NEW j \in Keys, keys[j] # NoKey
      PROVE  /\ older(j) \in KeyRow
             /\ older(j) # NoKey
             /\ older(j).result = keys[j].result
             /\ older(j).body = keys[j].body
             /\ older(j).age = Older(keys[j].age)
  <2>1. keys[j] \in KeyRow
    BY <1>1 DEF KeysTypeOK
  <2>2. Older(keys[j].age) \in Ages
    BY <2>1, OlderFacts DEF KeyRow
  <2>3. /\ older(j) \in KeyRow
        /\ older(j).result = keys[j].result
        /\ older(j).body = keys[j].body
        /\ older(j).age = Older(keys[j].age)
    BY <2>1, <2>2 DEF KeyRow
  <2> QED
    BY <2>3, NoKeyAssumption
<1>2. keys' = [j \in Keys |-> IF keys[j] = NoKey THEN NoKey ELSE older(j)]
  BY DEF KeysAge
<1> HIDE DEF older
<1>3. \A j \in Keys : keys'[j] = IF keys[j] = NoKey THEN NoKey ELSE older(j)
  BY <1>2
<1>4. keys' \in [Keys -> KeyRow \cup {NoKey}]
  BY <1>1, <1>2
<1> QED
  BY <1>1, <1>3, <1>4 DEF KeysTypeOK


-----------------------------------------------------------------------------
(* The types, and who waits for whom.                                       *)

(* The page sends its list when it waits for nothing that was sent.         *)
LEMMA PutType ==
    ASSUME out \in SUBSET Writes, \A w \in out : ~ w.awaited,
           \A w \in out : w.op = "delete" => w.doc \in Docs,
           NEW list \in Lists, Put(list)
    PROVE  out' \in SUBSET Writes /\ page' \in Page /\ page'.phase = "putting" /\ OutInv'
<1> DEFINE w == [op |-> "put", doc |-> Absent, list |-> list, awaited |-> TRUE]
<1>1. w \in Writes /\ w.op = "put" /\ w.awaited
  BY DEF Writes
<1>2. out' = out \cup {w}
  BY DEF Put
<1>3. page' \in Page /\ page'.phase = "putting"
  BY Bounds DEF Put, Page
<1> HIDE DEF w
<1>4. out' \in SUBSET Writes /\ \A v \in out' : v.awaited => v = w
  BY <1>1, <1>2
<1>5. OutInv'
  BY <1>1, <1>2, <1>3, <1>4 DEF OutInv
<1> QED
  BY <1>3, <1>4, <1>5

(* The page builds the order it claimed for, and sends its list.            *)
LEMMA BuiltType ==
    ASSUME PageType, OutInv, page.phase = "claiming",
           NEW number \in Results \cup {NoNumber}, Built(number)
    PROVE  PageType' /\ OutInv' /\ page'.phase = "putting"
<1> DEFINE d == page.doc
           list == [mem EXCEPT ![d] = number]
           count == IF d[2] > made[d[1]] THEN d[2] ELSE made[d[1]]
<1>1. d \in Docs
  BY DEF OutInv
<1>2. d[1] \in Elements /\ d[2] \in 1 .. MaxOrders
  BY <1>1, ClaimsAssumption
<1>3. list \in Lists
  BY <1>1 DEF PageType, Lists
<1>4. count \in 0 .. MaxOrders
  BY <1>2, Bounds DEF PageType
<1>5. made' = [made EXCEPT ![d[1]] = count]
  BY DEF Built
<1>6. made' \in [Elements -> 0 .. MaxOrders]
  BY <1>2, <1>4, <1>5 DEF PageType
<1>7. mem' = list /\ Put(list)
  BY DEF Built
<1> HIDE DEF list
<1>8. out' \in SUBSET Writes /\ page' \in Page /\ page'.phase = "putting" /\ OutInv'
  BY <1>3, <1>7, PutType DEF PageType, OutInv
<1> QED
  BY <1>3, <1>6, <1>7, <1>8 DEF PageType

(* A step in which claims go on, and the page does not hear of it.          *)
LEMMA GoesInv ==
    ASSUME IndInv, NEW f, Goes(f), UNCHANGED <<mem, made, page, out>>,
           \A o \in net : f[o].pc = "complete" => f[o].number \in Results,
           TablesInv', KeysTypeOK', HistoryType'
    PROVE  IndInv'
<1>1. net' \in SUBSET Claims /\ Lone(net')
  BY GoesLone DEF IndInv, NetInv
<1>2. \A x \in net' : /\ x.awaited => page.phase = "claiming"
                      /\ x.pc = "complete" => x.number \in Results
  <2> SUFFICES ASSUME NEW x \in net'
               PROVE  /\ x.awaited => page.phase = "claiming"
                      /\ x.pc = "complete" => x.number \in Results
    OBVIOUS
  <2>1. PICK o \in net : x = f[o]
    BY DEF Goes
  <2> QED
    BY <2>1 DEF Goes, IndInv, NetInv
<1>3. NetInv'
  BY <1>1, <1>2 DEF NetInv, Lone
<1>4. PageType' /\ OutInv'
  BY DEF IndInv, TypeInv, PageType, OutInv
<1> QED
  BY <1>1, <1>3, <1>4 DEF IndInv, TypeInv

(* A step that ends claim m, and the page hears of it if it waits for m.    *)
LEMMA EndsInv ==
    ASSUME IndInv, NEW m \in net, net' = net \ {m},
           NEW number \in Results \cup {NoNumber}, Hears(m, number),
           TablesInv', KeysTypeOK', HistoryType'
    PROVE  IndInv'
<1>1. net' \in SUBSET Claims /\ Lone(net')
  BY DEF IndInv, NetInv, TypeInv, Lone
<1>2. \A x \in net' : x.pc = "complete" => x.number \in Results
  BY DEF IndInv, NetInv
<1>3. CASE m.awaited
  <2>1. page.phase = "claiming" /\ \A x \in net' : ~ x.awaited
    BY <1>3 DEF IndInv, NetInv, Lone
  <2>2. Built(number)
    BY <1>3 DEF Hears
  <2>3. PageType' /\ OutInv' /\ page'.phase = "putting"
    BY <2>1, <2>2, BuiltType DEF IndInv, TypeInv
  <2>4. NetInv'
    BY <1>1, <1>2, <2>1 DEF NetInv, Lone
  <2> QED
    BY <1>1, <2>3, <2>4 DEF IndInv, TypeInv
<1>4. CASE ~ m.awaited
  <2>1. UNCHANGED <<mem, made, page, out>>
    BY <1>4 DEF Hears
  <2>2. NetInv'
    BY <1>1, <1>2, <2>1 DEF IndInv, NetInv, Lone
  <2>3. PageType' /\ OutInv'
    BY <2>1 DEF IndInv, TypeInv, PageType, OutInv
  <2> QED
    BY <1>1, <2>2, <2>3 DEF IndInv, TypeInv
<1> QED
  BY <1>3, <1>4

(* The claim works: its number is in the pool or beyond the counter.        *)
LEMMA WorkTakes ==
    ASSUME TablesInv, NEW head \in lastNumber[Owner][year] .. MaxSeq,
           ClaimProductionSeqs(Owner, 1, head), UNCHANGED <<year, orders>>
    PROVE  TablesInv' /\ NumbersOf(Owner, ClaimedSeqs(Owner, 1, head)) \subseteq Results
<1>1. Owner \in Users /\ year \in Years /\ lastNumber[Owner][year] \in Nat
  BY ClaimsAssumption DEF TablesInv
<1>2. \A s \in ReusedSeqs(Owner, 1) : [owner |-> Owner, year |-> year, seq |-> s] \in Results
  <2> SUFFICES ASSUME NEW s \in ReusedSeqs(Owner, 1)
               PROVE  [owner |-> Owner, year |-> year, seq |-> s] \in Results
    OBVIOUS
  <2>1. s \in RecycledSeqs(Owner)
    BY DEF ReusedSeqs, Lowest
  <2>2. PICK n \in recycled : n.owner = Owner /\ n.year = year /\ n.seq = s
    BY <2>1 DEF RecycledSeqs
  <2>3. n \in Results /\ n = [owner |-> Owner, year |-> year, seq |-> s]
    BY <2>2, ClaimsAssumption DEF TablesInv
  <2> QED
    BY <2>3
<1>3. \A s \in FreshSeqs(Owner, 1, head) : s \in 1 .. MaxSeq
  <2> DEFINE last == lastNumber[Owner][year]
  <2>1. last \in Nat /\ head \in last .. MaxSeq
    BY <1>1
  <2>2. FreshSeqs(Owner, 1, head) \subseteq (last + 1) .. head
    BY DEF FreshSeqs
  <2> HIDE DEF last
  <2> QED
    BY <2>1, <2>2, Bounds
<1>4. NumbersOf(Owner, ClaimedSeqs(Owner, 1, head)) \subseteq Results
  BY <1>1, <1>2, <1>3, ClaimsAssumption DEF NumbersOf, ClaimedSeqs
<1>5. head \in Nat
  BY <1>1, Bounds
<1>6. lastNumber' = [lastNumber EXCEPT ![Owner][year] = head] /\ recycled' \subseteq recycled
  BY DEF ClaimProductionSeqs
<1>7. lastNumber' \in [Users -> [Years -> Nat]]
  BY <1>1, <1>5, <1>6 DEF TablesInv
<1> QED
  BY <1>4, <1>6, <1>7 DEF TablesInv


(* The rows stay when a step names them not.                                *)
LEMMA QuietTypes ==
    ASSUME TypeInv
    PROVE  /\ UNCHANGED tables => TablesInv'
           /\ UNCHANGED keys => KeysTypeOK'
           /\ UNCHANGED <<told, crossed>> => HistoryType'
  BY DEF TypeInv, tables, TablesInv, KeysTypeOK, HistoryType

\* The attempt to create the row of a key keeps the types.
LEMMA TryCreateInv ==
    ASSUME IndInv, NEW m \in net, TryCreate(m)
    PROVE  IndInv'
<1>1. m \in Claims /\ TypeInv
  BY DEF IndInv, TypeInv
<1>2. UNCHANGED <<mem, made, page, out>> /\ TablesInv'
  BY <1>1, QuietTypes DEF TryCreate
<1>3. CASE CreateKey(m.key, m.body, m.age) /\ GoOnFresh(m, [m EXCEPT !.pc = "work"])
           /\ told' = [told EXCEPT ![m.key] = {}]
           /\ crossed' = [crossed EXCEPT ![m.key] = Executing(m.key) # {}]
  <2> DEFINE n == [m EXCEPT !.pc = "work"]
  <2>1. n \in Claims /\ n.id = m.id /\ n.key = m.key /\ n.body = m.body
        /\ n.awaited = m.awaited /\ n.pc = "work"
    BY <1>1 DEF Claims
  <2>2. GoOnFresh(m, n)
    BY <1>3
  <2> HIDE DEF n
  <2>3. PICK f : Goes(f) /\ Keeps(f, m, n)
    BY <1>1, <2>1, <2>2, GoOnFreshMoves DEF TypeInv
  <2>4. \A o \in net : f[o].pc = "complete" => f[o].number \in Results
    BY <2>1, <2>3 DEF Keeps, IndInv, NetInv
  <2>5. KeysTypeOK'
    BY <1>1, <1>3, CreateFacts DEF Claims, TypeInv
  <2>6. HistoryType'
    BY <1>1, <1>3 DEF Claims, TypeInv, HistoryType
  <2> QED
    BY <1>2, <2>3, <2>4, <2>5, <2>6, GoesInv
<1>4. CASE GoOn(m, [m EXCEPT !.pc = "find"]) /\ UNCHANGED <<keys, told, crossed>>
  <2> DEFINE n == [m EXCEPT !.pc = "find"]
  <2>1. n \in Claims /\ n.id = m.id /\ n.key = m.key /\ n.body = m.body
        /\ n.awaited = m.awaited /\ n.pc = "find"
    BY <1>1 DEF Claims
  <2>2. GoOn(m, n)
    BY <1>4
  <2> HIDE DEF n
  <2>3. PICK f : Goes(f) /\ Keeps(f, m, n)
    BY <1>1, <2>1, <2>2, GoOnMoves DEF TypeInv
  <2>4. \A o \in net : f[o].pc = "complete" => f[o].number \in Results
    BY <2>1, <2>3 DEF Keeps, IndInv, NetInv
  <2> QED
    BY <1>1, <1>2, <1>4, <2>3, <2>4, GoesInv, QuietTypes
<1> QED
  BY <1>3, <1>4 DEF TryCreate

(* What a claim makes of the row it finds is one of six things.             *)
LEMMA DecisionFacts ==
    ASSUME NEW k \in Keys, NEW b \in Bodies, KeysTypeOK
    PROVE  /\ Decision(keys[k], b) = "replay" =>
                 /\ keys[k] \in KeyRow
                 /\ keys[k].body = b
                 /\ keys[k].result \in Results
           /\ Decision(keys[k], b) = "reclaim" =>
                 /\ keys[k] \in KeyRow
                 /\ Pending(k)
                 /\ keys[k].age >= Reclaim
<1> DEFINE row == keys[k]
<1>1. row = NoKey \/ row \in KeyRow
  BY DEF KeysTypeOK
<1>2. CASE row = NoKey
  <2>1. Decision(row, b) = "proceed"
    BY <1>2 DEF Decision
  <2> QED
    BY <2>1
<1>3. CASE row # NoKey /\ Stale(row)
  <2>1. Decision(row, b) = "forget"
    BY <1>3 DEF Decision
  <2> QED
    BY <2>1
<1>4. CASE row # NoKey /\ ~ Stale(row) /\ row.body # b
  <2>1. Decision(row, b) = "reuse"
    BY <1>4 DEF Decision
  <2> QED
    BY <2>1
<1>5. CASE row # NoKey /\ ~ Stale(row) /\ row.body = b
  <2>1. row \in KeyRow
    BY <1>1, <1>5
  <2>2. row.result \in Results \cup {NoResult} /\ row.age \in Int /\ Reclaim \in Int
    BY <2>1, Bounds DEF KeyRow, Ages
  <2>3. Decision(row, b) = CASE row.result # NoResult -> "replay"
                             [] row.result = NoResult /\ Young(row)  -> "in-progress"
                             [] row.result = NoResult /\ ~Young(row) -> "reclaim"
    BY <1>5 DEF Decision
  <2>4. CASE row.result # NoResult
    <3>1. Decision(row, b) = "replay"
      BY <2>3, <2>4
    <3> QED
      BY <1>5, <2>1, <2>2, <2>4, <3>1
  <2>5. CASE row.result = NoResult /\ Young(row)
    <3>1. Decision(row, b) = "in-progress"
      BY <2>3, <2>5
    <3> QED
      BY <3>1
  <2>6. CASE row.result = NoResult /\ ~ Young(row)
    <3>1. Decision(row, b) = "reclaim"
      BY <2>3, <2>6
    <3>2. row.age >= Reclaim
      BY <2>2, <2>6 DEF Young
    <3> QED
      BY <1>5, <2>1, <2>6, <3>1, <3>2 DEF Pending
  <2> QED
    BY <2>4, <2>5, <2>6
<1> QED
  BY <1>2, <1>3, <1>4, <1>5

\* Reading the row of a key and deciding keeps the types.
LEMMA FindInv ==
    ASSUME IndInv, NEW m \in net, Find(m)
    PROVE  IndInv'
<1> DEFINE choice == Decision(keys[m.key], m.body)
<1>1. m \in Claims /\ TypeInv /\ m.key \in Keys /\ m.body \in Bodies /\ m.age \in Ages
  BY DEF IndInv, TypeInv, Claims
<1>2. TablesInv'
  BY <1>1, QuietTypes DEF Find
<1>3. CASE choice = "proceed"
  <2> DEFINE n == [m EXCEPT !.pc = "work", !.stale = TRUE]
  <2>1. n \in Claims /\ n.id = m.id /\ n.key = m.key /\ n.body = m.body
        /\ n.awaited = m.awaited /\ n.pc = "work"
    BY <1>1 DEF Claims
  <2>2. GoOn(m, n) /\ Crossing(m) /\ UNCHANGED <<keys, told, mem, made, page, out>>
    BY <1>3 DEF Find
  <2> HIDE DEF n
  <2>3. PICK f : Goes(f) /\ Keeps(f, m, n)
    BY <1>1, <2>1, <2>2, GoOnMoves DEF TypeInv
  <2>4. \A o \in net : f[o].pc = "complete" => f[o].number \in Results
    BY <2>1, <2>3 DEF Keeps, IndInv, NetInv
  <2>5. HistoryType'
    BY <1>1, <2>2 DEF TypeInv, HistoryType, Crossing
  <2> QED
    BY <1>1, <1>2, <2>2, <2>3, <2>4, <2>5, GoesInv, QuietTypes
<1>4. CASE choice = "forget"
  <2> DEFINE n == [m EXCEPT !.pc = "forget", !.stale = TRUE]
  <2>1. n \in Claims /\ n.id = m.id /\ n.key = m.key /\ n.body = m.body
        /\ n.awaited = m.awaited /\ n.pc = "forget"
    BY <1>1 DEF Claims
  <2>2. GoOn(m, n) /\ UNCHANGED <<keys, told, crossed, mem, made, page, out>>
    BY <1>4 DEF Find
  <2> HIDE DEF n
  <2>3. PICK f : Goes(f) /\ Keeps(f, m, n)
    BY <1>1, <2>1, <2>2, GoOnMoves DEF TypeInv
  <2>4. \A o \in net : f[o].pc = "complete" => f[o].number \in Results
    BY <2>1, <2>3 DEF Keeps, IndInv, NetInv
  <2> QED
    BY <1>1, <1>2, <2>2, <2>3, <2>4, GoesInv, QuietTypes
<1>5. CASE choice = "replay"
  <2>1. keys[m.key].result \in Results
    BY <1>1, <1>5, DecisionFacts DEF TypeInv
  <2>2. /\ keys' \in {keys, Cleaned(keys, m.age)}
        /\ net' = net \ {m}
        /\ told' = [told EXCEPT ![m.key] = @ \cup {<<m.body, keys[m.key].result>>}]
        /\ Hears(m, keys[m.key].result)
        /\ crossed' = crossed
    BY <1>5 DEF Find
  <2>3. KeysTypeOK'
    BY <1>1, <2>2, CleanedFacts DEF TypeInv
  <2>4. HistoryType'
    BY <1>1, <2>1, <2>2 DEF TypeInv, HistoryType
  <2> QED
    BY <1>2, <2>1, <2>2, <2>3, <2>4, EndsInv
<1>6. CASE choice \in {"reuse", "in-progress"}
  <2>1. /\ keys' \in {keys, Cleaned(keys, m.age)}
        /\ net' = net \ {m}
        /\ Hears(m, NoNumber)
        /\ UNCHANGED <<told, crossed>>
    BY <1>6 DEF Find
  <2>2. KeysTypeOK'
    BY <1>1, <2>1, CleanedFacts DEF TypeInv
  <2> QED
    BY <1>1, <1>2, <2>1, <2>2, EndsInv, QuietTypes
<1>7. CASE choice = "reclaim"
  <2> DEFINE n == [m EXCEPT !.pc = "reclaim", !.same = TRUE]
  <2>1. n \in Claims /\ n.id = m.id /\ n.key = m.key /\ n.body = m.body
        /\ n.awaited = m.awaited /\ n.pc = "reclaim"
    BY <1>1 DEF Claims
  <2>2. GoOn(m, n) /\ UNCHANGED <<told, crossed, mem, made, page, out>>
        /\ keys' \in {keys, Cleaned(keys, m.age)}
    BY <1>7 DEF Find
  <2> HIDE DEF n
  <2>3. PICK f : Goes(f) /\ Keeps(f, m, n)
    BY <1>1, <2>1, <2>2, GoOnMoves DEF TypeInv
  <2>4. \A o \in net : f[o].pc = "complete" => f[o].number \in Results
    BY <2>1, <2>3 DEF Keeps, IndInv, NetInv
  <2>5. KeysTypeOK'
    BY <1>1, <2>2, CleanedFacts DEF TypeInv
  <2> QED
    BY <1>1, <1>2, <2>2, <2>3, <2>4, <2>5, GoesInv, QuietTypes
<1> QED
  BY <1>3, <1>4, <1>5, <1>6, <1>7 DEF Find


\* Deleting a row past its TTL keeps the types.
LEMMA ForgetInv ==
    ASSUME IndInv, NEW m \in net, Forget(m)
    PROVE  IndInv'
<1> DEFINE n == [m EXCEPT !.pc = "create", !.age = 0]
<1>1. m \in Claims /\ TypeInv /\ m.key \in Keys
  BY DEF IndInv, TypeInv, Claims
<1>2. n.pc = "create"
  BY <1>1 DEF Claims
<1>3. PICK f : Goes(f) /\ Keeps(f, m, n)
  BY <1>1, ForgetMoves DEF TypeInv
<1> HIDE DEF n
<1>4. \A o \in net : f[o].pc = "complete" => f[o].number \in Results
  BY <1>2, <1>3 DEF Keeps, IndInv, NetInv
<1>5. KeysTypeOK'
  BY <1>1, ForgetFacts DEF Forget, TypeInv
<1>6. UNCHANGED <<mem, made, page, out>> /\ TablesInv' /\ HistoryType'
  BY <1>1, QuietTypes DEF Forget
<1> QED
  BY <1>3, <1>4, <1>5, <1>6, GoesInv

\* Taking over a pending row keeps the types.
LEMMA TakeOverInv ==
    ASSUME IndInv, NEW m \in net, TakeOver(m)
    PROVE  IndInv'
<1>1. m \in Claims /\ TypeInv /\ m.key \in Keys /\ m.body \in Bodies /\ m.age \in Ages
  BY DEF IndInv, TypeInv, Claims
<1>2. TablesInv' /\ told' = told
  BY <1>1, QuietTypes DEF TakeOver
<1>3. CASE StillThere(m)
  <2> DEFINE n == [m EXCEPT !.pc = "work"]
  <2>1. n \in Claims /\ n.id = m.id /\ n.key = m.key /\ n.body = m.body
        /\ n.awaited = m.awaited /\ n.pc = "work"
    BY <1>1 DEF Claims
  <2>2. /\ ReclaimKey(m.key, m.body, m.age)
        /\ GoOnFresh(m, n)
        /\ crossed' = crossed \/ Crossing(m)
        /\ UNCHANGED <<mem, made, page, out>>
    BY <1>3 DEF TakeOver
  <2> HIDE DEF n
  <2>3. PICK f : Goes(f) /\ Keeps(f, m, n)
    BY <1>1, <2>1, <2>2, GoOnFreshMoves DEF TypeInv
  <2>4. \A o \in net : f[o].pc = "complete" => f[o].number \in Results
    BY <2>1, <2>3 DEF Keeps, IndInv, NetInv
  <2>5. KeysTypeOK'
    BY <1>1, <2>2, ReclaimFacts DEF TypeInv
  <2>6. HistoryType'
    BY <1>1, <1>2, <2>2 DEF TypeInv, HistoryType, Crossing
  <2> QED
    BY <1>2, <2>2, <2>3, <2>4, <2>5, <2>6, GoesInv
<1>4. CASE ~ StillThere(m)
  <2>1. net' = net \ {m} /\ Hears(m, NoNumber) /\ UNCHANGED <<keys, crossed>>
    BY <1>4 DEF TakeOver
  <2> QED
    BY <1>1, <1>2, <2>1, EndsInv, QuietTypes
<1> QED
  BY <1>3, <1>4

\* Claiming the number keeps the types.
LEMMA WorkInv ==
    ASSUME IndInv, NEW m \in net, Work(m)
    PROVE  IndInv'
<1>1. m \in Claims /\ TypeInv
  BY DEF IndInv, TypeInv
<1>2. PICK head \in lastNumber[Owner][year] .. MaxSeq :
         /\ ClaimProductionSeqs(Owner, 1, head)
         /\ \E n \in NumbersOf(Owner, ClaimedSeqs(Owner, 1, head)) :
               GoOn(m, [m EXCEPT !.pc = "complete", !.number = n])
  BY DEF Work
<1>3. UNCHANGED <<year, orders, keys, mem, made, page, out, told, crossed>>
  BY DEF Work
<1>4. TablesInv' /\ NumbersOf(Owner, ClaimedSeqs(Owner, 1, head)) \subseteq Results
  BY <1>1, <1>2, <1>3, WorkTakes DEF TypeInv
<1>5. PICK r \in Results : GoOn(m, [m EXCEPT !.pc = "complete", !.number = r])
  BY <1>2, <1>4
<1> DEFINE n == [m EXCEPT !.pc = "complete", !.number = r]
<1>6. n \in Claims /\ n.id = m.id /\ n.key = m.key /\ n.body = m.body
      /\ n.awaited = m.awaited /\ n.number = r
  BY <1>1 DEF Claims
<1>7. GoOn(m, n)
  BY <1>5
<1> HIDE DEF n
<1>8. PICK f : Goes(f) /\ Keeps(f, m, n)
  BY <1>1, <1>6, <1>7, GoOnMoves DEF TypeInv
<1>9. \A o \in net : f[o].pc = "complete" => f[o].number \in Results
  BY <1>6, <1>8 DEF Keeps, IndInv, NetInv
<1> QED
  BY <1>1, <1>3, <1>4, <1>8, <1>9, GoesInv, QuietTypes

\* Storing the answer keeps the types.
LEMMA CompleteInv ==
    ASSUME IndInv, NEW m \in net, Complete(m)
    PROVE  IndInv'
<1>1. m \in Claims /\ TypeInv /\ m.key \in Keys /\ m.body \in Bodies
  BY DEF IndInv, TypeInv, Claims
<1>2. m.number \in Results
  BY DEF IndInv, NetInv, Complete
<1>3. TablesInv'
  BY <1>1, QuietTypes DEF Complete
<1>4. KeysTypeOK'
  BY <1>1, <1>2, CompleteFacts DEF Complete, TypeInv
<1>5. HistoryType'
  BY <1>1, <1>2 DEF Complete, TypeInv, HistoryType
<1> QED
  BY <1>2, <1>3, <1>4, <1>5, EndsInv DEF Complete

\* A claim that fails keeps the types.
LEMMA FailClaimInv ==
    ASSUME IndInv, NEW m \in net, FailClaim(m)
    PROVE  IndInv'
<1>1. TablesInv' /\ KeysTypeOK' /\ HistoryType'
  BY QuietTypes DEF FailClaim, IndInv
<1> QED
  BY <1>1, EndsInv DEF FailClaim

(* The page begins to claim when it waits for nothing.                      *)
LEMMA SaveInv ==
    ASSUME IndInv, NEW e \in Elements, Save(e)
    PROVE  IndInv'
<1>1. TablesInv' /\ KeysTypeOK' /\ HistoryType'
  BY QuietTypes DEF Save, IndInv
<1>2. TypeInv /\ page.phase = "idle" /\ mem' = mem /\ made' = made
  BY DEF Save, IndInv, Idle
<1>3. (\A m \in net : ~ m.awaited) /\ (\A w \in out : ~ w.awaited)
  BY <1>2 DEF IndInv, NetInv, OutInv
<1>4. PICK d \in Docs :
        \/ /\ Put(mem)
           /\ net' = net
        \/ /\ Cardinality(net) < MaxNet
           /\ page' = [phase |-> "claiming", doc |-> d, attempt |-> 1]
           /\ net' = WithClaim(net, KeyOf(d), FormBody, TRUE)
           /\ out' = out
  BY DEF Save
<1>5. CASE Put(mem) /\ net' = net
  <2>1. out' \in SUBSET Writes /\ page' \in Page /\ page'.phase = "putting" /\ OutInv'
    BY <1>2, <1>3, <1>5, PutType DEF TypeInv, PageType, IndInv, OutInv
  <2>2. NetInv'
    BY <1>3, <1>5 DEF IndInv, NetInv, Lone
  <2> QED
    BY <1>1, <1>2, <1>5, <2>1, <2>2 DEF IndInv, TypeInv, PageType
<1>6. CASE /\ Cardinality(net) < MaxNet
           /\ page' = [phase |-> "claiming", doc |-> d, attempt |-> 1]
           /\ net' = WithClaim(net, KeyOf(d), FormBody, TRUE)
           /\ out' = out
  <2>1. KeyOf(d) \in Keys
    BY ClaimsAssumption DEF KeyOf
  <2>2. PICK c \in Claims :
           /\ net' = net \cup {c}
           /\ \A m \in net : m.id # c.id
           /\ c.pc = "create"
    <3>1. FormBody \in Bodies /\ net \in SUBSET Claims /\ Lone(net)
      BY <1>2, ClaimsAssumption DEF TypeInv, IndInv, NetInv
    <3> DEFINE k == KeyOf(d)
    <3> HIDE DEF k
    <3>2. k \in Keys /\ Cardinality(net) < MaxNet
      BY <1>6, <2>1 DEF k
    <3>3. \E c \in Claims :
             /\ Asked(net, k) = net \cup {c}
             /\ \A m \in net : m.id # c.id
             /\ c.key = k
             /\ c.pc = "create"
      BY <3>1, <3>2, NewClaim
    <3> QED
      BY <1>6, <3>3 DEF k, Asked
  <2>3. net' \in SUBSET Claims /\ Lone(net')
    BY <1>2, <1>3, <2>2, MoreLone DEF TypeInv, IndInv, NetInv
  <2>4. page' \in Page /\ page'.phase = "claiming" /\ page'.doc \in Docs
    BY <1>6, Bounds DEF Page
  <2>5. NetInv'
    BY <2>2, <2>3, <2>4 DEF IndInv, NetInv, Lone
  <2>6. OutInv'
    BY <1>3, <1>6, <2>4 DEF IndInv, OutInv
  <2>7. PageType'
    BY <1>2, <1>6, <2>4 DEF TypeInv, PageType
  <2> QED
    BY <1>1, <2>3, <2>5, <2>6, <2>7 DEF IndInv, TypeInv
<1> QED
  BY <1>4, <1>5, <1>6

(* A lost claim is forgotten by the page, which repeats it or gives up.     *)
LEMMA LoseClaimInv ==
    ASSUME IndInv, NEW m \in net, LoseClaim(m)
    PROVE  IndInv'
<1>1. TablesInv' /\ KeysTypeOK' /\ HistoryType'
  BY QuietTypes DEF LoseClaim, IndInv
<1>2. m \in Claims /\ TypeInv /\ m.key \in Keys /\ m.awaited /\ page.phase = "claiming"
  BY DEF IndInv, NetInv, TypeInv, Claims, LoseClaim
<1>3. PICK rest \in {net \ {m}, (net \ {m}) \cup {Cut(m)}} :
        \/ /\ page.attempt < MaxAttempts
           /\ Cardinality(rest) < MaxNet
           /\ page' = [page EXCEPT !.attempt = @ + 1]
           /\ net' = WithClaim(rest, m.key, FormBody, TRUE)
           /\ UNCHANGED <<mem, made, out>>
        \/ /\ page.attempt = MaxAttempts
           /\ net' = rest
           /\ Built(NoNumber)
  BY DEF LoseClaim
<1> DEFINE c == Cut(m)
<1>4. c \in Claims /\ c.id = m.id /\ ~ c.awaited /\ c.pc = m.pc /\ c.number = m.number
  BY <1>2 DEF Cut, Claims
<1>5. rest = net \ {m} \/ rest = (net \ {m}) \cup {c}
  BY <1>3
<1> HIDE DEF c
<1>6. \A x \in net : x # m => ~ x.awaited /\ x.id # m.id
  BY <1>2 DEF IndInv, NetInv, Lone
<1>7. /\ rest \in SUBSET Claims
      /\ \A x \in rest : ~ x.awaited
      /\ \A x \in rest : x.pc = "complete" => x.number \in Results
  BY <1>2, <1>4, <1>5, <1>6 DEF IndInv, NetInv, TypeInv
<1>8. Lone(rest)
  BY <1>4, <1>5, <1>6 DEF IndInv, NetInv, Lone
<1>9. CASE /\ page.attempt < MaxAttempts
           /\ Cardinality(rest) < MaxNet
           /\ page' = [page EXCEPT !.attempt = @ + 1]
           /\ net' = WithClaim(rest, m.key, FormBody, TRUE)
           /\ UNCHANGED <<mem, made, out>>
  <2>1. PICK x \in Claims :
           /\ net' = rest \cup {x}
           /\ \A y \in rest : y.id # x.id
           /\ x.pc = "create"
    <3>1. FormBody \in Bodies /\ Cardinality(rest) < MaxNet
      BY <1>9, ClaimsAssumption
    <3> DEFINE k == m.key
    <3>2. k \in Keys
      BY <1>2
    <3> HIDE DEF k
    <3>3. \E x \in Claims :
             /\ Asked(rest, k) = rest \cup {x}
             /\ \A y \in rest : y.id # x.id
             /\ x.key = k
             /\ x.pc = "create"
      BY <1>7, <1>8, <3>1, <3>2, NewClaim
    <3> QED
      BY <1>9, <3>3 DEF k, Asked
  <2>2. net' \in SUBSET Claims /\ Lone(net')
    BY <1>7, <1>8, <2>1, MoreLone
  <2>3. page' \in Page /\ page'.phase = "claiming" /\ page'.doc = page.doc
    <3>1. page \in Page
      BY <1>2 DEF TypeInv, PageType
    <3>2. page.attempt + 1 \in 0 .. MaxAttempts
      BY <1>9, <3>1, Bounds DEF Page
    <3> QED
      BY <1>2, <1>9, <3>1, <3>2 DEF Page
  <2>4. NetInv'
    BY <1>7, <2>1, <2>2, <2>3 DEF NetInv, Lone
  <2>5. OutInv'
    BY <1>2, <1>9, <2>3 DEF IndInv, OutInv
  <2>6. PageType'
    BY <1>2, <1>9, <2>3 DEF TypeInv, PageType
  <2> QED
    BY <1>1, <2>2, <2>4, <2>5, <2>6 DEF IndInv, TypeInv
<1>10. CASE net' = rest /\ Built(NoNumber)
  <2>1. PageType' /\ OutInv' /\ page'.phase = "putting"
    BY <1>2, <1>10, BuiltType DEF IndInv, TypeInv
  <2>2. NetInv'
    BY <1>7, <1>8, <1>10 DEF NetInv, Lone
  <2> QED
    BY <1>1, <1>7, <1>10, <2>1, <2>2 DEF IndInv, TypeInv
<1> QED
  BY <1>3, <1>9, <1>10


\* Sending a deletion keeps the types and one awaited write.
LEMMA DeleteProductionOrderInv ==
    ASSUME IndInv, NEW d \in Docs, DeleteProductionOrder(d)
    PROVE  IndInv'
<1> DEFINE w == [op |-> "delete", doc |-> d, list |-> NoList, awaited |-> TRUE]
<1>1. TablesInv' /\ KeysTypeOK' /\ HistoryType'
  BY QuietTypes DEF DeleteProductionOrder, IndInv
<1>2. TypeInv /\ page.phase = "idle"
  BY DEF DeleteProductionOrder, IndInv, Idle
<1>3. (\A m \in net : ~ m.awaited) /\ (\A v \in out : ~ v.awaited)
  BY <1>2 DEF IndInv, NetInv, OutInv
<1>4. w \in Writes /\ w.doc \in Docs /\ w.awaited
  BY DEF Writes, NoList, Lists
<1>5. out' = out \cup {w} /\ net' = net /\ mem' = mem /\ made' = made
  BY DEF DeleteProductionOrder
<1>6. page' \in Page /\ page'.phase = "deleting"
  BY Bounds DEF DeleteProductionOrder, Page
<1> HIDE DEF w
<1>7. NetInv'
  BY <1>3, <1>5 DEF IndInv, NetInv, Lone
<1>8. OutInv'
  <2>1. \A v \in out' : v.awaited => v = w
    BY <1>3, <1>5
  <2>2. \A v \in out' : v.op = "delete" => v.doc \in Docs
    BY <1>4, <1>5 DEF IndInv, OutInv
  <2> QED
    BY <1>6, <2>1, <2>2 DEF OutInv
<1>9. PageType'
  BY <1>2, <1>4, <1>5, <1>6 DEF TypeInv, PageType
<1> QED
  BY <1>1, <1>2, <1>5, <1>7, <1>8, <1>9 DEF IndInv, TypeInv

(* A write that the page no longer waits for is the same write.             *)
LEMMA CutWrite ==
    ASSUME NEW w \in Writes
    PROVE  Cut(w) \in Writes /\ Cut(w).op = w.op /\ Cut(w).doc = w.doc /\ ~ Cut(w).awaited
  BY DEF Cut, Writes

\* Loading the list anew keeps the types and one awaited write.
LEMMA ReloadInv ==
    ASSUME IndInv, Reload
    PROVE  IndInv'
<1>1. TablesInv' /\ KeysTypeOK' /\ HistoryType' /\ TypeInv
  BY QuietTypes DEF Reload, IndInv
<1>2. \A m \in net : /\ Cut(m) \in Claims
                     /\ Cut(m).id = m.id
                     /\ Cut(m).pc = m.pc
                     /\ Cut(m).number = m.number
                     /\ ~ Cut(m).awaited
  <2> SUFFICES ASSUME NEW m \in Claims
               PROVE  /\ Cut(m) \in Claims
                      /\ Cut(m).id = m.id
                      /\ Cut(m).pc = m.pc
                      /\ Cut(m).number = m.number
                      /\ ~ Cut(m).awaited
    BY <1>1 DEF TypeInv
  <2> QED
    BY DEF Cut, Claims
<1>3. net' = {Cut(m) : m \in net} /\ out' = {Cut(w) : w \in out} /\ page' = Idle /\ made' = made
  BY DEF Reload
<1>4. net' \in SUBSET Claims /\ \A x \in net' : ~ x.awaited
  BY <1>2, <1>3
<1>5. Lone(net')
  <2> SUFFICES ASSUME NEW x \in net', NEW y \in net', x.id = y.id
               PROVE  x = y
    BY <1>4 DEF Lone
  <2>1. PICK m \in net : x = Cut(m)
    BY <1>3
  <2>2. PICK o \in net : y = Cut(o)
    BY <1>3
  <2>3. m = o
    BY <1>2, <2>1, <2>2 DEF IndInv, NetInv, Lone
  <2> QED
    BY <2>1, <2>2, <2>3
<1>6. \A x \in net' : x.pc = "complete" => x.number \in Results
  BY <1>2, <1>3 DEF IndInv, NetInv
<1>7. NetInv'
  BY <1>4, <1>5, <1>6 DEF NetInv, Lone
<1>8. \A w \in out : Cut(w) \in Writes /\ Cut(w).op = w.op /\ Cut(w).doc = w.doc /\ ~ Cut(w).awaited
  BY <1>1, CutWrite DEF TypeInv, PageType
<1>9. out' \in SUBSET Writes /\ \A v \in out' : ~ v.awaited
  BY <1>3, <1>8
<1>10. \A v \in out' : v.op = "delete" => v.doc \in Docs
  BY <1>3, <1>8 DEF IndInv, OutInv
<1>11. page' \in Page /\ page'.phase = "idle"
  BY <1>3, Bounds DEF Idle, Page
<1>12. OutInv'
  BY <1>9, <1>10, <1>11 DEF OutInv
<1>13. mem' \in Lists
  <2>1. mem' = [d \in Docs |-> IF Live(d) THEN orders[d].number ELSE Absent]
    BY DEF Reload
  <2>2. \A d \in Docs : Live(d) => orders[d].number \in Results \cup {NoNumber}
    BY <1>1 DEF TypeInv, TablesInv, Live, Rows
  <2> QED
    BY <2>1, <2>2 DEF Lists
<1> QED
  BY <1>1, <1>3, <1>4, <1>7, <1>9, <1>11, <1>12, <1>13 DEF IndInv, TypeInv, PageType

(* A save or a deletion that the server has finished with.                  *)
LEMMA DoneInv ==
    ASSUME IndInv, NEW w \in out, NEW list \in Lists, Done(w, list), TablesInv'
    PROVE  IndInv'
<1>1. TypeInv /\ net' = net /\ made' = made /\ out' = out \ {w}
  BY DEF Done, IndInv
<1>2. KeysTypeOK' /\ HistoryType'
  BY QuietTypes DEF Done, IndInv
<1>3. CASE w.awaited
  <2>1. page' = Idle /\ mem' = list
    BY <1>3 DEF Done
  <2>2. page' \in Page /\ page'.phase = "idle"
    BY <2>1, Bounds DEF Idle, Page
  <2>3. page.phase # "claiming"
    BY <1>3 DEF IndInv, OutInv
  <2>4. \A v \in out' : ~ v.awaited
    BY <1>1, <1>3 DEF IndInv, OutInv
  <2>5. NetInv'
    BY <1>1, <2>2, <2>3 DEF IndInv, NetInv, Lone
  <2>6. OutInv'
    BY <1>1, <2>2, <2>4 DEF IndInv, OutInv
  <2>7. PageType'
    BY <1>1, <2>1, <2>2 DEF TypeInv, PageType
  <2> QED
    BY <1>1, <1>2, <2>5, <2>6, <2>7 DEF IndInv, TypeInv
<1>4. CASE ~ w.awaited
  <2>1. page' = page /\ mem' = mem
    BY <1>4 DEF Done
  <2>2. NetInv' /\ OutInv' /\ PageType'
    BY <1>1, <2>1 DEF IndInv, NetInv, OutInv, Lone, TypeInv, PageType
  <2> QED
    BY <1>1, <1>2, <2>2 DEF IndInv, TypeInv
<1> QED
  BY <1>3, <1>4

\* The PUT of the list keeps the types.
LEMMA PutListInv ==
    ASSUME IndInv, NEW w \in out, PutList(w)
    PROVE  IndInv'
<1>1. TypeInv /\ w \in Writes /\ w.list \in Lists /\ mem \in Lists
  BY DEF IndInv, TypeInv, PageType, Writes
<1>2. /\ orders' = Written(w.list)
      /\ Done(w, mem)
      /\ recycled' = recycled
  BY DEF PutList
<1>3. \A d \in Docs : w.list[d] # Absent =>
         [userId |-> Owner, number |-> w.list[d], accepted |-> FALSE] \in Rows
  BY <1>1 DEF Lists, Rows
<1>4. Written(w.list) \in [Docs -> Rows \cup {NoRow}]
  BY <1>1, <1>3 DEF Written, TypeInv, TablesInv
<1>5. TablesInv'
  BY <1>1, <1>2, <1>4 DEF TypeInv, TablesInv, Done
<1> QED
  BY <1>1, <1>2, <1>5, DoneInv

\* The DELETE of an order keeps the types.
LEMMA DeleteOrderInv ==
    ASSUME IndInv, NEW w \in out, DeleteOrder(w)
    PROVE  IndInv'
<1>1. TypeInv /\ w.doc \in Docs
  BY DEF IndInv, OutInv, DeleteOrder
<1>2. Done(w, [mem EXCEPT ![w.doc] = Absent]) /\ RemoveOrders({w.doc})
  BY DEF DeleteOrder
<1>3. [mem EXCEPT ![w.doc] = Absent] \in Lists
  BY <1>1 DEF TypeInv, PageType, Lists
<1>4. orders' \in [Docs -> Rows \cup {NoRow}]
  BY <1>1, <1>2 DEF RemoveOrders, TypeInv, TablesInv
<1>5. recycled' \in SUBSET Results
  <2>1. CASE Live(w.doc) /\ orders[w.doc].number # NoNumber
    <3> DEFINE row == orders[w.doc]
    <3>1. row \in Rows
      BY <1>1, <2>1 DEF TypeInv, TablesInv, Live
    <3>2. row.number \in Results /\ row.userId = Owner
      BY <2>1, <3>1 DEF Rows
    <3>3. recycled' = recycled \cup {ReturnedAs(row)}
      BY <2>1 DEF DeleteOrder, ReturnNumbers
    <3> HIDE DEF row
    <3>4. ReturnedAs(row) \in Results
      BY <3>2, ClaimsAssumption DEF ReturnedAs
    <3> QED
      BY <1>1, <3>3, <3>4 DEF TypeInv, TablesInv
  <2>2. CASE ~ (Live(w.doc) /\ orders[w.doc].number # NoNumber)
    BY <1>1, <2>2 DEF DeleteOrder, TypeInv, TablesInv
  <2> QED
    BY <2>1, <2>2
<1>6. TablesInv'
  BY <1>1, <1>2, <1>4, <1>5 DEF TypeInv, TablesInv, Done
<1> QED
  BY <1>2, <1>3, <1>6, DoneInv

\* A refused write keeps the types.
LEMMA RefuseInv ==
    ASSUME IndInv, NEW w \in out, Refuse(w)
    PROVE  IndInv'
<1>1. TypeInv /\ mem \in Lists /\ Done(w, mem)
  BY DEF IndInv, TypeInv, PageType, Refuse
<1>2. TablesInv'
  BY <1>1 DEF TypeInv, TablesInv, Refuse, Done
<1> QED
  BY <1>1, <1>2, DoneInv

\* A lost write keeps the types.
LEMMA LoseWriteInv ==
    ASSUME IndInv, NEW w \in out, LoseWrite(w)
    PROVE  IndInv'
<1>1. TablesInv' /\ KeysTypeOK' /\ HistoryType' /\ TypeInv
  BY QuietTypes DEF LoseWrite, IndInv
<1>2. w \in Writes /\ w.awaited /\ page.phase # "claiming"
  BY <1>1 DEF TypeInv, PageType, IndInv, OutInv, LoseWrite
<1>3. /\ page' = Idle
      /\ out' \in {out \ {w}, (out \ {w}) \cup {Cut(w)}}
      /\ UNCHANGED <<mem, made, net>>
  BY DEF LoseWrite
<1>4. page' \in Page /\ page'.phase = "idle"
  BY <1>3, Bounds DEF Idle, Page
<1> DEFINE v == Cut(w)
<1>5. v \in Writes /\ v.op = w.op /\ v.doc = w.doc /\ ~ v.awaited
  BY <1>2, CutWrite
<1>6. out' = out \ {w} \/ out' = (out \ {w}) \cup {v}
  BY <1>3
<1> HIDE DEF v
<1>7. /\ out' \in SUBSET Writes
      /\ \A x \in out' : ~ x.awaited
      /\ \A x \in out' : x.op = "delete" => x.doc \in Docs
  BY <1>1, <1>2, <1>5, <1>6 DEF TypeInv, PageType, IndInv, OutInv
<1>8. OutInv'
  BY <1>4, <1>7 DEF OutInv
<1>9. NetInv'
  BY <1>2, <1>3, <1>4 DEF IndInv, NetInv, Lone
<1> QED
  BY <1>1, <1>3, <1>4, <1>7, <1>8, <1>9 DEF IndInv, TypeInv, PageType

(* Time passes for the claims.                                              *)
LEMMA TickMoves ==
    ASSUME net \in SUBSET Claims, net' = {[m EXCEPT !.age = Older(@)] : m \in net}
    PROVE  \E f : /\ Goes(f)
                  /\ \A o \in net : /\ f[o].age = Older(o.age)
                                    /\ f[o].pc = o.pc
                                    /\ f[o].number = o.number
                                    /\ f[o].same = o.same
                                    /\ f[o].stale = o.stale
<1> DEFINE g(o) == [o EXCEPT !.age = Older(@)]
           f == [o \in net |-> g(o)]
<1>1. ASSUME NEW o \in net
      PROVE  /\ g(o) \in Claims
             /\ g(o).id = o.id /\ g(o).key = o.key /\ g(o).body = o.body
             /\ g(o).awaited = o.awaited
             /\ g(o).age = Older(o.age)
             /\ g(o).pc = o.pc
             /\ g(o).number = o.number
             /\ g(o).same = o.same
             /\ g(o).stale = o.stale
  <2>1. o \in Claims
    OBVIOUS
  <2>2. Older(o.age) \in Ages
    BY <2>1, OlderFacts DEF Claims
  <2> QED
    BY <2>1, <2>2 DEF Claims
<1>2. net' = {g(o) : o \in net}
  OBVIOUS
<1> HIDE DEF g
<1>3. f \in [net -> Claims] /\ \A o \in net : f[o] = g(o)
  BY <1>1
<1> HIDE DEF f
<1>4. net' = {f[o] : o \in net}
  BY <1>2, <1>3
<1>5. Goes(f)
  BY <1>1, <1>3, <1>4 DEF Goes
<1>6. \A o \in net : /\ f[o].age = Older(o.age)
                     /\ f[o].pc = o.pc
                     /\ f[o].number = o.number
                     /\ f[o].same = o.same
                     /\ f[o].stale = o.stale
  BY <1>1, <1>3
<1> QED
  BY <1>5, <1>6

\* The clock keeps the types.
LEMMA TickInv ==
    ASSUME IndInv, Tick
    PROVE  IndInv'
<1>1. TypeInv /\ UNCHANGED <<mem, made, page, out>>
  BY DEF IndInv, Tick
<1>2. TablesInv' /\ HistoryType'
  BY <1>1, QuietTypes DEF Tick
<1>3. KeysTypeOK'
  BY <1>1, KeysAgeFacts DEF Tick, TypeInv
<1>4. PICK f : /\ Goes(f)
               /\ \A o \in net : f[o].pc = o.pc /\ f[o].number = o.number
  BY <1>1, TickMoves DEF Tick, TypeInv
<1> QED
  BY <1>1, <1>2, <1>3, <1>4, GoesInv DEF IndInv, NetInv

(* The server starts with what its last process left of the keys.           *)
LEMMA InitInv == Init => IndInv
<1> SUFFICES ASSUME Init
             PROVE  IndInv
  OBVIOUS
<1>1. TablesInv
  <2>1. \A u \in Users : StartNumber[u] - 1 \in Nat
    BY UsersAssumption
  <2>2. lastNumber = [u \in Users |-> [y \in Years |-> StartNumber[u] - 1]]
    BY DEF Init, TablesInit
  <2>3. lastNumber \in [Users -> [Years -> Nat]]
    BY <2>1, <2>2
  <2> QED
    BY <2>3 DEF Init, TablesInit, TablesInv
<1>2. KeysTypeOK
  <2>1. PICK crashed \in SUBSET (Elements \X Bodies) :
           keys = [k \in Keys |->
                   IF \E r \in crashed : r[1] = k
                   THEN [body |-> (CHOOSE r \in crashed : r[1] = k)[2],
                         result |-> NoResult, age |-> 0]
                   ELSE NoKey]
    BY DEF Init, KeysLeft
  <2>2. ASSUME NEW k \in Keys, \E r \in crashed : r[1] = k
        PROVE  [body |-> (CHOOSE r \in crashed : r[1] = k)[2],
                result |-> NoResult, age |-> 0] \in KeyRow
    <3>1. (CHOOSE r \in crashed : r[1] = k) \in crashed
      BY <2>2
    <3>2. (CHOOSE r \in crashed : r[1] = k)[2] \in Bodies
      BY <3>1
    <3> QED
      BY <3>2, Bounds DEF KeyRow
  <2> QED
    BY <2>1, <2>2 DEF KeysTypeOK
<1>3. page \in Page /\ page.phase = "idle"
  BY Bounds DEF Init, Idle, Page
<1>4. PageType
  BY <1>3, Bounds DEF Init, PageType, NoList, Lists
<1>5. net = {} /\ out = {} /\ HistoryType
  BY DEF Init, HistoryType
<1> QED
  BY <1>1, <1>2, <1>3, <1>4, <1>5 DEF IndInv, TypeInv, NetInv, OutInv, Lone

\* Every step keeps the types and at most one claim and one write awaited.
LEMMA NextInv == IndInv /\ [Next]_vars => IndInv'
<1> SUFFICES ASSUME IndInv, [Next]_vars
             PROVE  IndInv'
  OBVIOUS
<1>1. CASE UNCHANGED vars
  <2>1. TablesInv' /\ KeysTypeOK' /\ HistoryType'
    BY <1>1, QuietTypes DEF vars, IndInv
  <2>2. UNCHANGED <<mem, made, page, net, out>>
    BY <1>1 DEF vars
  <2>3. PageType' /\ NetInv' /\ OutInv'
    BY <2>2 DEF IndInv, TypeInv, PageType, NetInv, OutInv, Lone
  <2> QED
    BY <2>1, <2>2, <2>3 DEF IndInv, TypeInv
<1>2. ASSUME NEW e \in Elements, Save(e)
      PROVE  IndInv'
  BY <1>2, SaveInv
<1>3. ASSUME NEW d \in Docs, DeleteProductionOrder(d)
      PROVE  IndInv'
  BY <1>3, DeleteProductionOrderInv
<1>4. CASE Reload
  BY <1>4, ReloadInv
<1>5. ASSUME NEW m \in net, Serve(m)
      PROVE  IndInv'
  BY <1>5, TryCreateInv, FindInv, ForgetInv, TakeOverInv, WorkInv, CompleteInv DEF Serve
<1>6. ASSUME NEW m \in net, LoseClaim(m) \/ FailClaim(m)
      PROVE  IndInv'
  BY <1>6, LoseClaimInv, FailClaimInv
<1>7. ASSUME NEW w \in out, PutList(w) \/ DeleteOrder(w) \/ Refuse(w) \/ LoseWrite(w)
      PROVE  IndInv'
  BY <1>7, PutListInv, DeleteOrderInv, RefuseInv, LoseWriteInv
<1>8. CASE Tick
  BY <1>8, TickInv
<1> QED
  BY <1>1, <1>2, <1>3, <1>4, <1>5, <1>6, <1>7, <1>8 DEF Next

\* The typing invariant holds in every reachable state.
LEMMA IndInvCorrect == Spec => []IndInv
<1> QED
  BY InitInv, NextInv, PTL DEF Spec

(* The tables, the keys, the page, the claims and the saves keep their types:*)
(* a claim finds a free id, and its number is not beyond the bound.          *)
THEOREM TypeCorrect == Spec => []TypeOK
<1>1. IndInv => TypeOK
  <2> SUFFICES ASSUME IndInv
               PROVE  TypeOK
    OBVIOUS
  <2>1. Claims \subseteq Claim
    BY Bounds DEF Claims, Claim
  <2>2. Lists \subseteq List
    BY Bounds DEF Lists, List
  <2>3. Writes \subseteq Write
    BY <2>2 DEF Writes, Write
  <2>4. Rows \subseteq SavedRow
    BY Bounds DEF Rows, SavedRow
  <2>5. told \in [Keys -> SUBSET (Bodies \X Number)]
    BY Bounds DEF IndInv, TypeInv, HistoryType
  <2>6. recycled \in SUBSET Number /\ orders \in [Docs -> SavedRow \cup {NoRow}]
    BY <2>4, Bounds DEF IndInv, TypeInv, TablesInv
  <2>7. mem \in List /\ out \in SUBSET Write /\ net \in SUBSET Claim
    BY <2>1, <2>2, <2>3 DEF IndInv, TypeInv, PageType
  <2> QED
    BY <2>5, <2>6, <2>7 DEF TypeOK, IndInv, TypeInv, PageType, HistoryType
<1> QED
  BY <1>1, IndInvCorrect, PTL


-----------------------------------------------------------------------------
(* One execution of a key at a time.                                        *)

Executes(o) == o.pc \in {"work", "complete"}

\* Who executes, and is young and not stale, has a row that is no older.
HeldIn(rows, o) ==
    Executes(o) /\ ~ o.stale /\ o.age < Reclaim
        => rows[o.key] # NoKey /\ rows[o.key].age <= o.age

\* The row that is about to be taken over is old as long as it is the same.
OldIn(rows, o) ==
    o.pc = "reclaim" /\ o.same /\ rows[o.key] # NoKey => rows[o.key].age >= Reclaim

RowInv == \A o \in net : HeldIn(keys, o) /\ OldIn(keys, o)

\* What OneExecution says of a step.
Single ==
    \A m \in Admitted, o \in net :
        o \in Executing(m.key) => o.age >= Reclaim \/ o.stale \/ m.stale

\* The row of key j keeps its age, or it was past its TTL and is gone.
AgeKept(j) ==
    \/ keys[j] = NoKey /\ keys'[j] = NoKey
    \/ keys[j] # NoKey /\ keys'[j] # NoKey /\ keys'[j].age = keys[j].age
    \/ keys[j] # NoKey /\ keys[j].age > Ttl /\ keys'[j] = NoKey

\* A row that cleanupExpired leaves keeps its age.
LEMMA SweptKeepsAge ==
    ASSUME NEW j, Swept(j)
    PROVE  AgeKept(j)
  BY DEF Swept, AgeKept

(* A claim that goes on as it was keeps what it knows of its row.           *)
LEMMA RowKept ==
    ASSUME KeysTypeOK, NEW o \in Claims, NEW x \in Claims, AgeKept(o.key),
           x.key = o.key, x.age = o.age, Executes(x) => Executes(o),
           x.pc = "reclaim" /\ x.same => o.pc = "reclaim" /\ o.same,
           o.stale => x.stale, HeldIn(keys, o), OldIn(keys, o)
    PROVE  HeldIn(keys', x) /\ OldIn(keys', x)
<1>1. o.key \in Keys /\ o.age \in Int /\ Reclaim \in Int /\ Ttl \in Int /\ Reclaim < Ttl
  BY Bounds DEF Claims, Ages
<1>2. keys[o.key] # NoKey => keys[o.key].age \in Int
  BY <1>1 DEF KeysTypeOK, KeyRow, Ages
<1>3. HeldIn(keys', x)
  BY <1>1, <1>2 DEF HeldIn, AgeKept
<1>4. OldIn(keys', x)
  BY <1>1, <1>2 DEF OldIn, AgeKept
<1> QED
  BY <1>3, <1>4

(* A step in which claims only go away, or lose their listener, and new     *)
(* ones have not begun.                                                     *)
LEMMA RowLess ==
    ASSUME IndInv, IndInv', RowInv, \A j \in Keys : AgeKept(j),
           \A x \in net' : \/ x.pc = "create"
                           \/ \E o \in net : /\ x.id = o.id
                                             /\ x.key = o.key
                                             /\ x.age = o.age
                                             /\ x.pc = o.pc
                                             /\ x.same = o.same
                                             /\ x.stale = o.stale
    PROVE  RowInv' /\ Single
<1>1. KeysTypeOK /\ net \in SUBSET Claims /\ net' \in SUBSET Claims
  BY DEF IndInv, TypeInv
<1>2. ASSUME NEW x \in net'
      PROVE  HeldIn(keys', x) /\ OldIn(keys', x)
  <2>1. CASE x.pc = "create"
    BY <2>1 DEF HeldIn, OldIn, Executes
  <2>2. ASSUME NEW o \in net, x.key = o.key, x.age = o.age, x.pc = o.pc,
               x.same = o.same, x.stale = o.stale
        PROVE  HeldIn(keys', x) /\ OldIn(keys', x)
    <3>1. o \in Claims /\ x \in Claims /\ o.key \in Keys
      BY <1>1 DEF Claims
    <3>2. Executes(x) => Executes(o)
      BY <2>2 DEF Executes
    <3>3. AgeKept(o.key) /\ HeldIn(keys, o) /\ OldIn(keys, o)
      BY <3>1 DEF RowInv
    <3> QED
      BY <1>1, <2>2, <3>1, <3>2, <3>3, RowKept
  <2> QED
    BY <2>1, <2>2
<1>3. Single
  BY DEF Single, Admitted
<1>4. RowInv'
  BY <1>2 DEF RowInv, HeldIn, OldIn, Executes
<1> QED
  BY <1>3, <1>4

(* A step of claim m, which is then n.                                      *)
LEMMA RowGoes ==
    ASSUME IndInv, IndInv', RowInv, NEW m \in net, NEW n, NEW f, Goes(f), Keeps(f, m, n),
           HeldIn(keys', n), OldIn(keys', n),
           n.pc = "work" => \A o \in net :
               o \in Executing(n.key) => o.age >= Reclaim \/ o.stale \/ n.stale,
           \A o \in net : o # m => \/ AgeKept(o.key)
                                   \/ HeldIn(keys', f[o]) /\ OldIn(keys', f[o])
    PROVE  RowInv' /\ Single
<1>1. KeysTypeOK /\ net \in SUBSET Claims /\ net' \in SUBSET Claims
  BY DEF IndInv, TypeInv
<1>2. ASSUME NEW o \in net
      PROVE  HeldIn(keys', f[o]) /\ OldIn(keys', f[o])
  <2>1. CASE o = m
    BY <2>1 DEF Keeps
  <2>2. CASE o # m /\ AgeKept(o.key)
    <3> DEFINE x == f[o]
    <3>1. o \in Claims /\ x \in Claims /\ x.key = o.key
      BY <1>1 DEF Goes
    <3>2. x.age = o.age /\ x.pc = o.pc /\ (x.same => o.same) /\ (o.stale => x.stale)
      BY <2>2 DEF Keeps
    <3>3. HeldIn(keys, o) /\ OldIn(keys, o)
      BY DEF RowInv
    <3> HIDE DEF x
    <3>4. HeldIn(keys', x) /\ OldIn(keys', x)
      BY <1>1, <2>2, <3>1, <3>2, <3>3, RowKept DEF Executes
    <3> QED
      BY <3>4 DEF x
  <2> QED
    BY <2>1, <2>2
<1>3. RowInv'
  <2> SUFFICES ASSUME NEW x \in net'
               PROVE  HeldIn(keys', x) /\ OldIn(keys', x)
    BY DEF RowInv, HeldIn, OldIn, Executes
  <2>1. PICK o \in net : x = f[o]
    BY DEF Goes
  <2> QED
    BY <1>2, <2>1
<1>4. Single
  <2> SUFFICES ASSUME NEW x \in Admitted, NEW o \in net, o \in Executing(x.key)
               PROVE  o.age >= Reclaim \/ o.stale \/ x.stale
    BY DEF Single
  <2>1. x \in net' /\ x.pc = "work" /\ \A p \in net : p.id = x.id => p.pc # "work"
    BY DEF Admitted
  <2>2. PICK p \in net : x = f[p]
    BY <2>1 DEF Goes
  <2>3. p.id = x.id
    BY <2>2 DEF Goes
  <2>4. p = m
    BY <2>1, <2>2, <2>3 DEF Keeps
  <2>5. x = n
    BY <2>2, <2>4 DEF Keeps
  <2> QED
    BY <2>1, <2>5
<1> QED
  BY <1>3, <1>4


\* Creating the row of a key admits a request only as OneExecution allows.
LEMMA TryCreateRow ==
    ASSUME IndInv, IndInv', RowInv, NEW m \in net, TryCreate(m)
    PROVE  RowInv' /\ Single
<1>1. m \in Claims /\ TypeInv /\ m.key \in Keys /\ m.body \in Bodies /\ m.age \in Ages
      /\ net \in SUBSET Claims /\ m.pc = "create"
  BY DEF IndInv, TypeInv, Claims, TryCreate
<1>2. CASE CreateKey(m.key, m.body, m.age) /\ GoOnFresh(m, [m EXCEPT !.pc = "work"])
  <2> DEFINE n == [m EXCEPT !.pc = "work"]
  <2>1. n \in Claims /\ n.id = m.id /\ n.key = m.key /\ n.body = m.body
        /\ n.awaited = m.awaited /\ n.pc = "work" /\ n.age = m.age
    BY <1>1 DEF Claims
  <2>2. GoOnFresh(m, n)
    BY <1>2
  <2> HIDE DEF n
  <2>3. PICK f : /\ Goes(f)
                 /\ Keeps(f, m, n)
                 /\ \A o \in net : o # m =>
                       /\ f[o].stale = o.stale
                       /\ IF o.key = m.key THEN ~ f[o].same ELSE f[o] = o
    BY <1>1, <2>1, <2>2, GoOnFreshMoves
  <2>4. /\ keys[m.key] = NoKey
        /\ keys'[m.key] = NewRow(m.body, m.age)
        /\ \A j \in Keys : j # m.key => Swept(j)
    BY <1>1, <1>2, CreateFacts DEF TypeInv
  <2>5. keys'[m.key] # NoKey /\ keys'[m.key].age = m.age
    BY <1>1, <2>4, NoKeyAssumption DEF NewRow, KeyRow
  <2>6. HeldIn(keys', n) /\ OldIn(keys', n)
    BY <1>1, <2>1, <2>5, Bounds DEF HeldIn, OldIn, Ages
  <2>7. ASSUME NEW o \in net, o.key = m.key, Executes(o)
        PROVE  o.age >= Reclaim \/ o.stale
    <3>1. HeldIn(keys, o) /\ o.age \in Int /\ Reclaim \in Int
      BY <1>1, Bounds DEF RowInv, Claims, Ages
    <3> QED
      BY <2>4, <2>7, <3>1 DEF HeldIn
  <2>8. ASSUME NEW o \in net, o # m
        PROVE  \/ AgeKept(o.key)
               \/ HeldIn(keys', f[o]) /\ OldIn(keys', f[o])
    <3>1. CASE o.key # m.key
      BY <1>1, <2>4, <3>1, SweptKeepsAge DEF Claims
    <3>2. CASE o.key = m.key
      <4>1. f[o].pc = o.pc /\ f[o].age = o.age /\ f[o].stale = o.stale /\ ~ f[o].same
        BY <2>3, <2>8, <3>2 DEF Keeps
      <4>2. o.age \in Int /\ Reclaim \in Int
        BY <1>1, Bounds DEF Claims, Ages
      <4>3. HeldIn(keys', f[o])
        BY <2>7, <3>2, <4>1, <4>2 DEF HeldIn, Executes
      <4> QED
        BY <4>1, <4>3 DEF OldIn
    <3> QED
      BY <3>1, <3>2
  <2>9. \A o \in net : o \in Executing(n.key) => o.age >= Reclaim \/ o.stale \/ n.stale
    BY <2>1, <2>7 DEF Executing, Executes
  <2> QED
    BY <2>3, <2>6, <2>8, <2>9, RowGoes
<1>3. CASE GoOn(m, [m EXCEPT !.pc = "find"]) /\ keys' = keys
  <2> DEFINE n == [m EXCEPT !.pc = "find"]
  <2>1. n \in Claims /\ n.id = m.id /\ n.key = m.key /\ n.body = m.body
        /\ n.awaited = m.awaited /\ n.pc = "find"
    BY <1>1 DEF Claims
  <2>2. GoOn(m, n)
    BY <1>3
  <2> HIDE DEF n
  <2>3. PICK f : Goes(f) /\ Keeps(f, m, n)
    BY <1>1, <2>1, <2>2, GoOnMoves
  <2>4. HeldIn(keys', n) /\ OldIn(keys', n)
    BY <2>1 DEF HeldIn, OldIn, Executes
  <2>5. \A j \in Keys : AgeKept(j)
    BY <1>3 DEF AgeKept
  <2>6. \A o \in net : AgeKept(o.key)
    BY <1>1, <2>5 DEF Claims
  <2> QED
    BY <2>1, <2>3, <2>4, <2>6, RowGoes
<1> QED
  BY <1>2, <1>3 DEF TryCreate

\* Reading a row admits nobody to the work.
LEMMA FindRow ==
    ASSUME IndInv, IndInv', RowInv, NEW m \in net, Find(m)
    PROVE  RowInv' /\ Single
<1> DEFINE choice == Decision(keys[m.key], m.body)
<1>1. m \in Claims /\ KeysTypeOK /\ m.key \in Keys /\ m.body \in Bodies /\ m.age \in Ages
      /\ net \in SUBSET Claims
  BY DEF IndInv, TypeInv, Claims
<1>2. \A j \in Keys : Swept(j)
  BY <1>1, CleanedFacts DEF Find
<1>3. (\A j \in Keys : AgeKept(j)) /\ (\A o \in net : AgeKept(o.key))
  BY <1>1, <1>2, SweptKeepsAge DEF Claims
<1>4. CASE choice = "proceed"
  <2> DEFINE n == [m EXCEPT !.pc = "work", !.stale = TRUE]
  <2>1. n \in Claims /\ n.id = m.id /\ n.key = m.key /\ n.body = m.body
        /\ n.awaited = m.awaited /\ n.pc = "work" /\ n.stale
    BY <1>1 DEF Claims
  <2>2. GoOn(m, n)
    BY <1>4 DEF Find
  <2> HIDE DEF n
  <2>3. PICK f : Goes(f) /\ Keeps(f, m, n)
    BY <1>1, <2>1, <2>2, GoOnMoves
  <2>4. HeldIn(keys', n) /\ OldIn(keys', n)
    BY <2>1 DEF HeldIn, OldIn, Executes
  <2> QED
    BY <1>3, <2>1, <2>3, <2>4, RowGoes
<1>5. CASE choice = "forget"
  <2> DEFINE n == [m EXCEPT !.pc = "forget", !.stale = TRUE]
  <2>1. n \in Claims /\ n.id = m.id /\ n.key = m.key /\ n.body = m.body
        /\ n.awaited = m.awaited /\ n.pc = "forget"
    BY <1>1 DEF Claims
  <2>2. GoOn(m, n)
    BY <1>5 DEF Find
  <2> HIDE DEF n
  <2>3. PICK f : Goes(f) /\ Keeps(f, m, n)
    BY <1>1, <2>1, <2>2, GoOnMoves
  <2>4. HeldIn(keys', n) /\ OldIn(keys', n)
    BY <2>1 DEF HeldIn, OldIn, Executes
  <2> QED
    BY <1>3, <2>1, <2>3, <2>4, RowGoes
<1>6. CASE choice \in {"replay", "reuse", "in-progress"}
  <2>1. net' = net \ {m}
    BY <1>6 DEF Find
  <2> QED
    BY <1>3, <2>1, RowLess
<1>7. CASE choice = "reclaim"
  <2> DEFINE n == [m EXCEPT !.pc = "reclaim", !.same = TRUE]
  <2>1. n \in Claims /\ n.id = m.id /\ n.key = m.key /\ n.body = m.body
        /\ n.awaited = m.awaited /\ n.pc = "reclaim"
    BY <1>1 DEF Claims
  <2>2. GoOn(m, n)
    BY <1>7 DEF Find
  <2> HIDE DEF n
  <2>3. PICK f : Goes(f) /\ Keeps(f, m, n)
    BY <1>1, <2>1, <2>2, GoOnMoves
  <2>4. keys[m.key].age >= Reclaim
    BY <1>1, <1>7, DecisionFacts
  <2>5. OldIn(keys', n)
    BY <1>1, <1>2, <2>1, <2>4 DEF OldIn, Swept
  <2>6. HeldIn(keys', n)
    BY <2>1 DEF HeldIn, Executes
  <2> QED
    BY <1>3, <2>1, <2>3, <2>5, <2>6, RowGoes
<1> QED
  BY <1>4, <1>5, <1>6, <1>7 DEF Find

(* Who loses its row to a request that forgets it is marked.                *)
LEMMA ForgetRow ==
    ASSUME IndInv, IndInv', RowInv, NEW m \in net, Forget(m)
    PROVE  RowInv' /\ Single
<1> DEFINE n == [m EXCEPT !.pc = "create", !.age = 0]
<1>1. m \in Claims /\ KeysTypeOK /\ m.key \in Keys /\ net \in SUBSET Claims
  BY DEF IndInv, TypeInv, Claims
<1>2. n.pc = "create"
  BY <1>1 DEF Claims
<1>3. PICK f : /\ Goes(f)
               /\ Keeps(f, m, n)
               /\ \A o \in net : o # m =>
                     /\ o \in Executing(m.key) => f[o].stale
                     /\ IF o.key = m.key THEN ~ f[o].same ELSE f[o] = o
  BY <1>1, ForgetMoves
<1> HIDE DEF n
<1>4. \A j \in Keys : j # m.key => keys'[j] = keys[j]
  BY <1>1, ForgetFacts DEF Forget
<1>5. HeldIn(keys', n) /\ OldIn(keys', n)
  BY <1>2 DEF HeldIn, OldIn, Executes
<1>6. ASSUME NEW o \in net, o # m
      PROVE  \/ AgeKept(o.key)
             \/ HeldIn(keys', f[o]) /\ OldIn(keys', f[o])
  <2>1. CASE o.key # m.key
    BY <1>1, <1>4, <2>1 DEF Claims, AgeKept
  <2>2. CASE o.key = m.key
    <3>1. f[o].pc = o.pc /\ ~ f[o].same /\ (o \in Executing(m.key) => f[o].stale)
      BY <1>3, <1>6, <2>2 DEF Keeps
    <3> QED
      BY <2>2, <3>1 DEF HeldIn, OldIn, Executes, Executing
  <2> QED
    BY <2>1, <2>2
<1> QED
  BY <1>2, <1>3, <1>5, <1>6, RowGoes

(* A row that is taken over is old, and so is who executes for it.          *)
LEMMA TakeOverRow ==
    ASSUME IndInv, IndInv', RowInv, NEW m \in net, TakeOver(m)
    PROVE  RowInv' /\ Single
<1>1. m \in Claims /\ KeysTypeOK /\ m.key \in Keys /\ m.body \in Bodies /\ m.age \in Ages
      /\ net \in SUBSET Claims
  BY DEF IndInv, TypeInv, Claims
<1>2. CASE StillThere(m)
  <2> DEFINE n == [m EXCEPT !.pc = "work"]
  <2>1. n \in Claims /\ n.id = m.id /\ n.key = m.key /\ n.body = m.body
        /\ n.awaited = m.awaited /\ n.pc = "work" /\ n.age = m.age
    BY <1>1 DEF Claims
  <2>2. GoOnFresh(m, n) /\ ReclaimKey(m.key, m.body, m.age)
    BY <1>2 DEF TakeOver
  <2> HIDE DEF n
  <2>3. PICK f : /\ Goes(f)
                 /\ Keeps(f, m, n)
                 /\ \A o \in net : o # m =>
                       /\ f[o].stale = o.stale
                       /\ IF o.key = m.key THEN ~ f[o].same ELSE f[o] = o
    BY <1>1, <2>1, <2>2, GoOnFreshMoves
  <2>4. /\ keys'[m.key] = NewRow(m.body, m.age)
        /\ \A j \in Keys : j # m.key => keys'[j] = keys[j]
    BY <1>1, <2>2, ReclaimFacts
  <2>5. keys'[m.key] # NoKey /\ keys'[m.key].age = m.age
    BY <1>1, <2>4, NoKeyAssumption DEF NewRow, KeyRow
  <2>6. HeldIn(keys', n) /\ OldIn(keys', n)
    BY <1>1, <2>1, <2>5, Bounds DEF HeldIn, OldIn, Ages
  <2>7. keys[m.key] # NoKey /\ keys[m.key].age >= Reclaim /\ keys[m.key].age \in Int
    <3>1. OldIn(keys, m) /\ m.pc = "reclaim" /\ m.same /\ keys[m.key] # NoKey
      BY <1>2 DEF RowInv, TakeOver, StillThere, Pending
    <3> QED
      BY <1>1, <3>1, Bounds DEF OldIn, KeysTypeOK, KeyRow, Ages
  <2>8. ASSUME NEW o \in net, o.key = m.key, Executes(o)
        PROVE  o.age >= Reclaim \/ o.stale
    <3>1. HeldIn(keys, o) /\ o.age \in Int /\ Reclaim \in Int
      BY <1>1, Bounds DEF RowInv, Claims, Ages
    <3> QED
      BY <2>7, <2>8, <3>1 DEF HeldIn
  <2>9. ASSUME NEW o \in net, o # m
        PROVE  \/ AgeKept(o.key)
               \/ HeldIn(keys', f[o]) /\ OldIn(keys', f[o])
    <3>1. CASE o.key # m.key
      BY <1>1, <2>4, <3>1 DEF Claims, AgeKept
    <3>2. CASE o.key = m.key
      <4>1. f[o].pc = o.pc /\ f[o].age = o.age /\ f[o].stale = o.stale /\ ~ f[o].same
        BY <2>3, <2>9, <3>2 DEF Keeps
      <4>2. o.age \in Int /\ Reclaim \in Int
        BY <1>1, Bounds DEF Claims, Ages
      <4>3. HeldIn(keys', f[o])
        BY <2>8, <3>2, <4>1, <4>2 DEF HeldIn, Executes
      <4> QED
        BY <4>1, <4>3 DEF OldIn
    <3> QED
      BY <3>1, <3>2
  <2>10. \A o \in net : o \in Executing(n.key) => o.age >= Reclaim \/ o.stale \/ n.stale
    BY <2>1, <2>8 DEF Executing, Executes
  <2> QED
    BY <2>3, <2>6, <2>9, <2>10, RowGoes
<1>3. CASE ~ StillThere(m)
  <2>1. net' = net \ {m} /\ keys' = keys
    BY <1>3 DEF TakeOver
  <2>2. \A j \in Keys : AgeKept(j)
    BY <2>1 DEF AgeKept
  <2> QED
    BY <2>1, <2>2, RowLess
<1> QED
  BY <1>2, <1>3

\* The work itself leaves the rows and admits nobody.
LEMMA WorkRow ==
    ASSUME IndInv, IndInv', RowInv, NEW m \in net, Work(m)
    PROVE  RowInv' /\ Single
<1>1. m \in Claims /\ TypeInv /\ net \in SUBSET Claims /\ m.pc = "work" /\ keys' = keys
      /\ m.key \in Keys
  BY DEF IndInv, TypeInv, Work, Claims
<1>2. PICK head \in lastNumber[Owner][year] .. MaxSeq :
         /\ ClaimProductionSeqs(Owner, 1, head)
         /\ \E r \in NumbersOf(Owner, ClaimedSeqs(Owner, 1, head)) :
               GoOn(m, [m EXCEPT !.pc = "complete", !.number = r])
  BY DEF Work
<1>3. NumbersOf(Owner, ClaimedSeqs(Owner, 1, head)) \subseteq Results
  BY <1>1, <1>2, WorkTakes DEF Work, TypeInv
<1>4. PICK r \in Results : GoOn(m, [m EXCEPT !.pc = "complete", !.number = r])
  BY <1>2, <1>3
<1> DEFINE n == [m EXCEPT !.pc = "complete", !.number = r]
<1>5. n \in Claims /\ n.id = m.id /\ n.key = m.key /\ n.body = m.body
      /\ n.awaited = m.awaited /\ n.pc = "complete" /\ n.age = m.age /\ n.stale = m.stale
  BY <1>1 DEF Claims
<1>6. GoOn(m, n)
  BY <1>4
<1> HIDE DEF n
<1>7. PICK f : Goes(f) /\ Keeps(f, m, n)
  BY <1>1, <1>5, <1>6, GoOnMoves
<1>8. \A j \in Keys : AgeKept(j)
  BY <1>1 DEF AgeKept
<1>9. \A o \in net : AgeKept(o.key)
  BY <1>1, <1>8 DEF Claims
<1>10. HeldIn(keys, m) /\ OldIn(keys, m)
  BY DEF RowInv
<1>11. HeldIn(keys', n) /\ OldIn(keys', n)
  BY <1>1, <1>5, <1>10 DEF HeldIn, OldIn, Executes
<1> QED
  BY <1>5, <1>7, <1>9, <1>11, RowGoes


\* The answer leaves the age of the row it is stored in.
LEMMA CompleteRow ==
    ASSUME IndInv, IndInv', RowInv, NEW m \in net, Complete(m)
    PROVE  RowInv' /\ Single
<1>1. m \in Claims /\ KeysTypeOK /\ m.key \in Keys /\ m.number \in Results /\ net' = net \ {m}
  BY DEF IndInv, TypeInv, Claims, NetInv, Complete
<1>2. CompleteKey(m.key, m.number)
  BY DEF Complete
<1>3. \A j \in Keys : AgeKept(j)
  BY <1>1, <1>2, CompleteFacts DEF AgeKept, Pending
<1> QED
  BY <1>1, <1>3, RowLess

(* The claims that LoseClaim leaves are those there were, and a new one.    *)
LEMMA LoseClaimRow ==
    ASSUME IndInv, IndInv', RowInv, NEW m \in net, LoseClaim(m)
    PROVE  RowInv' /\ Single
<1>1. m \in Claims /\ TypeInv /\ m.key \in Keys /\ keys' = keys
  BY DEF IndInv, TypeInv, Claims, LoseClaim
<1>2. PICK rest \in {net \ {m}, (net \ {m}) \cup {Cut(m)}} :
        \/ /\ Cardinality(rest) < MaxNet
           /\ net' = Asked(rest, m.key)
        \/ net' = rest
  BY DEF LoseClaim, Asked
<1> DEFINE c == Cut(m)
<1>3. c \in Claims /\ c.id = m.id /\ c.key = m.key /\ c.age = m.age /\ c.pc = m.pc
      /\ c.same = m.same /\ c.stale = m.stale
  BY <1>1 DEF Cut, Claims
<1>4. rest = net \ {m} \/ rest = (net \ {m}) \cup {c}
  BY <1>2
<1> HIDE DEF c
<1>5. \A x \in rest : \E o \in net : /\ x.id = o.id
                                     /\ x.key = o.key
                                     /\ x.age = o.age
                                     /\ x.pc = o.pc
                                     /\ x.same = o.same
                                     /\ x.stale = o.stale
  BY <1>3, <1>4
<1>6. rest \in SUBSET Claims
  BY <1>1, <1>3, <1>4 DEF TypeInv
<1>7. Lone(rest)
  <2> SUFFICES ASSUME NEW x \in rest, NEW y \in rest, x.id = y.id \/ (x.awaited /\ y.awaited)
               PROVE  x = y
    BY DEF Lone
  <2>1. \A p, q \in net : p.id = q.id \/ (p.awaited /\ q.awaited) => p = q
    BY DEF IndInv, NetInv, Lone
  <2>2. m.awaited /\ ~ c.awaited
    BY <1>1 DEF LoseClaim, c, Cut, Claims
  <2> QED
    BY <1>3, <1>4, <2>1, <2>2
<1>8. \A x \in net' : x.pc = "create" \/ x \in rest
  <2>1. CASE net' = rest
    BY <2>1
  <2>2. CASE Cardinality(rest) < MaxNet /\ net' = Asked(rest, m.key)
    <3> DEFINE k == m.key
    <3>1. k \in Keys
      BY <1>1
    <3> HIDE DEF k
    <3>2. \E x \in Claims :
             /\ Asked(rest, k) = rest \cup {x}
             /\ \A y \in rest : y.id # x.id
             /\ x.key = k
             /\ x.pc = "create"
      BY <1>6, <1>7, <2>2, <3>1, NewClaim
    <3> QED
      BY <2>2, <3>2 DEF k
  <2> QED
    BY <1>2, <2>1, <2>2
<1>9. \A j \in Keys : AgeKept(j)
  BY <1>1 DEF AgeKept
<1> QED
  BY <1>5, <1>8, <1>9, RowLess

\* A page that sends a claim admits nobody by it.
LEMMA SaveRow ==
    ASSUME IndInv, IndInv', RowInv, NEW e \in Elements, Save(e)
    PROVE  RowInv' /\ Single
<1>1. TypeInv /\ Lone(net) /\ keys' = keys
  BY DEF IndInv, NetInv, Save
<1>2. PICK d \in Docs :
        \/ net' = net
        \/ Cardinality(net) < MaxNet /\ net' = Asked(net, KeyOf(d))
  BY DEF Save, Asked
<1>3. \A x \in net' : x.pc = "create" \/ x \in net
  <2>1. CASE net' = net
    BY <2>1
  <2>2. CASE Cardinality(net) < MaxNet /\ net' = Asked(net, KeyOf(d))
    <3> DEFINE k == KeyOf(d)
    <3>1. k \in Keys
      BY ClaimsAssumption DEF KeyOf
    <3> HIDE DEF k
    <3>2. \E x \in Claims :
             /\ Asked(net, k) = net \cup {x}
             /\ \A y \in net : y.id # x.id
             /\ x.key = k
             /\ x.pc = "create"
      BY <1>1, <2>2, <3>1, NewClaim DEF TypeInv
    <3> QED
      BY <2>2, <3>2 DEF k
  <2> QED
    BY <1>2, <2>1, <2>2
<1>4. \A j \in Keys : AgeKept(j)
  BY <1>1 DEF AgeKept
<1> QED
  BY <1>3, <1>4, RowLess

\* A page loaded anew leaves the requests on their way at work.
LEMMA ReloadRow ==
    ASSUME IndInv, IndInv', RowInv, Reload
    PROVE  RowInv' /\ Single
<1>1. net \in SUBSET Claims /\ keys' = keys /\ net' = {Cut(m) : m \in net}
  BY DEF IndInv, TypeInv, Reload
<1>2. \A m \in net : /\ Cut(m).id = m.id
                     /\ Cut(m).key = m.key
                     /\ Cut(m).age = m.age
                     /\ Cut(m).pc = m.pc
                     /\ Cut(m).same = m.same
                     /\ Cut(m).stale = m.stale
  <2> SUFFICES ASSUME NEW m \in Claims
               PROVE  /\ Cut(m).id = m.id
                      /\ Cut(m).key = m.key
                      /\ Cut(m).age = m.age
                      /\ Cut(m).pc = m.pc
                      /\ Cut(m).same = m.same
                      /\ Cut(m).stale = m.stale
    BY <1>1
  <2> QED
    BY DEF Cut, Claims
<1>3. \A x \in net' : \E o \in net : x = Cut(o)
  BY <1>1
<1>4. \A x \in net' : \E o \in net : /\ x.id = o.id
                                     /\ x.key = o.key
                                     /\ x.age = o.age
                                     /\ x.pc = o.pc
                                     /\ x.same = o.same
                                     /\ x.stale = o.stale
  BY <1>2, <1>3
<1>5. \A j \in Keys : AgeKept(j)
  BY <1>1 DEF AgeKept
<1> QED
  BY <1>4, <1>5, RowLess

(* Claims and rows grow old together.                                       *)
LEMMA TickRow ==
    ASSUME IndInv, IndInv', RowInv, Tick
    PROVE  RowInv' /\ Single
<1>1. net \in SUBSET Claims /\ KeysTypeOK
  BY DEF IndInv, TypeInv
<1>2. PICK f : /\ Goes(f)
               /\ \A o \in net : /\ f[o].age = Older(o.age)
                                 /\ f[o].pc = o.pc
                                 /\ f[o].number = o.number
                                 /\ f[o].same = o.same
                                 /\ f[o].stale = o.stale
  BY <1>1, TickMoves DEF Tick
<1>3. \A j \in Keys : IF keys[j] = NoKey THEN keys'[j] = NoKey
                      ELSE keys'[j] # NoKey /\ keys'[j].age = Older(keys[j].age)
  BY <1>1, KeysAgeFacts DEF Tick
<1>4. ASSUME NEW o \in net
      PROVE  HeldIn(keys', f[o]) /\ OldIn(keys', f[o])
  <2> DEFINE x == f[o]
             j == o.key
  <2>1. x.key = j /\ x.age = Older(o.age) /\ x.pc = o.pc /\ x.same = o.same /\ x.stale = o.stale
    BY <1>2 DEF Goes
  <2>2. j \in Keys /\ o.age \in Ages /\ HeldIn(keys, o) /\ OldIn(keys, o)
    BY <1>1 DEF Claims, RowInv
  <2>3. keys[j] # NoKey => keys[j].age \in Ages
    BY <1>1, <2>2 DEF KeysTypeOK, KeyRow
  <2>4. \A a, b \in Ages : a <= b => Older(a) <= Older(b)
    BY Bounds DEF Ages, Older
  <2>5. Older(o.age) \in Int /\ Older(o.age) >= o.age /\ o.age \in Int /\ Reclaim \in Int
    BY <2>2, OlderFacts, Bounds DEF Ages
  <2>6. keys[j] # NoKey => Older(keys[j].age) \in Int /\ Older(keys[j].age) >= keys[j].age
                           /\ keys[j].age \in Int
    BY <2>3, OlderFacts DEF Ages
  <2> HIDE DEF x
  <2>7. HeldIn(keys', x)
    BY <1>3, <2>1, <2>2, <2>3, <2>4, <2>5 DEF HeldIn, Executes
  <2>8. OldIn(keys', x)
    BY <1>3, <2>1, <2>2, <2>5, <2>6 DEF OldIn
  <2> QED
    BY <2>7, <2>8 DEF x
<1>5. RowInv'
  <2> SUFFICES ASSUME NEW x \in net'
               PROVE  HeldIn(keys', x) /\ OldIn(keys', x)
    BY DEF RowInv, HeldIn, OldIn, Executes
  <2>1. PICK o \in net : x = f[o]
    BY <1>2 DEF Goes
  <2> QED
    BY <1>4, <2>1
<1>6. Single
  BY <1>2 DEF Single, Admitted, Goes
<1> QED
  BY <1>5, <1>6

\* Every step keeps RowInv and is as OneExecution says.
LEMMA StepRow ==
    ASSUME IndInv, IndInv', RowInv, [Next]_vars
    PROVE  RowInv' /\ Single
<1>1. ASSUME net' = net, keys' = keys
      PROVE  RowInv' /\ Single
  <2>1. \A j \in Keys : AgeKept(j)
    BY <1>1 DEF AgeKept
  <2> QED
    BY <1>1, <2>1, RowLess
<1>2. CASE UNCHANGED vars
  BY <1>1, <1>2 DEF vars
<1>3. ASSUME NEW e \in Elements, Save(e)
      PROVE  RowInv' /\ Single
  BY <1>3, SaveRow
<1>4. ASSUME NEW d \in Docs, DeleteProductionOrder(d)
      PROVE  RowInv' /\ Single
  BY <1>1, <1>4 DEF DeleteProductionOrder
<1>5. CASE Reload
  BY <1>5, ReloadRow
<1>6. ASSUME NEW m \in net, Serve(m)
      PROVE  RowInv' /\ Single
  BY <1>6, TryCreateRow, FindRow, ForgetRow, TakeOverRow, WorkRow, CompleteRow DEF Serve
<1>7. ASSUME NEW m \in net, LoseClaim(m)
      PROVE  RowInv' /\ Single
  BY <1>7, LoseClaimRow
<1>8. ASSUME NEW m \in net, FailClaim(m)
      PROVE  RowInv' /\ Single
  <2>1. net' = net \ {m} /\ \A j \in Keys : AgeKept(j)
    BY <1>8 DEF FailClaim, AgeKept
  <2> QED
    BY <2>1, RowLess
<1>9. ASSUME NEW w \in out, PutList(w) \/ DeleteOrder(w) \/ Refuse(w) \/ LoseWrite(w)
      PROVE  RowInv' /\ Single
  BY <1>1, <1>9 DEF PutList, DeleteOrder, Refuse, LoseWrite, Done
<1>10. CASE Tick
  BY <1>10, TickRow
<1> QED
  BY <1>2, <1>3, <1>4, <1>5, <1>6, <1>7, <1>8, <1>9, <1>10 DEF Next

(* Whatever is lost, repeated or restarted, a second execution of a key     *)
(* begins only beside one that is older than PENDING_RECLAIM_MS, or when a  *)
(* row past its TTL was met.                                                *)
THEOREM OneExecutionCorrect == Spec => OneExecution
<1>1. Init => RowInv
  BY DEF Init, RowInv
<1>2. IndInv /\ IndInv' /\ RowInv /\ [Next]_vars => RowInv'
  BY StepRow
<1>3. IndInv /\ IndInv' /\ RowInv /\ [Next]_vars
        => [\A m \in Admitted, o \in net :
              o \in Executing(m.key) => o.age >= Reclaim \/ o.stale \/ m.stale]_vars
  BY StepRow DEF Single
<1> QED
  BY <1>1, <1>2, <1>3, IndInvCorrect, PTL DEF Spec, OneExecution


-----------------------------------------------------------------------------
(* One answer in a life of a key.                                           *)

(* As long as no executions have crossed: one claim executes at most, for   *)
(* the body that is stored, and nobody has been answered yet; a row that is *)
(* PENDING was never answered for; one with a result, or a key without a    *)
(* row, has one answer at most.                                             *)
OneLife(row, executing, answers) ==
    /\ \A o, p \in executing : o = p
    /\ \A o \in executing :
          /\ answers = {}
          /\ row # NoKey => row.result = NoResult /\ row.body = o.body
    /\ row # NoKey /\ row.result = NoResult => answers = {}
    /\ row # NoKey /\ row.result # NoResult => answers \subseteq {<<row.body, row.result>>}
    /\ \A s, t \in answers : s = t

LifeAt(k) == crossed[k] \/ OneLife(keys[k], Executing(k), told[k])

LifeInv == \A k \in Keys : LifeAt(k)

\* The row of key k is the same but for its age, or it is gone.
RowSame(k) ==
    \/ keys'[k] = NoKey
    \/ /\ keys[k] # NoKey
       /\ keys'[k] # NoKey
       /\ keys'[k].body = keys[k].body
       /\ keys'[k].result = keys[k].result

Unheard(k) == told'[k] = told[k] /\ crossed'[k] = crossed[k]

(* A life goes on when its row does and nobody begins to execute.           *)
LEMMA LifeKept ==
    ASSUME NEW k \in Keys, LifeAt(k), Unheard(k), RowSame(k), NEW f,
           \A x \in net' : x.key = k /\ Executes(x) =>
               \E o \in net : o.key = k /\ Executes(o) /\ x = f[o] /\ x.body = o.body
    PROVE  LifeAt(k)'
<1>1. CASE crossed[k]
  BY <1>1 DEF LifeAt, Unheard
<1>2. CASE OneLife(keys[k], Executing(k), told[k])
  <2> DEFINE before == Executing(k)
             after == {x \in net' : x.key = k /\ Executes(x)}
  <2>1. \A x \in after : \E o \in before : x = f[o] /\ x.body = o.body
    BY DEF Executing, Executes
  <2>2. Executing(k)' = after
    BY DEF Executing, Executes
  <2> HIDE DEF before, after
  <2>3. OneLife(keys[k], before, told[k])
    BY <1>2 DEF before
  <2>4. \A x, y \in after : x = y
    BY <2>1, <2>3 DEF OneLife
  <2>5. OneLife(keys'[k], after, told'[k])
    BY <2>1, <2>3, <2>4 DEF OneLife, Unheard, RowSame
  <2> QED
    BY <2>2, <2>5 DEF LifeAt
<1> QED
  BY <1>1, <1>2 DEF LifeAt

(* A step of claim m that goes on as n, and does not begin to execute.      *)
LEMMA LifeGoes ==
    ASSUME NEW k \in Keys, LifeAt(k), Unheard(k), RowSame(k),
           NEW m \in net, NEW n, NEW f, Goes(f), Keeps(f, m, n),
           m.key # k \/ (Executes(n) => Executes(m))
    PROVE  LifeAt(k)'
<1>1. ASSUME NEW x \in net', x.key = k, Executes(x)
      PROVE  \E o \in net : o.key = k /\ Executes(o) /\ x = f[o] /\ x.body = o.body
  <2>1. PICK o \in net : x = f[o]
    BY DEF Goes
  <2>2. o.key = k /\ x.body = o.body
    BY <1>1, <2>1 DEF Goes
  <2>3. CASE o = m
    BY <1>1, <2>1, <2>2, <2>3 DEF Keeps
  <2>4. CASE o # m
    BY <1>1, <2>1, <2>2, <2>4 DEF Keeps, Executes
  <2> QED
    BY <2>3, <2>4
<1> QED
  BY <1>1, LifeKept

(* A step in which claims only go away, and new ones have not begun.        *)
LEMMA LifeLess ==
    ASSUME NEW k \in Keys, LifeAt(k), Unheard(k), RowSame(k),
           \A x \in net' : x.pc = "create" \/ x \in net
    PROVE  LifeAt(k)'
<1> DEFINE f == [o \in net |-> o]
<1>1. \A o \in net : f[o] = o
  OBVIOUS
<1> HIDE DEF f
<1>2. ASSUME NEW x \in net', x.key = k, Executes(x)
      PROVE  \E o \in net : o.key = k /\ Executes(o) /\ x = f[o] /\ x.body = o.body
  BY <1>1, <1>2 DEF Executes
<1> QED
  BY <1>2, LifeKept

\* A row that cleanupExpired leaves says what it said.
LEMMA SweptSame ==
    ASSUME NEW k, Swept(k)
    PROVE  RowSame(k)
  BY DEF Swept, RowSame

\* A created row begins a life of its key, in which nothing was answered.
LEMMA TryCreateLife ==
    ASSUME IndInv, LifeInv, NEW m \in net, TryCreate(m)
    PROVE  LifeInv'
<1> SUFFICES ASSUME NEW k \in Keys
             PROVE  LifeAt(k)'
  BY DEF LifeInv
<1>1. m \in Claims /\ TypeInv /\ m.key \in Keys /\ m.body \in Bodies /\ m.age \in Ages
      /\ net \in SUBSET Claims /\ LifeAt(k)
  BY DEF IndInv, TypeInv, Claims, LifeInv
<1>2. told \in [Keys -> SUBSET (Bodies \X Results)] /\ crossed \in [Keys -> BOOLEAN]
  BY <1>1 DEF TypeInv, HistoryType
<1>3. CASE /\ CreateKey(m.key, m.body, m.age)
           /\ GoOnFresh(m, [m EXCEPT !.pc = "work"])
           /\ told' = [told EXCEPT ![m.key] = {}]
           /\ crossed' = [crossed EXCEPT ![m.key] = Executing(m.key) # {}]
  <2> DEFINE n == [m EXCEPT !.pc = "work"]
  <2>1. n \in Claims /\ n.id = m.id /\ n.key = m.key /\ n.body = m.body
        /\ n.awaited = m.awaited /\ n.pc = "work" /\ n.age = m.age
    BY <1>1 DEF Claims
  <2>2. GoOnFresh(m, n)
    BY <1>3
  <2> HIDE DEF n
  <2>3. PICK f : Goes(f) /\ Keeps(f, m, n)
    BY <1>1, <2>1, <2>2, GoOnFreshMoves
  <2>4. /\ keys'[m.key] = NewRow(m.body, m.age)
        /\ \A j \in Keys : j # m.key => Swept(j)
    BY <1>1, <1>3, CreateFacts DEF TypeInv
  <2>5. CASE k # m.key
    <3>1. Unheard(k) /\ RowSame(k)
      BY <1>2, <1>3, <2>4, <2>5, SweptSame DEF Unheard
    <3> QED
      BY <1>1, <2>3, <2>5, <3>1, LifeGoes
  <2>6. CASE k = m.key /\ Executing(m.key) # {}
    <3>1. crossed'[k]
      BY <1>1, <1>2, <1>3, <2>6
    <3> QED
      BY <3>1 DEF LifeAt
  <2>7. CASE k = m.key /\ Executing(m.key) = {}
    <3>1. told'[k] = {}
      BY <1>1, <1>2, <1>3, <2>7
    <3>2. keys'[k].body = m.body /\ keys'[k].result = NoResult
      BY <2>4, <2>7 DEF NewRow
    <3>3. \A x \in net' : x.key = k /\ Executes(x) => x = n
      <4> SUFFICES ASSUME NEW x \in net', x.key = k, Executes(x)
                   PROVE  x = n
        OBVIOUS
      <4>1. PICK o \in net : x = f[o]
        BY <2>3 DEF Goes
      <4>2. o # m => o \in Executing(m.key)
        BY <2>3, <2>7, <4>1 DEF Goes, Keeps, Executes, Executing
      <4> QED
        BY <2>3, <2>7, <4>1, <4>2 DEF Keeps
    <3>4. \A x \in Executing(k)' : x = n
      BY <3>3 DEF Executing, Executes
    <3> DEFINE after == Executing(k)'
    <3>5. OneLife(keys'[k], after, told'[k])
      <4>1. \A x \in after : x = n
        BY <3>4
      <4> HIDE DEF after
      <4> QED
        BY <2>1, <3>1, <3>2, <4>1 DEF OneLife
    <3> QED
      BY <3>5 DEF LifeAt
  <2> QED
    BY <2>5, <2>6, <2>7
<1>4. CASE GoOn(m, [m EXCEPT !.pc = "find"]) /\ UNCHANGED <<keys, told, crossed>>
           /\ keys[m.key] # NoKey
  <2> DEFINE n == [m EXCEPT !.pc = "find"]
  <2>1. n \in Claims /\ n.id = m.id /\ n.key = m.key /\ n.body = m.body
        /\ n.awaited = m.awaited /\ n.pc = "find"
    BY <1>1 DEF Claims
  <2>2. GoOn(m, n)
    BY <1>4
  <2> HIDE DEF n
  <2>3. PICK f : Goes(f) /\ Keeps(f, m, n)
    BY <1>1, <2>1, <2>2, GoOnMoves
  <2>4. Unheard(k) /\ RowSame(k)
    BY <1>4 DEF Unheard, RowSame
  <2> QED
    BY <1>1, <2>1, <2>3, <2>4, LifeGoes DEF Executes
<1> QED
  BY <1>3, <1>4 DEF TryCreate


\* A replay answers what the row holds, which is what the key has answered.
LEMMA FindLife ==
    ASSUME IndInv, LifeInv, NEW m \in net, Find(m)
    PROVE  LifeInv'
<1> SUFFICES ASSUME NEW k \in Keys
             PROVE  LifeAt(k)'
  BY DEF LifeInv
<1> DEFINE choice == Decision(keys[m.key], m.body)
<1>1. m \in Claims /\ TypeInv /\ KeysTypeOK /\ m.key \in Keys /\ m.body \in Bodies /\ m.age \in Ages
      /\ net \in SUBSET Claims /\ LifeAt(k)
  BY DEF IndInv, TypeInv, Claims, LifeInv
<1>2. told \in [Keys -> SUBSET (Bodies \X Results)] /\ crossed \in [Keys -> BOOLEAN]
  BY <1>1 DEF TypeInv, HistoryType
<1>3. Swept(k) /\ RowSame(k)
  BY <1>1, CleanedFacts, SweptSame DEF Find
<1>4. CASE choice = "proceed"
  <2> DEFINE n == [m EXCEPT !.pc = "work", !.stale = TRUE]
  <2>1. n \in Claims /\ n.id = m.id /\ n.key = m.key /\ n.body = m.body
        /\ n.awaited = m.awaited /\ n.pc = "work" /\ n.stale
    BY <1>1 DEF Claims
  <2>2. GoOn(m, n) /\ crossed' = [crossed EXCEPT ![m.key] = TRUE] /\ told' = told
    BY <1>4 DEF Find, Crossing
  <2> HIDE DEF n
  <2>3. PICK f : Goes(f) /\ Keeps(f, m, n)
    BY <1>1, <2>1, <2>2, GoOnMoves
  <2>4. CASE k = m.key
    <3>1. crossed'[k]
      BY <1>1, <1>2, <2>2, <2>4
    <3> QED
      BY <3>1 DEF LifeAt
  <2>5. CASE k # m.key
    <3>1. Unheard(k)
      BY <1>2, <2>2, <2>5 DEF Unheard
    <3> QED
      BY <1>1, <1>3, <2>3, <2>5, <3>1, LifeGoes
  <2> QED
    BY <2>4, <2>5
<1>5. CASE choice = "forget"
  <2> DEFINE n == [m EXCEPT !.pc = "forget", !.stale = TRUE]
  <2>1. n \in Claims /\ n.id = m.id /\ n.key = m.key /\ n.body = m.body
        /\ n.awaited = m.awaited /\ n.pc = "forget"
    BY <1>1 DEF Claims
  <2>2. GoOn(m, n) /\ Unheard(k)
    BY <1>5 DEF Find, Unheard
  <2> HIDE DEF n
  <2>3. PICK f : Goes(f) /\ Keeps(f, m, n)
    BY <1>1, <2>1, <2>2, GoOnMoves
  <2> QED
    BY <1>1, <1>3, <2>1, <2>2, <2>3, LifeGoes DEF Executes
<1>6. CASE choice = "replay"
  <2> DEFINE row == keys[m.key]
  <2>1. row \in KeyRow /\ row.body = m.body /\ row.result \in Results
    BY <1>1, <1>6, DecisionFacts
  <2>2. /\ net' = net \ {m}
        /\ told' = [told EXCEPT ![m.key] = @ \cup {<<m.body, row.result>>}]
        /\ crossed' = crossed
    BY <1>6 DEF Find
  <2>3. CASE k # m.key
    <3>1. Unheard(k)
      BY <1>2, <2>2, <2>3 DEF Unheard
    <3> QED
      BY <1>1, <1>3, <2>2, <3>1, LifeLess
  <2>4. CASE k = m.key /\ crossed[k]
    BY <2>2, <2>4 DEF LifeAt
  <2>5. CASE k = m.key /\ ~ crossed[k]
    <3> DEFINE answer == <<m.body, row.result>>
               before == Executing(k)
    <3>1. OneLife(row, before, told[k])
      BY <1>1, <2>5 DEF LifeAt
    <3>2. row # NoKey /\ row.result # NoResult
      BY <2>1, NoKeyAssumption
    <3>3. before = {} /\ told[k] \subseteq {answer}
      <4> HIDE DEF before
      <4> QED
        BY <2>1, <3>1, <3>2 DEF OneLife
    <3>4. Executing(k)' = {}
      BY <2>2, <3>3 DEF Executing
    <3>5. told'[k] = {answer}
      BY <1>2, <2>2, <2>5, <3>3
    <3>6. keys'[k] = NoKey \/ keys'[k] = row
      BY <1>3, <2>5 DEF Swept
    <3> HIDE DEF row
    <3>7. OneLife(keys'[k], {}, told'[k])
      BY <2>1, <3>2, <3>5, <3>6 DEF OneLife
    <3> QED
      BY <3>4, <3>7 DEF LifeAt
  <2> QED
    BY <2>3, <2>4, <2>5
<1>7. CASE choice \in {"reuse", "in-progress"}
  <2>1. net' = net \ {m} /\ Unheard(k)
    BY <1>7 DEF Find, Unheard
  <2> QED
    BY <1>1, <1>3, <2>1, LifeLess
<1>8. CASE choice = "reclaim"
  <2> DEFINE n == [m EXCEPT !.pc = "reclaim", !.same = TRUE]
  <2>1. n \in Claims /\ n.id = m.id /\ n.key = m.key /\ n.body = m.body
        /\ n.awaited = m.awaited /\ n.pc = "reclaim"
    BY <1>1 DEF Claims
  <2>2. GoOn(m, n) /\ Unheard(k)
    BY <1>8 DEF Find, Unheard
  <2> HIDE DEF n
  <2>3. PICK f : Goes(f) /\ Keeps(f, m, n)
    BY <1>1, <2>1, <2>2, GoOnMoves
  <2> QED
    BY <1>1, <1>3, <2>1, <2>2, <2>3, LifeGoes DEF Executes
<1> QED
  BY <1>4, <1>5, <1>6, <1>7, <1>8 DEF Find

\* A row past its TTL that is deleted ends a life of its key.
LEMMA ForgetLife ==
    ASSUME IndInv, LifeInv, NEW m \in net, Forget(m)
    PROVE  LifeInv'
<1> SUFFICES ASSUME NEW k \in Keys
             PROVE  LifeAt(k)'
  BY DEF LifeInv
<1> DEFINE n == [m EXCEPT !.pc = "create", !.age = 0]
<1>1. m \in Claims /\ KeysTypeOK /\ m.key \in Keys /\ net \in SUBSET Claims /\ LifeAt(k)
  BY DEF IndInv, TypeInv, Claims, LifeInv
<1>2. n.pc = "create"
  BY <1>1 DEF Claims
<1>3. PICK f : Goes(f) /\ Keeps(f, m, n)
  BY <1>1, ForgetMoves
<1> HIDE DEF n
<1>4. RowSame(k)
  BY <1>1, ForgetFacts DEF Forget, RowSame
<1>5. Unheard(k)
  BY DEF Forget, Unheard
<1> QED
  BY <1>1, <1>2, <1>3, <1>4, <1>5, LifeGoes DEF Executes

\* A takeover has met no answer, or marks that two lives cross.
LEMMA TakeOverLife ==
    ASSUME IndInv, LifeInv, NEW m \in net, TakeOver(m)
    PROVE  LifeInv'
<1> SUFFICES ASSUME NEW k \in Keys
             PROVE  LifeAt(k)'
  BY DEF LifeInv
<1>1. m \in Claims /\ TypeInv /\ KeysTypeOK /\ m.key \in Keys /\ m.body \in Bodies /\ m.age \in Ages
      /\ net \in SUBSET Claims /\ LifeAt(k)
  BY DEF IndInv, TypeInv, Claims, LifeInv
<1>2. told' = told /\ crossed \in [Keys -> BOOLEAN]
  BY <1>1 DEF TypeInv, HistoryType, TakeOver
<1>3. CASE StillThere(m)
  <2> DEFINE n == [m EXCEPT !.pc = "work"]
  <2>1. n \in Claims /\ n.id = m.id /\ n.key = m.key /\ n.body = m.body
        /\ n.awaited = m.awaited /\ n.pc = "work" /\ n.age = m.age
    BY <1>1 DEF Claims
  <2>2. /\ GoOnFresh(m, n)
        /\ ReclaimKey(m.key, m.body, m.age)
        /\ IF Executing(m.key) = {} THEN crossed' = crossed
           ELSE crossed' = [crossed EXCEPT ![m.key] = TRUE]
    BY <1>3 DEF TakeOver, Crossing
  <2> HIDE DEF n
  <2>3. PICK f : Goes(f) /\ Keeps(f, m, n)
    BY <1>1, <2>1, <2>2, GoOnFreshMoves
  <2>4. /\ Pending(m.key)
        /\ keys'[m.key] = NewRow(m.body, m.age)
        /\ \A j \in Keys : j # m.key => keys'[j] = keys[j]
    BY <1>1, <2>2, ReclaimFacts
  <2>5. CASE k # m.key
    <3>1. Unheard(k)
      BY <1>2, <2>2, <2>5 DEF Unheard
    <3>2. RowSame(k)
      BY <2>4, <2>5 DEF RowSame
    <3> QED
      BY <1>1, <2>3, <2>5, <3>1, <3>2, LifeGoes
  <2>6. CASE k = m.key /\ Executing(m.key) # {}
    <3>1. crossed'[k]
      BY <1>1, <1>2, <2>2, <2>6
    <3> QED
      BY <3>1 DEF LifeAt
  <2>7. CASE k = m.key /\ Executing(m.key) = {} /\ crossed[k]
    BY <2>2, <2>7 DEF LifeAt
  <2>8. CASE k = m.key /\ Executing(m.key) = {} /\ ~ crossed[k]
    <3>1. OneLife(keys[k], Executing(k), told[k])
      BY <1>1, <2>8 DEF LifeAt
    <3>2. told'[k] = {}
      BY <1>2, <2>4, <2>8, <3>1 DEF OneLife, Pending
    <3>3. keys'[k].body = m.body /\ keys'[k].result = NoResult
      BY <2>4, <2>8 DEF NewRow
    <3>4. \A x \in net' : x.key = k /\ Executes(x) => x = n
      <4> SUFFICES ASSUME NEW x \in net', x.key = k, Executes(x)
                   PROVE  x = n
        OBVIOUS
      <4>1. PICK o \in net : x = f[o]
        BY <2>3 DEF Goes
      <4>2. o # m => o \in Executing(m.key)
        BY <2>3, <2>8, <4>1 DEF Goes, Keeps, Executes, Executing
      <4> QED
        BY <2>3, <2>8, <4>1, <4>2 DEF Keeps
    <3>5. \A x \in Executing(k)' : x = n
      BY <3>4 DEF Executing, Executes
    <3> DEFINE after == Executing(k)'
    <3>6. OneLife(keys'[k], after, told'[k])
      <4>1. \A x \in after : x = n
        BY <3>5
      <4> HIDE DEF after
      <4> QED
        BY <2>1, <3>2, <3>3, <4>1 DEF OneLife
    <3> QED
      BY <3>6 DEF LifeAt
  <2> QED
    BY <2>5, <2>6, <2>7, <2>8
<1>4. CASE ~ StillThere(m)
  <2>1. net' = net \ {m} /\ UNCHANGED <<keys, crossed>>
    BY <1>4 DEF TakeOver
  <2>2. Unheard(k) /\ RowSame(k)
    BY <1>2, <2>1 DEF Unheard, RowSame
  <2> QED
    BY <1>1, <2>1, <2>2, LifeLess
<1> QED
  BY <1>3, <1>4

\* A number claimed by the one request at work is not answered yet.
LEMMA WorkLife ==
    ASSUME IndInv, LifeInv, NEW m \in net, Work(m)
    PROVE  LifeInv'
<1> SUFFICES ASSUME NEW k \in Keys
             PROVE  LifeAt(k)'
  BY DEF LifeInv
<1>1. m \in Claims /\ TypeInv /\ net \in SUBSET Claims /\ m.pc = "work" /\ LifeAt(k)
      /\ UNCHANGED <<keys, told, crossed>>
  BY DEF IndInv, TypeInv, Work, Claims, LifeInv
<1>2. PICK head \in lastNumber[Owner][year] .. MaxSeq :
         /\ ClaimProductionSeqs(Owner, 1, head)
         /\ \E r \in NumbersOf(Owner, ClaimedSeqs(Owner, 1, head)) :
               GoOn(m, [m EXCEPT !.pc = "complete", !.number = r])
  BY DEF Work
<1>3. NumbersOf(Owner, ClaimedSeqs(Owner, 1, head)) \subseteq Results
  BY <1>1, <1>2, WorkTakes DEF Work, TypeInv
<1>4. PICK r \in Results : GoOn(m, [m EXCEPT !.pc = "complete", !.number = r])
  BY <1>2, <1>3
<1> DEFINE n == [m EXCEPT !.pc = "complete", !.number = r]
<1>5. n \in Claims /\ n.id = m.id /\ n.key = m.key /\ n.body = m.body /\ n.awaited = m.awaited
  BY <1>1 DEF Claims
<1>6. GoOn(m, n)
  BY <1>4
<1> HIDE DEF n
<1>7. PICK f : Goes(f) /\ Keeps(f, m, n)
  BY <1>1, <1>5, <1>6, GoOnMoves
<1>8. Executes(m) /\ Unheard(k) /\ RowSame(k)
  BY <1>1 DEF Executes, Unheard, RowSame
<1> QED
  BY <1>1, <1>7, <1>8, LifeGoes

(* The answer is the one that the row keeps, if there still is a row.       *)
LEMMA CompleteLife ==
    ASSUME IndInv, LifeInv, NEW m \in net, Complete(m)
    PROVE  LifeInv'
<1> SUFFICES ASSUME NEW k \in Keys
             PROVE  LifeAt(k)'
  BY DEF LifeInv
<1>1. m \in Claims /\ TypeInv /\ KeysTypeOK /\ m.key \in Keys /\ m.number \in Results
      /\ net' = net \ {m} /\ m.pc = "complete" /\ LifeAt(k)
  BY DEF IndInv, TypeInv, Claims, NetInv, Complete, LifeInv
<1>2. /\ CompleteKey(m.key, m.number)
      /\ told' = [told EXCEPT ![m.key] = @ \cup {<<m.body, m.number>>}]
      /\ crossed' = crossed
      /\ told \in [Keys -> SUBSET (Bodies \X Results)]
  BY <1>1 DEF Complete, TypeInv, HistoryType
<1>3. /\ \A j \in Keys : j # m.key => keys'[j] = keys[j]
      /\ ~ Pending(m.key) => keys'[m.key] = keys[m.key]
      /\ Pending(m.key) => /\ keys'[m.key] # NoKey
                           /\ keys'[m.key].result = m.number
                           /\ keys'[m.key].body = keys[m.key].body
  BY <1>1, <1>2, CompleteFacts
<1>4. CASE k # m.key
  <2>1. Unheard(k) /\ RowSame(k)
    BY <1>2, <1>3, <1>4 DEF Unheard, RowSame
  <2> QED
    BY <1>1, <2>1, LifeLess
<1>5. CASE k = m.key /\ crossed[k]
  BY <1>2, <1>5 DEF LifeAt
<1>6. CASE k = m.key /\ ~ crossed[k]
  <2> DEFINE before == Executing(k)
             answer == <<m.body, m.number>>
  <2>1. OneLife(keys[k], before, told[k])
    BY <1>1, <1>6 DEF LifeAt
  <2>2. m \in before
    BY <1>1, <1>6 DEF Executing
  <2>3. Executing(k)' = before \ {m}
    BY <1>1 DEF Executing
  <2> HIDE DEF before
  <2>4. Executing(k)' = {}
    BY <2>1, <2>2, <2>3 DEF OneLife
  <2>5. told[k] = {} /\ (keys[k] # NoKey => keys[k].result = NoResult /\ keys[k].body = m.body)
    BY <2>1, <2>2 DEF OneLife
  <2>6. told'[k] = {answer}
    BY <1>1, <1>2, <1>6, <2>5
  <2>7. \/ keys'[k] = NoKey
        \/ keys'[k] # NoKey /\ keys'[k].result = m.number /\ keys'[k].body = m.body
    BY <1>3, <1>6, <2>5 DEF Pending
  <2>8. m.number # NoResult
    BY <1>1, NoKeyAssumption
  <2>9. OneLife(keys'[k], {}, told'[k])
    BY <2>6, <2>7, <2>8 DEF OneLife
  <2> QED
    BY <2>4, <2>9 DEF LifeAt
<1> QED
  BY <1>4, <1>5, <1>6

\* A lost attempt or a new one changes no life of a key.
LEMMA LoseClaimLife ==
    ASSUME IndInv, LifeInv, NEW m \in net, LoseClaim(m)
    PROVE  LifeInv'
<1> SUFFICES ASSUME NEW k \in Keys
             PROVE  LifeAt(k)'
  BY DEF LifeInv
<1>1. m \in Claims /\ TypeInv /\ m.key \in Keys /\ LifeAt(k) /\ Unheard(k) /\ RowSame(k)
  BY DEF IndInv, TypeInv, Claims, LoseClaim, LifeInv, Unheard, RowSame
<1>2. PICK rest \in {net \ {m}, (net \ {m}) \cup {Cut(m)}} :
        \/ /\ Cardinality(rest) < MaxNet
           /\ net' = Asked(rest, m.key)
        \/ net' = rest
  BY DEF LoseClaim, Asked
<1> DEFINE c == Cut(m)
           f == [o \in net |-> IF o = m /\ m \notin rest THEN c ELSE o]
<1>3. c \in Claims /\ c.key = m.key /\ c.pc = m.pc /\ c.body = m.body
  BY <1>1 DEF Cut, Claims
<1>4. rest = net \ {m} \/ rest = (net \ {m}) \cup {c}
  BY <1>2
<1>5. \A x \in net' : x.pc = "create" \/ x \in rest
  <2>1. CASE net' = rest
    BY <2>1
  <2>2. CASE net' = Asked(rest, m.key)
    BY <2>2 DEF Asked, WithClaim
  <2> QED
    BY <1>2, <2>1, <2>2
<1> HIDE DEF c
<1>6. \A o \in net : f[o] = IF o = m /\ m \notin rest THEN c ELSE o
  OBVIOUS
<1> HIDE DEF f
<1>7. ASSUME NEW x \in net', x.key = k, Executes(x)
      PROVE  \E o \in net : o.key = k /\ Executes(o) /\ x = f[o] /\ x.body = o.body
  <2>1. x \in rest
    BY <1>5, <1>7 DEF Executes
  <2>2. CASE x \in net
    <3>1. f[x] = x
      BY <1>6, <2>1, <2>2
    <3> QED
      BY <1>7, <2>2, <3>1
  <2>3. CASE x \notin net
    <3>1. x = c /\ m \notin rest
      BY <1>4, <2>1, <2>3
    <3>2. x = f[m]
      BY <1>6, <3>1
    <3> QED
      BY <1>3, <1>7, <3>1, <3>2 DEF Executes
  <2> QED
    BY <2>2, <2>3
<1> QED
  BY <1>1, <1>7, LifeKept


\* Sending a claim changes no life of a key.
LEMMA SaveLife ==
    ASSUME IndInv, LifeInv, NEW e \in Elements, Save(e)
    PROVE  LifeInv'
<1> SUFFICES ASSUME NEW k \in Keys
             PROVE  LifeAt(k)'
  BY DEF LifeInv
<1>1. LifeAt(k) /\ Unheard(k) /\ RowSame(k)
  BY DEF Save, LifeInv, Unheard, RowSame
<1>2. net' = net \/ \E d \in Docs : net' = WithClaim(net, KeyOf(d), FormBody, TRUE)
  BY DEF Save
<1>3. \A x \in net' : x.pc = "create" \/ x \in net
  BY <1>2 DEF WithClaim
<1> QED
  BY <1>1, <1>3, LifeLess

\* Loading the page anew changes no life of a key.
LEMMA ReloadLife ==
    ASSUME IndInv, LifeInv, Reload
    PROVE  LifeInv'
<1> SUFFICES ASSUME NEW k \in Keys
             PROVE  LifeAt(k)'
  BY DEF LifeInv
<1> DEFINE f == [o \in net |-> Cut(o)]
<1>1. LifeAt(k) /\ Unheard(k) /\ RowSame(k) /\ net \in SUBSET Claims
      /\ net' = {Cut(m) : m \in net}
  BY DEF Reload, LifeInv, Unheard, RowSame, IndInv, TypeInv
<1>2. \A m \in Claims : Cut(m).key = m.key /\ Cut(m).pc = m.pc /\ Cut(m).body = m.body
  BY DEF Cut, Claims
<1>3. \A o \in net : f[o] = Cut(o)
  OBVIOUS
<1> HIDE DEF f
<1>4. ASSUME NEW x \in net', x.key = k, Executes(x)
      PROVE  \E o \in net : o.key = k /\ Executes(o) /\ x = f[o] /\ x.body = o.body
  <2>1. PICK o \in net : x = Cut(o)
    BY <1>1
  <2>2. x.key = o.key /\ x.pc = o.pc /\ x.body = o.body
    BY <1>1, <1>2, <2>1
  <2> QED
    BY <1>3, <1>4, <2>1, <2>2 DEF Executes
<1>5. LifeAt(k) /\ Unheard(k) /\ RowSame(k)
  BY <1>1
<1> QED
  BY <1>4, <1>5, LifeKept

\* The clock changes no life of a key, but may end it.
LEMMA TickLife ==
    ASSUME IndInv, LifeInv, Tick
    PROVE  LifeInv'
<1> SUFFICES ASSUME NEW k \in Keys
             PROVE  LifeAt(k)'
  BY DEF LifeInv
<1>1. LifeAt(k) /\ Unheard(k) /\ net \in SUBSET Claims /\ KeysTypeOK
  BY DEF Tick, LifeInv, Unheard, IndInv, TypeInv
<1>2. RowSame(k)
  BY <1>1, KeysAgeFacts DEF Tick, RowSame
<1>3. PICK f : Goes(f) /\ \A o \in net : f[o].pc = o.pc
  BY <1>1, TickMoves DEF Tick
<1>4. ASSUME NEW x \in net', x.key = k, Executes(x)
      PROVE  \E o \in net : o.key = k /\ Executes(o) /\ x = f[o] /\ x.body = o.body
  <2>1. PICK o \in net : x = f[o]
    BY <1>3 DEF Goes
  <2>2. x.key = o.key /\ x.pc = o.pc /\ x.body = o.body
    BY <1>3, <2>1 DEF Goes
  <2> QED
    BY <1>4, <2>1, <2>2 DEF Executes
<1> QED
  BY <1>1, <1>2, <1>4, LifeKept

\* Every step keeps LifeInv.
LEMMA StepLife ==
    ASSUME IndInv, LifeInv, [Next]_vars
    PROVE  LifeInv'
<1>1. ASSUME net' \subseteq net, UNCHANGED <<keys, told, crossed>>
      PROVE  LifeInv'
  <2> SUFFICES ASSUME NEW k \in Keys
               PROVE  LifeAt(k)'
    BY DEF LifeInv
  <2>1. LifeAt(k) /\ Unheard(k) /\ RowSame(k)
    BY <1>1 DEF LifeInv, Unheard, RowSame
  <2> QED
    BY <1>1, <2>1, LifeLess
<1>2. CASE UNCHANGED vars
  BY <1>1, <1>2 DEF vars
<1>3. ASSUME NEW e \in Elements, Save(e)
      PROVE  LifeInv'
  BY <1>3, SaveLife
<1>4. ASSUME NEW d \in Docs, DeleteProductionOrder(d)
      PROVE  LifeInv'
  BY <1>1, <1>4 DEF DeleteProductionOrder
<1>5. CASE Reload
  BY <1>5, ReloadLife
<1>6. ASSUME NEW m \in net, Serve(m)
      PROVE  LifeInv'
  BY <1>6, TryCreateLife, FindLife, ForgetLife, TakeOverLife, WorkLife, CompleteLife DEF Serve
<1>7. ASSUME NEW m \in net, LoseClaim(m)
      PROVE  LifeInv'
  BY <1>7, LoseClaimLife
<1>8. ASSUME NEW m \in net, FailClaim(m)
      PROVE  LifeInv'
  BY <1>1, <1>8 DEF FailClaim
<1>9. ASSUME NEW w \in out, PutList(w) \/ DeleteOrder(w) \/ Refuse(w) \/ LoseWrite(w)
      PROVE  LifeInv'
  BY <1>1, <1>9 DEF PutList, DeleteOrder, Refuse, LoseWrite, Done
<1>10. CASE Tick
  BY <1>10, TickLife
<1> QED
  BY <1>2, <1>3, <1>4, <1>5, <1>6, <1>7, <1>8, <1>9, <1>10 DEF Next

(* All answers in one life of a key are one: who repeats a claim, however   *)
(* often and after whatever failure, is told the number that was granted    *)
(* first, as long as no two executions of the key have crossed.             *)
THEOREM OneAnswerPerKeyCorrect == Spec => []OneAnswerPerKey
<1>1. Init => LifeInv
  BY DEF Init, LifeInv, LifeAt, OneLife, Executing, KeysLeft
<1>2. IndInv /\ LifeInv /\ [Next]_vars => LifeInv'
  BY StepLife
<1>3. LifeInv => OneAnswerPerKey
  <2> SUFFICES ASSUME LifeInv, NEW k \in Keys, ~ crossed[k]
               PROVE  Cardinality(told[k]) <= 1
    BY DEF OneAnswerPerKey
  <2>1. \A s, t \in told[k] : s = t
    BY DEF LifeInv, LifeAt, OneLife
  <2>2. CASE told[k] = {}
    <3>1. Cardinality(told[k]) = 0
      BY <2>2, FS_EmptySet
    <3> QED
      BY <3>1
  <2>3. ASSUME NEW s \in told[k]
        PROVE  Cardinality(told[k]) <= 1
    <3>1. told[k] = {s}
      BY <2>1
    <3>2. Cardinality(told[k]) = 1
      BY <3>1, FS_Singleton
    <3> QED
      BY <3>2
  <2> QED
    BY <2>2, <2>3
<1> QED
  BY <1>1, <1>2, <1>3, IndInvCorrect, PTL DEF Spec

=============================================================================
