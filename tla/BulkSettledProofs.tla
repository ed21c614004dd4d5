------------------------- MODULE BulkSettledProofs -------------------------
(***************************************************************************)
(* Proof of AllSettled of BulkGeneration, for every set of users, runs and *)
(* requests and every size of run and chunk: a run that loses no message   *)
(* has saved or returned all its numbers of this year when it is over,     *)
(* whatever the other runs lose.                                           *)
(*                                                                         *)
(* The invariant follows one run.  Each chunk is given exactly the numbers *)
(* that were claimed for it (ChunkTakesAll), no order ahead of the chunk   *)
(* that is being saved exists, so that a PUT creates all of its orders,    *)
(* what is owed to the run is on orders that the run believes unsaved, and *)
(* while it returns, what is owed of this year is on the slices to come.   *)
(***************************************************************************)
EXTENDS BulkGenerationProofs, FiniteSetTheorems

-----------------------------------------------------------------------------
(* Counting.                                                                *)

(* The chunks of a run are finite: positions start + 1 .. start + ChunkSize. *)
LEMMA ChunkFinite ==
    ASSUME NEW r \in Runs, NEW s \in Nat
    PROVE  /\ IsFiniteSet(Chunk(r, s))
           /\ \A d, e \in Chunk(r, s) : d[2] \in Nat /\ (d[2] = e[2] => d = e)
<1> DEFINE C == Chunk(r, s)
           T == (s + 1) .. (s + ChunkSize)
           f == [d \in C |-> d[2]]
<1>1. \A d \in C : d \in DocsOf(r) /\ d[2] \in T /\ d[2] \in Nat
  BY DocFacts, RunsAssumption DEF Chunk, DocsOf
<1>2. \A d \in C : d = <<r, d[2]>>
  <2> SUFFICES ASSUME NEW d \in C PROVE d = <<r, d[2]>>
    OBVIOUS
  <2>1. d \in Docs /\ d[1] = r
    BY <1>1 DEF DocsOf
  <2>2. PICK q \in Runs : d \in {<<q, i>> : i \in 1 .. Size[q]}
    BY <2>1, DocsAssumption
  <2>3. PICK i \in 1 .. Size[q] : d = <<q, i>>
    BY <2>2
  <2> QED
    BY <2>1, <2>3
<1> HIDE DEF C, T
<1>3. \A d, e \in C : d[2] = e[2] => d = e
  BY <1>2
<1>4. f \in Injection(C, T)
  BY <1>1, <1>3 DEF Injection, IsInjective
<1>5. IsFiniteSet(T)
  BY FS_Interval, RunsAssumption DEF T
<1>6. IsFiniteSet(C)
  BY <1>4, <1>5, FS_Injection
<1> QED
  BY <1>1, <1>3, <1>6 DEF C

(* Counted from 0 on, the numbers to return are all that are unsaved.       *)
LEMMA RankLeast ==
    ASSUME NEW r \in Runs, NEW S, S \subseteq DocsOf(r)
    PROVE  {d \in S : Cardinality({e \in S : e[2] < d[2]}) >= 0} = S
<1> DEFINE f == [d \in S |-> d[2]]
           T == 1 .. Size[r]
<1>1. \A d \in S : d \in Docs /\ d[1] = r /\ d[2] \in T
  BY DocFacts, RunsAssumption DEF DocsOf
<1>2. \A d \in S : d = <<r, d[2]>>
  <2> SUFFICES ASSUME NEW d \in S PROVE d = <<r, d[2]>>
    OBVIOUS
  <2>1. PICK q \in Runs : d \in {<<q, i>> : i \in 1 .. Size[q]}
    BY <1>1, DocsAssumption
  <2>2. PICK i \in 1 .. Size[q] : d = <<q, i>>
    BY <2>1
  <2> QED
    BY <1>1, <2>2
<1>3. \A d, e \in S : d[2] = e[2] => d = e
  BY <1>2
<1>4. f \in Injection(S, T)
  BY <1>1, <1>3 DEF Injection, IsInjective
<1>5. IsFiniteSet(T)
  BY FS_Interval, RunsAssumption
<1> HIDE DEF f, T
<1>6. IsFiniteSet(S)
  BY <1>4, <1>5, FS_Injection
<1>7. ASSUME NEW d \in S PROVE Cardinality({e \in S : e[2] < d[2]}) >= 0
  <2> DEFINE B == {e \in S : e[2] < d[2]}
  <2>1. B \subseteq S
    OBVIOUS
  <2> HIDE DEF B
  <2>2. Cardinality(B) \in Nat
    BY <1>6, <2>1, FS_Subset, FS_CardinalityType
  <2> QED
    BY <2>2 DEF B
<1> QED
  BY <1>7

Below(S, s) == {t \in S : t < s}

(* The k lowest of a set of naturals are finitely many: the number of those *)
(* below tells them apart.                                                  *)
LEMMA LowestFinite ==
    ASSUME NEW S \in SUBSET Nat, NEW k \in Nat
    PROVE  IsFiniteSet(Lowest(S, k))
<1> DEFINE L == Lowest(S, k)
           f == [s \in L |-> Cardinality(Below(S, s))]
           T == 0 .. k
<1>0. \A s \in S : s \in Nat
  OBVIOUS
<1>1. ASSUME NEW s \in S PROVE IsFiniteSet(Below(S, s)) /\ Cardinality(Below(S, s)) \in Nat
  <2> DEFINE B == Below(S, s)
  <2>0. s \in Nat /\ \A t \in B : t \in Nat /\ t < s
    BY <1>0 DEF Below
  <2>1. B \in SUBSET Nat /\ \A t \in B : t <= s
    BY <2>0
  <2> HIDE DEF B
  <2>2. IsFiniteSet(B)
    BY <2>0, <2>1, FS_BoundedSetOfNaturals
  <2> QED
    BY <2>2, FS_CardinalityType DEF B
<1>2. \A s \in L : s \in S /\ Cardinality(Below(S, s)) < k
  BY DEF Lowest, Below
<1>3. ASSUME NEW s \in S, NEW t \in S, s < t
      PROVE  Cardinality(Below(S, s)) # Cardinality(Below(S, t))
  <2>0. s \in Nat /\ t \in Nat /\ \A u \in S : u < s => u < t
    BY <1>0, <1>3
  <2>1. /\ \A x : x \in Below(S, s) <=> x \in S /\ x < s
        /\ \A x : x \in Below(S, t) <=> x \in S /\ x < t
    BY DEF Below
  <2>2. ~(s < s)
    BY <2>0
  <2>3. s \in Below(S, t) /\ s \notin Below(S, s)
    BY <1>3, <2>1, <2>2
  <2>4. Below(S, s) \in SUBSET Below(S, t)
    BY <2>0, <2>1
  <2>5. IsFiniteSet(Below(S, t))
    BY <1>1
  <2> QED
    BY <2>3, <2>4, <2>5, FS_Subset
<1> HIDE DEF L
<1>4. f \in [L -> T]
  <2>1. ASSUME NEW s \in L PROVE Cardinality(Below(S, s)) \in T
    <3>1. Cardinality(Below(S, s)) \in Nat /\ Cardinality(Below(S, s)) < k
      BY <1>1, <1>2
    <3> QED
      BY <3>1
  <2> QED
    BY <2>1
<1>5. \A s, t \in L : f[s] = f[t] => s = t
  <2> SUFFICES ASSUME NEW s \in L, NEW t \in L, f[s] = f[t], s # t PROVE FALSE
    OBVIOUS
  <2>1. s \in Nat /\ t \in Nat /\ s \in S /\ t \in S
    BY <1>0, <1>2
  <2>2. s < t \/ t < s
    BY <2>1
  <2> QED
    BY <1>3, <2>1, <2>2
<1>6. f \in Injection(L, T)
  BY <1>4, <1>5 DEF Injection, IsInjective
<1>7. IsFiniteSet(T)
  BY FS_Interval
<1>8. IsFiniteSet(L)
  BY <1>6, <1>7, FS_Injection
<1> QED
  BY <1>8 DEF L

(* A claim for k orders is granted k numbers (claimProductionSeqs).         *)
LEMMA ClaimedCount ==
    ASSUME TypeOK, NEW u \in Users, NEW k \in Nat, NEW head \in Nat,
           ClaimProductionSeqs(u, k, head)
    PROVE  /\ IsFiniteSet(ClaimedSeqs(u, k, head))
           /\ Cardinality(ClaimedSeqs(u, k, head)) = k
<1> DEFINE R == ReusedSeqs(u, k)
           F == FreshSeqs(u, k, head)
           last == lastNumber[u][year]
<1>1. RecycledSeqs(u) \in SUBSET Nat
  BY DEF RecycledSeqs, TypeOK, TablesTypeOK, Number
<1>2. IsFiniteSet(R)
  BY <1>1, LowestFinite DEF ReusedSeqs
<1>3. last \in Nat
  BY DEF TypeOK, TablesTypeOK
<1>4. IsFiniteSet((last + 1) .. head) /\ F \subseteq (last + 1) .. head
  BY <1>3, FS_Interval DEF FreshSeqs
<1>5. IsFiniteSet(F)
  BY <1>4, FS_Subset
<1>6. R \cap F = {}
  BY DEF FreshSeqs
<1>7. Cardinality(F) = k - Cardinality(R)
  BY DEF ClaimProductionSeqs
<1>8. ClaimedSeqs(u, k, head) = R \cup F
  BY DEF ClaimedSeqs
<1> HIDE DEF R, F
<1>9. /\ IsFiniteSet(R \cup F)
      /\ Cardinality(R \cup F) = Cardinality(R) + Cardinality(F) - Cardinality(R \cap F)
  BY <1>2, <1>5, FS_Union
<1>10. Cardinality(R \cap F) = 0
  BY <1>6, FS_EmptySet
<1>11. Cardinality(R) \in Nat
  BY <1>2, FS_CardinalityType
<1> QED
  BY <1>7, <1>8, <1>9, <1>10, <1>11

(* All of them are given to the orders of the chunk, in their order.        *)
LEMMA ChunkTakesAll ==
    ASSUME TypeOK, NEW r \in Runs, NEW u \in Users, NEW head \in Nat, NEW s \in Nat,
           ClaimProductionSeqs(u, Cardinality(Chunk(r, s)), head),
           NEW give \in [Chunk(r, s) -> ClaimedSeqs(u, Cardinality(Chunk(r, s)), head)],
           \A d, e \in Chunk(r, s) : d[2] < e[2] => give[d] < give[e],
           ClaimedSeqs(u, Cardinality(Chunk(r, s)), head) \subseteq Nat
    PROVE  \A n \in ClaimedSeqs(u, Cardinality(Chunk(r, s)), head) :
               \E d \in Chunk(r, s) : give[d] = n
<1> DEFINE C == Chunk(r, s)
           k == Cardinality(C)
           T == ClaimedSeqs(u, k, head)
<1>1. IsFiniteSet(C) /\ \A d, e \in C : d[2] \in Nat /\ (d[2] = e[2] => d = e)
  BY ChunkFinite
<1>2. k \in Nat
  BY <1>1, FS_CardinalityType
<1>3. IsFiniteSet(T) /\ Cardinality(T) = k
  BY <1>2, ClaimedCount
<1>4. give \in [C -> T] /\ T \subseteq Nat /\ \A d, e \in C : d[2] < e[2] => give[d] < give[e]
  OBVIOUS
<1> HIDE DEF T
<1>5. \A d, e \in C : give[d] = give[e] => d = e
  <2> SUFFICES ASSUME NEW d \in C, NEW e \in C, give[d] = give[e], d # e PROVE FALSE
    OBVIOUS
  <2>1. d[2] \in Nat /\ e[2] \in Nat /\ d[2] # e[2]
    BY <1>1
  <2>2. d[2] < e[2] \/ e[2] < d[2]
    BY <2>1
  <2>3. give[d] \in Nat /\ give[e] \in Nat
    BY <1>4
  <2> QED
    BY <1>4, <2>2, <2>3
<1> HIDE DEF C
<1>6. give \in Injection(C, T)
  BY <1>4, <1>5 DEF Injection, IsInjective
<1> DEFINE g == give
<1>7. g \in Injection(C, T)
  BY <1>6
<1> HIDE DEF g
<1>8. g \in Surjection(C, T)
  BY <1>3, <1>7, FS_Injection DEF k
<1>9. \A n \in T : \E d \in C : g[d] = n
  BY <1>8 DEF Surjection
<1> QED
  BY <1>9 DEF C, T, k, g

\* Without losses a run waits for its one request, stores and saves no order ahead
\* of the chunk it is at, is owed numbers of the orders it believes unsaved, and,
\* while it returns them, of this year only those that are still to be returned.
RunSettled(r) ==
    /\ \A m \in net : m.run = r => Awaits(m) /\ (m.op = "put" => m.found = {})
    /\ \A m, k \in net : m.run = r /\ k.run = r => m = k
    /\ run[r].phase = "claim" =>
          \A d \in DocsOf(r) : d \notin saved /\ (d[2] > run[r].start => claimed[d] = NoNumber)
    /\ run[r].phase \in {"put", "putting"} =>
          \A d \in DocsOf(r) : d[2] > run[r].start => ~Live(d) /\ d \notin saved
    /\ \A d \in DocsOf(r) :
          claimed[d] # NoNumber => claimed[d].owner = RunFor[r] /\ claimed[d].year <= year
    /\ run[r].phase \in {"return", "returning"} =>
          \A n \in owed[r] : n.year = year => \E d \in ToReturn(r, run[r].start) : n = claimed[d]
    /\ run[r].phase # "done" => owed[r] \subseteq {claimed[d] : d \in Unsaved(r, saved)}
    /\ run[r].phase = "done" => \A n \in owed[r] : n.year < year

Settled == \A r \in Runs \ Lossy : RunSettled(r)

-----------------------------------------------------------------------------
(* What a step leaves alone.                                                *)

\* No order of run r appears or becomes saved, no request of r is new, and its
\* numbers stay.
Spares(r) ==
    /\ run'[r] = run[r]
    /\ owed'[r] = owed[r]
    /\ \A d \in DocsOf(r) : /\ claimed'[d] = claimed[d]
                            /\ d \in saved' <=> d \in saved
                            /\ Live(d)' => Live(d)
    /\ \A m \in net' : m.run = r => m \in net
    /\ year' \in Nat /\ year' >= year

\* A run that a step leaves alone stays settled.
LEMMA SparedSettled ==
    ASSUME IndInv, NEW r \in Runs, RunSettled(r), Spares(r)
    PROVE  RunSettled(r)'
<1> USE DEF Spares
<1>1. DocsOf(r)' = DocsOf(r)
  BY DEF DocsOf
<1>2. year \in Nat
  BY YearsAssumption DEF IndInv, TypeOK, TablesTypeOK
<1>3. \A m \in net' : m.run = r => Awaits(m)' /\ (m.op = "put" => m.found = {})
  BY DEF RunSettled, Awaits
<1>4. \A m, k \in net' : m.run = r /\ k.run = r => m = k
  BY DEF RunSettled
<1>5. run'[r].phase = "claim" =>
          \A d \in DocsOf(r) : d \notin saved' /\ (d[2] > run'[r].start => claimed'[d] = NoNumber)
  BY DEF RunSettled
<1>6. run'[r].phase \in {"put", "putting"} =>
          \A d \in DocsOf(r) : d[2] > run'[r].start => ~Live(d)' /\ d \notin saved'
  BY DEF RunSettled
<1>7. \A d \in DocsOf(r) : claimed[d] # NoNumber => claimed[d] \in Number
  BY DEF DocsOf, IndInv, TypeOK
<1>8. \A d \in DocsOf(r) :
          claimed'[d] # NoNumber => claimed'[d].owner = RunFor[r] /\ claimed'[d].year <= year'
  <2> SUFFICES ASSUME NEW d \in DocsOf(r), claimed[d] # NoNumber
               PROVE  claimed[d].owner = RunFor[r] /\ claimed[d].year <= year'
    OBVIOUS
  <2>1. claimed[d].year \in Nat
    BY <1>7, YearsAssumption DEF Number
  <2>2. claimed[d].owner = RunFor[r] /\ claimed[d].year <= year
    BY DEF RunSettled
  <2> QED
    BY <1>2, <2>1, <2>2
<1>9. run'[r].phase # "done" => owed'[r] \subseteq {claimed'[d] : d \in Unsaved(r, saved)'}
  <2> SUFFICES ASSUME run[r].phase # "done", NEW n \in owed[r]
               PROVE  \E d \in Unsaved(r, saved)' : n = claimed'[d]
    OBVIOUS
  <2>1. PICK d \in Unsaved(r, saved) : n = claimed[d]
    BY DEF RunSettled
  <2>2. d \in DocsOf(r) /\ claimed[d] # NoNumber /\ d \notin saved
    BY <2>1 DEF Unsaved
  <2>3. d \in Unsaved(r, saved)'
    BY <1>1, <2>2 DEF Unsaved
  <2> QED
    BY <2>1, <2>2, <2>3
<1>10. run'[r].phase = "done" => \A n \in owed'[r] : n.year < year'
  <2> SUFFICES ASSUME run[r].phase = "done", NEW n \in owed[r]
               PROVE  n.year < year'
    OBVIOUS
  <2>1. n \in Number /\ n.year < year
    BY DEF RunSettled, IndInv, TypeOK
  <2>2. n.year \in Nat
    BY <2>1, YearsAssumption DEF Number
  <2> QED
    BY <1>2, <2>1, <2>2
<1>11. Unsaved(r, saved)' = Unsaved(r, saved)
  BY <1>1 DEF Unsaved
<1>12. ASSUME run'[r].phase \in {"return", "returning"}, NEW n \in owed'[r], n.year = year'
       PROVE  \E d \in ToReturn(r, run[r].start)' : n = claimed'[d]
  <2>1. run[r].phase \in {"return", "returning"} /\ n \in owed[r]
    BY <1>12
  <2>2. PICK d \in Unsaved(r, saved) : n = claimed[d]
    BY <2>1 DEF RunSettled
  <2>3. d \in DocsOf(r) /\ claimed[d] # NoNumber
    BY <2>2 DEF Unsaved
  <2>4. n.year <= year /\ n.year \in Nat
    BY <1>7, <2>2, <2>3, YearsAssumption DEF RunSettled, Number
  <2>5. n.year = year
    BY <1>2, <1>12, <2>4
  <2>6. PICK e \in ToReturn(r, run[r].start) : n = claimed[e]
    BY <2>1, <2>5 DEF RunSettled
  <2>7. ToReturn(r, run[r].start)' = ToReturn(r, run[r].start)
    BY <1>11 DEF ToReturn
  <2>8. e \in DocsOf(r)
    BY <2>6 DEF ToReturn, Unsaved
  <2> QED
    BY <2>6, <2>7, <2>8
<1> QED
  BY <1>1, <1>3, <1>4, <1>5, <1>6, <1>8, <1>9, <1>10, <1>12 DEF RunSettled

\* A step of one run that spares the others.
LEMMA OneRunSettled ==
    ASSUME IndInv, Settled, NEW r \in Runs,
           \A q \in Runs : q # r => Spares(q),
           r \notin Lossy => RunSettled(r)'
    PROVE  Settled'
<1>1. ASSUME NEW q \in Runs \ Lossy PROVE RunSettled(q)'
  BY SparedSettled DEF Settled
<1> QED
  BY <1>1 DEF Settled

\* A step that spares every run.
LEMMA NoRunSettled ==
    ASSUME IndInv, Settled, \A q \in Runs : Spares(q) PROVE Settled'
<1>1. ASSUME NEW q \in Runs \ Lossy PROVE RunSettled(q)'
  BY <1>1, SparedSettled DEF Settled
<1> QED
  BY <1>1 DEF Settled

\* The years are numbers.
LEMMA YearFacts ==
    ASSUME IndInv
    PROVE  /\ year \in Nat
           /\ \A d \in Docs : claimed[d] # NoNumber =>
                 claimed[d] \in Number /\ claimed[d].year \in Nat
           /\ \A r \in Runs : \A n \in owed[r] : n \in Number /\ n.year \in Nat
<1>1. \A n \in Number : n.year \in Nat
  BY YearsAssumption DEF Number
<1>2. year \in Nat
  BY YearsAssumption DEF IndInv, TypeOK, TablesTypeOK
<1>3. \A d \in Docs : claimed[d] # NoNumber => claimed[d] \in Number
  BY DEF IndInv, TypeOK
<1>4. \A r \in Runs : \A n \in owed[r] : n \in Number
  BY DEF IndInv, TypeOK
<1> QED
  BY <1>1, <1>2, <1>3, <1>4

-----------------------------------------------------------------------------
(* Where a run goes.                                                        *)

\* The numbers in hand of run r are its user's, of this year or an earlier one.
HandOwn(r) ==
    \A d \in DocsOf(r) :
        claimed[d] # NoNumber => claimed[d].owner = RunFor[r] /\ claimed[d].year <= year

\* Out of the loop: what is owed is on unsaved orders, or there is nothing.
LEMMA StopSettles ==
    ASSUME IndInv, NEW r \in Runs, StopWith(r, saved'), HandOwn(r),
           year' = year, claimed' = claimed,
           \A n \in owed'[r] : \E d \in Unsaved(r, saved') : n = claimed[d],
           \A m \in net' : m.run # r
    PROVE  RunSettled(r)'
<1>1. Unsaved(r, saved)' = Unsaved(r, saved') /\ DocsOf(r)' = DocsOf(r)
  BY DEF Unsaved, DocsOf
<1>2. /\ run'[r].phase = IF Unsaved(r, saved') = {} THEN "done" ELSE "return"
      /\ run'[r].start = 0
  BY DEF StopWith, Go, IndInv, TypeOK
<1>3. run'[r].phase = "done" => \A n \in owed'[r] : n.year < year'
  BY <1>2
<1>4. owed'[r] \subseteq {claimed'[d] : d \in Unsaved(r, saved)'}
  BY <1>1
<1>5. ToReturn(r, 0)' = Unsaved(r, saved)'
  <2> DEFINE S == Unsaved(r, saved)'
  <2>1. S \subseteq DocsOf(r)
    BY <1>1 DEF Unsaved
  <2>2. ToReturn(r, 0)' = {d \in S : Cardinality({e \in S : e[2] < d[2]}) >= 0}
    BY DEF ToReturn
  <2> HIDE DEF S
  <2> QED
    BY <2>1, <2>2, RankLeast DEF S
<1>6. ToReturn(r, run[r].start)' = Unsaved(r, saved)'
  BY <1>2, <1>5 DEF ToReturn
<1> QED
  BY <1>1, <1>2, <1>3, <1>4, <1>6 DEF RunSettled, HandOwn

\* To the next chunk, ahead of which nothing is stored.
LEMMA NextChunkSettles ==
    ASSUME IndInv, NEW r \in Runs, NextChunk(r, saved'), HandOwn(r),
           year' = year, claimed' = claimed,
           \A n \in owed'[r] : \E d \in Unsaved(r, saved') : n = claimed[d],
           \A m \in net' : m.run # r,
           \A d \in DocsOf(r) : d[2] > run[r].start + ChunkSize => ~Live(d)' /\ d \notin saved'
    PROVE  RunSettled(r)'
<1>1. CASE run[r].start + ChunkSize < Size[r]
  <2>1. run'[r].phase = "put" /\ run'[r].start = run[r].start + ChunkSize
    BY <1>1 DEF NextChunk, Go, IndInv, TypeOK
  <2>2. Unsaved(r, saved)' = Unsaved(r, saved') /\ DocsOf(r)' = DocsOf(r)
    BY DEF Unsaved, DocsOf
  <2>3. owed'[r] \subseteq {claimed'[d] : d \in Unsaved(r, saved)'}
    BY <2>2
  <2> QED
    BY <2>1, <2>2, <2>3 DEF RunSettled, HandOwn
<1>2. CASE ~(run[r].start + ChunkSize < Size[r])
  BY <1>2, StopSettles DEF NextChunk
<1> QED
  BY <1>1, <1>2

-----------------------------------------------------------------------------
(* The steps of a run.                                                      *)

\* A run's own step that only moves the run.
LEMMA MovedSpares ==
    ASSUME IndInv, NEW r \in Runs, NEW p, NEW s, NEW a, Go(r, p, s, a),
           UNCHANGED <<tables, claimed, saved, owed>>,
           \A m \in net' : m \in net \/ m.run = r
    PROVE  \A q \in Runs : q # r => Spares(q)
  BY YearFacts DEF Go, Spares, IndInv, TypeOK, tables, Live

\* Whatever a run does, the others are as they were.
LEMMA ClientSpares ==
    ASSUME IndInv, NEW r \in Runs, Client(r)
    PROVE  \A q \in Runs : q # r => Spares(q)
<1>1. CASE ClaimChunk(r)
  <2> SUFFICES ASSUME NEW q \in Runs, q # r PROVE Spares(q)
    OBVIOUS
  <2>1. PICK head \in Nat :
          /\ owed' = [owed EXCEPT ![r] = @ \cup Granted(r, head)]
          /\ \A d \in Docs : d \notin Chunk(r, run[r].start) => claimed'[d] = claimed[d]
          /\ \E p, s, a : Go(r, p, s, a)
    BY <1>1, ClaimFacts DEF IndInv, StopWith
  <2>2. run'[q] = run[q] /\ owed'[q] = owed[q]
    BY <2>1 DEF Go, IndInv, TypeOK
  <2>3. \A d \in DocsOf(q) : d \in Docs /\ d \notin Chunk(r, run[r].start)
    BY DEF DocsOf, Chunk
  <2>4. \A d \in DocsOf(q) : claimed'[d] = claimed[d]
    BY <2>1, <2>3
  <2>5. UNCHANGED <<year, orders, saved, net>>
    BY <1>1 DEF ClaimChunk
  <2>6. year' \in Nat /\ year' >= year
    BY <2>5, YearFacts
  <2> QED
    BY <2>2, <2>4, <2>5, <2>6 DEF Spares, Live
<1>2. CASE ~ClaimChunk(r)
  <2>1. /\ UNCHANGED <<tables, claimed, saved, owed>>
        /\ \E p, s, a : Go(r, p, s, a)
        /\ net' = net \/ \E op : Send(r, op)
    <3>1. CASE Stop(r) \/ SendPut(r) \/ SendReturn(r) \/ Retry(r) \/ CloseTab(r)
      BY <3>1 DEF Stop, StopWith, SendPut, SendReturn, Retry, CloseTab, history
    <3>2. CASE GiveUp(r) \/ Abort(r)
      <4>1. /\ UNCHANGED <<tables, claimed, saved, owed, net>>
            /\ NextChunk(r, saved) \/ NextSlice(r) \/ StopWith(r, saved)
        BY <3>2 DEF GiveUp, Abort, history
      <4> QED
        BY <4>1 DEF NextChunk, NextSlice, StopWith
    <3> QED
      BY <1>2, <3>1, <3>2 DEF Client
  <2>2. \A m \in net' : m \in net \/ m.run = r
    BY <2>1 DEF Send
  <2> QED
    BY <2>1, <2>2, MovedSpares
<1> QED
  BY <1>1, <1>2

\* A claim gives every granted number to an order of its chunk.
LEMMA ClaimSettled ==
    ASSUME IndInv, NEW r \in Runs, r \notin Lossy, RunSettled(r), ClaimChunk(r)
    PROVE  RunSettled(r)'
<1> DEFINE u == RunFor[r]
           s == run[r].start
           chunk == Chunk(r, s)
           k == Cardinality(chunk)
<1>1. /\ TypeOK /\ u \in Users /\ s \in Nat /\ lastNumber[u][year] \in Nat /\ MaxSeq \in Nat
      /\ year \in Nat /\ year \in Years
  BY RunsAssumption, YearFacts DEF IndInv, TypeOK, TablesTypeOK, RunState
<1>2. PICK head \in lastNumber[u][year] .. MaxSeq :
        /\ ClaimProductionSeqs(u, k, head)
        /\ owed' = [owed EXCEPT ![r] = @ \cup NumbersOf(u, ClaimedSeqs(u, k, head))]
        /\ \E give \in [chunk -> ClaimedSeqs(u, k, head)] :
              /\ \A d, e \in chunk : d[2] < e[2] => give[d] < give[e]
              /\ claimed' = [d \in Docs |->
                   IF d \in chunk
                   THEN [owner |-> u, year |-> year, seq |-> give[d]]
                   ELSE claimed[d]]
        /\ IF run[r].start + ChunkSize < Size[r]
           THEN Go(r, "claim", run[r].start + ChunkSize, 1)
           ELSE Go(r, "put", 0, 1)
  BY DEF ClaimChunk
<1>3. PICK give \in [chunk -> ClaimedSeqs(u, k, head)] :
        /\ \A d, e \in chunk : d[2] < e[2] => give[d] < give[e]
        /\ claimed' = [d \in Docs |->
             IF d \in chunk
             THEN [owner |-> u, year |-> year, seq |-> give[d]]
             ELSE claimed[d]]
  BY <1>2
<1>4. UNCHANGED <<year, orders, saved, net>> /\ run[r].phase = "claim"
  BY DEF ClaimChunk
<1>5. head \in Nat /\ head >= lastNumber[u][year]
  BY <1>1, <1>2
<1>6. ClaimedSeqs(u, k, head) \subseteq Nat
  BY <1>1, <1>5, ClaimTakes DEF ClaimedSeqs, TypeOK
<1>7. \A n \in ClaimedSeqs(u, k, head) : \E d \in chunk : give[d] = n
  BY <1>1, <1>2, <1>3, <1>5, <1>6, ChunkTakesAll
<1>8. /\ chunk \subseteq DocsOf(r) /\ DocsOf(r) \subseteq Docs
      /\ \A d \in chunk : s < d[2] /\ d[2] <= s + ChunkSize
      /\ \A d \in DocsOf(r) : d[2] \in Nat \ {0}
  BY <1>1, DocFacts DEF Chunk, DocsOf
<1>9. RunSettled(r)
  OBVIOUS
<1> HIDE DEF chunk, k, u, s
<1>10. \A d \in Docs : /\ d \in chunk =>
                             /\ claimed'[d] = [owner |-> u, year |-> year, seq |-> give[d]]
                             /\ claimed'[d].owner = u /\ claimed'[d].year = year
                       /\ d \notin chunk => claimed'[d] = claimed[d]
  BY <1>3
<1>11. \A d \in Docs : claimed'[d] \in Number \cup {NoNumber}
  BY <1>1, ClaimInv DEF IndInv, TypeOK
<1>12. \A d \in chunk : claimed'[d] # NoNumber
  <2>1. \A d \in chunk : give[d] \in Nat \ {0}
    <3>1. \A i \in ClaimedSeqs(u, k, head) : i \in Nat \ {0}
      BY <1>1, <1>5, ClaimTakes DEF ClaimedSeqs, TypeOK
    <3> QED
      BY <1>3, <3>1
  <2>2. \A d \in chunk : [owner |-> u, year |-> year, seq |-> give[d]] \in Number
    BY <1>1, <2>1 DEF Number
  <2>3. ASSUME NEW d \in chunk PROVE claimed'[d] # NoNumber
    <3>1. claimed'[d] = [owner |-> u, year |-> year, seq |-> give[d]]
      BY <1>8, <1>10
    <3>2. claimed'[d] \in Number
      BY <2>2, <3>1
    <3>3. NoNumber \notin Number
      BY RunsAssumption
    <3> QED
      BY <3>2, <3>3
  <2> QED
    BY <2>3
<1>14. \A d \in DocsOf(r) : ~Live(d) /\ d \notin saved
  BY <1>4, <1>9 DEF RunSettled, IndInv, RunsOK, ClaimingFresh
<1>15. \A d \in chunk : claimed[d] = NoNumber
  BY <1>4, <1>8, <1>9 DEF RunSettled, s
<1>16. DocsOf(r)' = DocsOf(r) /\ \A m \in net' : m.run # r
  BY <1>4 DEF DocsOf, IndInv, RunsOK, ClaimingFresh
<1>17. \A d \in DocsOf(r) :
          claimed'[d] # NoNumber => claimed'[d].owner = RunFor[r] /\ claimed'[d].year <= year'
  <2> SUFFICES ASSUME NEW d \in DocsOf(r), claimed'[d] # NoNumber
               PROVE  claimed'[d].owner = RunFor[r] /\ claimed'[d].year <= year
    BY <1>4
  <2>1. CASE d \in chunk
    <3>1. claimed'[d].owner = u /\ claimed'[d].year = year
      BY <1>8, <1>10, <2>1
    <3> QED
      BY <1>1, <3>1 DEF u
  <2>2. CASE d \notin chunk
    BY <1>8, <1>9, <1>10, <2>2 DEF RunSettled
  <2> QED
    BY <2>1, <2>2
<1>18. owed'[r] = owed[r] \cup NumbersOf(u, ClaimedSeqs(u, k, head))
  BY <1>1, <1>2 DEF TypeOK
<1>19. ASSUME NEW n \in owed'[r]
       PROVE  \E d \in DocsOf(r) : claimed'[d] # NoNumber /\ d \notin saved' /\ n = claimed'[d]
  <2>1. CASE n \in owed[r]
    <3>1. PICK d \in Unsaved(r, saved) : n = claimed[d]
      BY <1>4, <1>9, <2>1 DEF RunSettled
    <3>2. d \in DocsOf(r) /\ claimed[d] # NoNumber /\ d \notin saved
      BY <3>1 DEF Unsaved
    <3>3. d \notin chunk
      BY <1>15, <3>2
    <3> QED
      BY <1>4, <1>8, <1>10, <3>1, <3>2, <3>3
  <2>2. CASE n \in NumbersOf(u, ClaimedSeqs(u, k, head))
    <3>1. PICK i \in ClaimedSeqs(u, k, head) : n = [owner |-> u, year |-> year, seq |-> i]
      BY <2>2 DEF NumbersOf
    <3>2. PICK d \in chunk : give[d] = i
      BY <1>7
    <3>3. d \in DocsOf(r) /\ d \notin saved' /\ n = claimed'[d]
      BY <1>4, <1>8, <1>10, <1>14, <3>1, <3>2
    <3> QED
      BY <1>12, <3>3
  <2> QED
    BY <1>18, <1>19, <2>1, <2>2
<1>20. owed'[r] \subseteq {claimed'[d] : d \in Unsaved(r, saved)'}
  BY <1>16, <1>19 DEF Unsaved
<1>21. \/ run'[r].phase = "claim" /\ run'[r].start = s + ChunkSize
       \/ run'[r].phase = "put" /\ run'[r].start = 0
  BY <1>2 DEF Go, IndInv, TypeOK, s
<1>22. \A d \in DocsOf(r) : d \notin saved' /\ ~Live(d)'
  BY <1>4, <1>14 DEF Live
<1>23. \A d \in DocsOf(r) : d[2] > s + ChunkSize => claimed'[d] = NoNumber
  <2> SUFFICES ASSUME NEW d \in DocsOf(r), d[2] > s + ChunkSize
               PROVE  claimed'[d] = NoNumber
    OBVIOUS
  <2>1. d[2] \in Nat /\ ChunkSize \in Nat /\ s \in Nat
    BY <1>1, <1>8, RunsAssumption
  <2>2. d[2] > s /\ ~(d[2] <= s + ChunkSize)
    BY <2>1
  <2>3. d \notin chunk /\ d \in Docs
    BY <1>8, <2>2
  <2>4. claimed[d] = NoNumber
    BY <1>4, <1>9, <2>2 DEF RunSettled, s
  <2> QED
    BY <1>10, <2>3, <2>4
<1> QED
  BY <1>16, <1>17, <1>20, <1>21, <1>22, <1>23 DEF RunSettled

\* A run that stops while no request is out has its numbers in hand.
LEMMA StopActSettled ==
    ASSUME IndInv, NEW r \in Runs, RunSettled(r), Stop(r)
    PROVE  RunSettled(r)'
<1>1. /\ run[r].phase \in {"claim", "put"}
      /\ StopWith(r, saved')
      /\ UNCHANGED <<tables, claimed, saved, net, history>>
  BY DEF Stop
<1>2. RunSettled(r)
  OBVIOUS
<1>3. \A m \in net' : m.run # r
  BY <1>1, <1>2 DEF RunSettled, Awaits
<1>4. \A n \in owed'[r] : \E d \in Unsaved(r, saved') : n = claimed[d]
  BY <1>1, <1>2 DEF RunSettled, history
<1> QED
  BY <1>1, <1>2, <1>3, <1>4, StopSettles DEF RunSettled, HandOwn, tables

\* The request that a run sends is the only one, and awaited.
LEMMA SendSettled ==
    ASSUME IndInv, NEW r \in Runs, RunSettled(r), SendPut(r) \/ SendReturn(r)
    PROVE  RunSettled(r)'
<1>1. PICK op \in {"put", "recycle"}, s \in Nat :
        /\ run[r].phase = (IF op = "put" THEN "put" ELSE "return")
        /\ s = run[r].start
        /\ Go(r, IF op = "put" THEN "putting" ELSE "returning", s, 1)
        /\ Send(r, op)
        /\ UNCHANGED <<tables, claimed, saved, del, history>>
  BY DEF SendPut, SendReturn, IndInv, TypeOK, RunState
<1>2. RunSettled(r)
  OBVIOUS
<1> DEFINE m == [op |-> op, run |-> r, start |-> run[r].start,
                 attempt |-> run'[r].attempt, read |-> FALSE, found |-> {}]
<1>3. net' = net \cup {m}
  BY <1>1 DEF Send
<1>4. \A k \in net : k.run # r
  BY <1>1, <1>2 DEF RunSettled, Awaits
<1> HIDE DEF m
<1>5. /\ m.run = r /\ m.op = op /\ m.start = s /\ m.attempt = 1 /\ m.found = {}
  BY <1>1, <1>2 DEF m, Go, RunSettled, IndInv, TypeOK
<1>6. /\ run'[r].phase = IF op = "put" THEN "putting" ELSE "returning"
      /\ run'[r].start = s
      /\ run'[r].attempt = 1
      /\ op = "put" => run[r].phase = "put"
      /\ op # "put" => run[r].phase = "return"
      /\ s = run[r].start
      /\ run[r].phase # "done"
  BY <1>1 DEF Go, IndInv, TypeOK
<1>7. \A k \in net' : k.run = r => k = m
  BY <1>3, <1>4
<1>8. UNCHANGED <<year, orders, owed, claimed, saved>>
  BY <1>1 DEF tables, history
<1>9. /\ DocsOf(r)' = DocsOf(r)
      /\ Unsaved(r, saved)' = Unsaved(r, saved)
      /\ ToReturn(r, run[r].start)' = ToReturn(r, run[r].start)
  BY <1>6, <1>8 DEF DocsOf, Unsaved, ToReturn
<1>10. \A k \in net' : k.run = r => Awaits(k)' /\ (k.op = "put" => k.found = {})
  BY <1>5, <1>6, <1>7 DEF Awaits
<1>11. run'[r].phase \in {"put", "putting"} =>
          \A d \in DocsOf(r) : d[2] > run'[r].start => ~Live(d)' /\ d \notin saved'
  BY <1>1, <1>2, <1>6, <1>8 DEF RunSettled, Live
<1>12. owed'[r] \subseteq {claimed'[d] : d \in Unsaved(r, saved)'}
  BY <1>2, <1>6, <1>8, <1>9 DEF RunSettled
<1>13. \A d \in DocsOf(r) :
          claimed'[d] # NoNumber => claimed'[d].owner = RunFor[r] /\ claimed'[d].year <= year'
  BY <1>2, <1>8 DEF RunSettled
<1>14. ASSUME run'[r].phase \in {"return", "returning"}, NEW n \in owed'[r], n.year = year'
       PROVE  \E d \in ToReturn(r, run[r].start)' : n = claimed'[d]
  BY <1>2, <1>6, <1>8, <1>9, <1>14 DEF RunSettled
<1> QED
  BY <1>6, <1>7, <1>9, <1>10, <1>11, <1>12, <1>13, <1>14 DEF RunSettled

-----------------------------------------------------------------------------
(* The steps of the server.                                                 *)

\* What is known of a request that the server has, of a run that loses nothing.
LEMMA RequestFacts ==
    ASSUME IndInv, Settled, NEW m \in net, m.run \notin Lossy
    PROVE  /\ m.run \in Runs /\ m.start \in Nat /\ m.op \in {"put", "recycle"}
           /\ RunSettled(m.run)
           /\ Awaits(m)
           /\ run[m.run].start = m.start
           /\ run[m.run].phase = IF m.op = "put" THEN "putting" ELSE "returning"
           /\ m.op = "put" => m.found = {}
           /\ \A k \in net : k.run = m.run => k = m
<1>1. m \in Request
  BY DEF IndInv, TypeOK
<1>2. m.run \in Runs /\ m.start \in Nat /\ m.op \in {"put", "recycle"}
  BY <1>1 DEF Request
<1>3. RunSettled(m.run)
  BY <1>2 DEF Settled
<1> QED
  BY <1>2, <1>3 DEF RunSettled, Awaits

\* The other runs, when a request of one is answered: no order appears but its own.
LEMMA AnswerSpares ==
    ASSUME IndInv, NEW m \in net, NEW ok \in BOOLEAN, Answer(m, ok), year' = year,
           \A q \in Runs : q # m.run => owed'[q] = owed[q],
           \A d \in Docs : d[1] # m.run => orders'[d] = orders[d]
    PROVE  \A q \in Runs : q # m.run => Spares(q)
<1> SUFFICES ASSUME NEW q \in Runs, q # m.run PROVE Spares(q)
  OBVIOUS
<1>1. /\ net' = net \ {m}
      /\ claimed' = claimed
      /\ (run' = run /\ saved' = saved) \/ Hear(m, ok)
  BY DEF Answer
<1>2. run'[q] = run[q]
  BY <1>1 DEF Hear, NextChunk, NextSlice, StopWith, Go, IndInv, TypeOK
<1>3. \A d \in DocsOf(q) : d \in Docs /\ d[1] # m.run
  BY DEF DocsOf
<1>4. \A d \in DocsOf(q) : d \notin Chunk(m.run, m.start)
  BY <1>3 DEF Chunk, DocsOf
<1>5. \A d \in DocsOf(q) : d \in saved' <=> d \in saved
  BY <1>1, <1>4 DEF Hear
<1>6. year' \in Nat /\ year' >= year
  BY YearFacts
<1> QED
  BY <1>1, <1>2, <1>3, <1>5, <1>6 DEF Spares, Live

\* Whatever becomes of a request, the other runs are as they were.
LEMMA ServeSpares ==
    ASSUME IndInv, NEW m \in net, Serve(m)
    PROVE  \A q \in Runs : q # m.run => Spares(q)
<1>0. m.run \in Runs /\ m \in Request
  BY DEF IndInv, TypeOK, Request
<1>1. CASE PutRead(m)
  <2> SUFFICES ASSUME NEW q \in Runs, q # m.run PROVE Spares(q)
    OBVIOUS
  <2>1. PICK f : net' = (net \ {m}) \cup {[m EXCEPT !.read = TRUE, !.found = f]}
    BY <1>1 DEF PutRead
  <2>2. [m EXCEPT !.read = TRUE, !.found = f].run = m.run
    BY <1>0 DEF Request
  <2>3. \A k \in net' : k.run = q => k \in net
    BY <2>1, <2>2
  <2>4. UNCHANGED <<year, orders, owed, run, claimed, saved>>
    BY <1>1 DEF PutRead, tables, clientVars, history
  <2>5. year' \in Nat /\ year' >= year
    BY <2>4, YearFacts
  <2> QED
    BY <2>3, <2>4, <2>5 DEF Spares, Live
<1>2. CASE PutCommit(m)
  <2>1. /\ orders' = Saved(Chunk(m.run, m.start), RunFor[m.run], claimed)
        /\ Answer(m, TRUE) /\ year' = year
        /\ \A q \in Runs : q # m.run => owed'[q] = owed[q]
    BY <1>0, <1>2 DEF PutCommit, IndInv, TypeOK
  <2>2. \A d \in Docs : d[1] # m.run => orders'[d] = orders[d]
    BY <2>1 DEF Saved, Chunk, DocsOf
  <2> QED
    BY <2>1, <2>2, AnswerSpares
<1>3. CASE ReturnCommit(m)
  <2>1. /\ Answer(m, TRUE) /\ UNCHANGED <<year, orders>>
        /\ \A q \in Runs : q # m.run => owed'[q] = owed[q]
    BY <1>0, <1>3 DEF ReturnCommit, IndInv, TypeOK
  <2> QED
    BY <2>1, AnswerSpares
<1>4. CASE PutRollback(m) \/ Refuse(m)
  <2>1. Answer(m, FALSE) /\ UNCHANGED <<year, orders, owed>>
    BY <1>4 DEF PutRollback, Refuse, tables, history
  <2> QED
    BY <2>1, AnswerSpares
<1>5. CASE Lose(m)
  <2>1. net' = net \ {m} /\ UNCHANGED <<year, orders, owed, run, claimed, saved>>
    BY <1>5 DEF Lose, tables, clientVars, history
  <2>2. year' \in Nat /\ year' >= year
    BY <2>1, YearFacts
  <2> QED
    BY <2>1, <2>2 DEF Spares, Live
<1> QED
  BY <1>1, <1>2, <1>3, <1>4, <1>5 DEF Serve

\* What follows from an answer to a PUT, whatever it says.
LEMMA PutAnswered ==
    ASSUME IndInv, Settled, NEW m \in net, m.run \notin Lossy, NEW ok \in BOOLEAN,
           m.op = "put", Answer(m, ok), year' = year,
           \A d \in Docs : d \notin Chunk(m.run, m.start) => orders'[d] = orders[d],
           \A n \in owed'[m.run] : n \in owed[m.run],
           ok => \A d \in Chunk(m.run, m.start) : claimed[d] \notin owed'[m.run]
    PROVE  RunSettled(m.run)'
<1> DEFINE r == m.run
           chunk == Chunk(r, m.start)
           known == IF m.op = "put" /\ ok THEN saved \cup chunk ELSE saved
<1>1. /\ r \in Runs /\ m.start \in Nat
      /\ RunSettled(r)
      /\ Awaits(m)
      /\ run[r].start = m.start
      /\ run[r].phase = "putting"
      /\ \A k \in net : k.run = r => k = m
  BY RequestFacts
<1>2. /\ net' = net \ {m}
      /\ claimed' = claimed
      /\ saved' = known
      /\ NextChunk(r, saved')
  BY <1>1 DEF Answer, Hear
<1>3. /\ chunk \subseteq DocsOf(r)
      /\ \A d \in chunk : d[2] <= run[r].start + ChunkSize
      /\ \A d \in DocsOf(r) : d \in Docs /\ d[1] = r /\ d[2] \in Nat
  BY <1>1, DocFacts DEF Chunk, DocsOf
<1>4. HandOwn(r)
  BY <1>1 DEF RunSettled, HandOwn
<1>5. \A k \in net' : k.run # r
  BY <1>1, <1>2
<1>6. saved \subseteq saved' /\ saved' \subseteq saved \cup chunk /\ (~ok => saved' = saved)
  BY <1>2
<1> HIDE DEF known, chunk
<1>7. ASSUME NEW n \in owed'[r] PROVE \E d \in Unsaved(r, saved') : n = claimed[d]
  <2>1. n \in owed[r]
    BY <1>7
  <2>2. PICK d \in Unsaved(r, saved) : n = claimed[d]
    BY <1>1, <2>1 DEF RunSettled
  <2>3. d \in DocsOf(r) /\ claimed[d] # NoNumber /\ d \notin saved
    BY <2>2 DEF Unsaved
  <2>4. d \notin saved'
    BY <1>6, <1>7, <2>2, <2>3 DEF chunk
  <2> QED
    BY <2>2, <2>3, <2>4 DEF Unsaved
<1>8. ASSUME NEW d \in DocsOf(r), d[2] > run[r].start + ChunkSize
      PROVE  ~Live(d)' /\ d \notin saved'
  <2>1. d[2] \in Nat /\ run[r].start \in Nat /\ ChunkSize \in Nat
    BY <1>1, <1>3, RunsAssumption
  <2>2. d[2] > run[r].start /\ ~(d[2] <= run[r].start + ChunkSize)
    BY <1>8, <2>1
  <2>3. ~Live(d) /\ d \notin saved
    BY <1>1, <2>2 DEF RunSettled
  <2>4. d \notin chunk
    BY <1>3, <2>2
  <2>5. orders'[d] = orders[d]
    BY <1>3, <2>4 DEF chunk
  <2> QED
    BY <1>6, <2>3, <2>4, <2>5 DEF Live
<1> QED
  BY <1>1, <1>2, <1>4, <1>5, <1>7, <1>8, NextChunkSettles

\* A committed PUT creates all orders of its chunk, and their numbers are paid.
LEMMA PutCommitSettled ==
    ASSUME IndInv, Settled, NEW m \in net, m.run \notin Lossy, PutCommit(m)
    PROVE  RunSettled(m.run)'
<1> DEFINE chunk == Chunk(m.run, m.start)
           created == {claimed[d] : d \in chunk \ m.found}
<1>1. /\ m.op = "put"
      /\ orders' = Saved(chunk, RunFor[m.run], claimed)
      /\ owed' = [owed EXCEPT ![m.run] = @ \ created]
      /\ Answer(m, TRUE)
      /\ year' = year
  BY DEF PutCommit
<1>2. m.run \in Runs /\ m.found = {}
  BY <1>1, RequestFacts
<1>3. \A d \in chunk : claimed[d] \in created
  BY <1>2
<1>4. \A d \in Docs : d \notin chunk => orders'[d] = orders[d]
  BY <1>1 DEF Saved
<1> HIDE DEF created, chunk
<1>5. owed'[m.run] = owed[m.run] \ created
  BY <1>1, <1>2 DEF IndInv, TypeOK
<1>6. \A d \in chunk : claimed[d] \notin owed'[m.run]
  BY <1>3, <1>5
<1>7. \A n \in owed'[m.run] : n \in owed[m.run]
  BY <1>5
<1>8. TRUE \in BOOLEAN
  OBVIOUS
<1> QED
  BY <1>1, <1>4, <1>5, <1>6, <1>7, <1>8, PutAnswered DEF chunk

\* A refused or rolled back PUT leaves its chunk among the unsaved.
LEMMA PutFailedSettled ==
    ASSUME IndInv, Settled, NEW m \in net, m.run \notin Lossy,
           m.op = "put", PutRollback(m) \/ Refuse(m)
    PROVE  RunSettled(m.run)'
<1>1. m.op = "put" /\ Answer(m, FALSE) /\ UNCHANGED <<year, orders, owed>>
  BY DEF PutRollback, Refuse, tables, history
<1> DEFINE ok == FALSE
<1>2. ok \in BOOLEAN /\ ~ok /\ Answer(m, ok)
  BY <1>1
<1> HIDE DEF ok
<1> QED
  BY <1>1, <1>2, PutAnswered

(* The transaction of a PUT finds none of its orders.                       *)
LEMMA PutReadSettled ==
    ASSUME IndInv, Settled, NEW m \in net, m.run \notin Lossy, PutRead(m)
    PROVE  RunSettled(m.run)'
<1> DEFINE r == m.run
           found == {d \in Chunk(r, m.start) : Live(d)}
<1>1. /\ m.op = "put"
      /\ net' = (net \ {m}) \cup {[m EXCEPT !.read = TRUE, !.found = found]}
      /\ UNCHANGED <<tables, clientVars, history>>
  BY DEF PutRead
<1>2. /\ r \in Runs /\ m.start \in Nat
      /\ RunSettled(r)
      /\ Awaits(m)
      /\ run[r].start = m.start
      /\ run[r].phase = "putting"
      /\ \A k \in net : k.run = r => k = m
  BY <1>1, RequestFacts
<1>3. m \in Request
  BY DEF IndInv, TypeOK
<1>4. found = {}
  BY <1>2 DEF RunSettled, Chunk
<1> HIDE DEF found
<1>5. PICK n : /\ net' = (net \ {m}) \cup {n}
               /\ n.run = r /\ n.op = m.op /\ n.start = m.start /\ n.attempt = m.attempt
               /\ n.found = {}
  <2> DEFINE k == [m EXCEPT !.read = TRUE, !.found = found]
  <2>1. k.run = r /\ k.op = m.op /\ k.start = m.start /\ k.attempt = m.attempt /\ k.found = {}
    BY <1>3, <1>4 DEF Request
  <2>2. net' = (net \ {m}) \cup {k}
    BY <1>1
  <2> HIDE DEF k
  <2> QED
    BY <2>1, <2>2
<1>6. \A k \in net' : k.run = r => k = n
  BY <1>2, <1>5
<1>7. UNCHANGED <<year, orders, owed, run, claimed, saved>>
  BY <1>1 DEF tables, clientVars, history
<1>8. Awaits(n)'
  BY <1>2, <1>5, <1>7 DEF Awaits
<1>9. DocsOf(r)' = DocsOf(r) /\ Unsaved(r, saved)' = Unsaved(r, saved)
  BY <1>7 DEF DocsOf, Unsaved
<1>10. ToReturn(r, run[r].start)' = ToReturn(r, run[r].start)
  BY <1>7, <1>9 DEF ToReturn
<1> QED
  BY <1>2, <1>5, <1>6, <1>7, <1>8, <1>9, <1>10 DEF RunSettled, Live

(* A return gives back the numbers of this year that are on its slice; what *)
(* is still owed of this year is on the slices after it.                    *)
LEMMA ReturnSettled ==
    ASSUME IndInv, Settled, NEW m \in net, m.run \notin Lossy, ReturnCommit(m)
    PROVE  RunSettled(m.run)'
<1> DEFINE r == m.run
           next == run[r].start + ChunkSize
           seqs == {claimed[d].seq : d \in Slice(r, m.start)}
           given == NumbersOf(RunFor[r], seqs)
<1>1. /\ m.op = "recycle"
      /\ owed' = [owed EXCEPT ![r] = @ \ given]
      /\ Answer(m, TRUE)
      /\ UNCHANGED <<year, orders>>
  BY DEF ReturnCommit
<1>2. /\ r \in Runs /\ m.start \in Nat
      /\ RunSettled(r)
      /\ Awaits(m)
      /\ run[r].start = m.start
      /\ run[r].phase = "returning"
      /\ \A k \in net : k.run = r => k = m
  BY <1>1, RequestFacts
<1>3. /\ net' = net \ {m}
      /\ claimed' = claimed
      /\ saved' = saved
      /\ NextSlice(r)
  BY <1>1, <1>2 DEF Answer, Hear
<1>4. \A k \in net' : k.run # r
  BY <1>2, <1>3
<1>5. \A d \in ToReturn(r, run[r].start) : d \in ToReturn(r, next) \/ claimed[d].seq \in seqs
  BY <1>2 DEF Slice
<1>6. \A s \in seqs : [owner |-> RunFor[r], year |-> year, seq |-> s] \in given
  BY DEF NumbersOf
<1>7. Unsaved(r, saved)' = Unsaved(r, saved) /\ DocsOf(r)' = DocsOf(r)
  BY <1>3 DEF Unsaved, DocsOf
<1> HIDE DEF seqs, given, next
<1>8. owed'[r] = owed[r] \ given
  BY <1>1, <1>2 DEF IndInv, TypeOK
<1>9. ASSUME NEW n \in owed'[r], n.year = year
      PROVE  \E d \in ToReturn(r, next) : n = claimed[d]
  <2>1. n \in owed[r] /\ n \notin given
    BY <1>8, <1>9
  <2>2. PICK d \in ToReturn(r, run[r].start) : n = claimed[d]
    BY <1>2, <1>9, <2>1 DEF RunSettled
  <2>3. d \in DocsOf(r) /\ claimed[d] # NoNumber
    BY <2>2 DEF ToReturn, Unsaved
  <2>4. claimed[d].owner = RunFor[r]
    BY <1>2, <2>3 DEF RunSettled
  <2>5. n \in Number
    BY <1>2, <2>1, YearFacts
  <2>6. n = [owner |-> RunFor[r], year |-> year, seq |-> n.seq]
    BY <1>9, <2>2, <2>4, <2>5 DEF Number
  <2>7. n.seq \notin seqs
    BY <1>6, <2>1, <2>6
  <2> QED
    BY <1>5, <2>2, <2>7
<1>10. ASSUME NEW n \in owed'[r] PROVE n.year <= year /\ n.year \in Nat /\ year \in Nat
  <2>1. n \in owed[r]
    BY <1>8, <1>10
  <2>2. PICK d \in Unsaved(r, saved) : n = claimed[d]
    BY <1>2, <2>1 DEF RunSettled
  <2> QED
    BY <1>2, <2>1, <2>2, YearFacts DEF RunSettled, Unsaved
<1>11. owed'[r] \subseteq {claimed'[d] : d \in Unsaved(r, saved)'}
  BY <1>2, <1>3, <1>7, <1>8 DEF RunSettled
<1>12. \A d \in DocsOf(r) :
          claimed'[d] # NoNumber => claimed'[d].owner = RunFor[r] /\ claimed'[d].year <= year'
  BY <1>1, <1>2, <1>3 DEF RunSettled
<1>13. CASE ToReturn(r, next) = {}
  <2>1. run'[r].phase = "done"
    BY <1>2, <1>3, <1>13 DEF NextSlice, Go, IndInv, TypeOK, next
  <2>2. \A n \in owed'[r] : n.year < year
    BY <1>9, <1>10, <1>13
  <2> QED
    BY <1>1, <1>4, <1>7, <1>12, <2>1, <2>2 DEF RunSettled
<1>14. CASE ToReturn(r, next) # {}
  <2>1. run'[r].phase = "return" /\ run'[r].start = next
    BY <1>2, <1>3, <1>14 DEF NextSlice, Go, IndInv, TypeOK, next
  <2>2. ToReturn(r, run[r].start)' = ToReturn(r, next)
    BY <1>7, <2>1 DEF ToReturn
  <2> QED
    BY <1>1, <1>3, <1>4, <1>7, <1>9, <1>11, <1>12, <2>1, <2>2 DEF RunSettled
<1> QED
  BY <1>13, <1>14

-----------------------------------------------------------------------------
(* Steps of nobody's run: deletes, edits, the turn of the year.             *)
LEMMA TablesSettled ==
    ASSUME IndInv, Settled, UNCHANGED <<clientVars, net, owed>>,
           \A d \in Docs : Live(d)' => Live(d),
           year' \in Nat, year' >= year
    PROVE  Settled'
<1>1. \A q \in Runs : Spares(q)
  BY DEF Spares, DocsOf, clientVars
<1> QED
  BY <1>1, NoRunSettled

\* Deletes, edits and the year create no order of a run.
LEMMA OtherSettled ==
    ASSUME IndInv, Settled,
           (\E q \in Deletes : Delete(q)) \/ Edit \/ NewYear \/ UNCHANGED vars
    PROVE  Settled'
<1>0. TypeOK /\ year \in Nat
  BY YearFacts DEF IndInv
<1>1. ASSUME NEW q \in Deletes, Delete(q) PROVE Settled'
  <2>1. UNCHANGED <<year, clientVars, net, owed>> /\ \A d \in Docs : Live(d)' => Live(d)
    <3>1. CASE DeleteCommit(q)
      BY <3>1 DEF DeleteCommit, RemoveOrders, Live
    <3>2. CASE DeleteRead(q) \/ DeleteCheck(q) \/ DeleteRefused(q)
      BY <3>2 DEF DeleteRead, DeleteCheck, DeleteRefused, tables, history, Live
    <3> QED
      BY <1>1, <3>1, <3>2 DEF Delete
  <2> QED
    BY <1>0, <2>1, TablesSettled
<1>2. CASE Edit
  <2>1. PICK actor \in Editors, d \in Docs, userId \in Users, accepted \in BOOLEAN :
          EditOrder(actor, d, userId, accepted)
    BY <1>2 DEF Edit
  <2>2. /\ UpdateOrder(actor, d, userId, accepted)
        /\ UNCHANGED <<year, clientVars, net, owed>>
    BY <2>1 DEF EditOrder, history
  <2>3. \A e \in Docs : Live(e)' => Live(e)
    BY <1>0, <2>2, EditFacts
  <2> QED
    BY <1>0, <2>2, <2>3, TablesSettled
<1>3. CASE NewYear
  BY <1>0, <1>3, TablesSettled DEF NewYear, Live, history
<1>4. CASE UNCHANGED vars
  BY <1>0, <1>4, TablesSettled DEF vars, tables, history, Live
<1> QED
  BY <1>1, <1>2, <1>3, <1>4

-----------------------------------------------------------------------------
\* A run that has not begun is settled, and so is one that nobody asks for.
LEMMA InitSettled == Init => Settled
<1> SUFFICES ASSUME Init, NEW r \in Runs PROVE RunSettled(r)
  BY DEF Settled
<1>1. \/ run[r].phase = "claim" /\ run[r].start = 0
      \/ run[r].phase = "done"
  BY DEF Init, Begun, NotAsked
<1>2. \A d \in DocsOf(r) : d \in Docs /\ claimed[d] = NoNumber /\ d \notin saved
  BY DEF Init, DocsOf
<1>3. net = {} /\ owed[r] = {}
  BY DEF Init
<1> QED
  BY <1>1, <1>2, <1>3 DEF RunSettled

\* Every step keeps the runs settled that lose nothing.
LEMMA NextSettled == IndInv /\ Settled /\ [Next]_vars => Settled'
<1> SUFFICES ASSUME IndInv, Settled, [Next]_vars PROVE Settled'
  OBVIOUS
<1>1. ASSUME NEW r \in Runs, Client(r) PROVE Settled'
  <2>1. ASSUME r \notin Lossy PROVE RunSettled(r)'
    <3>1. ClaimChunk(r) \/ Stop(r) \/ SendPut(r) \/ SendReturn(r)
      BY <1>1, <2>1 DEF Client, Retry, GiveUp, Abort, CloseTab
    <3>2. RunSettled(r)
      BY <2>1 DEF Settled
    <3> QED
      BY <2>1, <3>1, <3>2, ClaimSettled, StopActSettled, SendSettled
  <2> QED
    BY <1>1, <2>1, ClientSpares, OneRunSettled
<1>2. ASSUME NEW m \in net, Serve(m) PROVE Settled'
  <2>1. ASSUME m.run \notin Lossy PROVE RunSettled(m.run)'
    <3>1. \/ PutRead(m) \/ PutCommit(m) \/ ReturnCommit(m)
          \/ m.op = "put" /\ (PutRollback(m) \/ Refuse(m))
      BY <1>2, <2>1 DEF Serve, Lose, Refuse, PutRollback
    <3> QED
      BY <2>1, <3>1, PutReadSettled, PutCommitSettled, PutFailedSettled, ReturnSettled
  <2>2. m.run \in Runs
    BY DEF IndInv, TypeOK, Request
  <2> QED
    BY <1>2, <2>1, <2>2, ServeSpares, OneRunSettled
<1> QED
  BY <1>1, <1>2, OtherSettled DEF Next

(* A run that loses no message, and whose tab stays open, has stored or     *)
(* given back every number of this year that it was granted when it is      *)
(* over: executeBulkGeneration's "claimed = saved + recycled", however many *)
(* chunks are refused, whatever the other runs lose, and however its        *)
(* requests interleave with theirs, with the accepting, reassigning and     *)
(* deleting of orders and with the turn of the year.                        *)
THEOREM AllSettledCorrect == Spec => []AllSettled
<1>1. Init => Settled
  BY InitSettled
<1>2. IndInv /\ Settled /\ [Next]_vars => Settled'
  BY NextSettled
<1>3. IndInv /\ Settled => AllSettled
  <2> SUFFICES ASSUME IndInv, Settled, NEW r \in Runs \ Lossy, run[r].phase = "done",
                      NEW n \in owed[r]
               PROVE  n.year # year
    BY DEF AllSettled
  <2>1. n.year < year /\ year \in Nat /\ n.year \in Nat
    BY YearFacts DEF Settled, RunSettled
  <2> QED
    BY <2>1
<1> QED
  BY <1>1, <1>2, <1>3, InitInv, NextInv, PTL DEF Spec

=============================================================================
