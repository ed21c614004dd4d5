------------------------ MODULE PriceTimelineProofs ------------------------
(***************************************************************************)
(* Facts about the versions of price lists as data, for every table.       *)
(***************************************************************************)
EXTENDS PriceTimeline, FiniteSetTheorems, WellFoundedInduction, TLAPS

(* A finite set of integers has a greatest member: of the sets of what lies *)
(* above each member, one contains no other.                                *)
LEMMA MaximumExists ==
    ASSUME NEW S, S \subseteq Int, IsFiniteSet(S), S # {}
    PROVE  \E x \in S : \A y \in S : x >= y
<1> DEFINE Above(x) == {y \in S : y > x}
           T == {Above(x) : x \in S}
<1>1. IsWellFoundedOn(StrictSubsetOrdering(S), FiniteSubsetsOf(S))
  BY FS_StrictSubsetOrderingWellFounded
<1>2. T \subseteq FiniteSubsetsOf(S)
  <2> SUFFICES ASSUME NEW x \in S
               PROVE  Above(x) \in FiniteSubsetsOf(S)
    OBVIOUS
  <2>1. Above(x) \in SUBSET S
    OBVIOUS
  <2>2. IsFiniteSet(Above(x))
    BY <2>1, FS_Subset
  <2> QED
    BY <2>1, <2>2 DEF FiniteSubsetsOf
<1>3. T # {}
  OBVIOUS
<1>4. PICK A \in T : \A B \in T : ~ (<<B, A>> \in StrictSubsetOrdering(S))
  <2> HIDE DEF T
  <2> QED
    BY <1>1, <1>2, <1>3, WFMin
<1>5. PICK x \in S : A = Above(x)
  OBVIOUS
<1>6. ASSUME NEW y \in S
      PROVE  x >= y
  <2> SUFFICES ASSUME y > x
               PROVE  FALSE
    OBVIOUS
  <2>1. Above(y) \in T /\ Above(y) \in SUBSET S /\ Above(x) \in SUBSET S
    OBVIOUS
  <2>2. \A z \in S : z > y => z > x
    OBVIOUS
  <2>3. y \in Above(x) /\ y \notin Above(y)
    BY y > x
  <2>4. Above(y) \subseteq Above(x)
    BY <2>2
  <2>5. <<Above(y), Above(x)>> \in StrictSubsetOrdering(S)
    BY <2>1, <2>3, <2>4 DEF StrictSubsetOrdering
  <2> QED
    BY <1>4, <1>5, <2>1, <2>5
<1> QED
  BY <1>6

\* Max of FiniteSetsExt, a CHOOSE, is the greatest element of a finite set of integers.
LEMMA MaxIsMaximum ==
    ASSUME NEW S, S \subseteq Int, IsFiniteSet(S), S # {}
    PROVE  Max(S) \in S /\ \A y \in S : Max(S) >= y
  BY MaximumExists DEF Max

-----------------------------------------------------------------------------
\* The rows of a table are versions, and there are finitely many.
LEMMA TableFacts ==
    ASSUME NEW vs \in Table
    PROVE  /\ \A i \in Stored(vs) : i \in Ids /\ vs[i] \in Version
           /\ \A i \in Ids : vs[i] \in Version <=> i \in Stored(vs)
           /\ IsFiniteSet(Stored(vs))
<1>1. Stored(vs) \in SUBSET Ids
  BY DEF Stored
<1>2. IsFiniteSet(Stored(vs))
  BY <1>1, TimelineAssumption, FS_Subset
<1> QED
  BY <1>2, RowAssumption DEF Stored, Table

(* Of versions that come into force at instants of their own, Latest is the *)
(* one that does so last.                                                   *)
LEMMA LatestIsLast ==
    ASSUME NEW vs \in Table, NEW S, S \subseteq Stored(vs), S # {},
           \A i, j \in S : vs[i].from = vs[j].from => i = j
    PROVE  /\ Latest(vs, S) \in S
           /\ \A j \in S : vs[j].from <= vs[Latest(vs, S)].from
<1> DEFINE Froms == {vs[i].from : i \in S}
<1>1. \A i \in S : vs[i].from \in 0 .. MaxTime
  BY TableFacts DEF Version, Times
<1>2. Froms \in SUBSET (0 .. MaxTime) /\ Froms # {}
  BY <1>1
<1>3. IsFiniteSet(0 .. MaxTime)
  BY TimelineAssumption, FS_Interval
<1>4. IsFiniteSet(Froms)
  BY <1>2, <1>3, FS_Subset
<1>5. 0 .. MaxTime \subseteq Int
  BY TimelineAssumption
<1>6. PICK m \in Froms : \A f \in Froms : m >= f
  <2> HIDE DEF Froms
  <2> QED
    BY <1>2, <1>4, <1>5, MaximumExists
<1>7. PICK i \in S : m = vs[i].from
  BY <1>6
<1>8. \A j \in S \ {i} : Precedes(vs[i], vs[j])
  <2> SUFFICES ASSUME NEW j \in S \ {i}
               PROVE  vs[i].from > vs[j].from
    BY DEF Precedes
  <2>1. vs[i].from >= vs[j].from
    BY <1>6, <1>7
  <2>2. vs[i].from # vs[j].from
    OBVIOUS
  <2>3. vs[i].from \in Int /\ vs[j].from \in Int
    BY <1>1, <1>5
  <2> QED
    BY <2>1, <2>2, <2>3
<1> DEFINE l == Latest(vs, S)
<1>9. l \in S /\ \A j \in S \ {l} : Precedes(vs[l], vs[j])
  BY <1>8 DEF Latest
<1> HIDE DEF l
<1>10. \A j \in S : vs[j].from <= vs[l].from
  BY <1>1, <1>5, <1>9 DEF Precedes
<1> QED
  BY <1>9, <1>10 DEF l

\* No two approved versions of an axis come into force at one instant.
OwnInstants(vs) ==
    \A t \in Types : \A i, j \in Approved(vs, t) : vs[i].from = vs[j].from => i = j

\* resolveActive answers a version in force whenever the axis has one.
LEMMA ResolveActiveIsDue ==
    ASSUME NEW vs \in Table, OwnInstants(vs), NEW pins, NEW t \in Types, NEW at,
           Due(vs, t, at) # {}
    PROVE  ResolveActive(vs, pins, t, at) \in Due(vs, t, at)
<1>1. Due(vs, t, at) \subseteq Approved(vs, t) /\ Approved(vs, t) \subseteq Stored(vs)
  BY DEF Due, Approved, OfType
<1>2. \A i, j \in Due(vs, t, at) : vs[i].from = vs[j].from => i = j
  BY <1>1 DEF OwnInstants
<1>3. Latest(vs, Due(vs, t, at)) \in Due(vs, t, at)
  BY <1>1, <1>2, LatestIsLast
<1> QED
  BY <1>3 DEF ResolveActive

\* createDraftTx numbers versions from 1.
LEMMA NextSeqType ==
    ASSUME NEW vs \in Table, NEW t
    PROVE  NextSeq(vs, t) \in Nat \ {0}
<1> DEFINE S == {vs[i].seq : i \in OfType(vs, t)}
<1> DEFINE f == [i \in OfType(vs, t) |-> vs[i].seq]
<1>0. OfType(vs, t) \in SUBSET Stored(vs)
  BY DEF OfType
<1>1. S \subseteq Nat
  BY <1>0, TableFacts DEF Version
<1>2. IsFiniteSet(OfType(vs, t))
  BY <1>0, TableFacts, FS_Subset
<1>3. IsFiniteSet(S)
  <2>1. f \in Surjection(OfType(vs, t), S)
    BY DEF Surjection
  <2> QED
    BY <1>2, <2>1, FS_Surjection
<1> HIDE DEF S
<1> DEFINE S0 == S \cup {0}
<1>4. IsFiniteSet(S0)
  BY <1>3, FS_AddElement
<1>5. S0 \subseteq Nat /\ S0 # {}
  BY <1>1
<1>6. NextSeq(vs, t) = Max(S0) + 1
  BY DEF NextSeq, S
<1> HIDE DEF S0
<1>7. S0 \subseteq Int
  BY <1>5
<1>8. Max(S0) \in S0
  BY <1>4, <1>5, <1>7, MaxIsMaximum
<1> DEFINE n == Max(S0)
<1>9. n \in Nat
  BY <1>5, <1>8
<1> HIDE DEF n
<1>10. n + 1 \in Nat \ {0}
  BY <1>9
<1> QED
  BY <1>6, <1>10 DEF n

-----------------------------------------------------------------------------
(* What is said of an axis depends on the rows of that axis alone.          *)
SameAxis(vs, ws, t) ==
    /\ OfType(vs, t) = OfType(ws, t)
    /\ \A i \in OfType(vs, t) : vs[i] = ws[i]

\* What the queries on an axis answer depends on the rows of that axis alone.
LEMMA SameAxisFacts ==
    ASSUME NEW vs, NEW ws, NEW t, SameAxis(vs, ws, t)
    PROVE  /\ Drafts(vs, t) = Drafts(ws, t)
           /\ Approved(vs, t) = Approved(ws, t)
           /\ \A at : Due(vs, t, at) = Due(ws, t, at)
           /\ NextSeq(vs, t) = NextSeq(ws, t)
<1>1. Drafts(vs, t) = Drafts(ws, t) /\ Approved(vs, t) = Approved(ws, t)
  BY DEF SameAxis, Drafts, Approved
<1>2. \A at : Due(vs, t, at) = Due(ws, t, at)
  BY <1>1 DEF SameAxis, Due, Approved
<1>3. {vs[i].seq : i \in OfType(vs, t)} = {ws[i].seq : i \in OfType(ws, t)}
  BY DEF SameAxis
<1> QED
  BY <1>1, <1>2, <1>3 DEF NextSeq

(* A row of another axis, whether new, changed or deleted, leaves t as it is. *)
LEMMA OtherAxis ==
    ASSUME NEW vs \in Table, NEW ws \in Table, NEW t, NEW i \in Ids,
           \A j \in Ids \ {i} : ws[j] = vs[j],
           i \in Stored(vs) => vs[i].type # t,
           i \in Stored(ws) => ws[i].type # t
    PROVE  SameAxis(vs, ws, t)
<1>1. \A j \in Ids \ {i} : j \in Stored(vs) <=> j \in Stored(ws)
  BY DEF Stored
<1>2. OfType(vs, t) = OfType(ws, t)
  BY <1>1 DEF OfType, Stored
<1>3. \A j \in OfType(vs, t) : j \in Ids \ {i}
  BY DEF OfType, Stored
<1> QED
  BY <1>2, <1>3 DEF SameAxis

(* Which version of PRECO goes with one of studnie depends on these two axes. *)
LEMMA SamePreco ==
    ASSUME NEW vs \in Table, NEW ws \in Table, OwnInstants(vs), Preco \in Types,
           SameAxis(vs, ws, Preco), SameAxis(vs, ws, Studnie), NEW p
    PROVE  PrecoReferences(vs, p) = PrecoReferences(ws, p)
<1>1. ASSUME NEW s \in OfType(vs, Studnie)
      PROVE  PickedPreco(vs, s) = PickedPreco(ws, s)
  <2> DEFINE S == {q \in Approved(vs, Preco) : vs[q].from <= vs[s].from}
             R == {q \in Approved(ws, Preco) : ws[q].from <= ws[s].from}
  <2>1. S = R
    BY SameAxisFacts, <1>1 DEF SameAxis, Approved
  <2>2. S \subseteq Approved(vs, Preco) /\ S \subseteq Stored(vs)
    BY DEF Approved, OfType
  <2>3. R \subseteq Approved(ws, Preco) /\ R \subseteq Stored(ws)
    BY DEF Approved, OfType
  <2>4. \A q \in S : vs[q] = ws[q]
    BY DEF SameAxis, Approved
  <2>5. PickedPreco(vs, s) = Latest(vs, S) /\ PickedPreco(ws, s) = Latest(ws, R)
    BY DEF PickedPreco
  <2>6. \A i, j \in S : vs[i].from = vs[j].from => i = j
    BY <2>2 DEF OwnInstants
  <2> HIDE DEF S, R
  <2>7. CASE S = {}
    BY <2>1, <2>5, <2>7 DEF Latest
  <2>8. CASE S # {}
    <3> DEFINE k == Latest(vs, S)
               l == Latest(ws, S)
    <3>1. k \in S /\ \A j \in S : vs[j].from <= vs[k].from
      BY <2>2, <2>6, <2>8, LatestIsLast
    <3>2. \A i, j \in S : ws[i].from = ws[j].from => i = j
      BY <2>4, <2>6
    <3>3. l \in S /\ \A j \in S : ws[j].from <= ws[l].from
      BY <2>1, <2>3, <2>8, <3>2, LatestIsLast
    <3> HIDE DEF k, l
    <3>4. vs[k].from \in Int /\ vs[l].from \in Int
      BY <2>2, <3>1, <3>3, TableFacts, TimelineAssumption DEF Version, Times
    <3>5. vs[k].from <= vs[l].from /\ vs[l].from <= vs[k].from
      BY <2>4, <3>1, <3>3
    <3>6. k = l
      BY <2>6, <3>1, <3>3, <3>4, <3>5
    <3> QED
      BY <2>1, <2>5, <3>6 DEF k, l
  <2> QED
    BY <2>7, <2>8
<1> QED
  BY <1>1 DEF PrecoReferences, SameAxis

=============================================================================
