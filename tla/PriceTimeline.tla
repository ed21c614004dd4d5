--------------------------- MODULE PriceTimeline ---------------------------
(***************************************************************************)
(* The table PricelistVersion: which versions there are on each axis       *)
(* (rury, studnie, preco), which one is in force, and which PRECO version  *)
(* a version of studnie is exported with.                                  *)
(*                                                                         *)
(* The rows of a version and their SHA-256 are one value of Contents, an   *)
(* instant is a member of Times.  An id is used once: the row of a deleted *)
(* version is Deleted, never None again.                                   *)
(***************************************************************************)
EXTENDS Integers, FiniteSets, FiniteSetsExt

CONSTANTS
    Types,     \* the axes
    Preco,     \* the axis whose versions studnie versions are exported with
    Studnie,
    Ids,       \* ids that versions may get
    Contents,  \* rows of a version
    Labels,    \* labels an administrator may type
    BaselineId, \* BaselineId[t]: the id of the first version of t
    Seed,      \* its rows
    MaxTime,   \* bound: the last instant
    None,
    Deleted

Times == 0 .. MaxTime

(* A label: <<seq, from>> is the derived one, <<0, n>> any other text.      *)
LabelSet == Nat \X Times

ASSUME TimelineAssumption ==
    /\ MaxTime \in Nat
    /\ Labels \subseteq LabelSet
    /\ BaselineId \in [Types -> Ids]
    /\ \A t, u \in Types : BaselineId[t] = BaselineId[u] => t = u
    /\ Seed \in Contents
    /\ Types # {}
    /\ Preco \in Types => Studnie \in Types \ {Preco}
    /\ IsFiniteSet(Ids)
    /\ None \notin Ids \cup LabelSet \cup Types

Version == [type : Types, seq : Nat \ {0}, status : {"DRAFT", "APPROVED"},
            from : Times, rows : Contents, label : LabelSet \cup {None}]

ASSUME RowAssumption ==
    /\ None \notin Version
    /\ Deleted \notin Version
    /\ Deleted # None

Table == [Ids -> Version \cup {None, Deleted}]

Pins == [Types -> Ids \cup {None}]

-----------------------------------------------------------------------------
Stored(vs) == {i \in Ids : vs[i] \notin {None, Deleted}}

OfType(vs, t) == {i \in Stored(vs) : vs[i].type = t}

Drafts(vs, t) == {i \in OfType(vs, t) : vs[i].status = "DRAFT"}

Approved(vs, t) == {i \in OfType(vs, t) : vs[i].status = "APPROVED"}

Due(vs, t, at) == {i \in Approved(vs, t) : vs[i].from <= at}

\* ORDER BY effectiveFrom DESC, seq DESC
Precedes(v, w) == v.from > w.from \/ (v.from = w.from /\ v.seq > w.seq)

Latest(vs, S) ==
    IF S = {} THEN None
    ELSE CHOOSE i \in S : \A j \in S \ {i} : Precedes(vs[i], vs[j])

\* The version new offers are priced with.
ResolveActive(vs, pins, t, at) ==
    IF pins[t] \in Due(vs, t, at) THEN pins[t] ELSE Latest(vs, Due(vs, t, at))

PickedPreco(vs, s) == Latest(vs, {p \in Approved(vs, Preco) : vs[p].from <= vs[s].from})

PrecoReferences(vs, p) == {s \in OfType(vs, Studnie) : PickedPreco(vs, s) = p}

NextSeq(vs, t) == Max({vs[i].seq : i \in OfType(vs, t)} \cup {0}) + 1

EffectiveLabel(v) == IF v.label # None THEN v.label ELSE <<v.seq, v.from>>

\* The derived label typed by hand is no override.
Override(v, label) == IF label = <<v.seq, v.from>> THEN None ELSE label

LabelTaken(vs, i, label) ==
    \E j \in OfType(vs, vs[i].type) \ {i} : EffectiveLabel(vs[j]) = label

InstantTaken(vs, i, from) ==
    \E j \in Approved(vs, vs[i].type) \ {i} : vs[j].from = from

NewDraft(t, seq, from, rows) ==
    [type |-> t, seq |-> seq, status |-> "DRAFT", from |-> from, rows |-> rows,
     label |-> None]

\* The unique indexes of the table.
UniqueIndexes(vs) ==
    \A t \in Types :
        /\ Cardinality(Drafts(vs, t)) <= 1
        /\ \A i, j \in OfType(vs, t) : vs[i].seq = vs[j].seq => i = j
        /\ \A i, j \in Approved(vs, t) : vs[i].from = vs[j].from => i = j

(* ensureBaselineVersions: an axis without versions gets an approved one, in *)
(* force from the start.                                                    *)
Baseline ==
    [i \in Ids |->
        IF \E t \in Types : BaselineId[t] = i
        THEN [NewDraft(CHOOSE t \in Types : BaselineId[t] = i, 1, 0, Seed)
                EXCEPT !.status = "APPROVED"]
        ELSE None]

NoPins == [t \in Types |-> None]
=============================================================================
