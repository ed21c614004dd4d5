----------------------------- MODULE PriceList -----------------------------
(***************************************************************************)
(* What the price lists promise: every change of them is one step, taken   *)
(* in a state that permits it.  The axes, the locks, the requests and the  *)
(* checks of the code are not here: PricelistVersions implements this.     *)
(***************************************************************************)
EXTENDS PriceTimeline

VARIABLES
    versions, \* the versions that there are
    pins,     \* pins[t]: the version chosen by hand
    clock

Init ==
    /\ versions = Baseline
    /\ pins = NoPins
    /\ clock = 0

\* Without i there would still be a version in force.
Dispensable(i) ==
    /\ pins[versions[i].type] # i
    /\ Due(versions, versions[i].type, clock) \ {i} # {}

Put(i, row) == versions' = [versions EXCEPT ![i] = row]

\* A draft with the next number, of any rows, on an axis that has no draft.
Create(t, i, from, rows) ==
    /\ versions[i] = None
    /\ Put(i, NewDraft(t, NextSeq(versions, t), from, rows))
    /\ Drafts(versions, t) = {}
    /\ UNCHANGED <<pins, clock>>

\* Rows change where they are, whatever the status.
Edit(i, rows) ==
    /\ Put(i, [versions[i] EXCEPT !.rows = rows])
    /\ UNCHANGED <<pins, clock>>

\* No other version of the axis shows the label given by hand.
Relabel(i, label) ==
    /\ Put(i, [versions[i] EXCEPT !.label = label])
    /\ label = None \/ ~LabelTaken(versions, i, label)
    /\ UNCHANGED <<pins, clock>>

(* Two versions never come into force at one instant.  A version that does  *)
(* so at once ends the choice by hand.                                      *)
Publish(i, from) ==
    /\ Put(i, [versions[i] EXCEPT !.status = "APPROVED", !.from = from])
    /\ i \in Drafts(versions, versions[i].type)
    /\ ~InstantTaken(versions, i, from)
    /\ pins' \in {pins, [pins EXCEPT ![versions[i].type] = None]}
    /\ UNCHANGED clock

Withdraw(i) ==
    /\ Put(i, [versions[i] EXCEPT !.status = "DRAFT"])
    /\ i \in Approved(versions, versions[i].type)
    /\ Drafts(versions, versions[i].type) = {}
    /\ Dispensable(i)
    /\ UNCHANGED <<pins, clock>>

\* A version of PRECO stays while a version of studnie is exported with it.
Remove(i) ==
    /\ Put(i, Deleted)
    /\ i \in Drafts(versions, versions[i].type) \/ Dispensable(i)
    /\ versions[i].type = Preco => PrecoReferences(versions, i) = {}
    /\ UNCHANGED <<pins, clock>>

Pin(i) ==
    /\ pins' = [pins EXCEPT ![versions[i].type] = i]
    /\ i \in Due(versions, versions[i].type, clock)
    /\ UNCHANGED <<versions, clock>>

Unpin(t) ==
    /\ pins' = [pins EXCEPT ![t] = None]
    /\ UNCHANGED <<versions, clock>>

Advance ==
    /\ clock < MaxTime
    /\ clock' = clock + 1
    /\ UNCHANGED <<versions, pins>>

Next ==
    \/ \E i \in Stored(versions) :
           \/ \E rows \in Contents : Edit(i, rows)
           \/ \E label \in Labels \cup {None} : Relabel(i, label)
           \/ \E from \in Times : Publish(i, from)
           \/ Withdraw(i)
           \/ Remove(i)
           \/ Pin(i)
    \/ \E t \in Types, i \in Ids, from \in Times, rows \in Contents : Create(t, i, from, rows)
    \/ \E t \in Types : Unpin(t)
    \/ Advance

Spec == Init /\ [][Next]_<<versions, pins, clock>>
=============================================================================
