------------------------- MODULE DocEditingProofs -------------------------
(***************************************************************************)
(* Proofs about DocEditing, for every set of users, pages and documents,   *)
(* every time to live of a lock, and any number of requests and saves.     *)
(***************************************************************************)
EXTENDS DocEditing, TLAPS

(* A page that opens a document, and a handler of an acquire, have one; the *)
(* save of an order that goes on after its read has read a row.             *)
TypeInv ==
    /\ TypeOK
    /\ \A t \in Tabs :
           /\ tab[t].stage \in {"asking", "refused", "loading"} => tab[t].want # None
           /\ acq[t].pc # "none" => acq[t].doc # None
    /\ \A m \in net : m.pc # "read" /\ m.doc \notin Offers => m.read # NoDoc

-----------------------------------------------------------------------------
(* Types.                                                                   *)

(* The parts of a page.                                                     *)
LEMMA PageFacts ==
    ASSUME TypeInv, NEW t \in Tabs
    PROVE  /\ tab \in [Tabs -> Tab] /\ tab[t] \in Tab /\ UserOf[t] \in Users
           /\ tab[t].want \in Docs \cup {None} /\ tab[t].open \in Docs \cup {None}
           /\ tab[t].held \in Docs \cup {None} /\ tab[t].lease \in 0 .. TTL
           /\ tab[t].ver \in Nat /\ tab[t].told \in Nat
           /\ tab[t].copy \in [Docs -> Nat]
           /\ acq \in [Tabs -> Acquire] /\ acq[t] \in Acquire
           /\ acq[t].doc \in Docs \cup {None} /\ acq[t].clock \in Lateness
           /\ acq[t].lease \in 0 .. TTL
           /\ TTL \in Nat /\ TTL \in 0 .. TTL /\ 0 \in 0 .. TTL
           /\ MaxLate \in Nat /\ 0 \in Lateness
  BY TTLAssumption, TabsAssumption DEF TypeInv, TypeOK, Tab, Acquire, Lateness

\* A lease is younger than TTL or has run out.
LEMMA LeaseSteps ==
    ASSUME NEW age \in Nat
    PROVE  Lease(age) \in 0 .. TTL /\ (Lease(age) < TTL => Lease(age) = age)
  BY TTLAssumption DEF Lease

\* A handler that has not begun has no document and no lease.
LEMMA NoAcquireType ==
    NoAcquire \in Acquire /\ NoAcquire.pc = "none" /\ NoAcquire.lease = TTL
<1>1. TTL \in 0 .. TTL /\ 0 \in Lateness
  BY TTLAssumption DEF Lateness
<1> QED
  BY <1>1 DEF NoAcquire, Acquire, AcquirePCs

(* Leases that are lost change nothing else.                                *)
LEMMA LostType ==
    ASSUME TypeInv, NEW d, NEW users
    PROVE  /\ LeasesLost(d, users) \in [Tabs -> Tab]
           /\ GrantsLost(d, users) \in [Tabs -> Acquire]
           /\ \A t \in Tabs :
                 /\ LeasesLost(d, users)[t] \in {tab[t], [tab[t] EXCEPT !.lease = TTL]}
                 /\ LeasesLost(d, users)[t].stage = tab[t].stage
                 /\ LeasesLost(d, users)[t].want = tab[t].want
                 /\ LeasesLost(d, users)[t].open = tab[t].open
                 /\ LeasesLost(d, users)[t].held = tab[t].held
                 /\ LeasesLost(d, users)[t].ver = tab[t].ver
                 /\ LeasesLost(d, users)[t].told = tab[t].told
                 /\ LeasesLost(d, users)[t].lease \in {tab[t].lease, TTL}
                 /\ tab[t].held = d /\ UserOf[t] \in users => LeasesLost(d, users)[t].lease = TTL
                 /\ GrantsLost(d, users)[t].pc = acq[t].pc
                 /\ GrantsLost(d, users)[t].doc = acq[t].doc
                 /\ GrantsLost(d, users)[t].lease \in {acq[t].lease, TTL}
                 /\ acq[t].doc = d /\ UserOf[t] \in users => GrantsLost(d, users)[t].lease = TTL
<1>1. ASSUME NEW t \in Tabs
      PROVE  tab[t] \in Tab /\ acq[t] \in Acquire /\ TTL \in 0 .. TTL
  BY PageFacts
<1>2. \A t \in Tabs : [tab[t] EXCEPT !.lease = TTL] \in Tab
  BY <1>1 DEF Tab
<1>3. \A t \in Tabs : [acq[t] EXCEPT !.lease = TTL] \in Acquire
  BY <1>1 DEF Acquire
<1>4. /\ LeasesLost(d, users) \in [Tabs -> Tab]
      /\ GrantsLost(d, users) \in [Tabs -> Acquire]
  BY <1>1, <1>2, <1>3 DEF LeasesLost, GrantsLost
<1>5. ASSUME NEW t \in Tabs
      PROVE  /\ LeasesLost(d, users)[t] \in {tab[t], [tab[t] EXCEPT !.lease = TTL]}
             /\ LeasesLost(d, users)[t].stage = tab[t].stage
             /\ LeasesLost(d, users)[t].want = tab[t].want
             /\ LeasesLost(d, users)[t].open = tab[t].open
             /\ LeasesLost(d, users)[t].held = tab[t].held
             /\ LeasesLost(d, users)[t].ver = tab[t].ver
             /\ LeasesLost(d, users)[t].told = tab[t].told
             /\ LeasesLost(d, users)[t].lease \in {tab[t].lease, TTL}
             /\ tab[t].held = d /\ UserOf[t] \in users => LeasesLost(d, users)[t].lease = TTL
  <2>1. LeasesLost(d, users)[t] = IF tab[t].held = d /\ UserOf[t] \in users
                                  THEN [tab[t] EXCEPT !.lease = TTL] ELSE tab[t]
    BY DEF LeasesLost
  <2>2. tab[t] \in Tab
    BY <1>1
  <2>3. CASE tab[t].held = d /\ UserOf[t] \in users
    BY <2>1, <2>2, <2>3 DEF Tab
  <2>4. CASE ~(tab[t].held = d /\ UserOf[t] \in users)
    BY <2>1, <2>4
  <2> QED
    BY <2>3, <2>4
<1>6. ASSUME NEW t \in Tabs
      PROVE  /\ GrantsLost(d, users)[t].pc = acq[t].pc
             /\ GrantsLost(d, users)[t].doc = acq[t].doc
             /\ GrantsLost(d, users)[t].lease \in {acq[t].lease, TTL}
             /\ acq[t].doc = d /\ UserOf[t] \in users => GrantsLost(d, users)[t].lease = TTL
  <2>1. GrantsLost(d, users)[t] = IF acq[t].doc = d /\ UserOf[t] \in users
                                  THEN [acq[t] EXCEPT !.lease = TTL] ELSE acq[t]
    BY DEF GrantsLost
  <2>2. acq[t] \in Acquire
    BY <1>1
  <2>3. CASE acq[t].doc = d /\ UserOf[t] \in users
    BY <2>1, <2>2, <2>3 DEF Acquire
  <2>4. CASE ~(acq[t].doc = d /\ UserOf[t] \in users)
    BY <2>1, <2>4
  <2> QED
    BY <2>3, <2>4
<1> QED
  BY <1>4, <1>5, <1>6

(* The parts of a save.                                                     *)
LEMMA SaveFacts ==
    ASSUME TypeInv, NEW m \in net
    PROVE  /\ m \in SaveRequest /\ m.tab \in Tabs /\ m.doc \in Docs
           /\ m.ver \in Nat /\ m.told \in Nat
           /\ m.read # NoDoc => m.read \in DocRow
  BY DEF TypeInv, TypeOK, SaveRequest

\* What a step of page t does to the pages.
Turns(t, page) ==
    /\ page \in Tab
    /\ page.stage \in {"asking", "refused", "loading"} => page.want # None
    /\ tab' = [tab EXCEPT ![t] = page]

\* The parts of the state that no page, and no acquire, is part of.
RestType ==
    /\ LocksTypeOK'
    /\ doc' \in [Docs -> DocRow \cup {NoDoc}]
    /\ writes' \in Nat \ {0}
    /\ cleaning' \in SUBSET Docs
    /\ releases' \in SUBSET [user : Users, doc : Docs]
    /\ net' \in SUBSET SaveRequest
    /\ \A m \in net' : m.pc # "read" /\ m.doc \notin Offers => m.read # NoDoc

\* What a step of the acquire of page t does to the acquires.
Asks(t, a) ==
    /\ a \in Acquire
    /\ a.pc # "none" => a.doc # None
    /\ acq' = [acq EXCEPT ![t] = a]

\* A step of a page that changes its record and its question keeps the types.
LEMMA TurnType ==
    ASSUME TypeInv, RestType, NEW t \in Tabs,
           tab' = tab \/ \E page : Turns(t, page),
           acq' = acq \/ \E a : Asks(t, a)
    PROVE  TypeInv'
<1>1. tab' \in [Tabs -> Tab] /\ \A u \in Tabs :
          tab'[u].stage \in {"asking", "refused", "loading"} => tab'[u].want # None
  BY DEF TypeInv, TypeOK, Turns
<1>2. acq' \in [Tabs -> Acquire] /\ \A u \in Tabs : acq'[u].pc # "none" => acq'[u].doc # None
  BY DEF TypeInv, TypeOK, Asks
<1> QED
  BY <1>1, <1>2 DEF RestType, TypeInv, TypeOK

\* acquireLock of a page asks for a lock and leaves what its form knows.
LEMMA OpeningSteps ==
    ASSUME TypeInv, NEW t \in Tabs, NEW page \in Tab, NEW d \in Docs, Opening(t, page, d)
    PROVE  /\ \E p \in Tab : /\ Turns(t, p)
                             /\ p.open = page.open /\ p.ver = page.ver /\ p.told = page.told
                             /\ p.held = page.held /\ p.lease = page.lease
           /\ acq' = acq \/ \E a : Asks(t, a) /\ a.lease = TTL
<1>1. d # None /\ d \in Docs
  BY TabsAssumption
<1>2. CASE page.held = d
  <2> DEFINE p == [page EXCEPT !.stage = "loading", !.want = d]
  <2>1. /\ p \in Tab /\ p.want = d
        /\ p.open = page.open /\ p.ver = page.ver /\ p.told = page.told
        /\ p.held = page.held /\ p.lease = page.lease
    BY DEF Tab, Stages
  <2>2. tab' = [tab EXCEPT ![t] = p] /\ acq' = acq
    BY <1>2 DEF Opening
  <2> HIDE DEF p
  <2> QED
    BY <1>1, <2>1, <2>2 DEF Turns
<1>3. CASE page.held # d
  <2> DEFINE p == [page EXCEPT !.stage = "asking", !.want = d]
             a == [NoAcquire EXCEPT !.pc = "owner", !.doc = d]
  <2>1. /\ p \in Tab /\ p.want = d
        /\ p.open = page.open /\ p.ver = page.ver /\ p.told = page.told
        /\ p.held = page.held /\ p.lease = page.lease
    BY DEF Tab, Stages
  <2>2. a \in Acquire /\ a.doc # None /\ a.lease = TTL
    BY <1>1, NoAcquireType DEF Acquire, AcquirePCs
  <2>3. tab' = [tab EXCEPT ![t] = p] /\ acq' = [acq EXCEPT ![t] = a]
    BY <1>3 DEF Opening
  <2> HIDE DEF p, a
  <2> QED
    BY <1>1, <2>1, <2>2, <2>3 DEF Turns, Asks
<1> QED
  BY <1>2, <1>3

(* What stays of the tables.                                                *)
LEMMA HoldType ==
    ASSUME TypeInv, NEW u \in Users, NEW d \in Docs, NEW late \in Lateness, Hold(u, d, late)
    PROVE  LocksTypeOK'
<1>1. [user |-> u, age |-> late] \in LockRow
  BY TTLAssumption DEF LockRow, MaxAge, Lateness
<1> QED
  BY <1>1 DEF Hold, LocksTypeOK, TypeInv, TypeOK

\* A row taken out of doc_locks leaves the table well-typed.
LEMMA DropType ==
    ASSUME TypeInv, NEW d, Drop(d)
    PROVE  LocksTypeOK'
  BY DEF Drop, LocksTypeOK, TypeInv, TypeOK

\* releaseLock sends its user and a document.
LEMMA ReleasedType ==
    ASSUME TypeInv, NEW t \in Tabs
    PROVE  Released(t) \in SUBSET [user : Users, doc : Docs]
  BY PageFacts DEF Released, TypeInv, TypeOK

\* A form that goes away leaves its save requests on their way.
LEMMA OrphanedType ==
    ASSUME TypeInv, NEW t
    PROVE  /\ Orphaned(t) \in SUBSET SaveRequest
           /\ \A m \in Orphaned(t) : m.pc # "read" /\ m.doc \notin Offers => m.read # NoDoc
<1> SUFFICES ASSUME NEW n \in Orphaned(t)
             PROVE  /\ n \in SaveRequest
                    /\ n.pc # "read" /\ n.doc \notin Offers => n.read # NoDoc
  OBVIOUS
<1>1. PICK m \in net : n = IF m.tab = t THEN [m EXCEPT !.form = "gone"] ELSE m
  BY DEF Orphaned
<1>2. m \in SaveRequest
  BY SaveFacts
<1> QED
  BY <1>1, <1>2 DEF SaveRequest, TypeInv

\* A page just loaded is at rest.
LEMMA NewPageType == NewPage \in Tab /\ NewPage.stage = "rest"
<1>1. TTL \in 0 .. TTL
  BY TTLAssumption
<1> QED
  BY <1>1 DEF NewPage, Tab, Stages

-----------------------------------------------------------------------------
\* The first state is well-typed.
LEMMA TypeInvInit == Init => TypeInv
<1> SUFFICES ASSUME Init
             PROVE  TypeInv
  OBVIOUS
<1>1. LocksTypeOK
  BY DEF Init, LocksTypeOK
<1>2. doc \in [Docs -> DocRow \cup {NoDoc}]
  BY DEF Init, DocRow
<1>3. acq \in [Tabs -> Acquire] /\ \A t \in Tabs : acq[t].pc = "none"
  BY NoAcquireType DEF Init
<1>4. tab \in [Tabs -> Tab] /\ \A t \in Tabs : tab[t].stage = "rest"
  BY NewPageType DEF Init
<1> QED
  BY <1>1, <1>2, <1>3, <1>4 DEF Init, TypeInv, TypeOK

(* An acquire is granted, goes on to a statement or an answer, or its answer *)
(* is heard.  It is granted only a lock that nobody has, that its user has, *)
(* or that has expired by the clock that the statement carries.             *)
LEMMA AcquireOutcome ==
    ASSUME TypeInv, NEW t \in Tabs, AcquireStep(t)
    PROVE  /\ acq[t].pc # "none" /\ acq[t].doc \in Docs
           /\ \/ /\ Granted(t)
                 /\ Takeable(UserOf[t], acq[t].doc, acq[t].clock) \/ ~HasLock(acq[t].doc)
              \/ \E pc \in AcquirePCs \ {"none"}, clock \in Lateness : GoOn(t, pc, clock)
              \/ Hear(t)
           /\ UNCHANGED <<doc, writes, cleaning, net>>
<1>1. acq[t].pc # "none"
  BY DEF AcquireStep, AcquireOwner, AcquireTake, AcquireCreate, AcquireRead, AcquireExpire,
         AcquireFinal, AcquireRetake, AcquireReread, AcquireRecreate, Hear, HearGrant,
         HearRefusal, At
<1>2. acq[t].doc \in Docs
  BY <1>1, PageFacts DEF TypeInv, Acquire
<1> DEFINE Outcome ==
              \/ /\ Granted(t)
                 /\ Takeable(UserOf[t], acq[t].doc, acq[t].clock) \/ ~HasLock(acq[t].doc)
              \/ \E pc \in AcquirePCs \ {"none"}, clock \in Lateness : GoOn(t, pc, clock)
              \/ Hear(t)
<1>3. /\ GoOn(t, "take", 0) => Outcome
      /\ GoOn(t, "create", acq[t].clock) => Outcome
      /\ GoOn(t, "read", 0) => Outcome
      /\ GoOn(t, "retake", 0) => Outcome
      /\ GoOn(t, "reread", 0) => Outcome
      /\ GoOn(t, "recreate", 0) => Outcome
      /\ GoOn(t, "expire", 0) => Outcome
      /\ GoOn(t, "final", 0) => Outcome
  <2>1. {"take", "create", "read", "retake", "reread", "recreate", "expire", "final"}
            \subseteq AcquirePCs \ {"none"}
    BY DEF AcquirePCs
  <2>2. 0 \in Lateness /\ acq[t].clock \in Lateness
    BY PageFacts
  <2> QED
    BY <2>1, <2>2
<1>4. Answer(t, "refused") \/ Answer(t, "failed") => Outcome
  <2>1. "refused" \in AcquirePCs \ {"none"} /\ "failed" \in AcquirePCs \ {"none"}
    BY DEF AcquirePCs
  <2>2. 0 \in Lateness
    BY PageFacts
  <2> QED
    BY <2>1, <2>2 DEF Answer
<1>5. Hear(t) => Outcome
  OBVIOUS
<1>6. Granted(t) /\ (Takeable(UserOf[t], acq[t].doc, acq[t].clock) \/ ~HasLock(acq[t].doc)) => Outcome
  OBVIOUS
<1> HIDE DEF Outcome
<1>7. Expired(acq[t].doc, acq[t].clock) => Takeable(UserOf[t], acq[t].doc, acq[t].clock)
  BY DEF Takeable
<1>8. ASSUME AcquireOwner(t) \/ AcquireTake(t) \/ AcquireCreate(t) PROVE Outcome
  BY <1>3, <1>4, <1>6, <1>8 DEF AcquireOwner, AcquireTake, AcquireCreate
<1>9. ASSUME AcquireRead(t) PROVE Outcome
  BY <1>3, <1>4, <1>9 DEF AcquireRead
<1>10. ASSUME AcquireExpire(t) \/ AcquireRetake(t) PROVE Outcome
  BY <1>3, <1>6, <1>7, <1>10 DEF AcquireExpire, AcquireRetake
<1>11. ASSUME AcquireFinal(t) PROVE Outcome
  BY <1>4, <1>11 DEF AcquireFinal
<1>12. ASSUME AcquireReread(t) \/ AcquireRecreate(t) PROVE Outcome
  BY <1>3, <1>4, <1>6, <1>12 DEF AcquireReread, AcquireRecreate
<1>13. Outcome
  BY <1>5, <1>8, <1>9, <1>10, <1>11, <1>12 DEF AcquireStep
<1>14. UNCHANGED <<doc, writes, cleaning, net>>
  BY DEF AcquireStep
<1> QED
  BY <1>1, <1>2, <1>13, <1>14 DEF Outcome

(* What a page that hears an answer becomes.                                *)
LEMMA HearSteps ==
    ASSUME TypeInv, NEW t \in Tabs, Hear(t)
    PROVE  /\ acq' = [acq EXCEPT ![t] = NoAcquire] /\ lock' = lock
           /\ \/ tab' = tab /\ releases' = releases
              \/ /\ tab[t].stage = "asking"
                 /\ tab' = [tab EXCEPT ![t].stage = "loading", ![t].held = acq[t].doc,
                                       ![t].timer = TRUE, ![t].lease = acq[t].lease]
                 /\ releases' = Released(t)
              \/ /\ tab[t].stage = "asking"
                 /\ \E stage \in {"refused", "loading"} : tab' = [tab EXCEPT ![t].stage = stage]
                 /\ releases' = releases
  BY DEF Hear, HearGrant, HearRefusal

\* The statements of acquireDocLock keep the types, and so does its answer.
LEMMA AcquireType ==
    ASSUME TypeInv, NEW t \in Tabs, AcquireStep(t)
    PROVE  TypeInv'
<1>1. /\ acq[t].pc # "none" /\ acq[t].doc \in Docs
      /\ UNCHANGED <<doc, writes, cleaning, net>>
  BY AcquireOutcome
<1>2. /\ \A m \in net' : m.pc # "read" /\ m.doc \notin Offers => m.read # NoDoc
      /\ doc' \in [Docs -> DocRow \cup {NoDoc}] /\ writes' \in Nat \ {0}
      /\ cleaning' \in SUBSET Docs /\ net' \in SUBSET SaveRequest
  BY <1>1 DEF TypeInv, TypeOK
<1>3. CASE Granted(t)
  <2> DEFINE a == [acq[t] EXCEPT !.pc = "granted", !.clock = 0, !.lease = Lease(acq[t].clock)]
  <2>1. LocksTypeOK'
    BY <1>1, <1>3, PageFacts, HoldType DEF Granted
  <2>2. acq' = [acq EXCEPT ![t] = a] /\ tab' = tab /\ releases' = releases
    BY <1>3, PageFacts DEF Granted
  <2>3. Lease(acq[t].clock) \in 0 .. TTL
    BY PageFacts, LeaseSteps DEF Lateness
  <2>4. a \in Acquire /\ a.doc = acq[t].doc
    BY <2>3, PageFacts DEF Acquire, AcquirePCs
  <2>5. a.doc # None
    BY <1>1, <2>4, TabsAssumption
  <2> HIDE DEF a
  <2>6. Asks(t, a)
    BY <2>2, <2>4, <2>5 DEF Asks
  <2>7. RestType
    BY <1>2, <2>1, <2>2 DEF RestType, TypeInv, TypeOK
  <2> QED
    BY <2>2, <2>6, <2>7, TurnType
<1>4. CASE Hear(t)
  <2>1. Asks(t, NoAcquire) /\ lock' = lock
    BY <1>4, HearSteps, NoAcquireType DEF Asks
  <2>2. releases' \in SUBSET [user : Users, doc : Docs]
    <3>1. releases' = releases \/ releases' = Released(t)
      BY <1>4, HearSteps
    <3> QED
      BY <3>1, ReleasedType DEF TypeInv, TypeOK
  <2>3. RestType
    BY <1>2, <2>1, <2>2 DEF RestType, TypeInv, TypeOK, LocksTypeOK
  <2>4. CASE tab' = tab
    BY <2>1, <2>3, <2>4, TurnType
  <2>5. CASE /\ tab[t].stage = "asking"
             /\ tab' = [tab EXCEPT ![t].stage = "loading", ![t].held = acq[t].doc,
                                   ![t].timer = TRUE, ![t].lease = acq[t].lease]
    <3> DEFINE p == [tab[t] EXCEPT !.stage = "loading", !.held = acq[t].doc,
                                   !.timer = TRUE, !.lease = acq[t].lease]
    <3>1. tab' = [tab EXCEPT ![t] = p]
      BY <2>5, PageFacts
    <3>2. p \in Tab /\ p.want = tab[t].want
      BY <1>1, PageFacts DEF Tab, Stages
    <3>3. tab[t].want # None
      BY <2>5 DEF TypeInv
    <3> HIDE DEF p
    <3>4. Turns(t, p)
      BY <3>1, <3>2, <3>3 DEF Turns
    <3> QED
      BY <2>1, <2>3, <3>4, TurnType
  <2>6. ASSUME tab[t].stage = "asking", NEW stage \in {"refused", "loading"},
               tab' = [tab EXCEPT ![t].stage = stage]
        PROVE  TypeInv'
    <3> DEFINE p == [tab[t] EXCEPT !.stage = stage]
    <3>1. tab' = [tab EXCEPT ![t] = p]
      BY <2>6, PageFacts
    <3>2. p \in Tab /\ p.want = tab[t].want
      BY PageFacts DEF Tab, Stages
    <3>3. tab[t].want # None
      BY <2>6 DEF TypeInv
    <3> HIDE DEF p
    <3>4. Turns(t, p)
      BY <3>1, <3>2, <3>3 DEF Turns
    <3> QED
      BY <2>1, <2>3, <3>4, TurnType
  <2> QED
    BY <1>4, <2>4, <2>5, <2>6, HearSteps
<1>5. ASSUME NEW pc \in AcquirePCs \ {"none"}, NEW clock \in Lateness, GoOn(t, pc, clock)
      PROVE  TypeInv'
  <2> DEFINE a == [acq[t] EXCEPT !.pc = pc, !.clock = clock]
  <2>1. acq' = [acq EXCEPT ![t] = a] /\ tab' = tab /\ lock' = lock /\ releases' = releases
    BY <1>5, PageFacts DEF GoOn
  <2>2. a \in Acquire /\ a.doc = acq[t].doc
    BY <1>5, PageFacts DEF Acquire
  <2>3. a.doc # None
    BY <1>1, <2>2, TabsAssumption
  <2> HIDE DEF a
  <2>4. Asks(t, a)
    BY <2>1, <2>2, <2>3 DEF Asks
  <2>5. RestType
    BY <1>2, <2>1 DEF RestType, TypeInv, TypeOK, LocksTypeOK
  <2> QED
    BY <2>1, <2>4, <2>5, TurnType
<1> QED
  BY <1>3, <1>4, <1>5, AcquireOutcome


(* A step of a page.                                                        *)
LEMMA PageType ==
    ASSUME TypeInv, NEW t \in Tabs, Page(t)
    PROVE  TypeInv'
<1> DEFINE p == tab[t]
<1>1. /\ p \in Tab /\ tab \in [Tabs -> Tab]
      /\ p.want \in Docs \cup {None} /\ p.open \in Docs \cup {None}
      /\ p.held \in Docs \cup {None} /\ p.ver \in Nat /\ p.told \in Nat
      /\ p.copy \in [Docs -> Nat] /\ TTL \in 0 .. TTL /\ 0 \in 0 .. TTL /\ UserOf[t] \in Users
  BY PageFacts
<1>2. p.stage \in {"asking", "refused", "loading"} => p.want # None
  BY DEF TypeInv
<1>3. UNCHANGED <<lock, doc, writes, cleaning, releases, net>> => RestType
  BY DEF RestType, TypeInv, TypeOK, LocksTypeOK
<1>4. ASSUME NEW d \in Docs, Open(t, d)
      PROVE  TypeInv'
  <2>1. Opening(t, p, d) /\ RestType
    BY <1>3, <1>4 DEF Open
  <2> QED
    BY <1>1, <2>1, OpeningSteps, TurnType
<1>5. CASE Retry(t)
  <2>1. Opening(t, p, p.want) /\ RestType /\ p.want \in Docs
    BY <1>1, <1>2, <1>3, <1>5 DEF Retry
  <2> QED
    BY <1>1, <2>1, OpeningSteps, TurnType
<1>6. CASE Back(t) \/ AskFails(t) \/ LoadFails(t)
  <2>1. PICK stage \in {"rest", "loading"}, want \in {p.want, None} :
            /\ tab' = [tab EXCEPT ![t] = [p EXCEPT !.stage = stage, !.want = want]]
            /\ stage = "loading" => want = p.want /\ want # None
    <3>1. CASE Back(t) \/ LoadFails(t)
      <4>1. tab' = [tab EXCEPT ![t] = [p EXCEPT !.stage = "rest", !.want = None]]
        BY <1>1, <3>1 DEF Back, LoadFails
      <4> QED
        BY <4>1
    <3>2. CASE AskFails(t)
      <4>1. /\ tab' = [tab EXCEPT ![t] = [p EXCEPT !.stage = "loading", !.want = p.want]]
            /\ p.want # None
        BY <1>1, <1>2, <3>2 DEF AskFails, Tab
      <4> QED
        BY <4>1
    <3> QED
      BY <1>6, <3>1, <3>2
  <2> DEFINE q == [p EXCEPT !.stage = stage, !.want = want]
  <2>2. q \in Tab /\ q.stage = stage /\ q.want = want
    BY <1>1 DEF Tab, Stages
  <2>3. tab' = [tab EXCEPT ![t] = q]
    BY <2>1
  <2> HIDE DEF q
  <2>4. Turns(t, q)
    BY <2>1, <2>2, <2>3 DEF Turns
  <2>5. acq' = acq /\ RestType
    BY <1>3, <1>6 DEF Back, AskFails, LoadFails
  <2> QED
    BY <2>4, <2>5, TurnType
<1>7. CASE ForceLock(t)
  <2> DEFINE d == p.want
             lost == LeasesLost(d, Users \ {UserOf[t]})
             grants == GrantsLost(d, Users \ {UserOf[t]})
  <2>1. d \in Docs /\ d # None
    BY <1>1, <1>2, <1>7 DEF ForceLock
  <2>2. /\ lost \in [Tabs -> Tab] /\ grants \in [Tabs -> Acquire]
        /\ \A u \in Tabs : /\ lost[u].stage = tab[u].stage /\ lost[u].want = tab[u].want
                           /\ grants[u].pc = acq[u].pc /\ grants[u].doc = acq[u].doc
    BY LostType
  <2>3. PICK late \in Lateness :
          /\ Hold(UserOf[t], d, late)
          /\ \/ tab' = [lost EXCEPT ![t].stage = "loading", ![t].held = d,
                                    ![t].timer = TRUE, ![t].lease = Lease(late)]
             \/ tab' = [lost EXCEPT ![t].stage = "rest", ![t].want = None]
    BY <1>7 DEF ForceLock
  <2>4. Lease(late) \in 0 .. TTL
    BY LeaseSteps, TTLAssumption DEF Lateness
  <2>5. acq' = grants /\ UNCHANGED <<doc, writes, cleaning, releases, net>>
    BY <1>7 DEF ForceLock
  <2>6. LocksTypeOK'
    BY <1>1, <2>1, <2>3, HoldType
  <2> HIDE DEF lost, grants
  <2>7. /\ tab' \in [Tabs -> Tab]
        /\ \A u \in Tabs : \/ tab'[u].want = tab[u].want /\ tab'[u].stage = tab[u].stage
                           \/ tab'[u].stage = "rest"
                           \/ tab'[u].want # None
    <3> DEFINE q == [lost[t] EXCEPT !.stage = "loading", !.held = d,
                                    !.timer = TRUE, !.lease = Lease(late)]
               back == [lost[t] EXCEPT !.stage = "rest", !.want = None]
    <3>1. q \in Tab /\ q.want = d
      BY <1>1, <2>1, <2>2, <2>4 DEF Tab, Stages
    <3>2. back \in Tab /\ back.stage = "rest"
      BY <1>1, <2>2 DEF Tab, Stages
    <3>3. tab' = [lost EXCEPT ![t] = q] \/ tab' = [lost EXCEPT ![t] = back]
      BY <2>2, <2>3
    <3> HIDE DEF q, back
    <3> QED
      BY <2>1, <2>2, <3>1, <3>2, <3>3
  <2> QED
    BY <2>2, <2>5, <2>6, <2>7 DEF TypeInv, TypeOK
<1>8. CASE Heartbeat(t)
  <2>1. LocksTypeOK'
    <3>1. p.held \in Docs
      BY <1>1, <1>8 DEF Heartbeat
    <3>2. lock' = lock \/ \E late \in Lateness : Hold(UserOf[t], p.held, late)
      BY <1>8 DEF Heartbeat, HeartbeatOk, HeartbeatFails, HeartbeatNoDocument, Beat
    <3> QED
      BY <1>1, <3>1, <3>2, HoldType DEF LocksTypeOK, TypeInv, TypeOK
  <2>2. PICK held \in {p.held, None}, timer \in {p.timer, FALSE}, lease \in 0 .. TTL :
            tab' = [tab EXCEPT ![t] = [p EXCEPT !.held = held, !.timer = timer, !.lease = lease]]
    <3>1. CASE HeartbeatOk(t)
      <4>1. PICK late \in Lateness : tab' = [tab EXCEPT ![t].lease = Lease(late)]
        BY <3>1 DEF HeartbeatOk
      <4>2. Lease(late) \in 0 .. TTL
        BY LeaseSteps, TTLAssumption DEF Lateness
      <4>3. tab' = [tab EXCEPT ![t] = [p EXCEPT !.held = p.held, !.timer = p.timer,
                                                !.lease = Lease(late)]]
        BY <1>1, <4>1 DEF Tab
      <4> QED
        BY <4>2, <4>3
    <3>2. CASE HeartbeatFails(t)
      <4>1. tab' = [tab EXCEPT ![t] = [p EXCEPT !.held = p.held, !.timer = FALSE, !.lease = p.lease]]
        BY <1>1, <3>2 DEF HeartbeatFails, Tab
      <4> QED
        BY <4>1, PageFacts
    <3>3. CASE HeartbeatNoDocument(t)
      <4>1. tab' = [tab EXCEPT ![t] = [p EXCEPT !.held = None, !.timer = FALSE, !.lease = TTL]]
        BY <1>1, <3>3 DEF HeartbeatNoDocument, Tab
      <4> QED
        BY <1>1, <4>1
    <3> QED
      BY <1>8, <3>1, <3>2, <3>3 DEF Heartbeat
  <2> DEFINE q == [p EXCEPT !.held = held, !.timer = timer, !.lease = lease]
  <2>3. q \in Tab /\ q.stage = p.stage /\ q.want = p.want
    BY <1>1 DEF Tab
  <2>4. tab' = [tab EXCEPT ![t] = q]
    BY <2>2
  <2> HIDE DEF q
  <2>5. Turns(t, q)
    BY <1>2, <2>3, <2>4 DEF Turns
  <2>6. UNCHANGED <<doc, writes, acq, cleaning, releases, net>>
    BY <1>8 DEF Heartbeat
  <2>7. RestType
    BY <2>1, <2>6 DEF RestType, TypeInv, TypeOK
  <2> QED
    BY <2>5, <2>6, <2>7, TurnType
<1>9. CASE Close(t) \/ Unload(t)
  <2> DEFINE q == [NewPage EXCEPT !.copy = p.copy]
  <2>1. q \in Tab /\ q.stage = "rest"
    BY <1>1, NewPageType DEF Tab
  <2>2. tab' = [tab EXCEPT ![t] = q] \/ tab' = [tab EXCEPT ![t] = NewPage]
    BY <1>9 DEF Close, Unload
  <2> HIDE DEF q
  <2>3. \E new : Turns(t, new)
    BY <2>1, <2>2, NewPageType DEF Turns
  <2>4. /\ UNCHANGED <<lock, doc, writes, acq, cleaning>>
        /\ releases' = Released(t) /\ net' = Orphaned(t)
    BY <1>9 DEF Close, Unload
  <2>5. RestType
    BY <2>4, ReleasedType, OrphanedType DEF RestType, TypeInv, TypeOK, LocksTypeOK
  <2> QED
    BY <2>3, <2>4, <2>5, TurnType
<1>10. CASE Save(t)
  <2>1. PICK id \in 1 .. MaxSaves :
            net' = net \cup
                    {[tab |-> t, id |-> id, doc |-> p.open, pc |-> "read",
                      ver |-> p.ver, told |-> p.told, read |-> NoDoc, form |-> "awaits"]}
    BY <1>10 DEF Save
  <2>2. p.open \in Docs /\ tab' = [tab EXCEPT ![t] = [p EXCEPT !.stage = "saving"]]
    BY <1>1, <1>10 DEF Save
  <2>3. [tab |-> t, id |-> id, doc |-> p.open, pc |-> "read", ver |-> p.ver,
         told |-> p.told, read |-> NoDoc, form |-> "awaits"] \in SaveRequest
    BY <1>1, <2>2 DEF SaveRequest
  <2>4. UNCHANGED <<lock, doc, writes, acq, cleaning, releases>>
    BY <1>10 DEF Save
  <2>5. RestType
    BY <2>1, <2>3, <2>4 DEF RestType, TypeInv, TypeOK, LocksTypeOK
  <2> DEFINE q == [p EXCEPT !.stage = "saving"]
  <2>6. q \in Tab /\ q.stage = "saving"
    BY <1>1 DEF Tab, Stages
  <2>7. tab' = [tab EXCEPT ![t] = q]
    BY <2>2
  <2> HIDE DEF q
  <2>8. Turns(t, q)
    BY <2>6, <2>7 DEF Turns
  <2> QED
    BY <2>4, <2>5, <2>8, TurnType
<1>11. CASE SaveGivesUp(t)
  <2> DEFINE q == [p EXCEPT !.stage = "rest"]
  <2>1. q \in Tab /\ q.stage = "rest" /\ tab' = [tab EXCEPT ![t] = q]
    BY <1>1, <1>11 DEF Tab, Stages, SaveGivesUp
  <2> HIDE DEF q
  <2>2. Turns(t, q)
    BY <2>1 DEF Turns
  <2>3. UNCHANGED <<lock, doc, writes, acq, cleaning, releases>>
    BY <1>11 DEF SaveGivesUp
  <2>4. /\ net' \in SUBSET SaveRequest
        /\ \A m \in net' : m.pc # "read" /\ m.doc \notin Offers => m.read # NoDoc
    <3> SUFFICES ASSUME NEW n \in net'
                 PROVE  n \in SaveRequest /\ (n.pc # "read" /\ n.doc \notin Offers => n.read # NoDoc)
      OBVIOUS
    <3>1. PICK m \in net :
              n = IF m.tab = t /\ m.form = "awaits" THEN [m EXCEPT !.form = "open"] ELSE m
      BY <1>11 DEF SaveGivesUp
    <3>2. m \in SaveRequest
      BY SaveFacts
    <3> QED
      BY <3>1, <3>2 DEF SaveRequest, TypeInv
  <2>5. RestType
    BY <2>3, <2>4 DEF RestType, TypeInv, TypeOK, LocksTypeOK
  <2> QED
    BY <2>2, <2>3, <2>5, TurnType
<1>12. CASE Load(t)
  <2> DEFINE d == p.want
             cached == d \in Offers /\ p.copy[d] # 0
             shown == IF cached THEN p.copy[d] ELSE doc[d].content
             q == [p EXCEPT !.stage = "rest", !.want = None, !.open = d,
                            !.ver = IF d \in Offers THEN 0 ELSE doc[d].version,
                            !.told = IF d \in Offers THEN 0 ELSE shown,
                            !.copy = [p.copy EXCEPT ![d] = IF d \in Offers THEN shown ELSE 0]]
             none == [p EXCEPT !.stage = "rest", !.want = None, !.open = None]
  <2>1. d \in Docs
    BY <1>1, <1>2, <1>12 DEF Load
  <2>2. none \in Tab /\ none.stage = "rest"
    BY <1>1 DEF Tab, Stages
  <2>3. ASSUME cached \/ Exists(d)
        PROVE  q \in Tab /\ q.stage = "rest"
    <3>1. Exists(d) => doc[d] \in DocRow
      BY <2>1 DEF Exists, TypeInv, TypeOK
    <3>2. shown \in Nat /\ (d \notin Offers => doc[d].version \in Nat)
      BY <1>1, <2>1, <2>3, <3>1 DEF DocRow
    <3> HIDE DEF shown, cached
    <3> QED
      BY <1>1, <2>1, <3>2 DEF Tab, Stages
  <2>4. CASE cached \/ Exists(d)
    <3>1. tab' = [tab EXCEPT ![t] = q]
      BY <1>1, <1>12, <2>4 DEF Load, Tab
    <3> HIDE DEF q
    <3>2. Turns(t, q)
      BY <2>3, <2>4, <3>1 DEF Turns
    <3>3. UNCHANGED <<lock, doc, writes, acq, cleaning, releases>> /\ net' = Orphaned(t)
      BY <1>12 DEF Load
    <3>4. RestType
      BY <3>3, OrphanedType DEF RestType, TypeInv, TypeOK, LocksTypeOK
    <3> QED
      BY <3>2, <3>3, <3>4, TurnType
  <2>5. CASE ~(cached \/ Exists(d))
    <3>1. tab' = [tab EXCEPT ![t] = none]
      BY <1>1, <1>12, <2>5 DEF Load, Tab
    <3> HIDE DEF none
    <3>2. Turns(t, none)
      BY <2>2, <3>1 DEF Turns
    <3>3. UNCHANGED <<lock, doc, writes, acq, cleaning, releases>> /\ net' = Orphaned(t)
      BY <1>12 DEF Load
    <3>4. RestType
      BY <3>3, OrphanedType DEF RestType, TypeInv, TypeOK, LocksTypeOK
    <3> QED
      BY <3>2, <3>3, <3>4, TurnType
  <2> QED
    BY <2>4, <2>5
<1> QED
  BY <1>4, <1>5, <1>6, <1>7, <1>8, <1>9, <1>10, <1>11, <1>12 DEF Page


(* The page of a save that is answered.                                     *)
LEMMA AnsweredSteps ==
    ASSUME TypeInv, NEW m \in net, NEW page \in Tab, Answered(m, page)
    PROVE  /\ net' = net \ {m}
           /\ tab' = tab \/ \E new : Turns(m.tab, new)
<1> DEFINE new == [page EXCEPT !.stage = "rest"]
<1>1. new \in Tab /\ new.stage = "rest"
  BY DEF Tab, Stages
<1>2. net' = net \ {m} /\ (tab' = tab \/ tab' = [tab EXCEPT ![m.tab] = new])
  BY DEF Answered
<1> HIDE DEF new
<1> QED
  BY <1>1, <1>2 DEF Turns

\* A save that is done with, or goes on.
LEMMA NetSteps ==
    ASSUME TypeInv, NEW m \in net, UNCHANGED <<lock, cleaning, releases>>,
           doc' \in [Docs -> DocRow \cup {NoDoc}], writes' \in Nat \ {0},
           \/ net' = net \ {m}
           \/ \E n \in SaveRequest :
                 /\ n.pc # "read" /\ n.doc \notin Offers => n.read # NoDoc
                 /\ net' = (net \ {m}) \cup {n}
    PROVE  RestType
  BY DEF RestType, TypeInv, TypeOK, LocksTypeOK

(* A page of an order that learns of the row that its save has read.        *)
LEMMA ToldOfRead ==
    ASSUME TypeInv, NEW m \in net, m.read # NoDoc
    PROVE  [tab[m.tab] EXCEPT !.ver = m.read.version, !.told = m.read.content] \in Tab
<1>1. tab[m.tab] \in Tab /\ m.read \in DocRow
  BY SaveFacts, PageFacts
<1>2. m.read.version \in Nat /\ m.read.content \in Nat
  BY <1>1 DEF DocRow
<1> QED
  BY <1>1, <1>2 DEF Tab

\* The statements of the PATCH and the POST keep the types.
LEMMA ServeType ==
    ASSUME TypeInv, NEW m \in net, Serve(m)
    PROVE  TypeInv'
<1> DEFINE t == m.tab
           d == m.doc
<1>1. /\ m \in SaveRequest /\ t \in Tabs /\ d \in Docs
      /\ tab[t] \in Tab /\ tab \in [Tabs -> Tab] /\ UserOf[t] \in Users
      /\ doc[d] \in DocRow \cup {NoDoc} /\ doc \in [Docs -> DocRow \cup {NoDoc}]
      /\ writes \in Nat \ {0}
  BY SaveFacts, PageFacts DEF TypeInv, TypeOK
<1>2. m.pc # "read" /\ d \notin Offers => m.read # NoDoc
  BY DEF TypeInv
<1>3. CASE SaveRead(m)
  <2>1. UNCHANGED <<lock, doc, writes, acq, cleaning, releases>>
    BY <1>3 DEF SaveRead
  <2>2. CASE Answered(m, tab[t])
    BY <1>1, <2>1, <2>2, AnsweredSteps, NetSteps, TurnType
  <2>3. CASE /\ d \in Offers \/ Exists(d)
             /\ net' = (net \ {m}) \cup {[m EXCEPT !.pc = "check", !.read = doc[d]]}
             /\ UNCHANGED tab
    <3> DEFINE n == [m EXCEPT !.pc = "check", !.read = doc[d]]
    <3>1. n \in SaveRequest /\ n.doc = d /\ n.read = doc[d]
      BY <1>1 DEF SaveRequest
    <3>2. n.doc \notin Offers => n.read # NoDoc
      BY <2>3, <3>1 DEF Exists
    <3>3. net' = (net \ {m}) \cup {n}
      BY <2>3
    <3> HIDE DEF n
    <3>4. RestType
      BY <1>1, <2>1, <3>1, <3>2, <3>3, NetSteps
    <3> QED
      BY <1>1, <2>1, <2>3, <3>4, TurnType
  <2> QED
    BY <1>3, <2>2, <2>3 DEF SaveRead
<1>4. CASE SaveCheck(m)
  <2>1. UNCHANGED <<lock, doc, writes, acq, cleaning, releases>> /\ m.pc = "check"
    BY <1>4 DEF SaveCheck
  <2>2. CASE Answered(m, tab[t])
    BY <1>1, <2>1, <2>2, AnsweredSteps, NetSteps, TurnType
  <2>3. CASE /\ BaseChanged(m)
             /\ Answered(m, [tab[t] EXCEPT !.ver = m.read.version, !.told = m.read.content])
    <3>1. [tab[t] EXCEPT !.ver = m.read.version, !.told = m.read.content] \in Tab
      BY <1>2, <2>1, <2>3, ToldOfRead DEF BaseChanged
    <3> QED
      BY <1>1, <2>1, <2>3, <3>1, AnsweredSteps, NetSteps, TurnType
  <2>4. CASE net' = (net \ {m}) \cup {[m EXCEPT !.pc = "write"]} /\ UNCHANGED tab
    <3> DEFINE n == [m EXCEPT !.pc = "write"]
    <3>1. n \in SaveRequest /\ n.doc = d /\ n.read = m.read
      BY <1>1 DEF SaveRequest
    <3>2. net' = (net \ {m}) \cup {n} /\ (n.doc \notin Offers => n.read # NoDoc)
      BY <1>2, <2>1, <2>4, <3>1
    <3> HIDE DEF n
    <3>3. RestType
      BY <1>1, <2>1, <3>1, <3>2, NetSteps
    <3> QED
      BY <1>1, <2>1, <2>4, <3>3, TurnType
  <2> QED
    BY <1>4, <2>2, <2>3, <2>4 DEF SaveCheck
<1>5. CASE Commit(m)
  <2> DEFINE new == writes + 1
             row == [version |-> IF Exists(d) THEN doc[d].version + 1 ELSE 1, content |-> new]
             copied == [tab[t] EXCEPT !.copy = [tab[t].copy EXCEPT ![d] = new], !.stage = "rest"]
             learnt == [tab[t] EXCEPT !.ver = NextVersion(m), !.told = new, !.stage = "rest"]
  <2>1. UNCHANGED <<lock, acq, cleaning, releases>> /\ m.pc = "write" /\ net' = net \ {m}
        /\ writes' = new /\ doc' = [doc EXCEPT ![d] = row]
    BY <1>5 DEF Commit
  <2>2. new \in Nat \ {0} /\ row \in DocRow
    <3>1. Exists(d) => doc[d].version \in Nat
      BY <1>1 DEF Exists, DocRow
    <3> QED
      BY <1>1, <3>1 DEF DocRow
  <2>3. RestType
    BY <1>1, <2>1, <2>2, NetSteps
  <2>4. \/ tab' = tab
        \/ d \in Offers /\ tab' = [tab EXCEPT ![t] = copied]
        \/ d \notin Offers /\ tab' = [tab EXCEPT ![t] = learnt]
    <3>1. CASE m.form # "awaits"
      BY <1>1, <1>5, <3>1 DEF Commit
    <3>2. CASE m.form = "awaits" /\ d \in Offers
      BY <1>1, <1>5, <3>2 DEF Commit, Tab
    <3>3. CASE m.form = "awaits" /\ d \notin Offers
      BY <1>1, <1>5, <3>3 DEF Commit, Tab
    <3> QED
      BY <3>1, <3>2, <3>3
  <2>5. copied \in Tab /\ copied.stage = "rest"
    BY <1>1, <2>2 DEF Tab, Stages
  <2>6. d \notin Offers => learnt \in Tab /\ learnt.stage = "rest"
    <3>1. d \notin Offers => NextVersion(m) \in Nat
      BY <1>1, <1>2, <2>1, SaveFacts DEF NextVersion, DocRow
    <3> HIDE DEF new
    <3> QED
      BY <1>1, <2>2, <3>1 DEF Tab, Stages
  <2> HIDE DEF copied, learnt
  <2> QED
    BY <1>1, <2>1, <2>3, <2>4, <2>5, <2>6, TurnType DEF Turns
<1>6. CASE Conflict(m)
  <2>1. UNCHANGED <<lock, doc, writes, cleaning, releases>> /\ m.pc = "write"
    BY <1>6 DEF Conflict
  <2>2. CASE m.form = "awaits" /\ d \in Offers /\ Exists(d)
    <3> DEFINE page == [tab[t] EXCEPT !.copy = [tab[t].copy EXCEPT ![d] = 0]]
    <3>1. page \in Tab
      BY <1>1 DEF Tab
    <3>2. Opening(t, page, d) /\ net' = net \ {m}
      BY <1>6, <2>2 DEF Conflict
    <3> HIDE DEF page
    <3>3. RestType
      BY <1>1, <2>1, <3>2, NetSteps
    <3> QED
      BY <1>1, <3>1, <3>2, <3>3, OpeningSteps, TurnType
  <2>3. CASE ~(m.form = "awaits" /\ d \in Offers /\ Exists(d))
    <3>1. \E page \in Tab : Answered(m, page)
      <4>1. CASE d \in Offers
        BY <1>1, <1>6, <2>3, <4>1 DEF Conflict
      <4>2. CASE d \notin Offers
        BY <1>2, <1>6, <2>1, <4>2, ToldOfRead DEF Conflict
      <4> QED
        BY <4>1, <4>2
    <3>2. acq' = acq
      BY <1>6, <2>3 DEF Conflict
    <3> QED
      BY <1>1, <2>1, <3>1, <3>2, AnsweredSteps, NetSteps, TurnType
  <2> QED
    BY <2>2, <2>3
<1>7. CASE SaveFails(m)
  <2>1. Answered(m, tab[t]) /\ UNCHANGED <<lock, doc, writes, acq, cleaning, releases>>
    BY <1>7 DEF SaveFails
  <2> QED
    BY <1>1, <2>1, AnsweredSteps, NetSteps, TurnType
<1> QED
  BY <1>3, <1>4, <1>5, <1>6, <1>7 DEF Serve

(* Steps of the table of locks.                                             *)
LEMMA TableType ==
    ASSUME TypeInv,
           \/ \E r \in releases : ReleaseArrives(r) \/ ReleaseLost(r)
           \/ \E d \in Docs : CleanRead(d) \/ CleanDelete(d) \/ DeleteDoc(d)
           \/ Tick
    PROVE  TypeInv'
<1>1. tab \in [Tabs -> Tab]
  BY DEF TypeInv, TypeOK
<1>2. ASSUME NEW r \in releases, ReleaseArrives(r)
      PROVE  TypeInv'
  <2>1. LocksTypeOK'
    BY <1>2, DropType DEF ReleaseArrives, ReleaseRow, TypeInv, TypeOK, LocksTypeOK
  <2>2. \/ tab' = tab /\ acq' = acq
        \/ tab' = LeasesLost(r.doc, {r.user}) /\ acq' = GrantsLost(r.doc, {r.user})
    BY <1>2 DEF ReleaseArrives
  <2>3. /\ tab' \in [Tabs -> Tab] /\ acq' \in [Tabs -> Acquire]
        /\ \A u \in Tabs : /\ tab'[u].want = tab[u].want /\ tab'[u].stage = tab[u].stage
                           /\ acq'[u].pc = acq[u].pc /\ acq'[u].doc = acq[u].doc
    BY <1>1, <2>2, LostType DEF TypeInv, TypeOK
  <2>4. releases' \subseteq releases /\ UNCHANGED <<doc, writes, cleaning, net>>
    BY <1>2 DEF ReleaseArrives
  <2> QED
    BY <2>1, <2>3, <2>4 DEF TypeInv, TypeOK
<1>3. ASSUME NEW r \in releases, ReleaseLost(r)
      PROVE  TypeInv'
  BY <1>3 DEF ReleaseLost, TypeInv, TypeOK, LocksTypeOK
<1>4. ASSUME NEW d \in Docs, CleanRead(d) \/ CleanDelete(d)
      PROVE  TypeInv'
  <2>1. LocksTypeOK'
    BY <1>4, DropType DEF CleanRead, CleanDelete, TypeInv, TypeOK, LocksTypeOK
  <2>2. /\ cleaning' \in SUBSET Docs /\ UNCHANGED <<doc, writes, acq, releases, net, tab>>
    BY <1>4 DEF CleanRead, CleanDelete, TypeInv, TypeOK
  <2> QED
    BY <2>1, <2>2 DEF TypeInv, TypeOK
<1>5. ASSUME NEW d \in Docs, DeleteDoc(d)
      PROVE  TypeInv'
  BY <1>5 DEF DeleteDoc, TypeInv, TypeOK, LocksTypeOK
<1>6. CASE Tick
  <2>1. LocksTypeOK'
    <3>1. ASSUME NEW d \in Docs, HasLock(d)
          PROVE  [user |-> lock[d].user, age |-> Older(lock[d].age)] \in LockRow
      <4>1. lock[d] \in LockRow
        BY <3>1 DEF HasLock, TypeInv, TypeOK, LocksTypeOK
      <4> QED
        BY <4>1, TTLAssumption DEF LockRow, Older, MaxAge
    <3>2. lock' = [d \in Docs |-> IF HasLock(d)
                                  THEN [user |-> lock[d].user, age |-> Older(lock[d].age)]
                                  ELSE NoLock]
      BY <1>6 DEF Tick, LocksAge
    <3> QED
      BY <3>1, <3>2 DEF LocksTypeOK
  <2>2. /\ tab' \in [Tabs -> Tab]
        /\ \A u \in Tabs : tab'[u].want = tab[u].want /\ tab'[u].stage = tab[u].stage
    <3>1. ASSUME NEW u \in Tabs
          PROVE  tab[u] \in Tab /\ Lease(tab[u].lease + 1) \in 0 .. TTL
      BY PageFacts, LeaseSteps
    <3>2. tab' = [u \in Tabs |-> [tab[u] EXCEPT !.lease = Lease(@ + 1)]]
      BY <1>6 DEF Tick
    <3> QED
      BY <3>1, <3>2 DEF Tab
  <2>3. /\ acq' \in [Tabs -> Acquire]
        /\ \A u \in Tabs : acq'[u].pc = acq[u].pc /\ acq'[u].doc = acq[u].doc
    <3> DEFINE clock(u) == IF acq[u].pc \in Clocked THEN acq[u].clock + 1 ELSE acq[u].clock
    <3>1. ASSUME NEW u \in Tabs
          PROVE  acq[u] \in Acquire /\ Lease(acq[u].lease + 1) \in 0 .. TTL /\ clock(u) \in Lateness
      <4>1. /\ acq[u] \in Acquire /\ acq[u].lease \in 0 .. TTL /\ acq[u].clock \in Lateness
            /\ TTL \in Nat /\ MaxLate \in Nat
        BY PageFacts
      <4>2. acq[u].pc \in Clocked => acq[u].clock < MaxLate
        BY <1>6 DEF Tick
      <4> QED
        BY <4>1, <4>2, LeaseSteps DEF Lateness
    <3>2. acq' = [u \in Tabs |-> [acq[u] EXCEPT !.clock = clock(u), !.lease = Lease(acq[u].lease + 1)]]
      BY <1>6, <3>1 DEF Tick, Acquire
    <3> HIDE DEF clock
    <3> QED
      BY <3>1, <3>2 DEF Acquire
  <2>4. UNCHANGED <<doc, writes, cleaning, releases, net>>
    BY <1>6 DEF Tick
  <2> QED
    BY <2>1, <2>2, <2>3, <2>4 DEF TypeInv, TypeOK
<1> QED
  BY <1>2, <1>3, <1>4, <1>5, <1>6

\* Every step keeps the types.
LEMMA TypeInvStep == TypeInv /\ [Next]_vars => TypeInv'
<1> SUFFICES ASSUME TypeInv, [Next]_vars
             PROVE  TypeInv'
  OBVIOUS
<1>1. CASE UNCHANGED vars
  BY <1>1 DEF vars, TypeInv, TypeOK, LocksTypeOK
<1> QED
  BY <1>1, AcquireType, PageType, ServeType, TableType DEF Next

(* TypeOK: every row, page and request is of its kind.                      *)
THEOREM TypeCorrect == Spec => []TypeOK
<1>1. TypeInv => TypeOK
  BY DEF TypeInv
<1> QED
  BY <1>1, TypeInvInit, TypeInvStep, PTL DEF Spec


-----------------------------------------------------------------------------
(* The lease.                                                               *)

(* What a word of the server that a user holds a lock stands for: for TTL,  *)
(* less the time that a statement may be late, the row is that user's, and  *)
(* older than the word by no more than a statement may be late.             *)
BackedIn(rows, u, d, l) ==
    l + MaxLate < TTL =>
        /\ d \in Docs
        /\ rows[d] # NoLock
        /\ rows[d].user = u
        /\ rows[d].age <= l + MaxLate

(* The word that a page goes by is backed, and so is a grant that its page  *)
(* has yet to hear.                                                         *)
LeaseInv ==
    \A t \in Tabs :
        /\ BackedIn(lock, UserOf[t], tab[t].held, tab[t].lease)
        /\ BackedIn(lock, UserOf[t], acq[t].doc, acq[t].lease)

\* A page, or a handler, goes by the word that it had, or by none.
HeldKept(t) ==
    \/ tab'[t].lease = TTL
    \/ tab'[t].held = tab[t].held /\ tab'[t].lease = tab[t].lease

GrantKept(t) ==
    \/ acq'[t].lease = TTL
    \/ acq'[t].doc = acq[t].doc /\ acq'[t].lease = acq[t].lease

WordsKept == \A t \in Tabs : HeldKept(t) /\ GrantKept(t)

\* A word that is as old as TTL promises nothing.
LEMMA SpentBacked ==
    ASSUME NEW rows, NEW u, NEW d
    PROVE  BackedIn(rows, u, d, TTL)
  BY TTLAssumption DEF BackedIn

\* Pages that are told nothing new keep LeaseInv while the table stays.
LEMMA WordsKeptSteps ==
    ASSUME LeaseInv, WordsKept, lock' = lock
    PROVE  LeaseInv'
<1> SUFFICES ASSUME NEW t \in Tabs
             PROVE  /\ BackedIn(lock', UserOf[t], tab'[t].held, tab'[t].lease)
                    /\ BackedIn(lock', UserOf[t], acq'[t].doc, acq'[t].lease)
  BY DEF LeaseInv, BackedIn
<1>1. /\ BackedIn(lock, UserOf[t], tab[t].held, tab[t].lease)
      /\ BackedIn(lock, UserOf[t], acq[t].doc, acq[t].lease)
      /\ HeldKept(t) /\ GrantKept(t)
  BY DEF LeaseInv, WordsKept
<1> QED
  BY <1>1, SpentBacked DEF HeldKept, GrantKept

(* What a word relies on, as long as it is young.                           *)
LEMMA BackedFacts ==
    ASSUME TypeInv, NEW u, NEW d, NEW l \in 0 .. TTL,
           BackedIn(lock, u, d, l), l + MaxLate < TTL
    PROVE  /\ d \in Docs /\ lock[d] \in LockRow /\ HasLock(d)
           /\ lock[d].user = u
           /\ lock[d].age \in Nat /\ lock[d].age <= l + MaxLate /\ lock[d].age < TTL
           /\ \A late \in Lateness : ~Expired(d, late)
<1>1. /\ d \in Docs /\ HasLock(d) /\ lock[d].user = u /\ lock[d].age <= l + MaxLate
  BY DEF BackedIn, HasLock
<1>2. lock[d] \in LockRow
  BY <1>1 DEF HasLock, TypeInv, TypeOK, LocksTypeOK
<1>3. lock[d].age \in Nat /\ TTL \in Nat /\ MaxLate \in Nat
  BY <1>2, TTLAssumption DEF LockRow
<1>4. lock[d].age < TTL
  BY <1>1, <1>3
<1>5. \A late \in Lateness : ~(lock[d].age - late > TTL)
  BY <1>3, <1>4 DEF Lateness
<1> QED
  BY <1>1, <1>2, <1>3, <1>4, <1>5 DEF Expired

(* Who writes a row that nobody has, that is its own or that has expired    *)
(* takes it from no other user whose word is young.                         *)
LEMMA TakenFromNobody ==
    ASSUME TypeInv, NEW u, NEW d, NEW late \in Lateness,
           Takeable(u, d, late) \/ ~HasLock(d),
           NEW v, NEW l \in 0 .. TTL, BackedIn(lock, v, d, l), l + MaxLate < TTL
    PROVE  v = u
  BY BackedFacts DEF Takeable, Owns

(* A row is written anew by the user whose word relies on it.               *)
LEMMA HoldKeeps ==
    ASSUME TypeInv, NEW u \in Users, NEW d \in Docs, NEW late \in Lateness, Hold(u, d, late),
           NEW v, NEW e, NEW l \in 0 .. TTL, BackedIn(lock, v, e, l),
           l + MaxLate < TTL /\ e = d => v = u
    PROVE  BackedIn(lock', v, e, l)
<1> DEFINE row == [user |-> u, age |-> late]
<1>1. lock'[d] = row /\ \A c \in Docs \ {d} : lock'[c] = lock[c]
  BY DEF Hold, TypeInv, TypeOK, LocksTypeOK
<1>2. row \in LockRow /\ row.user = u /\ row.age = late
  BY TTLAssumption DEF LockRow, Lateness, MaxAge
<1>3. row # NoLock
  BY <1>2, NoLockAssumption
<1>4. late <= l + MaxLate
  BY TTLAssumption DEF Lateness
<1> HIDE DEF row
<1> QED
  BY <1>1, <1>2, <1>3, <1>4 DEF BackedIn

\* The word that a row was written with is backed by it.
LEMMA HoldBacks ==
    ASSUME TypeInv, NEW u \in Users, NEW d \in Docs, NEW late \in Lateness, Hold(u, d, late)
    PROVE  BackedIn(lock', u, d, Lease(late))
<1> DEFINE row == [user |-> u, age |-> late]
<1>1. lock'[d] = row
  BY DEF Hold, TypeInv, TypeOK, LocksTypeOK
<1>2. row \in LockRow /\ row.user = u /\ row.age = late
  BY TTLAssumption DEF LockRow, Lateness, MaxAge
<1>3. row # NoLock
  BY <1>2, NoLockAssumption
<1>4. late <= late + MaxLate /\ late \in Nat
  BY TTLAssumption DEF Lateness
<1> HIDE DEF row
<1>5. CASE late < TTL
  BY <1>1, <1>2, <1>3, <1>4, <1>5 DEF BackedIn, Lease
<1>6. CASE ~(late < TTL)
  BY <1>6, SpentBacked DEF Lease
<1> QED
  BY <1>5, <1>6

\* A row is deleted on which no word relies.
LEMMA DropKeeps ==
    ASSUME TypeInv, NEW d, Drop(d), NEW v, NEW e, NEW l, BackedIn(lock, v, e, l),
           l + MaxLate < TTL => e # d
    PROVE  BackedIn(lock', v, e, l)
<1>1. \A c \in Docs \ {d} : lock'[c] = lock[c]
  BY DEF Drop, TypeInv, TypeOK, LocksTypeOK
<1> QED
  BY <1>1 DEF BackedIn

(* A row is written: the pages and the handlers that rely on it are of its  *)
(* new user.                                                                *)
LEMMA HoldKeepsLeases ==
    ASSUME TypeInv, LeaseInv, NEW u \in Users, NEW d \in Docs, NEW late \in Lateness,
           Hold(u, d, late),
           \A t \in Tabs :
               \/ tab'[t].lease = TTL
               \/ tab'[t].held = d /\ UserOf[t] = u /\ tab'[t].lease = Lease(late)
               \/ /\ tab'[t].held = tab[t].held /\ tab'[t].lease = tab[t].lease
                  /\ tab[t].lease + MaxLate < TTL /\ tab[t].held = d => UserOf[t] = u,
           \A t \in Tabs :
               \/ acq'[t].lease = TTL
               \/ acq'[t].doc = d /\ UserOf[t] = u /\ acq'[t].lease = Lease(late)
               \/ /\ acq'[t].doc = acq[t].doc /\ acq'[t].lease = acq[t].lease
                  /\ acq[t].lease + MaxLate < TTL /\ acq[t].doc = d => UserOf[t] = u
    PROVE  LeaseInv'
<1> SUFFICES ASSUME NEW t \in Tabs
             PROVE  /\ BackedIn(lock', UserOf[t], tab'[t].held, tab'[t].lease)
                    /\ BackedIn(lock', UserOf[t], acq'[t].doc, acq'[t].lease)
  BY DEF LeaseInv, BackedIn
<1>1. tab[t].lease \in 0 .. TTL /\ acq[t].lease \in 0 .. TTL
  BY PageFacts
<1>2. /\ BackedIn(lock, UserOf[t], tab[t].held, tab[t].lease)
      /\ BackedIn(lock, UserOf[t], acq[t].doc, acq[t].lease)
  BY DEF LeaseInv
<1>3. BackedIn(lock', UserOf[t], tab'[t].held, tab'[t].lease)
  <2>1. CASE tab'[t].lease = TTL
    BY <2>1, SpentBacked
  <2>2. CASE tab'[t].held = d /\ UserOf[t] = u /\ tab'[t].lease = Lease(late)
    BY <2>2, HoldBacks
  <2>3. CASE /\ tab'[t].held = tab[t].held /\ tab'[t].lease = tab[t].lease
             /\ tab[t].lease + MaxLate < TTL /\ tab[t].held = d => UserOf[t] = u
    BY <1>1, <1>2, <2>3, HoldKeeps
  <2> QED
    BY <2>1, <2>2, <2>3
<1>4. BackedIn(lock', UserOf[t], acq'[t].doc, acq'[t].lease)
  <2>1. CASE acq'[t].lease = TTL
    BY <2>1, SpentBacked
  <2>2. CASE acq'[t].doc = d /\ UserOf[t] = u /\ acq'[t].lease = Lease(late)
    BY <2>2, HoldBacks
  <2>3. CASE /\ acq'[t].doc = acq[t].doc /\ acq'[t].lease = acq[t].lease
             /\ acq[t].lease + MaxLate < TTL /\ acq[t].doc = d => UserOf[t] = u
    BY <1>1, <1>2, <2>3, HoldKeeps
  <2> QED
    BY <2>1, <2>2, <2>3
<1> QED
  BY <1>3, <1>4

(* A row is deleted: no page and no handler relies on it.                   *)
LEMMA DropKeepsLeases ==
    ASSUME TypeInv, LeaseInv, WordsKept, NEW d, Drop(d),
           \A t \in Tabs : tab'[t].lease = TTL \/ (tab[t].lease + MaxLate < TTL => tab[t].held # d),
           \A t \in Tabs : acq'[t].lease = TTL \/ (acq[t].lease + MaxLate < TTL => acq[t].doc # d)
    PROVE  LeaseInv'
<1> SUFFICES ASSUME NEW t \in Tabs
             PROVE  /\ BackedIn(lock', UserOf[t], tab'[t].held, tab'[t].lease)
                    /\ BackedIn(lock', UserOf[t], acq'[t].doc, acq'[t].lease)
  BY DEF LeaseInv, BackedIn
<1>1. /\ BackedIn(lock, UserOf[t], tab[t].held, tab[t].lease)
      /\ BackedIn(lock, UserOf[t], acq[t].doc, acq[t].lease)
      /\ HeldKept(t) /\ GrantKept(t)
  BY DEF LeaseInv, WordsKept
<1>2. BackedIn(lock', UserOf[t], tab'[t].held, tab'[t].lease)
  <2>1. CASE tab'[t].lease = TTL
    BY <2>1, SpentBacked
  <2>2. CASE tab'[t].lease # TTL
    BY <1>1, <2>2, DropKeeps DEF HeldKept
  <2> QED
    BY <2>1, <2>2
<1>3. BackedIn(lock', UserOf[t], acq'[t].doc, acq'[t].lease)
  <2>1. CASE acq'[t].lease = TTL
    BY <2>1, SpentBacked
  <2>2. CASE acq'[t].lease # TTL
    BY <1>1, <2>2, DropKeeps DEF GrantKept
  <2> QED
    BY <2>1, <2>2
<1> QED
  BY <1>2, <1>3

\* A page takes over a state with the word that it had.
LEMMA TurnKeepsLeases ==
    ASSUME TypeInv, LeaseInv, lock' = lock,
           NEW t \in Tabs, NEW page \in Tab, tab' = [tab EXCEPT ![t] = page],
           page.lease = TTL \/ (page.lease = tab[t].lease /\ page.held = tab[t].held),
           acq' = acq \/ \E a : Asks(t, a) /\ a.lease = TTL
    PROVE  LeaseInv'
<1>1. tab'[t] = page /\ \A s \in Tabs \ {t} : tab'[s] = tab[s]
  BY DEF TypeInv, TypeOK
<1>2. \A s \in Tabs : acq'[s] = acq[s] \/ acq'[s].lease = TTL
  BY DEF Asks, TypeInv, TypeOK
<1>3. WordsKept
  BY <1>1, <1>2 DEF WordsKept, HeldKept, GrantKept
<1> QED
  BY <1>3, WordsKeptSteps

\* acquireDocLock never takes the row of another user whose word is young.
LEMMA AcquireKeepsLeases ==
    ASSUME TypeInv, LeaseInv, NEW t \in Tabs, AcquireStep(t)
    PROVE  LeaseInv'
<1> DEFINE d == acq[t].doc
           u == UserOf[t]
           clock == acq[t].clock
<1>1. /\ d \in Docs /\ u \in Users /\ clock \in Lateness
      /\ tab \in [Tabs -> Tab] /\ acq \in [Tabs -> Acquire]
  BY AcquireOutcome, PageFacts
<1>2. CASE Granted(t) /\ (Takeable(u, d, clock) \/ ~HasLock(d))
  <2>1. Hold(u, d, clock) /\ tab' = tab
    BY <1>2 DEF Granted
  <2>2. ASSUME NEW s \in Tabs
        PROVE  /\ tab[s].lease + MaxLate < TTL /\ tab[s].held = d => UserOf[s] = u
               /\ acq[s].lease + MaxLate < TTL /\ acq[s].doc = d => UserOf[s] = u
    <3>1. /\ tab[s].lease \in 0 .. TTL /\ acq[s].lease \in 0 .. TTL
          /\ BackedIn(lock, UserOf[s], tab[s].held, tab[s].lease)
          /\ BackedIn(lock, UserOf[s], acq[s].doc, acq[s].lease)
      BY PageFacts DEF LeaseInv
    <3> QED
      BY <1>1, <1>2, <3>1, TakenFromNobody
  <2>3. \A s \in Tabs :
            \/ acq'[s] = acq[s]
            \/ s = t /\ acq'[s].doc = d /\ acq'[s].lease = Lease(clock)
    <3>1. acq' = [acq EXCEPT ![t].pc = "granted", ![t].clock = 0, ![t].lease = Lease(clock)]
      BY <1>2 DEF Granted
    <3> QED
      BY <1>1, <3>1 DEF Acquire
  <2>4. \A s \in Tabs :
           \/ acq'[s].lease = TTL
           \/ acq'[s].doc = d /\ UserOf[s] = u /\ acq'[s].lease = Lease(clock)
           \/ /\ acq'[s].doc = acq[s].doc /\ acq'[s].lease = acq[s].lease
              /\ acq[s].lease + MaxLate < TTL /\ acq[s].doc = d => UserOf[s] = u
    BY <2>2, <2>3
  <2> QED
    BY <1>1, <2>1, <2>2, <2>4, HoldKeepsLeases
<1>3. CASE Hear(t)
  <2>1. lock' = lock /\ acq' = [acq EXCEPT ![t] = NoAcquire]
    BY <1>3, HearSteps
  <2>2. \A s \in Tabs : GrantKept(s)
    BY <1>1, <2>1, NoAcquireType DEF GrantKept
  <2>3. CASE \A s \in Tabs : HeldKept(s)
    BY <2>1, <2>2, <2>3, WordsKeptSteps DEF WordsKept
  <2>4. CASE tab' = [tab EXCEPT ![t].stage = "loading", ![t].held = acq[t].doc,
                                ![t].timer = TRUE, ![t].lease = acq[t].lease]
    <3> SUFFICES ASSUME NEW s \in Tabs
                 PROVE  /\ BackedIn(lock', UserOf[s], tab'[s].held, tab'[s].lease)
                        /\ BackedIn(lock', UserOf[s], acq'[s].doc, acq'[s].lease)
      BY DEF LeaseInv, BackedIn
    <3>1. \/ tab'[s].held = tab[s].held /\ tab'[s].lease = tab[s].lease
          \/ s = t /\ tab'[s].held = acq[t].doc /\ tab'[s].lease = acq[t].lease
      BY <1>1, <2>4 DEF Tab
    <3>2. BackedIn(lock', UserOf[s], tab'[s].held, tab'[s].lease)
      BY <2>1, <3>1 DEF LeaseInv
    <3>3. BackedIn(lock', UserOf[s], acq'[s].doc, acq'[s].lease)
      BY <2>1, <2>2, SpentBacked DEF GrantKept, LeaseInv
    <3> QED
      BY <3>2, <3>3
  <2>5. CASE tab' = tab \/ \E stage : tab' = [tab EXCEPT ![t].stage = stage]
    <3>1. \A s \in Tabs : HeldKept(s)
      BY <1>1, <2>5 DEF Tab, HeldKept
    <3> QED
      BY <2>3, <3>1
  <2> QED
    BY <1>3, <2>4, <2>5, HearSteps
<1>4. ASSUME NEW pc, NEW c, GoOn(t, pc, c)
      PROVE  LeaseInv'
  <2>1. lock' = lock /\ WordsKept
    BY <1>1, <1>4 DEF GoOn, WordsKept, HeldKept, GrantKept, Acquire
  <2> QED
    BY <2>1, WordsKeptSteps
<1> QED
  BY <1>2, <1>3, <1>4, AcquireOutcome

(* An admin who forces a lock ends the leases of all others.                *)
LEMMA ForceKeepsLeases ==
    ASSUME TypeInv, LeaseInv, NEW t \in Tabs, ForceLock(t)
    PROVE  LeaseInv'
<1> DEFINE d == tab[t].want
           u == UserOf[t]
           lost == LeasesLost(d, Users \ {u})
           grants == GrantsLost(d, Users \ {u})
<1>1. d \in Docs /\ u \in Users
  BY PageFacts DEF ForceLock, TypeInv
<1>2. PICK late \in Lateness :
        /\ Hold(u, d, late)
        /\ \/ tab' = [lost EXCEPT ![t].stage = "loading", ![t].held = d,
                                  ![t].timer = TRUE, ![t].lease = Lease(late)]
           \/ tab' = [lost EXCEPT ![t].stage = "rest", ![t].want = None]
  BY DEF ForceLock
<1>3. acq' = grants
  BY DEF ForceLock
<1>4. lost \in [Tabs -> Tab]
  BY LostType
<1>5. \A s \in Tabs : UserOf[s] \in Users
  BY PageFacts
<1>6. ASSUME NEW s \in Tabs
      PROVE  /\ lost[s].held = tab[s].held
             /\ lost[s].lease = TTL \/ (lost[s].lease = tab[s].lease /\ (tab[s].held = d => UserOf[s] = u))
             /\ grants[s].doc = acq[s].doc
             /\ grants[s].lease = TTL \/ (grants[s].lease = acq[s].lease /\ (acq[s].doc = d => UserOf[s] = u))
  BY <1>5, LostType
<1> HIDE DEF lost, grants
<1>7. ASSUME NEW s \in Tabs
      PROVE  \/ tab'[s].held = d /\ s = t /\ tab'[s].lease = Lease(late)
             \/ tab'[s].held = lost[s].held /\ tab'[s].lease = lost[s].lease
  BY <1>2, <1>4 DEF Tab
<1>8. \A s \in Tabs :
          \/ tab'[s].lease = TTL
          \/ tab'[s].held = d /\ UserOf[s] = u /\ tab'[s].lease = Lease(late)
          \/ /\ tab'[s].held = tab[s].held /\ tab'[s].lease = tab[s].lease
             /\ tab[s].lease + MaxLate < TTL /\ tab[s].held = d => UserOf[s] = u
  BY <1>6, <1>7
<1>9. \A s \in Tabs :
          \/ acq'[s].lease = TTL
          \/ /\ acq'[s].doc = acq[s].doc /\ acq'[s].lease = acq[s].lease
             /\ acq[s].lease + MaxLate < TTL /\ acq[s].doc = d => UserOf[s] = u
  BY <1>3, <1>6
<1> HIDE DEF d, u
<1> QED
  BY <1>1, <1>2, <1>8, <1>9, HoldKeepsLeases

(* A heartbeat writes the row of its own user only.                         *)
LEMMA HeartbeatKeepsLeases ==
    ASSUME TypeInv, LeaseInv, NEW t \in Tabs, Heartbeat(t)
    PROVE  LeaseInv'
<1> DEFINE d == tab[t].held
           u == UserOf[t]
<1>1. d \in Docs /\ u \in Users /\ tab \in [Tabs -> Tab] /\ acq' = acq
  BY PageFacts DEF Heartbeat
<1>2. ASSUME NEW late \in Lateness, Beat(t, late),
             \A s \in Tabs : \/ tab'[s].held = tab[s].held /\ tab'[s].lease = tab[s].lease
                             \/ s = t /\ tab'[s].held = d /\ tab'[s].lease = Lease(late)
      PROVE  LeaseInv'
  <2>1. Takeable(u, d, late) /\ Hold(u, d, late)
    BY <1>2 DEF Beat, Takeable
  <2>2. ASSUME NEW s \in Tabs
        PROVE  /\ tab[s].lease + MaxLate < TTL /\ tab[s].held = d => UserOf[s] = u
               /\ acq[s].lease + MaxLate < TTL /\ acq[s].doc = d => UserOf[s] = u
    <3>1. /\ tab[s].lease \in 0 .. TTL /\ acq[s].lease \in 0 .. TTL
          /\ BackedIn(lock, UserOf[s], tab[s].held, tab[s].lease)
          /\ BackedIn(lock, UserOf[s], acq[s].doc, acq[s].lease)
      BY PageFacts DEF LeaseInv
    <3> QED
      BY <1>1, <2>1, <3>1, TakenFromNobody
  <2>3. \A s \in Tabs :
          \/ tab'[s].lease = TTL
          \/ tab'[s].held = d /\ UserOf[s] = u /\ tab'[s].lease = Lease(late)
          \/ /\ tab'[s].held = tab[s].held /\ tab'[s].lease = tab[s].lease
             /\ tab[s].lease + MaxLate < TTL /\ tab[s].held = d => UserOf[s] = u
    BY <1>2, <2>2
  <2>4. \A s \in Tabs :
          \/ acq'[s].lease = TTL
          \/ /\ acq'[s].doc = acq[s].doc /\ acq'[s].lease = acq[s].lease
             /\ acq[s].lease + MaxLate < TTL /\ acq[s].doc = d => UserOf[s] = u
    BY <1>1, <2>2
  <2> HIDE DEF d, u
  <2> QED
    BY <1>1, <2>1, <2>3, <2>4, HoldKeepsLeases
<1>3. CASE HeartbeatOk(t)
  <2>1. PICK late \in Lateness : Beat(t, late) /\ tab' = [tab EXCEPT ![t].lease = Lease(late)]
    BY <1>3 DEF HeartbeatOk
  <2>2. \A s \in Tabs : \/ tab'[s].held = tab[s].held /\ tab'[s].lease = tab[s].lease
                        \/ s = t /\ tab'[s].held = d /\ tab'[s].lease = Lease(late)
    BY <1>1, <2>1 DEF Tab
  <2> QED
    BY <1>2, <2>1, <2>2
<1>4. CASE HeartbeatFails(t)
  <2>1. \A s \in Tabs : tab'[s].held = tab[s].held /\ tab'[s].lease = tab[s].lease
    BY <1>1, <1>4 DEF HeartbeatFails, Tab
  <2>2. CASE lock' = lock
    BY <1>1, <2>1, <2>2, WordsKeptSteps DEF WordsKept, HeldKept, GrantKept
  <2>3. CASE \E late \in Lateness : Beat(t, late)
    BY <1>2, <2>1, <2>3
  <2> QED
    BY <1>4, <2>2, <2>3 DEF HeartbeatFails
<1>5. CASE HeartbeatNoDocument(t)
  <2>1. lock' = lock /\ \A s \in Tabs : tab'[s] = tab[s] \/ tab'[s].lease = TTL
    BY <1>1, <1>5 DEF HeartbeatNoDocument, Tab
  <2> QED
    BY <1>1, <2>1, WordsKeptSteps DEF WordsKept, HeldKept, GrantKept
<1> QED
  BY <1>3, <1>4, <1>5 DEF Heartbeat

\* Opening, closing, heartbeats and releases of pages keep LeaseInv.
LEMMA PageKeepsLeases ==
    ASSUME TypeInv, LeaseInv, NEW t \in Tabs, Page(t)
    PROVE  LeaseInv'
<1>1. /\ tab \in [Tabs -> Tab] /\ tab[t] \in Tab /\ TTL \in Nat
      /\ tab[t].want \in Docs \cup {None}
  BY PageFacts
<1>2. ASSUME NEW d \in Docs, Opening(t, tab[t], d), lock' = lock
      PROVE  LeaseInv'
  BY <1>1, <1>2, OpeningSteps, TurnKeepsLeases DEF Turns
<1>3. CASE (\E d \in Docs : Open(t, d)) \/ Retry(t)
  <2>1. tab[t].stage = "refused" => tab[t].want \in Docs
    BY <1>1 DEF TypeInv
  <2> QED
    BY <1>2, <1>3, <2>1 DEF Open, Retry
<1>4. CASE Back(t) \/ AskFails(t) \/ LoadFails(t) \/ Save(t) \/ SaveGivesUp(t)
  <2>1. lock' = lock /\ acq' = acq
    BY <1>4 DEF Back, AskFails, LoadFails, Save, SaveGivesUp
  <2>2. \A s \in Tabs : tab'[s].held = tab[s].held /\ tab'[s].lease = tab[s].lease
    <3>1. CASE Back(t) \/ AskFails(t) \/ LoadFails(t)
      BY <1>1, <3>1 DEF Back, AskFails, LoadFails, Tab
    <3>2. CASE Save(t) \/ SaveGivesUp(t)
      <4>1. \E stage : tab' = [tab EXCEPT ![t].stage = stage]
        BY <3>2 DEF Save, SaveGivesUp
      <4> QED
        BY <1>1, <4>1 DEF Tab
    <3> QED
      BY <1>4, <3>1, <3>2
  <2> QED
    BY <2>1, <2>2, WordsKeptSteps DEF WordsKept, HeldKept, GrantKept
<1>5. CASE Load(t)
  <2>1. lock' = lock /\ acq' = acq
    BY <1>5 DEF Load
  <2>2. \A s \in Tabs : tab'[s].held = tab[s].held /\ tab'[s].lease = tab[s].lease
    BY <1>1, <1>5 DEF Load, Tab
  <2> QED
    BY <2>1, <2>2, WordsKeptSteps DEF WordsKept, HeldKept, GrantKept
<1>6. CASE Close(t) \/ Unload(t)
  <2>1. lock' = lock /\ acq' = acq
    BY <1>6 DEF Close, Unload
  <2>2. \A s \in Tabs : tab'[s] = tab[s] \/ tab'[s].lease = TTL
    BY <1>1, <1>6 DEF Close, Unload, NewPage
  <2> QED
    BY <2>1, <2>2, WordsKeptSteps DEF WordsKept, HeldKept, GrantKept
<1> QED
  BY <1>3, <1>4, <1>5, <1>6, ForceKeepsLeases, HeartbeatKeepsLeases DEF Page

\* A save leaves the leases alone.
LEMMA ServeKeepsLeases ==
    ASSUME TypeInv, LeaseInv, NEW m \in net, Serve(m)
    PROVE  LeaseInv'
<1>1. /\ m.tab \in Tabs /\ m.doc \in Docs /\ tab \in [Tabs -> Tab] /\ tab[m.tab] \in Tab
  BY SaveFacts, PageFacts
<1>2. lock' = lock
  BY DEF Serve, SaveRead, SaveCheck, Commit, Conflict, SaveFails
<1>3. ASSUME \A s \in Tabs : tab'[s].held = tab[s].held /\ tab'[s].lease = tab[s].lease,
             acq' = acq
      PROVE  LeaseInv'
  BY <1>2, <1>3, WordsKeptSteps DEF WordsKept, HeldKept, GrantKept
<1>4. ASSUME NEW page, Answered(m, page), page.held = tab[m.tab].held,
             page.lease = tab[m.tab].lease, page \in Tab, acq' = acq
      PROVE  LeaseInv'
  <2>1. \A s \in Tabs : tab'[s].held = tab[s].held /\ tab'[s].lease = tab[s].lease
    BY <1>1, <1>4 DEF Answered, Tab
  <2> QED
    BY <1>3, <1>4, <2>1
<1>5. ASSUME Answered(m, tab[m.tab]), acq' = acq
      PROVE  LeaseInv'
  BY <1>1, <1>4, <1>5
<1>6. ASSUME m.read # NoDoc, acq' = acq,
             Answered(m, [tab[m.tab] EXCEPT !.ver = m.read.version, !.told = m.read.content])
      PROVE  LeaseInv'
  <2> DEFINE page == [tab[m.tab] EXCEPT !.ver = m.read.version, !.told = m.read.content]
  <2>1. page \in Tab
    BY <1>6, ToldOfRead
  <2>2. page.held = tab[m.tab].held /\ page.lease = tab[m.tab].lease
    BY <1>1 DEF Tab
  <2>3. Answered(m, page)
    BY <1>6
  <2> HIDE DEF page
  <2> QED
    BY <1>4, <1>6, <2>1, <2>2, <2>3
<1>7. CASE SaveRead(m) \/ SaveFails(m)
  BY <1>3, <1>5, <1>7 DEF SaveRead, SaveFails
<1>8. CASE SaveCheck(m)
  <2>1. m.doc \notin Offers => m.read # NoDoc
    BY <1>8 DEF SaveCheck, TypeInv
  <2> QED
    BY <1>3, <1>5, <1>6, <1>8, <2>1 DEF SaveCheck, BaseChanged
<1>9. CASE Commit(m)
  <2>1. \A s \in Tabs : tab'[s].held = tab[s].held /\ tab'[s].lease = tab[s].lease
    BY <1>1, <1>9 DEF Commit, Tab
  <2> QED
    BY <1>3, <1>9, <2>1 DEF Commit
<1>10. CASE Conflict(m)
  <2>1. m.doc \notin Offers => m.read # NoDoc
    BY <1>10 DEF Conflict, TypeInv
  <2>2. CASE m.form = "awaits" /\ m.doc \in Offers /\ Exists(m.doc)
    <3> DEFINE page == [tab[m.tab] EXCEPT !.copy = [tab[m.tab].copy EXCEPT ![m.doc] = 0]]
    <3>1. page \in Tab /\ page.held = tab[m.tab].held /\ page.lease = tab[m.tab].lease
      BY <1>1 DEF Tab
    <3>2. Opening(m.tab, page, m.doc)
      BY <1>10, <2>2 DEF Conflict
    <3> HIDE DEF page
    <3> QED
      BY <1>1, <1>2, <3>1, <3>2, OpeningSteps, TurnKeepsLeases DEF Turns
  <2>3. CASE ~(m.form = "awaits" /\ m.doc \in Offers /\ Exists(m.doc))
    BY <1>5, <1>6, <1>10, <2>1, <2>3 DEF Conflict
  <2> QED
    BY <2>2, <2>3
<1> QED
  BY <1>7, <1>8, <1>9, <1>10 DEF Serve

\* A release takes a row from its own user, whose pages have lost their lease.
LEMMA ReleaseKeepsLeases ==
    ASSUME TypeInv, LeaseInv, NEW r \in releases, ReleaseArrives(r)
    PROVE  LeaseInv'
<1>1. CASE ~Exists(r.doc)
  BY <1>1, WordsKeptSteps DEF ReleaseArrives, WordsKept, HeldKept, GrantKept
<1>2. CASE Exists(r.doc)
  <2> DEFINE lost == LeasesLost(r.doc, {r.user})
             grants == GrantsLost(r.doc, {r.user})
  <2>1. PICK late \in Lateness : ReleaseRow(r.user, r.doc, late)
    BY <1>2 DEF ReleaseArrives
  <2>2. tab' = lost /\ acq' = grants
    BY <1>2 DEF ReleaseArrives
  <2>3. ASSUME NEW s \in Tabs
        PROVE  /\ lost[s].held = tab[s].held
               /\ lost[s].lease = TTL \/ (lost[s].lease = tab[s].lease /\ (tab[s].held = r.doc => UserOf[s] # r.user))
               /\ grants[s].doc = acq[s].doc
               /\ grants[s].lease = TTL \/ (grants[s].lease = acq[s].lease /\ (acq[s].doc = r.doc => UserOf[s] # r.user))
    BY LostType
  <2> HIDE DEF lost, grants
  <2>4. WordsKept
    BY <2>2, <2>3 DEF WordsKept, HeldKept, GrantKept
  <2>5. CASE lock' = lock
    BY <2>4, <2>5, WordsKeptSteps
  <2>6. CASE Drop(r.doc) /\ (Owns(r.user, r.doc) \/ Expired(r.doc, late))
    <3>1. Takeable(r.user, r.doc, late)
      BY <2>6 DEF Takeable
    <3>2. ASSUME NEW s \in Tabs
          PROVE  /\ tab[s].lease + MaxLate < TTL /\ tab[s].held = r.doc => UserOf[s] = r.user
                 /\ acq[s].lease + MaxLate < TTL /\ acq[s].doc = r.doc => UserOf[s] = r.user
      <4>1. /\ tab[s].lease \in 0 .. TTL /\ acq[s].lease \in 0 .. TTL
            /\ BackedIn(lock, UserOf[s], tab[s].held, tab[s].lease)
            /\ BackedIn(lock, UserOf[s], acq[s].doc, acq[s].lease)
        BY PageFacts DEF LeaseInv
      <4> QED
        BY <3>1, <4>1, TakenFromNobody
    <3>3. \A s \in Tabs : tab'[s].lease = TTL \/ (tab[s].lease + MaxLate < TTL => tab[s].held # r.doc)
      BY <2>2, <2>3, <3>2
    <3>4. \A s \in Tabs : acq'[s].lease = TTL \/ (acq[s].lease + MaxLate < TTL => acq[s].doc # r.doc)
      BY <2>2, <2>3, <3>2
    <3> QED
      BY <2>4, <2>6, <3>3, <3>4, DropKeepsLeases
  <2> QED
    BY <2>1, <2>5, <2>6 DEF ReleaseRow
<1> QED
  BY <1>1, <1>2

\* Time makes a word and the row it relies on older alike.
LEMMA TickKeepsLeases ==
    ASSUME TypeInv, LeaseInv, Tick
    PROVE  LeaseInv'
<1>1. ASSUME NEW u, NEW d, NEW l \in 0 .. TTL, BackedIn(lock, u, d, l)
      PROVE  BackedIn(lock', u, d, Lease(l + 1))
  <2>1. CASE l + 1 < TTL /\ l + 1 + MaxLate < TTL
    <3>1. l + MaxLate < TTL /\ l \in Nat /\ MaxLate \in Nat /\ TTL \in Nat
      BY <2>1, TTLAssumption
    <3>2. /\ d \in Docs /\ lock[d] \in LockRow /\ HasLock(d) /\ lock[d].user = u
          /\ lock[d].age \in Nat /\ lock[d].age <= l + MaxLate /\ lock[d].age < TTL
      BY <1>1, <3>1, BackedFacts
    <3>3. lock'[d] = [user |-> lock[d].user, age |-> Older(lock[d].age)]
      BY <3>2 DEF Tick, LocksAge
    <3>4. Older(lock[d].age) = lock[d].age + 1 /\ lock[d].age + 1 \in 0 .. MaxAge
      BY <3>1, <3>2 DEF Older, MaxAge
    <3>5. lock'[d].user = u /\ lock'[d].age = lock[d].age + 1 /\ lock'[d] \in LockRow
      BY <3>2, <3>3, <3>4 DEF LockRow
    <3>6. lock'[d] # NoLock
      BY <3>5, NoLockAssumption
    <3>7. Lease(l + 1) = l + 1 /\ lock'[d].age <= l + 1 + MaxLate
      BY <2>1, <3>1, <3>2, <3>5 DEF Lease
    <3> QED
      BY <3>2, <3>5, <3>6, <3>7 DEF BackedIn
  <2>2. CASE l + 1 < TTL /\ ~(l + 1 + MaxLate < TTL)
    BY <2>2 DEF BackedIn, Lease
  <2>3. CASE ~(l + 1 < TTL)
    BY <2>3, SpentBacked DEF Lease
  <2> QED
    BY <2>1, <2>2, <2>3
<1> SUFFICES ASSUME NEW t \in Tabs
             PROVE  /\ BackedIn(lock', UserOf[t], tab'[t].held, tab'[t].lease)
                    /\ BackedIn(lock', UserOf[t], acq'[t].doc, acq'[t].lease)
  BY DEF LeaseInv, BackedIn
<1>2. /\ tab[t] \in Tab /\ acq[t] \in Acquire
      /\ tab[t].lease \in 0 .. TTL /\ acq[t].lease \in 0 .. TTL
      /\ BackedIn(lock, UserOf[t], tab[t].held, tab[t].lease)
      /\ BackedIn(lock, UserOf[t], acq[t].doc, acq[t].lease)
  BY PageFacts DEF LeaseInv
<1>3. tab'[t].held = tab[t].held /\ tab'[t].lease = Lease(tab[t].lease + 1)
  BY <1>2 DEF Tick, Tab
<1>4. acq'[t].doc = acq[t].doc /\ acq'[t].lease = Lease(acq[t].lease + 1)
  BY <1>2 DEF Tick, Acquire
<1> QED
  BY <1>1, <1>2, <1>3, <1>4

(* The rows that are deleted for their age are older than any lease.        *)
LEMMA TableKeepsLeases ==
    ASSUME TypeInv, LeaseInv,
           \/ \E r \in releases : ReleaseArrives(r) \/ ReleaseLost(r)
           \/ \E d \in Docs : CleanRead(d) \/ CleanDelete(d) \/ DeleteDoc(d)
           \/ Tick
    PROVE  LeaseInv'
<1>1. ASSUME NEW r \in releases, ReleaseLost(r)
      PROVE  LeaseInv'
  BY <1>1, WordsKeptSteps DEF ReleaseLost, WordsKept, HeldKept, GrantKept
<1>2. ASSUME NEW d \in Docs, CleanRead(d) \/ CleanDelete(d) \/ DeleteDoc(d)
      PROVE  LeaseInv'
  <2>1. WordsKept
    BY <1>2 DEF WordsKept, HeldKept, GrantKept, CleanRead, CleanDelete, DeleteDoc
  <2>2. lock' = lock \/ \E late \in Lateness : Drop(d) /\ Expired(d, late)
    BY <1>2 DEF CleanRead, CleanDelete, DeleteDoc
  <2>3. CASE lock' = lock
    BY <2>1, <2>3, WordsKeptSteps
  <2>4. ASSUME NEW late \in Lateness, Drop(d), Expired(d, late)
        PROVE  LeaseInv'
    <3>1. ASSUME NEW s \in Tabs
          PROVE  /\ tab[s].lease + MaxLate < TTL => tab[s].held # d
                 /\ acq[s].lease + MaxLate < TTL => acq[s].doc # d
      <4>1. /\ tab[s].lease \in 0 .. TTL /\ acq[s].lease \in 0 .. TTL
            /\ BackedIn(lock, UserOf[s], tab[s].held, tab[s].lease)
            /\ BackedIn(lock, UserOf[s], acq[s].doc, acq[s].lease)
        BY PageFacts DEF LeaseInv
      <4> QED
        BY <2>4, <4>1, BackedFacts
    <3> QED
      BY <2>1, <2>4, <3>1, DropKeepsLeases
  <2> QED
    BY <2>2, <2>3, <2>4
<1> QED
  BY <1>1, <1>2, ReleaseKeepsLeases, TickKeepsLeases

\* Every step keeps LeaseInv, the clock's included.
LEMMA LeaseInvStep == TypeInv /\ LeaseInv /\ [Next]_vars => LeaseInv'
<1> SUFFICES ASSUME TypeInv, LeaseInv, [Next]_vars
             PROVE  LeaseInv'
  OBVIOUS
<1>1. CASE UNCHANGED vars
  BY <1>1, WordsKeptSteps DEF vars, WordsKept, HeldKept, GrantKept
<1> QED
  BY <1>1, AcquireKeepsLeases, PageKeepsLeases, ServeKeepsLeases, TableKeepsLeases DEF Next

\* A word that is young has its row, in every reachable state.
LEMMA LeaseInvCorrect == Spec => [](TypeInv /\ LeaseInv)
<1>1. Init => LeaseInv
  BY SpentBacked DEF Init, LeaseInv, NewPage, NoAcquire
<1> QED
  BY <1>1, TypeInvInit, TypeInvStep, LeaseInvStep, PTL DEF Spec

(* LeaseHeld: from the clock reading that the server granted or renewed a   *)
(* page's lock with, for TTL less the time that a statement may be late,    *)
(* the row is the page's user's and fresh, although the row may be written  *)
(* with a reading as old as that and the answer is heard later still.       *)
THEOREM LeaseHeldCorrect == Spec => []LeaseHeld
<1>1. LeaseInv => LeaseHeld
  BY DEF LeaseInv, BackedIn, LeaseHeld, Leased, Owns, HasLock
<1> QED
  BY <1>1, LeaseInvCorrect, PTL


-----------------------------------------------------------------------------
(* The saves in the server.                                                 *)

\* The saves of a page are told apart by their numbers.
IdsInv == \A m, n \in net : m.tab = n.tab /\ m.id = n.id => m = n

\* The saves after a step in which a page gives up waiting, or its form.
Moved(n, m) ==
    \/ n = m
    \/ n = [m EXCEPT !.form = "gone"]
    \/ m.form = "awaits" /\ n = [m EXCEPT !.form = "open"]

\* A save whose form went away is the same request otherwise.
LEMMA MovedFacts ==
    ASSUME NEW m \in SaveRequest, NEW n, Moved(n, m)
    PROVE  /\ n.tab = m.tab /\ n.id = m.id /\ n.doc = m.doc /\ n.pc = m.pc
           /\ n.ver = m.ver /\ n.told = m.told /\ n.read = m.read
           /\ n.form # "gone" => m.form # "gone"
  BY DEF Moved, SaveRequest

(* What becomes of the saves when a page, or an acquire, takes a step.       *)
LEMMA PageNet ==
    ASSUME TypeInv, NEW t \in Tabs, Page(t) \/ AcquireStep(t)
    PROVE  \/ net' = net
           \/ net' = Orphaned(t)
           \/ /\ SaveGivesUp(t)
              /\ net' = {IF m.tab = t /\ m.form = "awaits" THEN [m EXCEPT !.form = "open"]
                         ELSE m : m \in net}
           \/ Save(t)
<1>1. CASE AcquireStep(t)
  BY <1>1, AcquireOutcome
<1>2. CASE (\E d \in Docs : Open(t, d)) \/ Retry(t) \/ Back(t) \/ AskFails(t)
           \/ ForceLock(t) \/ Heartbeat(t) \/ LoadFails(t)
  BY <1>2 DEF Open, Retry, Back, AskFails, ForceLock, Heartbeat, LoadFails
<1>3. CASE Load(t) \/ Close(t) \/ Unload(t)
  BY <1>3 DEF Load, Close, Unload
<1>4. CASE SaveGivesUp(t)
  BY <1>4 DEF SaveGivesUp
<1> QED
  BY <1>1, <1>2, <1>3, <1>4 DEF Page

(* What becomes of them when the server takes a step for one.                *)
LEMMA ServeNet ==
    ASSUME TypeInv, NEW m \in net, Serve(m)
    PROVE  \/ net' = net \ {m}
           \/ /\ SaveRead(m)
              /\ m.doc \in Offers \/ Exists(m.doc)
              /\ net' = (net \ {m}) \cup {[m EXCEPT !.pc = "check", !.read = doc[m.doc]]}
              /\ tab' = tab /\ doc' = doc
           \/ /\ SaveCheck(m)
              /\ ~HeldByOther(UserOf[m.tab], m.doc)
              /\ net' = (net \ {m}) \cup {[m EXCEPT !.pc = "write"]}
              /\ tab' = tab /\ doc' = doc
  BY DEF Serve, SaveRead, SaveCheck, Commit, Conflict, SaveFails, Answered

\* Every step gives each save a number of its own.
LEMMA IdsInvStep == TypeInv /\ IdsInv /\ [Next]_vars => IdsInv'
<1> SUFFICES ASSUME TypeInv, IdsInv, [Next]_vars
             PROVE  IdsInv'
  OBVIOUS
<1>1. ASSUME net' \subseteq net
      PROVE  IdsInv'
  BY <1>1 DEF IdsInv
<1>2. ASSUME NEW t \in Tabs, Page(t) \/ AcquireStep(t)
      PROVE  IdsInv'
  <2>1. CASE net' = Orphaned(t)
    <3> SUFFICES ASSUME NEW a \in net', NEW b \in net', a.tab = b.tab, a.id = b.id
                 PROVE  a = b
      BY DEF IdsInv
    <3>1. PICK m \in net : a = IF m.tab = t THEN [m EXCEPT !.form = "gone"] ELSE m
      BY <2>1 DEF Orphaned
    <3>2. PICK n \in net : b = IF n.tab = t THEN [n EXCEPT !.form = "gone"] ELSE n
      BY <2>1 DEF Orphaned
    <3>3. m \in SaveRequest /\ n \in SaveRequest /\ Moved(a, m) /\ Moved(b, n)
      BY <3>1, <3>2, SaveFacts DEF Moved
    <3>4. m = n
      BY <3>3, MovedFacts DEF IdsInv
    <3> QED
      BY <3>1, <3>2, <3>4
  <2>2. CASE net' = {IF m.tab = t /\ m.form = "awaits" THEN [m EXCEPT !.form = "open"]
                     ELSE m : m \in net}
    <3> SUFFICES ASSUME NEW a \in net', NEW b \in net', a.tab = b.tab, a.id = b.id
                 PROVE  a = b
      BY DEF IdsInv
    <3>1. PICK m \in net :
              a = IF m.tab = t /\ m.form = "awaits" THEN [m EXCEPT !.form = "open"] ELSE m
      BY <2>2
    <3>2. PICK n \in net :
              b = IF n.tab = t /\ n.form = "awaits" THEN [n EXCEPT !.form = "open"] ELSE n
      BY <2>2
    <3>3. m \in SaveRequest /\ n \in SaveRequest /\ Moved(a, m) /\ Moved(b, n)
      BY <3>1, <3>2, SaveFacts DEF Moved
    <3>4. m = n
      BY <3>3, MovedFacts DEF IdsInv
    <3> QED
      BY <3>1, <3>2, <3>4
  <2>3. CASE Save(t)
    <3>1. PICK id \in 1 .. MaxSaves :
              /\ \A m \in net : m.tab = t => m.id # id
              /\ net' = net \cup
                    {[tab |-> t, id |-> id, doc |-> tab[t].open, pc |-> "read",
                      ver |-> tab[t].ver, told |-> tab[t].told, read |-> NoDoc,
                      form |-> "awaits"]}
      BY <2>3 DEF Save
    <3> QED
      BY <3>1 DEF IdsInv
  <2> QED
    BY <1>1, <1>2, <2>1, <2>2, <2>3, PageNet
<1>3. ASSUME NEW m \in net, Serve(m)
      PROVE  IdsInv'
  <2>1. ASSUME NEW n, net' = (net \ {m}) \cup {n}, n.tab = m.tab, n.id = m.id
        PROVE  IdsInv'
    BY <2>1 DEF IdsInv
  <2>2. m \in SaveRequest
    BY SaveFacts
  <2>3. ASSUME NEW n, net' = (net \ {m}) \cup {n},
               n = [m EXCEPT !.pc = "check", !.read = doc[m.doc]]
        PROVE  IdsInv'
    <3>1. n.tab = m.tab /\ n.id = m.id
      BY <2>2, <2>3 DEF SaveRequest
    <3> QED
      BY <2>1, <2>3, <3>1
  <2>4. ASSUME NEW n, net' = (net \ {m}) \cup {n}, n = [m EXCEPT !.pc = "write"]
        PROVE  IdsInv'
    BY <2>1, <2>2, <2>4 DEF SaveRequest
  <2> QED
    BY <1>1, <1>3, <2>3, <2>4, ServeNet
<1>4. CASE net' = net
  BY <1>1, <1>4
<1>5. \/ \E r \in releases : ReleaseArrives(r) \/ ReleaseLost(r)
      \/ \E d \in Docs : CleanRead(d) \/ CleanDelete(d) \/ DeleteDoc(d)
      \/ Tick
      \/ UNCHANGED vars
      => net' = net
  BY DEF ReleaseArrives, ReleaseLost, CleanRead, CleanDelete, DeleteDoc, Tick, vars
<1> QED
  BY <1>2, <1>3, <1>4, <1>5 DEF Next

(* A save begins to write only when no other user has the lock.             *)
LEMMA WritesWithoutOthers ==
    ASSUME TypeInv, IdsInv, [Next]_vars, NEW m \in net, m.pc = "check",
           [m EXCEPT !.pc = "write"] \in net'
    PROVE  ~HeldByOther(UserOf[m.tab], m.doc)
<1> DEFINE n == [m EXCEPT !.pc = "write"]
<1>1. /\ m \in SaveRequest /\ n.pc = "write"
      /\ n.tab = m.tab /\ n.id = m.id /\ n.doc = m.doc
  BY SaveFacts DEF SaveRequest
<1>2. n \in net'
  OBVIOUS
<1> HIDE DEF n
<1>3. ASSUME NEW o \in net, o.tab = n.tab, o.id = n.id, o.pc = "write"
      PROVE  FALSE
  BY <1>1, <1>3 DEF IdsInv
<1>4. n \notin net
  BY <1>1, <1>3
<1>5. ASSUME NEW t \in Tabs, Page(t) \/ AcquireStep(t)
      PROVE  FALSE
  <2>1. CASE Save(t)
    <3>1. PICK o : net' = net \cup {o} /\ o.pc = "read"
      BY <2>1 DEF Save
    <3> QED
      BY <1>1, <1>2, <1>4, <3>1
  <2>2. CASE net' = Orphaned(t)
    <3>1. PICK o \in net : n = IF o.tab = t THEN [o EXCEPT !.form = "gone"] ELSE o
      BY <1>2, <2>2 DEF Orphaned
    <3>2. Moved(n, o) /\ o \in SaveRequest
      BY <3>1, SaveFacts DEF Moved
    <3>3. o.tab = n.tab /\ o.id = n.id /\ o.pc = "write"
      BY <1>1, <3>2, MovedFacts
    <3> QED
      BY <1>3, <3>3
  <2>3. CASE net' = {IF o.tab = t /\ o.form = "awaits" THEN [o EXCEPT !.form = "open"]
                     ELSE o : o \in net}
    <3>1. PICK o \in net :
              n = IF o.tab = t /\ o.form = "awaits" THEN [o EXCEPT !.form = "open"] ELSE o
      BY <1>2, <2>3
    <3>2. Moved(n, o) /\ o \in SaveRequest
      BY <3>1, SaveFacts DEF Moved
    <3>3. o.tab = n.tab /\ o.id = n.id /\ o.pc = "write"
      BY <1>1, <3>2, MovedFacts
    <3> QED
      BY <1>3, <3>3
  <2> QED
    BY <1>2, <1>4, <1>5, <2>1, <2>2, <2>3, PageNet
<1>6. ASSUME NEW o \in net, Serve(o)
      PROVE  ~HeldByOther(UserOf[m.tab], m.doc)
  <2>1. o \in SaveRequest
    BY SaveFacts
  <2>2. CASE net' = net \ {o}
    BY <1>2, <1>4, <2>2
  <2>3. ASSUME NEW c, net' = (net \ {o}) \cup {c},
               c = [o EXCEPT !.pc = "check", !.read = doc[o.doc]]
        PROVE  FALSE
    <3>1. c.pc = "check"
      BY <2>1, <2>3 DEF SaveRequest
    <3> QED
      BY <1>1, <1>2, <1>4, <2>3, <3>1
  <2>4. ASSUME NEW c, net' = (net \ {o}) \cup {c}, c = [o EXCEPT !.pc = "write"],
               ~HeldByOther(UserOf[o.tab], o.doc)
        PROVE  ~HeldByOther(UserOf[m.tab], m.doc)
    <3>1. c.tab = o.tab /\ c.doc = o.doc
      BY <2>1, <2>4 DEF SaveRequest
    <3>2. n = c
      BY <1>2, <1>4, <2>4
    <3> QED
      BY <1>1, <2>4, <3>1, <3>2
  <2> QED
    BY <1>6, <2>2, <2>3, <2>4, ServeNet
<1>7. net' # net
  BY <1>2, <1>4
<1>8. \/ \E r \in releases : ReleaseArrives(r) \/ ReleaseLost(r)
      \/ \E d \in Docs : CleanRead(d) \/ CleanDelete(d) \/ DeleteDoc(d)
      \/ Tick
      \/ UNCHANGED vars
      => net' = net
  BY DEF ReleaseArrives, ReleaseLost, CleanRead, CleanDelete, DeleteDoc, Tick, vars
<1> QED
  BY <1>5, <1>6, <1>7, <1>8 DEF Next

(* LockKeepsOthersOut: while the word of the server that a page has the     *)
(* lock is young, no save of another user passes the test of the lock.      *)
THEOREM LockKeepsOthersOutCorrect == Spec => LockKeepsOthersOut
<1>1. TypeInv /\ LeaseInv /\ IdsInv /\ [Next]_vars =>
          [\A m \in net, t \in Tabs :
              /\ m.pc = "check"
              /\ [m EXCEPT !.pc = "write"] \in net'
              /\ tab[t].held = m.doc
              /\ Leased(t)
              => UserOf[t] = UserOf[m.tab]]_vars
  <2> SUFFICES ASSUME TypeInv, LeaseInv, IdsInv, [Next]_vars,
                      NEW m \in net, NEW t \in Tabs, m.pc = "check",
                      [m EXCEPT !.pc = "write"] \in net',
                      tab[t].held = m.doc, Leased(t)
               PROVE  UserOf[t] = UserOf[m.tab]
    OBVIOUS
  <2>1. ~HeldByOther(UserOf[m.tab], m.doc)
    BY WritesWithoutOthers
  <2>2. /\ tab[t].lease \in 0 .. TTL /\ tab[t].lease + MaxLate < TTL
        /\ BackedIn(lock, UserOf[t], m.doc, tab[t].lease)
    BY PageFacts DEF LeaseInv, Leased
  <2>3. HasLock(m.doc) /\ lock[m.doc].user = UserOf[t] /\ Fresh(m.doc)
    BY <2>2, BackedFacts DEF Fresh
  <2> QED
    BY <2>1, <2>2, <2>3 DEF HeldByOther, Owns
<1>2. Init => IdsInv
  BY DEF Init, IdsInv
<1>3. Spec => []IdsInv
  BY <1>2, IdsInvStep, TypeInvInit, TypeInvStep, PTL DEF Spec
<1> QED
  BY <1>1, <1>3, LeaseInvCorrect, PTL DEF Spec, LockKeepsOthersOut


-----------------------------------------------------------------------------
(* Versions.                                                                *)

(* Whoever knows a version of an order knows one that it had: not a later   *)
(* one than the row's, and with the row's content when it is the row's.     *)
KnownIn(rows, d, v, c) ==
    d \notin Offers /\ rows[d] # NoDoc =>
        /\ v <= rows[d].version
        /\ v = rows[d].version => c = rows[d].content

SaveKnows(m) ==
    /\ KnownIn(doc, m.doc, m.ver, m.told)
    /\ m.read # NoDoc => KnownIn(doc, m.doc, m.read.version, m.read.content)
    /\ m.form # "gone" => tab[m.tab].open = m.doc

FormKnows(t) ==
    tab[t].open # None => KnownIn(doc, tab[t].open, tab[t].ver, tab[t].told)

KnowInv ==
    /\ \A t \in Tabs : FormKnows(t)
    /\ \A m \in net : SaveKnows(m)

\* The form of page t stays as it is.
FormKept(t) ==
    tab'[t].open = tab[t].open /\ tab'[t].ver = tab[t].ver /\ tab'[t].told = tab[t].told

(* Rows that stay or are deleted.                                           *)
LEMMA KnowKept ==
    ASSUME TypeInv, KnowInv, \A d \in Docs : doc'[d] \in {doc[d], NoDoc},
           \A t \in Tabs : FormKept(t) \/ FormKnows(t)',
           \A n \in net' : SaveKnows(n)' \/ \E m \in net :
               Moved(n, m) /\ (FormKept(m.tab) \/ n.form = "gone")
    PROVE  KnowInv'
<1>1. ASSUME NEW t \in Tabs
      PROVE  FormKnows(t)'
  <2>1. tab[t].open \in Docs \cup {None}
    BY PageFacts
  <2> QED
    BY <2>1 DEF FormKept, FormKnows, KnownIn, KnowInv
<1>2. ASSUME NEW n \in net'
      PROVE  SaveKnows(n)'
  <2>1. CASE SaveKnows(n)'
    BY <2>1
  <2>2. CASE \E m \in net : Moved(n, m) /\ (FormKept(m.tab) \/ n.form = "gone")
    <3>1. PICK m \in net : Moved(n, m) /\ (FormKept(m.tab) \/ n.form = "gone")
      BY <2>2
    <3>2. m \in SaveRequest /\ m.doc \in Docs
      BY SaveFacts
    <3>3. /\ n.tab = m.tab /\ n.doc = m.doc /\ n.ver = m.ver /\ n.told = m.told
          /\ n.read = m.read /\ (n.form # "gone" => m.form # "gone")
      BY <3>1, <3>2, MovedFacts
    <3>4. SaveKnows(m)
      BY DEF KnowInv
    <3>5. n.form # "gone" => tab'[n.tab].open = n.doc
      BY <3>1, <3>3, <3>4 DEF SaveKnows, FormKept
    <3>6. KnownIn(doc', n.doc, n.ver, n.told)
      BY <3>2, <3>3, <3>4 DEF SaveKnows, KnownIn
    <3>7. n.read # NoDoc => KnownIn(doc', n.doc, n.read.version, n.read.content)
      BY <3>2, <3>3, <3>4 DEF SaveKnows, KnownIn
    <3> QED
      BY <3>5, <3>6, <3>7 DEF SaveKnows
  <2> QED
    BY <1>2, <2>1, <2>2
<1> QED
  BY <1>1, <1>2 DEF KnowInv

\* A page takes over a state with the form that it had.
LEMMA TurnKeepsForms ==
    ASSUME TypeInv, NEW t \in Tabs, NEW page \in Tab, tab' = [tab EXCEPT ![t] = page],
           page.open = tab[t].open, page.ver = tab[t].ver, page.told = tab[t].told
    PROVE  \A s \in Tabs : FormKept(s)
  BY DEF TypeInv, TypeOK, FormKept

\* Asking for a lock changes nothing that is known of a document.
LEMMA AcquireKeepsKnow ==
    ASSUME TypeInv, KnowInv, NEW t \in Tabs, AcquireStep(t)
    PROVE  KnowInv'
<1>1. doc' = doc /\ net' = net /\ tab \in [Tabs -> Tab]
  BY AcquireOutcome, PageFacts
<1>2. \A s \in Tabs : FormKept(s)
  <2>1. CASE Granted(t)
    BY <2>1 DEF Granted, FormKept
  <2>2. CASE Hear(t)
    <3>1. CASE tab' = tab \/ \E stage : tab' = [tab EXCEPT ![t].stage = stage]
      BY <1>1, <3>1 DEF Tab, FormKept
    <3>2. CASE tab' = [tab EXCEPT ![t].stage = "loading", ![t].held = acq[t].doc,
                                  ![t].timer = TRUE, ![t].lease = acq[t].lease]
      BY <1>1, <3>2 DEF Tab, FormKept
    <3> QED
      BY <2>2, <3>1, <3>2, HearSteps
  <2>3. ASSUME NEW pc, NEW clock, GoOn(t, pc, clock)
        PROVE  \A s \in Tabs : FormKept(s)
    BY <2>3 DEF GoOn, FormKept
  <2> QED
    BY <2>1, <2>2, <2>3, AcquireOutcome
<1> QED
  BY <1>1, <1>2, KnowKept, SaveFacts DEF Moved

\* Loading, saving and closing keep what the versions of forms and requests say.
LEMMA PageKeepsKnow ==
    ASSUME TypeInv, KnowInv, NEW t \in Tabs, Page(t)
    PROVE  KnowInv'
<1>1. /\ tab \in [Tabs -> Tab] /\ tab[t] \in Tab
      /\ tab[t].want \in Docs \cup {None} /\ tab[t].open \in Docs \cup {None}
  BY PageFacts
<1>2. ASSUME doc' = doc, net' = net, \A s \in Tabs : FormKept(s)
      PROVE  KnowInv'
  BY <1>2, KnowKept, SaveFacts DEF Moved
<1>3. ASSUME NEW d \in Docs, Opening(t, tab[t], d), doc' = doc, net' = net
      PROVE  KnowInv'
  BY <1>1, <1>2, <1>3, OpeningSteps, TurnKeepsForms DEF Turns
<1>4. CASE (\E d \in Docs : Open(t, d)) \/ Retry(t)
  <2>1. tab[t].stage = "refused" => tab[t].want \in Docs
    BY <1>1 DEF TypeInv
  <2> QED
    BY <1>3, <1>4, <2>1 DEF Open, Retry
<1>5. CASE Back(t) \/ AskFails(t) \/ LoadFails(t)
  <2>1. \A s \in Tabs : FormKept(s)
    BY <1>1, <1>5 DEF Back, AskFails, LoadFails, Tab, FormKept
  <2> QED
    BY <1>2, <1>5, <2>1 DEF Back, AskFails, LoadFails
<1>6. CASE ForceLock(t)
  <2> DEFINE lost == LeasesLost(tab[t].want, Users \ {UserOf[t]})
  <2>1. /\ lost \in [Tabs -> Tab]
        /\ \A s \in Tabs : /\ lost[s].open = tab[s].open /\ lost[s].ver = tab[s].ver
                           /\ lost[s].told = tab[s].told
    BY LostType
  <2>2. \/ \E late \in Lateness :
              tab' = [lost EXCEPT ![t].stage = "loading", ![t].held = tab[t].want,
                                  ![t].timer = TRUE, ![t].lease = Lease(late)]
        \/ tab' = [lost EXCEPT ![t].stage = "rest", ![t].want = None]
    BY <1>6 DEF ForceLock
  <2> HIDE DEF lost
  <2>3. \A s \in Tabs : FormKept(s)
    <3> SUFFICES ASSUME NEW s \in Tabs
                 PROVE  FormKept(s)
      OBVIOUS
    <3>1. ASSUME NEW late \in Lateness,
                 tab' = [lost EXCEPT ![t].stage = "loading", ![t].held = tab[t].want,
                                     ![t].timer = TRUE, ![t].lease = Lease(late)]
          PROVE  FormKept(s)
      <4>1. /\ tab'[s].open = lost[s].open /\ tab'[s].ver = lost[s].ver
            /\ tab'[s].told = lost[s].told
        BY <2>1, <3>1 DEF Tab
      <4> QED
        BY <2>1, <4>1 DEF FormKept
    <3>2. CASE tab' = [lost EXCEPT ![t].stage = "rest", ![t].want = None]
      <4>1. /\ tab'[s].open = lost[s].open /\ tab'[s].ver = lost[s].ver
            /\ tab'[s].told = lost[s].told
        BY <2>1, <3>2 DEF Tab
      <4> QED
        BY <2>1, <4>1 DEF FormKept
    <3> QED
      BY <2>2, <3>1, <3>2
  <2> QED
    BY <1>2, <1>6, <2>3 DEF ForceLock
<1>7. CASE Heartbeat(t)
  <2>1. \A s \in Tabs : FormKept(s)
    <3>1. CASE HeartbeatOk(t)
      BY <1>1, <3>1 DEF HeartbeatOk, Tab, FormKept
    <3>2. CASE HeartbeatFails(t)
      BY <1>1, <3>2 DEF HeartbeatFails, Tab, FormKept
    <3>3. CASE HeartbeatNoDocument(t)
      BY <1>1, <3>3 DEF HeartbeatNoDocument, Tab, FormKept
    <3> QED
      BY <1>7, <3>1, <3>2, <3>3 DEF Heartbeat
  <2> QED
    BY <1>2, <1>7, <2>1 DEF Heartbeat
<1>8. ASSUME doc' = doc, net' = Orphaned(t), NEW page, tab' = [tab EXCEPT ![t] = page],
             FormKnows(t)'
      PROVE  KnowInv'
  <2>1. \A s \in Tabs : FormKept(s) \/ FormKnows(s)'
    BY <1>1, <1>8 DEF FormKept
  <2>2. ASSUME NEW n \in net'
        PROVE  \E m \in net : Moved(n, m) /\ (FormKept(m.tab) \/ n.form = "gone")
    <3>1. PICK m \in net : n = IF m.tab = t THEN [m EXCEPT !.form = "gone"] ELSE m
      BY <1>8, <2>2 DEF Orphaned
    <3>2. m \in SaveRequest /\ m.tab \in Tabs
      BY SaveFacts
    <3>3. CASE m.tab = t
      BY <3>1, <3>2, <3>3 DEF Moved, SaveRequest
    <3>4. CASE m.tab # t
      BY <1>1, <1>8, <3>1, <3>2, <3>4 DEF Moved, FormKept
    <3> QED
      BY <3>3, <3>4
  <2> QED
    BY <1>8, <2>1, <2>2, KnowKept
<1>9. CASE Load(t)
  <2> DEFINE d == tab[t].want
  <2>1. doc' = doc /\ net' = Orphaned(t) /\ \E page : tab' = [tab EXCEPT ![t] = page]
    BY <1>9 DEF Load
  <2>2. d \in Docs
    BY <1>1, <1>9 DEF Load, TypeInv
  <2>3. tab'[t].open \in {d, None}
        /\ (d \notin Offers /\ tab'[t].open # None =>
               tab'[t].ver = doc[d].version /\ tab'[t].told = doc[d].content)
    <3>1. CASE (d \in Offers /\ tab[t].copy[d] # 0) \/ Exists(d)
      BY <1>1, <1>9, <2>2, <3>1 DEF Load, Tab
    <3>2. CASE ~((d \in Offers /\ tab[t].copy[d] # 0) \/ Exists(d))
      BY <1>1, <1>9, <2>2, <3>2 DEF Load, Tab
    <3> QED
      BY <3>1, <3>2
  <2>4. doc[d] # NoDoc => doc[d].version \in Nat
    BY <2>2 DEF TypeInv, TypeOK, DocRow
  <2>5. FormKnows(t)'
    BY <2>1, <2>3, <2>4 DEF FormKnows, KnownIn
  <2> QED
    BY <1>8, <2>1, <2>5
<1>10. CASE Close(t) \/ Unload(t)
  <2>1. doc' = doc /\ net' = Orphaned(t) /\ \E page : tab' = [tab EXCEPT ![t] = page]
    BY <1>10 DEF Close, Unload
  <2>2. tab'[t].open = None
    BY <1>1, <1>10 DEF Close, Unload, NewPage
  <2> QED
    BY <1>8, <2>1, <2>2 DEF FormKnows
<1>11. CASE Save(t)
  <2>1. PICK id \in 1 .. MaxSaves :
            net' = net \cup
                    {[tab |-> t, id |-> id, doc |-> tab[t].open, pc |-> "read",
                      ver |-> tab[t].ver, told |-> tab[t].told, read |-> NoDoc,
                      form |-> "awaits"]}
    BY <1>11 DEF Save
  <2>2. doc' = doc /\ tab[t].open # None /\ tab' = [tab EXCEPT ![t].stage = "saving"]
    BY <1>11 DEF Save
  <2>3. \A s \in Tabs : FormKept(s)
    BY <1>1, <2>2 DEF Tab, FormKept
  <2>4. KnownIn(doc, tab[t].open, tab[t].ver, tab[t].told)
    BY <2>2 DEF KnowInv, FormKnows
  <2>5. ASSUME NEW n \in net'
        PROVE  SaveKnows(n)' \/ \E m \in net : Moved(n, m) /\ FormKept(m.tab)
    <3>1. CASE n \in net
      BY <2>3, <3>1, SaveFacts DEF Moved
    <3>2. CASE /\ n.doc = tab[t].open /\ n.ver = tab[t].ver /\ n.told = tab[t].told
               /\ n.read = NoDoc /\ n.tab = t
      BY <2>2, <2>3, <2>4, <3>2 DEF SaveKnows, FormKept
    <3> QED
      BY <2>1, <2>5, <3>1, <3>2
  <2> QED
    BY <2>2, <2>3, <2>5, KnowKept
<1>12. CASE SaveGivesUp(t)
  <2>1. /\ doc' = doc /\ tab' = [tab EXCEPT ![t].stage = "rest"]
        /\ net' = {IF m.tab = t /\ m.form = "awaits" THEN [m EXCEPT !.form = "open"]
                   ELSE m : m \in net}
    BY <1>12 DEF SaveGivesUp
  <2>2. \A s \in Tabs : FormKept(s)
    BY <1>1, <2>1 DEF Tab, FormKept
  <2>3. \A n \in net' : \E m \in net : Moved(n, m) /\ FormKept(m.tab)
    BY <2>1, <2>2, SaveFacts DEF Moved
  <2> QED
    BY <2>1, <2>2, <2>3, KnowKept
<1> QED
  BY <1>4, <1>5, <1>6, <1>7, <1>9, <1>10, <1>11, <1>12 DEF Page


\* A read or a commit of a save keeps what the other versions in hand say.
LEMMA ServeKeepsKnow ==
    ASSUME TypeInv, KnowInv, NEW m \in net, Serve(m)
    PROVE  KnowInv'
<1> DEFINE t == m.tab
           d == m.doc
<1>1. /\ m \in SaveRequest /\ t \in Tabs /\ d \in Docs
      /\ tab \in [Tabs -> Tab] /\ tab[t] \in Tab /\ doc \in [Docs -> DocRow \cup {NoDoc}]
      /\ m.read # NoDoc => m.read \in DocRow
      /\ SaveKnows(m)
  BY SaveFacts, PageFacts DEF TypeInv, TypeOK, KnowInv
<1>2. m.pc # "read" /\ d \notin Offers => m.read # NoDoc
  BY DEF TypeInv
<1>3. ASSUME doc' = doc, net' \subseteq net, \A s \in Tabs : FormKept(s) \/ FormKnows(s)',
             \A s \in Tabs : tab'[s].open = tab[s].open
      PROVE  KnowInv'
  <2>1. \A n \in net' : SaveKnows(n)'
    BY <1>3, SaveFacts DEF KnowInv, SaveKnows
  <2> QED
    BY <1>3, <2>1, KnowKept
<1>4. CASE doc' = doc /\ net' \subseteq net /\ Answered(m, tab[t])
  <2>1. \A s \in Tabs : FormKept(s)
    BY <1>1, <1>4 DEF Answered, Tab, FormKept
  <2> QED
    BY <1>3, <1>4, <2>1 DEF FormKept
<1>5. ASSUME doc' = doc, net' \subseteq net, m.read # NoDoc,
             Answered(m, [tab[t] EXCEPT !.ver = m.read.version, !.told = m.read.content])
      PROVE  KnowInv'
  <2>1. \/ tab' = tab
        \/ /\ m.form = "awaits"
           /\ tab' = [tab EXCEPT ![t] = [tab[t] EXCEPT !.ver = m.read.version,
                                                       !.told = m.read.content,
                                                       !.stage = "rest"]]
    BY <1>1, <1>5 DEF Answered, Tab
  <2>2. CASE tab' = tab
    BY <1>3, <1>5, <2>2 DEF FormKept
  <2>3. CASE /\ m.form = "awaits"
             /\ tab' = [tab EXCEPT ![t] = [tab[t] EXCEPT !.ver = m.read.version,
                                                         !.told = m.read.content,
                                                         !.stage = "rest"]]
    <3>1. \A s \in Tabs : s # t => FormKept(s)
      BY <1>1, <2>3 DEF FormKept
    <3>2. tab'[t].open = tab[t].open /\ tab'[t].ver = m.read.version /\ tab'[t].told = m.read.content
      BY <1>1, <2>3 DEF Tab
    <3>3. FormKnows(t)'
      BY <1>1, <1>5, <2>3, <3>2 DEF FormKnows, SaveKnows
    <3> QED
      BY <1>3, <1>5, <3>1, <3>2, <3>3 DEF FormKept
  <2> QED
    BY <2>1, <2>2, <2>3
<1>6. ASSUME NEW n, doc' = doc, tab' = tab, net' = (net \ {m}) \cup {n},
             n.doc = d, n.ver = m.ver, n.told = m.told, n.tab = t, n.form = m.form,
             n.read \in {m.read, doc[d]}
      PROVE  KnowInv'
  <2>1. doc[d] # NoDoc => KnownIn(doc, d, doc[d].version, doc[d].content)
    BY <1>1 DEF KnownIn, DocRow
  <2>2. SaveKnows(n)'
    BY <1>1, <1>6, <2>1 DEF SaveKnows
  <2>3. \A s \in Tabs : FormKept(s)
    BY <1>6 DEF FormKept
  <2> QED
    BY <1>6, <2>2, <2>3, KnowKept, SaveFacts DEF Moved
<1>7. CASE SaveRead(m)
  <2>1. doc' = doc
    BY <1>7 DEF SaveRead
  <2>2. CASE Answered(m, tab[t])
    BY <1>4, <2>1, <2>2 DEF Answered
  <2>3. CASE tab' = tab /\ net' = (net \ {m}) \cup {[m EXCEPT !.pc = "check", !.read = doc[d]]}
    <3> DEFINE n == [m EXCEPT !.pc = "check", !.read = doc[d]]
    <3>1. /\ n.doc = d /\ n.ver = m.ver /\ n.told = m.told /\ n.tab = t /\ n.form = m.form
          /\ n.read = doc[d]
      BY <1>1 DEF SaveRequest
    <3>2. net' = (net \ {m}) \cup {n}
      BY <2>3
    <3> HIDE DEF n
    <3> QED
      BY <1>6, <2>1, <2>3, <3>1, <3>2
  <2> QED
    BY <1>7, <2>2, <2>3 DEF SaveRead
<1>8. CASE SaveCheck(m)
  <2>1. doc' = doc /\ m.pc = "check"
    BY <1>8 DEF SaveCheck
  <2>2. CASE Answered(m, tab[t])
    BY <1>4, <2>1, <2>2 DEF Answered
  <2>3. CASE /\ BaseChanged(m)
             /\ Answered(m, [tab[t] EXCEPT !.ver = m.read.version, !.told = m.read.content])
    BY <1>2, <1>5, <2>1, <2>3 DEF Answered, BaseChanged
  <2>4. CASE tab' = tab /\ net' = (net \ {m}) \cup {[m EXCEPT !.pc = "write"]}
    <3> DEFINE n == [m EXCEPT !.pc = "write"]
    <3>1. /\ n.doc = d /\ n.ver = m.ver /\ n.told = m.told /\ n.tab = t /\ n.form = m.form
          /\ n.read = m.read
      BY <1>1 DEF SaveRequest
    <3>2. net' = (net \ {m}) \cup {n}
      BY <2>4
    <3> HIDE DEF n
    <3> QED
      BY <1>6, <2>1, <2>4, <3>1, <3>2
  <2> QED
    BY <1>8, <2>2, <2>3, <2>4 DEF SaveCheck
<1>9. CASE Commit(m)
  <2> DEFINE row == [version |-> IF Exists(d) THEN doc[d].version + 1 ELSE 1,
                     content |-> writes + 1]
  <2>1. /\ m.pc = "write" /\ Fits(m) /\ net' = net \ {m}
        /\ doc' = [doc EXCEPT ![d] = row]
    BY <1>9 DEF Commit
  <2>2. ASSUME d \in Offers
        PROVE  KnowInv'
    <3>1. \A s \in Tabs : FormKept(s)
      BY <1>1, <1>9, <2>2 DEF Commit, Tab, FormKept
    <3>2. \A e \in Docs \ {d} : doc'[e] = doc[e]
      BY <1>1, <2>1
    <3>3. ASSUME NEW e \in Docs, NEW v, NEW c, KnownIn(doc, e, v, c)
          PROVE  KnownIn(doc', e, v, c)
      BY <2>2, <3>2, <3>3 DEF KnownIn
    <3>4. \A s \in Tabs : FormKnows(s)'
      BY <3>1, <3>3, PageFacts DEF FormKept, FormKnows, KnowInv
    <3>5. \A n \in net' : SaveKnows(n)'
      BY <2>1, <3>1, <3>3, SaveFacts DEF FormKept, SaveKnows, KnowInv
    <3> QED
      BY <3>4, <3>5 DEF KnowInv
  <2>3. ASSUME d \notin Offers
        PROVE  KnowInv'
    <3>1. /\ doc[d] \in DocRow /\ doc[d].version = m.ver /\ m.read \in DocRow
          /\ doc'[d].version = doc[d].version + 1 /\ doc'[d].content = writes + 1
          /\ \A e \in Docs \ {d} : doc'[e] = doc[e]
      BY <1>1, <1>2, <2>1, <2>3 DEF Fits, Exists
    <3>2. /\ doc[d].version \in Nat /\ m.read.version \in Nat
          /\ m.read.version <= doc[d].version /\ m.read # NoDoc
      BY <1>1, <1>2, <2>1, <2>3, <3>1, NoDocAssumption DEF DocRow, SaveKnows, KnownIn
    <3>3. ASSUME NEW e \in Docs, NEW v \in Nat, NEW c, KnownIn(doc, e, v, c)
          PROVE  KnownIn(doc', e, v, c)
      <4>1. CASE e = d
        <5>1. e \notin Offers => v <= doc[d].version
          BY <3>1, <3>3, <4>1, NoDocAssumption DEF KnownIn
        <5> QED
          BY <3>1, <3>2, <4>1, <5>1 DEF KnownIn
      <4>2. CASE e # d
        BY <3>1, <3>3, <4>2 DEF KnownIn
      <4> QED
        BY <4>1, <4>2
    <3>4. \/ \A s \in Tabs : FormKept(s)
          \/ /\ \A s \in Tabs : s # t => FormKept(s)
             /\ m.form = "awaits"
             /\ tab'[t].open = tab[t].open /\ tab'[t].ver = m.read.version + 1
             /\ tab'[t].told = writes + 1
      <4>1. \/ tab' = tab
            \/ /\ m.form = "awaits"
               /\ tab' = [tab EXCEPT ![t] = [tab[t] EXCEPT !.ver = m.read.version + 1,
                                                           !.told = writes + 1,
                                                           !.stage = "rest"]]
        BY <1>1, <1>9, <2>3 DEF Commit, NextVersion, Tab
      <4>2. CASE tab' = tab
        BY <4>2 DEF FormKept
      <4>3. CASE /\ m.form = "awaits"
                 /\ tab' = [tab EXCEPT ![t] = [tab[t] EXCEPT !.ver = m.read.version + 1,
                                                             !.told = writes + 1,
                                                             !.stage = "rest"]]
        BY <1>1, <4>3 DEF FormKept, Tab
      <4> QED
        BY <4>1, <4>2, <4>3
    <3>5. ASSUME NEW s \in Tabs
          PROVE  FormKnows(s)' /\ tab'[s].open = tab[s].open
      <4>1. CASE FormKept(s)
        BY <3>3, <4>1, PageFacts DEF FormKept, FormKnows, KnowInv
      <4>2. CASE ~FormKept(s)
        <5>1. /\ s = t /\ tab[t].open = d /\ tab'[t].open = d
              /\ tab'[t].ver = m.read.version + 1 /\ tab'[t].told = writes + 1
          BY <1>1, <3>4, <4>2 DEF SaveKnows
        <5>2. KnownIn(doc', d, m.read.version + 1, writes + 1)
          BY <3>1, <3>2 DEF KnownIn
        <5> QED
          BY <5>1, <5>2 DEF FormKnows
      <4> QED
        BY <4>1, <4>2
    <3>6. ASSUME NEW n \in net'
          PROVE  SaveKnows(n)'
      <4>1. /\ n \in net /\ n.doc \in Docs /\ n.ver \in Nat /\ n.tab \in Tabs
            /\ n.read # NoDoc => n.read.version \in Nat
            /\ SaveKnows(n)
        BY <2>1, <3>6, SaveFacts DEF KnowInv, DocRow
      <4> QED
        BY <3>3, <3>5, <4>1 DEF SaveKnows
    <3> QED
      BY <3>5, <3>6 DEF KnowInv
  <2> QED
    BY <2>2, <2>3
<1>10. CASE Conflict(m)
  <2>1. doc' = doc /\ m.pc = "write"
    BY <1>10 DEF Conflict
  <2>2. CASE m.form = "awaits" /\ d \in Offers /\ Exists(d)
    <3> DEFINE page == [tab[t] EXCEPT !.copy = [tab[t].copy EXCEPT ![d] = 0]]
    <3>1. /\ page \in Tab /\ page.open = tab[t].open /\ page.ver = tab[t].ver
          /\ page.told = tab[t].told
      BY <1>1 DEF Tab
    <3>2. Opening(t, page, d) /\ net' \subseteq net
      BY <1>10, <2>2 DEF Conflict
    <3> HIDE DEF page
    <3>3. \A s \in Tabs : FormKept(s)
      BY <1>1, <3>1, <3>2, OpeningSteps, TurnKeepsForms DEF Turns
    <3> QED
      BY <1>3, <2>1, <3>2, <3>3 DEF FormKept
  <2>3. CASE ~(m.form = "awaits" /\ d \in Offers /\ Exists(d))
    <3>1. CASE d \in Offers
      <4>1. Answered(m, tab[t])
        BY <1>10, <2>3, <3>1 DEF Conflict
      <4> QED
        BY <1>4, <2>1, <4>1 DEF Answered
    <3>2. CASE d \notin Offers
      <4>1. Answered(m, [tab[t] EXCEPT !.ver = m.read.version, !.told = m.read.content])
        BY <1>10, <2>3, <3>2 DEF Conflict
      <4> QED
        BY <1>2, <1>5, <2>1, <3>2, <4>1 DEF Answered
    <3> QED
      BY <3>1, <3>2
  <2> QED
    BY <2>2, <2>3
<1>11. CASE SaveFails(m)
  BY <1>4, <1>11 DEF SaveFails, Answered
<1> QED
  BY <1>7, <1>8, <1>9, <1>10, <1>11 DEF Serve

\* Releases, cleanings, deletions and the clock keep what versions say.
LEMMA TableKeepsKnow ==
    ASSUME TypeInv, KnowInv,
           \/ \E r \in releases : ReleaseArrives(r) \/ ReleaseLost(r)
           \/ \E d \in Docs : CleanRead(d) \/ CleanDelete(d) \/ DeleteDoc(d)
           \/ Tick
    PROVE  KnowInv'
<1>1. tab \in [Tabs -> Tab] /\ doc \in [Docs -> DocRow \cup {NoDoc}]
  BY DEF TypeInv, TypeOK
<1>2. net' = net
  BY DEF ReleaseArrives, ReleaseLost, CleanRead, CleanDelete, DeleteDoc, Tick
<1>3. \A d \in Docs : doc'[d] \in {doc[d], NoDoc}
  <2>1. doc' = doc \/ \E d \in Docs : doc' = [doc EXCEPT ![d] = NoDoc]
    BY DEF ReleaseArrives, ReleaseLost, CleanRead, CleanDelete, DeleteDoc, Tick
  <2> QED
    BY <1>1, <2>1
<1>4. \A s \in Tabs : FormKept(s)
  <2>1. ASSUME NEW r \in releases, ReleaseArrives(r)
        PROVE  \A s \in Tabs : FormKept(s)
    <3>1. tab' = tab \/ tab' = LeasesLost(r.doc, {r.user})
      BY <2>1 DEF ReleaseArrives
    <3> QED
      BY <3>1, LostType DEF FormKept
  <2>2. CASE Tick
    BY <1>1, <2>2 DEF Tick, Tab, FormKept
  <2>3. CASE tab' = tab
    BY <2>3 DEF FormKept
  <2> QED
    BY <2>1, <2>2, <2>3 DEF ReleaseLost, CleanRead, CleanDelete, DeleteDoc
<1> QED
  BY <1>2, <1>3, <1>4, KnowKept, SaveFacts DEF Moved

\* Every step keeps KnowInv.
LEMMA KnowInvStep == TypeInv /\ KnowInv /\ [Next]_vars => KnowInv'
<1> SUFFICES ASSUME TypeInv, KnowInv, [Next]_vars
             PROVE  KnowInv'
  OBVIOUS
<1>1. CASE UNCHANGED vars
  BY <1>1 DEF vars, KnowInv, FormKnows, SaveKnows
<1> QED
  BY <1>1, AcquireKeepsKnow, PageKeepsKnow, ServeKeepsKnow, TableKeepsKnow DEF Next

\* A version in hand names the content it was read with, in every reachable state.
LEMMA KnowInvCorrect == Spec => [](TypeInv /\ KnowInv)
<1>1. Init => KnowInv
  BY DEF Init, KnowInv, FormKnows, NewPage
<1> QED
  BY <1>1, TypeInvInit, TypeInvStep, KnowInvStep, PTL DEF Spec

(* VersionNamesContent: the form of an order whose version is the row's was *)
(* told of the row's content.                                               *)
THEOREM VersionNamesContentCorrect == Spec => []VersionNamesContent
<1>1. KnowInv => VersionNamesContent
  BY DEF KnowInv, FormKnows, KnownIn, VersionNamesContent, Exists
<1> QED
  BY <1>1, KnowInvCorrect, PTL

(* OverwritesOnlyTold: a PATCH that passes the test of its version replaces *)
(* the content that its form was told of.                                   *)
THEOREM OverwritesOnlyToldCorrect == Spec => OverwritesOnlyTold
<1>1. TypeInv /\ KnowInv /\ [Next]_vars =>
          [\A m \in net \ net' :
              m.doc \notin Offers /\ doc'[m.doc] # doc[m.doc]
                  => m.told = doc[m.doc].content]_vars
  <2> SUFFICES ASSUME TypeInv, KnowInv, [Next]_vars, NEW m \in net \ net',
                      m.doc \notin Offers, doc'[m.doc] # doc[m.doc]
               PROVE  m.told = doc[m.doc].content
    OBVIOUS
  <2>1. \E n \in net : Commit(n)
    <3>1. ASSUME NEW t \in Tabs, Page(t) \/ AcquireStep(t)
          PROVE  doc' = doc
      BY <3>1, AcquireOutcome DEF Page, Open, Retry, Back, AskFails, ForceLock, Heartbeat,
                Load, LoadFails, Close, Unload, Save, SaveGivesUp
    <3>2. ASSUME NEW n \in net, Serve(n)
          PROVE  doc' = doc \/ Commit(n)
      BY <3>2 DEF Serve, SaveRead, SaveCheck, Conflict, SaveFails
    <3>3. \/ \E r \in releases : ReleaseArrives(r) \/ ReleaseLost(r)
          \/ \E d \in Docs : CleanRead(d) \/ CleanDelete(d) \/ DeleteDoc(d)
          \/ Tick
          \/ UNCHANGED vars
          => doc' = doc \/ net' = net
      BY DEF ReleaseArrives, ReleaseLost, CleanRead, CleanDelete, DeleteDoc, Tick, vars
    <3> QED
      BY <3>1, <3>2, <3>3 DEF Next
  <2>2. PICK n \in net : Commit(n)
    BY <2>1
  <2>3. n = m
    BY <2>2 DEF Commit
  <2>4. Exists(m.doc) /\ doc[m.doc].version = m.ver
    BY <2>2, <2>3 DEF Commit, Fits
  <2> QED
    BY <2>4 DEF KnowInv, SaveKnows, KnownIn, Exists
<1> QED
  BY <1>1, KnowInvCorrect, PTL DEF Spec, OverwritesOnlyTold


=============================================================================
