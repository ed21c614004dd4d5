---------------------------- MODULE DocEditing ----------------------------
(***************************************************************************)
(* Editing a document: the browser's lockService and its forms, the lock   *)
(* routes of the server, and the saves that test the lock and the version. *)
(*                                                                         *)
(* Every step of a handler is one SQL statement, committed by itself, so   *)
(* the handlers of two tabs interleave between any two of their            *)
(* statements.  A client that stops waiting (no network, a timeout, a page *)
(* that is closed) does not stop the handler: its request goes on.         *)
(*                                                                         *)
(* Two kinds of documents are saved in two ways.  The form of an order     *)
(* (order_studnie) keeps the version it was loaded with and PATCHes with   *)
(* it.  The form of an offer (offer, offer_studnie) is saved by a POST     *)
(* that carries no version: GET /:id, from which saveOffer takes it, does  *)
(* not return one.                                                         *)
(***************************************************************************)
EXTENDS DocLocks

CONSTANTS
    Admins,     \* users who may force a lock
    Tabs,       \* open pages of the application
    UserOf,     \* UserOf[t]: the user logged in
    Offers,     \* the documents that are offers, the others are orders
    Inspected,  \* documents whose lock somebody looks at
    None,       \* no document
    NoDoc,      \* no row with that id
    MaxLocking, \* bound: acquire and release requests in the server at a time
    MaxSaves,   \* bound: saves of one tab in the server at a time
    MaxWrites   \* bound: saves in a behaviour

ASSUME TabsAssumption ==
    /\ Admins \subseteq Users
    /\ UserOf \in [Tabs -> Users]
    /\ Offers \subseteq Docs
    /\ Inspected \subseteq Docs
    /\ None \notin Docs
    /\ MaxLocking \in Nat \ {0}
    /\ MaxSaves \in Nat \ {0}
    /\ MaxWrites \in Nat \ {0}

DocRow == [version : Nat \ {0}, content : Nat \ {0}]

ASSUME NoDocAssumption == NoDoc \notin DocRow

VARIABLES
    doc,       \* doc[d]: the row of the document
    writes,    \* number of the last content written
    acq,       \* acq[t]: where the acquire request of tab t is in its handler
    cleaning,  \* documents whose lock GET /locks found stale and will delete
    releases,  \* release requests on their way
    net,       \* saves in the server
    tab        \* tab[t]: the page, and what the history knows of it

vars == <<lock, doc, writes, acq, cleaning, releases, net, tab>>

-----------------------------------------------------------------------------
Stages == {"rest", "asking", "refused", "loading", "saving"}

(* open: the document in the form; held and timer: _held and _hbTimer;      *)
(* ver: version in the form; copy: contents of the offers kept in memory.   *)
(* History: lease is the age of the clock reading that the server's last    *)
(* word that the tab holds the lock was written with, and TTL from there    *)
(* on; told the content that ver was told with.                             *)
Tab == [stage : Stages, want : Docs \cup {None}, open : Docs \cup {None},
        held : Docs \cup {None}, timer : BOOLEAN, lease : 0 .. TTL,
        ver : Nat, told : Nat, copy : [Docs -> Nat]]

AcquirePCs == {"none", "owner", "take", "create", "read", "retake", "reread",
               "recreate", "expire", "final", "granted", "refused", "failed"}

\* Statements that carry a clock reading; answers that the page has yet to hear.
Clocked == {"take", "create", "retake", "recreate", "expire"}

Answers == {"granted", "refused", "failed"}

\* clock: the age of the reading that the handler's next statement carries.
Acquire == [pc : AcquirePCs, doc : Docs \cup {None}, clock : Lateness, lease : 0 .. TTL]

NoAcquire == [pc |-> "none", doc |-> None, clock |-> 0, lease |-> TTL]

(* form: does the tab await the answer, has it stopped waiting with the     *)
(* same form still open, or is that form gone.                              *)
SaveRequest == [tab : Tabs, id : 1 .. MaxSaves, doc : Docs,
                pc : {"read", "check", "write"}, ver : Nat, told : Nat,
                read : DocRow \cup {NoDoc}, form : {"awaits", "open", "gone"}]

TypeOK ==
    /\ LocksTypeOK
    /\ doc \in [Docs -> DocRow \cup {NoDoc}]
    /\ writes \in Nat \ {0}
    /\ acq \in [Tabs -> Acquire]
    /\ cleaning \in SUBSET Docs
    /\ releases \in SUBSET [user : Users, doc : Docs]
    /\ net \in SUBSET SaveRequest
    /\ tab \in [Tabs -> Tab]

NewPage == [stage |-> "rest", want |-> None, open |-> None, held |-> None,
            timer |-> FALSE, lease |-> TTL, ver |-> 0, told |-> 0,
            copy |-> [d \in Docs |-> 0]]

Init ==
    /\ lock = [d \in Docs |-> NoLock]
    /\ doc = [d \in Docs |-> [version |-> 1, content |-> 1]]
    /\ writes = 1
    /\ acq = [t \in Tabs |-> NoAcquire]
    /\ cleaning = {}
    /\ releases = {}
    /\ net = {}
    /\ tab = [t \in Tabs |-> NewPage]

-----------------------------------------------------------------------------
Exists(d) == doc[d] # NoDoc

\* Room for one more lock request.
Room == Cardinality({t \in Tabs : acq[t] # NoAcquire}) + Cardinality(releases) < MaxLocking

\* Faulty variant: a release is sent without asking whether a lock is held.
ReleasedAny(t) == releases \cup {[user |-> UserOf[t], doc |-> tab[t].held]}

Released(t) ==
    IF tab[t].held = None THEN releases
    ELSE releases \cup {[user |-> UserOf[t], doc |-> tab[t].held]}

\* The saves sent from the form that tab t gives up.
Orphaned(t) == {IF m.tab = t THEN [m EXCEPT !.form = "gone"] ELSE m : m \in net}

\* The tabs, and the grants they have yet to hear, after users have lost the row of d.
LeasesLost(d, users) ==
    [t \in Tabs |->
        IF tab[t].held = d /\ UserOf[t] \in users
        THEN [tab[t] EXCEPT !.lease = TTL]
        ELSE tab[t]]

GrantsLost(d, users) ==
    [t \in Tabs |->
        IF acq[t].doc = d /\ UserOf[t] \in users
        THEN [acq[t] EXCEPT !.lease = TTL]
        ELSE acq[t]]

(* tryOpen: the lock this page holds needs no request.                      *)
Opening(t, page, d) ==
    IF page.held = d
    THEN /\ tab' = [tab EXCEPT ![t] = [page EXCEPT !.stage = "loading", !.want = d]]
         /\ acq' = acq
    ELSE /\ acq[t] = NoAcquire
         /\ Room
         /\ tab' = [tab EXCEPT ![t] = [page EXCEPT !.stage = "asking", !.want = d]]
         /\ acq' = [acq EXCEPT ![t] = [NoAcquire EXCEPT !.pc = "owner", !.doc = d]]

Open(t, d) ==
    /\ tab[t].stage = "rest"
    /\ Opening(t, tab[t], d)
    /\ UNCHANGED <<lock, doc, writes, cleaning, releases, net>>

\* The dialog of a refused lock: try again, or go back.
Retry(t) ==
    /\ tab[t].stage = "refused"
    /\ Opening(t, tab[t], tab[t].want)
    /\ UNCHANGED <<lock, doc, writes, cleaning, releases, net>>

Back(t) ==
    /\ tab[t].stage = "refused"
    /\ tab' = [tab EXCEPT ![t].stage = "rest", ![t].want = None]
    /\ UNCHANGED <<lock, doc, writes, acq, cleaning, releases, net>>

\* Any error but a 423 opens the form without a lock.
AskFails(t) ==
    /\ tab[t].stage = "asking"
    /\ tab' = [tab EXCEPT ![t].stage = "loading"]
    /\ UNCHANGED <<lock, doc, writes, acq, cleaning, releases, net>>

-----------------------------------------------------------------------------
(* POST /acquire, statement by statement.                                   *)

At(t, pc) == acq[t].pc = pc

\* On to another statement, with a clock read `clock` units ago, or to an answer.
GoOn(t, pc, clock) ==
    /\ acq' = [acq EXCEPT ![t].pc = pc, ![t].clock = clock]
    /\ UNCHANGED <<lock, releases, tab>>

Answer(t, pc) == GoOn(t, pc, 0)

\* The age of a lease that a clock reading of this age begins.
Lease(age) == IF age < TTL THEN age ELSE TTL

Granted(t) ==
    /\ Hold(UserOf[t], acq[t].doc, acq[t].clock)
    /\ acq' = [acq EXCEPT ![t].pc = "granted", ![t].clock = 0,
                          ![t].lease = Lease(acq[t].clock)]
    /\ UNCHANGED <<releases, tab>>

AcquireOwner(t) ==
    /\ At(t, "owner")
    /\ IF Exists(acq[t].doc) THEN GoOn(t, "take", 0) ELSE Answer(t, "failed")

AcquireTake(t) ==
    /\ At(t, "take")
    /\ IF Takeable(UserOf[t], acq[t].doc, acq[t].clock)
       THEN Granted(t)
       ELSE GoOn(t, "create", acq[t].clock)

\* The row is created with the clock of the first statement.
AcquireCreate(t) ==
    /\ At(t, "create")
    /\ IF ~HasLock(acq[t].doc) THEN Granted(t) ELSE GoOn(t, "read", 0)

AcquireRead(t) ==
    LET d == acq[t].doc
    IN  /\ At(t, "read")
        /\ \/ ~HasLock(d) /\ GoOn(t, "retake", 0)
           \/ HeldByOther(UserOf[t], d) /\ Answer(t, "refused")
           \/ HasLock(d) /\ ~HeldByOther(UserOf[t], d) /\ GoOn(t, "expire", 0)

\* Faulty variant: the second UPDATE forgets the cutoff.
ExpireAny(t) ==
    /\ At(t, "expire")
    /\ IF HasLock(acq[t].doc) THEN Granted(t) ELSE GoOn(t, "final", 0)

AcquireExpire(t) ==
    /\ At(t, "expire")
    /\ IF Expired(acq[t].doc, acq[t].clock) THEN Granted(t) ELSE GoOn(t, "final", 0)

AcquireFinal(t) ==
    /\ At(t, "final")
    /\ Answer(t, IF HasLock(acq[t].doc) THEN "refused" ELSE "failed")

\* The row was gone at the read.
AcquireRetake(t) ==
    /\ At(t, "retake")
    /\ IF Expired(acq[t].doc, acq[t].clock) THEN Granted(t) ELSE GoOn(t, "reread", 0)

AcquireReread(t) ==
    /\ At(t, "reread")
    /\ IF HeldByOther(UserOf[t], acq[t].doc)
       THEN Answer(t, "refused")
       ELSE GoOn(t, "recreate", 0)

AcquireRecreate(t) ==
    /\ At(t, "recreate")
    /\ IF ~HasLock(acq[t].doc) THEN Granted(t) ELSE Answer(t, "failed")

(* The page hears the answer, if it still waits.  The lock taken before is  *)
(* released only now.  423 shows the dialog; 404 and 500 open the form.     *)
HearGrant(t) ==
    /\ At(t, "granted")
    /\ IF tab[t].stage = "asking"
       THEN /\ tab' = [tab EXCEPT ![t].stage = "loading", ![t].held = acq[t].doc,
                                  ![t].timer = TRUE, ![t].lease = acq[t].lease]
            /\ releases' = Released(t)
       ELSE UNCHANGED <<tab, releases>>

HearRefusal(t) ==
    /\ acq[t].pc \in {"refused", "failed"}
    /\ tab' = IF tab[t].stage = "asking"
              THEN [tab EXCEPT ![t].stage = IF At(t, "refused") THEN "refused" ELSE "loading"]
              ELSE tab
    /\ UNCHANGED releases

Hear(t) ==
    /\ HearGrant(t) \/ HearRefusal(t)
    /\ acq' = [acq EXCEPT ![t] = NoAcquire]
    /\ UNCHANGED lock

AcquireStep(t) ==
    /\ \/ AcquireOwner(t)
       \/ AcquireTake(t)
       \/ AcquireCreate(t)
       \/ AcquireRead(t)
       \/ AcquireExpire(t)
       \/ AcquireFinal(t)
       \/ AcquireRetake(t)
       \/ AcquireReread(t)
       \/ AcquireRecreate(t)
       \/ Hear(t)
    /\ UNCHANGED <<doc, writes, cleaning, net>>

-----------------------------------------------------------------------------
(* The other lock requests.                                                 *)

(* An admin takes the lock from the dialog, whoever has it.  The lock this  *)
(* page held before is forgotten, not released.  If the answer is lost the  *)
(* dialog is gone, and the page knows nothing of its lock.                  *)
ForceLock(t) ==
    LET d      == tab[t].want
        others == Users \ {UserOf[t]}
    IN  /\ tab[t].stage = "refused"
        /\ UserOf[t] \in Admins
        /\ acq' = GrantsLost(d, others)
        /\ \E late \in Lateness :
            /\ Hold(UserOf[t], d, late)
            /\ \/ tab' = [LeasesLost(d, others) EXCEPT
                            ![t].stage = "loading", ![t].held = d,
                            ![t].timer = TRUE, ![t].lease = Lease(late)]
               \/ tab' = [LeasesLost(d, others) EXCEPT ![t].stage = "rest", ![t].want = None]
        /\ UNCHANGED <<doc, writes, cleaning, releases, net>>

\* UPDATE ... WHERE the row is the user's own.
Beat(t, late) ==
    /\ Exists(tab[t].held)
    /\ Owns(UserOf[t], tab[t].held)
    /\ Hold(UserOf[t], tab[t].held, late)

HeartbeatOk(t) ==
    \E late \in Lateness : Beat(t, late) /\ tab' = [tab EXCEPT ![t].lease = Lease(late)]

\* Any failure ends the heartbeat for good; _held stays.
HeartbeatFails(t) ==
    /\ tab' = [tab EXCEPT ![t].timer = FALSE]
    /\ UNCHANGED lock \/ \E late \in Lateness : Beat(t, late)

\* 404 without a code: the document is gone.
HeartbeatNoDocument(t) ==
    /\ ~Exists(tab[t].held)
    /\ tab' = [tab EXCEPT ![t].held = None, ![t].timer = FALSE, ![t].lease = TTL]
    /\ UNCHANGED lock

Heartbeat(t) ==
    /\ tab[t].held # None
    /\ tab[t].timer
    /\ \/ HeartbeatOk(t)
       \/ HeartbeatFails(t)
       \/ HeartbeatNoDocument(t)
    /\ UNCHANGED <<doc, writes, acq, cleaning, releases, net>>

\* POST /release does nothing for a document that is gone.
ReleaseArrives(r) ==
    /\ releases' = releases \ {r}
    /\ IF Exists(r.doc)
       THEN /\ \E late \in Lateness : ReleaseRow(r.user, r.doc, late)
            /\ tab' = LeasesLost(r.doc, {r.user})
            /\ acq' = GrantsLost(r.doc, {r.user})
       ELSE UNCHANGED <<lock, tab, acq>>
    /\ UNCHANGED <<doc, writes, cleaning, net>>

ReleaseLost(r) ==
    /\ releases' = releases \ {r}
    /\ UNCHANGED <<lock, doc, writes, acq, cleaning, net, tab>>

\* GET /locks/:docType/:docId reads a row that is not fresh and then deletes it.
CleanRead(d) ==
    /\ d \in Inspected \ cleaning
    /\ HasLock(d) /\ ~Fresh(d)
    /\ cleaning' = cleaning \cup {d}
    /\ UNCHANGED <<lock, doc, writes, acq, releases, net, tab>>

\* Faulty variant: DELETE without the cutoff.
CleanAny(d) ==
    /\ d \in cleaning
    /\ cleaning' = cleaning \ {d}
    /\ Drop(d)
    /\ UNCHANGED <<doc, writes, acq, releases, net, tab>>

CleanDelete(d) ==
    /\ d \in cleaning
    /\ cleaning' = cleaning \ {d}
    /\ \E late \in Lateness : IF Expired(d, late) THEN Drop(d) ELSE UNCHANGED lock
    /\ UNCHANGED <<doc, writes, acq, releases, net, tab>>

\* A statement on its way takes effect before its clock is older than MaxLate.
Tick ==
    /\ \A t \in Tabs : acq[t].pc \in Clocked => acq[t].clock < MaxLate
    /\ LocksAge
    /\ acq' = [t \in Tabs |->
                  [acq[t] EXCEPT !.clock = IF acq[t].pc \in Clocked THEN @ + 1 ELSE @,
                                 !.lease = Lease(@ + 1)]]
    /\ tab' = [t \in Tabs |-> [tab[t] EXCEPT !.lease = Lease(@ + 1)]]
    /\ UNCHANGED <<doc, writes, cleaning, releases, net>>

-----------------------------------------------------------------------------
(* The form.                                                                *)

(* An offer that is in memory in full is not asked for again; an order, and *)
(* an offer known from the list only, is read from the server.              *)
Load(t) ==
    LET d      == tab[t].want
        cached == d \in Offers /\ tab[t].copy[d] # 0
        shown  == IF cached THEN tab[t].copy[d] ELSE doc[d].content
    IN  /\ tab[t].stage = "loading"
        /\ IF cached \/ Exists(d)
           THEN tab' = [tab EXCEPT
                    ![t].stage = "rest", ![t].want = None, ![t].open = d,
                    ![t].ver  = IF d \in Offers THEN 0 ELSE doc[d].version,
                    ![t].told = IF d \in Offers THEN 0 ELSE shown,
                    ![t].copy[d] = IF d \in Offers THEN shown ELSE 0]
           ELSE tab' = [tab EXCEPT ![t].stage = "rest", ![t].want = None, ![t].open = None]
        /\ net' = Orphaned(t)
        /\ UNCHANGED <<lock, doc, writes, acq, cleaning, releases>>

\* The document could not be fetched: the page stays as it was.
LoadFails(t) ==
    /\ tab[t].stage = "loading"
    /\ tab' = [tab EXCEPT ![t].stage = "rest", ![t].want = None]
    /\ UNCHANGED <<lock, doc, writes, acq, cleaning, releases, net>>

\* The user leaves the form: the lock is released.
Close(t) ==
    /\ tab[t].stage = "rest"
    /\ tab[t].open # None
    /\ tab[t].held = None \/ Room
    /\ tab' = [tab EXCEPT ![t] = [NewPage EXCEPT !.copy = tab[t].copy]]
    /\ releases' = Released(t)
    /\ net' = Orphaned(t)
    /\ UNCHANGED <<lock, doc, writes, acq, cleaning>>

\* The page is closed or reloaded: beforeunload sends the release.
Unload(t) ==
    /\ tab[t] # NewPage
    /\ tab[t].held = None \/ Room
    /\ tab' = [tab EXCEPT ![t] = NewPage]
    /\ releases' = Released(t)
    /\ net' = Orphaned(t)
    /\ UNCHANGED <<lock, doc, writes, acq, cleaning>>

\* saveOffer (POST without a version), patchSingleOrderStudnie (PATCH with it).
Save(t) ==
    LET d == tab[t].open
    IN  /\ tab[t].stage = "rest"
        /\ d # None
        /\ writes + Cardinality(net) < MaxWrites
        /\ tab' = [tab EXCEPT ![t].stage = "saving"]
        /\ \E id \in 1 .. MaxSaves :
              /\ \A m \in net : m.tab = t => m.id # id
              /\ net' = net \cup
                    {[tab |-> t, id |-> id, doc |-> d, pc |-> "read",
                      ver |-> tab[t].ver, told |-> tab[t].told,
                      read |-> NoDoc, form |-> "awaits"]}
        /\ UNCHANGED <<lock, doc, writes, acq, cleaning, releases>>

\* A timeout or a network error: the form stays open with what it has.
SaveGivesUp(t) ==
    /\ tab[t].stage = "saving"
    /\ tab' = [tab EXCEPT ![t].stage = "rest"]
    /\ net' = {IF m.tab = t /\ m.form = "awaits" THEN [m EXCEPT !.form = "open"] ELSE m : m \in net}
    /\ UNCHANGED <<lock, doc, writes, acq, cleaning, releases>>

-----------------------------------------------------------------------------
(* The handlers of PATCH /api/orders-studnie/:id and POST /api/offers-rury. *)

Answered(m, page) ==
    /\ net' = net \ {m}
    /\ tab' = IF m.form = "awaits" THEN [tab EXCEPT ![m.tab] = [page EXCEPT !.stage = "rest"]]
                                   ELSE tab

\* The row is read first.  An order that is gone is answered 404.
SaveRead(m) ==
    /\ m.pc = "read"
    /\ \/ /\ m.doc \in Offers \/ Exists(m.doc)
          /\ net' = (net \ {m}) \cup {[m EXCEPT !.pc = "check", !.read = doc[m.doc]]}
          /\ UNCHANGED tab
       \/ /\ m.doc \notin Offers
          /\ ~Exists(m.doc)
          /\ Answered(m, tab[m.tab])
    /\ UNCHANGED <<lock, doc, writes, acq, cleaning, releases>>

\* baseUpdatedAt of a PATCH is not the updatedAt of the row that was read.
BaseChanged(m) == m.doc \notin Offers /\ m.read.content # m.told

(* assertDocLockForWrite: no row, or a stale one, lets the save pass.  Then *)
(* an order that has changed since the form learnt of it is answered 409    *)
(* with the row: the form keeps its fields and takes the version            *)
(* (handleOrderConflict).                                                   *)
SaveCheck(m) ==
    /\ m.pc = "check"
    /\ \/ /\ HeldByOther(UserOf[m.tab], m.doc)
          /\ Answered(m, tab[m.tab])
       \/ /\ ~HeldByOther(UserOf[m.tab], m.doc)
          /\ BaseChanged(m)
          /\ Answered(m, [tab[m.tab] EXCEPT !.ver = m.read.version, !.told = m.read.content])
       \/ /\ ~HeldByOther(UserOf[m.tab], m.doc)
          /\ ~BaseChanged(m)
          /\ net' = (net \ {m}) \cup {[m EXCEPT !.pc = "write"]}
          /\ UNCHANGED tab
    /\ UNCHANGED <<lock, doc, writes, acq, cleaning, releases>>

\* Faulty variant: an UPDATE by id only.
FitsAny(m) == m.doc \in Docs /\ Exists(m.doc)

(* The WHERE of the UPDATE by id and version; an offer is created when the  *)
(* read found none, and updated by id alone when it found one.              *)
Fits(m) ==
    IF m.doc \in Offers
    THEN (m.read = NoDoc) = ~Exists(m.doc)
    ELSE Exists(m.doc) /\ doc[m.doc].version = m.ver

\* Faulty variant: the answer counts the write twice.
NextVersionTwice(m) == m.read.version + 2

NextVersion(m) == m.read.version + 1

Commit(m) ==
    LET d    == m.doc
        new  == writes + 1
        page == tab[m.tab]
        told == IF d \in Offers
                THEN [page EXCEPT !.copy[d] = new]
                ELSE [page EXCEPT !.ver = NextVersion(m), !.told = new]
    IN  /\ m.pc = "write"
        /\ Fits(m)
        /\ writes' = new
        /\ doc' = [doc EXCEPT ![d] =
                      [version |-> IF Exists(d) THEN doc[d].version + 1 ELSE 1,
                       content |-> new]]
        /\ net' = net \ {m}
        /\ tab' = [tab EXCEPT ![m.tab] =
                      IF m.form = "awaits" THEN [told EXCEPT !.stage = "rest"] ELSE page]
        /\ UNCHANGED <<lock, acq, cleaning, releases>>

(* 409.  The form of an order takes the version of the row that was read    *)
(* first; an offer is loaded again.                                         *)
Conflict(m) ==
    /\ m.pc = "write"
    /\ ~Fits(m)
    /\ IF m.form = "awaits" /\ m.doc \in Offers /\ Exists(m.doc)
       THEN /\ net' = net \ {m}
            /\ Opening(m.tab, [tab[m.tab] EXCEPT !.copy[m.doc] = 0], m.doc)
       ELSE /\ acq' = acq
            /\ Answered(m, IF m.doc \in Offers THEN tab[m.tab]
                           ELSE [tab[m.tab] EXCEPT !.ver = m.read.version,
                                                   !.told = m.read.content])
    /\ UNCHANGED <<lock, doc, writes, cleaning, releases>>

\* Lost on the way, or refused for a reason that has nothing to do with locks.
SaveFails(m) ==
    /\ Answered(m, tab[m.tab])
    /\ UNCHANGED <<lock, doc, writes, acq, cleaning, releases>>

\* DELETE does not look at the lock and leaves its row.
DeleteDoc(d) ==
    /\ Exists(d)
    /\ doc' = [doc EXCEPT ![d] = NoDoc]
    /\ UNCHANGED <<lock, writes, acq, cleaning, releases, net, tab>>

-----------------------------------------------------------------------------
Page(t) ==
    \/ \E d \in Docs : Open(t, d)
    \/ Retry(t)
    \/ Back(t)
    \/ AskFails(t)
    \/ ForceLock(t)
    \/ Heartbeat(t)
    \/ Load(t)
    \/ LoadFails(t)
    \/ Close(t)
    \/ Unload(t)
    \/ Save(t)
    \/ SaveGivesUp(t)

Serve(m) ==
    \/ SaveRead(m)
    \/ SaveCheck(m)
    \/ Commit(m)
    \/ Conflict(m)
    \/ SaveFails(m)

Next ==
    \/ \E t \in Tabs : Page(t) \/ AcquireStep(t)
    \/ \E r \in releases : ReleaseArrives(r) \/ ReleaseLost(r)
    \/ \E d \in Docs : CleanRead(d) \/ CleanDelete(d) \/ DeleteDoc(d)
    \/ \E m \in net : Serve(m)
    \/ Tick

Spec == Init /\ [][Next]_vars

(* Time passes, the server finishes an acquire that it began, a release     *)
(* arrives or is lost, and the user at the dialog tries again.              *)
Fairness ==
    /\ WF_vars(Tick)
    /\ \A r \in [user : Users, doc : Docs] :
          WF_vars(r \in releases /\ (ReleaseArrives(r) \/ ReleaseLost(r)))
    /\ \A t \in Tabs :
        /\ WF_vars(AcquireStep(t))
        /\ WF_vars(Retry(t))

FairSpec == Spec /\ Fairness

-----------------------------------------------------------------------------
(* Properties.                                                              *)

\* The server's word to t is so young that no statement can have expired its row.
Leased(t) == tab[t].lease + MaxLate < TTL

(* From the clock reading with which the server granted or renewed a page's *)
(* lock, for TTL less the time that a statement may be late, the row is its *)
(* user's and fresh, unless an admin forced it or that user released it.    *)
(* A late statement of the same user may set heartbeatAt back, by no more   *)
(* than it is late itself.                                                  *)
LeaseHeld ==
    \A t \in Tabs :
        Leased(t) =>
            /\ Owns(UserOf[t], tab[t].held)
            /\ lock[tab[t].held].age <= tab[t].lease + MaxLate

(* A version names one content of an order: the form whose version is the   *)
(* row's was told of the row's content, whatever answers were lost.         *)
VersionNamesContent ==
    \A t \in Tabs :
        LET d == tab[t].open
        IN  d # None /\ d \notin Offers /\ Exists(d) /\ tab[t].ver = doc[d].version
                => tab[t].told = doc[d].content

\* A PATCH replaces the very content that its form was last told of.
OverwritesOnlyTold ==
    [][\A m \in net \ net' :
          m.doc \notin Offers /\ doc'[m.doc] # doc[m.doc] => m.told = doc[m.doc].content]_vars

(* In that time no save of another user passes the test of the lock.         *)
LockKeepsOthersOut ==
    [][\A m \in net, t \in Tabs :
          /\ m.pc = "check"
          /\ [m EXCEPT !.pc = "write"] \in net'
          /\ tab[t].held = m.doc
          /\ Leased(t)
          => UserOf[t] = UserOf[m.tab]]_vars

(* Somebody who keeps asking gets in, once everybody else has left: no lock *)
(* outlives its holder.                                                     *)
Left(t) == tab[t].held = None /\ acq[t] = NoAcquire

OpensEventually ==
    \A t \in Tabs :
        (\A s \in Tabs \ {t} : <>[]Left(s)) => []<>(tab[t].stage \notin {"asking", "refused"})

=============================================================================
