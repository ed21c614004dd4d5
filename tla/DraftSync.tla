----------------------------- MODULE DraftSync -----------------------------
(***************************************************************************)
(* The draft of one document: the copies that the browsers of one user     *)
(* keep in localStorage, and the copy on the server that they share        *)
(* (draftAutosave.js and draftSync.js; draftService.ts).                   *)
(*                                                                         *)
(* A browser keeps beside its copy the version of the server's copy that   *)
(* it knows (its meta) and sends it as If-Match.  A handler takes one step *)
(* for each of its statements.  A browser that stops waiting for an answer *)
(* does not stop the handler.                                              *)
(*                                                                         *)
(* Contents are numbered as they are typed; 0 is no content.  A browser    *)
(* has one page open on the document at a time.  The form and the local    *)
(* copy are one thing here from the autosave on: what is lost of a form    *)
(* before the autosave (2 s) was in no copy.                               *)
(***************************************************************************)
EXTENDS Integers, FiniteSets

CONSTANTS
    Devices,       \* browsers of the user
    Habits,        \* what the user may do on each browser, one way for a behaviour
    RemovesOnSave, \* does saving the document delete the copy on the server
    None,
    MaxEdits,      \* bound: contents typed
    MaxOpens,      \* bound: times that the document is opened
    MaxVersion,    \* bound: versions of the copy on the server
    MaxBirths,     \* bound: times that the copy is created on the server
    MaxNet         \* bound: requests at a time, for a user to act

Deeds == {"edit", "flush", "leave", "restore", "discard", "dismiss", "save", "keep",
          "adopt", "close", "away"}

ASSUME BoundsAssumption ==
    /\ Habits \subseteq [Devices -> SUBSET Deeds]
    /\ RemovesOnSave \in BOOLEAN
    /\ {MaxEdits, MaxOpens, MaxVersion, MaxBirths, MaxNet} \subseteq Nat \ {0}

VARIABLES
    does,   \* does[d]: what the user does on d
    row,    \* the row of the table drafts
    births, \* rows created so far
    edits,  \* contents typed so far
    opens,  \* times the document was opened so far
    saved,  \* the content of the document itself
    page,   \* page[d]: the browser, its localStorage and the page open in it
    net     \* requests

vars == <<does, row, births, edits, opens, saved, page, net>>

-----------------------------------------------------------------------------
Contents == 0 .. MaxEdits

(* A copy on the server as it was read.  born tells a row from one that was *)
(* deleted before; browsers get the version only, the rest is history.      *)
Copy == [version : 1 .. MaxVersion, born : 0 .. MaxBirths, text : Contents]

Row == [version : 1 .. MaxVersion, born : 1 .. MaxBirths, text : Contents \ {0},
        fresh : BOOLEAN]

ASSUME NoneAssumption == None \notin Copy /\ None \notin Row

CopyOf(r) == [version |-> r.version, born |-> r.born, text |-> r.text]

(* local, how the page it is of was last left (exit) and meta are in        *)
(* localStorage; dropped: what the form held when a copy was discarded,     *)
(* which is not written again; queue and timer: what waits to be sent, and  *)
(* is a timer running that sends it; tried: the one attempt to settle a     *)
(* conflict without the user; modal: the question after a conflict and      *)
(* latched: it was asked already; offer: the question after opening.        *)
(* History: seen, what the form has held and what the user has decided      *)
(* about; shown, copies whose version was taken over on opening, before the *)
(* user has decided.                                                        *)
Page == [open : BOOLEAN, text : Contents, base : Contents, local : Contents,
         exit : {"none", "hidden", "pagehide"}, meta : Copy \cup {None},
         dropped : Contents, queue : Contents, timer : BOOLEAN,
         tried : BOOLEAN, latched : BOOLEAN,
         modal : [text : Contents, told : Copy] \cup {None},
         offer : [text : Contents, server : BOOLEAN] \cup {None},
         seen : SUBSET Contents, shown : SUBSET Contents]

(* push: a copy sent by itself; keep and adopt: the user chose the local or *)
(* the server's copy; heal and recover: reads after a conflict, on opening. *)
Uses == {"push", "keep", "adopt", "heal", "recover", "remove"}

Statuses == {"none", "ok", "conflict", "gone"}

Request == [dev : Devices, use : Uses, text : Contents, cond : Copy \cup {None},
            current : BOOLEAN, awaited : BOOLEAN,
            pc : {"start", "create", "reread", "purge", "done"}, tries : 0 .. 1,
            read : Row \cup {None}, status : Statuses, told : Copy \cup {None}]

TypeOK ==
    /\ does \in Habits
    /\ row \in Row \cup {None}
    /\ births \in 0 .. MaxBirths
    /\ edits \in Contents
    /\ opens \in 0 .. MaxOpens
    /\ saved \in Contents
    /\ page \in [Devices -> Page]
    /\ net \in SUBSET Request

NewPage == [open |-> FALSE, text |-> 0, base |-> 0, local |-> 0,
            exit |-> "none", meta |-> None, dropped |-> 0, queue |-> 0, timer |-> FALSE,
            tried |-> FALSE, latched |-> FALSE, modal |-> None, offer |-> None,
            seen |-> {}, shown |-> {}]

Init ==
    /\ does \in Habits
    /\ row = None
    /\ births = 0
    /\ edits = 0
    /\ opens = 0
    /\ saved = 0
    /\ page = [d \in Devices |-> NewPage]
    /\ net = {}

-----------------------------------------------------------------------------
(* The browser.                                                             *)

NewRequest(d, use, text, cond) ==
    [dev |-> d, use |-> use, text |-> text, cond |-> cond, current |-> TRUE,
     awaited |-> TRUE, pc |-> "start", tries |-> 0, read |-> None, status |-> "none",
     told |-> None]

\* A late answer does not put the version back.
Later(meta, copy) == IF meta # None /\ meta.version > copy.version THEN meta ELSE copy

SaveMeta(p, copy) == [p EXCEPT !.meta = Later(@, copy)]

Filled(p, t) == [p EXCEPT !.text = t, !.seen = @ \cup {t}]

\* What the form holds now is written to localStorage and waits to be sent.
Autosaved(p, t) ==
    IF t \in {p.base, p.dropped} THEN Filled(p, t)
    ELSE [Filled(p, t) EXCEPT !.local = t, !.queue = t, !.timer = TRUE]

Sending(d, n) ==
    \E m \in n : /\ m.dev = d
                 /\ \/ m.use = "push" /\ m.awaited
                    \/ m.use = "heal" /\ m.awaited /\ m.current

\* Page p of d is left with requests n; what waits to be sent is not sent.
Rest(d, p, n) ==
    /\ page' = [page EXCEPT ![d] = p]
    /\ net' = n

\* The same, and what waits is sent when nothing is on its way.
Run(d, p, n) ==
    IF p.queue # 0 /\ ~Sending(d, n)
    THEN Rest(d, [p EXCEPT !.queue = 0, !.timer = FALSE],
              n \cup {NewRequest(d, "push", p.queue, p.meta)})
    ELSE Rest(d, p, n)

\* The user acts on the page of d.
Acts(d, deed) == page[d].open /\ deed \in does[d] /\ Cardinality(net) < MaxNet

\* The questions to the user cover the form.
Edit(d) ==
    /\ Acts(d, "edit")
    /\ page[d].offer = None /\ page[d].modal = None
    /\ edits < MaxEdits
    /\ edits' = edits + 1
    /\ Rest(d, Autosaved(page[d], edits + 1), net)
    /\ UNCHANGED <<does, row, births, opens, saved>>

Timer(d) ==
    /\ page[d].timer
    /\ Run(d, [page[d] EXCEPT !.timer = FALSE], net)
    /\ UNCHANGED <<does, row, births, edits, opens, saved>>

\* Does the form differ from the document, and its copy say nothing of this exit?
Leaves(p, exit) == p.text \notin {p.base, p.dropped} /\ p.exit # exit

\* The page as a flush leaves it: the copy is to be sent at once.
Flushed(p, exit) == [p EXCEPT !.local = p.text, !.queue = p.text, !.exit = exit]

\* The tab goes out of sight.
Flush(d) ==
    /\ Acts(d, "flush")
    /\ Leaves(page[d], "hidden")
    /\ Run(d, Flushed(page[d], "hidden"), net)
    /\ UNCHANGED <<does, row, births, edits, opens, saved>>

\* What localStorage and the history keep of page p.
Kept(p) == [NewPage EXCEPT !.local = p.local, !.exit = p.exit, !.meta = p.meta,
                           !.seen = p.seen, !.shown = p.shown]

\* The handler of a request goes on, nobody waits for it.
Alone(m) == [m EXCEPT !.awaited = FALSE, !.current = FALSE]

Unawaited(d, n) ==
    {m \in n : m.dev # d} \cup {Alone(m) : m \in {m \in n : m.dev = d /\ m.pc # "done"}}

\* The page is left, or crashes; its requests go on.
Leave(d) ==
    /\ Acts(d, "leave")
    /\ LET p == page[d]
           f == Flushed(p, "pagehide") IN
       \/ Rest(d, Kept(p), Unawaited(d, net))
       \/ /\ Leaves(p, "pagehide")
          /\ Sending(d, net)
          /\ Rest(d, Kept(f), Unawaited(d, net))
       \/ /\ Leaves(p, "pagehide")
          /\ ~Sending(d, net)
          /\ Rest(d, Kept(f), Unawaited(d, net \cup {NewRequest(d, "push", f.queue, f.meta)}))
    /\ UNCHANGED <<does, row, births, edits, opens, saved>>

(* The document is opened: a local copy that differs from it is offered to  *)
(* the user; without a local copy that of the server is asked for.          *)
Open(d) ==
    /\ ~page[d].open
    /\ opens < MaxOpens
    /\ opens' = opens + 1
    /\ Cardinality(net) < MaxNet
    /\ LET p == [page[d] EXCEPT !.open = TRUE, !.text = saved, !.base = saved,
                                !.seen = @ \cup {saved}] IN
       \/ /\ p.local # 0
          /\ p.local # saved
          /\ Rest(d, [p EXCEPT !.offer = [text |-> p.local, server |-> FALSE]], net)
       \/ /\ p.local # 0
          /\ p.local = saved
          /\ Rest(d, [p EXCEPT !.local = 0, !.exit = "none"], net)
       \/ /\ p.local = 0
          /\ Rest(d, p, net \cup {NewRequest(d, "recover", saved, None)})
    /\ UNCHANGED <<does, row, births, edits, saved>>

Restore(d) ==
    /\ Acts(d, "restore")
    /\ page[d].offer # None
    /\ Rest(d, Autosaved([page[d] EXCEPT !.offer = None], page[d].offer.text), net)
    /\ UNCHANGED <<does, row, births, edits, opens, saved>>

\* What was on its way is forgotten: its answers do not count as current.
Forgotten(d, n) == {IF m.dev = d THEN [m EXCEPT !.current = FALSE] ELSE m : m \in n}

Discard(d) ==
    /\ Acts(d, "discard")
    /\ page[d].offer # None
    /\ LET p == [page[d] EXCEPT !.offer = None, !.local = 0, !.exit = "none",
                                !.dropped = page[d].text, !.queue = 0, !.timer = FALSE,
                                !.tried = FALSE, !.latched = FALSE]
           n == Forgotten(d, net) IN
       IF page[d].offer.server
       THEN Rest(d, [p EXCEPT !.meta = None], n \cup {NewRequest(d, "remove", 0, None)})
       ELSE Rest(d, p, n)
    /\ UNCHANGED <<does, row, births, edits, opens, saved>>

\* Escape: the question is closed, the copy stays.
Dismiss(d) ==
    /\ Acts(d, "dismiss")
    /\ page[d].offer # None
    /\ Rest(d, [page[d] EXCEPT !.offer = None], net)
    /\ UNCHANGED <<does, row, births, edits, opens, saved>>

(* The document is saved.  The copies go; what waits to be sent does not,    *)
(* and saving an offer deletes the copy of the new document only.           *)
Save(d) ==
    /\ Acts(d, "save")
    /\ page[d].text # page[d].base
    /\ saved' = page[d].text
    /\ LET p == [page[d] EXCEPT !.base = page[d].text, !.local = 0, !.exit = "none",
                                !.dropped = 0, !.offer = None] IN
       IF RemovesOnSave
       THEN Rest(d, [p EXCEPT !.meta = None], net \cup {NewRequest(d, "remove", 0, None)})
       ELSE Rest(d, p, net)
    /\ UNCHANGED <<does, row, births, edits, opens>>

\* After a conflict: the local copy replaces the version that the user was told of.
KeepLocal(d) ==
    /\ Acts(d, "keep")
    /\ page[d].modal # None
    /\ LET told == page[d].modal.told IN
       Rest(d, [page[d] EXCEPT !.modal = None, !.latched = FALSE, !.meta = told,
                               !.seen = @ \cup {told.text}],
            net \cup {NewRequest(d, "keep", page[d].modal.text, told)})
    /\ UNCHANGED <<does, row, births, edits, opens, saved>>

\* After a conflict: the copy of the server (and, with both, a file of the other).
AdoptServer(d) ==
    /\ Acts(d, "adopt")
    /\ page[d].modal # None
    /\ Rest(d, [page[d] EXCEPT !.modal = None, !.latched = FALSE],
            net \cup {NewRequest(d, "adopt", 0, None)})
    /\ UNCHANGED <<does, row, births, edits, opens, saved>>

CloseModal(d) ==
    /\ Acts(d, "close")
    /\ page[d].modal # None
    /\ Rest(d, [page[d] EXCEPT !.modal = None], net)
    /\ UNCHANGED <<does, row, births, edits, opens, saved>>

-----------------------------------------------------------------------------
(* Answers.                                                                 *)

\* The conflict is told once, until the user has chosen.
Reported(p, text, told) ==
    IF p.latched THEN p
    ELSE [p EXCEPT !.latched = TRUE, !.modal = [text |-> text, told |-> told]]

\* Is what m sent still what the page would send, and the local copy?
Current(p, m) ==
    /\ m.current
    /\ p.queue \in {0, m.text}
    /\ p.local = m.text

Answered(m, status) == m.awaited /\ m.pc = "done" /\ m.status = status

PutOk(m) ==
    /\ m.use \in {"push", "keep"}
    /\ Answered(m, "ok")
    /\ LET p == SaveMeta(page[m.dev], m.told) IN
       IF m.use = "push" THEN Run(m.dev, p, net \ {m}) ELSE Rest(m.dev, p, net \ {m})

\* The row is gone: once more, as a first save.
PutGone(m) ==
    /\ m.use \in {"push", "keep"}
    /\ Answered(m, "gone")
    /\ Rest(m.dev, [page[m.dev] EXCEPT !.meta = None],
            (net \ {m}) \cup {[m EXCEPT !.cond = None, !.pc = "start",
                                        !.status = "none"]})

PutConflict(m) ==
    /\ Answered(m, "conflict")
    /\ LET p == page[m.dev]
           heal == [NewRequest(m.dev, "heal", m.text, m.told) EXCEPT !.current = m.current] IN
       \/ /\ m.use = "keep"
          /\ Rest(m.dev, p, net \ {m})
       \/ /\ m.use = "push"
          /\ ~p.tried /\ ~p.latched /\ Current(p, m)
          /\ Rest(m.dev, [p EXCEPT !.tried = TRUE], (net \ {m}) \cup {heal})
       \/ /\ m.use = "push"
          /\ p.tried \/ p.latched \/ ~Current(p, m)
          /\ Run(m.dev, Reported([p EXCEPT !.tried = @ \/ ~p.latched], m.text, m.told), net \ {m})

\* Faulty variant: any copy that is still current is taken for the same.
HealsAny(p, m) == Current(p, m)

\* The server has just what the page has sent.
Heals(p, m) == Current(p, m) /\ m.told.text = m.text

\* Faulty variant: what waits stays there when the attempt fails.
AfterHealIdle(m, p) == Rest(m.dev, p, net \ {m})

AfterHeal(m, p) == Run(m.dev, p, net \ {m})

HealOk(m) ==
    /\ m.use = "heal"
    /\ Answered(m, "ok")
    /\ LET p == page[m.dev] IN
       \/ /\ Heals(p, m)
          /\ AfterHeal(m, [p EXCEPT !.meta = m.told, !.queue = m.text])
       \/ /\ ~Heals(p, m)
          /\ AfterHeal(m, Reported(p, m.text, m.cond))

HealGone(m) ==
    /\ m.use = "heal"
    /\ Answered(m, "gone")
    /\ AfterHeal(m, Reported(page[m.dev], m.text, m.cond))

\* A copy equal to the document is deleted, one that differs is offered.
RecoverOk(m) ==
    /\ m.use = "recover"
    /\ Answered(m, "ok")
    /\ LET p == SaveMeta(page[m.dev], m.told) IN
       \/ /\ m.told.text = m.text
          /\ Rest(m.dev, [p EXCEPT !.meta = None],
                  (net \ {m}) \cup {NewRequest(m.dev, "remove", 0, None)})
       \/ /\ m.told.text \notin {m.text, p.text}
          /\ Rest(m.dev, [p EXCEPT !.offer = [text |-> m.told.text, server |-> TRUE],
                                   !.shown = @ \cup {m.told.text}], net \ {m})
       \/ /\ m.told.text # m.text
          /\ m.told.text = p.text
          /\ Rest(m.dev, p, net \ {m})

AdoptOk(m) ==
    /\ m.use = "adopt"
    /\ Answered(m, "ok")
    /\ LET p == SaveMeta(page[m.dev], m.told)
           t == m.told.text IN
       \* The autosave writes nothing when the local copy is the same.
       Rest(m.dev, IF t = p.local THEN Filled(p, t) ELSE Autosaved(p, t), net \ {m})

\* Answers that change nothing: no copy to read, a deletion done.
NothingToDo(m) ==
    /\ \/ m.use \in {"recover", "adopt"} /\ Answered(m, "gone")
       \/ m.use = "remove" /\ Answered(m, "ok")
    /\ Rest(m.dev, page[m.dev], net \ {m})

Hear(m) ==
    /\ \/ PutOk(m)
       \/ PutGone(m)
       \/ PutConflict(m)
       \/ HealOk(m)
       \/ HealGone(m)
       \/ RecoverOk(m)
       \/ AdoptOk(m)
       \/ NothingToDo(m)
    /\ UNCHANGED <<does, row, births, edits, opens, saved>>

\* The page gets no answer, or a refusal (limits, session, an error).
Unheard(m, n) ==
    LET p == page[m.dev] IN
    \/ m.use = "push" /\ Run(m.dev, p, n)
    \/ m.use = "heal" /\ Run(m.dev, Reported(p, m.text, m.cond), n)
    \/ m.use \notin {"push", "heal"} /\ Rest(m.dev, p, n)

\* The request or its answer is lost, or the handler fails.
Lose(m) ==
    /\ \/ m.awaited /\ Unheard(m, net \ {m})
       \/ ~m.awaited /\ net' = net \ {m} /\ page' = page
    /\ UNCHANGED <<does, row, births, edits, opens, saved>>

\* The connection breaks, the handler goes on.
GiveUp(m) ==
    /\ m.awaited
    /\ m.pc # "done"
    /\ Cardinality(net) < MaxNet
    /\ Unheard(m, (net \ {m}) \cup {Alone(m)})
    /\ UNCHANGED <<does, row, births, edits, opens, saved>>

-----------------------------------------------------------------------------
(* The server: one statement of a handler at a time.                        *)

At(m, uses, pc) == m.use \in uses /\ m.pc = pc

GoOn(m, n) == net' = (net \ {m}) \cup {n}

Answer(m, status, told) ==
    net' = (net \ {m}) \cup
           IF m.awaited THEN {[m EXCEPT !.pc = "done", !.status = status, !.told = told,
                                        !.read = None, !.tries = 0]}
           ELSE {}

Matches(m) == row # None /\ row.version = m.cond.version

PutMatch(m) ==
    /\ At(m, {"push", "keep"}, "start")
    /\ m.cond # None
    /\ \/ /\ Matches(m)
          /\ row.version < MaxVersion
          /\ row' = [row EXCEPT !.version = @ + 1, !.text = m.text, !.fresh = TRUE]
          /\ Answer(m, "ok", CopyOf(row'))
       \/ /\ ~Matches(m)
          /\ GoOn(m, [m EXCEPT !.pc = "reread"])
          /\ row' = row
    /\ births' = births

PutFind(m) ==
    /\ At(m, {"push", "keep"}, "start")
    /\ m.cond = None
    /\ \/ row # None /\ Answer(m, "conflict", CopyOf(row))
       \/ row = None /\ GoOn(m, [m EXCEPT !.pc = "create"])
    /\ UNCHANGED <<row, births>>

PutCreate(m) ==
    /\ At(m, {"push", "keep"}, "create")
    /\ \/ /\ row = None
          /\ births < MaxBirths
          /\ births' = births + 1
          /\ row' = [version |-> 1, born |-> births', text |-> m.text, fresh |-> TRUE]
          /\ Answer(m, "ok", CopyOf(row'))
       \/ /\ row # None
          /\ GoOn(m, [m EXCEPT !.pc = "reread"])
          /\ UNCHANGED <<row, births>>

\* Faulty variant: a version that no row can have.
VanishedAsZero == [version |-> 0, born |-> 0, text |-> 0]

\* What is told of a row that made a first save fail and is gone now.
Vanished == [version |-> 1, born |-> 0, text |-> 0]

PutReread(m) ==
    /\ At(m, {"push", "keep"}, "reread")
    /\ \/ row # None /\ Answer(m, "conflict", CopyOf(row))
       \/ row = None /\ m.cond # None /\ Answer(m, "gone", None)
       \/ /\ row = None
          /\ m.cond = None
          /\ Answer(m, "conflict", Vanished)
    /\ UNCHANGED <<row, births>>

GetRead(m) ==
    /\ At(m, {"adopt", "heal", "recover"}, "start")
    /\ \/ row = None /\ Answer(m, "gone", None)
       \/ row # None /\ row.fresh /\ Answer(m, "ok", CopyOf(row))
       \/ row # None /\ ~row.fresh /\ GoOn(m, [m EXCEPT !.pc = "purge", !.read = row])
    /\ UNCHANGED <<row, births>>

\* Faulty variant: the row is deleted by its key.
PurgesAny(m) == row # None

\* The row is still the one that was read.
Purges(m) == row = m.read

GetPurge(m) ==
    /\ At(m, {"adopt", "heal", "recover"}, "purge")
    /\ \/ Purges(m) /\ row' = None /\ Answer(m, "gone", None)
       \/ ~Purges(m) /\ m.tries = 1 /\ row' = row /\ Answer(m, "gone", None)
       \/ /\ ~Purges(m)
          /\ m.tries = 0
          /\ row' = row
          /\ GoOn(m, [m EXCEPT !.pc = "start", !.tries = 1, !.read = None])
    /\ births' = births

Delete(m) ==
    /\ At(m, {"remove"}, "start")
    /\ row' = None
    /\ Answer(m, "ok", None)
    /\ births' = births

Serve(m) ==
    /\ \/ PutMatch(m)
       \/ PutFind(m)
       \/ PutCreate(m)
       \/ PutReread(m)
       \/ GetRead(m)
       \/ GetPurge(m)
       \/ Delete(m)
    /\ UNCHANGED <<does, edits, opens, saved, page>>

\* Thirty days without a save, of a user who stays away.
Expire ==
    /\ \E d \in Devices : "away" \in does[d]
    /\ row # None
    /\ row.fresh
    /\ row' = [row EXCEPT !.fresh = FALSE]
    /\ UNCHANGED <<does, births, edits, opens, saved, page, net>>

\* Housekeeping, and the reading of the list of drafts.
Sweep ==
    /\ row # None
    /\ ~row.fresh
    /\ row' = None
    /\ UNCHANGED <<does, births, edits, opens, saved, page, net>>

-----------------------------------------------------------------------------
User(d) ==
    \/ Edit(d)
    \/ Flush(d)
    \/ Leave(d)
    \/ Open(d)
    \/ Restore(d)
    \/ Discard(d)
    \/ Dismiss(d)
    \/ Save(d)
    \/ KeepLocal(d)
    \/ AdoptServer(d)
    \/ CloseModal(d)

Next ==
    \/ \E d \in Devices : User(d) \/ Timer(d)
    \/ \E m \in net : Hear(m) \/ Lose(m) \/ GiveUp(m) \/ Serve(m)
    \/ Expire
    \/ Sweep

Spec == Init /\ [][Next]_vars

\* What device d awaits for a use comes to an end, one way or another.
Ends(d, use) == \E m \in net : m.dev = d /\ m.use = use /\ (Serve(m) \/ Hear(m) \/ Lose(m))

(* Timers fire and requests end; users do as they like.                     *)
FairSpec ==
    /\ Spec
    /\ \A d \in Devices : WF_vars(Timer(d)) /\ WF_vars(Ends(d, "push")) /\ WF_vars(Ends(d, "heal"))

-----------------------------------------------------------------------------
(* Properties.                                                              *)

\* The requests that replace the copy on the server by their own in this step.
Replacing ==
    {m \in net : /\ At(m, {"push", "keep"}, "start")
                 /\ m \notin net'
                 /\ row # None /\ row' # None
                 /\ row' # row
                 /\ row'.version > row.version
                 /\ row'.text = m.text}

(* A copy on the server is replaced only by a browser whose form has held   *)
(* it or whose user has decided about it.  A row deleted and created anew   *)
(* is left out: its version names another content to a browser that knew    *)
(* the old one.                                                             *)
ReplacesOnlyDecided ==
    [][\A m \in Replacing :
           \/ row.text \in page[m.dev].seen
           \/ m.cond.born # row.born]_vars

(* The same, with what the code lets through: the copy whose version was    *)
(* taken over when the document was opened and that was only shown.         *)
(* Whatever answers are lost, late or refused, nothing else is replaced.    *)
ReplacesOnlyKnown ==
    [][\A m \in Replacing :
           \/ row.text \in page[m.dev].seen
           \/ row.text \in page[m.dev].shown
           \/ m.cond.born # row.born]_vars

(* A copy that was saved in the last 30 days disappears by a deletion that  *)
(* a user's browser asked for, never by the cleaning of an older copy that  *)
(* a read has found expired.                                                *)
FreshKept ==
    [][row # None /\ row.fresh /\ row' = None
           => \E m \in net : At(m, {"remove"}, "start") /\ m \notin net']_vars

(* What waits to be sent does not wait for good: a push, a conflict or an   *)
(* attempt to settle it that comes to its end sets it off.                  *)
QueueDrains == \A d \in Devices : page[d].queue # 0 ~> page[d].queue = 0
=============================================================================
