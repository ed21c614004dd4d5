-------------------------- MODULE DraftSyncProofs --------------------------
(***************************************************************************)
(* Proofs about DraftSync, for any browsers, deeds of their users and      *)
(* bounds.                                                                 *)
(*                                                                         *)
(* Two facts carry the proof.  A copy that somebody read (the meta of a    *)
(* page, the condition of a save, an answer) is never newer than the row   *)
(* it was read from, and of the same version it has the same content       *)
(* (Fits): a version names one content as long as the row lives.  And the  *)
(* copy that a page knows by its version is one that its form has held,    *)
(* that its user has decided about or that was shown on opening            *)
(* (PageKnows, RequestKnows).  A save whose If-Match still holds replaces, *)
(* then, such a content.                                                   *)
(***************************************************************************)
EXTENDS DraftSync, TLAPS

(***************************************************************************)
(* The invariant.                                                          *)
(***************************************************************************)

\* A copy c that was read on the server, now that its row is r and b rows were
\* created: no copy is newer than its row, and a version names one content.
Fits(r, b, c) ==
    /\ c.born <= b
    /\ r # None /\ c.born = r.born =>
          c.version <= r.version /\ (c.version = r.version => c.text = r.text)

\* What a user knows: had in the form, decided about, or was shown on opening.
Known(p) == p.seen \cup p.shown

\* What a page keeps, sends or knows a copy by, its user knows.
PageKnows(p) ==
    /\ p.open => p.text \in Known(p)
    /\ p.timer => p.open
    /\ p.text = 0 => p.base = 0
    /\ p.local \in Known(p) \cup {0}
    /\ p.queue \in Known(p) \cup {0}
    /\ p.meta # None => p.meta.text \in Known(p)
    /\ p.modal # None => p.modal.text \in Known(p) \ {0}
    /\ p.offer # None => p.offer.text # 0

\* The same of a request m of page p, that only an open page awaits.
RequestKnows(m, p) ==
    /\ m.awaited => p.open
    /\ m.use \in {"push", "keep", "heal"} => m.text \in Known(p) \ {0}
    /\ m.use \in {"push", "keep"} /\ m.cond # None => m.cond.text \in Known(p)

\* What an answer tells of a copy; what a read that cleans has found.
Tells(m) ==
    /\ m.use = "heal" => m.cond # None
    /\ m.pc = "purge" => m.read # None /\ ~m.read.fresh
    /\ m.pc = "done" /\ m.status = "conflict" => m.told # None
    /\ m.pc = "done" /\ m.status = "ok" /\ m.use # "remove" => m.told # None /\ m.told.text # 0
    /\ m.pc = "done" /\ m.status = "ok" /\ m.use \in {"push", "keep"} => m.told.text = m.text

PageFits(r, b, p) ==
    /\ p.meta # None => Fits(r, b, p.meta)
    /\ p.modal # None => Fits(r, b, p.modal.told)

RequestFits(r, b, m) ==
    /\ m.cond # None => Fits(r, b, m.cond)
    /\ m.told # None => Fits(r, b, m.told)

GoodPage(r, b, p) == p \in Page /\ PageKnows(p) /\ PageFits(r, b, p)

GoodRequest(r, b, m, p) ==
    m \in Request /\ RequestKnows(m, p) /\ Tells(m) /\ RequestFits(r, b, m)

RowInv ==
    /\ row \in Row \cup {None}
    /\ births \in 0 .. MaxBirths
    /\ row # None => row.born <= births

CountInv == does \in Habits /\ edits \in Contents /\ opens \in 0 .. MaxOpens /\ saved \in Contents

PagesInv ==
    /\ page \in [Devices -> Page]
    /\ \A d \in Devices : GoodPage(row, births, page[d])
    /\ net \in SUBSET Request
    /\ \A m \in net : GoodRequest(row, births, m, page[m.dev])

IndInv == RowInv /\ CountInv /\ PagesInv

USE DEF Known

-----------------------------------------------------------------------------
(***************************************************************************)
(* Facts about the parts.                                                  *)
(***************************************************************************)

\* The bounds are positive numbers.
LEMMA Bounds ==
    /\ MaxEdits \in Nat \ {0}
    /\ MaxOpens \in Nat \ {0}
    /\ MaxVersion \in Nat \ {0}
    /\ MaxBirths \in Nat \ {0}
    /\ MaxNet \in Nat \ {0}
  BY BoundsAssumption

\* A page that nobody opened has nothing.
LEMMA NewPageGood ==
    ASSUME NEW r, NEW b PROVE GoodPage(r, b, NewPage)
  <1>1. 0 \in Contents
    BY Bounds DEF Contents
  <1>2. NewPage \in Page
    BY <1>1 DEF NewPage, Page
  <1>3. PageKnows(NewPage) /\ PageFits(r, b, NewPage)
    BY DEF NewPage, PageKnows, PageFits
  <1> QED
    BY <1>2, <1>3 DEF GoodPage

\* In the beginning the invariant holds.
LEMMA InitInv == Init => IndInv
  <1> SUFFICES ASSUME Init PROVE IndInv
    OBVIOUS
  <1> USE Bounds
  <1>1. RowInv /\ CountInv
    BY DEF Init, RowInv, CountInv, Contents
  <1>2. ASSUME NEW d \in Devices PROVE page[d] \in Page /\ GoodPage(row, births, page[d])
    BY NewPageGood DEF Init, GoodPage
  <1>3. page \in [Devices -> Page]
    BY <1>2 DEF Init
  <1>4. PagesInv
    BY <1>2, <1>3 DEF Init, PagesInv
  <1> QED
    BY <1>1, <1>4 DEF IndInv

\* What is typed in the invariant is the type invariant.
LEMMA IndInvTypes == IndInv => TypeOK
  BY DEF IndInv, RowInv, CountInv, PagesInv, TypeOK

\* A request stays good when its page has come to know more.
LEMMA RequestKept ==
    ASSUME NEW r, NEW b, NEW m, NEW p, NEW q,
           GoodRequest(r, b, m, p),
           Known(p) \subseteq Known(q),
           m.awaited => q.open
    PROVE  GoodRequest(r, b, m, q)
  BY DEF GoodRequest, RequestKnows

\* Page p of d is left with requests n: they are requests of before that an
\* open page still awaits, and good requests of p.
Leftover(d, p, n) ==
    \A m \in n : \/ m \in net /\ (m.dev = d => (m.awaited => p.open))
                 \/ m.dev = d /\ GoodRequest(row, births, m, p)

\* Leaving a good page, whose user knows no less, keeps the invariant.
LEMMA RestInv ==
    ASSUME PagesInv, NEW d \in Devices, NEW p, NEW n,
           GoodPage(row, births, p),
           Known(page[d]) \subseteq Known(p),
           Leftover(d, p, n),
           Rest(d, p, n),
           row' = row, births' = births
    PROVE  PagesInv'
  <1> USE DEF PagesInv, Rest
  <1>1. p \in Page
    BY DEF GoodPage
  <1>2. page' \in [Devices -> Page]
    BY <1>1
  <1>3. \A e \in Devices : page'[e] = IF e = d THEN p ELSE page[e]
    OBVIOUS
  <1>4. ASSUME NEW e \in Devices PROVE GoodPage(row', births', page'[e])
    BY <1>3
  <1>5. ASSUME NEW m \in n
        PROVE  m \in Request /\ GoodRequest(row', births', m, page'[m.dev])
    <2>1. CASE m.dev = d /\ GoodRequest(row, births, m, p)
      <3>1. page'[m.dev] = p
        BY <2>1, <1>3
      <3> QED
        BY <2>1, <3>1 DEF GoodRequest
    <2>2. CASE m \in net /\ m.dev # d
      <3>1. m \in Request /\ GoodRequest(row, births, m, page[m.dev])
        BY <2>2
      <3>2. m.dev \in Devices
        BY <3>1 DEF Request
      <3>3. page'[m.dev] = page[m.dev]
        BY <2>2, <3>2, <1>3
      <3> QED
        BY <3>1, <3>3
    <2>3. CASE m \in net /\ m.dev = d /\ (m.awaited => p.open)
      <3>1. m \in Request /\ GoodRequest(row, births, m, page[d])
        BY <2>3
      <3>2. GoodRequest(row, births, m, p)
        BY <3>1, <2>3, RequestKept
      <3>3. page'[m.dev] = p
        BY <2>3, <1>3
      <3> QED
        BY <3>1, <3>2, <3>3
    <2> QED
      BY <2>1, <2>2, <2>3 DEF Leftover
  <1>6. net' \in SUBSET Request
    BY <1>5
  <1> QED
    BY <1>2, <1>4, <1>5, <1>6

\* The requests of before are left over for a page that is open if it was.
LEMMA NetLeftover ==
    ASSUME PagesInv, NEW d \in Devices, NEW p, NEW n,
           page[d].open => p.open,
           \A m \in n : m \in net \/ (m.dev = d /\ GoodRequest(row, births, m, p))
    PROVE  Leftover(d, p, n)
  <1>1. ASSUME NEW m \in net, m.dev = d, m.awaited PROVE page[d].open
    BY <1>1 DEF PagesInv, GoodRequest, RequestKnows
  <1> QED
    BY <1>1 DEF Leftover

\* What page p may send: a content its user knows, under a condition known
\* to the page.
MaySend(r, b, p, use, text, cond) ==
    /\ use \in Uses /\ text \in Contents /\ cond \in Copy \cup {None}
    /\ p.open
    /\ use \in {"push", "keep", "heal"} => text \in Known(p) \ {0}
    /\ use \in {"push", "keep"} /\ cond # None => cond.text \in Known(p)
    /\ use = "heal" => cond # None
    /\ cond # None => Fits(r, b, cond)

\* A new request of what a page may send is good.
LEMMA NewRequestGood ==
    ASSUME NEW r, NEW b, NEW p, NEW d \in Devices, NEW use, NEW text, NEW cond,
           MaySend(r, b, p, use, text, cond)
    PROVE  /\ GoodRequest(r, b, NewRequest(d, use, text, cond), p)
           /\ NewRequest(d, use, text, cond).dev = d
  <1> USE DEF MaySend
  <1> DEFINE q == NewRequest(d, use, text, cond)
  <1>1. /\ q \in Request
        /\ q.dev = d /\ q.use = use /\ q.text = text /\ q.cond = cond
        /\ q.awaited = TRUE /\ q.pc = "start" /\ q.told = None
    BY DEF NewRequest, Request, Statuses
  <1> HIDE DEF q
  <1>2. RequestKnows(q, p)
    BY <1>1 DEF RequestKnows
  <1>3. Tells(q)
    BY <1>1 DEF Tells
  <1>4. RequestFits(r, b, q)
    BY <1>1 DEF RequestFits
  <1> QED
    BY <1>1, <1>2, <1>3, <1>4 DEF GoodRequest, q

\* A page whose queue is sent, and the request that sends it, are good.
LEMMA PushGood ==
    ASSUME NEW d \in Devices, NEW p, NEW r, NEW b,
           GoodPage(r, b, p), p.open, p.queue # 0
    PROVE  /\ GoodPage(r, b, [p EXCEPT !.queue = 0, !.timer = FALSE])
           /\ [p EXCEPT !.queue = 0, !.timer = FALSE].open
           /\ Known([p EXCEPT !.queue = 0, !.timer = FALSE]) = Known(p)
           /\ GoodRequest(r, b, NewRequest(d, "push", p.queue, p.meta),
                          [p EXCEPT !.queue = 0, !.timer = FALSE])
           /\ NewRequest(d, "push", p.queue, p.meta).dev = d
  <1> DEFINE q == [p EXCEPT !.queue = 0, !.timer = FALSE]
  <1>1. p \in Page /\ PageKnows(p) /\ PageFits(r, b, p)
    BY DEF GoodPage
  <1>2. 0 \in Contents
    BY Bounds DEF Contents
  <1>3. /\ q \in Page
        /\ q.open = p.open /\ q.text = p.text /\ q.base = p.base /\ q.local = p.local
        /\ q.meta = p.meta /\ q.queue = 0 /\ q.timer = FALSE /\ q.modal = p.modal
        /\ q.offer = p.offer /\ Known(q) = Known(p)
    BY <1>1, <1>2 DEF Page
  <1> HIDE DEF q
  <1>4. GoodPage(r, b, q)
    BY <1>1, <1>3 DEF GoodPage, PageKnows, PageFits
  <1> DEFINE t == p.queue
             c == p.meta
  <1>5. t \in Contents /\ c \in Copy \cup {None}
    BY <1>1 DEF Page
  <1>6. /\ t \in Known(q) \ {0}
        /\ c # None => c.text \in Known(q)
        /\ c # None => Fits(r, b, c)
    BY <1>1, <1>3 DEF PageKnows, PageFits
  <1> HIDE DEF t, c
  <1>7. MaySend(r, b, q, "push", t, c)
    BY <1>3, <1>5, <1>6 DEF MaySend, Uses
  <1>9. /\ GoodRequest(r, b, NewRequest(d, "push", t, c), q)
        /\ NewRequest(d, "push", t, c).dev = d
    BY <1>7, NewRequestGood
  <1> QED
    BY <1>3, <1>4, <1>9 DEF q, t, c

\* The same for a step that then sends what waits.
LEMMA RunInv ==
    ASSUME PagesInv, NEW d \in Devices, NEW p, NEW n,
           GoodPage(row, births, p),
           p.open,
           Known(page[d]) \subseteq Known(p),
           \A m \in n : m \in net \/ (m.dev = d /\ GoodRequest(row, births, m, p)),
           Run(d, p, n),
           row' = row, births' = births
    PROVE  PagesInv'
  <1>1. CASE p.queue # 0 /\ ~Sending(d, n)
    <2> DEFINE q == [p EXCEPT !.queue = 0, !.timer = FALSE]
               k == NewRequest(d, "push", p.queue, p.meta)
               N == n \cup {k}
    <2>1. /\ GoodPage(row, births, q) /\ q.open /\ Known(q) = Known(p)
          /\ GoodRequest(row, births, k, q) /\ k.dev = d
      BY <1>1, PushGood
    <2>2. Rest(d, q, N)
      BY <1>1 DEF Run
    <2> HIDE DEF q, k
    <2>3. \A m \in N : m \in net \/ (m.dev = d /\ GoodRequest(row, births, m, q))
      BY <2>1, RequestKept
    <2> HIDE DEF N
    <2>4. Leftover(d, q, N)
      BY <2>1, <2>3, NetLeftover
    <2>5. Known(page[d]) \subseteq Known(q)
      BY <2>1
    <2> QED
      BY <2>1, <2>2, <2>4, <2>5, RestInv
  <1>2. CASE ~(p.queue # 0 /\ ~Sending(d, n))
    <2>1. Rest(d, p, n)
      BY <1>2 DEF Run
    <2>2. Leftover(d, p, n)
      BY NetLeftover
    <2> QED
      BY <2>1, <2>2, RestInv
  <1> QED
    BY <1>1, <1>2

\* The page of a device is good.
LEMMA PageFacts ==
    ASSUME PagesInv, NEW d \in Devices
    PROVE  /\ GoodPage(row, births, page[d])
           /\ page[d] \in Page /\ PageKnows(page[d]) /\ PageFits(row, births, page[d])
  BY DEF PagesInv, GoodPage

\* So is a request, and its page is open while it is awaited.
LEMMA NetFacts ==
    ASSUME PagesInv, NEW m \in net
    PROVE  /\ m \in Request /\ m.dev \in Devices
           /\ GoodRequest(row, births, m, page[m.dev])
           /\ RequestKnows(m, page[m.dev]) /\ Tells(m) /\ RequestFits(row, births, m)
  BY DEF PagesInv, GoodRequest, Request
\* A page of the invariant, field by field.
LEMMA PageTyped ==
    ASSUME NEW p \in Page
    PROVE  /\ p.open \in BOOLEAN /\ p.timer \in BOOLEAN
           /\ p.text \in Contents /\ p.base \in Contents /\ p.local \in Contents
           /\ p.queue \in Contents /\ p.dropped \in Contents
           /\ p.meta \in Copy \cup {None}
           /\ p.modal # None => p.modal.text \in Contents /\ p.modal.told \in Copy
           /\ p.offer # None => p.offer.text \in Contents
           /\ Known(p) \in SUBSET Contents
  BY DEF Page

\* The form gets another content.
LEMMA FilledGood ==
    ASSUME NEW r, NEW b, NEW p, GoodPage(r, b, p), NEW t \in Contents,
           t = 0 => p.base = 0
    PROVE  /\ GoodPage(r, b, Filled(p, t))
           /\ Filled(p, t).open = p.open
           /\ Known(p) \subseteq Known(Filled(p, t))
           /\ t \in Known(Filled(p, t))
  <1> DEFINE q == Filled(p, t)
  <1>1. p \in Page /\ PageKnows(p) /\ PageFits(r, b, p)
    BY DEF GoodPage
  <1>2. /\ q \in Page
        /\ q.open = p.open /\ q.text = t /\ q.base = p.base /\ q.local = p.local
        /\ q.meta = p.meta /\ q.queue = p.queue /\ q.timer = p.timer /\ q.modal = p.modal
        /\ q.offer = p.offer /\ Known(q) = Known(p) \cup {t}
    BY <1>1 DEF Page, Filled
  <1> HIDE DEF q
  <1>3. GoodPage(r, b, q)
    BY <1>1, <1>2 DEF GoodPage, PageKnows, PageFits
  <1> QED
    BY <1>2, <1>3 DEF q

\* And is autosaved.
LEMMA AutosavedGood ==
    ASSUME NEW r, NEW b, NEW p, GoodPage(r, b, p), p.open,
           NEW t \in Contents, t # 0
    PROVE  /\ GoodPage(r, b, Autosaved(p, t))
           /\ Autosaved(p, t).open
           /\ Known(p) \subseteq Known(Autosaved(p, t))
           /\ t \in Known(Autosaved(p, t))
  <1> DEFINE f == Filled(p, t)
             q == [f EXCEPT !.local = t, !.queue = t, !.timer = TRUE]
  <1>1. GoodPage(r, b, f) /\ f.open /\ Known(p) \subseteq Known(f) /\ t \in Known(f)
    BY FilledGood
  <1>2. CASE t \in {p.base, p.dropped}
    BY <1>1, <1>2 DEF Autosaved
  <1>3. CASE t \notin {p.base, p.dropped}
    <2>1. Autosaved(p, t) = q
      BY <1>3 DEF Autosaved
    <2> HIDE DEF f
    <2>2. f \in Page /\ PageKnows(f) /\ PageFits(r, b, f)
      BY <1>1 DEF GoodPage
    <2>3. /\ q \in Page
          /\ q.open = f.open /\ q.text = f.text /\ q.base = f.base /\ q.local = t
          /\ q.meta = f.meta /\ q.queue = t /\ q.timer = TRUE /\ q.modal = f.modal
          /\ q.offer = f.offer /\ Known(q) = Known(f)
      BY <2>2 DEF Page
    <2> HIDE DEF q
    <2>4. GoodPage(r, b, q)
      BY <1>1, <2>2, <2>3 DEF GoodPage, PageKnows, PageFits
    <2> QED
      BY <1>1, <2>1, <2>3, <2>4
  <1> QED
    BY <1>2, <1>3

\* The question after a conflict names a content that the user knows and
\* the copy that was told.
LEMMA ReportedGood ==
    ASSUME NEW r, NEW b, NEW p, GoodPage(r, b, p),
           NEW text \in Known(p) \ {0}, NEW told \in Copy, Fits(r, b, told)
    PROVE  /\ GoodPage(r, b, Reported(p, text, told))
           /\ Reported(p, text, told).open = p.open
           /\ Known(Reported(p, text, told)) = Known(p)
  <1> DEFINE k == [text |-> text, told |-> told]
             q == [p EXCEPT !.latched = TRUE, !.modal = k]
  <1>1. p \in Page /\ PageKnows(p) /\ PageFits(r, b, p)
    BY DEF GoodPage
  <1>2. text \in Contents
    BY <1>1 DEF Page
  <1>3. k \in [text : Contents, told : Copy] /\ k.text = text /\ k.told = told
    BY <1>2
  <1>4. CASE p.latched
    BY <1>4 DEF Reported
  <1>5. CASE ~p.latched
    <2>1. Reported(p, text, told) = q
      BY <1>5 DEF Reported
    <2> HIDE DEF k
    <2>2. /\ q \in Page
          /\ q.open = p.open /\ q.text = p.text /\ q.base = p.base /\ q.local = p.local
          /\ q.meta = p.meta /\ q.queue = p.queue /\ q.timer = p.timer /\ q.modal = k
          /\ q.offer = p.offer /\ Known(q) = Known(p)
      BY <1>1, <1>3 DEF Page
    <2> HIDE DEF q
    <2>3. GoodPage(r, b, q)
      BY <1>1, <1>3, <2>2 DEF GoodPage, PageKnows, PageFits
    <2> QED
      BY <2>1, <2>2, <2>3
  <1> QED
    BY <1>4, <1>5

\* The page as a flush leaves it.
LEMMA FlushedGood ==
    ASSUME NEW r, NEW b, NEW p, GoodPage(r, b, p), p.open,
           NEW exit \in {"hidden", "pagehide"}, Leaves(p, exit)
    PROVE  /\ GoodPage(r, b, Flushed(p, exit))
           /\ Flushed(p, exit).open
           /\ Known(Flushed(p, exit)) = Known(p)
           /\ Flushed(p, exit).queue # 0
  <1> DEFINE q == Flushed(p, exit)
  <1>1. p \in Page /\ PageKnows(p) /\ PageFits(r, b, p)
    BY DEF GoodPage
  <1>2. /\ q \in Page
        /\ q.open = p.open /\ q.text = p.text /\ q.base = p.base /\ q.local = p.text
        /\ q.meta = p.meta /\ q.queue = p.text /\ q.timer = p.timer /\ q.modal = p.modal
        /\ q.offer = p.offer /\ Known(q) = Known(p)
    BY <1>1 DEF Page, Flushed
  <1> HIDE DEF q
  <1>3. p.text # 0
    BY <1>1 DEF Leaves, PageKnows
  <1>4. GoodPage(r, b, q)
    BY <1>1, <1>2 DEF GoodPage, PageKnows, PageFits
  <1> QED
    BY <1>2, <1>3, <1>4 DEF q

\* What localStorage keeps of a page.
LEMMA KeptGood ==
    ASSUME NEW r, NEW b, NEW p, GoodPage(r, b, p)
    PROVE  GoodPage(r, b, Kept(p)) /\ Known(Kept(p)) = Known(p)
  <1> DEFINE q == Kept(p)
  <1>1. p \in Page /\ PageKnows(p) /\ PageFits(r, b, p)
    BY DEF GoodPage
  <1>2. 0 \in Contents
    BY Bounds DEF Contents
  <1>3. /\ q \in Page
        /\ q.open = FALSE /\ q.text = 0 /\ q.base = 0 /\ q.local = p.local
        /\ q.meta = p.meta /\ q.queue = 0 /\ q.timer = FALSE /\ q.modal = None
        /\ q.offer = None /\ Known(q) = Known(p)
    BY <1>1, <1>2 DEF Page, Kept, NewPage
  <1> HIDE DEF q
  <1>4. GoodPage(r, b, q)
    BY <1>1, <1>3 DEF GoodPage, PageKnows, PageFits
  <1> QED
    BY <1>3, <1>4 DEF q

\* A late answer leaves the version of a newer copy; either one is known.
LEMMA SaveMetaGood ==
    ASSUME NEW r, NEW b, NEW p, GoodPage(r, b, p),
           NEW copy \in Copy, Fits(r, b, copy), copy.text \in Known(p)
    PROVE  /\ GoodPage(r, b, SaveMeta(p, copy))
           /\ SaveMeta(p, copy).open = p.open
           /\ SaveMeta(p, copy).text = p.text
           /\ SaveMeta(p, copy).base = p.base
           /\ SaveMeta(p, copy).local = p.local
           /\ Known(SaveMeta(p, copy)) = Known(p)
  <1> DEFINE k == Later(p.meta, copy)
             q == [p EXCEPT !.meta = k]
  <1>1. p \in Page /\ PageKnows(p) /\ PageFits(r, b, p)
    BY DEF GoodPage
  <1>2. k = copy \/ (k = p.meta /\ p.meta # None)
    BY DEF Later
  <1>3. k \in Copy \cup {None}
    BY <1>1, <1>2 DEF Page
  <1>4. k # None => k.text \in Known(p) /\ Fits(r, b, k)
    BY <1>1, <1>2 DEF PageKnows, PageFits
  <1>5. SaveMeta(p, copy) = q
    BY DEF SaveMeta
  <1> HIDE DEF k
  <1>6. /\ q \in Page
        /\ q.open = p.open /\ q.text = p.text /\ q.base = p.base /\ q.local = p.local
        /\ q.meta = k /\ q.queue = p.queue /\ q.timer = p.timer /\ q.modal = p.modal
        /\ q.offer = p.offer /\ Known(q) = Known(p)
    BY <1>1, <1>3 DEF Page
  <1> HIDE DEF q
  <1>7. GoodPage(r, b, q)
    BY <1>1, <1>4, <1>6 DEF GoodPage, PageKnows, PageFits
  <1> QED
    BY <1>5, <1>6, <1>7

-----------------------------------------------------------------------------
(***************************************************************************)
(* What the user does.                                                     *)
(***************************************************************************)

\* An edit of a form, and its autosave, keeps the invariant.
LEMMA EditInv ==
    ASSUME IndInv, NEW d \in Devices, Edit(d) PROVE IndInv'
  <1> USE Bounds DEF IndInv
  <1> DEFINE q == Autosaved(page[d], edits + 1)
  <1>1. /\ page[d].open
        /\ edits < MaxEdits /\ edits' = edits + 1
        /\ Rest(d, q, net)
        /\ row' = row /\ births' = births /\ opens' = opens /\ saved' = saved /\ does' = does
    BY DEF Edit, Acts
  <1>2. edits \in Nat /\ edits + 1 \in Contents /\ edits + 1 # 0
    BY <1>1 DEF CountInv, Contents
  <1>3. GoodPage(row, births, q) /\ q.open /\ Known(page[d]) \subseteq Known(q)
    BY <1>1, <1>2, PageFacts, AutosavedGood
  <1> HIDE DEF q
  <1>4. Leftover(d, q, net)
    BY <1>3, NetLeftover
  <1>5. PagesInv'
    BY <1>1, <1>3, <1>4, RestInv
  <1> QED
    BY <1>1, <1>2, <1>5 DEF RowInv, CountInv

\* Timers fire on open pages only.
LEMMA TimerInv ==
    ASSUME IndInv, NEW d \in Devices, Timer(d) PROVE IndInv'
  <1> USE DEF IndInv
  <1> DEFINE p == page[d]
             q == [p EXCEPT !.timer = FALSE]
  <1>1. /\ p.timer
        /\ Run(d, q, net)
        /\ UNCHANGED <<does, row, births, edits, opens, saved>>
    BY DEF Timer
  <1>2. p \in Page /\ PageKnows(p) /\ PageFits(row, births, p)
    BY PageFacts
  <1>3. /\ q \in Page
        /\ q.open = p.open /\ q.text = p.text /\ q.base = p.base /\ q.local = p.local
        /\ q.meta = p.meta /\ q.queue = p.queue /\ q.timer = FALSE /\ q.modal = p.modal
        /\ q.offer = p.offer /\ Known(q) = Known(p)
    BY <1>2 DEF Page
  <1> HIDE DEF q
  <1>4. GoodPage(row, births, q) /\ q.open
    BY <1>1, <1>2, <1>3 DEF GoodPage, PageKnows, PageFits
  <1>5. PagesInv'
    BY <1>1, <1>3, <1>4, RunInv
  <1> QED
    BY <1>1, <1>5 DEF RowInv, CountInv

\* A tab that goes out of sight queues its copy, and keeps the invariant.
LEMMA FlushInv ==
    ASSUME IndInv, NEW d \in Devices, Flush(d) PROVE IndInv'
  <1> USE DEF IndInv
  <1> DEFINE q == Flushed(page[d], "hidden")
  <1>1. /\ page[d].open
        /\ Leaves(page[d], "hidden")
        /\ Run(d, q, net)
        /\ UNCHANGED <<does, row, births, edits, opens, saved>>
    BY DEF Flush, Acts
  <1>2. GoodPage(row, births, q) /\ q.open /\ Known(q) = Known(page[d])
    BY <1>1, PageFacts, FlushedGood
  <1> HIDE DEF q
  <1>3. PagesInv'
    BY <1>1, <1>2, RunInv
  <1> QED
    BY <1>1, <1>3 DEF RowInv, CountInv

\* A handler that nobody waits for.
LEMMA AloneGood ==
    ASSUME NEW r, NEW b, NEW m, NEW p, NEW q, GoodRequest(r, b, m, p), m.pc # "done",
           Known(p) \subseteq Known(q)
    PROVE  GoodRequest(r, b, Alone(m), q) /\ Alone(m).dev = m.dev
  <1> DEFINE n == Alone(m)
  <1>1. m \in Request /\ RequestKnows(m, p) /\ Tells(m) /\ RequestFits(r, b, m)
    BY DEF GoodRequest
  <1>2. /\ n \in Request
        /\ n.dev = m.dev /\ n.use = m.use /\ n.text = m.text /\ n.cond = m.cond
        /\ n.awaited = FALSE /\ n.pc = m.pc /\ n.told = m.told /\ n.read = m.read
    BY <1>1 DEF Request, Alone
  <1> HIDE DEF n
  <1>3. GoodRequest(r, b, n, q)
    BY <1>1, <1>2 DEF GoodRequest, RequestKnows, Tells, RequestFits
  <1> QED
    BY <1>2, <1>3 DEF n

\* The page that is left keeps what its user knows; nobody waits for its
\* requests.
LEMMA LeftInv ==
    ASSUME PagesInv, NEW d \in Devices, NEW p, NEW n,
           GoodPage(row, births, p), Known(p) = Known(page[d]),
           \A m \in n : m \in net \/ (m.dev = d /\ GoodRequest(row, births, m, p)),
           Rest(d, Kept(p), Unawaited(d, n)),
           row' = row, births' = births
    PROVE  PagesInv'
  <1> DEFINE q == Kept(p)
             N == Unawaited(d, n)
  <1>1. GoodPage(row, births, q) /\ Known(q) = Known(page[d])
    BY KeptGood
  <1> HIDE DEF q
  <1>2. ASSUME NEW k \in N
        PROVE  \/ k \in net /\ k.dev # d
               \/ k.dev = d /\ GoodRequest(row, births, k, q)
    <2>1. CASE k \in n /\ k.dev # d
      BY <2>1
    <2>2. CASE \E m \in n : k = Alone(m) /\ m.dev = d /\ m.pc # "done"
      <3>1. PICK m \in n : k = Alone(m) /\ m.dev = d /\ m.pc # "done"
        BY <2>2
      <3>2. GoodRequest(row, births, m, p) \/ GoodRequest(row, births, m, page[d])
        BY <3>1 DEF PagesInv
      <3> QED
        BY <1>1, <3>1, <3>2, AloneGood
    <2> QED
      BY <2>1, <2>2 DEF Unawaited
  <1>3. Rest(d, q, N)
    BY DEF q
  <1> HIDE DEF N
  <1>4. Leftover(d, q, N)
    BY <1>2 DEF Leftover
  <1> QED
    BY <1>1, <1>3, <1>4, RestInv

\* Leaving a form keeps the invariant.
LEMMA LeaveInv ==
    ASSUME IndInv, NEW d \in Devices, Leave(d) PROVE IndInv'
  <1> USE DEF IndInv
  <1> DEFINE p == page[d]
             f == Flushed(p, "pagehide")
             k == NewRequest(d, "push", f.queue, f.meta)
  <1>1. p.open /\ UNCHANGED <<does, row, births, edits, opens, saved>>
    BY DEF Leave, Acts
  <1>2. GoodPage(row, births, p)
    BY PageFacts
  <1>3. CASE Rest(d, Kept(p), Unawaited(d, net))
    BY <1>1, <1>2, <1>3, LeftInv DEF RowInv, CountInv
  <1>4. ASSUME Leaves(p, "pagehide")
        PROVE  GoodPage(row, births, f) /\ f.open /\ Known(f) = Known(p) /\ f.queue # 0
    BY <1>1, <1>2, <1>4, FlushedGood
  <1>5. CASE Leaves(p, "pagehide") /\ Rest(d, Kept(f), Unawaited(d, net))
    <2> HIDE DEF f
    <2>1. PagesInv'
      BY <1>1, <1>4, <1>5, LeftInv
    <2> QED
      BY <1>1, <2>1 DEF RowInv, CountInv
  <1>6. CASE Leaves(p, "pagehide") /\ Rest(d, Kept(f), Unawaited(d, net \cup {k}))
    <2> HIDE DEF f
    <2> DEFINE g == [f EXCEPT !.queue = 0, !.timer = FALSE]
               N == net \cup {k}
    <2>1. Known(g) = Known(f) /\ g.open /\ GoodRequest(row, births, k, g) /\ k.dev = d
      BY <1>4, <1>6, PushGood
    <2>2. Rest(d, Kept(f), Unawaited(d, N))
      BY <1>6
    <2> HIDE DEF g, k
    <2>3. GoodRequest(row, births, k, f)
      BY <2>1, <1>4, <1>6, RequestKept
    <2>4. \A m \in N : m \in net \/ (m.dev = d /\ GoodRequest(row, births, m, f))
      BY <2>1, <2>3
    <2> HIDE DEF N
    <2>5. PagesInv'
      BY <1>1, <1>4, <1>6, <2>2, <2>4, LeftInv
    <2> QED
      BY <1>1, <2>5 DEF RowInv, CountInv
  <1> QED
    BY <1>3, <1>5, <1>6 DEF Leave


\* A step of d's user that changes nothing but the page and the requests, and
\* the counters in their bounds.
LEMMA UserStep ==
    ASSUME IndInv, PagesInv', CountInv', row' = row, births' = births
    PROVE  IndInv'
  BY DEF IndInv, RowInv

\* A good request is added for an open page.
LEMMA AddedInv ==
    ASSUME PagesInv, NEW d \in Devices, NEW p, NEW k,
           GoodPage(row, births, p), p.open, Known(page[d]) \subseteq Known(p),
           GoodRequest(row, births, k, p), k.dev = d,
           Rest(d, p, net \cup {k}),
           row' = row, births' = births
    PROVE  PagesInv'
  <1> DEFINE N == net \cup {k}
  <1>1. \A m \in N : m \in net \/ (m.dev = d /\ GoodRequest(row, births, m, p))
    OBVIOUS
  <1>2. Rest(d, p, N)
    OBVIOUS
  <1> HIDE DEF N
  <1>3. Leftover(d, p, N)
    BY <1>1, NetLeftover
  <1> QED
    BY <1>2, <1>3, RestInv

\* The requests stay and the page stays open.
LEMMA SameNetInv ==
    ASSUME PagesInv, NEW d \in Devices, NEW p,
           GoodPage(row, births, p), page[d].open => p.open, Known(page[d]) \subseteq Known(p),
           Rest(d, p, net),
           row' = row, births' = births
    PROVE  PagesInv'
  <1>1. Leftover(d, p, net)
    BY NetLeftover
  <1> QED
    BY <1>1, RestInv

\* Opening a document, and asking for its copy, keeps the invariant.
LEMMA OpenInv ==
    ASSUME IndInv, NEW d \in Devices, Open(d) PROVE IndInv'
  <1> USE Bounds DEF IndInv
  <1> DEFINE p == [page[d] EXCEPT !.open = TRUE, !.text = saved, !.base = saved,
                                  !.seen = @ \cup {saved}]
  <1>1. /\ opens < MaxOpens /\ opens' = opens + 1
        /\ UNCHANGED <<does, row, births, edits, saved>>
    BY DEF Open
  <1>2. CountInv'
    BY <1>1 DEF CountInv
  <1>3. GoodPage(row, births, page[d]) /\ page[d] \in Page /\ PageKnows(page[d])
            /\ PageFits(row, births, page[d])
    BY PageFacts
  <1>4. saved \in Contents
    BY DEF CountInv
  <1>5. /\ p \in Page
        /\ p.open = TRUE /\ p.text = saved /\ p.base = saved /\ p.local = page[d].local
        /\ p.meta = page[d].meta /\ p.queue = page[d].queue /\ p.timer = page[d].timer
        /\ p.modal = page[d].modal /\ p.offer = page[d].offer
        /\ Known(p) = Known(page[d]) \cup {saved}
    BY <1>3, <1>4 DEF Page
  <1>6. \/ /\ p.local # 0
           /\ Rest(d, [p EXCEPT !.offer = [text |-> p.local, server |-> FALSE]], net)
        \/ Rest(d, [p EXCEPT !.local = 0, !.exit = "none"], net)
        \/ Rest(d, p, net \cup {NewRequest(d, "recover", saved, None)})
    BY DEF Open
  <1> HIDE DEF p
  <1>7. GoodPage(row, births, p) /\ PageKnows(p) /\ PageFits(row, births, p)
    BY <1>3, <1>5 DEF GoodPage, PageKnows, PageFits
  <1>8. CASE p.local # 0
             /\ Rest(d, [p EXCEPT !.offer = [text |-> p.local, server |-> FALSE]], net)
    <2> DEFINE k == [text |-> p.local, server |-> FALSE]
               q == [p EXCEPT !.offer = k]
    <2>1. k \in [text : Contents, server : BOOLEAN] /\ k.text # 0
      BY <1>5, <1>8 DEF Page
    <2>2. Rest(d, q, net)
      BY <1>8
    <2> HIDE DEF k
    <2>3. /\ q \in Page
          /\ q.open = p.open /\ q.text = p.text /\ q.base = p.base /\ q.local = p.local
          /\ q.meta = p.meta /\ q.queue = p.queue /\ q.timer = p.timer /\ q.modal = p.modal
          /\ q.offer = k /\ Known(q) = Known(p)
      BY <1>5, <2>1 DEF Page
    <2> HIDE DEF q
    <2>4. GoodPage(row, births, q)
      BY <1>7, <2>1, <2>3 DEF GoodPage, PageKnows, PageFits
    <2>5. PagesInv'
      BY <1>1, <1>5, <2>2, <2>3, <2>4, SameNetInv
    <2> QED
      BY <1>1, <1>2, <2>5, UserStep
  <1>9. CASE Rest(d, [p EXCEPT !.local = 0, !.exit = "none"], net)
    <2> DEFINE q == [p EXCEPT !.local = 0, !.exit = "none"]
    <2>1. Rest(d, q, net) /\ 0 \in Contents
      BY <1>9 DEF Contents
    <2>2. /\ q \in Page
          /\ q.open = p.open /\ q.text = p.text /\ q.base = p.base /\ q.local = 0
          /\ q.meta = p.meta /\ q.queue = p.queue /\ q.timer = p.timer /\ q.modal = p.modal
          /\ q.offer = p.offer /\ Known(q) = Known(p)
      BY <1>5, <2>1 DEF Page
    <2> HIDE DEF q
    <2>3. GoodPage(row, births, q)
      BY <1>7, <2>2 DEF GoodPage, PageKnows, PageFits
    <2>4. PagesInv'
      BY <1>1, <1>5, <2>1, <2>2, <2>3, SameNetInv
    <2> QED
      BY <1>1, <1>2, <2>4, UserStep
  <1>10. CASE Rest(d, p, net \cup {NewRequest(d, "recover", saved, None)})
    <2> DEFINE k == NewRequest(d, "recover", saved, None)
    <2>1. MaySend(row, births, p, "recover", saved, None)
      BY <1>4, <1>5 DEF MaySend, Uses
    <2>2. GoodRequest(row, births, k, p) /\ k.dev = d
      BY <2>1, NewRequestGood
    <2>3. Rest(d, p, net \cup {k})
      BY <1>10
    <2> HIDE DEF k
    <2>4. PagesInv'
      BY <1>1, <1>5, <1>7, <2>2, <2>3, AddedInv
    <2> QED
      BY <1>1, <1>2, <2>4, UserStep
  <1> QED
    BY <1>6, <1>8, <1>9, <1>10

\* The question after opening is closed.
LEMMA NoOfferGood ==
    ASSUME NEW r, NEW b, NEW p, GoodPage(r, b, p)
    PROVE  /\ GoodPage(r, b, [p EXCEPT !.offer = None])
           /\ [p EXCEPT !.offer = None].open = p.open
           /\ Known([p EXCEPT !.offer = None]) = Known(p)
  <1> DEFINE q == [p EXCEPT !.offer = None]
  <1>1. p \in Page /\ PageKnows(p) /\ PageFits(r, b, p)
    BY DEF GoodPage
  <1>2. /\ q \in Page
        /\ q.open = p.open /\ q.text = p.text /\ q.base = p.base /\ q.local = p.local
        /\ q.meta = p.meta /\ q.queue = p.queue /\ q.timer = p.timer /\ q.modal = p.modal
        /\ q.offer = None /\ Known(q) = Known(p)
    BY <1>1 DEF Page
  <1> HIDE DEF q
  <1>3. GoodPage(r, b, q)
    BY <1>1, <1>2 DEF GoodPage, PageKnows, PageFits
  <1> QED
    BY <1>2, <1>3 DEF q

\* A copy taken into the form is queued, and keeps the invariant.
LEMMA RestoreInv ==
    ASSUME IndInv, NEW d \in Devices, Restore(d) PROVE IndInv'
  <1> USE DEF IndInv
  <1> DEFINE p == [page[d] EXCEPT !.offer = None]
             t == page[d].offer.text
             q == Autosaved(p, t)
  <1>1. /\ page[d].open /\ page[d].offer # None
        /\ Rest(d, q, net)
        /\ UNCHANGED <<does, row, births, edits, opens, saved>>
    BY DEF Restore, Acts
  <1>2. t \in Contents /\ t # 0
    BY <1>1, PageFacts, PageTyped DEF PageKnows
  <1>3. GoodPage(row, births, p) /\ p.open /\ Known(p) = Known(page[d])
    BY <1>1, PageFacts, NoOfferGood
  <1> HIDE DEF p, t
  <1>4. GoodPage(row, births, q) /\ q.open /\ Known(page[d]) \subseteq Known(q)
    BY <1>2, <1>3, AutosavedGood
  <1> HIDE DEF q
  <1>5. PagesInv'
    BY <1>1, <1>4, SameNetInv
  <1> QED
    BY <1>1, <1>5, UserStep DEF CountInv

\* Closing the question about a copy keeps the invariant.
LEMMA DismissInv ==
    ASSUME IndInv, NEW d \in Devices, Dismiss(d) PROVE IndInv'
  <1> USE DEF IndInv
  <1> DEFINE p == [page[d] EXCEPT !.offer = None]
  <1>1. /\ page[d].open
        /\ Rest(d, p, net)
        /\ UNCHANGED <<does, row, births, edits, opens, saved>>
    BY DEF Dismiss, Acts
  <1>2. GoodPage(row, births, p) /\ p.open /\ Known(p) = Known(page[d])
    BY <1>1, PageFacts, NoOfferGood
  <1> HIDE DEF p
  <1>3. PagesInv'
    BY <1>1, <1>2, SameNetInv
  <1> QED
    BY <1>1, <1>3, UserStep DEF CountInv

\* An answer that does not count as current is good all the same.
LEMMA ForgottenGood ==
    ASSUME PagesInv, NEW d \in Devices, page[d].open
    PROVE  \A k \in Forgotten(d, net) :
               \/ k \in net
               \/ k.dev = d /\ GoodRequest(row, births, k, page[d])
  <1> SUFFICES ASSUME NEW m \in net, m.dev = d
               PROVE  LET k == [m EXCEPT !.current = FALSE] IN
                      k.dev = d /\ GoodRequest(row, births, k, page[d])
    BY DEF Forgotten
  <1> DEFINE k == [m EXCEPT !.current = FALSE]
  <1>1. m \in Request /\ RequestKnows(m, page[d]) /\ Tells(m) /\ RequestFits(row, births, m)
    BY NetFacts
  <1>2. /\ k \in Request
        /\ k.dev = m.dev /\ k.use = m.use /\ k.text = m.text /\ k.cond = m.cond
        /\ k.awaited = m.awaited /\ k.pc = m.pc /\ k.status = m.status /\ k.told = m.told
        /\ k.read = m.read
    BY <1>1 DEF Request
  <1> HIDE DEF k
  <1>3. GoodRequest(row, births, k, page[d])
    BY <1>1, <1>2 DEF GoodRequest, RequestKnows, Tells, RequestFits
  <1> QED
    BY <1>2, <1>3 DEF k

\* Discarding the copy, here and on the server, keeps the invariant.
LEMMA DiscardInv ==
    ASSUME IndInv, NEW d \in Devices, Discard(d) PROVE IndInv'
  <1> USE DEF IndInv
  <1> DEFINE o == page[d]
             p == [o EXCEPT !.offer = None, !.local = 0, !.exit = "none",
                            !.dropped = o.text, !.queue = 0, !.timer = FALSE,
                            !.tried = FALSE, !.latched = FALSE]
             n == Forgotten(d, net)
             s == [p EXCEPT !.meta = None]
             k == NewRequest(d, "remove", 0, None)
  <1>1. /\ o.open
        /\ \/ Rest(d, s, n \cup {k})
           \/ Rest(d, p, n)
        /\ UNCHANGED <<does, row, births, edits, opens, saved>>
    BY DEF Discard, Acts
  <1>2. o \in Page /\ PageKnows(o) /\ PageFits(row, births, o)
    BY PageFacts
  <1>3. 0 \in Contents
    BY Bounds DEF Contents
  <1>4. /\ p \in Page
        /\ p.open = o.open /\ p.text = o.text /\ p.base = o.base /\ p.local = 0
        /\ p.meta = o.meta /\ p.queue = 0 /\ p.timer = FALSE /\ p.modal = o.modal
        /\ p.offer = None /\ Known(p) = Known(o)
    BY <1>2, <1>3 DEF Page
  <1> HIDE DEF p
  <1>5. GoodPage(row, births, p) /\ PageKnows(p) /\ PageFits(row, births, p)
    BY <1>2, <1>4 DEF GoodPage, PageKnows, PageFits
  <1>6. /\ s \in Page
        /\ s.open = p.open /\ s.text = p.text /\ s.base = p.base /\ s.local = p.local
        /\ s.meta = None /\ s.queue = p.queue /\ s.timer = p.timer /\ s.modal = p.modal
        /\ s.offer = p.offer /\ Known(s) = Known(p)
    BY <1>4 DEF Page
  <1> HIDE DEF s
  <1>7. GoodPage(row, births, s)
    BY <1>5, <1>6 DEF GoodPage, PageKnows, PageFits
  <1>8. \A m \in n : m \in net \/ (m.dev = d /\ GoodRequest(row, births, m, o))
    BY <1>1, ForgottenGood
  <1> HIDE DEF n
  <1>9. \A m \in n : m \in net \/ (m.dev = d /\ GoodRequest(row, births, m, p))
    BY <1>1, <1>4, <1>8, RequestKept
  <1>10. \A m \in n : m \in net \/ (m.dev = d /\ GoodRequest(row, births, m, s))
    BY <1>1, <1>4, <1>6, <1>8, RequestKept
  <1>11. MaySend(row, births, s, "remove", 0, None)
    BY <1>1, <1>3, <1>4, <1>6 DEF MaySend, Uses
  <1>12. GoodRequest(row, births, k, s) /\ k.dev = d
    BY <1>11, NewRequestGood
  <1> HIDE DEF k, o
  <1>13. CASE Rest(d, s, n \cup {k})
    <2> DEFINE N == n \cup {k}
    <2>1. \A m \in N : m \in net \/ (m.dev = d /\ GoodRequest(row, births, m, s))
      BY <1>10, <1>12
    <2>2. Rest(d, s, N)
      BY <1>13
    <2> HIDE DEF N
    <2>3. page[d].open /\ s.open /\ Known(page[d]) \subseteq Known(s)
      BY <1>1, <1>4, <1>6 DEF o
    <2>4. Leftover(d, s, N)
      BY <2>1, <2>3, NetLeftover
    <2>5. PagesInv'
      BY <1>1, <1>7, <2>2, <2>3, <2>4, RestInv
    <2> QED
      BY <1>1, <2>5, UserStep DEF CountInv
  <1>14. CASE Rest(d, p, n)
    <2>1. page[d].open /\ p.open /\ Known(page[d]) \subseteq Known(p)
      BY <1>1, <1>4 DEF o
    <2>2. Leftover(d, p, n)
      BY <1>9, <2>1, NetLeftover
    <2>3. PagesInv'
      BY <1>1, <1>5, <1>14, <2>1, <2>2, RestInv
    <2> QED
      BY <1>1, <2>3, UserStep DEF CountInv
  <1> QED
    BY <1>1, <1>13, <1>14

\* Saving the document, and removing its copy, keeps the invariant.
LEMMA SaveInv ==
    ASSUME IndInv, NEW d \in Devices, Save(d) PROVE IndInv'
  <1> USE DEF IndInv
  <1> DEFINE o == page[d]
             p == [o EXCEPT !.base = o.text, !.local = 0, !.exit = "none",
                            !.dropped = 0, !.offer = None]
             s == [p EXCEPT !.meta = None]
             k == NewRequest(d, "remove", 0, None)
  <1>1. /\ o.open
        /\ saved' = o.text
        /\ \/ Rest(d, s, net \cup {k})
           \/ Rest(d, p, net)
        /\ UNCHANGED <<does, row, births, edits, opens>>
    BY DEF Save, Acts
  <1>2. o \in Page /\ PageKnows(o) /\ PageFits(row, births, o) /\ o.text \in Contents
    BY PageFacts, PageTyped
  <1>3. 0 \in Contents
    BY Bounds DEF Contents
  <1>4. CountInv'
    BY <1>1, <1>2 DEF CountInv
  <1>5. /\ p \in Page
        /\ p.open = o.open /\ p.text = o.text /\ p.base = o.text /\ p.local = 0
        /\ p.meta = o.meta /\ p.queue = o.queue /\ p.timer = o.timer /\ p.modal = o.modal
        /\ p.offer = None /\ Known(p) = Known(o)
    BY <1>2, <1>3 DEF Page
  <1> HIDE DEF p
  <1>6. GoodPage(row, births, p) /\ PageKnows(p) /\ PageFits(row, births, p)
    BY <1>2, <1>5 DEF GoodPage, PageKnows, PageFits
  <1>7. /\ s \in Page
        /\ s.open = p.open /\ s.text = p.text /\ s.base = p.base /\ s.local = p.local
        /\ s.meta = None /\ s.queue = p.queue /\ s.timer = p.timer /\ s.modal = p.modal
        /\ s.offer = p.offer /\ Known(s) = Known(p)
    BY <1>5 DEF Page
  <1> HIDE DEF s
  <1>8. GoodPage(row, births, s)
    BY <1>6, <1>7 DEF GoodPage, PageKnows, PageFits
  <1>9. MaySend(row, births, s, "remove", 0, None)
    BY <1>1, <1>3, <1>5, <1>7 DEF MaySend, Uses
  <1>10. GoodRequest(row, births, k, s) /\ k.dev = d
    BY <1>9, NewRequestGood
  <1> HIDE DEF k
  <1>11. CASE Rest(d, s, net \cup {k})
    <2>1. PagesInv'
      BY <1>1, <1>5, <1>7, <1>8, <1>10, <1>11, AddedInv
    <2> QED
      BY <1>1, <1>4, <2>1, UserStep
  <1>12. CASE Rest(d, p, net)
    <2>1. PagesInv'
      BY <1>1, <1>5, <1>6, <1>12, SameNetInv
    <2> QED
      BY <1>1, <1>4, <2>1, UserStep
  <1> QED
    BY <1>1, <1>11, <1>12

\* The user has been told of the copy that the local one is to replace.
LEMMA KeepLocalInv ==
    ASSUME IndInv, NEW d \in Devices, KeepLocal(d) PROVE IndInv'
  <1> USE DEF IndInv
  <1> DEFINE o == page[d]
             told == o.modal.told
             t == o.modal.text
             q == [o EXCEPT !.modal = None, !.latched = FALSE, !.meta = told,
                            !.seen = @ \cup {told.text}]
             k == NewRequest(d, "keep", t, told)
  <1>1. /\ o.open /\ o.modal # None
        /\ Rest(d, q, net \cup {k})
        /\ UNCHANGED <<does, row, births, edits, opens, saved>>
    BY DEF KeepLocal, Acts
  <1>2. o \in Page /\ PageKnows(o) /\ PageFits(row, births, o)
    BY PageFacts
  <1>3. told \in Copy /\ t \in Contents
    BY <1>1, <1>2 DEF Page
  <1>4. Fits(row, births, told) /\ t \in Known(o) \ {0}
    BY <1>1, <1>2 DEF PageKnows, PageFits
  <1>5. told.text \in Contents /\ told # None
    BY <1>3, NoneAssumption DEF Copy
  <1> HIDE DEF told, t
  <1>6. /\ q \in Page
        /\ q.open = o.open /\ q.text = o.text /\ q.base = o.base /\ q.local = o.local
        /\ q.meta = told /\ q.queue = o.queue /\ q.timer = o.timer /\ q.modal = None
        /\ q.offer = o.offer /\ Known(q) = Known(o) \cup {told.text}
    BY <1>2, <1>3, <1>5 DEF Page
  <1> HIDE DEF q
  <1>7. GoodPage(row, births, q)
    BY <1>2, <1>4, <1>6 DEF GoodPage, PageKnows, PageFits
  <1>8. MaySend(row, births, q, "keep", t, told)
    BY <1>1, <1>3, <1>4, <1>5, <1>6 DEF MaySend, Uses
  <1>9. GoodRequest(row, births, k, q) /\ k.dev = d
    BY <1>8, NewRequestGood
  <1> HIDE DEF k
  <1>10. PagesInv'
    BY <1>1, <1>6, <1>7, <1>9, AddedInv
  <1> QED
    BY <1>1, <1>10, UserStep DEF CountInv

\* Asking for the copy of the server, after a conflict, keeps the invariant.
LEMMA AdoptServerInv ==
    ASSUME IndInv, NEW d \in Devices, AdoptServer(d) PROVE IndInv'
  <1> USE DEF IndInv
  <1> DEFINE o == page[d]
             q == [o EXCEPT !.modal = None, !.latched = FALSE]
             k == NewRequest(d, "adopt", 0, None)
  <1>1. /\ o.open
        /\ Rest(d, q, net \cup {k})
        /\ UNCHANGED <<does, row, births, edits, opens, saved>>
    BY DEF AdoptServer, Acts
  <1>2. o \in Page /\ PageKnows(o) /\ PageFits(row, births, o)
    BY PageFacts
  <1>3. 0 \in Contents
    BY Bounds DEF Contents
  <1>4. /\ q \in Page
        /\ q.open = o.open /\ q.text = o.text /\ q.base = o.base /\ q.local = o.local
        /\ q.meta = o.meta /\ q.queue = o.queue /\ q.timer = o.timer /\ q.modal = None
        /\ q.offer = o.offer /\ Known(q) = Known(o)
    BY <1>2 DEF Page
  <1> HIDE DEF q
  <1>5. GoodPage(row, births, q)
    BY <1>2, <1>4 DEF GoodPage, PageKnows, PageFits
  <1>6. MaySend(row, births, q, "adopt", 0, None)
    BY <1>1, <1>3, <1>4 DEF MaySend, Uses
  <1>7. GoodRequest(row, births, k, q) /\ k.dev = d
    BY <1>6, NewRequestGood
  <1> HIDE DEF k
  <1>8. PagesInv'
    BY <1>1, <1>4, <1>5, <1>7, AddedInv
  <1> QED
    BY <1>1, <1>8, UserStep DEF CountInv

\* Closing the modal of a conflict keeps the invariant.
LEMMA CloseModalInv ==
    ASSUME IndInv, NEW d \in Devices, CloseModal(d) PROVE IndInv'
  <1> USE DEF IndInv
  <1> DEFINE o == page[d]
             q == [o EXCEPT !.modal = None]
  <1>1. /\ o.open
        /\ Rest(d, q, net)
        /\ UNCHANGED <<does, row, births, edits, opens, saved>>
    BY DEF CloseModal, Acts
  <1>2. o \in Page /\ PageKnows(o) /\ PageFits(row, births, o)
    BY PageFacts
  <1>3. /\ q \in Page
        /\ q.open = o.open /\ q.text = o.text /\ q.base = o.base /\ q.local = o.local
        /\ q.meta = o.meta /\ q.queue = o.queue /\ q.timer = o.timer /\ q.modal = None
        /\ q.offer = o.offer /\ Known(q) = Known(o)
    BY <1>2 DEF Page
  <1> HIDE DEF q
  <1>4. GoodPage(row, births, q)
    BY <1>2, <1>3 DEF GoodPage, PageKnows, PageFits
  <1>5. PagesInv'
    BY <1>1, <1>3, <1>4, SameNetInv
  <1> QED
    BY <1>1, <1>5, UserStep DEF CountInv

\* Every step of a user keeps the invariant.
LEMMA UserInv ==
    ASSUME IndInv, NEW d \in Devices, User(d) PROVE IndInv'
  BY EditInv, FlushInv, LeaveInv, OpenInv, RestoreInv, DiscardInv, DismissInv, SaveInv,
     KeepLocalInv, AdoptServerInv, CloseModalInv DEF User


-----------------------------------------------------------------------------
(***************************************************************************)
(* Answers.                                                                *)
(***************************************************************************)

\* What is known of a request that is answered: its page is open, and the
\* copy that it is told of.
LEMMA AnsweredFacts ==
    ASSUME PagesInv, NEW m \in net, NEW s, Answered(m, s)
    PROVE  /\ page[m.dev].open
           /\ m.told # None => m.told \in Copy /\ Fits(row, births, m.told)
           /\ m.cond # None => m.cond \in Copy /\ Fits(row, births, m.cond)
           /\ s = "ok" /\ m.use # "remove" => m.told # None /\ m.told.text # 0
           /\ s = "ok" /\ m.use \in {"push", "keep"} => m.told.text = m.text
           /\ s = "conflict" => m.told # None
           /\ m.use \in {"push", "keep", "heal"} => m.text \in Known(page[m.dev]) \ {0}
           /\ m.use = "heal" => m.cond # None
           /\ m.text \in Contents
  <1>1. m \in Request /\ RequestKnows(m, page[m.dev]) /\ Tells(m) /\ RequestFits(row, births, m)
    BY NetFacts
  <1>2. /\ m.text \in Contents
        /\ m.told # None => m.told \in Copy
        /\ m.cond # None => m.cond \in Copy
    BY <1>1 DEF Request
  <1>3. m.awaited /\ m.pc = "done" /\ m.status = s
    BY DEF Answered
  <1> QED
    BY <1>1, <1>2, <1>3 DEF RequestKnows, Tells, RequestFits

\* An answer is heard: its request is gone from those on their way.
LEMMA HeardInv ==
    ASSUME PagesInv, NEW m \in net, page[m.dev].open, NEW q,
           GoodPage(row, births, q), q.open, Known(page[m.dev]) \subseteq Known(q),
           Run(m.dev, q, net \ {m}) \/ Rest(m.dev, q, net \ {m}),
           row' = row, births' = births
    PROVE  PagesInv'
  <1> DEFINE d == m.dev
             n == net \ {m}
  <1>1. d \in Devices
    BY NetFacts
  <1>2. \A k \in n : k \in net \/ (k.dev = d /\ GoodRequest(row, births, k, q))
    OBVIOUS
  <1>3. Run(d, q, n) \/ Rest(d, q, n)
    OBVIOUS
  <1>4. page[d].open /\ Known(page[d]) \subseteq Known(q)
    OBVIOUS
  <1> HIDE DEF d, n
  <1>5. Leftover(d, q, n)
    BY <1>1, <1>2, <1>4, NetLeftover
  <1>6. CASE Run(d, q, n)
    BY <1>1, <1>2, <1>4, <1>6, RunInv
  <1>7. CASE Rest(d, q, n)
    BY <1>1, <1>4, <1>5, <1>7, RestInv
  <1> QED
    BY <1>3, <1>6, <1>7

\* An answer is heard that sets off another request.
LEMMA FollowedInv ==
    ASSUME PagesInv, NEW m \in net, page[m.dev].open, NEW q, NEW k,
           GoodPage(row, births, q), q.open, Known(page[m.dev]) \subseteq Known(q),
           GoodRequest(row, births, k, q), k.dev = m.dev,
           Rest(m.dev, q, (net \ {m}) \cup {k}),
           row' = row, births' = births
    PROVE  PagesInv'
  <1> DEFINE d == m.dev
             n == (net \ {m}) \cup {k}
  <1>1. d \in Devices
    BY NetFacts
  <1>2. \A i \in n : i \in net \/ (i.dev = d /\ GoodRequest(row, births, i, q))
    OBVIOUS
  <1>3. Rest(d, q, n)
    OBVIOUS
  <1>4. page[d].open /\ Known(page[d]) \subseteq Known(q)
    OBVIOUS
  <1> HIDE DEF d, n
  <1>5. Leftover(d, q, n)
    BY <1>1, <1>2, <1>4, NetLeftover
  <1> QED
    BY <1>1, <1>3, <1>4, <1>5, RestInv

\* The page that hears of a stored copy knows the new version.
LEMMA PutOkInv ==
    ASSUME PagesInv, NEW m \in net, PutOk(m), row' = row, births' = births
    PROVE  PagesInv'
  <1> DEFINE d == m.dev
             q == SaveMeta(page[d], m.told)
  <1>1. Answered(m, "ok") /\ m.use \in {"push", "keep"} /\ m.use # "remove"
    BY DEF PutOk
  <1>2. /\ page[d].open
        /\ m.told \in Copy /\ Fits(row, births, m.told) /\ m.told.text \in Known(page[d])
    BY <1>1, AnsweredFacts
  <1>3. Run(d, q, net \ {m}) \/ Rest(d, q, net \ {m})
    BY DEF PutOk
  <1>4. GoodPage(row, births, page[d])
    BY NetFacts, PageFacts
  <1>5. GoodPage(row, births, q) /\ q.open /\ Known(page[d]) \subseteq Known(q)
    BY <1>2, <1>4, SaveMetaGood
  <1> HIDE DEF q
  <1> QED
    BY <1>2, <1>3, <1>5, HeardInv

\* A page forgets the version it knows, and does what it does with another.
LEMMA NoMetaGood ==
    ASSUME NEW r, NEW b, NEW p, GoodPage(r, b, p)
    PROVE  /\ GoodPage(r, b, [p EXCEPT !.meta = None])
           /\ [p EXCEPT !.meta = None].open = p.open
           /\ Known([p EXCEPT !.meta = None]) = Known(p)
  <1> DEFINE q == [p EXCEPT !.meta = None]
  <1>1. p \in Page /\ PageKnows(p) /\ PageFits(r, b, p)
    BY DEF GoodPage
  <1>2. /\ q \in Page
        /\ q.open = p.open /\ q.text = p.text /\ q.base = p.base /\ q.local = p.local
        /\ q.meta = None /\ q.queue = p.queue /\ q.timer = p.timer /\ q.modal = p.modal
        /\ q.offer = p.offer /\ Known(q) = Known(p)
    BY <1>1 DEF Page
  <1> HIDE DEF q
  <1>3. GoodPage(r, b, q)
    BY <1>1, <1>2 DEF GoodPage, PageKnows, PageFits
  <1> QED
    BY <1>2, <1>3 DEF q

\* The page that hears that the copy is gone forgets its version.
LEMMA PutGoneInv ==
    ASSUME PagesInv, NEW m \in net, PutGone(m), row' = row, births' = births
    PROVE  PagesInv'
  <1> DEFINE p == page[m.dev]
             q == [p EXCEPT !.meta = None]
             k == [m EXCEPT !.cond = None, !.pc = "start", !.status = "none"]
  <1>1. Answered(m, "gone") /\ m.use \in {"push", "keep"}
    BY DEF PutGone
  <1>2. p.open
    BY <1>1, AnsweredFacts
  <1>3. Rest(m.dev, q, (net \ {m}) \cup {k})
    BY DEF PutGone
  <1>4. GoodPage(row, births, p)
    BY NetFacts, PageFacts
  <1>5. GoodPage(row, births, q) /\ q.open /\ Known(q) = Known(p)
    BY <1>2, <1>4, NoMetaGood
  <1> HIDE DEF q
  <1>6. m \in Request /\ RequestKnows(m, p) /\ Tells(m) /\ RequestFits(row, births, m)
    BY NetFacts
  <1>7. /\ k \in Request
        /\ k.dev = m.dev /\ k.use = m.use /\ k.text = m.text /\ k.cond = None
        /\ k.awaited = m.awaited /\ k.pc = "start" /\ k.told = m.told
    BY <1>6 DEF Request, Statuses
  <1> HIDE DEF k
  <1>8. GoodRequest(row, births, k, q)
    BY <1>1, <1>5, <1>6, <1>7 DEF GoodRequest, RequestKnows, Tells, RequestFits
  <1> QED
    BY <1>2, <1>3, <1>5, <1>7, <1>8, FollowedInv

\* One field of a page that the invariant does not speak of.
LEMMA TriedGood ==
    ASSUME NEW r, NEW b, NEW p, GoodPage(r, b, p), NEW t \in BOOLEAN
    PROVE  /\ GoodPage(r, b, [p EXCEPT !.tried = t])
           /\ [p EXCEPT !.tried = t].open = p.open
           /\ Known([p EXCEPT !.tried = t]) = Known(p)
  <1> DEFINE q == [p EXCEPT !.tried = t]
  <1>1. p \in Page /\ PageKnows(p) /\ PageFits(r, b, p)
    BY DEF GoodPage
  <1>2. /\ q \in Page
        /\ q.open = p.open /\ q.text = p.text /\ q.base = p.base /\ q.local = p.local
        /\ q.meta = p.meta /\ q.queue = p.queue /\ q.timer = p.timer /\ q.modal = p.modal
        /\ q.offer = p.offer /\ Known(q) = Known(p)
    BY <1>1 DEF Page
  <1> HIDE DEF q
  <1>3. GoodPage(r, b, q)
    BY <1>1, <1>2 DEF GoodPage, PageKnows, PageFits
  <1> QED
    BY <1>2, <1>3 DEF q

\* The page that hears of a conflict is told the copy of the server.
LEMMA PutConflictInv ==
    ASSUME PagesInv, NEW m \in net, PutConflict(m), row' = row, births' = births
    PROVE  PagesInv'
  <1> DEFINE d == m.dev
             p == page[m.dev]
             w == NewRequest(m.dev, "heal", m.text, m.told)
             k == [w EXCEPT !.current = m.current]
             s == [p EXCEPT !.tried = TRUE]
             t == [p EXCEPT !.tried = @ \/ ~p.latched]
             q == Reported(t, m.text, m.told)
  <1>1. Answered(m, "conflict")
    BY DEF PutConflict
  <1>2. /\ p.open
        /\ m.told # None /\ m.told \in Copy /\ Fits(row, births, m.told)
        /\ m.text \in Contents
        /\ m.use \in {"push", "keep", "heal"} => m.text \in Known(p) \ {0}
    BY <1>1, AnsweredFacts
  <1>3. \/ Rest(d, p, net \ {m})
        \/ m.use = "push" /\ Rest(d, s, (net \ {m}) \cup {k})
        \/ m.use = "push" /\ Run(d, q, net \ {m})
    BY DEF PutConflict
  <1>4. GoodPage(row, births, p) /\ d \in Devices /\ m \in Request /\ p \in Page
    BY NetFacts, PageFacts
  <1>5. CASE Rest(d, p, net \ {m})
    BY <1>2, <1>4, <1>5, HeardInv
  <1>6. CASE m.use = "push" /\ Rest(d, s, (net \ {m}) \cup {k})
    <2> DEFINE v == TRUE
    <2>0. v \in BOOLEAN /\ s = [p EXCEPT !.tried = v]
      OBVIOUS
    <2> HIDE DEF s, v
    <2>1. GoodPage(row, births, s) /\ s.open /\ Known(s) = Known(p)
      BY <1>2, <1>4, <2>0, TriedGood
    <2>2. MaySend(row, births, s, "heal", m.text, m.told)
      BY <1>2, <1>6, <2>1 DEF MaySend, Uses
    <2>3. GoodRequest(row, births, w, s) /\ w.dev = d
      BY <1>4, <2>2, NewRequestGood
    <2> HIDE DEF w
    <2>4. m.current \in BOOLEAN
      BY <1>4 DEF Request
    <2>5. w \in Request
      BY <2>3 DEF GoodRequest
    <2>6. /\ k \in Request
          /\ k.dev = w.dev /\ k.use = w.use /\ k.text = w.text /\ k.cond = w.cond
          /\ k.awaited = w.awaited /\ k.pc = w.pc /\ k.status = w.status /\ k.told = w.told
          /\ k.read = w.read
      BY <2>4, <2>5 DEF Request
    <2>7. Rest(d, s, (net \ {m}) \cup {k})
      BY <1>6
    <2> HIDE DEF k
    <2>8. GoodRequest(row, births, k, s)
      BY <2>3, <2>6 DEF GoodRequest, RequestKnows, Tells, RequestFits
    <2> QED
      BY <1>2, <2>1, <2>3, <2>6, <2>7, <2>8, FollowedInv
  <1>7. CASE m.use = "push" /\ Run(d, q, net \ {m})
    <2> DEFINE v == p.tried \/ ~p.latched
    <2>1. v \in BOOLEAN /\ t = [p EXCEPT !.tried = v]
      BY <1>4 DEF Page
    <2> HIDE DEF v
    <2>2. GoodPage(row, births, [p EXCEPT !.tried = v])
          /\ [p EXCEPT !.tried = v].open = p.open /\ Known([p EXCEPT !.tried = v]) = Known(p)
      BY <1>4, <2>1, TriedGood
    <2>3. GoodPage(row, births, t) /\ t.open /\ Known(t) = Known(p)
      BY <1>2, <2>1, <2>2
    <2> HIDE DEF t
    <2>4. GoodPage(row, births, q) /\ q.open /\ Known(q) = Known(p)
      BY <1>2, <1>7, <2>3, ReportedGood
    <2> HIDE DEF q
    <2> QED
      BY <1>2, <1>7, <2>4, HeardInv
  <1> QED
    BY <1>3, <1>5, <1>6, <1>7

\* An attempt to settle a conflict has failed: the user is asked.
LEMMA AskedInv ==
    ASSUME PagesInv, NEW m \in net, m.use = "heal", m.awaited,
           Run(m.dev, Reported(page[m.dev], m.text, m.cond), net \ {m}),
           row' = row, births' = births
    PROVE  PagesInv'
  <1> DEFINE p == page[m.dev]
             q == Reported(p, m.text, m.cond)
  <1>1. m \in Request /\ RequestKnows(m, p) /\ Tells(m) /\ RequestFits(row, births, m)
    BY NetFacts
  <1>2. /\ p.open
        /\ m.cond \in Copy /\ Fits(row, births, m.cond)
        /\ m.text \in Known(p) \ {0}
    BY <1>1 DEF RequestKnows, Tells, RequestFits, Request
  <1>3. GoodPage(row, births, p)
    BY NetFacts, PageFacts
  <1>4. GoodPage(row, births, q) /\ q.open /\ Known(q) = Known(p)
    BY <1>2, <1>3, ReportedGood
  <1>5. Run(m.dev, q, net \ {m})
    OBVIOUS
  <1> HIDE DEF q
  <1> QED
    BY <1>2, <1>4, <1>5, HeardInv

\* The page that looks again after a conflict takes over the row's version.
LEMMA HealOkInv ==
    ASSUME PagesInv, NEW m \in net, HealOk(m), row' = row, births' = births
    PROVE  PagesInv'
  <1> DEFINE p == page[m.dev]
             q == [p EXCEPT !.meta = m.told, !.queue = m.text]
  <1>1. Answered(m, "ok") /\ m.use = "heal" /\ m.awaited
    BY DEF HealOk, Answered
  <1>2. /\ p.open
        /\ m.told # None /\ m.told \in Copy /\ Fits(row, births, m.told)
        /\ m.text \in Contents /\ m.text \in Known(p) \ {0}
    BY <1>1, AnsweredFacts
  <1>3. p \in Page /\ PageKnows(p) /\ PageFits(row, births, p)
    BY NetFacts, PageFacts
  <1>4. CASE Heals(p, m) /\ AfterHeal(m, q)
    <2>1. m.told.text = m.text
      BY <1>4 DEF Heals
    <2>2. /\ q \in Page
          /\ q.open = p.open /\ q.text = p.text /\ q.base = p.base /\ q.local = p.local
          /\ q.meta = m.told /\ q.queue = m.text /\ q.timer = p.timer /\ q.modal = p.modal
          /\ q.offer = p.offer /\ Known(q) = Known(p)
      BY <1>2, <1>3 DEF Page
    <2>3. Run(m.dev, q, net \ {m})
      BY <1>4 DEF AfterHeal
    <2> HIDE DEF q
    <2>4. GoodPage(row, births, q)
      BY <1>2, <1>3, <2>1, <2>2 DEF GoodPage, PageKnows, PageFits
    <2> QED
      BY <1>2, <2>2, <2>3, <2>4, HeardInv
  <1>5. CASE AfterHeal(m, Reported(p, m.text, m.cond))
    BY <1>1, <1>5, AskedInv DEF AfterHeal
  <1> QED
    BY <1>4, <1>5 DEF HealOk

\* The page that looks again and finds nothing reports the conflict it was told.
LEMMA HealGoneInv ==
    ASSUME PagesInv, NEW m \in net, HealGone(m), row' = row, births' = births
    PROVE  PagesInv'
  BY AskedInv DEF HealGone, AfterHeal, Answered

\* A copy that is offered is shown to the user.
LEMMA RecoverOkInv ==
    ASSUME PagesInv, NEW m \in net, RecoverOk(m), row' = row, births' = births
    PROVE  PagesInv'
  <1> DEFINE o == page[m.dev]
             c == Later(o.meta, m.told)
             p == [o EXCEPT !.meta = c]
             k == NewRequest(m.dev, "remove", 0, None)
  <1>1. Answered(m, "ok") /\ m.use = "recover"
    BY DEF RecoverOk
  <1>2. /\ o.open
        /\ m.told \in Copy /\ Fits(row, births, m.told) /\ m.told.text # 0
    BY <1>1, AnsweredFacts
  <1>3. o \in Page /\ PageKnows(o) /\ PageFits(row, births, o) /\ m.dev \in Devices
            /\ GoodPage(row, births, o)
    BY NetFacts, PageFacts
  <1>4. \/ Rest(m.dev, [p EXCEPT !.meta = None], (net \ {m}) \cup {k})
        \/ Rest(m.dev, [p EXCEPT !.offer = [text |-> m.told.text, server |-> TRUE],
                                 !.shown = @ \cup {m.told.text}], net \ {m})
        \/ m.told.text = o.text /\ Rest(m.dev, SaveMeta(o, m.told), net \ {m})
    BY DEF RecoverOk, SaveMeta
  <1>5. CASE Rest(m.dev, [p EXCEPT !.meta = None], (net \ {m}) \cup {k})
    <2> DEFINE q == [o EXCEPT !.meta = None]
    <2>1. q = [p EXCEPT !.meta = None]
      BY <1>3 DEF Page
    <2>2. GoodPage(row, births, q) /\ q.open /\ Known(q) = Known(o)
      BY <1>2, <1>3, NoMetaGood
    <2>3. Rest(m.dev, q, (net \ {m}) \cup {k})
      BY <1>5, <2>1
    <2> HIDE DEF q
    <2>4. MaySend(row, births, q, "remove", 0, None)
      BY <2>2, Bounds DEF MaySend, Uses, Contents
    <2>5. GoodRequest(row, births, k, q) /\ k.dev = m.dev
      BY <1>3, <2>4, NewRequestGood
    <2> HIDE DEF k
    <2> QED
      BY <1>2, <2>2, <2>3, <2>5, FollowedInv
  <1>6. CASE Rest(m.dev, [p EXCEPT !.offer = [text |-> m.told.text, server |-> TRUE],
                                   !.shown = @ \cup {m.told.text}], net \ {m})
    <2> DEFINE t == m.told.text
               f == [text |-> t, server |-> TRUE]
               q == [p EXCEPT !.offer = f, !.shown = @ \cup {t}]
    <2>1. t \in Contents /\ t # 0
      BY <1>2 DEF Copy
    <2>2. f \in [text : Contents, server : BOOLEAN] /\ f.text # 0
      BY <2>1
    <2>3. Rest(m.dev, q, net \ {m})
      BY <1>6
    <2>4. c = m.told \/ (c = o.meta /\ o.meta # None)
      BY DEF Later
    <2>5. c \in Copy \cup {None}
      BY <1>2, <1>3, <2>4 DEF Page
    <2>6. c # None => (c.text \in Known(o) \/ c.text = t) /\ Fits(row, births, c)
      BY <1>2, <1>3, <2>4 DEF PageKnows, PageFits
    <2> HIDE DEF c, t, f
    <2>7. /\ q \in Page
          /\ q.open = o.open /\ q.text = o.text /\ q.base = o.base /\ q.local = o.local
          /\ q.meta = c /\ q.queue = o.queue /\ q.timer = o.timer /\ q.modal = o.modal
          /\ q.offer = f /\ Known(q) = Known(o) \cup {t}
      BY <1>3, <2>1, <2>2, <2>5 DEF Page
    <2> HIDE DEF q
    <2>8. GoodPage(row, births, q)
      BY <1>3, <2>2, <2>6, <2>7 DEF GoodPage, PageKnows, PageFits
    <2> QED
      BY <1>2, <2>3, <2>7, <2>8, HeardInv
  <1>7. CASE m.told.text = o.text /\ Rest(m.dev, SaveMeta(o, m.told), net \ {m})
    <2> DEFINE q == SaveMeta(o, m.told)
    <2>1. m.told.text \in Known(o)
      BY <1>2, <1>3, <1>7 DEF PageKnows
    <2>2. GoodPage(row, births, q) /\ q.open /\ Known(q) = Known(o)
      BY <1>2, <1>3, <2>1, SaveMetaGood
    <2>3. Rest(m.dev, q, net \ {m})
      BY <1>7
    <2> HIDE DEF q
    <2> QED
      BY <1>2, <2>2, <2>3, HeardInv
  <1> QED
    BY <1>4, <1>5, <1>6, <1>7

\* The copy of the server goes into the form.
LEMMA AdoptOkInv ==
    ASSUME PagesInv, NEW m \in net, AdoptOk(m), row' = row, births' = births
    PROVE  PagesInv'
  <1> DEFINE o == page[m.dev]
             t == m.told.text
             f == Filled(o, t)
             c == Later(o.meta, m.told)
             p == [o EXCEPT !.meta = c]
             q == IF t = p.local THEN Filled(p, t) ELSE Autosaved(p, t)
  <1>1. Answered(m, "ok") /\ m.use = "adopt"
    BY DEF AdoptOk
  <1>2. /\ o.open
        /\ m.told \in Copy /\ Fits(row, births, m.told) /\ t # 0
    BY <1>1, AnsweredFacts
  <1>3. o \in Page /\ PageKnows(o) /\ PageFits(row, births, o) /\ m.dev \in Devices
    BY NetFacts, PageFacts
  <1>4. t \in Contents
    BY <1>2 DEF Copy
  <1>5. Rest(m.dev, q, net \ {m})
    BY DEF AdoptOk, SaveMeta
  <1>6. c = m.told \/ (c = o.meta /\ o.meta # None)
    BY DEF Later
  <1>7. c \in Copy \cup {None}
    BY <1>2, <1>3, <1>6 DEF Page
  <1>8. c # None => (c.text \in Known(o) \/ c.text = t) /\ Fits(row, births, c)
    BY <1>2, <1>3, <1>6 DEF PageKnows, PageFits
  <1> HIDE DEF c, t
  <1>9. /\ p \in Page
        /\ p.open = o.open /\ p.text = o.text /\ p.base = o.base /\ p.local = o.local
        /\ p.meta = c /\ p.queue = o.queue /\ p.timer = o.timer /\ p.modal = o.modal
        /\ p.offer = o.offer /\ Known(p) = Known(o)
    BY <1>3, <1>7 DEF Page
  <1> HIDE DEF p
  <1> DEFINE g == Filled(p, t)
             a == [g EXCEPT !.local = t, !.queue = t, !.timer = TRUE]
  <1>10. /\ g \in Page
         /\ g.open = o.open /\ g.text = t /\ g.base = o.base /\ g.local = o.local
         /\ g.meta = c /\ g.queue = o.queue /\ g.timer = o.timer /\ g.modal = o.modal
         /\ g.offer = o.offer /\ Known(g) = Known(o) \cup {t}
    BY <1>4, <1>9 DEF Page, Filled
  <1>11. q = g \/ q = a
    BY DEF Autosaved
  <1> HIDE DEF g
  <1>12. /\ a \in Page
         /\ a.open = g.open /\ a.text = g.text /\ a.base = g.base /\ a.local = t
         /\ a.meta = g.meta /\ a.queue = t /\ a.timer = TRUE /\ a.modal = g.modal
         /\ a.offer = g.offer /\ Known(a) = Known(g)
    BY <1>4, <1>10 DEF Page
  <1> HIDE DEF a, q
  <1>13. GoodPage(row, births, g)
    BY <1>2, <1>3, <1>8, <1>10 DEF GoodPage, PageKnows, PageFits
  <1>14. GoodPage(row, births, a)
    BY <1>2, <1>3, <1>8, <1>10, <1>12 DEF GoodPage, PageKnows, PageFits
  <1>15. GoodPage(row, births, q) /\ q.open /\ Known(o) \subseteq Known(q)
    BY <1>2, <1>10, <1>11, <1>12, <1>13, <1>14
  <1> QED
    BY <1>2, <1>5, <1>15, HeardInv

\* No copy to read, or a deletion done, changes no page.
LEMMA NothingToDoInv ==
    ASSUME PagesInv, NEW m \in net, NothingToDo(m), row' = row, births' = births
    PROVE  PagesInv'
  <1>1. page[m.dev].open
    BY AnsweredFacts DEF NothingToDo
  <1>2. GoodPage(row, births, page[m.dev])
    BY NetFacts, PageFacts
  <1> QED
    BY <1>1, <1>2, HeardInv DEF NothingToDo

\* Every answer that is heard keeps the invariant.
LEMMA HearInv ==
    ASSUME IndInv, NEW m \in net, Hear(m) PROVE IndInv'
  <1>1. UNCHANGED <<does, row, births, edits, opens, saved>> /\ PagesInv
    BY DEF Hear, IndInv
  <1>2. PagesInv'
    BY <1>1, PutOkInv, PutGoneInv, PutConflictInv, HealOkInv, HealGoneInv, RecoverOkInv,
       AdoptOkInv, NothingToDoInv DEF Hear
  <1> QED
    BY <1>1, <1>2, UserStep DEF IndInv, CountInv


\* Lost answers: what waits may be sent, a conflict be asked about.
LEMMA LoseInv ==
    ASSUME IndInv, NEW m \in net, Lose(m) PROVE IndInv'
  <1>1. UNCHANGED <<does, row, births, edits, opens, saved>> /\ PagesInv /\ CountInv'
    BY DEF Lose, IndInv, CountInv
  <1>2. m.dev \in Devices /\ GoodPage(row, births, page[m.dev])
    BY <1>1, NetFacts, PageFacts
  <1>3. CASE m.awaited /\ Unheard(m, net \ {m})
    <2>1. page[m.dev].open
      BY <1>1, <1>3, NetFacts DEF RequestKnows
    <2>2. CASE m.use = "heal" /\ Run(m.dev, Reported(page[m.dev], m.text, m.cond), net \ {m})
      <3>1. PagesInv'
        BY <1>1, <1>3, <2>2, AskedInv
      <3> QED
        BY <1>1, <3>1, UserStep
    <2>3. CASE \/ Run(m.dev, page[m.dev], net \ {m})
               \/ Rest(m.dev, page[m.dev], net \ {m})
      <3>1. PagesInv'
        BY <1>1, <1>2, <2>1, <2>3, HeardInv
      <3> QED
        BY <1>1, <3>1, UserStep
    <2> QED
      BY <1>3, <2>2, <2>3 DEF Unheard
  <1>4. CASE ~m.awaited /\ net' = net \ {m} /\ page' = page
    <2>1. PagesInv'
      BY <1>1, <1>4 DEF PagesInv
    <2> QED
      BY <1>1, <2>1, UserStep
  <1> QED
    BY <1>3, <1>4 DEF Lose

\* The handler goes on alone.
LEMMA GiveUpInv ==
    ASSUME IndInv, NEW m \in net, GiveUp(m) PROVE IndInv'
  <1> DEFINE d == m.dev
             p == page[d]
             k == Alone(m)
             n == (net \ {m}) \cup {k}
             q == Reported(p, m.text, m.cond)
  <1>1. UNCHANGED <<does, row, births, edits, opens, saved>> /\ PagesInv /\ CountInv'
    BY DEF GiveUp, IndInv, CountInv
  <1>2. /\ m \in Request /\ d \in Devices
        /\ GoodRequest(row, births, m, p)
        /\ RequestKnows(m, p) /\ Tells(m) /\ RequestFits(row, births, m)
    BY <1>1, NetFacts
  <1>3. GoodPage(row, births, p)
    BY <1>1, <1>2, PageFacts
  <1>4. m.awaited /\ m.pc # "done" /\ Unheard(m, n)
    BY DEF GiveUp
  <1>5. p.open
    BY <1>2, <1>4 DEF RequestKnows
  <1>6. \A r \in {p, q} : Known(p) \subseteq Known(r) =>
            GoodRequest(row, births, k, r) /\ k.dev = d
    BY <1>2, <1>4, AloneGood
  <1>7. \/ m.use = "heal" /\ Run(d, q, n)
        \/ Run(d, p, n)
        \/ Rest(d, p, n)
    BY <1>4 DEF Unheard
  <1> HIDE DEF k
  <1>8. CASE m.use = "heal" /\ Run(d, q, n)
    <2>1. /\ m.cond \in Copy /\ Fits(row, births, m.cond)
          /\ m.text \in Known(p) \ {0}
      BY <1>2, <1>8 DEF RequestKnows, Tells, RequestFits, Request
    <2>2. GoodPage(row, births, q) /\ q.open /\ Known(q) = Known(p)
      BY <1>3, <1>5, <2>1, ReportedGood
    <2>3. \A i \in n : i \in net \/ (i.dev = d /\ GoodRequest(row, births, i, q))
      BY <1>6, <2>2
    <2>4. Run(d, q, n)
      BY <1>8
    <2> HIDE DEF q, n
    <2>5. PagesInv'
      BY <1>1, <1>2, <2>2, <2>3, <2>4, RunInv
    <2> QED
      BY <1>1, <2>5, UserStep
  <1>9. CASE Run(d, p, n) \/ Rest(d, p, n)
    <2>1. \A i \in n : i \in net \/ (i.dev = d /\ GoodRequest(row, births, i, p))
      BY <1>6
    <2> HIDE DEF n
    <2>2. Leftover(d, p, n)
      BY <1>1, <1>2, <2>1, NetLeftover
    <2>3. CASE Run(d, p, n)
      <3>1. PagesInv'
        BY <1>1, <1>2, <1>3, <1>5, <2>1, <2>3, RunInv
      <3> QED
        BY <1>1, <3>1, UserStep
    <2>4. CASE Rest(d, p, n)
      <3>1. PagesInv'
        BY <1>1, <1>2, <1>3, <2>2, <2>4, RestInv
      <3> QED
        BY <1>1, <3>1, UserStep
    <2> QED
      BY <1>9, <2>3, <2>4
  <1> QED
    BY <1>7, <1>8, <1>9

-----------------------------------------------------------------------------
(***************************************************************************)
(* The server.                                                             *)
(***************************************************************************)

\* A copy that fitted its row still does.
FitsOn == \A c \in Copy : Fits(row, births, c) => Fits(row', births', c)

\* A handler's statement replaces its request by good ones of its page, and
\* what was read before fits the row all the same.
LEMMA ServedInv ==
    ASSUME PagesInv, NEW m \in net, NEW X, FitsOn,
           page' = page, net' = (net \ {m}) \cup X,
           \A k \in X : k.dev = m.dev /\ GoodRequest(row', births', k, page[m.dev])
    PROVE  PagesInv'
  <1>1. ASSUME NEW d \in Devices PROVE GoodPage(row', births', page[d])
    <2>1. page[d] \in Page /\ PageKnows(page[d]) /\ PageFits(row, births, page[d])
      BY PageFacts
    <2>2. /\ page[d].meta # None => page[d].meta \in Copy
          /\ page[d].modal # None => page[d].modal.told \in Copy
      BY <2>1, PageTyped
    <2>3. PageFits(row', births', page[d])
      BY <2>1, <2>2 DEF PageFits, FitsOn
    <2> QED
      BY <2>1, <2>3 DEF GoodPage
  <1>2. ASSUME NEW k \in net
        PROVE  GoodRequest(row', births', k, page[k.dev])
    <2>1. k \in Request /\ RequestKnows(k, page[k.dev]) /\ Tells(k)
              /\ RequestFits(row, births, k)
      BY NetFacts
    <2>2. /\ k.cond # None => k.cond \in Copy
          /\ k.told # None => k.told \in Copy
      BY <2>1 DEF Request
    <2>3. RequestFits(row', births', k)
      BY <2>1, <2>2 DEF RequestFits, FitsOn
    <2> QED
      BY <2>1, <2>3 DEF GoodRequest
  <1>3. ASSUME NEW k \in net' PROVE k \in Request /\ GoodRequest(row', births', k, page[k.dev])
    BY <1>2, <1>3 DEF GoodRequest
  <1> QED
    BY <1>1, <1>3 DEF PagesInv

\* The answer that a handler gives: of a copy that fits the row now.
MayAnswer(m, status, told) ==
    /\ status \in Statuses
    /\ told \in Copy \cup {None}
    /\ told # None => Fits(row', births', told)
    /\ status = "conflict" => told # None
    /\ status = "ok" /\ m.use # "remove" => told # None /\ told.text # 0
    /\ status = "ok" /\ m.use \in {"push", "keep"} => told.text = m.text

\* An answer that tells no more than the row is as good as its request.
LEMMA AnswerInv ==
    ASSUME PagesInv, NEW m \in net, NEW status, NEW told, FitsOn,
           MayAnswer(m, status, told), Answer(m, status, told), page' = page
    PROVE  PagesInv'
  <1> DEFINE k == [m EXCEPT !.pc = "done", !.status = status, !.told = told,
                            !.read = None, !.tries = 0]
             X == IF m.awaited THEN {k} ELSE {}
  <1>0. status \in Statuses /\ told \in Copy \cup {None} /\ 0 \in 0 .. 1
    BY DEF MayAnswer
  <1>1. m \in Request /\ RequestKnows(m, page[m.dev]) /\ Tells(m) /\ RequestFits(row, births, m)
    BY NetFacts
  <1>2. /\ k \in Request
        /\ k.dev = m.dev /\ k.use = m.use /\ k.text = m.text /\ k.cond = m.cond
        /\ k.awaited = m.awaited /\ k.pc = "done" /\ k.status = status /\ k.told = told
    BY <1>1, <1>0 DEF Request
  <1>3. net' = (net \ {m}) \cup X
    BY DEF Answer
  <1> HIDE DEF k
  <1>4. m.cond # None => Fits(row', births', m.cond)
    BY <1>1 DEF FitsOn, RequestFits, Request
  <1>5. RequestKnows(k, page[m.dev]) /\ RequestFits(row', births', k)
    BY <1>1, <1>2, <1>4 DEF RequestKnows, RequestFits, MayAnswer
  <1>6. Tells(k)
    BY <1>1, <1>2 DEF Tells, MayAnswer
  <1>7. \A i \in X : i.dev = m.dev /\ GoodRequest(row', births', i, page[m.dev])
    BY <1>2, <1>5, <1>6 DEF GoodRequest
  <1> HIDE DEF X
  <1> QED
    BY <1>3, <1>7, ServedInv

\* A handler goes on: to another statement, perhaps with the row it has read.
LEMMA GoOnInv ==
    ASSUME PagesInv, NEW m \in net, FitsOn, page' = page,
           NEW pc \in {"start", "create", "reread", "purge"}, NEW tries \in 0 .. 1,
           NEW read \in Row \cup {None},
           pc = "purge" => read # None /\ ~read.fresh,
           GoOn(m, [m EXCEPT !.pc = pc, !.tries = tries, !.read = read])
    PROVE  PagesInv'
  <1> DEFINE k == [m EXCEPT !.pc = pc, !.tries = tries, !.read = read]
             X == {k}
  <1>1. m \in Request /\ RequestKnows(m, page[m.dev]) /\ Tells(m) /\ RequestFits(row, births, m)
    BY NetFacts
  <1>2. /\ k \in Request
        /\ k.dev = m.dev /\ k.use = m.use /\ k.text = m.text /\ k.cond = m.cond
        /\ k.awaited = m.awaited /\ k.pc = pc /\ k.told = m.told /\ k.read = read
    BY <1>1 DEF Request
  <1>3. net' = (net \ {m}) \cup X
    BY DEF GoOn
  <1> HIDE DEF k
  <1>4. /\ m.cond # None => Fits(row', births', m.cond)
        /\ m.told # None => Fits(row', births', m.told)
    BY <1>1 DEF FitsOn, RequestFits, Request
  <1>5. RequestKnows(k, page[m.dev]) /\ RequestFits(row', births', k)
    BY <1>1, <1>2, <1>4 DEF RequestKnows, RequestFits
  <1>6. Tells(k)
    BY <1>1, <1>2 DEF Tells
  <1>7. \A i \in X : i.dev = m.dev /\ GoodRequest(row', births', i, page[m.dev])
    BY <1>2, <1>5, <1>6 DEF GoodRequest
  <1> HIDE DEF X
  <1> QED
    BY <1>3, <1>7, ServedInv

\* A row that was read fits itself.
LEMMA CopyOfFits ==
    ASSUME NEW r \in Row, NEW b \in Nat, r.born <= b
    PROVE  /\ CopyOf(r) \in Copy /\ CopyOf(r) # None
           /\ Fits(r, b, CopyOf(r))
           /\ CopyOf(r).text = r.text /\ r.text # 0
  <1> DEFINE c == CopyOf(r)
  <1>1. c \in Copy /\ c.version = r.version /\ c.born = r.born /\ c.text = r.text
    BY Bounds DEF CopyOf, Copy, Row, Contents
  <1> HIDE DEF c
  <1>2. c # None
    BY <1>1, NoneAssumption
  <1>3. r.version \in Int /\ r.text # 0
    BY Bounds DEF Row
  <1>4. Fits(r, b, c)
    BY <1>1, <1>3 DEF Fits
  <1> QED
    BY <1>1, <1>2, <1>3, <1>4 DEF c

\* What was read fits when the row has not changed but for its age, or is gone.
LEMMA SameFits ==
    ASSUME births' = births,
           \/ row' = row
           \/ row' = None
           \/ /\ row # None
              /\ row'.version = row.version /\ row'.born = row.born /\ row'.text = row.text
    PROVE  FitsOn
  BY DEF FitsOn, Fits

\* A new version is newer than all that was read of the row.
LEMMA NewerFits ==
    ASSUME RowInv, row # None, births' = births,
           row'.version = row.version + 1, row'.born = row.born
    PROVE  FitsOn
  <1>1. row \in Row /\ row.version \in Nat
    BY Bounds DEF RowInv, Row
  <1>2. \A c \in Copy : c.version \in Nat
    BY Bounds DEF Copy
  <1> QED
    BY <1>1, <1>2 DEF FitsOn, Fits

\* Nothing was read of a row that was not born.
LEMMA BornFits ==
    ASSUME RowInv, births' = births + 1, row'.born = births'
    PROVE  FitsOn
  <1>1. births \in Nat
    BY Bounds DEF RowInv
  <1>2. \A c \in Copy : c.born \in Nat
    BY Bounds DEF Copy
  <1> QED
    BY <1>1, <1>2 DEF FitsOn, Fits


\* The conditional update of putDraft keeps the invariant.
LEMMA PutMatchInv ==
    ASSUME IndInv, NEW m \in net, PutMatch(m), page' = page PROVE RowInv' /\ PagesInv'
  <1> USE DEF IndInv
  <1>1. /\ m \in Request /\ RequestKnows(m, page[m.dev]) /\ Tells(m)
        /\ RequestFits(row, births, m)
    BY NetFacts
  <1>2. m.use \in {"push", "keep"} /\ m.pc = "start" /\ births' = births
    BY DEF PutMatch, At
  <1>3. CASE /\ Matches(m)
             /\ row.version < MaxVersion
             /\ row' = [row EXCEPT !.version = @ + 1, !.text = m.text, !.fresh = TRUE]
             /\ Answer(m, "ok", CopyOf(row'))
    <2> DEFINE told == CopyOf(row')
    <2>1. row \in Row /\ row # None /\ row.born <= births /\ births \in Nat
      BY <1>3, Bounds DEF Matches, RowInv
    <2>2. m.text \in Contents \ {0}
      BY <1>1, <1>2 DEF Request, RequestKnows
    <2>3. row.version + 1 \in 1 .. MaxVersion
      BY <2>1, <1>3, Bounds DEF Row
    <2>4. /\ row' \in Row
          /\ row'.version = row.version + 1 /\ row'.born = row.born /\ row'.text = m.text
      BY <1>3, <2>1, <2>2, <2>3 DEF Row
    <2>5. RowInv'
      BY <1>2, <2>1, <2>4 DEF RowInv
    <2>6. FitsOn
      BY <1>2, <2>1, <2>4, NewerFits
    <2>7. /\ told \in Copy /\ told # None /\ Fits(row', births', told)
          /\ told.text = m.text /\ told.text # 0
      BY <1>2, <2>1, <2>2, <2>4, CopyOfFits
    <2>8. Answer(m, "ok", told)
      BY <1>3
    <2> HIDE DEF told
    <2>9. MayAnswer(m, "ok", told)
      BY <2>7 DEF MayAnswer, Statuses
    <2>10. PagesInv'
      BY <2>6, <2>8, <2>9, AnswerInv
    <2> QED
      BY <2>5, <2>10
  <1>4. CASE GoOn(m, [m EXCEPT !.pc = "reread"]) /\ row' = row
    <2> DEFINE i == m.tries
               r == m.read
    <2>1. i \in 0 .. 1 /\ r \in Row \cup {None}
          /\ [m EXCEPT !.pc = "reread"] = [m EXCEPT !.pc = "reread", !.tries = i, !.read = r]
      BY <1>1 DEF Request
    <2>2. FitsOn
      BY <1>2, <1>4, SameFits
    <2>3. GoOn(m, [m EXCEPT !.pc = "reread", !.tries = i, !.read = r])
      BY <1>4, <2>1
    <2> HIDE DEF i, r
    <2>4. PagesInv'
      BY <2>1, <2>2, <2>3, GoOnInv
    <2> QED
      BY <1>2, <1>4, <2>4 DEF RowInv
  <1> QED
    BY <1>3, <1>4 DEF PutMatch

\* Handlers that only read the row, or find it gone: what they may answer.
LEMMA ReadAnswer ==
    ASSUME IndInv, NEW m \in net, NEW status \in {"ok", "conflict"}, row # None,
           m.use \in {"push", "keep"} => status = "conflict",
           row' = row, births' = births, page' = page,
           Answer(m, status, CopyOf(row))
    PROVE  RowInv' /\ PagesInv'
  <1> USE DEF IndInv
  <1> DEFINE told == CopyOf(row)
  <1>1. row \in Row /\ row.born <= births /\ births \in Nat
    BY Bounds DEF RowInv
  <1>2. told \in Copy /\ told # None /\ Fits(row', births', told) /\ told.text # 0
    BY <1>1, CopyOfFits
  <1>3. Answer(m, status, told)
    OBVIOUS
  <1> HIDE DEF told
  <1>4. MayAnswer(m, status, told)
    BY <1>2 DEF MayAnswer, Statuses
  <1>5. FitsOn
    BY SameFits
  <1>6. PagesInv'
    BY <1>3, <1>4, <1>5, AnswerInv
  <1> QED
    BY <1>6 DEF RowInv

\* An answer that there is no copy keeps the invariant, the row kept or gone.
LEMMA GoneAnswer ==
    ASSUME IndInv, NEW m \in net, page' = page, births' = births,
           row' \in {row, None},
           Answer(m, "gone", None) \/ (m.use = "remove" /\ Answer(m, "ok", None))
    PROVE  RowInv' /\ PagesInv'
  <1> USE DEF IndInv
  <1>1. FitsOn
    BY SameFits
  <1>2. RowInv'
    BY DEF RowInv
  <1>3. MayAnswer(m, "gone", None)
    BY DEF MayAnswer, Statuses
  <1>4. m.use = "remove" => MayAnswer(m, "ok", None)
    BY DEF MayAnswer, Statuses
  <1>5. CASE Answer(m, "gone", None)
    BY <1>1, <1>2, <1>3, <1>5, AnswerInv
  <1>6. CASE m.use = "remove" /\ Answer(m, "ok", None)
    BY <1>1, <1>2, <1>4, <1>6, AnswerInv
  <1> QED
    BY <1>5, <1>6

\* A handler goes on to a statement that needs nothing read.
LEMMA NextStatement ==
    ASSUME IndInv, NEW m \in net, NEW pc \in {"create", "reread"},
           row' = row, births' = births, page' = page,
           GoOn(m, [m EXCEPT !.pc = pc])
    PROVE  RowInv' /\ PagesInv'
  <1> USE DEF IndInv
  <1> DEFINE i == m.tries
             r == m.read
  <1>1. m \in Request
    BY NetFacts
  <1>2. i \in 0 .. 1 /\ r \in Row \cup {None}
        /\ [m EXCEPT !.pc = pc] = [m EXCEPT !.pc = pc, !.tries = i, !.read = r]
    BY <1>1 DEF Request
  <1>3. FitsOn
    BY SameFits
  <1>4. GoOn(m, [m EXCEPT !.pc = pc, !.tries = i, !.read = r])
    BY <1>2
  <1>5. pc \in {"start", "create", "reread", "purge"} /\ pc # "purge"
    OBVIOUS
  <1> HIDE DEF i, r
  <1>6. PagesInv'
    BY <1>2, <1>3, <1>4, <1>5, GoOnInv
  <1> QED
    BY <1>6 DEF RowInv

\* The look for a row that did not match keeps the invariant.
LEMMA PutFindInv ==
    ASSUME IndInv, NEW m \in net, PutFind(m), page' = page PROVE RowInv' /\ PagesInv'
  <1>1. row' = row /\ births' = births
    BY DEF PutFind
  <1>2. CASE row # None /\ Answer(m, "conflict", CopyOf(row))
    BY <1>1, <1>2, ReadAnswer
  <1>3. CASE GoOn(m, [m EXCEPT !.pc = "create"])
    BY <1>1, <1>3, NextStatement
  <1> QED
    BY <1>2, <1>3 DEF PutFind

\* The insert of a first copy keeps the invariant.
LEMMA PutCreateInv ==
    ASSUME IndInv, NEW m \in net, PutCreate(m), page' = page PROVE RowInv' /\ PagesInv'
  <1> USE DEF IndInv
  <1>1. m.use \in {"push", "keep"}
    BY DEF PutCreate, At
  <1>2. CASE /\ births < MaxBirths
             /\ births' = births + 1
             /\ row' = [version |-> 1, born |-> births', text |-> m.text, fresh |-> TRUE]
             /\ Answer(m, "ok", CopyOf(row'))
    <2> DEFINE told == CopyOf(row')
    <2>1. m.text \in Contents \ {0}
      BY <1>1, NetFacts DEF Request, RequestKnows
    <2>2. births' \in 1 .. MaxBirths /\ births' \in Nat /\ 1 \in 1 .. MaxVersion
      BY <1>2, Bounds DEF RowInv
    <2>3. row' \in Row /\ row'.born = births' /\ row'.text = m.text
      BY <1>2, <2>1, <2>2 DEF Row
    <2>4. RowInv'
      BY <2>2, <2>3 DEF RowInv
    <2>5. FitsOn
      BY <1>2, <2>3, BornFits
    <2>6. row'.born <= births'
      BY <2>2, <2>3
    <2>7. /\ told \in Copy /\ told # None /\ Fits(row', births', told)
          /\ told.text = m.text /\ told.text # 0
      BY <2>2, <2>3, <2>6, CopyOfFits
    <2>8. Answer(m, "ok", told)
      BY <1>2
    <2> HIDE DEF told
    <2>9. MayAnswer(m, "ok", told)
      BY <2>7 DEF MayAnswer, Statuses
    <2>10. PagesInv'
      BY <2>5, <2>8, <2>9, AnswerInv
    <2> QED
      BY <2>4, <2>10
  <1>3. CASE GoOn(m, [m EXCEPT !.pc = "reread"]) /\ UNCHANGED <<row, births>>
    BY <1>3, NextStatement
  <1> QED
    BY <1>2, <1>3 DEF PutCreate

\* The second look of putDraft at the row that refused it keeps the invariant.
LEMMA PutRereadInv ==
    ASSUME IndInv, NEW m \in net, PutReread(m), page' = page PROVE RowInv' /\ PagesInv'
  <1> USE DEF IndInv
  <1>1. row' = row /\ births' = births /\ m.use \in {"push", "keep"}
    BY DEF PutReread, At
  <1>2. CASE row # None /\ Answer(m, "conflict", CopyOf(row))
    BY <1>1, <1>2, ReadAnswer
  <1>3. CASE Answer(m, "gone", None)
    BY <1>1, <1>3, GoneAnswer
  <1>4. CASE row = None /\ Answer(m, "conflict", Vanished)
    <2>1. Vanished \in Copy /\ Fits(row', births', Vanished)
      BY <1>1, <1>4, Bounds DEF Vanished, Copy, Contents, Fits, RowInv
    <2>2. Vanished # None
      BY <2>1, NoneAssumption
    <2>3. MayAnswer(m, "conflict", Vanished)
      BY <2>1, <2>2 DEF MayAnswer, Statuses
    <2>4. FitsOn
      BY <1>1, SameFits
    <2>5. PagesInv'
      BY <1>4, <2>3, <2>4, AnswerInv
    <2> QED
      BY <1>1, <2>5 DEF RowInv
  <1> QED
    BY <1>2, <1>3, <1>4 DEF PutReread

\* GET of a copy tells the row as it is.
LEMMA GetReadInv ==
    ASSUME IndInv, NEW m \in net, GetRead(m), page' = page PROVE RowInv' /\ PagesInv'
  <1> USE DEF IndInv
  <1>1. row' = row /\ births' = births /\ m.use \notin {"push", "keep"}
    BY DEF GetRead, At
  <1>2. CASE Answer(m, "gone", None)
    BY <1>1, <1>2, GoneAnswer
  <1>3. CASE row # None /\ Answer(m, "ok", CopyOf(row))
    BY <1>1, <1>3, ReadAnswer
  <1>4. CASE row # None /\ ~row.fresh /\ GoOn(m, [m EXCEPT !.pc = "purge", !.read = row])
    <2> DEFINE i == m.tries
    <2>1. m \in Request
      BY NetFacts
    <2>2. i \in 0 .. 1
          /\ [m EXCEPT !.pc = "purge", !.read = row]
                 = [m EXCEPT !.pc = "purge", !.tries = i, !.read = row]
      BY <2>1 DEF Request
    <2>3. FitsOn
      BY <1>1, SameFits
    <2>4. GoOn(m, [m EXCEPT !.pc = "purge", !.tries = i, !.read = row])
      BY <1>4, <2>2
    <2>5. row \in Row \cup {None} /\ row # None /\ ~row.fresh
      BY <1>4 DEF RowInv
    <2> HIDE DEF i
    <2>6. PagesInv'
      BY <2>2, <2>3, <2>4, <2>5, GoOnInv
    <2> QED
      BY <1>1, <2>6 DEF RowInv
  <1> QED
    BY <1>2, <1>3, <1>4 DEF GetRead

\* GET deletes the expired copy that it has read, or looks again.
LEMMA GetPurgeInv ==
    ASSUME IndInv, NEW m \in net, GetPurge(m), page' = page PROVE RowInv' /\ PagesInv'
  <1> USE DEF IndInv
  <1>1. births' = births /\ row' \in {row, None}
    BY DEF GetPurge
  <1>2. CASE Answer(m, "gone", None)
    BY <1>1, <1>2, GoneAnswer
  <1>3. CASE row' = row
             /\ GoOn(m, [m EXCEPT !.pc = "start", !.tries = 1, !.read = None])
    <2> DEFINE i == 1
    <2>1. FitsOn
      BY <1>1, SameFits
    <2>2. i \in 0 .. 1
          /\ GoOn(m, [m EXCEPT !.pc = "start", !.tries = i, !.read = None])
      BY <1>3
    <2> HIDE DEF i
    <2>3. PagesInv'
      BY <2>1, <2>2, GoOnInv
    <2> QED
      BY <1>1, <1>3, <2>3 DEF RowInv
  <1> QED
    BY <1>2, <1>3 DEF GetPurge

\* DELETE of a copy keeps the invariant.
LEMMA DeleteInv ==
    ASSUME IndInv, NEW m \in net, Delete(m), page' = page PROVE RowInv' /\ PagesInv'
  BY GoneAnswer DEF Delete, At

\* Every statement of the server keeps the invariant.
LEMMA ServeInv ==
    ASSUME IndInv, NEW m \in net, Serve(m) PROVE IndInv'
  <1>1. UNCHANGED <<does, edits, opens, saved, page>>
    BY DEF Serve
  <1>2. RowInv' /\ PagesInv'
    BY <1>1, PutMatchInv, PutFindInv, PutCreateInv, PutRereadInv, GetReadInv, GetPurgeInv,
       DeleteInv DEF Serve
  <1> QED
    BY <1>1, <1>2 DEF IndInv, CountInv

\* Copies grow old, and old ones are swept away.
LEMMA AgeInv ==
    ASSUME IndInv, Expire \/ Sweep PROVE IndInv'
  <1> USE DEF IndInv
  <1>1. UNCHANGED <<does, births, edits, opens, saved, page, net>> /\ row # None /\ row \in Row
    BY DEF Expire, Sweep, RowInv
  <1>2. \/ row' = None
        \/ /\ row' \in Row
           /\ row'.version = row.version /\ row'.born = row.born /\ row'.text = row.text
    BY <1>1 DEF Expire, Sweep, Row
  <1>3. RowInv' /\ CountInv'
    BY <1>1, <1>2 DEF RowInv, CountInv
  <1>4. FitsOn
    BY <1>1, <1>2, SameFits
  <1>5. ASSUME NEW d \in Devices PROVE GoodPage(row', births', page[d])
    <2>1. page[d] \in Page /\ PageKnows(page[d]) /\ PageFits(row, births, page[d])
      BY PageFacts
    <2>2. /\ page[d].meta # None => page[d].meta \in Copy
          /\ page[d].modal # None => page[d].modal.told \in Copy
      BY <2>1, PageTyped
    <2>3. PageFits(row', births', page[d])
      BY <1>4, <2>1, <2>2 DEF PageFits, FitsOn
    <2> QED
      BY <2>1, <2>3 DEF GoodPage
  <1>6. ASSUME NEW k \in net
        PROVE  GoodRequest(row', births', k, page[k.dev])
    <2>1. k \in Request /\ RequestKnows(k, page[k.dev]) /\ Tells(k)
              /\ RequestFits(row, births, k)
      BY NetFacts
    <2>2. /\ k.cond # None => k.cond \in Copy
          /\ k.told # None => k.told \in Copy
      BY <2>1 DEF Request
    <2>3. RequestFits(row', births', k)
      BY <1>4, <2>1, <2>2 DEF RequestFits, FitsOn
    <2> QED
      BY <2>1, <2>3 DEF GoodRequest
  <1>7. PagesInv'
    BY <1>1, <1>5, <1>6 DEF PagesInv
  <1> QED
    BY <1>3, <1>7

\* The invariant holds in every step.
LEMMA NextInv ==
    ASSUME IndInv, [Next]_vars PROVE IndInv'
  <1>1. CASE UNCHANGED vars
    BY <1>1 DEF IndInv, RowInv, CountInv, PagesInv, vars
  <1>2. ASSUME NEW d \in Devices, User(d) \/ Timer(d) PROVE IndInv'
    BY <1>2, UserInv, TimerInv
  <1>3. ASSUME NEW m \in net, Hear(m) \/ Lose(m) \/ GiveUp(m) \/ Serve(m) PROVE IndInv'
    BY <1>3, HearInv, LoseInv, GiveUpInv, ServeInv
  <1>4. CASE Expire \/ Sweep
    BY <1>4, AgeInv
  <1> QED
    BY <1>1, <1>2, <1>3, <1>4 DEF Next

\* The invariant of the proofs holds in every behaviour.
LEMMA IndInvCorrect == Spec => []IndInv
  <1>1. Init => IndInv
    BY InitInv
  <1>2. IndInv /\ [Next]_vars => IndInv'
    BY NextInv
  <1> QED
    BY <1>1, <1>2, PTL DEF Spec

(* Pages, requests and the row keep their types: in particular no save ever *)
(* stores an empty copy, and a version told to a browser is one that a row   *)
(* can have, whatever answers were lost or late.                            *)
THEOREM TypeCorrect == Spec => []TypeOK
  <1>1. IndInv => TypeOK
    BY IndInvTypes
  <1> QED
    BY <1>1, IndInvCorrect, PTL

-----------------------------------------------------------------------------
(***************************************************************************)
(* The action properties.                                                  *)
(***************************************************************************)

\* Only a save that matches raises the version of a row.
LEMMA RaisedByMatch ==
    ASSUME IndInv, [Next]_vars, row # None, row' # None, row'.version > row.version
    PROVE  \E m \in net : PutMatch(m) /\ Matches(m)
  <1>1. row \in Row /\ row.version \in Nat
    BY Bounds DEF IndInv, RowInv, Row
  <1>2. row' # row
    BY <1>1
  <1>3. ASSUME NEW d \in Devices, User(d) \/ Timer(d) PROVE FALSE
    BY <1>2, <1>3 DEF User, Timer, Edit, Flush, Leave, Open, Restore, Discard, Dismiss, Save,
       KeepLocal, AdoptServer, CloseModal
  <1>4. ASSUME NEW m \in net, Hear(m) \/ Lose(m) \/ GiveUp(m) PROVE FALSE
    BY <1>2, <1>4 DEF Hear, Lose, GiveUp
  <1>5. ASSUME NEW m \in net, Serve(m) PROVE PutMatch(m) /\ Matches(m)
    BY <1>2, <1>5 DEF Serve, PutMatch, PutFind, PutCreate, PutReread, GetRead, GetPurge, Delete
  <1>6. CASE Expire \/ Sweep
    BY <1>1, <1>6 DEF Expire, Sweep, Row
  <1>7. CASE UNCHANGED vars
    BY <1>2, <1>7 DEF vars
  <1> QED
    BY <1>3, <1>4, <1>5, <1>6, <1>7 DEF Next

(* A copy on the server is replaced only by a browser whose form has held   *)
(* it, whose user has decided about it, or that took over its version when  *)
(* it showed it on opening (saveDraft: the updateMany with the version of   *)
(* If-Match), however answers are lost, late, or given to a page that was   *)
(* left: as long as the row is the one that the version was read from.      *)
THEOREM ReplacesOnlyKnownCorrect == Spec => ReplacesOnlyKnown
  <1>1. ASSUME IndInv, [Next]_vars, NEW m \in Replacing
        PROVE  row.text \in Known(page[m.dev]) \/ m.cond.born # row.born
    <2>1. /\ m \in net /\ m \notin net' /\ m.use \in {"push", "keep"}
          /\ row # None /\ row' # None /\ row'.version > row.version
      BY DEF Replacing, At
    <2>2. PICK k \in net : PutMatch(k) /\ Matches(k)
      BY <1>1, <2>1, RaisedByMatch
    <2>3. net \ {k} \subseteq net'
      BY <2>2 DEF PutMatch, Answer, GoOn
    <2>4. k = m
      BY <2>1, <2>3
    <2>5. m.cond # None /\ row.version = m.cond.version
      BY <2>2, <2>4 DEF PutMatch, Matches
    <2>6. RequestKnows(m, page[m.dev]) /\ RequestFits(row, births, m)
      BY <1>1, <2>1, NetFacts DEF IndInv
    <2>7. m.cond.text \in Known(page[m.dev]) /\ Fits(row, births, m.cond)
      BY <2>1, <2>5, <2>6 DEF RequestKnows, RequestFits
    <2>8. m.cond.born = row.born => m.cond.text = row.text
      BY <2>1, <2>5, <2>7 DEF Fits
    <2> QED
      BY <2>7, <2>8
  <1> DEFINE A == \A m \in Replacing :
                    \/ row.text \in page[m.dev].seen
                    \/ row.text \in page[m.dev].shown
                    \/ m.cond.born # row.born
  <1>2. IndInv /\ [Next]_vars => A
    BY <1>1
  <1> QED
    BY <1>2, IndInvCorrect, PTL DEF Spec, ReplacesOnlyKnown

(* A copy saved in the last 30 days goes only by a deletion that a browser  *)
(* asked for: the cleaning of a copy that a read found expired deletes that *)
(* very copy only (getDraft deletes by version and date), and housekeeping  *)
(* old copies only.                                                         *)
THEOREM FreshKeptCorrect == Spec => FreshKept
  <1>1. ASSUME IndInv, [Next]_vars, row # None, row.fresh, row' = None
        PROVE  \E m \in net : At(m, {"remove"}, "start") /\ m \notin net'
    <2>1. row \in Row /\ row' # row
      BY <1>1 DEF IndInv, RowInv
    <2>2. ASSUME NEW d \in Devices, User(d) \/ Timer(d) PROVE FALSE
      BY <2>1, <2>2 DEF User, Timer, Edit, Flush, Leave, Open, Restore, Discard, Dismiss, Save,
         KeepLocal, AdoptServer, CloseModal
    <2>3. ASSUME NEW m \in net, Hear(m) \/ Lose(m) \/ GiveUp(m) PROVE FALSE
      BY <2>1, <2>3 DEF Hear, Lose, GiveUp
    <2>4. ASSUME NEW m \in net, Serve(m)
          PROVE  At(m, {"remove"}, "start") /\ m \notin net'
      <3>1. m \in Request /\ Tells(m)
        BY <1>1, NetFacts DEF IndInv
      <3>2. RowInv'
        BY <1>1, <2>4, ServeInv DEF IndInv
      <3>3. CASE Delete(m)
        <4> DEFINE k == [m EXCEPT !.pc = "done", !.status = "ok", !.told = None,
                                  !.read = None, !.tries = 0]
        <4>1. k.pc = "done"
          BY <3>1 DEF Request
        <4>2. m.pc = "start" /\ At(m, {"remove"}, "start")
          BY <3>3 DEF Delete, At
        <4>3. net' \subseteq (net \ {m}) \cup {k}
          BY <3>3 DEF Delete, Answer
        <4> HIDE DEF k
        <4> QED
          BY <4>1, <4>2, <4>3
      <3>4. CASE GetPurge(m)
        BY <1>1, <2>1, <3>1, <3>4 DEF GetPurge, At, Purges, Tells
      <3>5. CASE PutCreate(m)
        BY <1>1, <2>1, <3>5 DEF PutCreate
      <3>6. CASE PutMatch(m)
        <4>1. row' = [row EXCEPT !.version = @ + 1, !.text = m.text, !.fresh = TRUE]
          BY <2>1, <3>6 DEF PutMatch
        <4>2. row'.text = m.text /\ row.version + 1 \in 1 .. MaxVersion
          BY <1>1, <2>1, <3>6, <4>1, Bounds DEF PutMatch, Row
        <4>3. m.text \in Contents \ {0}
          BY <1>1, <3>6, NetFacts DEF IndInv, RequestKnows, Request, PutMatch, At
        <4>4. row' \in Row
          BY <2>1, <4>1, <4>2, <4>3 DEF Row
        <4> QED
          BY <1>1, <4>4, NoneAssumption
      <3> QED
        BY <2>1, <2>4, <3>3, <3>4, <3>5, <3>6 DEF Serve, PutFind, PutReread, GetRead
    <2>5. ~Sweep
      BY <1>1 DEF Sweep
    <2>6. CASE Expire
      <3>1. row' \in Row
        BY <2>1, <2>6 DEF Expire, Row
      <3> QED
        BY <1>1, <3>1, NoneAssumption
    <2>7. ~UNCHANGED vars
      BY <2>1 DEF vars
    <2> QED
      BY <1>1, <2>2, <2>3, <2>4, <2>5, <2>6, <2>7 DEF Next
  <1> DEFINE A == row # None /\ row.fresh /\ row' = None
                    => \E m \in net : At(m, {"remove"}, "start") /\ m \notin net'
  <1>2. IndInv /\ [Next]_vars => A
    BY <1>1
  <1> QED
    BY <1>2, IndInvCorrect, PTL DEF Spec, FreshKept


=============================================================================
