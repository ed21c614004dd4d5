----------------------- MODULE BulkGenerationProofs -----------------------
(***************************************************************************)
(* Proofs about BulkGeneration, for every set of users, runs and requests, *)
(* every size of run and chunk, and with or without losses.                *)
(***************************************************************************)
EXTENDS BulkGeneration, TLAPS

(* A claim takes numbers that lie in the pool or beyond the counter.        *)
LEMMA ClaimTakes ==
    ASSUME TablesTypeOK, NEW u \in Users, NEW k, NEW head,
           head \in Nat, head >= lastNumber[u][year]
    PROVE  /\ \A s \in ReusedSeqs(u, k) :
                 /\ [owner |-> u, year |-> year, seq |-> s] \in recycled
                 /\ s \in Nat \ {0}
           /\ \A s \in FreshSeqs(u, k, head) :
                 /\ s \in Nat \ {0}
                 /\ lastNumber[u][year] < s
                 /\ s <= head
           /\ NumbersOf(u, ClaimedSeqs(u, k, head)) \subseteq Number
<1>1. \A s \in ReusedSeqs(u, k) :
          /\ [owner |-> u, year |-> year, seq |-> s] \in recycled
          /\ s \in Nat \ {0}
  <2> SUFFICES ASSUME NEW s \in ReusedSeqs(u, k)
               PROVE  /\ [owner |-> u, year |-> year, seq |-> s] \in recycled
                      /\ s \in Nat \ {0}
    OBVIOUS
  <2>1. s \in RecycledSeqs(u)
    BY DEF ReusedSeqs, Lowest
  <2>2. PICK n \in recycled : n.owner = u /\ n.year = year /\ n.seq = s
    BY <2>1 DEF RecycledSeqs
  <2>3. n \in Number
    BY <2>2 DEF TablesTypeOK
  <2>4. n = [owner |-> u, year |-> year, seq |-> s]
    BY <2>2, <2>3 DEF Number
  <2> QED
    BY <2>2, <2>3, <2>4 DEF Number
<1>2. \A s \in FreshSeqs(u, k, head) :
          s \in Nat \ {0} /\ lastNumber[u][year] < s /\ s <= head
  <2> SUFFICES ASSUME NEW s \in FreshSeqs(u, k, head)
               PROVE  s \in Nat \ {0} /\ lastNumber[u][year] < s /\ s <= head
    OBVIOUS
  <2> DEFINE last == lastNumber[u][year]
  <2>1. last \in Nat
    BY DEF TablesTypeOK
  <2>2. s \in (last + 1) .. head
    BY DEF FreshSeqs
  <2> HIDE DEF last
  <2>3. s \in Nat \ {0} /\ last < s /\ s <= head
    BY <2>1, <2>2
  <2> QED
    BY <2>3 DEF last
<1>3. NumbersOf(u, ClaimedSeqs(u, k, head)) \subseteq Number
  BY <1>1, <1>2 DEF NumbersOf, ClaimedSeqs, Number, TablesTypeOK
<1> QED
  BY <1>1, <1>2, <1>3

-----------------------------------------------------------------------------
(* The orders of a run are its positions.                                   *)
LEMMA DocFacts ==
    /\ \A d \in Docs : d[1] \in Runs /\ d[2] \in Nat \ {0} /\ d[2] <= Size[d[1]]
    /\ \A r \in Runs, s \in Nat : Chunk(r, s) \subseteq DocsOf(r)
    /\ \A r : DocsOf(r) \subseteq Docs
<1>1. \A d \in Docs : d[1] \in Runs /\ d[2] \in Nat \ {0} /\ d[2] <= Size[d[1]]
  <2> SUFFICES ASSUME NEW d \in Docs
               PROVE  d[1] \in Runs /\ d[2] \in Nat \ {0} /\ d[2] <= Size[d[1]]
    OBVIOUS
  <2>1. PICK r \in Runs : d \in {<<r, i>> : i \in 1 .. Size[r]}
    BY DocsAssumption
  <2>2. PICK i \in 1 .. Size[r] : d = <<r, i>>
    BY <2>1
  <2>3. Size[r] \in Nat
    BY RunsAssumption
  <2> QED
    BY <2>2, <2>3
<1> QED
  BY <1>1 DEF Chunk, DocsOf

(* What the steps of a run do to its state and to that of the others.       *)
LEMMA GoSteps ==
    ASSUME run \in [Runs -> RunState], NEW r \in Runs,
           NEW p \in Phases, NEW s \in Nat, NEW a \in Nat, Go(r, p, s, a)
    PROVE  /\ run' \in [Runs -> RunState]
           /\ run'[r].phase = p
           /\ run'[r].start = s
           /\ run'[r].attempt = a
           /\ \A q \in Runs : q # r => run'[q] = run[q]
  BY DEF Go, RunState

\* Out of the loop a run returns numbers or is done.
LEMMA StopSteps ==
    ASSUME run \in [Runs -> RunState], NEW r \in Runs, NEW known, StopWith(r, known)
    PROVE  /\ run' \in [Runs -> RunState]
           /\ run'[r].phase \in {"done", "return"}
           /\ \A q \in Runs : q # r => run'[q] = run[q]
<1> DEFINE p == IF Unsaved(r, known) = {} THEN "done" ELSE "return"
<1>1. p \in Phases /\ p \in {"done", "return"}
  BY DEF Phases
<1>2. Go(r, p, 0, 1)
  BY DEF StopWith
<1> HIDE DEF p
<1>3. /\ run' \in [Runs -> RunState]
      /\ run'[r].phase = p
      /\ \A q \in Runs : q # r => run'[q] = run[q]
  BY <1>1, <1>2, GoSteps
<1> QED
  BY <1>1, <1>3

\* After a chunk a run puts the next one, returns numbers or is done.
LEMMA NextChunkSteps ==
    ASSUME run \in [Runs -> RunState], NEW r \in Runs, NEW known, NextChunk(r, known)
    PROVE  /\ run' \in [Runs -> RunState]
           /\ run'[r].phase \in {"put", "done", "return"}
           /\ \A q \in Runs : q # r => run'[q] = run[q]
<1>1. CASE run[r].start + ChunkSize < Size[r]
  <2>1. Go(r, "put", run[r].start + ChunkSize, 1)
    BY <1>1 DEF NextChunk
  <2>2. run[r].start + ChunkSize \in Nat
    BY RunsAssumption DEF RunState
  <2>3. /\ run' \in [Runs -> RunState]
        /\ run'[r].phase = "put"
        /\ \A q \in Runs : q # r => run'[q] = run[q]
    BY <2>1, <2>2, GoSteps DEF Phases
  <2> QED
    BY <2>3
<1>2. CASE ~(run[r].start + ChunkSize < Size[r])
  BY <1>2, StopSteps DEF NextChunk
<1> QED
  BY <1>1, <1>2

\* After a slice a run returns the next one or is done.
LEMMA NextSliceSteps ==
    ASSUME run \in [Runs -> RunState], NEW r \in Runs, NextSlice(r)
    PROVE  /\ run' \in [Runs -> RunState]
           /\ run'[r].phase \in {"done", "return"}
           /\ \A q \in Runs : q # r => run'[q] = run[q]
<1>1. run[r].start + ChunkSize \in Nat
  BY RunsAssumption DEF RunState
<1>2. CASE Go(r, "done", 0, 1)
  BY <1>2, GoSteps DEF Phases
<1>3. CASE Go(r, "return", run[r].start + ChunkSize, 1)
  <2>1. /\ run' \in [Runs -> RunState]
        /\ run'[r].phase = "return"
        /\ \A q \in Runs : q # r => run'[q] = run[q]
    BY <1>1, <1>3, GoSteps DEF Phases
  <2> QED
    BY <2>1
<1> QED
  BY <1>2, <1>3 DEF NextSlice

(* An answer leaves every run where it is, except one that waits for it.    *)
LEMMA AnswerSteps ==
    ASSUME run \in [Runs -> RunState], saved \in SUBSET Docs, NEW m \in Request,
           NEW ok \in BOOLEAN, Answer(m, ok)
    PROVE  /\ run' \in [Runs -> RunState]
           /\ saved' \in SUBSET Docs
           /\ net' = net \ {m}
           /\ claimed' = claimed
           /\ \A r \in Runs :
                \/ run'[r] = run[r]
                \/ run[r].phase = "putting" /\ run'[r].phase \in {"put", "done", "return"}
                \/ run'[r].phase \in {"done", "return"}
<1>0. m.run \in Runs /\ m.start \in Nat
  BY DEF Request
<1>1. CASE run' = run /\ saved' = saved
  BY <1>1 DEF Answer
<1>2. CASE Hear(m, ok) /\ Awaits(m) /\ m.op = "put"
  <2>1. PICK known : /\ saved' = known
                     /\ known = saved \/ known = saved \cup Chunk(m.run, m.start)
                     /\ NextChunk(m.run, known)
    BY <1>2 DEF Hear
  <2>2. run[m.run].phase = "putting"
    BY <1>2 DEF Awaits
  <2> QED
    BY <1>0, <2>1, <2>2, NextChunkSteps, DocFacts DEF Answer
<1>3. CASE Hear(m, ok) /\ Awaits(m) /\ m.op # "put"
  <2>1. NextSlice(m.run) /\ saved' = saved
    BY <1>3 DEF Hear
  <2>2. /\ run' \in [Runs -> RunState]
        /\ run'[m.run].phase \in {"done", "return"}
        /\ \A q \in Runs : q # m.run => run'[q] = run[q]
    BY <1>0, <2>1, NextSliceSteps
  <2> QED
    BY <1>0, <2>1, <2>2 DEF Answer
<1>4. CASE Hear(m, ok) /\ ~Awaits(m)
  BY <1>4 DEF Hear, Answer
<1> QED
  BY <1>1, <1>2, <1>3, <1>4 DEF Answer

-----------------------------------------------------------------------------
(* The strengthening: what the positions of a run say about its orders.     *)

\* A run that still claims has sent nothing and stored nothing.
ClaimingFresh ==
    \A r \in Runs : run[r].phase = "claim" =>
        /\ \A m \in net : m.run # r
        /\ \A d \in DocsOf(r) :
              /\ ~Live(d)
              /\ d[2] <= run[r].start => claimed[d] # NoNumber

\* A run that saves has a number for every order.
SavingClaimed ==
    \A r \in Runs : run[r].phase \in {"put", "putting"} =>
        \A d \in DocsOf(r) : claimed[d] # NoNumber

RequestsClaimed ==
    \A m \in net : m.op = "put" => \A d \in DocsOf(m.run) : claimed[d] # NoNumber

\* A stored order carries the number its run gave it.
RowsCarryClaims == \A d \in Docs : Live(d) => orders[d].number = claimed[d]

RunsOK ==
    /\ ClaimingFresh
    /\ SavingClaimed
    /\ RequestsClaimed
    /\ RowsCarryClaims

IndInv == TypeOK /\ RunsOK

(* A step of a run that moves nothing but the run and its requests.         *)
LEMMA RunMoves ==
    ASSUME IndInv, NEW r \in Runs,
           UNCHANGED <<tables, claimed, saved, del, history>>,
           run' \in [Runs -> RunState],
           \A q \in Runs : q # r => run'[q] = run[q],
           run'[r].phase # "claim",
           run'[r].phase \in {"put", "putting"} => run[r].phase \in {"put", "putting"},
           net' \in SUBSET Request,
           \A m \in net' : m \in net \/ (m.run = r /\ (m.op = "put" => run'[r].phase = "putting"))
    PROVE  IndInv'
<1> USE DEF IndInv
<1>1. TypeOK'
  BY DEF TypeOK, TablesTypeOK, tables, history
<1>2. ClaimingFresh'
  <2> SUFFICES ASSUME NEW q \in Runs, run'[q].phase = "claim"
               PROVE  /\ \A m \in net' : m.run # q
                      /\ \A d \in DocsOf(q) :
                            /\ ~Live(d)'
                            /\ d[2] <= run'[q].start => claimed'[d] # NoNumber
    BY DEF ClaimingFresh, DocsOf
  <2>1. q # r /\ run'[q] = run[q]
    OBVIOUS
  <2> QED
    BY <2>1 DEF RunsOK, ClaimingFresh, Live, tables
<1>3. SavingClaimed'
  <2> SUFFICES ASSUME NEW q \in Runs, run'[q].phase \in {"put", "putting"},
                      NEW d \in DocsOf(q)
               PROVE  claimed[d] # NoNumber
    BY DEF SavingClaimed, DocsOf
  <2>1. run[q].phase \in {"put", "putting"}
    OBVIOUS
  <2> QED
    BY <2>1 DEF RunsOK, SavingClaimed
<1>4. RequestsClaimed'
  <2> SUFFICES ASSUME NEW m \in net', m.op = "put", NEW d \in DocsOf(m.run)
               PROVE  claimed[d] # NoNumber
    BY DEF RequestsClaimed, DocsOf
  <2>1. CASE m \in net
    BY <2>1 DEF RunsOK, RequestsClaimed
  <2>2. CASE m.run = r /\ run'[r].phase = "putting"
    BY <2>2 DEF RunsOK, SavingClaimed
  <2> QED
    BY <2>1, <2>2
<1>5. RowsCarryClaims'
  BY DEF RunsOK, RowsCarryClaims, Live, tables
<1> QED
  BY <1>1, <1>2, <1>3, <1>4, <1>5 DEF RunsOK

\* One request is sent, of that run.
LEMMA SendSteps ==
    ASSUME TypeOK, NEW r \in Runs, NEW op \in {"put", "recycle"},
           run' \in [Runs -> RunState], Send(r, op)
    PROVE  /\ net' \in SUBSET Request
           /\ \A m \in net' : m \in net \/ (m.run = r /\ m.op = op)
<1> DEFINE m == [op |-> op, run |-> r, start |-> run[r].start,
                 attempt |-> run'[r].attempt, read |-> FALSE, found |-> {}]
<1>1. run[r].start \in Nat /\ run'[r].attempt \in Nat
  BY DEF TypeOK, RunState
<1>2. m \in Request
  BY <1>1 DEF Request
<1>3. net' = net \cup {m}
  BY DEF Send
<1>4. m.run = r /\ m.op = op
  OBVIOUS
<1> HIDE DEF m
<1> QED
  BY <1>2, <1>3, <1>4 DEF TypeOK

(* The steps of a run other than a claim.                                   *)
LEMMA ClientQuietInv ==
    ASSUME IndInv, NEW r \in Runs,
           \/ Stop(r) \/ SendPut(r) \/ SendReturn(r) \/ Retry(r)
           \/ GiveUp(r) \/ Abort(r) \/ CloseTab(r)
    PROVE  IndInv'
<1>0. run \in [Runs -> RunState] /\ net \in SUBSET Request
  BY DEF IndInv, TypeOK
<1>1. ASSUME Go(r, "done", 0, 1) \/ NextSlice(r), net' = net,
             UNCHANGED <<tables, claimed, saved, del, history>>
      PROVE  IndInv'
  <2>1. /\ run' \in [Runs -> RunState]
        /\ run'[r].phase \in {"done", "return"}
        /\ \A q \in Runs : q # r => run'[q] = run[q]
    BY <1>0, <1>1, GoSteps, NextSliceSteps DEF Phases
  <2>2. /\ run'[r].phase # "claim"
        /\ run'[r].phase \in {"put", "putting"} => run[r].phase \in {"put", "putting"}
    BY <1>1, <2>1
  <2>3. /\ net' \in SUBSET Request
        /\ \A m \in net' : m \in net \/ (m.run = r /\ (m.op = "put" => run'[r].phase = "putting"))
    BY <1>0, <1>1
  <2> QED
    BY <1>1, <2>1, <2>2, <2>3, RunMoves
<1>2. ASSUME NEW known, StopWith(r, known), net' = net,
             UNCHANGED <<tables, claimed, saved, del, history>>
      PROVE  IndInv'
  <2>1. /\ run' \in [Runs -> RunState]
        /\ run'[r].phase \in {"done", "return"}
        /\ \A q \in Runs : q # r => run'[q] = run[q]
    BY <1>0, <1>2, StopSteps
  <2>2. /\ run'[r].phase # "claim"
        /\ run'[r].phase \in {"put", "putting"} => run[r].phase \in {"put", "putting"}
    BY <2>1
  <2>3. /\ net' \in SUBSET Request
        /\ \A m \in net' : m \in net \/ (m.run = r /\ (m.op = "put" => run'[r].phase = "putting"))
    BY <1>0, <1>2
  <2> QED
    BY <1>2, <2>1, <2>2, <2>3, RunMoves
<1>3. CASE Stop(r)
  BY <1>2, <1>3 DEF Stop
<1>4. CASE SendPut(r)
  <2>1. /\ run' \in [Runs -> RunState]
        /\ run'[r].phase = "putting"
        /\ \A q \in Runs : q # r => run'[q] = run[q]
    <3>1. run[r].start \in Nat
      BY <1>0 DEF RunState
    <3> QED
      BY <1>0, <1>4, <3>1, GoSteps DEF SendPut, Phases
  <2>2. /\ net' \in SUBSET Request
        /\ \A m \in net' : m \in net \/ (m.run = r /\ m.op = "put")
    BY <1>4, <2>1, SendSteps DEF SendPut, IndInv
  <2>3. run[r].phase = "put" /\ UNCHANGED <<tables, claimed, saved, del, history>>
    BY <1>4 DEF SendPut
  <2> QED
    BY <2>1, <2>2, <2>3, RunMoves
<1>5. CASE SendReturn(r)
  <2>1. /\ run' \in [Runs -> RunState]
        /\ run'[r].phase = "returning"
        /\ \A q \in Runs : q # r => run'[q] = run[q]
    <3>1. run[r].start \in Nat
      BY <1>0 DEF RunState
    <3> QED
      BY <1>0, <1>5, <3>1, GoSteps DEF SendReturn, Phases
  <2>2. /\ net' \in SUBSET Request
        /\ \A m \in net' : m \in net \/ (m.run = r /\ m.op = "recycle")
    BY <1>5, <2>1, SendSteps DEF SendReturn, IndInv
  <2>3. UNCHANGED <<tables, claimed, saved, del, history>>
    BY <1>5 DEF SendReturn
  <2>4. /\ run'[r].phase # "claim"
        /\ run'[r].phase \in {"put", "putting"} => run[r].phase \in {"put", "putting"}
    BY <2>1
  <2>5. /\ net' \in SUBSET Request
        /\ \A m \in net' : m \in net \/ (m.run = r /\ (m.op = "put" => run'[r].phase = "putting"))
    BY <2>2
  <2> QED
    BY <2>1, <2>3, <2>4, <2>5, RunMoves
<1>6. CASE Retry(r)
  <2> DEFINE op == IF run[r].phase = "putting" THEN "put" ELSE "recycle"
  <2>1. run[r].phase \in {"putting", "returning"}
    BY <1>6 DEF Retry
  <2>2. /\ run' \in [Runs -> RunState]
        /\ run'[r].phase = run[r].phase
        /\ \A q \in Runs : q # r => run'[q] = run[q]
    <3>1. run[r].start \in Nat /\ run[r].attempt + 1 \in Nat /\ run[r].phase \in Phases
      BY <1>0 DEF RunState
    <3> QED
      BY <1>0, <1>6, <3>1, GoSteps DEF Retry
  <2>3. /\ net' \in SUBSET Request
        /\ \A m \in net' : m \in net \/ (m.run = r /\ m.op = op)
    BY <1>6, <2>2, SendSteps DEF Retry, IndInv
  <2>4. UNCHANGED <<tables, claimed, saved, del, history>>
    BY <1>6 DEF Retry
  <2>5. /\ run'[r].phase # "claim"
        /\ run'[r].phase \in {"put", "putting"} => run[r].phase \in {"put", "putting"}
    BY <2>1, <2>2
  <2>6. /\ net' \in SUBSET Request
        /\ \A m \in net' : m \in net \/ (m.run = r /\ (m.op = "put" => run'[r].phase = "putting"))
    BY <2>1, <2>2, <2>3
  <2> QED
    BY <2>2, <2>4, <2>5, <2>6, RunMoves
<1>7. CASE GiveUp(r)
  <2>1. CASE run[r].phase = "putting" /\ NextChunk(r, saved)
    <3>1. /\ run' \in [Runs -> RunState]
          /\ run'[r].phase \in {"put", "done", "return"}
          /\ \A q \in Runs : q # r => run'[q] = run[q]
      BY <1>0, <2>1, NextChunkSteps
    <3>2. net' = net /\ UNCHANGED <<tables, claimed, saved, del, history>>
      BY <1>7 DEF GiveUp
    <3>3. /\ run'[r].phase # "claim"
          /\ run'[r].phase \in {"put", "putting"} => run[r].phase \in {"put", "putting"}
      BY <2>1, <3>1
    <3>4. /\ net' \in SUBSET Request
          /\ \A m \in net' : m \in net \/ (m.run = r /\ (m.op = "put" => run'[r].phase = "putting"))
      BY <1>0, <3>2
    <3> QED
      BY <3>1, <3>2, <3>3, <3>4, RunMoves
  <2> QED
    BY <1>1, <1>7, <2>1 DEF GiveUp
<1>8. CASE Abort(r)
  BY <1>1, <1>2, <1>8 DEF Abort
<1>9. CASE CloseTab(r)
  BY <1>1, <1>9 DEF CloseTab
<1> QED
  BY <1>3, <1>4, <1>5, <1>6, <1>7, <1>8, <1>9

-----------------------------------------------------------------------------
(* A claim.                                                                 *)
Wanted(r) == Cardinality(Chunk(r, run[r].start))

Granted(r, head) == NumbersOf(RunFor[r], ClaimedSeqs(RunFor[r], Wanted(r), head))

\* A claim moves one counter, empties part of the pool and owes all of it to the run.
LEMMA ClaimFacts ==
    ASSUME TypeOK, NEW r \in Runs, ClaimChunk(r)
    PROVE  \E head \in Nat :
             /\ head >= lastNumber[RunFor[r]][year]
             /\ lastNumber' = [lastNumber EXCEPT ![RunFor[r]][year] = head]
             /\ recycled' = recycled \ NumbersOf(RunFor[r], ReusedSeqs(RunFor[r], Wanted(r)))
             /\ owed' = [owed EXCEPT ![r] = @ \cup Granted(r, head)]
             /\ Granted(r, head) \subseteq Number
             /\ \/ /\ claimed' \in [Docs -> Number \cup {NoNumber}]
                   /\ \A d \in Docs : d \notin Chunk(r, run[r].start) => claimed'[d] = claimed[d]
                   /\ \A d \in Chunk(r, run[r].start) : claimed'[d] \in Number
                   /\ IF run[r].start + ChunkSize < Size[r]
                      THEN Go(r, "claim", run[r].start + ChunkSize, 1)
                      ELSE Go(r, "put", 0, 1)
                \/ /\ claimed' = claimed
                   /\ StopWith(r, saved)
<1> DEFINE u == RunFor[r]
           chunk == Chunk(r, run[r].start)
<1>1. u \in Users /\ year \in Years /\ lastNumber[u][year] \in Nat /\ MaxSeq \in Nat
  BY RunsAssumption DEF TypeOK, TablesTypeOK
<1>2. PICK head \in lastNumber[u][year] .. MaxSeq :
        /\ ClaimProductionSeqs(u, Wanted(r), head)
        /\ owed' = [owed EXCEPT ![r] = @ \cup Granted(r, head)]
        /\ \/ /\ \E give \in [chunk -> ClaimedSeqs(u, Wanted(r), head)] :
                   claimed' = [d \in Docs |->
                        IF d \in chunk
                        THEN [owner |-> u, year |-> year, seq |-> give[d]]
                        ELSE claimed[d]]
              /\ IF run[r].start + ChunkSize < Size[r]
                 THEN Go(r, "claim", run[r].start + ChunkSize, 1)
                 ELSE Go(r, "put", 0, 1)
           \/ /\ claimed' = claimed
              /\ StopWith(r, saved)
  BY DEF ClaimChunk, Wanted, Granted
<1>3. head \in Nat /\ head >= lastNumber[u][year]
  BY <1>1, <1>2
<1>4. Granted(r, head) \subseteq Number
  BY <1>1, <1>3, ClaimTakes DEF TypeOK, Granted
<1>5. /\ lastNumber' = [lastNumber EXCEPT ![u][year] = head]
      /\ recycled' = recycled \ NumbersOf(u, ReusedSeqs(u, Wanted(r)))
  BY <1>2 DEF ClaimProductionSeqs
<1>6. ASSUME NEW give \in [chunk -> ClaimedSeqs(u, Wanted(r), head)],
             claimed' = [d \in Docs |->
                           IF d \in chunk
                           THEN [owner |-> u, year |-> year, seq |-> give[d]]
                           ELSE claimed[d]]
      PROVE  /\ claimed' \in [Docs -> Number \cup {NoNumber}]
             /\ \A d \in Docs : d \notin chunk => claimed'[d] = claimed[d]
             /\ \A d \in chunk : claimed'[d] \in Number
  <2>1. \A d \in chunk : [owner |-> u, year |-> year, seq |-> give[d]] \in Number
    BY <1>4 DEF Granted, NumbersOf
  <2>2. chunk \subseteq Docs
    BY DEF Chunk, DocsOf
  <2>3. claimed \in [Docs -> Number \cup {NoNumber}]
    BY DEF TypeOK
  <2> HIDE DEF chunk, u
  <2> QED
    BY <1>6, <2>1, <2>2, <2>3
<1> QED
  BY <1>2, <1>3, <1>4, <1>5, <1>6

\* A claim keeps the invariant: the chunk gets its numbers before it is put.
LEMMA ClaimInv ==
    ASSUME IndInv, NEW r \in Runs, ClaimChunk(r)
    PROVE  IndInv'
<1> DEFINE chunk == Chunk(r, run[r].start)
<1>0. TypeOK /\ RunsOK
  BY DEF IndInv
<1>1. PICK head \in Nat :
        /\ head >= lastNumber[RunFor[r]][year]
        /\ lastNumber' = [lastNumber EXCEPT ![RunFor[r]][year] = head]
        /\ recycled' = recycled \ NumbersOf(RunFor[r], ReusedSeqs(RunFor[r], Wanted(r)))
        /\ owed' = [owed EXCEPT ![r] = @ \cup Granted(r, head)]
        /\ Granted(r, head) \subseteq Number
        /\ \/ /\ claimed' \in [Docs -> Number \cup {NoNumber}]
              /\ \A d \in Docs : d \notin chunk => claimed'[d] = claimed[d]
              /\ \A d \in chunk : claimed'[d] \in Number
              /\ IF run[r].start + ChunkSize < Size[r]
                 THEN Go(r, "claim", run[r].start + ChunkSize, 1)
                 ELSE Go(r, "put", 0, 1)
           \/ /\ claimed' = claimed
              /\ StopWith(r, saved)
  BY <1>0, ClaimFacts
<1>2. /\ run[r].phase = "claim"
      /\ UNCHANGED <<year, orders, saved, net, del, misplaced>>
  BY DEF ClaimChunk
<1>3. /\ run \in [Runs -> RunState]
      /\ run[r].start \in Nat
      /\ claimed \in [Docs -> Number \cup {NoNumber}]
  BY <1>0 DEF TypeOK, RunState
<1>4. /\ chunk \subseteq DocsOf(r)
      /\ DocsOf(r) \subseteq Docs
      /\ \A d \in DocsOf(r) : d[1] = r /\ d[2] \in Nat /\ d[2] <= Size[r]
  BY <1>3, DocFacts DEF DocsOf
<1>5. /\ run' \in [Runs -> RunState]
      /\ \A q \in Runs : q # r => run'[q] = run[q]
      /\ claimed' \in [Docs -> Number \cup {NoNumber}]
      /\ \A d \in Docs : claimed[d] # NoNumber => claimed'[d] # NoNumber
      /\ \A d \in Docs : d \notin chunk => claimed'[d] = claimed[d]
      /\ run'[r].phase = "claim" =>
            \A d \in DocsOf(r) : d[2] <= run'[r].start => claimed'[d] # NoNumber
      /\ run'[r].phase \in {"put", "putting"} => \A d \in DocsOf(r) : claimed'[d] # NoNumber
  <2>1. CASE /\ claimed' = claimed
             /\ StopWith(r, saved)
    <3>1. /\ run' \in [Runs -> RunState]
          /\ run'[r].phase \in {"done", "return"}
          /\ \A q \in Runs : q # r => run'[q] = run[q]
      BY <1>3, <2>1, StopSteps
    <3> QED
      BY <1>3, <2>1, <3>1
  <2>2. CASE /\ claimed' \in [Docs -> Number \cup {NoNumber}]
             /\ \A d \in Docs : d \notin chunk => claimed'[d] = claimed[d]
             /\ \A d \in chunk : claimed'[d] \in Number
             /\ IF run[r].start + ChunkSize < Size[r]
                THEN Go(r, "claim", run[r].start + ChunkSize, 1)
                ELSE Go(r, "put", 0, 1)
    <3>1. \A d \in chunk : claimed'[d] # NoNumber
      BY <2>2, RunsAssumption
    <3>2. \A d \in Docs : claimed[d] # NoNumber => claimed'[d] # NoNumber
      BY <2>2, <3>1
    <3>3. \A d \in DocsOf(r) : d[2] <= run[r].start + ChunkSize => claimed'[d] # NoNumber
      <4> SUFFICES ASSUME NEW d \in DocsOf(r), d[2] <= run[r].start + ChunkSize
                   PROVE  claimed'[d] # NoNumber
        OBVIOUS
      <4>1. CASE d[2] <= run[r].start
        BY <1>0, <1>2, <1>4, <3>2, <4>1 DEF RunsOK, ClaimingFresh
      <4>2. CASE run[r].start < d[2]
        BY <3>1, <4>2 DEF Chunk
      <4> QED
        BY <1>3, <1>4, <4>1, <4>2
    <3>4. CASE run[r].start + ChunkSize < Size[r]
      <4>1. Go(r, "claim", run[r].start + ChunkSize, 1) /\ run[r].start + ChunkSize \in Nat
        BY <1>3, <2>2, <3>4, RunsAssumption
      <4>2. /\ run' \in [Runs -> RunState]
            /\ run'[r].phase = "claim"
            /\ run'[r].start = run[r].start + ChunkSize
            /\ \A q \in Runs : q # r => run'[q] = run[q]
        BY <1>3, <4>1, GoSteps DEF Phases
      <4> QED
        BY <2>2, <3>2, <3>3, <4>2
    <3>5. CASE ~(run[r].start + ChunkSize < Size[r])
      <4>1. Go(r, "put", 0, 1)
        BY <2>2, <3>5
      <4>2. /\ run' \in [Runs -> RunState]
            /\ run'[r].phase = "put"
            /\ \A q \in Runs : q # r => run'[q] = run[q]
        BY <1>3, <4>1, GoSteps DEF Phases
      <4>3. \A d \in DocsOf(r) : d[2] <= run[r].start + ChunkSize
        BY <1>3, <1>4, <3>5, RunsAssumption
      <4> QED
        BY <2>2, <3>2, <3>3, <4>2, <4>3
    <3> QED
      BY <3>4, <3>5
  <2> QED
    BY <1>1, <2>1, <2>2
<1>6. TypeOK'
  <2>1. lastNumber' \in [Users -> [Years -> Nat]]
    BY <1>0, <1>1 DEF TypeOK, TablesTypeOK
  <2>2. recycled' \in SUBSET Number
    BY <1>0, <1>1 DEF TypeOK, TablesTypeOK
  <2>3. owed' \in [Runs -> SUBSET Number]
    BY <1>0, <1>1 DEF TypeOK
  <2> QED
    BY <1>0, <1>2, <1>5, <2>1, <2>2, <2>3 DEF TypeOK, TablesTypeOK
<1>7. \A q \in Runs : q # r => \A d \in DocsOf(q) : claimed'[d] = claimed[d]
  BY <1>4, <1>5 DEF DocsOf
<1>8. ClaimingFresh'
  <2> SUFFICES ASSUME NEW q \in Runs, run'[q].phase = "claim"
               PROVE  /\ \A m \in net : m.run # q
                      /\ \A d \in DocsOf(q) :
                            /\ ~Live(d)
                            /\ d[2] <= run'[q].start => claimed'[d] # NoNumber
    BY <1>2 DEF ClaimingFresh, DocsOf, Live
  <2>1. CASE q = r
    BY <1>0, <1>2, <1>5, <2>1 DEF RunsOK, ClaimingFresh
  <2>2. CASE q # r
    BY <1>0, <1>5, <1>7, <2>2 DEF RunsOK, ClaimingFresh
  <2> QED
    BY <2>1, <2>2
<1>9. SavingClaimed'
  <2> SUFFICES ASSUME NEW q \in Runs, run'[q].phase \in {"put", "putting"},
                      NEW d \in DocsOf(q)
               PROVE  claimed'[d] # NoNumber
    BY DEF SavingClaimed, DocsOf
  <2>1. CASE q = r
    BY <1>5, <2>1
  <2>2. CASE q # r
    BY <1>0, <1>5, <1>7, <2>2 DEF RunsOK, SavingClaimed
  <2> QED
    BY <2>1, <2>2
<1>10. RequestsClaimed'
  BY <1>0, <1>2, <1>5 DEF RunsOK, RequestsClaimed, DocsOf
<1>11. RowsCarryClaims'
  <2> SUFFICES ASSUME NEW d \in Docs, Live(d)
               PROVE  orders[d].number = claimed'[d]
    BY <1>2 DEF RowsCarryClaims, Live
  <2>1. d \notin chunk
    BY <1>0, <1>2, <1>4 DEF RunsOK, ClaimingFresh
  <2> QED
    BY <1>0, <1>5, <2>1 DEF RunsOK, RowsCarryClaims
<1> QED
  BY <1>6, <1>8, <1>9, <1>10, <1>11 DEF IndInv, RunsOK

-----------------------------------------------------------------------------
(* The server's steps on a request.                                         *)
LEMMA AnswerRuns ==
    ASSUME IndInv, NEW m \in net, NEW ok \in BOOLEAN, Answer(m, ok)
    PROVE  /\ run' \in [Runs -> RunState]
           /\ saved' \in SUBSET Docs
           /\ net' \in SUBSET Request
           /\ net' \subseteq net
           /\ claimed' = claimed
           /\ SavingClaimed'
           /\ RequestsClaimed'
           /\ \A r \in Runs : run'[r].phase = "claim" => run'[r] = run[r]
<1>1. /\ run \in [Runs -> RunState]
      /\ saved \in SUBSET Docs
      /\ net \in SUBSET Request
      /\ m \in Request
  BY DEF IndInv, TypeOK
<1>2. /\ run' \in [Runs -> RunState]
      /\ saved' \in SUBSET Docs
      /\ net' = net \ {m}
      /\ claimed' = claimed
      /\ \A r \in Runs :
           \/ run'[r] = run[r]
           \/ run[r].phase = "putting" /\ run'[r].phase \in {"put", "done", "return"}
           \/ run'[r].phase \in {"done", "return"}
  BY <1>1, AnswerSteps
<1>3. SavingClaimed'
  <2> SUFFICES ASSUME NEW r \in Runs, run'[r].phase \in {"put", "putting"},
                      NEW d \in DocsOf(r)
               PROVE  claimed[d] # NoNumber
    BY <1>2 DEF SavingClaimed, DocsOf
  <2>1. run[r].phase \in {"put", "putting"}
    BY <1>2
  <2> QED
    BY <2>1 DEF IndInv, RunsOK, SavingClaimed
<1>4. RequestsClaimed'
  BY <1>2 DEF IndInv, RunsOK, RequestsClaimed, DocsOf
<1>5. \A r \in Runs : run'[r].phase = "claim" => run'[r] = run[r]
  BY <1>2
<1> QED
  BY <1>1, <1>2, <1>3, <1>4, <1>5

(* An answer to a request that left the orders alone.                       *)
LEMMA AnswerInv ==
    ASSUME IndInv, NEW m \in net, NEW ok \in BOOLEAN, Answer(m, ok),
           UNCHANGED <<year, lastNumber, orders, del>>,
           recycled' \in SUBSET Number,
           owed' \in [Runs -> SUBSET Number],
           misplaced' \in SUBSET Number
    PROVE  IndInv'
<1>1. /\ run' \in [Runs -> RunState]
      /\ saved' \in SUBSET Docs
      /\ net' \in SUBSET Request
      /\ net' \subseteq net
      /\ claimed' = claimed
      /\ SavingClaimed'
      /\ RequestsClaimed'
      /\ \A r \in Runs : run'[r].phase = "claim" => run'[r] = run[r]
  BY AnswerRuns
<1>2. TypeOK'
  BY <1>1 DEF IndInv, TypeOK, TablesTypeOK
<1>3. ClaimingFresh'
  BY <1>1 DEF IndInv, RunsOK, ClaimingFresh, DocsOf, Live
<1>4. RowsCarryClaims'
  BY <1>1 DEF IndInv, RunsOK, RowsCarryClaims, Live
<1> QED
  BY <1>1, <1>2, <1>3, <1>4 DEF IndInv, RunsOK

\* The read of a PUT keeps the invariant.
LEMMA PutReadInv ==
    ASSUME IndInv, NEW m \in net, PutRead(m)
    PROVE  IndInv'
<1> DEFINE found == {d \in Chunk(m.run, m.start) : Live(d)}
           w == [m EXCEPT !.read = TRUE, !.found = found]
<1>1. m \in Request /\ found \subseteq Docs
  BY DEF IndInv, TypeOK, Chunk, DocsOf
<1>2. w \in Request /\ w.run = m.run /\ w.op = m.op
  BY <1>1 DEF Request
<1>3. /\ net' = (net \ {m}) \cup {w}
      /\ UNCHANGED <<tables, clientVars, del, history>>
  BY DEF PutRead
<1> HIDE DEF found, w
<1>4. TypeOK'
  BY <1>2, <1>3 DEF IndInv, TypeOK, TablesTypeOK, tables, clientVars, history
<1>5. ClaimingFresh'
  BY <1>2, <1>3 DEF IndInv, RunsOK, ClaimingFresh, DocsOf, Live, tables, clientVars
<1>6. SavingClaimed'
  BY <1>3 DEF IndInv, RunsOK, SavingClaimed, DocsOf, clientVars
<1>7. RequestsClaimed'
  BY <1>2, <1>3 DEF IndInv, RunsOK, RequestsClaimed, DocsOf, clientVars
<1>8. RowsCarryClaims'
  BY <1>3 DEF IndInv, RunsOK, RowsCarryClaims, Live, tables, clientVars
<1> QED
  BY <1>4, <1>5, <1>6, <1>7, <1>8 DEF IndInv, RunsOK

\* The commit of a PUT stores orders under the numbers their run claimed.
LEMMA PutCommitInv ==
    ASSUME IndInv, NEW m \in net, PutCommit(m)
    PROVE  IndInv'
<1> DEFINE chunk == Chunk(m.run, m.start)
           created == {claimed[d] : d \in chunk \ m.found}
<1>1. /\ m.op = "put"
      /\ orders' = Saved(chunk, RunFor[m.run], claimed)
      /\ owed' = [owed EXCEPT ![m.run] = @ \ created]
      /\ misplaced' = misplaced \cup (created \ owed[m.run])
      /\ Answer(m, TRUE)
      /\ UNCHANGED <<year, lastNumber, recycled, del>>
  BY DEF PutCommit
<1>2. /\ m.run \in Runs
      /\ RunFor[m.run] \in Users
      /\ chunk \subseteq DocsOf(m.run)
      /\ DocsOf(m.run) \subseteq Docs
  BY RunsAssumption, DocFacts DEF IndInv, TypeOK, Request
<1>3. \A d \in chunk : claimed[d] \in Number
  BY <1>1, <1>2 DEF IndInv, TypeOK, RunsOK, RequestsClaimed
<1>4. /\ run' \in [Runs -> RunState]
      /\ saved' \in SUBSET Docs
      /\ net' \in SUBSET Request
      /\ net' \subseteq net
      /\ claimed' = claimed
      /\ SavingClaimed'
      /\ RequestsClaimed'
      /\ \A r \in Runs : run'[r].phase = "claim" => run'[r] = run[r]
  BY <1>1, AnswerRuns
<1>5. created \subseteq Number
  BY <1>3
<1> HIDE DEF chunk, created
<1>6. orders' \in [Docs -> OrderRow \cup {NoRow}]
  BY <1>1, <1>2, <1>3 DEF Saved, OrderRow, IndInv, TypeOK, TablesTypeOK
<1>7. owed' \in [Runs -> SUBSET Number] /\ misplaced' \in SUBSET Number
  BY <1>1, <1>2, <1>5 DEF IndInv, TypeOK
<1>8. TypeOK'
  BY <1>1, <1>4, <1>6, <1>7 DEF IndInv, TypeOK, TablesTypeOK
<1>9. \A d \in Docs : /\ d \in chunk => orders'[d] = [userId |-> RunFor[m.run],
                                                      number |-> claimed[d],
                                                      accepted |-> FALSE]
                      /\ d \notin chunk => orders'[d] = orders[d]
  BY <1>1 DEF Saved
<1>10. ClaimingFresh'
  <2> SUFFICES ASSUME NEW r \in Runs, run'[r].phase = "claim"
               PROVE  /\ \A w \in net' : w.run # r
                      /\ \A d \in DocsOf(r) :
                            /\ orders'[d] = NoRow
                            /\ d[2] <= run'[r].start => claimed'[d] # NoNumber
    BY DEF ClaimingFresh, DocsOf, Live
  <2>1. run[r].phase = "claim" /\ run'[r] = run[r]
    BY <1>4
  <2>2. \A w \in net : w.run # r
    BY <2>1 DEF IndInv, RunsOK, ClaimingFresh
  <2>3. \A d \in DocsOf(r) : d \in Docs /\ d \notin chunk
    BY <1>2, <2>2 DEF DocsOf
  <2> QED
    BY <1>4, <1>9, <2>1, <2>2, <2>3 DEF IndInv, RunsOK, ClaimingFresh, Live
<1>11. RowsCarryClaims'
  <2> SUFFICES ASSUME NEW d \in Docs, orders'[d] # NoRow
               PROVE  orders'[d].number = claimed[d]
    BY <1>4 DEF RowsCarryClaims, Live
  <2>1. CASE d \in chunk
    <3>1. orders'[d] = [userId |-> RunFor[m.run], number |-> claimed[d], accepted |-> FALSE]
      BY <1>9, <2>1
    <3> QED
      BY <3>1
  <2>2. CASE d \notin chunk
    BY <1>9, <2>2 DEF IndInv, RunsOK, RowsCarryClaims, Live
  <2> QED
    BY <2>1, <2>2
<1> QED
  BY <1>4, <1>8, <1>10, <1>11 DEF IndInv, RunsOK

\* A return of numbers keeps the invariant.
LEMMA ReturnCommitInv ==
    ASSUME IndInv, NEW m \in net, ReturnCommit(m)
    PROVE  IndInv'
<1> DEFINE docs == Slice(m.run, m.start)
           given == NumbersOf(RunFor[m.run], {claimed[d].seq : d \in docs})
<1>1. /\ recycled' = recycled \cup given
      /\ owed' = [owed EXCEPT ![m.run] = @ \ given]
      /\ misplaced' = misplaced \cup (given \ owed[m.run])
      /\ Answer(m, TRUE)
      /\ UNCHANGED <<year, lastNumber, orders, del>>
  BY DEF ReturnCommit, ReturnNumbers
<1>2. /\ m.run \in Runs
      /\ RunFor[m.run] \in Users
      /\ year \in Years
  BY RunsAssumption DEF IndInv, TypeOK, TablesTypeOK, Request
<1>3. \A d \in docs : claimed[d] \in Number
  BY DEF IndInv, TypeOK, Slice, ToReturn, Unsaved, DocsOf
<1>4. given \subseteq Number
  <2>1. \A d \in docs : claimed[d].seq \in Nat \ {0}
    BY <1>3 DEF Number
  <2> HIDE DEF docs
  <2> QED
    BY <1>2, <2>1 DEF NumbersOf, Number
<1> HIDE DEF docs, given
<1>5. /\ recycled' \in SUBSET Number
      /\ owed' \in [Runs -> SUBSET Number]
      /\ misplaced' \in SUBSET Number
  BY <1>1, <1>2, <1>4 DEF IndInv, TypeOK, TablesTypeOK
<1> QED
  BY <1>1, <1>5, AnswerInv

\* Every statement of the server on a run's request keeps the invariant.
LEMMA ServeInv ==
    ASSUME IndInv, NEW m \in net, Serve(m)
    PROVE  IndInv'
<1>0. /\ recycled \in SUBSET Number
      /\ owed \in [Runs -> SUBSET Number]
      /\ misplaced \in SUBSET Number
  BY DEF IndInv, TypeOK, TablesTypeOK
<1>1. CASE PutRead(m)
  BY <1>1, PutReadInv
<1>2. CASE PutCommit(m)
  BY <1>2, PutCommitInv
<1>3. CASE PutRollback(m)
  <2>1. Answer(m, FALSE) /\ UNCHANGED <<tables, del, history>>
    BY <1>3 DEF PutRollback
  <2> QED
    BY <1>0, <2>1, AnswerInv DEF tables, history
<1>4. CASE ReturnCommit(m)
  BY <1>4, ReturnCommitInv
<1>5. CASE Refuse(m)
  <2>1. Answer(m, FALSE) /\ UNCHANGED <<tables, del, history>>
    BY <1>5 DEF Refuse
  <2> QED
    BY <1>0, <2>1, AnswerInv DEF tables, history
<1>6. CASE Lose(m)
  <2>1. net' = net \ {m} /\ UNCHANGED <<tables, clientVars, del, history>>
    BY <1>6 DEF Lose
  <2>2. TypeOK'
    BY <2>1 DEF IndInv, TypeOK, TablesTypeOK, tables, clientVars, history
  <2>3. RunsOK'
    BY <2>1 DEF IndInv, RunsOK, ClaimingFresh, SavingClaimed, RequestsClaimed,
                RowsCarryClaims, DocsOf, Live, tables, clientVars
  <2> QED
    BY <2>2, <2>3 DEF IndInv
<1> QED
  BY <1>1, <1>2, <1>3, <1>4, <1>5, <1>6 DEF Serve

-----------------------------------------------------------------------------
(* The deletes, the edits and the year.                                     *)

\* A step that touches no run and no request, and stores no new order.
LEMMA TablesMove ==
    ASSUME IndInv, TypeOK', UNCHANGED <<clientVars, net>>,
           \A d \in Docs : Live(d)' => Live(d) /\ orders'[d].number = orders[d].number
    PROVE  IndInv'
<1>1. ClaimingFresh'
  <2> SUFFICES ASSUME NEW r \in Runs, run[r].phase = "claim"
               PROVE  /\ \A m \in net : m.run # r
                      /\ \A d \in DocsOf(r) :
                            /\ ~Live(d)'
                            /\ d[2] <= run[r].start => claimed[d] # NoNumber
    BY DEF ClaimingFresh, DocsOf, clientVars
  <2> QED
    BY DEF IndInv, RunsOK, ClaimingFresh, DocsOf
<1>2. SavingClaimed' /\ RequestsClaimed'
  BY DEF IndInv, RunsOK, SavingClaimed, RequestsClaimed, DocsOf, clientVars
<1>3. RowsCarryClaims'
  <2> SUFFICES ASSUME NEW d \in Docs, Live(d)'
               PROVE  orders'[d].number = claimed[d]
    BY DEF RowsCarryClaims, clientVars
  <2> QED
    BY DEF IndInv, RunsOK, RowsCarryClaims
<1> QED
  BY <1>1, <1>2, <1>3 DEF IndInv, RunsOK

\* A delete request stays well-typed.
LEMMA SetDeleteType ==
    ASSUME TypeOK, NEW q \in Deletes, NEW stage \in {"new", "read", "checked", "done"},
           NEW rows \in [Docs -> OrderRow \cup {NoRow}], SetDelete(q, stage, rows)
    PROVE  del' \in [Deletes -> DeleteState]
  BY DEF SetDelete, DeleteState, TypeOK

\* A delete removes stored orders, returns numbers and marks those not freed.
LEMMA DeleteCommitFacts ==
    ASSUME TypeOK, NEW q \in Deletes, DeleteCommit(q)
    PROVE  \E gone \in SUBSET Docs, returned \in SUBSET Number, freed \in SUBSET Number :
             /\ \A d \in gone : Live(d)
             /\ freed = {orders[d].number : d \in gone}
             /\ orders' = [d \in Docs |-> IF d \in gone THEN NoRow ELSE orders[d]]
             /\ recycled' = recycled \cup returned
             /\ misplaced' = misplaced \cup (returned \ freed) \cup (freed \ returned)
<1> DEFINE gone == {d \in InHand(q) :
                      /\ Live(d)
                      /\ \/ DeleteKind[q] = "batch"
                         \/ DeleteBy[q] \in Admins
                         \/ orders[d].userId = DeleteBy[q]}
           returned == {ReturnedAs(del[q].rows[d]) : d \in InHand(q)}
           freed == {orders[d].number : d \in gone}
<1>1. /\ orders' = [d \in Docs |-> IF d \in gone THEN NoRow ELSE orders[d]]
      /\ recycled' = recycled \cup returned
      /\ misplaced' = misplaced \cup (returned \ freed) \cup (freed \ returned)
  BY DEF DeleteCommit, RemoveOrders, ReturnNumbers
<1>2. gone \in SUBSET Docs /\ \A d \in gone : Live(d)
  BY DEF InHand
<1>3. \A d \in InHand(q) : del[q].rows[d] \in OrderRow
  BY DEF InHand, TypeOK, DeleteState
<1>4. returned \subseteq Number
  <2> SUFFICES ASSUME NEW d \in InHand(q)
               PROVE  ReturnedAs(del[q].rows[d]) \in Number
    OBVIOUS
  <2> DEFINE row == del[q].rows[d]
  <2>1. /\ row.userId \in Users
        /\ row.number \in Number
    BY <1>3 DEF OrderRow
  <2>2. row.number.year \in Years /\ row.number.seq \in Nat \ {0}
    BY <2>1 DEF Number
  <2> HIDE DEF row
  <2>3. ReturnedAs(row) \in Number
    BY <2>1, <2>2 DEF ReturnedAs, Number
  <2> QED
    BY <2>3 DEF row
<1>5. freed \subseteq Number
  BY <1>2 DEF TypeOK, TablesTypeOK, Live, OrderRow
<1> HIDE DEF gone, returned
<1> QED
  BY <1>1, <1>2, <1>4, <1>5

\* Every statement of a delete keeps the invariant.
LEMMA DeleteInv ==
    ASSUME IndInv, NEW q \in Deletes, Delete(q)
    PROVE  IndInv'
<1>0. TypeOK /\ del[q] \in DeleteState /\ NoDocs \in [Docs -> OrderRow \cup {NoRow}]
  BY DEF IndInv, TypeOK, NoDocs
<1>1. ASSUME NEW stage \in {"new", "read", "checked", "done"},
             NEW rows \in [Docs -> OrderRow \cup {NoRow}], SetDelete(q, stage, rows),
             UNCHANGED <<tables, clientVars, net, history>>
      PROVE  IndInv'
  <2>1. TypeOK'
    BY <1>0, <1>1, SetDeleteType DEF TypeOK, TablesTypeOK, tables, clientVars, history
  <2> QED
    BY <1>1, <2>1, TablesMove DEF tables, Live
<1>2. CASE DeleteRead(q)
  <2>1. PICK open \in SUBSET Docs :
          SetDelete(q, "read", [d \in Docs |-> IF d \in open THEN orders[d] ELSE NoRow])
    BY <1>2 DEF DeleteRead
  <2>2. [d \in Docs |-> IF d \in open THEN orders[d] ELSE NoRow]
            \in [Docs -> OrderRow \cup {NoRow}]
    BY <1>0 DEF TypeOK, TablesTypeOK
  <2> QED
    BY <1>1, <1>2, <2>1, <2>2 DEF DeleteRead
<1>3. CASE DeleteCheck(q)
  <2>1. PICK keep : SetDelete(q, "checked",
                        [d \in Docs |-> IF d \in keep THEN del[q].rows[d] ELSE NoRow])
    BY <1>3 DEF DeleteCheck
  <2>2. [d \in Docs |-> IF d \in keep THEN del[q].rows[d] ELSE NoRow]
            \in [Docs -> OrderRow \cup {NoRow}]
    BY <1>0 DEF DeleteState
  <2> QED
    BY <1>1, <1>3, <2>1, <2>2 DEF DeleteCheck
<1>4. CASE DeleteCommit(q)
  <2>1. PICK gone \in SUBSET Docs, returned \in SUBSET Number, freed \in SUBSET Number :
             /\ \A d \in gone : Live(d)
             /\ freed = {orders[d].number : d \in gone}
             /\ orders' = [d \in Docs |-> IF d \in gone THEN NoRow ELSE orders[d]]
             /\ recycled' = recycled \cup returned
             /\ misplaced' = misplaced \cup (returned \ freed) \cup (freed \ returned)
    BY <1>0, <1>4, DeleteCommitFacts
  <2>2. /\ SetDelete(q, "done", NoDocs)
        /\ UNCHANGED <<year, lastNumber, clientVars, net, owed>>
    BY <1>4 DEF DeleteCommit
  <2>3. del' \in [Deletes -> DeleteState]
    BY <1>0, <2>2, SetDeleteType
  <2>4. TypeOK'
    BY <1>0, <2>1, <2>2, <2>3 DEF TypeOK, TablesTypeOK, clientVars
  <2>5. \A d \in Docs : Live(d)' => Live(d) /\ orders'[d].number = orders[d].number
    BY <2>1 DEF Live
  <2> QED
    BY <2>2, <2>4, <2>5, TablesMove
<1>5. CASE DeleteRefused(q)
  BY <1>0, <1>1, <1>5 DEF DeleteRefused
<1> QED
  BY <1>2, <1>3, <1>4, <1>5 DEF Delete

\* Accepting, reopening or reassigning an order leaves its number.
LEMMA EditFacts ==
    ASSUME TypeOK, NEW actor, NEW d \in Docs, NEW userId \in Users,
           NEW accepted \in BOOLEAN, UpdateOrder(actor, d, userId, accepted)
    PROVE  /\ orders' \in [Docs -> OrderRow \cup {NoRow}]
           /\ \A e \in Docs : Live(e)' <=> Live(e)
           /\ \A e \in Docs : Live(e) => orders'[e].number = orders[e].number
<1> DEFINE row == [userId |-> userId, number |-> orders[d].number, accepted |-> accepted]
<1>1. Live(d) /\ orders \in [Docs -> OrderRow \cup {NoRow}]
  BY DEF UpdateOrder, TypeOK, TablesTypeOK
<1>2. orders[d] \in OrderRow
  BY <1>1 DEF Live
<1>3. row \in OrderRow
  BY <1>2 DEF OrderRow
<1>4. orders' = [orders EXCEPT ![d] = row]
  <2>1. orders' = [orders EXCEPT ![d].userId = userId, ![d].accepted = accepted]
    BY DEF UpdateOrder
  <2>2. /\ orders' \in [Docs -> {orders'[e] : e \in Docs}]
        /\ \A e \in Docs : e # d => orders'[e] = orders[e]
        /\ orders'[d] = [[orders[d] EXCEPT !.userId = userId] EXCEPT !.accepted = accepted]
    BY <1>1, <2>1
  <2>3. orders'[d] = row
    BY <1>2, <2>2 DEF OrderRow
  <2> HIDE DEF row
  <2> QED
    BY <1>1, <2>2, <2>3
<1>5. row.number = orders[d].number /\ row # NoRow
  BY <1>3, NoRowAssumption
<1> HIDE DEF row
<1> QED
  BY <1>1, <1>3, <1>4, <1>5 DEF Live

-----------------------------------------------------------------------------
\* The first state satisfies the invariant.
LEMMA InitInv == Init => IndInv
<1> SUFFICES ASSUME Init PROVE IndInv
  OBVIOUS
<1>1. /\ year \in Years
      /\ lastNumber = [u \in Users |-> [y \in Years |-> StartNumber[u] - 1]]
      /\ recycled = {}
      /\ orders = [d \in Docs |-> NoRow]
  BY DEF Init, TablesInit
<1>2. TablesTypeOK
  <2>1. \A u \in Users : StartNumber[u] - 1 \in Nat
    BY UsersAssumption
  <2>2. lastNumber \in [Users -> [Years -> Nat]]
    BY <1>1, <2>1
  <2> QED
    BY <1>1, <2>2 DEF TablesTypeOK
<1>3. run \in [Runs -> RunState]
  <2>1. Begun \in RunState /\ NotAsked \in RunState
    BY DEF Begun, NotAsked, RunState, Phases
  <2>2. run \in [Runs -> {Begun, NotAsked}]
    BY DEF Init
  <2> QED
    BY <2>1, <2>2
<1>4. del \in [Deletes -> DeleteState]
  <2> DEFINE first == {[stage |-> t, rows |-> NoDocs] : t \in {"new", "done"}}
  <2>1. NoDocs \in [Docs -> OrderRow \cup {NoRow}]
    BY DEF NoDocs
  <2>2. first \subseteq DeleteState
    BY <2>1 DEF DeleteState
  <2>3. del \in [Deletes -> first]
    BY DEF Init
  <2> HIDE DEF first
  <2> QED
    BY <2>2, <2>3
<1>5. TypeOK
  BY <1>2, <1>3, <1>4 DEF Init, TypeOK
<1>6. /\ claimed = [d \in Docs |-> NoNumber]
      /\ net = {}
      /\ \A r \in Runs : run[r] = Begun \/ run[r] = NotAsked
  BY DEF Init
<1>7. \A r \in Runs : /\ run[r].phase \in {"claim", "done"}
                      /\ run[r].start = 0
  BY <1>6 DEF Begun, NotAsked
<1>8. ClaimingFresh
  BY <1>1, <1>6, <1>7, DocFacts DEF ClaimingFresh, DocsOf, Live
<1>9. SavingClaimed /\ RequestsClaimed /\ RowsCarryClaims
  BY <1>1, <1>6, <1>7 DEF SavingClaimed, RequestsClaimed, RowsCarryClaims, Live
<1> QED
  BY <1>5, <1>8, <1>9 DEF IndInv, RunsOK

\* Every step keeps the invariant.
LEMMA NextInv == IndInv /\ [Next]_vars => IndInv'
<1> SUFFICES ASSUME IndInv, [Next]_vars PROVE IndInv'
  OBVIOUS
<1>1. ASSUME NEW r \in Runs, Client(r) PROVE IndInv'
  BY <1>1, ClaimInv, ClientQuietInv DEF Client
<1>2. ASSUME NEW m \in net, Serve(m) PROVE IndInv'
  BY <1>2, ServeInv
<1>3. ASSUME NEW q \in Deletes, Delete(q) PROVE IndInv'
  BY <1>3, DeleteInv
<1>4. CASE Edit
  <2>1. PICK actor \in Editors, d \in Docs, userId \in Users, accepted \in BOOLEAN :
          EditOrder(actor, d, userId, accepted)
    BY <1>4 DEF Edit
  <2>2. /\ UpdateOrder(actor, d, userId, accepted)
        /\ UNCHANGED <<year, lastNumber, recycled, clientVars, net, del, history>>
    BY <2>1 DEF EditOrder
  <2>3. /\ orders' \in [Docs -> OrderRow \cup {NoRow}]
        /\ \A e \in Docs : Live(e)' <=> Live(e)
        /\ \A e \in Docs : Live(e) => orders'[e].number = orders[e].number
    BY <2>2, EditFacts DEF IndInv
  <2>4. TypeOK'
    BY <2>2, <2>3 DEF IndInv, TypeOK, TablesTypeOK, clientVars, history
  <2> QED
    BY <2>2, <2>3, <2>4, TablesMove
<1>5. CASE NewYear
  <2>1. TypeOK'
    BY <1>5 DEF NewYear, IndInv, TypeOK, TablesTypeOK, clientVars, history
  <2> QED
    BY <1>5, <2>1, TablesMove DEF NewYear, Live
<1>6. CASE UNCHANGED vars
  <2>1. TypeOK'
    BY <1>6 DEF vars, IndInv, TypeOK, TablesTypeOK, tables, clientVars, history
  <2> QED
    BY <1>6, <2>1, TablesMove DEF vars, tables, Live
<1> QED
  BY <1>1, <1>2, <1>3, <1>4, <1>5, <1>6 DEF Next

(* Every table, every run and every request keeps its type: above all, no   *)
(* order is stored and no number returned that a run has not been given.    *)
THEOREM TypeCorrect == Spec => []TypeOK
<1>1. Spec => []IndInv
  BY InitInv, NextInv, PTL DEF Spec
<1>2. IndInv => TypeOK
  BY DEF IndInv
<1> QED
  BY <1>1, <1>2, PTL

-----------------------------------------------------------------------------
(* The ledger.  The four invariants, with the sets they quantify over       *)
(* written out: a step changes one or two of the places a number can be in. *)

Passed(n) == n.seq <= lastNumber[n.owner][n.year]

OnNoOrder(n) == \A d \in Docs : Live(d) => orders[d].number # n

PoolLedger ==
    \A n \in recycled : n \notin misplaced =>
        /\ OnNoOrder(n)
        /\ \A r \in Runs : n \notin owed[r]
        /\ Passed(n)

OwedLedger ==
    \A r \in Runs : \A n \in owed[r] : n \notin misplaced =>
        /\ OnNoOrder(n)
        /\ \A q \in Runs : q # r => n \notin owed[q]
        /\ Passed(n)

RowLedger ==
    \A d \in Docs : Live(d) /\ orders[d].number \notin misplaced =>
        /\ \A e \in Docs : Live(e) /\ orders[e].number = orders[d].number => d = e
        /\ Passed(orders[d].number)

Ledger == PoolLedger /\ OwedLedger /\ RowLedger

LedgerInv == PoolIsFree /\ OwedOnce /\ OneHolder /\ CounterPassed

\* A number is in use in the pool, in the hands of a run or on an order.
LEMMA InUseForm ==
    ASSUME NEW n
    PROVE  n \in InUse <=> \/ n \in recycled
                           \/ \E r \in Runs : n \in owed[r]
                           \/ \E d \in Docs : Live(d) /\ n = orders[d].number
<1> DEFINE live == {e \in Docs : Live(e)}
<1>1. n \in UNION {owed[r] : r \in Runs} <=> \E r \in Runs : n \in owed[r]
  OBVIOUS
<1>2. n \in {orders[d].number : d \in live} <=> \E d \in live : n = orders[d].number
  OBVIOUS
<1> QED
  BY <1>1, <1>2 DEF InUse

\* The ledger by number says what the four properties say.
LEMMA LedgerForm == LedgerInv <=> Ledger
<1>1. \A n : Holders(n) = {} <=> OnNoOrder(n)
  BY DEF Holders, OnNoOrder
<1>2. ASSUME LedgerInv PROVE Ledger
  <2>1. PoolLedger
    BY <1>1, <1>2 DEF LedgerInv, PoolIsFree, CounterPassed, InUse, PoolLedger, Passed
  <2>2. OwedLedger
    BY <1>1, <1>2 DEF LedgerInv, OwedOnce, CounterPassed, InUse, OwedLedger, Passed
  <2>3. RowLedger
    <3> SUFFICES ASSUME NEW d \in Docs, Live(d), orders[d].number \notin misplaced
                 PROVE  /\ \A e \in Docs : Live(e) /\ orders[e].number = orders[d].number => d = e
                        /\ Passed(orders[d].number)
      BY DEF RowLedger
    <3>1. orders[d].number \in InUse
      BY InUseForm
    <3> QED
      BY <1>2, <3>1 DEF LedgerInv, OneHolder, CounterPassed, Passed
  <2> QED
    BY <2>1, <2>2, <2>3 DEF Ledger
<1>3. ASSUME Ledger PROVE LedgerInv
  <2>1. PoolIsFree
    BY <1>1, <1>3 DEF Ledger, PoolIsFree, PoolLedger
  <2>2. OwedOnce
    BY <1>1, <1>3 DEF Ledger, OwedOnce, OwedLedger
  <2>3. OneHolder
    BY <1>3 DEF Ledger, OneHolder, RowLedger
  <2>4. CounterPassed
    <3> SUFFICES ASSUME NEW n \in InUse, n \notin misplaced PROVE Passed(n)
      BY DEF CounterPassed, Passed
    <3>1. CASE n \in recycled
      BY <1>3, <3>1 DEF Ledger, PoolLedger
    <3>2. CASE \E r \in Runs : n \in owed[r]
      BY <1>3, <3>2 DEF Ledger, OwedLedger
    <3>3. CASE \E d \in Docs : Live(d) /\ n = orders[d].number
      BY <1>3, <3>3 DEF Ledger, RowLedger
    <3> QED
      BY <3>1, <3>2, <3>3, InUseForm
  <2> QED
    BY <2>1, <2>2, <2>3, <2>4 DEF LedgerInv
<1> QED
  BY <1>2, <1>3

(* A step that moves no number.                                             *)
LEMMA LedgerQuiet ==
    ASSUME Ledger, UNCHANGED <<lastNumber, recycled, owed, misplaced>>,
           \A d \in Docs : Live(d)' <=> Live(d),
           \A d \in Docs : Live(d) => orders'[d].number = orders[d].number
    PROVE  Ledger'
<1>1. \A n : (OnNoOrder(n)' <=> OnNoOrder(n)) /\ (Passed(n)' <=> Passed(n))
  BY DEF OnNoOrder, Passed
<1>2. PoolLedger' /\ OwedLedger'
  BY <1>1 DEF Ledger, PoolLedger, OwedLedger
<1>3. RowLedger'
  <2> SUFFICES ASSUME NEW d \in Docs, Live(d)', orders'[d].number \notin misplaced'
               PROVE  /\ \A e \in Docs : Live(e)' /\ orders'[e].number = orders'[d].number => d = e
                      /\ Passed(orders[d].number)'
    BY DEF RowLedger
  <2> QED
    BY <1>1 DEF Ledger, RowLedger
<1> QED
  BY <1>2, <1>3 DEF Ledger

\* No number in use gets out of sight.
NothingLost == InUse \cup misplaced \subseteq (InUse \cup misplaced)'

\* A step that only adds orders loses no number.
LEMMA NothingLostQuiet ==
    ASSUME UNCHANGED <<recycled, owed, misplaced>>,
           \A d \in Docs : Live(d) => Live(d)' /\ orders'[d].number = orders[d].number
    PROVE  NothingLost
<1>1. \A n \in InUse : n \in InUse'
  <2> SUFFICES ASSUME NEW n \in InUse
               PROVE  \/ n \in recycled'
                      \/ \E r \in Runs : n \in owed'[r]
                      \/ \E d \in Docs : Live(d)' /\ n = orders'[d].number
    BY DEF InUse
  <2> QED
    BY InUseForm
<1> QED
  BY <1>1 DEF NothingLost

(* The numbers of a claim: from the pool, or beyond the counter.            *)
LEMMA GrantFacts ==
    ASSUME TypeOK, NEW r \in Runs, NEW head \in Nat, head >= lastNumber[RunFor[r]][year]
    PROVE  /\ \A n \in Granted(r, head) :
                /\ n.owner = RunFor[r]
                /\ n.year = year
                /\ \/ /\ n \in NumbersOf(RunFor[r], ReusedSeqs(RunFor[r], Wanted(r)))
                      /\ n \in recycled
                   \/ /\ lastNumber[RunFor[r]][year] < n.seq
                      /\ n.seq <= head
           /\ NumbersOf(RunFor[r], ReusedSeqs(RunFor[r], Wanted(r))) \subseteq Granted(r, head)
           /\ \A s \in Nat : lastNumber[RunFor[r]][year] < s /\ s <= head =>
                [owner |-> RunFor[r], year |-> year, seq |-> s] \in Granted(r, head)
<1> DEFINE u == RunFor[r]
           reused == ReusedSeqs(u, Wanted(r))
           fresh == FreshSeqs(u, Wanted(r), head)
           last == lastNumber[u][year]
<1>1. u \in Users /\ last \in Nat
  BY RunsAssumption DEF TypeOK, TablesTypeOK
<1>2. /\ \A s \in reused : [owner |-> u, year |-> year, seq |-> s] \in recycled
      /\ \A s \in fresh : last < s /\ s <= head
  BY <1>1, ClaimTakes DEF TypeOK
<1>3. Granted(r, head) = {[owner |-> u, year |-> year, seq |-> s] : s \in reused \cup fresh}
  BY DEF Granted, NumbersOf, ClaimedSeqs
<1>4. NumbersOf(u, reused) = {[owner |-> u, year |-> year, seq |-> s] : s \in reused}
  BY DEF NumbersOf
<1>5. \A s \in Nat : last < s /\ s <= head => s \in reused \/ s \in fresh
  <2> SUFFICES ASSUME NEW s \in Nat, last < s, s <= head PROVE s \in reused \/ s \in fresh
    OBVIOUS
  <2>1. s \in (last + 1) .. head
    <3> HIDE DEF last
    <3> QED
      BY <1>1
  <2> QED
    BY <2>1 DEF FreshSeqs
<1> HIDE DEF u, reused, fresh, last
<1>6. ASSUME NEW n \in Granted(r, head)
      PROVE  /\ n.owner = u
             /\ n.year = year
             /\ \/ n \in NumbersOf(u, reused) /\ n \in recycled
                \/ last < n.seq /\ n.seq <= head
  <2>1. PICK s \in reused \cup fresh : n = [owner |-> u, year |-> year, seq |-> s]
    BY <1>3
  <2>2. CASE s \in reused
    BY <1>2, <1>4, <2>1, <2>2
  <2>3. CASE s \in fresh
    BY <1>2, <2>1, <2>3
  <2> QED
    BY <2>2, <2>3
<1>7. NumbersOf(u, reused) \subseteq Granted(r, head)
  BY <1>3, <1>4
<1>8. \A s \in Nat : last < s /\ s <= head =>
        [owner |-> u, year |-> year, seq |-> s] \in Granted(r, head)
  BY <1>3, <1>5
<1> QED
  BY <1>6, <1>7, <1>8 DEF u, reused, last

\* A claim keeps the ledger: what it grants was in the pool or beyond the counter.
LEMMA ClaimLedger ==
    ASSUME IndInv, Ledger, NEW r \in Runs, ClaimChunk(r)
    PROVE  Ledger'
<1> DEFINE u == RunFor[r]
           reused == NumbersOf(u, ReusedSeqs(u, Wanted(r)))
           last == lastNumber[u][year]
<1>0. TypeOK /\ u \in Users /\ last \in Nat
  BY RunsAssumption DEF IndInv, TypeOK, TablesTypeOK
<1>1. PICK head \in Nat :
        /\ head >= last
        /\ lastNumber' = [lastNumber EXCEPT ![u][year] = head]
        /\ recycled' = recycled \ reused
        /\ owed' = [owed EXCEPT ![r] = @ \cup Granted(r, head)]
        /\ Granted(r, head) \subseteq Number
  BY <1>0, ClaimFacts
<1>2. misplaced' = misplaced /\ \A n : OnNoOrder(n)' <=> OnNoOrder(n)
  BY DEF ClaimChunk, OnNoOrder, Live
<1> DEFINE G == Granted(r, head)
<1>3. \A n \in G : /\ n.owner = u
                   /\ n.year = year
                   /\ \/ n \in reused /\ n \in recycled
                      \/ last < n.seq /\ n.seq <= head
  BY <1>0, <1>1, GrantFacts
<1>4. \A n \in Number : Passed(n) => n.seq <= lastNumber'[n.owner][n.year]
  <2> SUFFICES ASSUME NEW n \in Number, Passed(n)
               PROVE  n.seq <= lastNumber'[n.owner][n.year]
    OBVIOUS
  <2>1. n.owner \in Users /\ n.year \in Years /\ n.seq \in Nat
    BY DEF Number
  <2>2. lastNumber \in [Users -> [Years -> Nat]] /\ year \in Years
    BY <1>0 DEF TypeOK, TablesTypeOK
  <2>3. CASE n.owner = u /\ n.year = year
    <3>1. lastNumber'[n.owner][n.year] = head
      BY <1>1, <2>1, <2>2, <2>3
    <3>2. n.seq <= last
      BY <2>3 DEF Passed
    <3> HIDE DEF last
    <3> QED
      BY <1>0, <1>1, <2>1, <3>1, <3>2
  <2>4. CASE ~(n.owner = u /\ n.year = year)
    <3>1. lastNumber'[n.owner][n.year] = lastNumber[n.owner][n.year]
      BY <1>1, <2>1, <2>2, <2>4
    <3> QED
      BY <3>1 DEF Passed
  <2> QED
    BY <2>3, <2>4
<1>5. \A n \in G : n \notin misplaced =>
        /\ OnNoOrder(n)
        /\ \A q \in Runs : n \notin owed[q]
        /\ n \notin recycled'
        /\ n.seq <= lastNumber'[n.owner][n.year]
  <2> SUFFICES ASSUME NEW n \in G, n \notin misplaced
               PROVE  /\ OnNoOrder(n)
                      /\ \A q \in Runs : n \notin owed[q]
                      /\ n \notin recycled'
                      /\ n.seq <= lastNumber'[n.owner][n.year]
    OBVIOUS
  <2>1. CASE n \in reused /\ n \in recycled
    <3>1. OnNoOrder(n) /\ Passed(n) /\ \A q \in Runs : n \notin owed[q]
      BY <2>1 DEF Ledger, PoolLedger
    <3>2. n \notin recycled'
      BY <1>1, <2>1
    <3> QED
      BY <1>1, <1>4, <3>1, <3>2
  <2>2. CASE last < n.seq /\ n.seq <= head
    <3>1. n \in Number /\ n.seq \in Nat
      BY <1>1 DEF Number
    <3>2. ~Passed(n)
      <4>1. Passed(n) => n.seq <= last
        BY <1>3 DEF Passed
      <4> HIDE DEF last
      <4> QED
        BY <1>0, <2>2, <3>1, <4>1
    <3>3. n \notin recycled /\ \A q \in Runs : n \notin owed[q]
      BY <3>2 DEF Ledger, PoolLedger, OwedLedger
    <3>4. OnNoOrder(n)
      BY <3>2 DEF Ledger, RowLedger, OnNoOrder
    <3>5. lastNumber'[n.owner][n.year] = head
      BY <1>0, <1>1, <1>3 DEF TypeOK, TablesTypeOK
    <3> QED
      BY <1>1, <2>2, <3>3, <3>4, <3>5
  <2> QED
    BY <1>3, <2>1, <2>2
<1> HIDE DEF G, reused, last
<1>6. /\ owed'[r] = owed[r] \cup G
      /\ \A q \in Runs : q # r => owed'[q] = owed[q]
      /\ owed \in [Runs -> SUBSET Number]
      /\ recycled \subseteq Number
  BY <1>0, <1>1 DEF TypeOK, TablesTypeOK, G
<1>7. PoolLedger'
  <2> SUFFICES ASSUME NEW n \in recycled', n \notin misplaced
               PROVE  /\ OnNoOrder(n)
                      /\ \A q \in Runs : n \notin owed'[q]
                      /\ n.seq <= lastNumber'[n.owner][n.year]
    BY <1>2 DEF PoolLedger, Passed
  <2>1. n \in recycled /\ n \in Number /\ n \notin G
    BY <1>1, <1>5, <1>6
  <2> QED
    BY <1>4, <1>6, <2>1 DEF Ledger, PoolLedger
<1>8. OwedLedger'
  <2> SUFFICES ASSUME NEW p \in Runs, NEW n \in owed'[p], n \notin misplaced
               PROVE  /\ OnNoOrder(n)
                      /\ \A q \in Runs : q # p => n \notin owed'[q]
                      /\ n.seq <= lastNumber'[n.owner][n.year]
    BY <1>2 DEF OwedLedger, Passed
  <2>1. CASE n \in G
    BY <1>5, <1>6, <2>1
  <2>2. CASE n \notin G
    <3>1. n \in owed[p] /\ n \in Number
      BY <1>6, <2>2
    <3> QED
      BY <1>4, <1>6, <2>2, <3>1 DEF Ledger, OwedLedger
  <2> QED
    BY <2>1, <2>2
<1>9. RowLedger'
  <2> SUFFICES ASSUME NEW d \in Docs, Live(d), orders[d].number \notin misplaced
               PROVE  /\ \A e \in Docs : Live(e) /\ orders[e].number = orders[d].number => d = e
                      /\ LET n == orders[d].number IN n.seq <= lastNumber'[n.owner][n.year]
    BY <1>2 DEF RowLedger, Passed, ClaimChunk, Live
  <2>1. orders[d].number \in Number
    BY <1>0 DEF TypeOK, TablesTypeOK, Live, OrderRow
  <2> QED
    BY <1>4, <2>1 DEF Ledger, RowLedger
<1> QED
  BY <1>7, <1>8, <1>9 DEF Ledger

\* A PUT keeps the ledger: what was owed is on an order, the rest is misplaced.
LEMMA PutCommitLedger ==
    ASSUME IndInv, Ledger, NEW m \in net, PutCommit(m)
    PROVE  Ledger' /\ NothingLost
<1> DEFINE chunk == Chunk(m.run, m.start)
           new == chunk \ m.found
           created == {claimed[d] : d \in new}
           row(d) == [userId |-> RunFor[m.run], number |-> claimed[d], accepted |-> FALSE]
<1>1. /\ BatchFits(chunk, m.found, RunFor[m.run], claimed)
      /\ orders' = Saved(chunk, RunFor[m.run], claimed)
      /\ owed' = [owed EXCEPT ![m.run] = @ \ created]
      /\ misplaced' = misplaced \cup (created \ owed[m.run])
      /\ UNCHANGED <<year, lastNumber, recycled, claimed>>
  BY DEF PutCommit, Answer
<1>2. /\ m.run \in Runs
      /\ chunk \subseteq Docs
      /\ owed \in [Runs -> SUBSET Number]
  BY DocFacts DEF IndInv, TypeOK, Request
<1>3. /\ IndInv'
      /\ \A n : Passed(n)' <=> Passed(n)
  BY <1>1, PutCommitInv DEF Passed
<1>4. /\ \A d \in new : d \in Docs /\ ~Live(d) /\ Live(d)'
      /\ \A d \in Docs : Live(d) => Live(d)'
      /\ \A d \in Docs : Live(d)' => Live(d) \/ d \in new
      /\ \A d \in new : orders'[d] = row(d)
  <2>1. \A d \in chunk : Live(d) <=> d \in m.found
    BY <1>1 DEF BatchFits
  <2>2. \A d \in Docs : /\ d \in chunk => orders'[d] = row(d)
                        /\ d \notin chunk => orders'[d] = orders[d]
    BY <1>1 DEF Saved
  <2>3. \A d \in chunk : row(d) # NoRow
    <3>1. \A d \in chunk : claimed[d] \in Number
      BY <1>2, DocFacts DEF IndInv, TypeOK, RunsOK, RequestsClaimed, PutCommit, Request
    <3>2. RunFor[m.run] \in Users
      BY <1>2, RunsAssumption
    <3>3. \A d \in chunk : row(d) \in OrderRow
      BY <3>1, <3>2 DEF OrderRow
    <3> QED
      BY <3>3, NoRowAssumption
  <2> HIDE DEF chunk, row
  <2> QED
    BY <1>2, <2>1, <2>2, <2>3 DEF Live
<1>5. \A d \in Docs : /\ Live(d) => orders[d].number = claimed[d]
                      /\ Live(d)' => orders'[d].number = claimed[d]
  BY <1>1, <1>3 DEF IndInv, RunsOK, RowsCarryClaims
<1>6. \A d, e \in new : claimed[d] = claimed[e] => d = e
  <2>1. UniqueOwnerNumber(orders')
    BY <1>1 DEF BatchFits
  <2>2. \A d \in new : row(d).userId = RunFor[m.run] /\ row(d).number = claimed[d]
    OBVIOUS
  <2> HIDE DEF new, row
  <2> QED
    BY <1>4, <2>1, <2>2 DEF UniqueOwnerNumber, Live
<1>7. \A d \in new : claimed[d] \in created
  OBVIOUS
<1>8. \A n \in created : \E d \in new : n = claimed[d]
  OBVIOUS
<1> HIDE DEF new, created, chunk, row
<1>9. /\ owed'[m.run] = owed[m.run] \ created
      /\ \A q \in Runs : q # m.run => owed'[q] = owed[q]
  BY <1>1, <1>2
<1>10. \A n : OnNoOrder(n) /\ n \notin created => OnNoOrder(n)'
  BY <1>4, <1>5, <1>7 DEF OnNoOrder
<1>11. PoolLedger'
  <2> SUFFICES ASSUME NEW n \in recycled, n \notin misplaced'
               PROVE  /\ OnNoOrder(n)'
                      /\ \A q \in Runs : n \notin owed'[q]
                      /\ Passed(n)
    BY <1>1, <1>3 DEF PoolLedger
  <2>1. OnNoOrder(n) /\ Passed(n) /\ \A q \in Runs : n \notin owed[q]
    BY <1>1 DEF Ledger, PoolLedger
  <2>2. n \notin created
    BY <1>1, <1>2, <2>1
  <2> QED
    BY <1>9, <1>10, <2>1, <2>2
<1>12. OwedLedger'
  <2> SUFFICES ASSUME NEW p \in Runs, NEW n \in owed'[p], n \notin misplaced'
               PROVE  /\ OnNoOrder(n)'
                      /\ \A q \in Runs : q # p => n \notin owed'[q]
                      /\ Passed(n)
    BY <1>3 DEF OwedLedger
  <2>1. n \in owed[p]
    BY <1>9
  <2>2. OnNoOrder(n) /\ Passed(n) /\ \A q \in Runs : q # p => n \notin owed[q]
    BY <1>1, <2>1 DEF Ledger, OwedLedger
  <2>3. n \notin created
    BY <1>1, <1>2, <1>9, <2>2
  <2> QED
    BY <1>9, <1>10, <2>2, <2>3
<1>13. RowLedger'
  <2> SUFFICES ASSUME NEW d \in Docs, Live(d)', claimed[d] \notin misplaced'
               PROVE  /\ \A e \in Docs : Live(e)' /\ claimed[e] = claimed[d] => d = e
                      /\ Passed(claimed[d])
    BY <1>3, <1>5 DEF RowLedger
  <2>1. CASE Live(d)
    <3>1. ~OnNoOrder(claimed[d])
      BY <1>5, <2>1 DEF OnNoOrder
    <3>2. claimed[d] \notin created
      BY <1>1, <1>2, <3>1 DEF Ledger, OwedLedger
    <3> QED
      BY <1>1, <1>4, <1>5, <1>7, <2>1, <3>2 DEF Ledger, RowLedger
  <2>2. CASE d \in new
    <3>1. claimed[d] \in owed[m.run]
      BY <1>1, <1>7, <2>2
    <3>2. OnNoOrder(claimed[d]) /\ Passed(claimed[d])
      BY <1>1, <1>2, <3>1 DEF Ledger, OwedLedger
    <3> QED
      BY <1>4, <1>5, <1>6, <2>2, <3>2 DEF OnNoOrder
  <2> QED
    BY <1>4, <2>1, <2>2
<1>14. NothingLost
  <2> SUFFICES ASSUME NEW n \in InUse
               PROVE  \/ n \in recycled'
                      \/ \E q \in Runs : n \in owed'[q]
                      \/ \E d \in Docs : Live(d)' /\ n = orders'[d].number
    BY <1>1, InUseForm DEF NothingLost, InUse
  <2>1. CASE n \in recycled
    BY <1>1, <2>1
  <2>2. CASE n \in created
    BY <1>4, <1>5, <1>8, <2>2
  <2>3. CASE n \notin created /\ \E q \in Runs : n \in owed[q]
    BY <1>9, <2>3
  <2>4. CASE \E d \in Docs : Live(d) /\ n = orders[d].number
    BY <1>4, <1>5, <2>4
  <2> QED
    BY <2>1, <2>2, <2>3, <2>4, InUseForm
<1> QED
  BY <1>11, <1>12, <1>13, <1>14 DEF Ledger

\* A return keeps the ledger: what was owed is in the pool, the rest is misplaced.
LEMMA ReturnCommitLedger ==
    ASSUME IndInv, Ledger, NEW m \in net, ReturnCommit(m)
    PROVE  Ledger' /\ NothingLost
<1> DEFINE given == NumbersOf(RunFor[m.run], {claimed[d].seq : d \in Slice(m.run, m.start)})
<1>1. /\ recycled' = recycled \cup given
      /\ owed' = [owed EXCEPT ![m.run] = @ \ given]
      /\ misplaced' = misplaced \cup (given \ owed[m.run])
      /\ UNCHANGED <<lastNumber, orders>>
  BY DEF ReturnCommit, ReturnNumbers
<1>2. m.run \in Runs /\ owed \in [Runs -> SUBSET Number]
  BY DEF IndInv, TypeOK, Request
<1> HIDE DEF given
<1>3. /\ owed'[m.run] = owed[m.run] \ given
      /\ \A q \in Runs : q # m.run => owed'[q] = owed[q]
  BY <1>1, <1>2
<1>4. \A n : (OnNoOrder(n)' <=> OnNoOrder(n)) /\ (Passed(n)' <=> Passed(n))
  BY <1>1 DEF OnNoOrder, Passed, Live
<1>5. \A q \in Runs : owed'[q] \subseteq owed[q]
  BY <1>3
<1>6. PoolLedger'
  <2> SUFFICES ASSUME NEW n \in recycled', n \notin misplaced'
               PROVE  OnNoOrder(n) /\ Passed(n) /\ \A q \in Runs : n \notin owed'[q]
    BY <1>4 DEF PoolLedger
  <2>1. CASE n \in given
    <3>1. n \in owed[m.run] /\ n \notin misplaced
      BY <1>1, <2>1
    <3>2. OnNoOrder(n) /\ Passed(n) /\ \A q \in Runs : q # m.run => n \notin owed[q]
      BY <1>2, <3>1 DEF Ledger, OwedLedger
    <3> QED
      BY <1>3, <2>1, <3>2
  <2>2. CASE n \notin given
    BY <1>1, <1>5, <2>2 DEF Ledger, PoolLedger
  <2> QED
    BY <2>1, <2>2
<1>7. OwedLedger'
  BY <1>1, <1>4, <1>5 DEF Ledger, OwedLedger
<1>8. RowLedger'
  BY <1>1, <1>4 DEF Ledger, RowLedger, Live
<1>9. NothingLost
  <2> SUFFICES ASSUME NEW n \in InUse
               PROVE  \/ n \in recycled'
                      \/ \E q \in Runs : n \in owed'[q]
                      \/ \E d \in Docs : Live(d)' /\ n = orders'[d].number
    BY <1>1, InUseForm DEF NothingLost, InUse
  <2>1. CASE n \in recycled
    BY <1>1, <2>1
  <2>2. CASE \E q \in Runs : n \in owed[q]
    BY <1>1, <1>3, <2>2
  <2>3. CASE \E d \in Docs : Live(d) /\ n = orders[d].number
    BY <1>1, <2>3 DEF Live
  <2> QED
    BY <2>1, <2>2, <2>3, InUseForm
<1> QED
  BY <1>6, <1>7, <1>8, <1>9 DEF Ledger

\* A delete keeps the ledger: what was freed is in the pool, the rest is misplaced.
LEMMA DeleteCommitLedger ==
    ASSUME IndInv, Ledger, NEW q \in Deletes, DeleteCommit(q)
    PROVE  Ledger' /\ NothingLost
<1>1. PICK gone \in SUBSET Docs, returned \in SUBSET Number, freed \in SUBSET Number :
        /\ \A d \in gone : Live(d)
        /\ freed = {orders[d].number : d \in gone}
        /\ orders' = [d \in Docs |-> IF d \in gone THEN NoRow ELSE orders[d]]
        /\ recycled' = recycled \cup returned
        /\ misplaced' = misplaced \cup (returned \ freed) \cup (freed \ returned)
  BY DeleteCommitFacts DEF IndInv
<1>2. UNCHANGED <<lastNumber, owed>>
  BY DEF DeleteCommit
<1>3. \A n : Passed(n)' <=> Passed(n)
  BY <1>2 DEF Passed
<1>4. \A d \in Docs : /\ Live(d)' <=> Live(d) /\ d \notin gone
                      /\ Live(d)' => orders'[d].number = orders[d].number
  BY <1>1 DEF Live
<1>5. \A n : OnNoOrder(n) => OnNoOrder(n)'
  BY <1>4 DEF OnNoOrder
<1>6. PoolLedger'
  <2> SUFFICES ASSUME NEW n \in recycled', n \notin misplaced'
               PROVE  OnNoOrder(n)' /\ Passed(n) /\ \A r \in Runs : n \notin owed[r]
    BY <1>2, <1>3 DEF PoolLedger
  <2>1. CASE n \in returned
    <3>1. PICK d \in gone : n = orders[d].number
      BY <1>1, <2>1
    <3>2. Live(d) /\ n \notin misplaced
      BY <1>1
    <3>3. Passed(n) /\ \A e \in Docs : Live(e) /\ orders[e].number = n => d = e
      BY <1>1, <3>1, <3>2 DEF Ledger, RowLedger
    <3>4. \A r \in Runs : n \notin owed[r]
      BY <1>1, <3>1, <3>2 DEF Ledger, OwedLedger, OnNoOrder
    <3> QED
      BY <1>4, <3>3, <3>4 DEF OnNoOrder
  <2>2. CASE n \notin returned
    BY <1>1, <1>5, <2>2 DEF Ledger, PoolLedger
  <2> QED
    BY <2>1, <2>2
<1>7. OwedLedger'
  BY <1>1, <1>2, <1>3, <1>5 DEF Ledger, OwedLedger
<1>8. RowLedger'
  <2> SUFFICES ASSUME NEW d \in Docs, Live(d)', orders[d].number \notin misplaced'
               PROVE  /\ \A e \in Docs : Live(e)' /\ orders[e].number = orders[d].number => d = e
                      /\ Passed(orders[d].number)
    BY <1>3, <1>4 DEF RowLedger
  <2> QED
    BY <1>1, <1>4 DEF Ledger, RowLedger
<1>9. NothingLost
  <2> SUFFICES ASSUME NEW n \in InUse
               PROVE  \/ n \in recycled'
                      \/ \E r \in Runs : n \in owed'[r]
                      \/ \E d \in Docs : Live(d)' /\ n = orders'[d].number
                      \/ n \in misplaced'
    BY <1>1, InUseForm DEF NothingLost, InUse
  <2>1. CASE n \in recycled \/ \E r \in Runs : n \in owed[r]
    BY <1>1, <1>2, <2>1
  <2>2. CASE \E d \in Docs : Live(d) /\ n = orders[d].number
    BY <1>1, <1>4, <2>2
  <2> QED
    BY <2>1, <2>2, InUseForm
<1> QED
  BY <1>6, <1>7, <1>8, <1>9 DEF Ledger

-----------------------------------------------------------------------------
(* Every step but a claim keeps the ledger and loses no number.             *)
LEMMA OtherLedger ==
    ASSUME IndInv, Ledger, [Next]_vars, \A r \in Runs : ~ClaimChunk(r)
    PROVE  Ledger' /\ NothingLost /\ UNCHANGED lastNumber
<1>1. ASSUME UNCHANGED <<lastNumber, recycled, owed, misplaced>>,
             \A d \in Docs : Live(d)' <=> Live(d),
             \A d \in Docs : Live(d) => orders'[d].number = orders[d].number
      PROVE  Ledger' /\ NothingLost /\ UNCHANGED lastNumber
  BY <1>1, LedgerQuiet, NothingLostQuiet
<1>2. ASSUME UNCHANGED <<tables, history>>
      PROVE  Ledger' /\ NothingLost /\ UNCHANGED lastNumber
  BY <1>1, <1>2 DEF tables, history, Live
<1>3. ASSUME NEW r \in Runs, Client(r)
      PROVE  Ledger' /\ NothingLost /\ UNCHANGED lastNumber
  <2>1. UNCHANGED <<tables, history>>
    BY <1>3 DEF Client, Stop, SendPut, SendReturn, Retry, GiveUp, Abort, CloseTab
  <2> QED
    BY <1>2, <2>1
<1>4. ASSUME NEW m \in net, Serve(m)
      PROVE  Ledger' /\ NothingLost /\ UNCHANGED lastNumber
  <2>1. CASE PutCommit(m)
    BY <2>1, PutCommitLedger DEF PutCommit
  <2>2. CASE ReturnCommit(m)
    BY <2>2, ReturnCommitLedger DEF ReturnCommit
  <2>3. CASE PutRead(m) \/ PutRollback(m) \/ Refuse(m) \/ Lose(m)
    <3>1. UNCHANGED <<tables, history>>
      BY <2>3 DEF PutRead, PutRollback, Refuse, Lose
    <3> QED
      BY <1>2, <3>1
  <2> QED
    BY <1>4, <2>1, <2>2, <2>3 DEF Serve
<1>5. ASSUME NEW q \in Deletes, Delete(q)
      PROVE  Ledger' /\ NothingLost /\ UNCHANGED lastNumber
  <2>1. CASE DeleteCommit(q)
    BY <2>1, DeleteCommitLedger DEF DeleteCommit
  <2>2. CASE DeleteRead(q) \/ DeleteCheck(q) \/ DeleteRefused(q)
    <3>1. UNCHANGED <<tables, history>>
      BY <2>2 DEF DeleteRead, DeleteCheck, DeleteRefused
    <3> QED
      BY <1>2, <3>1
  <2> QED
    BY <1>5, <2>1, <2>2 DEF Delete
<1>6. CASE Edit
  <2>1. PICK actor \in Editors, d \in Docs, userId \in Users, accepted \in BOOLEAN :
          EditOrder(actor, d, userId, accepted)
    BY <1>6 DEF Edit
  <2>2. /\ UpdateOrder(actor, d, userId, accepted)
        /\ UNCHANGED <<lastNumber, recycled, owed, misplaced>>
    BY <2>1 DEF EditOrder, history
  <2>3. /\ \A e \in Docs : Live(e)' <=> Live(e)
        /\ \A e \in Docs : Live(e) => orders'[e].number = orders[e].number
    BY <2>2, EditFacts DEF IndInv
  <2> QED
    BY <1>1, <2>2, <2>3
<1>7. CASE NewYear
  BY <1>1, <1>7 DEF NewYear, Live, history
<1>8. CASE UNCHANGED vars
  BY <1>2, <1>8 DEF vars
<1> QED
  BY <1>3, <1>4, <1>5, <1>6, <1>7, <1>8 DEF Next

(* Whatever is lost, repeated or late, a number that nobody stored or       *)
(* returned out of turn is in one place only: free and on no order, or owed *)
(* to one run, or on one order; and the counter never grants it again.      *)
THEOREM LedgerCorrect == Spec => [](PoolIsFree /\ OwedOnce /\ OneHolder /\ CounterPassed)
<1>1. Init => Ledger
  BY DEF Init, TablesInit, Ledger, PoolLedger, OwedLedger, RowLedger, Live
<1>2. IndInv /\ Ledger /\ [Next]_vars => Ledger'
  BY ClaimLedger, OtherLedger
<1>3. Ledger => LedgerInv
  BY LedgerForm
<1> QED
  BY <1>1, <1>2, <1>3, InitInv, NextInv, PTL DEF Spec, LedgerInv

(* A number in the pool is on no order and is owed to no run, so that the   *)
(* next claim, which takes it out of the pool, is alone with it.            *)
THEOREM PoolIsFreeCorrect == Spec => []PoolIsFree
  BY LedgerCorrect, PTL

(* A claimed number is in the hands of one run, and nobody's order has it   *)
(* before that run's PUT commits.                                           *)
THEOREM OwedOnceCorrect == Spec => []OwedOnce
  BY LedgerCorrect, PTL

(* Two orders with the same number exist only where one of them was stored  *)
(* by a PUT whose run had already given the number up.                      *)
THEOREM OneHolderCorrect == Spec => []OneHolder
  BY LedgerCorrect, PTL

(* The counter of a user and a year is never behind a number in use, so     *)
(* that a fresh number has no holder anywhere.                              *)
THEOREM CounterPassedCorrect == Spec => []CounterPassed
  BY LedgerCorrect, PTL

-----------------------------------------------------------------------------
\* A claim passes only numbers that it grants.
LEMMA ClaimNoGaps ==
    ASSUME IndInv, NoGaps, NEW r \in Runs, ClaimChunk(r)
    PROVE  NoGaps'
<1> DEFINE u == RunFor[r]
           reused == NumbersOf(u, ReusedSeqs(u, Wanted(r)))
           last == lastNumber[u][year]
<1>0. TypeOK /\ u \in Users /\ last \in Nat
  BY RunsAssumption DEF IndInv, TypeOK, TablesTypeOK
<1>1. PICK head \in Nat :
        /\ head >= last
        /\ lastNumber' = [lastNumber EXCEPT ![u][year] = head]
        /\ recycled' = recycled \ reused
        /\ owed' = [owed EXCEPT ![r] = @ \cup Granted(r, head)]
  BY <1>0, ClaimFacts
<1>2. /\ reused \subseteq Granted(r, head)
      /\ \A s \in Nat : last < s /\ s <= head =>
            [owner |-> u, year |-> year, seq |-> s] \in Granted(r, head)
  BY <1>0, <1>1, GrantFacts
<1>3. misplaced' = misplaced /\ orders' = orders
  BY DEF ClaimChunk
<1> HIDE DEF reused, last
<1>4. /\ owed'[r] = owed[r] \cup Granted(r, head)
      /\ \A q \in Runs : q # r => owed'[q] = owed[q]
  BY <1>0, <1>1 DEF TypeOK
<1>5. \A n \in Granted(r, head) : n \in InUse'
  BY <1>4 DEF InUse
<1>6. \A n \in InUse : n \in InUse'
  <2> SUFFICES ASSUME NEW n \in InUse
               PROVE  \/ n \in recycled'
                      \/ \E q \in Runs : n \in owed'[q]
                      \/ \E d \in Docs : Live(d)' /\ n = orders'[d].number
    BY DEF InUse
  <2>1. CASE n \in recycled
    BY <1>1, <1>2, <1>4, <2>1
  <2>2. CASE \E q \in Runs : n \in owed[q]
    BY <1>4, <2>2
  <2>3. CASE \E d \in Docs : Live(d) /\ n = orders[d].number
    BY <1>3, <2>3 DEF Live
  <2> QED
    BY <2>1, <2>2, <2>3, InUseForm
<1> SUFFICES ASSUME NEW v \in Users, NEW y \in Years,
                    NEW s \in StartNumber[v] .. lastNumber'[v][y]
             PROVE  [owner |-> v, year |-> y, seq |-> s] \in InUse' \cup misplaced'
  BY DEF NoGaps
<1>7. s \in Nat /\ lastNumber[v][y] \in Nat /\ year \in Years
  BY <1>0, UsersAssumption DEF TypeOK, TablesTypeOK
<1>8. lastNumber \in [Users -> [Years -> Nat]]
  BY <1>0 DEF TypeOK, TablesTypeOK
<1>9. CASE s <= lastNumber[v][y]
  <2>1. s \in StartNumber[v] .. lastNumber[v][y]
    BY <1>7, <1>9, UsersAssumption
  <2>2. [owner |-> v, year |-> y, seq |-> s] \in InUse \cup misplaced
    BY <2>1 DEF NoGaps
  <2> QED
    BY <1>3, <1>6, <2>2
<1>10. CASE ~(s <= lastNumber[v][y])
  <2>1. v = u /\ y = year
    <3> SUFFICES ASSUME ~(v = u /\ y = year) PROVE FALSE
      OBVIOUS
    <3>1. lastNumber'[v][y] = lastNumber[v][y]
      BY <1>1, <1>8
    <3> QED
      BY <1>7, <1>10, <3>1, UsersAssumption
  <2>2. lastNumber'[v][y] = head
    BY <1>0, <1>1, <1>7, <1>8, <2>1
  <2>3. last < s /\ s <= head
    BY <1>0, <1>7, <1>10, <2>1, <2>2, UsersAssumption DEF last
  <2> QED
    BY <1>2, <1>5, <1>7, <2>1, <2>3
<1> QED
  BY <1>7, <1>9, <1>10

(* No number below the counter is forgotten: a user's numbers of a year     *)
(* have no gap that is neither free, nor owed to a run, nor on an order,    *)
(* nor stored or returned out of turn.                                      *)
THEOREM NoGapsCorrect == Spec => []NoGaps
<1>1. Init => NoGaps
  <2> SUFFICES ASSUME Init, NEW u \in Users, NEW y \in Years,
                      NEW s \in StartNumber[u] .. lastNumber[u][y]
               PROVE  FALSE
    BY DEF NoGaps
  <2>1. lastNumber[u][y] = StartNumber[u] - 1 /\ StartNumber[u] \in Nat
    BY UsersAssumption DEF Init, TablesInit
  <2> QED
    BY <2>1
<1>2. Init => Ledger
  BY DEF Init, TablesInit, Ledger, PoolLedger, OwedLedger, RowLedger, Live
<1>3. IndInv /\ Ledger /\ NoGaps /\ [Next]_vars => Ledger' /\ NoGaps'
  <2> SUFFICES ASSUME IndInv, Ledger, NoGaps, [Next]_vars PROVE Ledger' /\ NoGaps'
    OBVIOUS
  <2>1. ASSUME NEW r \in Runs, ClaimChunk(r) PROVE Ledger' /\ NoGaps'
    BY <2>1, ClaimLedger, ClaimNoGaps
  <2>2. CASE \A r \in Runs : ~ClaimChunk(r)
    <3>1. Ledger' /\ NothingLost /\ UNCHANGED lastNumber
      BY <2>2, OtherLedger
    <3> QED
      BY <3>1 DEF NoGaps, NothingLost
  <2> QED
    BY <2>1, <2>2
<1> QED
  BY <1>1, <1>2, <1>3, InitInv, NextInv, PTL DEF Spec
=============================================================================
