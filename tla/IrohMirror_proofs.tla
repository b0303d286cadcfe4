-------------------------- MODULE IrohMirror_proofs --------------------------
(***************************************************************************)
(* What holds of the mirror for any identifiers, segments and pages, any   *)
(* requests, and any number of runs and attempts.                          *)
(***************************************************************************)
EXTENDS IrohMirror, TLAPS

Events == {"put", "redact", "unredact"}

-----------------------------------------------------------------------------
(***************************************************************************)
(* The stream                                                              *)
(***************************************************************************)

\* An event put on the stream comes last, and those before it stay.
LEMMA QueuedIsLast ==
  ASSUME stream \in [Ids -> Seq(Events)], NEW K, NEW action \in Events, NEW k \in Ids
  PROVE  /\ Queued(K, action) \in [Ids -> Seq(Events)]
         /\ k \notin K => Queued(K, action)[k] = stream[k]
         /\ k \in K =>
              /\ DOMAIN Queued(K, action)[k] = 1 .. Len(stream[k]) + 1
              /\ Queued(K, action)[k][Len(stream[k]) + 1] = action
              /\ \A i \in DOMAIN stream[k] :
                   i \in DOMAIN Queued(K, action)[k] /\ Queued(K, action)[k][i] = stream[k][i]
<1>1. \A j \in Ids : stream[j] \in Seq(Events) /\ Append(stream[j], action) \in Seq(Events)
  OBVIOUS
<1>2. Queued(K, action) \in [Ids -> Seq(Events)]
  BY <1>1 DEF Queued
<1>3. k \notin K => Queued(K, action)[k] = stream[k]
  BY DEF Queued
<1>4. k \in K => Queued(K, action)[k] = Append(stream[k], action)
  BY DEF Queued
<1>5. /\ DOMAIN Append(stream[k], action) = 1 .. Len(stream[k]) + 1
      /\ Append(stream[k], action)[Len(stream[k]) + 1] = action
      /\ DOMAIN stream[k] = 1 .. Len(stream[k])
      /\ Len(stream[k]) \in Nat
      /\ \A i \in 1 .. Len(stream[k]) : Append(stream[k], action)[i] = stream[k][i]
  BY <1>1
<1>6. \A i \in DOMAIN stream[k] : i \in 1 .. Len(stream[k]) + 1
  BY <1>5
<1> QED
  BY <1>2, <1>3, <1>4, <1>5, <1>6

\* The registry takes the first event; the others move up.
LEMMA TailMovesUp ==
  ASSUME NEW s \in Seq(Events), s # << >>
  PROVE  /\ Tail(s) \in Seq(Events) /\ Head(s) = s[1] /\ 1 \in DOMAIN s
         /\ DOMAIN s \subseteq Nat \ {0} /\ DOMAIN Tail(s) \subseteq Nat \ {0}
         /\ \A i \in DOMAIN Tail(s) : i + 1 \in DOMAIN s /\ Tail(s)[i] = s[i + 1]
         /\ \A i \in DOMAIN s : i # 1 => i - 1 \in DOMAIN Tail(s)
<1>1. Len(s) \in Nat \ {0} /\ DOMAIN s = 1 .. Len(s)
  OBVIOUS
<1>2. Tail(s) \in Seq(Events) /\ Len(Tail(s)) = Len(s) - 1 /\ DOMAIN Tail(s) = 1 .. Len(s) - 1
  BY <1>1
<1>3. \A i \in 1 .. Len(s) - 1 : Tail(s)[i] = s[i + 1]
  BY <1>1
<1> QED
  BY <1>1, <1>2, <1>3

\* What a step may do to the stream, and with it to the registry.
StreamKept == UNCHANGED <<stream, registryVars>>
StreamGrows ==
  \E K \in SUBSET Ids, action \in Events :
    /\ stream' = Queued(K, action)
    /\ action = "put" => K \subseteq table
    /\ UNCHANGED registryVars
StreamConsumed == \E k \in Ids : Consume(k)

\* The invariant of the types and of what the puts are of.
TypeInv == TypeOK /\ PutsAreOfTheTable /\ WorkIsUnderWay

\* Every step does one of these.
LEMMA StreamMoves ==
  ASSUME TypeInv, Next
  PROVE  StreamKept \/ StreamGrows \/ StreamConsumed
<1> USE MirrorAssumption DEF StreamKept, StreamGrows, StreamConsumed
<1>1. CASE \E k \in Ids : Consume(k)
  BY <1>1
<1>2. CASE \E k \in Ids : IndexDeclaration(k)
  BY <1>2 DEF IndexDeclaration
<1>3. CASE \E k \in Ids : MirrorPut(k)
  <2>1. PICK k \in Ids : MirrorPut(k)
    BY <1>3
  <2>2. {k} \in SUBSET Ids /\ {k} \subseteq table /\ "put" \in Events
    BY <2>1 DEF MirrorPut, TypeInv, TypeOK, Events
  <2> QED
    BY <2>1, <2>2 DEF MirrorPut
<1>4. CASE \E q \in Requests : Redact(q)
  <2>1. PICK q \in Requests : Redact(q)
    BY <1>4
  <2>2. CASE MirrorRedaction(q)
    <3>1. PICK landed \in SUBSET toMirror[q] : stream' = Queued(landed, Action(q))
      BY <2>2 DEF MirrorRedaction
    <3>2. landed \in SUBSET Ids /\ Action(q) \in Events /\ Action(q) # "put"
      BY <2>1 DEF TypeInv, TypeOK, Action, Events
    <3> QED
      BY <2>2, <3>1, <3>2 DEF MirrorRedaction
  <2>3. CASE RedactOne(q) \/ RedactMany(q) \/ RedactDies(q)
    BY <2>3 DEF RedactOne, RedactMany, RedactDies
  <2> QED
    BY <2>1, <2>2, <2>3 DEF Redact
<1>5. CASE Backfill
  <2>1. CASE \E s \in Segments : Flush(s)
    <3>1. PICK s \in Segments : Flush(s)
      BY <2>1
    <3>2. PICK landed \in SUBSET work[s].pending : stream' = Queued(landed, "put")
      BY <3>1 DEF Flush
    <3>3. landed \in SUBSET Ids /\ landed \subseteq table /\ "put" \in Events
      BY <3>1 DEF TypeInv, TypeOK, PutsAreOfTheTable, Events
    <3> QED
      BY <3>1, <3>2, <3>3 DEF Flush
  <2>2. CASE ~ \E s \in Segments : Flush(s)
    BY <1>5, <2>2
    DEF Backfill, Work, StartRun, ScanPage, FlushDry, SavePage, RunEnds, RunDies, DeleteState
  <2> QED
    BY <2>1, <2>2
<1> QED
  BY <1>1, <1>2, <1>3, <1>4, <1>5 DEF Next

\* No step takes back what was sent: an identifier that is in the registry or on
\* its way there stays so, and only what is in the table comes.
LEMMA SentStaysSent ==
  ASSUME TypeInv, Next
  PROVE  /\ stream' \in [Ids -> Seq(Events)] /\ denied' \subseteq Ids
         /\ table \subseteq table'
         /\ present' \subseteq table'
         /\ \A k \in Ids : (Queues(k, "put") \/ k \in present) =>
                             (Queues(k, "put") \/ k \in present)'
         /\ \A k \in Ids : Queues(k, "put")' => k \in table'
<1> USE DEF TypeInv
<1>0. stream \in [Ids -> Seq(Events)]
  BY DEF TypeOK, Events
<1>1. table \subseteq table'
  BY DEF Next, Consume, IndexDeclaration, MirrorPut, Redact, RedactOne, RedactMany,
         MirrorRedaction, RedactDies, Backfill, Work, StartRun, ScanPage, Flush, FlushDry,
         SavePage, RunEnds, RunDies, DeleteState, tableVars
<1>2. CASE StreamKept
  BY <1>0, <1>1, <1>2 DEF StreamKept, registryVars, TypeOK, PutsAreOfTheTable, Queues
<1>3. CASE StreamGrows
  <2>1. PICK K \in SUBSET Ids, action \in Events :
          /\ stream' = Queued(K, action)
          /\ action = "put" => K \subseteq table
          /\ UNCHANGED registryVars
    BY <1>3 DEF StreamGrows
  <2>2. stream' \in [Ids -> Seq(Events)]
    <3> SUFFICES ASSUME NEW k \in Ids PROVE Queued(K, action) \in [Ids -> Seq(Events)]
      BY <1>0, <2>1 DEF Queued
    <3> QED
      BY <1>0, QueuedIsLast
  <2>3. ASSUME NEW k \in Ids, Queues(k, "put") PROVE Queues(k, "put")'
    <3>1. PICK i \in DOMAIN stream[k] : stream[k][i] = "put"
      BY <2>3 DEF Queues
    <3>2. i \in DOMAIN Queued(K, action)[k] /\ Queued(K, action)[k][i] = "put"
      <4>1. CASE k \in K
        BY <1>0, <3>1, <4>1, QueuedIsLast
      <4>2. CASE k \notin K
        <5>1. Queued(K, action)[k] = stream[k]
          BY <1>0, <4>2, QueuedIsLast
        <5> QED
          BY <3>1, <5>1
      <4> QED
        BY <4>1, <4>2
    <3> QED
      BY <2>1, <3>2 DEF Queues
  <2>4. ASSUME NEW k \in Ids, Queues(k, "put")' PROVE k \in table'
    <3>1. CASE k \notin K
      BY <1>0, <1>1, <2>1, <2>4, <3>1, QueuedIsLast DEF Queues, PutsAreOfTheTable
    <3>2. CASE k \in K
      <4>1. PICK i \in DOMAIN stream'[k] : stream'[k][i] = "put"
        BY <2>4 DEF Queues
      <4>2. DOMAIN stream[k] = 1 .. Len(stream[k]) /\ Len(stream[k]) \in Nat
        BY <1>0
      <4>3. i \in DOMAIN stream[k] \/ i = Len(stream[k]) + 1
        BY <1>0, <2>1, <3>2, <4>1, <4>2, QueuedIsLast
      <4>4. CASE i \in DOMAIN stream[k]
        BY <1>0, <1>1, <2>1, <3>2, <4>1, <4>4, QueuedIsLast DEF Queues, PutsAreOfTheTable
      <4>5. CASE i = Len(stream[k]) + 1
        BY <1>0, <1>1, <2>1, <3>2, <4>1, <4>5, QueuedIsLast
      <4> QED
        BY <4>3, <4>4, <4>5
    <3> QED
      BY <3>1, <3>2
  <2> QED
    BY <1>1, <2>1, <2>2, <2>3, <2>4 DEF registryVars, TypeOK
<1>4. CASE StreamConsumed
  <2>1. PICK k \in Ids : Consume(k)
    BY <1>4 DEF StreamConsumed
  <2>2. stream[k] \in Seq(Events) /\ stream[k] # << >> /\ stream' = [stream EXCEPT ![k] = Tail(@)]
    BY <1>0, <2>1 DEF Consume
  <2>3. stream' \in [Ids -> Seq(Events)]
    BY <1>0, <2>2, TailMovesUp
  <2>4. table' = table
    BY <2>1 DEF Consume, tableVars
  <2>5. present' = IF Head(stream[k]) = "put" THEN present \cup {k} ELSE present
    BY <2>1 DEF Consume
  <2>6. Head(stream[k]) = "put" => Queues(k, "put")
    BY <2>2, TailMovesUp DEF Queues
  <2>7. present' \subseteq table'
    BY <2>4, <2>5, <2>6 DEF TypeOK, PutsAreOfTheTable
  <2>8. denied' \subseteq Ids
    BY <2>1 DEF Consume, TypeOK
  <2>9. ASSUME NEW j \in Ids PROVE Queues(j, "put")' => Queues(j, "put")
    BY <1>0, <2>2, TailMovesUp DEF Queues
  <2>10. ASSUME NEW j \in Ids, Queues(j, "put") PROVE (Queues(j, "put") \/ j \in present)'
    <3>1. CASE j # k
      BY <1>0, <2>2, <2>10, <3>1 DEF Queues
    <3>2. CASE j = k
      <4>1. PICK i \in DOMAIN stream[k] : stream[k][i] = "put"
        BY <2>10, <3>2 DEF Queues
      <4>2. stream'[k] = Tail(stream[k])
        BY <1>0, <2>2
      <4>3. CASE i = 1
        BY <2>2, <2>5, <3>2, <4>1, <4>3, TailMovesUp
      <4>4. CASE i # 1
        <5>1. i - 1 \in DOMAIN stream'[k] /\ stream'[k][i - 1] = stream[k][(i - 1) + 1]
          BY <2>2, <4>1, <4>2, <4>4, TailMovesUp
        <5>2. (i - 1) + 1 = i
          BY <2>2, <4>1, TailMovesUp
        <5> QED
          BY <3>2, <4>1, <5>1, <5>2 DEF Queues
      <4> QED
        BY <4>3, <4>4
    <3> QED
      BY <3>1, <3>2
  <2> QED
    BY <2>3, <2>4, <2>5, <2>7, <2>8, <2>9, <2>10 DEF PutsAreOfTheTable
<1> QED
  BY <1>2, <1>3, <1>4, StreamMoves

-----------------------------------------------------------------------------
(***************************************************************************)
(* Types, and what the puts are of                                         *)
(***************************************************************************)

LEMMA InitTypes == Init => TypeInv
BY MirrorAssumption
DEF Init, TypeInv, TypeOK, PutsAreOfTheTable, WorkIsUnderWay, Queues, Idle, NoRun, Events

\* The page that was rehearsed keeps all but its pending identifiers.
LEMMA DryFlushKeepsTypes ==
  ASSUME TypeInv, NEW s \in Segments, FlushDry(s)
  PROVE  /\ work' \in [Segments -> [busy : BOOLEAN, page : SUBSET Ids,
                                    pending : SUBSET Ids, attempt : 0 .. MaxAttempts]]
         /\ rehearsed' \subseteq Ids
         /\ \A t \in Segments : work'[t].page \subseteq table /\ work'[t].pending \subseteq table
         /\ WorkIsUnderWay'
         /\ UNCHANGED <<run, runs, saved, stats>>
<1> DEFINE PageWork == [busy : BOOLEAN, page : SUBSET Ids, pending : SUBSET Ids,
                      attempt : 0 .. MaxAttempts]
           new == [work[s] EXCEPT !.pending = {}]
<1>1. work \in [Segments -> PageWork] /\ rehearsed \subseteq Ids
  BY DEF TypeInv, TypeOK
<1>2. work' = [work EXCEPT ![s] = new] /\ rehearsed' = rehearsed \cup work[s].pending
  BY DEF FlushDry
<1>3. work[s] \in PageWork
  BY <1>1
<1>4. /\ new \in PageWork /\ new.pending = {}
      /\ new.page = work[s].page /\ new.busy = work[s].busy
  BY <1>3
<1>5. \A t \in Segments : work'[t] = IF t = s THEN new ELSE work[t]
  BY <1>1, <1>2
<1>6. work' \in [Segments -> PageWork]
  BY <1>1, <1>2, <1>4
<1>7. UNCHANGED <<run, runs, saved, stats>>
  BY DEF FlushDry
<1>8. \A t \in Segments : work'[t].page \subseteq table /\ work'[t].pending \subseteq table
  BY <1>4, <1>5 DEF TypeInv, PutsAreOfTheTable
<1>9. WorkIsUnderWay'
  BY <1>4, <1>5, <1>7 DEF TypeInv, WorkIsUnderWay
<1>10. rehearsed' \subseteq Ids
  BY <1>1, <1>2, <1>3
<1> QED
  BY <1>6, <1>7, <1>8, <1>9, <1>10

\* The backfill works on pages of the table, and no further than the last one.
LEMMA BackfillKeepsTypes ==
  ASSUME TypeInv, Backfill
  PROVE  /\ run' \in [on : BOOLEAN, dry : BOOLEAN, skip : SUBSET Ids]
         /\ runs' \in 0 .. MaxRuns
         /\ work' \in [Segments -> [busy : BOOLEAN, page : SUBSET Ids,
                                    pending : SUBSET Ids, attempt : 0 .. MaxAttempts]]
         /\ saved' \in [Segments -> 0 .. Pages]
         /\ stats' \in [skipped : SUBSET Ids, failed : SUBSET Ids]
         /\ rehearsed' \subseteq Ids
         /\ \A s \in Segments : work'[s].page \subseteq table /\ work'[s].pending \subseteq table
         /\ WorkIsUnderWay'
<1> USE MirrorAssumption DEF TypeInv, TypeOK, PutsAreOfTheTable, WorkIsUnderWay
<1>1. CASE StartRun
  BY <1>1 DEF StartRun
<1>2. ASSUME NEW s \in Segments, ScanPage(s)
      PROVE  /\ work' \in [Segments -> [busy : BOOLEAN, page : SUBSET Ids,
                                        pending : SUBSET Ids, attempt : 0 .. MaxAttempts]]
             /\ \A t \in Segments : work'[t].page \subseteq table /\ work'[t].pending \subseteq table
             /\ WorkIsUnderWay'
             /\ UNCHANGED <<run, runs, saved, stats, rehearsed>>
  BY <1>2 DEF ScanPage
<1>3. ASSUME NEW s \in Segments, Flush(s)
      PROVE  /\ work' \in [Segments -> [busy : BOOLEAN, page : SUBSET Ids,
                                        pending : SUBSET Ids, attempt : 0 .. MaxAttempts]]
             /\ \A t \in Segments : work'[t].page \subseteq table /\ work'[t].pending \subseteq table
             /\ WorkIsUnderWay'
             /\ UNCHANGED <<run, runs, saved, stats, rehearsed>>
  <2>1. PICK failed \in SUBSET work[s].pending :
          work' = [work EXCEPT ![s].pending = failed, ![s].attempt = @ + 1]
    BY <1>3 DEF Flush
  <2> DEFINE new == [busy |-> work[s].busy, page |-> work[s].page, pending |-> failed,
                     attempt |-> work[s].attempt + 1]
  <2>2. work[s] \in [busy : BOOLEAN, page : SUBSET Ids, pending : SUBSET Ids,
                     attempt : 0 .. MaxAttempts]
    OBVIOUS
  <2>3. work[s].attempt + 1 \in 0 .. MaxAttempts
    BY <1>3, <2>2 DEF Flush
  <2>4. new \in [busy : BOOLEAN, page : SUBSET Ids, pending : SUBSET Ids,
                 attempt : 0 .. MaxAttempts]
    BY <2>2, <2>3
  <2>5. work' = [work EXCEPT ![s] = new]
    BY <2>1, <2>2
  <2> QED
    BY <1>3, <2>4, <2>5 DEF Flush
<1>4. ASSUME NEW s \in Segments, FlushDry(s)
      PROVE  /\ work' \in [Segments -> [busy : BOOLEAN, page : SUBSET Ids,
                                        pending : SUBSET Ids, attempt : 0 .. MaxAttempts]]
             /\ rehearsed' \subseteq Ids
             /\ \A t \in Segments : work'[t].page \subseteq table /\ work'[t].pending \subseteq table
             /\ WorkIsUnderWay'
             /\ UNCHANGED <<run, runs, saved, stats>>
  BY <1>4, DryFlushKeepsTypes
<1>5. ASSUME NEW s \in Segments, SavePage(s)
      PROVE  /\ work' \in [Segments -> [busy : BOOLEAN, page : SUBSET Ids,
                                        pending : SUBSET Ids, attempt : 0 .. MaxAttempts]]
             /\ saved' \in [Segments -> 0 .. Pages]
             /\ stats' \in [skipped : SUBSET Ids, failed : SUBSET Ids]
             /\ \A t \in Segments : work'[t].page \subseteq table /\ work'[t].pending \subseteq table
             /\ WorkIsUnderWay'
             /\ UNCHANGED <<run, runs, rehearsed>>
  <2>1. Idle \in [busy : BOOLEAN, page : SUBSET Ids, pending : SUBSET Ids, attempt : 0 .. MaxAttempts]
    BY DEF Idle
  <2>2. saved[s] < Pages /\ saved[s] + 1 \in 0 .. Pages
    BY <1>5 DEF SavePage
  <2> QED
    BY <1>5, <2>1, <2>2 DEF SavePage, Idle
<1>6. CASE RunEnds
  <2>1. \A s \in Segments : ~ work[s].busy
    BY <1>6 DEF RunEnds, Complete
  <2> QED
    BY <1>6, <2>1 DEF RunEnds, NoRun
<1>7. CASE RunDies
  BY <1>7 DEF RunDies, NoRun, Idle
<1>8. CASE DeleteState
  BY <1>8 DEF DeleteState
<1> QED
  BY <1>1, <1>2, <1>3, <1>4, <1>5, <1>6, <1>7, <1>8
  DEF Backfill, Work, ScanPage, Flush, FlushDry, SavePage

LEMMA NextKeepsTypes ==
  ASSUME TypeInv, Next
  PROVE  TypeInv'
<1> USE MirrorAssumption
<1>1. /\ stream' \in [Ids -> Seq(Events)] /\ denied' \subseteq Ids
      /\ table \subseteq table' /\ present' \subseteq table'
      /\ \A k \in Ids : Queues(k, "put")' => k \in table'
  BY SentStaysSent
<1>2. CASE \E k \in Ids : Consume(k) \/ IndexDeclaration(k) \/ MirrorPut(k)
  <2>1. /\ table' \subseteq Ids /\ live' \subseteq table'
        /\ UNCHANGED <<redactVars, backfillVars>>
    BY <1>2 DEF Consume, IndexDeclaration, MirrorPut, TypeInv, TypeOK, tableVars
  <2> QED
    BY <1>1, <2>1
    DEF TypeInv, TypeOK, PutsAreOfTheTable, WorkIsUnderWay, redactVars, backfillVars, Events
<1>3. CASE \E q \in Requests : Redact(q)
  <2>1. PICK q \in Requests : Redact(q)
    BY <1>3
  <2>2. /\ redacted' \subseteq Ids /\ disturbed' \subseteq Ids
        /\ reqPc' \in [Requests -> {"new", "mirror", "answered", "dead"}]
        /\ toMirror' \in [Requests -> SUBSET Ids]
        /\ UNCHANGED <<tableVars, backfillVars>>
    <3>1. CASE RedactOne(q)
      BY <2>1, <3>1 DEF RedactOne, Marked, TypeInv, TypeOK
    <3>2. CASE RedactMany(q)
      BY <2>1, <3>2 DEF RedactMany, Marked, TypeInv, TypeOK
    <3>3. CASE MirrorRedaction(q) \/ RedactDies(q)
      BY <2>1, <3>3 DEF MirrorRedaction, RedactDies, TypeInv, TypeOK
    <3> QED
      BY <2>1, <3>1, <3>2, <3>3 DEF Redact
  <2> QED
    BY <1>1, <2>2
    DEF TypeInv, TypeOK, PutsAreOfTheTable, WorkIsUnderWay, tableVars, backfillVars, Events
<1>4. CASE Backfill
  <2>1. UNCHANGED <<tableVars, redactVars>>
    BY <1>4 DEF Backfill, Work, StartRun, ScanPage, Flush, FlushDry, SavePage, RunEnds,
                RunDies, DeleteState
  <2> QED
    BY <1>1, <1>4, <2>1, BackfillKeepsTypes
    DEF TypeInv, TypeOK, PutsAreOfTheTable, tableVars, redactVars, Events
<1> QED
  BY <1>2, <1>3, <1>4 DEF Next

-----------------------------------------------------------------------------
(***************************************************************************)
(* The pages of the backfill                                               *)
(***************************************************************************)

\* What is accounted for stays so until the operator deletes the state file.
LEMMA AccountedStays ==
  ASSUME TypeInv, Next, NEW k \in Ids, Accounted(k),
         stats.skipped \subseteq stats'.skipped, stats.failed \subseteq stats'.failed,
         rehearsed \subseteq rehearsed'
  PROVE  Accounted(k)'
BY SentStaysSent DEF Accounted

LEMMA NextKeepsPages ==
  ASSUME TypeInv, PagesAreAccounted, Next
  PROVE  PagesAreAccounted'
<1> USE MirrorAssumption
<1> SUFFICES ASSUME NEW k \in Legacy \ Excluded, NEW s \in Segments, NEW p \in 1 .. Pages,
                    PageOf[k] = <<s, p>>
             PROVE  /\ p <= saved'[s] => Accounted(k)'
                    /\ work'[s].busy /\ p = saved'[s] + 1 =>
                         /\ k \in work'[s].page
                         /\ k \in work'[s].pending \cup run'.skip \/ Accounted(k)'
  BY DEF PagesAreAccounted
<1>1. /\ p <= saved[s] => Accounted(k)
      /\ work[s].busy /\ p = saved[s] + 1 =>
           /\ k \in work[s].page
           /\ k \in work[s].pending \cup run.skip \/ Accounted(k)
  BY DEF PagesAreAccounted
<1>2. k \in Ids /\ k \in table
  BY DEF TypeInv, PutsAreOfTheTable
<1>3. /\ saved \in [Segments -> 0 .. Pages] /\ saved[s] \in Nat
      /\ work[s] \in [busy : BOOLEAN, page : SUBSET Ids, pending : SUBSET Ids,
                      attempt : 0 .. MaxAttempts]
      /\ stats \in [skipped : SUBSET Ids, failed : SUBSET Ids]
      /\ work[s].busy => run.on /\ saved[s] < Pages
  BY DEF TypeInv, TypeOK, WorkIsUnderWay
<1>4. CASE UNCHANGED backfillVars
  BY <1>1, <1>2, <1>4, AccountedStays DEF backfillVars
<1>5. CASE Backfill
  <2>1. CASE StartRun
    <3>1. UNCHANGED <<saved, work, stats, rehearsed>> /\ ~ work[s].busy
      BY <1>3, <2>1 DEF StartRun
    <3> QED
      BY <1>1, <1>2, <3>1, AccountedStays
  <2>2. ASSUME NEW t \in Segments, ScanPage(t)
        PROVE  /\ p <= saved'[s] => Accounted(k)'
               /\ work'[s].busy /\ p = saved'[s] + 1 =>
                    /\ k \in work'[s].page
                    /\ k \in work'[s].pending \cup run'.skip \/ Accounted(k)'
    <3>1. UNCHANGED <<run, saved, stats, rehearsed>>
      BY <2>2 DEF ScanPage
    <3>2. Accounted(k) => Accounted(k)'
      BY <1>2, <3>1, AccountedStays
    <3>3. CASE s # t
      BY <1>1, <2>2, <3>1, <3>2, <3>3 DEF ScanPage, TypeInv, TypeOK
    <3>4. CASE s = t
      <4> DEFINE page == {j \in table : PageOf[j] = <<s, saved[s] + 1>>}
      <4>1. work'[s].page = page /\ work'[s].pending = (page \ run.skip) \ Excluded
        BY <2>2, <3>4 DEF ScanPage, TypeInv, TypeOK
      <4>2. p = saved[s] + 1 => k \in page
        BY <1>2
      <4> QED
        BY <1>1, <3>1, <3>2, <4>1, <4>2
    <3> QED
      BY <3>3, <3>4
  <2>3. ASSUME NEW t \in Segments, Flush(t)
        PROVE  /\ p <= saved'[s] => Accounted(k)'
               /\ work'[s].busy /\ p = saved'[s] + 1 =>
                    /\ k \in work'[s].page
                    /\ k \in work'[s].pending \cup run'.skip \/ Accounted(k)'
    <3>1. UNCHANGED <<run, saved, stats, rehearsed>>
      BY <2>3 DEF Flush
    <3>2. Accounted(k) => Accounted(k)'
      BY <1>2, <3>1, AccountedStays
    <3>3. PICK landed \in SUBSET work[t].pending, failed \in SUBSET work[t].pending :
            /\ stream' = Queued(landed, "put")
            /\ work[t].pending \ landed \subseteq failed
            /\ work' = [work EXCEPT ![t].pending = failed, ![t].attempt = @ + 1]
      BY <2>3 DEF Flush
    <3>4. CASE s # t
      <4>1. work'[s] = work[s]
        BY <3>3, <3>4 DEF TypeInv, TypeOK
      <4> QED
        BY <1>1, <3>1, <3>2, <4>1
    <3>5. CASE s = t
      <4>1. /\ work'[s].page = work[s].page /\ work'[s].pending = failed
            /\ work'[s].busy = work[s].busy
        BY <1>3, <3>3, <3>5 DEF TypeInv, TypeOK
      <4>2. k \in landed => Queues(k, "put")'
        <5>1. stream \in [Ids -> Seq(Events)] /\ "put" \in Events
          BY DEF TypeInv, TypeOK, Events
        <5>2. /\ Len(stream[k]) \in Nat
              /\ k \in landed =>
                   /\ DOMAIN stream'[k] = 1 .. Len(stream[k]) + 1
                   /\ stream'[k][Len(stream[k]) + 1] = "put"
          BY <1>2, <3>3, <5>1, QueuedIsLast
        <5> QED
          BY <5>2 DEF Queues
      <4>3. k \in work[s].pending => k \in failed \/ Accounted(k)'
        BY <3>3, <3>5, <4>2 DEF Accounted
      <4> QED
        BY <1>1, <3>1, <3>2, <4>1, <4>3
    <3> QED
      BY <3>4, <3>5
  <2>4. ASSUME NEW t \in Segments, FlushDry(t)
        PROVE  /\ p <= saved'[s] => Accounted(k)'
               /\ work'[s].busy /\ p = saved'[s] + 1 =>
                    /\ k \in work'[s].page
                    /\ k \in work'[s].pending \cup run'.skip \/ Accounted(k)'
    <3>1. /\ UNCHANGED <<run, saved, stats>> /\ rehearsed' = rehearsed \cup work[t].pending
          /\ work' = [work EXCEPT ![t].pending = {}]
      BY <2>4 DEF FlushDry
    <3>2. Accounted(k) => Accounted(k)'
      BY <1>2, <3>1, AccountedStays
    <3>3. CASE s # t
      <4>1. work'[s] = work[s]
        BY <3>1, <3>3 DEF TypeInv, TypeOK
      <4> QED
        BY <1>1, <3>1, <3>2, <4>1
    <3>4. CASE s = t
      <4>1. work'[s].page = work[s].page /\ work'[s].busy = work[s].busy
        BY <1>3, <3>1, <3>4 DEF TypeInv, TypeOK
      <4>2. k \in work[s].pending => Accounted(k)'
        BY <3>1, <3>4 DEF Accounted
      <4> QED
        BY <1>1, <3>1, <3>2, <4>1, <4>2
    <3> QED
      BY <3>3, <3>4
  <2>5. ASSUME NEW t \in Segments, SavePage(t)
        PROVE  /\ p <= saved'[s] => Accounted(k)'
               /\ work'[s].busy /\ p = saved'[s] + 1 =>
                    /\ k \in work'[s].page
                    /\ k \in work'[s].pending \cup run'.skip \/ Accounted(k)'
    <3>1. /\ run.on /\ work[t].busy /\ UNCHANGED <<run, rehearsed>>
          /\ saved' = [saved EXCEPT ![t] = @ + 1]
          /\ stats'.skipped = stats.skipped \cup (work[t].page \cap run.skip)
          /\ stats'.failed = stats.failed \cup work[t].pending
          /\ work' = [work EXCEPT ![t] = Idle]
      BY <2>5 DEF SavePage
    <3>2. Accounted(k) => Accounted(k)'
      BY <1>2, <3>1, AccountedStays
    <3>3. CASE s # t
      <4>1. work'[s] = work[s] /\ saved'[s] = saved[s]
        BY <3>1, <3>3 DEF TypeInv, TypeOK
      <4> QED
        BY <1>1, <3>1, <3>2, <4>1
    <3>4. CASE s = t
      <4>1. ~ work'[s].busy /\ saved'[s] = saved[s] + 1
        BY <3>1, <3>4 DEF TypeInv, TypeOK, Idle
      <4>2. p = saved[s] + 1 => Accounted(k)'
        BY <1>1, <3>1, <3>2, <3>4 DEF Accounted
      <4>3. p <= saved[s] + 1 => p <= saved[s] \/ p = saved[s] + 1
        BY <1>3
      <4> QED
        BY <1>1, <3>2, <4>1, <4>2, <4>3
    <3> QED
      BY <3>3, <3>4
  <2>6. CASE RunEnds
    <3>1. UNCHANGED <<saved, work, stats, rehearsed>> /\ ~ work[s].busy
      BY <1>3, <2>6 DEF RunEnds, Complete
    <3> QED
      BY <1>1, <1>2, <3>1, AccountedStays
  <2>7. CASE RunDies
    <3>1. UNCHANGED <<saved, stats, rehearsed>> /\ ~ work'[s].busy
      BY <2>7 DEF RunDies, Idle
    <3> QED
      BY <1>1, <1>2, <3>1, AccountedStays
  <2>8. CASE DeleteState
    <3>1. saved'[s] = 0 /\ ~ work'[s].busy
      BY <1>3, <2>8 DEF DeleteState
    <3> QED
      BY <3>1
  <2> QED
    BY <1>5, <2>1, <2>2, <2>3, <2>4, <2>5, <2>6, <2>7, <2>8 DEF Backfill, Work
<1> QED
  BY <1>4, <1>5
  DEF Next, Consume, IndexDeclaration, MirrorPut, Redact, RedactOne, RedactMany,
      MirrorRedaction, RedactDies

-----------------------------------------------------------------------------
(***************************************************************************)
(* Redactions on their way                                                 *)
(***************************************************************************)

\* To consume an event, or to queue a put, changes nothing about what the denylist
\* will say; nor does an event of another identifier.
LEMMA ConsumingKeepsTheEnd ==
  ASSUME TypeInv, NEW j \in Ids, Consume(j), NEW k \in Ids, NEW flag \in BOOLEAN,
         WillBeDenied(k, flag)
  PROVE  WillBeDenied(k, flag)'
<1> DEFINE last == IF flag THEN "redact" ELSE "unredact"
<1>1. /\ stream \in [Ids -> Seq(Events)] /\ stream[j] # << >>
      /\ stream' = [stream EXCEPT ![j] = Tail(@)]
      /\ denied' = CASE Head(stream[j]) = "redact" -> denied \cup {j}
                     [] Head(stream[j]) = "unredact" -> denied \ {j}
                     [] OTHER -> denied
  BY DEF TypeInv, TypeOK, Consume, Events
<1>2. CASE k # j
  <2>1. stream'[k] = stream[k] /\ (k \in denied' <=> k \in denied)
    BY <1>1, <1>2
  <2> QED
    BY <2>1 DEF WillBeDenied
<1>3. CASE k = j
  <2> DEFINE s == stream[k]
             t == Tail(s)
  <2>1. /\ stream'[k] = t /\ Head(s) = s[1] /\ 1 \in DOMAIN s
        /\ DOMAIN s \subseteq Nat \ {0} /\ DOMAIN t \subseteq Nat \ {0}
        /\ \A i \in DOMAIN t : i + 1 \in DOMAIN s /\ t[i] = s[i + 1]
        /\ \A i \in DOMAIN s : i # 1 => i - 1 \in DOMAIN t
    BY <1>1, <1>3, TailMovesUp
  <2>2. CASE (\A i \in DOMAIN s : s[i] = "put") /\ (k \in denied <=> flag)
    <3>1. \A i \in DOMAIN t : t[i] = "put"
      BY <2>1, <2>2
    <3>2. denied' = denied
      BY <1>1, <1>3, <2>1, <2>2
    <3> QED
      BY <2>1, <2>2, <3>1, <3>2 DEF WillBeDenied
  <2>3. ASSUME NEW i \in DOMAIN s, s[i] = last, \A m \in DOMAIN s : m > i => s[m] = "put"
        PROVE  WillBeDenied(k, flag)'
    <3>1. CASE i = 1
      <4>1. \A m \in DOMAIN t : t[m] = "put"
        <5> SUFFICES ASSUME NEW m \in DOMAIN t PROVE t[m] = "put"
          OBVIOUS
        <5>1. m \in Nat \ {0} /\ m + 1 \in DOMAIN s /\ t[m] = s[m + 1]
          BY <2>1
        <5>2. m + 1 > i
          BY <3>1, <5>1
        <5> QED
          BY <2>3, <5>1, <5>2
      <4>2. Head(s) = last
        BY <2>1, <2>3, <3>1
      <4>3. k \in denied' <=> flag
        BY <1>1, <1>3, <4>2
      <4> QED
        BY <2>1, <4>1, <4>3 DEF WillBeDenied
    <3>2. CASE i # 1
      <4>1. i \in Nat /\ i - 1 \in DOMAIN t /\ (i - 1) + 1 = i
        BY <2>1, <3>2
      <4>2. t[i - 1] = last
        BY <2>1, <2>3, <4>1
      <4>3. \A m \in DOMAIN t : m > i - 1 => t[m] = "put"
        <5> SUFFICES ASSUME NEW m \in DOMAIN t, m > i - 1 PROVE t[m] = "put"
          OBVIOUS
        <5>1. m \in Nat /\ m + 1 \in DOMAIN s /\ t[m] = s[m + 1]
          BY <2>1
        <5>2. m + 1 > i
          BY <4>1, <5>1
        <5> QED
          BY <2>3, <5>1, <5>2
      <4> QED
        BY <2>1, <4>1, <4>2, <4>3 DEF WillBeDenied
    <3> QED
      BY <3>1, <3>2
  <2> QED
    BY <2>2, <2>3 DEF WillBeDenied
<1> QED
  BY <1>2, <1>3

LEMMA QueuingKeepsTheEnd ==
  ASSUME TypeInv, NEW K \in SUBSET Ids, NEW action \in Events, NEW k \in Ids,
         k \in K => action = "put",
         stream' = Queued(K, action), denied' = denied,
         NEW flag \in BOOLEAN, WillBeDenied(k, flag)
  PROVE  WillBeDenied(k, flag)'
<1> DEFINE s == stream[k]
           t == stream'[k]
<1>1. stream \in [Ids -> Seq(Events)]
  BY DEF TypeInv, TypeOK, Events
<1>2. CASE k \notin K
  <2>1. t = s
    BY <1>1, <1>2, QueuedIsLast
  <2> QED
    BY <2>1 DEF WillBeDenied
<1>3. CASE k \in K
  <2>1. /\ DOMAIN s = 1 .. Len(s) /\ Len(s) \in Nat /\ DOMAIN t = 1 .. Len(s) + 1
        /\ t[Len(s) + 1] = "put"
        /\ \A i \in DOMAIN s : i \in DOMAIN t /\ t[i] = s[i]
    BY <1>1, <1>3, QueuedIsLast
  <2>2. \A i \in DOMAIN t : i \in DOMAIN s \/ i = Len(s) + 1
    BY <2>1
  <2>3. CASE (\A i \in DOMAIN s : s[i] = "put") /\ (k \in denied <=> flag)
    <3>1. \A i \in DOMAIN t : t[i] = "put"
      BY <2>1, <2>2, <2>3
    <3> QED
      BY <2>3, <3>1 DEF WillBeDenied
  <2>4. ASSUME NEW i \in DOMAIN s, s[i] = IF flag THEN "redact" ELSE "unredact",
               \A m \in DOMAIN s : m > i => s[m] = "put"
        PROVE  WillBeDenied(k, flag)'
    <3>1. i \in DOMAIN t /\ t[i] = IF flag THEN "redact" ELSE "unredact"
      BY <2>1, <2>4
    <3>2. \A m \in DOMAIN t : m > i => t[m] = "put"
      BY <2>1, <2>2, <2>4
    <3> QED
      BY <3>1, <3>2 DEF WillBeDenied
  <2> QED
    BY <2>3, <2>4 DEF WillBeDenied
<1> QED
  BY <1>2, <1>3

\* A redaction event that is queued last decides.
LEMMA TheLastDecides ==
  ASSUME TypeInv, NEW K \in SUBSET Ids, NEW k \in K, NEW flag \in BOOLEAN,
         stream' = Queued(K, IF flag THEN "redact" ELSE "unredact")
  PROVE  WillBeDenied(k, flag)'
<1> DEFINE action == IF flag THEN "redact" ELSE "unredact"
           n == Len(stream[k]) + 1
<1>1. stream \in [Ids -> Seq(Events)] /\ action \in Events /\ k \in Ids
  BY DEF TypeInv, TypeOK, Events
<1>2. Len(stream[k]) \in Nat
  BY <1>1
<1>3. DOMAIN stream'[k] = 1 .. n /\ stream'[k][n] = action
  BY <1>1, QueuedIsLast
<1>4. n \in DOMAIN stream'[k] /\ \A m \in DOMAIN stream'[k] : ~ (m > n)
  BY <1>2, <1>3
<1> QED
  BY <1>3, <1>4 DEF WillBeDenied

\* What a call leaves of an undisturbed identifier: it has written the flag of
\* those that it will mirror, and no other call has still to mirror them.
LEMMA WrittenIsMirrored ==
  ASSUME TypeInv, NEW q \in Requests, RedactOne(q) \/ RedactMany(q),
         NEW k \in Ids \ disturbed'
  PROVE  /\ reqPc[q] = "new" /\ reqPc' = [reqPc EXCEPT ![q] = "mirror"]
         /\ \A p \in Requests \ {q} : toMirror'[p] = toMirror[p]
         /\ k \in toMirror'[q] => /\ k \in redacted' <=> IsRedacted[q]
                                  /\ \A p \in Requests \ {q} : ~ Mirrors(p, k)
         /\ k \notin toMirror'[q] => (k \in redacted' <=> k \in redacted)
         /\ k \notin disturbed /\ UNCHANGED <<stream, denied>>
<1>1. toMirror \in [Requests -> SUBSET Ids] /\ IsRedacted[q] \in BOOLEAN
  BY MirrorAssumption DEF TypeInv, TypeOK
<1>2. k \notin Contended(q) => \A p \in Requests \ {q} : ~ Mirrors(p, k)
  BY DEF Contended, Mirrors
<1>3. CASE RedactOne(q)
  <2>1. PICK landed \in SUBSET Scope[q] :
          /\ redacted' = Marked(landed, q)
          /\ disturbed' = disturbed \cup (Scope[q] \ landed) \cup (Scope[q] \cap Contended(q))
    BY <1>3 DEF RedactOne
  <2>2. toMirror' = [toMirror EXCEPT ![q] = Scope[q]]
    BY <1>3 DEF RedactOne
  <2>3. toMirror'[q] = Scope[q]
    BY <1>1, <2>2
  <2> QED
    BY <1>1, <1>2, <1>3, <2>1, <2>2, <2>3 DEF RedactOne, Marked, registryVars
<1>4. CASE RedactMany(q)
  <2>1. PICK landed \in SUBSET Scope[q], success \in SUBSET Scope[q] :
          /\ success \subseteq landed
          /\ redacted' = Marked(landed, q)
          /\ toMirror' = [toMirror EXCEPT ![q] = success]
          /\ disturbed' = disturbed \cup (landed \ success) \cup (landed \cap Contended(q))
    BY <1>4 DEF RedactMany
  <2>2. toMirror'[q] = success
    BY <1>1, <2>1
  <2> QED
    BY <1>1, <1>2, <1>4, <2>1, <2>2 DEF RedactMany, Marked, registryVars
<1> QED
  BY <1>3, <1>4

LEMMA NextKeepsRedactions ==
  ASSUME TypeInv, OneMirrorsAtATime, Next
  PROVE  OneMirrorsAtATime'
<1> USE MirrorAssumption
<1> SUFFICES
      ASSUME NEW k \in Ids \ disturbed'
      PROVE  /\ \A p, q \in Requests : Mirrors(p, k)' /\ Mirrors(q, k)' => p = q
             /\ \A q \in Requests : Mirrors(q, k)' => (k \in redacted' <=> IsRedacted[q])
             /\ (\A q \in Requests : ~ Mirrors(q, k)') => WillBeDenied(k, k \in redacted)'
  BY DEF OneMirrorsAtATime
<1>1. k \in Ids \ disturbed =>
        /\ \A p, q \in Requests : Mirrors(p, k) /\ Mirrors(q, k) => p = q
        /\ \A q \in Requests : Mirrors(q, k) => (k \in redacted <=> IsRedacted[q])
        /\ (\A q \in Requests : ~ Mirrors(q, k)) => WillBeDenied(k, k \in redacted)
  BY DEF OneMirrorsAtATime
<1>2. /\ reqPc \in [Requests -> {"new", "mirror", "answered", "dead"}]
      /\ toMirror \in [Requests -> SUBSET Ids]
  BY DEF TypeInv, TypeOK
<1>3. ASSUME UNCHANGED redactVars,
             WillBeDenied(k, k \in redacted) => WillBeDenied(k, k \in redacted)'
      PROVE  /\ \A p, q \in Requests : Mirrors(p, k)' /\ Mirrors(q, k)' => p = q
             /\ \A q \in Requests : Mirrors(q, k)' => (k \in redacted' <=> IsRedacted[q])
             /\ (\A q \in Requests : ~ Mirrors(q, k)') => WillBeDenied(k, k \in redacted)'
  BY <1>1, <1>3 DEF Mirrors, redactVars
<1>4. (k \in redacted) \in BOOLEAN
  OBVIOUS
<1>5. CASE \E j \in Ids : Consume(j)
  <2>1. PICK j \in Ids : Consume(j)
    BY <1>5
  <2>2. redacted' = redacted /\ UNCHANGED redactVars
    BY <2>1 DEF Consume, redactVars
  <2>3. ASSUME NEW flag \in BOOLEAN, WillBeDenied(k, flag) PROVE WillBeDenied(k, flag)'
    BY <2>1, <2>3, ConsumingKeepsTheEnd
  <2>4. WillBeDenied(k, k \in redacted) => WillBeDenied(k, k \in redacted)'
    BY <2>2, <2>3 DEF WillBeDenied
  <2> QED
    BY <1>3, <2>2, <2>4
<1>6. CASE (\E j \in Ids : IndexDeclaration(j) \/ MirrorPut(j)) \/ Backfill
  <2>1. UNCHANGED redactVars /\ redacted' = redacted /\ denied' = denied
    BY <1>6 DEF IndexDeclaration, MirrorPut, Backfill, Work, StartRun, ScanPage, Flush,
                FlushDry, SavePage, RunEnds, RunDies, DeleteState, redactVars, registryVars
  <2>2. stream' = stream \/ \E K \in SUBSET Ids : stream' = Queued(K, "put")
    <3>1. CASE \E j \in Ids : IndexDeclaration(j) \/ MirrorPut(j)
      BY <3>1 DEF IndexDeclaration, MirrorPut
    <3>2. CASE \E s \in Segments : Flush(s)
      <4>1. PICK s \in Segments : Flush(s)
        BY <3>2
      <4>2. work[s].pending \subseteq Ids
        BY DEF TypeInv, TypeOK
      <4> QED
        BY <4>1, <4>2 DEF Flush
    <3>3. CASE Backfill /\ ~ \E s \in Segments : Flush(s)
      BY <3>3 DEF Backfill, Work, StartRun, ScanPage, FlushDry, SavePage, RunEnds, RunDies,
                  DeleteState
    <3> QED
      BY <1>6, <3>1, <3>2, <3>3
  <2>3. "put" \in Events
    BY DEF Events
  <2>4. ASSUME NEW flag \in BOOLEAN, WillBeDenied(k, flag) PROVE WillBeDenied(k, flag)'
    <3>1. CASE stream' = stream
      BY <2>1, <2>4, <3>1 DEF WillBeDenied
    <3>2. CASE \E K \in SUBSET Ids : stream' = Queued(K, "put")
      BY <2>1, <2>3, <2>4, <3>2, QueuingKeepsTheEnd
    <3> QED
      BY <2>2, <3>1, <3>2
  <2>5. WillBeDenied(k, k \in redacted) => WillBeDenied(k, k \in redacted)'
    BY <2>1, <2>4 DEF WillBeDenied
  <2> QED
    BY <1>3, <2>1, <2>5
<1>7. ASSUME NEW r \in Requests, RedactOne(r) \/ RedactMany(r)
      PROVE  /\ \A p, q \in Requests : Mirrors(p, k)' /\ Mirrors(q, k)' => p = q
             /\ \A q \in Requests : Mirrors(q, k)' => (k \in redacted' <=> IsRedacted[q])
             /\ (\A q \in Requests : ~ Mirrors(q, k)') => WillBeDenied(k, k \in redacted)'
  <2>1. /\ reqPc[r] = "new" /\ reqPc' = [reqPc EXCEPT ![r] = "mirror"]
        /\ \A p \in Requests \ {r} : toMirror'[p] = toMirror[p]
        /\ k \in toMirror'[r] => /\ k \in redacted' <=> IsRedacted[r]
                                 /\ \A p \in Requests \ {r} : ~ Mirrors(p, k)
        /\ k \notin toMirror'[r] => (k \in redacted' <=> k \in redacted)
        /\ k \notin disturbed /\ UNCHANGED <<stream, denied>>
    BY <1>7, WrittenIsMirrored
  <2>2. \A p \in Requests \ {r} : Mirrors(p, k)' <=> Mirrors(p, k)
    BY <1>2, <2>1 DEF Mirrors
  <2>3. Mirrors(r, k)' <=> k \in toMirror'[r]
    BY <1>2, <2>1 DEF Mirrors
  <2>4. ~ Mirrors(r, k)
    BY <2>1 DEF Mirrors
  <2>5. CASE k \in toMirror'[r]
    BY <2>1, <2>2, <2>3, <2>5
  <2>6. CASE k \notin toMirror'[r]
    <3>1. \A p \in Requests : Mirrors(p, k)' <=> Mirrors(p, k)
      BY <2>2, <2>3, <2>4, <2>6
    <3>2. k \in redacted' <=> k \in redacted
      BY <2>1, <2>6
    <3>3. WillBeDenied(k, k \in redacted) => WillBeDenied(k, k \in redacted)'
      BY <2>1, <3>2 DEF WillBeDenied
    <3> QED
      BY <1>1, <2>1, <3>1, <3>2, <3>3
  <2> QED
    BY <2>5, <2>6
<1>8. ASSUME NEW r \in Requests, MirrorRedaction(r)
      PROVE  /\ \A p, q \in Requests : Mirrors(p, k)' /\ Mirrors(q, k)' => p = q
             /\ \A q \in Requests : Mirrors(q, k)' => (k \in redacted' <=> IsRedacted[q])
             /\ (\A q \in Requests : ~ Mirrors(q, k)') => WillBeDenied(k, k \in redacted)'
  <2>1. PICK landed \in SUBSET toMirror[r] :
          /\ stream' = Queued(landed, Action(r))
          /\ disturbed' = disturbed \cup (toMirror[r] \ landed)
    BY <1>8 DEF MirrorRedaction
  <2>2. /\ reqPc[r] = "mirror" /\ reqPc' = [reqPc EXCEPT ![r] = "answered"]
        /\ redacted' = redacted /\ toMirror' = toMirror /\ denied' = denied
    BY <1>8 DEF MirrorRedaction, registryVars
  <2>3. k \notin disturbed /\ (k \in toMirror[r] <=> k \in landed)
    BY <2>1
  <2>4. \A p \in Requests : Mirrors(p, k)' <=> p # r /\ Mirrors(p, k)
    BY <1>2, <2>2 DEF Mirrors
  <2>5. landed \in SUBSET Ids /\ Action(r) \in Events /\ IsRedacted[r] \in BOOLEAN
        /\ Action(r) = IF IsRedacted[r] THEN "redact" ELSE "unredact"
    BY <1>2 DEF Action, Events
  <2>6. CASE k \in landed
    <3>1. Mirrors(r, k)
      BY <2>2, <2>3, <2>6 DEF Mirrors
    <3>2. k \in redacted <=> IsRedacted[r]
      BY <1>1, <2>3, <3>1
    <3>3. WillBeDenied(k, IsRedacted[r])'
      BY <2>1, <2>5, <2>6, TheLastDecides
    <3>4. WillBeDenied(k, k \in redacted)'
      BY <2>2, <3>2, <3>3 DEF WillBeDenied
    <3>5. \A p \in Requests : ~ Mirrors(p, k)'
      BY <1>1, <2>3, <2>4, <3>1
    <3> QED
      BY <3>4, <3>5
  <2>7. CASE k \notin landed
    <3>1. \A p \in Requests : Mirrors(p, k)' <=> Mirrors(p, k)
      BY <2>3, <2>4, <2>7 DEF Mirrors
    <3>2. ASSUME NEW flag \in BOOLEAN, WillBeDenied(k, flag) PROVE WillBeDenied(k, flag)'
      BY <2>1, <2>2, <2>5, <2>7, <3>2, QueuingKeepsTheEnd
    <3>3. WillBeDenied(k, k \in redacted) => WillBeDenied(k, k \in redacted)'
      BY <2>2, <3>2 DEF WillBeDenied
    <3> QED
      BY <1>1, <2>2, <2>3, <3>1, <3>3
  <2> QED
    BY <2>6, <2>7
<1>9. ASSUME NEW r \in Requests, RedactDies(r)
      PROVE  /\ \A p, q \in Requests : Mirrors(p, k)' /\ Mirrors(q, k)' => p = q
             /\ \A q \in Requests : Mirrors(q, k)' => (k \in redacted' <=> IsRedacted[q])
             /\ (\A q \in Requests : ~ Mirrors(q, k)') => WillBeDenied(k, k \in redacted)'
  <2>1. /\ reqPc' = [reqPc EXCEPT ![r] = "dead"] /\ disturbed' = disturbed \cup toMirror[r]
        /\ UNCHANGED <<redacted, toMirror, stream, denied>>
    BY <1>9 DEF RedactDies, registryVars
  <2>2. k \notin disturbed /\ k \notin toMirror[r]
    BY <2>1
  <2>3. \A p \in Requests : Mirrors(p, k)' <=> Mirrors(p, k)
    BY <1>2, <2>1, <2>2 DEF Mirrors
  <2>4. WillBeDenied(k, k \in redacted) => WillBeDenied(k, k \in redacted)'
    BY <2>1 DEF WillBeDenied
  <2> QED
    BY <1>1, <2>1, <2>2, <2>3, <2>4
<1> QED
  BY <1>5, <1>6, <1>7, <1>8, <1>9 DEF Next, Redact

-----------------------------------------------------------------------------
\* The inductive invariant of the mirror.
THEOREM Invariance == Spec => []IInv
<1>1. Init => IInv
  <2> SUFFICES ASSUME Init PROVE IInv
    OBVIOUS
  <2>1. TypeInv
    BY InitTypes
  <2>2. PagesAreAccounted
    BY MirrorAssumption DEF Init, PagesAreAccounted, Idle
  <2>3. OneMirrorsAtATime
    BY DEF Init, OneMirrorsAtATime, Mirrors, WillBeDenied
  <2> QED
    BY <2>1, <2>2, <2>3 DEF IInv, TypeInv
<1>2. IInv /\ [Next]_vars => IInv'
  <2> SUFFICES ASSUME IInv, [Next]_vars PROVE IInv'
    OBVIOUS
  <2>1. TypeInv /\ PagesAreAccounted /\ OneMirrorsAtATime
    BY DEF IInv, TypeInv
  <2>2. CASE Next
    BY <2>1, <2>2, NextKeepsTypes, NextKeepsPages, NextKeepsRedactions DEF IInv, TypeInv
  <2>3. CASE UNCHANGED vars
    <3>1. TypeInv'
      BY <2>1, <2>3
      DEF TypeInv, TypeOK, PutsAreOfTheTable, WorkIsUnderWay, Queues, vars
    <3>2. PagesAreAccounted'
      BY <2>1, <2>3 DEF PagesAreAccounted, Accounted, Queues, vars
    <3>3. OneMirrorsAtATime'
      BY <2>1, <2>3 DEF OneMirrorsAtATime, Mirrors, WillBeDenied, vars
    <3> QED
      BY <3>1, <3>2, <3>3 DEF IInv, TypeInv
  <2> QED
    BY <2>2, <2>3
<1> QED
  BY <1>1, <1>2, PTL DEF Spec

\* The variables of the mirror keep their types; the state file and the attempts
\* stay within their bounds, and the registry holds only what was registered.
THEOREM TypeCorrect == Spec => []TypeOK
<1>1. IInv => TypeOK
  BY DEF IInv
<1> QED
  BY <1>1, Invariance, PTL

\* A complete state file accounts for every old declaration, however often the
\* script was killed, resumed, rehearsed and started afresh.
THEOREM NothingIsMissed == Spec => []BackfillMissesNothing
<1>1. IInv => BackfillMissesNothing
  <2> SUFFICES ASSUME IInv, Complete, NEW k \in Legacy \ Excluded PROVE Accounted(k)
    BY DEF BackfillMissesNothing, Accounted, Queues
  <2>1. PICK s \in Segments, p \in 1 .. Pages : PageOf[k] = <<s, p>>
    BY MirrorAssumption
  <2>2. saved[s] = Pages /\ p <= Pages
    BY MirrorAssumption DEF Complete
  <2> QED
    BY <2>1, <2>2 DEF IInv, PagesAreAccounted
<1> QED
  BY <1>1, Invariance, PTL

\* The denylist of the registry follows the Redacted table, for any calls of the
\* endpoint that fail and die in any way, and any puts in between.
THEOREM TheDenylistFollows == Spec => []DenylistFollowsTable
<1>1. IInv => DenylistFollowsTable
  <2> SUFFICES ASSUME IInv, \A q \in Requests : reqPc[q] # "mirror",
                      NEW k \in Ids \ disturbed, stream[k] = << >>
               PROVE  k \in denied <=> k \in redacted
    BY DEF DenylistFollowsTable
  <2>1. WillBeDenied(k, k \in redacted)
    BY DEF IInv, OneMirrorsAtATime, Mirrors
  <2>2. DOMAIN stream[k] = {}
    OBVIOUS
  <2> QED
    BY <2>1, <2>2 DEF WillBeDenied
<1> QED
  BY <1>1, Invariance, PTL

\* What a segment of a run does to its page and to the state file.
LEMMA WorkGetsNearer ==
  ASSUME TypeOK, WorkIsUnderWay, NEW s \in Segments, Work(s)
  PROVE  Nearer(s)
<1> saved[s] \in Nat /\ work[s].attempt \in Nat
  BY MirrorAssumption DEF TypeOK
<1> s \in DOMAIN work /\ s \in DOMAIN saved
  BY DEF TypeOK
<1>1. CASE ScanPage(s)
  BY <1>1 DEF ScanPage, Nearer
<1>2. CASE Flush(s)
  <2>1. PICK failed :
          work' = [work EXCEPT ![s].pending = failed, ![s].attempt = @ + 1]
    BY <1>2 DEF Flush
  <2>2. DOMAIN work[s] = {"busy", "page", "pending", "attempt"}
    BY DEF TypeOK
  <2>3. work'[s].busy = work[s].busy /\ work'[s].attempt = work[s].attempt + 1
    BY <2>1, <2>2
  <2>4. saved' = saved
    BY <1>2 DEF Flush
  <2>5. work[s].busy
    BY <1>2 DEF Flush
  <2> QED
    BY <2>3, <2>4, <2>5 DEF Nearer
<1>3. CASE FlushDry(s)
  <2>1. DOMAIN work[s] = {"busy", "page", "pending", "attempt"}
    BY DEF TypeOK
  <2>2. work'[s].busy = work[s].busy /\ work'[s].attempt = work[s].attempt
        /\ work'[s].pending = {}
    BY <1>3, <2>1 DEF FlushDry
  <2> QED
    BY <1>3, <2>2 DEF FlushDry, Nearer
<1>4. CASE SavePage(s)
  BY <1>4 DEF SavePage, Nearer
<1> QED
  BY <1>1, <1>2, <1>3, <1>4 DEF Work

\* A segment that works gets nearer to its end, and while a run is on no step of
\* anyone takes back a saved page: what bounds a run, for any pages and attempts.
THEOREM NoSegmentStandsStill == Spec => SegmentsAdvance
<1>1. IInv /\ [Next]_vars =>
        [\A s \in Segments :
           /\ Work(s) => Nearer(s)
           /\ run.on => saved'[s] >= saved[s]]_vars
  <2> SUFFICES ASSUME IInv, Next, NEW s \in Segments
               PROVE  /\ Work(s) => Nearer(s)
                      /\ run.on => saved'[s] >= saved[s]
    OBVIOUS
  <2>1. Work(s) => Nearer(s)
    BY WorkGetsNearer DEF IInv
  <2>2. saved \in [Segments -> Nat]
    BY MirrorAssumption DEF IInv, TypeOK
  <2>3. CASE saved' = saved
    BY <2>1, <2>2, <2>3
  <2>4. CASE \E t \in Segments : SavePage(t)
    <3>1. PICK t \in Segments : saved' = [saved EXCEPT ![t] = @ + 1]
      BY <2>4 DEF SavePage
    <3> QED
      BY <2>1, <2>2, <3>1
  <2>5. CASE DeleteState
    BY <2>1, <2>5 DEF DeleteState
  <2>6. saved' = saved \/ (\E t \in Segments : SavePage(t)) \/ DeleteState
    BY DEF Next, Consume, IndexDeclaration, MirrorPut, Redact, RedactOne, RedactMany,
           MirrorRedaction, RedactDies, Backfill, StartRun, Work, ScanPage, Flush,
           FlushDry, RunEnds, RunDies, backfillVars
  <2> QED
    BY <2>3, <2>4, <2>5, <2>6
<1> QED
  BY <1>1, Invariance, PTL DEF Spec, SegmentsAdvance

=============================================================================
