------------------------------ MODULE IrohMirror ------------------------------
(***************************************************************************)
(* The mirror of declarations and redactions in the iroh registry: the put *)
(* event of the indexer (indexingUtils.ts), the redact endpoint (redact.ts *)
(* and tableRedactedUtil.ts), the producer of the registry's stream        *)
(* (irohRegistryUtil.ts) and the backfill script with its resumable        *)
(* checkpoint (backfillIrohRegistry.ts).                                   *)
(*                                                                         *)
(* The stream and the registry that consumes it are external.  Events of   *)
(* one identifier share a partition key and so stay in order; nothing is   *)
(* said of the order of events of different identifiers.                   *)
(***************************************************************************)
EXTENDS Naturals, Sequences, FiniteSets

CONSTANTS
  Ids,          \* identifiers of declarations
  Legacy,       \* those in IdentifiersOfDeclaration before the mirror existed
  Excluded,     \* not after --min-timestamp, or without an object in S3
  Segments,     \* parallel scan segments of the backfill
  Pages,        \* pages in each segment
  PageOf,       \* the segment and page an identifier is scanned in
  Requests,     \* calls of the redact endpoint
  Scope,        \* the identifiers of a request
  IsRedacted,   \* its flag: redact or un-redact
  Modes,        \* the values of --dry-run
  MaxAttempts,  \* RETRY_ATTEMPTS
  MaxRuns       \* a bound on the runs of the script

ASSUME MirrorAssumption ==
  /\ Legacy \subseteq Ids
  /\ Pages \in Nat \ {0}
  /\ PageOf \in [Ids -> Segments \X (1 .. Pages)]
  /\ \A q \in Requests : Scope[q] \subseteq Ids /\ IsRedacted[q] \in BOOLEAN
  /\ Modes \subseteq BOOLEAN
  /\ MaxAttempts \in Nat \ {0}
  /\ MaxRuns \in Nat

VARIABLES
  table,        \* IdentifiersOfDeclaration
  live,         \* identifiers just written, whose put event is still to be sent
  redacted,     \* Redacted: the identifiers whose flag is 1
  stream,       \* events of an identifier that the registry has not consumed
  present,      \* registry: identifiers it holds a record of
  denied,       \* registry: identifiers on its denylist
  reqPc,        \* where a redact call stands
  toMirror,     \* the identifiers it mirrors
  run,          \* the run of the script under way: see NoRun
  runs,         \* runs started so far
  work,         \* the page a segment is working on: see Idle
  saved,        \* the state file: pages done in each segment
  stats,        \* the state file: identifiers counted as skipped and as failed
  disturbed,    \* history: identifiers of whose redaction something was lost,
                \* interrupted or overtaken
  rehearsed     \* history: identifiers a dry run counted as sent

tableVars    == <<table, live>>
registryVars == <<present, denied>>
redactVars   == <<redacted, reqPc, toMirror, disturbed>>
backfillVars == <<run, runs, work, saved, stats, rehearsed>>
vars == <<table, live, redacted, stream, present, denied, reqPc, toMirror, run,
          runs, work, saved, stats, disturbed, rehearsed>>

NoRun == [on |-> FALSE, dry |-> FALSE, skip |-> {}]
Idle  == [busy |-> FALSE, page |-> {}, pending |-> {}, attempt |-> 0]

TypeOK ==
  /\ table \subseteq Ids /\ live \subseteq table
  /\ redacted \subseteq Ids
  /\ stream \in [Ids -> Seq({"put", "redact", "unredact"})]
  /\ present \subseteq table /\ denied \subseteq Ids
  /\ reqPc \in [Requests -> {"new", "mirror", "answered", "dead"}]
  /\ toMirror \in [Requests -> SUBSET Ids]
  /\ run \in [on : BOOLEAN, dry : BOOLEAN, skip : SUBSET Ids]
  /\ runs \in 0 .. MaxRuns
  /\ work \in [Segments -> [busy : BOOLEAN, page : SUBSET Ids,
                            pending : SUBSET Ids, attempt : 0 .. MaxAttempts]]
  /\ saved \in [Segments -> 0 .. Pages]
  /\ stats \in [skipped : SUBSET Ids, failed : SUBSET Ids]
  /\ disturbed \subseteq Ids /\ rehearsed \subseteq Ids

Init ==
  /\ table = Legacy
  /\ live = {}
  /\ redacted = {}
  /\ stream = [k \in Ids |-> << >>]
  /\ present = {}
  /\ denied = {}
  /\ reqPc = [q \in Requests |-> "new"]
  /\ toMirror = [q \in Requests |-> {}]
  /\ run = NoRun
  /\ runs = 0
  /\ work = [s \in Segments |-> Idle]
  /\ saved = [s \in Segments |-> 0]
  /\ stats = [skipped |-> {}, failed |-> {}]
  /\ disturbed = {}
  /\ rehearsed = {}

-----------------------------------------------------------------------------
(***************************************************************************)
(* The stream and the registry                                             *)
(***************************************************************************)

\* Faulty: events are keyed by something else, and a later one may overtake.
Queued_Unkeyed(K, action) ==
  [k \in Ids |-> IF k \in K THEN <<action>> \o stream[k] ELSE stream[k]]
\* An event of each identifier in K is put on the stream, keyed by identifier.
Queued(K, action) ==
  [k \in Ids |-> IF k \in K THEN Append(stream[k], action) ELSE stream[k]]

\* The registry takes an event: a put of a record it holds is a duplicate, a
\* redaction denylists the record, an un-redaction publishes it again.
Consume(k) ==
  /\ stream[k] # << >>
  /\ stream' = [stream EXCEPT ![k] = Tail(@)]
  /\ present' = IF Head(stream[k]) = "put" THEN present \cup {k} ELSE present
  /\ denied' = CASE Head(stream[k]) = "redact" -> denied \cup {k}
                 [] Head(stream[k]) = "unredact" -> denied \ {k}
                 [] OTHER -> denied
  /\ UNCHANGED <<tableVars, redactVars, backfillVars>>

Visible(k) == k \in present /\ k \notin denied

-----------------------------------------------------------------------------
(***************************************************************************)
(* The indexer                                                             *)
(***************************************************************************)

\* writeDecIdMappingToDB, for a new declaration.
IndexDeclaration(k) ==
  /\ k \notin table
  /\ table' = table \cup {k}
  /\ live' = live \cup {k}
  /\ UNCHANGED <<stream, registryVars, redactVars, backfillVars>>

\* putToIrohRegistry: an error is caught, and a crash loses the event as well.
MirrorPut(k) ==
  /\ k \in live
  /\ live' = live \ {k}
  /\ stream' \in {stream, Queued({k}, "put")}
  /\ UNCHANGED <<table, registryVars, redactVars, backfillVars>>

-----------------------------------------------------------------------------
(***************************************************************************)
(* The redact endpoint                                                     *)
(***************************************************************************)

Action(q) == IF IsRedacted[q] THEN "redact" ELSE "unredact"
Marked(K, q) == IF IsRedacted[q] THEN redacted \cup K ELSE redacted \ K

\* Identifiers of q that another call has written and not yet mirrored.
Contended(q) ==
  UNION {toMirror[p] : p \in {p \in Requests \ {q} : reqPc[p] = "mirror"}}

\* writeRedactedMappingToDB swallows an error: the identifier is mirrored even
\* if its row was not written.
RedactOne(q) ==
  /\ reqPc[q] = "new"
  /\ Cardinality(Scope[q]) = 1
  /\ \E landed \in SUBSET Scope[q] :
       /\ redacted' = Marked(landed, q)
       /\ disturbed' = disturbed \cup (Scope[q] \ landed)
                                 \cup (Scope[q] \cap Contended(q))
  /\ toMirror' = [toMirror EXCEPT ![q] = Scope[q]]
  /\ reqPc' = [reqPc EXCEPT ![q] = "mirror"]
  /\ UNCHANGED <<tableVars, stream, registryVars, backfillVars>>

\* Faulty: the unprocessed items of the batch are mirrored as well.
RedactMany_AllMirrored(q) ==
  /\ reqPc[q] = "new"
  /\ Cardinality(Scope[q]) > 1
  /\ \E landed \in SUBSET Scope[q] :
       \E success \in SUBSET landed :
         /\ redacted' = Marked(landed, q)
         /\ toMirror' = [toMirror EXCEPT ![q] = Scope[q]]
         /\ disturbed' = disturbed \cup (landed \ success)
                                   \cup (landed \cap Contended(q))
  /\ reqPc' = [reqPc EXCEPT ![q] = "mirror"]
  /\ UNCHANGED <<tableVars, stream, registryVars, backfillVars>>
\* writeRedactedMappingsToDB: unprocessed items and the items of a batch whose
\* call failed are reported as failed, and are not mirrored.
RedactMany(q) ==
  /\ reqPc[q] = "new"
  /\ Cardinality(Scope[q]) > 1
  /\ \E landed \in SUBSET Scope[q] :
       \E success \in SUBSET landed :
         /\ redacted' = Marked(landed, q)
         /\ toMirror' = [toMirror EXCEPT ![q] = success]
         /\ disturbed' = disturbed \cup (landed \ success)
                                   \cup (landed \cap Contended(q))
  /\ reqPc' = [reqPc EXCEPT ![q] = "mirror"]
  /\ UNCHANGED <<tableVars, stream, registryVars, backfillVars>>

\* sendIrohRegistryRedactions: events may fail one by one; nothing is retried.
MirrorRedaction(q) ==
  /\ reqPc[q] = "mirror"
  /\ \E landed \in SUBSET toMirror[q] :
       /\ stream' = Queued(landed, Action(q))
       /\ disturbed' = disturbed \cup (toMirror[q] \ landed)
  /\ reqPc' = [reqPc EXCEPT ![q] = "answered"]
  /\ UNCHANGED <<tableVars, redacted, toMirror, registryVars, backfillVars>>

RedactDies(q) ==
  /\ reqPc[q] = "mirror"
  /\ reqPc' = [reqPc EXCEPT ![q] = "dead"]
  /\ disturbed' = disturbed \cup toMirror[q]
  /\ UNCHANGED <<tableVars, redacted, toMirror, stream, registryVars, backfillVars>>

Redact(q) == RedactOne(q) \/ RedactMany(q) \/ MirrorRedaction(q) \/ RedactDies(q)

-----------------------------------------------------------------------------
(***************************************************************************)
(* The backfill script                                                     *)
(***************************************************************************)

Complete == \A s \in Segments : saved[s] = Pages

\* loadState and loadRedactedSet: the run resumes from the state file and skips
\* what is redacted now.
StartRun ==
  /\ ~ run.on
  /\ runs < MaxRuns
  /\ runs' = runs + 1
  /\ \E dry \in Modes : run' = [on |-> TRUE, dry |-> dry, skip |-> redacted]
  /\ UNCHANGED <<tableVars, stream, registryVars, redactVars, work, saved, stats,
                 rehearsed>>

\* Faulty: the end of the segment is not noticed.
ScanPage_PastEnd(s) ==
  /\ run.on
  /\ ~ work[s].busy
  /\ LET page == {k \in table : PageOf[k] = <<s, saved[s] + 1>>} IN
       work' = [work EXCEPT ![s] =
                  [busy |-> TRUE, page |-> page,
                   pending |-> (page \ run.skip) \ Excluded, attempt |-> 0]]
  /\ UNCHANGED <<tableVars, stream, registryVars, redactVars, run, runs, saved,
                 stats, rehearsed>>
\* The next page of a segment is scanned, filtered and read from S3.
ScanPage(s) ==
  /\ run.on
  /\ ~ work[s].busy
  /\ saved[s] < Pages
  /\ LET page == {k \in table : PageOf[k] = <<s, saved[s] + 1>>} IN
       work' = [work EXCEPT ![s] =
                  [busy |-> TRUE, page |-> page,
                   pending |-> (page \ run.skip) \ Excluded, attempt |-> 0]]
  /\ UNCHANGED <<tableVars, stream, registryVars, redactVars, run, runs, saved,
                 stats, rehearsed>>

\* Faulty: the attempts are not counted.
Flush_Endless(s) ==
  /\ run.on /\ work[s].busy /\ ~ run.dry
  /\ work[s].pending # {}
  /\ \E landed \in SUBSET work[s].pending :
       /\ stream' = Queued(landed, "put")
       /\ \E failed \in SUBSET work[s].pending :
            /\ work[s].pending \ landed \subseteq failed
            /\ work' = [work EXCEPT ![s].pending = failed]
  /\ UNCHANGED <<tableVars, registryVars, redactVars, run, runs, saved, stats,
                 rehearsed>>
\* One attempt of flush: what failed, or may have, is sent again.
Flush(s) ==
  /\ run.on /\ work[s].busy /\ ~ run.dry
  /\ work[s].pending # {}
  /\ work[s].attempt < MaxAttempts
  /\ \E landed \in SUBSET work[s].pending :
       /\ stream' = Queued(landed, "put")
       /\ \E failed \in SUBSET work[s].pending :
            /\ work[s].pending \ landed \subseteq failed
            /\ work' = [work EXCEPT ![s].pending = failed, ![s].attempt = @ + 1]
  /\ UNCHANGED <<tableVars, registryVars, redactVars, run, runs, saved, stats,
                 rehearsed>>

\* The flush of a dry run counts its events as sent.
FlushDry(s) ==
  /\ run.on /\ work[s].busy /\ run.dry
  /\ work[s].pending # {}
  /\ rehearsed' = rehearsed \cup work[s].pending
  /\ work' = [work EXCEPT ![s].pending = {}]
  /\ UNCHANGED <<tableVars, stream, registryVars, redactVars, run, runs, saved,
                 stats>>

\* Faulty: the page is checkpointed while its events are still being sent.
SavePage_Early(s) ==
  /\ run.on /\ work[s].busy
  /\ saved' = [saved EXCEPT ![s] = @ + 1]
  /\ stats' = [skipped |-> stats.skipped \cup (work[s].page \cap run.skip),
               failed |-> stats.failed]
  /\ work' = [work EXCEPT ![s] = Idle]
  /\ UNCHANGED <<tableVars, stream, registryVars, redactVars, run, runs, rehearsed>>
\* flush has sent everything or given up; the page is written to the state file.
SavePage(s) ==
  /\ run.on /\ work[s].busy
  /\ work[s].pending = {} \/ work[s].attempt = MaxAttempts
  /\ saved' = [saved EXCEPT ![s] = @ + 1]
  /\ stats' = [skipped |-> stats.skipped \cup (work[s].page \cap run.skip),
               failed |-> stats.failed \cup work[s].pending]
  /\ work' = [work EXCEPT ![s] = Idle]
  /\ UNCHANGED <<tableVars, stream, registryVars, redactVars, run, runs, rehearsed>>

RunEnds ==
  /\ run.on
  /\ Complete
  /\ run' = NoRun
  /\ UNCHANGED <<tableVars, stream, registryVars, redactVars, runs, work, saved,
                 stats, rehearsed>>

\* An error that outlives its retries, --limit, or the operator stops the run.
RunDies ==
  /\ run.on
  /\ run' = NoRun
  /\ work' = [s \in Segments |-> Idle]
  /\ UNCHANGED <<tableVars, stream, registryVars, redactVars, runs, saved, stats,
                 rehearsed>>

\* The operator deletes the state file of a complete run.
DeleteState ==
  /\ ~ run.on
  /\ Complete
  /\ runs < MaxRuns
  /\ saved' = [s \in Segments |-> 0]
  /\ stats' = [skipped |-> {}, failed |-> {}]
  /\ rehearsed' = {}
  /\ UNCHANGED <<tableVars, stream, registryVars, redactVars, run, runs, work>>

Work(s) == ScanPage(s) \/ Flush(s) \/ FlushDry(s) \/ SavePage(s)

Backfill ==
  \/ StartRun
  \/ \E s \in Segments : Work(s)
  \/ RunEnds
  \/ RunDies
  \/ DeleteState

-----------------------------------------------------------------------------
Next ==
  \/ \E k \in Ids : Consume(k) \/ IndexDeclaration(k) \/ MirrorPut(k)
  \/ \E q \in Requests : Redact(q)
  \/ Backfill

Spec == Init /\ [][Next]_vars

\* The registry consumes its stream; a Lambda that is called ends or dies; the
\* segments of a run make progress.  Nothing says that a run is started.
Fairness ==
  /\ \A k \in Ids : WF_vars(Consume(k)) /\ WF_vars(MirrorPut(k))
  /\ \A q \in Requests : WF_vars(MirrorRedaction(q) \/ RedactDies(q))
  /\ \A s \in Segments : WF_vars(Work(s))
  /\ WF_vars(RunEnds)

FairSpec == Spec /\ Fairness

-----------------------------------------------------------------------------
(***************************************************************************)
(* Properties                                                              *)
(***************************************************************************)

\* The script may be killed and resumed at any point, while declarations and
\* redactions go on: when its state file says that all is done, every
\* declaration of old is in the registry or on its way there, except those the
\* file counts as skipped or failed and those a dry run has counted as sent.
BackfillMissesNothing ==
  Complete =>
    \A k \in Legacy \ Excluded :
      \/ k \in present \/ \E i \in DOMAIN stream[k] : stream[k][i] = "put"
      \/ k \in stats.skipped \cup stats.failed \cup rehearsed

\* The denylist of the registry follows the Redacted table: when all calls are
\* answered and all events consumed, they agree on every identifier, unless a
\* write or an event of it was lost, or two calls were under way at once.
\* Unprocessed items of a batch are no exception.
DenylistFollowsTable ==
  (\A q \in Requests : reqPc[q] # "mirror") =>
    \A k \in Ids \ disturbed :
      stream[k] = << >> => (k \in denied <=> k \in redacted)

\* A redaction reaches the registry, past all puts of the indexer and of the
\* backfill that are queued before it, unless something of it was lost or the
\* identifier is un-redacted.
RedactionsArrive ==
  \A k \in Ids : k \in redacted ~> k \in denied \/ k \in disturbed \/ k \notin redacted

\* A segment that works comes nearer to the end of its pages: it saves one, takes up
\* the next, uses up an attempt or has nothing left to send.
Nearer(s) ==
  \/ saved'[s] > saved[s]
  \/ /\ saved'[s] = saved[s] /\ work'[s].busy
     /\ \/ ~ work[s].busy
        \/ work'[s].attempt > work[s].attempt
        \/ /\ work'[s].attempt = work[s].attempt
           /\ work[s].pending # {} /\ work'[s].pending = {}

\* No segment works without getting nearer, whatever lands, fails or is sent twice,
\* and no run or death of a run takes back a page that the state file has.
SegmentsAdvance ==
  [][\A s \in Segments :
       /\ Work(s) => Nearer(s)
       /\ run.on => saved'[s] >= saved[s]]_vars

\* Segments retry, fail and go on: a run ends, it never hangs on a page.
RunsEnd == run.on ~> ~ run.on

-----------------------------------------------------------------------------
(***************************************************************************)
(* Why the first two hold                                                  *)
(***************************************************************************)

Queues(k, action) == \E i \in DOMAIN stream[k] : stream[k][i] = action

\* Only what is in the table is scanned and put; redactions come by themselves.
PutsAreOfTheTable ==
  /\ \A k \in Ids : Queues(k, "put") => k \in table
  /\ Legacy \subseteq table
  /\ \A s \in Segments : work[s].page \subseteq table /\ work[s].pending \subseteq table

\* What is certain of an old declaration once its page is saved.
Accounted(k) ==
  \/ k \in present \/ Queues(k, "put")
  \/ k \in stats.skipped \cup stats.failed \cup rehearsed

\* The pages up to the saved one are accounted for.  On the page that a segment
\* is working on, what is not pending is sent, skipped or rehearsed.
PagesAreAccounted ==
  \A k \in Legacy \ Excluded : \A s \in Segments : \A p \in 1 .. Pages :
    PageOf[k] = <<s, p>> =>
      /\ p <= saved[s] => Accounted(k)
      /\ work[s].busy /\ p = saved[s] + 1 =>
           /\ k \in work[s].page
           /\ k \in work[s].pending \cup run.skip \/ Accounted(k)

WorkIsUnderWay ==
  \A s \in Segments : work[s].busy => run.on /\ saved[s] < Pages

\* What the denylist will say of k when the queued events are consumed: what the
\* last of its redaction events says, or what it says now if there is none.
WillBeDenied(k, flag) ==
  LET s == stream[k] IN
    \/ \E i \in DOMAIN s :
         /\ s[i] = IF flag THEN "redact" ELSE "unredact"
         /\ \A j \in DOMAIN s : j > i => s[j] = "put"
    \/ (\A i \in DOMAIN s : s[i] = "put") /\ (k \in denied <=> flag)

Mirrors(q, k) == reqPc[q] = "mirror" /\ k \in toMirror[q]

\* Of an undisturbed identifier at most one call has still to send its event, and
\* the table is as that call has left it.
OneMirrorsAtATime ==
  \A k \in Ids \ disturbed :
    /\ \A p, q \in Requests : Mirrors(p, k) /\ Mirrors(q, k) => p = q
    /\ \A q \in Requests : Mirrors(q, k) => (k \in redacted <=> IsRedacted[q])
    /\ (\A q \in Requests : ~ Mirrors(q, k)) => WillBeDenied(k, k \in redacted)

IInv ==
  /\ TypeOK
  /\ PutsAreOfTheTable
  /\ WorkIsUnderWay
  /\ PagesAreAccounted
  /\ OneMirrorsAtATime

=============================================================================
