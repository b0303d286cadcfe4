------------------------- MODULE DeclarationPipeline -------------------------
(***************************************************************************)
(* The critical path of the registry: the ingest Lambda (ingest.ts), the   *)
(* declaration stream, the declarationProcessor Lambda with the indexing   *)
(* pipeline it calls (indexingUtils.ts), the DeclarationStatus table and   *)
(* the cron that sweeps stale pending rows.                                *)
(*                                                                         *)
(* A declaration is known by its identifier, a hash of its public          *)
(* metadata: submitting the same metadata twice gives the same identifier. *)
(* A request is one POST /api/v1/ingest; it puts at most one record on the *)
(* stream, so a record is named by its request.  Every remote write is a   *)
(* step of its own, may be lost, and may land without the caller learning  *)
(* of it.  Any Lambda may die between two steps.                           *)
(***************************************************************************)
EXTENDS Naturals

CONSTANTS
  Requests,       \* calls of the ingest endpoint
  Declarations,   \* identifiers (CIDs of public metadata)
  Declarers,      \* declarer ids
  DeclarationOf,  \* the declaration a request submits
  Declarer,       \* publicMetadata.declarerId
  Supersedes,     \* publicMetadata.supersedes, or None
  MaxDeliveries,  \* the most deliveries of a record: MostCalls of StreamConsumer
  None

ASSUME PipelineAssumption ==
  /\ None \notin Declarations
  /\ DeclarationOf \in [Requests -> Declarations]
  /\ Declarer \in [Declarations -> Declarers]
  /\ Supersedes \in [Declarations -> Declarations \cup {None}]
  /\ MaxDeliveries \in Nat \ {0}

VARIABLES
  reqPc,          \* where the ingest call of a request stands
  tracked,        \* its local statusCreated
  recPc,          \* where the stream record of a request stands
  tries,          \* deliveries of that record so far
  status,         \* DeclarationStatus
  age,            \* how old a declaration and its status row are: see Ages
  store,          \* S3: declarations whose JSON is stored
  indexEvents,    \* item ids emitted to the search index stream
  itemMap,        \* vectorToDataMap: item ids mapped to a declaration
  identifiers,    \* IdentifiersOfDeclaration
  supersededBy,   \* SupersededDeclarations
  sweep           \* rows a sweeper has scanned and not yet marked

requestVars == <<reqPc, tracked>>
recordVars  == <<recPc, tries>>
statusVars  == <<status, age>>
dataVars    == <<store, indexEvents, itemMap, identifiers, supersededBy>>
vars == <<reqPc, tracked, recPc, tries, status, age, store, indexEvents,
          itemMap, identifiers, supersededBy, sweep>>

InFlight == {"pending", "send", "fallback"}
RequestStates == {"new", "refused", "accepted", "error", "dead"} \cup InFlight

Processing == {"emit", "save", "map", "identify", "confirm", "supersede", "fail"}
RecordStates == {"none", "queued", "done", "dropped"} \cup Processing

\* A declaration with a timestamp is fresh, then closed to submissions, then its
\* row is overdue.  One whose timestamp is 0 has no such age: it is open, and
\* stale while its row is overdue, until the row is put anew.
Ages == {"fresh", "closed", "overdue", "open", "stale"}
Undated(d) == age[d] \in {"open", "stale"}

\* randomUUID mints a fresh item id in every attempt: the id is the attempt.
Items == Requests \X (1 .. MaxDeliveries)
Item(r) == <<r, tries[r]>>

\* A remote write lands or not, and succeeds for its caller only if it lands.
WriteOutcomes == {o \in [landed : BOOLEAN, ok : BOOLEAN] : o.ok => o.landed}
Put(table, row, o) == IF o.landed THEN table \cup {row} ELSE table

\* Faulty: an error of a hard step is swallowed.
Hard_Swallowed(o, next) == next
\* Where a record goes after a hard step: any error ends in the catch block.
Hard(o, next) == IF o.ok THEN next ELSE "fail"

TypeOK ==
  /\ reqPc \in [Requests -> RequestStates]
  /\ tracked \in [Requests -> BOOLEAN]
  /\ recPc \in [Requests -> RecordStates]
  /\ tries \in [Requests -> 0 .. MaxDeliveries]
  /\ status \in [Declarations -> {"absent", "pending", "success", "failed"}]
  /\ age \in [Declarations -> Ages]
  /\ store \subseteq Declarations
  /\ indexEvents \subseteq Items
  /\ itemMap \subseteq Items
  /\ identifiers \subseteq Declarations
  /\ supersededBy \in [Declarations -> Declarations \cup {None}]
  /\ sweep \subseteq Declarations

Init ==
  /\ reqPc = [r \in Requests |-> "new"]
  /\ tracked = [r \in Requests |-> FALSE]
  /\ recPc = [r \in Requests |-> "none"]
  /\ tries = [r \in Requests |-> 0]
  /\ status = [d \in Declarations |-> "absent"]
  /\ age \in [Declarations -> {"fresh", "open"}]
  /\ store = {}
  /\ indexEvents = {}
  /\ itemMap = {}
  /\ identifiers = {}
  /\ supersededBy = [d \in Declarations |-> None]
  /\ sweep = {}

-----------------------------------------------------------------------------
(***************************************************************************)
(* ingest.ts                                                               *)
(***************************************************************************)

\* Faulty: any declarer may supersede.
SupersedesValid_AnyDeclarer(d) ==
  Supersedes[d] # None =>
    /\ Supersedes[d] \in identifiers
    /\ supersededBy[Supersedes[d]] = None
\* Faulty: the target is not looked up.
SupersedesValid_NotLookedUp(d) ==
  Supersedes[d] # None =>
    /\ Declarer[Supersedes[d]] = Declarer[d]
    /\ supersededBy[Supersedes[d]] = None
\* validateSupersedes: the target exists, belongs to the same declarer and has
\* not been superseded.  The two reads are one step: rows of both tables are
\* never deleted and an identifier's content never changes.
SupersedesValid(d) ==
  Supersedes[d] # None =>
    /\ Supersedes[d] \in identifiers
    /\ Declarer[Supersedes[d]] = Declarer[d]
    /\ supersededBy[Supersedes[d]] = None

\* Faulty: the timestamp is not checked.
TimestampInWindow_Unchecked(d) == TRUE
\* The declaration's timestamp is within 60 s of the server's clock.  A timestamp
\* of 0 is not compared with it: such a declaration is accepted at any time.
TimestampInWindow(d) == age[d] = "fresh" \/ Undated(d)

\* All checks pass.  The checks on the payload alone are in another module.
Validate(r) ==
  /\ reqPc[r] = "new"
  /\ TimestampInWindow(DeclarationOf[r])
  /\ SupersedesValid(DeclarationOf[r])
  /\ reqPc' = [reqPc EXCEPT ![r] = "pending"]
  /\ UNCHANGED <<tracked, recordVars, statusVars, dataVars, sweep>>

\* Some check fails (4xx) or cannot be made (5xx).
Refuse(r) ==
  /\ reqPc[r] = "new"
  /\ reqPc' = [reqPc EXCEPT ![r] = "refused"]
  /\ UNCHANGED <<tracked, recordVars, statusVars, dataVars, sweep>>

\* createPendingDeclarationStatus is an unconditional put of the whole row, with
\* its createdAt: a stale row is a new one again.
PutPending(d, o) ==
  /\ status' = IF o.landed THEN [status EXCEPT ![d] = "pending"] ELSE status
  /\ age' = IF o.landed /\ age[d] = "stale" THEN [age EXCEPT ![d] = "open"] ELSE age

\* Faulty: the row is taken for created although the write failed.
CreatePending_Assumed(r) ==
  /\ reqPc[r] = "pending"
  /\ \E o \in WriteOutcomes : PutPending(DeclarationOf[r], o)
  /\ tracked' = [tracked EXCEPT ![r] = TRUE]
  /\ reqPc' = [reqPc EXCEPT ![r] = "send"]
  /\ UNCHANGED <<recordVars, dataVars, sweep>>
\* The first attempt, before the record is sent: an error is only remembered.
CreatePending(r) ==
  /\ reqPc[r] = "pending"
  /\ \E o \in WriteOutcomes :
       /\ PutPending(DeclarationOf[r], o)
       /\ tracked' = [tracked EXCEPT ![r] = o.ok]
  /\ reqPc' = [reqPc EXCEPT ![r] = "send"]
  /\ UNCHANGED <<recordVars, dataVars, sweep>>

\* sendRecord: an error is answered with 500, and the pending row is left.
SendRecord(r) ==
  /\ reqPc[r] = "send"
  /\ \E o \in WriteOutcomes :
       /\ recPc' = IF o.landed THEN [recPc EXCEPT ![r] = "queued"] ELSE recPc
       /\ reqPc' = [reqPc EXCEPT ![r] = IF ~ o.ok THEN "error"
                                        ELSE IF tracked[r] THEN "accepted"
                                        ELSE "fallback"]
  /\ UNCHANGED <<tracked, tries, statusVars, dataVars, sweep>>

\* The second attempt to create the pending row, after the record is sent.
CreatePendingAfterSend(r) ==
  /\ reqPc[r] = "fallback"
  /\ \E o \in WriteOutcomes :
       /\ PutPending(DeclarationOf[r], o)
       /\ tracked' = [tracked EXCEPT ![r] = o.ok]
  /\ reqPc' = [reqPc EXCEPT ![r] = "accepted"]
  /\ UNCHANGED <<recordVars, dataVars, sweep>>

IngestDies(r) ==
  /\ reqPc[r] \in InFlight
  /\ reqPc' = [reqPc EXCEPT ![r] = "dead"]
  /\ UNCHANGED <<tracked, recordVars, statusVars, dataVars, sweep>>

Ingest(r) ==
  \/ Validate(r)
  \/ Refuse(r)
  \/ CreatePending(r)
  \/ SendRecord(r)
  \/ CreatePendingAfterSend(r)
  \/ IngestDies(r)

-----------------------------------------------------------------------------
(***************************************************************************)
(* The event source of the declaration stream.  Records of different       *)
(* requests have different partition keys (the random rayId), so they are  *)
(* processed in parallel and in any order.  StreamConsumer has the batches *)
(* they come in; DeliveryContract is what both views have in common.       *)
(***************************************************************************)

\* A delivery of the record, the first one or a repeated one.
Deliver(r) ==
  /\ recPc[r] = "queued"
  /\ tries' = [tries EXCEPT ![r] = @ + 1]
  /\ recPc' = [recPc EXCEPT ![r] = "emit"]
  /\ UNCHANGED <<requestVars, statusVars, dataVars, sweep>>

\* Faulty: retries are never used up.
AfterFailure_Endless(r) == "queued"
\* A failed delivery is repeated until the retries are used up; there is no
\* dead-letter queue.
AfterFailure(r) == IF tries[r] < MaxDeliveries THEN "queued" ELSE "dropped"

\* The invocation dies (timeout, out of memory) at any point.
ProcessorDies(r) ==
  /\ recPc[r] \in Processing
  /\ recPc' = [recPc EXCEPT ![r] = AfterFailure(r)]
  /\ UNCHANGED <<requestVars, tries, statusVars, dataVars, sweep>>

\* A processed record is delivered again when an earlier record of its batch
\* failed or the invocation died on a later one.
Redeliver(r) ==
  /\ recPc[r] = "done"
  /\ tries[r] < MaxDeliveries
  /\ recPc' = [recPc EXCEPT ![r] = "queued"]
  /\ UNCHANGED <<requestVars, tries, statusVars, dataVars, sweep>>

-----------------------------------------------------------------------------
(***************************************************************************)
(* processSingleRecordFromIterator and processIsccStringRaw                *)
(***************************************************************************)

\* sendToSearchIndexStream; an error fails the record.
EmitIndexEvent(r) ==
  /\ recPc[r] = "emit"
  /\ \E o \in WriteOutcomes :
       /\ indexEvents' = Put(indexEvents, Item(r), o)
       /\ recPc' = [recPc EXCEPT ![r] = Hard(o, "save")]
  /\ UNCHANGED <<requestVars, tries, statusVars, store, itemMap, identifiers,
                 supersededBy, sweep>>

\* saveJsonToS3, under a path made of the identifier; an error fails the record.
SaveToS3(r) ==
  /\ recPc[r] = "save"
  /\ \E o \in WriteOutcomes :
       /\ store' = Put(store, DeclarationOf[r], o)
       /\ recPc' = [recPc EXCEPT ![r] = Hard(o, "map")]
  /\ UNCHANGED <<requestVars, tries, statusVars, indexEvents, itemMap,
                 identifiers, supersededBy, sweep>>

\* writeVectorMappingToDB; an error fails the record.
WriteItemMapping(r) ==
  /\ recPc[r] = "map"
  /\ \E o \in WriteOutcomes :
       /\ itemMap' = Put(itemMap, Item(r), o)
       /\ recPc' = [recPc EXCEPT ![r] = Hard(o, "identify")]
  /\ UNCHANGED <<requestVars, tries, statusVars, store, indexEvents,
                 identifiers, supersededBy, sweep>>

\* writeDecIdMappingToDB catches its own error: the record goes on either way.
\* The best-effort mirrors that follow write to none of these tables.
WriteIdentifier(r) ==
  /\ recPc[r] = "identify"
  /\ \E o \in WriteOutcomes :
       identifiers' = Put(identifiers, DeclarationOf[r], o)
  /\ recPc' = [recPc EXCEPT ![r] = "confirm"]
  /\ UNCHANGED <<requestVars, tries, statusVars, store, indexEvents, itemMap,
                 supersededBy, sweep>>

\* updateStatusWithRetry(success): all its attempts are one outcome.  When it
\* throws, the catch block of the record runs.
ConfirmSuccess(r) ==
  /\ recPc[r] = "confirm"
  /\ \E o \in WriteOutcomes :
       /\ status' = IF o.landed
                    THEN [status EXCEPT ![DeclarationOf[r]] = "success"]
                    ELSE status
       /\ recPc' = [recPc EXCEPT ![r] =
              Hard(o, IF Supersedes[DeclarationOf[r]] # None
                      THEN "supersede" ELSE "done")]
  /\ UNCHANGED <<requestVars, tries, age, dataVars, sweep>>

\* markAsSuperseded, an unconditional put; an error is caught and reported.
MarkSuperseded(r) ==
  /\ recPc[r] = "supersede"
  /\ \E o \in WriteOutcomes :
       supersededBy' =
         IF o.landed
         THEN [supersededBy EXCEPT ![Supersedes[DeclarationOf[r]]] = DeclarationOf[r]]
         ELSE supersededBy
  /\ recPc' = [recPc EXCEPT ![r] = "done"]
  /\ UNCHANGED <<requestVars, tries, statusVars, store, indexEvents, itemMap,
                 identifiers, sweep>>

\* The catch block: updateStatusWithRetry(failed), and an error either way, so
\* that the handler reports the record in batchItemFailures.
MarkFailed(r) ==
  /\ recPc[r] = "fail"
  /\ \E o \in WriteOutcomes :
       status' = IF o.landed
                 THEN [status EXCEPT ![DeclarationOf[r]] = "failed"]
                 ELSE status
  /\ recPc' = [recPc EXCEPT ![r] = AfterFailure(r)]
  /\ UNCHANGED <<requestVars, tries, age, dataVars, sweep>>

Process(r) ==
  \/ EmitIndexEvent(r)
  \/ SaveToS3(r)
  \/ WriteItemMapping(r)
  \/ WriteIdentifier(r)
  \/ ConfirmSuccess(r)
  \/ MarkSuperseded(r)
  \/ MarkFailed(r)
  \/ ProcessorDies(r)

-----------------------------------------------------------------------------
(***************************************************************************)
(* The clock and the stale-pending cleanup                                 *)
(***************************************************************************)

\* The declaration's timestamp is now more than 60 s old.
GateCloses(d) ==
  /\ age[d] = "fresh"
  /\ age' = [age EXCEPT ![d] = "closed"]
  /\ UNCHANGED <<requestVars, recordVars, status, dataVars, sweep>>

\* The ingest calls that are under way for a declaration.
Underway(d) == {r \in Requests : DeclarationOf[r] = d /\ reqPc[r] \in InFlight}

\* Its status row is now more than STALE_PENDING_THRESHOLD_MS (1 h) old.  No ingest
\* call lives that long: none is left that passed a gate now closed, and none that
\* put the row; an undated one may be there that has not come to it.
BecomesOverdue(d) ==
  /\ \/ age[d] = "closed" /\ Underway(d) = {}
     \/ age[d] = "open" /\ \A r \in Underway(d) : ~ tracked[r]
  /\ age' = [age EXCEPT ![d] = IF Undated(d) THEN "stale" ELSE "overdue"]
  /\ UNCHANGED <<requestVars, recordVars, status, dataVars, sweep>>

\* Faulty: the age of a row is compared the wrong way round.
StalePending_Inverted ==
  {d \in Declarations : status[d] = "pending" /\ age[d] \notin {"overdue", "stale"}}
StalePending ==
  {d \in Declarations : status[d] = "pending" /\ age[d] \in {"overdue", "stale"}}

\* findStalePendingDeclarations; the cron and the HTTP route may overlap.
ScanStale ==
  /\ ~ (StalePending \subseteq sweep)
  /\ sweep' = sweep \cup StalePending
  /\ UNCHANGED <<requestVars, recordVars, statusVars, dataVars>>

\* Faulty: without the ConditionExpression.
MarkTimedOut_Unconditional(d) ==
  /\ d \in sweep
  /\ \E o \in WriteOutcomes :
       status' = IF o.landed THEN [status EXCEPT ![d] = "failed"] ELSE status
  /\ sweep' = sweep \ {d}
  /\ UNCHANGED <<requestVars, recordVars, age, dataVars>>
\* markDeclarationAsTimedOut: conditional on the row being still pending.
MarkTimedOut(d) ==
  /\ d \in sweep
  /\ \E o \in WriteOutcomes :
       status' = IF o.landed /\ status[d] = "pending"
                 THEN [status EXCEPT ![d] = "failed"]
                 ELSE status
  /\ sweep' = sweep \ {d}
  /\ UNCHANGED <<requestVars, recordVars, age, dataVars>>

SweeperDies ==
  /\ sweep # {}
  /\ sweep' = {}
  /\ UNCHANGED <<requestVars, recordVars, statusVars, dataVars>>

Sweep ==
  \/ ScanStale
  \/ \E d \in Declarations : MarkTimedOut(d)
  \/ SweeperDies

-----------------------------------------------------------------------------
Next ==
  \/ \E r \in Requests : Ingest(r) \/ Deliver(r) \/ Redeliver(r) \/ Process(r)
  \/ \E d \in Declarations : GateCloses(d) \/ BecomesOverdue(d)
  \/ Sweep

Spec == Init /\ [][Next]_vars

-----------------------------------------------------------------------------
(***************************************************************************)
(* Safety                                                                  *)
(***************************************************************************)

\* The declaration that an item id was minted for.
ItemDeclaration(i) == DeclarationOf[i[1]]

\* A declaration that a similarity search can return: some item id of it is
\* indexed, maps to it, and its JSON can be fetched.
Searchable(d) ==
  /\ d \in store
  /\ \E i \in itemMap : ItemDeclaration(i) = d /\ i \in indexEvents

\* A status of "success" is only ever shown for a declaration that is stored,
\* mapped and on the index stream, whatever was lost, repeated or interrupted
\* on the way (declarationProcessor.ts sets it after processIsccStringRaw).
SuccessIsSearchable ==
  \A d \in Declarations : status[d] = "success" => Searchable(d)

\* No table ever points at a declaration that is not in S3, and no item id is
\* mapped that the search service was not told of: a crash between two writes
\* of the indexing pipeline leaves unreferenced data, never a dangling pointer.
PointersResolve ==
  /\ \A i \in itemMap : i \in indexEvents /\ ItemDeclaration(i) \in store
  /\ identifiers \subseteq store

\* A supersedes link joins two declarations of one declarer, the older one
\* registered and the newer one searchable.  The link is written long after
\* ingest.ts validated it, by another Lambda that does not look again.
SupersedeLinksAreSound ==
  \A d \in Declarations : supersededBy[d] # None =>
    /\ Supersedes[supersededBy[d]] = d
    /\ Declarer[supersededBy[d]] = Declarer[d]
    /\ d \in identifiers
    /\ Searchable(supersededBy[d])

\* A client that was told "accepted and pending" finds a status row when it
\* asks: the row is created before the record is sent, never removed, and the
\* answer says "tracking may be delayed" when neither attempt succeeded.
TrackedIsVisible ==
  \A r \in Requests :
    reqPc[r] = "accepted" /\ tracked[r] => status[DeclarationOf[r]] # "absent"

\* Why these hold at every step: what is known of a record at each point of its
\* processing, whatever the other requests, records and the sweeper do.
DeliveriesCounted ==
  \A r \in Requests :
    /\ reqPc[r] \in {"new", "refused", "pending", "send"} => recPc[r] = "none"
    /\ recPc[r] = "none" => tries[r] = 0
    /\ recPc[r] = "queued" => tries[r] < MaxDeliveries
    /\ recPc[r] \in Processing \cup {"done"} => tries[r] > 0

\* What was validated stays true of the tables: rows only ever come.
Admissible(d) ==
  Supersedes[d] # None =>
    Supersedes[d] \in identifiers /\ Declarer[Supersedes[d]] = Declarer[d]

AdmittedOnly ==
  \A r \in Requests : reqPc[r] \notin {"new", "refused"} => Admissible(DeclarationOf[r])

PipelineOrder ==
  \A r \in Requests :
    /\ recPc[r] \in {"save", "map", "identify", "confirm", "supersede"} =>
         Item(r) \in indexEvents
    /\ recPc[r] \in {"map", "identify", "confirm", "supersede"} =>
         DeclarationOf[r] \in store
    /\ recPc[r] \in {"identify", "confirm", "supersede"} => Item(r) \in itemMap
    /\ recPc[r] = "supersede" => Supersedes[DeclarationOf[r]] # None

RegisteredAreSearchable == \A d \in identifiers : Searchable(d)

IInv ==
  /\ TypeOK
  /\ DeliveriesCounted
  /\ AdmittedOnly
  /\ PipelineOrder
  /\ RegisteredAreSearchable
  /\ PointersResolve
  /\ SuccessIsSearchable
  /\ SupersedeLinksAreSound

\* The pipeline implements the contract of the registry: a declaration is
\* published when a search can return it, registered when its identifier is.
Contract == INSTANCE RegistryContract WITH
  published <- {d \in Declarations : Searchable(d)},
  registered <- identifiers

\* Every step of ingest, event source, processor and sweeper is a step of the
\* contract or changes nothing it speaks of.
ImplementsContract == Contract!Spec

\* Where the contract of the event source has a record.  A processed record is in
\* its invocation until the batch is left behind, and may yet be delivered again.
PlaceOf(r) ==
  CASE recPc[r] = "none" -> "ahead"
    [] recPc[r] = "queued" -> "waiting"
    [] recPc[r] = "dropped" -> "dropped"
    [] OTHER -> "invoked"

Delivery == INSTANCE DeliveryContract WITH
  Records <- Requests,
  MaxCalls <- MaxDeliveries,
  place <- [r \in Requests |-> PlaceOf(r)],
  calls <- [r \in Requests |-> IF recPc[r] = "dropped" THEN 0 ELSE tries[r]]

\* The deliveries that the processor lives with are those that the event source may
\* make of a record: StreamConsumer, where they come in batches that are repeated
\* and split, implements the same contract.
ImplementsDelivery == Delivery!Spec

(***************************************************************************)
(* What a step may never do                                                *)
(***************************************************************************)

\* A success is replaced by a failure only by the processor itself, while a
\* delivery of that declaration fails: never by the sweeper, however old the
\* list of stale rows it is working through (markDeclarationAsTimedOut).
SweeperSparesOutcomes ==
  [][\A d \in Declarations :
       status[d] = "success" /\ status'[d] = "failed" =>
         \E r \in Requests : DeclarationOf[r] = d /\ recPc[r] = "fail"]_vars

\* The sweeper fails only declarations that have been pending for the whole
\* threshold, although it marks rows it scanned earlier and a new submission of
\* the same metadata puts a new pending row: the 60 s window of ingest.ts has
\* closed long before a row of the declaration can be stale.  Where ingest.ts has
\* no window, for a timestamp of 0, the sweeper may fail a row that was put anew
\* since it scanned the old one, but none whose declaration it did not scan.
OnlyStaleTimesOut ==
  [][\A d \in Declarations :
       status[d] = "pending" /\ status'[d] = "failed" =>
         \/ \E r \in Requests : DeclarationOf[r] = d /\ recPc[r] = "fail"
         \/ age[d] = "overdue" /\ Underway(d) = {}
         \/ Undated(d) /\ d \in sweep]_vars

(***************************************************************************)
(* Liveness                                                                *)
(***************************************************************************)

\* One attempt of the sweeper to mark a row lands.
TimeOutLands(d) == MarkTimedOut(d) /\ status'[d] # "pending"

\* A Lambda runs to its end or dies; the event source delivers what it holds;
\* the clock advances; the cron fires every 15 minutes and, run after run, gets
\* to every stale row with a write that is not lost.  Nothing says that a
\* client sends a request, that a record is redelivered or a write succeeds.
Fairness ==
  /\ \A r \in Requests :
       /\ WF_vars(Ingest(r) /\ reqPc[r] # "new")
       /\ WF_vars(Deliver(r))
       /\ WF_vars(Process(r))
  /\ \A d \in Declarations :
       /\ WF_vars(GateCloses(d))
       /\ WF_vars(BecomesOverdue(d))
       /\ SF_vars(TimeOutLands(d))
  /\ WF_vars(ScanStale)

FairSpec == Spec /\ Fairness

\* No declaration stays pending for ever, not even one whose record was never
\* sent, was dropped, or whose row was put back to pending after the outcome.
PendingIsResolved ==
  \A d \in Declarations : status[d] = "pending" ~> status[d] # "pending"

-----------------------------------------------------------------------------
(***************************************************************************)
(* What a comment says of the pipeline and the code does not do.           *)
(* It is refuted by a run of its own.                                      *)
(***************************************************************************)

\* validateSupersedes: "must not already be superseded by another declaration".
\* So the link of a superseded declaration is never replaced by another.
SupersededOnce ==
  [][\A d \in Declarations :
       supersededBy[d] # None => supersededBy'[d] = supersededBy[d]]_vars

=============================================================================
