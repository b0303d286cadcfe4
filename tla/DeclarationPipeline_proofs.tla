---------------------- MODULE DeclarationPipeline_proofs ----------------------
(***************************************************************************)
(* Type correctness and the safety of DeclarationPipeline, for any number  *)
(* of requests, declarations and deliveries, and that it implements        *)
(* RegistryContract.  The inductive invariant is IInv.                     *)
(***************************************************************************)
EXTENDS DeclarationPipeline, TLAPS

\* The steps that touch no record, no delivery and no table of the registry:
\* what they may change is ingest's own state, the status rows, the clock and
\* the sweeper's list.
Aside ==
  \/ \E r \in Requests :
       Validate(r) \/ Refuse(r) \/ CreatePending(r) \/ CreatePendingAfterSend(r)
         \/ IngestDies(r)
  \/ \E d \in Declarations : GateCloses(d) \/ BecomesOverdue(d) \/ MarkTimedOut(d)
  \/ ScanStale
  \/ SweeperDies
  \/ UNCHANGED vars

\* A step is one of the above, or moves the record of one request.
LEMMA StepCases ==
  ASSUME [Next]_vars
  PROVE  \/ Aside
         \/ \E r \in Requests :
              SendRecord(r) \/ Deliver(r) \/ Redeliver(r) \/ Process(r)
BY DEF Next, Ingest, Sweep, Aside

LEMMA AsideLeavesRecords ==
  ASSUME Aside
  PROVE  UNCHANGED <<recordVars, dataVars>>
BY DEF Aside, Validate, Refuse, CreatePending, CreatePendingAfterSend, IngestDies,
   GateCloses, BecomesOverdue, MarkTimedOut, ScanStale, SweeperDies, vars,
   recordVars, dataVars

\* The item id of an attempt that is under way.
LEMMA ItemIsTyped ==
  ASSUME TypeOK, DeliveriesCounted, NEW r \in Requests, recPc[r] \in Processing
  PROVE  Item(r) \in Items
BY DEF TypeOK, DeliveriesCounted, Item, Items

-----------------------------------------------------------------------------
(***************************************************************************)
(* Types and deliveries                                                    *)
(***************************************************************************)

LEMMA InitTypes == Init => TypeOK /\ DeliveriesCounted
BY PipelineAssumption DEF Init, TypeOK, DeliveriesCounted, RequestStates,
   RecordStates, Processing, InFlight, Ages

LEMMA StepTypes ==
  ASSUME TypeOK, DeliveriesCounted, [Next]_vars
  PROVE  (TypeOK /\ DeliveriesCounted)'
<1> DEFINE Goal == (TypeOK /\ DeliveriesCounted)'
<1> USE PipelineAssumption DEF TypeOK, DeliveriesCounted, RequestStates,
      RecordStates, Processing, InFlight, Ages, requestVars, recordVars, statusVars,
      dataVars
<1>1. ASSUME NEW r \in Requests, Validate(r) PROVE Goal
  BY <1>1 DEF Validate
<1>2. ASSUME NEW r \in Requests, Refuse(r) PROVE Goal
  BY <1>2 DEF Refuse
<1>3. ASSUME NEW r \in Requests, CreatePending(r) PROVE Goal
  BY <1>3 DEF CreatePending, PutPending, WriteOutcomes
<1>4. ASSUME NEW r \in Requests, SendRecord(r) PROVE Goal
  BY <1>4 DEF SendRecord, WriteOutcomes
<1>5. ASSUME NEW r \in Requests, CreatePendingAfterSend(r) PROVE Goal
  BY <1>5 DEF CreatePendingAfterSend, PutPending, WriteOutcomes
<1>6. ASSUME NEW r \in Requests, IngestDies(r) PROVE Goal
  BY <1>6 DEF IngestDies
<1>7. ASSUME NEW r \in Requests, Deliver(r) PROVE Goal
  <2>1. tries[r] \in Nat /\ tries[r] < MaxDeliveries
    BY <1>7 DEF Deliver
  <2>2. tries[r] + 1 \in 0 .. MaxDeliveries /\ tries[r] + 1 > 0
    BY <2>1
  <2>3. TypeOK'
    BY <1>7, <2>2 DEF Deliver
  <2>4. DeliveriesCounted'
    BY <1>7, <2>2 DEF Deliver
  <2>5. QED
    BY <2>3, <2>4
<1>8. ASSUME NEW r \in Requests, Redeliver(r) PROVE Goal
  BY <1>8 DEF Redeliver
<1>9. ASSUME NEW r \in Requests, EmitIndexEvent(r) PROVE Goal
  BY <1>9, ItemIsTyped DEF EmitIndexEvent, Put, Hard
<1>10. ASSUME NEW r \in Requests, SaveToS3(r) PROVE Goal
  BY <1>10 DEF SaveToS3, Put, Hard
<1>11. ASSUME NEW r \in Requests, WriteItemMapping(r) PROVE Goal
  BY <1>11, ItemIsTyped DEF WriteItemMapping, Put, Hard
<1>12. ASSUME NEW r \in Requests, WriteIdentifier(r) PROVE Goal
  BY <1>12 DEF WriteIdentifier, Put
<1>13. ASSUME NEW r \in Requests, ConfirmSuccess(r) PROVE Goal
  BY <1>13 DEF ConfirmSuccess, Hard
<1>14. ASSUME NEW r \in Requests, MarkSuperseded(r) PROVE Goal
  <2>1. DeclarationOf[r] \in Declarations
    OBVIOUS
  <2>2. supersededBy' \in [Declarations -> Declarations \cup {None}]
    BY <1>14, <2>1 DEF MarkSuperseded
  <2>3. QED
    BY <1>14, <2>2 DEF MarkSuperseded
<1>15. ASSUME NEW r \in Requests, MarkFailed(r) PROVE Goal
  BY <1>15 DEF MarkFailed, AfterFailure
<1>16. ASSUME NEW r \in Requests, ProcessorDies(r) PROVE Goal
  BY <1>16 DEF ProcessorDies, AfterFailure
<1>17. ASSUME NEW d \in Declarations, GateCloses(d) PROVE Goal
  BY <1>17 DEF GateCloses
<1>18. ASSUME NEW d \in Declarations, BecomesOverdue(d) PROVE Goal
  BY <1>18 DEF BecomesOverdue
<1>19. ASSUME ScanStale PROVE Goal
  BY <1>19 DEF ScanStale, StalePending
<1>20. ASSUME NEW d \in Declarations, MarkTimedOut(d) PROVE Goal
  BY <1>20 DEF MarkTimedOut
<1>21. ASSUME SweeperDies PROVE Goal
  BY <1>21 DEF SweeperDies
<1>22. CASE UNCHANGED vars
  BY <1>22 DEF vars
<1>23. QED
  BY <1>1, <1>2, <1>3, <1>4, <1>5, <1>6, <1>7, <1>8, <1>9, <1>10, <1>11, <1>12,
     <1>13, <1>14, <1>15, <1>16, <1>17, <1>18, <1>19, <1>20, <1>21, <1>22
  DEF Next, Ingest, Process, Sweep

\* The variables are well typed in every state, and no record is delivered more
\* often than the event source's retries allow.
THEOREM TypeCorrect == Spec => []TypeOK
BY InitTypes, StepTypes, PTL DEF Spec

-----------------------------------------------------------------------------
(***************************************************************************)
(* What a step can do to each table                                        *)
(***************************************************************************)

\* No row and no object is ever removed.
LEMMA TablesGrow ==
  ASSUME [Next]_vars
  PROVE  /\ store \subseteq store'
         /\ indexEvents \subseteq indexEvents'
         /\ itemMap \subseteq itemMap'
         /\ identifiers \subseteq identifiers'
<1>1. CASE Aside
  BY <1>1, AsideLeavesRecords DEF dataVars
<1>2. ASSUME NEW r \in Requests, SendRecord(r) \/ Deliver(r) \/ Redeliver(r) \/ Process(r)
      PROVE  /\ store \subseteq store'
             /\ indexEvents \subseteq indexEvents'
             /\ itemMap \subseteq itemMap'
             /\ identifiers \subseteq identifiers'
  BY <1>2 DEF Process, SendRecord, Deliver, Redeliver, EmitIndexEvent, SaveToS3,
     WriteItemMapping, WriteIdentifier, ConfirmSuccess, MarkSuperseded, MarkFailed,
     ProcessorDies, Put, dataVars
<1>3. QED
  BY <1>1, <1>2, StepCases

LEMMA SearchableForGood ==
  ASSUME [Next]_vars, NEW d \in Declarations, Searchable(d)
  PROVE  Searchable(d)'
BY TablesGrow DEF Searchable, ItemDeclaration

\* Only a record that has been saved is mapped.
LEMMA NewMapping ==
  ASSUME TypeOK, [Next]_vars, NEW i \in itemMap', i \notin itemMap
  PROVE  \E r \in Requests : recPc[r] = "map" /\ i = Item(r)
<1>1. ~ Aside
  BY AsideLeavesRecords DEF dataVars
<1>2. PICK r \in Requests : SendRecord(r) \/ Deliver(r) \/ Redeliver(r) \/ Process(r)
  BY <1>1, StepCases
<1>3. WriteItemMapping(r)
  BY <1>2 DEF Process, SendRecord, Deliver, Redeliver, EmitIndexEvent, SaveToS3,
     WriteIdentifier, ConfirmSuccess, MarkSuperseded, MarkFailed, ProcessorDies,
     dataVars
<1>4. QED
  BY <1>3 DEF WriteItemMapping, Put

\* Only a record that has been mapped registers its identifier.
LEMMA NewIdentifier ==
  ASSUME TypeOK, [Next]_vars, NEW d \in identifiers', d \notin identifiers
  PROVE  \E r \in Requests : recPc[r] = "identify" /\ d = DeclarationOf[r]
<1>1. ~ Aside
  BY AsideLeavesRecords DEF dataVars
<1>2. PICK r \in Requests : SendRecord(r) \/ Deliver(r) \/ Redeliver(r) \/ Process(r)
  BY <1>1, StepCases
<1>3. WriteIdentifier(r)
  BY <1>2 DEF Process, SendRecord, Deliver, Redeliver, EmitIndexEvent, SaveToS3,
     WriteItemMapping, ConfirmSuccess, MarkSuperseded, MarkFailed, ProcessorDies,
     dataVars
<1>4. QED
  BY <1>3 DEF WriteIdentifier, Put

\* Only the processor, at the end of the pipeline, reports success.
LEMMA NewSuccess ==
  ASSUME TypeOK, [Next]_vars, NEW d \in Declarations,
         status'[d] = "success", status[d] # "success"
  PROVE  \E r \in Requests : recPc[r] = "confirm" /\ d = DeclarationOf[r]
<1>1. ~ Aside
  BY DEF TypeOK, Aside, Validate, Refuse, CreatePending, CreatePendingAfterSend,
     IngestDies, GateCloses, BecomesOverdue, MarkTimedOut, ScanStale, SweeperDies,
     PutPending, vars, statusVars
<1>2. PICK r \in Requests : SendRecord(r) \/ Deliver(r) \/ Redeliver(r) \/ Process(r)
  BY <1>1, StepCases
<1>3. ~ MarkFailed(r)
  BY DEF MarkFailed, TypeOK
<1>4. ConfirmSuccess(r)
  BY <1>2, <1>3 DEF Process, SendRecord, Deliver, Redeliver, EmitIndexEvent, SaveToS3,
     WriteItemMapping, WriteIdentifier, MarkSuperseded, ProcessorDies, statusVars
<1>5. QED
  BY <1>4 DEF ConfirmSuccess, TypeOK

\* Only a record that was confirmed links the declaration it supersedes.
LEMMA NewLink ==
  ASSUME TypeOK, [Next]_vars, NEW d \in Declarations, supersededBy'[d] # supersededBy[d]
  PROVE  \E r \in Requests :
            /\ recPc[r] = "supersede"
            /\ d = Supersedes[DeclarationOf[r]]
            /\ supersededBy'[d] = DeclarationOf[r]
<1>1. ~ Aside
  BY AsideLeavesRecords DEF dataVars
<1>2. PICK r \in Requests : SendRecord(r) \/ Deliver(r) \/ Redeliver(r) \/ Process(r)
  BY <1>1, StepCases
<1>3. MarkSuperseded(r)
  BY <1>2 DEF Process, SendRecord, Deliver, Redeliver, EmitIndexEvent, SaveToS3,
     WriteItemMapping, WriteIdentifier, ConfirmSuccess, MarkFailed, ProcessorDies,
     dataVars
<1>4. QED
  BY <1>3 DEF MarkSuperseded, TypeOK

-----------------------------------------------------------------------------
(***************************************************************************)
(* The parts of the inductive invariant                                    *)
(***************************************************************************)

\* A declaration is admitted by Validate only, and what was checked stays true.
LEMMA KeepsAdmitted ==
  ASSUME TypeOK, AdmittedOnly, [Next]_vars
  PROVE  AdmittedOnly'
<1> SUFFICES ASSUME NEW r \in Requests, reqPc'[r] \notin {"new", "refused"}
             PROVE  Admissible(DeclarationOf[r])'
  BY DEF AdmittedOnly
<1>1. Admissible(DeclarationOf[r]) => Admissible(DeclarationOf[r])'
  BY TablesGrow DEF Admissible
<1>2. CASE reqPc[r] \notin {"new", "refused"}
  BY <1>1, <1>2 DEF AdmittedOnly
<1>3. CASE reqPc[r] \in {"new", "refused"}
  <2>1. Validate(r)
    BY <1>3 DEF TypeOK, Next, Ingest, Process, Sweep, Refuse, CreatePending,
       SendRecord, CreatePendingAfterSend, IngestDies, Validate, Deliver, Redeliver,
       EmitIndexEvent, SaveToS3, WriteItemMapping, WriteIdentifier, ConfirmSuccess,
       MarkSuperseded, MarkFailed, ProcessorDies, GateCloses, BecomesOverdue,
       ScanStale, MarkTimedOut, SweeperDies, requestVars, vars, InFlight
  <2>2. Admissible(DeclarationOf[r])
    BY <2>1 DEF Validate, SupersedesValid, Admissible
  <2>3. QED
    BY <2>2, <1>1
<1>4. QED
  BY <1>2, <1>3

\* What PipelineOrder says of one record.
OrderOf(r) ==
  /\ recPc[r] \in {"save", "map", "identify", "confirm", "supersede"} =>
       Item(r) \in indexEvents
  /\ recPc[r] \in {"map", "identify", "confirm", "supersede"} =>
       DeclarationOf[r] \in store
  /\ recPc[r] \in {"identify", "confirm", "supersede"} => Item(r) \in itemMap
  /\ recPc[r] = "supersede" => Supersedes[DeclarationOf[r]] # None

\* A record that the step does not touch keeps its place, and the tables grow.
LEMMA OthersKeepOrder ==
  ASSUME [Next]_vars, NEW r \in Requests, OrderOf(r),
         recPc'[r] = recPc[r], tries'[r] = tries[r]
  PROVE  OrderOf(r)'
BY TablesGrow DEF OrderOf, Item

\* A record goes on to the next write only when the one before has landed.
LEMMA OwnStepKeepsOrder ==
  ASSUME TypeOK, [Next]_vars, NEW r \in Requests, OrderOf(r),
         SendRecord(r) \/ Deliver(r) \/ Redeliver(r) \/ Process(r)
  PROVE  OrderOf(r)'
<1> USE DEF TypeOK, OrderOf, Item
<1>1. CASE SendRecord(r)
  BY <1>1 DEF SendRecord, dataVars
<1>2. CASE Deliver(r)
  BY <1>2 DEF Deliver
<1>3. CASE Redeliver(r)
  BY <1>3 DEF Redeliver
<1>4. CASE EmitIndexEvent(r)
  BY <1>4 DEF EmitIndexEvent, WriteOutcomes, Put, Hard
<1>5. CASE SaveToS3(r)
  BY <1>5 DEF SaveToS3, WriteOutcomes, Put, Hard
<1>6. CASE WriteItemMapping(r)
  BY <1>6 DEF WriteItemMapping, WriteOutcomes, Put, Hard
<1>7. CASE WriteIdentifier(r)
  BY <1>7 DEF WriteIdentifier
<1>8. CASE ConfirmSuccess(r)
  BY <1>8 DEF ConfirmSuccess, Hard, dataVars
<1>9. CASE MarkSuperseded(r)
  BY <1>9 DEF MarkSuperseded
<1>10. CASE MarkFailed(r)
  BY <1>10 DEF MarkFailed, AfterFailure
<1>11. CASE ProcessorDies(r)
  BY <1>11 DEF ProcessorDies, AfterFailure
<1>12. QED
  BY <1>1, <1>2, <1>3, <1>4, <1>5, <1>6, <1>7, <1>8, <1>9, <1>10, <1>11 DEF Process

\* A step moves the record of one request at most.
LEMMA OneRecordMoves ==
  ASSUME TypeOK, NEW r \in Requests, NEW q \in Requests, q # r,
         SendRecord(q) \/ Deliver(q) \/ Redeliver(q) \/ Process(q)
  PROVE  recPc'[r] = recPc[r] /\ tries'[r] = tries[r]
BY DEF TypeOK, Process, SendRecord, Deliver, Redeliver, EmitIndexEvent, SaveToS3,
   WriteItemMapping, WriteIdentifier, ConfirmSuccess, MarkSuperseded, MarkFailed,
   ProcessorDies

LEMMA KeepsOrder ==
  ASSUME TypeOK, PipelineOrder, [Next]_vars
  PROVE  PipelineOrder'
<1> SUFFICES ASSUME NEW r \in Requests
             PROVE  OrderOf(r)'
  BY DEF PipelineOrder, OrderOf
<1>1. OrderOf(r)
  BY DEF PipelineOrder, OrderOf
<1>2. CASE Aside
  BY <1>1, <1>2, AsideLeavesRecords, OthersKeepOrder DEF recordVars
<1>3. ASSUME NEW q \in Requests, SendRecord(q) \/ Deliver(q) \/ Redeliver(q) \/ Process(q)
      PROVE  OrderOf(r)'
  <2>1. CASE q = r
    BY <2>1, <1>1, <1>3, OwnStepKeepsOrder
  <2>2. CASE q # r
    BY <2>2, <1>1, <1>3, OneRecordMoves, OthersKeepOrder
  <2>3. QED
    BY <2>1, <2>2
<1>4. QED
  BY <1>2, <1>3, StepCases

\* What a record past the mapping knows of its declaration.
LEMMA PastMapping ==
  ASSUME TypeOK, PipelineOrder, NEW r \in Requests,
         recPc[r] \in {"identify", "confirm", "supersede"}
  PROVE  Searchable(DeclarationOf[r])
<1>1. /\ DeclarationOf[r] \in store
      /\ Item(r) \in itemMap
      /\ Item(r) \in indexEvents
  BY DEF PipelineOrder
<1>2. ItemDeclaration(Item(r)) = DeclarationOf[r]
  BY DEF ItemDeclaration, Item
<1>3. QED
  BY <1>1, <1>2 DEF Searchable

LEMMA KeepsRegistered ==
  ASSUME TypeOK, PipelineOrder, RegisteredAreSearchable, [Next]_vars
  PROVE  RegisteredAreSearchable'
<1> SUFFICES ASSUME NEW d \in identifiers'
             PROVE  Searchable(d)'
  BY DEF RegisteredAreSearchable
<1>1. Searchable(d) /\ d \in Declarations
  <2>1. CASE d \in identifiers
    BY <2>1 DEF RegisteredAreSearchable, TypeOK
  <2>2. CASE d \notin identifiers
    BY <2>2, NewIdentifier, PastMapping, PipelineAssumption
  <2>3. QED
    BY <2>1, <2>2
<1>2. QED
  BY <1>1, SearchableForGood

LEMMA KeepsPointers ==
  ASSUME TypeOK, PipelineOrder, RegisteredAreSearchable', PointersResolve, [Next]_vars
  PROVE  PointersResolve'
<1>1. ASSUME NEW i \in itemMap'
      PROVE  i \in indexEvents' /\ ItemDeclaration(i) \in store'
  <2>1. CASE i \in itemMap
    BY <2>1, TablesGrow DEF PointersResolve
  <2>2. CASE i \notin itemMap
    <3>1. PICK r \in Requests : recPc[r] = "map" /\ i = Item(r)
      BY <2>2, NewMapping
    <3>2. Item(r) \in indexEvents /\ DeclarationOf[r] \in store
      BY <3>1 DEF PipelineOrder
    <3>3. ItemDeclaration(i) = DeclarationOf[r]
      BY <3>1 DEF ItemDeclaration, Item
    <3>4. QED
      BY <3>1, <3>2, <3>3, TablesGrow
  <2>3. QED
    BY <2>1, <2>2
<1>2. identifiers' \subseteq store'
  BY DEF RegisteredAreSearchable, Searchable
<1>3. QED
  BY <1>1, <1>2 DEF PointersResolve, ItemDeclaration

LEMMA KeepsSuccess ==
  ASSUME TypeOK, PipelineOrder, SuccessIsSearchable, [Next]_vars
  PROVE  SuccessIsSearchable'
<1> SUFFICES ASSUME NEW d \in Declarations, status'[d] = "success"
             PROVE  Searchable(d)'
  BY DEF SuccessIsSearchable
<1>1. CASE status[d] = "success"
  BY <1>1, SearchableForGood DEF SuccessIsSearchable
<1>2. CASE status[d] # "success"
  BY <1>2, NewSuccess, PastMapping, SearchableForGood
<1>3. QED
  BY <1>1, <1>2

\* The link is written long after validation: what was validated still holds.
LEMMA KeepsLinks ==
  ASSUME TypeOK, DeliveriesCounted, AdmittedOnly, PipelineOrder,
         SupersedeLinksAreSound, [Next]_vars
  PROVE  SupersedeLinksAreSound'
<1> SUFFICES ASSUME NEW d \in Declarations, supersededBy'[d] # None
             PROVE  /\ Supersedes[supersededBy'[d]] = d
                    /\ Declarer[supersededBy'[d]] = Declarer[d]
                    /\ d \in identifiers'
                    /\ Searchable(supersededBy[d])'
  BY DEF SupersedeLinksAreSound
<1>1. CASE supersededBy'[d] = supersededBy[d]
  <2>1. supersededBy[d] \in Declarations
    BY <1>1 DEF TypeOK
  <2>2. Searchable(supersededBy[d])
    BY <1>1 DEF SupersedeLinksAreSound
  <2>3. Searchable(supersededBy[d])'
    BY <1>1, <2>1, <2>2, SearchableForGood DEF Searchable, ItemDeclaration
  <2>4. QED
    BY <1>1, <2>3, TablesGrow DEF SupersedeLinksAreSound
<1>2. CASE supersededBy'[d] # supersededBy[d]
  <2>1. PICK r \in Requests : /\ recPc[r] = "supersede"
                              /\ d = Supersedes[DeclarationOf[r]]
                              /\ supersededBy'[d] = DeclarationOf[r]
    BY <1>2, NewLink
  <2>2. Admissible(DeclarationOf[r])
    BY <2>1 DEF DeliveriesCounted, AdmittedOnly
  <2>3. d \in identifiers /\ Declarer[d] = Declarer[DeclarationOf[r]]
    BY <2>1, <2>2, PipelineAssumption DEF Admissible
  <2>4. DeclarationOf[r] \in Declarations /\ Searchable(DeclarationOf[r])
    BY <2>1, PastMapping, PipelineAssumption
  <2>5. Searchable(DeclarationOf[r])'
    BY <2>4, SearchableForGood
  <2>6. QED
    BY <2>1, <2>3, <2>5, TablesGrow DEF Searchable, ItemDeclaration
<1>3. QED
  BY <1>1, <1>2

-----------------------------------------------------------------------------
(***************************************************************************)
(* The theorems                                                            *)
(***************************************************************************)

LEMMA InitIInv == Init => IInv
BY InitTypes, PipelineAssumption DEF Init, IInv, AdmittedOnly, PipelineOrder,
   RegisteredAreSearchable, PointersResolve, SuccessIsSearchable,
   SupersedeLinksAreSound

LEMMA StepIInv == IInv /\ [Next]_vars => IInv'
BY StepTypes, KeepsAdmitted, KeepsOrder, KeepsRegistered, KeepsPointers,
   KeepsSuccess, KeepsLinks DEF IInv

\* Everything known of the tables and of a record at each point of its way.
THEOREM Invariance == Spec => []IInv
BY InitIInv, StepIInv, PTL DEF Spec

\* Status "success" is shown only for declarations that a search can return.
THEOREM SuccessMeansSearchable == Spec => []SuccessIsSearchable
<1>1. IInv => SuccessIsSearchable
  BY DEF IInv
<1>2. QED
  BY <1>1, Invariance, PTL

\* No table points at an object that is not in S3 or was not announced.
THEOREM NoDanglingPointers == Spec => []PointersResolve
<1>1. IInv => PointersResolve
  BY DEF IInv
<1>2. QED
  BY <1>1, Invariance, PTL

\* A supersedes link joins a registered declaration to a searchable one of the
\* same declarer.
THEOREM LinksAreSound == Spec => []SupersedeLinksAreSound
<1>1. IInv => SupersedeLinksAreSound
  BY DEF IInv
<1>2. QED
  BY <1>1, Invariance, PTL

-----------------------------------------------------------------------------
(***************************************************************************)
(* The pipeline implements the contract                                    *)
(***************************************************************************)

Published == {d \in Declarations : Searchable(d)}

\* What is mapped is indexed and stored, so the mapping alone decides.
LEMMA MappedIsPublished ==
  ASSUME PointersResolve, NEW d \in Declarations
  PROVE  Searchable(d) <=> \E i \in itemMap : ItemDeclaration(i) = d
BY DEF PointersResolve, Searchable

\* So a step that maps nothing publishes nothing.
LEMMA SameMapping ==
  ASSUME PointersResolve, PointersResolve', itemMap' = itemMap
  PROVE  Published' = Published
<1> SUFFICES ASSUME NEW d \in Declarations
             PROVE  Searchable(d)' <=> Searchable(d)
  BY DEF Published
<1>1. Searchable(d)' <=> \E i \in itemMap' : ItemDeclaration(i) = d
  BY DEF PointersResolve, Searchable, ItemDeclaration
<1>2. QED
  BY <1>1, MappedIsPublished

\* The step that maps the item of a record publishes its declaration.
LEMMA NewMappingPublishes ==
  ASSUME PointersResolve, PointersResolve', NEW r \in Requests,
         itemMap' = itemMap \cup {Item(r)}
  PROVE  Published' = Published \cup {DeclarationOf[r]}
<1>1. ItemDeclaration(Item(r)) = DeclarationOf[r] /\ DeclarationOf[r] \in Declarations
  BY PipelineAssumption DEF ItemDeclaration, Item
<1>2. ASSUME NEW d \in Declarations
      PROVE  Searchable(d)' <=> Searchable(d) \/ d = DeclarationOf[r]
  <2>1. Searchable(d)' <=> \E i \in itemMap' : ItemDeclaration(i) = d
    BY DEF PointersResolve, Searchable, ItemDeclaration
  <2>2. QED
    BY <1>1, <2>1, MappedIsPublished
<1>3. QED
  BY <1>1, <1>2 DEF Published

LEMMA InitImplements == Init => Contract!Init
BY DEF Init, Contract!Init, Searchable

LEMMA StepImplements ==
  ASSUME IInv, IInv', [Next]_vars
  PROVE  [Contract!Next]_(Contract!vars)
<1> DEFINE Maps == [Contract!Next]_(Contract!vars)
<1> USE PipelineAssumption DEF IInv, TypeOK
<1>1. itemMap' = itemMap => Published' = Published
  BY SameMapping
<1>2. ASSUME UNCHANGED <<status, itemMap, identifiers, supersededBy>>
      PROVE  Maps
  BY <1>1, <1>2 DEF Contract!vars, Published
<1>3. ASSUME NEW d \in Declarations,
             \/ status' = [status EXCEPT ![d] = "pending"]
             \/ status' = [status EXCEPT ![d] = "failed"]
             \/ d \in Published /\ status' = [status EXCEPT ![d] = "success"],
             UNCHANGED <<itemMap, identifiers, supersededBy>>
      PROVE  Maps
  BY <1>1, <1>3 DEF Contract!Next, Contract!Announce, Contract!Fail,
     Contract!Confirm, Published
<1>4. ASSUME NEW r \in Requests, SendRecord(r) \/ Deliver(r) \/ Redeliver(r) \/ Process(r)
      PROVE  Maps
  <2> USE DEF dataVars, statusVars, Put
  <2>1. CASE SendRecord(r) \/ Deliver(r) \/ Redeliver(r) \/ EmitIndexEvent(r)
               \/ SaveToS3(r) \/ ProcessorDies(r)
    BY <2>1, <1>2 DEF SendRecord, Deliver, Redeliver, EmitIndexEvent, SaveToS3,
       ProcessorDies
  <2>2. CASE WriteItemMapping(r)
    <3>1. CASE itemMap' = itemMap
      BY <2>2, <3>1, <1>2 DEF WriteItemMapping
    <3>2. CASE itemMap' = itemMap \cup {Item(r)}
      <4>1. Contract!Publish(DeclarationOf[r])
        BY <2>2, <3>2, NewMappingPublishes DEF WriteItemMapping, Contract!Publish,
           Published
      <4>2. QED
        BY <4>1 DEF Contract!Next
    <3>3. QED
      BY <2>2, <3>1, <3>2 DEF WriteItemMapping
  <2>3. CASE WriteIdentifier(r)
    <3>1. CASE identifiers' = identifiers
      BY <2>3, <3>1, <1>2 DEF WriteIdentifier
    <3>2. CASE identifiers' = identifiers \cup {DeclarationOf[r]}
      <4>1. Contract!Register(DeclarationOf[r])
        BY <2>3, <3>2, <1>1, PastMapping DEF WriteIdentifier, Contract!Register,
           Published
      <4>2. QED
        BY <4>1 DEF Contract!Next
    <3>3. QED
      BY <2>3, <3>1, <3>2 DEF WriteIdentifier
  <2>4. CASE ConfirmSuccess(r)
    <3>1. DeclarationOf[r] \in Published
      BY <2>4, PastMapping DEF ConfirmSuccess, Published
    <3>2. QED
      BY <2>4, <3>1, <1>2, <1>3 DEF ConfirmSuccess
  <2>5. CASE MarkFailed(r)
    BY <2>5, <1>2, <1>3 DEF MarkFailed
  <2>6. CASE MarkSuperseded(r)
    <3>1. CASE supersededBy' = supersededBy
      BY <2>6, <3>1, <1>2 DEF MarkSuperseded
    <3>2. CASE supersededBy' =
                 [supersededBy EXCEPT ![Supersedes[DeclarationOf[r]]] = DeclarationOf[r]]
      <4>1. DeclarationOf[r] \in Published
        BY <2>6, PastMapping DEF MarkSuperseded, Published
      <4>2. Supersedes[DeclarationOf[r]] # None /\ Admissible(DeclarationOf[r])
        BY <2>6 DEF MarkSuperseded, PipelineOrder, DeliveriesCounted, AdmittedOnly
      <4>3. Contract!Link(DeclarationOf[r])
        BY <2>6, <3>2, <4>1, <4>2, <1>1 DEF MarkSuperseded, Contract!Link,
           Admissible, Published
      <4>4. QED
        BY <4>3 DEF Contract!Next
    <3>3. QED
      BY <2>6, <3>1, <3>2 DEF MarkSuperseded
  <2>7. QED
    BY <1>4, <2>1, <2>2, <2>3, <2>4, <2>5, <2>6 DEF Process
<1>5. CASE Aside
  <2>1. UNCHANGED <<itemMap, identifiers, supersededBy>>
    BY <1>5, AsideLeavesRecords DEF dataVars
  <2>2. ASSUME NEW r \in Requests, CreatePending(r) \/ CreatePendingAfterSend(r)
        PROVE  Maps
    BY <2>1, <2>2, <1>2, <1>3 DEF CreatePending, CreatePendingAfterSend, PutPending
  <2>3. ASSUME NEW d \in Declarations, MarkTimedOut(d)
        PROVE  Maps
    BY <2>1, <2>3, <1>2, <1>3 DEF MarkTimedOut
  <2>4. ASSUME status' = status
        PROVE  Maps
    BY <2>1, <2>4, <1>2
  <2>5. QED
    BY <1>5, <2>2, <2>3, <2>4 DEF Aside, Validate, Refuse, IngestDies, GateCloses,
       BecomesOverdue, ScanStale, SweeperDies, vars, statusVars
<1>6. QED
  BY <1>4, <1>5, StepCases

\* Behind queues, retries, lost writes and crashes the pipeline only ever does
\* what the contract allows.
THEOREM Implementation == Spec => ImplementsContract
BY InitImplements, StepImplements, Invariance, PTL DEF Spec, ImplementsContract,
   Contract!Spec

-----------------------------------------------------------------------------
(***************************************************************************)
(* The status row of a request, and what the sweeper may touch             *)
(***************************************************************************)

\* Why a tracked request has a row: no write removes one.
TrackedHaveRows ==
  \A r \in Requests : tracked[r] => status[DeclarationOf[r]] # "absent"

\* A sweeper holds rows of overdue or undated declarations only, and no ingest call
\* of an overdue declaration is under way.
SweptAreOverdue ==
  /\ \A d \in sweep : age[d] = "overdue" \/ Undated(d)
  /\ \A r \in Requests : age[DeclarationOf[r]] = "overdue" => reqPc[r] \notin InFlight

StatusInv == TypeOK /\ DeliveriesCounted /\ TrackedHaveRows /\ SweptAreOverdue

LEMMA InitStatusInv == Init => StatusInv
BY InitTypes, PipelineAssumption DEF Init, StatusInv, TrackedHaveRows, SweptAreOverdue

\* How a step may change the status rows.
LEMMA StatusMoves ==
  ASSUME TypeOK, [Next]_vars
  PROVE  \/ status' = status
         \/ \E r \in Requests :
              /\ status' = [status EXCEPT ![DeclarationOf[r]] = "pending"]
              /\ CreatePending(r) \/ CreatePendingAfterSend(r)
         \/ \E r \in Requests :
              status' = [status EXCEPT ![DeclarationOf[r]] = "success"]
         \/ \E r \in Requests :
              /\ recPc[r] = "fail"
              /\ status' = [status EXCEPT ![DeclarationOf[r]] = "failed"]
         \/ \E d \in Declarations :
              /\ d \in sweep /\ status[d] = "pending"
              /\ status' = [status EXCEPT ![d] = "failed"]
<1> DEFINE Goal ==
         \/ status' = status
         \/ \E r \in Requests :
              /\ status' = [status EXCEPT ![DeclarationOf[r]] = "pending"]
              /\ CreatePending(r) \/ CreatePendingAfterSend(r)
         \/ \E r \in Requests :
              status' = [status EXCEPT ![DeclarationOf[r]] = "success"]
         \/ \E r \in Requests :
              /\ recPc[r] = "fail"
              /\ status' = [status EXCEPT ![DeclarationOf[r]] = "failed"]
         \/ \E d \in Declarations :
              /\ d \in sweep /\ status[d] = "pending"
              /\ status' = [status EXCEPT ![d] = "failed"]
<1>1. ASSUME NEW r \in Requests, SendRecord(r) \/ Deliver(r) \/ Redeliver(r)
      PROVE  Goal
  BY <1>1 DEF SendRecord, Deliver, Redeliver, statusVars
<1>2. ASSUME NEW r \in Requests, Process(r)
      PROVE  Goal
  <2>1. CASE ConfirmSuccess(r)
    BY <2>1 DEF ConfirmSuccess
  <2>2. CASE MarkFailed(r)
    BY <2>2 DEF MarkFailed
  <2>3. CASE ~ (ConfirmSuccess(r) \/ MarkFailed(r))
    BY <1>2, <2>3 DEF Process, EmitIndexEvent, SaveToS3, WriteItemMapping,
       WriteIdentifier, MarkSuperseded, ProcessorDies, statusVars
  <2>4. QED
    BY <2>1, <2>2, <2>3
<1>3. CASE Aside
  <2>1. ASSUME NEW r \in Requests, CreatePending(r) \/ CreatePendingAfterSend(r)
        PROVE  Goal
    BY <2>1 DEF CreatePending, CreatePendingAfterSend, PutPending
  <2>2. ASSUME NEW d \in Declarations, MarkTimedOut(d)
        PROVE  Goal
    BY <2>2 DEF MarkTimedOut
  <2>3. QED
    BY <1>3, <2>1, <2>2 DEF Aside, Validate, Refuse, IngestDies, GateCloses,
       BecomesOverdue, ScanStale, SweeperDies, vars, statusVars
<1>4. QED
  BY <1>1, <1>2, <1>3, StepCases

LEMMA KeepsTracked ==
  ASSUME StatusInv, [Next]_vars
  PROVE  TrackedHaveRows'
<1> USE PipelineAssumption DEF StatusInv, TypeOK
<1>1. ASSUME NEW d \in Declarations, status[d] # "absent"
      PROVE  status'[d] # "absent"
  BY <1>1, StatusMoves
<1>2. ASSUME NEW r \in Requests, tracked'[r]
      PROVE  tracked[r] \/ status'[DeclarationOf[r]] # "absent"
  <2>1. CASE \E q \in Requests : CreatePending(q) \/ CreatePendingAfterSend(q)
    BY <1>2, <2>1 DEF CreatePending, CreatePendingAfterSend, PutPending, WriteOutcomes
  <2>2. CASE UNCHANGED tracked
    BY <1>2, <2>2
  <2>3. QED
    BY <2>1, <2>2, StepCases DEF Aside, Validate, Refuse, IngestDies, GateCloses,
       BecomesOverdue, MarkTimedOut, ScanStale, SweeperDies, vars, SendRecord,
       Deliver, Redeliver, Process, EmitIndexEvent, SaveToS3, WriteItemMapping,
       WriteIdentifier, ConfirmSuccess, MarkSuperseded, MarkFailed, ProcessorDies,
       requestVars
<1>3. QED
  BY <1>1, <1>2 DEF TrackedHaveRows

LEMMA KeepsSwept ==
  ASSUME StatusInv, [Next]_vars
  PROVE  SweptAreOverdue'
<1> USE PipelineAssumption
    DEF StatusInv, TypeOK, SweptAreOverdue, Undated, requestVars, statusVars
<1>1. ASSUME NEW r \in Requests, SendRecord(r) \/ Deliver(r) \/ Redeliver(r) \/ Process(r)
      PROVE  SweptAreOverdue'
  <2>1. CASE SendRecord(r)
    BY <2>1 DEF SendRecord, InFlight
  <2>2. CASE ~ SendRecord(r)
    <3>1. UNCHANGED <<reqPc, age, sweep>>
      BY <1>1, <2>2 DEF Deliver, Redeliver, Process, EmitIndexEvent, SaveToS3,
         WriteItemMapping, WriteIdentifier, ConfirmSuccess, MarkSuperseded,
         MarkFailed, ProcessorDies
    <3>2. QED
      BY <3>1 DEF InFlight
  <2>3. QED
    BY <2>1, <2>2
<1>2. ASSUME NEW r \in Requests, Validate(r)
      PROVE  SweptAreOverdue'
  BY <1>2 DEF Validate, InFlight, TimestampInWindow
<1>3. ASSUME NEW r \in Requests,
             \/ Refuse(r) \/ CreatePending(r) \/ CreatePendingAfterSend(r)
             \/ IngestDies(r)
      PROVE  SweptAreOverdue'
  BY <1>3 DEF Refuse, CreatePending, CreatePendingAfterSend, IngestDies, PutPending,
     InFlight
<1>4. ASSUME NEW d \in Declarations, GateCloses(d) \/ BecomesOverdue(d)
      PROVE  SweptAreOverdue'
  BY <1>4 DEF GateCloses, BecomesOverdue, Underway
<1>5. CASE ScanStale \/ SweeperDies \/ UNCHANGED vars
  BY <1>5 DEF ScanStale, StalePending, SweeperDies, vars, InFlight
<1>6. ASSUME NEW d \in Declarations, MarkTimedOut(d)
      PROVE  SweptAreOverdue'
  BY <1>6 DEF MarkTimedOut, InFlight
<1>7. QED
  BY <1>1, <1>2, <1>3, <1>4, <1>5, <1>6, StepCases DEF Aside

LEMMA StatusInvariance == Spec => []StatusInv
<1>1. StatusInv /\ [Next]_vars => StatusInv'
  BY StepTypes, KeepsTracked, KeepsSwept DEF StatusInv
<1>2. QED
  BY <1>1, InitStatusInv, PTL DEF Spec

\* A client that was told it can track its declaration finds the status row,
\* whatever is lost, repeated or swept meanwhile.
THEOREM TrackingWorks == Spec => []TrackedIsVisible
<1>1. StatusInv => TrackedIsVisible
  BY DEF StatusInv, TrackedHaveRows, TrackedIsVisible
<1>2. QED
  BY <1>1, StatusInvariance, PTL

\* However old the list of the sweeper is, it turns no success into a failure.
THEOREM OutcomesAreSpared == Spec => SweeperSparesOutcomes
<1> DEFINE Spares == \A d \in Declarations :
       status[d] = "success" /\ status'[d] = "failed" =>
         \E r \in Requests : DeclarationOf[r] = d /\ recPc[r] = "fail"
<1>1. StatusInv /\ [Next]_vars => [Spares]_vars
  BY StatusMoves, PipelineAssumption DEF StatusInv, TypeOK
<1>2. QED
  BY <1>1, StatusInvariance, PTL DEF Spec, SweeperSparesOutcomes

\* The sweeper fails only rows that were pending for the whole threshold, while no
\* ingest call of the declaration is under way; of a declaration without a date, only
\* rows that it scanned.
THEOREM OnlyTheStaleTimeOut == Spec => OnlyStaleTimesOut
<1> DEFINE OnlyStale == \A d \in Declarations :
       status[d] = "pending" /\ status'[d] = "failed" =>
         \/ \E r \in Requests : DeclarationOf[r] = d /\ recPc[r] = "fail"
         \/ age[d] = "overdue" /\ Underway(d) = {}
         \/ Undated(d) /\ d \in sweep
<1>1. StatusInv /\ [Next]_vars => [OnlyStale]_vars
  BY StatusMoves, PipelineAssumption DEF StatusInv, TypeOK, SweptAreOverdue, Underway
<1>2. QED
  BY <1>1, StatusInvariance, PTL DEF Spec, OnlyStaleTimesOut

-----------------------------------------------------------------------------
(***************************************************************************)
(* The way of a record, and the contract of the event source               *)
(***************************************************************************)

Unmoved(r) == recPc'[r] = recPc[r] /\ tries'[r] = tries[r]

\* All that can happen to a record: it is sent, delivered, goes forward within its
\* delivery, or leaves it to be delivered again or dropped.
Sent(r)      == recPc[r] = "none" /\ recPc'[r] = "queued" /\ tries'[r] = tries[r]
Delivered(r) == /\ recPc[r] = "queued" /\ recPc'[r] = "emit"
                /\ tries[r] < MaxDeliveries /\ tries'[r] = tries[r] + 1
GoesOn(r)    == /\ recPc[r] \in Processing /\ recPc'[r] \in Processing \cup {"done"}
                /\ tries'[r] = tries[r]
Leaves(r)    == /\ \/ recPc[r] \in Processing /\ recPc'[r] \in {"queued", "dropped"}
                   \/ recPc[r] = "done" /\ recPc'[r] = "queued"
                /\ tries'[r] = tries[r]

LEMMA OwnStep ==
  ASSUME TypeOK, DeliveriesCounted, NEW r \in Requests,
         SendRecord(r) \/ Deliver(r) \/ Redeliver(r) \/ Process(r)
  PROVE  Unmoved(r) \/ Sent(r) \/ Delivered(r) \/ GoesOn(r) \/ Leaves(r)
<1> USE DEF TypeOK, Unmoved, Processing
<1>1. CASE SendRecord(r)
  BY <1>1 DEF SendRecord, DeliveriesCounted, Sent
<1>2. CASE Deliver(r)
  BY <1>2 DEF Deliver, DeliveriesCounted, Delivered
<1>3. CASE Redeliver(r)
  BY <1>3 DEF Redeliver, Leaves
<1>4. CASE EmitIndexEvent(r)
  BY <1>4 DEF EmitIndexEvent, Hard, GoesOn
<1>5. CASE SaveToS3(r)
  BY <1>5 DEF SaveToS3, Hard, GoesOn
<1>6. CASE WriteItemMapping(r)
  BY <1>6 DEF WriteItemMapping, Hard, GoesOn
<1>7. CASE WriteIdentifier(r)
  BY <1>7 DEF WriteIdentifier, GoesOn
<1>8. CASE ConfirmSuccess(r)
  BY <1>8 DEF ConfirmSuccess, Hard, GoesOn
<1>9. CASE MarkSuperseded(r)
  BY <1>9 DEF MarkSuperseded, GoesOn
<1>10. CASE MarkFailed(r)
  BY <1>10 DEF MarkFailed, AfterFailure, Leaves
<1>11. CASE ProcessorDies(r)
  BY <1>11 DEF ProcessorDies, AfterFailure, Leaves
<1>12. QED
  BY <1>1, <1>2, <1>3, <1>4, <1>5, <1>6, <1>7, <1>8, <1>9, <1>10, <1>11 DEF Process

LEMMA EachRecord ==
  ASSUME TypeOK, DeliveriesCounted, [Next]_vars, NEW r \in Requests
  PROVE  Unmoved(r) \/ Sent(r) \/ Delivered(r) \/ GoesOn(r) \/ Leaves(r)
<1>1. CASE Aside
  BY <1>1, AsideLeavesRecords DEF recordVars, Unmoved
<1>2. ASSUME NEW q \in Requests, SendRecord(q) \/ Deliver(q) \/ Redeliver(q) \/ Process(q)
      PROVE  Unmoved(r) \/ Sent(r) \/ Delivered(r) \/ GoesOn(r) \/ Leaves(r)
  BY <1>2, OwnStep, OneRecordMoves DEF Unmoved
<1>3. QED
  BY <1>1, <1>2, StepCases

LEMMA TypesInvariance == Spec => [](TypeOK /\ DeliveriesCounted)
BY InitTypes, StepTypes, PTL DEF Spec

LEMMA InitDelivery == Init => Delivery!Init
<1> SUFFICES ASSUME Init, NEW r \in Requests
             PROVE  PlaceOf(r) = "ahead" /\ (IF recPc[r] = "dropped" THEN 0 ELSE tries[r]) = 0
  BY DEF Delivery!Init
<1>1. QED
  BY DEF Init, PlaceOf

LEMMA StepDelivery ==
  ASSUME TypeOK, DeliveriesCounted, TypeOK', [Next]_vars
  PROVE  Delivery!Next
<1> DEFINE Calls(q) == IF recPc[q] = "dropped" THEN 0 ELSE tries[q]
<1>1. ASSUME NEW r \in Requests
      PROVE  PlaceOf(r)' \in Delivery!Places /\ Calls(r)' \in 0 .. MaxDeliveries
  BY PipelineAssumption DEF TypeOK, PlaceOf, Delivery!Places
<1>2. ASSUME NEW r \in Requests
      PROVE  \/ Delivery!Taken(r) \/ Delivery!Invoked(r) \/ Delivery!Repeated(r)
             \/ Delivery!LeftBehind(r) \/ Delivery!Stays(r)
  <2> DEFINE Goal == \/ Delivery!Taken(r) \/ Delivery!Invoked(r) \/ Delivery!Repeated(r)
                     \/ Delivery!LeftBehind(r) \/ Delivery!Stays(r)
  <2>1. CASE Unmoved(r)
    <3>1. PlaceOf(r)' = PlaceOf(r) /\ Calls(r)' = Calls(r)
      BY <2>1 DEF Unmoved, PlaceOf
    <3>2. QED
      BY <3>1 DEF Delivery!Stays
  <2>2. CASE Sent(r)
    <3>1. /\ PlaceOf(r) = "ahead" /\ PlaceOf(r)' = "waiting"
          /\ Calls(r)' = Calls(r)
      BY <2>2 DEF Sent, PlaceOf
    <3>2. QED
      BY <3>1 DEF Delivery!Taken
  <2>3. CASE Delivered(r)
    <3>1. /\ PlaceOf(r) = "waiting" /\ PlaceOf(r)' = "invoked"
          /\ Calls(r) < MaxDeliveries /\ Calls(r)' = Calls(r) + 1
      BY <2>3 DEF Delivered, PlaceOf
    <3>2. QED
      BY <3>1 DEF Delivery!Invoked
  <2>4. CASE GoesOn(r)
    <3>1. PlaceOf(r)' = PlaceOf(r) /\ Calls(r)' = Calls(r)
      BY <2>4 DEF GoesOn, Processing, PlaceOf
    <3>2. QED
      BY <3>1 DEF Delivery!Stays
  <2>5. CASE Leaves(r)
    <3>1. /\ PlaceOf(r) = "invoked"
          /\ \/ PlaceOf(r)' = "waiting" /\ Calls(r)' = Calls(r)
             \/ PlaceOf(r)' = "dropped" /\ Calls(r)' = 0
      BY <2>5 DEF Leaves, Processing, PlaceOf
    <3>2. QED
      BY <3>1 DEF Delivery!Repeated, Delivery!LeftBehind
  <2>6. QED
    BY <2>1, <2>2, <2>3, <2>4, <2>5, EachRecord
<1>3. QED
  BY <1>1, <1>2 DEF Delivery!Next

\* Ingest, processor, sweeper and crashes make of a record what the event source
\* allows: it is delivered at most MaxDeliveries times, lost never.
THEOREM DeliveryIsImplemented == Spec => ImplementsDelivery
<1>1. /\ (TypeOK /\ DeliveriesCounted) /\ (TypeOK /\ DeliveriesCounted)' /\ [Next]_vars
      => [Delivery!Next]_(Delivery!vars)
  BY StepDelivery
<1>2. QED
  BY <1>1, InitDelivery, TypesInvariance, PTL DEF Spec, ImplementsDelivery, Delivery!Spec

=============================================================================
