---------------------------- MODULE Intake_proofs ----------------------------
(***************************************************************************)
(* Proofs about Intake, for every set of bodies and versions, any window   *)
(* and any clock.                                                          *)
(***************************************************************************)
EXTENDS Intake, TLAPS

\* What the prover needs to know of a body.
LEMMA BodyTypes ==
  ASSUME NEW b \in Body
  PROVE  /\ b # None
         /\ "main" \in b.sections /\ b.sections \subseteq Sections
         /\ b.envelope \in {0, 400, 401, 405, 500}
         /\ b.timestamp \in Nat /\ b.registryTimestamp \in Nat
         /\ b.key \in [Sections -> {"embedded", "pinned", "unknown"}]
  BY IntakeAssumption DEF Body, Times

\* Distance is the absolute difference: Timely is a window on both sides.
LEMMA TimelyIsWindow ==
  ASSUME TypeOK, NEW t \in Nat
  PROVE  Timely(t) <=> (t # 0 => t <= start + Window /\ start <= t + Window)
<1>1. start \in Nat /\ Window \in Nat
  BY IntakeAssumption DEF TypeOK, Times
<1> QED
  BY <1>1 DEF Timely, Distance

LEMMA InitInv == Init => IInv
<1> SUFFICES ASSUME Init PROVE IInv
  OBVIOUS
<1> USE IntakeAssumption DEF Init
<1>1. TypeOK
  BY DEF TypeOK, Times, Empty, Documents
<1>2. CachesAreOfTheirUrls
  BY DEF CachesAreOfTheirUrls, Empty, Documents
<1>3. Stages
  BY DEF Stages
<1>4. AcceptedIsSound /\ FaultlessIsNotBlamed
  BY DEF AcceptedIsSound, FaultlessIsNotBlamed
<1> QED
  BY <1>1, <1>2, <1>3, <1>4 DEF IInv

\* What is fetched or cached for a version is its document or a stand-in.
LEMMA FetchedDocuments ==
  ASSUME CachesAreOfTheirUrls, NEW v \in Versions,
         NEW doc \in Fetched(schemaCache, v) \cup Fetched(contextCache, v)
  PROVE  doc \in {v, Local, Blank} /\ doc \in Documents /\ doc # None
BY IntakeAssumption DEF CachesAreOfTheirUrls, Fetched, Documents

-----------------------------------------------------------------------------
(***************************************************************************)
(* Each step preserves the invariant                                       *)
(***************************************************************************)

\* A request is taken: what the first checks found holds of it.
LEMMA ReceiveInv == IInv /\ Receive => IInv'
<1> SUFFICES ASSUME IInv, Receive PROVE IInv'
  OBVIOUS
<1> USE DEF IInv, Receive, caches
<1>1. PICK b \in Bodies :
        /\ body' = b
        /\ start' = now
        /\ IF b.envelope # 0 THEN Answer(b.envelope)
           ELSE IF ~ (SameDeclarer(b) /\ WellFormed(b)) THEN Answer(422)
           ELSE pc' = "supersedes" /\ answer' = 0
  OBVIOUS
<1>2. b \in Body /\ b # None /\ b.envelope \in {0, 400, 401, 405, 500}
  BY IntakeAssumption, BodyTypes
<1>3. /\ pc' \in {"supersedes", "answered"}
      /\ answer' \in {0, 400, 401, 405, 422, 500}
      /\ pc' = "supersedes" => answer' = 0 /\ b.envelope = 0 /\ SameDeclarer(b) /\ WellFormed(b)
  BY <1>1, <1>2 DEF Answer
<1>4. TypeOK'
  BY <1>1, <1>2, <1>3 DEF TypeOK
<1>5. CachesAreOfTheirUrls'
  BY DEF CachesAreOfTheirUrls
<1>6. Stages'
  BY <1>1, <1>2, <1>3 DEF Stages, SameDeclarer, WellFormed
<1>7. AcceptedIsSound'
  BY <1>3 DEF AcceptedIsSound
<1>8. FaultlessIsNotBlamed'
  <2> SUFFICES ASSUME pc' = "answered", Faultless(body)'
               PROVE  answer' \notin 400 .. 499
    BY DEF FaultlessIsNotBlamed
  <2>1. b.envelope = 0 /\ SameDeclarer(b) /\ WellFormed(b)
    BY <1>1 DEF Faultless, SameDeclarer, WellFormed
  <2> QED
    BY <1>1, <2>1
<1> QED
  BY <1>4, <1>5, <1>6, <1>7, <1>8

\* The lookups and the URLs.
LEMMA CheckSupersedesInv == IInv /\ CheckSupersedes => IInv'
<1> SUFFICES ASSUME IInv, CheckSupersedes PROVE IInv'
  OBVIOUS
<1> USE DEF IInv, CheckSupersedes, caches
<1>1. body \in Body /\ answer = 0
  BY DEF TypeOK, Stages
<1>2. \/ pc' = "answered" /\ answer' \in {400, 422, 500, 502}
      \/ /\ pc' = "schema" /\ answer' = 0 /\ body.supersedes # "invalid"
         /\ {body.schemaUrl, body.contextUrl} \subseteq Versions
  BY <1>1 DEF CheckUrls, Answer, UrlUsable
<1>3. TypeOK'
  BY <1>1, <1>2 DEF TypeOK
<1>4. CachesAreOfTheirUrls'
  BY DEF CachesAreOfTheirUrls
<1>5. Stages'
  BY <1>1, <1>2 DEF Stages, SameDeclarer, WellFormed
<1>6. AcceptedIsSound'
  BY <1>2 DEF AcceptedIsSound
<1>7. FaultlessIsNotBlamed'
  <2> SUFFICES ASSUME pc' = "answered", Faultless(body)'
               PROVE  answer' \notin 400 .. 499
    BY DEF FaultlessIsNotBlamed
  <2>1. /\ body.supersedes # "invalid" /\ HasIscc(body)
        /\ body.schemaUrl \in Versions /\ body.contextUrl \in Versions
    BY DEF Faultless, HasIscc
  <2>2. answer' \in {500, 502}
    BY <2>1, IntakeAssumption DEF CheckUrls, Answer, UrlUsable
  <2> QED
    BY <2>2
<1> QED
  BY <1>3, <1>4, <1>5, <1>6, <1>7

\* The schema is that of the URL, or a stand-in.
LEMMA FetchSchemaInv == IInv /\ FetchSchema => IInv'
<1> SUFFICES ASSUME IInv, FetchSchema PROVE IInv'
  OBVIOUS
<1> USE DEF IInv, FetchSchema
<1>1. PICK doc \in Fetched(schemaCache, body.schemaUrl) :
        /\ schema' = doc
        /\ schemaCache' = [schemaCache EXCEPT ![body.schemaUrl] = doc]
  OBVIOUS
<1>2. body \in Body /\ body # None /\ body.schemaUrl \in Versions /\ answer = 0
  BY DEF TypeOK, Stages
<1>3. doc \in {body.schemaUrl, Local, Blank} /\ doc \in Documents /\ doc # None
  BY <1>2, FetchedDocuments
<1>4. outage' = IF doc = body.schemaUrl THEN outage ELSE outage \cup {body.schemaUrl}
  BY <1>1 DEF NoteOutage
<1>5. CachesAreOfTheirUrls'
  <2> SUFFICES ASSUME NEW v \in Versions
               PROVE  /\ {schemaCache'[v], contextCache'[v]} \subseteq {None, v, Local, Blank}
                      /\ schemaCache'[v] \in {Local, Blank} => v \in outage'
    BY DEF CachesAreOfTheirUrls
  <2>1. CASE v = body.schemaUrl
    BY <2>1, <1>1, <1>3, <1>4, IntakeAssumption DEF CachesAreOfTheirUrls, TypeOK
  <2>2. CASE v # body.schemaUrl
    BY <2>2, <1>1, <1>4 DEF CachesAreOfTheirUrls, TypeOK
  <2> QED
    BY <2>1, <2>2
<1>6. Stages'
  <2>1. schema' = body.schemaUrl \/ InPlaceOf(body)'
    BY <1>1, <1>3, <1>4 DEF InPlaceOf
  <2> QED
    BY <1>2, <2>1 DEF Stages, SameDeclarer, WellFormed
<1>7. TypeOK'
  BY <1>1, <1>2, <1>3, <1>4 DEF TypeOK
<1>8. AcceptedIsSound' /\ FaultlessIsNotBlamed'
  BY <1>2 DEF AcceptedIsSound, FaultlessIsNotBlamed
<1> QED
  BY <1>5, <1>6, <1>7, <1>8

\* The rules, the schema and the context are judged together.
LEMMA FetchContextInv == IInv /\ FetchContext => IInv'
<1> SUFFICES ASSUME IInv, FetchContext PROVE IInv'
  OBVIOUS
<1> USE DEF IInv, FetchContext
<1>1. PICK doc \in Fetched(contextCache, body.contextUrl) :
        /\ contextCache' = [contextCache EXCEPT ![body.contextUrl] = doc]
        /\ IF BuiltIn(body) /\ Conforms(body, schema) /\ ContextUsable(doc)
           THEN pc' = "verify" /\ UNCHANGED answer
           ELSE Answer(422)
  OBVIOUS
<1>2. /\ body \in Body /\ body # None /\ body.contextUrl \in Versions /\ answer = 0
      /\ schema = body.schemaUrl \/ InPlaceOf(body)
  BY DEF TypeOK, Stages
<1>3. doc \in {body.contextUrl, Local, Blank} /\ doc \in Documents /\ doc # None
  BY <1>2, FetchedDocuments
<1>4. \/ pc' = "verify" /\ answer' = 0 /\ BuiltIn(body) /\ Conforms(body, schema)
      \/ pc' = "answered" /\ answer' = 422
  BY <1>1, <1>2 DEF Answer
<1>5. TypeOK'
  BY <1>1, <1>2, <1>3, <1>4 DEF TypeOK
<1>6. CachesAreOfTheirUrls'
  BY <1>1, <1>2, <1>3 DEF CachesAreOfTheirUrls, TypeOK
<1>7. Stages'
  BY <1>2, <1>4 DEF Stages, SameDeclarer, WellFormed, BuiltIn, Conforms, InPlaceOf
<1>8. AcceptedIsSound'
  BY <1>4 DEF AcceptedIsSound
<1>9. FaultlessIsNotBlamed'
  <2> SUFFICES ASSUME pc' = "answered", Faultless(body)',
                      contextCache'[body.contextUrl] # Blank,
                      ~ (InPlaceOf(body) /\ schema = Local /\ Local \notin body.conforms)
               PROVE  FALSE
    BY DEF FaultlessIsNotBlamed, InPlaceOf
  <2>1. BuiltIn(body) /\ Conforms(body, schema)
    BY <1>2 DEF Faultless, BuiltIn, Conforms, InPlaceOf
  <2>2. ContextUsable(doc)
    BY <1>1, <1>2 DEF ContextUsable, TypeOK
  <2> QED
    BY <1>1, <2>1, <2>2
<1> QED
  BY <1>5, <1>6, <1>7, <1>8, <1>9

\* The checks that need no call.
LEMMA VerifyInv == IInv /\ Verify => IInv'
<1> SUFFICES ASSUME IInv, Verify PROVE IInv'
  OBVIOUS
<1> USE DEF IInv, Verify, caches
<1> DEFINE Passes ==
      /\ Timely(body.timestamp)
      /\ MainVerified(body)
      /\ RegistryVerified(body)
      /\ OptOutVerified(body)
      /\ IdentifierMatches(body)
      /\ RegistryTimely(body)
<1>1. /\ pc' = "answered"
      /\ (Passes /\ answer' = 202) \/ (~ Passes /\ answer' = 400)
  BY DEF Answer
<1> HIDE DEF Passes
<1>2. /\ body \in Body /\ body # None /\ body.envelope = 0
      /\ SameDeclarer(body) /\ WellFormed(body) /\ body.supersedes # "invalid"
      /\ BuiltIn(body) /\ Conforms(body, schema)
      /\ schema = body.schemaUrl \/ InPlaceOf(body)
      /\ body.schemaUrl \in Versions
  BY DEF TypeOK, Stages
<1>3. /\ "main" \in body.sections /\ body.sections \subseteq Sections
      /\ body.timestamp \in Nat /\ body.registryTimestamp \in Nat
      /\ body.key \in [Sections -> {"embedded", "pinned", "unknown"}]
  BY <1>2, BodyTypes
<1>4. TypeOK'
  BY <1>1 DEF TypeOK
<1>5. CachesAreOfTheirUrls'
  BY DEF CachesAreOfTheirUrls
<1>6. Stages'
  BY <1>1, <1>2 DEF Stages
<1>7. AcceptedIsSound'
  <2> SUFFICES ASSUME answer' = 202 PROVE AcceptedIsSound'
    BY DEF AcceptedIsSound
  <2>1. Passes
    BY <1>1
  <2>2. \A t \in {body.timestamp} \cup
               (IF "registry" \in body.sections THEN {body.registryTimestamp} ELSE {}) :
          t # 0 => t <= start + Window /\ start <= t + Window
    BY <1>3, <2>1, TimelyIsWindow DEF Passes, RegistryTimely
  <2>3. ~ body.bypassed =>
          /\ body.covered
          /\ body.sections \subseteq body.stamped
          /\ \A s \in body.sections :
               \/ body.key[s] = "embedded"
               \/ body.pinned /\ body.key[s] = "pinned"
               \/ s = "registry" /\ ~ body.pinned
    BY <1>3, <2>1 DEF Passes, MainVerified, RegistryVerified, OptOutVerified,
                      KeyVerifies, Stamped, Sections
  <2>4. body.identifier # "wrong"
    BY <2>1 DEF Passes, IdentifierMatches
  <2>5. \/ body.schemaUrl \in body.conforms
        \/ InPlaceOf(body) /\ schema \in body.conforms \cup {Blank}
    BY <1>2, <1>3, IntakeAssumption DEF Conforms, TypeOK
  <2> QED
    BY <1>2, <2>2, <2>3, <2>4, <2>5
       DEF AcceptedIsSound, SameDeclarer, WellFormed, BuiltIn, InPlaceOf
<1>8. FaultlessIsNotBlamed'
  <2> SUFFICES ASSUME Faultless(body) PROVE answer' \notin 400 .. 499
    BY DEF FaultlessIsNotBlamed, Faultless
  <2>1. Timely(body.timestamp) /\ Timely(body.registryTimestamp)
    BY <1>3, TimelyIsWindow DEF Faultless
  <2>2. MainVerified(body) /\ RegistryVerified(body) /\ OptOutVerified(body)
    BY <1>3 DEF Faultless, MainVerified, RegistryVerified, OptOutVerified,
                KeyVerifies, Stamped
  <2>3. Passes
    BY <2>1, <2>2 DEF Faultless, Passes, IdentifierMatches, RegistryTimely
  <2> QED
    BY <1>1, <2>3
<1> QED
  BY <1>4, <1>5, <1>6, <1>7, <1>8

\* The answer is returned, the container is replaced, or time passes.
LEMMA OtherInv == IInv /\ (Return \/ Recycle \/ Tick \/ UNCHANGED vars) => IInv'
<1> SUFFICES ASSUME IInv, Return \/ Recycle \/ Tick \/ UNCHANGED vars
             PROVE  IInv'
  OBVIOUS
<1> USE DEF IInv
<1>1. CASE Return
  BY <1>1, IntakeAssumption
     DEF Return, caches, TypeOK, CachesAreOfTheirUrls, Stages, AcceptedIsSound,
         FaultlessIsNotBlamed
<1>2. CASE Recycle
  BY <1>2, IntakeAssumption
     DEF Recycle, Empty, Documents, TypeOK, CachesAreOfTheirUrls, Stages, AcceptedIsSound,
         FaultlessIsNotBlamed
<1>3. CASE Tick \/ UNCHANGED vars
  <2>1. UNCHANGED <<pc, body, start, schema, answer, caches>>
    BY <1>3 DEF Tick, vars, caches
  <2>2. now' \in Times
    BY <1>3, IntakeAssumption DEF Tick, vars, TypeOK, Times
  <2>3. TypeOK'
    BY <2>1, <2>2 DEF TypeOK, caches
  <2>4. CachesAreOfTheirUrls' /\ Stages'
    BY <2>1 DEF CachesAreOfTheirUrls, Stages, SameDeclarer, WellFormed, BuiltIn,
                Conforms, InPlaceOf, caches
  <2>5. AcceptedIsSound' /\ FaultlessIsNotBlamed'
    BY <2>1 DEF AcceptedIsSound, FaultlessIsNotBlamed, Faultless, InPlaceOf, caches
  <2> QED
    BY <2>3, <2>4, <2>5
<1> QED
  BY <1>1, <1>2, <1>3

-----------------------------------------------------------------------------
(***************************************************************************)
(* Theorems                                                                *)
(***************************************************************************)

\* What is known of the request at each point of the handler (ingest.ts).
THEOREM Invariance == Spec => []IInv
<1>1. IInv /\ [Next]_vars => IInv'
  BY ReceiveInv, CheckSupersedesInv, FetchSchemaInv, FetchContextInv, VerifyInv,
     OtherInv DEF Next
<1> QED
  BY <1>1, InitInv, PTL DEF Spec

\* The variables of a container keep their types: every answer is one of the
\* handler's status codes, and a checked request has a document it was checked by.
THEOREM TypeCorrect == Spec => []TypeOK
<1>1. IInv => TypeOK
  BY DEF IInv
<1> QED
  BY <1>1, Invariance, PTL

\* A declaration leaves intake only after the checks of AcceptedIsSound: it conforms
\* to the schema it names unless this container fetched that one in vain, and every
\* JWT is verified but for one of a registry section where no key is pinned.
THEOREM OnlySoundIsAccepted == Spec => []AcceptedIsSound
<1>1. IInv => AcceptedIsSound
  BY DEF IInv
<1> QED
  BY <1>1, Invariance, PTL

\* A faultless request is answered 4xx only where a document of the server was
\* replaced: the embedded schema judges it wrongly, or the context is none.
THEOREM NoFalseBlame == Spec => []FaultlessIsNotBlamed
<1>1. IInv => FaultlessIsNotBlamed
  BY DEF IInv
<1> QED
  BY <1>1, Invariance, PTL

=============================================================================
