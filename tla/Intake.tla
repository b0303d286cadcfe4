-------------------------------- MODULE Intake --------------------------------
(***************************************************************************)
(* The checks of the ingest Lambda (ingest.ts) between the arrival of a    *)
(* POST and the creation of its pending row, where DeclarationPipeline     *)
(* goes on.  One container of the Lambda is modelled: it serves one        *)
(* request at a time, keeps the schema and context documents it fetched    *)
(* for as long as it lives, and shares nothing with other containers but   *)
(* the clock and the tables.                                               *)
(*                                                                         *)
(* A body is a record of what the checks tell apart.  It has a main        *)
(* section and optional registry and optOut sections, each with a JWT and  *)
(* a TSA stamp.                                                            *)
(***************************************************************************)
EXTENDS Naturals, FiniteSets

CONSTANTS
  Bodies,      \* the requests that clients send
  Versions,    \* versions whose schema and context URLs are allowed
  Local,       \* the documents embedded in ingest.ts
  Blank,       \* a JSON object that is neither a schema nor a context
  None,
  Window,      \* the 60 s
  MaxTime      \* a bound on the clock

Sections == {"main", "registry", "optOut"}
Documents == Versions \cup {Local, Blank}
Times == 0 .. MaxTime

Body == [
  envelope : {0, 400, 401, 405, 500}, \* refused before the body is looked at
  bypassed : BOOLEAN,                 \* by a declarer exempt of strict checks
  pinned : BOOLEAN,                   \* by a declarer with a pinned public key
  declarer : {"same", "other", "missing"}, \* declarerId against x-declarer-id
  sections : {S \in SUBSET Sections : "main" \in S},
  complete : SUBSET Sections,         \* whose fields, JWT and stamp are well-formed
  supersedes : {"none", "valid", "invalid"},
  iscc : {"exact", "embedded", "none"}, \* is, or only contains, an ISCC
  schemaUrl : Versions \cup {"absent", "foreign", "untyped"}, \* foreign: or too
  contextUrl : Versions \cup {"absent", "foreign", "untyped"}, \* old; untyped: no string
  lawful : BOOLEAN,                   \* obeys the other built-in rules
  conforms : SUBSET Documents,        \* the schemas it conforms to
  timestamp : Times,
  registryTimestamp : Times,
  key : [Sections -> {"embedded", "pinned", "unknown"}], \* verifies the JWT
  covered : BOOLEAN,                  \* the main JWT holds the required fields,
                                      \* and all it holds are as published
  stamped : SUBSET Sections,          \* whose TSA stamp is of their JWT
  identifier : {"absent", "right", "wrong"}]

ASSUME IntakeAssumption ==
  /\ Bodies \subseteq Body
  /\ None \notin Body /\ None \notin Documents
  /\ Versions \cap {"absent", "foreign", "untyped"} = {}
  /\ Local # Blank /\ Local \notin Versions /\ Blank \notin Versions
  /\ Window \in Nat /\ MaxTime \in Nat \ {0}

VARIABLES
  now,         \* Date.now()
  pc,          \* what the container does next
  body,        \* the request it serves
  start,       \* ingestStartTime
  schema,      \* the schema the request was checked against
  answer,      \* the status code, 0 before
  schemaCache,
  contextCache,
  outage       \* history: versions whose schema this container fetched in vain

caches == <<schemaCache, contextCache, outage>>
vars == <<now, pc, body, start, schema, answer, schemaCache, contextCache, outage>>

Empty == [v \in Versions |-> None]

TypeOK ==
  /\ now \in Times
  /\ pc \in {"idle", "supersedes", "schema", "context", "verify", "answered"}
  /\ body \in Body \cup {None}
  /\ start \in Times
  /\ schema \in Documents \cup {None}
  /\ pc \in {"context", "verify"} => body # None /\ schema # None
  /\ answer \in {0, 202, 400, 401, 405, 422, 500, 502}
  /\ schemaCache \in [Versions -> Documents \cup {None}]
  /\ contextCache \in [Versions -> Documents \cup {None}]
  /\ outage \subseteq Versions

Init ==
  /\ now = 1
  /\ pc = "idle"
  /\ body = None
  /\ start = 0
  /\ schema = None
  /\ answer = 0
  /\ schemaCache = Empty
  /\ contextCache = Empty
  /\ outage = {}

-----------------------------------------------------------------------------
(***************************************************************************)
(* The checks                                                              *)
(***************************************************************************)

SameDeclarer(b) == b.bypassed \/ b.declarer = "same"

\* validateFullDeclarationStructure, which also asks for a declarerId.
WellFormed(b) == b.sections \subseteq b.complete /\ b.declarer # "missing"

\* The early pattern of the ISCC is not anchored, the later one is.
HasIscc(b) == b.iscc # "none"

\* validateSchemaUrl
UrlUsable(url) == url \in Versions

\* validatePublicMetadataStructure and validateCommonsDbRegistryStructure
BuiltIn(b) == b.lawful /\ b.iscc = "exact"

\* validateAgainstJsonSchema with the sub-schemas of the document, if it has any.
Conforms(b, doc) == doc = Blank \/ doc \in b.conforms

\* validateContextStructure: the document has an @context.
ContextUsable(doc) == doc # Blank

Distance(s, t) == IF s < t THEN t - s ELSE s - t

\* Faulty: compared with the time of the comparison.
Timely_Now(t) == t = 0 \/ Distance(t, now) <= Window
\* isTimestampWithin60Seconds of the time of arrival; 0 counts as no timestamp.
Timely(t) == t = 0 \/ Distance(t, start) <= Window

\* verifyJwtWithEmbeddedJwk, then the pinned key of the declarer's company.
KeyVerifies(b, s) == b.key[s] = "embedded" \/ (b.pinned /\ b.key[s] = "pinned")

\* verifyTsaSignatureContentOnly
Stamped(b, s) == s \in b.stamped

MainVerified(b) ==
  b.bypassed \/ (KeyVerifies(b, "main") /\ b.covered /\ Stamped(b, "main"))

\* A registry JWT that no key verifies is an error only where a key is pinned.
RegistryVerified(b) ==
  "registry" \in b.sections /\ ~ b.bypassed =>
    (KeyVerifies(b, "registry") \/ ~ b.pinned) /\ Stamped(b, "registry")

OptOutVerified(b) ==
  "optOut" \in b.sections /\ ~ b.bypassed =>
    KeyVerifies(b, "optOut") /\ Stamped(b, "optOut")

\* The client's identifier, if any, is the CID of the public metadata.
IdentifierMatches(b) == b.identifier # "wrong"

RegistryTimely(b) == "registry" \in b.sections => Timely(b.registryTimestamp)

-----------------------------------------------------------------------------
(***************************************************************************)
(* The handler                                                             *)
(***************************************************************************)

Answer(status) == pc' = "answered" /\ answer' = status

\* Method, API key, JSON and declarer header; then the checks that need no call.
Receive ==
  /\ pc = "idle"
  /\ \E b \in Bodies :
       /\ body' = b
       /\ start' = now
       /\ IF b.envelope # 0 THEN Answer(b.envelope)
          ELSE IF ~ (SameDeclarer(b) /\ WellFormed(b)) THEN Answer(422)
          ELSE pc' = "supersedes" /\ answer' = 0
  /\ schema' = None
  /\ UNCHANGED <<now, caches>>

\* The ISCC and the URLs.  A URL that is no string makes the check itself fail.
CheckUrls ==
  LET urls == {body.schemaUrl, body.contextUrl} IN
    IF ~ HasIscc(body) THEN Answer(400)
    ELSE IF "absent" \in urls THEN Answer(422)
    ELSE IF "untyped" \in urls THEN Answer(502)
    ELSE IF \E url \in urls : ~ UrlUsable(url) THEN Answer(422)
    ELSE pc' = "schema" /\ UNCHANGED answer

\* validateSupersedes, whose lookups may fail.
CheckSupersedes ==
  /\ pc = "supersedes"
  /\ \/ body.supersedes # "none" /\ Answer(500)
     \/ IF body.supersedes = "invalid" THEN Answer(422) ELSE CheckUrls
  /\ UNCHANGED <<now, body, start, schema, caches>>

\* Faulty: the cache is read without a look whether it holds the document.
Fetched_Unfilled(cache, v) == {cache[v]}
\* fetchJsonDocument: what the cache holds, else what the server sends, else,
\* when the fetch fails, the local document.
Fetched(cache, v) == IF cache[v] # None THEN {cache[v]} ELSE {v, Blank, Local}

\* A fetch that fails, or brings JSON that is no schema.
NoteOutage(v, doc) == outage' = IF doc = v THEN outage ELSE outage \cup {v}

\* Faulty: one slot for the schemas of all URLs.
FetchSchema_OneSlot ==
  /\ pc = "schema"
  /\ \E doc \in Fetched(schemaCache, body.schemaUrl) :
       /\ schema' = doc
       /\ schemaCache' = [v \in Versions |-> doc]
       /\ outage' = IF doc \in Versions THEN outage ELSE outage \cup {body.schemaUrl}
  /\ pc' = "context"
  /\ UNCHANGED <<now, body, start, answer, contextCache>>
\* What was fetched, or put in its place, is cached for the life of the container.
FetchSchema ==
  /\ pc = "schema"
  /\ \E doc \in Fetched(schemaCache, body.schemaUrl) :
       /\ schema' = doc
       /\ schemaCache' = [schemaCache EXCEPT ![body.schemaUrl] = doc]
       /\ NoteOutage(body.schemaUrl, doc)
  /\ pc' = "context"
  /\ UNCHANGED <<now, body, start, answer, contextCache>>

\* All errors of the built-in rules, the schema and the context are answered
\* together.
FetchContext ==
  /\ pc = "context"
  /\ \E doc \in Fetched(contextCache, body.contextUrl) :
       /\ contextCache' = [contextCache EXCEPT ![body.contextUrl] = doc]
       /\ IF BuiltIn(body) /\ Conforms(body, schema) /\ ContextUsable(doc)
          THEN pc' = "verify" /\ UNCHANGED answer
          ELSE Answer(422)
  /\ UNCHANGED <<now, body, start, schema, schemaCache, outage>>

\* The rest needs no call.  202 stands for the steps of DeclarationPipeline.
Verify ==
  /\ pc = "verify"
  /\ IF /\ Timely(body.timestamp)
        /\ MainVerified(body)
        /\ RegistryVerified(body)
        /\ OptOutVerified(body)
        /\ IdentifierMatches(body)
        /\ RegistryTimely(body)
     THEN Answer(202)
     ELSE Answer(400)
  /\ UNCHANGED <<now, body, start, schema, caches>>

Return ==
  /\ pc = "answered"
  /\ pc' = "idle"
  /\ answer' = 0
  /\ body' = None
  /\ schema' = None
  /\ UNCHANGED <<now, start, caches>>

\* The container times out or is replaced, and a new one is started.
Recycle ==
  /\ pc' = "idle"
  /\ answer' = 0
  /\ body' = None
  /\ schema' = None
  /\ schemaCache' = Empty
  /\ contextCache' = Empty
  /\ outage' = {}
  /\ UNCHANGED <<now, start>>

Tick ==
  /\ now < MaxTime
  /\ now' = now + 1
  /\ UNCHANGED <<pc, body, start, schema, answer, caches>>

Next ==
  \/ Receive
  \/ CheckSupersedes
  \/ FetchSchema
  \/ FetchContext
  \/ Verify
  \/ Return
  \/ Recycle
  \/ Tick

Spec == Init /\ [][Next]_vars

-----------------------------------------------------------------------------
(***************************************************************************)
(* Properties                                                              *)
(***************************************************************************)

\* The schema that a request was checked against is not the one it names, which this
\* container once fetched in vain: the embedded one, or one that checks nothing.
InPlaceOf(b) == schema \in {Local, Blank} /\ b.schemaUrl \in outage

\* A declaration leaves intake only if it is by the declarer the gateway vouches for
\* (or by an exempt one), within the window on arrival where it has a timestamp,
\* under the ISCC it is for and the built-in rules; and only if it conforms to the
\* schema it names, unless this container fetched that schema in vain, now or for an
\* earlier request: then the embedded schema counts, or none where the server sent
\* JSON that is no schema (fetchJsonDocument).  All sections of one that is not
\* exempt are stamped, and the JWT of each is verified by a key, but for that of
\* the registry section where no key is pinned.  All this however long the calls in
\* between took and whatever earlier requests left in the container.
AcceptedIsSound ==
  answer = 202 =>
    /\ body.declarer = "same" \/ body.bypassed
    /\ body.sections \subseteq body.complete
    /\ body.supersedes # "invalid" /\ body.identifier # "wrong"
    /\ body.iscc = "exact" /\ body.lawful
    /\ \/ body.schemaUrl \in body.conforms
       \/ InPlaceOf(body) /\ schema \in body.conforms \cup {Blank}
    /\ \A t \in {body.timestamp} \cup
              (IF "registry" \in body.sections THEN {body.registryTimestamp} ELSE {}) :
         t # 0 => t <= start + Window /\ start <= t + Window
    /\ ~ body.bypassed =>
         /\ body.covered
         /\ body.sections \subseteq body.stamped
         /\ \A s \in body.sections :
              \/ body.key[s] = "embedded"
              \/ body.pinned /\ body.key[s] = "pinned"
              \/ s = "registry" /\ ~ body.pinned

\* A request without a fault, at the time it arrives.
Faultless(b) ==
  /\ b.envelope = 0 /\ b.declarer = "same" /\ b.sections \subseteq b.complete
  /\ b.supersedes # "invalid" /\ b.identifier # "wrong"
  /\ b.iscc = "exact" /\ b.lawful
  /\ {b.schemaUrl, b.contextUrl} \subseteq Versions
  /\ b.schemaUrl \in b.conforms
  /\ \A t \in {b.timestamp, b.registryTimestamp} :
       t <= start + Window /\ start <= t + Window
  /\ b.covered /\ b.sections \subseteq b.stamped
  /\ \A s \in b.sections : b.key[s] = "embedded"

\* A client is not blamed (4xx) for what is not its fault: not for a slow fetch
\* of the schema or context that uses up the window (the time is compared with
\* ingestStartTime), and not for a lookup that fails.  For a document server that
\* fails it is blamed in two cases only: its declaration conforms to the schema it
\* names and not to the embedded one, and this container fetched the named one in
\* vain, now or earlier; or its context URL answered with JSON that is no context.
\* Both last as long as the container, which keeps what it put in their place.
FaultlessIsNotBlamed ==
  pc = "answered" /\ Faultless(body) /\ answer \in 400 .. 499 =>
    \/ InPlaceOf(body) /\ schema = Local /\ Local \notin body.conforms
    \/ contextCache[body.contextUrl] = Blank

\* Why these hold: what is known of the request at each point of the handler.
CachesAreOfTheirUrls ==
  \A v \in Versions :
    /\ {schemaCache[v], contextCache[v]} \subseteq {None, v, Local, Blank}
    /\ schemaCache[v] \in {Local, Blank} => v \in outage

Stages ==
  /\ pc # "answered" => answer = 0
  /\ pc \in {"supersedes", "schema", "context", "verify"} =>
       body # None /\ body.envelope = 0 /\ SameDeclarer(body) /\ WellFormed(body)
  /\ pc \in {"schema", "context", "verify"} =>
       body.supersedes # "invalid" /\ {body.schemaUrl, body.contextUrl} \subseteq Versions
  /\ pc \in {"context", "verify"} => schema = body.schemaUrl \/ InPlaceOf(body)
  /\ pc = "verify" => BuiltIn(body) /\ Conforms(body, schema)
  /\ pc = "answered" => body # None

IInv ==
  TypeOK /\ CachesAreOfTheirUrls /\ Stages /\ AcceptedIsSound /\ FaultlessIsNotBlamed

=============================================================================
