------------------------------- MODULE ReadPath -------------------------------
(***************************************************************************)
(* The read path: the three similarity searches (search.ts, searchIscc.ts, *)
(* searchByDeclarer.ts), the two lists (getLatest.ts, getRandom.ts) and    *)
(* the lookups by identifier (getFullMetadataByIdentifier.ts, and          *)
(* getByIdentifier.ts with its twin getByDecId.ts), each a sequence of     *)
(* reads of the search service, DynamoDB and S3, while declarations are    *)
(* indexed and redactions written.                                         *)
(*                                                                         *)
(* Reads of DynamoDB are eventually consistent, and a batch read may leave *)
(* keys unprocessed, which no caller looks at.                             *)
(***************************************************************************)
EXTENDS Naturals, FiniteSets

CONSTANTS
  Items,         \* item ids: one for each delivery of a declaration
  Declarations,  \* identifiers
  Products,      \* values of publicMetadata.entryUUID
  ItemOf,        \* the declaration an item id was minted for
  ProductOf,     \* publicMetadata.entryUUID, or None
  Score,         \* distance of an item to the ISCC that is searched for
  Screened,      \* what an endpoint drops by date and by its denylist
  Legacy,        \* declarations whose row was written without an s3Path
  Readers,       \* calls of an endpoint
  Endpoints,     \* those that are called
  HitLimit,      \* the most hits the search service returns: 100
  BatchMax,      \* BATCH_GET_MAX_KEYS
  None

Searches == {"search", "searchIscc", "searchByDeclarer"}
Lists    == {"latest", "random"}
Lookups  == {"full", "byIdentifier", "byDecId"}
Public   == {"byIdentifier", "byDecId"}

ASSUME ReadAssumption ==
  /\ Items \cap Declarations = {}
  /\ None \notin Products
  /\ ItemOf \in [Items -> Declarations]
  /\ ProductOf \in [Declarations -> Products \cup {None}]
  /\ Score \in [Items -> Nat]
  /\ Endpoints \subseteq Searches \cup Lists \cup Lookups
  /\ Screened \in [Endpoints -> SUBSET Declarations]
  /\ Legacy \subseteq Declarations
  /\ HitLimit \in Nat \ {0}
  /\ BatchMax \in Nat \ {0}

\* The rows of the tables that are read here.
FlagRows == ({"redacted"} \X Declarations) \cup ({"product"} \X Products)
Rows == ({"map"} \X Items) \cup ({"identifier"} \X Declarations) \cup FlagRows

VARIABLES
  item,        \* how far the indexing of an item id has come
  indexed,     \* item ids the search service knows
  registered,  \* IdentifiersOfDeclaration
  pathless,    \* its rows without an s3Path
  flags,       \* Redacted and RedactedProducts: the rows with redacted = 1
  fresh,       \* rows whose last change has not reached every replica
  at,          \* where a call stands
  endpoint,    \* the endpoint it is of
  entries,     \* hits, then rows, then documents, then results of a call
  pending,     \* flag rows it has still to read
  flagged,     \* flag rows it has read as redacted
  unread,      \* history: keys a batch read of it left unprocessed
  hidden,      \* history: flag rows set, for every replica, since it started
  lasting,     \* history: items that could be found ever since it started
  crowd        \* history: the hits it got, where the service knew more items

indexVars == <<item, indexed, registered>>
tableVars == <<item, indexed, registered, pathless, flags, fresh>>
callVars  == <<at, endpoint, entries, pending, flagged, unread>>
pastVars  == <<hidden, lasting, crowd>>
vars == <<item, indexed, registered, pathless, flags, fresh, at, endpoint,
          entries, pending, flagged, unread, hidden, lasting, crowd>>

Entries == Items \cup Declarations
Working == {"query", "rows", "cure", "hydrate", "products", "identifiers"}

TypeOK ==
  /\ item \in [Items -> {"new", "emitted", "stored", "mapped"}]
  /\ indexed \subseteq Items
  /\ registered \subseteq Declarations /\ pathless \subseteq registered
  /\ flags \subseteq FlagRows /\ fresh \subseteq Rows
  /\ at \in [Readers -> {"idle", "answered", "error"} \cup Working]
  /\ endpoint \in [Readers -> Endpoints \cup {None}]
  /\ entries \in [Readers -> SUBSET Entries]
  /\ pending \in [Readers -> SUBSET FlagRows]
  /\ flagged \in [Readers -> SUBSET FlagRows]
  /\ unread \in [Readers -> SUBSET Rows]
  /\ hidden \in [Readers -> SUBSET FlagRows]
  /\ lasting \in [Readers -> SUBSET Items]
  /\ crowd \in [Readers -> SUBSET Items]

Init ==
  /\ item = [i \in Items |-> "new"]
  /\ indexed = {}
  /\ registered = Legacy
  /\ pathless = Legacy
  /\ flags = {}
  /\ fresh = {}
  /\ at = [q \in Readers |-> "idle"]
  /\ endpoint = [q \in Readers |-> None]
  /\ entries = [q \in Readers |-> {}]
  /\ pending = [q \in Readers |-> {}]
  /\ flagged = [q \in Readers |-> {}]
  /\ unread = [q \in Readers |-> {}]
  /\ hidden = [q \in Readers |-> {}]
  /\ lasting = [q \in Readers |-> {}]
  /\ crowd = [q \in Readers |-> {}]

\* The declaration an item or a row of IdentifiersOfDeclaration stands for.
DeclarationOf(x) == IF x \in Items THEN ItemOf[x] ELSE x

\* The flag rows that say whether an entry is redacted.
IdentifierRow(x) == {<<"redacted", DeclarationOf(x)>>}
ProductRow(x) ==
  IF ProductOf[DeclarationOf(x)] = None THEN {}
  ELSE {<<"product", ProductOf[DeclarationOf(x)]>>}
FlagRowsOf(x) == IdentifierRow(x) \cup ProductRow(x)

-----------------------------------------------------------------------------
(***************************************************************************)
(* Indexing and redaction                                                  *)
(***************************************************************************)

\* Each delivery mints an item id, emits it, stores the JSON and maps the id.
\* It may die, or fail, after each of these writes.
IndexStep(i) ==
  /\ \/ item[i] = "new" /\ item' = [item EXCEPT ![i] = "emitted"]
     \/ item[i] = "emitted" /\ item' = [item EXCEPT ![i] = "stored"]
     \/ item[i] = "stored" /\ item' = [item EXCEPT ![i] = "mapped"]
  /\ fresh' = IF item[i] = "stored" THEN fresh \cup {<<"map", i>>} ELSE fresh
  /\ UNCHANGED <<indexed, registered, pathless, flags, callVars, pastVars>>

\* writeDecIdMappingToDB, after the mapping of an item id: the whole row.
Register(i) ==
  /\ item[i] = "mapped"
  /\ ItemOf[i] \notin registered \/ ItemOf[i] \in pathless
  /\ registered' = registered \cup {ItemOf[i]}
  /\ pathless' = pathless \ {ItemOf[i]}
  /\ fresh' = fresh \cup {<<"identifier", ItemOf[i]>>}
  /\ UNCHANGED <<item, indexed, flags, callVars, pastVars>>

\* The search service takes the event of an item from the index stream, which
\* may be before the item is mapped.
ServiceIndexes(i) ==
  /\ item[i] # "new"
  /\ i \notin indexed
  /\ indexed' = indexed \cup {i}
  /\ UNCHANGED <<item, registered, pathless, flags, fresh, callVars, pastVars>>

\* The redact endpoint sets or clears a flag; rows of a batch change one by one.
SetFlag(k) ==
  /\ flags' = IF k \in flags THEN flags \ {k} ELSE flags \cup {k}
  /\ fresh' = fresh \cup {k}
  /\ hidden' = [q \in Readers |-> hidden[q] \ {k}]
  /\ lasting' = [q \in Readers |-> {i \in lasting[q] : k \notin FlagRowsOf(i)}]
  /\ UNCHANGED <<indexVars, pathless, callVars, crowd>>

\* The last change of a row reaches all replicas.
Settle(k) ==
  /\ k \in fresh
  /\ fresh' = fresh \ {k}
  /\ UNCHANGED <<indexVars, pathless, flags, callVars, pastVars>>

Stored(d) == d \in Legacy \/ \E i \in Items : ItemOf[i] = d /\ item[i] \in {"stored", "mapped"}
Mapped == {i \in Items : item[i] = "mapped"}

-----------------------------------------------------------------------------
(***************************************************************************)
(* A call of an endpoint.  What is read is in entries, and the next await  *)
(* in at.                                                                  *)
(***************************************************************************)

Cutoff(e) == IF e = "search" THEN 4 ELSE 16
Near(e) == {i \in Items : Score[i] < Cutoff(e)}

\* Items that a search starting now should find.
Findable(e) ==
  {i \in Near(e) : /\ i \in indexed /\ item[i] = "mapped" /\ <<"map", i>> \notin fresh
                   /\ FlagRowsOf(i) \cap (flags \cup fresh) = {}}

Start(q) ==
  /\ at[q] = "idle"
  /\ \E e \in Endpoints :
       /\ endpoint' = [endpoint EXCEPT ![q] = e]
       /\ lasting' = [lasting EXCEPT ![q] = Findable(e)]
       /\ \/ e \in Lookups /\ \E d \in Declarations :
                                entries' = [entries EXCEPT ![q] = {d}]
          \/ e \notin Lookups /\ UNCHANGED entries
       /\ at' = [at EXCEPT ![q] = IF e \in Searches THEN "query" ELSE "rows"]
  /\ hidden' = [hidden EXCEPT ![q] = flags \ fresh]
  /\ UNCHANGED <<tableVars, pending, flagged, unread, crowd>>

Continue(q, found, next) ==
  /\ entries' = [entries EXCEPT ![q] = found]
  /\ at' = [at EXCEPT ![q] = next]

\* What the service may return: the items it knows that are nearest, whether or not
\* they are mapped or redacted, and of equally near ones any, up to its limit.
Nearest(S) ==
  /\ Cardinality(S) <= HitLimit
  /\ S = indexed \/ Cardinality(S) = HitLimit
  /\ \A i \in S, j \in indexed \ S : Score[i] <= Score[j]

\* searchSimilarIscc, then the cutoff.
Query(q) ==
  /\ at[q] = "query"
  /\ \E returned \in SUBSET indexed :
       LET hits == returned \cap Near(endpoint[q]) IN
         /\ Nearest(returned)
         /\ Continue(q, hits, IF hits = {} THEN "answered" ELSE "rows")
         /\ crowd' = [crowd EXCEPT ![q] = IF returned = indexed THEN {} ELSE returned]
  /\ UNCHANGED <<tableVars, endpoint, pending, flagged, unread, hidden, lasting>>

\* getBatchS3PathsByVectorIds: hits without a row, hits whose new row is not yet
\* seen and hits left unprocessed are dropped.
ReadPaths(q) ==
  /\ at[q] = "rows"
  /\ \E seen, unprocessed \in SUBSET (entries[q] \cap Mapped) :
       /\ \A i \in entries[q] \cap Mapped :
            i \in seen \cup unprocessed \/ <<"map", i>> \in fresh
       /\ Continue(q, seen, "hydrate")
       /\ unread' = [unread EXCEPT ![q] = @ \cup ({"map"} \X unprocessed)]
  /\ UNCHANGED <<tableVars, endpoint, pending, flagged, pastVars>>

\* getLatest100S3Paths and getRandom50S3Paths: a choice among the mapped items.
\* It stands for the limits of both and for getRandom's second choice, which
\* comes before the flags are read.
ListPaths(q) ==
  /\ at[q] = "rows"
  /\ \E listed \in SUBSET Mapped :
       Continue(q, listed, IF listed = {} THEN "answered" ELSE "hydrate")
  /\ UNCHANGED <<tableVars, endpoint, pending, flagged, unread, pastVars>>

\* The row of an identifier as a replica may hold it.
RowSeen(d) == d \in registered
RowMissed(d) == d \notin registered \/ <<"identifier", d>> \in fresh

\* getS3PathByIdentifier: an error of the read counts as "no such row".
LookUpPath(q) ==
  /\ at[q] = "rows"
  /\ \E d \in entries[q] :
       \/ RowSeen(d) /\ Continue(q, {d}, IF d \in pathless THEN "cure" ELSE "hydrate")
       \/ Continue(q, {}, "answered")
  /\ UNCHANGED <<tableVars, endpoint, pending, flagged, unread, pastVars>>

\* searchForJsonFileInS3 and the update that cures the row.  A read that fails
\* counts as "not there", a write that fails is only logged.
CurePath(q) ==
  /\ at[q] = "cure"
  /\ \/ /\ \A d \in entries[q] : Stored(d)
        /\ Continue(q, entries[q], "hydrate")
        /\ pathless' \in {pathless, pathless \ entries[q]}
     \/ Continue(q, {}, "answered") /\ UNCHANGED pathless
  /\ UNCHANGED <<indexVars, flags, fresh, endpoint, pending, flagged, unread, pastVars>>

\* getContentByIdentifier: the content of the row is the answer, or 404.
LookUpContent(q) ==
  /\ at[q] = "rows"
  /\ \E d \in entries[q] :
       \/ RowSeen(d) /\ Continue(q, {d}, "answered")
       \/ RowMissed(d) /\ Continue(q, {}, "answered")
  /\ UNCHANGED <<tableVars, endpoint, pending, flagged, unread, pastVars>>

\* Faulty: documents that could not be read are left out.
Hydrate_Partial(q) ==
  /\ at[q] = "hydrate"
  /\ \E failed \in SUBSET entries[q] :
       LET docs == entries[q] \ failed IN
         /\ Continue(q, docs, "products")
         /\ pending' = [pending EXCEPT ![q] = UNION {ProductRow(x) : x \in docs}]
  /\ UNCHANGED <<tableVars, endpoint, flagged, unread, pastVars>>

\* getMultipleJsonsFromS3ByPath: a read that fails yields a document without
\* metadata.  The lookup answers with no results; the others trip over it.
Hydrate(q) ==
  /\ at[q] = "hydrate"
  /\ \E failed \in SUBSET entries[q] :
       /\ \A x \in entries[q] \ failed : Stored(DeclarationOf(x))
       /\ \/ /\ failed = {}
             /\ Continue(q, entries[q], "products")
             /\ pending' = [pending EXCEPT ![q] = UNION {ProductRow(x) : x \in entries[q]}]
          \/ /\ failed # {}
             /\ IF endpoint[q] = "full" THEN Continue(q, {}, "answered")
                                        ELSE Continue(q, {}, "error")
             /\ UNCHANGED pending
  /\ UNCHANGED <<tableVars, endpoint, flagged, unread, pastVars>>

\* Faulty: only the first batch of keys is read.
NextBatch_Last(q, batch) == {}

\* Keys are read in batches of BatchMax, one after the other.
NextBatch(q, batch) == pending[q] \ batch

\* One batch of getIsRedactedProductByProductIds or getIsRedactedByIdentifiers.
ReadFlags(q) ==
  /\ at[q] \in {"products", "identifiers"}
  /\ \E batch \in SUBSET pending[q] :
       /\ batch # {}
       /\ batch = pending[q] \/ Cardinality(batch) = BatchMax
       /\ Cardinality(batch) <= BatchMax
       /\ \E seen, unprocessed \in SUBSET batch :
            /\ seen \cap unprocessed = {}
            /\ \A k \in batch \ unprocessed : k \in fresh \/ (k \in seen <=> k \in flags)
            /\ flagged' = [flagged EXCEPT ![q] = @ \cup seen]
            /\ unread' = [unread EXCEPT ![q] = @ \cup unprocessed]
       /\ pending' = [pending EXCEPT ![q] = NextBatch(q, batch)]
  /\ UNCHANGED <<tableVars, at, endpoint, entries, pastVars>>

ProductsRead(q) ==
  /\ at[q] = "products" /\ pending[q] = {}
  /\ at' = [at EXCEPT ![q] = "identifiers"]
  /\ pending' = [pending EXCEPT ![q] = UNION {IdentifierRow(x) : x \in entries[q]}]
  /\ UNCHANGED <<tableVars, endpoint, entries, flagged, unread, pastVars>>

\* The filters by date, product, identifier and denylist, and the answer.
Answer(q) ==
  /\ at[q] = "identifiers" /\ pending[q] = {}
  /\ Continue(q, {x \in entries[q] : /\ DeclarationOf(x) \notin Screened[endpoint[q]]
                                     /\ FlagRowsOf(x) \cap flagged[q] = {}},
              "answered")
  /\ UNCHANGED <<tableVars, endpoint, pending, flagged, unread, pastVars>>

\* An await is rejected, or the Lambda times out: the caller gets an error.
Fails(q) ==
  /\ at[q] \in Working
  /\ Continue(q, {}, "error")
  /\ UNCHANGED <<tableVars, endpoint, pending, flagged, unread, pastVars>>

\* What all but the public lookups do with the paths they have found.
Publish(q) == Hydrate(q) \/ ReadFlags(q) \/ ProductsRead(q) \/ Answer(q)

\* The handlers.
Search(q)           == endpoint[q] = "search" /\ (Query(q) \/ ReadPaths(q) \/ Publish(q))
SearchIscc(q)       == endpoint[q] = "searchIscc" /\ (Query(q) \/ ReadPaths(q) \/ Publish(q))
SearchByDeclarer(q) == endpoint[q] = "searchByDeclarer" /\ (Query(q) \/ ReadPaths(q) \/ Publish(q))
GetLatest(q)        == endpoint[q] = "latest" /\ (ListPaths(q) \/ Publish(q))
GetRandom(q)        == endpoint[q] = "random" /\ (ListPaths(q) \/ Publish(q))
GetFullMetadataByIdentifier(q) ==
  endpoint[q] = "full" /\ (LookUpPath(q) \/ CurePath(q) \/ Publish(q))
GetByIdentifier(q)  == endpoint[q] = "byIdentifier" /\ LookUpContent(q)
GetByDecId(q)       == endpoint[q] = "byDecId" /\ LookUpContent(q)

Call(q) ==
  \/ Start(q) \/ Fails(q)
  \/ Search(q) \/ SearchIscc(q) \/ SearchByDeclarer(q)
  \/ GetLatest(q) \/ GetRandom(q)
  \/ GetFullMetadataByIdentifier(q) \/ GetByIdentifier(q) \/ GetByDecId(q)

-----------------------------------------------------------------------------
Next ==
  \/ \E i \in Items : IndexStep(i) \/ Register(i) \/ ServiceIndexes(i)
  \/ \E k \in FlagRows : SetFlag(k)
  \/ \E k \in Rows : Settle(k)
  \/ \E q \in Readers : Call(q)

Spec == Init /\ [][Next]_vars

-----------------------------------------------------------------------------
(***************************************************************************)
(* Properties                                                              *)
(***************************************************************************)

Filtered == Searches \cup Lists \cup {"full"}

\* A declaration that was redacted, by itself or with its product, before a call
\* began and that stays so is not in the answer, however the reads of the call
\* fall between other writes: unless a batch read left the very row unprocessed.
RedactedIsHidden ==
  \A q \in Readers :
    at[q] = "answered" /\ endpoint[q] \in Filtered =>
      \A x \in entries[q] : FlagRowsOf(x) \cap hidden[q] \subseteq unread[q]

\* The service returned as many hits as it may, none of them farther than this item.
CrowdedOut(q, i) ==
  /\ i \notin crowd[q] /\ Cardinality(crowd[q]) = HitLimit
  /\ \A j \in crowd[q] : Score[j] <= Score[i]

\* An answer of a search is as complete as the search service allows: what could be
\* found when the search began and was not redacted meanwhile is in it, unless its
\* date or declarer rules it out, a batch read left its row unprocessed, or HitLimit
\* other items are as near: these crowd it out even if the answer shows none of them,
\* since what is unmapped or redacted is left out after the hits are counted.  A
\* document that cannot be read never goes missing from a 200: the whole call fails.
AnswersAreComplete ==
  \A q \in Readers :
    at[q] = "answered" /\ endpoint[q] \in Searches =>
      \A i \in lasting[q] :
        \/ i \in entries[q]
        \/ ItemOf[i] \in Screened[endpoint[q]]
        \/ <<"map", i>> \in unread[q]
        \/ CrowdedOut(q, i)

\* Why these hold: what is known of a call at each of its awaits.
PastIsKept(q) ==
  /\ hidden[q] \subseteq flags /\ hidden[q] \cap fresh = {}
  /\ \A i \in lasting[q] :
       /\ i \in indexed /\ item[i] = "mapped" /\ <<"map", i>> \notin fresh
       /\ FlagRowsOf(i) \cap (flags \cup fresh) = {}
       /\ i \in Near(endpoint[q])

CallIsStarted(q) ==
  /\ IF at[q] = "idle" THEN flagged[q] = {} /\ lasting[q] = {} ELSE endpoint[q] \in Endpoints
  /\ at[q] = "query" => endpoint[q] \in Searches
  /\ at[q] = "cure" => endpoint[q] = "full"
  /\ at[q] \in {"hydrate", "products", "identifiers"} => endpoint[q] \notin Public

\* A flag row that matters is still to be read, or was read as set, or unread.
HiddenIsNoticed(q) ==
  LET noticed == pending[q] \cup flagged[q] \cup unread[q] IN
    \A x \in entries[q] :
      /\ at[q] = "products" => ProductRow(x) \cap hidden[q] \subseteq noticed
      /\ at[q] = "identifiers" => FlagRowsOf(x) \cap hidden[q] \subseteq noticed

\* An item that a search should find is still among its entries, or never was.
LastingIsKept(q) ==
  endpoint[q] \in Searches =>
    \A i \in lasting[q] :
      /\ at[q] = "rows" => i \in entries[q] \/ CrowdedOut(q, i)
      /\ at[q] \in {"hydrate", "products", "identifiers"} =>
           i \in entries[q] \/ <<"map", i>> \in unread[q] \/ CrowdedOut(q, i)
      /\ FlagRowsOf(i) \cap flagged[q] = {}

CallInv(q) == PastIsKept(q) /\ CallIsStarted(q) /\ HiddenIsNoticed(q) /\ LastingIsKept(q)

IInv ==
  /\ TypeOK
  /\ \A q \in Readers : CallInv(q)
  /\ RedactedIsHidden
  /\ AnswersAreComplete

-----------------------------------------------------------------------------
(***************************************************************************)
(* What a document says and the code does not do: refuted by a run of its  *)
(* own.                                                                    *)
(***************************************************************************)

\* architecture.md: redaction flags "are checked at search/read time".  So no
\* endpoint serves a declaration that has been redacted all along.
RedactedIsNotServed ==
  \A q \in Readers :
    at[q] = "answered" =>
      \A x \in entries[q] : FlagRowsOf(x) \cap hidden[q] \subseteq unread[q]

=============================================================================
