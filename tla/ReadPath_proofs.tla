--------------------------- MODULE ReadPath_proofs ---------------------------
(***************************************************************************)
(* Type correctness and the safety of ReadPath, for any number of items,   *)
(* declarations and calls, any batch size and any reads.                   *)
(***************************************************************************)
EXTENDS ReadPath, TLAPS

\* What RedactedIsHidden and AnswersAreComplete say of one call.
HiddenInAnswer(q) ==
  at[q] = "answered" /\ endpoint[q] \in Filtered =>
    \A x \in entries[q] : FlagRowsOf(x) \cap hidden[q] \subseteq unread[q]
CompleteAnswer(q) ==
  at[q] = "answered" /\ endpoint[q] \in Searches =>
    \A i \in lasting[q] :
      \/ i \in entries[q]
      \/ ItemOf[i] \in Screened[endpoint[q]]
      \/ <<"map", i>> \in unread[q]
      \/ CrowdedOut(q, i)
SoundCall(q) == CallInv(q) /\ HiddenInAnswer(q) /\ CompleteAnswer(q)

LEMMA InvariantByCall == IInv <=> TypeOK /\ \A q \in Readers : SoundCall(q)
BY DEF IInv, SoundCall, HiddenInAnswer, CompleteAnswer, RedactedIsHidden, AnswersAreComplete

-----------------------------------------------------------------------------
(***************************************************************************)
(* Rows                                                                    *)
(***************************************************************************)

\* The rows of the three kinds of table are apart.
LEMMA RowsApart ==
  /\ FlagRows \subseteq Rows
  /\ \A i \in Items : <<"map", i>> \in Rows /\ <<"map", i>> \notin FlagRows
  /\ \A d \in Declarations : <<"identifier", d>> \in Rows /\ <<"identifier", d>> \notin FlagRows
  /\ \A i \in Items, d \in Declarations : <<"map", i>> # <<"identifier", d>>
  /\ \A i, j \in Items : <<"map", i>> = <<"map", j>> => i = j
BY DEF Rows, FlagRows

LEMMA EntryTypes ==
  ASSUME NEW x \in Entries
  PROVE  /\ DeclarationOf(x) \in Declarations
         /\ IdentifierRow(x) \subseteq FlagRows /\ ProductRow(x) \subseteq FlagRows
         /\ FlagRowsOf(x) = IdentifierRow(x) \cup ProductRow(x)
<1>1. DeclarationOf(x) \in Declarations
  BY ReadAssumption DEF Entries, DeclarationOf
<1>2. ProductOf[DeclarationOf(x)] \in Products \cup {None}
  BY <1>1, ReadAssumption
<1> QED
  BY <1>1, <1>2 DEF IdentifierRow, ProductRow, FlagRowsOf, FlagRows

LEMMA EndpointTypes ==
  /\ Endpoints \subseteq Searches \cup Lists \cup Lookups
  /\ Searches \cap Lists = {} /\ Searches \cap Lookups = {} /\ Lists \cap Lookups = {}
  /\ "full" \notin Searches /\ Public \cap Filtered = {} /\ Public \subseteq Lookups
BY ReadAssumption DEF Searches, Lists, Lookups, Public, Filtered

-----------------------------------------------------------------------------
(***************************************************************************)
(* Types                                                                   *)
(***************************************************************************)

\* A step of a call is one read of a handler to which that read belongs.
LEMMA CallCases ==
  ASSUME NEW q \in Readers, Call(q)
  PROVE  \/ Start(q) \/ Fails(q)
         \/ (Query(q) \/ ReadPaths(q)) /\ endpoint[q] \in Searches
         \/ ListPaths(q) /\ endpoint[q] \in Lists
         \/ (LookUpPath(q) \/ CurePath(q)) /\ endpoint[q] = "full"
         \/ LookUpContent(q) /\ endpoint[q] \in Public
         \/ Hydrate(q) \/ ReadFlags(q) \/ ProductsRead(q) \/ Answer(q)
BY DEF Call, Search, SearchIscc, SearchByDeclarer, GetLatest, GetRandom,
   GetFullMetadataByIdentifier, GetByIdentifier, GetByDecId, Publish, Searches, Lists,
   Public

\* What a call leaves alone: the tables it only reads, and other calls.
LEMMA CallFrame ==
  ASSUME TypeOK, NEW q \in Readers, Call(q)
  PROVE  /\ UNCHANGED <<item, indexed, registered, flags, fresh>>
         /\ pathless' \subseteq pathless
         /\ \A r \in Readers \ {q} :
              /\ at'[r] = at[r] /\ endpoint'[r] = endpoint[r]
              /\ entries'[r] = entries[r] /\ pending'[r] = pending[r]
              /\ flagged'[r] = flagged[r] /\ unread'[r] = unread[r]
              /\ hidden'[r] = hidden[r] /\ lasting'[r] = lasting[r]
              /\ crowd'[r] = crowd[r]
<1> USE DEF TypeOK, tableVars, pastVars, Continue
<1>1. CASE Start(q)
  BY <1>1 DEF Start
<1>2. CASE Query(q)
  BY <1>2 DEF Query
<1>3. CASE ReadPaths(q)
  BY <1>3 DEF ReadPaths
<1>4. CASE ListPaths(q)
  BY <1>4 DEF ListPaths
<1>5. CASE LookUpPath(q)
  BY <1>5 DEF LookUpPath
<1>6. CASE CurePath(q)
  BY <1>6 DEF CurePath, indexVars
<1>7. CASE LookUpContent(q)
  BY <1>7 DEF LookUpContent
<1>8. CASE Hydrate(q)
  BY <1>8 DEF Hydrate
<1>9. CASE ReadFlags(q)
  BY <1>9 DEF ReadFlags
<1>10. CASE ProductsRead(q)
  BY <1>10 DEF ProductsRead
<1>11. CASE Answer(q)
  BY <1>11 DEF Answer
<1>12. CASE Fails(q)
  BY <1>12 DEF Fails
<1> QED
  BY <1>1, <1>2, <1>3, <1>4, <1>5, <1>6, <1>7, <1>8, <1>9, <1>10, <1>11, <1>12,
     CallCases

LEMMA CallTypes ==
  ASSUME TypeOK, NEW q \in Readers, Call(q)
  PROVE  TypeOK'
<1>0. pathless' \subseteq registered'
  BY CallFrame DEF TypeOK
<1> USE RowsApart DEF TypeOK, tableVars, pastVars, Continue, Working
<1>1. CASE Start(q)
  <2>1. \A e \in Endpoints : Findable(e) \subseteq Items
    BY DEF Findable, Near
  <2> QED
    BY <1>1, <2>1 DEF Start, Entries
<1>2. CASE Query(q)
  BY <1>2 DEF Query, Entries
<1>3. CASE ReadPaths(q)
  BY <1>3 DEF ReadPaths, Entries, Mapped
<1>4. CASE ListPaths(q)
  BY <1>4 DEF ListPaths, Entries, Mapped
<1>5. CASE LookUpPath(q)
  BY <1>5 DEF LookUpPath
<1>6. CASE CurePath(q)
  BY <1>0, <1>6 DEF CurePath, indexVars
<1>7. CASE LookUpContent(q)
  BY <1>7 DEF LookUpContent
<1>8. CASE Hydrate(q)
  <2>1. UNION {ProductRow(x) : x \in entries[q]} \subseteq FlagRows
    BY EntryTypes
  <2> QED
    BY <1>8, <2>1 DEF Hydrate
<1>9. CASE ReadFlags(q)
  BY <1>9 DEF ReadFlags, NextBatch
<1>10. CASE ProductsRead(q)
  <2>1. UNION {IdentifierRow(x) : x \in entries[q]} \subseteq FlagRows
    BY EntryTypes
  <2> QED
    BY <1>10, <2>1 DEF ProductsRead
<1>11. CASE Answer(q)
  BY <1>11 DEF Answer
<1>12. CASE Fails(q)
  BY <1>12 DEF Fails
<1> QED
  BY <1>1, <1>2, <1>3, <1>4, <1>5, <1>6, <1>7, <1>8, <1>9, <1>10, <1>11, <1>12,
     CallCases

\* What the steps of others do to the tables, and to the history of a call.
LEMMA TableTypes ==
  ASSUME TypeOK,
         \/ \E i \in Items : IndexStep(i) \/ Register(i) \/ ServiceIndexes(i)
         \/ \E k \in FlagRows : SetFlag(k)
         \/ \E k \in Rows : Settle(k)
  PROVE  TypeOK'
<1> USE RowsApart, ReadAssumption DEF TypeOK, indexVars, callVars, pastVars
<1>1. ASSUME NEW i \in Items, IndexStep(i) PROVE TypeOK'
  BY <1>1 DEF IndexStep
<1>2. ASSUME NEW i \in Items, Register(i) PROVE TypeOK'
  BY <1>2 DEF Register
<1>3. ASSUME NEW i \in Items, ServiceIndexes(i) PROVE TypeOK'
  BY <1>3 DEF ServiceIndexes
<1>4. ASSUME NEW k \in FlagRows, SetFlag(k) PROVE TypeOK'
  BY <1>4 DEF SetFlag
<1>5. ASSUME NEW k \in Rows, Settle(k) PROVE TypeOK'
  BY <1>5 DEF Settle
<1> QED
  BY <1>1, <1>2, <1>3, <1>4, <1>5

-----------------------------------------------------------------------------
(***************************************************************************)
(* Each step preserves the invariant                                       *)
(***************************************************************************)

\* Nothing changes for the other calls.
LEMMA OtherCalls ==
  ASSUME TypeOK, NEW q \in Readers, Call(q), NEW r \in Readers \ {q}, SoundCall(r)
  PROVE  SoundCall(r)'
<1>1. /\ UNCHANGED <<item, indexed, flags, fresh>>
      /\ at'[r] = at[r] /\ endpoint'[r] = endpoint[r]
      /\ entries'[r] = entries[r] /\ pending'[r] = pending[r]
      /\ flagged'[r] = flagged[r] /\ unread'[r] = unread[r]
      /\ hidden'[r] = hidden[r] /\ lasting'[r] = lasting[r]
      /\ crowd'[r] = crowd[r]
  BY CallFrame
<1>2. PastIsKept(r)' /\ CallIsStarted(r)'
  BY <1>1 DEF SoundCall, CallInv, PastIsKept, CallIsStarted
<1>3. HiddenIsNoticed(r)'
  BY <1>1 DEF SoundCall, CallInv, HiddenIsNoticed
<1>4. LastingIsKept(r)'
  BY <1>1 DEF SoundCall, CallInv, LastingIsKept, CrowdedOut
<1>5. HiddenInAnswer(r)' /\ CompleteAnswer(r)'
  BY <1>1 DEF SoundCall, HiddenInAnswer, CompleteAnswer, CrowdedOut
<1> QED
  BY <1>2, <1>3, <1>4, <1>5 DEF SoundCall, CallInv

\* What holds of the past of a call goes on to hold while the call goes on.
LEMMA PastOfCall ==
  ASSUME NEW q \in Readers, PastIsKept(q), endpoint'[q] = endpoint[q],
         UNCHANGED <<item, indexed, flags, fresh, hidden, lasting>>
  PROVE  PastIsKept(q)'
BY DEF PastIsKept

LEMMA StartInv ==
  ASSUME TypeOK, NEW q \in Readers, SoundCall(q), Start(q)
  PROVE  SoundCall(q)'
<1> USE DEF TypeOK, Start, tableVars
<1>1. PICK e \in Endpoints :
        /\ endpoint'[q] = e /\ lasting'[q] = Findable(e)
        /\ at'[q] = IF e \in Searches THEN "query" ELSE "rows"
  OBVIOUS
<1>2. at[q] = "idle" /\ hidden'[q] = flags \ fresh /\ flagged'[q] = {}
  BY DEF SoundCall, CallInv, CallIsStarted
<1>3. PastIsKept(q)'
  BY <1>1, <1>2 DEF PastIsKept, Findable
<1>4. CallIsStarted(q)'
  BY <1>1 DEF CallIsStarted
<1>5. HiddenIsNoticed(q)' /\ HiddenInAnswer(q)' /\ CompleteAnswer(q)'
  BY <1>1 DEF HiddenIsNoticed, HiddenInAnswer, CompleteAnswer
<1>6. LastingIsKept(q)'
  BY <1>1, <1>2 DEF LastingIsKept
<1> QED
  BY <1>3, <1>4, <1>5, <1>6 DEF SoundCall, CallInv

\* The hits of the query hold what should be found and is not crowded out; without
\* hits it is nothing.
LEMMA QueryInv ==
  ASSUME TypeOK, NEW q \in Readers, SoundCall(q), Query(q)
  PROVE  SoundCall(q)'
<1> USE DEF TypeOK, Continue, tableVars, pastVars, SoundCall, CallInv
<1>1. PICK returned \in SUBSET indexed :
        LET hits == returned \cap Near(endpoint[q]) IN
          /\ Nearest(returned)
          /\ Continue(q, hits, IF hits = {} THEN "answered" ELSE "rows")
          /\ crowd' = [crowd EXCEPT ![q] = IF returned = indexed THEN {} ELSE returned]
  BY DEF Query
<1>2. UNCHANGED <<item, indexed, flags, fresh, endpoint, pending, flagged, unread,
                  hidden, lasting>>
  BY DEF Query
<1>3. /\ entries'[q] = returned \cap Near(endpoint[q])
      /\ at[q] = "query" /\ at'[q] \in {"answered", "rows"}
      /\ at'[q] = "answered" => entries'[q] = {}
  BY <1>1 DEF Query
<1>4. ASSUME NEW i \in lasting[q]
      PROVE  i \in entries'[q] \/ CrowdedOut(q, i)'
  <2>1. i \in indexed /\ i \in Near(endpoint[q])
    BY DEF PastIsKept
  <2>2. CASE i \in returned
    BY <1>3, <2>1, <2>2
  <2>3. CASE i \notin returned
    <3>1. Cardinality(returned) = HitLimit /\ \A j \in returned : Score[j] <= Score[i]
      BY <1>1, <2>1, <2>3 DEF Nearest
    <3>2. crowd'[q] = returned
      BY <1>1, <2>1, <2>3
    <3> QED
      BY <2>3, <3>1, <3>2 DEF CrowdedOut
  <2> QED
    BY <2>2, <2>3
<1>5. PastIsKept(q)' /\ CallIsStarted(q)'
  BY <1>2, <1>3, PastOfCall DEF CallIsStarted
<1>6. HiddenIsNoticed(q)' /\ HiddenInAnswer(q)' /\ CompleteAnswer(q)'
  BY <1>2, <1>3, <1>4 DEF HiddenIsNoticed, HiddenInAnswer, CompleteAnswer
<1>7. LastingIsKept(q)'
  BY <1>2, <1>3, <1>4 DEF LastingIsKept
<1> QED
  BY <1>5, <1>6, <1>7

\* A settled row is seen or left unprocessed.
LEMMA ReadPathsInv ==
  ASSUME TypeOK, NEW q \in Readers, SoundCall(q), ReadPaths(q), endpoint[q] \in Searches
  PROVE  SoundCall(q)'
<1> USE DEF TypeOK, ReadPaths, Continue, tableVars, pastVars, SoundCall, CallInv
<1>1. PICK seen, unprocessed \in SUBSET (entries[q] \cap Mapped) :
        /\ \A i \in entries[q] \cap Mapped :
             i \in seen \cup unprocessed \/ <<"map", i>> \in fresh
        /\ entries'[q] = seen /\ at'[q] = "hydrate"
        /\ unread'[q] = unread[q] \cup ({"map"} \X unprocessed)
  OBVIOUS
<1>2. PastIsKept(q)' /\ CallIsStarted(q)'
  BY <1>1, PastOfCall, EndpointTypes DEF CallIsStarted
<1>3. HiddenIsNoticed(q)' /\ HiddenInAnswer(q)' /\ CompleteAnswer(q)'
  BY <1>1 DEF HiddenIsNoticed, HiddenInAnswer, CompleteAnswer
<1>4. LastingIsKept(q)'
  <2> SUFFICES ASSUME NEW i \in lasting[q]
               PROVE  /\ i \in seen \/ <<"map", i>> \in unread'[q] \/ CrowdedOut(q, i)
                      /\ FlagRowsOf(i) \cap flagged[q] = {}
    BY <1>1 DEF LastingIsKept, CrowdedOut
  <2>1. (i \in entries[q] \cap Mapped \/ CrowdedOut(q, i)) /\ <<"map", i>> \notin fresh
    BY DEF LastingIsKept, PastIsKept, Mapped
  <2> QED
    BY <1>1, <2>1 DEF LastingIsKept
<1> QED
  BY <1>2, <1>3, <1>4

\* The lists and the lookups answer nothing, or hydrate.
LEMMA ShortReadsInv ==
  ASSUME TypeOK, NEW q \in Readers, SoundCall(q),
         \/ ListPaths(q) /\ endpoint[q] \in Lists
         \/ (LookUpPath(q) \/ CurePath(q)) /\ endpoint[q] = "full"
         \/ LookUpContent(q) /\ endpoint[q] \in Public
  PROVE  SoundCall(q)'
<1> USE DEF TypeOK, ListPaths, LookUpPath, CurePath, LookUpContent, Continue,
      tableVars, indexVars, pastVars, SoundCall, CallInv
<1>1. /\ endpoint'[q] = endpoint[q] /\ endpoint[q] \in Endpoints
      /\ endpoint[q] \notin Searches
      /\ \/ endpoint[q] \notin Public /\ at'[q] \in {"hydrate", "cure"}
         \/ endpoint[q] \notin Public /\ at'[q] = "answered" /\ entries'[q] = {}
         \/ endpoint[q] \in Public /\ at'[q] = "answered"
      /\ at'[q] = "cure" => endpoint[q] = "full"
  BY EndpointTypes DEF CallIsStarted, Filtered, Lists, Searches, Public
<1>2. PastIsKept(q)' /\ CallIsStarted(q)'
  BY <1>1, PastOfCall DEF CallIsStarted
<1>3. HiddenIsNoticed(q)' /\ HiddenInAnswer(q)' /\ CompleteAnswer(q)'
  BY <1>1, EndpointTypes DEF HiddenIsNoticed, HiddenInAnswer, CompleteAnswer
<1>4. LastingIsKept(q)'
  BY <1>1 DEF LastingIsKept
<1> QED
  BY <1>2, <1>3, <1>4

\* Either no document is missing, or the call ends without one.
LEMMA HydrateInv ==
  ASSUME TypeOK, NEW q \in Readers, SoundCall(q), Hydrate(q)
  PROVE  SoundCall(q)'
<1> USE DEF TypeOK, Hydrate, Continue, tableVars, pastVars, SoundCall, CallInv
<1>1. \/ /\ entries'[q] = entries[q] /\ at'[q] = "products"
         /\ pending'[q] = UNION {ProductRow(x) : x \in entries[q]}
      \/ at'[q] = "error"
      \/ at'[q] = "answered" /\ entries'[q] = {} /\ endpoint[q] \notin Searches
  BY EndpointTypes
<1>2. PastIsKept(q)' /\ CallIsStarted(q)'
  BY <1>1, PastOfCall DEF CallIsStarted
<1>3. HiddenIsNoticed(q)' /\ HiddenInAnswer(q)' /\ CompleteAnswer(q)'
  BY <1>1 DEF HiddenIsNoticed, HiddenInAnswer, CompleteAnswer
<1>4. LastingIsKept(q)'
  BY <1>1 DEF CrowdedOut, LastingIsKept
<1> QED
  BY <1>2, <1>3, <1>4

\* What a batch settles: a row that was set all along is seen as set or left
\* unprocessed, and a row of an item that was never redacted is not seen as set.
LEMMA ReadFlagsInv ==
  ASSUME TypeOK, NEW q \in Readers, SoundCall(q), ReadFlags(q)
  PROVE  SoundCall(q)'
<1> USE DEF TypeOK, ReadFlags, tableVars, pastVars, SoundCall, CallInv
<1>1. PICK batch \in SUBSET pending[q] :
        /\ \E seen, unprocessed \in SUBSET batch :
             /\ seen \cap unprocessed = {}
             /\ \A k \in batch \ unprocessed : k \in fresh \/ (k \in seen <=> k \in flags)
             /\ flagged' = [flagged EXCEPT ![q] = @ \cup seen]
             /\ unread' = [unread EXCEPT ![q] = @ \cup unprocessed]
        /\ pending' = [pending EXCEPT ![q] = NextBatch(q, batch)]
  OBVIOUS
<1>2. PICK seen, unprocessed \in SUBSET batch :
        /\ seen \cap unprocessed = {}
        /\ \A k \in batch \ unprocessed : k \in fresh \/ (k \in seen <=> k \in flags)
        /\ flagged' = [flagged EXCEPT ![q] = @ \cup seen]
        /\ unread' = [unread EXCEPT ![q] = @ \cup unprocessed]
  BY <1>1
<1>3. /\ flagged'[q] = flagged[q] \cup seen /\ unread'[q] = unread[q] \cup unprocessed
      /\ pending'[q] = pending[q] \ batch
      /\ at'[q] = at[q] /\ at[q] \in {"products", "identifiers"} /\ entries'[q] = entries[q]
  BY <1>1, <1>2 DEF NextBatch
<1>4. \A k \in hidden[q] :
        k \in pending[q] \cup flagged[q] \cup unread[q]
          => k \in pending'[q] \cup flagged'[q] \cup unread'[q]
  BY <1>2, <1>3 DEF PastIsKept
<1>5. PastIsKept(q)' /\ CallIsStarted(q)'
  BY <1>3, PastOfCall DEF CallIsStarted
<1>6. HiddenIsNoticed(q)'
  <2> SUFFICES ASSUME NEW x \in entries[q]
               PROVE  /\ at[q] = "products" =>
                           \A k \in ProductRow(x) \cap hidden[q] :
                             k \in pending'[q] \cup flagged'[q] \cup unread'[q]
                      /\ at[q] = "identifiers" =>
                           \A k \in FlagRowsOf(x) \cap hidden[q] :
                             k \in pending'[q] \cup flagged'[q] \cup unread'[q]
    BY <1>3 DEF HiddenIsNoticed, ProductRow, FlagRowsOf, IdentifierRow, DeclarationOf
  <2> QED
    BY <1>4 DEF HiddenIsNoticed
<1>7. LastingIsKept(q)'
  <2> SUFFICES ASSUME endpoint[q] \in Searches, NEW i \in lasting[q]
               PROVE  /\ i \in entries[q] \/ <<"map", i>> \in unread'[q] \/ CrowdedOut(q, i)
                      /\ FlagRowsOf(i) \cap flagged'[q] = {}
    BY <1>3 DEF LastingIsKept, CrowdedOut, FlagRowsOf, IdentifierRow, ProductRow,
       DeclarationOf
  <2>1. \A k \in seen : k \in flags \cup fresh
    BY <1>2
  <2>2. FlagRowsOf(i) \cap (flags \cup fresh) = {}
    BY DEF PastIsKept
  <2>3. i \in entries[q] \/ <<"map", i>> \in unread[q] \/ CrowdedOut(q, i)
    BY <1>3 DEF LastingIsKept
  <2>4. FlagRowsOf(i) \cap flagged[q] = {}
    BY DEF LastingIsKept
  <2> QED
    BY <1>3, <2>1, <2>2, <2>3, <2>4
<1>8. HiddenInAnswer(q)' /\ CompleteAnswer(q)'
  BY <1>3 DEF HiddenInAnswer, CompleteAnswer
<1> QED
  BY <1>5, <1>6, <1>7, <1>8

LEMMA ProductsReadInv ==
  ASSUME TypeOK, NEW q \in Readers, SoundCall(q), ProductsRead(q)
  PROVE  SoundCall(q)'
<1> USE DEF TypeOK, ProductsRead, tableVars, pastVars, SoundCall, CallInv
<1>1. /\ at[q] = "products" /\ at'[q] = "identifiers" /\ pending[q] = {}
      /\ pending'[q] = UNION {IdentifierRow(x) : x \in entries[q]}
  OBVIOUS
<1>2. PastIsKept(q)' /\ CallIsStarted(q)'
  BY <1>1, PastOfCall DEF CallIsStarted
<1>3. HiddenIsNoticed(q)'
  <2> SUFFICES ASSUME NEW x \in entries[q], NEW k \in FlagRowsOf(x) \cap hidden[q]
               PROVE  k \in pending'[q] \cup flagged[q] \cup unread[q]
    BY <1>1 DEF HiddenIsNoticed, FlagRowsOf, IdentifierRow, ProductRow, DeclarationOf
  <2>1. CASE k \in ProductRow(x)
    BY <1>1, <2>1 DEF HiddenIsNoticed
  <2>2. CASE k \in IdentifierRow(x)
    BY <1>1, <2>2
  <2> QED
    BY <2>1, <2>2 DEF FlagRowsOf
<1>4. LastingIsKept(q)'
  BY <1>1 DEF CrowdedOut, LastingIsKept, FlagRowsOf, IdentifierRow, ProductRow, DeclarationOf
<1>5. HiddenInAnswer(q)' /\ CompleteAnswer(q)'
  BY <1>1 DEF HiddenInAnswer, CompleteAnswer
<1> QED
  BY <1>2, <1>3, <1>4, <1>5

\* The filters leave out what is flagged, and so all that was hidden and read.
LEMMA AnswerInv ==
  ASSUME TypeOK, NEW q \in Readers, SoundCall(q), Answer(q)
  PROVE  SoundCall(q)'
<1> USE DEF TypeOK, Answer, Continue, tableVars, pastVars, SoundCall, CallInv
<1>1. /\ at[q] = "identifiers" /\ at'[q] = "answered" /\ pending[q] = {}
      /\ entries'[q] = {x \in entries[q] :
                           /\ DeclarationOf(x) \notin Screened[endpoint[q]]
                           /\ FlagRowsOf(x) \cap flagged[q] = {}}
  OBVIOUS
<1>2. PastIsKept(q)' /\ CallIsStarted(q)'
  BY <1>1, PastOfCall DEF CallIsStarted
<1>3. HiddenIsNoticed(q)' /\ LastingIsKept(q)'
  BY <1>1 DEF HiddenIsNoticed, LastingIsKept
<1>4. HiddenInAnswer(q)'
  <2> SUFFICES ASSUME NEW x \in entries'[q], NEW k \in FlagRowsOf(x) \cap hidden[q]
               PROVE  k \in unread[q]
    BY DEF HiddenInAnswer, FlagRowsOf, IdentifierRow, ProductRow, DeclarationOf
  <2>1. x \in entries[q] /\ k \notin flagged[q]
    BY <1>1
  <2> QED
    BY <1>1, <2>1 DEF HiddenIsNoticed
<1>5. CompleteAnswer(q)'
  <2> SUFFICES ASSUME endpoint[q] \in Searches, NEW i \in lasting[q]
               PROVE  \/ i \in entries'[q] \/ ItemOf[i] \in Screened[endpoint[q]]
                      \/ <<"map", i>> \in unread[q]
                      \/ CrowdedOut(q, i)
    BY DEF CompleteAnswer, CrowdedOut
  <2>1. FlagRowsOf(i) \cap flagged[q] = {}
    BY DEF LastingIsKept
  <2>2. i \in entries[q] \/ <<"map", i>> \in unread[q] \/ CrowdedOut(q, i)
    BY <1>1 DEF LastingIsKept
  <2>3. DeclarationOf(i) = ItemOf[i]
    BY DEF DeclarationOf
  <2> QED
    BY <1>1, <2>1, <2>2, <2>3
<1> QED
  BY <1>2, <1>3, <1>4, <1>5

LEMMA FailsInv ==
  ASSUME TypeOK, NEW q \in Readers, SoundCall(q), Fails(q)
  PROVE  SoundCall(q)'
<1> USE DEF TypeOK, Fails, Continue, tableVars, pastVars, SoundCall, CallInv
<1>1. at'[q] = "error" /\ at[q] # "idle"
  BY DEF Working
<1>2. PastIsKept(q)' /\ CallIsStarted(q)'
  BY <1>1, PastOfCall DEF CallIsStarted
<1>3. HiddenIsNoticed(q)' /\ LastingIsKept(q)'
  BY <1>1 DEF HiddenIsNoticed, LastingIsKept, FlagRowsOf, IdentifierRow, ProductRow,
     DeclarationOf
<1>4. HiddenInAnswer(q)' /\ CompleteAnswer(q)'
  BY <1>1 DEF HiddenInAnswer, CompleteAnswer
<1> QED
  BY <1>2, <1>3, <1>4

\* Indexing adds: what is mapped and settled stays so, and no flag changes.
LEMMA IndexingInv ==
  ASSUME TypeOK, NEW q \in Readers, SoundCall(q), NEW i \in Items,
         IndexStep(i) \/ Register(i) \/ ServiceIndexes(i)
  PROVE  SoundCall(q)'
<1> USE DEF TypeOK, IndexStep, Register, ServiceIndexes, callVars, pastVars, SoundCall,
      CallInv
<1>1. /\ UNCHANGED <<flags, at, endpoint, entries, pending, flagged, unread, hidden, lasting>>
      /\ indexed \subseteq indexed'
      /\ \A j \in Items : item[j] = "mapped" =>
           item'[j] = "mapped" /\ (<<"map", j>> \in fresh' => <<"map", j>> \in fresh)
      /\ \A k \in FlagRows : k \in fresh' <=> k \in fresh
  BY RowsApart, ReadAssumption
<1>2. PastIsKept(q)'
  <2>1. hidden'[q] \subseteq flags' /\ hidden'[q] \cap fresh' = {}
    BY <1>1 DEF PastIsKept
  <2>2. ASSUME NEW j \in lasting'[q]
        PROVE  /\ j \in indexed' /\ item'[j] = "mapped" /\ <<"map", j>> \notin fresh'
               /\ FlagRowsOf(j) \cap (flags' \cup fresh') = {}
               /\ j \in Near(endpoint'[q])
    <3>1. j \in Items /\ FlagRowsOf(j) \subseteq FlagRows
      BY <1>1, EntryTypes DEF Entries
    <3> QED
      BY <1>1, <3>1 DEF PastIsKept
  <2> QED
    BY <2>1, <2>2 DEF PastIsKept, FlagRowsOf, IdentifierRow, ProductRow, DeclarationOf
<1>3. CallIsStarted(q)' /\ HiddenIsNoticed(q)' /\ LastingIsKept(q)'
  BY <1>1 DEF CrowdedOut, CallIsStarted, HiddenIsNoticed, LastingIsKept
<1>4. HiddenInAnswer(q)' /\ CompleteAnswer(q)'
  BY <1>1 DEF CrowdedOut, HiddenInAnswer, CompleteAnswer
<1> QED
  BY <1>2, <1>3, <1>4

\* A flag that changes is dropped from the past, with the items it is about.
LEMMA SetFlagInv ==
  ASSUME TypeOK, NEW q \in Readers, SoundCall(q), NEW k \in FlagRows, SetFlag(k)
  PROVE  SoundCall(q)'
<1> USE DEF TypeOK, SetFlag, indexVars, callVars, SoundCall, CallInv
<1>1. /\ UNCHANGED <<item, indexed, at, endpoint, entries, pending, flagged, unread>>
      /\ hidden'[q] = hidden[q] \ {k}
      /\ lasting'[q] = {i \in lasting[q] : k \notin FlagRowsOf(i)}
      /\ fresh' = fresh \cup {k}
      /\ flags' \subseteq flags \cup {k} /\ flags \subseteq flags' \cup {k}
  OBVIOUS
<1>2. PastIsKept(q)'
  <2>1. hidden'[q] \subseteq flags' /\ hidden'[q] \cap fresh' = {}
    BY <1>1 DEF PastIsKept
  <2>2. ASSUME NEW j \in lasting'[q]
        PROVE  /\ j \in indexed' /\ item'[j] = "mapped" /\ <<"map", j>> \notin fresh'
               /\ FlagRowsOf(j) \cap (flags' \cup fresh') = {}
               /\ j \in Near(endpoint'[q])
    <3>1. j \in Items /\ k \notin FlagRowsOf(j) /\ <<"map", j>> # k
      BY <1>1, RowsApart
    <3> QED
      BY <1>1, <3>1 DEF PastIsKept
  <2> QED
    BY <2>1, <2>2 DEF PastIsKept, FlagRowsOf, IdentifierRow, ProductRow, DeclarationOf
<1>3. CallIsStarted(q)' /\ HiddenIsNoticed(q)' /\ LastingIsKept(q)'
  BY <1>1 DEF CrowdedOut, CallIsStarted, HiddenIsNoticed, LastingIsKept, FlagRowsOf,
     IdentifierRow, ProductRow, DeclarationOf
<1>4. HiddenInAnswer(q)' /\ CompleteAnswer(q)'
  BY <1>1 DEF CrowdedOut, HiddenInAnswer, CompleteAnswer, FlagRowsOf, IdentifierRow,
     ProductRow, DeclarationOf
<1> QED
  BY <1>2, <1>3, <1>4

LEMMA SettleInv ==
  ASSUME TypeOK, NEW q \in Readers, SoundCall(q), NEW k \in Rows, Settle(k)
  PROVE  SoundCall(q)'
<1> USE DEF TypeOK, Settle, indexVars, callVars, pastVars, SoundCall, CallInv
<1>1. PastIsKept(q)'
  BY DEF PastIsKept, FlagRowsOf, IdentifierRow, ProductRow, DeclarationOf, Near
<1>2. CallIsStarted(q)' /\ HiddenIsNoticed(q)' /\ LastingIsKept(q)'
  BY DEF CrowdedOut, CallIsStarted, HiddenIsNoticed, LastingIsKept, FlagRowsOf,
     IdentifierRow, ProductRow, DeclarationOf
<1>3. HiddenInAnswer(q)' /\ CompleteAnswer(q)'
  BY DEF CrowdedOut, HiddenInAnswer, CompleteAnswer, FlagRowsOf, IdentifierRow,
     ProductRow, DeclarationOf
<1> QED
  BY <1>1, <1>2, <1>3

-----------------------------------------------------------------------------
(***************************************************************************)
(* The theorems                                                            *)
(***************************************************************************)

LEMMA InitInv == Init => IInv
<1> SUFFICES ASSUME Init PROVE TypeOK /\ \A q \in Readers : SoundCall(q)
  BY InvariantByCall
<1> USE ReadAssumption DEF Init
<1>1. TypeOK
  BY DEF TypeOK
<1>2. ASSUME NEW q \in Readers PROVE SoundCall(q)
  BY DEF SoundCall, CallInv, PastIsKept, CallIsStarted, HiddenIsNoticed, LastingIsKept,
     HiddenInAnswer, CompleteAnswer
<1> QED
  BY <1>1, <1>2

LEMMA StepInv == IInv /\ [Next]_vars => IInv'
<1> SUFFICES ASSUME IInv, [Next]_vars
             PROVE  TypeOK' /\ \A q \in Readers : SoundCall(q)'
  BY InvariantByCall DEF IInv, SoundCall, HiddenInAnswer, CompleteAnswer,
     RedactedIsHidden, AnswersAreComplete
<1> USE InvariantByCall
<1>1. ASSUME NEW i \in Items, IndexStep(i) \/ Register(i) \/ ServiceIndexes(i)
      PROVE  TypeOK' /\ \A q \in Readers : SoundCall(q)'
  BY <1>1, TableTypes, IndexingInv
<1>2. ASSUME NEW k \in FlagRows, SetFlag(k)
      PROVE  TypeOK' /\ \A q \in Readers : SoundCall(q)'
  BY <1>2, TableTypes, SetFlagInv
<1>3. ASSUME NEW k \in Rows, Settle(k)
      PROVE  TypeOK' /\ \A q \in Readers : SoundCall(q)'
  BY <1>3, TableTypes, SettleInv
<1>4. ASSUME NEW q \in Readers, Call(q)
      PROVE  TypeOK' /\ \A r \in Readers : SoundCall(r)'
  <2>1. TypeOK'
    BY <1>4, CallTypes
  <2>2. SoundCall(q)'
    BY <1>4, StartInv, QueryInv, ReadPathsInv, ShortReadsInv, HydrateInv, ReadFlagsInv,
       ProductsReadInv, AnswerInv, FailsInv, CallCases
  <2>3. \A r \in Readers \ {q} : SoundCall(r)'
    BY <1>4, OtherCalls
  <2> QED
    BY <2>1, <2>2, <2>3
<1>5. CASE UNCHANGED vars
  <2>1. TypeOK'
    BY <1>5 DEF TypeOK, vars
  <2>2. ASSUME NEW q \in Readers PROVE SoundCall(q)'
    <3>1. SoundCall(q)
      OBVIOUS
    <3> QED
      BY <1>5, <3>1 DEF CrowdedOut, vars, SoundCall, CallInv, PastIsKept, CallIsStarted,
         HiddenIsNoticed, LastingIsKept, HiddenInAnswer, CompleteAnswer
  <2> QED
    BY <2>1, <2>2
<1> QED
  BY <1>1, <1>2, <1>3, <1>4, <1>5 DEF Next

\* The inductive invariant holds always.
THEOREM Invariance == Spec => []IInv
BY InitInv, StepInv, PTL DEF Spec

\* Every variable has its type in every state.
THEOREM TypeCorrect == Spec => []TypeOK
<1>1. IInv => TypeOK
  BY DEF IInv
<1> QED
  BY Invariance, <1>1, PTL

\* No answer of a search, a list or the full lookup shows what was redacted,
\* settled, since before the call began.
THEOREM NothingRedactedIsShown == Spec => []RedactedIsHidden
<1>1. IInv => RedactedIsHidden
  BY DEF IInv
<1> QED
  BY Invariance, <1>1, PTL

\* A 200 of a search has every item that could be found all along and that the search
\* service returned, and it returned every one but those crowded out by HitLimit items
\* as near; a batch read that leaves the row of a hit unprocessed may still lose it.
THEOREM NothingGoesMissing == Spec => []AnswersAreComplete
<1>1. IInv => AnswersAreComplete
  BY DEF IInv
<1> QED
  BY Invariance, <1>1, PTL

=============================================================================
