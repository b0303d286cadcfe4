------------------------------ MODULE Analytics ------------------------------
(***************************************************************************)
(* The analytics counters (analyticsUtil.ts): the consumer increments them *)
(* for every declaration it has stored, best effort, and recalculations    *)
(* (analyticsRecalculation.ts, setupAnalytics.ts) overwrite them with what *)
(* they list in the bucket.  The counters of single declarers, which       *)
(* nothing reads, are left out.                                            *)
(***************************************************************************)
EXTENDS Naturals, Sequences, FiniteSets

CONSTANTS
  Declarations,   \* their JSON files in the bucket
  IsccOf,
  Containers,     \* of the consumer
  Jobs,           \* recalculations that may overlap
  MaxDeliveries,  \* bound: deliveries that reach the bucket
  MaxDeaths,      \* bound: jobs that fail
  None

ASSUME AnalyticsAssumption ==
  /\ IsFiniteSet(Declarations) /\ DOMAIN IsccOf = Declarations /\ None \notin Declarations
  /\ MaxDeliveries \in Nat /\ MaxDeaths \in Nat

VARIABLES
  stored,      \* files in the bucket
  counter,     \* AnalyticsCounters: total_declarations and total_unique_iscc
  stats,       \* its declarer_stats: the files they were counted from
  cache,       \* isccCodeCache of each container
  at,          \* where the delivery in hand of a container stands
  hand,        \* the declaration in hand, or None
  adds,        \* counters it has still to increment
  jobAt,       \* where a job stands
  listed,      \* files a job has seen
  puts,        \* what it has still to store
  deliveries, deaths

consumerVars == <<cache, at, hand, adds, deliveries>>
jobVars == <<jobAt, listed, puts, deaths>>
tableVars == <<counter, stats>>
vars == <<stored, counter, stats, cache, at, hand, adds, jobAt, listed, puts,
          deliveries, deaths>>

Keys == {"total", "unique"}

TypeOK ==
  /\ stored \subseteq Declarations /\ stats \subseteq Declarations
  /\ counter \in [Keys -> Nat]
  /\ cache \in [Containers -> SUBSET {IsccOf[d] : d \in Declarations}]
  /\ at \in [Containers -> {"idle", "stored", "adding"}]
  /\ hand \in [Containers -> Declarations \cup {None}]
  /\ adds \in [Containers -> {<<>>, <<"total">>, <<"unique">>, <<"total", "unique">>}]
  /\ jobAt \in [Jobs -> {"idle", "listing", "storing"}]
  /\ listed \in [Jobs -> SUBSET Declarations]
  /\ puts \in [Jobs -> {<<>>, <<"stats">>, <<"total", "stats">>, <<"unique", "total", "stats">>}]
  /\ deliveries \in Nat /\ deaths \in Nat

Init ==
  /\ stored = {} /\ counter = [k \in Keys |-> 0] /\ stats = {}
  /\ cache = [w \in Containers |-> {}] /\ at = [w \in Containers |-> "idle"]
  /\ hand = [w \in Containers |-> None] /\ adds = [w \in Containers |-> <<>>]
  /\ jobAt = [j \in Jobs |-> "idle"]
  /\ listed = [j \in Jobs |-> {}] /\ puts = [j \in Jobs |-> <<>>]
  /\ deliveries = 0 /\ deaths = 0

\* What countUniqueIsccCodesByDeclarer makes of a list of files.
Counted(key, files) == Cardinality(IF key = "total" THEN files ELSE {IsccOf[d] : d \in files})

-----------------------------------------------------------------------------
(***************************************************************************)
(* A delivery of a declaration                                             *)
(***************************************************************************)

Goes(w, place) == at' = [at EXCEPT ![w] = place]
\* The delivery has ended, well or not.
Ends(w) == Goes(w, "idle") /\ hand' = [hand EXCEPT ![w] = None]

\* The file is written, again by a later delivery.
Store(w) ==
  /\ at[w] = "idle" /\ deliveries < MaxDeliveries
  /\ \E d \in Declarations :
       stored' = stored \cup {d} /\ hand' = [hand EXCEPT ![w] = d]
  /\ deliveries' = deliveries + 1
  /\ Goes(w, "stored")
  /\ UNCHANGED <<tableVars, cache, adds, jobVars>>

\* isNewUniqueIsccCode: the cache was cleared by its age or size, or tells.
Classify(w) ==
  LET iscc == IsccOf[hand[w]] IN
  /\ at[w] = "stored"
  /\ \E known \in {cache[w], {}} :
       /\ cache' = [cache EXCEPT ![w] = known \cup {iscc}]
       /\ adds' = [adds EXCEPT ![w] = IF iscc \in known THEN <<"total">> ELSE <<"total", "unique">>]
  /\ Goes(w, "adding")
  /\ UNCHANGED <<stored, tableVars, hand, deliveries, jobVars>>

\* handleNewDeclaration; an error, with the number changed or not, ends it.
Add(w) ==
  /\ at[w] = "adding"
  /\ \/ counter' = [counter EXCEPT ![Head(adds[w])] = @ + 1]
     \/ UNCHANGED counter
  /\ \/ adds' = [adds EXCEPT ![w] = Tail(@)] /\ counter' # counter
     \/ adds' = [adds EXCEPT ![w] = <<>>]
  /\ IF adds'[w] = <<>> THEN Ends(w) ELSE UNCHANGED <<at, hand>>
  /\ UNCHANGED <<stored, stats, cache, deliveries, jobVars>>

\* A later write of the indexing fails, and with it the record; or the container
\* dies, and forgets.
Dies(w) ==
  /\ at[w] # "idle"
  /\ Ends(w)
  /\ cache' = [cache EXCEPT ![w] = {}]
  /\ adds' = [adds EXCEPT ![w] = <<>>]
  /\ UNCHANGED <<stored, tableVars, deliveries, jobVars>>

-----------------------------------------------------------------------------
(***************************************************************************)
(* The recalculation                                                       *)
(***************************************************************************)

JobGoes(j, place) == jobAt' = [jobAt EXCEPT ![j] = place]

\* The cron job, the event of a reader who found stale data, the API, or
\* setupAnalytics.
StartRecalculation(j) ==
  /\ jobAt[j] = "idle"
  /\ JobGoes(j, "listing")
  /\ listed' = [listed EXCEPT ![j] = stored]
  /\ UNCHANGED <<stored, tableVars, consumerVars, puts, deaths>>

\* Faulty: the listing ends with a page, whatever is on the next ones.
List_OnePage(j) ==
  /\ jobAt[j] = "listing"
  /\ \E missed \in SUBSET stored :
       listed' = [listed EXCEPT ![j] = stored \ missed]
  /\ puts' = [puts EXCEPT ![j] = <<"unique", "total", "stats">>]
  /\ JobGoes(j, "storing")
  /\ UNCHANGED <<stored, tableVars, consumerVars, deaths>>
\* The pages of the listing: a file written meanwhile may be on one or not.
List(j) ==
  /\ jobAt[j] = "listing"
  /\ \E missed \in SUBSET (stored \ listed[j]) :
       listed' = [listed EXCEPT ![j] = stored \ missed]
  /\ puts' = [puts EXCEPT ![j] = <<"unique", "total", "stats">>]
  /\ JobGoes(j, "storing")
  /\ UNCHANGED <<stored, tableVars, consumerVars, deaths>>

JobEnds(j) == JobGoes(j, "idle") /\ listed' = [listed EXCEPT ![j] = {}]

\* storeFullAnalyticsData, one put at a time.
Put(j) ==
  /\ jobAt[j] = "storing"
  /\ IF Head(puts[j]) = "stats"
     THEN stats' = listed[j] /\ JobEnds(j) /\ UNCHANGED counter
     ELSE /\ counter' = [counter EXCEPT ![Head(puts[j])] = Counted(Head(puts[j]), listed[j])]
          /\ UNCHANGED <<stats, jobAt, listed>>
  /\ puts' = [puts EXCEPT ![j] = Tail(@)]
  /\ UNCHANGED <<stored, consumerVars, deaths>>

\* A job fails or times out: what it has stored stays.
JobDies(j) ==
  /\ jobAt[j] # "idle" /\ deaths < MaxDeaths
  /\ JobEnds(j)
  /\ puts' = [puts EXCEPT ![j] = <<>>]
  /\ deaths' = deaths + 1
  /\ UNCHANGED <<stored, tableVars, consumerVars>>

-----------------------------------------------------------------------------
Deliver(w) == Store(w) \/ Classify(w) \/ Add(w) \/ Dies(w)
Recalculate(j) == StartRecalculation(j) \/ List(j) \/ Put(j) \/ JobDies(j)

Next ==
  \/ \E w \in Containers : Deliver(w)
  \/ \E j \in Jobs : Recalculate(j)

Spec == Init /\ [][Next]_vars

\* Lambda runs what it has begun; the cron job comes again.
Fairness ==
  /\ \A w \in Containers : WF_vars(Classify(w) \/ Add(w))
  /\ \A j \in Jobs : WF_vars(StartRecalculation(j)) /\ WF_vars(List(j) \/ Put(j))

FairSpec == Spec /\ Fairness

-----------------------------------------------------------------------------
(***************************************************************************)
(* Properties                                                              *)
(***************************************************************************)

\* "The periodic recalculation ensures eventual consistency": whatever was added
\* twice, not at all or overwritten, once no more deliveries come the totals and
\* the statistics of the declarers are those of the bucket, and stay so.
Right(key) == counter[key] = Counted(key, stored)
CountersConverge == <>[]((\A key \in Keys : Right(key)) /\ stats = stored)

\* No delivery is under way, and no job works with a list older than the bucket.
Settled ==
  /\ \A w \in Containers : at[w] = "idle"
  /\ \A j \in Jobs : jobAt[j] # "idle" => listed[j] = stored

\* Between two deliveries things only get better: once the jobs that missed a file
\* are over, whatever else of overlapping and dying jobs writes a number or the
\* statistics, writes those of the bucket, and none falls back to an older list.
SettlingIsForGood ==
  [][Settled /\ deliveries' = deliveries =>
       /\ Settled'
       /\ \A key \in Keys : counter'[key] # counter[key] => Right(key)'
       /\ stats' # stats => stats' = stored']_vars

\* Why: a job has something to store exactly while it stores, and a delivery
\* something to add while it adds.
Busy ==
  /\ \A j \in Jobs : jobAt[j] = "storing" <=> puts[j] # <<>>
  /\ \A w \in Containers :
       /\ at[w] = "adding" <=> adds[w] # <<>>
       /\ at[w] = "idle" <=> hand[w] = None
  /\ \A j \in Jobs : listed[j] \subseteq stored
  /\ stats \subseteq stored

IInv == TypeOK /\ Busy

=============================================================================
