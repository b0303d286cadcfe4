------------------------------ MODULE StatsSync ------------------------------
(***************************************************************************)
(* The sync of a stored declaration into the statistics database           *)
(* (statsSyncUtil.ts), which the consumer does last and best effort, and   *)
(* the batch pipeline of commons-db-statistics, which is external and      *)
(* takes the files whose etag is not marked.                               *)
(***************************************************************************)
EXTENDS Naturals

CONSTANTS
  Declarations,
  Containers,     \* of the consumer
  MaxDeliveries,  \* bound: deliveries that reach the bucket
  None

ASSUME StatsAssumption == None \notin Declarations /\ MaxDeliveries \in Nat

VARIABLES
  etag,       \* of the file of each declaration in the bucket, 0 when it has none
  rows,       \* declarations of the statistics database
  processed,  \* cdb_processed_declarations: the etag marked for each file, or 0
  at,         \* where the delivery in hand of a container stands
  hand,       \* the declaration in hand, or None
  body,       \* the etag of what it writes
  deliveries

vars == <<etag, rows, processed, at, hand, body, deliveries>>

TypeOK ==
  /\ etag \in [Declarations -> Nat] /\ rows \subseteq Declarations
  /\ processed \in [Declarations -> Nat]
  /\ at \in [Containers -> {"idle", "put", "row", "mark"}]
  /\ hand \in [Containers -> Declarations \cup {None}] /\ body \in [Containers -> Nat]
  /\ deliveries \in Nat

Init ==
  /\ etag = [d \in Declarations |-> 0] /\ rows = {} /\ processed = etag
  /\ at = [w \in Containers |-> "idle"]
  /\ hand = [w \in Containers |-> None] /\ body = [w \in Containers |-> 0]
  /\ deliveries = 0

Goes(w, place) == at' = [at EXCEPT ![w] = place]
Ends(w) ==
  Goes(w, "idle") /\ hand' = [hand EXCEPT ![w] = None] /\ body' = [body EXCEPT ![w] = 0]

\* A declaration is taken in hand, or taken again: its payload has another ray id,
\* so the body has another etag, and is put under the same key.
Take(w) ==
  /\ at[w] = "idle" /\ deliveries < MaxDeliveries
  /\ \E d \in Declarations, again \in BOOLEAN :
       /\ hand' = [hand EXCEPT ![w] = d]
       /\ again => etag[d] # 0
       /\ body' = [body EXCEPT ![w] = IF again THEN etag[d] ELSE deliveries + 1]
  /\ deliveries' = deliveries + 1
  /\ Goes(w, "put")
  /\ UNCHANGED <<etag, rows, processed>>

Put(w) ==
  /\ at[w] = "put"
  /\ etag' = [etag EXCEPT ![hand[w]] = body[w]]
  /\ Goes(w, "row")
  /\ UNCHANGED <<rows, processed, hand, body, deliveries>>

\* Faulty: the file is marked before its row is inserted.
Sync_MarkedFirst(w) ==
  \/ /\ at[w] = "row" /\ Goes(w, "mark")
     /\ processed' = [processed EXCEPT ![hand[w]] = body[w]]
     /\ UNCHANGED <<rows, hand, body>>
  \/ at[w] = "mark" /\ Ends(w) /\ rows' = rows \cup {hand[w]} /\ UNCHANGED processed
\* syncDeclarationToStats: the row with its declarer, unless it is there, then the
\* mark with the etag of what was put.
Sync(w) ==
  \/ /\ at[w] = "row" /\ Goes(w, "mark") /\ rows' = rows \cup {hand[w]}
     /\ UNCHANGED <<processed, hand, body>>
  \/ /\ at[w] = "mark" /\ Ends(w)
     /\ processed' = [processed EXCEPT ![hand[w]] = body[w]]
     /\ UNCHANGED rows

SyncStats(w) == Sync(w) /\ UNCHANGED <<etag, deliveries>>

\* A statement, put or connection fails, and its caller goes on; the key cannot be
\* parsed or the date is missing; or the container dies.
Fails(w) == at[w] # "idle" /\ Ends(w) /\ UNCHANGED <<etag, rows, processed, deliveries>>

\* The batch pipeline.
Backfill(d) ==
  /\ etag[d] # 0 /\ processed[d] # etag[d]
  /\ rows' = rows \cup {d} /\ processed' = [processed EXCEPT ![d] = etag[d]]
  /\ UNCHANGED <<etag, at, hand, body, deliveries>>

Next ==
  \/ \E w \in Containers : Take(w) \/ Put(w) \/ SyncStats(w) \/ Fails(w)
  \/ \E d \in Declarations : Backfill(d)

Spec == Init /\ [][Next]_vars

\* Lambda ends what it has begun; the batch pipeline comes again.
FairSpec ==
  /\ Spec
  /\ \A w \in Containers : WF_vars(Put(w) \/ SyncStats(w) \/ Fails(w))
  /\ \A d \in Declarations : WF_vars(Backfill(d))

-----------------------------------------------------------------------------
(***************************************************************************)
(* Properties                                                              *)
(***************************************************************************)

\* A file that the batch pipeline may skip is in the statistics database, wherever
\* a sync failed or its container died.
MarkedIsCounted == \A d \in Declarations : processed[d] # 0 => d \in rows

\* "The next batch run reconciles it": whatever became of the syncs, and though
\* one marks the etag of a body that another has replaced, in the end every file
\* of the bucket is marked as it is, and counted.
StatsCatchUp ==
  <>[](\A d \in Declarations : processed[d] = etag[d] /\ (etag[d] # 0 => d \in rows))

=============================================================================
