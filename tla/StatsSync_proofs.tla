--------------------------- MODULE StatsSync_proofs ---------------------------
(***************************************************************************)
(* What holds of the sync for any declarations, containers and deliveries. *)
(***************************************************************************)
EXTENDS StatsSync, TLAPS

\* The inductive invariant: what a container is about to mark is in the database.
IInv ==
  /\ TypeOK
  /\ \A w \in Containers : at[w] # "idle" => hand[w] \in Declarations
  /\ \A w \in Containers : at[w] = "mark" => hand[w] \in rows
  /\ MarkedIsCounted

\* What a container is about to mark is in the database, in every state.
THEOREM Invariance == Spec => []IInv
<1>1. Init => IInv
  BY StatsAssumption DEF Init, IInv, TypeOK, MarkedIsCounted
<1>2. IInv /\ [Next]_vars => IInv'
  <2> SUFFICES ASSUME IInv, [Next]_vars PROVE IInv'
    OBVIOUS
  <2> USE StatsAssumption DEF IInv, TypeOK, MarkedIsCounted
  <2>1. ASSUME NEW w \in Containers, Take(w) PROVE IInv'
    BY <2>1 DEF Take, Goes
  <2>2. ASSUME NEW w \in Containers, Put(w) PROVE IInv'
    BY <2>2 DEF Put, Goes
  <2>3. ASSUME NEW w \in Containers, SyncStats(w) PROVE IInv'
    <3>1. CASE at[w] = "row" /\ Goes(w, "mark") /\ rows' = rows \cup {hand[w]}
               /\ UNCHANGED <<processed, hand, body>>
      BY <2>3, <3>1 DEF SyncStats, Goes
    <3>2. CASE at[w] = "mark" /\ Ends(w)
               /\ processed' = [processed EXCEPT ![hand[w]] = body[w]] /\ UNCHANGED rows
      BY <2>3, <3>2 DEF SyncStats, Goes, Ends
    <3> QED
      BY <2>3, <3>1, <3>2 DEF SyncStats, Sync
  <2>4. ASSUME NEW w \in Containers, Fails(w) PROVE IInv'
    BY <2>4 DEF Fails, Ends, Goes
  <2>5. ASSUME NEW d \in Declarations, Backfill(d) PROVE IInv'
    BY <2>5 DEF Backfill
  <2>6. CASE UNCHANGED vars
    BY <2>6 DEF vars
  <2> QED
    BY <2>1, <2>2, <2>3, <2>4, <2>5, <2>6 DEF Next
<1> QED
  BY <1>1, <1>2, PTL DEF Spec

\* The variables of the sync keep their types.
THEOREM TypeCorrect == Spec => []TypeOK
<1>1. IInv => TypeOK
  BY DEF IInv
<1> QED
  BY <1>1, Invariance, PTL

\* Whatever fails or dies, no file is marked that is not counted.
THEOREM NothingIsMarkedUncounted == Spec => []MarkedIsCounted
<1>1. IInv => MarkedIsCounted
  BY DEF IInv
<1> QED
  BY <1>1, Invariance, PTL

=============================================================================
