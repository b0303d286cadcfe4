--------------------------- MODULE Analytics_proofs ---------------------------
(***************************************************************************)
(* What holds of the counters for any declarations, containers and jobs,   *)
(* however many deliveries there are and however often jobs die.           *)
(***************************************************************************)
EXTENDS Analytics, FiniteSetTheorems, TLAPS

\* A count of some of the declarations is a number.
LEMMA CountedIsNat ==
  ASSUME NEW files \in SUBSET Declarations, NEW key
  PROVE  Counted(key, files) \in Nat
<1> DEFINE codes == {IsccOf[d] : d \in files}
           f == [d \in files |-> IsccOf[d]]
<1>1. IsFiniteSet(files)
  BY AnalyticsAssumption, FS_Subset
<1>2. f \in Surjection(files, codes)
  BY DEF Surjection
<1>3. IsFiniteSet(codes)
  BY <1>1, <1>2, FS_Surjection
<1>4. Cardinality(files) \in Nat /\ Cardinality(codes) \in Nat
  BY <1>1, <1>3, FS_CardinalityType
<1> QED
  BY <1>4 DEF Counted

-----------------------------------------------------------------------------
(***************************************************************************)
(* What is still to be added and stored                                    *)
(***************************************************************************)

\* A delivery adds to the totals, in their order, until nothing is left.
ToAdd == {<<>>, <<"total">>, <<"unique">>, <<"total", "unique">>}

LEMMA AddsGoOn ==
  ASSUME NEW s \in ToAdd, s # <<>>
  PROVE  Head(s) \in Keys /\ Tail(s) \in ToAdd
<1>1. CASE s = <<"total">>
  BY <1>1 DEF ToAdd, Keys
<1>2. CASE s = <<"unique">>
  BY <1>2 DEF ToAdd, Keys
<1>3. CASE s = <<"total", "unique">>
  BY <1>3 DEF ToAdd, Keys
<1> QED
  BY <1>1, <1>2, <1>3 DEF ToAdd

\* A job stores the two counters and then the statistics.
ToPut == {<<>>, <<"stats">>, <<"total", "stats">>, <<"unique", "total", "stats">>}

LEMMA PutsGoOn ==
  ASSUME NEW s \in ToPut, s # <<>>
  PROVE  /\ Head(s) = "stats" => Tail(s) = <<>>
         /\ Head(s) # "stats" => Head(s) \in Keys /\ Tail(s) # <<>>
         /\ Tail(s) \in ToPut
<1>1. CASE s = <<"stats">>
  BY <1>1 DEF ToPut, Keys
<1>2. CASE s = <<"total", "stats">>
  BY <1>2 DEF ToPut, Keys
<1>3. CASE s = <<"unique", "total", "stats">>
  BY <1>3 DEF ToPut, Keys
<1> QED
  BY <1>1, <1>2, <1>3 DEF ToPut

-----------------------------------------------------------------------------
(***************************************************************************)
(* The inductive invariant                                                 *)
(***************************************************************************)

LEMMA DeliveryKeepsIInv ==
  ASSUME IInv, NEW w \in Containers, Deliver(w)
  PROVE  IInv'
<1> USE AnalyticsAssumption DEF IInv, TypeOK, Busy, tableVars, consumerVars, jobVars
<1>1. CASE Store(w)
  BY <1>1 DEF Store, Goes
<1>2. CASE Classify(w)
  <2>1. hand[w] \in Declarations
    BY <1>2 DEF Classify
  <2>2. /\ adds' \in [Containers -> ToAdd] /\ adds'[w] # <<>>
        /\ \A v \in Containers \ {w} : adds'[v] = adds[v]
    BY <1>2 DEF Classify, ToAdd
  <2>3. cache' \in [Containers -> SUBSET {IsccOf[d] : d \in Declarations}]
    BY <1>2, <2>1 DEF Classify
  <2> QED
    BY <1>2, <2>1, <2>2, <2>3 DEF Classify, Goes, ToAdd
<1>3. CASE Add(w)
  <2>1. adds[w] \in ToAdd /\ adds[w] # <<>>
    BY <1>3 DEF Add, ToAdd
  <2>2. Head(adds[w]) \in Keys /\ Tail(adds[w]) \in ToAdd
    BY <2>1, AddsGoOn
  <2>3. counter' \in [Keys -> Nat]
    BY <1>3, <2>2 DEF Add
  <2>4. adds' \in [Containers -> ToAdd] /\ \A v \in Containers \ {w} : adds'[v] = adds[v]
    BY <1>3, <2>2 DEF Add, ToAdd
  <2>5. /\ at' \in [Containers -> {"idle", "stored", "adding"}]
        /\ hand' \in [Containers -> Declarations \cup {None}]
        /\ \A v \in Containers \ {w} : at'[v] = at[v] /\ hand'[v] = hand[v]
        /\ at'[w] = "adding" <=> adds'[w] # <<>>
        /\ at'[w] = "idle" <=> hand'[w] = None
    BY <1>3 DEF Add, Ends, Goes
  <2> QED
    BY <1>3, <2>3, <2>4, <2>5 DEF Add, ToAdd
<1>4. CASE Dies(w)
  BY <1>4 DEF Dies, Ends, Goes
<1> QED
  BY <1>1, <1>2, <1>3, <1>4 DEF Deliver

LEMMA JobKeepsIInv ==
  ASSUME IInv, NEW j \in Jobs, Recalculate(j)
  PROVE  IInv'
<1> USE AnalyticsAssumption DEF IInv, TypeOK, Busy, tableVars, consumerVars, jobVars
<1>1. CASE StartRecalculation(j)
  BY <1>1 DEF StartRecalculation, JobGoes
<1>2. CASE List(j)
  BY <1>2 DEF List, JobGoes
<1>3. CASE Put(j)
  <2>1. puts[j] \in ToPut /\ puts[j] # <<>>
    BY <1>3 DEF Put, ToPut
  <2>2. /\ Head(puts[j]) = "stats" => Tail(puts[j]) = <<>>
        /\ Head(puts[j]) # "stats" => Head(puts[j]) \in Keys /\ Tail(puts[j]) # <<>>
        /\ Tail(puts[j]) \in ToPut
    BY <2>1, PutsGoOn
  <2>3. /\ puts' \in [Jobs -> ToPut] /\ puts'[j] = Tail(puts[j])
        /\ \A i \in Jobs \ {j} : puts'[i] = puts[i]
    BY <1>3, <2>2 DEF Put, ToPut
  <2>4. CASE Head(puts[j]) = "stats"
    BY <1>3, <2>2, <2>3, <2>4 DEF Put, JobEnds, JobGoes, ToPut
  <2>5. CASE Head(puts[j]) # "stats"
    <3>1. Counted(Head(puts[j]), listed[j]) \in Nat
      BY CountedIsNat
    <3>2. counter' \in [Keys -> Nat]
      BY <1>3, <2>5, <3>1 DEF Put
    <3> QED
      BY <1>3, <2>2, <2>3, <2>5, <3>2 DEF Put, ToPut
  <2> QED
    BY <2>4, <2>5
<1>4. CASE JobDies(j)
  BY <1>4 DEF JobDies, JobEnds, JobGoes
<1> QED
  BY <1>1, <1>2, <1>3, <1>4 DEF Recalculate

\* The variables keep their types; jobs and statistics know only of files that are in
\* the bucket, and each is busy exactly while it has something to do.
THEOREM Invariance == Spec => []IInv
<1>1. Init => IInv
  BY AnalyticsAssumption DEF Init, IInv, TypeOK, Busy, Keys
<1>2. IInv /\ [Next]_vars => IInv'
  <2>1. CASE UNCHANGED vars
    BY <2>1 DEF vars, IInv, TypeOK, Busy
  <2> QED
    BY <2>1, DeliveryKeepsIInv, JobKeepsIInv DEF Next
<1> QED
  BY <1>1, <1>2, PTL DEF Spec

-----------------------------------------------------------------------------
(***************************************************************************)
(* Between two deliveries things only get better                           *)
(***************************************************************************)

LEMMA SettledStep ==
  ASSUME IInv, [Next]_vars, Settled, deliveries' = deliveries
  PROVE  /\ Settled'
         /\ \A key \in Keys : counter'[key] # counter[key] => Right(key)'
         /\ stats' # stats => stats' = stored'
<1> USE DEF IInv, TypeOK, Busy, Settled, tableVars, consumerVars, jobVars
<1>1. ASSUME NEW w \in Containers, Deliver(w)
      PROVE  FALSE
  BY <1>1 DEF Deliver, Store, Classify, Add, Dies
<1>2. CASE UNCHANGED vars
  BY <1>2 DEF vars
<1>3. ASSUME NEW j \in Jobs, Recalculate(j)
      PROVE  /\ Settled'
             /\ \A key \in Keys : counter'[key] # counter[key] => Right(key)'
             /\ stats' # stats => stats' = stored'
  <2>1. CASE StartRecalculation(j)
    BY <2>1 DEF StartRecalculation, JobGoes
  <2>2. CASE List(j)
    <3>1. listed[j] = stored
      BY <2>2 DEF List
    <3>2. listed'[j] = stored /\ \A i \in Jobs \ {j} : listed'[i] = listed[i]
      BY <2>2, <3>1 DEF List
    <3> QED
      BY <2>2, <3>2 DEF List, JobGoes
  <2>3. CASE Put(j)
    <3>1. listed[j] = stored /\ stored' = stored /\ at' = at
      BY <2>3 DEF Put
    <3>2. puts[j] \in ToPut /\ puts[j] # <<>>
      BY <2>3 DEF Put, ToPut
    <3>3. CASE Head(puts[j]) = "stats"
      BY <2>3, <3>1, <3>3 DEF Put, JobEnds, JobGoes
    <3>4. CASE Head(puts[j]) # "stats"
      <4> DEFINE k == Head(puts[j])
      <4>1. counter' = [counter EXCEPT ![k] = Counted(k, stored)]
        BY <2>3, <3>1, <3>4 DEF Put
      <4>2. \A key \in Keys : counter'[key] # counter[key] =>
              key = k /\ counter'[key] = Counted(k, stored)
        BY <4>1
      <4>3. \A key \in Keys : counter'[key] # counter[key] => Right(key)'
        BY <3>1, <4>2 DEF Right, Counted
      <4> QED
        BY <2>3, <3>1, <3>4, <4>3 DEF Put
    <3> QED
      BY <3>3, <3>4
  <2>4. CASE JobDies(j)
    BY <2>4 DEF JobDies, JobEnds, JobGoes
  <2> QED
    BY <1>3, <2>1, <2>2, <2>3, <2>4 DEF Recalculate
<1> QED
  BY <1>1, <1>2, <1>3 DEF Next

\* Once the jobs that missed a file are over, every number that changes is that of
\* the bucket, until the next delivery: the step of "eventual consistency".
THEOREM ThingsOnlyGetBetter == Spec => SettlingIsForGood
<1>1. IInv /\ [Next]_vars =>
        (Settled /\ deliveries' = deliveries =>
           /\ Settled'
           /\ \A key \in Keys : counter'[key] # counter[key] => Right(key)'
           /\ stats' # stats => stats' = stored')
  BY SettledStep
<1> QED
  BY <1>1, Invariance, PTL DEF Spec, SettlingIsForGood

=============================================================================
