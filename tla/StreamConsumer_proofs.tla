------------------------ MODULE StreamConsumer_proofs ------------------------
(***************************************************************************)
(* What holds of the consumer for any number of records, any poison among  *)
(* them, any batch size and any number of retries.                         *)
(***************************************************************************)
EXTENDS StreamConsumer, TLAPS

\* A batch that is repeated or given up keeps its range, and what is known of it.
LEMMA RetriedIsSound ==
  ASSUME TypeOK, NEW b \in Batches, b.first <= b.last,
         \A c \in work : c.first <= c.last /\ Batch(c),
         dropped \ Poison \subseteq ok,
         In(b) \ Poison \subseteq ok,
         Retried(b), ok' = ok
  PROVE  /\ work' \subseteq Batches /\ dropped' \subseteq Records
         /\ \A c \in work' : c.first <= c.last /\ Batch(c)'
         /\ (dropped \ Poison \subseteq ok)'
<1>1. In(b) \subseteq Records
  BY StreamAssumption DEF In, Batches, Records
<1>2. CASE b.attempt < RetryAttempts
  <2> DEFINE again == [b EXCEPT !.attempt = @ + 1]
  <2>1. /\ again \in Batches /\ again.first = b.first /\ again.last = b.last
    BY <1>2, StreamAssumption DEF Batches
  <2>2. In(again) = In(b)
    BY <2>1 DEF In
  <2>3. work' = work \cup {again} /\ dropped' = dropped
    BY <1>2 DEF Retried
  <2>4. \A c \in work' : c.first <= c.last /\ Batch(c)'
    BY <2>1, <2>2, <2>3 DEF Batch
  <2> QED
    BY <2>1, <2>3, <2>4 DEF TypeOK
<1>3. CASE ~ (b.attempt < RetryAttempts)
  <2>1. work' = work /\ dropped' = dropped \cup In(b)
    BY <1>3 DEF Retried
  <2> QED
    BY <1>1, <2>1 DEF TypeOK, Batch
<1> QED
  BY <1>2, <1>3

\* What Invoke does to the batches.
TakesUp(b) ==
  /\ hand' \in Batches /\ hand' # NoBatch
  /\ hand'.first = b.first /\ hand'.last = b.last /\ hand'.attempt = b.attempt
  /\ hand'.tries = b.tries + 1
  /\ In(hand') = In(b) /\ In(hand) = {}
  /\ at' = b.first /\ work' = work \ {b}

LEMMA TakenUp ==
  ASSUME Progress, Budgets, Invoke
  PROVE  \E b \in work : TakesUp(b)
<1>1. PICK b \in work :
        /\ hand' = [b EXCEPT !.tries = IF @ > MostCalls THEN @ ELSE @ + 1]
        /\ at' = b.first /\ work' = work \ {b}
  BY DEF Invoke
<1>2. b \in Batches /\ b.first <= b.last /\ hand = NoBatch
  BY DEF Invoke, Progress, TypeOK
<1>3. b.tries + Size(b) <= BatchSize + b.attempt
  BY DEF Budgets
<1>4. ~ (b.tries > MostCalls)
  BY <1>2, <1>3, StreamAssumption DEF Batches, Size, MostCalls
<1>5. /\ hand' \in Batches /\ hand'.tries = b.tries + 1
      /\ hand'.first = b.first /\ hand'.last = b.last /\ hand'.attempt = b.attempt
  BY <1>1, <1>2, <1>4 DEF Batches
<1>6. hand'.tries # 0 /\ NoBatch.tries = 0
  BY <1>2, <1>5 DEF Batches, NoBatch
<1> QED
  BY <1>1, <1>2, <1>5, <1>6 DEF TakesUp, In, NoBatch

\* The variables keep their types and the batches what is known of them.
LEMMA KeepsProgress ==
  ASSUME Progress, Budgets, [Next]_vars
  PROVE  Progress'
<1> USE StreamAssumption
<1>1. CASE Poll
  <2>1. PICK last \in next .. N :
          /\ last < next + BatchSize
          /\ work' = {[first |-> next, last |-> last, attempt |-> 0, tries |-> 0]}
          /\ next' = last + 1
    BY <1>1 DEF Poll
  <2>2. [first |-> next, last |-> last, attempt |-> 0, tries |-> 0] \in Batches
    BY <2>1 DEF Progress, TypeOK, Batches
  <2>3. \A b \in work' : b.first <= b.last /\ Batch(b)'
    BY <2>1 DEF Batch, Progress, TypeOK
  <2> QED
    BY <1>1, <2>1, <2>2, <2>3
    DEF Poll, Progress, TypeOK, LoopDone, Batch, In, NothingIsForgotten, GoodAreProcessed
<1>2. CASE Invoke
  <2>1. PICK b \in work : TakesUp(b)
    BY <1>2, TakenUp
  <2>2. b \in Batches /\ b.first <= b.last /\ Batch(b) /\ failures = {}
    BY <2>1, <1>2 DEF Invoke, Progress, TypeOK
  <2>3. b.first \in 1 .. N /\ b.last \in 1 .. N
    BY <2>2 DEF Batches
  <2>4. b.first .. (b.first - 1) = {}
    BY <2>3
  <2>5. LoopDone'
    BY <1>2, <2>1, <2>2, <2>3, <2>4 DEF Invoke, LoopDone, TakesUp
  <2>6. Batch(hand)' /\ \A c \in work' : c.first <= c.last /\ Batch(c)'
    BY <1>2, <2>1, <2>2 DEF Invoke, Progress, Batch, TakesUp
  <2> QED
    BY <1>2, <2>1, <2>2, <2>3, <2>5, <2>6
    DEF Invoke, Progress, TypeOK, NothingIsForgotten, GoodAreProcessed, TakesUp
<1>3. CASE ProcessRecord
  <2>1. hand # NoBatch /\ at \in hand.first .. hand.last /\ hand \in Batches
    BY <1>3 DEF ProcessRecord, In, NoBatch, Progress, TypeOK
  <2>2. hand.first \in 1 .. N /\ hand.last \in 1 .. N
    BY <2>1 DEF Batches
  <2>3. /\ failures \subseteq Poison \cap (hand.first .. at - 1)
        /\ hand.first .. at - 1 \subseteq ok \cup failures
    BY <2>1 DEF Progress, LoopDone
  <2>4. ok \subseteq ok' /\ ok' \subseteq ok \cup {at}
    BY <1>3 DEF ProcessRecord
  <2>5. LoopDone'
    <3>1. at' = at + 1 /\ hand' = hand
      BY <1>3 DEF ProcessRecord
    <3>2. hand.first .. at' - 1 = (hand.first .. at - 1) \cup {at}
      BY <2>1, <2>2, <3>1
    <3>3. /\ failures' \subseteq Poison \cap ((hand.first .. at - 1) \cup {at})
          /\ (hand.first .. at - 1) \cup {at} \subseteq ok' \cup failures'
      BY <1>3, <2>3 DEF ProcessRecord
    <3> QED
      BY <2>1, <2>2, <3>1, <3>2, <3>3 DEF LoopDone
  <2>6. TypeOK'
    <3>1. at \in Records /\ at + 1 \in 1 .. N + 1
      BY <2>1, <2>2 DEF Records
    <3>2. /\ ok' \subseteq Records /\ failures' \subseteq Records /\ at' = at + 1
          /\ UNCHANGED <<next, work, hand, passed, dropped>>
      BY <1>3, <3>1 DEF ProcessRecord, Progress, TypeOK
    <3> QED
      BY <3>1, <3>2 DEF Progress, TypeOK, Records
  <2> QED
    BY <1>3, <2>1, <2>4, <2>5, <2>6
    DEF ProcessRecord, Progress, Batch, NothingIsForgotten, GoodAreProcessed
<1>4. CASE Respond
  <2>1. hand # NoBatch /\ hand \in Batches /\ hand.first <= hand.last /\ at = hand.last + 1
    BY <1>4 DEF Respond, In, Progress, TypeOK, LoopDone, Batches
  <2>2. hand.first \in 1 .. N /\ hand.last \in 1 .. N
    BY <2>1 DEF Batches
  <2>3. at - 1 = hand.last
    BY <2>1, <2>2
  <2>4. failures \subseteq Poison \cap In(hand) /\ In(hand) \subseteq ok \cup failures
    BY <2>1, <2>3 DEF Progress, LoopDone, In
  <2>5. In(hand) \subseteq Records
    BY <2>2 DEF In, Records
  <2>6. ok' = ok /\ hand' = NoBatch /\ failures' = {} /\ at' = 1 /\ next' = next
    BY <1>4 DEF Respond, Ended
  <2>7. /\ work' \subseteq Batches /\ dropped' \subseteq Records
        /\ \A c \in work' : c.first <= c.last /\ Batch(c)'
        /\ (dropped \ Poison \subseteq ok)'
        /\ passed' \subseteq Records /\ passed' \subseteq ok
    <3>1. CASE failures = {}
      BY <1>4, <2>4, <2>5, <2>6, <3>1
      DEF Respond, Progress, TypeOK, Batch, NothingIsForgotten, GoodAreProcessed
    <3>2. CASE failures # {}
      <4>1. PICK low \in failures :
              /\ \A r \in failures : low <= r
              /\ passed' = passed \cup (hand.first .. low - 1)
              /\ Retried([hand EXCEPT !.first = low])
        BY <1>4, <3>2 DEF Respond
      <4> DEFINE rest == [hand EXCEPT !.first = low]
      <4>2. low \in hand.first .. hand.last
        BY <2>4, <4>1 DEF In
      <4>3. /\ rest \in Batches /\ rest.first = low /\ rest.last = hand.last
            /\ rest.first <= rest.last
        BY <2>1, <2>2, <4>2 DEF Batches
      <4>4. In(rest) \subseteq In(hand)
        BY <2>2, <4>2, <4>3 DEF In
      <4>5. In(rest) \ Poison \subseteq ok
        BY <2>4, <4>4
      <4>6. /\ work' \subseteq Batches /\ dropped' \subseteq Records
            /\ \A c \in work' : c.first <= c.last /\ Batch(c)'
            /\ (dropped \ Poison \subseteq ok)'
        BY <2>6, <4>1, <4>3, <4>5, RetriedIsSound DEF Progress, GoodAreProcessed
      <4>7. (hand.first .. low - 1) \subseteq In(hand) \ failures
        BY <2>2, <4>1, <4>2 DEF In
      <4>8. passed' \subseteq Records /\ passed' \subseteq ok
        BY <2>4, <2>5, <4>1, <4>7 DEF Progress, TypeOK, NothingIsForgotten
      <4> QED
        BY <4>6, <4>8
    <3> QED
      BY <3>1, <3>2
  <2>8. LoopDone' /\ Batch(hand)'
    BY <2>6 DEF LoopDone, Batch, NoBatch
  <2> QED
    BY <2>6, <2>7, <2>8
    DEF Progress, TypeOK, NothingIsForgotten, GoodAreProcessed, Records
<1>5. CASE Dies
  <2>1. hand # NoBatch /\ hand \in Batches /\ hand.first <= hand.last
    BY <1>5 DEF Dies, Progress, TypeOK, LoopDone
  <2>2. hand.first \in 1 .. N /\ hand.last \in 1 .. N
    BY <2>1 DEF Batches
  <2>3. ok' = ok /\ hand' = NoBatch /\ failures' = {} /\ at' = 1 /\ next' = next
        /\ passed' = passed
    BY <1>5 DEF Dies, Ended
  <2>4. /\ work' \subseteq Batches /\ dropped' \subseteq Records
        /\ \A c \in work' : c.first <= c.last /\ Batch(c)'
        /\ (dropped \ Poison \subseteq ok)'
    <3>1. CASE hand.first < hand.last /\ hand.attempt < RetryAttempts
      <4> DEFINE middle == (hand.first + hand.last) \div 2
                 low == [hand EXCEPT !.last = middle]
                 high == [hand EXCEPT !.first = middle + 1]
      <4>1. middle \in hand.first .. hand.last - 1
        BY <2>2, <3>1
      <4>2. /\ low \in Batches /\ low.first = hand.first /\ low.last = middle
            /\ high \in Batches /\ high.first = middle + 1 /\ high.last = hand.last
            /\ low.attempt = hand.attempt /\ high.attempt = hand.attempt
        BY <2>1, <2>2, <4>1 DEF Batches
      <4>3. In(low) \subseteq In(hand) /\ In(high) \subseteq In(hand)
        BY <2>2, <4>1, <4>2 DEF In
      <4>4. Batch(low) /\ Batch(high)
        BY <4>2, <4>3 DEF Progress, Batch
      <4>5. work' = work \cup {low, high} /\ dropped' = dropped
        BY <1>5, <3>1 DEF Dies, Bisected
      <4>6. low.first <= low.last /\ high.first <= high.last
        BY <2>2, <4>1, <4>2
      <4> QED
        BY <2>3, <4>2, <4>4, <4>5, <4>6 DEF Progress, TypeOK, Batch, GoodAreProcessed
    <3>2. CASE ~ (hand.first < hand.last /\ hand.attempt < RetryAttempts)
      <4>1. Retried(hand)
        BY <1>5, <3>2 DEF Dies, Bisected
      <4>2. In(hand) \ Poison \subseteq ok
        <5>1. CASE hand.first < hand.last
          BY <2>1, <3>2, <5>1 DEF Progress, Batch, Batches
        <5>2. CASE ~ (hand.first < hand.last)
          BY <1>5, <2>1, <2>2, <5>2 DEF Dies, In
        <5> QED
          BY <5>1, <5>2
      <4> QED
        BY <2>1, <2>3, <4>1, <4>2, RetriedIsSound DEF Progress, GoodAreProcessed
    <3> QED
      BY <3>1, <3>2
  <2>5. LoopDone' /\ Batch(hand)'
    BY <2>3 DEF LoopDone, Batch, NoBatch
  <2> QED
    BY <2>3, <2>4, <2>5 DEF Progress, TypeOK, NothingIsForgotten, GoodAreProcessed
<1>6. CASE UNCHANGED vars
  BY <1>6
  DEF vars, Progress, TypeOK, LoopDone, Batch, In, NothingIsForgotten, GoodAreProcessed
<1> QED
  BY <1>1, <1>2, <1>3, <1>4, <1>5, <1>6 DEF Next

-----------------------------------------------------------------------------
(***************************************************************************)
(* No record is lost or held twice                                         *)
(***************************************************************************)

\* The records that the event source has in its batches.
LEMMA HeldIs ==
  ASSUME NEW r
  PROVE  r \in Held <=> r \in In(hand) \/ \E b \in work : r \in In(b)
BY DEF Held

\* When an invocation ends, its batch is cut into parts that are left behind (P),
\* given up (D) or wait again (new), and the parts are the whole.
Cut(new, P, D) ==
  /\ work' = work \cup new /\ passed' = passed \cup P /\ dropped' = dropped \cup D
  /\ \A b \in new : In(b) \subseteq In(hand) \ (P \cup D)
  /\ \A b, c \in new : b # c => In(b) \cap In(c) = {}
  /\ P \cap D = {}
  /\ \A r : r \in In(hand) <=> r \in P \cup D \/ \E b \in new : r \in In(b)

\* A part that waits again is shorter, or has used up a retry.
Part(b) ==
  /\ b \in Batches /\ b.tries = hand.tries
  /\ \/ b.attempt = hand.attempt + 1 /\ Size(b) <= Size(hand)
     \/ b.attempt = hand.attempt /\ Size(b) <= Size(hand) - 1

LEMMA CutUp ==
  ASSUME HeldOnce, NEW new, NEW P, NEW D, Cut(new, P, D), In(hand)' = {}, next' = next
  PROVE  HeldOnce'
<1> USE DEF Cut
<1>1. \A r : r \in Held' <=> \E b \in work \cup new : r \in In(b)
  BY DEF Held
<1>2. \A r : r \in Held <=> r \in In(hand) \/ \E b \in work : r \in In(b)
  BY HeldIs
<1>3. (Held \cup passed \cup dropped = 1 .. next - 1)'
  BY <1>1, <1>2 DEF HeldOnce
<1>4. (Held \cap (passed \cup dropped) = {} /\ passed \cap dropped = {})'
  BY <1>1, <1>2 DEF HeldOnce
<1>5. (\A b, c \in work : b # c => In(b) \cap In(c) = {})'
  BY DEF HeldOnce, In
<1> QED
  BY <1>3, <1>4, <1>5 DEF HeldOnce, In

\* A batch that is repeated or given up.
LEMMA RetriedCuts ==
  ASSUME TypeOK, NEW b \in Batches, Retried(b)
  PROVE  \E new, D :
           /\ work' = work \cup new /\ dropped' = dropped \cup D
           /\ \/ D = In(b) /\ new = {}
              \/ /\ D = {}
                 /\ \E again \in Batches :
                      /\ new = {again} /\ again.first = b.first /\ again.last = b.last
                      /\ again.tries = b.tries /\ again.attempt = b.attempt + 1
<1>1. CASE b.attempt < RetryAttempts
  <2> DEFINE again == [b EXCEPT !.attempt = @ + 1]
  <2>1. /\ again \in Batches /\ again.first = b.first /\ again.last = b.last
        /\ again.tries = b.tries /\ again.attempt = b.attempt + 1
    BY <1>1, StreamAssumption DEF Batches
  <2>2. work' = work \cup {again} /\ dropped' = dropped \cup {}
    BY <1>1 DEF Retried
  <2> HIDE DEF again
  <2> QED
    BY <2>1, <2>2
<1>2. CASE ~ (b.attempt < RetryAttempts)
  <2>1. work' = work \cup {} /\ dropped' = dropped \cup In(b)
    BY <1>2 DEF Retried
  <2> QED
    BY <2>1
<1> QED
  BY <1>1, <1>2

Ends == \E new, P, D : Cut(new, P, D) /\ \A b \in new : Part(b)

\* An invocation that ends, well or not, cuts up its batch.
LEMMA EndsCutUp ==
  ASSUME Progress, Respond \/ Dies
  PROVE  Ends
<1> USE StreamAssumption DEF Progress
<1>1. hand # NoBatch /\ hand \in Batches /\ hand.first <= hand.last
  BY DEF Respond, Dies, TypeOK, LoopDone
<1>2. /\ hand.first \in 1 .. N /\ hand.last \in 1 .. N
      /\ hand.tries \in Nat /\ hand.attempt \in Nat
  BY <1>1 DEF Batches
<1>3. ASSUME NEW new, NEW P, NEW D, Cut(new, P, D), \A b \in new : Part(b)
      PROVE  Ends
  BY <1>3 DEF Ends
<1>5. ASSUME NEW low \in hand.first .. hand.last,
             passed' = passed \cup (hand.first .. low - 1),
             Retried([hand EXCEPT !.first = low])
      PROVE  Ends
  <2> DEFINE rest == [hand EXCEPT !.first = low]
             P == hand.first .. low - 1
  <2>1. /\ rest \in Batches /\ rest.first = low /\ rest.last = hand.last
        /\ rest.tries = hand.tries /\ rest.attempt = hand.attempt
    BY <1>1, <1>2 DEF Batches
  <2>2. PICK new, D :
          /\ work' = work \cup new /\ dropped' = dropped \cup D
          /\ \/ D = In(rest) /\ new = {}
             \/ /\ D = {}
                /\ \E again \in Batches :
                     /\ new = {again} /\ again.first = rest.first /\ again.last = rest.last
                     /\ again.tries = rest.tries /\ again.attempt = rest.attempt + 1
    BY <1>5, <2>1, RetriedCuts
  <2>3. In(rest) = low .. hand.last /\ In(hand) = hand.first .. hand.last
    BY <2>1 DEF In
  <2>4. In(hand) = P \cup In(rest) /\ P \cap In(rest) = {}
    BY <1>2, <2>3
  <2> HIDE DEF rest, P
  <2>5. CASE D = In(rest) /\ new = {}
    <3>1. Cut(new, P, D)
      BY <1>5, <2>2, <2>4, <2>5 DEF P, Cut
    <3> QED
      BY <1>3, <2>5, <3>1
  <2>6. CASE D # In(rest) \/ new # {}
    <3>1. PICK again \in Batches :
            /\ D = {} /\ new = {again} /\ again.first = low /\ again.last = hand.last
            /\ again.tries = hand.tries /\ again.attempt = hand.attempt + 1
      BY <2>1, <2>2, <2>6
    <3>2. In(again) = In(rest) /\ Size(again) <= Size(hand)
      BY <1>2, <2>3, <3>1 DEF In, Size
    <3>3. Cut(new, P, D)
      BY <1>5, <2>2, <2>4, <3>1, <3>2 DEF P, Cut
    <3>4. Part(again)
      BY <3>1, <3>2 DEF Part
    <3> QED
      BY <1>3, <3>1, <3>3, <3>4
  <2> QED
    BY <2>5, <2>6
<1>6. CASE Respond /\ failures = {}
  <2>1. Cut({}, In(hand), {})
    BY <1>6 DEF Respond, Cut
  <2> QED
    BY <1>3, <2>1
<1>7. CASE Respond /\ failures # {}
  <2>1. PICK low \in failures :
          /\ passed' = passed \cup (hand.first .. low - 1)
          /\ Retried([hand EXCEPT !.first = low])
    BY <1>7 DEF Respond
  <2>2. low \in hand.first .. hand.last
    BY <1>1, <1>2, <1>7, <2>1 DEF Respond, LoopDone, In
  <2> QED
    BY <1>5, <2>1, <2>2
<1>8. CASE Dies /\ Retried(hand)
  <2>1. [hand EXCEPT !.first = hand.first] = hand
    BY <1>1 DEF Batches
  <2>2. hand.first .. hand.first - 1 = {} /\ passed' = passed
    BY <1>2, <1>8 DEF Dies
  <2> QED
    BY <1>1, <1>2, <1>5, <1>8, <2>1, <2>2
<1>9. CASE Dies /\ hand.first < hand.last /\ hand.attempt < RetryAttempts
  <2> DEFINE middle == (hand.first + hand.last) \div 2
             low == [hand EXCEPT !.last = middle]
             high == [hand EXCEPT !.first = middle + 1]
  <2>1. middle \in hand.first .. hand.last - 1
    BY <1>2, <1>9
  <2>2. /\ low \in Batches /\ low.first = hand.first /\ low.last = middle
        /\ high \in Batches /\ high.first = middle + 1 /\ high.last = hand.last
        /\ low.attempt = hand.attempt /\ high.attempt = hand.attempt
        /\ low.tries = hand.tries /\ high.tries = hand.tries
    BY <1>1, <1>2, <2>1 DEF Batches
  <2>3. /\ work' = work \cup {low, high} /\ dropped' = dropped \cup {}
        /\ passed' = passed \cup {}
    BY <1>9 DEF Dies, Bisected
  <2> HIDE DEF middle, low, high
  <2>4. In(hand) = In(low) \cup In(high) /\ In(low) \cap In(high) = {}
    BY <1>2, <2>1, <2>2 DEF In
  <2>5. Size(low) <= Size(hand) - 1 /\ Size(high) <= Size(hand) - 1
    BY <1>2, <2>1, <2>2 DEF Size
  <2>6. Cut({low, high}, {}, {})
    BY <2>3, <2>4 DEF Cut
  <2>7. Part(low) /\ Part(high)
    BY <2>2, <2>5 DEF Part
  <2> QED
    BY <1>3, <2>6, <2>7
<1> QED
  BY <1>6, <1>7, <1>8, <1>9 DEF Dies, Bisected

\* Whatever becomes of a batch, none of its records is lost or held twice, and its
\* parts have been invoked no more often than they may.
LEMMA KeepsHeld ==
  ASSUME IInv, [Next]_vars
  PROVE  HeldOnce' /\ Budgets'
<1> USE StreamAssumption DEF IInv, Progress
<1>1. CASE Poll
  <2>1. PICK last \in next .. N :
          /\ last < next + BatchSize
          /\ work' = {[first |-> next, last |-> last, attempt |-> 0, tries |-> 0]}
          /\ next' = last + 1
    BY <1>1 DEF Poll
  <2> DEFINE b == [first |-> next, last |-> last, attempt |-> 0, tries |-> 0]
  <2>2. work = {} /\ hand = NoBatch /\ UNCHANGED <<hand, passed, dropped>> /\ In(hand) = {}
    BY <1>1 DEF Poll, In, NoBatch
  <2>3. Held = {} /\ Held' = next .. last
    BY <2>1, <2>2 DEF Held, In
  <2>4. passed \cup dropped = 1 .. next - 1 /\ passed \cap dropped = {}
    BY <2>3 DEF HeldOnce
  <2>5. next \in 1 .. N + 1 /\ last \in next .. N
    BY DEF TypeOK
  <2>6. (next .. last) \cup (1 .. next - 1) = 1 .. next' - 1
    BY <2>1, <2>5
  <2>7. (next .. last) \cap (1 .. next - 1) = {}
    BY <2>5
  <2>8. HeldOnce'
    BY <2>1, <2>2, <2>3, <2>4, <2>6, <2>7 DEF HeldOnce, In
  <2>9. b.tries + Size(b) <= BatchSize + b.attempt
    BY <2>1, <2>5 DEF Size
  <2> QED
    BY <2>1, <2>2, <2>8, <2>9 DEF Budgets
<1>2. CASE Invoke
  <2>1. PICK b \in work : TakesUp(b)
    BY <1>2, TakenUp
  <2>2. UNCHANGED <<next, passed, dropped>>
    BY <1>2 DEF Invoke
  <2>3. Held' = Held
    BY <2>1 DEF Held, TakesUp
  <2>4. HeldOnce'
    BY <2>1, <2>2, <2>3 DEF HeldOnce, TakesUp
  <2>5. b \in Batches /\ b.tries + Size(b) <= BatchSize + b.attempt
    BY DEF TypeOK, Budgets
  <2>6. Size(hand') = Size(b) /\ Size(b) \in Int /\ b.tries \in Nat /\ b.attempt \in Nat
    BY <2>1, <2>5 DEF TakesUp, Size, Batches
  <2>7. hand'.tries + Size(hand') <= BatchSize + hand'.attempt + 1
    BY <2>1, <2>5, <2>6 DEF TakesUp
  <2> QED
    BY <2>1, <2>4, <2>7 DEF Budgets, TakesUp
<1>3. CASE ProcessRecord \/ UNCHANGED vars
  <2>1. UNCHANGED <<next, work, hand, passed, dropped>>
    BY <1>3 DEF ProcessRecord, vars
  <2> QED
    BY <2>1 DEF HeldOnce, Held, In, Budgets, Size
<1>4. CASE Respond \/ Dies
  <2>1. PICK new, P, D : Cut(new, P, D) /\ \A b \in new : Part(b)
    BY <1>4, EndsCutUp DEF Ends
  <2>2. hand # NoBatch /\ hand' = NoBatch /\ next' = next /\ In(hand)' = {} /\ hand \in Batches
    BY <1>4 DEF Respond, Dies, Ended, In, NoBatch, TypeOK
  <2>3. HeldOnce'
    BY <2>1, <2>2, CutUp
  <2>4. \A b \in new : b.tries + Size(b) <= BatchSize + b.attempt
    <3> SUFFICES ASSUME NEW b \in new
                 PROVE  b.tries + Size(b) <= BatchSize + b.attempt
      OBVIOUS
    <3>1. hand.tries + Size(hand) <= BatchSize + hand.attempt + 1
      BY <2>2 DEF Budgets
    <3>2. b \in Batches /\ hand.tries \in Nat /\ hand.attempt \in Nat
      BY <2>1, <2>2 DEF Batches, Part
    <3>3. Size(b) \in Int /\ Size(hand) \in Int /\ b.attempt \in Nat /\ b.tries \in Nat
      BY <2>2, <3>2 DEF Size, Batches
    <3> QED
      BY <2>1, <3>1, <3>2, <3>3 DEF Part
  <2> QED
    BY <2>1, <2>2, <2>3, <2>4 DEF Budgets, Cut
<1> QED
  BY <1>1, <1>2, <1>3, <1>4 DEF Next

\* Every batch is as far as its records say, no record is lost or held twice, and
\* none is invoked more often than its batch was shortened or retried.
THEOREM Invariance == Spec => []IInv
<1>1. Init => IInv
  BY StreamAssumption
  DEF Init, IInv, Progress, TypeOK, LoopDone, Batch, In, NoBatch, NothingIsForgotten,
      GoodAreProcessed, Records, HeldOnce, Held, Budgets
<1>2. IInv /\ [Next]_vars => IInv'
  BY KeepsProgress, KeepsHeld DEF IInv
<1> QED
  BY <1>1, <1>2, PTL DEF Spec

\* The variables keep their types.
THEOREM TypeCorrect == Spec => []TypeOK
<1>1. IInv => TypeOK
  BY DEF IInv, Progress
<1> QED
  BY <1>1, Invariance, PTL

\* The event source never goes past a failure as if the record were processed.
THEOREM NoFailureIsLost == Spec => []NothingIsForgotten
<1>1. IInv => NothingIsForgotten
  BY DEF IInv, Progress
<1> QED
  BY <1>1, Invariance, PTL

\* No record is lost through the poison it shares its batch with.
THEOREM PoisonIsIsolated == Spec => []GoodAreProcessed
<1>1. IInv => GoodAreProcessed
  BY DEF IInv, Progress
<1> QED
  BY <1>1, Invariance, PTL

-----------------------------------------------------------------------------
(***************************************************************************)
(* The consumer implements the contract of the event source                *)
(***************************************************************************)

\* A batch, in hand or waiting, is of records that were taken and not left behind.
LEMMA HeldAreTaken ==
  ASSUME TypeOK, HeldOnce, NEW r \in Held
  PROVE  r \notin passed /\ r \notin dropped /\ ~ (r >= next)
<1>1. r \in 1 .. next - 1 /\ next \in Int
  BY DEF HeldOnce, TypeOK
<1> QED
  BY <1>1 DEF HeldOnce

\* What the contract sees of a record, case by case.
Seen(r, p, c) == PlaceOf(r) = p /\ CallsOf(r) = c

Views ==
  \A r \in Records :
    /\ r \in passed => Seen(r, "passed", 0)
    /\ r \in dropped => Seen(r, "dropped", 0)
    /\ r \in In(hand) => Seen(r, "invoked", hand.tries) /\ hand.tries \in 0 .. MostCalls
    /\ \A b \in work : r \in In(b) =>
         Seen(r, "waiting", b.tries) /\ b.tries \in 0 .. MostCalls - 1
    /\ r >= next => Seen(r, "ahead", 0)
    /\ \/ r \in passed \/ r \in dropped \/ r \in In(hand) \/ r >= next
       \/ \E b \in work : r \in In(b)

LEMMA NoCalls ==
  ASSUME NEW r, r \notin In(hand), ~ \E b \in work : r \in In(b)
  PROVE  CallsOf(r) = 0
BY Zenon DEF CallsOf

LEMMA InvGivesViews == IInv => Views
<1> SUFFICES ASSUME IInv, NEW r \in Records
             PROVE  /\ r \in passed => Seen(r, "passed", 0)
                    /\ r \in dropped => Seen(r, "dropped", 0)
                    /\ r \in In(hand) =>
                         Seen(r, "invoked", hand.tries) /\ hand.tries \in 0 .. MostCalls
                    /\ \A b \in work : r \in In(b) =>
                         Seen(r, "waiting", b.tries) /\ b.tries \in 0 .. MostCalls - 1
                    /\ r >= next => Seen(r, "ahead", 0)
                    /\ \/ r \in passed \/ r \in dropped \/ r \in In(hand) \/ r >= next
                       \/ \E b \in work : r \in In(b)
  BY DEF Views
<1> USE StreamAssumption DEF IInv, Progress
<1>1. r \in In(hand) \/ (\E b \in work : r \in In(b)) =>
        r \notin passed /\ r \notin dropped /\ ~ (r >= next)
  BY HeldIs, HeldAreTaken
<1>2. r \in passed => r \notin dropped
  BY DEF HeldOnce
<1>3. /\ r >= next => r \notin passed /\ r \notin dropped
      /\ r \in passed \/ r \in dropped \/ r \in Held \/ r >= next
  <2>1. r \in Int /\ r >= 1 /\ next \in Int
    BY DEF Records, TypeOK
  <2>2. r \in Held \cup passed \cup dropped <=> r <= next - 1
    BY <2>1 DEF HeldOnce
  <2> QED
    BY <2>1, <2>2
<1>4. r \in In(hand) => ~ \E b \in work : r \in In(b)
  BY DEF HeldOnce
<1>5. r \in In(hand) => hand.tries \in 0 .. MostCalls
  <2> SUFFICES ASSUME r \in In(hand)
               PROVE  hand.tries \in 0 .. MostCalls
    OBVIOUS
  <2>1. hand \in Batches /\ hand # NoBatch /\ hand.first <= hand.last
    BY DEF In, NoBatch, TypeOK, LoopDone
  <2>2. hand.tries + Size(hand) <= BatchSize + hand.attempt + 1
    BY <2>1 DEF Budgets
  <2> QED
    BY <2>1, <2>2 DEF Batches, Size, MostCalls
<1>6. ASSUME NEW b \in work, r \in In(b)
      PROVE  Seen(r, "waiting", b.tries) /\ b.tries \in 0 .. MostCalls - 1
  <2>1. b \in Batches /\ b.first <= b.last /\ b.tries + Size(b) <= BatchSize + b.attempt
    BY DEF TypeOK, Budgets
  <2>2. b.tries \in 0 .. MostCalls - 1
    BY <2>1 DEF Batches, Size, MostCalls
  <2>3. \A c \in work : r \in In(c) => c = b
    BY <1>6 DEF HeldOnce
  <2>4. (CHOOSE c \in work : r \in In(c)) = b
    BY <1>6, <2>3
  <2>5. PlaceOf(r) = "waiting"
    BY <1>1, <1>4, <1>6 DEF PlaceOf
  <2>6. CallsOf(r) = b.tries
    BY <1>4, <1>6, <2>4 DEF CallsOf
  <2> QED
    BY <2>2, <2>5, <2>6 DEF Seen
<1>7. r \in In(hand) => Seen(r, "invoked", hand.tries)
  <2>1. r \in In(hand) => CallsOf(r) = hand.tries
    BY Zenon DEF CallsOf
  <2>2. r \in In(hand) => PlaceOf(r) = "invoked"
    BY <1>1, <1>4 DEF PlaceOf
  <2> QED
    BY <2>1, <2>2 DEF Seen
<1>8. r \in passed => Seen(r, "passed", 0)
  BY <1>1, <1>2, <1>3, NoCalls DEF Seen, PlaceOf
<1>9. r \in dropped => Seen(r, "dropped", 0)
  BY <1>1, <1>2, <1>3, NoCalls DEF Seen, PlaceOf
<1>10. r >= next => Seen(r, "ahead", 0)
  BY <1>1, <1>2, <1>3, NoCalls DEF Seen, PlaceOf
<1> QED
  BY <1>3, <1>5, <1>6, <1>7, <1>8, <1>9, <1>10, HeldIs

\* The steps of the contract, seen from a record.
LEMMA InitDelivery == Init => Delivery!Init
<1> SUFFICES ASSUME Init, NEW r \in Records
             PROVE  PlaceOf(r) = "ahead" /\ CallsOf(r) = 0
  BY DEF Delivery!Init
<1> QED
  BY DEF Init, PlaceOf, CallsOf, In, NoBatch, Records

\* A step of the contract, seen from one record.
Moves(r) ==
  Delivery!Taken(r) \/ Delivery!Invoked(r) \/ Delivery!Repeated(r)
    \/ Delivery!LeftBehind(r) \/ Delivery!Stays(r)

LEMMA MovesAre ==
  ASSUME NEW r \in Records, NEW p, NEW c, NEW q, NEW d,
         Seen(r, p, c), Seen(r, q, d)',
         \/ q = p /\ d = c
         \/ p = "ahead" /\ q = "waiting" /\ d = c
         \/ p = "waiting" /\ q = "invoked" /\ c < MostCalls /\ d = c + 1
         \/ p = "invoked" /\ q = "waiting" /\ d = c
         \/ p = "invoked" /\ q \in {"passed", "dropped"} /\ d = 0
  PROVE  Moves(r)
BY DEF Seen, Moves, Delivery!Taken, Delivery!Invoked, Delivery!Repeated,
   Delivery!LeftBehind, Delivery!Stays

\* Each step moves each record as the contract allows.
LEMMA EachMoves ==
  ASSUME IInv, IInv', Views, Views', [Next]_vars, NEW r \in Records
  PROVE  Moves(r)
<1> USE DEF Views
<1>1. ASSUME UNCHANGED <<next, work, hand, passed, dropped>>
      PROVE  Moves(r)
  BY <1>1, MovesAre DEF In
<1>2. CASE Poll
  <2>1. PICK last \in next .. N :
          /\ work' = {[first |-> next, last |-> last, attempt |-> 0, tries |-> 0]}
          /\ next' = last + 1
    BY <1>2 DEF Poll
  <2>2. /\ work = {} /\ hand = NoBatch /\ UNCHANGED <<hand, passed, dropped>>
        /\ r \notin In(hand)
    BY <1>2 DEF Poll, In, NoBatch
  <2>3. CASE r \in passed \/ r \in dropped
    BY <2>2, <2>3, MovesAre
  <2>4. CASE r >= next
    <3>1. Seen(r, "ahead", 0)
      BY <2>4
    <3>2. CASE r >= next'
      BY <3>1, <3>2, MovesAre
    <3>3. CASE ~ (r >= next')
      <4> DEFINE b == [first |-> next, last |-> last, attempt |-> 0, tries |-> 0]
      <4>1. b.first = next /\ b.last = last /\ b.tries = 0
        OBVIOUS
      <4>2. r \in next .. last
        BY <2>1, <2>4, <3>3 DEF IInv, Progress, TypeOK, Records
      <4>3. r \in In(b) /\ b \in work'
        BY <2>1, <4>1, <4>2 DEF In
      <4> HIDE DEF b
      <4>4. Seen(r, "waiting", 0)'
        BY <4>1, <4>3 DEF In
      <4> QED
        BY <3>1, <4>4, MovesAre
    <3> QED
      BY <3>2, <3>3
  <2> QED
    BY <2>2, <2>3, <2>4
<1>3. CASE Invoke
  <2>1. PICK b \in work : TakesUp(b)
    BY <1>3, TakenUp DEF IInv
  <2>2. UNCHANGED <<next, passed, dropped>>
    BY <1>3 DEF Invoke
  <2>3. CASE r \in passed \/ r \in dropped \/ r >= next
    BY <2>2, <2>3, MovesAre
  <2>4. CASE r \in In(b)
    <3>1. Seen(r, "waiting", b.tries) /\ b.tries \in 0 .. MostCalls - 1
      BY <2>4
    <3>2. Seen(r, "invoked", b.tries + 1)'
      BY <2>1, <2>4 DEF TakesUp, In
    <3>3. b.tries < MostCalls
      BY <3>1, StreamAssumption DEF MostCalls
    <3> QED
      BY <3>1, <3>2, <3>3, MovesAre
  <2>5. ASSUME NEW c \in work, c # b, r \in In(c)
        PROVE  Moves(r)
    <3>1. c \in work' /\ In(c)' = In(c)
      BY <2>1, <2>5 DEF TakesUp, In
    <3>2. Seen(r, "waiting", c.tries) /\ Seen(r, "waiting", c.tries)'
      BY <2>5, <3>1
    <3> QED
      BY <3>2, MovesAre
  <2> QED
    BY <2>1, <2>3, <2>4, <2>5 DEF TakesUp
<1>4. CASE Respond \/ Dies
  <2>1. PICK new, P, D : Cut(new, P, D) /\ \A b \in new : Part(b)
    BY <1>4, EndsCutUp DEF Ends, IInv
  <2>2. next' = next /\ hand' = NoBatch
    BY <1>4 DEF Respond, Dies, Ended
  <2>3. CASE r \in passed \/ r \in dropped \/ r >= next
    BY <2>1, <2>2, <2>3, MovesAre DEF Cut
  <2>4. ASSUME NEW c \in work, r \in In(c)
        PROVE  Moves(r)
    <3>1. c \in work' /\ In(c)' = In(c)
      BY <2>1, <2>4 DEF Cut, In
    <3>2. Seen(r, "waiting", c.tries) /\ Seen(r, "waiting", c.tries)'
      BY <2>4, <3>1
    <3> QED
      BY <3>2, MovesAre
  <2>5. CASE r \in In(hand)
    <3>1. Seen(r, "invoked", hand.tries)
      BY <2>5
    <3>2. CASE r \in P \cup D
      <4>1. r \in passed' \/ r \in dropped'
        BY <2>1, <3>2 DEF Cut
      <4>2. Seen(r, "passed", 0)' \/ Seen(r, "dropped", 0)'
        BY <4>1
      <4> QED
        BY <3>1, <4>2, MovesAre
    <3>3. ASSUME NEW b \in new, r \in In(b)
          PROVE  Moves(r)
      <4>1. b \in work' /\ In(b)' = In(b) /\ b.tries = hand.tries
        BY <2>1, <3>3 DEF Cut, Part, In
      <4>2. Seen(r, "waiting", b.tries)'
        BY <3>3, <4>1
      <4> QED
        BY <3>1, <4>1, <4>2, MovesAre
    <3> QED
      BY <2>1, <2>5, <3>2, <3>3 DEF Cut
  <2> QED
    BY <2>3, <2>4, <2>5
<1> QED
  BY <1>1, <1>2, <1>3, <1>4 DEF Next, ProcessRecord, vars

LEMMA StepDelivery ==
  ASSUME IInv, IInv', Views, Views', [Next]_vars
  PROVE  Delivery!Next
<1>1. ASSUME NEW r \in Records
      PROVE  Moves(r) /\ PlaceOf(r)' \in Delivery!Places /\ CallsOf(r)' \in 0 .. MostCalls
  <2>1. Moves(r)
    BY EachMoves
  <2>2. MostCalls \in Nat
    BY StreamAssumption DEF MostCalls
  <2>3. PlaceOf(r)' \in Delivery!Places /\ CallsOf(r)' \in 0 .. MostCalls
    BY <2>2 DEF Views, Seen, Delivery!Places
  <2> QED
    BY <2>1, <2>3
<1> QED
  BY <1>1 DEF Delivery!Next, Moves

\* Behind batches, checkpoints, bisection and retries the event source does to each
\* record only what the contract allows.
THEOREM Implementation == Spec => ImplementsDelivery
<1>1. IInv /\ IInv' /\ Views /\ Views' /\ [Next]_vars => [Delivery!Next]_(Delivery!vars)
  BY StepDelivery
<1> QED
  BY <1>1, InitDelivery, InvGivesViews, Invariance, PTL
  DEF Spec, ImplementsDelivery, Delivery!Spec

=============================================================================
