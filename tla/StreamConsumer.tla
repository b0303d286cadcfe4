---------------------------- MODULE StreamConsumer ----------------------------
(***************************************************************************)
(* One ordered part of a shard of the declaration stream and the Lambda    *)
(* that consumes it: the loop of declarationProcessor.ts over a batch, its *)
(* partial batch response, and what the event source of CommonsDBStack.ts  *)
(* makes of it.  A record is its position.  DeclarationPipeline follows    *)
(* one record through its deliveries; here are the batches they come in.   *)
(* Both implement DeliveryContract.                                        *)
(***************************************************************************)
EXTENDS Integers

CONSTANTS
  N,              \* records of the shard part
  Poison,         \* those whose processing may throw, or end the invocation
  BatchSize,
  RetryAttempts

ASSUME StreamAssumption ==
  /\ N \in Nat /\ BatchSize \in Nat \ {0} /\ RetryAttempts \in Nat \ {0}
  /\ Poison \subseteq 1 .. N

VARIABLES
  next,      \* the first record that was not yet polled
  work,      \* batches that wait, from first to last
  hand,      \* the batch in the invocation, or NoBatch
  at,        \* the record the loop stands at
  failures,  \* batchItemFailures
  ok,        \* records processed without an error
  passed,    \* records the event source has left behind as processed
  dropped    \* records it has given up

vars == <<next, work, hand, at, failures, ok, passed, dropped>>

Records == 1 .. N
\* attempt is the event source's count of retries.  tries is no part of the code: it
\* counts how often the batch, and those it came from, were invoked, to just above
\* what the contract allows.
Batches == [first : 1 .. N, last : 1 .. N, attempt : 0 .. RetryAttempts, tries : Nat]
NoBatch == [first |-> 1, last |-> 0, attempt |-> 0, tries |-> 0]
In(b) == b.first .. b.last

TypeOK ==
  /\ next \in 1 .. N + 1
  /\ work \subseteq Batches /\ hand \in Batches \cup {NoBatch}
  /\ at \in 1 .. N + 1
  /\ failures \subseteq Records /\ ok \subseteq Records
  /\ passed \subseteq Records /\ dropped \subseteq Records

Init ==
  /\ next = 1 /\ work = {} /\ hand = NoBatch /\ at = 1
  /\ failures = {} /\ ok = {} /\ passed = {} /\ dropped = {}

\* Up to BatchSize records are taken, or fewer when the batching window is over.
Poll ==
  /\ work = {} /\ hand = NoBatch
  /\ \E last \in next .. N :
       /\ last < next + BatchSize
       /\ work' = {[first |-> next, last |-> last, attempt |-> 0, tries |-> 0]}
       /\ next' = last + 1
  /\ UNCHANGED <<hand, at, failures, ok, passed, dropped>>

\* A death makes the batch shorter, and what is tried again uncut uses up a retry.
MostCalls == BatchSize + RetryAttempts

\* The batches that wait are invoked in the order of their records.
Invoke ==
  /\ hand = NoBatch
  /\ \E b \in work :
       /\ \A c \in work : b.first <= c.first
       /\ hand' = [b EXCEPT !.tries = IF @ > MostCalls THEN @ ELSE @ + 1]
       /\ at' = b.first
       /\ work' = work \ {b}
  /\ UNCHANGED <<next, failures, ok, passed, dropped>>

\* Faulty: the loop ends at the first error.
ProcessRecord_Breaks ==
  /\ at \in In(hand)
  /\ \/ ok' = ok \cup {at} /\ at' = at + 1 /\ UNCHANGED failures
     \/ at \in Poison /\ failures' = failures \cup {at} /\ at' = hand.last + 1 /\ UNCHANGED ok
  /\ UNCHANGED <<next, work, hand, passed, dropped>>
\* Faulty: an error is not reported.
ProcessRecord_Silent ==
  /\ at \in In(hand)
  /\ \/ ok' = ok \cup {at}
     \/ at \in Poison /\ UNCHANGED ok
  /\ at' = at + 1
  /\ UNCHANGED <<next, work, hand, failures, passed, dropped>>
\* One turn of the loop.  A record whose ISCC is invalid is processed: its error is
\* permanent and not thrown.
ProcessRecord ==
  /\ at \in In(hand)
  /\ \/ ok' = ok \cup {at} /\ UNCHANGED failures
     \/ at \in Poison /\ failures' = failures \cup {at} /\ UNCHANGED ok
  /\ at' = at + 1
  /\ UNCHANGED <<next, work, hand, passed, dropped>>

\* Faulty: attempts are not counted.
Retried_Endless(b) == work' = work \cup {b} /\ UNCHANGED dropped
\* A batch is repeated retryAttempts times and then given up: no dead-letter queue.
Retried(b) ==
  IF b.attempt < RetryAttempts
  THEN work' = work \cup {[b EXCEPT !.attempt = @ + 1]} /\ UNCHANGED dropped
  ELSE dropped' = dropped \cup In(b) /\ UNCHANGED work

\* The invocation has ended, well or not.
Ended == hand' = NoBatch /\ failures' = {} /\ at' = 1

\* Without failures the batch is left behind.  Otherwise what comes before the
\* lowest failed record is, and the batch is repeated from there.
Respond ==
  /\ hand # NoBatch /\ at \notin In(hand)
  /\ IF failures = {}
     THEN passed' = passed \cup In(hand) /\ UNCHANGED <<work, dropped>>
     ELSE \E low \in failures :
            /\ \A r \in failures : low <= r
            /\ passed' = passed \cup (hand.first .. low - 1)
            /\ Retried([hand EXCEPT !.first = low])
  /\ Ended
  /\ UNCHANGED <<next, ok>>

\* Faulty: a batch is repeated as it is.
Bisected_Not(b) == Retried(b)
\* bisectBatchOnError: the halves are tried separately, which is not counted.
Bisected(b) ==
  IF b.first < b.last /\ b.attempt < RetryAttempts
  THEN LET middle == (b.first + b.last) \div 2 IN
         /\ work' = work \cup {[b EXCEPT !.last = middle], [b EXCEPT !.first = middle + 1]}
         /\ UNCHANGED dropped
  ELSE Retried(b)

\* The invocation times out or dies.  Only a poison record makes it die alone; of
\* several, any may be the one at which the 120 s are over.
Dies ==
  /\ hand # NoBatch
  /\ (hand.first < hand.last \/ at \in Poison \cap In(hand))
  /\ Bisected(hand)
  /\ Ended
  /\ UNCHANGED <<next, ok, passed>>

Next == Poll \/ Invoke \/ ProcessRecord \/ Respond \/ Dies

Spec == Init /\ [][Next]_vars

\* Lambda polls, invokes, and runs or kills what it has invoked.
FairSpec == Spec /\ WF_vars(Poll) /\ WF_vars(Invoke) /\ WF_vars(ProcessRecord \/ Respond \/ Dies)

-----------------------------------------------------------------------------
(***************************************************************************)
(* Properties                                                              *)
(***************************************************************************)

\* The stream goes past a record only when the record was once processed without
\* an error, or when it is given up: no failure gets lost between the loop, its
\* answer and the checkpoint.
NothingIsForgotten == passed \subseteq ok

\* A record that can be processed is processed, whatever poison it shares a batch
\* with: the loop goes on after an error, and a batch that dies is split before
\* its retries run out.
GoodAreProcessed == (passed \cup dropped) \ Poison \subseteq ok

\* Where the contract has a record, and its invocations so far.
PlaceOf(r) ==
  CASE r \in passed -> "passed"
    [] r \in dropped -> "dropped"
    [] r \in In(hand) -> "invoked"
    [] \E b \in work : r \in In(b) -> "waiting"
    [] r >= next -> "ahead"
    [] OTHER -> "lost"
CallsOf(r) ==
  IF r \in In(hand) THEN hand.tries
  ELSE IF \E b \in work : r \in In(b)
       THEN (CHOOSE b \in work : r \in In(b)).tries ELSE 0

Delivery == INSTANCE DeliveryContract WITH
  MaxCalls <- MostCalls,
  place <- [r \in Records |-> PlaceOf(r)],
  calls <- [r \in Records |-> CallsOf(r)]

\* Every step of the event source is one of the contract: it loses no record, goes
\* past none that was not invoked, and gives up after a bounded number of calls,
\* although splitting a batch resets nothing and counts as no attempt.
ImplementsDelivery == Delivery!Spec

\* Why: a batch has been invoked no more often than it was shortened or retried.
Size(b) == b.last - b.first + 1
Budgets ==
  /\ \A b \in work : b.tries + Size(b) <= BatchSize + b.attempt
  /\ hand # NoBatch => hand.tries + Size(hand) <= BatchSize + hand.attempt + 1

\* Poison does not block the stream: each record is left behind or given up.
StreamDrains == <>[](passed \cup dropped = Records)

\* Why these hold: the batch in the invocation has been worked off up to the
\* record the loop stands at, and one that is tried again without having been
\* split was worked off before.
Batch(b) == b.attempt > 0 => In(b) \ Poison \subseteq ok

LoopDone ==
  hand # NoBatch =>
    /\ at \in hand.first .. hand.last + 1
    /\ hand.first <= hand.last
    /\ failures \subseteq Poison \cap (hand.first .. at - 1)
    /\ hand.first .. at - 1 \subseteq ok \cup failures

Progress ==
  /\ TypeOK
  /\ \A b \in work : b.first <= b.last /\ Batch(b)
  /\ hand = NoBatch => failures = {}
  /\ LoopDone
  /\ Batch(hand)
  /\ NothingIsForgotten
  /\ GoodAreProcessed

\* Why the contract has one place for each record: one that was taken is in one of
\* the batches that wait or are invoked, or behind, processed or given up.
Held == In(hand) \cup UNION {In(b) : b \in work}
HeldOnce ==
  /\ Held \cup passed \cup dropped = 1 .. next - 1
  /\ Held \cap (passed \cup dropped) = {} /\ passed \cap dropped = {}
  /\ \A b \in work : In(b) \cap In(hand) = {}
  /\ \A b, c \in work : b # c => In(b) \cap In(c) = {}

IInv == Progress /\ HeldOnce /\ Budgets

=============================================================================
