------------------------- MODULE SlackLimiter_proofs -------------------------
(***************************************************************************)
(* The limits of SlackLimiter for any number of containers, any Max and    *)
(* Window, and calls shorter than half a window.                           *)
(***************************************************************************)
EXTENDS SlackLimiter, TLAPS

\* The invariant of one container.
Kept(c) == LocallyCounted(c) /\ Settled(c) /\ LocallyRecent(c)

\* The shared row after a step that is not the container's own: it is as before,
\* has gone, counts more, or is younger than any call that may run.
RowMoves ==
  \/ sharedAge' = sharedAge
  \/ sharedAge >= Window + Grace /\ sharedAge' = Gone
  \/ \E d \in Containers : Over(d) /\ sharedAge' = nowAge[d]

-----------------------------------------------------------------------------
LEMMA InitInv == Init => IInv
BY LimiterAssumption DEF Init, IInv, TypeOK, Gone, QuietMax, Counted, Recent,
   LocallyCounted, Settled, LocallyRecent

\* What a step of one container leaves alone of another.
LEMMA OwnSteps ==
  ASSUME TypeOK, NEW c \in Containers, Check(c) \/ Suppress(c) \/ Bump(c) \/ Recycle(c),
         NEW d \in Containers \ {c}
  PROVE  /\ pc'[d] = pc[d] /\ attempt'[d] = attempt[d] /\ nowAge'[d] = nowAge[d]
         /\ localAge'[d] = localAge[d] /\ localCount'[d] = localCount[d]
         /\ blocked'[d] = blocked[d] /\ sent'[d] = sent[d] /\ asked'[d] = asked[d]
         /\ RowMoves
         /\ quiet' \in {0, quiet}
<1> USE DEF TypeOK, shared, call, local, history, TrackWindow, Pass, Block, Done, FailOpen,
      RowMoves
<1>1. CASE Check(c)
  BY <1>1 DEF Check
<1>2. CASE Suppress(c)
  BY <1>2 DEF Suppress
<1>3. CASE Increment(c)
  BY <1>3 DEF Increment
<1>4. CASE NoWindow(c)
  BY <1>4 DEF NoWindow
<1>5. CASE Reset(c)
  BY <1>5 DEF Reset
<1>6. CASE Retry(c)
  BY <1>6 DEF Retry
<1>7. CASE Error(c)
  BY <1>7 DEF Error
<1>8. CASE Recycle(c)
  BY <1>8 DEF Recycle
<1> QED
  BY <1>1, <1>2, <1>3, <1>4, <1>5, <1>6, <1>7, <1>8 DEF Bump

\* What holds of a container goes on to hold when others move.
LEMMA OthersKeep ==
  ASSUME IInv, NEW d \in Containers,
         pc'[d] = pc[d], attempt'[d] = attempt[d], nowAge'[d] = nowAge[d],
         localAge'[d] = localAge[d], localCount'[d] = localCount[d],
         blocked'[d] = blocked[d], sent'[d] = sent[d], asked'[d] = asked[d],
         RowMoves, quiet' \in {0, quiet}
  PROVE  Kept(d)'
<1> USE LimiterAssumption DEF IInv, TypeOK
<1>1. LocallyCounted(d)'
  BY DEF LocallyCounted
<1>2. LocallyRecent(d)'
  BY DEF LocallyRecent
<1>3. Settled(d)'
  <2>1. CASE sharedAge' = sharedAge
    BY <2>1 DEF Settled, Over, Active
  <2>2. CASE sharedAge >= Window + Grace /\ sharedAge' = Gone
    BY <2>2 DEF Settled, Over, Active, Gone
  <2>3. ASSUME NEW e \in Containers, Over(e), sharedAge' = nowAge[e]
        PROVE  Settled(d)'
    <3>1. /\ nowAge[e] \in 0 .. MaxLag /\ nowAge[d] \in 0 .. MaxLag
          /\ sharedAge \in 0 .. Gone /\ sharedAge >= nowAge[e] + Window
      BY <2>3 DEF Over
    <3>2. pc[d] = "increment" /\ attempt[d] > 0 => sharedAge < nowAge[d] + Window
      BY DEF Settled, Active
    <3>3. pc[d] = "reset" => attempt[d] = 0
      BY DEF Settled
    <3> QED
      BY <2>3, <3>1, <3>2, <3>3 DEF Settled, Over, Active
  <2> QED
    BY <2>1, <2>2, <2>3 DEF RowMoves
<1> QED
  BY <1>1, <1>2, <1>3 DEF Kept

-----------------------------------------------------------------------------
(***************************************************************************)
(* A container's own steps                                                 *)
(***************************************************************************)

\* What is to be shown after a step of container c: the rest is OthersKeep.
Goal(c) == TypeOK' /\ Counted' /\ Recent' /\ Kept(c)'

LEMMA CheckInv ==
  ASSUME IInv, NEW c \in Containers, Check(c)
  PROVE  Goal(c)
<1> USE LimiterAssumption DEF IInv, Check, TrackWindow, shared
<1>1. TypeOK'
  BY DEF TypeOK
<1>2. Counted' /\ Recent'
  BY DEF Counted, Recent
<1>3. LocallyCounted(c)'
  BY DEF TypeOK, LocallyCounted, Full
<1>4. Settled(c)'
  BY DEF TypeOK, Settled
<1>5. LocallyRecent(c)'
  BY DEF TypeOK, LocallyRecent, Expired
<1> QED
  BY <1>1, <1>2, <1>3, <1>4, <1>5 DEF Goal, Kept

LEMMA SuppressInv ==
  ASSUME IInv, NEW c \in Containers, Suppress(c)
  PROVE  Goal(c)
<1> USE LimiterAssumption DEF IInv, Suppress, TrackWindow, shared, call, Full
<1>1. TypeOK'
  BY DEF TypeOK
<1>2. Counted' /\ Recent'
  BY DEF Counted, Recent
<1>3. LocallyCounted(c)'
  BY DEF TypeOK, LocallyCounted
<1>4. Settled(c)'
  BY DEF TypeOK, Settled
<1>5. LocallyRecent(c)'
  BY DEF TypeOK, LocallyRecent
<1> QED
  BY <1>1, <1>2, <1>3, <1>4, <1>5 DEF Goal, Kept

\* A notification that passes counts locally; the rest of the call is forgotten.
LEMMA PassInv ==
  ASSUME IInv, NEW c \in Containers, pc[c] # "idle", Pass(c), Done(c)
  PROVE  /\ quiet' \in 0 .. QuietMax /\ Kept(c)'
         /\ pc' \in [Containers -> {"idle", "increment", "reset"}]
         /\ attempt' \in [Containers -> 0 .. 2] /\ nowAge' \in [Containers -> 0 .. MaxLag]
         /\ localAge' \in [Containers -> 0 .. Window]
         /\ localCount' \in [Containers -> 0 .. Max] /\ blocked' \in [Containers -> BOOLEAN]
         /\ sent' \in [Containers -> Nat] /\ asked' \in [Containers -> Nat]
<1> USE LimiterAssumption DEF IInv, Pass, Done, TypeOK, QuietMax
<1>1. localCount[c] < Max /\ ~ blocked[c]
  BY DEF LocallyCounted
<1>2. LocallyCounted(c)'
  BY <1>1 DEF LocallyCounted
<1>3. Settled(c)' /\ LocallyRecent(c)'
  BY <1>1 DEF Settled, LocallyRecent
<1> QED
  BY <1>1, <1>2, <1>3 DEF Kept

LEMMA IncrementInv ==
  ASSUME IInv, NEW c \in Containers, Increment(c)
  PROVE  Goal(c)
<1> USE LimiterAssumption DEF IInv, Increment, Allows, AtMost
<1>1. sharedAge < Gone /\ sharedAge' = sharedAge /\ sharedAge < nowAge[c] + Window
  BY DEF Active, Gone, TypeOK
<1>2. CASE sharedCount + 1 <= Max
  <2>1. Pass(c) /\ Done(c) /\ granted' = granted + 1 /\ sharedCount' = sharedCount + 1
    BY <1>2 DEF TypeOK
  <2>2. TypeOK' /\ Kept(c)'
    BY <1>1, <1>2, <2>1, PassInv DEF TypeOK
  <2>3. Counted' /\ Recent'
    BY <1>1, <1>2, <2>1 DEF Counted, Recent, Pass, TypeOK
  <2> QED
    BY <2>2, <2>3 DEF Goal
<1>3. CASE ~ (sharedCount + 1 <= Max)
  <2>1. Block(c) /\ Done(c) /\ granted' = granted /\ sharedCount' = Max + 1
    BY <1>3 DEF TypeOK
  <2> USE DEF Block, Done, TypeOK
  <2>2. TypeOK'
    BY <1>1, <2>1
  <2>3. Counted' /\ Recent'
    BY <1>1, <2>1 DEF Counted, Recent
  <2>4. LocallyCounted(c)'
    BY <2>1 DEF LocallyCounted
  <2>5. Settled(c)'
    BY <2>1 DEF Settled
  <2>6. LocallyRecent(c)'
    <3>1. quiet <= sharedAge
      BY <1>1 DEF Recent
    <3>2. localAge[c] < Window => sharedAge < localAge[c] + Window
      BY <1>1 DEF LocallyRecent
    <3> QED
      BY <1>1, <2>1, <3>1, <3>2 DEF LocallyRecent
  <2> QED
    BY <2>2, <2>3, <2>4, <2>5, <2>6 DEF Goal, Kept
<1> QED
  BY <1>2, <1>3

LEMMA NoWindowInv ==
  ASSUME IInv, NEW c \in Containers, NoWindow(c)
  PROVE  Goal(c)
<1> USE LimiterAssumption DEF IInv, NoWindow, shared, local, history, TypeOK
<1>1. TypeOK' /\ Counted' /\ Recent'
  BY DEF Counted, Recent
<1>2. LocallyCounted(c)' /\ LocallyRecent(c)'
  BY DEF LocallyCounted, LocallyRecent
<1>3. Settled(c)'
  BY DEF Settled, Active, Over
<1> QED
  BY <1>1, <1>2, <1>3 DEF Goal, Kept

LEMMA ResetInv ==
  ASSUME IInv, NEW c \in Containers, Reset(c)
  PROVE  Goal(c)
<1> USE LimiterAssumption DEF IInv, Reset
<1>1. /\ sharedAge >= Window /\ sharedAge' \in 0 .. Gone /\ sharedCount' = 1
      /\ granted' = 1
  BY DEF Over, TypeOK, Gone
<1>2. TypeOK' /\ Kept(c)'
  BY <1>1, PassInv DEF TypeOK
<1>3. Counted' /\ Recent'
  BY <1>1 DEF Counted, Recent, Pass
<1> QED
  BY <1>2, <1>3 DEF Goal

\* A lost reset is retried once, against a young window.
LEMMA RetryInv ==
  ASSUME IInv, NEW c \in Containers, Retry(c)
  PROVE  Goal(c)
<1> USE LimiterAssumption DEF IInv, Retry, shared, local
<1>1. attempt[c] = 0 /\ ~ Over(c) /\ sharedAge <= nowAge[c] + MaxLag
  BY DEF Settled
<1>2. /\ pc' = [pc EXCEPT ![c] = "increment"]
      /\ attempt' = [attempt EXCEPT ![c] = @ + 1]
      /\ UNCHANGED <<sharedAge, sharedCount, nowAge, localAge, localCount, blocked,
                     granted, sent, asked, quiet>>
  BY <1>1
<1> USE DEF TypeOK
<1>3. TypeOK' /\ Counted' /\ Recent'
  BY <1>1, <1>2 DEF Counted, Recent
<1>4. LocallyCounted(c)' /\ LocallyRecent(c)'
  BY <1>2 DEF LocallyCounted, LocallyRecent
<1>5. Settled(c)'
  BY <1>1, <1>2 DEF Settled, Active, Over
<1> QED
  BY <1>3, <1>4, <1>5 DEF Goal, Kept

LEMMA ErrorInv ==
  ASSUME IInv, NEW c \in Containers, Error(c)
  PROVE  Goal(c)
<1> USE LimiterAssumption DEF IInv, Error, FailOpen, shared
<1>1. /\ sharedAge' \in 0 .. Gone /\ sharedCount' \in 0 .. Max + 1
      /\ granted' \in {0, granted} /\ granted' <= sharedCount'
  BY DEF TypeOK, Gone, AtMost, Over, Counted
<1>2. pc[c] # "idle"
  OBVIOUS
<1>3. TypeOK' /\ Kept(c)'
  BY <1>1, <1>2, PassInv DEF TypeOK
<1>4. Counted' /\ Recent'
  BY <1>1 DEF Counted, Recent, Pass
<1> QED
  BY <1>3, <1>4 DEF Goal

LEMMA RecycleInv ==
  ASSUME IInv, NEW c \in Containers, Recycle(c)
  PROVE  Goal(c)
<1> USE LimiterAssumption DEF IInv, Recycle, shared, TypeOK
<1>1. TypeOK' /\ Counted' /\ Recent'
  BY DEF Counted, Recent
<1>2. LocallyCounted(c)' /\ Settled(c)' /\ LocallyRecent(c)'
  BY DEF LocallyCounted, Settled, LocallyRecent
<1> QED
  BY <1>1, <1>2 DEF Goal, Kept

-----------------------------------------------------------------------------
(***************************************************************************)
(* The clock                                                               *)
(***************************************************************************)

LEMMA ExpireInv == IInv /\ Expire => IInv'
<1> SUFFICES ASSUME IInv, Expire PROVE IInv'
  OBVIOUS
<1> USE LimiterAssumption DEF Expire, call, local, history
<1>1. TypeOK' /\ Counted' /\ Recent'
  BY DEF IInv, TypeOK, Gone, Counted, Recent
<1>2. ASSUME NEW c \in Containers PROVE Kept(c)'
  BY OthersKeep DEF RowMoves
<1> QED
  BY <1>1, <1>2 DEF IInv, Kept

LEMMA TickInv == IInv /\ Tick => IInv'
<1> SUFFICES ASSUME IInv, Tick PROVE IInv'
  OBVIOUS
<1> USE LimiterAssumption DEF IInv, Tick, AtMost
<1>1. TypeOK'
  BY DEF TypeOK, Gone, QuietMax
<1>2. Counted' /\ Recent'
  BY DEF TypeOK, Counted, Recent, Gone, QuietMax
<1>3. ASSUME NEW c \in Containers PROVE Kept(c)'
  <2> USE DEF TypeOK
  <2>1. LocallyCounted(c)'
    BY DEF LocallyCounted
  <2>2. pc[c] # "idle" => nowAge'[c] = nowAge[c] + 1 /\ nowAge'[c] <= MaxLag
    OBVIOUS
  <2>3. Settled(c)'
    BY <2>2 DEF Settled, Active, Over, Gone
  <2>4. LocallyRecent(c)'
    BY <2>2 DEF LocallyRecent, QuietMax
  <2> QED
    BY <2>1, <2>3, <2>4 DEF Kept
<1> QED
  BY <1>1, <1>2, <1>3 DEF Kept

-----------------------------------------------------------------------------
(***************************************************************************)
(* The theorems                                                            *)
(***************************************************************************)

LEMMA StepInv == IInv /\ [Next]_vars => IInv'
<1> SUFFICES ASSUME IInv, [Next]_vars PROVE IInv'
  OBVIOUS
<1>1. ASSUME NEW c \in Containers, Check(c) \/ Suppress(c) \/ Bump(c) \/ Recycle(c)
      PROVE  IInv'
  <2>1. Goal(c)
    BY <1>1, CheckInv, SuppressInv, IncrementInv, NoWindowInv, ResetInv, RetryInv,
       ErrorInv, RecycleInv DEF Bump
  <2>2. ASSUME NEW d \in Containers \ {c} PROVE Kept(d)'
    BY <1>1, OwnSteps, OthersKeep DEF IInv
  <2> QED
    BY <2>1, <2>2 DEF IInv, Goal, Kept
<1>2. CASE Expire
  BY <1>2, ExpireInv
<1>3. CASE Tick
  BY <1>3, TickInv
<1>4. CASE UNCHANGED vars
  BY <1>4 DEF vars, IInv, TypeOK, Counted, Recent, LocallyCounted, Settled, LocallyRecent,
     Active, Over
<1> QED
  BY <1>1, <1>2, <1>3, <1>4 DEF Next

\* The inductive invariant holds always.
THEOREM Invariance == Spec => []IInv
BY InitInv, StepInv, PTL DEF Spec

\* No shared window has more than Max confirmed notifications.
THEOREM SharedCap == Spec => []CapHolds
<1>1. IInv => CapHolds
  BY DEF IInv, Counted, CapHolds
<1> QED
  BY Invariance, <1>1, PTL

\* No container lets through more than Max in a local window, DynamoDB or not.
THEOREM LocalCap == Spec => []LocalCapHolds
<1>1. ASSUME IInv PROVE LocalCapHolds
  <2> SUFFICES ASSUME NEW c \in Containers PROVE sent[c] <= Max /\ asked[c] <= Max
    BY DEF LocalCapHolds
  <2>1. localCount[c] \in 0 .. Max /\ LocallyCounted(c)
    BY <1>1 DEF IInv, TypeOK
  <2> QED
    BY <2>1, LimiterAssumption DEF LocallyCounted
<1> QED
  BY Invariance, <1>1, PTL

\* No call runs out of retries by contention.
THEOREM RacesSettle == Spec => []ContentionIsSettled
<1>1. IInv => ContentionIsSettled
  BY DEF IInv, Settled, ContentionIsSettled
<1> QED
  BY Invariance, <1>1, PTL

\* Two quiet windows end every suppression.
THEOREM SuppressionEnds == Spec => []NoWindowIsStuck
<1>1. ASSUME IInv PROVE NoWindowIsStuck
  <2> SUFFICES ASSUME NEW c \in Containers, Full(c), quiet >= Window + Window - 1
               PROVE  FALSE
    BY DEF NoWindowIsStuck
  <2>1. /\ localAge[c] \in 0 .. Window /\ localCount[c] \in 0 .. Max
        /\ quiet \in 0 .. QuietMax /\ LocallyRecent(c)
    BY <1>1 DEF IInv, TypeOK
  <2> QED
    BY <2>1, LimiterAssumption DEF Full, Expired, LocallyRecent, QuietMax
<1> QED
  BY Invariance, <1>1, PTL

=============================================================================
