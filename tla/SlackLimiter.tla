---------------------------- MODULE SlackLimiter ----------------------------
(***************************************************************************)
(* The two-tier rate limit of Slack notifications (notifyUtil.ts) for one  *)
(* key without a "block" or "bypassRateLimit" rule: each container of the  *)
(* consumer has a window of its own in memory, and all of them share the   *)
(* row of the key in the SlackRateLimit table.                             *)
(*                                                                         *)
(* Time is kept as ages.  windowStart > now - Window, for the row and a    *)
(* call that took its time "now" nowAge ago, is sharedAge < nowAge + Window.*)
(***************************************************************************)
EXTENDS Naturals

CONSTANTS
  Containers,  \* execution environments of the consumer
  Max,         \* SLACK_RATE_LIMIT_MAX, or the max of the key's rule
  Window,      \* SLACK_RATE_LIMIT_WINDOW_MS, in ticks
  MaxLag,      \* the longest a call runs: the timeout of the consumer
  Grace        \* from the end of a window to its row's expireAt

ASSUME LimiterAssumption ==
  /\ Max \in Nat \ {0} /\ Window \in Nat \ {0} /\ MaxLag \in Nat /\ Grace \in Nat
  /\ MaxLag + MaxLag < Window + Grace

Gone == Window + MaxLag  \* an age that no call takes for an active window

VARIABLES
  sharedAge,    \* age of the row's windowStart; Gone when there is no row
  sharedCount,  \* its count; what is above Max is Max + 1
  pc,           \* the next await of a container's call
  attempt,      \* which try of bumpGlobalCount
  nowAge,       \* how long ago the call took its time
  localAge,     \* age of the local windowStart; Window when it is over
  localCount,
  blocked,      \* blockedUntil is the end of the local window
  granted,      \* history: confirmed notifications of the shared window
  sent,         \* history: notifications of a container in its local window
  asked,        \* history: times it asked the table in its local window
  quiet         \* history: ticks since a notification was let through

shared  == <<sharedAge, sharedCount>>
call    == <<pc, attempt, nowAge>>
local   == <<localAge, localCount, blocked>>
history == <<granted, sent, asked, quiet>>
vars == <<sharedAge, sharedCount, pc, attempt, nowAge, localAge, localCount, blocked,
          granted, sent, asked, quiet>>

QuietMax == Window + Window

TypeOK ==
  /\ sharedAge \in 0 .. Gone /\ sharedCount \in 0 .. Max + 1
  /\ pc \in [Containers -> {"idle", "increment", "reset"}]
  /\ attempt \in [Containers -> 0 .. 2]
  /\ nowAge \in [Containers -> 0 .. MaxLag]
  /\ localAge \in [Containers -> 0 .. Window]
  /\ localCount \in [Containers -> 0 .. Max]
  /\ blocked \in [Containers -> BOOLEAN]
  /\ granted \in Nat
  /\ sent \in [Containers -> Nat] /\ asked \in [Containers -> Nat]
  /\ quiet \in 0 .. QuietMax

Init ==
  /\ sharedAge = Gone /\ sharedCount = 0
  /\ pc = [c \in Containers |-> "idle"]
  /\ attempt = [c \in Containers |-> 0]
  /\ nowAge = [c \in Containers |-> 0]
  /\ localAge = [c \in Containers |-> Window]
  /\ localCount = [c \in Containers |-> 0]
  /\ blocked = [c \in Containers |-> FALSE]
  /\ granted = 0
  /\ sent = [c \in Containers |-> 0]
  /\ asked = [c \in Containers |-> 0]
  /\ quiet = QuietMax

AtMost(n, limit) == IF n > limit THEN limit ELSE n

-----------------------------------------------------------------------------
\* The call's own window is over, or it is the first for this key.
Expired(c) == localAge[c] >= Window

\* Faulty: a suppressed key stays suppressed in the next window.
Full_Kept(c) == blocked[c] \/ (~ Expired(c) /\ localCount[c] >= Max)
\* Known to be over the limit in this window, from memory.
Full(c) == ~ Expired(c) /\ (blocked[c] \/ localCount[c] >= Max)

\* A new local window starts with an empty state.
TrackWindow(c) ==
  IF Expired(c) THEN
    /\ localAge' = [localAge EXCEPT ![c] = 0]
    /\ localCount' = [localCount EXCEPT ![c] = 0]
    /\ sent' = [sent EXCEPT ![c] = 0]
    /\ asked' = [asked EXCEPT ![c] = 0]
  ELSE UNCHANGED <<localAge, localCount, sent, asked>>

\* Tier 1: limited, with no call of the table.
Suppress(c) ==
  /\ pc[c] = "idle" /\ Full(c)
  /\ TrackWindow(c)
  /\ blocked' = [blocked EXCEPT ![c] = TRUE]
  /\ UNCHANGED <<shared, call, granted, quiet>>

\* Tier 2: under the local allowance, the table is asked.
Check(c) ==
  /\ pc[c] = "idle" /\ ~ Full(c)
  /\ TrackWindow(c)
  /\ blocked' = [blocked EXCEPT ![c] = FALSE]
  /\ pc' = [pc EXCEPT ![c] = "increment"]
  /\ attempt' = [attempt EXCEPT ![c] = 0]
  /\ nowAge' = [nowAge EXCEPT ![c] = 0]
  /\ UNCHANGED <<shared, granted, quiet>>

Active(c) == sharedAge < nowAge[c] + Window

\* What isRateLimited does with the result of the table.
Pass(c) ==
  /\ localCount' = [localCount EXCEPT ![c] = @ + 1]
  /\ sent' = [sent EXCEPT ![c] = @ + 1]
  /\ quiet' = 0
  /\ UNCHANGED blocked
Block(c) ==
  /\ blocked' = [blocked EXCEPT ![c] = TRUE]
  /\ UNCHANGED <<localCount, sent, quiet>>
Done(c) ==
  /\ pc' = [pc EXCEPT ![c] = "idle"]
  /\ asked' = [asked EXCEPT ![c] = @ + 1]
  /\ UNCHANGED <<attempt, nowAge, localAge>>

\* Faulty: what passes while the table is away is not counted.
FailOpen_Uncounted(c) ==
  /\ Done(c) /\ UNCHANGED <<localCount, blocked>>
  /\ sent' = [sent EXCEPT ![c] = @ + 1] /\ quiet' = 0
\* The result is null: the notification passes and counts locally.
FailOpen(c) == Done(c) /\ Pass(c)

Allows(count) == count <= Max

\* The increment, if a window is active.  The row's count is read with it.
Increment(c) ==
  /\ pc[c] = "increment" /\ Active(c)
  /\ sharedCount' = AtMost(sharedCount + 1, Max + 1)
  /\ IF Allows(sharedCount + 1) THEN Pass(c) /\ granted' = granted + 1
                                ELSE Block(c) /\ UNCHANGED granted
  /\ Done(c)
  /\ UNCHANGED sharedAge

NoWindow(c) ==
  /\ pc[c] = "increment" /\ ~ Active(c)
  /\ pc' = [pc EXCEPT ![c] = "reset"]
  /\ UNCHANGED <<shared, attempt, nowAge, local, history>>

\* Faulty: a window that ends right now is neither active nor over.
Over_Strictly(c) == sharedAge > nowAge[c] + Window
\* Faulty: a fresh window is started without a look at the row.
Over_Assumed(c) == TRUE
\* attribute_not_exists(key) OR windowStart <= floor
Over(c) == sharedAge >= nowAge[c] + Window

\* A window lasts Window: a reset before that goes on with it.
Reset(c) ==
  /\ pc[c] = "reset" /\ Over(c)
  /\ sharedAge' = nowAge[c]
  /\ sharedCount' = 1
  /\ granted' = IF sharedAge >= Window THEN 1 ELSE granted + 1
  /\ Pass(c)
  /\ Done(c)

\* Another call has reset the window first: the increment is retried, twice at
\* most.
Retry(c) ==
  /\ pc[c] = "reset" /\ ~ Over(c)
  /\ IF attempt[c] < 2 THEN
       /\ pc' = [pc EXCEPT ![c] = "increment"]
       /\ attempt' = [attempt EXCEPT ![c] = @ + 1]
       /\ UNCHANGED <<nowAge, local, sent, asked, quiet>>
     ELSE FailOpen(c)
  /\ UNCHANGED <<shared, granted>>

\* An error of DynamoDB: the update may have been made all the same.
Error(c) ==
  /\ \/ pc[c] \in {"increment", "reset"} /\ UNCHANGED <<shared, granted>>
     \/ /\ pc[c] = "increment" /\ Active(c)
        /\ sharedCount' = AtMost(sharedCount + 1, Max + 1)
        /\ UNCHANGED <<sharedAge, granted>>
     \/ /\ pc[c] = "reset" /\ Over(c)
        /\ sharedAge' = nowAge[c] /\ sharedCount' = 1
        /\ granted' = IF sharedAge >= Window THEN 0 ELSE granted
  /\ FailOpen(c)

\* The environment is recycled, or dies in a call.
Recycle(c) ==
  /\ pc' = [pc EXCEPT ![c] = "idle"]
  /\ localAge' = [localAge EXCEPT ![c] = Window]
  /\ localCount' = [localCount EXCEPT ![c] = 0]
  /\ blocked' = [blocked EXCEPT ![c] = FALSE]
  /\ sent' = [sent EXCEPT ![c] = 0]
  /\ asked' = [asked EXCEPT ![c] = 0]
  /\ UNCHANGED <<shared, attempt, nowAge, granted, quiet>>

-----------------------------------------------------------------------------
\* DynamoDB deletes the row some time after its expireAt.
Expire ==
  /\ sharedAge >= Window + Grace
  /\ sharedAge' = Gone
  /\ UNCHANGED <<sharedCount, call, local, history>>

\* A call is over after MaxLag.
Tick ==
  /\ \A c \in Containers : pc[c] # "idle" => nowAge[c] < MaxLag
  /\ sharedAge' = AtMost(sharedAge + 1, Gone)
  /\ nowAge' = [c \in Containers |-> AtMost(nowAge[c] + 1, MaxLag)]
  /\ localAge' = [c \in Containers |-> AtMost(localAge[c] + 1, Window)]
  /\ quiet' = AtMost(quiet + 1, QuietMax)
  /\ UNCHANGED <<sharedCount, pc, attempt, localCount, blocked, granted, sent, asked>>

Bump(c) ==
  Increment(c) \/ NoWindow(c) \/ Reset(c) \/ Retry(c) \/ Error(c)

Next ==
  \/ \E c \in Containers : Check(c) \/ Suppress(c) \/ Bump(c) \/ Recycle(c)
  \/ Expire
  \/ Tick

Spec == Init /\ [][Next]_vars

-----------------------------------------------------------------------------
(***************************************************************************)
(* Properties                                                              *)
(***************************************************************************)

\* "Correct global cap across containers": however their calls race at the end
\* of a window, no more than Max notifications of a shared window are confirmed.
CapHolds == granted <= Max

\* "A single container can't spam unbounded while DynamoDB is down", and asks it
\* no more than Max times in its window.
LocalCapHolds == \A c \in Containers : sent[c] <= Max /\ asked[c] <= Max

\* The two conditional updates settle every race: the increment that follows a
\* lost reset finds the window of the winner, so that without an error of
\* DynamoDB no call runs out of retries and fails open.
ContentionIsSettled ==
  \A c \in Containers : pc[c] = "increment" /\ attempt[c] > 0 => Active(c)

\* A key that has been quiet for two windows is not suppressed, by no container:
\* no window is stuck.
NoWindowIsStuck ==
  quiet >= Window + Window - 1 => \A c \in Containers : ~ Full(c)

-----------------------------------------------------------------------------
(***************************************************************************)
(* Why they hold                                                           *)
(***************************************************************************)

Counted == granted <= sharedCount /\ granted <= Max

LocallyCounted(c) ==
  /\ sent[c] = localCount[c]
  /\ asked[c] <= Max /\ (~ blocked[c] => asked[c] <= localCount[c])
  /\ pc[c] # "idle" => ~ blocked[c] /\ localCount[c] < Max

\* A window that is reset during a call is young: it ends after the call.
Settled(c) ==
  /\ pc[c] = "reset" => attempt[c] = 0 /\ (Over(c) \/ sharedAge <= nowAge[c] + MaxLag)
  /\ pc[c] = "increment" /\ attempt[c] > 0 =>
       Active(c) /\ sharedAge <= nowAge[c] + MaxLag

Recent == sharedAge < Gone => quiet <= sharedAge
LocallyRecent(c) ==
  localAge[c] < Window =>
    /\ pc[c] # "idle" => nowAge[c] <= localAge[c]
    /\ blocked[c] => quiet < localAge[c] + Window
    /\ localCount[c] > 0 => quiet <= localAge[c]

IInv ==
  /\ TypeOK
  /\ Counted
  /\ Recent
  /\ \A c \in Containers : LocallyCounted(c) /\ Settled(c) /\ LocallyRecent(c)

=============================================================================
