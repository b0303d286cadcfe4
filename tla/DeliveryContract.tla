--------------------------- MODULE DeliveryContract ---------------------------
(***************************************************************************)
(* What the event source of a stream promises of each record, without      *)
(* batches, checkpoints or retries: it takes the record from the stream,   *)
(* hands it to an invocation, and gets it back processed, given up, or to  *)
(* be invoked once more.  It loses no record, goes past none that was not  *)
(* invoked, takes none up again that it has left behind, and invokes none  *)
(* more than MaxCalls times.                                               *)
(***************************************************************************)
EXTENDS Naturals

CONSTANTS Records, MaxCalls

VARIABLES
  place,  \* where each record is
  calls   \* its invocations so far, while the event source has it

vars == <<place, calls>>

Places == {"ahead", "waiting", "invoked", "passed", "dropped"}

Init ==
  /\ place = [r \in Records |-> "ahead"]
  /\ calls = [r \in Records |-> 0]

Taken(r) ==
  /\ place[r] = "ahead" /\ place'[r] = "waiting"
  /\ calls'[r] = calls[r]

Invoked(r) ==
  /\ place[r] = "waiting" /\ place'[r] = "invoked"
  /\ calls[r] < MaxCalls /\ calls'[r] = calls[r] + 1

Repeated(r) ==
  /\ place[r] = "invoked" /\ place'[r] = "waiting"
  /\ calls'[r] = calls[r]

LeftBehind(r) ==
  /\ place[r] = "invoked" /\ place'[r] \in {"passed", "dropped"}
  /\ calls'[r] = 0

Stays(r) == place'[r] = place[r] /\ calls'[r] = calls[r]

\* The records of a batch move at once, and not all in the same way.
Next ==
  /\ place' \in [Records -> Places]
  /\ calls' \in [Records -> 0 .. MaxCalls]
  /\ \A r \in Records :
       Stays(r) \/ Taken(r) \/ Invoked(r) \/ Repeated(r) \/ LeftBehind(r)

Spec == Init /\ [][Next]_vars

=============================================================================
