--------------------------- MODULE RegistryContract ---------------------------
(***************************************************************************)
(* What the registry promises of a declaration, without queues, retries,   *)
(* crashes or tables: it may be announced (pending), published (a search   *)
(* can return it), registered (a lookup by identifier finds it), confirmed *)
(* (success) or failed, and linked to the declaration it supersedes.       *)
(* Publication is for good; a confirmation speaks only of a published      *)
(* declaration; a link joins a registered declaration to a published one   *)
(* of the same declarer.                                                   *)
(***************************************************************************)

CONSTANTS Declarations, Declarer, Supersedes, None

VARIABLES status, published, registered, supersededBy

vars == <<status, published, registered, supersededBy>>

Init ==
  /\ status = [d \in Declarations |-> "absent"]
  /\ published = {}
  /\ registered = {}
  /\ supersededBy = [d \in Declarations |-> None]

\* A client submits the declaration, for the first time or again.
Announce(d) ==
  /\ status' = [status EXCEPT ![d] = "pending"]
  /\ UNCHANGED <<published, registered, supersededBy>>

Publish(d) ==
  /\ published' = published \cup {d}
  /\ UNCHANGED <<status, registered, supersededBy>>

Register(d) ==
  /\ d \in published
  /\ registered' = registered \cup {d}
  /\ UNCHANGED <<status, published, supersededBy>>

Confirm(d) ==
  /\ d \in published
  /\ status' = [status EXCEPT ![d] = "success"]
  /\ UNCHANGED <<published, registered, supersededBy>>

\* Processing failed, or nothing was heard of it in time.
Fail(d) ==
  /\ status' = [status EXCEPT ![d] = "failed"]
  /\ UNCHANGED <<published, registered, supersededBy>>

\* d replaces the declaration it names.
Link(d) ==
  /\ d \in published
  /\ Supersedes[d] \in registered
  /\ Declarer[Supersedes[d]] = Declarer[d]
  /\ supersededBy' = [supersededBy EXCEPT ![Supersedes[d]] = d]
  /\ UNCHANGED <<status, published, registered>>

Next == \E d \in Declarations :
  Announce(d) \/ Publish(d) \/ Register(d) \/ Confirm(d) \/ Fail(d) \/ Link(d)

Spec == Init /\ [][Next]_vars

=============================================================================
