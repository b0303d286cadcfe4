------------------------------- MODULE MCIntake -------------------------------
(* Instances of Intake for TLC. *)
EXTENDS Intake, TLC

CONSTANTS v2, v3

\* A request without a fault, with all sections.
Good == [
  envelope |-> 0, bypassed |-> FALSE, pinned |-> FALSE, declarer |-> "same",
  sections |-> Sections, complete |-> Sections, supersedes |-> "valid",
  iscc |-> "exact", schemaUrl |-> v3, contextUrl |-> v3, lawful |-> TRUE,
  conforms |-> {v2, v3, Local}, timestamp |-> 2, registryTimestamp |-> 2,
  key |-> [s \in Sections |-> "embedded"], covered |-> TRUE,
  stamped |-> Sections, identifier |-> "right"]

\* One thing about it is otherwise.
Variants(b) == UNION {
  {[b EXCEPT !.envelope = x] : x \in {401, 500}},
  {[b EXCEPT !.bypassed = TRUE], [b EXCEPT !.pinned = TRUE]},
  {[b EXCEPT !.declarer = x] : x \in {"other", "missing"}},
  {[b EXCEPT !.sections = {"main"}], [b EXCEPT !.complete = {"main"}]},
  {[b EXCEPT !.supersedes = x] : x \in {"none", "invalid"}},
  {[b EXCEPT !.iscc = x] : x \in {"embedded", "none"}},
  {[b EXCEPT !.schemaUrl = x] : x \in {v2, "absent", "foreign", "untyped"}},
  {[b EXCEPT !.contextUrl = x] : x \in {"absent", "foreign", "untyped"}},
  {[b EXCEPT !.lawful = FALSE], [b EXCEPT !.covered = FALSE]},
  {[b EXCEPT !.conforms = x] : x \in {{v2, Local}, {v3}}},
  {[b EXCEPT !.timestamp = x] : x \in {0, 1, 4}},
  {[b EXCEPT !.registryTimestamp = x] : x \in {0, 4}},
  {[b EXCEPT !.key[s] = x] : s \in Sections, x \in {"pinned", "unknown"}},
  {[b EXCEPT !.stamped = Sections \ {s}] : s \in Sections},
  {[b EXCEPT !.identifier = x] : x \in {"absent", "wrong"}}}

\* At most two things are.
Requests == UNION {Variants(b) : b \in Variants(Good)} \cup {Good}

=============================================================================
