----------------------------- MODULE MCIrohMirror -----------------------------
(* Instances of IrohMirror for TLC. *)
EXTENDS IrohMirror, TLC

CONSTANTS a, b, q1, q2, q3, s1

\* One segment, scanned in one page or in two.
OnePage == (a :> <<s1, 1>>) @@ (b :> <<s1, 1>>)
TwoPages == (a :> <<s1, 1>>) @@ (b :> <<s1, 2>>)

\* Redactions in bulk and one by one, and an un-redaction.
BatchScope == (q1 :> {a, b}) @@ (q2 :> {a}) @@ (q3 :> {a})
BatchFlag == (q1 :> TRUE) @@ (q2 :> FALSE) @@ (q3 :> TRUE)

=============================================================================
