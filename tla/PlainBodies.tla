---------------------------- MODULE PlainBodies -----------------------------
(***************************************************************************)
(* What holds of bodies whose keys hold no dots and are not empty, of every *)
(* one of which Extract makes a schema that counts it.                      *)
(***************************************************************************)
EXTENDS Detection

\* What is filed is what Extract makes of a body: a schema that counts that
\* one body.
ASSUME ExtractAssumption ==
    \A i \in Filing :
        /\ IsSchema(SchemaOf[i.body]) /\ SetsCapped(SchemaOf[i.body])
        /\ Counts(SchemaOf[i.body], {i})

\* A body holds finitely many strings, each of them a value at its path, and
\* its root has no member of the marker's name.
ASSUME HeldAssumption ==
    \A d \in Body :
        /\ Document[d].kinds \subseteq Path \X Kind
        /\ Document[d].texts \subseteq Path \X Text /\ IsFiniteSet(Document[d].texts)
        /\ \A x \in Document[d].texts : <<x[1], "string">> \in Document[d].kinds
        /\ \A x \in Document[d].kinds : OverflowPath \notin {x[1], Parent(x[1])}
=============================================================================
