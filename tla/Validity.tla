------------------------------ MODULE Validity ------------------------------
(***************************************************************************)
(* Which bodies a schema of an OpenAPI document allows, as JSON Schema       *)
(* defines it and without regard to how the loader reads a document: every   *)
(* keyword that applies constrains the value, those of the branches of an    *)
(* allOf and of the component a reference names included.  Of alternatives   *)
(* only the first counts, which is the choice node states in its comment.    *)
(*                                                                          *)
(* Values are those of Extract; schemas and documents those of Loader.       *)
(***************************************************************************)
EXTENDS Loader

\* The plain schemas that together constrain a value for which s must hold.
RECURSIVE Applying(_, _, _)
Applying(doc, s, refs) ==
    CASE Has(s, "ref") ->
           IF Leads(doc, s.ref, refs)
           THEN Applying(doc, doc.components[s.ref], refs \cup {s.ref}) ELSE {}
      [] Has(s, "allOf") -> UNION {Applying(doc, t, refs) : t \in ToSet(Parts(s))}
      [] Alternatives(s) # << >> -> Applying(doc, Head(Alternatives(s)), refs)
      [] OTHER -> {s}

KindsOf == [object |-> {"object"}, array |-> {"array"}, string |-> {"string"},
            integer |-> {"int"}, number |-> {"int", "float"}, boolean |-> {"bool"},
            null |-> {"null"}]

\* Properties and items imply the type where it is left out.
Admitted(s) ==
    CASE Has(s, "type") -> KindsOf[s.type]
      [] Has(s, "types") -> UNION {KindsOf[t] : t \in ToSet(s.types)}
      [] OTHER -> (IF Has(s, "properties") THEN {"object"} ELSE {})
                    \cup (IF Has(s, "items") THEN {"array"} ELSE {})

TypeAllows(s, v) ==
    \/ v.kind \in Admitted(s)
    \/ v.kind = "null" /\ SchemaNullable(s)
    \/ Admitted(s) = {}

EnumAllows(s, v) == Has(s, "enum") /\ v.kind = "string" => v.text \in s.enum

Requires(s) == IF Has(s, "required") THEN s.required ELSE {}
Declares(s) == IF Has(s, "properties") THEN DOMAIN s.properties ELSE {}

\* v satisfies every schema of S; strictly when it has no property that none
\* of them declares, as a provider's own responses do.
RECURSIVE Allows(_, _, _, _)
Allows(doc, S, v, strictly) ==
    LET A == UNION {Applying(doc, s, {}) : s \in S}
    IN /\ \A s \in A : TypeAllows(s, v) /\ EnumAllows(s, v)
       /\ v.kind = "object" =>
            /\ \A s \in A : Requires(s) \subseteq DOMAIN v.fields
            /\ strictly => DOMAIN v.fields \subseteq UNION {Declares(s) : s \in A}
            /\ \A x \in DOMAIN v.fields :
                  Allows(doc, {s.properties[x] : s \in {t \in A : x \in Declares(t)}},
                         v.fields[x], strictly)
       /\ v.kind = "array" =>
            \A i \in DOMAIN v.elems :
                Allows(doc, {s.items : s \in {t \in A : Has(t, "items")}}, v.elems[i], strictly)
=============================================================================
