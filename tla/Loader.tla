------------------------------- MODULE Loader -------------------------------
(***************************************************************************)
(* internal/eval/spec.go: an OpenAPI document reduced to the nodes of Drift, *)
(* one for each documented JSON response.                                    *)
(*                                                                          *)
(* A schema is a record of the keywords it has.  Where the value of type is  *)
(* a list, as in OpenAPI 3.1, it is the sequence types, and type is one      *)
(* name; a $ref is the name of a component.  A document holds its            *)
(* components, the responses its operations may refer to, and the response   *)
(* of each identity [path, method, status].                                  *)
(***************************************************************************)
EXTENDS Naturals, FiniteSets, SequencesExt

CONSTANTS
    MaxSchemaDepth,   \* nesting the loader follows
    MaxRefDepth,      \* length of a chain of references it follows
    JSONMedia         \* the media types of JSON bodies

ASSUME DepthAssumption == MaxSchemaDepth \in Nat \ {0} /\ MaxRefDepth \in Nat \ {0}

HTTPMethods == {"get", "put", "post", "delete", "options", "head", "patch", "trace"}

\* Statuses that name no single status: "default", "4XX".
Ranges == {"default", "4XX"}

Has(s, keyword) == keyword \in DOMAIN s

\* What stands where the loader stops: at a depth, at a reference that is being
\* followed already, or at one that leads nowhere.
Cut == [type |-> "object", nullable |-> FALSE, enum |-> {}, properties |-> << >>,
        required |-> {}, items |-> {}, truncated |-> TRUE]

Empty == [Cut EXCEPT !.truncated = FALSE]

\* schemaType takes the first of these.  Only a list names "null" to say that
\* a value may be null.
Named(s) ==
    CASE Has(s, "type") -> <<s.type>>
      [] Has(s, "types") -> SelectSeq(s.types, LAMBDA t : t # "null")
      [] OTHER -> << >>

\* Items make an array and properties an object, whatever type is declared;
\* unconstrained, a string is the least surprising thing.
TypeOf(s) ==
    CASE Has(s, "items") -> "array"
      [] Has(s, "properties") /\ ~Has(s, "items") -> "object"
      [] OTHER -> IF Named(s) = << >> THEN "string" ELSE Head(Named(s))

\* Variants of the definitions below, for checking that properties can fail:
\* the limit on the depth tested one level late, a part of an allOf that is cut
\* short not marked as such, the spelling of OpenAPI 3.1 not known.
TooDeepLate(depth, refs) == depth > MaxSchemaDepth \/ Cardinality(refs) >= MaxRefDepth

AddWhole(out, n) ==
    [type |-> IF n.type # "object" THEN n.type ELSE out.type,
     nullable |-> out.nullable \/ n.nullable,
     enum |-> out.enum \cup n.enum,
     properties |-> n.properties @@ out.properties,
     required |-> out.required \cup n.required,
     items |-> IF n.items # {} THEN n.items ELSE out.items,
     truncated |-> out.truncated]

NullableFlag(s) == Has(s, "nullable") /\ s.nullable

\* schemaNullable: either spelling.
SchemaNullable(s) ==
    \/ Has(s, "nullable") /\ s.nullable
    \/ Has(s, "types") /\ "null" \in ToSet(s.types)

TooDeep(depth, refs) == depth >= MaxSchemaDepth \/ Cardinality(refs) >= MaxRefDepth

\* add in merged: one more part of an allOf.
Add(out, n) ==
    [type |-> IF n.type # "object" THEN n.type ELSE out.type,
     nullable |-> out.nullable \/ n.nullable,
     enum |-> out.enum \cup n.enum,
     properties |-> n.properties @@ out.properties,
     required |-> out.required \cup n.required,
     items |-> IF n.items # {} THEN n.items ELSE out.items,
     truncated |-> out.truncated \/ n.truncated]

\* The branches, and the keywords alongside them as one more.
Parts(s) ==
    LET sibling == Restrict(s, DOMAIN s \ {"allOf"})
    IN s.allOf \o IF DOMAIN sibling = {} THEN << >> ELSE <<sibling>>

Alternatives(s) ==
    (IF Has(s, "oneOf") THEN s.oneOf ELSE << >>) \o (IF Has(s, "anyOf") THEN s.anyOf ELSE << >>)

\* The component a reference names, unless it is being followed already.
Leads(doc, ref, refs) == ref \notin refs /\ ref \in DOMAIN doc.components

\* node: refs are the references on the way to s.
RECURSIVE Node(_, _, _, _)
Node(doc, s, depth, refs) ==
    CASE TooDeep(depth, refs) -> Cut
      [] Has(s, "ref") ->
           IF Leads(doc, s.ref, refs)
           THEN Node(doc, doc.components[s.ref], depth, refs \cup {s.ref})
           ELSE Cut
      [] Has(s, "allOf") ->
           FoldLeft(Add, Empty, [i \in DOMAIN Parts(s) |-> Node(doc, Parts(s)[i], depth + 1, refs)])
      [] Alternatives(s) # << >> -> Node(doc, Head(Alternatives(s)), depth, refs)
      [] OTHER ->
           [type |-> TypeOf(s),
            nullable |-> SchemaNullable(s),
            enum |-> IF Has(s, "enum") THEN s.enum ELSE {},
            properties |-> IF Has(s, "properties")
                           THEN [x \in DOMAIN s.properties |->
                                   Node(doc, s.properties[x], depth + 1, refs)]
                           ELSE << >>,
            required |-> IF Has(s, "required") THEN s.required ELSE {},
            items |-> IF Has(s, "items") THEN {Node(doc, s.items, depth + 1, refs)} ELSE {},
            truncated |-> FALSE]

\* responseSchema: the schemas it may return.  A response may be a reference;
\* of several JSON media types the first in the order of a map is taken.
BodySchemas(doc, r) ==
    LET resolved == IF ~Has(r, "ref") THEN {r}
                    ELSE {doc.responses[x] : x \in {r.ref} \cap DOMAIN doc.responses}
    IN UNION {{t.content[m] : m \in DOMAIN t.content \cap JSONMedia} : t \in resolved}

\* The responses ParseSpec keeps.
Documented(doc) ==
    {e \in DOMAIN doc.paths :
        e.method \in HTTPMethods /\ e.status \notin Ranges /\ BodySchemas(doc, doc.paths[e]) # {}}

\* A document without any is an error.
Readable(doc) == Documented(doc) # {}

\* The specifications a document may load as.
Loaded(doc) ==
    LET nodes == [e \in Documented(doc) |->
                    {Node(doc, s, 0, {}) : s \in BodySchemas(doc, doc.paths[e])}]
    IN {v \in [Documented(doc) -> UNION {nodes[e] : e \in DOMAIN nodes}] :
           \A e \in DOMAIN v : v[e] \in nodes[e]}
=============================================================================
