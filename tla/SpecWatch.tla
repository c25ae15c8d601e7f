----------------------------- MODULE SpecWatch ------------------------------
(***************************************************************************)
(* The specification path from end to end: a provider edits its document,    *)
(* and watch (cmd/apidrift/watch.go) loads the one it has cached and the one *)
(* published now, and reports what Drift finds between them.                 *)
(*                                                                          *)
(* Some edits change what the document allows; others only write it in       *)
(* another way: a component inlined or shared, a composition opened or       *)
(* closed, a nullable type in the other spelling, a description.             *)
(***************************************************************************)
EXTENDS Validity, Drift

CONSTANTS
    Start,        \* the document at first, which watch has cached
    Property,     \* names of the properties edits add
    NewSchema,    \* schemas edits put in
    Annotates,    \* whether an allOf may get keywords alongside it
    Body,         \* the bodies to judge documents by
    MaxEdits      \* bound on the edits

VARIABLES
    doc,          \* the document published
    cached,       \* the one watch read last
    rewritten,    \* history: since then it was only written in other ways
    edits         \* edits so far

vars == <<doc, cached, rewritten, edits>>

Init ==
    /\ doc = Start
    /\ cached = Start
    /\ rewritten = TRUE
    /\ edits = 0
-----------------------------------------------------------------------------
\* The keywords of a schema that is no reference and no composition.
IsPlain(s) == DOMAIN s \cap {"ref", "allOf", "oneOf", "anyOf"} = {}
Typed(s, t) == IsPlain(s) /\ Named(s) = <<t>>
Without(s, keywords) == Restrict(s, DOMAIN s \ keywords)
With(s, keyword, value) == (keyword :> value) @@ s

\* Ways to write s otherwise.  (A list of nothing but "null" is read as no type.)
Respelt(s) ==
    LET bare == Without(s, {"type", "types", "nullable"})
    IN IF IsPlain(s) /\ SchemaNullable(s) /\ Named(s) \notin {<< >>, <<"null">>}
       THEN {With(bare, "types", <<Named(s)[1], "null">>),
             With(With(bare, "type", Named(s)[1]), "nullable", TRUE)}
       ELSE IF IsPlain(s) /\ (Has(s, "properties") \/ Has(s, "items"))
       THEN {Without(s, {"type", "types"})}
       ELSE {}

\* A composition of one, or of the properties one by one.  (To bound the edits,
\* an object is put in an anyOf, anything else in a oneOf.)
Composed(s) ==
    {[allOf |-> <<s>>],
     IF Typed(s, "object") THEN [anyOf |-> <<s>>] ELSE [oneOf |-> <<s>>]} \cup
    {[allOf |-> <<With(s, "properties", Restrict(s.properties, {x})),
                  [properties |-> Restrict(s.properties, Declares(s) \ {x})]>>] :
       x \in IF Typed(s, "object") /\ ~SchemaNullable(s) THEN Declares(s) ELSE {}}

Opened(s) ==
    {t \in ToSet(Alternatives(s)) \cup IF Has(s, "allOf") THEN ToSet(s.allOf) ELSE {} :
        s \in {[allOf |-> <<t>>], [oneOf |-> <<t>>], [anyOf |-> <<t>>]}}

Described(s) ==
    IF Has(s, "allOf") /\ ~Annotates THEN {} ELSE {With(s, "description", "text")}

Inlined(s) ==
    IF Has(s, "ref") /\ Leads(doc, s.ref, {}) THEN {doc.components[s.ref]} ELSE {}

\* At s itself or at a schema within it.
RECURSIVE Rewritings(_)
Rewritings(s) ==
    Respelt(s) \cup Composed(s) \cup Opened(s) \cup Described(s) \cup Inlined(s)
    \cup {[s EXCEPT !.properties[x] = t] : <<x, t>> \in
            UNION {{x} \X Rewritings(s.properties[x]) : x \in Declares(s)}}
    \cup {[s EXCEPT !.items = t] : t \in IF Has(s, "items") THEN Rewritings(s.items) ELSE {}}
    \cup {[s EXCEPT !.allOf[i] = t] : <<i, t>> \in
            UNION {{i} \X Rewritings(s.allOf[i]) : i \in IF Has(s, "allOf") THEN DOMAIN s.allOf ELSE {}}}

\* Ways to change what s allows.  Every string has an enum, which may grow: one
\* that goes away altogether is no change in the eyes of addedEnumValues.
Retyped(s) ==
    IF Typed(s, "string") THEN {[type |-> "integer"]} ELSE
    IF Typed(s, "integer") THEN {[type |-> "string", enum |-> {1}]} ELSE {}

MadeNullable(s) ==
    IF IsPlain(s) /\ Named(s) # << >> /\ ~SchemaNullable(s) THEN {With(s, "nullable", TRUE)} ELSE {}

Widened(s) == IF Has(s, "enum") THEN {[s EXCEPT !.enum = @ \cup {n + 1 : n \in @}]} ELSE {}

Reshaped(s) ==
    IF Typed(s, "object") /\ Has(s, "properties") /\ Has(s, "required")
    THEN {[s EXCEPT !.properties = Restrict(@, DOMAIN @ \ {x}), !.required = @ \ {x}] :
            x \in Declares(s)}
         \cup {[s EXCEPT !.required = @ \ {x}] : x \in s.required}
         \cup {[s EXCEPT !.properties = (x :> t) @@ @] : x \in Property \ Declares(s), t \in NewSchema}
    ELSE {}

RECURSIVE Revisions(_)
Revisions(s) ==
    Retyped(s) \cup MadeNullable(s) \cup Widened(s) \cup Reshaped(s)
    \cup {[s EXCEPT !.properties[x] = t] : <<x, t>> \in
            UNION {{x} \X Revisions(s.properties[x]) : x \in Declares(s)}}
    \cup {[s EXCEPT !.items = t] : t \in IF Has(s, "items") THEN Revisions(s.items) ELSE {}}
    \cup {[s EXCEPT !.allOf[i] = t] : <<i, t>> \in
            UNION {{i} \X Revisions(s.allOf[i]) : i \in IF Has(s, "allOf") THEN DOMAIN s.allOf ELSE {}}}
-----------------------------------------------------------------------------
Publish(d) ==
    /\ edits < MaxEdits
    /\ doc' = d
    /\ edits' = edits + 1
    /\ UNCHANGED cached

Rewrite(c) ==
    /\ \E s \in Rewritings(doc.components[c]) : Publish([doc EXCEPT !.components[c] = s])
    /\ UNCHANGED rewritten

Revise(c) ==
    /\ \E s \in Revisions(doc.components[c]) : Publish([doc EXCEPT !.components[c] = s])
    /\ rewritten' = FALSE

\* A component, or an operation, goes away.
Delete(c) ==
    /\ Publish([doc EXCEPT !.components = Restrict(@, DOMAIN @ \ {c})])
    /\ rewritten' = FALSE

Withdraw(e) ==
    /\ Publish([doc EXCEPT !.paths = Restrict(@, DOMAIN @ \ {e})])
    /\ rewritten' = FALSE

\* A run of watch that ends with the cache written; one that cannot read the
\* document changes nothing.
Watch ==
    /\ Readable(doc)
    /\ cached' = doc
    /\ rewritten' = TRUE
    /\ UNCHANGED <<doc, edits>>

Next ==
    \/ \E c \in DOMAIN doc.components : Rewrite(c) \/ Revise(c) \/ Delete(c)
    \/ \E e \in DOMAIN doc.paths : Withdraw(e)
    \/ Watch

Spec == Init /\ [][Next]_vars
-----------------------------------------------------------------------------
RECURSIVE Nested(_)
Nested(n) ==
    {n} \cup UNION {Nested(n.properties[x]) : x \in DOMAIN n.properties}
        \cup UNION {Nested(i) : i \in n.items}

RECURSIVE Height(_)
Height(n) ==
    LET inner == {n.properties[x] : x \in DOMAIN n.properties} \cup n.items
    IN IF inner = {} THEN 0 ELSE 1 + Max({Height(m) : m \in inner})

\* Whatever the document, also one whose components refer to each other in a
\* circle or to nothing, loading it ends in nodes no deeper than the limit, an
\* array with its items and no other node with any.
TypeOK ==
    /\ edits \in 0 .. MaxEdits /\ rewritten \in BOOLEAN
    /\ Readable(cached)
    /\ \A v \in Loaded(doc) : \A e \in DOMAIN v :
          /\ Height(v[e]) <= MaxSchemaDepth
          /\ \A n \in Nested(v[e]) :
                /\ n.type \in DOMAIN KindsOf
                /\ Cardinality(n.items) = (IF n.type = "array" THEN 1 ELSE 0)

\* What watch would say now.
Reports == {Diff(v1, v2) : v1 \in Loaded(cached), v2 \in Loaded(doc)}

\* A document written in another way, which allows what it allowed before, is
\* no news: watch reports nothing, and sends nobody looking for a patch,
\* wherever the loader stopped in either version (node, merged, and walk's
\* comment on truncated nodes).
QuietWhenRewritten == rewritten => Reports \subseteq {{}}

Whole(n) == \A m \in Nested(n) : ~m.truncated

\* The kinds of change that can break a consumer.
Felt(report, e) == {c \in report : c.endpoint = e /\ c.kind # "field_added"}

\* When watch reports no removal, no change of type, no null and no new enum
\* value for a response it could read in full, then every body the provider
\* may send now was allowed by the version watch saw before: no break is missed
\* through references, compositions or spellings, however many edits lie
\* between the two versions (Diff, and watch's "No breaking changes since the
\* last run").
NoBreakMissed ==
    \A v1 \in Loaded(cached), v2 \in Loaded(doc) :
        \A e \in ComparableEndpoints(v1, v2) :
            Whole(v1[e]) /\ Whole(v2[e]) /\ Felt(Diff(v1, v2), e) = {} =>
                LET old == BodySchemas(cached, cached.paths[e])
                    new == BodySchemas(doc, doc.paths[e])
                IN \A b \in Body : Allows(doc, new, b, TRUE) => Allows(cached, old, b, FALSE)
=============================================================================
