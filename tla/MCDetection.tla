---------------------------- MODULE MCDetection ----------------------------
(***************************************************************************)
(* Bodies of an API whose responses vary in every way a schema tells apart. *)
(***************************************************************************)
EXTENDS PlainBodies, DriftTraffic

MCNames == <<"a", "b", "k1", "k2">>
MCName == {"a", "b", "k1", "k2"}
MCSteps == [n \in MCName |-> <<n>>]
MCIDShaped == {"k1", "k2"}
MCBaseline == {1, 2}
MCCurrent == {3}

NullBody == [kind |-> "null"]
IntBody == [kind |-> "int"]
StringBody(t) == [kind |-> "string", text |-> t]
ArrayBody(elems) == [kind |-> "array", elems |-> elems]
ObjectBody(fields) == [kind |-> "object", fields |-> fields]

\* An optional object with an optional, sometimes null, sometimes empty string;
\* arrays, empty, mixed with nulls, of strings; a map keyed by identifiers and
\* nested past MaxDepth; root arrays; a body with more paths than MaxFields.
MCResponse == <<
    ObjectBody(<< >>),
    ObjectBody([a |-> ObjectBody(<< >>)]),
    ObjectBody([a |-> ObjectBody([b |-> StringBody(1)])]),
    ObjectBody([a |-> ObjectBody([b |-> StringBody(2)])]),
    ObjectBody([a |-> ObjectBody([b |-> StringBody(0)])]),
    ObjectBody([a |-> ObjectBody([b |-> NullBody])]),
    ObjectBody([a |-> ArrayBody(<<IntBody>>)]),
    ObjectBody([a |-> ArrayBody(<<IntBody, NullBody>>)]),
    ObjectBody([a |-> ArrayBody(<<StringBody(1), StringBody(2), NullBody>>)]),
    ObjectBody([k1 |-> ObjectBody([b |-> ArrayBody(<<IntBody>>)]),
                k2 |-> ObjectBody([b |-> IntBody])]),
    ArrayBody(<<IntBody, IntBody>>),
    ArrayBody(<< >>),
    ObjectBody([a |-> ObjectBody([b |-> IntBody]), b |-> IntBody, k1 |-> NullBody])>>

MCDocument == [d \in DOMAIN MCResponse |-> Described(MCResponse[d])]

\* Response schemas: a root object with a leaf, an array or an object in a,
\* and perhaps a leaf in b.  None has a null that is not declared, a path
\* past MaxFields or MaxDepth, or the keys of a map.
Leaf(type, nullable, enum) ==
    [type |-> type, nullable |-> nullable, enum |-> enum, properties |-> << >>,
     required |-> {}, items |-> {}, truncated |-> FALSE]

ObjectNode(properties, required) ==
    [Leaf("object", FALSE, {}) EXCEPT !.properties = properties, !.required = required]

ArrayNode(item) == [Leaf("array", FALSE, {}) EXCEPT !.items = {item}]

MCLeaf == {Leaf("string", FALSE, {}), Leaf("string", FALSE, {1}), Leaf("string", FALSE, {1, 2}),
           Leaf("integer", FALSE, {}), Leaf("integer", TRUE, {})}

MCInner ==
    MCLeaf \cup {ArrayNode(leaf) : leaf \in MCLeaf}
           \cup {ObjectNode([b |-> leaf], R) : leaf \in MCLeaf, R \in SUBSET {"b"}}
           \cup {[ObjectNode([b |-> Leaf("integer", FALSE, {})], {}) EXCEPT !.nullable = TRUE],
                 ObjectNode(<< >>, {})}

MCNode ==
    {ObjectNode([a |-> n], R) : n \in MCInner, R \in SUBSET {"a"}}
    \cup {ObjectNode([a |-> n, b |-> Leaf("string", FALSE, {})], {"a"}) : n \in MCInner}
    \cup {[ObjectNode([b |-> n], {"b"}) EXCEPT !.nullable = TRUE] : n \in MCLeaf}

\* The squares of the normal quantiles at i/m of a false discovery rate of 0.2,
\* in hundredths.
MCCritical == <<
    <<164>>,
    <<271, 164>>,
    <<336, 225, 164>>,
    <<384, 271, 207, 164>>,
    <<422, 306, 242, 197, 164>>,
    <<453, 336, 271, 225, 191, 164>>,
    <<479, 362, 295, 249, 215, 187, 164>>,
    <<502, 384, 317, 271, 235, 207, 184, 164>>,
    <<523, 404, 336, 289, 254, 225, 202, 182, 164>> >>
=============================================================================
