---------------------------- MODULE MCSpecWatch -----------------------------
(***************************************************************************)
(* A document with three components, one inside the other, and responses,   *)
(* one of them with a second media type and one of them shared.  Edits may  *)
(* close the circle of references, or break a reference.                    *)
(***************************************************************************)
EXTENDS SpecWatch

EntryOf(status) == [path |-> "/a", method |-> "get", status |-> status]

MCStart ==
    [components |->
        [A |-> [type |-> "object",
                properties |-> [x |-> [type |-> "string", enum |-> {1}],
                                y |-> [ref |-> "B"]],
                required |-> {"x"}],
         B |-> [type |-> "object",
                properties |-> [x |-> [type |-> "integer"]],
                required |-> {}],
         C |-> [type |-> "string", enum |-> {1}]],
     responses |-> [Shared |-> [content |-> [json |-> [type |-> "array", items |-> [ref |-> "B"]]]]],
     paths |->
        (EntryOf("200") :> [content |-> [json |-> [ref |-> "A"], csv |-> [type |-> "string"]]])
        @@ (EntryOf("404") :> [ref |-> "Shared"])
        @@ (EntryOf("default") :> [content |-> [json |-> [type |-> "string"]]])]

MCNewSchema ==
    {[ref |-> "C"], [ref |-> "A"], [type |-> "array", items |-> [ref |-> "B"]],
     [type |-> "null"]}

\* Bodies over the two names: leaves, objects of leaves, and one level more.
\* A schema asks the same of a property whatever the others hold, so x takes
\* every leaf only where there is no y.
MCLeafBody == {[kind |-> "null"], [kind |-> "int"], [kind |-> "string", text |-> 1],
               [kind |-> "string", text |-> 2]}
ObjectBodies(names, S) == {[kind |-> "object", fields |-> f] : f \in [names -> S]}
Arrays(S) == {[kind |-> "array", elems |-> <<b>>] : b \in S}

MCInner == ObjectBodies({}, {}) \cup ObjectBodies({"x"}, MCLeafBody)
MCWithY ==
    {[kind |-> "object", fields |-> g @@ h] :
        g \in UNION {[N -> {[kind |-> "int"], [kind |-> "string", text |-> 1]}] : N \in SUBSET {"x"}},
        h \in [{"y"} -> MCLeafBody \cup MCInner \cup Arrays(MCInner)]}

MCBody == MCInner \cup MCWithY \cup Arrays(MCInner)
=============================================================================
