--------------------------- MODULE MCValueSample ----------------------------
(***************************************************************************)
(* One endpoint whose bodies hold a number that may change size, form or    *)
(* kind, and elements of an array that may come instead.  Three paths       *)
(* compete for two places; reservoirs of two values, of which two are       *)
(* enough to compare.                                                       *)
(***************************************************************************)
EXTENDS ValueSample

CONSTANT orders

Few == [kind |-> "int", size |-> 1]
Many == [kind |-> "int", size |-> 3]
Dated == [kind |-> "string", format |-> "timestamp"]
Counted == [kind |-> "string", format |-> "numeric-string"]

MCValue == {Few, Many, Dated, Counted}

Walker == INSTANCE Scalars WITH Names <- <<"amount", "at", "deep">>, MaxDepth <- 2

Object(fields) == [kind |-> "object", fields |-> fields]

MCDocuments == {
    Object([amount |-> Few]),
    Object([amount |-> Many]),
    Object([amount |-> Dated]),
    Object([amount |-> Counted, at |-> Dated]),
    [kind |-> "array", elems |-> <<Few, Few>>],
    Object([deep |-> Object([at |-> Object([amount |-> Few])])])}

MCBody == {Walker!Walk(orders, d) : d \in MCDocuments}
MCPath == {<<orders, <<"amount">>>>, <<orders, <<"at">>>>, <<orders, <<"[]">>>>}
=============================================================================
