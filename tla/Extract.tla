------------------------------ MODULE Extract -------------------------------
(***************************************************************************)
(* internal/schema/extract.go: the schema of one response body, and what    *)
(* that schema means, stated over the body itself.                          *)
(*                                                                          *)
(* A body is a record with its kind and, for a string, its text; for an     *)
(* array, its elems; for an object, its fields, a function from keys.       *)
(* Names is a sequence because the walk takes keys in order.  A key is told *)
(* by the steps it adds to a path: one for most keys, more for a key that   *)
(* holds dots.  The key rules of keyshape.go are the set IDShaped of the    *)
(* keys they recognise.                                                     *)
(***************************************************************************)
EXTENDS Schema, FiniteSetsExt, SequencesExt

CONSTANTS
    Names,              \* the keys of the bodies in lexicographic order
    Steps,              \* Steps[k]: the key k split at its dots
    IDShaped,           \* the keys isKeyIDShaped recognises
    MaxFields,          \* paths kept per schema
    MaxDepth,           \* levels walked
    MinMapKeys,         \* fewest keys of a map
    MapKeyIDFraction,   \* share of identifier-shaped keys, in hundredths
    MapKeyHardLimit     \* keys past which a uniform object is a map

ASSUME NamesAssumption ==
    /\ DOMAIN Steps = Range(Names) /\ IDShaped \subseteq Range(Names)
    /\ \A k \in DOMAIN Steps : Steps[k] # << >> /\ Range(Steps[k]) \subseteq Name
ASSUME WalkAssumption == MaxFields \in Nat /\ MaxDepth \in Nat
ASSUME MapAssumption == {MinMapKeys, MapKeyIDFraction, MapKeyHardLimit} \subseteq Nat

Values(obj) == {obj.fields[n] : n \in DOMAIN obj.fields}

ValuesShareKind(obj) == \A v, w \in Values(obj) : v.kind = w.kind

ValuesShareObjectShape(obj) ==
    \A v, w \in Values(obj) :
        v.kind = "object" => DOMAIN v.fields = DOMAIN w.fields

IsMapShaped(obj) ==
    LET keys == DOMAIN obj.fields
        n == Cardinality(keys)
    IN /\ n >= MinMapKeys
       /\ ValuesShareKind(obj)
       /\ \/ 100 * Cardinality(keys \cap IDShaped) >= MapKeyIDFraction * n
          \/ n >= MapKeyHardLimit /\ ValuesShareObjectShape(obj)

\* join: dots are not escaped, and the empty key of the root has the name the
\* root itself has.
Join(p, k) == IF p = << >> /\ Steps[k] = <<"">> THEN << >> ELSE p \o Steps[k]

\* walkObject and walkArray: what is below a value at p, in the order walked,
\* each with its path.
Children(p, v) ==
    CASE v.kind = "object" ->
           LET keys == SelectSeq(Names, LAMBDA k : k \in DOMAIN v.fields)
           IN [i \in DOMAIN keys |->
                 <<IF IsMapShaped(v) THEN Append(p, Wild) ELSE Join(p, keys[i]),
                   v.fields[keys[i]]>>]
      [] v.kind = "array" -> [i \in DOMAIN v.elems |-> <<Append(p, Elem), v.elems[i]>>]
      [] OTHER -> << >>

NewFieldStats ==
    [seen |-> 1, present |-> 1, null |-> 0, kinds |-> [k \in Kind |-> 0],
     strings |-> [t \in Text |-> 0], overflow |-> FALSE]

\* noteOverflow: the marker goes in beside the MaxFields paths.
NoteOverflow(fields) ==
    [p \in DOMAIN fields \cup {OverflowPath} |->
        IF p = OverflowPath THEN NewFieldStats ELSE fields[p]]

\* recordString: the first values met are kept.
RecordString(f, t) ==
    IF f.strings[t] = 0 /\ Cardinality(Support(f.strings)) >= MaxEnumCardinality
    THEN [f EXCEPT !.overflow = TRUE]
    ELSE [f EXCEPT !.strings[t] = 1]

\* What walk notes of a value at its path.  Counters are set to 1, so that an
\* array counts once however many elements it holds.
Noted(f, v) ==
    [(IF v.kind = "string" THEN RecordString(f, v.text) ELSE f) EXCEPT
        !.kinds[v.kind] = 1,
        !.null = IF v.kind = "null" THEN 1 ELSE @]

\* field, and what walk does with it: out of paths, the value is not recorded.
Record(fields, p, v) ==
    IF p \in DOMAIN fields THEN [fields EXCEPT ![p] = Noted(@, v)]
    ELSE IF Cardinality(DOMAIN fields) >= MaxFields THEN NoteOverflow(fields)
    ELSE [q \in DOMAIN fields \cup {p} |->
             IF q = p THEN Noted(NewFieldStats, v) ELSE fields[q]]

RECURSIVE Walk(_, _, _, _)
Walk(fields, p, v, depth) ==
    LET noted == IF p = << >> THEN fields ELSE Record(fields, p, v)
    IN IF (p # << >> /\ p \notin DOMAIN noted) \/ depth >= MaxDepth THEN noted
       ELSE FoldLeft(LAMBDA acc, c : Walk(acc, c[1], c[2], depth + 1),
                     noted, Children(p, v))

Extract(body) == [samples |-> 1, fields |-> Walk(<< >>, << >>, body, 0)]
-----------------------------------------------------------------------------
(***************************************************************************)
(* What a body holds, found by following its levels rather than by walking. *)
(***************************************************************************)
RECURSIVE Places(_, _, _)
Places(p, v, levels) ==
    {<<p, v>>} \cup
    IF levels = 0 THEN {}
    ELSE UNION {Places(c[1], c[2], levels - 1) : c \in Range(Children(p, v))}

\* Every value a body holds within MaxDepth levels, with its path.
Held(body) == Places(<< >>, body, MaxDepth)

\* What a body is told by: what Extract makes of it, and what it holds where.
Described(body) ==
    LET held == {x \in Held(body) : x[1] # << >>}
    IN [schema |-> Extract(body),
        kinds |-> {<<x[1], x[2].kind>> : x \in held},
        texts |-> {<<x[1], x[2].text>> : x \in {y \in held : y[2].kind = "string"}},
        loses |-> Cardinality({x[1] : x \in held}) > MaxFields]
=============================================================================
