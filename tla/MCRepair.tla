------------------------------ MODULE MCRepair ------------------------------
(***************************************************************************)
(* Repair with three versions of the specification, of which the second and *)
(* the third break something, and two files.  Change 2 is used in file f    *)
(* and, ambiguously, in g; change 3 in g.  A model's answer may patch, name  *)
(* a text that is not there or is there twice, or leave the repository.     *)
(***************************************************************************)
EXTENDS Repair, TLC

CONSTANTS f, g, outside, b1, b2

MCFile == {f, g}
MCPaths == {f, g, outside}
MCText == {Uses(c) : c \in Change} \cup {Fixed(c) : c \in Change} \cup {Work}

\* The response of the one endpoint in each version: version 2 stops requiring
\* a, and adds b; version 3 takes the object c away.
Leaf(type) == [type |-> type, nullable |-> FALSE, enum |-> {}, properties |-> << >>,
               required |-> {}, items |-> {}, truncated |-> FALSE]
Response(properties, required) ==
    [e |-> [Leaf("object") EXCEPT !.properties = properties, !.required = required]]
Part == [Leaf("object") EXCEPT !.properties = [d |-> Leaf("string")], !.required = {"d"}]

MCVersion ==
    <<Response([a |-> Leaf("integer"), c |-> Part], {"a", "c"}),
      Response([a |-> Leaf("integer"), b |-> Leaf("string"), c |-> Part], {"c"}),
      Response([a |-> Leaf("integer"), b |-> Leaf("string")], {})>>

Truth == INSTANCE Drift WITH StringPool <- {}, ArrayLen <- 1

\* What watch keeps of the difference between two versions by default.
Kept(i, j) ==
    {x \in Truth!Diff(MCVersion[i], MCVersion[j]) : x.kind \in Truth!BreakingKinds}

MCBreaking == {2, 3}
ASSUME BreakingIsKept == MCBreaking = {i \in 2 .. Len(MCVersion) : Kept(i - 1, i) # {}}

\* Repair numbers changes by version: a difference over several versions is
\* the changes of each.  (Were version 3 to take back what 2 did, watch would
\* not see either.)
ASSUME DifferencesAdd ==
    \A i, j \in DOMAIN MCVersion : i < j =>
        Kept(i, j) = UNION {Kept(k - 1, k) : k \in i + 1 .. j}

MCBranch == {b1, b2}

MCOriginal ==
    [x \in MCFile |-> [t \in MCText |->
        IF x = f THEN IF t = Uses(2) THEN 1 ELSE 0
        ELSE IF t = Uses(2) THEN 2 ELSE IF t = Uses(3) THEN 1 ELSE 0]]

Swap(c, x) == [file |-> x, old |-> Uses(c), new |-> Fixed(c), change |-> c]

MCAnswers ==
    <<{},
      {<< >>, <<Swap(2, f)>>, <<Swap(2, f), Swap(2, g)>>},
      {<<Swap(3, g)>>, <<Swap(3, outside)>>}>>

BranchSymmetry == Permutations(MCBranch)

MCFindings == {<<2>>, <<3, 2>>}
=============================================================================
