----------------------------- MODULE Templater -----------------------------
(***************************************************************************)
(* internal/endpoint/templater.go: the prefix trie that learns which path    *)
(* segments are identifiers.                                                *)
(*                                                                          *)
(* A node is named by the route that leads to it: the method, then a literal *)
(* segment or Wild for each level.  The trie is a function from routes to    *)
(* counters.  A template is the rendering of a route, of which the route is  *)
(* kept here: a segment of a path may itself read {id} or {...}, as Wild and *)
(* Overflow are rendered, and is a literal all the same.  Observe and        *)
(* Resolve hold the mutex throughout; their loops are modelled one segment   *)
(* per step.                                                                 *)
(***************************************************************************)
EXTENDS Naturals, Sequences, FiniteSets

CONSTANTS
    Method,          \* request methods
    Segment,         \* literal path segments
    IDShaped,        \* those isIDShaped accepts
    Wild,            \* the step to a node's wild child
    Overflow,        \* the mark of what lies beyond MaxSegments
    Requests,        \* the requests made: pairs of a method and a path
    MinSamples, StatMinSamples, MinDistinctForVariable,
    IDFraction, GrowthRatio,   \* in hundredths
    MaxChildrenPerNode, MaxSegments, MaxNodes,   \* Config
    MaxObservations  \* bound on the paths observed; the code has none

ASSUME SegmentAssumption ==
    IDShaped \subseteq Segment /\ Wild \notin Segment /\ Overflow \notin Segment
ASSUME RequestAssumption == Requests \subseteq Method \X Seq(Segment)
ASSUME LimitAssumption ==
    MaxChildrenPerNode \in Nat /\ MaxSegments \in Nat /\ MaxNodes \in Nat
ASSUME EvidenceAssumption ==
    /\ MinSamples \in Nat \ {0} /\ StatMinSamples \in Nat
    /\ MinDistinctForVariable \in Nat /\ IDFraction \in Nat /\ GrowthRatio \in Nat
ASSUME BoundAssumption == MaxObservations \in Nat

VARIABLES
    trie,     \* route -> counters, for the nodes allocated
    nodes,    \* the templater's count of nodes
    phase,    \* "idle", "observe" or "resolve"
    path,     \* the path being observed or resolved
    at,       \* the route of the node the loop has come to
    todo,     \* the segments left
    answers,  \* history: <<method, path>> -> the template it last resolved to
    observed  \* paths observed so far

vars == <<trie, nodes, phase, path, at, todo, answers, observed>>

Counters == [total : Nat, idHits : Nat, capMisses : Nat, variable : BOOLEAN]
Route == {r \in Seq(Method \cup Segment \cup {Wild}) :
            /\ r # << >> /\ r[1] \in Method
            /\ \A i \in 2 .. Len(r) : r[i] \in Segment \cup {Wild}}

TypeOK ==
    /\ DOMAIN trie \subseteq Route
    /\ trie \in [DOMAIN trie -> Counters]
    /\ nodes \in Nat
    /\ phase \in {"idle", "observe", "resolve"}
    /\ path \in Seq(Segment) /\ todo \in Seq(Segment)
    /\ phase # "idle" => at \in DOMAIN trie
    /\ DOMAIN answers \subseteq Requests
    /\ observed \in 0 .. MaxObservations
-----------------------------------------------------------------------------
Init ==
    /\ trie = << >>
    /\ nodes = 0
    /\ phase = "idle"
    /\ path = << >>
    /\ at = << >>
    /\ todo = << >>
    /\ answers = << >>
    /\ observed = 0

\* split: the segments up to MaxSegments, and whether there were more.
Truncated(p) == Len(p) > MaxSegments
Split(p) == SubSeq(p, 1, IF Truncated(p) THEN MaxSegments ELSE Len(p))

NewNode == [total |-> 0, idHits |-> 0, capMisses |-> 0, variable |-> FALSE]

\* newNodeLocked's test.
Room(n) == n < MaxNodes

Named(t, r) == {s \in Segment : Append(r, s) \in DOMAIN t}

\* The shape tier and the growth tier of classifyLocked.
ByShape(c) == 100 * c.idHits >= IDFraction * c.total
ByGrowth(c, distinct) ==
    /\ c.total >= StatMinSamples
    /\ distinct >= MinDistinctForVariable
    /\ 100 * (distinct + c.capMisses) >= GrowthRatio * c.total

Enough(c) == c.total >= MinSamples

\* A position not marked yet that classifyLocked marks.
Marks(t, r) ==
    /\ ~t[r].variable /\ Enough(t[r])
    /\ ByShape(t[r]) \/ ByGrowth(t[r], Cardinality(Named(t, r)))

\* Variants of the definitions below, for checking that properties can fail:
\* a node counted and not linked, a count that forgets the subtrees of a
\* collapse, a verdict that is not kept.
NotLinked(t, r) == t
FreedChildren(t, r) == Cardinality(Named(t, r))
VerdictOfTheMoment(t, r) == Enough(t[r]) /\ ByShape(t[r])

\* The trie with one more node.
With(t, r) == [x \in DOMAIN t \cup {r} |-> IF x \in DOMAIN t THEN t[x] ELSE NewNode]

\* The nodes of the literal children's subtrees.
Beneath(t, r) ==
    {x \in DOMAIN t : /\ Len(r) < Len(x)
                      /\ SubSeq(x, 1, Len(r)) = r
                      /\ x[Len(r) + 1] # Wild}

\* countNodes over those children.
Freed(t, r) == Cardinality(Beneath(t, r))

\* markVariableLocked.
Marked(t, r) ==
    [x \in DOMAIN t \ Beneath(t, r) |->
        IF x = r THEN [t[x] EXCEPT !.variable = TRUE] ELSE t[x]]

\* classifyLocked's effect: the trie and the count after it, ...
Classified(t, r) == IF Marks(t, r) THEN Marked(t, r) ELSE t
NodesAfter(t, r) == IF Marks(t, r) THEN nodes - Freed(t, r) ELSE nodes

\* ... and its verdict, read from the trie after it.
IsVariable(t, r) == t[r].variable
Undecided(t, r) == ~IsVariable(t, r) /\ ~Enough(t[r])

\* stepObserveLocked counts the segment, ...
Counted(t, r, seg) ==
    [t EXCEPT ![r].total = @ + 1,
              ![r].idHits = IF seg \in IDShaped THEN @ + 1 ELSE @]

\* ... and routesToWildLocked classifies the position only for a segment that
\* does not look like an identifier.
Seen(seg) ==
    IF seg \in IDShaped THEN Counted(trie, at, seg)
    ELSE Classified(Counted(trie, at, seg), at)
NodesSeen(seg) ==
    IF seg \in IDShaped THEN nodes ELSE NodesAfter(Counted(trie, at, seg), at)

ToWild(t, seg) == seg \in IDShaped \/ IsVariable(t, at)
Child(t, seg) == Append(at, IF ToWild(t, seg) THEN Wild ELSE seg)

ChildrenFull(t, r) == Cardinality(Named(t, r)) >= MaxChildrenPerNode
-----------------------------------------------------------------------------
\* Observe, from its first line to its loop.
BeginObserve(m, p) ==
    /\ phase = "idle" /\ observed < MaxObservations
    /\ observed' = observed + 1
    /\ \/ /\ <<m>> \in DOMAIN trie
          /\ UNCHANGED <<trie, nodes>>
       \/ /\ <<m>> \notin DOMAIN trie /\ Room(nodes)
          /\ trie' = With(trie, <<m>>)
          /\ nodes' = nodes + 1
    /\ phase' = "observe"
    /\ path' = p
    /\ at' = <<m>>
    /\ todo' = Split(p)
    /\ UNCHANGED answers

\* The first path of a method, with no room for its root.
ObserveNowhere(m) ==
    /\ phase = "idle" /\ observed < MaxObservations
    /\ <<m>> \notin DOMAIN trie /\ ~Room(nodes)
    /\ observed' = observed + 1
    /\ UNCHANGED <<trie, nodes, phase, path, at, todo, answers>>

Advance(child) ==
    /\ at' = child
    /\ todo' = Tail(todo)
    /\ UNCHANGED <<phase, path, answers, observed>>

\* A call returns, its locals gone.
Return ==
    /\ phase' = "idle"
    /\ path' = << >> /\ at' = << >> /\ todo' = << >>
    /\ UNCHANGED observed

Leave == Return /\ UNCHANGED answers

\* The child is there.
Follow ==
    /\ phase = "observe" /\ todo # << >>
    /\ LET seg == Head(todo)  t == Seen(seg)
       IN /\ Child(t, seg) \in DOMAIN t
          /\ trie' = t
          /\ nodes' = NodesSeen(seg)
          /\ Advance(Child(t, seg))

\* A literal with no child at a position that has all it may have.
MissChild ==
    /\ phase = "observe" /\ todo # << >>
    /\ LET seg == Head(todo)  t == Seen(seg)
       IN /\ Child(t, seg) \notin DOMAIN t
          /\ ~ToWild(t, seg) /\ ChildrenFull(t, at)
          /\ trie' = [t EXCEPT ![at].capMisses = @ + 1]
          /\ nodes' = NodesSeen(seg)
          /\ Leave

\* A child is needed and may be made, ...
NeedsNode(t, seg) ==
    Child(t, seg) \notin DOMAIN t /\ (ToWild(t, seg) \/ ~ChildrenFull(t, at))

Grow ==
    /\ phase = "observe" /\ todo # << >>
    /\ LET seg == Head(todo)  t == Seen(seg)
       IN /\ NeedsNode(t, seg) /\ Room(NodesSeen(seg))
          /\ trie' = With(t, Child(t, seg))
          /\ nodes' = NodesSeen(seg) + 1
          /\ Advance(Child(t, seg))

\* ... or the trie is at MaxNodes.
MissNode ==
    /\ phase = "observe" /\ todo # << >>
    /\ LET seg == Head(todo)  t == Seen(seg)
       IN /\ NeedsNode(t, seg) /\ ~Room(NodesSeen(seg))
          /\ trie' = t
          /\ nodes' = NodesSeen(seg)
          /\ Leave

EndObserve ==
    /\ phase = "observe" /\ todo = << >>
    /\ UNCHANGED <<trie, nodes>>
    /\ Leave
-----------------------------------------------------------------------------
\* Resolve, of a method that has a root.
BeginResolve(m, p) ==
    /\ phase = "idle" /\ <<m>> \in DOMAIN trie
    /\ phase' = "resolve"
    /\ path' = p
    /\ at' = <<m>>
    /\ todo' = Split(p)
    /\ UNCHANGED <<trie, nodes, answers, observed>>

\* One position: classified, and the route taken.
ResolveStep ==
    /\ phase = "resolve" /\ todo # << >>
    /\ LET seg == Head(todo)  t == Classified(trie, at)
       IN /\ ~Undecided(t, at) /\ Child(t, seg) \in DOMAIN t
          /\ trie' = t
          /\ nodes' = NodesAfter(trie, at)
          /\ Advance(Child(t, seg))

\* An undecided position, or one where the path was never observed.
Unresolved ==
    /\ phase = "resolve" /\ todo # << >>
    /\ LET seg == Head(todo)  t == Classified(trie, at)
       IN /\ Undecided(t, at) \/ Child(t, seg) \notin DOMAIN t
          /\ trie' = t
          /\ nodes' = NodesAfter(trie, at)
          /\ Leave

\* Every position is decided: the key returned carries the template.
Resolved ==
    /\ phase = "resolve" /\ todo = << >>
    /\ answers' = [x \in DOMAIN answers \cup {<<Head(at), path>>} |->
                     IF x = <<Head(at), path>>
                     THEN IF Truncated(path) THEN Append(at, Overflow) ELSE at
                     ELSE answers[x]]
    /\ UNCHANGED <<trie, nodes>>
    /\ Return

Next ==
    \/ \E q \in Requests : \/ BeginObserve(q[1], q[2])
                          \/ ObserveNowhere(q[1])
                          \/ BeginResolve(q[1], q[2])
    \/ Follow \/ MissChild \/ Grow \/ MissNode \/ EndObserve
    \/ ResolveStep \/ Unresolved \/ Resolved

Spec == Init /\ [][Next]_vars
-----------------------------------------------------------------------------
\* The counter the memory bound is enforced with is the size of the trie,
\* whatever has been collapsed: a subtree miscounted when it is discarded
\* would make the bound leak or choke (templater.go: nodes, countNodes).
NodesExact == nodes = Cardinality(DOMAIN trie)

\* The three bounds on memory, at every step (TrieTemplater's comment).
WithinLimits ==
    /\ Cardinality(DOMAIN trie) <= MaxNodes
    /\ \A r \in DOMAIN trie : /\ Cardinality(Named(trie, r)) <= MaxChildrenPerNode
                              /\ Len(r) <= MaxSegments + 1

\* A position judged variable keeps no literal child and grows none, and every
\* node hangs from another: what was learned beneath a collapse is gone, and
\* no later path reaches it (markVariableLocked).
NoOrphans ==
    /\ \A r \in DOMAIN trie : trie[r].variable => Named(trie, r) = {}
    /\ \A r \in DOMAIN trie : Len(r) > 1 => SubSeq(r, 1, Len(r) - 1) \in DOMAIN trie

\* The trie is sound in all three ways at every step of a call: the bound is
\* enforced with a counter that is right, on a tree that holds nothing else.
TrieSound == NodesExact /\ WithinLimits /\ NoOrphans

\* The template a path resolves to changes in one way only: at the first
\* position where two answers for it differ, the earlier one has the literal
\* segment and the later one Wild.  The route behind the key of an endpoint may
\* become more general, once, and never moves back or sideways up to there
\* (Resolve's comment on splitting an endpoint's history).
OnlyGeneralises ==
    [][\A x \in DOMAIN answers :
          LET old == answers[x]  new == answers'[x]
              differ == {i \in DOMAIN old : old[i] # new[i]}
          IN differ # {} =>
               \E i \in differ : /\ \A j \in differ : i <= j
                                 /\ old[i] # Wild /\ new[i] = Wild]_vars
=============================================================================
