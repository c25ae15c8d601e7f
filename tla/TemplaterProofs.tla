-------------------------- MODULE TemplaterProofs ---------------------------
(***************************************************************************)
(* Proofs about Templater, for every set of paths, every limit and every      *)
(* threshold of the two tiers.  The operators the trie is built with keep a   *)
(* trie sound, and they keep what an answer given once rests on; both are     *)
(* shown of any trie, and the actions are put together from them.             *)
(***************************************************************************)
EXTENDS Templater, FiniteSetTheorems, SequenceTheorems,
        WellFoundedInduction, TLAPS

\* The first k names of a route.
Prefix(r, k) == SubSeq(r, 1, k)

\* What a node r of a sound trie t is: no deeper and with no more children
\* than allowed, nothing literal beneath it once it is variable, and every
\* node on the way to it there.
SoundAt(t, r) ==
    /\ Len(r) <= MaxSegments + 1
    /\ IsFiniteSet(Named(t, r)) /\ Cardinality(Named(t, r)) <= MaxChildrenPerNode
    /\ t[r].variable => Named(t, r) = {}
    /\ \A k \in 1 .. Len(r) : Prefix(r, k) \in DOMAIN t

\* A sound trie t, of n nodes.
Sound(t, n) ==
    /\ DOMAIN t \subseteq Route /\ t \in [DOMAIN t -> Counters]
    /\ IsFiniteSet(DOMAIN t) /\ n = Cardinality(DOMAIN t) /\ n <= MaxNodes
    /\ \A r \in DOMAIN t : SoundAt(t, r)

\* The k-th place of route r is gone for good: a position before it is
\* variable and r goes on from that one with a literal.
Cut(t, r, k) ==
    \E j \in 1 .. k - 1 : /\ Prefix(r, j) \in DOMAIN t /\ t[Prefix(r, j)].variable
                          /\ r[j + 1] # Wild

Placed(t, r, k) == Prefix(r, k) \in DOMAIN t \/ Cut(t, r, k)

\* What the route r that request q was once resolved to rests on: each place
\* of it is in the trie or gone for good, and where r goes on with Wild for
\* a name that is no identifier, the place is variable if the trie has it.
Holds(t, q, r) ==
    /\ r \in Route /\ r[1] = q[1] /\ Len(r) = 1 + Len(Split(q[2]))
    /\ \A k \in 1 .. Len(r) : Placed(t, r, k)
    /\ \A k \in 1 .. Len(r) - 1 :
          \/ r[k + 1] = q[2][k] /\ q[2][k] \notin IDShaped
          \/ /\ r[k + 1] = Wild
             /\ q[2][k] \notin IDShaped /\ Prefix(r, k) \in DOMAIN t
                   => t[Prefix(r, k)].variable

\* A trie t that becomes u loses no place but for good, takes none of those
\* back, and stays variable where it was.
Keeps(t, u) ==
    \A r \in Route : \A k \in 1 .. Len(r) :
       Placed(t, r, k) =>
          /\ Placed(u, r, k)
          /\ Prefix(r, k) \in DOMAIN u =>
                /\ Prefix(r, k) \in DOMAIN t
                /\ t[Prefix(r, k)].variable => u[Prefix(r, k)].variable

\* The route behind an answer.
Answered(q) ==
    IF Truncated(q[2]) THEN Prefix(answers[q], Len(answers[q]) - 1) ELSE answers[q]

\* The loop of either call has done with the first names of its path and has
\* the others to do.
CallOK ==
    phase # "idle" =>
       /\ at \in DOMAIN trie /\ <<at[1], path>> \in Requests
       /\ Len(at) + Len(todo) = 1 + Len(Split(path))
       /\ \A i \in 1 .. Len(todo) : todo[i] = path[Len(at) - 1 + i]

\* Resolve took Wild where it must, and nowhere else.
ResolveOK ==
    phase = "resolve" =>
       \A k \in 1 .. Len(at) - 1 :
          at[k + 1] = IF path[k] \in IDShaped \/ trie[Prefix(at, k)].variable
                      THEN Wild ELSE path[k]

AnswersOK ==
    \A q \in DOMAIN answers :
       /\ Holds(trie, q, Answered(q))
       /\ answers[q] = IF Truncated(q[2]) THEN Append(Answered(q), Overflow) ELSE Answered(q)

Inv == TypeOK /\ Sound(trie, nodes) /\ CallOK /\ ResolveOK /\ AnswersOK
-----------------------------------------------------------------------------
\* Routes and their prefixes.

Name == Method \cup Segment \cup {Wild}

\* A prefix is a sequence of the first names.
LEMMA PrefixShape ==
  ASSUME NEW S, NEW r \in Seq(S), NEW k \in 0 .. Len(r)
  PROVE  /\ Prefix(r, k) \in Seq(S) /\ Len(Prefix(r, k)) = k
         /\ \A i \in 1 .. k : Prefix(r, k)[i] = r[i]
<1>1. \A i \in 1 .. k : r[i] \in S
  BY ElementOfSeq, LenProperties
<1>2. 1 \in Int /\ k \in Int /\ k >= 0 /\ Len(r) \in Nat
  BY LenProperties
<1>3. /\ SubSeq(r, 1, k) \in Seq(S)
      /\ Len(SubSeq(r, 1, k)) = IF 1 <= k THEN k - 1 + 1 ELSE 0
      /\ \A i \in 1 .. k - 1 + 1 : SubSeq(r, 1, k)[i] = r[1 + i - 1]
  BY <1>1, <1>2, SubSeqProperties
<1>4. Len(SubSeq(r, 1, k)) = k
  BY <1>2, <1>3
<1>5. ASSUME NEW i \in 1 .. k  PROVE SubSeq(r, 1, k)[i] = r[i]
  <2>1. i \in 1 .. k - 1 + 1 /\ 1 + i - 1 = i
    BY <1>2
  <2>2. SubSeq(r, 1, k)[i] = r[1 + i - 1]
    BY <2>1, <1>3
  <2> QED
    BY <2>1, <2>2
<1> QED
  BY <1>3, <1>4, <1>5 DEF Prefix

\* Routes with the same names are the same.
LEMMA SameNames ==
  ASSUME NEW S, NEW r \in Seq(S), NEW s \in Seq(S), Len(r) = Len(s),
         \A i \in 1 .. Len(r) : r[i] = s[i]
  PROVE  r = s
BY SeqEqual

\* All of a route is a prefix of it.
LEMMA WholePrefix ==
  ASSUME NEW S, NEW r \in Seq(S)
  PROVE  Prefix(r, Len(r)) = r
BY SubSeqFull DEF Prefix

\* A prefix of a prefix is a prefix.
LEMMA PrefixOfPrefix ==
  ASSUME NEW S, NEW r \in Seq(S), NEW k \in 0 .. Len(r), NEW j \in 0 .. k
  PROVE  Prefix(Prefix(r, k), j) = Prefix(r, j)
<1>0. Len(r) \in Nat /\ j \in 0 .. Len(r)
  BY LenProperties
<1>1. /\ Prefix(r, k) \in Seq(S) /\ Len(Prefix(r, k)) = k
      /\ \A i \in 1 .. k : Prefix(r, k)[i] = r[i]
  BY PrefixShape
<1>2. /\ Prefix(Prefix(r, k), j) \in Seq(S) /\ Len(Prefix(Prefix(r, k), j)) = j
      /\ \A i \in 1 .. j : Prefix(Prefix(r, k), j)[i] = Prefix(r, k)[i]
  BY <1>1, PrefixShape
<1>3. /\ Prefix(r, j) \in Seq(S) /\ Len(Prefix(r, j)) = j
      /\ \A i \in 1 .. j : Prefix(r, j)[i] = r[i]
  BY <1>0, PrefixShape
<1>4. \A i \in 1 .. j : i \in 1 .. k
  BY <1>0
<1> QED
  BY <1>1, <1>2, <1>3, <1>4, SameNames

\* One name more at the end changes no prefix.
LEMMA PrefixOfAppend ==
  ASSUME NEW S, NEW r \in Seq(S), NEW e \in S, NEW k \in 0 .. Len(r)
  PROVE  Prefix(Append(r, e), k) = Prefix(r, k)
<1>1. /\ Append(r, e) \in Seq(S) /\ Len(Append(r, e)) = Len(r) + 1
      /\ \A i \in 1 .. Len(r) : Append(r, e)[i] = r[i]
  BY AppendProperties
<1>2. Len(r) \in Nat /\ k \in 0 .. Len(Append(r, e))
  BY <1>1, LenProperties
<1>3. /\ Prefix(Append(r, e), k) \in Seq(S) /\ Len(Prefix(Append(r, e), k)) = k
      /\ \A i \in 1 .. k : Prefix(Append(r, e), k)[i] = Append(r, e)[i]
  BY <1>1, <1>2, PrefixShape
<1>4. /\ Prefix(r, k) \in Seq(S) /\ Len(Prefix(r, k)) = k
      /\ \A i \in 1 .. k : Prefix(r, k)[i] = r[i]
  BY PrefixShape
<1>5. \A i \in 1 .. k : i \in 1 .. Len(r)
  BY <1>2
<1> QED
  BY <1>1, <1>3, <1>4, <1>5, SameNames

\* What a route is.
LEMMA RouteShape ==
  ASSUME NEW r \in Route
  PROVE  /\ r \in Seq(Name) /\ Len(r) \in Nat \ {0} /\ r[1] \in Method
         /\ \A i \in 2 .. Len(r) : r[i] \in Segment \cup {Wild}
<1>1. r \in Seq(Name) /\ r # << >>
  BY DEF Route, Name
<1>2. Len(r) \in Nat \ {0}
  BY <1>1, EmptySeq
<1> QED
  BY <1>1, <1>2 DEF Route

\* A route goes on with any name of a level.
LEMMA RouteGrows ==
  ASSUME NEW r \in Route, NEW e \in Segment \cup {Wild}
  PROVE  /\ Append(r, e) \in Route
         /\ Len(Append(r, e)) = Len(r) + 1
         /\ \A i \in 1 .. Len(r) : Append(r, e)[i] = r[i]
         /\ Append(r, e)[Len(r) + 1] = e
         /\ Append(r, e) # r
<1>1. /\ r \in Seq(Name) /\ Len(r) \in Nat \ {0} /\ r[1] \in Method
      /\ \A i \in 2 .. Len(r) : r[i] \in Segment \cup {Wild}
  BY RouteShape
<1>2. e \in Name
  BY DEF Name
<1>3. /\ Append(r, e) \in Seq(Name) /\ Append(r, e) # << >>
      /\ Len(Append(r, e)) = Len(r) + 1
      /\ \A i \in 1 .. Len(r) : Append(r, e)[i] = r[i]
      /\ Append(r, e)[Len(r) + 1] = e
  BY <1>1, <1>2, AppendProperties
<1>4. Append(r, e)[1] \in Method
  BY <1>1, <1>3
<1>5. ASSUME NEW i \in 2 .. Len(Append(r, e))
      PROVE  Append(r, e)[i] \in Segment \cup {Wild}
  <2>1. i \in 2 .. Len(r) \/ i = Len(r) + 1
    BY <1>1, <1>3
  <2> QED
    BY <2>1, <1>1, <1>3
<1>6. Append(r, e) # r
  BY <1>1, <1>3
<1> QED
  BY <1>3, <1>4, <1>5, <1>6 DEF Route, Name

\* A prefix of a route is a route.
LEMMA PrefixRoute ==
  ASSUME NEW r \in Route, NEW k \in 1 .. Len(r)
  PROVE  /\ Prefix(r, k) \in Route /\ Len(Prefix(r, k)) = k
         /\ \A i \in 1 .. k : Prefix(r, k)[i] = r[i]
<1>1. /\ r \in Seq(Name) /\ Len(r) \in Nat \ {0} /\ r[1] \in Method
      /\ \A i \in 2 .. Len(r) : r[i] \in Segment \cup {Wild}
  BY RouteShape
<1>2. k \in 0 .. Len(r) /\ 1 \in 1 .. k /\ \A i \in 2 .. k : i \in 2 .. Len(r) /\ i \in 1 .. k
  BY <1>1
<1>3. /\ Prefix(r, k) \in Seq(Name) /\ Len(Prefix(r, k)) = k
      /\ \A i \in 1 .. k : Prefix(r, k)[i] = r[i]
  BY <1>1, <1>2, PrefixShape
<1>4. Prefix(r, k) # << >>
  BY <1>1, <1>3, EmptySeq
<1> QED
  BY <1>1, <1>2, <1>3, <1>4 DEF Route, Name

\* A route is its parent with one name more.
LEMMA LastName ==
  ASSUME NEW r \in Route, NEW k \in 1 .. Len(r) - 1
  PROVE  Prefix(r, k + 1) = Append(Prefix(r, k), r[k + 1])
<1>1. /\ r \in Seq(Name) /\ Len(r) \in Nat \ {0}
      /\ \A i \in 2 .. Len(r) : r[i] \in Segment \cup {Wild}
  BY RouteShape
<1>2. /\ k \in 1 .. Len(r) /\ k + 1 \in 1 .. Len(r) /\ k + 1 \in 2 .. Len(r)
      /\ \A i \in 1 .. k + 1 : i \in 1 .. k \/ i = k + 1
      /\ \A i \in 1 .. k : i \in 1 .. k + 1
  BY <1>1
<1>3. /\ Prefix(r, k) \in Route /\ Len(Prefix(r, k)) = k
      /\ \A i \in 1 .. k : Prefix(r, k)[i] = r[i]
  BY <1>2, PrefixRoute
<1>4. /\ Prefix(r, k + 1) \in Route /\ Len(Prefix(r, k + 1)) = k + 1
      /\ \A i \in 1 .. k + 1 : Prefix(r, k + 1)[i] = r[i]
  BY <1>2, PrefixRoute
<1>5. /\ Append(Prefix(r, k), r[k + 1]) \in Route
      /\ Len(Append(Prefix(r, k), r[k + 1])) = k + 1
      /\ \A i \in 1 .. k : Append(Prefix(r, k), r[k + 1])[i] = Prefix(r, k)[i]
      /\ Append(Prefix(r, k), r[k + 1])[k + 1] = r[k + 1]
  BY <1>1, <1>2, <1>3, RouteGrows
<1>6. \A i \in 1 .. k + 1 : Prefix(r, k + 1)[i] = Append(Prefix(r, k), r[k + 1])[i]
  BY <1>2, <1>3, <1>4, <1>5
<1>7. Prefix(r, k + 1) \in Seq(Name) /\ Append(Prefix(r, k), r[k + 1]) \in Seq(Name)
  BY <1>4, <1>5 DEF Route, Name
<1> QED
  BY <1>4, <1>5, <1>6, <1>7, SameNames
-----------------------------------------------------------------------------
\* Tries.

\* What a node of a sound trie is.
LEMMA NodeShape ==
  ASSUME NEW t, NEW n, Sound(t, n), NEW r \in DOMAIN t
  PROVE  /\ r \in Route /\ t[r] \in Counters /\ SoundAt(t, r)
         /\ r \in Seq(Name) /\ Len(r) \in Nat \ {0}
         /\ n \in Nat
<1>1. r \in Route /\ t[r] \in Counters /\ SoundAt(t, r)
  BY DEF Sound
<1>2. n \in Nat
  BY FS_CardinalityType DEF Sound
<1> QED
  BY <1>1, <1>2, RouteShape

\* An answer's grounds are kept by what keeps the trie's places.
LEMMA HoldsKept ==
  ASSUME NEW t, NEW u, Keeps(t, u), NEW q, NEW r, Holds(t, q, r)
  PROVE  Holds(u, q, r)
<1>1. r \in Route /\ r[1] = q[1] /\ Len(r) = 1 + Len(Split(q[2]))
  BY DEF Holds
<1>2. \A k \in 1 .. Len(r) : Placed(t, r, k)
  BY DEF Holds
<1>3. \A k \in 1 .. Len(r) : Placed(u, r, k)
  BY <1>1, <1>2 DEF Keeps
<1>4. ASSUME NEW k \in 1 .. Len(r) - 1
      PROVE  \/ r[k + 1] = q[2][k] /\ q[2][k] \notin IDShaped
             \/ /\ r[k + 1] = Wild
                /\ q[2][k] \notin IDShaped /\ Prefix(r, k) \in DOMAIN u
                      => u[Prefix(r, k)].variable
  <2>1. \/ r[k + 1] = q[2][k] /\ q[2][k] \notin IDShaped
        \/ /\ r[k + 1] = Wild
           /\ q[2][k] \notin IDShaped /\ Prefix(r, k) \in DOMAIN t
                 => t[Prefix(r, k)].variable
    BY DEF Holds
  <2>2. k \in 1 .. Len(r)
    BY <1>1, RouteShape
  <2>3. Prefix(r, k) \in DOMAIN u =>
           /\ Prefix(r, k) \in DOMAIN t
           /\ t[Prefix(r, k)].variable => u[Prefix(r, k)].variable
    BY <1>1, <1>2, <2>2 DEF Keeps
  <2> QED
    BY <2>1, <2>3
<1> QED
  BY <1>1, <1>3, <1>4 DEF Holds

\* One change after the other keeps what each keeps.
LEMMA KeepsOn ==
  ASSUME NEW t, NEW u, NEW v, Keeps(t, u), Keeps(u, v)
  PROVE  Keeps(t, v)
BY DEF Keeps

\* A trie whose counters alone change.
LEMMA SameShape ==
  ASSUME NEW t, NEW n, Sound(t, n), NEW u, DOMAIN u = DOMAIN t,
         u \in [DOMAIN t -> Counters], \A r \in DOMAIN t : u[r].variable = t[r].variable
  PROVE  Sound(u, n) /\ Keeps(t, u)
<1>1. \A r : Named(u, r) = Named(t, r)
  BY DEF Named
<1>2. ASSUME NEW r \in DOMAIN u  PROVE SoundAt(u, r)
  BY <1>1 DEF Sound, SoundAt
<1>3. Sound(u, n)
  BY <1>2 DEF Sound
<1>4. \A r, k : Placed(t, r, k) => Placed(u, r, k)
  BY DEF Placed, Cut
<1>5. Keeps(t, u)
  BY <1>4 DEF Keeps
<1> QED
  BY <1>3, <1>5

\* Counting an observation changes no node's place.
LEMMA CountedSound ==
  ASSUME NEW t, NEW n, Sound(t, n), NEW r \in DOMAIN t, NEW seg
  PROVE  /\ Sound(Counted(t, r, seg), n) /\ Keeps(t, Counted(t, r, seg))
         /\ DOMAIN Counted(t, r, seg) = DOMAIN t
         /\ \A x \in DOMAIN t : Counted(t, r, seg)[x].variable = t[x].variable
<1> DEFINE u == Counted(t, r, seg)
<1>1. t \in [DOMAIN t -> Counters]
  BY DEF Sound
<1> DEFINE T == t[r].total + 1
           H == IF seg \in IDShaped THEN t[r].idHits + 1 ELSE t[r].idHits
           v == [t EXCEPT ![r].total = T]
<1>2. t[r] \in Counters
  BY <1>1
<1>3. T \in Nat /\ H \in Nat
  BY <1>2 DEF Counters
<1>4. u = [v EXCEPT ![r].idHits = H]
  BY DEF Counted
<1> HIDE DEF T, H, u
<1>5. /\ v \in [DOMAIN t -> Counters] /\ DOMAIN v = DOMAIN t
      /\ \A x \in DOMAIN t : v[x].variable = t[x].variable
  BY <1>1, <1>3 DEF Counters
<1> HIDE DEF v
<1>6. /\ u \in [DOMAIN t -> Counters] /\ DOMAIN u = DOMAIN t
      /\ \A x \in DOMAIN t : u[x].variable = t[x].variable
  BY <1>3, <1>4, <1>5 DEF Counters
<1>7. Sound(u, n) /\ Keeps(t, u)
  BY <1>6, SameShape
<1> QED
  BY <1>6, <1>7 DEF u

\* Nor does counting one that found no room.
LEMMA MissedSound ==
  ASSUME NEW t, NEW n, Sound(t, n), NEW r \in DOMAIN t
  PROVE  /\ Sound([t EXCEPT ![r].capMisses = @ + 1], n)
         /\ Keeps(t, [t EXCEPT ![r].capMisses = @ + 1])
<1> DEFINE u == [t EXCEPT ![r].capMisses = @ + 1]
<1>1. t \in [DOMAIN t -> Counters]
  BY DEF Sound
<1>2. /\ u \in [DOMAIN t -> Counters] /\ DOMAIN u = DOMAIN t
      /\ \A x \in DOMAIN t : u[x].variable = t[x].variable
  BY <1>1 DEF Counters
<1> QED
  BY <1>2, SameShape

\* What markVariableLocked throws away is a whole part of the trie: a node
\* under one that goes, goes.
LEMMA BeneathShape ==
  ASSUME NEW t, NEW n, Sound(t, n), NEW r \in DOMAIN t, NEW a \in Route,
         NEW k \in 1 .. Len(a), Prefix(a, k) \in Beneath(t, r)
  PROVE  /\ Len(r) \in 1 .. k - 1
         /\ Prefix(a, Len(r)) = r /\ a[Len(r) + 1] # Wild
<1> DEFINE x == Prefix(a, k)
<1>1. a \in Seq(Name) /\ Len(a) \in Nat \ {0} /\ Len(r) \in Nat \ {0}
  BY RouteShape, NodeShape
<1>2. x \in Route /\ Len(x) = k /\ \A i \in 1 .. k : x[i] = a[i]
  BY PrefixRoute
<1>3. Len(r) < Len(x) /\ Prefix(x, Len(r)) = r /\ x[Len(r) + 1] # Wild
  BY DEF Beneath, Prefix
<1>4. Len(r) \in 1 .. k - 1 /\ Len(r) + 1 \in 1 .. k /\ Len(r) \in 0 .. k /\ k \in 0 .. Len(a)
  BY <1>1, <1>2, <1>3
<1>5. Prefix(x, Len(r)) = Prefix(a, Len(r))
  BY <1>1, <1>4, PrefixOfPrefix
<1> QED
  BY <1>2, <1>3, <1>4, <1>5

\* A node that goes on from r with a literal is in the subtree a collapse
\* discards.
LEMMA BeneathRoute ==
  ASSUME NEW t, NEW n, Sound(t, n), NEW r \in DOMAIN t, NEW a \in DOMAIN t,
         Len(r) \in 1 .. Len(a) - 1, Prefix(a, Len(r)) = r, a[Len(r) + 1] # Wild
  PROVE  a \in Beneath(t, r)
<1>1. Len(a) \in Nat
  BY NodeShape
<1> QED
  BY <1>1 DEF Beneath, Prefix

\* What a collapse leaves.
LEMMA MarkedShape ==
  ASSUME NEW t, NEW n, Sound(t, n), NEW r \in DOMAIN t
  PROVE  /\ DOMAIN Marked(t, r) = DOMAIN t \ Beneath(t, r)
         /\ r \in DOMAIN Marked(t, r) /\ Marked(t, r)[r].variable
         /\ Marked(t, r) \in [DOMAIN Marked(t, r) -> Counters]
         /\ \A x \in DOMAIN Marked(t, r) :
               /\ x # r => Marked(t, r)[x] = t[x]
               /\ t[x].variable => Marked(t, r)[x].variable
<1> DEFINE D == DOMAIN t \ Beneath(t, r)
           c == [t[r] EXCEPT !.variable = TRUE]
<1>1. t[r] \in Counters /\ t \in [DOMAIN t -> Counters] /\ Len(r) \in Nat
  BY NodeShape DEF Sound
<1>2. c \in Counters /\ c.variable
  BY <1>1 DEF Counters
<1>3. Marked(t, r) = [x \in D |-> IF x = r THEN c ELSE t[x]]
  BY DEF Marked
<1>4. r \in D
  BY <1>1 DEF Beneath
<1>5. \A x \in D : t[x] \in Counters
  BY <1>1
<1> HIDE DEF D, c
<1>6. /\ DOMAIN Marked(t, r) = D
      /\ \A x \in D : Marked(t, r)[x] = IF x = r THEN c ELSE t[x]
  BY <1>3
<1>7. Marked(t, r) \in [D -> Counters]
  BY <1>2, <1>3, <1>5
<1> QED
  BY <1>2, <1>4, <1>6, <1>7 DEF D

\* A collapse leaves a sound trie, and takes no place but for good.
LEMMA MarkedSound ==
  ASSUME NEW t, NEW n, Sound(t, n), NEW r \in DOMAIN t
  PROVE  Sound(Marked(t, r), n - Freed(t, r)) /\ Keeps(t, Marked(t, r))
<1> DEFINE u == Marked(t, r)
<1>1. /\ DOMAIN u = DOMAIN t \ Beneath(t, r) /\ r \in DOMAIN u /\ u[r].variable
      /\ u \in [DOMAIN u -> Counters]
      /\ \A x \in DOMAIN u : /\ x # r => u[x] = t[x]
                             /\ t[x].variable => u[x].variable
  BY MarkedShape
<1> HIDE DEF u
<1>2. IsFiniteSet(DOMAIN u) /\ n - Freed(t, r) = Cardinality(DOMAIN u) /\ n - Freed(t, r) <= MaxNodes
  <2>1. IsFiniteSet(DOMAIN t) /\ n = Cardinality(DOMAIN t) /\ n <= MaxNodes
    BY DEF Sound
  <2>2. DOMAIN t \cap Beneath(t, r) = Beneath(t, r) /\ Beneath(t, r) \in SUBSET DOMAIN t
    BY DEF Beneath
  <2>3. /\ IsFiniteSet(DOMAIN t \ Beneath(t, r))
        /\ Cardinality(DOMAIN t \ Beneath(t, r)) = Cardinality(DOMAIN t) - Cardinality(DOMAIN t \cap Beneath(t, r))
    BY <2>1, FS_Difference
  <2>4. IsFiniteSet(Beneath(t, r)) /\ Cardinality(Beneath(t, r)) \in Nat /\ n \in Nat
    BY <2>1, <2>2, FS_Subset, FS_CardinalityType
  <2>5. Cardinality(DOMAIN u) = n - Freed(t, r)
    BY <1>1, <2>1, <2>2, <2>3 DEF Freed
  <2>6. n - Freed(t, r) <= MaxNodes
    BY <2>1, <2>4, LimitAssumption DEF Freed
  <2> QED
    BY <1>1, <2>3, <2>5, <2>6
<1>3. ASSUME NEW x \in DOMAIN u  PROVE SoundAt(u, x)
  <2>1. x \in DOMAIN t
    BY <1>1
  <2>2. x \in Route /\ SoundAt(t, x) /\ x \in Seq(Name) /\ Len(x) \in Nat \ {0} /\ Len(r) \in Nat \ {0} /\ r \in Route
    BY <2>1, NodeShape
  <2>3. Named(u, x) \in SUBSET Named(t, x)
    BY <1>1 DEF Named
  <2>4. IsFiniteSet(Named(t, x)) /\ Cardinality(Named(t, x)) <= MaxChildrenPerNode
    BY <2>2 DEF SoundAt
  <2>5. /\ IsFiniteSet(Named(u, x)) /\ Cardinality(Named(u, x)) <= Cardinality(Named(t, x))
        /\ Cardinality(Named(u, x)) \in Nat /\ Cardinality(Named(t, x)) \in Nat
    BY <2>3, <2>4, FS_Subset, FS_CardinalityType
  <2>6. Cardinality(Named(u, x)) <= MaxChildrenPerNode
    BY <2>4, <2>5, LimitAssumption
  <2>7. ASSUME x = r  PROVE Named(u, x) = {}
    <3>1. SUFFICES ASSUME NEW s \in Segment, Append(r, s) \in DOMAIN u  PROVE FALSE
      BY <2>7 DEF Named
    <3>2. /\ Append(r, s) \in Route /\ Len(Append(r, s)) = Len(r) + 1
          /\ Append(r, s)[Len(r) + 1] = s
      BY <2>2, RouteGrows
    <3>3. Prefix(Append(r, s), Len(r)) = r
      <4>1. r \in Seq(Name) /\ s \in Name /\ Len(r) \in 0 .. Len(r)
        BY <2>2, <2>7 DEF Name
      <4> QED
        BY <4>1, PrefixOfAppend, WholePrefix
    <3>4. Append(r, s) \in Beneath(t, r)
      <4>1. Append(r, s) \in DOMAIN t /\ Append(r, s)[Len(r) + 1] # Wild
        BY <1>1, <3>1, <3>2, SegmentAssumption
      <4>2. Len(r) \in 1 .. Len(Append(r, s)) - 1
        BY <2>2, <3>2
      <4> QED
        BY <3>3, <4>1, <4>2, BeneathRoute
    <3> QED
      BY <1>1, <3>1, <3>4
  <2>8. u[x].variable => Named(u, x) = {}
    BY <1>1, <2>2, <2>3, <2>7 DEF SoundAt
  <2>9. ASSUME NEW k \in 1 .. Len(x)  PROVE Prefix(x, k) \in DOMAIN u
    <3>1. Prefix(x, k) \in DOMAIN t
      BY <2>2 DEF SoundAt
    <3>2. CASE Prefix(x, k) \in Beneath(t, r)
      <4>1. Len(r) \in 1 .. k - 1 /\ Prefix(x, Len(r)) = r /\ x[Len(r) + 1] # Wild
        BY <2>2, <3>2, BeneathShape
      <4>2. Len(r) \in 1 .. Len(x) - 1
        BY <2>2, <4>1
      <4>3. x \in Beneath(t, r)
        BY <2>1, <4>1, <4>2, BeneathRoute
      <4> QED
        BY <1>1, <4>3
    <3> QED
      BY <1>1, <3>1, <3>2
  <2> QED
    BY <2>2, <2>5, <2>6, <2>8, <2>9 DEF SoundAt
<1>4. Sound(u, n - Freed(t, r))
  <2>1. DOMAIN u \subseteq Route
    BY <1>1 DEF Sound
  <2> QED
    BY <1>1, <1>2, <1>3, <2>1 DEF Sound
<1>5. ASSUME NEW a \in Route, NEW k \in 1 .. Len(a), Placed(t, a, k)
      PROVE  Placed(u, a, k)
  <2>0. Len(a) \in Nat \ {0} /\ Len(r) \in Nat \ {0}
    BY RouteShape, NodeShape
  <2>1. CASE Prefix(a, k) \in DOMAIN u
    BY <2>1 DEF Placed
  <2>2. ASSUME NEW j \in 1 .. k, Prefix(a, j) \in Beneath(t, r)  PROVE Placed(u, a, k)
    <3>1. j \in 1 .. Len(a)
      BY <2>0
    <3>2. Len(r) \in 1 .. j - 1 /\ Prefix(a, Len(r)) = r /\ a[Len(r) + 1] # Wild
      BY <2>2, <3>1, BeneathShape
    <3>3. Len(r) \in 1 .. k - 1
      BY <3>2
    <3> QED
      BY <1>1, <3>2, <3>3 DEF Placed, Cut
  <2>3. CASE Prefix(a, k) \in Beneath(t, r)
    <3>1. k \in 1 .. k
      BY <2>0
    <3> QED
      BY <2>2, <2>3, <3>1
  <2>4. CASE Cut(t, a, k)
    <3>1. PICK j \in 1 .. k - 1 : /\ Prefix(a, j) \in DOMAIN t /\ t[Prefix(a, j)].variable
                                  /\ a[j + 1] # Wild
      BY <2>4 DEF Cut
    <3>2. CASE Prefix(a, j) \in DOMAIN u
      BY <1>1, <3>1, <3>2 DEF Placed, Cut
    <3>3. CASE Prefix(a, j) \in Beneath(t, r)
      <4>1. j \in 1 .. k
        BY <2>0
      <4> QED
        BY <2>2, <3>3, <4>1
    <3> QED
      BY <1>1, <3>1, <3>2, <3>3
  <2> QED
    BY <1>1, <1>5, <2>1, <2>3, <2>4 DEF Placed
<1>6. Keeps(t, u)
  BY <1>1, <1>5 DEF Keeps
<1> QED
  BY <1>4, <1>6 DEF u

\* A node that With may add: all on the way to it is there, and it is within
\* the bounds; with a literal for its last name, its parent takes literals.
Leaf(t, c) ==
    /\ c \in Route /\ c \notin DOMAIN t /\ Len(c) <= MaxSegments + 1
    /\ \A k \in 1 .. Len(c) - 1 : Prefix(c, k) \in DOMAIN t
    /\ Len(c) > 1 =>
          \/ c[Len(c)] = Wild
          \/ /\ ~t[Prefix(c, Len(c) - 1)].variable
             /\ Cardinality(Named(t, Prefix(c, Len(c) - 1))) < MaxChildrenPerNode

\* What a new leaf adds.
LEMMA WithShape ==
  ASSUME NEW t, NEW n, Sound(t, n), NEW c, Leaf(t, c)
  PROVE  /\ DOMAIN With(t, c) = DOMAIN t \cup {c}
         /\ With(t, c) \in [DOMAIN With(t, c) -> Counters]
         /\ \A x \in DOMAIN t : With(t, c)[x] = t[x]
         /\ With(t, c)[c].variable = FALSE
<1>1. t \in [DOMAIN t -> Counters] /\ c \notin DOMAIN t
  BY DEF Sound, Leaf
<1>2. NewNode \in Counters /\ NewNode.variable = FALSE
  BY DEF NewNode, Counters
<1> QED
  BY <1>1, <1>2 DEF With

\* The new node has no child: a child's prefix would have been there.
LEMMA LeafChildless ==
  ASSUME NEW t, NEW n, Sound(t, n), NEW c, Leaf(t, c), NEW s \in Segment
  PROVE  Append(c, s) \notin DOMAIN t
<1>1. c \in Route /\ c \notin DOMAIN t
  BY DEF Leaf
<1>2. c \in Seq(Name) /\ Len(c) \in Nat \ {0} /\ s \in Name
  BY <1>1, RouteShape DEF Name
<1>3. Append(c, s) \in Route /\ Len(Append(c, s)) = Len(c) + 1
  BY <1>1, RouteGrows
<1>4. Len(c) \in 0 .. Len(c) /\ Len(c) \in 1 .. Len(Append(c, s))
  BY <1>2, <1>3
<1>5. Prefix(Append(c, s), Len(c)) = c
  BY <1>2, <1>4, PrefixOfAppend, WholePrefix
<1>6. SUFFICES ASSUME Append(c, s) \in DOMAIN t  PROVE FALSE
  OBVIOUS
<1>7. Prefix(Append(c, s), Len(c)) \in DOMAIN t
  BY <1>4, <1>6 DEF Sound, SoundAt
<1> QED
  BY <1>1, <1>5, <1>7

\* The parent alone gains a child.
LEMMA WithNamed ==
  ASSUME NEW t, NEW n, Sound(t, n), NEW c, Leaf(t, c), NEW x \in DOMAIN t
  PROVE  \/ Named(With(t, c), x) = Named(t, x)
         \/ /\ Len(c) > 1 /\ x = Prefix(c, Len(c) - 1)
            /\ Named(With(t, c), x) = Named(t, x) \cup {c[Len(c)]}
            /\ c[Len(c)] # Wild
<1>1. DOMAIN With(t, c) = DOMAIN t \cup {c}
  BY WithShape
<1>2. CASE \A s \in Segment : Append(x, s) # c
  BY <1>1, <1>2 DEF Named
<1>3. ASSUME NEW s \in Segment, Append(x, s) = c
      PROVE  /\ Len(c) > 1 /\ x = Prefix(c, Len(c) - 1)
             /\ Named(With(t, c), x) = Named(t, x) \cup {c[Len(c)]}
             /\ c[Len(c)] # Wild
  <2>1. x \in Route /\ x \in Seq(Name) /\ Len(x) \in Nat \ {0}
    BY NodeShape
  <2>2. s \in Name /\ s # Wild
    BY SegmentAssumption DEF Name
  <2>3. Len(c) = Len(x) + 1 /\ c[Len(x) + 1] = s
    BY <1>3, <2>1, RouteGrows
  <2>4. Len(c) > 1 /\ Len(c) - 1 = Len(x) /\ c[Len(c)] = s
    BY <2>1, <2>3
  <2>5. Prefix(c, Len(x)) = x
    <3>1. Len(x) \in 0 .. Len(x)
      BY <2>1
    <3> QED
      BY <1>3, <2>1, <2>2, <3>1, PrefixOfAppend, WholePrefix
  <2>6. ASSUME NEW e \in Segment  PROVE Append(x, e) = c <=> e = s
    <3>1. e \in Name
      BY DEF Name
    <3>2. Append(x, e) = Append(x, s) <=> x = x /\ e = s
      BY <2>1, <2>2, <3>1, AppendInjective
    <3> QED
      BY <1>3, <3>2
  <2>7. Named(With(t, c), x) = Named(t, x) \cup {s}
    BY <1>1, <2>6 DEF Named
  <2> QED
    BY <2>2, <2>4, <2>5, <2>7
<1> QED
  BY <1>2, <1>3

\* A new leaf leaves a sound trie, while there is room.
LEMMA WithSound ==
  ASSUME NEW t, NEW n, Sound(t, n), n < MaxNodes, NEW c, Leaf(t, c)
  PROVE  Sound(With(t, c), n + 1) /\ Keeps(t, With(t, c))
<1> DEFINE u == With(t, c)
<1>1. /\ DOMAIN u = DOMAIN t \cup {c}
      /\ u \in [DOMAIN u -> Counters]
      /\ \A x \in DOMAIN t : u[x] = t[x]
      /\ u[c].variable = FALSE
  BY WithShape
<1>2. /\ \A s \in Segment : Append(c, s) \notin DOMAIN t
      /\ \A x \in DOMAIN t :
            \/ Named(u, x) = Named(t, x)
            \/ /\ Len(c) > 1 /\ x = Prefix(c, Len(c) - 1)
               /\ Named(u, x) = Named(t, x) \cup {c[Len(c)]}
               /\ c[Len(c)] # Wild
  BY LeafChildless, WithNamed
<1> HIDE DEF u
<1>3. /\ c \in Route /\ c \notin DOMAIN t /\ Len(c) <= MaxSegments + 1
      /\ c \in Seq(Name) /\ Len(c) \in Nat \ {0}
      /\ \A k \in 1 .. Len(c) - 1 : Prefix(c, k) \in DOMAIN t
  BY RouteShape DEF Leaf
<1>4. IsFiniteSet(DOMAIN u) /\ n + 1 = Cardinality(DOMAIN u) /\ n + 1 <= MaxNodes
  <2>1. IsFiniteSet(DOMAIN t) /\ n = Cardinality(DOMAIN t)
    BY DEF Sound
  <2>2. IsFiniteSet(DOMAIN u) /\ Cardinality(DOMAIN u) = Cardinality(DOMAIN t) + 1
    BY <1>1, <1>3, <2>1, FS_AddElement
  <2>3. n \in Nat
    BY <2>1, FS_CardinalityType
  <2> QED
    BY <2>1, <2>2, <2>3, LimitAssumption
<1>5. ASSUME NEW x \in DOMAIN t  PROVE SoundAt(u, x)
  <2>1. /\ Len(x) <= MaxSegments + 1
        /\ IsFiniteSet(Named(t, x)) /\ Cardinality(Named(t, x)) <= MaxChildrenPerNode
        /\ t[x].variable => Named(t, x) = {}
        /\ \A k \in 1 .. Len(x) : Prefix(x, k) \in DOMAIN t
    BY DEF Sound, SoundAt
  <2>2. \A k \in 1 .. Len(x) : Prefix(x, k) \in DOMAIN u
    BY <1>1, <2>1
  <2>3. CASE Named(u, x) = Named(t, x)
    BY <1>1, <2>1, <2>2, <2>3 DEF SoundAt
  <2>4. CASE /\ Len(c) > 1 /\ x = Prefix(c, Len(c) - 1)
             /\ Named(u, x) = Named(t, x) \cup {c[Len(c)]}
             /\ c[Len(c)] # Wild
    <3>1. ~t[x].variable /\ Cardinality(Named(t, x)) < MaxChildrenPerNode
      BY <2>4 DEF Leaf
    <3>2. /\ IsFiniteSet(Named(u, x))
          /\ Cardinality(Named(u, x)) = Cardinality(Named(t, x)) \/ Cardinality(Named(u, x)) = Cardinality(Named(t, x)) + 1
      BY <2>1, <2>4, FS_AddElement
    <3>3. Cardinality(Named(t, x)) \in Nat
      BY <2>1, FS_CardinalityType
    <3>4. Cardinality(Named(u, x)) <= MaxChildrenPerNode
      BY <3>1, <3>2, <3>3, LimitAssumption
    <3> QED
      BY <1>1, <2>1, <2>2, <3>1, <3>2, <3>4 DEF SoundAt
  <2> QED
    BY <1>2, <2>3, <2>4
<1>6. SoundAt(u, c)
  <2>1. Named(u, c) = {}
    <3>1. \A s \in Segment : Append(c, s) # c
      BY <1>3, RouteGrows
    <3> QED
      BY <1>1, <1>2, <3>1 DEF Named
  <2>2. IsFiniteSet(Named(u, c)) /\ Cardinality(Named(u, c)) <= MaxChildrenPerNode
    BY <2>1, FS_EmptySet, LimitAssumption
  <2>3. ASSUME NEW k \in 1 .. Len(c)  PROVE Prefix(c, k) \in DOMAIN u
    <3>1. k \in 1 .. Len(c) - 1 \/ k = Len(c)
      BY <1>3
    <3>2. Prefix(c, Len(c)) = c
      BY <1>3, WholePrefix
    <3> QED
      BY <1>1, <1>3, <3>1, <3>2
  <2> QED
    BY <1>3, <2>1, <2>2, <2>3 DEF SoundAt
<1>7. Sound(u, n + 1)
  <2>1. DOMAIN u \subseteq Route
    BY <1>1, <1>3 DEF Sound
  <2>2. \A x \in DOMAIN u : SoundAt(u, x)
    BY <1>1, <1>5, <1>6
  <2> QED
    BY <1>1, <1>4, <2>1, <2>2 DEF Sound
<1>8. ASSUME NEW a \in Route, NEW k \in 1 .. Len(a), Cut(t, a, k), Prefix(a, k) = c
      PROVE  FALSE
  <2>1. PICK j \in 1 .. k - 1 : /\ Prefix(a, j) \in DOMAIN t /\ t[Prefix(a, j)].variable
                                /\ a[j + 1] # Wild
    BY <1>8 DEF Cut
  <2>2. /\ a \in Seq(Name) /\ Len(a) \in Nat \ {0}
        /\ \A i \in 2 .. Len(a) : a[i] \in Segment \cup {Wild}
    BY RouteShape
  <2>3. Len(c) = k /\ \A i \in 1 .. k : c[i] = a[i]
    BY <1>8, PrefixRoute
  <2>4. /\ j \in 1 .. k /\ j + 1 \in 2 .. k /\ j + 1 \in 1 .. k /\ k \in 0 .. Len(a)
        /\ j \in 0 .. k /\ j + 1 \in 0 .. k /\ j + 1 \in 2 .. Len(a) /\ Len(c) > 1
        /\ j \in 1 .. Len(a) - 1
    BY <2>1, <2>2, <2>3
  <2>5. Prefix(c, j) = Prefix(a, j) /\ Prefix(c, j + 1) = Prefix(a, j + 1)
    BY <1>8, <2>2, <2>4, PrefixOfPrefix
  <2>6. a[j + 1] \in Segment
    BY <2>1, <2>2, <2>4
  <2>7. Named(t, Prefix(a, j)) = {}
    BY <2>1 DEF Sound, SoundAt
  <2>8. CASE j + 1 = k
    <3>1. c[Len(c)] # Wild /\ Len(c) - 1 = j
      BY <2>1, <2>3, <2>4, <2>8
    <3>2. ~t[Prefix(c, Len(c) - 1)].variable
      BY <2>4, <3>1 DEF Leaf
    <3> QED
      BY <2>1, <2>5, <3>1, <3>2
  <2>9. CASE j + 1 # k
    <3>1. j + 1 \in 1 .. Len(c) - 1
      BY <2>3, <2>4, <2>9
    <3>2. Prefix(a, j + 1) \in DOMAIN t
      BY <1>3, <2>5, <3>1
    <3>3. Prefix(a, j + 1) = Append(Prefix(a, j), a[j + 1])
      BY <2>4, LastName
    <3> QED
      BY <2>6, <2>7, <3>2, <3>3 DEF Named
  <2> QED
    BY <2>8, <2>9
<1>9. Keeps(t, u)
  <2>1. \A a, k : Placed(t, a, k) => Placed(u, a, k)
    BY <1>1 DEF Placed, Cut
  <2>2. ASSUME NEW a \in Route, NEW k \in 1 .. Len(a), Placed(t, a, k), Prefix(a, k) \in DOMAIN u
        PROVE  Prefix(a, k) \in DOMAIN t
    BY <1>1, <1>8, <2>2 DEF Placed
  <2> QED
    BY <1>1, <2>1, <2>2 DEF Keeps
<1> QED
  BY <1>7, <1>9 DEF u

\* A trie u of m nodes that a judgement of the position r makes of t.
Judged(t, u, m, r) ==
    /\ Sound(u, m) /\ Keeps(t, u) /\ r \in DOMAIN u
    /\ \A x \in DOMAIN u : /\ x \in DOMAIN t
                           /\ x # r => u[x].variable = t[x].variable
                           /\ t[x].variable => u[x].variable

\* So does a verdict, if there is one.
LEMMA ClassifiedSound ==
  ASSUME NEW t, Sound(t, nodes), NEW r \in DOMAIN t
  PROVE  Judged(t, Classified(t, r), NodesAfter(t, r), r)
<1>1. CASE Marks(t, r)
  <2>1. /\ Sound(Marked(t, r), nodes - Freed(t, r)) /\ Keeps(t, Marked(t, r))
        /\ DOMAIN Marked(t, r) = DOMAIN t \ Beneath(t, r)
        /\ r \in DOMAIN Marked(t, r)
        /\ \A x \in DOMAIN Marked(t, r) :
              /\ x # r => Marked(t, r)[x] = t[x]
              /\ t[x].variable => Marked(t, r)[x].variable
    BY MarkedSound, MarkedShape
  <2>2. Classified(t, r) = Marked(t, r) /\ NodesAfter(t, r) = nodes - Freed(t, r)
    BY <1>1 DEF Classified, NodesAfter
  <2> QED
    BY <2>1, <2>2 DEF Judged
<1>2. CASE ~Marks(t, r)
  <2>1. Classified(t, r) = t /\ NodesAfter(t, r) = nodes
    BY <1>2 DEF Classified, NodesAfter
  <2>2. Keeps(t, t)
    BY DEF Keeps
  <2> QED
    BY <2>1, <2>2 DEF Judged
<1> QED
  BY <1>1, <1>2

\* So does the verdict after a segment was seen.
LEMMA SeenSound ==
  ASSUME Sound(trie, nodes), at \in DOMAIN trie, NEW seg
  PROVE  Judged(trie, Seen(seg), NodesSeen(seg), at)
<1> DEFINE u == Counted(trie, at, seg)
<1>1. /\ Sound(u, nodes) /\ Keeps(trie, u) /\ DOMAIN u = DOMAIN trie
      /\ \A x \in DOMAIN trie : u[x].variable = trie[x].variable
  BY CountedSound
<1> HIDE DEF u
<1>2. Judged(u, Classified(u, at), NodesAfter(u, at), at)
  BY <1>1, ClassifiedSound
<1>3. CASE seg \in IDShaped
  <2>1. Seen(seg) = u /\ NodesSeen(seg) = nodes
    BY <1>3 DEF Seen, NodesSeen, u
  <2> QED
    BY <1>1, <2>1 DEF Judged
<1>4. CASE seg \notin IDShaped
  <2>1. Seen(seg) = Classified(u, at) /\ NodesSeen(seg) = NodesAfter(u, at)
    BY <1>4 DEF Seen, NodesSeen, u
  <2>2. Keeps(trie, Classified(u, at))
    BY <1>1, <1>2, KeepsOn DEF Judged
  <2> QED
    BY <1>1, <1>2, <2>1, <2>2 DEF Judged
<1> QED
  BY <1>3, <1>4

\* The child the loop wants at a position of a judged trie.
LEMMA ChildShape ==
  ASSUME NEW t, NEW n, Sound(t, n), at \in DOMAIN t, NEW seg \in Segment
  PROVE  /\ Child(t, seg) \in Route /\ Len(Child(t, seg)) = Len(at) + 1
         /\ \A i \in 1 .. Len(at) : Child(t, seg)[i] = at[i]
         /\ Child(t, seg)[Len(at) + 1] = IF ToWild(t, seg) THEN Wild ELSE seg
         /\ \A k \in 1 .. Len(at) : Prefix(Child(t, seg), k) = Prefix(at, k)
         /\ Prefix(at, Len(at)) = at
<1> DEFINE e == IF ToWild(t, seg) THEN Wild ELSE seg
<1>1. at \in Route /\ at \in Seq(Name) /\ Len(at) \in Nat \ {0}
  BY NodeShape
<1>2. e \in Segment \cup {Wild} /\ e \in Name
  BY DEF Name
<1>3. Child(t, seg) = Append(at, e)
  BY DEF Child
<1> HIDE DEF e
<1>4. \A k \in 1 .. Len(at) : k \in 0 .. Len(at)
  BY <1>1
<1>5. \A k \in 1 .. Len(at) : Prefix(Append(at, e), k) = Prefix(at, k)
  BY <1>1, <1>2, <1>4, PrefixOfAppend
<1> QED
  BY <1>1, <1>2, <1>3, <1>5, RouteGrows, WholePrefix DEF e

\* A child that Grow adds is a leaf.
LEMMA ChildLeaf ==
  ASSUME NEW t, NEW n, Sound(t, n), at \in DOMAIN t, NEW seg \in Segment,
         NeedsNode(t, seg), Len(at) <= MaxSegments
  PROVE  Leaf(t, Child(t, seg))
<1> DEFINE c == Child(t, seg)
<1>1. /\ c \in Route /\ Len(c) = Len(at) + 1
      /\ c[Len(at) + 1] = IF ToWild(t, seg) THEN Wild ELSE seg
      /\ \A k \in 1 .. Len(at) : Prefix(c, k) = Prefix(at, k)
      /\ Prefix(at, Len(at)) = at
  BY ChildShape
<1>2. Len(at) \in Nat \ {0} /\ SoundAt(t, at)
  BY NodeShape
<1>3. c \notin DOMAIN t /\ (ToWild(t, seg) \/ ~ChildrenFull(t, at))
  BY DEF NeedsNode
<1> HIDE DEF c
<1>4. Len(c) <= MaxSegments + 1 /\ Len(c) - 1 = Len(at) /\ Len(at) \in 1 .. Len(at)
  BY <1>1, <1>2, LimitAssumption
<1>5. \A k \in 1 .. Len(c) - 1 : Prefix(c, k) \in DOMAIN t
  BY <1>1, <1>2, <1>4 DEF SoundAt
<1>6. ASSUME ~ToWild(t, seg)
      PROVE  ~t[at].variable /\ Cardinality(Named(t, at)) < MaxChildrenPerNode
  <2>1. ~t[at].variable
    BY <1>6 DEF ToWild, IsVariable
  <2>2. Cardinality(Named(t, at)) \in Nat
    BY <1>2, FS_CardinalityType DEF SoundAt
  <2> QED
    BY <1>3, <1>6, <2>1, <2>2, LimitAssumption DEF ChildrenFull
<1>7. \/ c[Len(c)] = Wild
      \/ /\ ~t[Prefix(c, Len(c) - 1)].variable
         /\ Cardinality(Named(t, Prefix(c, Len(c) - 1))) < MaxChildrenPerNode
  BY <1>1, <1>4, <1>6
<1> QED
  BY <1>1, <1>3, <1>4, <1>5, <1>7 DEF Leaf, c
-----------------------------------------------------------------------------
\* Steps.

\* A request is a method and a path.
LEMMA RequestShape ==
  ASSUME NEW q \in Requests
  PROVE  q[1] \in Method /\ q[2] \in Seq(Segment) /\ <<q[1], q[2]>> = q
BY RequestAssumption

\* What is walked of a path is its beginning.
LEMMA SplitShape ==
  ASSUME NEW p \in Seq(Segment)
  PROVE  /\ Split(p) \in Seq(Segment) /\ Len(Split(p)) \in Nat
         /\ Len(Split(p)) <= MaxSegments /\ Len(Split(p)) <= Len(p)
         /\ \A i \in 1 .. Len(Split(p)) : Split(p)[i] = p[i]
<1> DEFINE k == IF Truncated(p) THEN MaxSegments ELSE Len(p)
<1>1. k \in 0 .. Len(p) /\ k <= MaxSegments
  BY LenProperties, LimitAssumption DEF Truncated
<1>2. Split(p) = Prefix(p, k)
  BY DEF Split, Prefix
<1> HIDE DEF k
<1>3. /\ Prefix(p, k) \in Seq(Segment) /\ Len(Prefix(p, k)) = k
      /\ \A i \in 1 .. k : Prefix(p, k)[i] = p[i]
  BY <1>1, PrefixShape
<1> QED
  BY <1>1, <1>2, <1>3, LenProperties

\* The invariant, taken apart.
LEMMA InvParts ==
  ASSUME Inv
  PROVE  /\ TypeOK /\ Sound(trie, nodes) /\ CallOK /\ ResolveOK /\ AnswersOK
         /\ nodes \in Nat
BY DEF Inv, TypeOK

\* The name the loop is at.
LEMMA NextName ==
  ASSUME Inv, phase # "idle", todo # << >>
  PROVE  /\ at \in DOMAIN trie /\ <<at[1], path>> \in Requests
         /\ Head(todo) \in Segment /\ Head(todo) = path[Len(at)]
         /\ Len(at) \in Nat \ {0} /\ Len(at) <= MaxSegments
         /\ Tail(todo) \in Seq(Segment)
         /\ Len(at) + 1 + Len(Tail(todo)) = 1 + Len(Split(path))
         /\ \A i \in 1 .. Len(Tail(todo)) : Tail(todo)[i] = path[Len(at) + i]
<1>1. /\ at \in DOMAIN trie /\ <<at[1], path>> \in Requests
      /\ Len(at) + Len(todo) = 1 + Len(Split(path))
      /\ \A i \in 1 .. Len(todo) : todo[i] = path[Len(at) - 1 + i]
      /\ todo \in Seq(Segment) /\ path \in Seq(Segment) /\ Sound(trie, nodes)
  BY DEF Inv, CallOK, TypeOK
<1>2. Len(at) \in Nat \ {0}
  BY <1>1, NodeShape
<1>3. Len(todo) \in Nat \ {0}
  BY <1>1, EmptySeq
<1>4. Len(Split(path)) \in Nat /\ Len(Split(path)) <= MaxSegments
  BY <1>1, SplitShape
<1>5. /\ Head(todo) \in Segment /\ Tail(todo) \in Seq(Segment)
      /\ Len(Tail(todo)) = Len(todo) - 1
      /\ \A i \in 1 .. Len(Tail(todo)) : Tail(todo)[i] = todo[i + 1]
  BY <1>1, HeadTailProperties
<1>6. Head(todo) = path[Len(at)]
  <2>1. Head(todo) = todo[1]
    BY <1>1
  <2>2. 1 \in 1 .. Len(todo) /\ Len(at) - 1 + 1 = Len(at)
    BY <1>2, <1>3
  <2>3. todo[1] = path[Len(at) - 1 + 1]
    BY <1>1, <2>2
  <2> QED
    BY <2>1, <2>2, <2>3
<1>7. ASSUME NEW i \in 1 .. Len(Tail(todo))  PROVE Tail(todo)[i] = path[Len(at) + i]
  <2>1. i + 1 \in 1 .. Len(todo) /\ Len(at) - 1 + (i + 1) = Len(at) + i
    BY <1>2, <1>3, <1>5
  <2>2. todo[i + 1] = path[Len(at) - 1 + (i + 1)]
    BY <1>1, <2>1
  <2> QED
    BY <1>5, <2>1, <2>2
<1>8. Len(at) <= MaxSegments /\ Len(at) + 1 + Len(Tail(todo)) = 1 + Len(Split(path))
  <2> DEFINE a == Len(at)
             b == Len(todo)
             c == Len(Split(path))
             d == Len(Tail(todo))
  <2>1. /\ a \in Nat \ {0} /\ b \in Nat \ {0} /\ c \in Nat /\ MaxSegments \in Nat
        /\ a + b = 1 + c /\ c <= MaxSegments /\ d = b - 1
    BY <1>1, <1>2, <1>3, <1>4, <1>5, LimitAssumption
  <2> HIDE DEF a, b, c, d
  <2>2. a <= MaxSegments /\ a + 1 + d = 1 + c
    BY <2>1
  <2> QED
    BY <2>2 DEF a, c, d
<1> QED
  BY <1>1, <1>2, <1>5, <1>6, <1>7, <1>8

\* The answers stand on a trie that keeps its places.
LEMMA AnswersKept ==
  ASSUME Inv, Keeps(trie, trie'), UNCHANGED answers
  PROVE  AnswersOK'
<1>1. SUFFICES ASSUME NEW q \in DOMAIN answers
               PROVE  /\ Holds(trie', q, Answered(q))
                      /\ answers[q] = IF Truncated(q[2]) THEN Append(Answered(q), Overflow)
                                      ELSE Answered(q)
  BY DEF AnswersOK, Answered, Holds, Placed, Cut
<1> QED
  BY HoldsKept DEF Inv, AnswersOK

\* A sound trie keeps its types.
LEMMA TrieTypes ==
  ASSUME Sound(trie', nodes')
  PROVE  /\ DOMAIN trie' \subseteq Route /\ trie' \in [DOMAIN trie' -> Counters]
         /\ nodes' \in Nat
BY FS_CardinalityType DEF Sound

\* A call ends, and no answer is written down.
LEMMA LeaveOK ==
  ASSUME Inv, Sound(trie', nodes'), Keeps(trie, trie'), Leave
  PROVE  Inv'
<1>1. TypeOK'
  BY TrieTypes, EmptySeq DEF Inv, TypeOK, Leave, Return
<1>2. CallOK' /\ ResolveOK'
  BY DEF Leave, Return, CallOK, ResolveOK
<1>3. AnswersOK'
  BY AnswersKept DEF Leave
<1> QED
  BY <1>1, <1>2, <1>3 DEF Inv, Sound, SoundAt, Named

\* A call goes on to the next node.
LEMMA AdvanceOK ==
  ASSUME Inv, phase # "idle", todo # << >>, NEW t, NEW n, Judged(trie, t, n, at),
         Sound(trie', nodes'), Keeps(trie, trie'),
         Advance(Child(t, Head(todo))), Child(t, Head(todo)) \in DOMAIN trie'
  PROVE  TypeOK' /\ Sound(trie, nodes)' /\ CallOK' /\ AnswersOK'
<1>1. /\ at \in DOMAIN trie /\ <<at[1], path>> \in Requests
      /\ Head(todo) \in Segment /\ Len(at) \in Nat \ {0}
      /\ Tail(todo) \in Seq(Segment)
      /\ Len(at) + 1 + Len(Tail(todo)) = 1 + Len(Split(path))
      /\ \A i \in 1 .. Len(Tail(todo)) : Tail(todo)[i] = path[Len(at) + i]
  BY NextName
<1>2. /\ at' = Child(t, Head(todo)) /\ todo' = Tail(todo)
      /\ UNCHANGED <<phase, path, answers, observed>>
  BY DEF Advance
<1>3. TypeOK'
  BY <1>1, <1>2, TrieTypes DEF Inv, TypeOK
<1>4. Len(at') = Len(at) + 1 /\ at'[1] = at[1]
  <2>1. 1 \in 1 .. Len(at)
    BY <1>1
  <2> QED
    BY <1>1, <1>2, <2>1, ChildShape DEF Judged
<1>5. CallOK'
  <2>1. at' \in DOMAIN trie' /\ <<at'[1], path'>> \in Requests
    BY <1>1, <1>2, <1>4
  <2>2. Len(at') + Len(todo') = 1 + Len(Split(path'))
    BY <1>1, <1>2, <1>4
  <2>3. ASSUME NEW i \in 1 .. Len(todo')  PROVE todo'[i] = path'[Len(at') - 1 + i]
    <3>1. i \in 1 .. Len(Tail(todo)) /\ Len(at') - 1 + i = Len(at) + i
      <4>1. i \in 1 .. Len(Tail(todo)) /\ i \in Int
        BY <1>2
      <4>2. Len(at') - 1 + i = Len(at) + i
        BY <1>1, <1>4, <4>1
      <4> QED
        BY <4>1, <4>2
    <3> QED
      BY <1>1, <1>2, <3>1
  <2>4. Split(path') = Split(path)' /\ Split(path)' = Split(path)
    BY <1>2 DEF Split, Truncated
  <2> QED
    BY <2>1, <2>2, <2>3, <2>4 DEF CallOK
<1>6. AnswersOK'
  BY <1>2, AnswersKept
<1>7. Sound(trie, nodes)'
  BY DEF Sound, SoundAt, Named
<1> QED
  BY <1>3, <1>5, <1>6, <1>7

\* What Observe's loop does with a name, short of the child.
LEMMA ObserveSees ==
  ASSUME Inv, phase # "idle", todo # << >>
  PROVE  /\ Judged(trie, Seen(Head(todo)), NodesSeen(Head(todo)), at)
         /\ Sound(Seen(Head(todo)), NodesSeen(Head(todo)))
         /\ Keeps(trie, Seen(Head(todo))) /\ at \in DOMAIN Seen(Head(todo))
         /\ NodesSeen(Head(todo)) \in Nat
<1>1. Sound(trie, nodes) /\ at \in DOMAIN trie
  BY NextName, InvParts
<1>2. Judged(trie, Seen(Head(todo)), NodesSeen(Head(todo)), at)
  BY <1>1, SeenSound
<1> QED
  BY <1>2, NodeShape DEF Judged

\* A call begins at the root of its method.
LEMMA BeginOK ==
  ASSUME Inv, NEW q \in Requests, Sound(trie', nodes'), Keeps(trie, trie'),
         <<q[1]>> \in DOMAIN trie', phase' \in {"observe", "resolve"},
         path' = q[2], at' = <<q[1]>>, todo' = Split(q[2]), UNCHANGED answers,
         observed' \in 0 .. MaxObservations
  PROVE  Inv'
<1>1. q[1] \in Method /\ q[2] \in Seq(Segment) /\ <<q[1], q[2]>> = q
  BY RequestShape
<1>2. /\ Split(q[2]) \in Seq(Segment) /\ Len(Split(q[2])) \in Nat
      /\ \A i \in 1 .. Len(Split(q[2])) : Split(q[2])[i] = q[2][i]
  BY <1>1, SplitShape
<1>3. Len(at') = 1 /\ at'[1] = q[1]
  OBVIOUS
<1>4. TypeOK'
  BY <1>1, <1>2, TrieTypes DEF Inv, TypeOK
<1>5. CallOK'
  <2>1. Split(path') = Split(path)' /\ Split(path') = Split(q[2])
    BY DEF Split, Truncated
  <2>2. Len(at') + Len(todo') = 1 + Len(Split(path'))
    BY <1>2, <1>3, <2>1
  <2>3. ASSUME NEW i \in 1 .. Len(todo')  PROVE todo'[i] = path'[Len(at') - 1 + i]
    <3>1. i \in 1 .. Len(Split(q[2])) /\ Len(at') - 1 + i = i
      BY <1>3
    <3> QED
      BY <1>2, <3>1
  <2> QED
    BY <1>1, <1>3, <2>1, <2>2, <2>3 DEF CallOK
<1>6. ResolveOK'
  BY <1>3 DEF ResolveOK
<1>7. AnswersOK'
  BY AnswersKept
<1> QED
  BY <1>4, <1>5, <1>6, <1>7 DEF Inv, Sound, SoundAt, Named

\* A trie that stays as it is loses nothing.
LEMMA KeepsSame == \A t : Keeps(t, t)
BY DEF Keeps

\* Observe begins at the root of its method, which it may have to add.
LEMMA BeginObserveOK ==
  ASSUME Inv, NEW q \in Requests, BeginObserve(q[1], q[2])
  PROVE  Inv' /\ Keeps(trie, trie') /\ UNCHANGED answers
<1>1. Sound(trie, nodes) /\ q[1] \in Method /\ observed' \in 0 .. MaxObservations
  BY RequestShape, BoundAssumption DEF Inv, TypeOK, BeginObserve
<1>2. Sound(trie', nodes') /\ Keeps(trie, trie') /\ <<q[1]>> \in DOMAIN trie'
  <2>1. CASE <<q[1]>> \in DOMAIN trie /\ UNCHANGED <<trie, nodes>>
    BY <1>1, <2>1, KeepsSame
  <2>2. CASE /\ <<q[1]>> \notin DOMAIN trie /\ Room(nodes)
             /\ trie' = With(trie, <<q[1]>>) /\ nodes' = nodes + 1
    <3> DEFINE c == <<q[1]>>
    <3>1. c \in Seq(Name) /\ Len(c) = 1 /\ c[1] \in Method /\ c # << >>
      BY <1>1 DEF Name
    <3>2. c \in Route
      BY <3>1 DEF Route, Name
    <3>3. Leaf(trie, c)
      BY <2>2, <3>1, <3>2, LimitAssumption DEF Leaf
    <3>4. nodes < MaxNodes
      BY <2>2 DEF Room
    <3>5. DOMAIN With(trie, c) = DOMAIN trie \cup {c}
      BY <1>1, <3>3, WithShape
    <3> QED
      BY <1>1, <2>2, <3>3, <3>4, <3>5, WithSound
  <2> QED
    BY <2>1, <2>2 DEF BeginObserve
<1>3. /\ phase' \in {"observe", "resolve"} /\ path' = q[2] /\ at' = <<q[1]>>
      /\ todo' = Split(q[2]) /\ UNCHANGED answers
  BY DEF BeginObserve
<1> QED
  BY <1>1, <1>2, <1>3, BeginOK

\* Resolve begins at the root of its method.
LEMMA BeginResolveOK ==
  ASSUME Inv, NEW q \in Requests, BeginResolve(q[1], q[2])
  PROVE  Inv' /\ Keeps(trie, trie') /\ UNCHANGED answers
<1>1. /\ phase' \in {"observe", "resolve"} /\ path' = q[2] /\ at' = <<q[1]>>
      /\ todo' = Split(q[2]) /\ UNCHANGED <<trie, nodes, answers, observed>>
      /\ <<q[1]>> \in DOMAIN trie
  BY DEF BeginResolve
<1>2. Sound(trie', nodes') /\ observed' \in 0 .. MaxObservations
  BY <1>1 DEF Inv, TypeOK
<1>3. Keeps(trie, trie') /\ <<q[1]>> \in DOMAIN trie'
  BY <1>1, KeepsSame
<1> QED
  BY <1>1, <1>2, <1>3, BeginOK

\* Observe follows a child that is there.
LEMMA FollowOK ==
  ASSUME Inv, Follow
  PROVE  Inv' /\ Keeps(trie, trie') /\ UNCHANGED answers
<1> DEFINE t == Seen(Head(todo))
           n == NodesSeen(Head(todo))
<1>1. /\ phase = "observe" /\ todo # << >> /\ Child(t, Head(todo)) \in DOMAIN t
      /\ trie' = t /\ nodes' = n /\ Advance(Child(t, Head(todo)))
  BY DEF Follow
<1>2. Judged(trie, t, n, at) /\ Sound(t, n) /\ Keeps(trie, t)
  BY <1>1, ObserveSees
<1> HIDE DEF t, n
<1>3. TypeOK' /\ Sound(trie, nodes)' /\ CallOK' /\ AnswersOK'
  BY <1>1, <1>2, AdvanceOK
<1>4. phase' = "observe" /\ UNCHANGED answers
  BY <1>1 DEF Advance
<1> QED
  BY <1>1, <1>2, <1>3, <1>4 DEF Inv, ResolveOK

\* Observe finds no room among the children.
LEMMA MissChildOK ==
  ASSUME Inv, MissChild
  PROVE  Inv' /\ Keeps(trie, trie') /\ UNCHANGED answers
<1> DEFINE t == Seen(Head(todo))
           n == NodesSeen(Head(todo))
<1>1. /\ phase = "observe" /\ todo # << >>
      /\ trie' = [t EXCEPT ![at].capMisses = @ + 1] /\ nodes' = n /\ Leave
  BY DEF MissChild
<1>2. Sound(t, n) /\ Keeps(trie, t) /\ at \in DOMAIN t
  BY <1>1, ObserveSees
<1> HIDE DEF t, n
<1>3. Sound(trie', nodes') /\ Keeps(trie, trie')
  BY <1>1, <1>2, MissedSound, KeepsOn
<1> QED
  BY <1>1, <1>3, LeaveOK DEF Leave

\* Observe adds a child.
LEMMA GrowOK ==
  ASSUME Inv, Grow
  PROVE  Inv' /\ Keeps(trie, trie') /\ UNCHANGED answers
<1> DEFINE t == Seen(Head(todo))
           n == NodesSeen(Head(todo))
           c == Child(t, Head(todo))
<1>1. /\ phase = "observe" /\ todo # << >> /\ NeedsNode(t, Head(todo)) /\ Room(n)
      /\ trie' = With(t, c) /\ nodes' = n + 1 /\ Advance(c)
  BY DEF Grow
<1>2. Judged(trie, t, n, at) /\ Sound(t, n) /\ Keeps(trie, t) /\ at \in DOMAIN t
  BY <1>1, ObserveSees
<1>3. Head(todo) \in Segment /\ Len(at) <= MaxSegments
  BY <1>1, NextName
<1>4. Leaf(t, c)
  BY <1>1, <1>2, <1>3, ChildLeaf
<1>5. n < MaxNodes
  BY <1>1 DEF Room
<1> HIDE DEF t, n
<1>6. Sound(trie', nodes') /\ Keeps(trie, trie') /\ c \in DOMAIN trie'
  <2> HIDE DEF c
  <2>1. Sound(With(t, c), n + 1) /\ Keeps(t, With(t, c))
    BY <1>2, <1>4, <1>5, WithSound
  <2>2. Keeps(trie, With(t, c))
    BY <1>2, <2>1, KeepsOn
  <2>3. DOMAIN With(t, c) = DOMAIN t \cup {c}
    BY DEF With
  <2> QED
    BY <1>1, <2>1, <2>2, <2>3
<1>7. TypeOK' /\ Sound(trie, nodes)' /\ CallOK' /\ AnswersOK'
  BY <1>1, <1>2, <1>6, AdvanceOK
<1>8. phase' = "observe" /\ UNCHANGED answers
  BY <1>1 DEF Advance
<1> QED
  BY <1>6, <1>7, <1>8 DEF Inv, ResolveOK

\* Observe finds no room in the trie.
LEMMA MissNodeOK ==
  ASSUME Inv, MissNode
  PROVE  Inv' /\ Keeps(trie, trie') /\ UNCHANGED answers
<1> DEFINE t == Seen(Head(todo))
           n == NodesSeen(Head(todo))
<1>1. phase = "observe" /\ todo # << >> /\ trie' = t /\ nodes' = n /\ Leave
  BY DEF MissNode
<1>2. Sound(t, n) /\ Keeps(trie, t)
  BY <1>1, ObserveSees
<1> HIDE DEF t, n
<1> QED
  BY <1>1, <1>2, LeaveOK DEF Leave

\* Observe ends.
LEMMA EndObserveOK ==
  ASSUME Inv, EndObserve
  PROVE  Inv' /\ Keeps(trie, trie') /\ UNCHANGED answers
<1>1. UNCHANGED <<trie, nodes>> /\ Leave
  BY DEF EndObserve
<1>2. Sound(trie', nodes') /\ Keeps(trie, trie')
  BY <1>1, KeepsSame DEF Inv
<1> QED
  BY <1>1, <1>2, LeaveOK DEF Leave

\* Resolve takes the way its verdicts say, and a verdict given stays.
LEMMA ResolveStepOK ==
  ASSUME Inv, ResolveStep
  PROVE  Inv' /\ Keeps(trie, trie') /\ UNCHANGED answers
<1> DEFINE seg == Head(todo)
           t == Classified(trie, at)
           n == NodesAfter(trie, at)
           c == Child(t, seg)
<1>1. /\ phase = "resolve" /\ todo # << >> /\ c \in DOMAIN t
      /\ trie' = t /\ nodes' = n /\ Advance(c)
  BY DEF ResolveStep
<1>2. /\ at \in DOMAIN trie /\ seg \in Segment /\ seg = path[Len(at)]
      /\ Len(at) \in Nat \ {0} /\ Sound(trie, nodes)
  BY <1>1, NextName, InvParts
<1>3. Judged(trie, t, n, at)
  BY <1>2, ClassifiedSound
<1>4. /\ Sound(t, n) /\ Keeps(trie, t) /\ at \in DOMAIN t
      /\ \A x \in DOMAIN t : x # at => t[x].variable = trie[x].variable
  BY <1>3 DEF Judged
<1>5. /\ c \in Route /\ Len(c) = Len(at) + 1
      /\ \A i \in 1 .. Len(at) : c[i] = at[i]
      /\ c[Len(at) + 1] = IF ToWild(t, seg) THEN Wild ELSE seg
      /\ \A k \in 1 .. Len(at) : Prefix(c, k) = Prefix(at, k)
      /\ Prefix(at, Len(at)) = at
  BY <1>2, <1>4, ChildShape
<1>6. ToWild(t, seg) <=> seg \in IDShaped \/ t[at].variable
  BY DEF ToWild, IsVariable
<1> HIDE DEF seg, t, n, c
<1>7. TypeOK' /\ Sound(trie, nodes)' /\ CallOK' /\ AnswersOK'
  BY <1>1, <1>3, <1>4, AdvanceOK DEF seg, c
<1>8. phase' = "resolve" /\ path' = path /\ at' = c /\ UNCHANGED answers
  BY <1>1 DEF Advance
<1>9. ASSUME NEW k \in 1 .. Len(c) - 1
      PROVE  c[k + 1] = IF path[k] \in IDShaped \/ t[Prefix(c, k)].variable
                        THEN Wild ELSE path[k]
  <2>1. CASE k = Len(at)
    <3>1. Prefix(c, k) = at
      BY <1>2, <1>5, <2>1
    <3> QED
      BY <1>2, <1>5, <1>6, <2>1, <3>1
  <2>2. CASE k # Len(at)
    <3>1. k \in 1 .. Len(at) - 1 /\ k \in 1 .. Len(at) /\ k + 1 \in 1 .. Len(at)
      BY <1>2, <1>5, <2>2
    <3>2. at[k + 1] = IF path[k] \in IDShaped \/ trie[Prefix(at, k)].variable
                      THEN Wild ELSE path[k]
      BY <1>1, <3>1 DEF Inv, ResolveOK
    <3>3. Prefix(at, k) \in DOMAIN t
      BY <1>4, <3>1 DEF Sound, SoundAt
    <3>4. Prefix(at, k) # at
      <4>1. at \in Route
        BY <1>2, NodeShape
      <4>2. Len(Prefix(at, k)) = k
        BY <3>1, <4>1, PrefixRoute
      <4> QED
        BY <2>2, <4>2
    <3>5. t[Prefix(at, k)].variable = trie[Prefix(at, k)].variable
      BY <1>4, <3>3, <3>4
    <3> QED
      BY <1>5, <3>1, <3>2, <3>5
  <2> QED
    BY <2>1, <2>2
<1>10. ResolveOK'
  <2>1. \A k \in 1 .. Len(c) - 1 : Prefix(at, k)' = Prefix(c, k)
    BY <1>8 DEF Prefix
  <2> QED
    BY <1>1, <1>8, <1>9, <2>1 DEF ResolveOK, Prefix
<1> QED
  BY <1>1, <1>4, <1>7, <1>8, <1>10 DEF Inv

\* Resolve stops where the trie does, or has not decided yet.
LEMMA UnresolvedOK ==
  ASSUME Inv, Unresolved
  PROVE  Inv' /\ Keeps(trie, trie') /\ UNCHANGED answers
<1> DEFINE t == Classified(trie, at)
           n == NodesAfter(trie, at)
<1>1. phase = "resolve" /\ todo # << >> /\ trie' = t /\ nodes' = n /\ Leave
  BY DEF Unresolved
<1>2. Sound(trie, nodes) /\ at \in DOMAIN trie
  BY <1>1, NextName, InvParts
<1>3. Sound(t, n) /\ Keeps(trie, t)
  BY <1>2, ClassifiedSound DEF Judged
<1> HIDE DEF t, n
<1> QED
  BY <1>1, <1>3, LeaveOK DEF Leave

\* The route Resolve has come to is what its answer rests on.
LEMMA RouteHolds ==
  ASSUME Inv, phase = "resolve", todo = << >>, NEW q, q = <<at[1], path>>
  PROVE  Holds(trie, q, at)
<1>1. /\ at \in DOMAIN trie /\ Len(at) + Len(todo) = 1 + Len(Split(path))
      /\ path \in Seq(Segment) /\ Sound(trie, nodes)
      /\ \A k \in 1 .. Len(at) - 1 :
            at[k + 1] = IF path[k] \in IDShaped \/ trie[Prefix(at, k)].variable
                        THEN Wild ELSE path[k]
  BY DEF Inv, CallOK, ResolveOK, TypeOK
<1>2. at \in Route /\ SoundAt(trie, at) /\ Len(at) \in Nat \ {0}
  BY <1>1, NodeShape
<1>3. q[1] = at[1] /\ q[2] = path /\ Len(todo) = 0 /\ Len(Split(path)) \in Nat
  BY <1>1, SplitShape
<1>4. Len(at) = 1 + Len(Split(q[2]))
  BY <1>1, <1>2, <1>3
<1>5. \A k \in 1 .. Len(at) : Placed(trie, at, k)
  BY <1>2 DEF SoundAt, Placed
<1>6. ASSUME NEW k \in 1 .. Len(at) - 1
      PROVE  \/ at[k + 1] = q[2][k] /\ q[2][k] \notin IDShaped
             \/ /\ at[k + 1] = Wild
                /\ q[2][k] \notin IDShaped /\ Prefix(at, k) \in DOMAIN trie
                      => trie[Prefix(at, k)].variable
  BY <1>1, <1>3
<1> QED
  BY <1>2, <1>3, <1>4, <1>5, <1>6 DEF Holds

\* Two routes a path was resolved to first differ where the earlier has the
\* name and the later Wild.
LEMMA FirstDifference ==
  ASSUME Inv, phase = "resolve", todo = << >>, NEW q, q = <<at[1], path>>,
         NEW o, Holds(trie, q, o), NEW i \in 1 .. Len(o), o[i] # at[i],
         \A j \in 1 .. i - 1 : o[j] = at[j]
  PROVE  o[i] # Wild /\ at[i] = Wild
<1>1. /\ Holds(trie, q, at) /\ q[1] = at[1] /\ q[2] = path
      /\ path \in Seq(Segment) /\ at \in DOMAIN trie /\ Sound(trie, nodes)
  BY RouteHolds DEF Inv, CallOK, TypeOK
<1>2. /\ o \in Route /\ at \in Route /\ o[1] = at[1] /\ Len(o) = Len(at)
      /\ o \in Seq(Name) /\ at \in Seq(Name) /\ Len(o) \in Nat \ {0}
      /\ Len(o) = 1 + Len(Split(path)) /\ Len(Split(path)) \in Nat
      /\ Len(path) \in Nat /\ Len(Split(path)) <= Len(path)
  BY <1>1, RouteShape, SplitShape, LenProperties DEF Holds
<1>3. i \in 2 .. Len(o)
  BY <1>2
<1>4. PICK k \in 1 .. Len(o) - 1 : i = k + 1
  <2>1. i - 1 \in 1 .. Len(o) - 1 /\ i = (i - 1) + 1
    BY <1>2, <1>3
  <2> QED
    BY <2>1
<1>5. k \in 1 .. Len(o) /\ k \in 1 .. Len(at) /\ k \in 1 .. Len(path) /\ k \in 1 .. Len(at) - 1
  BY <1>2
<1>6. Prefix(o, k) = Prefix(at, k)
  <2>1. /\ Prefix(o, k) \in Route /\ Len(Prefix(o, k)) = k
        /\ \A j \in 1 .. k : Prefix(o, k)[j] = o[j]
    BY <1>2, <1>5, PrefixRoute
  <2>2. /\ Prefix(at, k) \in Route /\ Len(Prefix(at, k)) = k
        /\ \A j \in 1 .. k : Prefix(at, k)[j] = at[j]
    BY <1>2, <1>5, PrefixRoute
  <2>3. \A j \in 1 .. k : o[j] = at[j]
    BY <1>4, <1>5
  <2>4. \A j \in 1 .. k : Prefix(o, k)[j] = Prefix(at, k)[j]
    BY <2>1, <2>2, <2>3
  <2>5. Prefix(o, k) \in Seq(Name) /\ Prefix(at, k) \in Seq(Name)
    BY <2>1, <2>2, RouteShape
  <2> QED
    BY <2>1, <2>2, <2>4, <2>5, SameNames
<1>7. Prefix(o, k) \in DOMAIN trie
  BY <1>1, <1>5, <1>6 DEF Sound, SoundAt
<1>8. at[k + 1] = IF path[k] \in IDShaped \/ trie[Prefix(at, k)].variable
                  THEN Wild ELSE path[k]
  BY <1>5 DEF Inv, ResolveOK
<1>9. \/ o[k + 1] = path[k] /\ path[k] \notin IDShaped
      \/ /\ o[k + 1] = Wild
         /\ path[k] \notin IDShaped => trie[Prefix(o, k)].variable
  BY <1>1, <1>7 DEF Holds
<1>10. path[k] \in Segment /\ path[k] # Wild
  BY <1>1, <1>5, ElementOfSeq, SegmentAssumption
<1> QED
  BY <1>4, <1>6, <1>8, <1>9, <1>10

\* What Resolved writes down.
LEMMA ResolvedShape ==
  ASSUME Inv, Resolved
  PROVE  /\ phase = "resolve" /\ todo = << >> /\ <<at[1], path>> \in Requests
         /\ DOMAIN answers' = DOMAIN answers \cup {<<at[1], path>>}
         /\ answers'[<<at[1], path>>] = IF Truncated(path) THEN Append(at, Overflow) ELSE at
         /\ \A x \in DOMAIN answers : x # <<at[1], path>> => answers'[x] = answers[x]
         /\ UNCHANGED <<trie, nodes>> /\ Return
<1>1. phase = "resolve" /\ todo = << >> /\ UNCHANGED <<trie, nodes>> /\ Return
  BY DEF Resolved
<1>2. at \in DOMAIN trie /\ <<at[1], path>> \in Requests /\ Sound(trie, nodes)
  BY <1>1 DEF Inv, CallOK
<1>3. at \in Seq(Name) /\ Len(at) \in Nat \ {0}
  BY <1>2, NodeShape
<1>4. Head(at) = at[1]
  BY <1>3
<1> QED
  BY <1>1, <1>2, <1>4 DEF Resolved

\* The route behind a template that ends in Overflow.
LEMMA BehindOverflow ==
  ASSUME NEW r \in Route
  PROVE  /\ Len(Append(r, Overflow)) = Len(r) + 1 /\ DOMAIN Append(r, Overflow) = 1 .. Len(r) + 1
         /\ Prefix(Append(r, Overflow), Len(Append(r, Overflow)) - 1) = r
         /\ \A i \in 1 .. Len(r) : Append(r, Overflow)[i] = r[i]
         /\ Append(r, Overflow)[Len(r) + 1] = Overflow
<1> DEFINE S == Name \cup {Overflow}
<1>1. r \in Seq(S) /\ Overflow \in S /\ Len(r) \in Nat
  <2>1. r \in Seq(Name) /\ Len(r) \in Nat /\ Name \subseteq S
    BY RouteShape
  <2> QED
    BY <2>1, SeqMonotonic
<1> HIDE DEF S
<1>2. /\ Append(r, Overflow) \in Seq(S) /\ Len(Append(r, Overflow)) = Len(r) + 1
      /\ \A i \in 1 .. Len(r) : Append(r, Overflow)[i] = r[i]
      /\ Append(r, Overflow)[Len(r) + 1] = Overflow
  BY <1>1, AppendProperties
<1>3. DOMAIN Append(r, Overflow) = 1 .. Len(r) + 1
  BY <1>2, LenProperties
<1>4. Len(r) \in 0 .. Len(r) /\ Len(Append(r, Overflow)) - 1 = Len(r)
  BY <1>1, <1>2
<1> QED
  BY <1>1, <1>2, <1>3, <1>4, PrefixOfAppend, WholePrefix

\* Resolve writes its answer down.
LEMMA ResolvedOK ==
  ASSUME Inv, Resolved
  PROVE  Inv' /\ Keeps(trie, trie')
<1> DEFINE q == <<at[1], path>>
<1>1. /\ phase = "resolve" /\ todo = << >> /\ q \in Requests
      /\ DOMAIN answers' = DOMAIN answers \cup {q}
      /\ answers'[q] = IF Truncated(path) THEN Append(at, Overflow) ELSE at
      /\ \A x \in DOMAIN answers : x # q => answers'[x] = answers[x]
      /\ UNCHANGED <<trie, nodes>> /\ Return
  BY ResolvedShape
<1>2. Sound(trie', nodes') /\ Keeps(trie, trie')
  BY <1>1, KeepsSame DEF Inv
<1>3. TypeOK'
  BY <1>1, <1>2, TrieTypes, EmptySeq DEF Inv, TypeOK, Return
<1>4. CallOK' /\ ResolveOK'
  BY <1>1 DEF Return, CallOK, ResolveOK
<1>5. Holds(trie, q, at) /\ q[2] = path
  BY <1>1, RouteHolds
<1> HIDE DEF q
<1>6. ASSUME NEW x \in DOMAIN answers'
      PROVE  /\ Holds(trie', x, Answered(x)')
             /\ answers'[x] = IF Truncated(x[2]) THEN Append(Answered(x)', Overflow)
                              ELSE Answered(x)'
  <2>1. Answered(x)' = IF Truncated(x[2]) THEN Prefix(answers'[x], Len(answers'[x]) - 1)
                       ELSE answers'[x]
    BY DEF Answered, Truncated, Prefix
  <2>2. CASE x = q
    <3>1. at \in Route
      BY <1>5 DEF Holds
    <3>2. Answered(x)' = at
      BY <1>1, <1>5, <2>1, <2>2, <3>1, BehindOverflow
    <3> QED
      BY <1>1, <1>5, <2>2, <3>2
  <2>3. CASE x # q
    <3>1. x \in DOMAIN answers /\ answers'[x] = answers[x]
      BY <1>1, <2>3
    <3>2. Answered(x)' = Answered(x)
      BY <2>1, <3>1 DEF Answered
    <3> QED
      BY <1>1, <3>1, <3>2 DEF Inv, AnswersOK
  <2> QED
    BY <2>2, <2>3
<1>7. AnswersOK'
  BY <1>6 DEF AnswersOK, Holds, Placed, Cut
<1> QED
  BY <1>2, <1>3, <1>4, <1>7 DEF Inv, Sound, SoundAt, Named
-----------------------------------------------------------------------------
\* A non-empty set of naturals has a least element.
LEMMA LeastNatural ==
  ASSUME NEW T \in SUBSET Nat, T # {}
  PROVE  \E i \in T : \A j \in T : i <= j
<1> DEFINE R == OpToRel(<, Nat)
<1>1. IsWellFoundedOn(R, Nat)
  BY NatLessThanWellFounded
<1>2. R = {ss \in Nat \X Nat : ss[1] < ss[2]}
  BY DEF OpToRel
<1> HIDE DEF R
<1>3. PICK i \in T : \A j \in T : ~ (<<j, i>> \in R)
  BY <1>1, WFMin
<1>4. ASSUME NEW j \in T  PROVE i <= j
  <2>1. ~(j < i)
    BY <1>2, <1>3
  <2> QED
    BY <2>1
<1> QED
  BY <1>3, <1>4

\* In a step that writes an answer down, an answer there before changes as
\* OnlyGeneralises says.
LEMMA ResolvedGeneralises ==
  ASSUME Inv, Resolved, NEW x \in DOMAIN answers,
         NEW i \in DOMAIN answers[x], answers[x][i] # answers'[x][i],
         \A j \in DOMAIN answers[x] : answers[x][j] # answers'[x][j] => i <= j
  PROVE  answers[x][i] # Wild /\ answers'[x][i] = Wild
<1> DEFINE q == <<at[1], path>>
           o == Answered(x)
<1>1. /\ phase = "resolve" /\ todo = << >> /\ q \in Requests
      /\ answers'[q] = IF Truncated(path) THEN Append(at, Overflow) ELSE at
      /\ \A y \in DOMAIN answers : y # q => answers'[y] = answers[y]
  BY ResolvedShape
<1>2. x = q /\ x[2] = path
  BY <1>1
<1>3. /\ Holds(trie, q, o)
      /\ answers[x] = IF Truncated(path) THEN Append(o, Overflow) ELSE o
  BY <1>2 DEF Inv, AnswersOK
<1>4. Holds(trie, q, at)
  BY <1>1, RouteHolds
<1> HIDE DEF o, q
<1>5. /\ o \in Route /\ at \in Route /\ Len(o) = Len(at)
      /\ o \in Seq(Name) /\ Len(o) \in Nat \ {0} /\ DOMAIN o = 1 .. Len(o)
  BY <1>3, <1>4, RouteShape, LenProperties DEF Holds
<1>6. /\ i \in 1 .. Len(o)
      /\ \A j \in 1 .. Len(o) : /\ j \in DOMAIN answers[x]
                                /\ answers[x][j] = o[j] /\ answers'[x][j] = at[j]
  <2>1. CASE Truncated(path)
    <3>1. /\ DOMAIN answers[x] = 1 .. Len(o) + 1
          /\ \A j \in 1 .. Len(o) : answers[x][j] = o[j]
          /\ answers[x][Len(o) + 1] = Overflow
      BY <1>3, <1>5, <2>1, BehindOverflow
    <3>2. /\ \A j \in 1 .. Len(o) : answers'[x][j] = at[j]
          /\ answers'[x][Len(o) + 1] = Overflow
      BY <1>1, <1>2, <1>5, <2>1, BehindOverflow
    <3>3. i \in 1 .. Len(o) + 1 /\ i # Len(o) + 1
      BY <3>1, <3>2
    <3>4. i \in 1 .. Len(o)
      BY <1>5, <3>3
    <3>5. \A j \in 1 .. Len(o) : j \in 1 .. Len(o) + 1
      BY <1>5
    <3> QED
      BY <3>1, <3>2, <3>4, <3>5
  <2>2. CASE ~Truncated(path)
    BY <1>1, <1>2, <1>3, <1>5, <2>2
  <2> QED
    BY <2>1, <2>2
<1>7. ASSUME NEW j \in 1 .. i - 1  PROVE o[j] = at[j]
  <2>1. j \in 1 .. Len(o) /\ ~(i <= j)
    BY <1>5, <1>6
  <2> QED
    BY <1>6, <2>1
<1>8. o[i] # at[i]
  BY <1>6
<1>9. o[i] # Wild /\ at[i] = Wild
  BY <1>1, <1>3, <1>6, <1>7, <1>8, FirstDifference DEF q
<1> QED
  BY <1>6, <1>9

\* The invariant holds at the start.
LEMMA InitInv == Init => Inv
<1>1. SUFFICES ASSUME Init  PROVE Inv
  OBVIOUS
<1>2. DOMAIN trie = {} /\ DOMAIN answers = {} /\ nodes = 0 /\ phase = "idle"
  BY <1>1 DEF Init
<1>3. TypeOK
  BY <1>1, <1>2, BoundAssumption, EmptySeq DEF Init, TypeOK
<1>4. trie \in [DOMAIN trie -> Counters]
  BY <1>3 DEF TypeOK
<1>5. Sound(trie, nodes)
  BY <1>2, <1>4, FS_EmptySet, LimitAssumption DEF Sound
<1> QED
  BY <1>2, <1>3, <1>5 DEF Inv, CallOK, ResolveOK, AnswersOK

\* Observe of a method that has no trie and gets none.
LEMMA ObserveNowhereOK ==
  ASSUME Inv, NEW m, ObserveNowhere(m)
  PROVE  Inv' /\ Keeps(trie, trie') /\ UNCHANGED answers
<1>1. /\ UNCHANGED <<trie, nodes, phase, path, at, todo, answers>>
      /\ observed' \in 0 .. MaxObservations
  BY BoundAssumption DEF ObserveNowhere, Inv, TypeOK
<1>2. Keeps(trie, trie')
  BY <1>1, KeepsSame
<1>3. TypeOK' /\ CallOK' /\ ResolveOK'
  BY <1>1 DEF Inv, TypeOK, CallOK, ResolveOK, Split, Truncated, Prefix
<1>4. AnswersOK'
  BY <1>1, <1>2, AnswersKept
<1> QED
  BY <1>1, <1>2, <1>3, <1>4 DEF Inv, Sound, SoundAt, Named

\* Nothing happens.
LEMMA StutterOK ==
  ASSUME Inv, UNCHANGED vars
  PROVE  Inv' /\ Keeps(trie, trie') /\ UNCHANGED answers
<1>1. Keeps(trie, trie')
  BY KeepsSame DEF vars
<1>2. TypeOK' /\ CallOK' /\ ResolveOK'
  BY DEF vars, Inv, TypeOK, CallOK, ResolveOK, Split, Truncated, Prefix
<1>3. AnswersOK'
  BY <1>1, AnswersKept DEF vars
<1> QED
  BY <1>1, <1>2, <1>3 DEF vars, Inv, Sound, SoundAt, Named

\* Every step keeps the invariant and loses no place but for good; only
\* Resolve changes an answer.
LEMMA NextInv ==
  ASSUME Inv, [Next]_vars
  PROVE  Inv' /\ Keeps(trie, trie') /\ (Resolved \/ UNCHANGED answers)
<1>1. ASSUME NEW q \in Requests,
             BeginObserve(q[1], q[2]) \/ ObserveNowhere(q[1]) \/ BeginResolve(q[1], q[2])
      PROVE  Inv' /\ Keeps(trie, trie') /\ UNCHANGED answers
  BY <1>1, BeginObserveOK, ObserveNowhereOK, BeginResolveOK
<1>2. ASSUME Follow \/ MissChild \/ Grow \/ MissNode \/ EndObserve \/ ResolveStep \/ Unresolved
      PROVE  Inv' /\ Keeps(trie, trie') /\ UNCHANGED answers
  BY <1>2, FollowOK, MissChildOK, GrowOK, MissNodeOK, EndObserveOK, ResolveStepOK, UnresolvedOK
<1>3. CASE Resolved
  BY <1>3, ResolvedOK
<1>4. CASE UNCHANGED vars
  BY <1>4, StutterOK
<1> QED
  BY <1>1, <1>2, <1>3, <1>4 DEF Next

\* The invariant always holds.
LEMMA Invariance == Spec => []Inv
<1>1. Inv /\ [Next]_vars => Inv'
  BY NextInv
<1> QED
  BY InitInv, <1>1, PTL DEF Spec

-----------------------------------------------------------------------------
\* The state of the templater is well typed, whatever is observed and resolved
\* (Observe, Resolve).
THEOREM TypeCorrect == Spec => []TypeOK
<1>1. Inv => TypeOK
  BY DEF Inv
<1> QED
  BY <1>1, Invariance, PTL

\* For all limits and thresholds the trie is sound at every step of a call: the
\* count of nodes is the trie's size after any collapse, the three bounds hold,
\* and nothing literal is left or grows beneath a variable position
\* (newNodeLocked, countNodes, markVariableLocked).
THEOREM TrieSoundHolds == Spec => []TrieSound
<1>1. ASSUME Inv  PROVE TrieSound
  <2>1. NodesExact
    BY <1>1 DEF Inv, Sound, NodesExact
  <2>2. WithinLimits
    BY <1>1 DEF Inv, Sound, SoundAt, WithinLimits
  <2>3. NoOrphans
    <3>1. ASSUME NEW r \in DOMAIN trie, Len(r) > 1
          PROVE  SubSeq(r, 1, Len(r) - 1) \in DOMAIN trie
      <4>1. SoundAt(trie, r) /\ Len(r) \in Nat \ {0}
        BY <1>1, InvParts, NodeShape
      <4>2. Len(r) - 1 \in 1 .. Len(r)
        BY <3>1, <4>1
      <4> QED
        BY <4>1, <4>2 DEF SoundAt, Prefix
    <3>2. ASSUME NEW r \in DOMAIN trie, trie[r].variable  PROVE Named(trie, r) = {}
      BY <1>1, <3>2 DEF Inv, Sound, SoundAt
    <3> QED
      BY <3>1, <3>2 DEF NoOrphans
  <2> QED
    BY <2>1, <2>2, <2>3 DEF TrieSound
<1> QED
  BY <1>1, Invariance, PTL

\* For all paths, limits and thresholds the template of a path only ever
\* becomes more general, first at a position where it was literal (Resolve).
THEOREM OnlyGeneralisesHolds == Spec => OnlyGeneralises
<1> DEFINE Differ(x) == {i \in DOMAIN answers[x] : answers[x][i] # answers'[x][i]}
           A == \A x \in DOMAIN answers :
                   Differ(x) # {} =>
                      \E i \in Differ(x) : /\ \A j \in Differ(x) : i <= j
                                           /\ answers[x][i] # Wild
                                           /\ answers'[x][i] = Wild
<1>1. ASSUME Inv, [Next]_vars  PROVE A
  <2>1. CASE UNCHANGED answers
    BY <2>1
  <2>2. CASE Resolved
    <3>1. SUFFICES ASSUME NEW x \in DOMAIN answers, Differ(x) # {}
                   PROVE  \E i \in Differ(x) : /\ \A j \in Differ(x) : i <= j
                                               /\ answers[x][i] # Wild
                                               /\ answers'[x][i] = Wild
      OBVIOUS
    <3>2. Differ(x) \in SUBSET Nat
      <4>1. Holds(trie, x, Answered(x)) /\ answers[x] = IF Truncated(x[2]) THEN Append(Answered(x), Overflow) ELSE Answered(x)
        BY <1>1 DEF Inv, AnswersOK
      <4>2. Answered(x) \in Route
        BY <4>1 DEF Holds
      <4>3. DOMAIN answers[x] = 1 .. Len(Answered(x)) \/ DOMAIN answers[x] = 1 .. Len(Answered(x)) + 1
        BY <4>1, <4>2, RouteShape, LenProperties, BehindOverflow
      <4>4. Len(Answered(x)) \in Nat
        BY <4>2, RouteShape
      <4>5. DOMAIN answers[x] \subseteq Nat
        BY <4>3, <4>4
      <4> QED
        BY <4>5
    <3>3. PICK i \in Differ(x) : \A j \in Differ(x) : i <= j
      <4> HIDE DEF Differ
      <4> QED
        BY <3>1, <3>2, LeastNatural
    <3>4. answers[x][i] # Wild /\ answers'[x][i] = Wild
      BY <1>1, <2>2, <3>3, ResolvedGeneralises
    <3> QED
      BY <3>3, <3>4
  <2> QED
    BY <1>1, <2>1, <2>2, NextInv
<1>2. Inv /\ [Next]_vars =>
         [\A x \in DOMAIN answers :
             LET old == answers[x]  new == answers'[x]
                 differ == {i \in DOMAIN old : old[i] # new[i]}
             IN differ # {} =>
                  \E i \in differ : /\ \A j \in differ : i <= j
                                    /\ old[i] # Wild /\ new[i] = Wild]_vars
  BY <1>1
<1> QED
  BY <1>2, Invariance, PTL DEF Spec, OnlyGeneralises
=============================================================================
