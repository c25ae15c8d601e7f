---------------------------- MODULE RepairProofs ----------------------------
(***************************************************************************)
(* Proofs about Repair, for every repository, specification, set of answers  *)
(* and number of runs.  Inv is what holds of a run at each of its places,    *)
(* whoever works in the tree meanwhile.  Two invariants stand on it, each on *)
(* the condition it needs: that the owner leaves the tree alone during a run *)
(* (WorkOK), and that -max cuts no job off (FollowOK).                       *)
(***************************************************************************)
EXTENDS Repair, FiniteSetTheorems, SequenceTheorems, WellFoundedInduction, TLAPS

\* An edit that answers some change.
AnyEdit ==
    {e \in [file : Paths, old : Text, new : Text, change : Change] :
        e.old = Uses(e.change) /\ e.new = Fixed(e.change)}

Runs == [tool : {"watch", "fix"}, apply : BOOLEAN, branch : Branch \cup {Main},
         current : 0 .. LastVersion, jobs : Seq(Change), edits : Seq(AnyEdit),
         open : SUBSET Change, pending : Code, files : SUBSET File,
         unwritten : SUBSET File]

\* A run that knows its jobs; one that has its contents and not written them all.
Working == pc \in {"asking", "answered", "writing", "written", "committing"}
Holding == pc \in {"answered", "writing"}

\* Two snapshots of the code have the same in f, the owner's work apart.
SameButWork(x, y, f) == \A t \in Text \ {Work} : x[f][t] = y[f][t]

\* Where a run stands fits its locals.
PlaceOK ==
    /\ run \in Runs
    /\ pc = "loaded" => run.tool = "watch"
    /\ pc = "loaded" => run.edits = << >>
    /\ pc \in {"loaded", "asking"} => run.files = {} /\ run.unwritten = {}
    /\ pc \in {"writing", "written", "committing"} => run.apply

\* A run that writes began on a clean tree: what it has not changed is as in
\* the commit it started from, and the cache is too until it is written.
StandOK ==
    Working /\ run.apply =>
       /\ \A f \in File \ run.files : SameButWork(tree.code, commits[head].code, f)
       /\ tree.cache = IF run.tool = "watch" /\ pc \in {"written", "committing"}
                       THEN run.current ELSE commits[head].cache

\* The contents to be written take no fix away and bring no use back, and what
\* is written is as they have it.
PendingOK ==
    Holding =>
       /\ \A f \in run.unwritten : \A c \in Change :
             /\ tree.code[f][Fixed(c)] > 0 => run.pending[f][Fixed(c)] > 0
             /\ run.pending[f][Uses(c)] > 0 => tree.code[f][Uses(c)] > 0
       /\ \A f \in run.files \ run.unwritten : SameButWork(tree.code, run.pending, f)

\* A change whose fix watch brings is one of the version it read.
Settled(c) == Patched(c, commits[head].code) \/ c <= run.current

NewOK ==
    Working /\ run.apply /\ run.tool = "watch" =>
       /\ \A n \in DOMAIN run.jobs : run.jobs[n] <= run.current
       /\ \A n \in DOMAIN run.edits : run.edits[n].change <= run.current
       /\ \A c \in Change :
             /\ Patched(c, tree.code) => Settled(c)
             /\ Holding => \A f \in run.unwritten :
                              run.pending[f][Fixed(c)] > 0 => Settled(c)

Inv == TypeOK /\ PlaceOK /\ StandOK /\ PendingOK /\ NewOK

\* The owner's work in the tree and in what is to be written is that of the
\* commit a run started from.
WorkOK ==
    Working /\ run.apply =>
       \A f \in File :
          /\ tree.code[f][Work] = commits[head].code[f][Work]
          /\ Holding /\ f \in run.unwritten =>
                run.pending[f][Work] = commits[head].code[f][Work]

Accounted(s, c) == Patched(c, s.code) \/ Sites(c, s.code) = {} \/ c \in settled

\* A run of watch has change c in hand: it cannot be settled yet.
Pursued(c) ==
    \/ c \in run.open
    \/ /\ pc = "asking"
       /\ \/ \E n \in DOMAIN run.jobs : run.jobs[n] = c
          \/ \E n \in DOMAIN run.edits : run.edits[n].change = c
    \/ Holding /\ \E f \in run.files : run.pending[f][Fixed(c)] > 0

\* No change of the version watch has read is lost between its search and the
\* moment the cache moves.
FollowOK ==
    run.tool = "watch" /\ pc \in {"asking", "answered", "writing"} =>
       \A c \in Breaking :
          tree.cache < c /\ c <= run.current => Accounted(tree, c) \/ Pursued(c)

Followed == HandledIsAccounted /\ FollowOK

\* -max cuts nothing off.
EveryJob == Cardinality(Breaking) <= MaxFix
-----------------------------------------------------------------------------
\* The texts of the code are told apart.
LEMMA Texts ==
    /\ Work \in Text
    /\ \A c \in Change :
          /\ Uses(c) \in Text /\ Fixed(c) \in Text
          /\ Uses(c) # Work /\ Fixed(c) # Work
          /\ \A d \in Change : Uses(c) # Fixed(d) /\ (Fixed(c) = Fixed(d) => c = d)
BY TextAssumption DEF Uses, Fixed, Work

\* An answer about a change is made of edits.
LEMMA AnswerEdits ==
    ASSUME NEW c \in Change, NEW edits \in Answers[c]
    PROVE  /\ edits \in Seq(AnyEdit)
           /\ \A n \in DOMAIN edits : edits[n].change = c
<1>1. edits \in Seq(EditFor(c))
  BY AnswersAssumption
<1>2. EditFor(c) \subseteq AnyEdit
  BY Texts DEF EditFor, AnyEdit
<1>3. \A e \in EditFor(c) : e.change = c
  BY DEF EditFor
<1>4. \A n \in DOMAIN edits : edits[n] \in EditFor(c)
  BY <1>1
<1> QED
  BY <1>1, <1>2, <1>3, <1>4

\* Every set of natural numbers but the empty one has a least member.
LEMMA LeastNatural ==
    ASSUME NEW T \in SUBSET Nat, T # {}
    PROVE  \E i \in T : \A j \in T : i <= j
<1> DEFINE R == OpToRel(<, Nat)
<1>1. IsWellFoundedOn(R, Nat)
  BY NatLessThanWellFounded
<1>2. R = {ss \in Nat \X Nat : ss[1] < ss[2]}
  BY DEF OpToRel
<1> HIDE DEF R
<1>3. PICK i \in T : \A j \in T : ~ (<<j, i>> \in R)
  BY <1>1, WFMin
<1>4. ASSUME NEW j \in T  PROVE i <= j
  <2>1. ~(j < i)
    BY <1>2, <1>3
  <2> QED
    BY <2>1
<1> QED
  BY <1>3, <1>4

\* What is taken for a verdict is one.
LEMMA TakenIsVerdict == \A reply \in Taken : IsVerdict(reply)
<1> SUFFICES ASSUME NEW service, NEW reply \in Reply(service), Takes(service, reply)
             PROVE  IsVerdict(reply)
  BY DEF Taken
<1>1. CASE service = "anthropic"
  BY <1>1 DEF Takes, AnthropicTakes, IsVerdict, Reply
<1>2. CASE service = "openrouter"
  BY <1>2 DEF Takes, OpenRouterTakes, IsVerdict, Reply
<1> QED
  BY <1>1, <1>2 DEF Takes
-----------------------------------------------------------------------------
\* What one edit does to the code: it takes no fix away, brings no use back,
\* puts its own fix where it names, and leaves the owner's work alone.
LEMMA ReplaceFacts ==
    ASSUME NEW code \in Code, NEW e \in AnyEdit, e.file \in File
    PROVE  LET left == Replace(code, e)
           IN  /\ left \in Code
               /\ left[e.file][Fixed(e.change)] > 0
               /\ \A f \in File :
                     /\ left[f][Work] = code[f][Work]
                     /\ \A c \in Change :
                           /\ code[f][Fixed(c)] > 0 => left[f][Fixed(c)] > 0
                           /\ left[f][Uses(c)] > 0 => code[f][Uses(c)] > 0
                           /\ left[f][Fixed(c)] > 0 => code[f][Fixed(c)] > 0 \/ c = e.change
<1> DEFINE left == Replace(code, e)
           after == [t \in Text |-> (IF t = e.old THEN 0 ELSE code[e.file][t])
                                       + (IF t = e.new THEN 1 ELSE 0)]
<1>1. /\ e.change \in Change /\ e.old = Uses(e.change) /\ e.new = Fixed(e.change)
  BY DEF AnyEdit
<1>2. left = [code EXCEPT ![e.file] = after]
  BY DEF Replace, Code
<1>3. after \in [Text -> Nat]
  BY DEF Code
<1>4. left \in Code /\ left[e.file] = after
  BY <1>2, <1>3 DEF Code
<1>5. \A f \in File \ {e.file} : left[f] = code[f]
  BY <1>2 DEF Code
<1>6. \A t \in Text : after[t] = (IF t = e.old THEN 0 ELSE code[e.file][t])
                                    + (IF t = e.new THEN 1 ELSE 0)
  OBVIOUS
<1>7. \A t \in Text : code[e.file][t] \in Nat
  BY DEF Code
<1> HIDE DEF left, after
<1>8. after[Work] = code[e.file][Work]
  BY <1>1, <1>6, <1>7, Texts
<1>9. after[Fixed(e.change)] > 0
  BY <1>1, <1>6, <1>7, Texts
<1>10. ASSUME NEW c \in Change
       PROVE  /\ code[e.file][Fixed(c)] > 0 => after[Fixed(c)] > 0
              /\ after[Uses(c)] > 0 => code[e.file][Uses(c)] > 0
              /\ after[Fixed(c)] > 0 => code[e.file][Fixed(c)] > 0 \/ c = e.change
  <2>1. Uses(c) \in Text /\ Fixed(c) \in Text /\ Fixed(c) # e.old /\ Uses(c) # e.new
    BY <1>1, Texts
  <2>2. Fixed(c) = e.new => c = e.change
    BY <1>1, Texts
  <2> QED
    BY <2>1, <2>2, <1>6, <1>7
<1> QED
  BY <1>4, <1>5, <1>8, <1>9, <1>10 DEF left

\* The step from what the first edits leave to what the next one does.
Then(code, e) == IF Fits(code, e) THEN Replace(code, e) ELSE code

\* after is what the edits leave, one after the other, up to the n-th.
After(code, edits, n, after) ==
    after = [m \in 0 .. n |-> IF m = 0 THEN code ELSE Then(after[m - 1], edits[m])]

\* Composed is such a function: there is one for every number of edits.
LEMMA ComposedIsAfter ==
    ASSUME NEW code, NEW edits, Len(edits) \in Nat
    PROVE  After(code, edits, Len(edits), Composed(code, edits))
<1> DEFINE Lacking == {n \in Nat : ~ \E after : After(code, edits, n, after)}
<1>1. 0 \notin Lacking
  <2> DEFINE g == [m \in 0 .. 0 |-> code]
  <2>1. After(code, edits, 0, g)
    <3>1. g = [m \in 0 .. 0 |-> IF m = 0 THEN code ELSE Then(g[m - 1], edits[m])]
      OBVIOUS
    <3> QED
      BY <3>1 DEF After
  <2> QED
    BY <2>1
<1>2. ASSUME NEW n \in Nat, n \notin Lacking
      PROVE  n + 1 \notin Lacking
  <2>1. PICK f : After(code, edits, n, f)
    BY <1>2
  <2> DEFINE g == [m \in 0 .. n + 1 |-> IF m = n + 1 THEN Then(f[n], edits[n + 1]) ELSE f[m]]
  <2>2. \A m \in 0 .. n : f[m] = IF m = 0 THEN code ELSE Then(f[m - 1], edits[m])
    BY <2>1 DEF After
  <2>3. \A m \in 0 .. n : g[m] = f[m]
    OBVIOUS
  <2>4. g[n + 1] = Then(g[n], edits[n + 1])
    OBVIOUS
  <2>5. \A m \in 0 .. n + 1 : g[m] = IF m = 0 THEN code ELSE Then(g[m - 1], edits[m])
    <3> TAKE m \in 0 .. n + 1
    <3> HIDE DEF g
    <3>1. CASE m = n + 1
      <4>1. m - 1 = n /\ m # 0
        BY <3>1
      <4> QED
        BY <3>1, <4>1, <2>4
    <3>2. CASE m = 0
      BY <3>2, <2>2, <2>3
    <3>3. CASE m # n + 1 /\ m # 0
      <4>1. m \in 0 .. n /\ m - 1 \in 0 .. n
        BY <3>3
      <4> QED
        BY <4>1, <3>3, <2>2, <2>3
    <3> QED
      BY <3>1, <3>2, <3>3
  <2>6. g = [m \in 0 .. n + 1 |-> g[m]]
    OBVIOUS
  <2> HIDE DEF g
  <2>7. After(code, edits, n + 1, g)
    BY <2>5, <2>6 DEF After
  <2> QED
    BY <2>7
<1>3. Lacking = {}
  <2> SUFFICES ASSUME Lacking # {}
               PROVE  FALSE
    OBVIOUS
  <2>1. PICK n \in Lacking : \A k \in Lacking : n <= k
    BY LeastNatural
  <2>2. n \in Nat /\ n # 0
    BY <1>1
  <2> HIDE DEF Lacking
  <2>3. n - 1 \in Nat /\ n - 1 \notin Lacking /\ (n - 1) + 1 = n
    BY <2>1, <2>2
  <2> QED
    BY <2>1, <2>3, <1>2
<1>4. \E after : After(code, edits, Len(edits), after)
  BY <1>3
<1>5. Composed(code, edits) = CHOOSE after : After(code, edits, Len(edits), after)
  BY DEF Composed, After, Then
<1> QED
  BY <1>4, <1>5

\* What the first n edits have done to the code.
LeftBy(code, edits, n) ==
    LET left == Composed(code, edits)[n]
    IN  /\ left \in Code
        /\ \A f \in File :
              /\ left[f][Work] = code[f][Work]
              /\ \A c \in Change :
                    /\ code[f][Fixed(c)] > 0 => left[f][Fixed(c)] > 0
                    /\ left[f][Uses(c)] > 0 => code[f][Uses(c)] > 0
                    /\ left[f][Fixed(c)] > 0 =>
                          code[f][Fixed(c)] > 0 \/ \E m \in DOMAIN edits : edits[m].change = c
        /\ \A m \in Applied(code, edits) :
              m <= n => left[edits[m].file][Fixed(edits[m].change)] > 0

\* Each edit adds its part, and none takes away what another did.
LEMMA ComposedKeeps ==
    ASSUME NEW code \in Code, NEW edits \in Seq(AnyEdit)
    PROVE  \A n \in 0 .. Len(edits) : LeftBy(code, edits, n)
<1> DEFINE A == Composed(code, edits)
           L == Len(edits)
           Lacking == {n \in 0 .. L : ~LeftBy(code, edits, n)}
<1>1. L \in Nat /\ DOMAIN edits = 1 .. L
  OBVIOUS
<1>2. /\ A[0] = code
      /\ \A n \in 1 .. L : A[n] = Then(A[n - 1], edits[n])
  BY <1>1, ComposedIsAfter DEF After
<1>3. \A m \in Applied(code, edits) :
         m \in 1 .. L /\ Fits(A[m - 1], edits[m])
  BY <1>1 DEF Applied
<1> HIDE DEF A, L
<1>4. 0 \notin Lacking
  <2>1. \A m \in Applied(code, edits) : ~(m <= 0)
    BY <1>1, <1>3
  <2>2. LeftBy(code, edits, 0)
    BY <1>2, <2>1 DEF LeftBy, A
  <2> QED
    BY <2>2
<1>5. ASSUME NEW n \in 1 .. L, n - 1 \notin Lacking
      PROVE  n \notin Lacking
  <2>1. n - 1 \in 0 .. L /\ LeftBy(code, edits, n - 1)
    BY <1>1, <1>5
  <2>2. A[n - 1] \in Code
    BY <2>1 DEF LeftBy, A
  <2>3. edits[n] \in AnyEdit /\ edits[n].change \in Change
    BY <1>1 DEF L, AnyEdit
  <2>4. CASE Fits(A[n - 1], edits[n])
    <3>1. edits[n].file \in File /\ A[n] = Replace(A[n - 1], edits[n])
      BY <2>4, <1>2 DEF Then, Fits
    <3>2. /\ A[n] \in Code
          /\ A[n][edits[n].file][Fixed(edits[n].change)] > 0
          /\ \A f \in File :
                /\ A[n][f][Work] = A[n - 1][f][Work]
                /\ \A c \in Change :
                      /\ A[n - 1][f][Fixed(c)] > 0 => A[n][f][Fixed(c)] > 0
                      /\ A[n][f][Uses(c)] > 0 => A[n - 1][f][Uses(c)] > 0
                      /\ A[n][f][Fixed(c)] > 0 =>
                            A[n - 1][f][Fixed(c)] > 0 \/ c = edits[n].change
      BY <2>2, <2>3, <3>1, ReplaceFacts
    <3>3. ASSUME NEW m \in Applied(code, edits), m <= n
          PROVE  A[n][edits[m].file][Fixed(edits[m].change)] > 0
      <4>1. CASE m = n
        BY <4>1, <3>2
      <4>2. CASE m # n
        <5>1. m \in 1 .. L /\ m <= n - 1 /\ Fits(A[m - 1], edits[m])
          BY <4>2, <3>3, <1>1, <1>3
        <5>2. edits[m] \in AnyEdit /\ edits[m].change \in Change /\ edits[m].file \in File
          BY <5>1, <1>1 DEF L, AnyEdit, Fits
        <5>3. A[n - 1][edits[m].file][Fixed(edits[m].change)] > 0
          BY <5>1, <2>1 DEF LeftBy, A
        <5> QED
          BY <5>2, <5>3, <3>2
      <4> QED
        BY <4>1, <4>2
    <3>4. ASSUME NEW f \in File, NEW c \in Change
          PROVE  /\ code[f][Fixed(c)] > 0 => A[n][f][Fixed(c)] > 0
                 /\ A[n][f][Uses(c)] > 0 => code[f][Uses(c)] > 0
                 /\ A[n][f][Fixed(c)] > 0 =>
                       code[f][Fixed(c)] > 0 \/ \E m \in DOMAIN edits : edits[m].change = c
      <4>1. n \in DOMAIN edits
        BY <1>1
      <4>2. /\ code[f][Fixed(c)] > 0 => A[n - 1][f][Fixed(c)] > 0
            /\ A[n - 1][f][Uses(c)] > 0 => code[f][Uses(c)] > 0
            /\ A[n - 1][f][Fixed(c)] > 0 =>
                  code[f][Fixed(c)] > 0 \/ \E m \in DOMAIN edits : edits[m].change = c
        BY <2>1 DEF LeftBy, A
      <4>3. /\ A[n - 1][f][Fixed(c)] > 0 => A[n][f][Fixed(c)] > 0
            /\ A[n][f][Uses(c)] > 0 => A[n - 1][f][Uses(c)] > 0
            /\ A[n][f][Fixed(c)] > 0 =>
                  A[n - 1][f][Fixed(c)] > 0 \/ c = edits[n].change
        BY <3>2
      <4> QED
        BY <4>1, <4>2, <4>3, Zenon
    <3>5. \A f \in File : A[n][f][Work] = code[f][Work]
      BY <2>1, <3>2 DEF LeftBy, A
    <3>6. LeftBy(code, edits, n)
      BY <3>2, <3>3, <3>4, <3>5 DEF LeftBy, A
    <3> QED
      BY <3>6
  <2>5. CASE ~Fits(A[n - 1], edits[n])
    <3>1. A[n] = A[n - 1]
      BY <2>5, <1>2 DEF Then
    <3>2. \A m \in Applied(code, edits) : m <= n => m <= n - 1
      BY <2>5, <1>1, <1>3
    <3>3. LeftBy(code, edits, n)
      BY <2>1, <3>1, <3>2 DEF LeftBy, A
    <3> QED
      BY <3>3
  <2> QED
    BY <2>4, <2>5
<1>6. Lacking = {}
  <2> SUFFICES ASSUME Lacking # {}
               PROVE  FALSE
    OBVIOUS
  <2>1. Lacking \in SUBSET Nat
    BY <1>1
  <2>2. PICK n \in Lacking : \A k \in Lacking : n <= k
    BY <2>1, LeastNatural
  <2>3. n \in 1 .. L
    BY <1>1, <1>4, <2>2
  <2> HIDE DEF Lacking
  <2>4. n - 1 \in Nat /\ ~(n <= n - 1)
    BY <1>1, <2>3
  <2> QED
    BY <2>2, <2>3, <2>4, <1>5
<1> QED
  BY <1>6 DEF L

\* What patch.Apply has verified, next to the code it started from.
LEMMA VerifiedFacts ==
    ASSUME NEW code \in Code, NEW edits \in Seq(AnyEdit)
    PROVE  LET left == Composed(code, edits)[Len(edits)]
           IN  /\ left \in Code
               /\ ChangedFiles(code, edits) \subseteq File
               /\ {edits[n].change : n \in Rejected(code, edits)} \subseteq Change
               /\ \A f \in File :
                     /\ left[f][Work] = code[f][Work]
                     /\ \A c \in Change :
                           /\ code[f][Fixed(c)] > 0 => left[f][Fixed(c)] > 0
                           /\ left[f][Uses(c)] > 0 => code[f][Uses(c)] > 0
                           /\ left[f][Fixed(c)] > 0 =>
                                 code[f][Fixed(c)] > 0
                                 \/ \E m \in DOMAIN edits : edits[m].change = c
               /\ \A n \in DOMAIN edits :
                     \/ edits[n].change \in {edits[m].change : m \in Rejected(code, edits)}
                     \/ /\ edits[n].file \in ChangedFiles(code, edits)
                        /\ left[edits[n].file][Fixed(edits[n].change)] > 0
<1> DEFINE L == Len(edits)
           left == Composed(code, edits)[L]
<1>1. L \in Nat /\ DOMAIN edits = 1 .. L /\ \A n \in DOMAIN edits : edits[n] \in AnyEdit
  OBVIOUS
<1>2. L \in 0 .. L
  BY <1>1
<1>3. LeftBy(code, edits, L)
  BY <1>2, ComposedKeeps
<1>4. ChangedFiles(code, edits) \subseteq File
  BY DEF ChangedFiles, Applied, Fits
<1>5. {edits[n].change : n \in Rejected(code, edits)} \subseteq Change
  BY <1>1 DEF Rejected, AnyEdit
<1>6. ASSUME NEW n \in DOMAIN edits, n \in Applied(code, edits)
      PROVE  /\ edits[n].file \in ChangedFiles(code, edits)
             /\ left[edits[n].file][Fixed(edits[n].change)] > 0
  <2>1. n <= L
    BY <1>1
  <2> QED
    BY <1>3, <1>6, <2>1 DEF LeftBy, ChangedFiles
<1>7. ASSUME NEW n \in DOMAIN edits, n \notin Applied(code, edits)
      PROVE  edits[n].change \in {edits[m].change : m \in Rejected(code, edits)}
  BY <1>7 DEF Rejected
<1> HIDE DEF L, left
<1>8. /\ left \in Code
      /\ \A f \in File :
            /\ left[f][Work] = code[f][Work]
            /\ \A c \in Change :
                  /\ code[f][Fixed(c)] > 0 => left[f][Fixed(c)] > 0
                  /\ left[f][Uses(c)] > 0 => code[f][Uses(c)] > 0
                  /\ left[f][Fixed(c)] > 0 =>
                        code[f][Fixed(c)] > 0 \/ \E m \in DOMAIN edits : edits[m].change = c
  BY <1>3 DEF LeftBy, left
<1> QED
  BY <1>4, <1>5, <1>6, <1>7, <1>8 DEF left, L
-----------------------------------------------------------------------------
\* A set of changes in order: all of them, and nothing else.
LEMMA InOrderLists ==
    ASSUME NEW S \in SUBSET Nat, IsFiniteSet(S), NEW order \in InOrder(S)
    PROVE  /\ order \in Seq(S) /\ Len(order) = Cardinality(S)
           /\ \A c \in S : \E n \in DOMAIN order : order[n] = c
<1> DEFINE k == Cardinality(S)
<1>1. k \in Nat
  BY FS_CardinalityType
<1>2. /\ order \in [1 .. k -> S]
      /\ \A i, j \in 1 .. k : i < j => order[i] < order[j]
  BY DEF InOrder
<1> HIDE DEF k
<1>3. order \in Injection(1 .. k, S)
  <2>1. ASSUME NEW i \in 1 .. k, NEW j \in 1 .. k, order[i] = order[j]
        PROVE  i = j
    <3>1. order[i] \in Nat /\ order[j] \in Nat
      BY <1>2
    <3>2. ~(i < j) /\ ~(j < i)
      BY <1>2, <2>1, <3>1
    <3> QED
      BY <1>1, <3>2
  <2> QED
    BY <1>2, <2>1 DEF Injection, IsInjective
<1>4. Cardinality(1 .. k) = k
  BY <1>1, FS_Interval
<1>5. order \in Surjection(1 .. k, S)
  BY <1>3, <1>4, FS_Injection DEF k
<1>6. order \in Seq(S) /\ Len(order) = k
  BY <1>1, <1>2
<1> QED
  BY <1>2, <1>5, <1>6 DEF Surjection, k

\* -max keeps the first of the jobs, and all of them when it is large enough.
LEMMA CappedKeeps ==
    ASSUME NEW S, NEW jobs \in Seq(S)
    PROVE  /\ Capped(jobs) \in Seq(S)
           /\ Len(jobs) <= MaxFix => Capped(jobs) = jobs
<1> DEFINE m == IF Len(jobs) < MaxFix THEN Len(jobs) ELSE MaxFix
<1>1. Len(jobs) \in Nat /\ MaxFix \in Nat
  BY MaxAssumption
<1>2. m \in Int /\ m <= Len(jobs) /\ (Len(jobs) <= MaxFix => m = Len(jobs))
  BY <1>1
<1>3. Capped(jobs) = SubSeq(jobs, 1, m)
  BY DEF Capped
<1> HIDE DEF m
<1>4. \A i \in 1 .. m : jobs[i] \in S
  BY <1>1, <1>2
<1>5. SubSeq(jobs, 1, m) \in Seq(S)
  BY <1>2, <1>4, SubSeqProperties
<1> QED
  BY <1>2, <1>3, <1>5, SubSeqFull

\* Changes are few and numbered.
LEMMA ChangesFinite ==
    /\ IsFiniteSet(Change) /\ Change \subseteq Nat
    /\ \A S \in SUBSET Change : IsFiniteSet(S)
<1>1. IsFiniteSet(Change) /\ Change \subseteq Nat
  BY BoundAssumption, FS_Interval DEF Change
<1> QED
  BY <1>1, FS_Subset

\* The jobs of watch are changes of the version it read; of fix, findings.
LEMMA WatchJobs ==
    ASSUME NEW missed, NEW order \in InOrder(Touching(missed))
    PROVE  /\ Capped(order) \in Seq(Touching(missed))
           /\ Touching(missed) \subseteq Changes /\ Changes \subseteq Change
<1>1. Touching(missed) \subseteq Changes /\ Changes \subseteq Change
  BY BreakingAssumption DEF Touching, Changes
<1>2. order \in Seq(Touching(missed))
  BY <1>1, ChangesFinite, InOrderLists
<1> QED
  BY <1>1, <1>2, CappedKeeps

\* What fix keeps of the findings it was given.
LEMMA FixJobs ==
    ASSUME NEW findings \in Findings, NEW code,
           NEW order \in InOrder({i \in DOMAIN Capped(findings) :
                                     Sites(Capped(findings)[i], code) # {}})
    PROVE  [n \in DOMAIN order |-> Capped(findings)[order[n]]] \in Seq(Change)
<1> DEFINE first == Capped(findings)
           S == {i \in DOMAIN first : Sites(first[i], code) # {}}
<1>1. first \in Seq(Change)
  BY FindingsAssumption, CappedKeeps
<1> HIDE DEF first
<1>2. S \in SUBSET Nat /\ IsFiniteSet(S)
  <2>1. DOMAIN first = 1 .. Len(first) /\ Len(first) \in Nat
    BY <1>1
  <2>2. IsFiniteSet(1 .. Len(first))
    BY <2>1, FS_Interval
  <2>3. S \in SUBSET (1 .. Len(first))
    BY <2>1
  <2> QED
    BY <2>1, <2>2, <2>3, FS_Subset
<1>3. order \in Seq(S)
  BY <1>2, InOrderLists DEF first
<1>4. \A n \in 1 .. Len(order) : first[order[n]] \in Change
  BY <1>1, <1>3
<1>5. DOMAIN order = 1 .. Len(order) /\ Len(order) \in Nat
  BY <1>3
<1> QED
  BY <1>4, <1>5 DEF first
-----------------------------------------------------------------------------
\* The locals of no command.
LEMMA IdleRuns == Idle \in Runs /\ Idle.tool = "watch" /\ ~Idle.apply
BY CodeAssumption, BoundAssumption DEF Idle, Runs

\* No command is left with anything to answer for once it has ended.
LEMMA AtRest ==
    ASSUME pc' = "idle", run' = Idle
    PROVE  PlaceOK' /\ StandOK' /\ PendingOK' /\ NewOK'
BY IdleRuns DEF PlaceOK, StandOK, PendingOK, NewOK, Working, Holding

\* Nor does what the owner does between commands matter to one.
LEMMA BetweenRuns ==
    ASSUME PlaceOK, pc = "idle", pc' = pc, run' = run
    PROVE  PlaceOK' /\ StandOK' /\ PendingOK' /\ NewOK'
BY DEF PlaceOK, StandOK, PendingOK, NewOK, Working, Holding

\* The tree once the version just read is the cached one.
LEMMA CacheAfterFacts ==
    ASSUME TypeOK, PlaceOK
    PROVE  /\ CacheAfter \in Snapshot
           /\ CacheAfter.code = tree.code
           /\ CacheAfter.cache = IF run.tool = "watch" THEN run.current ELSE tree.cache
BY DEF TypeOK, PlaceOK, Runs, CacheAfter, Snapshot

\* The tree once the owner has worked on a file.
LEMMA EditFacts ==
    ASSUME TypeOK, NEW f \in File, Edit(f)
    PROVE  /\ tree' \in Snapshot /\ tree'.cache = tree.cache
           /\ \A g \in File : \A t \in Text \ {Work} : tree'.code[g][t] = tree.code[g][t]
<1> DEFINE content == [tree.code[f] EXCEPT ![Work] = 1]
           code == [tree.code EXCEPT ![f] = content]
<1>1. tree.code \in Code /\ tree \in Snapshot
  BY DEF TypeOK, Snapshot
<1>2. content \in [Text -> Nat] /\ \A t \in Text \ {Work} : content[t] = tree.code[f][t]
  BY <1>1 DEF Code
<1>3. tree' = [tree EXCEPT !.code = code]
  BY <1>1 DEF Edit, Snapshot
<1> HIDE DEF content
<1>4. code \in Code /\ \A g \in File : code[g] = IF g = f THEN content ELSE tree.code[g]
  BY <1>1, <1>2 DEF Code
<1> HIDE DEF code
<1>5. tree' \in Snapshot /\ tree'.code = code /\ tree'.cache = tree.cache
  BY <1>1, <1>3, <1>4 DEF Snapshot
<1> QED
  BY <1>2, <1>4, <1>5

\* The tree and the run once a file is written.
LEMMA WriteFacts ==
    ASSUME TypeOK, PlaceOK, NEW f \in File, WriteFile(f)
    PROVE  /\ tree' \in Snapshot /\ tree'.cache = tree.cache
           /\ \A g \in File :
                 tree'.code[g] = IF g = f THEN run.pending[f] ELSE tree.code[g]
           /\ run' \in Runs /\ run'.unwritten = run.unwritten \ {f}
           /\ \A l \in {"tool", "apply", "branch", "current", "jobs", "edits", "open",
                        "pending", "files"} : run'[l] = run[l]
<1> DEFINE code == [tree.code EXCEPT ![f] = run.pending[f]]
<1>1. tree.code \in Code /\ tree \in Snapshot /\ run.pending[f] \in [Text -> Nat]
  BY DEF TypeOK, Snapshot, Code
<1>2. tree' = [tree EXCEPT !.code = code]
  BY <1>1 DEF WriteFile, Snapshot
<1>3. code \in Code /\ \A g \in File : code[g] = IF g = f THEN run.pending[f] ELSE tree.code[g]
  BY <1>1 DEF Code
<1> HIDE DEF code
<1>4. tree' \in Snapshot /\ tree'.code = code /\ tree'.cache = tree.cache
  BY <1>1, <1>2, <1>3 DEF Snapshot
<1>5. run' = [run EXCEPT !.unwritten = run.unwritten \ {f}] /\ run \in Runs
  BY DEF WriteFile, PlaceOK
<1>6. run.unwritten \ {f} \in SUBSET File
  BY <1>5 DEF Runs
<1> QED
  BY <1>3, <1>4, <1>5, <1>6 DEF Runs
-----------------------------------------------------------------------------
(***************************************************************************)
(* The inductive invariant, action by action.                               *)
(***************************************************************************)
\* watch has its jobs: the changes between the cached version and the one read.
LEMMA FindInv ==
    ASSUME Inv, NEW missed \in SUBSET Changes, Find(missed)
    PROVE  Inv'
<1>1. PICK order \in InOrder(Touching(missed)) : run' = [run EXCEPT !.jobs = Capped(order)]
  BY DEF Find
<1> DEFINE jobs == Capped(order)
<1>2. jobs \in Seq(Touching(missed)) /\ Touching(missed) \subseteq Changes
      /\ Changes \subseteq Change
  BY WatchJobs
<1> HIDE DEF jobs
<1>3. jobs \in Seq(Change) /\ \A n \in DOMAIN jobs : jobs[n] \in Changes
  BY <1>2
<1>4. /\ run \in Runs /\ pc = "loaded" /\ run.tool = "watch" /\ run.edits = << >>
      /\ run.files = {} /\ run.unwritten = {} /\ pc' = "asking"
      /\ UNCHANGED <<published, commits, base, head, tree, runs>>
      /\ settled' = settled \cup missed
  BY DEF Inv, PlaceOK, Find
<1>5. /\ run' \in Runs /\ run'.jobs = jobs
      /\ \A l \in {"tool", "apply", "branch", "current", "edits", "open",
                   "pending", "files", "unwritten"} : run'[l] = run[l]
  BY <1>1, <1>3, <1>4 DEF Runs, jobs
<1>6. TypeOK'
  BY <1>2, <1>3, <1>4, <1>5 DEF Inv, TypeOK
<1>7. PlaceOK'
  BY <1>4, <1>5 DEF PlaceOK
<1>8. run.apply => tree = commits[head]
  BY DEF Find, MayWrite, Clean
<1>9. StandOK'
  BY <1>4, <1>5, <1>8 DEF StandOK, SameButWork
<1>10. PendingOK'
  BY <1>4 DEF PendingOK, Holding
<1>11. \A n \in DOMAIN jobs : jobs[n] <= run.current
  BY <1>3 DEF Changes
<1>12. NewOK'
  BY <1>4, <1>5, <1>8, <1>11 DEF NewOK, Settled, Patched, Holding
<1> QED
  BY <1>6, <1>7, <1>9, <1>10, <1>12 DEF Inv

\* fix has its jobs, in no relation to a version.
LEMMA StartFixInv ==
    ASSUME Inv, NEW apply \in BOOLEAN, NEW b \in Branch, NEW fs \in Findings,
           StartFix(apply, b, fs)
    PROVE  Inv'
<1> DEFINE first == Capped(fs)
<1>1. PICK order \in InOrder({i \in DOMAIN first : Sites(first[i], tree.code) # {}}) :
         run' = [Idle EXCEPT !.tool = "fix", !.apply = apply, !.branch = b,
                             !.jobs = [n \in DOMAIN order |-> first[order[n]]]]
  BY DEF StartFix
<1> DEFINE jobs == [n \in DOMAIN order |-> first[order[n]]]
<1>2. jobs \in Seq(Change)
  BY FixJobs
<1> HIDE DEF jobs
<1>3. /\ pc = "idle" /\ pc' = "asking" /\ runs' = runs + 1 /\ runs < MaxRuns
      /\ UNCHANGED <<published, commits, base, head, tree, settled>>
      /\ apply => tree = commits[head]
  BY DEF StartFix, MayWrite, Clean
<1>4. run' = [Idle EXCEPT !.tool = "fix", !.apply = apply, !.branch = b, !.jobs = jobs]
  BY <1>1 DEF jobs
<1>5. /\ run' \in Runs /\ run'.jobs = jobs /\ run'.tool = "fix" /\ run'.apply = apply
      /\ run'.files = {} /\ run'.unwritten = {} /\ run'.open = {}
  <2>1. Idle \in Runs /\ Idle.files = {} /\ Idle.unwritten = {} /\ Idle.open = {}
    BY IdleRuns DEF Idle
  <2> HIDE DEF first
  <2>2. run' \in Runs
    BY <1>2, <1>4, <2>1 DEF Runs
  <2> QED
    BY <1>4, <2>1, <2>2 DEF Runs
<1>6. TypeOK'
  <2>1. run'.pending \in Code
    BY <1>5 DEF Runs
  <2>2. runs' \in 0 .. MaxRuns
    BY <1>3, BoundAssumption DEF Inv, TypeOK
  <2> QED
    BY <1>2, <1>3, <1>5, <2>1, <2>2 DEF Inv, TypeOK
<1>7. PlaceOK'
  BY <1>3, <1>5 DEF PlaceOK
<1>8. StandOK'
  BY <1>3, <1>5 DEF StandOK, SameButWork
<1>9. PendingOK' /\ NewOK'
  BY <1>3, <1>5 DEF PendingOK, NewOK, Holding
<1> QED
  BY <1>6, <1>7, <1>8, <1>9 DEF Inv

\* One job answered: its edits join those there are.
LEMMA AskFacts ==
    ASSUME Inv, NEW reply, NEW edits, Ask(reply, edits)
    PROVE  /\ run' \in Runs
           /\ run'.jobs = Tail(run.jobs) /\ run'.edits = run.edits \o edits
           /\ \A l \in {"tool", "apply", "branch", "current", "pending", "files",
                        "unwritten"} : run'[l] = run[l]
           /\ run'.open = run.open \cup IF IsVerdict(reply) /\ edits = << >>
                                        THEN {Head(run.jobs)} ELSE {}
           /\ Head(run.jobs) \in Change /\ run.jobs \in Seq(Change) /\ run.jobs # << >>
           /\ edits \in Seq(AnyEdit)
           /\ \A n \in DOMAIN edits : edits[n].change = Head(run.jobs)
           /\ edits = << >> \/ edits \in Answers[Head(run.jobs)]
<1> DEFINE more == IF IsVerdict(reply) /\ edits = << >> THEN {Head(run.jobs)} ELSE {}
<1>1. run \in Runs /\ run.jobs \in Seq(Change) /\ run.jobs # << >>
      /\ run.edits \in Seq(AnyEdit)
  BY DEF Inv, PlaceOK, Runs, Ask
<1>2. Head(run.jobs) \in Change /\ Tail(run.jobs) \in Seq(Change)
  BY <1>1
<1>3. edits = << >> \/ edits \in Answers[Head(run.jobs)]
  BY DEF Ask
<1>4. edits \in Seq(AnyEdit) /\ \A n \in DOMAIN edits : edits[n].change = Head(run.jobs)
  <2>1. CASE edits = << >>
    BY <2>1
  <2>2. CASE edits \in Answers[Head(run.jobs)]
    BY <2>2, <1>2, AnswerEdits
  <2> QED
    BY <1>3, <2>1, <2>2
<1>5. run.edits \o edits \in Seq(AnyEdit)
  BY <1>1, <1>4
<1>6. run.open \cup more \in SUBSET Change
  BY <1>1, <1>2 DEF Runs
<1>7. run' = [run EXCEPT !.jobs = Tail(run.jobs), !.edits = run.edits \o edits,
                         !.open = run.open \cup more]
  BY <1>1 DEF Ask, Runs
<1> HIDE DEF more
<1>8. /\ run' \in Runs
      /\ run'.jobs = Tail(run.jobs) /\ run'.edits = run.edits \o edits
      /\ \A l \in {"tool", "apply", "branch", "current", "pending", "files",
                   "unwritten"} : run'[l] = run[l]
      /\ run'.open = run.open \cup more
  BY <1>1, <1>2, <1>5, <1>6, <1>7 DEF Runs
<1> QED
  BY <1>1, <1>2, <1>3, <1>4, <1>8 DEF more

\* Nothing but the run's locals changes when an answer comes.
LEMMA AskInv ==
    ASSUME Inv, NEW reply, NEW edits, Ask(reply, edits)
    PROVE  Inv'
<1>1. /\ pc = "asking" /\ pc' = "asking"
      /\ UNCHANGED <<published, commits, base, head, tree, settled, runs>>
  BY DEF Ask
<1>2. run' \in Runs /\ run.edits \in Seq(AnyEdit) /\ run.jobs \in Seq(Change)
  BY AskFacts DEF Inv, PlaceOK, Runs
<1>3. TypeOK'
  BY <1>1, <1>2, AskFacts DEF Inv, TypeOK, Runs
<1>4. PlaceOK'
  BY <1>1, <1>2, AskFacts DEF Inv, PlaceOK
<1>5. StandOK'
  BY <1>1, AskFacts DEF Inv, StandOK, Working
<1>6. PendingOK'
  BY <1>1 DEF PendingOK, Holding
<1>7. NewOK'
  <2> SUFFICES ASSUME run.apply, run.tool = "watch"
               PROVE  /\ \A n \in DOMAIN run'.jobs : run'.jobs[n] <= run.current
                      /\ \A n \in DOMAIN run'.edits : run'.edits[n].change <= run.current
    BY <1>1, AskFacts DEF Inv, NewOK, Working, Holding, Settled
  <2>1. /\ \A n \in DOMAIN run.jobs : run.jobs[n] <= run.current
        /\ \A n \in DOMAIN run.edits : run.edits[n].change <= run.current
    BY <1>1 DEF Inv, NewOK, Working
  <2>2. \A n \in DOMAIN Tail(run.jobs) : Tail(run.jobs)[n] <= run.current
    BY <2>1, <1>2, AskFacts
  <2>3. Head(run.jobs) <= run.current
    BY <2>1, <1>2, AskFacts
  <2>4. \A n \in DOMAIN (run.edits \o edits) :
           \/ n \in DOMAIN run.edits /\ (run.edits \o edits)[n] = run.edits[n]
           \/ \E m \in DOMAIN edits : (run.edits \o edits)[n] = edits[m]
    <3>1. edits \in Seq(AnyEdit)
      BY AskFacts
    <3> QED
      BY <3>1, <1>2
  <2>5. \A m \in DOMAIN edits : edits[m].change <= run.current
    BY <2>3, AskFacts
  <2>6. \A n \in DOMAIN (run.edits \o edits) : (run.edits \o edits)[n].change <= run.current
    BY <2>1, <2>4, <2>5
  <2> QED
    BY <2>2, <2>6, AskFacts
<1> QED
  BY <1>3, <1>4, <1>5, <1>6, <1>7 DEF Inv

\* The edits verified: what is to be written, next to what is in the tree.
LEMMA VerifyFacts ==
    ASSUME Inv, Verify
    PROVE  /\ run' \in Runs
           /\ run'.pending = Composed(tree.code, run.edits)[Len(run.edits)]
           /\ run'.files = ChangedFiles(tree.code, run.edits)
           /\ run'.unwritten = run'.files
           /\ \A l \in {"tool", "apply", "branch", "current", "jobs", "edits"} :
                 run'[l] = run[l]
           /\ run'.open = run.open \cup {run.edits[n].change :
                                           n \in Rejected(tree.code, run.edits)}
           /\ \A f \in File :
                 /\ run'.pending[f][Work] = tree.code[f][Work]
                 /\ \A c \in Change :
                       /\ tree.code[f][Fixed(c)] > 0 => run'.pending[f][Fixed(c)] > 0
                       /\ run'.pending[f][Uses(c)] > 0 => tree.code[f][Uses(c)] > 0
                       /\ run'.pending[f][Fixed(c)] > 0 =>
                             tree.code[f][Fixed(c)] > 0
                             \/ \E m \in DOMAIN run.edits : run.edits[m].change = c
           /\ \A n \in DOMAIN run.edits :
                 \/ run.edits[n].change \in run'.open
                 \/ /\ run.edits[n].file \in run'.files
                    /\ run'.pending[run.edits[n].file][Fixed(run.edits[n].change)] > 0
<1> DEFINE left == Composed(tree.code, run.edits)[Len(run.edits)]
           files == ChangedFiles(tree.code, run.edits)
           refused == {run.edits[n].change : n \in Rejected(tree.code, run.edits)}
<1>1. run \in Runs /\ run.edits \in Seq(AnyEdit) /\ tree.code \in Code
  BY DEF Inv, PlaceOK, Runs, TypeOK, Snapshot
<1>2. /\ left \in Code /\ files \subseteq File /\ refused \subseteq Change
      /\ \A f \in File :
            /\ left[f][Work] = tree.code[f][Work]
            /\ \A c \in Change :
                  /\ tree.code[f][Fixed(c)] > 0 => left[f][Fixed(c)] > 0
                  /\ left[f][Uses(c)] > 0 => tree.code[f][Uses(c)] > 0
                  /\ left[f][Fixed(c)] > 0 =>
                        tree.code[f][Fixed(c)] > 0
                        \/ \E m \in DOMAIN run.edits : run.edits[m].change = c
      /\ \A n \in DOMAIN run.edits :
            \/ run.edits[n].change \in refused
            \/ /\ run.edits[n].file \in files
               /\ left[run.edits[n].file][Fixed(run.edits[n].change)] > 0
  BY <1>1, VerifiedFacts
<1>3. run' = [run EXCEPT !.pending = left, !.files = files, !.unwritten = files,
                         !.open = run.open \cup refused]
  BY <1>1 DEF Verify, Runs
<1> HIDE DEF left, files, refused
<1>4. run.open \cup refused \in SUBSET Change /\ files \in SUBSET File
  BY <1>1, <1>2 DEF Runs
<1>5. /\ run' \in Runs /\ run'.pending = left /\ run'.files = files
      /\ run'.unwritten = files /\ run'.open = run.open \cup refused
      /\ \A l \in {"tool", "apply", "branch", "current", "jobs", "edits"} :
            run'[l] = run[l]
  BY <1>1, <1>2, <1>3, <1>4 DEF Runs
<1>6. \A n \in DOMAIN run.edits :
         \/ run.edits[n].change \in run'.open
         \/ /\ run.edits[n].file \in run'.files
            /\ run'.pending[run.edits[n].file][Fixed(run.edits[n].change)] > 0
  BY <1>2, <1>5
<1>7. \A f \in File :
         /\ run'.pending[f][Work] = tree.code[f][Work]
         /\ \A c \in Change :
               /\ tree.code[f][Fixed(c)] > 0 => run'.pending[f][Fixed(c)] > 0
               /\ run'.pending[f][Uses(c)] > 0 => tree.code[f][Uses(c)] > 0
               /\ run'.pending[f][Fixed(c)] > 0 =>
                     tree.code[f][Fixed(c)] > 0
                     \/ \E m \in DOMAIN run.edits : run.edits[m].change = c
  BY <1>2, <1>5
<1> QED
  BY <1>5, <1>6, <1>7 DEF left, files, refused

\* Nothing but the run's locals changes when the edits are verified.
LEMMA VerifyInv ==
    ASSUME Inv, Verify
    PROVE  Inv'
<1>1. /\ pc = "asking" /\ pc' = "answered"
      /\ UNCHANGED <<published, commits, base, head, tree, settled, runs>>
  BY DEF Verify
<1>2. TypeOK'
  BY <1>1, VerifyFacts DEF Inv, TypeOK, Runs
<1>3. PlaceOK'
  BY <1>1, VerifyFacts DEF PlaceOK
<1>4. StandOK'
  BY <1>1, VerifyFacts DEF Inv, PlaceOK, StandOK, Working
<1>5. PendingOK'
  BY <1>1, VerifyFacts DEF PendingOK, Runs
<1>6. NewOK'
  <2> SUFFICES ASSUME run.apply, run.tool = "watch"
               PROVE  /\ \A n \in DOMAIN run.jobs : run.jobs[n] <= run.current
                      /\ \A n \in DOMAIN run.edits : run.edits[n].change <= run.current
                      /\ \A c \in Change :
                            /\ Patched(c, tree.code) => Settled(c)
                            /\ \A f \in run'.unwritten :
                                  run'.pending[f][Fixed(c)] > 0 => Settled(c)
    BY <1>1, VerifyFacts DEF NewOK, Settled
  <2>1. /\ \A n \in DOMAIN run.jobs : run.jobs[n] <= run.current
        /\ \A n \in DOMAIN run.edits : run.edits[n].change <= run.current
        /\ \A c \in Change : Patched(c, tree.code) => Settled(c)
    BY <1>1 DEF Inv, NewOK, Working
  <2>2. ASSUME NEW c \in Change, NEW f \in run'.unwritten, run'.pending[f][Fixed(c)] > 0
        PROVE  Settled(c)
    <3>1. f \in File
      BY VerifyFacts DEF Runs
    <3>2. tree.code[f][Fixed(c)] > 0 \/ \E m \in DOMAIN run.edits : run.edits[m].change = c
      BY <2>2, <3>1, VerifyFacts
    <3> QED
      BY <2>1, <3>1, <3>2 DEF Patched, Settled
  <2> QED
    BY <2>1, <2>2
<1> QED
  BY <1>2, <1>3, <1>4, <1>5, <1>6 DEF Inv

\* One file written, of those that were not.
LEMMA WriteFileInv ==
    ASSUME Inv, NEW f \in File, WriteFile(f)
    PROVE  Inv'
<1>1. /\ pc = "writing" /\ pc' = "writing" /\ f \in run.unwritten
      /\ UNCHANGED <<published, commits, base, head, settled, runs>>
      /\ run \in Runs /\ run.unwritten \subseteq run.files /\ run.apply
  BY DEF WriteFile, Inv, PlaceOK, TypeOK
<1>2. /\ tree' \in Snapshot /\ tree'.cache = tree.cache
      /\ \A g \in File : tree'.code[g] = IF g = f THEN run.pending[f] ELSE tree.code[g]
      /\ run' \in Runs /\ run'.unwritten = run.unwritten \ {f}
      /\ run'.tool = run.tool /\ run'.apply = run.apply /\ run'.current = run.current
      /\ run'.jobs = run.jobs /\ run'.edits = run.edits /\ run'.open = run.open
      /\ run'.pending = run.pending /\ run'.files = run.files
  BY WriteFacts DEF Inv
<1>3. TypeOK'
  BY <1>1, <1>2 DEF Inv, TypeOK, Runs
<1>4. PlaceOK'
  BY <1>1, <1>2 DEF PlaceOK
<1>5. StandOK'
  BY <1>1, <1>2 DEF Inv, StandOK, Working, SameButWork
<1>6. PendingOK'
  BY <1>1, <1>2 DEF Inv, PendingOK, Holding, SameButWork, Runs
<1>7. NewOK'
  <2> SUFFICES ASSUME run.tool = "watch", NEW c \in Change
               PROVE  /\ Patched(c, tree'.code) => Settled(c)
                      /\ \A g \in run'.unwritten :
                            run.pending[g][Fixed(c)] > 0 => Settled(c)
    BY <1>1, <1>2 DEF Inv, NewOK, Working, Holding, Settled
  <2>1. /\ Patched(c, tree.code) => Settled(c)
        /\ \A g \in run.unwritten : run.pending[g][Fixed(c)] > 0 => Settled(c)
    BY <1>1 DEF Inv, NewOK, Working, Holding
  <2>2. ASSUME NEW g \in File, tree'.code[g][Fixed(c)] > 0
        PROVE  Settled(c)
    BY <1>1, <1>2, <2>1, <2>2 DEF Patched
  <2> QED
    BY <1>2, <2>1, <2>2 DEF Patched
<1> QED
  BY <1>3, <1>4, <1>5, <1>6, <1>7 DEF Inv

\* Every file written: the cache moves.
LEMMA WriteCacheInv ==
    ASSUME Inv, WriteCache
    PROVE  Inv'
<1>1. /\ pc = "writing" /\ pc' = "written" /\ tree' = CacheAfter
      /\ UNCHANGED <<published, commits, base, head, run, runs>>
      /\ settled' = settled \cup run.open /\ run \in Runs /\ run.apply
  BY DEF WriteCache, Inv, PlaceOK
<1>2. /\ CacheAfter \in Snapshot /\ CacheAfter.code = tree.code
      /\ CacheAfter.cache = IF run.tool = "watch" THEN run.current ELSE tree.cache
  BY CacheAfterFacts DEF Inv
<1>3. TypeOK'
  BY <1>1, <1>2 DEF Inv, TypeOK, Runs
<1>4. PlaceOK'
  BY <1>1 DEF Inv, PlaceOK
<1>5. StandOK'
  BY <1>1, <1>2 DEF Inv, StandOK, Working
<1>6. PendingOK'
  BY <1>1 DEF PendingOK, Holding
<1>7. NewOK'
  BY <1>1, <1>2 DEF Inv, NewOK, Working, Holding, Settled
<1> QED
  BY <1>3, <1>4, <1>5, <1>6, <1>7 DEF Inv

\* The branch is cut where the owner stood.
LEMMA CutBranchFacts ==
    ASSUME Inv, CutBranch
    PROVE  /\ commits'[head'] = commits[head]
           /\ DOMAIN commits' = DOMAIN commits \cup {run.branch}
           /\ DOMAIN base' = DOMAIN base \cup {run.branch}
           /\ \A b \in DOMAIN commits' :
                 commits'[b] = IF b = run.branch THEN commits[head] ELSE commits[b]
           /\ \A b \in DOMAIN base' :
                 base'[b] = IF b = run.branch THEN commits[head] ELSE base[b]
           /\ head' = run.branch
BY DEF CutBranch, WithBranch

\* The new branch holds what the old one did, so the run stands as it stood.
LEMMA CutBranchInv ==
    ASSUME Inv, CutBranch
    PROVE  Inv'
<1>1. /\ pc = "written" /\ pc' = "committing"
      /\ UNCHANGED <<published, tree, run, settled, runs>>
      /\ run \in Runs /\ run.branch \notin DOMAIN commits
  BY DEF CutBranch, Inv, PlaceOK
<1>2. TypeOK'
  <2>1. run.branch \in Branch \cup {Main}
    BY <1>1 DEF Runs
  <2>2. commits[head] \in Snapshot
    BY DEF Inv, TypeOK
  <2>3. /\ DOMAIN commits' = DOMAIN base' /\ Main \in DOMAIN commits'
        /\ DOMAIN commits' \subseteq Branch \cup {Main}
        /\ head' \in DOMAIN commits'
    BY <2>1, CutBranchFacts DEF Inv, TypeOK
  <2>4. \A b \in DOMAIN commits' : commits'[b] \in Snapshot /\ base'[b] \in Snapshot
    BY <2>2, CutBranchFacts DEF Inv, TypeOK
  <2> QED
    BY <1>1, <2>3, <2>4 DEF Inv, TypeOK
<1>3. PlaceOK'
  BY <1>1 DEF Inv, PlaceOK
<1>4. StandOK'
  BY <1>1, CutBranchFacts DEF Inv, StandOK, Working
<1>5. PendingOK'
  BY <1>1 DEF PendingOK, Holding
<1>6. NewOK'
  BY <1>1, CutBranchFacts DEF Inv, NewOK, Working, Holding, Settled
<1> QED
  BY <1>2, <1>3, <1>4, <1>5, <1>6 DEF Inv

\* The owner works on a file, a command running or not.
LEMMA EditInv ==
    ASSUME Inv, NEW f \in File, Edit(f)
    PROVE  Inv'
<1>1. UNCHANGED <<published, commits, base, head, pc, run, settled, runs>> /\ run \in Runs
  BY DEF Edit, Inv, PlaceOK
<1>2. /\ tree' \in Snapshot /\ tree'.cache = tree.cache
      /\ \A g \in File : \A t \in Text \ {Work} : tree'.code[g][t] = tree.code[g][t]
  BY EditFacts DEF Inv
<1>3. \A g \in File : \A c \in Change :
         /\ tree'.code[g][Fixed(c)] = tree.code[g][Fixed(c)]
         /\ tree'.code[g][Uses(c)] = tree.code[g][Uses(c)]
  BY <1>2, Texts
<1>4. TypeOK'
  BY <1>1, <1>2 DEF Inv, TypeOK
<1>5. PlaceOK'
  BY <1>1 DEF Inv, PlaceOK
<1>6. StandOK'
  BY <1>1, <1>2 DEF Inv, StandOK, Working, SameButWork
<1>7. PendingOK'
  BY <1>1, <1>2, <1>3 DEF Inv, PendingOK, Holding, SameButWork, Runs
<1>8. NewOK'
  BY <1>1, <1>3 DEF Inv, NewOK, Working, Holding, Settled, Patched
<1> QED
  BY <1>4, <1>5, <1>6, <1>7, <1>8 DEF Inv

\* Every step keeps the invariant, ...
LEMMA NextInv == Inv /\ [Next]_vars => Inv'
<1> SUFFICES ASSUME Inv, [Next]_vars
             PROVE  Inv'
  OBVIOUS
<1> USE DEF Inv
<1>1. CASE Publish
  <2>1. /\ UNCHANGED <<commits, base, head, tree, pc, run, settled, runs>>
        /\ published' \in Change
    BY <1>1, BoundAssumption DEF Publish, TypeOK, Change
  <2> QED
    BY <2>1 DEF TypeOK, PlaceOK, StandOK, PendingOK, NewOK, Working, Holding, Settled
<1>2. CASE CommitAll
  <2>1. pc = "idle" /\ pc' = pc /\ run' = run /\ TypeOK'
    BY <1>2 DEF CommitAll, TypeOK
  <2> QED
    BY <2>1, BetweenRuns
<1>3. CASE Discard
  <2>1. pc = "idle" /\ pc' = pc /\ run' = run /\ TypeOK'
    BY <1>3 DEF Discard, TypeOK
  <2> QED
    BY <2>1, BetweenRuns
<1>4. CASE BackToMain
  <2>1. pc = "idle" /\ pc' = pc /\ run' = run /\ TypeOK'
    BY <1>4 DEF BackToMain, TypeOK
  <2> QED
    BY <2>1, BetweenRuns
<1>5. CASE Fail
  <2>1. pc' = "idle" /\ run' = Idle /\ TypeOK'
    BY <1>5, IdleRuns DEF Fail, TypeOK, Idle, Runs
  <2> QED
    BY <2>1, AtRest
<1>6. ASSUME NEW b \in DOMAIN commits \ {Main}, Merge(b)
      PROVE  Inv'
  <2>1. pc = "idle" /\ pc' = pc /\ run' = run /\ TypeOK'
    BY <1>6 DEF Merge, TypeOK
  <2> QED
    BY <2>1, BetweenRuns
<1>7. ASSUME NEW f \in File, Edit(f)
      PROVE  Inv'
  BY <1>7, EditInv
<1>8. ASSUME NEW apply \in BOOLEAN, NEW b \in Branch, StartWatch(apply, b)
      PROVE  Inv'
  <2>1. /\ pc' = "loaded" /\ runs' = runs + 1 /\ runs < MaxRuns
        /\ UNCHANGED <<published, commits, base, head, tree, settled>>
        /\ run' = [Idle EXCEPT !.apply = apply, !.branch = b, !.current = published]
    BY <1>8 DEF StartWatch
  <2>2. /\ run' \in Runs /\ run'.tool = "watch" /\ run'.files = {}
        /\ run'.unwritten = {} /\ run'.edits = << >>
    <3>1. /\ Idle \in Runs /\ Idle.files = {} /\ Idle.unwritten = {}
          /\ Idle.tool = "watch" /\ Idle.edits = << >>
      BY IdleRuns DEF Idle
    <3>2. published \in 0 .. LastVersion
      BY DEF TypeOK, Change
    <3> QED
      BY <2>1, <3>1, <3>2 DEF Runs
  <2>3. TypeOK'
    <3>1. runs' \in 0 .. MaxRuns
      BY <2>1, BoundAssumption DEF TypeOK
    <3> QED
      BY <2>1, <2>2, <3>1 DEF TypeOK, Runs
  <2> QED
    BY <2>1, <2>2, <2>3 DEF PlaceOK, StandOK, PendingOK, NewOK, Working, Holding
<1>9. ASSUME NEW apply \in BOOLEAN, NEW b \in Branch, NEW fs \in Findings,
             StartFix(apply, b, fs)
      PROVE  Inv'
  BY <1>9, StartFixInv
<1>10. \A cs \in SUBSET Change :
          ReturnSettling(cs) /\ tree' \in Snapshot => Inv'
  <2> SUFFICES ASSUME NEW cs \in SUBSET Change, ReturnSettling(cs), tree' \in Snapshot
               PROVE  Inv'
    OBVIOUS
  <2>1. TypeOK'
    BY IdleRuns DEF ReturnSettling, TypeOK, Idle, Runs
  <2> QED
    BY <2>1, AtRest DEF ReturnSettling
<1>11. CacheAfter \in Snapshot /\ tree \in Snapshot
  BY CacheAfterFacts DEF TypeOK
<1>12. run.open \in SUBSET Change
  BY DEF TypeOK
<1>13. CASE FirstRun
  <2>1. 1 .. run.current \in SUBSET Change
    BY BoundAssumption DEF PlaceOK, Runs, Change
  <2> QED
    BY <1>13, <1>10, <1>11, <2>1 DEF FirstRun
<1>14. CASE NothingChanged
  BY <1>14, <1>10, <1>11 DEF NothingChanged
<1>15. ASSUME NEW missed \in SUBSET Changes, NothingToPatch(missed)
       PROVE  Inv'
  <2>1. missed \in SUBSET Change
    BY BreakingAssumption DEF Changes
  <2> QED
    BY <1>15, <1>10, <1>11, <2>1 DEF NothingToPatch
<1>16. ASSUME NEW missed \in SUBSET Changes, Find(missed)
       PROVE  Inv'
  BY <1>16, FindInv
<1>17. ASSUME NEW reply, NEW edits, Ask(reply, edits)
       PROVE  Inv'
  BY <1>17, AskInv
<1>18. CASE NoEdits
  BY <1>18, <1>10, <1>11, <1>12 DEF NoEdits
<1>19. CASE Verify
  BY <1>19, VerifyInv
<1>20. CASE DryRun
  BY <1>20, <1>10, <1>11, <1>12 DEF DryRun
<1>21. CASE NothingApplied
  BY <1>21, <1>10, <1>11, <1>12 DEF NothingApplied
<1>22. CASE BeginWriting
  <2>1. /\ pc = "answered" /\ pc' = "writing" /\ run.apply
        /\ UNCHANGED <<published, commits, base, head, tree, run, settled, runs>>
    BY <1>22 DEF BeginWriting, Writes
  <2> QED
    BY <2>1 DEF TypeOK, PlaceOK, StandOK, PendingOK, NewOK, Working, Holding, Settled
<1>23. ASSUME NEW f \in File, WriteFile(f)
       PROVE  Inv'
  BY <1>23, WriteFileInv
<1>24. CASE WriteCache
  BY <1>24, WriteCacheInv
<1>25. CASE CutBranch
  BY <1>25, CutBranchInv
<1>26. CASE Commit
  <2>1. Staged \in Snapshot
    BY DEF Staged, TypeOK, Snapshot, Code
  <2>2. pc' = "idle" /\ run' = Idle /\ TypeOK'
    BY <1>26, <2>1, IdleRuns DEF Commit, TypeOK, Idle, Runs
  <2> QED
    BY <2>2, AtRest
<1>27. CASE UNCHANGED vars
  BY <1>27 DEF vars, TypeOK, PlaceOK, StandOK, PendingOK, NewOK, Working, Holding, Settled
<1> QED
  BY <1>1, <1>2, <1>3, <1>4, <1>5, <1>6, <1>7, <1>8, <1>9, <1>13, <1>14, <1>15, <1>16,
     <1>17, <1>18, <1>19, <1>20, <1>21, <1>22, <1>23, <1>24, <1>25, <1>26, <1>27, Zenon
  DEF Next

\* ... and it holds at the start.
LEMMA InitInv == Init => Inv
<1> SUFFICES ASSUME Init
             PROVE  Inv
  OBVIOUS
<1>1. PICK cached \in {0, 1} :
         commits = [b \in {Main} |-> [code |-> Original, cache |-> cached]]
  BY DEF Init
<1>2. [code |-> Original, cache |-> cached] \in Snapshot
  BY CodeAssumption, BoundAssumption DEF Snapshot
<1>3. /\ published = 1 /\ base = commits /\ head = Main /\ tree = commits[Main]
      /\ pc = "idle" /\ run = Idle /\ settled = {} /\ runs = 0
  BY DEF Init
<1>4. TypeOK
  <2>1. 1 \in Change /\ 0 \in 0 .. MaxRuns
    BY BoundAssumption DEF Change
  <2>2. run.jobs = << >> /\ run.pending \in Code /\ run.files = {} /\ run.unwritten = {}
        /\ run.open = {}
    BY <1>3, CodeAssumption DEF Idle
  <2>3. run.jobs \in Seq(Change)
    BY <2>2
  <2> HIDE DEF Main
  <2>4. DOMAIN commits = {Main} /\ commits[Main] \in Snapshot
    BY <1>1, <1>2
  <2> QED
    BY <1>3, <2>1, <2>2, <2>3, <2>4 DEF TypeOK
<1> QED
  BY <1>3, <1>4, IdleRuns DEF Inv, PlaceOK, StandOK, PendingOK, NewOK, Working, Holding

\* Every value keeps its type, for every repository and any number of runs.
THEOREM TypeCorrect == Spec => []TypeOK
<1>1. Inv => TypeOK
  BY DEF Inv
<1> QED
  BY <1>1, InitInv, NextInv, PTL DEF Spec
-----------------------------------------------------------------------------
(***************************************************************************)
(* What a commit of watch holds.                                            *)
(***************************************************************************)
\* A patch that watch commits is of a change the same commit counts as seen:
\* merging the branch settles the changes it patches.
THEOREM PatchedIsHandledHolds == Spec => PatchedIsHandled
<1>1. Inv /\ [Next]_vars =>
         [pc = "committing" /\ commits'[head] # commits[head] /\ run.tool = "watch" =>
             \A c \in Breaking :
                Patched(c, commits'[head].code) /\ ~Patched(c, commits[head].code)
                  => c <= commits'[head].cache]_vars
  <2> SUFFICES ASSUME Inv, Next,
                      pc = "committing", commits'[head] # commits[head], run.tool = "watch",
                      NEW c \in Breaking,
                      Patched(c, commits'[head].code), ~Patched(c, commits[head].code)
               PROVE  c <= commits'[head].cache
    OBVIOUS
  <2>1. Commit
    BY DEF Next, Publish, CommitAll, Discard, BackToMain, Fail, Merge, Edit, StartWatch,
           StartFix, FirstRun, NothingChanged, NothingToPatch, Find, Ask, NoEdits, Verify,
           DryRun, NothingApplied, BeginWriting, WriteFile, WriteCache, CutBranch
  <2>2. commits'[head] = Staged
    BY <2>1 DEF Commit, Inv, TypeOK
  <2>3. /\ c \in Change /\ run.apply /\ Working
        /\ tree.cache = run.current
    BY BreakingAssumption DEF Inv, PlaceOK, StandOK, Working
  <2>4. Staged.cache = run.current
    BY <2>3 DEF Staged
  <2>5. PICK f \in File : Staged.code[f][Fixed(c)] > 0
    BY <2>2 DEF Patched
  <2>6. Staged.code[f] = IF f \in run.files THEN tree.code[f] ELSE commits[head].code[f]
    BY DEF Staged
  <2>7. tree.code[f][Fixed(c)] > 0
    BY <2>5, <2>6 DEF Patched
  <2>8. Settled(c)
    BY <2>3, <2>7 DEF Inv, NewOK, Patched
  <2> QED
    BY <2>2, <2>4, <2>8 DEF Settled
<1> QED
  BY <1>1, InitInv, NextInv, PTL DEF Spec, PatchedIsHandled
-----------------------------------------------------------------------------
(***************************************************************************)
(* The owner's work.                                                        *)
(***************************************************************************)
\* When nobody works in the tree during a run, the owner's work there stays
\* what the commit has.
LEMMA NextWork == ~Interferes /\ Inv /\ WorkOK /\ [Next]_vars => WorkOK'
<1> SUFFICES ASSUME ~Interferes, Inv, WorkOK, [Next]_vars
             PROVE  WorkOK'
  OBVIOUS
<1>1. CASE \/ Publish \/ CommitAll \/ Discard \/ BackToMain \/ Fail \/ FirstRun
           \/ NothingChanged \/ NoEdits \/ DryRun \/ NothingApplied \/ Commit
           \/ UNCHANGED vars
  BY <1>1, IdleRuns
  DEF Publish, CommitAll, Discard, BackToMain, Fail, FirstRun, NothingChanged, NoEdits,
      DryRun, NothingApplied, Commit, ReturnSettling, vars, WorkOK, Working, Holding
<1>2. ASSUME NEW b \in DOMAIN commits \ {Main}, Merge(b)
      PROVE  WorkOK'
  BY <1>2 DEF Merge, WorkOK, Working
<1>3. ASSUME NEW f \in File, Edit(f)
      PROVE  WorkOK'
  BY <1>3 DEF Edit, WorkOK, Working
<1>4. ASSUME NEW apply \in BOOLEAN, NEW b \in Branch, StartWatch(apply, b)
      PROVE  WorkOK'
  BY <1>4 DEF StartWatch, WorkOK, Working
<1>5. ASSUME NEW apply \in BOOLEAN, NEW b \in Branch, NEW fs \in Findings,
             StartFix(apply, b, fs)
      PROVE  WorkOK'
  <2>1. pc' = "asking" /\ UNCHANGED <<tree, commits, head>> /\ run'.apply = apply
        /\ (apply => tree = commits[head])
    BY <1>5 DEF StartFix, MayWrite, Clean, Idle
  <2> QED
    BY <2>1 DEF WorkOK, Holding
<1>6. ASSUME NEW missed, NothingToPatch(missed)
      PROVE  WorkOK'
  BY <1>6, IdleRuns DEF NothingToPatch, ReturnSettling, WorkOK, Working
<1>7. ASSUME NEW missed, Find(missed)
      PROVE  WorkOK'
  <2>1. pc' = "asking" /\ UNCHANGED <<tree, commits, head>> /\ run'.apply = run.apply
        /\ (run.apply => tree = commits[head])
    BY <1>7 DEF Find, MayWrite, Clean, Inv, PlaceOK, Runs
  <2> QED
    BY <2>1 DEF WorkOK, Holding
<1>8. ASSUME NEW reply, NEW edits, Ask(reply, edits)
      PROVE  WorkOK'
  <2>1. pc = "asking" /\ pc' = "asking" /\ UNCHANGED <<tree, commits, head>>
        /\ run'.apply = run.apply
    BY <1>8, AskFacts DEF Ask
  <2> QED
    BY <2>1 DEF WorkOK, Working, Holding
<1>9. CASE Verify
  <2>1. pc = "asking" /\ UNCHANGED <<tree, commits, head>>
    BY <1>9 DEF Verify
  <2>2. run'.apply = run.apply
        /\ \A f \in File : run'.pending[f][Work] = tree.code[f][Work]
    BY <1>9, VerifyFacts
  <2> QED
    BY <2>1, <2>2 DEF WorkOK, Working
<1>10. CASE BeginWriting
  <2>1. pc = "answered" /\ pc' = "writing" /\ UNCHANGED <<tree, commits, head, run>>
    BY <1>10 DEF BeginWriting
  <2> QED
    BY <2>1 DEF WorkOK, Working, Holding
<1>11. ASSUME NEW f \in File, WriteFile(f)
       PROVE  WorkOK'
  <2>1. pc = "writing" /\ pc' = "writing" /\ f \in run.unwritten
        /\ UNCHANGED <<commits, head>>
    BY <1>11 DEF WriteFile
  <2>2. /\ \A g \in File : tree'.code[g] = IF g = f THEN run.pending[f] ELSE tree.code[g]
        /\ run'.unwritten = run.unwritten \ {f}
        /\ run'.apply = run.apply /\ run'.pending = run.pending
    BY <1>11, WriteFacts DEF Inv
  <2> QED
    BY <2>1, <2>2 DEF WorkOK, Working, Holding
<1>12. CASE WriteCache
  <2>1. pc = "writing" /\ pc' = "written" /\ UNCHANGED <<commits, head, run>>
        /\ tree'.code = tree.code
    BY <1>12, CacheAfterFacts DEF WriteCache, Inv
  <2> QED
    BY <2>1 DEF WorkOK, Working, Holding
<1>13. CASE CutBranch
  <2>1. pc = "written" /\ pc' = "committing" /\ UNCHANGED <<tree, run>>
    BY <1>13 DEF CutBranch
  <2>2. commits'[head'] = commits[head]
    BY <1>13, CutBranchFacts
  <2> QED
    BY <2>1, <2>2 DEF WorkOK, Working, Holding
<1> QED
  BY <1>1, <1>2, <1>3, <1>4, <1>5, <1>6, <1>7, <1>8, <1>9, <1>10, <1>11, <1>12, <1>13,
     Zenon
  DEF Next

\* While a command has patches in the tree that no commit has, the owner's own
\* work is all committed, when the owner leaves the tree alone during the run.
THEOREM UndoLosesNothingHolds == ~Interferes /\ Spec => []UndoLosesNothing
<1>1. Init => WorkOK
  BY DEF Init, WorkOK, Working
<1>2. Inv /\ WorkOK => UndoLosesNothing
  BY DEF Inv, PlaceOK, WorkOK, UndoLosesNothing, Working
<1>3. CASE ~Interferes
  <2>1. Inv /\ WorkOK /\ [Next]_vars => WorkOK'
    BY <1>3, NextWork
  <2> QED
    BY <1>1, <1>2, <2>1, InitInv, NextInv, PTL DEF Spec
<1> QED
  BY <1>3
-----------------------------------------------------------------------------
(***************************************************************************)
(* No change is lost between the search of watch and its cache.             *)
(***************************************************************************)
\* HandledIsAccounted, said of the tree and of each branch.
LEMMA HandledEach ==
    HandledIsAccounted <=>
       \A c \in Breaking :
          /\ c <= tree.cache => Accounted(tree, c)
          /\ \A b \in DOMAIN commits :
                c <= commits[b].cache => Accounted(commits[b], c)
BY DEF HandledIsAccounted, Accounted

\* A run that ends with the cache moved has accounted for the changes it moved
\* past.
LEMMA EndsAccounted ==
    ASSUME Inv, HandledIsAccounted, NEW cs, ReturnSettling(cs), tree' = CacheAfter,
           run.tool = "watch" => \A c \in Breaking :
              tree.cache < c /\ c <= run.current => Accounted(tree, c) \/ c \in cs
    PROVE  Followed'
<1>1. /\ pc' = "idle" /\ settled' = settled \cup cs /\ UNCHANGED commits
      /\ tree'.code = tree.code
      /\ tree'.cache = IF run.tool = "watch" THEN run.current ELSE tree.cache
      /\ run.current \in Nat /\ tree.cache \in Nat
  BY CacheAfterFacts, BoundAssumption
  DEF ReturnSettling, Inv, PlaceOK, Runs, TypeOK, Snapshot
<1>2. ASSUME NEW c \in Breaking, c <= tree'.cache
      PROVE  Patched(c, tree'.code) \/ Sites(c, tree'.code) = {} \/ c \in settled'
  <2>1. c \in Nat
    BY BreakingAssumption, ChangesFinite
  <2>2. c <= tree.cache \/ (run.tool = "watch" /\ tree.cache < c /\ c <= run.current)
    BY <1>1, <1>2, <2>1
  <2> QED
    BY <1>1, <2>2, HandledEach DEF Accounted
<1>3. HandledIsAccounted'
  BY <1>1, <1>2 DEF HandledIsAccounted
<1>4. FollowOK'
  BY <1>1 DEF FollowOK
<1> QED
  BY <1>3, <1>4 DEF Followed

\* watch knows its jobs: every change it may not lose is accounted for or one
\* of them.
LEMMA FindFollows ==
    ASSUME EveryJob, Inv, Followed, NEW missed \in SUBSET Changes, Find(missed)
    PROVE  Followed'
<1>1. PICK order \in InOrder(Touching(missed)) : run' = [run EXCEPT !.jobs = Capped(order)]
  BY DEF Find
<1>2. /\ Touching(missed) \in SUBSET Breaking /\ Touching(missed) \in SUBSET Nat
      /\ IsFiniteSet(Touching(missed)) /\ IsFiniteSet(Breaking)
  BY BreakingAssumption, ChangesFinite DEF Touching, Changes
<1>3. /\ order \in Seq(Touching(missed)) /\ Len(order) = Cardinality(Touching(missed))
      /\ \A c \in Touching(missed) : \E n \in DOMAIN order : order[n] = c
  BY <1>2, InOrderLists
<1>4. Len(order) <= MaxFix
  <2>1. Cardinality(Touching(missed)) <= Cardinality(Breaking)
    BY <1>2, FS_Subset
  <2>2. /\ Cardinality(Touching(missed)) \in Nat /\ Cardinality(Breaking) \in Nat
        /\ MaxFix \in Nat
    BY <1>2, FS_CardinalityType, MaxAssumption
  <2> QED
    BY <2>1, <2>2, <1>3 DEF EveryJob
<1>5. Capped(order) = order
  BY <1>3, <1>4, CappedKeeps
<1>6. /\ pc' = "asking" /\ settled' = settled \cup missed
      /\ UNCHANGED <<commits, tree>> /\ run.tool = "watch"
      /\ run'.jobs = order /\ run'.current = run.current /\ run'.open = run.open
  BY <1>1, <1>5 DEF Find, Inv, PlaceOK, Runs
<1>7. HandledIsAccounted'
  BY <1>6 DEF Followed, HandledIsAccounted
<1>8. ASSUME NEW c \in Breaking, tree.cache < c, c <= run.current
      PROVE  Accounted(tree, c)' \/ Pursued(c)'
  <2>1. c \in missed \/ Sites(c, tree.code) = {} \/ c \in Touching(missed)
    BY <1>8 DEF Changes, Touching
  <2> QED
    BY <2>1, <1>3, <1>6 DEF Accounted, Pursued
<1> QED
  BY <1>6, <1>7, <1>8 DEF Followed, FollowOK

\* A job leaves the list with edits, or with a verdict that there are none.
LEMMA AskFollows ==
    ASSUME Inv, Followed, NEW reply \in Taken, NEW edits, Ask(reply, edits)
    PROVE  Followed'
<1>1. /\ pc = "asking" /\ pc' = "asking"
      /\ UNCHANGED <<commits, tree, settled>>
  BY DEF Ask
<1>2. HandledIsAccounted'
  BY <1>1 DEF Followed, HandledIsAccounted
<1>3. /\ run.jobs \in Seq(Change) /\ run.jobs # << >>
      /\ run.edits \in Seq(AnyEdit) /\ edits \in Seq(AnyEdit)
  BY AskFacts DEF Inv, PlaceOK, Runs
<1>4. ASSUME NEW c, Pursued(c)
      PROVE  Pursued(c)'
  <2>1. CASE c \in run.open
    BY <2>1, AskFacts DEF Pursued
  <2>2. ASSUME NEW n \in DOMAIN run.edits, run.edits[n].change = c
        PROVE  Pursued(c)'
    <3>1. n \in DOMAIN (run.edits \o edits) /\ (run.edits \o edits)[n] = run.edits[n]
      BY <1>3
    <3> QED
      BY <2>2, <3>1, <1>1, AskFacts DEF Pursued
  <2>3. ASSUME NEW n \in DOMAIN run.jobs, run.jobs[n] = c, n # 1
        PROVE  Pursued(c)'
    <3>1. n - 1 \in DOMAIN Tail(run.jobs) /\ Tail(run.jobs)[n - 1] = run.jobs[n]
      BY <1>3, <2>3
    <3> QED
      BY <2>3, <3>1, <1>1, AskFacts DEF Pursued
  <2>4. CASE Head(run.jobs) = c /\ edits = << >>
    BY <2>4, AskFacts, TakenIsVerdict DEF Pursued
  <2>5. CASE Head(run.jobs) = c /\ edits # << >>
    <3>1. 1 \in DOMAIN edits
      BY <1>3, <2>5
    <3>2. /\ Len(run.edits) + 1 \in DOMAIN (run.edits \o edits)
          /\ (run.edits \o edits)[Len(run.edits) + 1] = edits[1]
      BY <1>3, <3>1
    <3>3. edits[1].change = c
      BY <2>5, <3>1, AskFacts
    <3> QED
      BY <3>2, <3>3, <1>1, AskFacts DEF Pursued
  <2>6. \A n \in DOMAIN run.jobs : n # 1 \/ run.jobs[n] = Head(run.jobs)
    BY <1>3
  <2> QED
    BY <1>1, <1>4, <2>1, <2>2, <2>3, <2>4, <2>5, <2>6 DEF Pursued, Holding
<1>5. FollowOK'
  BY <1>1, <1>4, AskFacts DEF Followed, FollowOK, Accounted
<1> QED
  BY <1>2, <1>5 DEF Followed

\* An edit verified is to be written, and a rejected one is shown.
LEMMA VerifyFollows ==
    ASSUME Inv, Followed, Verify
    PROVE  Followed'
<1>1. /\ pc = "asking" /\ pc' = "answered" /\ run.jobs = << >>
      /\ UNCHANGED <<commits, tree, settled>>
  BY DEF Verify
<1>2. HandledIsAccounted'
  BY <1>1 DEF Followed, HandledIsAccounted
<1>3. ASSUME NEW c, Pursued(c)
      PROVE  Pursued(c)'
  <2>1. CASE c \in run.open
    BY <2>1, VerifyFacts DEF Pursued
  <2>2. ASSUME NEW n \in DOMAIN run.edits, run.edits[n].change = c
        PROVE  Pursued(c)'
    BY <2>2, <1>1, VerifyFacts DEF Pursued, Holding
  <2> QED
    BY <1>1, <1>3, <2>1, <2>2 DEF Pursued, Holding
<1>4. FollowOK'
  BY <1>1, <1>3, VerifyFacts DEF Followed, FollowOK, Accounted
<1> QED
  BY <1>2, <1>4 DEF Followed

\* Writing a file takes no fix out of the tree and puts no use into it.
LEMMA WriteFileFollows ==
    ASSUME Inv, Followed, NEW f \in File, WriteFile(f)
    PROVE  Followed'
<1>1. /\ pc = "writing" /\ pc' = "writing" /\ f \in run.unwritten
      /\ UNCHANGED <<commits, settled>>
  BY DEF WriteFile
<1>2. /\ tree'.cache = tree.cache
      /\ \A g \in File : tree'.code[g] = IF g = f THEN run.pending[f] ELSE tree.code[g]
      /\ run'.tool = run.tool /\ run'.current = run.current /\ run'.open = run.open
      /\ run'.pending = run.pending /\ run'.files = run.files
  BY WriteFacts DEF Inv
<1>3. \A c \in Change :
         /\ tree.code[f][Fixed(c)] > 0 => run.pending[f][Fixed(c)] > 0
         /\ run.pending[f][Uses(c)] > 0 => tree.code[f][Uses(c)] > 0
  BY <1>1 DEF Inv, PendingOK, Holding
<1>4. ASSUME NEW c \in Change, Accounted(tree, c)
      PROVE  Accounted(tree, c)'
  <2>1. Patched(c, tree.code) => Patched(c, tree'.code)
    BY <1>2, <1>3 DEF Patched
  <2>2. Sites(c, tree.code) = {} => Sites(c, tree'.code) = {}
    BY <1>2, <1>3 DEF Sites
  <2> QED
    BY <1>1, <1>4, <2>1, <2>2 DEF Accounted
<1>5. HandledIsAccounted'
  <2>1. \A c \in Breaking : c <= tree'.cache =>
           Patched(c, tree'.code) \/ Sites(c, tree'.code) = {} \/ c \in settled'
    BY <1>2, <1>4, HandledEach, BreakingAssumption DEF Followed, Accounted
  <2> QED
    BY <1>1, <2>1 DEF Followed, HandledIsAccounted
<1>6. FollowOK'
  BY <1>1, <1>2, <1>4, BreakingAssumption DEF Followed, FollowOK, Pursued, Holding
<1> QED
  BY <1>5, <1>6 DEF Followed

\* What is written when the cache moves accounts for all it moves past.
LEMMA WriteCacheFollows ==
    ASSUME Inv, Followed, WriteCache
    PROVE  Followed'
<1>1. /\ pc = "writing" /\ pc' = "written" /\ run.unwritten = {}
      /\ UNCHANGED commits /\ settled' = settled \cup run.open
      /\ tree'.code = tree.code
      /\ tree'.cache = IF run.tool = "watch" THEN run.current ELSE tree.cache
      /\ run.current \in Nat /\ tree.cache \in Nat
  BY CacheAfterFacts, BoundAssumption
  DEF WriteCache, FilesWritten, Inv, PlaceOK, Runs, TypeOK, Snapshot
<1>2. ASSUME NEW c \in Change, Pursued(c)
      PROVE  Patched(c, tree.code) \/ c \in run.open
  <2>1. \A f \in run.files : f \in File /\ tree.code[f][Fixed(c)] = run.pending[f][Fixed(c)]
    BY <1>1, Texts DEF Inv, PlaceOK, Runs, PendingOK, Holding, SameButWork
  <2> QED
    BY <1>1, <1>2, <2>1 DEF Pursued, Holding, Patched
<1>3. ASSUME NEW c \in Breaking, c <= tree'.cache
      PROVE  Patched(c, tree'.code) \/ Sites(c, tree'.code) = {} \/ c \in settled'
  <2>1. c \in Nat /\ c \in Change
    BY BreakingAssumption, ChangesFinite
  <2>2. c <= tree.cache \/ (run.tool = "watch" /\ tree.cache < c /\ c <= run.current)
    BY <1>1, <1>3, <2>1
  <2>3. Accounted(tree, c) \/ Pursued(c)
    BY <1>1, <2>2, HandledEach DEF Followed, FollowOK
  <2> QED
    BY <1>1, <1>2, <2>1, <2>3 DEF Accounted
<1>4. HandledIsAccounted'
  BY <1>1, <1>3 DEF Followed, HandledIsAccounted
<1>5. FollowOK'
  BY <1>1 DEF FollowOK
<1> QED
  BY <1>4, <1>5 DEF Followed

\* The commit holds what the tree does, the owner's work apart.
LEMMA CommitFollows ==
    ASSUME Inv, Followed, Commit
    PROVE  Followed'
<1>1. /\ pc = "committing" /\ pc' = "idle" /\ UNCHANGED <<tree, settled>>
      /\ commits' = [commits EXCEPT ![head] = Staged] /\ run.apply /\ Working
  BY DEF Commit, Inv, PlaceOK, Working
<1>2. Staged.cache = tree.cache
  BY <1>1 DEF Staged, Inv, StandOK, PlaceOK, Runs
<1>3. \A f \in File : \A t \in Text \ {Work} : Staged.code[f][t] = tree.code[f][t]
  BY <1>1 DEF Staged, Inv, StandOK, SameButWork
<1>4. \A c \in Change : Accounted(tree, c) => Accounted(Staged, c)
  <2>1. \A f \in File : \A c \in Change :
           /\ Staged.code[f][Fixed(c)] = tree.code[f][Fixed(c)]
           /\ Staged.code[f][Uses(c)] = tree.code[f][Uses(c)]
    BY <1>3, Texts
  <2> QED
    BY <2>1 DEF Accounted, Patched, Sites
<1>5. HandledIsAccounted'
  <2>1. \A c \in Breaking : c <= Staged.cache => Accounted(Staged, c)
    BY <1>2, <1>4, HandledEach, BreakingAssumption DEF Followed
  <2>2. \A b \in DOMAIN commits' :
           commits'[b] = IF b = head THEN Staged ELSE commits[b]
    BY <1>1
  <2>3. DOMAIN commits' = DOMAIN commits
    BY <1>1
  <2> HIDE DEF Staged
  <2>4. ASSUME NEW s \in {tree} \cup {commits'[b] : b \in DOMAIN commits'},
               NEW c \in Breaking, c <= s.cache
        PROVE  Accounted(s, c)
    BY <2>1, <2>2, <2>3, <2>4, HandledEach DEF Followed
  <2> QED
    BY <1>1, <2>4 DEF HandledIsAccounted, Accounted
<1>6. FollowOK'
  BY <1>1 DEF FollowOK
<1> QED
  BY <1>5, <1>6 DEF Followed

\* Every step keeps the two together, when there is no job too many.
LEMMA NextFollows == EveryJob /\ Inv /\ Followed /\ [Next]_vars => Followed'
<1> SUFFICES ASSUME EveryJob, Inv, Followed, [Next]_vars
             PROVE  Followed'
  OBVIOUS
<1> USE DEF Followed
<1>1. CASE Publish \/ BeginWriting \/ UNCHANGED vars
  BY <1>1 DEF Publish, BeginWriting, vars, HandledIsAccounted, FollowOK, Accounted,
              Pursued, Holding
<1>2. ASSUME pc' = "idle" \/ pc' = "loaded", settled \subseteq settled',
             {tree'} \cup {commits'[b] : b \in DOMAIN commits'}
                \subseteq {tree} \cup {commits[b] : b \in DOMAIN commits}
      PROVE  Followed'
  <2>1. HandledIsAccounted'
    BY <1>2 DEF HandledIsAccounted
  <2> QED
    BY <1>2, <2>1 DEF FollowOK
<1>3. CASE CommitAll
  BY <1>2, <1>3 DEF CommitAll
<1>4. CASE Discard
  BY <1>2, <1>4 DEF Discard, Inv, TypeOK
<1>5. CASE BackToMain
  BY <1>2, <1>5 DEF BackToMain, Inv, TypeOK
<1>6. CASE Fail
  BY <1>2, <1>6 DEF Fail
<1>7. ASSUME NEW b \in DOMAIN commits \ {Main}, Merge(b)
      PROVE  Followed'
  BY <1>2, <1>7 DEF Merge
<1>8. ASSUME NEW f \in File, Edit(f)
      PROVE  Followed'
  <2>1. /\ UNCHANGED <<commits, pc, run, settled>> /\ tree'.cache = tree.cache
        /\ \A g \in File : \A c \in Change :
              /\ tree'.code[g][Fixed(c)] = tree.code[g][Fixed(c)]
              /\ tree'.code[g][Uses(c)] = tree.code[g][Uses(c)]
    BY <1>8, EditFacts, Texts DEF Edit, Inv
  <2>2. \A c \in Change :
           /\ Patched(c, tree'.code) = Patched(c, tree.code)
           /\ Sites(c, tree'.code) = Sites(c, tree.code)
    BY <2>1 DEF Patched, Sites
  <2>3. HandledIsAccounted'
    BY <2>1, <2>2, BreakingAssumption DEF HandledIsAccounted
  <2>4. FollowOK'
    BY <2>1, <2>2, BreakingAssumption DEF FollowOK, Accounted, Pursued, Holding
  <2> QED
    BY <2>3, <2>4
<1>9. ASSUME NEW apply \in BOOLEAN, NEW b \in Branch, StartWatch(apply, b)
      PROVE  Followed'
  BY <1>2, <1>9 DEF StartWatch
<1>10. ASSUME NEW apply \in BOOLEAN, NEW b \in Branch, NEW fs \in Findings,
              StartFix(apply, b, fs)
       PROVE  Followed'
  <2>1. UNCHANGED <<commits, tree, settled>> /\ run'.tool = "fix"
    BY <1>10 DEF StartFix, Idle
  <2> QED
    BY <2>1 DEF HandledIsAccounted, FollowOK
<1>11. CASE FirstRun
  <2>1. pc = "loaded" /\ tree' = CacheAfter /\ ReturnSettling(1 .. run.current)
    BY <1>11 DEF FirstRun
  <2>2. \A c \in Breaking : c <= run.current => c \in 1 .. run.current
    BY BreakingAssumption, BoundAssumption DEF Change, Inv, PlaceOK, Runs
  <2> QED
    BY <2>1, <2>2, EndsAccounted
<1>12. CASE NothingChanged
  <2>1. /\ tree' = CacheAfter /\ ReturnSettling({})
        /\ \A c \in Breaking : ~(tree.cache < c /\ c <= run.current)
    BY <1>12 DEF NothingChanged, Changes
  <2> QED
    BY <2>1, EndsAccounted
<1>13. ASSUME NEW missed \in SUBSET Changes, NothingToPatch(missed)
       PROVE  Followed'
  <2>1. tree' = CacheAfter /\ ReturnSettling(missed) /\ Touching(missed) = {}
    BY <1>13 DEF NothingToPatch
  <2>2. \A c \in Breaking : tree.cache < c /\ c <= run.current =>
           c \in missed \/ Sites(c, tree.code) = {}
    BY <2>1 DEF Touching, Changes
  <2> QED
    BY <2>1, <2>2, EndsAccounted DEF Accounted
<1>14. ASSUME NEW missed \in SUBSET Changes, Find(missed)
       PROVE  Followed'
  BY <1>14, FindFollows
<1>15. ASSUME NEW reply \in Taken, NEW edits, Ask(reply, edits)
       PROVE  Followed'
  BY <1>15, AskFollows
<1>16. CASE NoEdits
  <2>1. /\ pc = "asking" /\ run.jobs = << >> /\ run.edits = << >>
        /\ tree' = CacheAfter /\ ReturnSettling(run.open)
    BY <1>16 DEF NoEdits
  <2>2. \A c : Pursued(c) => c \in run.open
    BY <2>1 DEF Pursued, Holding
  <2> QED
    BY <2>1, <2>2, EndsAccounted DEF FollowOK
<1>17. CASE Verify
  BY <1>17, VerifyFollows
<1>18. CASE DryRun
  BY <1>2, <1>18 DEF DryRun, ReturnSettling
<1>19. CASE NothingApplied
  <2>1. /\ pc = "answered" /\ run.files = {}
        /\ tree' = CacheAfter /\ ReturnSettling(run.open)
    BY <1>19 DEF NothingApplied
  <2>2. \A c : Pursued(c) => c \in run.open
    BY <2>1 DEF Pursued
  <2> QED
    BY <2>1, <2>2, EndsAccounted DEF FollowOK
<1>20. ASSUME NEW f \in File, WriteFile(f)
       PROVE  Followed'
  BY <1>20, WriteFileFollows
<1>21. CASE WriteCache
  BY <1>21, WriteCacheFollows
<1>22. CASE CutBranch
  <2>1. /\ pc' = "committing" /\ UNCHANGED <<tree, settled>>
        /\ {commits'[b] : b \in DOMAIN commits'} \subseteq {commits[b] : b \in DOMAIN commits}
    BY <1>22, CutBranchFacts DEF CutBranch, Inv, TypeOK
  <2>2. HandledIsAccounted'
    BY <2>1 DEF HandledIsAccounted
  <2> QED
    BY <2>1, <2>2 DEF FollowOK
<1>23. CASE Commit
  BY <1>23, CommitFollows
<1> QED
  BY <1>1, <1>3, <1>4, <1>5, <1>6, <1>7, <1>8, <1>9, <1>10, <1>11, <1>12, <1>13, <1>14,
     <1>15, <1>16, <1>17, <1>18, <1>19, <1>20, <1>21, <1>22, <1>23, Zenon
  DEF Next

\* When -max cuts no job off, the cached specification never runs ahead of the
\* work: what it counts as seen is patched, touches nothing, or was settled.
THEOREM HandledIsAccountedHolds == EveryJob /\ Spec => []HandledIsAccounted
<1>1. Init => Followed
  <2> SUFFICES ASSUME Init
               PROVE  Followed
    OBVIOUS
  <2>1. PICK cached \in {0, 1} :
           commits = [b \in {Main} |-> [code |-> Original, cache |-> cached]]
    BY DEF Init
  <2>2. FollowOK
    BY DEF Init, FollowOK
  <2>3. /\ {tree} \cup {commits[b] : b \in DOMAIN commits} = {commits[Main]}
        /\ commits[Main].cache \in {0, 1}
    BY <2>1 DEF Init
  <2>4. \A c \in Breaking : ~(c <= 0) /\ ~(c <= 1)
    BY BreakingAssumption DEF Change
  <2> QED
    BY <2>2, <2>3, <2>4 DEF Followed, HandledIsAccounted
<1>2. Followed => HandledIsAccounted
  BY DEF Followed
<1>3. CASE EveryJob
  <2>1. Inv /\ Followed /\ [Next]_vars => Followed'
    BY <1>3, NextFollows
  <2> QED
    BY <1>1, <1>2, <2>1, InitInv, NextInv, PTL DEF Spec
<1> QED
  BY <1>3
=============================================================================
