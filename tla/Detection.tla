----------------------------- MODULE Detection ------------------------------
(***************************************************************************)
(* From response bodies to findings: bodies are filed in the buckets of one *)
(* endpoint (analyze.go: file, store.go: Add), the buckets of each window   *)
(* are merged (store.go: Window) and the two windows compared (detect.go).  *)
(* A body is told by what it holds where, and by the schema Extract makes   *)
(* of it; filed is what the buckets' schemas are about.                     *)
(***************************************************************************)
EXTENDS Detect

CONSTANTS
    Document,    \* the bodies responses may carry, each a record: schema, what
                 \* Extract makes of it; kinds and texts, the path with the kind
                 \* or the string of every value it holds; loses, whether it has
                 \* more paths than a schema keeps
    Baseline,    \* the buckets of the baseline window, naturals in time order
    Current,     \* the buckets of the current window
    Latest,      \* the last bucket
    MaxFiled     \* bound on the bodies filed

ASSUME WindowAssumption ==
    /\ Latest \in Nat /\ MaxFiled \in Nat
    /\ Baseline \cup Current \subseteq 1 .. Latest /\ Baseline \cap Current = {}

Bucket == Baseline \cup Current

\* A body is told by its place in Document.
Body == DOMAIN Document
SchemaOf == [d \in Body |-> Document[d].schema]

\* A body filed: the nth filing of it in a bucket.
Filing == [bucket : Bucket, body : Body, nth : 1 .. MaxFiled]

VARIABLES
    bucket,   \* bucket -> the schema it holds, NoSchema for none
    filed     \* the bodies filed

vars == <<bucket, filed>>

NoSchema == [samples |-> 0, fields |-> << >>, none |-> TRUE]

TypeOK ==
    /\ \A b \in Bucket :
          bucket[b] # NoSchema => IsSchema(bucket[b]) /\ SetsCapped(bucket[b])
    /\ filed \subseteq Filing
-----------------------------------------------------------------------------
Init ==
    /\ bucket = [b \in Bucket |-> NoSchema]
    /\ filed = {}

\* The first schema in a bucket or a window is cloned, the next ones merged
\* into it.
Filed(held, new) == IF held = NoSchema THEN new ELSE Merge(held, new)

\* How often d was filed in b.
Times(b, d) == Cardinality({i \in filed : i.bucket = b /\ i.body = d})

Add(b, d) ==
    /\ Cardinality(filed) < MaxFiled
    /\ bucket' = [bucket EXCEPT ![b] = Filed(@, SchemaOf[d])]
    /\ filed' = filed \cup {[bucket |-> b, body |-> d, nth |-> Times(b, d) + 1]}

Next == \E b \in Bucket, d \in Body : Add(b, d)

Spec == Init /\ [][Next]_vars

\* Store.Window: the buckets of W that hold something, merged in the order of
\* their starts.
Window(W) ==
    LET upto[n \in 0 .. Latest] ==
            IF n = 0 THEN NoSchema
            ELSE IF n \in W /\ bucket[n] # NoSchema THEN Filed(upto[n - 1], bucket[n])
            ELSE upto[n - 1]
    IN upto[Latest]

HasBoth == Window(Baseline) # NoSchema /\ Window(Current) # NoSchema
-----------------------------------------------------------------------------
(***************************************************************************)
(* What the bodies filed say, apart from any schema.                        *)
(***************************************************************************)
KindsHeld == UNION {{<<d, x[1], x[2]>> : x \in Document[d].kinds} : d \in Body}
TextsHeld == UNION {{<<d, x[1], x[2]>> : x \in Document[d].texts} : d \in Body}
Carried == {<<x[1], x[2]>> : x \in KindsHeld}
Reached == {x[2] : x \in KindsHeld}
Losers == {d \in Body : Document[d].loses}

Carries(d, p) == <<d, p>> \in Carried
HoldsKind(d, p, k) == <<d, p, k>> \in KindsHeld
HoldsString(d, p, t) == <<d, p, t>> \in TextsHeld
HoldsValue(d, p) == \E k \in Kind \ {"null"} : HoldsKind(d, p, k)

\* Whether d could have carried p: it holds p's container.
CouldCarry(d, p) ==
    IF Len(p) > 1 THEN Carries(d, Parent(p)) ELSE HasParent(p) => Carries(d, p)

\* The bodies filed in window W.
FiledIn(W) == {i \in filed : i.bucket \in W}

\* None of them lost paths.
Lossless(I) == \A i \in I : i.body \notin Losers

\* How many of the filings in I are of bodies in S, and a counter that says so;
\* where paths were lost it may be too low.
Count(I, S) == Cardinality({i \in I : i.body \in S})
Counted(n, I, S) == IF Lossless(I) THEN n = Count(I, S) ELSE n <= Count(I, S)

Distinct(I, p) == {t \in Text : \E i \in I : HoldsString(i.body, p, t)}

\* What the field of p says of the filings in I: every counter is the number
\* of bodies that hold the thing counted, Seen the number that could have
\* carried the path, and a string set is complete or says it is not.
FieldCounts(f, I, p) ==
    /\ Counted(f.seen, I, {d \in Body : CouldCarry(d, p)})
    /\ Counted(f.present, I, {d \in Body : Carries(d, p)})
    /\ Counted(f.null, I, {d \in Body : HoldsKind(d, p, "null")})
    /\ \A k \in Kind : Counted(f.kinds[k], I, {d \in Body : HoldsKind(d, p, k)})
    /\ Lossless(I) => (f.overflow <=> Cardinality(Distinct(I, p)) > MaxEnumCardinality)
    /\ ~f.overflow => \A t \in Text :
          Counted(f.strings[t], I, {d \in Body : HoldsString(d, p, t)})

\* A schema counts the filings in I.  Bodies that lost paths to MaxFields are
\* counted as having lost some, and what is kept still fits together: a
\* field's Seen is what its container's Present says.
Counts(s, I) ==
    /\ s.samples = Cardinality(I)
    /\ CountsOrdered(s) /\ ContainersKept(s) /\ SeenIsOpportunity(s)
    /\ DOMAIN s.fields \subseteq Reached \cup {OverflowPath}
    /\ Lossless(I) => DOMAIN s.fields = {p \in Reached : \E i \in I : Carries(i.body, p)}
    /\ OverflowPath \in DOMAIN s.fields <=> ~Lossless(I)
    /\ ~Lossless(I) => s.fields[OverflowPath].present = Count(I, Losers)
    /\ \A p \in DOMAIN s.fields \ {OverflowPath} : FieldCounts(s.fields[p], I, p)

\* A window's schema counts responses, whatever buckets they were filed in and
\* in whatever order (schema/README.md, merge.go, extract.go).
CountsResponses ==
    \A W \in {Baseline, Current} : Counts(Window(W), FiledIn(W))

\* What a finding claims, of the responses filed before and now: something a
\* baseline response had is missing from a current one, is new to the window,
\* or moved in share.  For a change of type, bodies that hold nulls among values
\* are left aside (see NullsAreNotTypeChanges).
BorneOut(h, before, now) ==
    LET p == h.path
        With(I, k) == Count(I, {d \in Body : HoldsKind(d, p, k)})
        Valued(I) == Count(I, {d \in Body : HoldsValue(d, p)})
    IN /\ h.kind = "FieldRemoved" =>
            (\E i \in before : Carries(i.body, p)) /\ (\E i \in now : ~Carries(i.body, p))
       /\ h.kind = "FieldAdded" =>
            (\A i \in before : ~Carries(i.body, p)) /\ (\E i \in now : Carries(i.body, p))
       /\ h.kind = "NullabilityIntroduced" =>
            /\ \E i \in before : Carries(i.body, p) /\ ~HoldsKind(i.body, p, "null")
            /\ \E i \in now : HoldsKind(i.body, p, "null")
       /\ h.kind = "EnumValueAdded" => ~(Distinct(now, p) \subseteq Distinct(before, p))
       /\ h.kind = "TypeChanged" =>
            \/ \E i \in before \cup now : HoldsKind(i.body, p, "null") /\ HoldsValue(i.body, p)
            \/ \E k \in Kind : With(before, k) * Valued(now) # With(now, k) * Valued(before)

\* A finding is borne out by responses, not only by counters, as long as no
\* body lost paths.
FindingsReal ==
    HasBoth /\ Lossless(filed) =>
      \A h \in Detect(Window(Baseline), Window(Current)) :
          BorneOut(h, FiledIn(Baseline), FiledIn(Current))

\* The chances a response of I had to carry p: those that hold its container,
\* or all of them where none does.
Chances(I, p) ==
    LET could == Count(I, {d \in Body : CouldCarry(d, p)})
    IN IF could > 0 THEN could ELSE Cardinality(I)

\* A path on every baseline response that could carry it and on no current one
\* is reported as removed, its container gone with it or not, once the chances
\* it had are as many as the strictest rank asks for (the square of the
\* statistic is then their number; the comment on opportunity in decide.go).
NoRemovalMissed ==
    LET before == FiledIn(Baseline)
        now == FiledIn(Current)
        base == Window(Baseline)
        curr == Window(Current)
        m == Cardinality(Tested(base, curr))
        Always(p) ==
            /\ \E i \in before : Carries(i.body, p)
            /\ \A i \in before : CouldCarry(i.body, p) => Carries(i.body, p)
    IN HasBoth /\ Lossless(filed)
         /\ Cardinality(before) >= MinSamples /\ Cardinality(now) >= MinSamples =>
       \A p \in Reached :
          /\ Always(p) /\ \A i \in now : ~Carries(i.body, p)
          /\ 100 * (Chances(before, p) + Chances(now, p)) >= Critical[m][1]
          => \E h \in Detect(base, curr) : h.path = p /\ h.kind = "FieldRemoved"

\* Benjamini-Hochberg rejects as much as it may and no more: the survivors are
\* the largest set of hypotheses all of which pass at that set's size
\* (decide.go, benjaminiHochberg), provided every p-value is a number.
SurvivorsLargest ==
    LET tested == IF HasBoth THEN Tested(Window(Baseline), Window(Current)) ELSE {}
        All(T) == \A h \in T : Passes(Statistic(h), Cardinality(T), Cardinality(tested))
    IN (\A h \in tested : ~Undefined(h)) =>
         Survivors(tested) = UNION {T \in SUBSET tested : All(T)}

\* The comment on typeHypothesis (decide.go:158-161): shares are taken among
\* non-null observations, since otherwise every introduced null would also read
\* as a type change.  Where every kind's share of the responses with a value at
\* p is the same in both windows, no change of type is put forward.
NullsAreNotTypeChanges ==
    HasBoth =>
      \A h \in Tested(Window(Baseline), Window(Current)) :
        h.kind = "TypeChanged" =>
          \E k \in Kind \ {"null"} :
            LET with == {d \in Body : HoldsKind(d, h.path, k)}
                valued == {d \in Body : HoldsValue(d, h.path)}
            IN Count(FiledIn(Baseline), with) * Count(FiledIn(Current), valued)
                 # Count(FiledIn(Current), with) * Count(FiledIn(Baseline), valued)
=============================================================================
