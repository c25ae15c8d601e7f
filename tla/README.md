# apidrift, modelled

apidrift sits in front of a JSON API, learns the shape of its responses and
reports when that shape drifts; a second pair of commands watches a published
specification and patches the repository that consumes it. This directory holds
TLA+ modules for the parts of it whose correctness depends on order, limits or
arithmetic, TLC configurations that check them on small instances, and TLAPS
proofs of what matters most for every value of the constants.

Line numbers are those of the sources as they stand beside this directory.
`PROJECT.json` maps every definition to its lines.

    tlc -workers 4 -config Store.cfg MCStore     # a run: see the table below
    tlapm StoreProofs.tla                        # a proof module

## 1. The system

### 1.1 Components

| component | state it keeps | operations | who uses it |
|---|---|---|---|
| **proxy** `internal/proxy/proxy.go`, `stats.go` | atomic counters | `ServeHTTP`, `modifyResponse`, `record`, the upstream error handler | one goroutine per request; hands samples to the queue |
| **tee** `internal/proxy/tee.go` | one captured body: buffer, truncated, finished, a once | `Read`, `Close`, `finish` | `Read` from the handler, `Close` possibly from the transport's goroutine |
| **sample queue** `internal/sample` | bounded channel, closed flag, two counters, RWMutex | `Offer`, `Close`, `C` | handlers offer, the consumer receives, `serveCmd` closes |
| **serve** `cmd/apidrift/serve.go` | listeners, signal context, wait groups | start-up, the shutdown sequence | owns the lifetime of all of the above |
| **analyzer** `cmd/apidrift/analyze.go` | counters, last report, last candidates | `run`/`file` (consumer), `evaluate`, `selectCandidates` (ticker) | two goroutines over the store, the sampler and the tracker |
| **endpoint templater** `internal/endpoint` | a trie per method, verdicts, node count | `Observe`, `Resolve` | consumer; names the endpoint of a response |
| **schema** `internal/schema` | none (values) | `Extract`, `Merge`, `OpportunityCount` | store merges, detector compares |
| **schema store** `internal/store` | a ring of time buckets per endpoint, two live counters | `Add`, `Window`, `Keys` | consumer adds, evaluator reads |
| **detector** `internal/detect/detect.go`, `decide.go` | none | `Detect`: hypotheses, four gates | evaluator |
| **persistence tracker** `internal/detect/tracker.go` | streak per finding, last window | `Observe` | evaluator |
| **value sampler** `internal/valuesample` | two reservoirs per path | `Observe`, `Samples`, `Rotate`, `DetectShift` | consumer files, evaluator compares and rotates |
| **watch, fix** `cmd/apidrift/watch.go`, `fix.go` | the git work tree, the cached specification | one run from fetch to commit | a timer or a person, beside the repository's owner |
| **patch** `internal/patch` | none; writes files | `Apply` | watch and fix |
| **codesearch** `internal/codesearch` | none | search for uses of a field | watch and fix |
| **assess** `internal/assess` | none | one question to a language-model service, and whether the reply is a verdict | watch, fix, the assess command |
| **eval** `internal/eval` | none | `ParseSpec`, `Diff`, `Score`, traffic generation | offline measurement; `ParseSpec` and `Diff` also serve watch |
| **report, dashboard, command line** | none | rendering, dispatch | people |

### 1.2 How they interact

    request --> proxy --> tee --(whole JSON body)--> Offer --> queue --> consumer
                                                                           |
                          templater <--- path ---------------------------- +
                          Extract   <--- body ---------------------------- +
                          store.Add <--- (endpoint, time, schema) -------- +
                          sampler.Observe <--- (endpoint, values) -------- +
    ticker --> evaluator: store.Window x 2 --> Detect --> tracker --> report
                          sampler.Samples --> DetectShift --> Rotate --> candidates
    signal --> serveCmd: stop servers, join evaluator, Close queue, join consumer, exit

    timer --> watch: fetch spec --> ParseSpec (also of the cached one) --> Diff
                     --> clean tree? --> assess --> patch.Apply
                     --> write cache --> branch --> commit

Everything on the first line must never block or break the response it watches;
everything below it may lose a sample but must account for the loss. The store,
the templater and the sampler have a mutex each; the evaluator takes no lock
across two of their calls. The queue's closed flag and channel are protected by
a read-write lock so that a send cannot meet a closed channel.

### 1.3 What is hard here, and what makes each part correct

- *tee*: two goroutines and five ways to end. Correct: the outcome is reported
  exactly once, and a buffer is handed over only if it is the whole body.
- *proxy, queue, serve*: handlers may outlive the shutdown deadline and offer
  to a queue that is being closed. Correct: no send on a closed channel, every
  request in exactly one counter, accepted samples consumed in order before the
  process ends, the shutdown ends.
- *store*: out-of-order times over a ring, hand-kept counters, two evictions.
  Correct: counters exact, caps kept, no bucket of another turn in a window, the
  endpoint with the newest observation survives.
- *tracker*: gaps, repeats and a cap tested while old entries are still in the
  map. Correct: nothing reported early, nothing followed is dropped, no growth.
- *templater*: verdicts by shape at any call, verdicts by growth, subtrees
  discarded on the way. Correct: the node count is exact, limits hold, nothing
  of a collapsed subtree is left, a template only becomes more general.
- *schema*: counters merged in any grouping, absent paths, capped value sets.
  Correct: the merge is a commutative monoid, and what it says of a window is
  what the responses in it say, or is marked as partial.
- *detector*: ratios with changing denominators, a false-discovery cut. Correct:
  each finding is borne out by the bodies, a removal that is plain in them is
  found, the cut keeps the largest set it may.
- *sampler*: values filed while the evaluator compares and rotates. Correct: the
  two sides of a comparison are consecutive periods, silent paths free their
  place, a candidate is grounded in them.
- *analyzer*: ticks served late, endpoints that come, go and fail during an
  evaluation. Correct: what is published was found in consecutive evaluations,
  no bucket counts as current twice, no endpoint is overlooked in silence.
- *eval*: its list of changes is what the detector is scored by. Correct: it is
  what the traffic made from the two specifications shows.
- *the loader* (eval/spec.go): one API can be written down in many ways, with
  references in circles, compositions and two spellings of null, and the loader
  stops at limits. Correct: it always ends; another way of writing the same is
  no change; a change that can break a consumer is one.
- *assess*: replies cut short, declined, or with an error under a good status.
  Correct: none of them passes for a verdict that asks for no edits.
- *watch, fix*: a run may fail or be killed between any two writes, and its
  owner may commit or discard in between. Correct: the cached version never runs
  ahead of the patches, nor behind those in a commit; what a run writes can be undone.

The hazards behind these, each at its line, are listed in `PROJECT.json`.

## 2. The modules

| module | models | abstract specification | proofs | runs |
|---|---|---|---|---|
| `Tracker` | detect/tracker.go | `Persistence` | `TrackerProofs` | `tracker` |
| `Store` | store/store.go | `ObservationLog` | `StoreProofs` | `store` |
| `Analyzer` | analyze.go: evaluate, beside the consumer | (uses `ObservationLog`, `Persistence`) | `AnalyzerProofs` | `analyzer` |
| `Tee` | proxy/tee.go | `BodyOutcome` | `ProxyProofs` | `tee` |
| `Serve` | proxy, queue, consumer loop, serve.go | `Handoff` | `ProxyProofs` | `serve` |
| `Repair`, with `Patch`, `Assess` | watch.go, fix.go, patch.go, the service's side of assess | | `RepairProofs` | `repair`, `repair_max` |
| `Templater` | endpoint/ | | `TemplaterProofs` | `templater` |
| `Schema` | schema.go, merge.go | | `DetectionProofs` | within `detection` |
| `Extract` | extract.go, keyshape.go | | | within `detection` |
| `Detect` | detect.go, decide.go | | `DetectionProofs` | within `detection` |
| `Detection` | filing, windows and detection composed | | `DetectionProofs` | `detection`, `detection_nulls` |
| `PlainBodies` | what is assumed of bodies whose keys hold no dots | | | assumptions of `detection` |
| `Drift`, `DriftTraffic` | eval: diff.go, generate.go, score.go | | | assumptions of `detection`, `repair` |
| `Loader` | eval/spec.go | `Validity` | | within `specs` |
| `SpecWatch` | the document's edits, `Loader`, `Drift` and watch's cache composed | | | `specs` |
| `ValueSample`, with `Scalars` | valuesample.go, selectCandidates | | `ValueSampleProofs` | `values` |

`MC*` modules only give constants their values. In each module the definitions
under "Defective variants" are what a plausible mistake would put in place of one
definition of the model; every property of a passing run has one that breaks it.

### 2.1 How state and actions correspond to the code

**Tracker.** `streak`, `last`, `window` are the tracker's fields. `Observe` is
one call, taken apart into its loop over the findings (`pc` stands inside the
loop), because the cap is tested against a map that still holds the entries of
the previous window; pruning and the returned list end the call. Two history
variables keep what each window was given and what it kept. `Persistence` says:
a finding is returned exactly when it was kept in each of the last
`PersistWindows` windows, and only a window that overflows the cap may lose
findings, new ones only.

**Store.** A ring is a function from slots to a bucket or nil; a bucket is its
start and the set of times merged into it (the schema is the merge of what was
observed then: see `DetectionProofs` for why the set is enough). `Add` is the whole
call: `RefuseStale`, or `BeginAdd`, one `EvictForRoom` per pass of that loop,
`NewRing`, `File` (rotation or merge, both counters), one `EvictForBudget` per
pass, `EndAdd`. Nothing else runs in between, since the mutex is held; taking
the call apart shows what holds inside the loops. `Window` is an operator.
`ObservationLog` is a set of observations: one leaves it only because the caps
are reached, with its whole endpoint, or because its bucket gives way to another
a whole number of ring turns away.

**Tee.** Read and Close are two processes; each step is what one goroutine does
between two points where the other can run: the underlying read, `capture`,
`finish`, the once. Bytes are counted, not kept. `BodyOutcome` knows nothing of
goroutines, buffers or Close: a body flows, and at some moment one outcome is
reported, which claims the end only where the body ended, the cap only where it
was passed, and hands over all of the body or nothing.

**Serve.** One process per response (its handler), the consumer, the evaluator
and `serveCmd`. The lock is modelled by where the processes stand: a writer that
waits keeps new readers out, as Go's RWMutex does, and holds only when no reader
is inside. `Offer`'s check and its send are two steps, so removing the lock shows.
The send and the counter that follows are one step, as are the four skip
counters one counter; that `Close` is idempotent is not exercised.
`Handoff` promises a bounded first-in first-out hand-over that accepts nothing
once closed and hands over what it accepted all the same, eventually all of it.

**Analyzer.** The store and the tracker appear as what `Store` and `Tracker`
are shown to implement, so an evaluation is one step per call: `Begin` (the
tick, `Keys`), `ReadBaseline`, then `Skip`, `Compare` or `FailEndpoint`, at the
end `ObserveFindings` and `Publish`, with `File` and `Evict` in between and
`Advance` moving the clock and the ticker. An endpoint has one finding or none;
whether `Detect` makes it is a choice, as module Detect settles it. `Window`
takes whole buckets by their start, as the code does.

**Repair and Patch.** The tree, the branches and the cached version are the
state; a run of watch or fix is a process whose steps are its reads and writes,
in the order of the code, and `Fail` ends it at any of them (an error return or
a kill). The owner commits, discards, merges and works between runs. Files are
bags of texts, which is what "the old text must occur exactly once" depends on.
A question to a model goes through `Assess`: of all replies a service may give
(late, with a bad status, an error, a refusal, no answer, one cut short) only
those that `Client.ask` and `OpenRouter.ask` take lead on; the others end the
run. The services are supposed to honour the schema they are given, and an edit
they answer with to put the text that fixes the change asked about where its use
was (`EditFor`): in which file, and whether that text is there once, is open.
`settled` keeps what needs no patch as far as the code is concerned: a person was
told, or a verdict that was asked for came back without edits (which is not quite
the same, as section 5 says).

**Templater.** A trie node is a path of steps, each a literal segment or `Wild`,
the step into the one child that stands for all values; the state is the set of
nodes with their counters and verdicts, and the node counter. An answer is kept
as the route taken, not as the text made of it, in which `Wild` reads {id} as a
literal segment of that spelling would. `Observe` and `Resolve`
walk it one segment per step with the mutex held (`BeginObserve`, `Follow`,
`MissChild`, `Grow`, `MissNode`, `EndObserve`; `BeginResolve`, `ResolveStep`,
`Unresolved`, `Resolved`), with both verdicts, collapses and the three limits on
the way.

**Schema, Extract, Detect, Detection.** `Schema` has the counters and `Merge` as
operators over records; `Extract` turns a document into a schema, with its caps
and the recognition of maps; `Detect` has the hypotheses, rates as fractions,
the test's statistic squared (so no roots), and the false-discovery cut, which
ranks by taking again and again a hypothesis that none of the rest comes before.
`Detection` files bodies into buckets in any order, merges the buckets of each
window in time order and checks the result against the bodies themselves. A body
is a record of what it holds where and of the schema `Extract` makes of it;
`MCDetection` works these out, and TLC evaluates what `PlainBodies` assumes of
them: that each of those schemas counts its body (`ExtractAssumption`), and that
a body's strings are finitely many and stand at its paths (`HeldAssumption`).
A path is a sequence of steps, as `ParentPath` splits it; `Steps` gives those a
key adds, more than one if it holds dots, and `Join` appends them. The bodies of
the run have keys without dots; for others the code counts otherwise than its
comments say, as section 5 records.

**Drift, DriftTraffic.** A node of a specification is a record; `Walk` is the
comparison of two, `Bodies` the set of bodies the generator may make of one,
`Score` the tally. `DriftTraffic` states, for a set of nodes, that each list of
changes is what `Extract` finds in the bodies of both sides. `MCRepair` has
a specification for each version and checks with `Drift` which versions break
something.

**Loader, Validity, SpecWatch.** A schema is a record of the keywords it has
(`type`, where the keyword is one name, and `types`, where it is a list);
`Node` is the loader's recursion, with the limits on depth and references, `Add`
the merge of an allOf, `BodySchemas` and `Documented` the way from a document to
the responses kept. `Validity` says which bodies a document allows, from the
meaning of the keywords and not from the loader. In `SpecWatch` the provider
edits: `Rewrite` replaces some schema by another way to write it (a component
inlined, a composition opened or closed, the other spelling of null, a type left
to be implied, a description), `Revise`, `Delete` and `Withdraw` change what is
allowed; `Watch` is a run that moves the cache. What a run would report at any
moment is `Reports`, the differences of `Drift` between everything the cached
and the published document may load as.

**ValueSample.** `Observe` files a body; `Select`, `Examine`, `Rotate`,
`Publish` are the evaluator's pass, with bodies filed between any two of its
steps. A kept value remembers the period it was filed in, which the code does
not; properties are stated with it.

## 3. The runs

Sizes are distinct states.

| run | size | instance | what it shows |
|---|---|---|---|
| `tracker` | 81,726 | 3 findings, 2 windows to persist, cap 2, 4 windows | `NeverEarly`, `MemoryBounded`; refines `Persistence` |
| `store` | 135,552 | 3 endpoints of which 2 fit, ring of 2 buckets of 2 time units, budget 3, times 2..7 | `CountsExact`, `WithinCaps`, `WindowExact`, `FreshestKept`; refines `ObservationLog` |
| `analyzer` | 771,441 | 2 endpoints (symmetric), 3 observations at a time, buckets of 2 time units, windows of 2, ticks at 3, 5 and 7 | `PublishedPersisted`, `OnceCurrent`, `NothingOverlooked` |
| `tee` | 2,853 | bodies to 5 bytes, cap 3, reads to 2 | `KeepsPromise`: refines `BodyOutcome`, its fairness included |
| `serve` | 190,645 | 3 responses, depth 2 | `NeverSendOnClosed`, `CountedOnce`, `DrainedBeforeExit`, `ShutdownTerminates`; refines `Handoff` |
| `repair` | about 10^6 | 3 versions (2 and 3 breaking), 2 files, 2 branch names (symmetric), 2 runs, at most 2 jobs | `HandledIsAccounted`, `UndoLosesNothing`, `PatchedIsHandled` |
| `repair_max` | violated | as `repair`, at most 1 job | `HandledIsAccounted`: finding 1 |
| `templater` | 543,663 | 2 methods, paths of up to 2 segments, limits of 2 children, 2 segments and 6 nodes, 6 observations | `TrieSound` (`NodesExact`, `WithinLimits`, `NoOrphans`), `OnlyGeneralises` |
| `detection` | 123,410 | 13 documents, buckets {1,2} against {3}, 4 bodies filed | `CountsResponses`, `FindingsReal`, `NoRemovalMissed` |
| `detection_nulls` | violated | as `detection` | `NullsAreNotTypeChanges`: finding 2 |
| `values` | 1,491,708 | 6 documents, 3 paths of which 2 fit, reservoirs of 2, 2 rotations | `PeriodsApart`, `RoomFreed`, `CandidatesGrounded` |
| `specs` | 160,815 | 3 components, 3 responses, depth and references to 3, 3 edits | `QuietWhenRewritten`, `NoBreakMissed` |

Every passing run also checks its module's `TypeOK` (`TeeTypeOK` for `tee`).
`detection` and `repair` evaluate, as assumptions, what is stated of `Drift`:
`PresenceClaims`, `NullClaims`, `ValueClaims` and `ScoresAddUp` for every pair
of 71 nodes, and that the difference over several versions is the changes of
each.

### 3.1 Why the bounds are enough

- `tracker`: with two windows to persist, four windows hold a full streak, a
  gap, a repeat and a return; three findings exceed a cap of two.
- `store`: times 2..7 are three buckets for a ring of two, so that the first
  and the last share a slot; the retention is 4, so that 2 is stale once 7 was
  seen. The endpoint cap (2 of 3) and the bucket budget (3 of a possible 4) are
  both exceeded, in one call too.
- `analyzer`: ticks at odd times meet buckets at even ones, so no window is
  aligned; three ticks are a streak of two and one evaluation more; a tick may
  wait while the next is dropped. Four bucket places and eight live buckets
  keep everything unless `Evict` takes it.
- `tee`: a cap of 3 and lengths to 5 give bodies below, at and above the cap,
  and reads of 2 cross it in the middle of a chunk.
- `serve`: three handlers and a depth of two give a full queue with a handler
  still inside `Offer` while `Close` waits.
- `repair`: two runs are a failed one and its successor; three versions give
  two breaking changes at once and one after the other; two files make the
  write loop fail between its writes.
- `templater`: the thresholds are scaled down (two samples for 50, two children
  for a thousand) but keep their order and their comparisons; six observations
  reach collapses at two levels.
- `detection`: MinSamples 2, a value set of one string, three fields, depth
  two: each cap is met and exceeded by some document. MinEffectSize is 40
  hundredths, above the 15 in use, so that some comparison of two against two
  responses falls short of it. `NoRemovalMissed` is met where two responses
  against two, or three against one, are chances enough for the strictest rank.
- `specs`: A holds B, and an edit can put A into B, which closes the circle;
  B may be deleted while it is referred to; compositions reach the limit on
  depth. Three edits are a composition, a change inside it and a way back, with
  a run of watch anywhere. 52 bodies, two levels deep, are judged. Every
  string has an enum, since one that goes away is no change to `Diff`; a
  response has one JSON media type; an allOf has no keywords next to it
  (`Annotates`); the last two matter, as section 5 says.
- `values`: two values fill a reservoir and suffice for a comparison (4 in the
  source); two rotations give a path that is compared, silent, then back.

`CHECK_DEADLOCK FALSE` stands in `Tracker.cfg`, `Analyzer.cfg`, `Serve.cfg`,
`Tee.cfg`, `SpecWatch.cfg`, `Repair.cfg` and the two of `Detection`: there the
last window, the last tick, the last body, the last run, the last edit, the exit
of the process and the end of the response are ends.

### 3.2 Fairness

- `Tee`: weak fairness of each goroutine's next step while it is inside a call,
  and of closing the body: net/http closes every response body, and the steps
  only wait for a once whose holder never blocks. The reader need not read on.
- `Serve`: weak fairness of a handler inside `Offer`, of the consumer, of an
  evaluation that runs, and of `serveCmd` after the signal: none of them blocks
  on anything but the lock and the channel. The evaluator's choice between its
  ticker and the cancelled context is a Go `select`, which picks at random among
  ready cases: strong fairness of the choice to end. Nothing is assumed of
  upstream, of clients or of the signal; `Shutdown` has its own deadline.

## 4. What is proved

TLAPS checks these for every value of the constants that meets the named
assumptions (`PROJECT.json` lists them all).

**TrackerProofs** - `TypeCorrect`, `NeverEarlyHolds`, `MemoryBoundedHolds`,
`FollowedNeverDroppedHolds`, and `Implements` (Tracker refines Persistence).
Assumed: the cap is a natural, the threshold a positive one. `NeverEarly` is not
inductive: a streak is a number, and says nothing of which windows it counts.
`Inv` adds `StreaksOK` (a streak is the length of the run of windows, in the
history, that ends now), `Bounded` (the map is finite and within its cap),
`HistoryOK` (a window kept only what it was given), one conjunct per place the
call can stand (`BetweenCalls`; `InsideLoop`: what the previous window kept is
still in the map, and what was dropped met a full map) and `ReturnedOK`. The
step proofs go action by action.

**StoreProofs** - `TypeCorrect`, `CountsExactHolds`, `WithinCapsHolds`,
`WindowExactHolds`, `FreshestKeptHolds`, and `Implements` (Store refines
ObservationLog). Assumed: positive times, ring shape and caps; `FreshestKept`
states for itself which caps it needs. `CountsExact` relates a counter
to a cardinality, so the proof rests on lemmas on how one slot's change changes
the set of live slots, and on finiteness, kept as an invariant. `Inv` further
says that no ring is empty but the one just made (`NoneEmpty`: an endpoint of
the store is an endpoint of the log), that no write lies after `newest`, that
some endpoint made the newest observation or is about to (`FreshInv`), and what
is known between the steps of `Add` (`PhaseOK`).

**DetectionProofs** - first on merging: `MergeTyped`, `MergeCommutes`,
`MergeAssociates`, `MergeIdentity`, `MergeKeepsCountsOrdered`,
`MergeKeepsOpportunities`, `MergeKeepsSetsCapped`. Together: however responses
are grouped in buckets and buckets in windows, the merged schema is the same.
Assumed: value strings are numbered (`Text` is a set of naturals, in the order of
the cut) and the cap is a natural. The hard part is associativity with a cut:
`CutEarly` shows that cutting a value set before a merge and again after it keeps
what one cut at the end keeps, because a string past the cap in a subset is past
it in the whole; `MarkEarly` is the same for the mark that the set is partial,
and `OpportunitiesAdd` for the rule that a path one side lacks gains that side's
opportunities.

Then `MergeCounts`: if two schemas each count a set of filed bodies, and the sets
are disjoint, their merge counts the union. Hence `TypeCorrect` and
`CountsResponsesHolds`: `Inv` says of every bucket that its schema counts the
bodies filed in it, two filings of one body being told apart by their number,
which never exceeds `Times`; a window is then counted bucket by bucket, by the
least bucket up to which it would not be (`WindowTells`). What carries
`MergeCounts` is `FieldOfOne`: where only one side has a path, the other side's
responses could have carried it as often as they had its container.

`FindingsRealHolds` goes by the kind of finding (`RemovedBorneOut`,
`NullBorneOut`, `TypeBorneOut`, `EnumBorneOut`): a rate that falls is not one
now (`FallsFrom`), one that rises was not one before and is not zero now
(`RisesTo`), and a counter of responses that is not zero, or not all, has a
response that is why. `SurvivorsLargestHolds` (left to the proof, no run repeats
it): the ranking holds every hypothesis once, none after one it comes before
(`RankedAll`), which needs the order of fractions to have no cycles; a set that
passes at its own size has no member ranked past the last rank that passes
(`LargestSurvive`). Assumed further: both limits of the gates, critical values
that fall as the rank grows (`CriticalAssumption`), and the two facts of single
bodies in `PlainBodies`. `Critical` is a table, so `SurvivorsLargestHolds` says for
itself that it reaches the number of hypotheses tested; the run's does.

`NoRemovalMissedHolds` is the other direction, under the same condition on the
table: a path that was on every response that could carry it, and is on none now,
is a hypothesis whose rates are 1 and 0 over the chances counted in the bodies,
with the container gone or not (`WhollyGone`), so it passes the gates of size and
the square of its statistic is the number of chances (`RemovalTested`); and what
passes at the strictest rank is among the survivors whatever it is ranked with
(`StrictestSurvives`).

**ProxyProofs** - of Tee, `TeeTypeCorrect`, and `TeeImplements` (Tee refines
BodyOutcome, short of its fairness: `KeepsPromise` without the part that says an
outcome comes in the end). Assumed: the cap and the longest body are naturals, a
read returns at most a positive number. The promise speaks of what was read and
the tee of what it copied, and between `src.Read` and the lock the two differ.
`TeeInv` therefore counts what was taken in (`TakenIn`): until somebody finishes,
the copy is exactly that, or that was beyond the cap (`CopyOK`), and only a reader
about to finish has seen the end; afterwards at most one of the two carries an
outcome, and that one is true of the source (`OneOutcome`, `HandingOK`).
`CapturedKeeps` is the lemma on one read's append, `FinishHands` the one on what
the first to finish makes of it.

Of Serve, `TypeCorrect`, `NeverSendOnClosedHolds`, `CountedOnceHolds`,
`DrainedBeforeExitHolds`, and `Implements` (Serve refines Handoff, short of its
fairness), for any set of responses, infinite ones too. Assumed: the channel's
depth is positive. None of the three is inductive. A send needs a reader inside
the lock that saw the flag down, so `LockOK` says that the writer that marks the
queue closed is alone and that afterwards no handler stands before its send;
`FlagsOK` ties both flags to where `serveCmd` stands, `DownOK` says that servers
that went down in time left no handler behind, `DrainOK` that the consumer ends
only on a closed and drained channel. `CountedOnce` compares counters with
cardinalities of sets of handlers; `BegunFinite` keeps these finite, and
`StandingMoves` says what one handler's move does to each.

**ValueSampleProofs** - `TypeCorrect`, `PeriodsApartHolds`, `RoomFreedHolds`,
`CandidatesGroundedHolds`, for any paths, values and bodies. Assumed: a body is a
sequence of values at paths, the limits are positive, sizes are naturals. `Inv` is
the four properties, made inductive by what `Sampled` adds (the map is finite,
each side a reservoir of one period) and by `TodoOK`: a path listed for the pass
is sampled until the rotation, so `Examine` reads what is there. What a body does
is a recursion over its values; that `Sampled` survives it is shown by the first
value after which it would not (`FiledIsAfter`, `FiledKeeps`). For
`CandidatesGrounded`, two sides that hold every value equally often have as many
values in any class of values (`SameCounts`), so the same medians, formats and
commonest kinds; a list has one median at most (`OneMedian`) and no two formats
of four strings in five (`OneFormat`); and then the only shift left is one of
kinds, with two of them tied (`SameIsNoShift`).

**AnalyzerProofs** - `TypeCorrect`, `PublishedPersistedHolds`,
`OnceCurrentHolds`, `NothingOverlookedHolds`. Assumed: widths, the last time and
the persistence are positive naturals, times naturals. For `OnceCurrent` the
invariant says where evaluations come from: however late a tick is served, its
time is one of the ticker's (`TicksOK`), and a bucket compared as current began
in the window that ends there (`JudgedOK`); two such times are a window apart
(`TicksApart`), so a bucket lies in one of them (`OneWindow`). `ToldOK` says that
the tracker heard of each evaluation once and of its findings alone, `LatestOK`
what the last report rests on; `SteadyOK` follows an endpoint that has data on
both sides throughout a pass until it is compared or counted as failed.

**TemplaterProofs** - `TypeCorrect`, `TrieSoundHolds`, `OnlyGeneralisesHolds`.
Assumed: the limits are naturals, a request is a method and a sequence of
segments, and neither `Wild` nor the overflow mark is a segment: both are the
model's, and a segment may be spelled as either reads. `Sound`
makes `TrieSound` inductive: beside the count and the limits, every prefix of a
node is a node, and nothing literal is left beneath a variable one. It is shown of
every operator on tries by itself (`CountedSound`, `WithSound`, `MarkedSound`,
`ClassifiedSound`), and so is `Keeps`: what becomes of a trie loses no place but
for good, takes none of those back, and stays variable where it was.
`OnlyGeneralises` speaks of an answer given long ago, of whose nodes a collapse may
have discarded any: `Holds` is what an answer rests on all the same, and `Keeps`
preserves it. The first position where two answers differ (`FirstDifference`) is
then one that was literal and has become variable.

**RepairProofs** - `TypeCorrect`, `PatchedIsHandledHolds`,
`UndoLosesNothingHolds`, `HandledIsAccountedHolds`, for any code, changes,
answers, findings and number of runs. Assumed: three kinds of text that differ,
changes numbered from the second version on, a positive `-max`, answers as
`EditFor` has them. Three layers. `Inv` holds whatever the owner does: a run that
writes began on a clean tree, so what it has not written is as in the commit,
the owner's work apart (`StandOK`); the contents in memory take no fix away and
bring no use back (`PendingOK`); a fix that watch brings is of a change of the
version it read (`NewOK`). On it, `WorkOK` (the owner's work in the tree is the
commit's) is inductive if nobody works in the tree during a run, which
`UndoLosesNothingHolds` has as its hypothesis. And `FollowOK` is, if there are no
more breaking changes than `-max` (`EveryJob`; `repair_max` shows that
`HandledIsAccounted` fails without): between its search and the moment the cache
moves, watch has every change it would move past accounted for, or among its jobs,
its edits, its contents or what it will tell. What patch.Apply verifies is a
recursion over the edits; that it is defined and what it leaves is shown by the
first edit that would not have it so (`ComposedIsAfter`, `ComposedKeeps`).

### 4.1 What stays with TLC

- Liveness (what `KeepsPromise` and `ImplementsHandoff` include of it,
  `ShutdownTerminates`): fairness and ENABLED are out of the prover's reach.
- What `Extract`, `Scalars`, `Drift`, `Loader` and `Validity` compute for every
  document: they are recursive over data, and the prover has neither induction
  over data nor SMT beside RECURSIVE operators. `DetectionProofs` therefore takes
  what `Extract` makes of one body as an assumption, which TLC evaluates on the
  13 bodies of the run. It does not hold of bodies whose keys hold dots.
- `TypeOK`, `QuietWhenRewritten` and `NoBreakMissed` of `SpecWatch`: they are
  about nothing but what `Loader` and `Drift` compute.
- `NullsAreNotTypeChanges` and `HandledIsAccounted` at `-max` 1: the code
  violates them, as the next section says.

## 5. What the checks found

1. **-max loses changes** (`repair_max`, watch.go:264). The jobs cut off by
   `-max` are never mentioned again: the cached specification moves past them.
2. **Nulls read as a change of type** (`detection_nulls`, decide.go:167). In
   arrays that mix nulls and values `Present - ExplicitNull` is not the number
   of responses with a value; shares exceed one, and the p-value can be NaN.

Divergences met on the way that no run has as its own. For the first two TLC
gives the trace once the constant named is set in the run's configuration; the
theorems and the passing runs say what holds without.

- **A patch over work begun meanwhile** (`Interferes = TRUE` in `Repair.cfg`:
  `UndoLosesNothing` is violated). fix.go:249-250 says that a patch can always be
  undone with git checkout. The tree is found clean before the model calls
  (watch.go:203, fix.go:105) and not looked at again: what the owner changes
  while they last is there when the patch is written, and is lost with it.
- **A described allOf reads as a string** (`Annotates = TRUE` in `SpecWatch.cfg`:
  `QuietWhenRewritten` is violated in two edits). spec.go:367 says that keywords
  next to an allOf apply too. They are loaded as a schema of their own
  (spec.go:374-376), which has no type and so becomes a string (spec.go:325), and
  as `add` takes the last type that is not object (spec.go:343), so does the
  composed object. The usual `allOf: [$ref], description: ...` is thus an object
  in one version and, once described, a string in the next. A branch that has
  only `required` does the same.
- **A root key with a dot has a container** (schema.go:240). schema.go:220-222
  says that a root-level path has no parent and that its Seen is the number of
  samples. `join` does not escape dots (extract.go:191-197) and `ParentPath`
  splits at the last one, so "a.b" is counted by the responses that have an "a":
  {} and {"a.b":1} merge to two samples in which "a.b" was seen once. Beside
  responses without an "a", an optional "a.b" reads as always present, and that
  it comes less often is seen by nothing; that it is gone is still found, as
  `opportunity` falls back on the samples. An empty key at the root reads as the
  root itself and is not recorded (extract.go:115, 193). `Extract` and `Schema`
  do as the code does; `PlainBodies` says which bodies the properties are about.
- **A path resolves where it was not recorded** (templater.go:305).
  templater.go:301-304 says that Observe and Resolve must agree on the route
  taken. Observe classifies a position before it adds the child, Resolve after:
  a child that completes the evidence of growth is discarded by the Resolve that
  follows, which answers with the wildcard. In the run's instance: observe
  /7/a, /a/b and /c, and /c, recorded at a child of its own, resolves to /{id}.
  `OnlyGeneralises` bounds the difference and allows it.
- valuesample.go:330-332 says that DetectShift returns nil when two samples did
  not differ. Ties for the dominant kind are broken by map iteration order
  (valuesample.go:446), so of two equal samples, half null and half number, one
  side may read as null and the other as number. `CandidatesGrounded` allows
  equal samples in that case and in no other.
- Of several JSON media types of one response the loader takes the first in a
  map's order (spec.go:231): with two that differ, two readings of the same
  document may differ, and watch reports what no edit made (with both of the
  run's media types in `JSONMedia`, TLC finds `QuietWhenRewritten` violated).
- Where either version is truncated, nothing is compared: a property whose
  reference closes a circle may change its type unreported, and a reference
  broken in one version hides what changed by the time it is mended, since the
  cache has moved on. `NoBreakMissed` speaks of nodes read in full.
- Of a oneOf or anyOf only the first alternative is read, and the keywords next
  to it, `nullable` too, are not (spec.go:275-280).
- Any JSON object decodes as a verdict (assess.go:293, openrouter.go:217), one
  without edits if it has none of the fields. Only the service's promise to
  honour the schema keeps such a reply from moving watch's cache past a change.
- A verdict without edits names its change only by what it fills in: "unfixable"
  is printed as needing a person (watch.go:235-237, fix.go:244), the body goes
  into the commit message (watch.go:232-234, 271). Beside edits for other changes,
  one that fills in neither is mentioned nowhere, and the cache moves past it;
  `HandledIsAccounted` counts it as settled, the service having been asked.
- A type given as the one name "null" is a type of that name and not nullable
  (spec.go:419-421), and a list of nothing but "null" leaves a nullable node to be
  typed by its properties (spec.go:422-427, 318-327): two spellings of one schema
  that `Respelt` does not swap, since the loader tells them apart.
- `Add` may evict the endpoint it has just written, when that write is the oldest
  of all, and return true (store.go:179). `FreshestKept` speaks of the endpoint
  with the newest observation; `ObservationLog` lets the other go.
- store.go:155 says that the schema a rotation discards "belongs to a bucket
  that has aged out". An observation exactly `Retention` old passes the
  staleness test (store.go:133) and shares the slot of the newest bucket, which
  is what it then discards. `ObservationLog` allows it.
- analyze.go:66-68 says that the baseline ends where the current window starts.
  Both are made of whole buckets by their start (store.go:205-208), and a tick
  is aligned with none: what arrives in a bucket that began before the current
  window did is in the baseline, and what arrives in a tick's bucket after the
  tick is never current. With windows as wide as a bucket (serve.go:202-207)
  only what arrives between a bucket's start and the tick inside it is ever
  current. `OnceCurrent` says what holds all the same.
- diff.go:63-67 wants a change listed for every path the detector would report.
  Where a type changes, the paths beneath it are not listed (diff.go:115-120),
  and a finding there scores as false. `PresenceClaims` leaves those pairs out.
  A change of the root, listed at the empty path, can never be found: Extract
  records nothing there.
- An endpoint that is gone from the newer specification is in no difference
  (diff.go:51-58), which is right for the harness; watch caches past it in
  silence.
- serve.go:156-158 says no more samples can arrive once the servers are down;
  after a timed-out `Shutdown` (serve.go:161) handlers still offer. The lock in
  `Offer` and `Close` makes this harmless, which `NeverSendOnClosed` checks.
- patch.go:7-8 says nothing is written unless the whole set verifies; the
  rejected edits of a set are left out and the others written (patch.go:98, as
  TestApplyMixedEdits expects).
- schema.go:67-69 calls MaxFields a hard cap; only Extract enforces it, Merge
  keeps every path of both operands.
- A root array's empty responses are no opportunities for its elements, unlike
  those of an array in a field (schema.go:237).
- The empty string, as the commonest new value, hides an enum finding
  (decide.go:249).
- Values filed between `Samples` and `Rotate` are the next period's baseline
  without having been compared as current (analyze.go:333, 352).
- A path answered as /a/{id} may later be answered as /{id}/b: the collapse of the
  first position discards the verdict on the second (templater.go:367).
  `OnlyGeneralises` holds where two answers first differ and allows this.
- A segment that itself reads {id} is rendered as a variable one is
  (templater.go:307-309), so two routes may share a template.

## 6. What is not modelled

- **assess**: the prompts and the judgements on meaning and impact, which the
  assess command prints and nothing acts on; no state.
- **eval**: the harness and the latency measurement, random draws and numbers
  offline; YAML, titles and versions of a document, references into anything but
  its components.
- **report, dashboard, command line**: rendering and dispatch, no state.
- **codesearch** enters Repair as the set of files a change concerns.
- In modelled parts: the git index and pushing, header parsing, counters that
  are only printed, evidence texts, severities and the order of findings; the
  order that an undefined p-value leaves a sort in. Each component's note in
  `PROJECT.json` says what its module leaves out.

## 7. Plan

The order is by how much rests on a part. Done: Tracker, Store, Tee, Serve,
Repair with Assess, Templater, Schema to Detection, ValueSample, Analyzer, Drift,
Loader and SpecWatch, and proofs of every safety property of all of them but the
last three. Next:

1. `Repair`: the index.
2. Liveness of `Analyzer`: a drift that lasts is published.
3. `Extract` by recursive functions over the depth of a document, so that
   `ExtractAssumption` becomes a theorem for the depths a run checks.
