------------------------------- MODULE Repair -------------------------------
(***************************************************************************)
(* cmd/apidrift/watch.go and fix.go: the commands that patch a repository    *)
(* for upstream changes, with the git repository and the person who owns it. *)
(*                                                                          *)
(* Version v of the published specification introduces change v, and a      *)
(* snapshot [code, cache] is what a commit or the working tree holds: the   *)
(* code and the version of the cached specification, 0 when there is none.  *)
(* A change uses the text Uses(c) in the code; a patch puts Fixed(c) there.  *)
(***************************************************************************)
EXTENDS Patch, Assess, FiniteSets

CONSTANTS
    LastVersion,  \* bound on the versions published
    Breaking,     \* the changes of a kind the flags ask for
    Answers,      \* change -> the sequences of edits a model may answer with
    Paths,        \* the paths an edit may name, in the repository or not
    Findings,     \* the lists of changes a running serve may report
    Original,     \* the code at the start
    MaxFix,       \* -max
    Branch,       \* names of the branches runs commit on
    MaxRuns,      \* bound on the runs started; the commands have none
    Interferes    \* whether the person works on files while a command runs

Change == 1 .. LastVersion
Uses(c) == <<"uses", c>>
Fixed(c) == <<"fixed", c>>
Work == <<"work", 0>>

ASSUME TextAssumption == Text = {Uses(c) : c \in Change} \cup {Fixed(c) : c \in Change} \cup {Work}
ASSUME CodeAssumption == Original \in Code
\* The first version has none before it to differ from.
ASSUME BreakingAssumption == Breaking \subseteq Change \ {1}
ASSUME MaxAssumption == MaxFix \in Nat \ {0}
ASSUME BoundAssumption == LastVersion \in Nat \ {0} /\ MaxRuns \in Nat
ASSUME FindingsAssumption == Findings \subseteq Seq(Change)

\* What an answer about change c may do: put the text that fixes c where its
\* use was, in whichever files it names.
EditFor(c) == [file : Paths, old : {Uses(c)}, new : {Fixed(c)}, change : {c}]
ASSUME AnswersAssumption == \A c \in Change : Answers[c] \subseteq Seq(EditFor(c))

Main == "main"
ASSUME BranchAssumption == Main \notin Branch

VARIABLES
    published,  \* the version of the specification online
    commits,    \* branch -> the snapshot of its last commit
    base,       \* branch -> the snapshot it was cut from
    head,       \* the branch checked out
    tree,       \* the snapshot in the working tree
    pc,         \* where the running command stands; "idle" when none runs
    run,        \* the running command's locals
    settled,    \* history: the changes a person was told of, or of which a
                \* verdict said that there is nothing to edit
    runs        \* runs started so far

vars == <<published, commits, base, head, tree, pc, run, settled, runs>>

Snapshot == [code : Code, cache : 0 .. LastVersion]

\* A command's locals: which command, -apply, -branch, the version read, the
\* changes still to ask about, the edits so far, the changes left without one,
\* the code the edits make, the files they change and those still to write.
Idle == [tool |-> "watch", apply |-> FALSE, branch |-> Main, current |-> 0,
         jobs |-> << >>, edits |-> << >>, open |-> {}, pending |-> Original,
         files |-> {}, unwritten |-> {}]

TypeOK ==
    /\ published \in Change
    /\ DOMAIN commits = DOMAIN base /\ Main \in DOMAIN commits
    /\ DOMAIN commits \subseteq Branch \cup {Main}
    /\ \A b \in DOMAIN commits : commits[b] \in Snapshot /\ base[b] \in Snapshot
    /\ head \in DOMAIN commits
    /\ tree \in Snapshot
    /\ pc \in {"idle", "loaded", "asking", "answered", "writing", "written",
               "committing"}
    /\ run.jobs \in Seq(Change) /\ run.pending \in Code /\ run.files \subseteq File
    /\ run.unwritten \subseteq run.files /\ run.open \subseteq Change
    /\ settled \subseteq Change
    /\ runs \in 0 .. MaxRuns
-----------------------------------------------------------------------------
\* A repository that has never been watched, or whose baseline is committed.
Init ==
    /\ published = 1
    /\ \E cached \in {0, 1} : commits = [b \in {Main} |-> [code |-> Original, cache |-> cached]]
    /\ base = commits
    /\ head = Main
    /\ tree = commits[Main]
    /\ pc = "idle"
    /\ run = Idle
    /\ settled = {}
    /\ runs = 0

\* The provider publishes a new version.
Publish ==
    /\ published < LastVersion
    /\ published' = published + 1
    /\ UNCHANGED <<commits, base, head, tree, pc, run, settled, runs>>

\* Nothing uncommitted: git status --porcelain is silent.
Clean == tree = commits[head]

\* The person commits what is in the tree, ...
CommitAll ==
    /\ pc = "idle" /\ ~Clean
    /\ commits' = [commits EXCEPT ![head] = tree]
    /\ UNCHANGED <<published, base, head, tree, pc, run, settled, runs>>

\* ... or throws it away, ...
Discard ==
    /\ pc = "idle" /\ ~Clean
    /\ tree' = commits[head]
    /\ UNCHANGED <<published, commits, base, head, pc, run, settled, runs>>

\* ... or goes back to main, ...
BackToMain ==
    /\ pc = "idle" /\ Clean /\ head # Main
    /\ head' = Main
    /\ tree' = commits[Main]
    /\ UNCHANGED <<published, commits, base, pc, run, settled, runs>>

\* ... or merges a branch that main has not moved away from, ...
Merge(b) ==
    /\ pc = "idle" /\ Clean /\ head = Main
    /\ base[b] = commits[Main] /\ commits[b] # commits[Main]
    /\ commits' = [commits EXCEPT ![Main] = commits[b]]
    /\ tree' = commits[b]
    /\ UNCHANGED <<published, base, head, pc, run, settled, runs>>

\* ... or works on a file.
Edit(f) ==
    /\ pc = "idle" \/ Interferes
    /\ tree.code[f][Work] = 0
    /\ tree' = [tree EXCEPT !.code[f][Work] = 1]
    /\ UNCHANGED <<published, commits, base, head, pc, run, settled, runs>>
-----------------------------------------------------------------------------
\* The files codesearch finds the change's field in.
Sites(c, code) == {f \in File : code[f][Uses(c)] > 0}

\* A run ends with an error, or is killed: whatever it wrote so far stays.
Fail ==
    /\ pc # "idle"
    /\ pc' = "idle"
    /\ run' = Idle
    /\ UNCHANGED <<published, commits, base, head, tree, settled, runs>>

\* The command returns, done with the changes cs: it named them, or they need no
\* edit.
ReturnSettling(cs) ==
    /\ pc' = "idle"
    /\ run' = Idle
    /\ settled' = settled \cup cs
    /\ UNCHANGED <<published, commits, base, head, runs>>

\* The specification just read becomes the cached one; fix has no cache.
CacheAfter ==
    IF run.tool = "watch" THEN [tree EXCEPT !.cache = run.current] ELSE tree

\* watch reads the published specification.
StartWatch(apply, branch) ==
    /\ pc = "idle" /\ runs < MaxRuns
    /\ runs' = runs + 1
    /\ pc' = "loaded"
    /\ run' = [Idle EXCEPT !.apply = apply, !.branch = branch, !.current = published]
    /\ UNCHANGED <<published, commits, base, head, tree, settled>>

\* No cached specification: this one is the baseline, and the run says so.
FirstRun ==
    /\ pc = "loaded" /\ tree.cache = 0
    /\ tree' = CacheAfter
    /\ ReturnSettling(1 .. run.current)

\* Variants of the definitions below, for checking that properties can fail:
\* -apply on a dirty tree, the cache written ahead of the last file, the
\* cache left out of the commit.
CleanAnyhow(apply) == TRUE
SomeFilesWritten == run.unwritten # run.files
StagedCodeOnly == [commits[head] EXCEPT !.code = tree.code]

\* What the flags keep of the difference to the cached specification.
Changes == {c \in Breaking : tree.cache < c /\ c <= run.current}

NothingChanged ==
    /\ pc = "loaded" /\ tree.cache # 0 /\ Changes = {}
    /\ tree' = CacheAfter
    /\ ReturnSettling({})

\* The search over every change; the ones it fails for are named on stderr.
Touching(missed) == {c \in Changes \ missed : Sites(c, tree.code) # {}}

NothingToPatch(missed) ==
    /\ pc = "loaded" /\ tree.cache # 0 /\ Changes # {} /\ Touching(missed) = {}
    /\ tree' = CacheAfter
    /\ ReturnSettling(missed)

\* The members of a set of numbers in order.
InOrder(S) ==
    {s \in [1 .. Cardinality(S) -> S] : \A i, j \in DOMAIN s : i < j => s[i] < s[j]}

\* The first MaxFix.
Capped(jobs) == SubSeq(jobs, 1, IF Len(jobs) < MaxFix THEN Len(jobs) ELSE MaxFix)

\* requireCleanTree, which only a run with -apply calls.
MayWrite(apply) == apply => Clean

\* The jobs are known, and the tree is fit to be written to.
Find(missed) ==
    /\ pc = "loaded" /\ tree.cache # 0 /\ Touching(missed) # {}
    /\ MayWrite(run.apply)
    /\ pc' = "asking"
    /\ \E order \in InOrder(Touching(missed)) : run' = [run EXCEPT !.jobs = Capped(order)]
    /\ settled' = settled \cup missed
    /\ UNCHANGED <<published, commits, base, head, tree, runs>>

\* fix starts from the findings of a running serve, in no known relation to
\* the specification; those the search finds nothing for are skipped.
StartFix(apply, branch, findings) ==
    /\ pc = "idle" /\ runs < MaxRuns
    /\ MayWrite(apply)
    /\ runs' = runs + 1
    /\ pc' = "asking"
    /\ LET first == Capped(findings)
       IN \E order \in InOrder({i \in DOMAIN first : Sites(first[i], tree.code) # {}}) :
             run' = [Idle EXCEPT !.tool = "fix", !.apply = apply, !.branch = branch,
                                 !.jobs = [n \in DOMAIN order |-> first[order[n]]]]
    /\ UNCHANGED <<published, commits, base, head, tree, settled>>

\* The model's verdict on one job: edits, or none, which it may answer "when
\* nothing needs changing or a person is required" (prompts.go:269).  The run
\* names such a job if the verdict says why; otherwise it is settled by the
\* verdict alone.  (Without a verdict the run ends: Fail.)
Ask(reply, edits) ==
    /\ pc = "asking" /\ run.jobs # << >>
    /\ edits \in IF IsVerdict(reply) THEN Answers[Head(run.jobs)] ELSE {<< >>}
    /\ run' = [run EXCEPT !.jobs = Tail(@), !.edits = @ \o edits,
                          !.open = @ \cup IF IsVerdict(reply) /\ edits = << >>
                                         THEN {Head(run.jobs)} ELSE {}]
    /\ UNCHANGED <<published, commits, base, head, tree, pc, settled, runs>>

NoEdits ==
    /\ pc = "asking" /\ run.jobs = << >> /\ run.edits = << >>
    /\ tree' = CacheAfter
    /\ ReturnSettling(run.open)

\* patch.Apply verifies the edits and builds the new contents in memory; the
\* rejected ones are shown by printOutcome.
Verify ==
    /\ pc = "asking" /\ run.jobs = << >> /\ run.edits # << >>
    /\ pc' = "answered"
    /\ run' = [run EXCEPT
                 !.pending = Composed(tree.code, run.edits)[Len(run.edits)],
                 !.files = ChangedFiles(tree.code, run.edits),
                 !.unwritten = ChangedFiles(tree.code, run.edits),
                 !.open = @ \cup {run.edits[n].change : n \in Rejected(tree.code, run.edits)}]
    /\ UNCHANGED <<published, commits, base, head, tree, settled, runs>>

\* dryRun is the negation of -apply.
Writes(apply) == apply

\* Shown and not written.
DryRun ==
    /\ pc = "answered" /\ ~Writes(run.apply)
    /\ UNCHANGED tree
    /\ ReturnSettling(run.open)

NothingApplied ==
    /\ pc = "answered" /\ Writes(run.apply) /\ run.files = {}
    /\ tree' = CacheAfter
    /\ ReturnSettling(run.open)

BeginWriting ==
    /\ pc = "answered" /\ Writes(run.apply) /\ run.files # {}
    /\ pc' = "writing"
    /\ UNCHANGED <<published, commits, base, head, tree, run, settled, runs>>

\* patch.Apply's loop over pending, a map: the files come in any order.
WriteFile(f) ==
    /\ pc = "writing" /\ f \in run.unwritten
    /\ tree' = [tree EXCEPT !.code[f] = run.pending[f]]
    /\ run' = [run EXCEPT !.unwritten = @ \ {f}]
    /\ UNCHANGED <<published, commits, base, head, pc, settled, runs>>

\* patch.Apply returns once every file is written.
FilesWritten == run.unwritten = {}

WriteCache ==
    /\ pc = "writing" /\ FilesWritten
    /\ tree' = CacheAfter
    /\ pc' = "written"
    /\ settled' = settled \cup run.open
    /\ UNCHANGED <<published, commits, base, head, run, runs>>

WithBranch(f) ==
    [b \in DOMAIN f \cup {run.branch} |-> IF b = run.branch THEN commits[head] ELSE f[b]]

\* git checkout -b: refused when the branch exists.
CutBranch ==
    /\ pc = "written" /\ run.branch \notin DOMAIN commits
    /\ commits' = WithBranch(commits)
    /\ base' = WithBranch(base)
    /\ head' = run.branch
    /\ pc' = "committing"
    /\ UNCHANGED <<published, tree, run, settled, runs>>

\* git add of the files patched and of the cache.
Staged ==
    [code |-> [f \in File |-> IF f \in run.files THEN tree.code[f]
                              ELSE commits[head].code[f]],
     cache |-> IF run.tool = "watch" THEN tree.cache ELSE commits[head].cache]

Commit ==
    /\ pc = "committing"
    /\ commits' = [commits EXCEPT ![head] = Staged]
    /\ UNCHANGED tree
    /\ pc' = "idle"
    /\ run' = Idle
    /\ UNCHANGED <<published, base, head, settled, runs>>

Next ==
    \/ Publish \/ CommitAll \/ Discard \/ BackToMain \/ Fail
    \/ \E b \in DOMAIN commits \ {Main} : Merge(b)
    \/ \E f \in File : Edit(f)
    \/ \E apply \in BOOLEAN, b \in Branch : StartWatch(apply, b)
    \/ \E apply \in BOOLEAN, b \in Branch, fs \in Findings : StartFix(apply, b, fs)
    \/ FirstRun \/ NothingChanged
    \/ \E missed \in SUBSET Changes : NothingToPatch(missed) \/ Find(missed)
    \/ \E reply \in Taken, c \in Change : \E edits \in Answers[c] \cup {<< >>} : Ask(reply, edits)
    \/ NoEdits \/ Verify \/ DryRun \/ NothingApplied \/ BeginWriting
    \/ \E f \in File : WriteFile(f)
    \/ WriteCache \/ CutBranch \/ Commit

Spec == Init /\ [][Next]_vars
-----------------------------------------------------------------------------
Patched(c, code) == \E f \in File : code[f][Fixed(c)] > 0

\* The cached specification never runs ahead of the work: in the tree and on
\* every branch, a change the cache counts as seen has its patch there too,
\* or touches nothing, or was settled: a person was told, or a verdict asked for
\* no edit.  No reply that is no verdict passes for one.  What the cache has moved
\* past no later run of watch reports (watch.go:262).
HandledIsAccounted ==
    \A s \in {tree} \cup {commits[b] : b \in DOMAIN commits} :
        \A c \in Breaking : c <= s.cache =>
            Patched(c, s.code) \/ Sites(c, s.code) = {} \/ c \in settled

\* The other direction: when watch commits a patch, the same commit moves the
\* cache past the changes patched, so merging it settles them.
PatchedIsHandled ==
    [][pc = "committing" /\ commits'[head] # commits[head] /\ run.tool = "watch" =>
          \A c \in Breaking :
             Patched(c, commits'[head].code) /\ ~Patched(c, commits[head].code)
               => c <= commits'[head].cache]_vars

\* While a command has patches in the tree and not in a commit, the person's
\* own work is all committed: git checkout undoes the patch and nothing else
\* (requireCleanTree).
UndoLosesNothing ==
    pc \in {"writing", "written", "committing"} =>
        \A f \in File : tree.code[f][Work] = commits[head].code[f][Work]
=============================================================================
