------------------------------- MODULE Patch -------------------------------
(***************************************************************************)
(* internal/patch/patch.go: which edits of a set apply to the code, and the *)
(* contents they leave.                                                     *)
(*                                                                          *)
(* The code is a bag of texts per file.  An edit [file, old, new, change]   *)
(* replaces one occurrence of old by new; change, which Apply never sees,   *)
(* says which upstream change the edit is an answer to.                     *)
(***************************************************************************)
EXTENDS Naturals, Sequences

CONSTANTS
    File,     \* the files of the repository that can be read
    Text      \* the texts an edit can name

Code == [File -> [Text -> Nat]]

\* safeJoin and the read succeed, and the old text is there exactly once.
Fits(code, e) == e.file \in File /\ code[e.file][e.old] = 1

Replace(code, e) ==
    [code EXCEPT ![e.file] =
        [t \in Text |-> (IF t = e.old THEN 0 ELSE @[t]) + (IF t = e.new THEN 1 ELSE 0)]]

\* What the edits make of the code, one after the other: a later edit sees
\* what the earlier ones left, and one that does not fit changes nothing.
Composed(code, edits) ==
    LET after[n \in 0 .. Len(edits)] ==
          IF n = 0 THEN code
          ELSE IF Fits(after[n - 1], edits[n]) THEN Replace(after[n - 1], edits[n])
          ELSE after[n - 1]
    IN after

Applied(code, edits) ==
    {n \in DOMAIN edits : Fits(Composed(code, edits)[n - 1], edits[n])}

Rejected(code, edits) == DOMAIN edits \ Applied(code, edits)

\* A variant of ChangedFiles for checking that properties can fail: the files
\* of rejected edits reported as changed.
NamedFiles(code, edits) == {edits[n].file : n \in DOMAIN edits}

\* Outcome.Files.
ChangedFiles(code, edits) == {edits[n].file : n \in Applied(code, edits)}
=============================================================================
