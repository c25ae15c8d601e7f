-------------------------------- MODULE Tee --------------------------------
(***************************************************************************)
(* internal/proxy/tee.go: one response body on its way to the client, with  *)
(* a capped copy kept for analysis.  Two goroutines touch it: the one that  *)
(* reads, and the one that closes, which may be another (the comment on     *)
(* teeBody.mu).  A body is its length; the copy is how much of it was kept. *)
(* No name is shared with module Serve, which takes the outcome from here:  *)
(* proofs about the two stand in one module.                                *)
(***************************************************************************)
EXTENDS Naturals, Sequences

CONSTANTS
    MaxLength,     \* longest body the upstream sends, in units of content
    MaxBody,       \* Options.MaxBodyBytes, in the same units
    MaxRead        \* most that one Read returns

ASSUME LengthAssumption == MaxLength \in Nat /\ MaxBody \in Nat /\ MaxRead \in Nat \ {0}

VARIABLES
    source,    \* the upstream's body: its length, how it ends, how much was read
    reader,    \* "reading", "capture", "finish", "report", "stopped"
    result,    \* what the latest src.Read returned: n and err
    closer,    \* "open", "report", "source", "closed"
    copy,      \* the captured state: buf, oversize, complete
    done,      \* finish has run
    handing,   \* the outcome finish made, on its way to onDone
    outcomes   \* what onDone was called with, in order

teeVars == <<source, reader, result, closer, copy, done, handing, outcomes>>

Endings == {"eof", "error"}
Outcome == [body : 0 .. MaxBody, complete : BOOLEAN, oversize : BOOLEAN]

\* The copy is typed by the cap: it never outgrows it, even by the read that
\* crosses it.
TeeTypeOK ==
    /\ source \in [length : 0 .. MaxLength, ending : Endings,
                   given : 0 .. MaxLength, closed : BOOLEAN]
    /\ reader \in {"reading", "capture", "finish", "report", "stopped"}
    /\ result \in [n : 0 .. MaxRead, err : Endings \cup {"nil"}]
    /\ closer \in {"open", "report", "source", "closed"}
    /\ copy \in [buf : 0 .. MaxBody, oversize : BOOLEAN, complete : BOOLEAN]
    /\ done \in BOOLEAN
    /\ handing \in Outcome
    /\ outcomes \in Seq(Outcome)

Nothing == [body |-> 0, complete |-> FALSE, oversize |-> FALSE]

TeeInit ==
    /\ source \in [length : 0 .. MaxLength, ending : Endings,
                   given : {0}, closed : {FALSE}]
    /\ reader = "reading"
    /\ result = [n |-> 0, err |-> "nil"]
    /\ closer = "open"
    /\ copy = [buf |-> 0, oversize |-> FALSE, complete |-> FALSE]
    /\ done = FALSE
    /\ handing = Nothing
    /\ outcomes = << >>
-----------------------------------------------------------------------------
\* src.Read returns, outside the lock: some content, with or without the end,
\* or an error once the source is closed.
SourceRead(n, err) ==
    /\ reader = "reading"
    /\ IF source.closed THEN n = 0 /\ err = "error"
       ELSE /\ source.given + n <= source.length
            /\ err # "nil" => err = source.ending /\ source.given + n = source.length
            /\ n > 0 \/ err # "nil"
    /\ source' = [source EXCEPT !.given = @ + n]
    /\ result' = [n |-> n, err |-> err]
    /\ reader' = "capture"
    /\ UNCHANGED <<closer, copy, done, outcomes, handing>>

\* Defective variants, for checking that the properties can fail: the cap
\* tested before the append, any error taken for the end.
CapturedLate(c, n) ==
    IF n = 0 \/ c.oversize THEN c
    ELSE IF c.buf > MaxBody THEN [c EXCEPT !.oversize = TRUE, !.buf = 0]
    ELSE [c EXCEPT !.buf = @ + n]

EndedAnyhow(err) == err # "nil"

\* The copy after n more bytes: past the cap it is given up altogether.
Captured(c, n) ==
    IF n = 0 \/ c.oversize THEN c
    ELSE IF c.buf + n > MaxBody THEN [c EXCEPT !.oversize = TRUE, !.buf = 0]
    ELSE [c EXCEPT !.buf = @ + n]

Ended(err) == err = "eof"

\* Read's critical section; any error at all then leads to finish.
Capture ==
    /\ reader = "capture"
    /\ copy' = [Captured(copy, result.n) EXCEPT !.complete = @ \/ Ended(result.err)]
    /\ reader' = IF result.err = "nil" THEN "reading" ELSE "finish"
    /\ UNCHANGED <<source, result, closer, done, outcomes, handing>>

\* The client hangs up: nobody reads on, and the handler goes on to close.
Abandon ==
    /\ reader = "reading"
    /\ reader' = "stopped"
    /\ UNCHANGED <<source, result, closer, copy, done, outcomes, handing>>

\* finish's critical section: only the first caller goes on to onDone, with
\* the buffer when it holds a whole document.
FirstToFinish == ~done

Finish ==
    /\ done' = TRUE
    /\ handing' = [body |-> IF copy.complete /\ ~copy.oversize THEN copy.buf ELSE 0,
                   complete |-> copy.complete, oversize |-> copy.oversize]
    /\ copy' = [copy EXCEPT !.buf = 0]

ReaderFinishes ==
    /\ reader = "finish"
    /\ IF FirstToFinish THEN Finish /\ reader' = "report"
       ELSE reader' = "stopped" /\ UNCHANGED <<done, handing, copy>>
    /\ UNCHANGED <<source, result, closer, outcomes>>

Close ==
    /\ closer = "open"
    /\ IF FirstToFinish THEN Finish /\ closer' = "report"
       ELSE closer' = "source" /\ UNCHANGED <<done, handing, copy>>
    /\ UNCHANGED <<source, result, reader, outcomes>>

\* The call of onDone, outside the lock.
Reported(o) == <<o>>

ReaderReports ==
    /\ reader = "report"
    /\ outcomes' = outcomes \o Reported(handing)
    /\ reader' = "stopped"
    /\ UNCHANGED <<source, result, closer, copy, done, handing>>

CloserReports ==
    /\ closer = "report"
    /\ outcomes' = outcomes \o Reported(handing)
    /\ closer' = "source"
    /\ UNCHANGED <<source, result, reader, copy, done, handing>>

CloseSource ==
    /\ closer = "source"
    /\ source' = [source EXCEPT !.closed = TRUE]
    /\ closer' = "closed"
    /\ UNCHANGED <<reader, result, copy, done, outcomes, handing>>

Read == \/ \E n \in 0 .. MaxRead, err \in Endings \cup {"nil"} : SourceRead(n, err)
        \/ Capture
        \/ Abandon
        \/ ReaderFinishes
        \/ ReaderReports

CloseBody == Close \/ CloserReports \/ CloseSource

TeeNext == Read \/ CloseBody

\* The reader may wait on the upstream for ever, but not inside the tee; the
\* handler always closes the body it was given.
TeeSpec ==
    /\ TeeInit /\ [][TeeNext]_teeVars
    /\ WF_teeVars(Capture \/ ReaderFinishes \/ ReaderReports)
    /\ WF_teeVars(CloseBody)
-----------------------------------------------------------------------------
\* The tee keeps the promise of BodyOutcome: however Read's end, the cap and a
\* concurrent Close interleave, onDone is called once and not twice, is called
\* in the end even for a body that never ends, and is given either the whole
\* document or nothing (newTeeBody's and finish's comments).
Promise ==
    INSTANCE BodyOutcome WITH
        length <- source.length, ending <- source.ending, given <- source.given

KeepsPromise == Promise!Spec
=============================================================================
