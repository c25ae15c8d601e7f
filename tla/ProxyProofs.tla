----------------------------- MODULE ProxyProofs ----------------------------
(***************************************************************************)
(* Proofs about the proxy's two concurrent parts: Tee, the capture of one    *)
(* response body, and Serve, the goroutines that carry the samples from      *)
(* there to the analysis, down to the shutdown.  Both are proved for every   *)
(* value of their constants; they share no state and no lemma.               *)
(***************************************************************************)
EXTENDS Tee, Serve, FiniteSetTheorems, TLAPS
-----------------------------------------------------------------------------
(***************************************************************************)
(* Tee, for every body, cap and size of a read.  What two goroutines do to   *)
(* one copy is settled by whoever finishes first: until then the copy is     *)
(* what was read, from then on only the outcome counts.                      *)
(***************************************************************************)
\* What Read has taken in: all that was read, but for what the latest
\* src.Read returned and Read has not got to yet.
TakenIn == IF reader = "capture" THEN source.given - result.n ELSE source.given

\* The source: it never gives more than there is, and only its end is "eof".
SourceOK ==
    /\ source.given <= source.length
    /\ result.n <= source.given
    /\ reader = "capture" /\ result.err = "eof" =>
          source.ending = "eof" /\ source.given = source.length

\* The copy, until somebody finishes.
CopyOK ==
    ~done =>
       /\ IF copy.oversize THEN TakenIn > MaxBody ELSE copy.buf = TakenIn
       /\ copy.complete => /\ reader = "finish"
                           /\ source.ending = "eof" /\ source.given = source.length

\* One outcome: not made yet, on its way by one of the two, or reported.
OneOutcome ==
    /\ ~done => outcomes = << >> /\ reader # "report" /\ closer # "report"
    /\ reader = "report" \/ closer = "report" => outcomes = << >>
    /\ ~(reader = "report" /\ closer = "report")

\* The outcome on its way.
HandingOK ==
    reader = "report" \/ closer = "report" =>
       /\ handing.complete => source.ending = "eof" /\ source.given = source.length
       /\ handing.oversize => source.given > MaxBody
       /\ handing.complete /\ ~handing.oversize => source.length <= MaxBody
       /\ handing = [body |-> IF handing.complete /\ ~handing.oversize
                              THEN source.length ELSE 0,
                     complete |-> handing.complete, oversize |-> handing.oversize]

TeeInv == TeeTypeOK /\ SourceOK /\ CopyOK /\ OneOutcome /\ HandingOK
-----------------------------------------------------------------------------
\* The invariant holds at the start.
LEMMA TeeInitInv == TeeInit => TeeInv
<1> SUFFICES ASSUME TeeInit PROVE TeeInv
  OBVIOUS
<1>1. /\ source.length \in Nat /\ source.given = 0 /\ result.n = 0 /\ result.err = "nil"
      /\ copy.buf = 0 /\ copy.oversize = FALSE /\ copy.complete = FALSE
  BY LengthAssumption DEF TeeInit
<1>2. TeeTypeOK
  <2>1. source \in [length : 0 .. MaxLength, ending : Endings,
                    given : 0 .. MaxLength, closed : BOOLEAN]
    <3>1. 0 \in 0 .. MaxLength /\ FALSE \in BOOLEAN
      BY LengthAssumption
    <3>2. source \in [length : 0 .. MaxLength, ending : Endings,
                      given : {0}, closed : {FALSE}]
      BY DEF TeeInit
    <3> QED
      BY <3>1, <3>2, Zenon
  <2>2. /\ result \in [n : 0 .. MaxRead, err : Endings \cup {"nil"}]
        /\ copy \in [buf : 0 .. MaxBody, oversize : BOOLEAN, complete : BOOLEAN]
        /\ handing \in Outcome
    BY LengthAssumption DEF TeeInit, Nothing, Outcome
  <2>3. reader = "reading" /\ closer = "open" /\ done \in BOOLEAN
    BY DEF TeeInit
  <2>4. outcomes \in Seq(Outcome)
    BY DEF TeeInit
  <2> QED
    BY <2>1, <2>2, <2>3, <2>4 DEF TeeTypeOK
<1>3. SourceOK /\ CopyOK
  BY <1>1 DEF TeeInit, SourceOK, CopyOK, TakenIn
<1>4. OneOutcome /\ HandingOK
  BY DEF TeeInit, OneOutcome, HandingOK
<1> QED
  BY <1>2, <1>3, <1>4 DEF TeeInv

\* The copy after n more bytes stays within the cap, and says of all that was
\* taken in what it said of it before.
LEMMA CapturedKeeps ==
    ASSUME NEW c \in [buf : 0 .. MaxBody, oversize : BOOLEAN, complete : BOOLEAN],
           NEW n \in Nat
    PROVE  /\ Captured(c, n) \in [buf : 0 .. MaxBody, oversize : BOOLEAN, complete : BOOLEAN]
           /\ Captured(c, n).complete = c.complete
           /\ \A all \in Nat :
                 (IF c.oversize THEN all > MaxBody ELSE c.buf = all) =>
                 (IF Captured(c, n).oversize THEN all + n > MaxBody
                                             ELSE Captured(c, n).buf = all + n)
<1>1. CASE n = 0 \/ c.oversize
  BY <1>1, LengthAssumption DEF Captured
<1>2. CASE ~(n = 0 \/ c.oversize) /\ c.buf + n > MaxBody
  <2>1. Captured(c, n) = [c EXCEPT !.oversize = TRUE, !.buf = 0]
    BY <1>2 DEF Captured
  <2>2. Captured(c, n) = [buf |-> 0, oversize |-> TRUE, complete |-> c.complete]
    BY <2>1
  <2>3. c.complete \in BOOLEAN /\ 0 \in 0 .. MaxBody
    BY LengthAssumption
  <2> QED
    BY <1>2, <2>2, <2>3
<1>3. CASE ~(n = 0 \/ c.oversize) /\ ~(c.buf + n > MaxBody)
  BY <1>3, LengthAssumption DEF Captured
<1> QED
  BY <1>1, <1>2, <1>3

\* Read's src.Read: more is given, or the end is met, and nothing is taken in.
LEMMA SourceReadInv ==
    ASSUME TeeInv, NEW n \in 0 .. MaxRead, NEW err \in Endings \cup {"nil"}, SourceRead(n, err)
    PROVE  TeeInv'
<1>1. /\ source' \in [length : 0 .. MaxLength, ending : Endings,
                      given : 0 .. MaxLength, closed : BOOLEAN]
      /\ source'.length = source.length /\ source'.ending = source.ending
      /\ source'.given = source.given + n /\ source'.given <= source.length
      /\ result'.n = n /\ result'.err = err /\ reader' = "capture"
  BY LengthAssumption DEF TeeInv, TeeTypeOK, SourceOK, SourceRead
<1>2. TeeTypeOK'
  BY <1>1 DEF TeeInv, TeeTypeOK, SourceRead
<1>3. SourceOK'
  BY <1>1, LengthAssumption DEF TeeInv, TeeTypeOK, SourceOK, SourceRead, Endings
<1>4. TakenIn' = TakenIn
  BY <1>1, LengthAssumption DEF TeeInv, TeeTypeOK, SourceRead, TakenIn
<1>5. CopyOK'
  BY <1>1, <1>4 DEF TeeInv, TeeTypeOK, CopyOK, SourceRead
<1>6. OneOutcome' /\ HandingOK'
  BY <1>1, LengthAssumption DEF TeeInv, TeeTypeOK, SourceOK, OneOutcome, HandingOK, SourceRead
<1> QED
  BY <1>2, <1>3, <1>5, <1>6 DEF TeeInv

\* Read's critical section takes in what was read.
LEMMA CaptureInv ==
    ASSUME TeeInv, Capture
    PROVE  TeeInv'
<1> DEFINE c == Captured(copy, result.n)
<1>1. copy \in [buf : 0 .. MaxBody, oversize : BOOLEAN, complete : BOOLEAN]
      /\ result.n \in Nat
  BY LengthAssumption DEF TeeInv, TeeTypeOK
<1>2. /\ c \in [buf : 0 .. MaxBody, oversize : BOOLEAN, complete : BOOLEAN]
      /\ c.complete = copy.complete
  BY <1>1, CapturedKeeps
<1>3. /\ copy' \in [buf : 0 .. MaxBody, oversize : BOOLEAN, complete : BOOLEAN]
      /\ copy'.buf = c.buf /\ copy'.oversize = c.oversize
      /\ copy'.complete = (copy.complete \/ result.err = "eof")
  BY <1>2 DEF Capture, Ended
<1>4. reader' \in {"reading", "finish"} /\ (result.err = "eof" => reader' = "finish")
  BY DEF Capture
<1>5. TeeTypeOK' /\ SourceOK'
  BY <1>3, <1>4 DEF TeeInv, TeeTypeOK, SourceOK, Capture
<1>6. CopyOK'
  <2> SUFFICES ASSUME ~done
               PROVE  /\ IF copy'.oversize THEN TakenIn' > MaxBody ELSE copy'.buf = TakenIn'
                      /\ copy'.complete => /\ reader' = "finish"
                                           /\ source.ending = "eof"
                                           /\ source.given = source.length
    BY DEF CopyOK, Capture
  <2>1. TakenIn \in Nat /\ TakenIn' = TakenIn + result.n
    BY <1>4, LengthAssumption DEF TeeInv, TeeTypeOK, SourceOK, TakenIn, Capture
  <2>2. IF copy.oversize THEN TakenIn > MaxBody ELSE copy.buf = TakenIn
    BY DEF TeeInv, CopyOK
  <2>3. IF c.oversize THEN TakenIn + result.n > MaxBody ELSE c.buf = TakenIn + result.n
    BY <1>1, <2>1, <2>2, CapturedKeeps
  <2>4. ~copy.complete
    BY DEF TeeInv, CopyOK, Capture
  <2> QED
    BY <1>3, <1>4, <2>1, <2>3, <2>4 DEF TeeInv, SourceOK, Capture
<1>7. OneOutcome' /\ HandingOK'
  BY <1>4 DEF TeeInv, OneOutcome, HandingOK, Capture
<1> QED
  BY <1>5, <1>6, <1>7 DEF TeeInv

\* What the first to finish makes of the copy is an outcome to report.
LEMMA FinishHands ==
    ASSUME TeeInv, ~done, Finish
    PROVE  /\ handing' \in Outcome
           /\ copy' \in [buf : 0 .. MaxBody, oversize : BOOLEAN, complete : BOOLEAN]
           /\ handing'.complete => source.ending = "eof" /\ source.given = source.length
           /\ handing'.oversize => source.given > MaxBody
           /\ handing'.complete /\ ~handing'.oversize => source.length <= MaxBody
           /\ handing' = [body |-> IF handing'.complete /\ ~handing'.oversize
                                   THEN source.length ELSE 0,
                          complete |-> handing'.complete, oversize |-> handing'.oversize]
<1>1. /\ handing'.complete = copy.complete /\ handing'.oversize = copy.oversize
      /\ handing' = [body |-> IF copy.complete /\ ~copy.oversize THEN copy.buf ELSE 0,
                     complete |-> copy.complete, oversize |-> copy.oversize]
  BY DEF Finish
<1>2. TakenIn <= source.given /\ source.given \in Nat /\ source.length \in Nat
  BY LengthAssumption DEF TeeInv, TeeTypeOK, TakenIn
<1>3. /\ copy.complete => source.ending = "eof" /\ source.given = source.length
      /\ copy.oversize => source.given > MaxBody
      /\ copy.complete /\ ~copy.oversize => copy.buf = source.length
  BY <1>2, LengthAssumption DEF TeeInv, TeeTypeOK, CopyOK, TakenIn
<1>4. copy.buf \in 0 .. MaxBody /\ copy.complete \in BOOLEAN /\ copy.oversize \in BOOLEAN
  BY DEF TeeInv, TeeTypeOK
<1>5. copy' \in [buf : 0 .. MaxBody, oversize : BOOLEAN, complete : BOOLEAN]
  BY LengthAssumption DEF TeeInv, TeeTypeOK, Finish
<1>6. handing' \in Outcome
  BY <1>1, <1>4, LengthAssumption DEF Outcome
<1> QED
  BY <1>1, <1>3, <1>4, <1>5, <1>6, LengthAssumption

\* Whoever calls finish: the first makes the outcome, the other goes on.
LEMMA FinishInv ==
    ASSUME TeeInv, ReaderFinishes \/ Close
    PROVE  TeeInv'
<1>1. CASE done
  <2>1. \/ reader = "finish" /\ reader' = "stopped" /\ closer' = closer
        \/ closer = "open" /\ closer' = "source" /\ reader' = reader
    BY <1>1 DEF ReaderFinishes, Close, FirstToFinish
  <2>2. UNCHANGED <<source, result, copy, done, handing, outcomes>>
    BY <1>1 DEF ReaderFinishes, Close, FirstToFinish
  <2> QED
    BY <1>1, <2>1, <2>2 DEF TeeInv, TeeTypeOK, SourceOK, CopyOK, OneOutcome, HandingOK
<1>2. CASE ~done
  <2>1. /\ Finish
        /\ \/ reader' = "report" /\ closer' = closer
           \/ reader' = reader /\ closer' = "report"
        /\ UNCHANGED <<source, result, outcomes>>
    BY <1>2 DEF ReaderFinishes, Close, FirstToFinish
  <2>2. done' = TRUE
    BY <2>1 DEF Finish
  <2>3. TeeTypeOK'
    BY <1>2, <2>1, <2>2, FinishHands DEF TeeInv, TeeTypeOK
  <2>4. SourceOK' /\ CopyOK'
    BY <2>1, <2>2 DEF TeeInv, SourceOK, CopyOK
  <2>5. OneOutcome'
    BY <1>2, <2>1, <2>2 DEF TeeInv, OneOutcome
  <2>6. HandingOK'
    BY <1>2, <2>1, FinishHands DEF HandingOK
  <2> QED
    BY <2>3, <2>4, <2>5, <2>6 DEF TeeInv
<1> QED
  BY <1>1, <1>2 DEF TeeInv, TeeTypeOK

\* The call of onDone, by the one who finished first.
LEMMA ReportInv ==
    ASSUME TeeInv, ReaderReports \/ CloserReports
    PROVE  TeeInv'
<1>1. /\ outcomes' = <<handing>>
      /\ \/ reader = "report" /\ reader' = "stopped" /\ closer' = closer
         \/ closer = "report" /\ closer' = "source" /\ reader' = reader
      /\ UNCHANGED <<source, result, copy, done, handing>>
  BY DEF ReaderReports, CloserReports, Reported, TeeInv, OneOutcome
<1>2. done
  BY <1>1 DEF TeeInv, TeeTypeOK, OneOutcome
<1>3. TeeTypeOK'
  BY <1>1 DEF TeeInv, TeeTypeOK
<1> QED
  BY <1>1, <1>2, <1>3 DEF TeeInv, SourceOK, CopyOK, OneOutcome, HandingOK

\* The steps that touch neither the copy nor the outcome.
LEMMA TeeOtherInv ==
    ASSUME TeeInv, Abandon \/ CloseSource \/ UNCHANGED teeVars
    PROVE  TeeInv'
<1>1. CASE Abandon
  BY <1>1 DEF Abandon, TeeInv, TeeTypeOK, SourceOK, CopyOK, OneOutcome, HandingOK, TakenIn
<1>2. CASE CloseSource
  <2>1. /\ source' \in [length : 0 .. MaxLength, ending : Endings,
                        given : 0 .. MaxLength, closed : BOOLEAN]
        /\ source'.length = source.length /\ source'.ending = source.ending
        /\ source'.given = source.given
    BY <1>2 DEF CloseSource, TeeInv, TeeTypeOK
  <2> QED
    BY <1>2, <2>1
       DEF CloseSource, TeeInv, TeeTypeOK, SourceOK, CopyOK, OneOutcome, HandingOK, TakenIn
<1>3. CASE UNCHANGED teeVars
  BY <1>3 DEF teeVars, TeeInv, TeeTypeOK, SourceOK, CopyOK, OneOutcome, HandingOK, TakenIn
<1> QED
  BY <1>1, <1>2, <1>3

\* Every step keeps the invariant, ...
LEMMA TeeStepInv == TeeInv /\ [TeeNext]_teeVars => TeeInv'
BY SourceReadInv, CaptureInv, FinishInv, ReportInv, TeeOtherInv
   DEF TeeNext, Read, CloseBody

\* ... so it always holds.
LEMMA TeeInvHolds == TeeSpec => []TeeInv
BY TeeInitInv, TeeStepInv, PTL DEF TeeSpec
-----------------------------------------------------------------------------
\* For every cap, size of a read and body, the state of the tee keeps its
\* types: the copy never outgrows the cap (teeBody.Read).
THEOREM TeeTypeCorrect == TeeSpec => []TeeTypeOK
<1>1. TeeInv => TeeTypeOK
  BY DEF TeeInv
<1> QED
  BY <1>1, TeeInvHolds, PTL

\* For every cap, size of a read and body, whatever the two goroutines do and
\* in whatever order: every step of the tee is a step of BodyOutcome, or none.
\* So onDone is called at most once, with the whole document or nothing, and
\* claims no end that was not read and no cap that was not passed (the comments
\* on newTeeBody and finish; KeepsPromise without its fairness).
THEOREM TeeImplements ==
    TeeSpec => Promise!Init /\ [][Promise!Next]_(Promise!vars)
<1>1. TeeInit => Promise!Init
  BY DEF TeeInit, Promise!Init
<1>2. TeeInv /\ [TeeNext]_teeVars => [Promise!Next]_(Promise!vars)
  <2> SUFFICES ASSUME TeeInv, [TeeNext]_teeVars PROVE [Promise!Next]_(Promise!vars)
    OBVIOUS
  <2>1. ASSUME NEW n \in 0 .. MaxRead, NEW err \in Endings \cup {"nil"}, SourceRead(n, err)
        PROVE  [Promise!Next]_(Promise!vars)
    <3>1. /\ source'.length = source.length /\ source'.ending = source.ending
          /\ source'.given = source.given + n /\ source'.given <= source.length
          /\ source.given \in Nat /\ source.length \in Nat /\ outcomes' = outcomes
      BY <2>1, LengthAssumption DEF TeeInv, TeeTypeOK, SourceOK, SourceRead
    <3>2. CASE n = 0
      BY <3>1, <3>2 DEF Promise!vars
    <3>3. CASE n # 0
      <4>1. source'.given \in 1 .. source.length
        BY <3>1, <3>3, LengthAssumption
      <4>2. Promise!Flow(source'.given)
        BY <3>1, <3>3, LengthAssumption DEF Promise!Flow
      <4> QED
        BY <4>1, <4>2 DEF Promise!Next
    <3> QED
      BY <3>2, <3>3
  <2>2. CASE ReaderReports \/ CloserReports
    <3>1. /\ outcomes = << >> /\ outcomes' = <<handing>>
          /\ UNCHANGED source
      BY <2>2 DEF ReaderReports, CloserReports, Reported, TeeInv, OneOutcome
    <3>2. handing.complete \in BOOLEAN /\ handing.oversize \in BOOLEAN
      BY DEF TeeInv, TeeTypeOK, Outcome
    <3>3. Promise!Report(handing.complete, handing.oversize)
      BY <2>2, <3>1 DEF ReaderReports, CloserReports, TeeInv, HandingOK, Promise!Report
    <3> QED
      BY <3>2, <3>3 DEF Promise!Next, Promise!SomeReport
  <2>3. CASE Capture \/ Abandon \/ ReaderFinishes \/ Close \/ UNCHANGED teeVars
    BY <2>3 DEF Capture, Abandon, ReaderFinishes, Close, teeVars, Promise!vars
  <2>4. CASE CloseSource
    <3>1. /\ source'.length = source.length /\ source'.ending = source.ending
          /\ source'.given = source.given /\ outcomes' = outcomes
      BY <2>4 DEF CloseSource, TeeInv, TeeTypeOK
    <3> QED
      BY <3>1 DEF Promise!vars
  <2> QED
    BY <2>1, <2>2, <2>3, <2>4 DEF TeeNext, Read, CloseBody
<1> QED
  BY <1>1, <1>2, TeeInvHolds, PTL DEF TeeSpec
-----------------------------------------------------------------------------
(***************************************************************************)
(* Serve, for every set of responses, finite or not, and every depth of the  *)
(* queue.  Two facts carry it: which flags are up is settled by where        *)
(* serveCmd stands, and what a handler is about to do is settled by which    *)
(* lock is held.                                                             *)
(***************************************************************************)
\* The stages a response counts as in flight in.
InFlight == Stage \ {"idle", "closing", "ended"}

\* The two flags are up from the step of Close that raises them.
FlagsOK ==
    /\ closed <=> main \in {"closing", "waiting", "exited"}
    /\ chanClosed <=> main \in {"waiting", "exited"}

\* The writer that holds the lock is alone, and what reads the flag after it
\* has set it does not send.
LockOK ==
    /\ main = "marking" => ReadersGone
    /\ closed => \A r \in Response : handler[r] # "send"

\* Servers that went down in time left no handler running, and none begins.
DownOK ==
    main \notin {"serving", "draining"} /\ ~timedOut => \A r \in Response : Quiet(r)

\* The consumer ends on a channel closed and drained, and serveCmd after it.
DrainOK ==
    /\ consumer = "done" => chanClosed /\ channel = << >>
    /\ main = "exited" => consumer = "done"

\* Only finitely many responses have begun, so those at a stage can be counted.
BegunFinite == IsFiniteSet({r \in Response : handler[r] # "idle"})

Inv == TypeOK /\ FlagsOK /\ LockOK /\ DownOK /\ DrainOK /\ BegunFinite /\ CountedOnce
-----------------------------------------------------------------------------
\* One handler's move adds it to the handlers at certain stages, takes it away
\* from them, or leaves them as they are.
LEMMA StandingMoves ==
    ASSUME TypeOK, BegunFinite, NEW S \in SUBSET Stage, "idle" \notin S,
           NEW r \in Response, NEW stage \in Stage, At(r, stage)
    PROVE  /\ Standing(S) \in Nat /\ Standing(S)' \in Nat
           /\ Standing(S)' + (IF handler[r] \in S THEN 1 ELSE 0)
                = Standing(S) + (IF stage \in S THEN 1 ELSE 0)
<1> DEFINE Before == {x \in Response : handler[x] \in S}
           After  == {x \in Response : handler'[x] \in S}
<1>1. Standing(S) = Cardinality(Before) /\ Standing(S)' = Cardinality(After)
  BY DEF Standing
<1>2. IsFiniteSet(Before) /\ Cardinality(Before) \in Nat
  BY FS_Subset, FS_CardinalityType DEF BegunFinite
<1>3. /\ handler'[r] = stage
      /\ \A x \in Response \ {r} : handler'[x] = handler[x]
  BY DEF At, TypeOK
<1>4. CASE handler[r] \in S <=> stage \in S
  <2>1. After = Before
    BY <1>3, <1>4
  <2> HIDE DEF Before, After
  <2> QED
    BY <1>1, <1>2, <1>4, <2>1
<1>5. CASE handler[r] \notin S /\ stage \in S
  <2>1. After = Before \cup {r} /\ r \notin Before
    BY <1>3, <1>5
  <2>2. Cardinality(After) = Cardinality(Before) + 1
    BY <1>2, <2>1, FS_AddElement
  <2> HIDE DEF Before, After
  <2> QED
    BY <1>1, <1>2, <1>5, <2>2
<1>6. CASE handler[r] \in S /\ stage \notin S
  <2>1. Before = After \cup {r} /\ r \notin After /\ After \subseteq Before
    BY <1>3, <1>6
  <2>2. IsFiniteSet(After) /\ Cardinality(After) \in Nat
    BY <1>2, <2>1, FS_Subset, FS_CardinalityType
  <2>3. Cardinality(Before) = Cardinality(After) + 1
    BY <2>1, <2>2, FS_AddElement
  <2> HIDE DEF Before, After
  <2> QED
    BY <1>1, <1>2, <1>6, <2>2, <2>3
<1> QED
  BY <1>4, <1>5, <1>6

\* What a handler's move does to the three numbers CountedOnce speaks of.
LEMMA StandingByStage ==
    ASSUME TypeOK, BegunFinite, NEW r \in Response, NEW stage \in Stage, At(r, stage)
    PROVE  \A S \in {InFlight, {"accepted"}, {"refused"}} :
              /\ Standing(S) \in Nat /\ Standing(S)' \in Nat
              /\ Standing(S)' + (IF handler[r] \in S THEN 1 ELSE 0)
                   = Standing(S) + (IF stage \in S THEN 1 ELSE 0)
<1>1. \A S \in {InFlight, {"accepted"}, {"refused"}} : S \in SUBSET Stage /\ "idle" \notin S
  BY DEF InFlight, Stage
<1> QED
  BY <1>1, StandingMoves

\* A response that begins, or moves on, leaves finitely many begun.
LEMMA StillFinite ==
    ASSUME TypeOK, BegunFinite, NEW r \in Response, NEW stage \in Stage, At(r, stage)
    PROVE  BegunFinite'
<1> DEFINE Begun == {x \in Response : handler[x] # "idle"}
<1>1. {x \in Response : handler'[x] # "idle"} \subseteq Begun \cup {r}
  BY DEF At, TypeOK
<1>2. IsFiniteSet(Begun \cup {r})
  BY FS_AddElement DEF BegunFinite
<1> QED
  BY <1>1, <1>2, FS_Subset DEF BegunFinite
-----------------------------------------------------------------------------
\* The invariant holds at the start.
LEMMA InitInv == Init => Inv
<1> SUFFICES ASSUME Init PROVE Inv
  OBVIOUS
<1>1. TypeOK
  <2>1. handler \in [Response -> Stage] /\ tally \in [Counter -> Nat]
    BY DEF Init, Stage
  <2>2. channel \in Seq(Response) /\ Len(channel) <= Depth /\ taken \in Seq(Response)
    BY DepthAssumption DEF Init
  <2> QED
    BY <2>1, <2>2 DEF Init, TypeOK
<1>2. FlagsOK /\ LockOK /\ DownOK /\ DrainOK
  BY DEF Init, FlagsOK, LockOK, DownOK, DrainOK
<1>3. \A S \in SUBSET Stage : "idle" \notin S => Standing(S) = 0
  <2> SUFFICES ASSUME NEW S \in SUBSET Stage, "idle" \notin S PROVE Standing(S) = 0
    OBVIOUS
  <2>1. {r \in Response : handler[r] \in S} = {}
    BY DEF Init
  <2> QED
    BY <2>1, FS_EmptySet DEF Standing
<1>4. BegunFinite
  <2>1. {r \in Response : handler[r] # "idle"} = {}
    BY DEF Init
  <2> QED
    BY <2>1, FS_EmptySet DEF BegunFinite
<1>5. Standing(InFlight) = 0 /\ Standing({"accepted"}) = 0 /\ Standing({"refused"}) = 0
  BY <1>3 DEF InFlight, Stage
<1>6. CountedOnce
  BY <1>5 DEF Init, CountedOnce, Counter, InFlight
<1> QED
  BY <1>1, <1>2, <1>4, <1>6 DEF Inv

\* What a handler does outside Offer: where it moves and what it counts.
Moves(r, stage) ==
    /\ At(r, stage)
    /\ \/ /\ handler[r] = "idle" /\ stage = "upstream" /\ main = "serving"
          /\ Count("requests")
       \/ /\ handler[r] \in {"upstream", "streaming"} /\ stage = "closing"
          /\ \E c \in {"upstreamErrors", "skipped"} : Count(c)
       \/ handler[r] = "accepted" /\ stage = "closing" /\ Count("sampled")
       \/ handler[r] = "refused" /\ stage = "closing" /\ Count("dropped")
       \/ /\ handler[r] \in {"upstream", "streaming", "offer"}
          /\ stage \in {"streaming", "offer", "check"}
          /\ stage = "check" => WriterAbsent
          /\ UNCHANGED tally
       \/ handler[r] = "closing" /\ stage = "ended" /\ UNCHANGED tally

\* Counting adds one to one counter.
LEMMA CountAdds ==
    ASSUME TypeOK, NEW c \in Counter, Count(c)
    PROVE  /\ tally' \in [Counter -> Nat]
           /\ tally'[c] = tally[c] + 1
           /\ \A d \in Counter \ {c} : tally'[d] = tally[d]
BY DEF Count, TypeOK

\* The counts stay exact when a handler moves outside Offer.
LEMMA CountedMove ==
    ASSUME TypeOK, BegunFinite, CountedOnce, NEW r \in Response, NEW stage \in Stage,
           Moves(r, stage), UNCHANGED <<channel, enqueued, refused, taken>>
    PROVE  CountedOnce'
<1>1. PICK flying \in Nat, flying2 \in Nat :
         /\ flying = Standing(InFlight) /\ flying2 = Standing(InFlight)'
         /\ flying2 + (IF handler[r] \in InFlight THEN 1 ELSE 0)
              = flying + (IF stage \in InFlight THEN 1 ELSE 0)
  BY StandingByStage DEF Moves
<1>2. PICK accepted \in Nat, accepted2 \in Nat :
         /\ accepted = Standing({"accepted"}) /\ accepted2 = Standing({"accepted"})'
         /\ accepted2 + (IF handler[r] = "accepted" THEN 1 ELSE 0)
              = accepted + (IF stage = "accepted" THEN 1 ELSE 0)
  BY StandingByStage DEF Moves
<1>3. PICK rejected \in Nat, rejected2 \in Nat :
         /\ rejected = Standing({"refused"}) /\ rejected2 = Standing({"refused"})'
         /\ rejected2 + (IF handler[r] = "refused" THEN 1 ELSE 0)
              = rejected + (IF stage = "refused" THEN 1 ELSE 0)
  BY StandingByStage DEF Moves
<1>4. PICK requests \in Nat, sampled \in Nat, dropped \in Nat, failed \in Nat, skipped \in Nat :
         /\ requests = tally["requests"] /\ sampled = tally["sampled"]
         /\ dropped = tally["dropped"] /\ failed = tally["upstreamErrors"]
         /\ skipped = tally["skipped"]
  BY DEF TypeOK, Counter
<1>5. /\ requests = sampled + dropped + failed + skipped + flying
      /\ enqueued = sampled + accepted
      /\ refused = dropped + rejected
      /\ enqueued = Len(taken) + Len(channel)
  BY <1>1, <1>2, <1>3, <1>4 DEF CountedOnce, InFlight
<1>6. ASSUME NEW q \in Nat, NEW s \in Nat, NEW d \in Nat, NEW f \in Nat, NEW k \in Nat,
             tally'["requests"] = q, tally'["sampled"] = s, tally'["dropped"] = d,
             tally'["upstreamErrors"] = f, tally'["skipped"] = k,
             q = s + d + f + k + flying2,
             enqueued = s + accepted2, refused = d + rejected2
      PROVE  CountedOnce'
  BY <1>1, <1>2, <1>3, <1>5, <1>6 DEF CountedOnce, InFlight
<1>7. \A s \in Stage : s \in InFlight <=> s \notin {"idle", "closing", "ended"}
  BY DEF InFlight
<1>8. CASE handler[r] = "idle" /\ stage = "upstream" /\ Count("requests")
  <2>1. flying2 = flying + 1 /\ accepted2 = accepted /\ rejected2 = rejected
    BY <1>1, <1>2, <1>3, <1>7, <1>8 DEF Stage
  <2>2. /\ tally'["requests"] = requests + 1
        /\ tally'["sampled"] = sampled
        /\ tally'["dropped"] = dropped
        /\ tally'["upstreamErrors"] = failed
        /\ tally'["skipped"] = skipped
    BY <1>4, <1>8, CountAdds DEF Counter
  <2> QED
    BY <1>5, <1>6, <2>1, <2>2
<1>9. CASE /\ handler[r] \in {"upstream", "streaming"} /\ stage = "closing"
           /\ \E c \in {"upstreamErrors", "skipped"} : Count(c)
  <2>1. flying = flying2 + 1 /\ accepted2 = accepted /\ rejected2 = rejected
    BY <1>1, <1>2, <1>3, <1>7, <1>9 DEF Stage
  <2>2. CASE Count("upstreamErrors")
    <3>1. /\ tally'["requests"] = requests
          /\ tally'["sampled"] = sampled
          /\ tally'["dropped"] = dropped
          /\ tally'["upstreamErrors"] = failed + 1
          /\ tally'["skipped"] = skipped
      BY <1>4, <2>2, CountAdds DEF Counter
    <3> QED
      BY <1>5, <1>6, <2>1, <3>1
  <2>3. CASE Count("skipped")
    <3>1. /\ tally'["requests"] = requests
          /\ tally'["sampled"] = sampled
          /\ tally'["dropped"] = dropped
          /\ tally'["upstreamErrors"] = failed
          /\ tally'["skipped"] = skipped + 1
      BY <1>4, <2>3, CountAdds DEF Counter
    <3> QED
      BY <1>5, <1>6, <2>1, <3>1
  <2> QED
    BY <1>9, <2>2, <2>3
<1>10. CASE handler[r] = "accepted" /\ stage = "closing" /\ Count("sampled")
  <2>1. flying = flying2 + 1 /\ accepted = accepted2 + 1 /\ rejected2 = rejected
    BY <1>1, <1>2, <1>3, <1>7, <1>10 DEF Stage
  <2>2. /\ tally'["requests"] = requests
        /\ tally'["sampled"] = sampled + 1
        /\ tally'["dropped"] = dropped
        /\ tally'["upstreamErrors"] = failed
        /\ tally'["skipped"] = skipped
    BY <1>4, <1>10, CountAdds DEF Counter
  <2> QED
    BY <1>5, <1>6, <2>1, <2>2
<1>11. CASE handler[r] = "refused" /\ stage = "closing" /\ Count("dropped")
  <2>1. flying = flying2 + 1 /\ accepted2 = accepted /\ rejected = rejected2 + 1
    BY <1>1, <1>2, <1>3, <1>7, <1>11 DEF Stage
  <2>2. /\ tally'["requests"] = requests
        /\ tally'["sampled"] = sampled
        /\ tally'["dropped"] = dropped + 1
        /\ tally'["upstreamErrors"] = failed
        /\ tally'["skipped"] = skipped
    BY <1>4, <1>11, CountAdds DEF Counter
  <2> QED
    BY <1>5, <1>6, <2>1, <2>2
<1>12. CASE /\ UNCHANGED tally
            /\ \/ /\ handler[r] \in {"upstream", "streaming", "offer"}
                  /\ stage \in {"streaming", "offer", "check"}
               \/ handler[r] = "closing" /\ stage = "ended"
  <2>1. flying2 = flying /\ accepted2 = accepted /\ rejected2 = rejected
    BY <1>1, <1>2, <1>3, <1>7, <1>12 DEF Stage
  <2> QED
    BY <1>4, <1>5, <1>6, <1>12, <2>1
<1> QED
  BY <1>8, <1>9, <1>10, <1>11, <1>12 DEF Moves

\* A handler outside Offer, from its request to its return.
LEMMA ServingInv ==
    ASSUME Inv, main # "exited", NEW r \in Response, Serving(r)
    PROVE  Inv'
<1> USE DEF Inv
<1>1. UNCHANGED <<queue, analysis, control>>
  BY DEF Serving, Arrive, UpstreamFails, InstallTee, RecordWhole, SkipResponse, RecordSkip,
         LockForReading, CountOffer, Return
<1>2. PICK stage \in Stage : Moves(r, stage)
  BY DEF Serving, Arrive, UpstreamFails, InstallTee, RecordWhole, SkipResponse, RecordSkip,
         LockForReading, CountOffer, Return, Stage, Moves
<1>3. handler' \in [Response -> Stage] /\ handler'[r] = stage
      /\ \A x \in Response \ {r} : handler'[x] = handler[x]
  BY <1>2 DEF Moves, TypeOK, At
<1>4. tally' \in [Counter -> Nat]
  BY <1>2, CountAdds DEF TypeOK, Moves, Counter
<1>5. TypeOK'
  BY <1>1, <1>3, <1>4 DEF TypeOK, queue, analysis, control
<1>6. FlagsOK' /\ DrainOK'
  BY <1>1 DEF FlagsOK, DrainOK, queue, analysis, control
<1>7. LockOK'
  BY <1>1, <1>2, <1>3 DEF Moves, LockOK, ReadersGone, WriterAbsent, queue, analysis, control
<1>8. DownOK'
  BY <1>1, <1>2, <1>3 DEF Moves, DownOK, Quiet, queue, analysis, control
<1>9. BegunFinite'
  BY <1>2, StillFinite DEF Moves
<1>10. CountedOnce'
  BY <1>1, <1>2, CountedMove DEF queue, analysis
<1> QED
  BY <1>5, <1>6, <1>7, <1>8, <1>9, <1>10

\* A handler inside Offer, holding the lock for reading.
LEMMA OfferingInv ==
    ASSUME Inv, NEW r \in Response, Offering(r)
    PROVE  Inv'
<1> USE DEF Inv
<1>1. handler[r] \in {"check", "send"} /\ UNCHANGED <<tally, closed, chanClosed, analysis, control>>
  BY DEF Offering, CheckClosed, Send
<1>2. \/ /\ handler[r] = "check" /\ ~closed /\ At(r, "send")
         /\ UNCHANGED <<channel, enqueued, refused>>
      \/ /\ At(r, "refused") /\ refused' = refused + 1
         /\ UNCHANGED <<channel, enqueued>>
      \/ /\ handler[r] = "send" /\ At(r, "accepted")
         /\ channel' = Append(channel, r) /\ Len(channel) < Depth
         /\ enqueued' = enqueued + 1 /\ UNCHANGED refused
  BY DEF Offering, CheckClosed, Send, Open, Room, Refused
<1>3. PICK stage \in {"send", "accepted", "refused"} : At(r, stage)
  BY <1>2
<1>4. handler' \in [Response -> Stage] /\ handler'[r] = stage
      /\ \A x \in Response \ {r} : handler'[x] = handler[x]
  BY <1>3 DEF TypeOK, At, Stage
<1>5. TypeOK'
  <2>1. channel' \in Seq(Response) /\ Len(channel') <= Depth
    <3>1. CASE UNCHANGED channel
      BY <3>1 DEF TypeOK
    <3>2. CASE channel' = Append(channel, r) /\ Len(channel) < Depth
      <4>1. channel \in Seq(Response) /\ Len(channel) \in Nat
        BY DEF TypeOK
      <4>2. channel' \in Seq(Response) /\ Len(channel') = Len(channel) + 1
        BY <3>2, <4>1
      <4> QED
        BY <3>2, <4>1, <4>2, DepthAssumption
    <3> QED
      BY <1>2, <3>1, <3>2
  <2>2. enqueued' \in Nat /\ refused' \in Nat
    BY <1>2 DEF TypeOK
  <2> QED
    BY <1>1, <1>4, <2>1, <2>2 DEF TypeOK, analysis, control
<1>6. FlagsOK'
  BY <1>1 DEF FlagsOK, control
<1>7. LockOK'
  <2>1. ~closed => main # "marking"
    BY <1>1 DEF LockOK, ReadersGone
  <2>2. stage = "send" => ~closed
    BY <1>2, <1>3, <1>4 DEF At, TypeOK
  <2> QED
    BY <1>1, <1>4, <2>1, <2>2 DEF LockOK, ReadersGone, FlagsOK, control
<1>8. DownOK'
  BY <1>1, <1>4 DEF DownOK, Quiet, control
<1>9. DrainOK'
  BY <1>1, <1>2 DEF DrainOK, LockOK, FlagsOK, analysis, control
<1>10. BegunFinite'
  BY <1>3, StillFinite DEF Stage
<1>11. CountedOnce'
  <2>1. \A S \in {InFlight, {"accepted"}, {"refused"}} :
           /\ Standing(S) \in Nat /\ Standing(S)' \in Nat
           /\ Standing(S)' + (IF handler[r] \in S THEN 1 ELSE 0)
                = Standing(S) + (IF stage \in S THEN 1 ELSE 0)
    BY <1>3, StandingByStage DEF Stage
  <2>2. Standing(InFlight)' = Standing(InFlight)
    <3>1. handler[r] \in InFlight /\ stage \in InFlight
      BY <1>1, <1>3 DEF InFlight, Stage
    <3> QED
      BY <2>1, <3>1
  <2>3. PICK accepted \in Nat, rejected \in Nat, sampled \in Nat, dropped \in Nat :
           /\ accepted = Standing({"accepted"}) /\ rejected = Standing({"refused"})
           /\ sampled = tally["sampled"] /\ dropped = tally["dropped"]
    BY <2>1 DEF TypeOK, Counter
  <2>4. /\ enqueued = sampled + accepted /\ refused = dropped + rejected
        /\ enqueued = Len(taken) + Len(channel)
    BY <2>3 DEF CountedOnce
  <2>5. ASSUME NEW a \in Nat, NEW d \in Nat,
               Standing({"accepted"})' = a, Standing({"refused"})' = d,
               enqueued' = sampled + a, refused' = dropped + d,
               enqueued' = Len(taken) + Len(channel')
        PROVE  CountedOnce'
    BY <1>1, <2>2, <2>3, <2>5 DEF CountedOnce, InFlight, analysis
  <2>6. CASE UNCHANGED <<channel, enqueued, refused>> /\ stage = "send"
    <3>1. Standing({"accepted"})' = accepted /\ Standing({"refused"})' = rejected
      BY <1>1, <2>1, <2>3, <2>6
    <3> QED
      BY <2>4, <2>5, <2>6, <3>1
  <2>7. CASE UNCHANGED <<channel, enqueued>> /\ refused' = refused + 1 /\ stage = "refused"
    <3>1. Standing({"accepted"})' = accepted /\ Standing({"refused"})' = rejected + 1
      BY <1>1, <2>1, <2>3, <2>7
    <3> QED
      BY <2>4, <2>5, <2>7, <3>1
  <2>8. CASE /\ channel' = Append(channel, r) /\ enqueued' = enqueued + 1
             /\ UNCHANGED refused /\ stage = "accepted"
    <3>1. Standing({"accepted"})' = accepted + 1 /\ Standing({"refused"})' = rejected
      BY <1>1, <2>1, <2>3, <2>8
    <3>2. PICK n \in Nat, m \in Nat : n = Len(channel) /\ m = Len(taken) /\ Len(channel') = n + 1
      BY <2>8 DEF TypeOK
    <3> QED
      BY <2>4, <2>5, <2>8, <3>1, <3>2
  <2> QED
    BY <1>2, <1>3, <1>4, <2>6, <2>7, <2>8 DEF At, TypeOK
<1> QED
  BY <1>5, <1>6, <1>7, <1>8, <1>9, <1>10, <1>11

\* The consumer.
LEMMA ConsumeInv ==
    ASSUME Inv, main # "exited", Consume
    PROVE  Inv'
<1> USE DEF Inv
<1>1. UNCHANGED <<handler, tally, closed, chanClosed, enqueued, refused, evaluator, control>>
  BY DEF Consume, Receive, Handle, ConsumerEnds, queue
<1>2. \A S \in SUBSET Stage : Standing(S)' = Standing(S)
  BY <1>1 DEF Standing
<1>3. FlagsOK' /\ LockOK' /\ DownOK' /\ BegunFinite'
  BY <1>1 DEF FlagsOK, LockOK, ReadersGone, DownOK, Quiet, BegunFinite, control
<1>4. consumer' \in {"receive", "handle", "done"}
  BY DEF Consume, Receive, Handle, Resume, ConsumerEnds
<1>5. CASE Receive
  <2>1. /\ channel' \in Seq(Response) /\ taken' \in Seq(Response)
        /\ Len(channel) = Len(channel') + 1 /\ Len(taken') = Len(taken) + 1
        /\ Len(channel') \in Nat /\ Len(taken) \in Nat
    <3>1. /\ channel \in Seq(Response) /\ channel # << >> /\ taken \in Seq(Response)
          /\ channel' = Tail(channel) /\ taken' = Append(taken, Head(channel))
      BY <1>5 DEF Receive, TypeOK
    <3>2. Head(channel) \in Response /\ Tail(channel) \in Seq(Response)
          /\ Len(Tail(channel)) = Len(channel) - 1 /\ Len(channel) \in Nat \ {0}
      BY <3>1
    <3> QED
      BY <3>1, <3>2
  <2>2. Len(channel') <= Depth
    BY <2>1, DepthAssumption DEF TypeOK
  <2>3. TypeOK'
    BY <1>1, <1>4, <2>1, <2>2 DEF TypeOK, control
  <2>4. DrainOK'
    BY <1>1, <1>5 DEF Receive, DrainOK, control
  <2>5. Len(taken') + Len(channel') = Len(taken) + Len(channel)
    BY <2>1
  <2>6. CountedOnce'
    BY <1>1, <1>2, <2>5 DEF CountedOnce, Stage
  <2> QED
    BY <1>3, <2>3, <2>4, <2>6
<1>6. CASE (\E end \in {"returned", "panicked"} : Handle(end)) \/ ConsumerEnds
  <2>1. UNCHANGED <<channel, taken>>
    BY <1>6 DEF Handle, ConsumerEnds, queue
  <2>2. TypeOK'
    BY <1>1, <1>4, <2>1 DEF TypeOK, control
  <2>3. DrainOK'
    BY <1>1, <1>6, <2>1 DEF Handle, Resume, ConsumerEnds, DrainOK, control
  <2>4. CountedOnce'
    BY <1>1, <1>2, <2>1 DEF CountedOnce, Stage
  <2> QED
    BY <1>3, <2>2, <2>3, <2>4
<1> QED
  BY <1>5, <1>6 DEF Consume

\* The evaluator's steps, serveCmd's, the signal, and no step at all: they
\* move neither a handler nor a sample.
LEMMA ControlInv ==
    ASSUME Inv, \/ Tick \/ Evaluated \/ EvaluatorEnds
                \/ Signal \/ BeginShutdown \/ ShutDown
                \/ UNCHANGED vars
    PROVE  Inv'
<1> USE DEF Inv
<1>1. UNCHANGED <<handler, tally, channel, enqueued, refused, taken, consumer>>
  BY DEF Tick, Evaluated, EvaluatorEnds, Signal, BeginShutdown, ShutDown, ProxyDown, Stop,
         JoinEvaluator, AskForLock, LockForWriting, MarkClosed, CloseChannel, Exit, vars,
         queue, analysis, control
<1>2. evaluator' \in {"waiting", "evaluating", "done"} /\ cancelled' \in BOOLEAN
  BY DEF TypeOK, Tick, Evaluated, EvaluatorEnds, Signal, BeginShutdown, ShutDown, ProxyDown,
         Stop, JoinEvaluator, AskForLock, LockForWriting, MarkClosed, CloseChannel, Exit, vars,
         queue, analysis, control
<1>3. \/ UNCHANGED <<main, closed, chanClosed, timedOut>>
      \/ /\ main = "serving" /\ main' = "draining"
         /\ UNCHANGED <<closed, chanClosed, timedOut>>
      \/ /\ main = "draining" /\ main' = "stopping"
         /\ timedOut' = \E r \in Response : ~Quiet(r)
         /\ UNCHANGED <<closed, chanClosed>>
      \/ /\ main \in {"stopping", "joining", "locking"}
         /\ main' \in {"joining", "locking", "pending"}
         /\ UNCHANGED <<closed, chanClosed, timedOut>>
      \/ /\ main = "pending" /\ main' = "marking" /\ ReadersGone
         /\ UNCHANGED <<closed, chanClosed, timedOut>>
      \/ /\ main = "marking" /\ main' = "closing" /\ closed' = TRUE
         /\ UNCHANGED <<chanClosed, timedOut>>
      \/ /\ main = "closing" /\ main' = "waiting" /\ chanClosed' = TRUE
         /\ UNCHANGED <<closed, timedOut>>
      \/ /\ main = "waiting" /\ main' = "exited" /\ consumer = "done"
         /\ UNCHANGED <<closed, chanClosed, timedOut>>
  <2>1. CASE Tick \/ Evaluated \/ EvaluatorEnds \/ Signal \/ UNCHANGED vars
    BY <2>1 DEF Tick, Evaluated, EvaluatorEnds, Signal, vars, queue, control
  <2>2. CASE BeginShutdown \/ ProxyDown
    BY <2>2 DEF BeginShutdown, ProxyDown, queue, Proceed
  <2>3. CASE Stop \/ JoinEvaluator \/ AskForLock
    BY <2>3 DEF Stop, JoinEvaluator, AskForLock, queue, Proceed
  <2>4. CASE LockForWriting \/ MarkClosed \/ CloseChannel \/ Exit
    BY <2>4 DEF LockForWriting, MarkClosed, CloseChannel, Exit, queue, Proceed, ConsumerJoined
  <2> QED
    BY <2>1, <2>2, <2>3, <2>4 DEF ShutDown
<1>4. TypeOK'
  BY <1>1, <1>2, <1>3 DEF TypeOK
<1>5. FlagsOK'
  <2>1. closed' \in BOOLEAN /\ chanClosed' \in BOOLEAN
    BY <1>4 DEF TypeOK
  <2>2. closed \in BOOLEAN /\ chanClosed \in BOOLEAN
    BY DEF TypeOK
  <2>3. /\ closed = TRUE <=> main \in {"closing", "waiting", "exited"}
        /\ chanClosed = TRUE <=> main \in {"waiting", "exited"}
    BY <2>2, Zenon DEF FlagsOK
  <2>4. /\ closed' = TRUE <=> main' \in {"closing", "waiting", "exited"}
        /\ chanClosed' = TRUE <=> main' \in {"waiting", "exited"}
    BY <1>3, <2>3
  <2> QED
    BY <2>1, <2>4, Zenon DEF FlagsOK
<1>6. LockOK'
  <2>1. main' = "marking" => ReadersGone
    BY <1>3 DEF LockOK
  <2>2. closed' = TRUE => closed = TRUE \/ ReadersGone
    BY <1>3 DEF LockOK
  <2> QED
    BY <1>1, <2>1, <2>2, <1>4 DEF LockOK, ReadersGone, TypeOK
<1>7. DownOK'
  BY <1>1, <1>3 DEF DownOK, Quiet
<1>8. DrainOK'
  BY <1>1, <1>3 DEF DrainOK, FlagsOK
<1>9. BegunFinite' /\ CountedOnce'
  BY <1>1 DEF BegunFinite, CountedOnce, Standing
<1> QED
  BY <1>4, <1>5, <1>6, <1>7, <1>8, <1>9

\* Every step keeps the invariant, ...
LEMMA StepInv == Inv /\ [Next]_vars => Inv'
BY ServingInv, OfferingInv, ConsumeInv, ControlInv DEF Next

\* ... so it always holds.
LEMMA InvHolds == Spec => []Inv
BY InitInv, StepInv, PTL DEF Spec
-----------------------------------------------------------------------------
\* For every set of responses and every depth, the state keeps its types: the
\* channel never holds more than its depth, and the consumer survives every
\* panic (Offer's select, handle's recover).
THEOREM TypeCorrect == Spec => []TypeOK
<1>1. Inv => TypeOK
  BY DEF Inv
<1> QED
  BY <1>1, InvHolds, PTL

\* For every number of clients hanging on through a shutdown that timed out:
\* none of them is at its send when the channel is closed (NeverSendOnClosed;
\* the comment on Queue.mu).
THEOREM NeverSendOnClosedHolds == Spec => []NeverSendOnClosed
<1>1. Inv => NeverSendOnClosed
  BY DEF Inv, LockOK, FlagsOK, NeverSendOnClosed
<1> QED
  BY <1>1, InvHolds, PTL

\* For every number of responses in flight, each is counted once by the proxy,
\* and what the proxy and the queue count differs by what is between them
\* (CountedOnce; the comment on proxy.Stats).
THEOREM CountedOnceHolds == Spec => []CountedOnce
<1>1. Inv => CountedOnce
  BY DEF Inv
<1> QED
  BY <1>1, InvHolds, PTL

\* At the exit of serveCmd every sample that was accepted has been analysed,
\* and servers that went down in time leave nobody to meet a closed queue
\* (DrainedBeforeExit; serve.go, the comments on the order of the shutdown).
THEOREM DrainedBeforeExitHolds == Spec => []DrainedBeforeExit
<1>1. Inv => DrainedBeforeExit
  <2> SUFFICES ASSUME Inv PROVE DrainedBeforeExit
    OBVIOUS
  <2>1. ASSUME main = "exited"
        PROVE  channel = << >> /\ consumer = "done" /\ Len(taken) = enqueued
    <3>1. channel = << >> /\ consumer = "done"
      BY <2>1 DEF Inv, DrainOK
    <3>2. enqueued = Len(taken) + Len(channel) /\ Len(taken) \in Nat
      BY DEF Inv, CountedOnce, TypeOK
    <3>3. Len(channel) = 0
      BY <3>1
    <3> QED
      BY <3>1, <3>2, <3>3
  <2>2. closed /\ ~timedOut => \A r \in Response : ~CanOffer(r)
    BY DEF Inv, FlagsOK, DownOK, Quiet, CanOffer
  <2> QED
    BY <2>1, <2>2 DEF DrainedBeforeExit
<1> QED
  BY <1>1, InvHolds, PTL

\* Whatever the handlers, the consumer and the shutdown do, the queue's every
\* step is a step of Handoff, or none: bounded, in order, nothing accepted
\* that is lost, nothing accepted once closed (ImplementsHandoff without its
\* fairness).
THEOREM Implements ==
    Spec => Queue!Init /\ [][Queue!Next]_<<channel, taken, ~closed>>
<1>1. Init => Queue!Init
  BY DEF Init, Queue!Init
<1>2. Inv /\ [Next]_vars => [Queue!Next]_<<channel, taken, ~closed>>
  <2> SUFFICES ASSUME Inv, [Next]_vars
               PROVE  Queue!Next \/ UNCHANGED <<channel, taken, closed>>
    OBVIOUS
  <2>1. CASE \E r \in Response : Serving(r)
    BY <2>1 DEF Serving, Arrive, UpstreamFails, InstallTee, RecordWhole, SkipResponse,
                RecordSkip, LockForReading, CountOffer, Return, queue, analysis
  <2>2. ASSUME NEW r \in Response, CheckClosed(r)
        PROVE  UNCHANGED <<channel, taken, closed>>
    BY <2>2 DEF CheckClosed, analysis
  <2>3. ASSUME NEW r \in Response, Send(r)
        PROVE  Queue!Next \/ UNCHANGED <<channel, taken, closed>>
    <3>1. CASE Room
      <4>1. ~closed /\ Len(channel) < Depth /\ channel' = Append(channel, r)
            /\ UNCHANGED <<taken, closed>>
        BY <2>3, <3>1 DEF Send, Room, Inv, LockOK, analysis
      <4>2. Queue!Accept(r)
        BY <4>1 DEF Queue!Accept
      <4> QED
        BY <4>2 DEF Queue!Next
    <3>2. CASE ~Room
      BY <2>3, <3>2 DEF Send, analysis
    <3> QED
      BY <3>1, <3>2
  <2>4. CASE Receive
    <3>1. Queue!Take
      BY <2>4 DEF Receive, Queue!Take
    <3> QED
      BY <3>1 DEF Queue!Next
  <2>5. CASE MarkClosed
    <3>1. (~closed)' = FALSE /\ UNCHANGED <<channel, taken>>
      BY <2>5 DEF MarkClosed, analysis
    <3>2. Queue!Close
      BY <3>1 DEF Queue!Close
    <3> QED
      BY <3>2 DEF Queue!Next
  <2>6. CASE \/ \E end \in {"returned", "panicked"} : Handle(end)
             \/ ConsumerEnds \/ Tick \/ Evaluated \/ EvaluatorEnds \/ Signal
             \/ BeginShutdown \/ ProxyDown \/ Stop \/ JoinEvaluator \/ AskForLock
             \/ LockForWriting \/ CloseChannel \/ Exit \/ UNCHANGED vars
    BY <2>6 DEF Handle, ConsumerEnds, Tick, Evaluated, EvaluatorEnds, Signal, BeginShutdown,
                ProxyDown, Stop, JoinEvaluator, AskForLock, LockForWriting, CloseChannel, Exit,
                vars, queue, analysis
  <2> QED
    BY <2>1, <2>2, <2>3, <2>4, <2>5, <2>6 DEF Next, Offering, Consume, ShutDown
<1> QED
  BY <1>1, <1>2, InvHolds, PTL DEF Spec
=============================================================================
