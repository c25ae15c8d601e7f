------------------------------- MODULE Serve -------------------------------
(***************************************************************************)
(* cmd/apidrift/serve.go with the proxy's response path                     *)
(* (internal/proxy/proxy.go), the sample queue (internal/sample/queue.go)   *)
(* and the analyzer's consumer loop (cmd/apidrift/analyze.go): the          *)
(* goroutines of a running proxy, from its first request to the return of   *)
(* serveCmd.                                                                *)
(*                                                                          *)
(* One handler goroutine per response; the tee is reduced to the outcomes   *)
(* it reports (module Tee).  A sample is the response it was captured from. *)
(* The queue's RWMutex is held for reading by the handlers inside Offer and *)
(* asked for, then held, for writing by serveCmd inside Close.              *)
(***************************************************************************)
EXTENDS Naturals, Sequences, FiniteSets

CONSTANTS
    Response,   \* the responses of one life of the proxy
    Depth       \* the queue's depth

ASSUME DepthAssumption == Depth \in Nat \ {0}

VARIABLES
    handler,     \* where each response's handler goroutine stands
    tally,       \* the proxy's counters
    channel,     \* Queue.ch: the buffered samples
    closed,      \* Queue.closed
    chanClosed,  \* close(q.ch) was called
    enqueued,    \* Queue.enqueued
    refused,     \* Queue.dropped
    taken,       \* samples received by the consumer, in order
    consumer,    \* "receive", "handle", "done"; "dead" in a defective variant
    evaluator,   \* "waiting", "evaluating", "done"
    cancelled,   \* the signal context is done
    timedOut,    \* proxySrv.Shutdown returned with handlers still running
    main         \* where serveCmd stands

queue == <<channel, closed, chanClosed, enqueued, refused>>
analysis == <<taken, consumer, evaluator>>
control == <<cancelled, timedOut, main>>
vars == <<handler, tally, queue, analysis, control>>

\* The four skip counters are kept as one: no two of them count one response.
Counter == {"requests", "sampled", "dropped", "skipped", "upstreamErrors"}

\* "offer" waits for the read lock; "check" and "send" hold it.
Stage == {"idle", "upstream", "streaming", "offer", "check", "send",
          "accepted", "refused", "closing", "ended"}

TypeOK ==
    /\ handler \in [Response -> Stage]
    /\ tally \in [Counter -> Nat]
    /\ channel \in Seq(Response) /\ Len(channel) <= Depth
    /\ closed \in BOOLEAN /\ chanClosed \in BOOLEAN
    /\ enqueued \in Nat /\ refused \in Nat
    /\ taken \in Seq(Response)
    /\ consumer \in {"receive", "handle", "done"}
    /\ evaluator \in {"waiting", "evaluating", "done"}
    /\ cancelled \in BOOLEAN /\ timedOut \in BOOLEAN
    /\ main \in {"serving", "draining", "stopping", "joining", "locking", "pending",
                 "marking", "closing", "waiting", "exited"}

Init ==
    /\ handler = [r \in Response |-> "idle"]
    /\ tally = [c \in Counter |-> 0]
    /\ channel = << >> /\ closed = FALSE /\ chanClosed = FALSE
    /\ enqueued = 0 /\ refused = 0
    /\ taken = << >> /\ consumer = "receive"
    /\ evaluator = "waiting"
    /\ cancelled = FALSE /\ timedOut = FALSE /\ main = "serving"
-----------------------------------------------------------------------------
\* Defective variants, for checking that the properties can fail: a writer
\* that does not wait for the readers, a send without a look at closed, room
\* for one sample too many, a refusal that is not counted, a panic that ends
\* the consumer, a serveCmd that does not wait for the consumer.
WriterHurries == TRUE
AlwaysOpen == TRUE
RoomForOneMore == Len(channel) <= Depth
RefusedQuietly == UNCHANGED refused
ResumeUncontained(end) == IF end = "panicked" THEN "dead" ELSE "receive"
ConsumerIgnored == TRUE

At(r, stage) == handler' = [handler EXCEPT ![r] = stage]
Count(c) == tally' = [tally EXCEPT ![c] = @ + 1]

\* ServeHTTP: a connection the listener accepts, while it listens.
Arrive(r) ==
    /\ handler[r] = "idle" /\ main = "serving"
    /\ At(r, "upstream")
    /\ Count("requests")
    /\ UNCHANGED <<queue, analysis, control>>

\* handleUpstreamError: no response to tee.
UpstreamFails(r) ==
    /\ handler[r] = "upstream"
    /\ At(r, "closing")
    /\ Count("upstreamErrors")
    /\ UNCHANGED <<queue, analysis, control>>

\* modifyResponse refuses what is not JSON, encoded, or declared too large.
SkipResponse(r) ==
    /\ handler[r] = "upstream"
    /\ At(r, "closing")
    /\ Count("skipped")
    /\ UNCHANGED <<queue, analysis, control>>

\* modifyResponse installs the tee.
InstallTee(r) ==
    /\ handler[r] = "upstream"
    /\ At(r, "streaming")
    /\ UNCHANGED <<tally, queue, analysis, control>>

\* record, called by the tee with a capture that is oversize or incomplete.
RecordSkip(r) ==
    /\ handler[r] = "streaming"
    /\ At(r, "closing")
    /\ Count("skipped")
    /\ UNCHANGED <<queue, analysis, control>>

\* record, called with a whole document: on to Offer.
RecordWhole(r) ==
    /\ handler[r] = "streaming"
    /\ At(r, "offer")
    /\ UNCHANGED <<tally, queue, analysis, control>>

\* A pending or holding writer keeps new readers out (sync.RWMutex).
WriterAbsent == main \notin {"pending", "marking", "closing"}

LockForReading(r) ==
    /\ handler[r] = "offer"
    /\ WriterAbsent
    /\ At(r, "check")
    /\ UNCHANGED <<tally, queue, analysis, control>>

Open == ~closed
Room == Len(channel) < Depth
Refused == refused' = refused + 1

\* Offer looks at closed.
CheckClosed(r) ==
    /\ handler[r] = "check"
    /\ IF Open THEN At(r, "send") /\ UNCHANGED refused
       ELSE At(r, "refused") /\ Refused
    /\ UNCHANGED <<tally, channel, closed, chanClosed, enqueued, analysis, control>>

\* Offer's select, its counter, and the deferred unlock.
Send(r) ==
    /\ handler[r] = "send"
    /\ IF Room
       THEN /\ At(r, "accepted")
            /\ channel' = Append(channel, r)
            /\ enqueued' = enqueued + 1
            /\ UNCHANGED refused
       ELSE At(r, "refused") /\ Refused /\ UNCHANGED <<channel, enqueued>>
    /\ UNCHANGED <<tally, closed, chanClosed, analysis, control>>

\* record counts Offer's answer.
CountOffer(r) ==
    /\ handler[r] \in {"accepted", "refused"}
    /\ Count(IF handler[r] = "accepted" THEN "sampled" ELSE "dropped")
    /\ At(r, "closing")
    /\ UNCHANGED <<queue, analysis, control>>

\* The response is delivered and the handler returns.
Return(r) ==
    /\ handler[r] = "closing"
    /\ At(r, "ended")
    /\ UNCHANGED <<tally, queue, analysis, control>>
-----------------------------------------------------------------------------
\* consume: the range loop receives the oldest sample.
Receive ==
    /\ consumer = "receive" /\ channel # << >>
    /\ taken' = Append(taken, Head(channel))
    /\ channel' = Tail(channel)
    /\ consumer' = "handle"
    /\ UNCHANGED <<handler, tally, closed, chanClosed, enqueued, refused, evaluator,
                   control>>

\* The loop goes on after a sample, a contained panic included.
Resume(end) == "receive"

\* handle: file returns by one of its returns, or panics and is recovered.
Handle(end) ==
    /\ consumer = "handle"
    /\ consumer' = Resume(end)
    /\ UNCHANGED <<handler, tally, queue, taken, evaluator, control>>

\* The range loop ends on a channel closed and drained.
ConsumerEnds ==
    /\ consumer = "receive" /\ channel = << >> /\ chanClosed
    /\ consumer' = "done"
    /\ UNCHANGED <<handler, tally, queue, taken, evaluator, control>>

\* runEvaluator: a tick, the evaluation's return, and ctx.Done.
Tick ==
    /\ evaluator = "waiting"
    /\ evaluator' = "evaluating"
    /\ UNCHANGED <<handler, tally, queue, taken, consumer, control>>

Evaluated ==
    /\ evaluator = "evaluating"
    /\ evaluator' = "waiting"
    /\ UNCHANGED <<handler, tally, queue, taken, consumer, control>>

EvaluatorEnds ==
    /\ evaluator = "waiting" /\ cancelled
    /\ evaluator' = "done"
    /\ UNCHANGED <<handler, tally, queue, taken, consumer, control>>
-----------------------------------------------------------------------------
Proceed(from, to) == main = from /\ main' = to

\* SIGINT or SIGTERM.
Signal ==
    /\ ~cancelled
    /\ cancelled' = TRUE
    /\ UNCHANGED <<handler, tally, queue, analysis, timedOut, main>>

\* The signal, or a listener that failed on its own.
BeginShutdown ==
    /\ Proceed("serving", "draining")
    /\ UNCHANGED <<handler, tally, queue, analysis, cancelled, timedOut>>

Quiet(r) == handler[r] \in {"idle", "ended"}

\* proxySrv.Shutdown returns: no handler is running, or the context expired.
ProxyDown ==
    /\ Proceed("draining", "stopping")
    /\ timedOut' = \E r \in Response : ~Quiet(r)
    /\ UNCHANGED <<handler, tally, queue, analysis, cancelled>>

\* adminSrv.Shutdown returns, then stop().
Stop ==
    /\ Proceed("stopping", "joining")
    /\ cancelled' = TRUE
    /\ UNCHANGED <<handler, tally, queue, analysis, timedOut>>

JoinEvaluator ==
    /\ Proceed("joining", "locking")
    /\ evaluator = "done"
    /\ UNCHANGED <<handler, tally, queue, analysis, cancelled, timedOut>>

\* queue.Close: ask for the write lock, get it, set closed, close the channel.
AskForLock ==
    /\ Proceed("locking", "pending")
    /\ UNCHANGED <<handler, tally, queue, analysis, cancelled, timedOut>>

ReadersGone == \A r \in Response : handler[r] \notin {"check", "send"}

LockForWriting ==
    /\ Proceed("pending", "marking")
    /\ ReadersGone
    /\ UNCHANGED <<handler, tally, queue, analysis, cancelled, timedOut>>

MarkClosed ==
    /\ Proceed("marking", "closing")
    /\ closed' = TRUE
    /\ UNCHANGED <<handler, tally, channel, chanClosed, enqueued, refused, analysis,
                   cancelled, timedOut>>

CloseChannel ==
    /\ Proceed("closing", "waiting")
    /\ chanClosed' = TRUE
    /\ UNCHANGED <<handler, tally, channel, closed, enqueued, refused, analysis,
                   cancelled, timedOut>>

ConsumerJoined == consumer = "done"

\* serveCmd returns and the process ends, with every goroutine in it.
Exit ==
    /\ Proceed("waiting", "exited")
    /\ ConsumerJoined
    /\ UNCHANGED <<handler, tally, queue, analysis, cancelled, timedOut>>
-----------------------------------------------------------------------------
Serving(r) ==
    \/ Arrive(r) \/ UpstreamFails(r) \/ InstallTee(r) \/ RecordWhole(r)
    \/ SkipResponse(r) \/ RecordSkip(r)
    \/ LockForReading(r) \/ CountOffer(r) \/ Return(r)

Offering(r) == CheckClosed(r) \/ Send(r)

Consume == Receive \/ (\E end \in {"returned", "panicked"} : Handle(end)) \/ ConsumerEnds

ShutDown == ProxyDown \/ Stop \/ JoinEvaluator \/ AskForLock \/ LockForWriting
              \/ MarkClosed \/ CloseChannel \/ Exit

Next ==
    /\ main # "exited"
    /\ \/ \E r \in Response : Serving(r) \/ Offering(r)
       \/ Consume
       \/ Tick \/ Evaluated \/ EvaluatorEnds
       \/ Signal \/ BeginShutdown \/ ShutDown

\* An upstream may stall a handler for ever, and nobody has to stop the proxy.
\* Everything else runs on: code inside Offer does not block, the shutdown
\* context expires, the consumer is scheduled, an evaluation returns; and
\* runEvaluator's select, which picks at random among the ready cases, does
\* not prefer the ticker for ever.
Fairness ==
    /\ \A r \in Response : WF_vars(Offering(r))
    /\ WF_vars(Consume)
    /\ WF_vars(Evaluated) /\ SF_vars(EvaluatorEnds)
    /\ WF_vars(ShutDown)

Spec == Init /\ [][Next]_vars /\ Fairness
-----------------------------------------------------------------------------
\* No handler is at its send once the channel is closed: the send would panic
\* in the client's request (the comment on Queue.mu).
NeverSendOnClosed ==
    \A r \in Response : handler[r] = "send" => ~chanClosed

Standing(stages) == Cardinality({r \in Response : handler[r] \in stages})

\* Every request is counted exactly once by its outcome, and the proxy's two
\* counts of samples agree with the queue's two: what is missing is in flight
\* (the comment on proxy.Stats).
CountedOnce ==
    /\ tally["requests"] =
         tally["sampled"] + tally["dropped"] + tally["upstreamErrors"]
           + tally["skipped"] + Standing(Stage \ {"idle", "closing", "ended"})
    /\ enqueued = tally["sampled"] + Standing({"accepted"})
    /\ refused = tally["dropped"] + Standing({"refused"})
    /\ enqueued = Len(taken) + Len(channel)

\* A handler that can still offer a sample, or is offering one.
CanOffer(r) == handler[r] \in {"upstream", "streaming", "offer", "check", "send"}

\* The shutdown loses nothing but by timing out: no sample that was accepted is
\* left in the queue when the process ends, and if the servers did go down in
\* time, none can meet a closed queue (serve.go, the comments on the order).
DrainedBeforeExit ==
    /\ main = "exited" => channel = << >> /\ consumer = "done" /\ Len(taken) = enqueued
    /\ closed /\ ~timedOut => \A r \in Response : ~CanOffer(r)

\* The queue in this traffic is a Handoff: bounded, in order, lossless once
\* accepted, and the consumer takes every sample in the end.
Queue == INSTANCE Handoff
           WITH Sample <- Response, pending <- channel, open <- ~closed
ImplementsHandoff == Queue!Spec

\* A shutdown begun ends, whatever the upstreams, the ticker and the analysis do.
ShutdownTerminates == (main = "draining") ~> (main = "exited")
=============================================================================
