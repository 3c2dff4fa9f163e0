-------------------------------- MODULE Pipeline -------------------------------
(***************************************************************************)
(* The buffer between the ingest handlers and the event log                *)
(* (internal/pipeline): a bounded channel that drops its oldest event      *)
(* rather than block a handler, one worker that batches, writes with       *)
(* retries and gives a batch up after the last one, and the shutdown that  *)
(* cancels the worker once HTTP has drained (internal/app).                *)
(***************************************************************************)
EXTENDS Naturals, SequencesExt, Selections

CONSTANTS
    Events,
    Capacity,       \* BUFFER_CAPACITY
    FlushMaxEvents, \* BUFFER_FLUSH_MAX_EVENTS
    Attempts        \* 1 + len(retryDelays)

ASSUME PipelineAssumption ==
    /\ IsFiniteSet(Events)
    /\ Capacity \in Nat \ {0} /\ FlushMaxEvents \in Nat \ {0} /\ Attempts \in Nat \ {0}

VARIABLES
    call,       \* call[e]: where the handler's Enqueue(e) is
    ch,         \* the channel
    dropped,    \* Buffer.dropped
    worker,     \* "select", "drain", "write" or "exited"
    batch,      \* the worker's batch
    attempt,    \* attempts at the flush under way that failed
    server,     \* "up", "closing" (HTTP drains) or "stopped" (stopPipe called)
    late,       \* whether HTTP was given up before its handlers returned
    order,      \* the events in the order the channel took them
    written,    \* the events written, in the order of their batches
    evicted,    \* events dropped from the channel
    givenUp     \* events of batches dropped after the retries

channelVars == <<call, ch, dropped, order, evicted>>
workerVars  == <<worker, batch, attempt, written, givenUp>>
serverVars  == <<server, late>>
pipelineVars        == <<channelVars, workerVars, serverVars>>

Calling == { e \in Events : call[e] \in {"send", "full"} }

-----------------------------------------------------------------------------
(* Enqueue, in a handler's goroutine.                                      *)

Calls(e) ==
    /\ server = "up" /\ call[e] = "none"
    /\ call' = [call EXCEPT ![e] = "send"]
    /\ UNCHANGED <<ch, dropped, order, evicted, workerVars, serverVars>>

Sends(e) ==
    /\ call[e] = "send" /\ Len(ch) < Capacity
    /\ ch' = Append(ch, e) /\ order' = Append(order, e)
    /\ call' = [call EXCEPT ![e] = "returned"]
    /\ UNCHANGED <<dropped, evicted, workerVars, serverVars>>

FindsFull(e) ==
    /\ call[e] = "send" /\ Len(ch) = Capacity
    /\ call' = [call EXCEPT ![e] = "full"]
    /\ UNCHANGED <<ch, dropped, order, evicted, workerVars, serverVars>>

\* The channel may have changed since it was full: whatever is its oldest
\* event now goes, if there is one.
MakesRoom(e) ==
    /\ call[e] = "full"
    /\ IF ch = <<>>
       THEN UNCHANGED <<ch, dropped, evicted>>
       ELSE /\ ch' = Tail(ch) /\ dropped' = dropped + 1
            /\ evicted' = evicted \union {Head(ch)}
    /\ call' = [call EXCEPT ![e] = "send"]
    /\ UNCHANGED <<order, workerVars, serverVars>>

-----------------------------------------------------------------------------
(* Run, the worker.                                                        *)

Receives(from, to) ==
    /\ worker = from /\ ch # <<>>
    /\ batch' = Append(batch, Head(ch)) /\ ch' = Tail(ch)
    /\ worker' = to
    /\ UNCHANGED <<call, dropped, order, evicted, attempt, written, givenUp, serverVars>>

\* An event fills the batch, or leaves it short of a flush.
Takes ==
    Receives("select", IF Len(batch) + 1 >= FlushMaxEvents THEN "write" ELSE "select")

TickerFires ==
    /\ worker = "select" /\ batch # <<>>
    /\ worker' = "write"
    /\ UNCHANGED <<channelVars, batch, attempt, written, givenUp, serverVars>>

Cancelled ==
    /\ worker = "select" /\ server = "stopped"
    /\ worker' = "drain"
    /\ UNCHANGED <<channelVars, batch, attempt, written, givenUp, serverVars>>

Drains == Receives("drain", "drain")

\* Mutant of Drained: the last batch is not flushed.
MutDrained ==
    /\ worker = "drain" /\ ch = <<>>
    /\ worker' = "exited"
    /\ UNCHANGED <<channelVars, batch, attempt, written, givenUp, serverVars>>

\* Nothing is queued any more: the final flush.
Drained ==
    /\ worker = "drain" /\ ch = <<>>
    /\ worker' = IF batch = <<>> THEN "exited" ELSE "lastWrite"
    /\ UNCHANGED <<channelVars, batch, attempt, written, givenUp, serverVars>>

FlushEnds ==
    /\ batch' = <<>> /\ attempt' = 0
    /\ worker' = IF worker = "lastWrite" THEN "exited" ELSE "select"

WriteSucceeds ==
    /\ worker \in {"write", "lastWrite"}
    /\ written' = written \o batch
    /\ FlushEnds
    /\ UNCHANGED <<channelVars, givenUp, serverVars>>

\* Mutant of WriteFails: the worker never gives a batch up.
MutWriteFails ==
    /\ worker \in {"write", "lastWrite"}
    /\ attempt' = IF attempt + 1 < Attempts THEN attempt + 1 ELSE 0
    /\ UNCHANGED <<channelVars, worker, batch, written, givenUp, serverVars>>

WriteFails ==
    /\ worker \in {"write", "lastWrite"}
    /\ IF attempt + 1 < Attempts
       THEN attempt' = attempt + 1 /\ UNCHANGED <<worker, batch, givenUp>>
       ELSE givenUp' = givenUp \union ToSet(batch) /\ FlushEnds
    /\ UNCHANGED <<channelVars, written, serverVars>>

-----------------------------------------------------------------------------
(* Serve's shutdown.                                                       *)

HTTPCloses ==
    /\ server = "up"
    /\ server' = "closing"
    /\ UNCHANGED <<channelVars, workerVars, late>>

\* HTTP has drained, or five seconds have passed.
StopsPipe ==
    /\ server = "closing"
    /\ server' = "stopped"
    /\ late' = (Calling # {})
    /\ UNCHANGED <<channelVars, workerVars>>

-----------------------------------------------------------------------------

PipelineInit ==
    /\ call = [e \in Events |-> "none"]
    /\ ch = <<>> /\ dropped = 0
    /\ worker = "select" /\ batch = <<>> /\ attempt = 0
    /\ server = "up" /\ late = FALSE
    /\ order = <<>> /\ written = <<>> /\ evicted = {} /\ givenUp = {}

Enqueues(e) == Sends(e) \/ FindsFull(e) \/ MakesRoom(e)

Runs ==
    \/ Takes \/ TickerFires \/ Cancelled \/ Drains \/ Drained
    \/ WriteSucceeds \/ WriteFails

PipelineNext ==
    \/ \E e \in Events : Calls(e) \/ Enqueues(e)
    \/ Runs
    \/ HTTPCloses
    \/ StopsPipe

PipelineSpec == PipelineInit /\ [][PipelineNext]_pipelineVars

\* Handlers and the worker run, the ticker fires, the select picks a ready
\* cancellation in the end, and HTTP's shutdown has a deadline.  No write
\* need ever succeed, and no shutdown ever begin.
PipelineFairness ==
    /\ \A e \in Events : WF_pipelineVars(Enqueues(e))
    /\ WF_pipelineVars(Runs)
    /\ SF_pipelineVars(Cancelled)
    /\ WF_pipelineVars(StopsPipe)

-----------------------------------------------------------------------------

PipelineTypeOK ==
    /\ call \in [Events -> {"none", "send", "full", "returned"}]
    /\ ch \in Seq(Events) /\ Len(ch) <= Capacity
    /\ dropped \in Nat /\ attempt \in 0..(Attempts - 1)
    /\ worker \in {"select", "drain", "write", "lastWrite", "exited"}
    /\ batch \in Seq(Events) /\ order \in Seq(Events) /\ written \in Seq(Events)
    /\ server \in {"up", "closing", "stopped"} /\ late \in BOOLEAN
    /\ evicted \subseteq Events /\ givenUp \subseteq Events

\* No event is lost, written twice or overtaken on its way: what was written,
\* what the worker holds and what is queued are the events taken, in order,
\* but for the ones dropped; those the channel dropped are counted; and a
\* shutdown whose handlers all returned leaves none behind.
Conserved ==
    /\ written \o batch \o ch = Only(order, Events \ (evicted \union givenUp))
    /\ dropped = Cardinality(evicted)
    /\ worker = "exited" /\ ~late => ch = <<>> /\ batch = <<>> /\ Calling = {}

\* Enqueue never blocks: the handlers get through though no write ever
\* succeeds, and even once the worker is gone.  And a shutdown is not held up
\* by writes that keep failing.
NothingBlocks ==
    /\ Calling # {} ~> Calling = {}
    /\ server = "closing" ~> worker = "exited"

=============================================================================
