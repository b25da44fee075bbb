-------------------------- MODULE OptimizePipeline --------------------------
(***************************************************************************)
(* One run of the optimisation pipeline: the background coroutine of the   *)
(* API gateway, the LangGraph workflow it hands to an executor thread, the *)
(* event queue both emit into, and the server-sent event streams that      *)
(* drain it for the Ghost Mode terminal.                                   *)
(*                                                                         *)
(* Coroutines interleave where they await; the workflow thread interleaves *)
(* anywhere and outlives the timeout of the coroutine that waits for it.   *)
(* Streams compete for the events of one queue, and a client may go away   *)
(* at any time, also because it has just seen the end of the run.          *)
(***************************************************************************)
EXTENDS Integers, Sequences, FiniteSetsExt, SequencesExt

CONSTANTS
  Streams,        \* connections a client may open to the run
  MaxIterations   \* AGENT_MAX_ITERATIONS

ASSUME PipelineAssumption == MaxIterations \in Nat \ {0}

VARIABLES
  pipe,        \* run_intelligence_pipeline: its next await, and what it holds
  worker,      \* the executor thread: the next half of a workflow node
  registered,  \* whether the job's queue is in the registry
  queue,       \* the queue object: numbers of emitted events, oldest first
  streams,     \* per connection: its step, and whether the client is there
  delivered,   \* history: numbers of the events handed to any stream, in that order
  emitted,     \* history: the kind of every event emitted, dropped ones included
  fault        \* history: whether a call failed, timed out or found nothing

vars == <<pipe, worker, registered, queue, streams, delivered, emitted, fault>>

Kinds == {"pipeline_start", "node_start", "node_done", "job_result", "company_result", "done", "error"}
Terminal == {"done", "error"}

PipeSteps == {"none", "submitted", "scrape", "analyze", "company", "ingest", "invoke", "over"}
WorkerSteps == {"none", "queued", "retrieving", "draft", "drafting", "score", "scoring",
                "returned", "raised", "cancelled"}
StreamSteps == {"off", "open", "terminal", "ended", "cancelled"}

-----------------------------------------------------------------------------
(* The event bus *)

\* Mutant: the newest event is put first.
EmitFirst(kinds) ==
  /\ emitted' = emitted \o kinds
  /\ queue' = IF registered
              THEN [i \in 1..Len(kinds) |-> Len(emitted) + i] \o queue ELSE queue

\* emit: into the registered queue, or nowhere.
Emit(kinds) ==
  /\ emitted' = emitted \o kinds
  /\ queue' = IF registered
              THEN queue \o [i \in 1..Len(kinds) |-> Len(emitted) + i] ELSE queue

\* A queue that neither the registry nor a stream refers to is gone.
Kept(events) ==
  queue' = IF registered' \/ \E s \in Streams : streams'[s].pc = "open" THEN events ELSE <<>>

\* optimize_cv: the queue exists before the background task starts.
Submit(resume) ==
  /\ pipe.pc = "none"
  /\ pipe' = [pipe EXCEPT !.pc = "submitted", !.resume = resume]
  /\ registered' = TRUE
  /\ UNCHANGED <<worker, queue, streams, delivered, emitted, fault>>

\* Mutant: the periodic task spares the queues that hold events.
EvictEmptyOnly ==
  /\ registered /\ queue = <<>>
  /\ registered' = FALSE
  /\ UNCHANGED <<pipe, worker, queue, streams, delivered, emitted, fault>>

\* cleanup_stale_queues: the queue is older than QUEUE_TTL_SECONDS, read or not.
Evict ==
  /\ registered
  /\ registered' = FALSE
  /\ UNCHANGED <<pipe, worker, streams, delivered, emitted, fault>>
  /\ Kept(queue)

-----------------------------------------------------------------------------
(* stream_events and its client *)

Stream(s, pc) == streams' = [streams EXCEPT ![s].pc = pc]
Close(s, pc) == streams' = [streams EXCEPT ![s] = [pc |-> pc, here |-> FALSE]]

Connect(s) ==
  /\ streams[s].pc = "off"
  /\ pipe.pc # "none"
  /\ streams' = [streams EXCEPT ![s] =
       [pc |-> IF registered THEN "open" ELSE "ended", here |-> registered]]
  /\ UNCHANGED <<pipe, worker, registered, queue, delivered, emitted, fault>>

\* The client closes the page, or aborts because it has seen the terminal event.
Leave(s) ==
  /\ streams[s].here
  /\ streams' = [streams EXCEPT ![s].here = FALSE]
  /\ UNCHANGED <<pipe, worker, registered, queue, delivered, emitted, fault>>

Taken(s) ==
  IF streams[s].here
  THEN /\ delivered' = Append(delivered, Head(queue))
       /\ Stream(s, IF emitted[Head(queue)] \in Terminal THEN "terminal" ELSE "open")
  ELSE Close(s, "cancelled") /\ UNCHANGED delivered

\* Mutant: events are peeked at, not taken.
DeliverAgain(s) ==
  /\ streams[s].pc = "open" /\ queue # <<>>
  /\ Taken(s)
  /\ UNCHANGED <<pipe, worker, registered, queue, emitted, fault>>

\* The event taken for a client that is gone is lost.
Deliver(s) ==
  /\ streams[s].pc = "open" /\ queue # <<>>
  /\ Taken(s)
  /\ UNCHANGED <<pipe, worker, registered, emitted, fault>>
  /\ Kept(Tail(queue))

\* Mutant: the queue stays registered after the terminal event.
EndKeepingQueue(s) ==
  /\ streams[s].pc = "terminal"
  /\ Close(s, "ended")
  /\ UNCHANGED <<pipe, worker, registered, queue, delivered, emitted, fault>>

\* The loop breaks after the terminal event, and the queue is removed.
End(s) ==
  /\ streams[s].pc = "terminal"
  /\ Close(s, "ended")
  /\ registered' = FALSE
  /\ UNCHANGED <<pipe, worker, delivered, emitted, fault>>
  /\ Kept(queue)

\* The stream's own deadline: it hands out an error of its own, and goes on to its
\* end unless the client is found to be gone.
Expire(s) ==
  /\ streams[s].pc = "open"
  /\ IF streams[s].here THEN Stream(s, "terminal") ELSE Close(s, "cancelled")
  /\ UNCHANGED <<pipe, worker, registered, delivered, emitted, fault>>
  /\ Kept(queue)

\* The response is cancelled once the client is gone; nothing is removed.
Cancel(s) ==
  /\ streams[s].pc \in {"open", "terminal"} /\ ~ streams[s].here
  /\ Close(s, "cancelled")
  /\ UNCHANGED <<pipe, worker, registered, delivered, emitted, fault>>
  /\ Kept(queue)

-----------------------------------------------------------------------------
(* run_intelligence_pipeline *)

At(pc) == pipe.pc = pc
Go(pc) == pipe' = [pipe EXCEPT !.pc = pc]

\* Every failure ends the run with one error event.
Fail(pc) ==
  /\ At(pc)
  /\ Go("over")
  /\ Emit(<<"error">>)
  /\ fault' = TRUE
  /\ UNCHANGED <<worker, registered, streams, delivered>>

Start ==
  /\ At("submitted")
  /\ Go("scrape")
  /\ Emit(<<"pipeline_start", "node_start">>)
  /\ UNCHANGED <<worker, registered, streams, delivered, fault>>

Scrape ==
  /\ At("scrape")
  /\ Go("analyze")
  /\ Emit(<<"node_done", "node_start">>)
  /\ UNCHANGED <<worker, registered, streams, delivered, fault>>

\* Then the job is saved and the resume's variant and snapshot are resolved.
Analyze ==
  /\ At("analyze")
  /\ Go("company")
  /\ UNCHANGED <<worker, registered, queue, streams, delivered, emitted, fault>>

\* Any failure of the company analysis is swallowed.
Company(insight) ==
  /\ At("company")
  /\ pipe' = [pipe EXCEPT !.pc = IF pipe.resume THEN "ingest" ELSE "invoke", !.insight = insight]
  /\ worker' = IF pipe.resume THEN worker ELSE [worker EXCEPT !.pc = "queued"]
  /\ Emit(<<"node_done">>)
  /\ UNCHANGED <<registered, streams, delivered, fault>>

Ingest ==
  /\ At("ingest")
  /\ Go("invoke")
  /\ worker' = [worker EXCEPT !.pc = "queued"]
  /\ UNCHANGED <<registered, queue, streams, delivered, emitted, fault>>

\* Mutant: the coroutine does not wait for the workflow.
CompleteEarly ==
  /\ At("invoke")
  /\ Go("over")
  /\ Emit((IF pipe.insight THEN <<"company_result">> ELSE <<>>) \o <<"done">>)
  /\ UNCHANGED <<worker, registered, streams, delivered, fault>>

Complete ==
  /\ At("invoke") /\ worker.pc = "returned"
  /\ Go("over")
  /\ Emit((IF pipe.insight THEN <<"company_result">> ELSE <<>>) \o <<"done">>)
  /\ UNCHANGED <<worker, registered, streams, delivered, fault>>

\* The workflow raised; fault says whether a call of it failed.
WorkflowRaised ==
  /\ At("invoke") /\ worker.pc = "raised"
  /\ Go("over")
  /\ Emit(<<"error">>)
  /\ UNCHANGED <<worker, registered, streams, delivered, fault>>

\* Mutant: the timeout is not handled and the run just stops.
WorkflowTimeoutSilent ==
  /\ At("invoke")
  /\ Go("over")
  /\ fault' = TRUE
  /\ UNCHANGED <<worker, registered, queue, streams, delivered, emitted>>

\* wait_for gives up; a thread that has started runs on.
WorkflowTimeout ==
  /\ At("invoke")
  /\ Go("over")
  /\ worker' = IF worker.pc = "queued" THEN [worker EXCEPT !.pc = "cancelled"] ELSE worker
  /\ Emit(<<"error">>)
  /\ fault' = TRUE
  /\ UNCHANGED <<registered, streams, delivered>>

-----------------------------------------------------------------------------
(* The workflow thread *)

Work(from, to, kinds) ==
  /\ worker.pc = from
  /\ worker' = [worker EXCEPT !.pc = to]
  /\ Emit(kinds)
  /\ UNCHANGED <<pipe, registered, streams, delivered, fault>>

Begin ==
  \/ Work("queued", "retrieving", <<"node_start">>)
  \/ Work("draft", "drafting", <<"node_start">>)
  \/ Work("score", "scoring", <<"node_start">>)

\* With a resume the node counts search results it never made, and raises.
Retrieved ==
  IF pipe.resume THEN Work("retrieving", "raised", <<>>)
  ELSE Work("retrieving", "draft", <<"node_done">>)

Drafted ==
  /\ worker.pc = "drafting"
  /\ worker' = [pc |-> "score", iterations |-> worker.iterations + 1]
  /\ Emit(<<"node_done">>)
  /\ UNCHANGED <<pipe, registered, streams, delivered, fault>>

\* Mutant: the workflow goes on until the score is good enough.
EndsHereByScore(good) == good

\* decide_next_step; no score at all ends the workflow too.
EndsHere(good) == good \/ worker.iterations >= MaxIterations

Scored(good) ==
  Work("scoring", IF EndsHere(good) THEN "returned" ELSE "draft", <<"node_done", "job_result">>)

\* The vector store, an agent or the privacy gateway raises.
Raise ==
  /\ worker.pc \in {"retrieving", "drafting", "scoring"}
  /\ worker' = [worker EXCEPT !.pc = "raised"]
  /\ fault' = TRUE
  /\ UNCHANGED <<pipe, registered, queue, streams, delivered, emitted>>

-----------------------------------------------------------------------------
Init ==
  /\ pipe = [pc |-> "none", resume |-> FALSE, insight |-> FALSE]
  /\ worker = [pc |-> "none", iterations |-> 0]
  /\ registered = FALSE
  /\ queue = <<>>
  /\ streams = [s \in Streams |-> [pc |-> "off", here |-> FALSE]]
  /\ delivered = <<>>
  /\ emitted = <<>>
  /\ fault = FALSE

Reader(s) == Deliver(s) \/ End(s) \/ Expire(s) \/ Cancel(s)
Thread == Begin \/ Retrieved \/ Drafted \/ Raise \/ \E good \in BOOLEAN : Scored(good)
Awaiting == \E pc \in {"scrape", "analyze", "ingest"} : Fail(pc)
Coroutine ==
  \/ Start \/ Scrape \/ Analyze \/ Ingest \/ Awaiting
  \/ \E insight \in BOOLEAN : Company(insight)
  \/ Complete \/ WorkflowRaised \/ WorkflowTimeout

Next ==
  \/ \E resume \in BOOLEAN : Submit(resume)
  \/ Evict \/ Coroutine \/ Thread
  \/ \E s \in Streams : Connect(s) \/ Leave(s) \/ Reader(s)

\* The event loop runs what is ready, every await of the coroutine ends by itself
\* or by its timeout, the cleanup task keeps running.  Nothing is assumed of the
\* thread or of the clients.
Fairness == WF_vars(Coroutine) /\ WF_vars(Evict) /\ \A s \in Streams : WF_vars(Reader(s))

Spec == Init /\ [][Next]_vars /\ Fairness

-----------------------------------------------------------------------------
(* Properties *)

\* The state of the run, the queue and the streams has its types.
TypeOK ==
  /\ pipe \in [pc: PipeSteps, resume: BOOLEAN, insight: BOOLEAN]
  /\ worker \in [pc: WorkerSteps, iterations: 0..MaxIterations]
  /\ registered \in BOOLEAN /\ fault \in BOOLEAN
  /\ emitted \in Seq(Kinds)
  /\ queue \in Seq(1..Len(emitted))
  /\ delivered \in Seq(1..Len(emitted))
  /\ streams \in [Streams -> [pc: StreamSteps, here: BOOLEAN]]

\* However the coroutine, the thread and competing streams interleave, events are
\* handed out in the order they were emitted, and none of them twice.
OrderedAndOnce ==
  \A i, j \in 1..Len(delivered) : i < j => delivered[i] < delivered[j]

\* A client that is the only one ever to connect, and stays, misses no event as
\* long as its queue is registered: what it has not got is still queued.
SoleReaderMissesNothing ==
  \A s \in Streams :
    (/\ registered /\ streams[s].here
     /\ \A t \in Streams \ {s} : streams[t].pc = "off")
      => delivered \o queue = [i \in 1..Len(emitted) |-> i]

\* A run announces one outcome; a success is announced last, after the workflow
\* has given its result, while a thread that outlived its timeout may still emit
\* progress after an error.
OneOutcome ==
  \A i \in 1..Len(emitted) : emitted[i] \in Terminal =>
    /\ \A j \in 1..Len(emitted) : emitted[j] \in Terminal => i = j
    /\ emitted[i] = "done" => i = Len(emitted) /\ \E j \in 1..i : emitted[j] = "job_result"

\* A stream that ended by itself has left no queue behind in the registry.
EndedStreamsLeaveNoQueue ==
  (\E s \in Streams : streams[s].pc = "ended") => ~ registered

\* Every run that was accepted announces its outcome, even when the workflow
\* thread hangs.
OutcomeIsAnnounced ==
  (pipe.pc = "submitted") ~> (\E i \in 1..Len(emitted) : emitted[i] \in Terminal)

\* No queue stays registered for ever: not that of a client that left, and not
\* that of a run nobody ever listened to.
QueuesAreReclaimed == registered ~> ~ registered
=============================================================================
