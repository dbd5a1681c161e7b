-------------------------- MODULE AgentTurnStream --------------------------
(***************************************************************************)
(* POST /v1/agent/turns: one SSE response per Agent turn.  Each turn is a   *)
(* session (AgentTurnStreamSession) made of                                 *)
(*   - a worker task owned by the shared RequestDispatcher, which runs the  *)
(*     durable Agent Run (AgentService) and publishes frames;               *)
(*   - a bounded queue of frames with contiguous sequence numbers and a     *)
(*     byte budget (_AgentEventPublisher);                                  *)
(*   - the HTTP side: the start barrier, the response body, the client that *)
(*     may disconnect at any moment.                                        *)
(* Everything runs on one asyncio loop: an action is what one task does     *)
(* between two awaits.                                                      *)
(***************************************************************************)
EXTENDS Naturals, Sequences, FiniteSets

CONSTANTS
  Streams,        \* the sessions the HTTP route creates
  RequestIds,     \* the X-Request-ID values clients use
  Conversation,   \* [Streams -> conversation]
  Capacity,       \* RequestDispatcher capacity (16 in the code)
  QueueCapacity,  \* AGENT_SSE_QUEUE_CAPACITY (64)
  FrameLimit,     \* MAX_AGENT_SSE_FRAME_BYTES
  BodyLimit,      \* MAX_AGENT_SSE_BODY_BYTES
  Reserve         \* AGENT_SSE_TERMINAL_RESERVE_BYTES

ASSUME LimitsAssumption ==
  /\ Capacity \in Nat \ {0}
  /\ QueueCapacity \in Nat \ {0}
  /\ FrameLimit \in Nat \ {0}
  /\ Reserve \in Nat
  /\ BodyLimit \in Nat
  /\ FrameLimit <= Reserve
  /\ FrameLimit + Reserve <= BodyLimit

TerminalKinds == {"completed", "failed"}
Kinds         == {"started", "event"} \cup TerminalKinds
Frames        == [kind : Kinds, seq : Nat, size : 1..FrameLimit]
NoFrame       == [kind |-> "none"]
NoRequest     == "none"

TerminalStatus == {"COMPLETED", "FAILED", "LIMIT_REACHED", "CANCELLED"}

\* Phases of the worker task.  In RunTurnPhases it holds the conversation lock.
RunTurnPhases == {"offering", "enqueued", "graph", "limit", "unwinding"}
OwnedPhases   == RunTurnPhases \cup {"setup", "awaitSent"}
WorkerPhases  == OwnedPhases \cup {"none", "created", "done"}

ConsumerPhases == {"absent", "starting", "reading", "sending", "joining",
                   "dropped", "closing", "closed"}

VARIABLES
  request,     \* the X-Request-ID of each session
  active,      \* dispatcher._active, as the set of sessions that own an entry
  closing,     \* dispatcher._closing
  cancelled,   \* the dispatcher's cancellation event of each request
  worker,      \* where the worker task is suspended
  taskCancel,  \* worker.cancel() was called and not yet delivered
  started,     \* publisher._started_future
  offered,     \* the frame _put is working on
  sequence,    \* publisher._sequence
  bytes,       \* publisher._encoded_bytes
  queue,       \* publisher._queue
  consumer,    \* where the HTTP side is
  frame,       \* the frame events() yielded and the server is sending
  received,    \* how many frames the client was sent (history)
  lastFrame,   \* the kind of the last of them (history)
  run,         \* durable status of the turn's Run
  dbFault      \* the transaction that finishes the Run failed (history)

dispatcherVars == <<active, closing, cancelled>>
publisherVars  == <<offered, sequence, bytes>>
clientVars     == <<consumer, frame, received, lastFrame>>
durableVars    == <<run, dbFault>>
vars == <<dispatcherVars, publisherVars, clientVars, durableVars,
          request, worker, taskCancel, started, queue>>

TypeOK ==
  /\ request \in [Streams -> RequestIds \cup {NoRequest}]
  /\ active \in SUBSET Streams
  /\ closing \in BOOLEAN
  /\ cancelled \in [Streams -> BOOLEAN]
  /\ worker \in [Streams -> WorkerPhases]
  /\ taskCancel \in [Streams -> BOOLEAN]
  /\ started \in [Streams -> {"pending", "ok", "error"}]
  /\ offered \in [Streams -> Frames \cup {NoFrame}]
  /\ sequence \in [Streams -> Nat]
  /\ bytes \in [Streams -> 0..BodyLimit]
  /\ queue \in [Streams -> Seq(Frames)]
  /\ consumer \in [Streams -> ConsumerPhases]
  /\ frame \in [Streams -> Frames \cup {NoFrame}]
  /\ received \in [Streams -> Nat]
  /\ lastFrame \in [Streams -> Kinds \cup {"none"}]
  /\ run \in [Streams -> {"none", "RUNNING"} \cup TerminalStatus]
  /\ dbFault \in [Streams -> BOOLEAN]

Init ==
  /\ request = [s \in Streams |-> NoRequest]
  /\ active = {}
  /\ closing = FALSE
  /\ cancelled = [s \in Streams |-> FALSE]
  /\ worker = [s \in Streams |-> "none"]
  /\ taskCancel = [s \in Streams |-> FALSE]
  /\ started = [s \in Streams |-> "pending"]
  /\ offered = [s \in Streams |-> NoFrame]
  /\ sequence = [s \in Streams |-> 0]
  /\ bytes = [s \in Streams |-> 0]
  /\ queue = [s \in Streams |-> <<>>]
  /\ consumer = [s \in Streams |-> "absent"]
  /\ frame = [s \in Streams |-> NoFrame]
  /\ received = [s \in Streams |-> 0]
  /\ lastFrame = [s \in Streams |-> "none"]
  /\ run = [s \in Streams |-> "none"]
  /\ dbFault = [s \in Streams |-> FALSE]
-----------------------------------------------------------------------------
(* Mutated forms of the definitions below, for the mutation runs.          *)

FitsAnything(s, size, terminal) == TRUE

FitsWithoutReserve(s, size, terminal) == bytes[s] + size <= BodyLimit

AdmitOneTooMany(s) == /\ ~closing
                      /\ \A u \in active : request[u] # request[s]
                      /\ Cardinality(active) <= Capacity

NoLock(s) == TRUE

-----------------------------------------------------------------------------
(* Helpers.                                                                *)

\* _validated_size: the frame limit, and the body limit less the reserve.
Fits(s, size, terminal) ==
  bytes[s] + size + (IF terminal THEN 0 ELSE Reserve) <= BodyLimit

\* _execute_owned, step 1.
CanAdmit(s) ==
  /\ ~closing
  /\ \A t \in active : request[t] # request[s]
  /\ Cardinality(active) < Capacity

\* _conversation_lock: nobody else of this conversation is inside run_turn.
LockFree(s) ==
  \A t \in Streams \ {s} :
    Conversation[t] = Conversation[s] => worker[t] \notin RunTurnPhases

\* The worker task ends: the dispatcher entry is popped, and an exception
\* before the barrier is handed to start() by fail_before_start.
EndWorker(s) ==
  /\ worker' = [worker EXCEPT ![s] = "done"]
  /\ started' = [started EXCEPT ![s] = IF @ = "pending" THEN "error" ELSE @]
  /\ active' = active \ {s}

Offer(s, kind, size) ==
  /\ offered' = [offered EXCEPT ![s] =
                   [kind |-> kind, seq |-> sequence[s], size |-> size]]
  /\ worker' = [worker EXCEPT ![s] = "offering"]
  /\ UNCHANGED <<active, started>>

\* _publish_terminal up to the await in _put.  A frame over budget is an
\* error nobody reports; a set cancellation event is a CancelledError.
PublishTerminal(s, kind) ==
  \E size \in 1..FrameLimit :
    IF ~Fits(s, size, TRUE)
      THEN EndWorker(s) /\ UNCHANGED offered
      ELSE IF cancelled[s]
             THEN /\ worker' = [worker EXCEPT ![s] = "unwinding"]
                  /\ UNCHANGED <<active, started, offered>>
             ELSE Offer(s, kind, size)
-----------------------------------------------------------------------------
(* More mutated forms, of the actions that follow.                         *)

\* A full queue drops the frame instead of blocking.
PutOrDrop(s) ==
  /\ worker[s] = "offering"
  /\ queue' = [queue EXCEPT ![s] =
                IF Len(@) < QueueCapacity THEN Append(@, offered[s]) ELSE @]
  /\ worker' = [worker EXCEPT ![s] = "enqueued"]
  /\ UNCHANGED <<request, dispatcherVars, publisherVars, clientVars,
                 durableVars, taskCancel, started>>

\* The completed frame goes out before the transaction.
CompleteUncommitted(s) ==
  /\ worker[s] = "graph"
  /\ ~taskCancel[s]
  /\ PublishTerminal(s, "completed")
  /\ UNCHANGED <<request, closing, cancelled, sequence, bytes, clientVars,
                 durableVars, taskCancel, queue>>

\* wait_terminal_sent does not race the dispatcher's event.
TerminalSentOrLeft(s) ==
  /\ worker[s] = "awaitSent"
  /\ lastFrame[s] \in TerminalKinds \/ taskCancel[s]
  /\ EndWorker(s)
  /\ UNCHANGED <<request, closing, cancelled, publisherVars, clientVars,
                 durableVars, taskCancel, queue>>
-----------------------------------------------------------------------------
(* The worker: _run_worker -> dispatcher.execute -> _run_application ->     *)
(* AgentService.run_turn -> wait_terminal_sent.                             *)

\* start(): the only worker of the session is created.
Start(s) ==
  /\ consumer[s] = "absent"
  /\ consumer' = [consumer EXCEPT ![s] = "starting"]
  /\ worker' = [worker EXCEPT ![s] = "created"]
  /\ \E id \in RequestIds : request' = [request EXCEPT ![s] = id]
  /\ UNCHANGED <<dispatcherVars, publisherVars, durableVars, taskCancel,
                 started, queue, frame, received, lastFrame>>

\* The dispatcher registers the request with a fresh cancellation event.
Admit(s) ==
  /\ worker[s] = "created"
  /\ ~taskCancel[s]
  /\ CanAdmit(s)
  /\ active' = active \cup {s}
  /\ worker' = [worker EXCEPT ![s] = "setup"]
  /\ UNCHANGED <<request, closing, cancelled, publisherVars, clientVars,
                 durableVars, taskCancel, started, queue>>

\* RUNTIME_STOPPING, DUPLICATE_REQUEST_ID or REQUEST_CAPACITY_EXCEEDED.
Refuse(s) ==
  /\ worker[s] = "created"
  /\ ~taskCancel[s]
  /\ ~CanAdmit(s)
  /\ EndWorker(s)
  /\ UNCHANGED <<request, closing, cancelled, publisherVars, clientVars,
                 durableVars, taskCancel, queue>>

\* A task cancelled before its first step never enters _run_worker, so
\* nobody settles _started_future; start() was itself cancelled.
CancelBeforeFirstStep(s) ==
  /\ worker[s] = "created"
  /\ taskCancel[s]
  /\ worker' = [worker EXCEPT ![s] = "done"]
  /\ UNCHANGED <<request, dispatcherVars, publisherVars, clientVars,
                 durableVars, taskCancel, started, queue>>

\* The configuration, the credential, the SSH session or the conversation
\* is refused while no Run exists.
SetupRefused(s) ==
  /\ worker[s] = "setup"
  /\ EndWorker(s)
  /\ UNCHANGED <<request, closing, cancelled, publisherVars, clientVars,
                 durableVars, taskCancel, queue>>

\* A task cancellation interrupts the wait for the conversation lock; the
\* dispatcher's event is only seen by the validation that follows it.
SetupCancelled(s) ==
  /\ worker[s] = "setup"
  /\ taskCancel[s] \/ (cancelled[s] /\ LockFree(s))
  /\ EndWorker(s)
  /\ UNCHANGED <<request, closing, cancelled, publisherVars, clientVars,
                 durableVars, taskCancel, queue>>

\* Under the conversation lock: the Run is committed as RUNNING, then
\* started() offers frame zero.
BeginRun(s) ==
  /\ worker[s] = "setup"
  /\ ~taskCancel[s]
  /\ ~cancelled[s]
  /\ LockFree(s)
  /\ run' = [run EXCEPT ![s] = "RUNNING"]
  /\ \E size \in 1..FrameLimit : Offer(s, "started", size)
  /\ UNCHANGED <<request, closing, cancelled, sequence, bytes, clientVars,
                 dbFault, taskCancel, queue>>

\* _put: the put task finds room.  It runs even if the worker is about to
\* learn that it was cancelled.
PutEnters(s) ==
  /\ worker[s] = "offering"
  /\ Len(queue[s]) < QueueCapacity
  /\ queue' = [queue EXCEPT ![s] = Append(@, offered[s])]
  /\ worker' = [worker EXCEPT ![s] = "enqueued"]
  /\ UNCHANGED <<request, dispatcherVars, publisherVars, clientVars,
                 durableVars, taskCancel, started>>

\* _put returns: the frame is accounted for.  After started() the barrier
\* opens; after a terminal frame run_turn returns and releases the lock.
PutReturns(s) ==
  /\ worker[s] = "enqueued"
  /\ ~taskCancel[s]
  /\ sequence' = [sequence EXCEPT ![s] = @ + 1]
  /\ bytes' = [bytes EXCEPT ![s] = @ + offered[s].size]
  /\ offered' = [offered EXCEPT ![s] = NoFrame]
  /\ worker' = [worker EXCEPT ![s] =
                  IF offered[s].kind \in TerminalKinds THEN "awaitSent" ELSE "graph"]
  /\ started' = [started EXCEPT ![s] =
                  IF offered[s].kind = "started" THEN "ok" ELSE @]
  /\ UNCHANGED <<request, dispatcherVars, clientVars, durableVars, taskCancel,
                 queue>>

\* _put raises CancelledError, also when the frame is already in the queue.
PutCancelled(s) ==
  /\ worker[s] \in {"offering", "enqueued"}
  /\ taskCancel[s] \/ cancelled[s]
  /\ worker' = [worker EXCEPT ![s] = "unwinding"]
  /\ offered' = [offered EXCEPT ![s] = NoFrame]
  /\ UNCHANGED <<request, dispatcherVars, sequence, bytes, clientVars,
                 durableVars, taskCancel, started, queue>>

\* The graph publishes a text or tool frame.  Over budget it fails with
\* AGENT_RESPONSE_TOO_LARGE (GraphFails).
GraphEmits(s) ==
  /\ worker[s] = "graph"
  /\ ~taskCancel[s]
  /\ ~cancelled[s]
  /\ \E size \in 1..FrameLimit :
       /\ Fits(s, size, FALSE)
       /\ Offer(s, "event", size)
  /\ UNCHANGED <<request, closing, cancelled, sequence, bytes, clientVars,
                 durableVars, taskCancel, queue>>

\* The graph returned a final text: COMPLETED is committed, then reported.
GraphCompletes(s) ==
  /\ worker[s] = "graph"
  /\ ~taskCancel[s]
  /\ run' = [run EXCEPT ![s] = "COMPLETED"]
  /\ PublishTerminal(s, "completed")
  /\ UNCHANGED <<request, closing, cancelled, sequence, bytes, clientVars,
                 dbFault, taskCancel, queue>>

\* Any error of the graph, of the final checks or of the COMPLETED
\* transaction: FAILED is committed, then reported.
GraphFails(s) ==
  /\ worker[s] = "graph"
  /\ ~taskCancel[s]
  /\ run' = [run EXCEPT ![s] = "FAILED"]
  /\ PublishTerminal(s, "failed")
  /\ UNCHANGED <<request, closing, cancelled, sequence, bytes, clientVars,
                 dbFault, taskCancel, queue>>

\* reject_limit commits LIMIT_REACHED inside the graph, which then returns
\* to run_turn over further awaits.
LimitReached(s) ==
  /\ worker[s] = "graph"
  /\ ~taskCancel[s]
  /\ run' = [run EXCEPT ![s] = "LIMIT_REACHED"]
  /\ worker' = [worker EXCEPT ![s] = "limit"]
  /\ UNCHANGED <<request, dispatcherVars, publisherVars, clientVars, dbFault,
                 taskCancel, started, queue>>

LimitReturns(s) ==
  /\ worker[s] = "limit"
  /\ ~taskCancel[s]
  /\ PublishTerminal(s, "failed")
  /\ UNCHANGED <<request, closing, cancelled, sequence, bytes, clientVars,
                 durableVars, taskCancel, queue>>

\* The model call or the executor observes the cancellation and starts to
\* close what it owns.
GraphCancelled(s) ==
  /\ worker[s] \in {"graph", "limit"}
  /\ taskCancel[s] \/ cancelled[s]
  /\ worker' = [worker EXCEPT ![s] = "unwinding"]
  /\ UNCHANGED <<request, dispatcherVars, publisherVars, clientVars,
                 durableVars, taskCancel, started, queue>>

\* _finish_if_running(CANCELLED): a terminal Run is left as it is.
UnwindEnds(s) ==
  /\ worker[s] = "unwinding"
  /\ run' = [run EXCEPT ![s] = IF @ = "RUNNING" THEN "CANCELLED" ELSE @]
  /\ EndWorker(s)
  /\ UNCHANGED <<request, closing, cancelled, publisherVars, clientVars,
                 dbFault, taskCancel, queue>>

\* The transaction of _finish_if_running fails: the error leaves run_turn
\* with the Run still RUNNING.
FinishTransactionFails(s) ==
  /\ worker[s] = "unwinding" \/ (worker[s] = "graph" /\ ~taskCancel[s])
  /\ run[s] = "RUNNING"
  /\ dbFault' = [dbFault EXCEPT ![s] = TRUE]
  /\ EndWorker(s)
  /\ UNCHANGED <<request, closing, cancelled, publisherVars, clientVars, run,
                 taskCancel, queue>>

\* wait_terminal_sent.
TerminalSent(s) ==
  /\ worker[s] = "awaitSent"
  /\ \/ lastFrame[s] \in TerminalKinds
     \/ taskCancel[s]
     \/ cancelled[s]
  /\ EndWorker(s)
  /\ UNCHANGED <<request, closing, cancelled, publisherVars, clientVars,
                 durableVars, taskCancel, queue>>
-----------------------------------------------------------------------------
(* The HTTP side: _start_while_connected, body(), events(), aclose().       *)

\* aclose(): worker.cancel() unless the worker is done.
CancelWorker(s) ==
  taskCancel' = [taskCancel EXCEPT ![s] = @ \/ worker[s] # "done"]

StartBarrier(s) ==
  /\ consumer[s] = "starting"
  /\ started[s] = "ok"
  /\ consumer' = [consumer EXCEPT ![s] = "reading"]
  /\ UNCHANGED <<request, dispatcherVars, publisherVars, durableVars, worker,
                 taskCancel, started, queue, frame, received, lastFrame>>

\* start() raises the worker's error and the route answers a Problem.
StartFailed(s) ==
  /\ consumer[s] = "starting"
  /\ started[s] = "error"
  /\ consumer' = [consumer EXCEPT ![s] = "closing"]
  /\ CancelWorker(s)
  /\ UNCHANGED <<request, dispatcherVars, publisherVars, durableVars, worker,
                 started, queue, frame, received, lastFrame>>

Take(s) ==
  /\ consumer[s] = "reading"
  /\ queue[s] # <<>>
  /\ frame' = [frame EXCEPT ![s] = Head(queue[s])]
  /\ queue' = [queue EXCEPT ![s] = Tail(@)]
  /\ consumer' = [consumer EXCEPT ![s] = "sending"]
  /\ UNCHANGED <<request, dispatcherVars, publisherVars, durableVars, worker,
                 taskCancel, started, received, lastFrame>>

\* The server accepted the frame and resumes the generator; a terminal
\* frame sets _terminal_sent.
Sent(s) ==
  /\ consumer[s] = "sending"
  /\ received' = [received EXCEPT ![s] = @ + 1]
  /\ lastFrame' = [lastFrame EXCEPT ![s] = frame[s].kind]
  /\ frame' = [frame EXCEPT ![s] = NoFrame]
  /\ consumer' = [consumer EXCEPT ![s] =
                   IF frame[s].kind \in TerminalKinds THEN "joining" ELSE "reading"]
  /\ UNCHANGED <<request, dispatcherVars, publisherVars, durableVars, worker,
                 taskCancel, started, queue>>

\* The worker ended: after the terminal frame (joining), or without one.
WorkerEnded(s) ==
  /\ worker[s] = "done"
  /\ consumer[s] = "joining" \/ (consumer[s] = "reading" /\ queue[s] = <<>>)
  /\ consumer' = [consumer EXCEPT ![s] = "closing"]
  /\ CancelWorker(s)
  /\ UNCHANGED <<request, dispatcherVars, publisherVars, durableVars, worker,
                 started, queue, frame, received, lastFrame>>

\* http.disconnect while the HTTP task waits inside the session.
Disconnect(s) ==
  /\ consumer[s] \in {"starting", "reading", "joining"}
  /\ consumer' = [consumer EXCEPT ![s] = "closing"]
  /\ CancelWorker(s)
  /\ UNCHANGED <<request, dispatcherVars, publisherVars, durableVars, worker,
                 started, queue, frame, received, lastFrame>>

\* http.disconnect while the server is blocked sending a frame: the generator
\* is suspended at its yield and is closed later, by its finalizer.
DisconnectWhileSending(s) ==
  /\ consumer[s] = "sending"
  /\ consumer' = [consumer EXCEPT ![s] = "dropped"]
  /\ UNCHANGED <<request, dispatcherVars, publisherVars, durableVars, worker,
                 taskCancel, started, queue, frame, received, lastFrame>>

GeneratorFinalized(s) ==
  /\ consumer[s] = "dropped"
  /\ consumer' = [consumer EXCEPT ![s] = "closing"]
  /\ CancelWorker(s)
  /\ UNCHANGED <<request, dispatcherVars, publisherVars, durableVars, worker,
                 started, queue, frame, received, lastFrame>>

\* aclose() awaits the worker under a shield.
Closed(s) ==
  /\ consumer[s] = "closing"
  /\ worker[s] = "done"
  /\ consumer' = [consumer EXCEPT ![s] = "closed"]
  /\ UNCHANGED <<request, dispatcherVars, publisherVars, durableVars, worker,
                 taskCancel, started, queue, frame, received, lastFrame>>

\* dispatcher.close(): refuse new requests, signal the active ones.
CloseDispatcher ==
  /\ ~closing
  /\ closing' = TRUE
  /\ cancelled' = [s \in Streams |-> cancelled[s] \/ s \in active]
  /\ UNCHANGED <<request, active, publisherVars, clientVars, durableVars,
                 worker, taskCancel, started, queue>>
-----------------------------------------------------------------------------
Admission(s) == Start(s) \/ Admit(s) \/ Refuse(s) \/ CancelBeforeFirstStep(s)
Setup(s)     == SetupRefused(s) \/ SetupCancelled(s) \/ BeginRun(s)
Publish(s)   == PutEnters(s) \/ PutReturns(s) \/ PutCancelled(s)
Graph(s)     == \/ GraphEmits(s) \/ GraphCompletes(s) \/ GraphFails(s)
                \/ LimitReached(s) \/ LimitReturns(s) \/ GraphCancelled(s)
Finish(s)    == UnwindEnds(s) \/ FinishTransactionFails(s) \/ TerminalSent(s)
Respond(s)   == \/ StartBarrier(s) \/ StartFailed(s) \/ Take(s)
                \/ Sent(s) \/ WorkerEnded(s)
Leave(s)     == \/ Disconnect(s) \/ DisconnectWhileSending(s)
                \/ GeneratorFinalized(s) \/ Closed(s)

Next == \/ CloseDispatcher
        \/ \E s \in Streams : \/ Admission(s) \/ Setup(s) \/ Publish(s) \/ Graph(s)
                              \/ Finish(s) \/ Respond(s) \/ Leave(s)

Spec == Init /\ [][Next]_vars

\* What the event loop is bound to run once a cancellation is pending: the
\* resumption of a worker whose awaited event fired, and the cleanup of the
\* HTTP side.  Nothing is assumed of the client, of the model or of the
\* remote host while the turn runs.
Converge(s) == \/ Refuse(s) \/ CancelBeforeFirstStep(s) \/ SetupCancelled(s)
               \/ PutCancelled(s) \/ GraphCancelled(s) \/ UnwindEnds(s)
               \/ TerminalSent(s)

Fairness == \A s \in Streams : /\ WF_vars(Converge(s))
                               /\ WF_vars(GeneratorFinalized(s))

FairSpec == Spec /\ Fairness
-----------------------------------------------------------------------------
(* Properties.                                                             *)

Told(s) == CASE lastFrame[s] = "none" -> "nothing"
             [] lastFrame[s] \in {"started", "event"} -> "started"
             [] OTHER -> lastFrame[s]

Outcome == INSTANCE AgentTurnOutcome
             WITH Turns <- Streams, told <- [s \in Streams |-> Told(s)]

\* The stream keeps the promise of AgentTurnOutcome: every frame the client
\* is sent reports a durable state of the Run, whatever is cancelled when.
OutcomeContract == Outcome!Spec

\* No frame is lost, duplicated or reordered between the worker and the
\* client: what was sent, is being sent, is queued and is being put carries
\* the sequence numbers 0, 1, 2, ... without a gap, even after a frame was
\* enqueued by a _put that then reported its cancellation.
FramesContiguous ==
  \A s \in Streams :
    LET base == received[s] + (IF frame[s] = NoFrame THEN 0 ELSE 1)
    IN  /\ frame[s] # NoFrame => frame[s].seq = received[s]
        /\ \A i \in 1..Len(queue[s]) : queue[s][i].seq = base + i - 1
        /\ worker[s] = "offering" => offered[s].seq = base + Len(queue[s])

\* Unless the client left, the process is stopping or the database failed,
\* a turn that ended with a Run has sent its terminal frame: the byte
\* reserve always leaves room for it and the slot is not given up before.
UndisturbedTurnIsReported ==
  \A s \in Streams :
    (worker[s] = "done" /\ run[s] # "none" /\ ~taskCancel[s] /\ ~cancelled[s]
       /\ ~dbFault[s]) => lastFrame[s] \in TerminalKinds

\* At most one live turn of a conversation has a RUNNING Run.
OneRunPerConversation ==
  \A s, t \in Streams :
    (/\ s # t /\ Conversation[s] = Conversation[t]
     /\ run[s] = "RUNNING" /\ run[t] = "RUNNING")
    => dbFault[s] \/ dbFault[t]

\* A worker never leaves a RUNNING Run behind, however it is interrupted.
NoOrphanRun ==
  \A s \in Streams : worker[s] = "done" /\ run[s] = "RUNNING" => dbFault[s]

\* A RUNNING Run has a live worker, and a conversation has one of them, unless
\* the database failed: _conversation_lock and _finish_if_running under every
\* interruption.
RunsAreOwned == OneRunPerConversation /\ NoOrphanRun

\* The dispatcher counts exactly the workers that are past admission, never
\* more than its capacity, never two with one request ID.
SlotOwnership ==
  /\ active = {s \in Streams : worker[s] \in OwnedPhases}
  /\ Cardinality(active) <= Capacity
  /\ \A s, t \in active : request[s] = request[t] => s = t

\* dispatcher.close() ends: every worker it signalled leaves.
ShutdownDrains == closing ~> (active = {})

\* A client that leaves gives back the slot and the conversation.
DisconnectReleasesTurn ==
  \A s \in Streams :
    (consumer[s] \in {"dropped", "closing"})
      ~> (worker[s] = "done" /\ s \notin active)

\* No worker waits for a reader that will not come: neither for one that has
\* left nor, when the process stops, for any (aclose, _put, close).
TurnsConverge == ShutdownDrains /\ DisconnectReleasesTurn
=============================================================================
