--------------------------- MODULE ModelStreaming ---------------------------
(***************************************************************************)
(* The model calls of one Agent turn: the summary that compacts the context *)
(* first (ContextCompactor, summarize_once), then a call per iteration of   *)
(* the ReAct loop (ModelGateway.invoke).  A call owns an SDK client; each   *)
(* of its attempts owns a stream, whose events are merged into an output    *)
(* and published as they come.  The attempt is a task of its own: the       *)
(* worker waits for it, for the cancellation event of the dispatcher and    *)
(* for its own cancellation, which aclose of a broken connection requests.  *)
(*                                                                          *)
(* An output item is a message or a tool call, its text a sequence of       *)
(* pieces; the arguments of a call are fragments, Fragments of which are a  *)
(* JSON object.  How the Provider names the items of its events is chosen   *)
(* once, by wire: Chat deltas by their index, Responses events by item ID,  *)
(* by output index, or not at all.                                          *)
(***************************************************************************)
EXTENDS Naturals, Sequences, SequencesExt

CONSTANTS
  Pieces,           \* what a piece of visible text may be
  Chunk,            \* pieces a frame may hold (4096 characters)
  Fragments,        \* fragments of the arguments of a call
  MaxAttempts,      \* len(MODEL_RETRY_DELAYS_SECONDS) + 1
  SummaryAttempts,  \* attempts of the compactor (3)
  Iterations,       \* ReAct iterations (128)
  MaxItems,         \* bound on the items of an output
  MaxText           \* bound on the pieces of visible text of an output

ASSUME StreamingAssumption ==
  /\ \A n \in {Chunk, Fragments, MaxAttempts, SummaryAttempts} : n \in Nat \ {0}
  /\ \A n \in {Iterations, MaxItems, MaxText} : n \in Nat

Phases   == {"idle", "requesting", "streaming", "publishing", "closingStream", "settled",
             "closingClient", "backoff", "done"}
Outcomes == {"none", "answer", "timeout", "failed", "sink", "deadline", "agentCancelled",
             "taskCancelled"}
Kinds    == {"message", "call"}
Texts    == Seq(Pieces)
Contents == Seq(Pieces \cup {"fragment"})
Items    == [kind : Kinds, text : Contents]
Messages == [text : Texts, calls : Seq(Contents)]

None        == [text |-> <<>>, calls |-> <<>>, absent |-> TRUE]
NotPending  == [target |-> <<>>, rest |-> <<>>, replace |-> FALSE]
NoState     == [published |-> FALSE, visible |-> <<>>]

VARIABLES
  wire,        \* API and naming of the Provider
  mode,        \* the call in progress is the summary, or a main call
  round,       \* react_iteration
  phase,       \* where the worker and the attempt are suspended
  outcome,     \* how the attempt ended
  attempt,     \* number of the attempt
  invocation,  \* _InvocationState
  output,      \* what the parser has merged
  ids,         \* the ID of each item of output, 0 if it was not told
  terminal,    \* status of the terminal event or finish_reason
  pending,     \* the snapshot that is being published
  shown,       \* sink.streamed_text, as the client has it
  stream,      \* the stream of the attempt
  client,      \* the SDK client of the call
  cancelled,   \* the cancellation event of the dispatcher
  taskCancel,  \* the worker task was cancelled (history, at most once)
  lost,        \* that cancellation was swallowed (history)
  answer,      \* the AIMessage of the last main call
  summary,     \* the text the compactor has just committed
  status,      \* of the Run
  base,        \* what was shown when the call began (history)
  said         \* what the Provider has said in this attempt (history)

attemptVars == <<outcome, invocation, output, ids, terminal, pending, said>>
resultVars  == <<answer, summary, status, mode, round>>
cancelVars  == <<cancelled, taskCancel, lost>>
vars == <<attemptVars, resultVars, cancelVars, wire, phase, attempt, shown, stream, client, base>>

\* A call is in progress.
InCall == phase \notin {"idle", "done"}

TypeOK ==
  /\ wire \in {"chat", "ids", "indexes", "order"}
  /\ mode \in {"summary", "main"}
  /\ round \in 0..Iterations
  /\ phase \in Phases /\ outcome \in Outcomes
  /\ attempt \in Nat
  /\ InCall => attempt \in 1..(IF mode = "main" THEN MaxAttempts ELSE SummaryAttempts)
  /\ invocation.published \in BOOLEAN /\ invocation.visible \in Texts
  /\ output \in Seq(Items) /\ ids \in Seq(Nat) /\ Len(ids) = Len(output)
  /\ terminal \in {"none", "stop", "length"}
  /\ pending.target \in Texts /\ pending.rest \in Texts /\ pending.replace \in BOOLEAN
  /\ shown \in Texts /\ base \in Texts
  /\ said \in Seq(Items)
  /\ stream \in {"none", "open", "cut"} /\ client \in {"none", "open", "cut"}
  /\ cancelled \in BOOLEAN /\ taskCancel \in BOOLEAN /\ lost \in BOOLEAN
  /\ answer \in Messages \cup {None}
  /\ summary \in Texts
  /\ status \in {"running", "completed", "failed", "limited", "cancelled"}

Init ==
  /\ wire \in {"chat", "ids", "indexes", "order"}
  /\ mode \in {"summary", "main"}
  /\ round = 0 /\ phase = "idle" /\ outcome = "none" /\ attempt = 0
  /\ invocation = NoState /\ output = <<>> /\ ids = <<>> /\ terminal = "none" /\ pending = NotPending
  /\ shown = <<>> /\ base = <<>> /\ said = <<>>
  /\ stream = "none" /\ client = "none"
  /\ cancelled = FALSE /\ taskCancel = FALSE /\ lost = FALSE
  /\ answer = None /\ summary = <<>> /\ status = "running"
-----------------------------------------------------------------------------
(* What an output means.                                                   *)

\* The visible text of an output, and the arguments of its calls.
TextOf(items)  == FlattenSeq([i \in DOMAIN items |->
                    IF items[i].kind = "message" THEN items[i].text ELSE <<>>])
CallsOf(items) == FlattenSeq([i \in DOMAIN items |->
                    IF items[i].kind = "call" THEN <<items[i].text>> ELSE <<>>])

\* Empty arguments are an empty object, a part of an object is no object.
Decodes(arguments) == Len(arguments) \in {0, Fragments}

\* What a failed attempt has merged is dropped with it.
Dropped == /\ output' = <<>> /\ ids' = <<>> /\ said' = <<>>
           /\ terminal' = "none" /\ pending' = NotPending

-----------------------------------------------------------------------------
(* Mutated forms of the definitions below, for the mutation runs.          *)

\* A summary is taken as complete although its stream was cut off.
AcceptedAnyEnd ==
  /\ \A i \in DOMAIN CallsOf(output) : Decodes(CallsOf(output)[i])
  /\ mode = "summary" => CallsOf(output) = <<>> /\ TextOf(output) # <<>>

\* The first text of a call is appended to what an earlier call left.
ReplacesRevisionsOnly(text) == ~IsPrefix(invocation.visible, text)

\* The publication of a frame does not race the cancellation.
GiveUpProviderOnly(result) ==
  /\ phase \in {"requesting", "streaming", "closingStream", "settled"}
  /\ outcome' = result
  /\ phase' = IF phase = "streaming" THEN "closingStream" ELSE "closingClient"
  /\ stream' = IF phase = "closingStream" THEN "cut" ELSE stream
  /\ Dropped
  /\ UNCHANGED <<client, resultVars>>

\* The worker does not wait for the attempt that closes its stream.
GiveUpUnclosed(result) ==
  /\ phase \in {"requesting", "streaming", "publishing", "closingStream", "settled"}
  /\ outcome' = result
  /\ phase' = "closingClient"
  /\ Dropped
  /\ UNCHANGED <<stream, client, resultVars>>

\* The last delay is not the last attempt.
MayRetryOnceMore == /\ mode = "main" /\ outcome = "timeout"
                    /\ ~invocation.published
                    /\ attempt <= MaxAttempts
-----------------------------------------------------------------------------
(* The parsers.                                                            *)

\* What the parser accepts at the end of a stream: a summary has to be complete.
Accepted ==
  /\ \A i \in DOMAIN CallsOf(output) : Decodes(CallsOf(output)[i])
  /\ mode = "summary" => terminal = "stop" /\ CallsOf(output) = <<>> /\ TextOf(output) # <<>>

\* The item an event belongs to: by its identity, then by its index, then the
\* item it brings is new, then it goes on with the last one.
Slot(event) ==
  LET same == {i \in DOMAIN output : event.id # 0 /\ ids[i] = event.id}
  IN  IF same # {} THEN Min(same)
      ELSE IF event.index \in 1..(Len(output) + 1) THEN event.index
      ELSE IF event.item \/ output = <<>> THEN Len(output) + 1 ELSE Len(output)

Put(items, i, item) == IF i \in DOMAIN items THEN [items EXCEPT ![i] = item]
                                             ELSE Append(items, item)

\* The provider names its n-th item in an event.
Named(n, item) == [id    |-> IF wire = "ids" THEN n ELSE 0,
                   index |-> IF wire \in {"chat", "indexes"} THEN n ELSE 0,
                   item  |-> item]
-----------------------------------------------------------------------------
(* Publishing.                                                             *)

\* _publish_snapshot up to its first await: what extends the visible text is
\* appended, anything else replaces it, and so does the first text of a call
\* that follows another one.
Replaces(text) == \/ invocation.visible = <<>> /\ shown # <<>>
                  \/ ~IsPrefix(invocation.visible, text)

Publish(text) ==
  /\ invocation' = [invocation EXCEPT !.published = TRUE]
  /\ pending' = [target  |-> text,
                 rest    |-> IF Replaces(text) THEN text
                             ELSE SubSeq(text, Len(invocation.visible) + 1, Len(text)),
                 replace |-> Replaces(text)]
  /\ phase' = "publishing"

\* A new output is published if its text changed; a summary never is.
Merge(items, names) ==
  /\ output' = items
  /\ ids' = names
  /\ IF mode = "main" /\ TextOf(items) # invocation.visible
       THEN Publish(TextOf(items))
       ELSE UNCHANGED <<invocation, pending, phase>>
-----------------------------------------------------------------------------
(* How attempts and calls begin and end.                                   *)

StartAttempt(n) ==
  /\ attempt' = n
  /\ invocation' = NoState
  /\ outcome' = "none"
  /\ Dropped
  /\ phase' = "requesting"
  /\ client' = "open"

EndTurn(result) ==
  /\ phase' = "done"
  /\ status' = result
  /\ UNCHANGED <<answer, summary, mode, round>>

Message == [text |-> TextOf(output), calls |-> CallsOf(output)]

\* invoke returned or raised: the graph goes on with the message (call_model,
\* check_react_limit, return_response), the service checks the final text.
MainEnds(result) ==
  \/ /\ result = "answer" /\ Message.calls # <<>> /\ round < Iterations
     /\ answer' = Message /\ round' = round + 1 /\ phase' = "idle"
     /\ UNCHANGED <<summary, status, mode>>
  \/ /\ result = "answer" /\ (Message.calls = <<>> \/ round = Iterations)
     /\ answer' = Message /\ phase' = "done"
     /\ status' = IF Message.calls # <<>> THEN "limited"
                  ELSE IF shown = Message.text THEN "completed" ELSE "failed"
     /\ UNCHANGED <<summary, mode, round>>
  \/ result \in {"agentCancelled", "taskCancelled"} /\ EndTurn("cancelled")
  \/ result \in {"timeout", "failed", "sink"} /\ EndTurn("failed")

\* summarize_once returned or raised: the compactor commits, retries or gives up.
SummaryEnds(result) ==
  \/ /\ result = "answer" /\ ~cancelled
     /\ summary' = TextOf(output) /\ mode' = "main" /\ phase' = "idle"
     /\ UNCHANGED <<answer, status, round>>
  \/ /\ result \in {"timeout", "failed", "deadline"} /\ attempt < SummaryAttempts /\ ~cancelled
     /\ phase' = "backoff" /\ UNCHANGED resultVars
  \/ /\ result \in {"timeout", "failed", "deadline"} /\ attempt = SummaryAttempts
     /\ EndTurn("failed")
  \/ /\ \/ result \in {"agentCancelled", "taskCancelled"}
        \/ cancelled /\ (result = "answer" \/ attempt < SummaryAttempts)
     /\ EndTurn("cancelled")

CallEnds(result) == IF mode = "main" THEN MainEnds(result) ELSE SummaryEnds(result)

\* The worker only waits for the end of an attempt it has given up.
GivenUp == outcome \in {"agentCancelled", "taskCancelled", "deadline"}

\* The attempt is given up while it waits, with the outcome of its call: an open
\* stream is closed, a close that was under way is cut off.
GiveUp(result) ==
  /\ phase \in {"requesting", "streaming", "publishing", "closingStream", "settled"}
  /\ outcome' = result
  /\ phase' = IF phase \in {"streaming", "publishing"} THEN "closingStream" ELSE "closingClient"
  /\ stream' = IF phase = "closingStream" THEN "cut" ELSE stream
  /\ Dropped
  /\ UNCHANGED <<client, resultVars>>

\* A backoff is given up: the client of a main call is still open.
LeaveBackoff(result) ==
  /\ phase = "backoff"
  /\ outcome' = result
  /\ IF mode = "main" THEN phase' = "closingClient" /\ UNCHANGED resultVars
                      ELSE EndTurn("cancelled")
  /\ Dropped
  /\ UNCHANGED <<stream, client>>
-----------------------------------------------------------------------------
(* The worker.                                                             *)

\* A call begins, or the turn was cancelled before it.
Invoke ==
  /\ phase = "idle"
  /\ IF cancelled
       THEN EndTurn("cancelled") /\ UNCHANGED <<attemptVars, attempt, client, base>>
       ELSE /\ StartAttempt(1)
            /\ base' = shown
            /\ answer' = None /\ summary' = <<>>
            /\ UNCHANGED <<status, mode, round>>
  /\ UNCHANGED <<cancelVars, wire, shown, stream>>

\* The Provider accepts the request.
Opened ==
  /\ phase = "requesting"
  /\ phase' = "streaming"
  /\ stream' = "open"
  /\ UNCHANGED <<attemptVars, resultVars, cancelVars, wire, attempt, shown, client, base>>

\* The request or the stream times out, breaks, or reports an error.
ProviderFails ==
  /\ phase \in {"requesting", "streaming"}
  /\ outcome' \in {"timeout", "failed"}
  /\ phase' = IF phase = "streaming" THEN "closingStream" ELSE "settled"
  /\ Dropped
  /\ UNCHANGED <<invocation, resultVars, cancelVars, wire, attempt, shown, stream, client,
                 base>>

\* One event revises the text of item n, which may be new, or goes on with it.
Event(n, kind, item, revises, piece) ==
  LET named == Named(n, item)
      i     == Slot(named)
      fresh == item \/ i \notin DOMAIN output
      New   == [kind |-> kind, text |-> <<>>]
      Changed(x) == [x EXCEPT !.text = IF revises THEN piece ELSE @ \o piece]
  IN  /\ said' = Put(said, n, Changed(IF n \in DOMAIN said THEN said[n] ELSE New))
      /\ Merge(Put(output, i, Changed(IF fresh THEN New ELSE output[i])),
               Put(ids, i, IF fresh THEN named.id ELSE ids[i]))

Streams(n, kind) ==
  /\ phase = "streaming"
  /\ terminal = "none"
  /\ n \in DOMAIN said => said[n].kind = kind
  /\ UNCHANGED <<outcome, terminal, resultVars, cancelVars, wire, attempt, shown, stream,
                 client, base>>

\* response.output_item.added, or the first chunk of a Chat tool call.
Announces(n, kind) ==
  /\ n = Len(said) + 1 /\ n <= MaxItems
  /\ wire = "chat" => kind = "call"
  /\ Event(n, kind, TRUE, FALSE, <<>>)
  /\ Streams(n, kind)

\* A delta.  A Provider that gives no index announces its items, and one that
\* names nothing finishes an item before it begins the next one.
Delta(n, kind, piece) ==
  /\ n \in 1..Len(said) \/ (n = Len(said) + 1 /\ n <= MaxItems /\ wire \in {"chat", "indexes"})
  /\ wire = "order" => n = Len(said)
  /\ wire = "chat" /\ kind = "message" =>
       \A i \in DOMAIN said : said[i].kind = "message" => i = n
  /\ piece \in (IF kind = "message" THEN Pieces ELSE {"fragment"})
  /\ IF kind = "message" THEN Len(TextOf(said)) < MaxText
                         ELSE n \in DOMAIN said => Len(said[n].text) < Fragments
  /\ Event(n, kind, FALSE, FALSE, <<piece>>)
  /\ Streams(n, kind)

\* response.output_text.done, or a Chat message, revises what the deltas said.
Revises(n, piece) ==
  /\ n \in DOMAIN said
  /\ wire = "order" => n = Len(said)
  /\ piece \in Pieces
  /\ Event(n, "message", FALSE, TRUE, <<piece>>)
  /\ Streams(n, "message")

\* The terminal event of a Responses stream: its output, if any, replaces what
\* was merged.  A Chat stream has a finish_reason.
Terminates(kind, items) ==
  /\ phase = "streaming" /\ terminal = "none"
  /\ terminal' = kind
  /\ wire = "chat" => items = <<>>
  /\ IF items = <<>>
       THEN UNCHANGED <<said, output, ids, invocation, pending, phase>>
       ELSE /\ said' = items
            /\ Merge(items, [i \in DOMAIN items |-> Named(i, TRUE).id])
  /\ UNCHANGED <<outcome, resultVars, cancelVars, wire, attempt, shown, stream, client, base>>

\* What a Provider may send at the end: nothing, what it said, or a revision.
Finals == {<<>>, said} \cup
          {[said EXCEPT ![n].text = <<p>>] :
             n \in {i \in DOMAIN said : said[i].kind = "message"}, p \in Pieces}

ProviderSays ==
  \/ \E n \in 1..MaxItems, kind \in Kinds :
       Announces(n, kind) \/ \E piece \in Pieces \cup {"fragment"} : Delta(n, kind, piece)
  \/ \E n \in 1..MaxItems, piece \in Pieces : Revises(n, piece)
  \/ \E kind \in {"stop", "length"}, items \in Finals : Terminates(kind, items)

\* A frame enters the queue, unless the consumer has gone.
FrameEnters ==
  /\ phase = "publishing"
  /\ ~cancelled /\ ~taskCancel
  /\ LET size  == IF Len(pending.rest) < Chunk THEN Len(pending.rest) ELSE Chunk
         piece == SubSeq(pending.rest, 1, size)
         left  == SubSeq(pending.rest, size + 1, Len(pending.rest))
     IN  /\ shown' = IF pending.replace THEN piece ELSE shown \o piece
         /\ IF left = <<>>
              THEN /\ phase' = "streaming"
                   /\ invocation' = [invocation EXCEPT !.visible = pending.target]
                   /\ pending' = NotPending
              ELSE /\ pending' = [pending EXCEPT !.rest = left, !.replace = FALSE]
                   /\ UNCHANGED <<phase, invocation>>
  /\ UNCHANGED <<outcome, output, ids, terminal, said, resultVars, cancelVars, wire, attempt,
                 stream, client, base>>

\* The frame exceeds the budget of the body.
FrameRefused ==
  /\ phase = "publishing"
  /\ phase' = "closingStream"
  /\ outcome' = "sink"
  /\ Dropped
  /\ UNCHANGED <<invocation, resultVars, cancelVars, wire, attempt, shown, stream, client,
                 base>>

\* The consumer is gone although the worker goes on: the publication of a text,
\* or of the next tool, is cancelled.
Abandoned ==
  /\ lost
  /\ \/ GiveUp("taskCancelled") /\ phase = "publishing"
     \/ /\ phase = "idle" /\ round > 0
        /\ EndTurn("cancelled")
        /\ UNCHANGED <<outcome, output, ids, terminal, pending, said, stream, client>>
  /\ UNCHANGED <<invocation, cancelVars, wire, attempt, shown, base>>

\* The stream ends, after a terminal event or without.
StreamEnds ==
  /\ phase = "streaming"
  /\ outcome' = IF Accepted THEN "answer" ELSE "failed"
  /\ phase' = "closingStream"
  /\ UNCHANGED <<invocation, output, ids, terminal, pending, said, resultVars, cancelVars, wire,
                 attempt, shown, stream, client, base>>

\* The stream is closed; a close that fails only matters after a success.
StreamClosed ==
  /\ phase = "closingStream"
  /\ phase' = "settled"
  /\ stream' = "none"
  /\ \/ UNCHANGED outcome
     \/ outcome = "answer" /\ outcome' \in {"timeout", "failed"}
  /\ UNCHANGED <<invocation, output, ids, terminal, pending, said, resultVars, cancelVars, wire,
                 attempt, shown, client, base>>

\* Only a timeout of a main call that has shown nothing is tried again.
MayRetry == /\ mode = "main" /\ outcome = "timeout"
            /\ ~invocation.published
            /\ attempt < MaxAttempts

\* The worker resumes with the outcome; a cancellation may take precedence.
Settles ==
  /\ phase = "settled"
  /\ \/ /\ cancelled /\ ~GivenUp
        /\ outcome' = "agentCancelled" /\ phase' = "closingClient"
     \/ /\ MayRetry /\ ~cancelled
        /\ phase' = "backoff" /\ UNCHANGED outcome
     \/ /\ ~MayRetry
        /\ phase' = "closingClient" /\ UNCHANGED outcome
  /\ UNCHANGED <<invocation, output, ids, terminal, pending, said, resultVars, cancelVars, wire,
                 attempt, shown, stream, client, base>>

BackoffEnds ==
  /\ phase = "backoff"
  /\ ~cancelled
  /\ StartAttempt(attempt + 1)
  /\ UNCHANGED <<resultVars, cancelVars, wire, shown, stream, base>>

\* The client is closed, or its close fails, which only matters after a success.
ClientClosed ==
  /\ phase = "closingClient"
  /\ client' = "none"
  /\ \/ CallEnds(outcome)
     \/ outcome = "answer" /\ CallEnds("failed")
  /\ UNCHANGED <<attemptVars, cancelVars, wire, attempt, shown, stream, base>>

\* The whole request of a summary has a deadline; a cancellation of the task
\* that was there first stays one.
DeadlineHits ==
  /\ mode = "summary" /\ outcome # "deadline"
  /\ GiveUp(IF outcome = "taskCancelled" THEN outcome ELSE "deadline")
  /\ UNCHANGED <<invocation, cancelVars, wire, attempt, shown, base>>
-----------------------------------------------------------------------------
(* Cancellation.                                                           *)

\* dispatcher.close sets the event of the request.
Cancel ==
  /\ ~cancelled /\ phase # "done"
  /\ cancelled' = TRUE
  /\ UNCHANGED <<attemptVars, resultVars, taskCancel, lost, wire, phase, attempt, shown,
                 stream, client, base>>

\* The worker, which waits for the event as well, stops the attempt.
CancelObserved ==
  /\ cancelled
  /\ \/ /\ phase # "settled"
        /\ ~GivenUp
        /\ GiveUp("agentCancelled")
     \/ LeaveBackoff("agentCancelled")
  /\ UNCHANGED <<invocation, cancelVars, wire, attempt, shown, base>>

\* aclose cancels the worker.  While a client is closed the cancellation only
\* counts if the call has not failed before.
TaskCancelled ==
  /\ ~taskCancel /\ phase # "done"
  /\ taskCancel' = TRUE
  /\ \/ GiveUp("taskCancelled") /\ UNCHANGED lost
     \/ LeaveBackoff("taskCancelled") /\ UNCHANGED lost
     \/ /\ phase = "idle"
        /\ EndTurn("cancelled")
        /\ UNCHANGED <<outcome, output, ids, terminal, pending, said, stream, client, lost>>
     \/ /\ phase = "closingClient"
        /\ client' = "cut"
        /\ lost' = (outcome \notin {"answer", "agentCancelled"})
        /\ CallEnds(IF outcome = "answer" THEN "taskCancelled" ELSE outcome)
        /\ Dropped
        /\ UNCHANGED <<outcome, stream>>
  /\ UNCHANGED <<invocation, cancelled, wire, attempt, shown, base>>
-----------------------------------------------------------------------------
Next == \/ Invoke \/ Opened \/ ProviderFails \/ ProviderSays \/ FrameEnters \/ FrameRefused
        \/ Abandoned \/ StreamEnds \/ StreamClosed \/ Settles \/ BackoffEnds \/ ClientClosed
        \/ DeadlineHits \/ Cancel \/ CancelObserved \/ TaskCancelled

\* What the process does by itself ends: a cancellation that is due, the close of
\* a stream or a client, a wait before the next attempt, the tools between calls.
Fairness == /\ WF_vars(CancelObserved) /\ WF_vars(StreamClosed) /\ WF_vars(Settles)
            /\ WF_vars(ClientClosed) /\ WF_vars(Invoke)

Spec == Init /\ [][Next]_vars /\ Fairness
-----------------------------------------------------------------------------
(* Properties.                                                             *)

\* Until a call has published something of the attempt that goes on, the client
\* sees what it saw before the call: no text of an attempt that was given up
\* stays, and an attempt that was seen is the last one (_invoke_attempts).
RetryIsInvisible == InCall /\ ~invocation.published => shown = base

\* What the client sees after a call is the text of its message, in spite of
\* revisions, frames and what earlier calls left there (_publish_snapshot); a
\* message without text leaves it as it was.
AnswerIsShown == answer # None /\ answer.text # <<>> => shown = answer.text

\* The client sees the answer, however many attempts, rounds, revisions and
\* frames it took (_invoke_attempts, _publish_snapshot).
ClientSeesTheAnswer == RetryIsInvisible /\ AnswerIsShown

\* A message that enters the conversation is what the Provider said, with each
\* delta in its own item, and no call has a part of its arguments, whatever was
\* cut off (_parse_responses_stream, _parse_chat_completions_stream).
AnswerIsSaid ==
  answer # None =>
    /\ answer.text = TextOf(said) /\ answer.calls = CallsOf(said)
    /\ \A i \in DOMAIN answer.calls : Decodes(answer.calls[i])

\* A summary that is committed is complete, and nobody saw it (summarize_once).
SummaryIsWhole ==
  /\ summary # <<>> => terminal = "stop" /\ summary = TextOf(said)
  /\ mode = "summary" => shown = <<>>

\* Nothing but what the Provider said, and said completely, is persisted: no
\* message or summary of a stream that was mixed up or cut off.
PersistedIsSaid == AnswerIsSaid /\ SummaryIsWhole

\* Nothing of a call is left open behind it, nor a stream during a backoff, but
\* for a client whose close was cancelled (_close_on_exit).
ProviderReleased ==
  /\ phase \in {"idle", "done", "backoff"} => stream # "open"
  /\ ~InCall => client # "open"
  /\ phase = "backoff" /\ mode = "summary" => client # "open"

\* A cancelled turn ends, even if neither the Provider nor the client ever
\* moves.  A cancellation of the task that the close of a client has swallowed
\* is no longer there (_await_with_cancellation, _close_on_exit).
CancelEnds == (cancelled \/ (taskCancel /\ ~lost)) ~> (phase = "done")
=============================================================================
