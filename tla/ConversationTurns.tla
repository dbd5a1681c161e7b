------------------------- MODULE ConversationTurns -------------------------
(***************************************************************************)
(* The durable history of conversations under concurrent requests           *)
(* (AgentService, ConversationRepository, ContextService, ContextCompactor, *)
(* ContextSummaryRepository): new turns, retries of a user message,         *)
(* compaction of old history, deletion of a conversation, and restarts.     *)
(*                                                                          *)
(* Every action is one database transaction (BEGIN IMMEDIATE, committed or  *)
(* rolled back as a whole) with what the task does up to its next await.    *)
(* Requests meet in two kinds of FIFO asyncio locks: one per user message,  *)
(* taken first, and one per conversation.                                   *)
(*                                                                          *)
(* A table is the set of its rows.  A message is its sequence number, the   *)
(* Run that appended it and its kind; the results of all tool calls of one  *)
(* AI message are appended by one transaction and are one "result".  A Run  *)
(* has the name of the request that started it.                             *)
(***************************************************************************)
EXTENDS Naturals, FiniteSets, Sequences, SequencesExt

CONSTANTS
  Calls,             \* requests, each used once
  Conversations,     \* conversation identities the service can draw
  UserMessages,      \* message identities the clients can draw
  Nil,               \* an absent identity
  MaxIterations,     \* ReAct limit (128 in the code)
  RetentionPercent,  \* share of uncovered units that compaction keeps
  MaxFaults,         \* bound on restarts and failed finishing transactions
  ClockAdvances      \* two readings of the wall clock never tie or step back

ASSUME ConversationAssumption ==
  /\ MaxIterations \in Nat
  /\ RetentionPercent \in 1..99
  /\ MaxFaults \in Nat
  /\ ClockAdvances \in BOOLEAN
  /\ Nil \notin Calls \cup Conversations \cup UserMessages
  /\ Conversations \cap UserMessages = {}

Kinds    == {"human", "reply", "call", "result"}
Statuses == {"RUNNING", "COMPLETED", "FAILED", "LIMIT_REACHED"}

\* Where a turn is suspended while its Run exists.
Executing == {"load", "compact", "model", "limit", "tool", "reject", "limited",
              "complete", "failing"}

VARIABLES
  conversation,  \* "unused", "present" or "deleted", by identity
  runs,          \* rows of agent_runs, by the request that inserted them
  order,         \* the Runs by started_at, those of deleted conversations too
  messages,      \* rows of agent_messages of a conversation
  summaries,     \* rows of agent_context_summaries of a conversation
  queue,         \* holder and waiters of each lock
  call,          \* where a request is suspended, with what it remembers
  faults         \* bounded by MaxFaults

database == <<conversation, runs, order, messages, summaries>>
vars     == <<conversation, runs, order, messages, summaries, queue, call, faults>>

Idle == [pc |-> "idle"]
Done == [pc |-> "done"]

Init ==
  /\ conversation = [v \in Conversations |-> "unused"]
  /\ runs = [r \in {} |-> Nil]
  /\ order = <<>>
  /\ messages = [v \in Conversations |-> {}]
  /\ summaries = [v \in Conversations |-> {}]
  /\ queue = [k \in Conversations \cup UserMessages |-> <<>>]
  /\ call = [c \in Calls |-> Idle]
  /\ faults = 0

-----------------------------------------------------------------------------
(* Locks *)

Holds(c, key)   == queue[key] # <<>> /\ Head(queue[key]) = c
Enqueue(c, key) == queue' = [queue EXCEPT ![key] = Append(@, c)]

\* Mutated: the lock of the user message is kept.
ReleaseConversationLock(c) ==
  queue' = [key \in DOMAIN queue |->
              IF key \in Conversations THEN RemoveFirst(queue[key], c) ELSE queue[key]]

ReleaseLocks(c) == queue' = [key \in DOMAIN queue |-> RemoveFirst(queue[key], c)]

\* The request is answered; the context managers release what it holds or
\* withdraw it from where it waits.
End(c) ==
  /\ ReleaseLocks(c)
  /\ call' = [call EXCEPT ![c] = Done]

-----------------------------------------------------------------------------
(* The history of a conversation *)

\* find_user_turn and the first query of remove_last_turn: the newest Run, by
\* started_at, that belongs to a user message or to a conversation.
NewestOf(R) ==
  LET i == SelectLastInSeq(order, LAMBDA r : r \in R)
  IN  IF i = 0 THEN Nil ELSE order[i]

RunsOf(v)     == {r \in DOMAIN runs : runs[r].conversation = v}
AttemptsOf(m) == {r \in DOMAIN runs : runs[r].user = m}
HasRunning(v) == \E r \in RunsOf(v) : runs[r].status = "RUNNING"

\* COALESCE(MAX(sequence), 0)
LastSequence(h) == Max({0} \cup {m.sequence : m \in h})

AppendMessages(v, r, kinds) ==
  messages' = [messages EXCEPT ![v] =
    @ \cup {[sequence |-> LastSequence(@) + i, run |-> r, kind |-> kinds[i]] :
              i \in DOMAIN kinds}]

\* The message right before m in a history.
IsBefore(h, n, m) ==
  /\ n.sequence < m.sequence
  /\ ~\E k \in h : n.sequence < k.sequence /\ k.sequence < m.sequence

EndsInCall(h) == \E m \in h : m.kind = "call" /\ m.sequence = LastSequence(h)

\* Mutated: the next turn does not repair.
RepairNothing(v) == <<>>

\* _interrupted_tool_messages
Repairs(v) == IF EndsInCall(messages[v]) THEN <<"result">> ELSE <<>>

\* Every tool call, but one at the end, has its results right behind it.
Paired(h) ==
  \A m \in h : m.kind = "result" <=> \E n \in h : n.kind = "call" /\ IsBefore(h, n, m)

\* message_units does not raise.
IsUnits(records) == Paired(records) /\ ~EndsInCall(records)

UnitStarts(records) == {m \in records : m.kind # "result"}

\* compactable_prefix: all units but the newest RetentionPercent, rounded up.
CompactablePrefix(records) ==
  LET starts   == UnitStarts(records)
      retained == (Cardinality(starts) * RetentionPercent + 99) \div 100
  IN  {m \in records : Cardinality({s \in starts : s.sequence > m.sequence}) >= retained}

\* The last summary, with what no summary means.
LastSummary(known) ==
  IF known = {} THEN [revision |-> 0, covered |-> 0, source |-> Nil]
  ELSE CHOOSE s \in known : \A t \in known : t.revision <= s.revision

Revision(known) == LastSummary(known).revision

Uncovered(records, known) == {m \in records : m.sequence > LastSummary(known).covered}

\* _validate_boundary, on the history of a conversation.
ValidBoundary(v, history, s) ==
  LET humans == {m \in history : m.run = s.source /\ m.kind = "human"}
  IN  /\ s.source \in RunsOf(v)
      /\ Cardinality(humans) = 1
      /\ \A h \in humans : s.covered < h.sequence
      /\ \E m \in history : m.sequence = s.covered
      /\ IsUnits({m \in history : m.sequence <= s.covered})

\* ContextSummaryRepository.load returns; otherwise it raises.
Loadable(v, history) ==
  \A s \in summaries[v] :
    LET earlier == {t \in summaries[v] : t.revision < s.revision}
    IN  /\ s.revision > 0
        /\ ValidBoundary(v, history, s)
        /\ earlier # {} => \E t \in earlier :
             t.revision + 1 = s.revision /\ t.covered < s.covered

-----------------------------------------------------------------------------
(* Requests *)

Turn(c)   == call[c].pc \in Executing
Locked(c) == Holds(c, call[c].conversation)

Advance(c, pc) == call' = [call EXCEPT ![c].pc = pc]

\* run_turn.  A retry without a message identity is refused at once.
SubmitTurn(c) ==
  /\ call[c] = Idle
  /\ \E m \in UserMessages \cup {Nil},
        v \in {w \in Conversations : conversation[w] # "unused"} \cup {Nil},
        retry \in BOOLEAN :
       /\ retry => m # Nil
       /\ call' = [call EXCEPT ![c] =
            [pc |-> "lookup", user |-> m, conversation |-> v, retry |-> retry,
             previous |-> Nil, status |-> Nil, records |-> {}, known |-> {}]]
       /\ IF m = Nil THEN UNCHANGED queue ELSE Enqueue(c, m)
  /\ UNCHANGED <<database, faults>>

Identified(c) ==
  /\ call[c].pc = "lookup"
  /\ call[c].user # Nil => Holds(c, call[c].user)

\* First transaction of _run_turn for a message no Run has: the first message
\* of a conversation creates it, another one names one that exists.
OpenConversation(c) ==
  /\ Identified(c)
  /\ AttemptsOf(call[c].user) = {} \/ call[c].user = Nil
  /\ \E v \in Conversations :
       /\ IF call[c].conversation = Nil
          THEN conversation[v] = "unused"
          ELSE conversation[v] = "present" /\ v = call[c].conversation
       /\ conversation' = [conversation EXCEPT ![v] = "present"]
       /\ Enqueue(c, v)
       /\ call' = [call EXCEPT ![c].pc = "begin", ![c].conversation = v]
  /\ UNCHANGED <<runs, order, messages, summaries, faults>>

\* The same transaction for a message that has a Run: only a retry may go on,
\* with what it read of the newest attempt.
FindAttempt(c) ==
  /\ Identified(c)
  /\ call[c].user # Nil
  /\ AttemptsOf(call[c].user) # {}
  /\ call[c].retry
  /\ LET p == NewestOf(AttemptsOf(call[c].user))
         v == runs[p].conversation
     IN  /\ call[c].conversation \in {Nil, v}
         /\ Enqueue(c, v)
         /\ call' = [call EXCEPT ![c].pc = "begin", ![c].conversation = v,
                                 ![c].previous = p, ![c].status = runs[p].status]
  /\ UNCHANGED <<database, faults>>

\* A validation of cancellation, configuration or session fails, or the request
\* is cancelled while it waits for a lock: nothing more is written.
Refuse(c) ==
  /\ call[c].pc \in {"lookup", "begin", "deleting"}
  /\ End(c)
  /\ UNCHANGED <<database, faults>>

NewRun(c, v) ==
  [conversation |-> v, user |-> call[c].user, status |-> "RUNNING", iteration |-> 0]

\* Mutated: without the foreign key to the conversation.
InsertRunUnchecked(c, v) ==
  /\ runs' = [r \in DOMAIN runs \cup {c} |-> IF r = c THEN NewRun(c, v) ELSE runs[r]]
  /\ order' = Append(order, c)

\* start_run: the foreign key refuses a conversation that is gone.
InsertRun(c, v) ==
  /\ conversation[v] = "present"
  /\ runs' = [r \in DOMAIN runs \cup {c} |-> IF r = c THEN NewRun(c, v) ELSE runs[r]]
  /\ \E i \in 1..Len(order) + 1 :
       /\ ClockAdvances => i = Len(order) + 1
       /\ order' = InsertAt(order, i, c)

\* Mutated: any terminal turn.
ReplaceableAnywhere(c, v) == call[c].status # "RUNNING"

\* remove_last_turn: only the newest Run of the conversation, once terminal.
Replaceable(c, v) ==
  /\ NewestOf(RunsOf(v)) = call[c].previous
  /\ call[c].status # "RUNNING"

RemoveTurn(v, r) ==
  /\ messages' = [messages EXCEPT ![v] = {m \in @ : m.run # r}]
  /\ summaries' = [summaries EXCEPT ![v] = {s \in @ : s.source # r}]

\* Second transaction of _run_turn, under the conversation lock.
BeginTurn(c) ==
  /\ call[c].pc = "begin"
  /\ Locked(c)
  /\ LET v == call[c].conversation
     IN  /\ InsertRun(c, v)
         /\ IF call[c].previous = Nil
            THEN UNCHANGED <<messages, summaries>>
            ELSE Replaceable(c, v) /\ RemoveTurn(v, call[c].previous)
  /\ Advance(c, "load")
  /\ UNCHANGED <<conversation, queue, faults>>

\* What the two transactions refuse: the identity of a message that has a Run
\* without a retry or in another conversation, a conversation that is not there
\* (or, in the model, no identity left for a new one), a turn that is not the
\* last or not terminal, a conversation with a RUNNING Run to delete.
Conflict(c) ==
  /\ \/ /\ Identified(c)
        /\ IF call[c].user # Nil /\ AttemptsOf(call[c].user) # {}
           THEN ~call[c].retry
                \/ call[c].conversation \notin
                     {Nil, runs[NewestOf(AttemptsOf(call[c].user))].conversation}
           ELSE IF call[c].conversation = Nil
                THEN \A v \in Conversations : conversation[v] # "unused"
                ELSE conversation[call[c].conversation] # "present"
     \/ /\ call[c].pc = "begin"
        /\ Locked(c)
        /\ \/ conversation[call[c].conversation] # "present"
           \/ call[c].previous # Nil /\ ~Replaceable(c, call[c].conversation)
     \/ call[c].pc = "deleting" /\ Locked(c) /\ HasRunning(call[c].conversation)
  /\ End(c)
  /\ UNCHANGED <<database, faults>>

-----------------------------------------------------------------------------
(* The graph of a turn *)

\* load_context: repair and user message in one transaction, then the snapshot.
LoadTurn(c) ==
  /\ call[c].pc = "load"
  /\ UNCHANGED <<conversation, runs, order, summaries, queue, faults>>
  /\ LET v == call[c].conversation
     IN  /\ AppendMessages(v, c, Append(Repairs(v), "human"))
         /\ call' = [call EXCEPT
              ![c].pc = IF Loadable(v, messages'[v]) THEN "compact" ELSE "failing",
              ![c].records = messages'[v],
              ![c].known = summaries[v]]

\* compact: the estimate is below the threshold, or nothing can be compacted.
KeepSummaries(c) ==
  /\ call[c].pc = "compact"
  /\ IsUnits(Uncovered(call[c].records, call[c].known))
  /\ call' = [call EXCEPT ![c].pc = "model", ![c].records = {}, ![c].known = {}]
  /\ UNCHANGED <<database, queue, faults>>

\* compact and commit_candidate: the Provider is asked at most three times
\* between the snapshot and the transaction, which compares the last revision.
AppendSummary(c) ==
  /\ call[c].pc = "compact"
  /\ LET v         == call[c].conversation
         known     == call[c].known
         uncovered == Uncovered(call[c].records, known)
         prefix    == CompactablePrefix(uncovered)
         candidate == [revision |-> Revision(known) + 1,
                       covered |-> LastSequence(prefix), source |-> c]
     IN  /\ IsUnits(uncovered)
         /\ prefix # {}
         /\ Loadable(v, messages[v])
         /\ Revision(summaries[v]) = Revision(known)
         /\ candidate.covered > LastSummary(summaries[v]).covered
         /\ ValidBoundary(v, messages[v], candidate)
         /\ summaries' = [summaries EXCEPT ![v] = @ \cup {candidate}]
  /\ call' = [call EXCEPT ![c].pc = "model", ![c].records = {}, ![c].known = {}]
  /\ UNCHANGED <<conversation, runs, order, messages, queue, faults>>

\* call_model and route_after_model.
CallModel(c) ==
  /\ call[c].pc = "model"
  /\ \E kind \in {"reply", "call"} :
       /\ AppendMessages(call[c].conversation, c, <<kind>>)
       /\ Advance(c, IF kind = "call" THEN "limit" ELSE "complete")
  /\ UNCHANGED <<conversation, runs, order, summaries, queue, faults>>

\* check_react_limit, increment_iteration and route_after_limit.
CheckLimit(c) ==
  /\ call[c].pc = "limit"
  /\ IF runs[c].iteration < MaxIterations
     THEN /\ runs' = [runs EXCEPT ![c].iteration = @ + 1]
          /\ Advance(c, "tool")
     ELSE Advance(c, "reject") /\ UNCHANGED runs
  /\ UNCHANGED <<conversation, order, messages, summaries, queue, faults>>

\* record_tool_result, or the first transaction of reject_limit.
RecordResults(c) ==
  /\ call[c].pc \in {"tool", "reject"}
  /\ AppendMessages(call[c].conversation, c, <<"result">>)
  /\ Advance(c, IF call[c].pc = "tool" THEN "model" ELSE "limited")
  /\ UNCHANGED <<conversation, runs, order, summaries, queue, faults>>

FinishRun(c, status) ==
  /\ runs[c].status = "RUNNING"
  /\ runs' = [runs EXCEPT ![c].status = status]

\* The second transaction of reject_limit, or the one of run_turn after the
\* graph returned the final text.
Finish(c) ==
  /\ \/ call[c].pc = "complete" /\ FinishRun(c, "COMPLETED")
     \/ call[c].pc = "limited" /\ FinishRun(c, "LIMIT_REACHED")
  /\ End(c)
  /\ UNCHANGED <<conversation, order, messages, summaries, faults>>

\* An error or a cancellation at any point of the graph: _finish_if_running.
\* FAILED stands for CANCELLED too; nothing tells them apart here.
Fail(c) ==
  /\ Turn(c)
  /\ FinishRun(c, "FAILED")
  /\ End(c)
  /\ UNCHANGED <<conversation, order, messages, summaries, faults>>

\* The transaction of _finish_if_running fails: the Run stays RUNNING.
FailUnrecorded(c) ==
  /\ Turn(c)
  /\ faults < MaxFaults
  /\ faults' = faults + 1
  /\ End(c)
  /\ UNCHANGED database

-----------------------------------------------------------------------------
(* Deletion and restart *)

\* delete_conversation, up to the lock.
RequestDelete(c) ==
  /\ call[c] = Idle
  /\ \E v \in Conversations :
       /\ conversation[v] # "unused"
       /\ ~HasRunning(v)
       /\ Enqueue(c, v)
       /\ call' = [call EXCEPT ![c] = [pc |-> "deleting", conversation |-> v]]
  /\ UNCHANGED <<database, faults>>

\* ConversationRepository.delete_conversation; one that is gone is no error.
DeleteConversation(c) ==
  /\ call[c].pc = "deleting"
  /\ Locked(c)
  /\ LET v == call[c].conversation
     IN  /\ ~HasRunning(v)
         /\ conversation' = [conversation EXCEPT ![v] = "deleted"]
         /\ messages' = [messages EXCEPT ![v] = {}]
         /\ summaries' = [summaries EXCEPT ![v] = {}]
         /\ runs' = [r \in DOMAIN runs \ RunsOf(v) |-> runs[r]]
  /\ End(c)
  /\ UNCHANGED <<order, faults>>

\* The process ends and starts again: requests and locks are lost, nothing of
\* the database is repaired.
Restart ==
  /\ faults < MaxFaults
  /\ faults' = faults + 1
  /\ queue' = [key \in DOMAIN queue |-> <<>>]
  /\ call' = [c \in Calls |-> IF call[c] = Idle THEN Idle ELSE Done]
  /\ UNCHANGED database

-----------------------------------------------------------------------------

\* What the event loop and the answers of the Provider and of the session
\* drive once the request is there; a database that fails or a client that
\* cancels is not counted on.
Work(c) ==
  \/ OpenConversation(c) \/ FindAttempt(c) \/ Conflict(c) \/ BeginTurn(c)
  \/ LoadTurn(c) \/ KeepSummaries(c) \/ AppendSummary(c) \/ CallModel(c)
  \/ CheckLimit(c) \/ RecordResults(c) \/ Finish(c) \/ Fail(c)
  \/ DeleteConversation(c)

Next ==
  \/ \E c \in Calls :
       SubmitTurn(c) \/ RequestDelete(c) \/ Refuse(c) \/ FailUnrecorded(c) \/ Work(c)
  \/ Restart

Spec == Init /\ [][Next]_vars

-----------------------------------------------------------------------------
(* Properties *)

Message == [sequence : Nat, run : Calls, kind : Kinds]
Summary == [revision : Nat, covered : Nat, source : Calls]
Request ==
  [pc : {"lookup", "begin"} \cup Executing, user : UserMessages \cup {Nil},
   conversation : Conversations \cup {Nil}, retry : BOOLEAN,
   previous : Calls \cup {Nil}, status : Statuses \cup {Nil},
   records : SUBSET Message, known : SUBSET Summary]
Deletion == [pc : {"deleting"}, conversation : Conversations]

\* The rows are well formed, refer to conversations and Runs that exist, and a
\* turn that executes has its RUNNING Run (_finish_if_running finds it).
TypeOK ==
  /\ conversation \in [Conversations -> {"unused", "present", "deleted"}]
  /\ DOMAIN runs \subseteq Calls
  /\ \A r \in DOMAIN runs :
       /\ runs[r] \in [conversation : Conversations, user : UserMessages \cup {Nil},
                       status : Statuses, iteration : 0..MaxIterations]
       /\ conversation[runs[r].conversation] = "present"
  /\ order \in Seq(Calls) /\ DOMAIN runs \subseteq ToSet(order)
  /\ messages \in [Conversations -> SUBSET Message]
  /\ summaries \in [Conversations -> SUBSET Summary]
  /\ \A v \in Conversations : \A m \in messages[v] : m.run \in RunsOf(v)
  /\ queue \in [Conversations \cup UserMessages -> Seq(Calls)]
  /\ call \in [Calls -> {Idle, Done} \cup Request \cup Deletion]
  /\ \A c \in Calls : Turn(c) => c \in DOMAIN runs /\ runs[c].status = "RUNNING"
  /\ faults \in 0..MaxFaults

\* The repair of load_new_turn looks only at the last message.  It is enough:
\* in every history, after any interruption, retry or restart, the results of
\* a tool call are right behind it, but for the call that ends the history; and
\* the sequence numbers have no gap and no double, although a retry frees some.
HistoryStaysPaired ==
  \A v \in Conversations :
    /\ Paired(messages[v])
    /\ {m.sequence : m \in messages[v]} = 1..Cardinality(messages[v])

\* A conversation is never bricked by its summaries: whatever was retried or
\* deleted, the stored summaries cover messages that exist, in order, each
\* before the user message of the turn that made it (load does not raise
\* CONTEXT_SUMMARY_INVALID).
SummariesStayValid ==
  \A v \in Conversations : Loadable(v, messages[v])

\* However often a message is sent or retried, before or after the client has
\* learnt of its conversation: all its attempts are in one conversation and the
\* history holds the messages of at most one of them.
OneTurnPerUserMessage ==
  \A m \in UserMessages :
    /\ \A r, q \in AttemptsOf(m) : runs[r].conversation = runs[q].conversation
    /\ \A v \in Conversations : \A x, y \in messages[v] :
         x.run \in AttemptsOf(m) /\ y.run \in AttemptsOf(m) => x.run = y.run

\* The history is one that every later turn can go on from.
HistoryIsSound == HistoryStaysPaired /\ OneTurnPerUserMessage /\ SummariesStayValid

\* History is only appended to; what a retry removes from a conversation is
\* its tail, and the tail is the turn of one Run that has ended.
OnlyLastTurnIsReplaced ==
  [][\A v \in Conversations :
       LET added == messages'[v] \ messages[v]
           gone  == messages[v] \ messages'[v]
       IN  /\ \A m \in added, n \in messages[v] : n.sequence < m.sequence
           /\ conversation'[v] # "deleted" /\ gone # {} =>
                /\ added = {}
                /\ \A m \in gone, n \in messages'[v] : n.sequence < m.sequence
                /\ \E r \in DOMAIN runs :
                     runs[r].status # "RUNNING" /\ \A m \in gone : m.run = r]_vars

\* Two kinds of locks, taken in one order and released on every way out: no
\* set of requests waits for itself.  In every set of requests in progress one
\* can move, or stands behind another request that is in progress and not in
\* the set; so, with FIFO locks, every request that is sent is answered
\* (_user_message_lock, _conversation_lock).
NoCircularWait ==
  LET started == {c \in Calls : call[c] \notin {Idle, Done}}
      moving  == {c \in started : ENABLED Work(c)}
      Ahead(c) == {d \in started : \E key \in DOMAIN queue : \E i, j \in DOMAIN queue[key] :
                      i < j /\ queue[key][i] = d /\ queue[key][j] = c}
  IN  \A S \in SUBSET (started \ moving) :
        S = {} \/ \E c \in S : Ahead(c) \ S # {}
=============================================================================
