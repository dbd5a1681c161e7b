--------------------------- MODULE AgentApproval ---------------------------
(***************************************************************************)
(* The tool loop of an Agent Run with human approval.  Three parties share  *)
(* one event loop:                                                          *)
(*   - the worker of each Run drives the graph (model, prepare_tool,        *)
(*     await_approval, execute_tool, record_tool_result) and, while the     *)
(*     graph is interrupted, waits for the decision;                        *)
(*   - HTTP decision requests write the ApprovalRegistry;                   *)
(*   - the SSH session the Run is bound to may be lost or closed.           *)
(* A Run makes at most one tool call at a time: the n-th call of Run r that *)
(* needs an approval is the approval <<r, n>>.                              *)
(***************************************************************************)
EXTENDS Naturals

CONSTANTS
  Runs,       \* Agent Runs, each with its worker
  Sessions,   \* SSH sessions
  SessionOf,  \* [Runs -> Sessions], frozen for the Run
  ReactLimit  \* iterations before reject_limit (128)

ASSUME ReactAssumption == /\ ReactLimit \in Nat
                          /\ SessionOf \in [Runs -> Sessions]

Approvals == Runs \X (1..ReactLimit)

NoEntry == [resolution |-> "absent"]
Entries == [resolution : {"none", "APPROVED", "REJECTED", "INVALIDATED"},
            consumed : BOOLEAN, active : BOOLEAN]

\* Where the worker is suspended.
Nodes == {"model", "requesting", "pending", "resolving", "execute",
          "announcing", "creating", "running", "closing", "recording",
          "raising", "ended"}

\* The tool message a call ends with.
NotExecuted == {"refused", "rejected", "unavailable"}
Executed    == {"completed", "timeout", "lost", "undetermined"}
Results     == NotExecuted \cup Executed

VARIABLES
  node,        \* where the worker of each Run is
  iteration,   \* react_iteration
  guarded,     \* pending_approval: the current call needs an approval
  result,      \* the tool message of the current call
  outcome,     \* how the graph ended
  cancelled,   \* the dispatcher's event of the Run's request
  taskCancel,  \* worker.cancel(): "no", "pending" or "delivered"
  registry,    \* ApprovalRegistry._entries
  session,     \* transport and registry state of each SSH session
  children,    \* child_channels, as the Runs whose process is registered
  process,     \* the exec channel of each Run's current call
  answers,     \* what decision requests were answered (history)
  accepted,    \* the decision the registry recorded (history)
  dispatched,  \* how often create_process was called for a call (history)
  recorded     \* the recorded tool message of each call (history)

workerVars  == <<node, iteration, guarded, result, outcome>>
sshVars     == <<session, children, process>>
historyVars == <<answers, accepted, dispatched, recorded>>
vars == <<workerVars, sshVars, historyVars, cancelled, taskCancel, registry>>

TypeOK ==
  /\ node \in [Runs -> Nodes]
  /\ iteration \in [Runs -> 0..ReactLimit]
  /\ guarded \in [Runs -> BOOLEAN]
  /\ result \in [Runs -> Results \cup {"none"}]
  /\ outcome \in [Runs -> {"none", "text", "limit", "failed", "cancelled"}]
  /\ cancelled \in [Runs -> BOOLEAN]
  /\ taskCancel \in [Runs -> {"no", "pending", "delivered"}]
  /\ registry \in [Approvals -> Entries \cup {NoEntry}]
  /\ session \in [Sessions -> {"connected", "lost", "closing", "closed"}]
  /\ children \in SUBSET Runs
  /\ process \in [Runs -> {"none", "open", "closed"}]
  /\ answers \in [Approvals -> SUBSET {"APPROVED", "REJECTED", "INACTIVE",
                                       "CONFLICT", "NOT_FOUND"}]
  /\ accepted \in [Approvals -> {"nothing", "asked", "APPROVED", "REJECTED"}]
  /\ dispatched \in [Approvals -> Nat]
  /\ recorded \in [Approvals -> Results \cup {"none"}]

Init ==
  /\ node = [r \in Runs |-> "model"]
  /\ iteration = [r \in Runs |-> 0]
  /\ guarded = [r \in Runs |-> FALSE]
  /\ result = [r \in Runs |-> "none"]
  /\ outcome = [r \in Runs |-> "none"]
  /\ cancelled = [r \in Runs |-> FALSE]
  /\ taskCancel = [r \in Runs |-> "no"]
  /\ registry = [a \in Approvals |-> NoEntry]
  /\ session = [s \in Sessions |-> "connected"]
  /\ children = {}
  /\ process = [r \in Runs |-> "none"]
  /\ answers = [a \in Approvals |-> {}]
  /\ accepted = [a \in Approvals |-> "nothing"]
  /\ dispatched = [a \in Approvals |-> 0]
  /\ recorded = [a \in Approvals |-> "none"]
-----------------------------------------------------------------------------
(* Mutated forms of the helpers below, for the mutation runs.              *)

\* A pending entry is resolved, but the entries stay active.
InvalidateNothing(entry) ==
  IF entry # NoEntry /\ entry.resolution = "none"
    THEN [entry EXCEPT !.resolution = "INVALIDATED"] ELSE entry
-----------------------------------------------------------------------------
(* Helpers.                                                                *)

Current(r) == <<r, iteration[r]>>

Goto(r, n) == node' = [node EXCEPT ![r] = n]

\* _session_is_available and is_connected: registered, transports open.
Available(r) == session[SessionOf[r]] = "connected"

\* register: the entry of an approval that nobody has decided about.
Pending == [resolution |-> "none", consumed |-> FALSE, active |-> TRUE]

\* consume: what execute_tool may use the approval for, once.
Consumable(entry) ==
  /\ entry # NoEntry
  /\ entry.active /\ entry.resolution = "APPROVED" /\ ~entry.consumed

\* invalidate_run: resolved entries keep their decision.
Invalidated(entry) ==
  IF entry = NoEntry THEN NoEntry
  ELSE [entry EXCEPT !.active = FALSE,
          !.resolution = IF @ = "none" THEN "INVALIDATED" ELSE @]

InvalidateRun(r) ==
  registry' = [a \in Approvals |->
                 IF a[1] = r THEN Invalidated(registry[a]) ELSE registry[a]]

\* release_run: nothing of the Run stays in the registry.
ReleaseRun(r) ==
  registry' = [a \in Approvals |-> IF a[1] = r THEN NoEntry ELSE registry[a]]

\* An exception leaves the current node.
Raise(r, why) == /\ Goto(r, "raising")
                 /\ outcome' = [outcome EXCEPT ![r] = why]

Answer(a, answer) == answers' = [answers EXCEPT ![a] = @ \cup {answer}]

Interrupted(r) == taskCancel[r] = "pending"
Deliver(r)     == taskCancel' = [taskCancel EXCEPT ![r] = "delivered"]
-----------------------------------------------------------------------------
(* Mutated forms of the actions below, for the mutation runs.              *)

\* The iteration is counted without a limit.
PrepareWithoutLimit(r) ==
  /\ node[r] = "model" /\ ~Interrupted(r)
  /\ iteration' = [iteration EXCEPT ![r] = @ + 1]
  /\ Goto(r, "execute")
  /\ UNCHANGED <<guarded, result, outcome, sshVars, historyVars, cancelled,
                 taskCancel, registry>>

\* A command that timed out is sent again.
RetryAfterTimeout(r) ==
  IF result[r] = "timeout" THEN Goto(r, "announcing")
  ELSE IF outcome[r] = "none" THEN Goto(r, "recording")
  ELSE Goto(r, "raising")

\* The process is unregistered although its close was not confirmed.
CloseFailsForgotten(r) ==
  /\ node[r] = "closing"
  /\ children' = children \ {r}
  /\ Raise(r, "failed")
  /\ UNCHANGED <<iteration, guarded, result, session, process, historyVars,
                 cancelled, taskCancel, registry>>

\* The wait for the decision does not listen to the session.
WaitFailsOnCancelOnly(r) ==
  /\ node[r] = "pending" /\ ~Interrupted(r)
  /\ cancelled[r]
  /\ InvalidateRun(r)
  /\ Raise(r, "cancelled")
  /\ UNCHANGED <<iteration, guarded, result, sshVars, historyVars, cancelled,
                 taskCancel>>
-----------------------------------------------------------------------------
(* The graph.  Every action of a worker needs that no CancelledError is due *)
(* to it.                                                                   *)

\* call_model answers with a final text, or fails.
ModelEnds(r) ==
  /\ node[r] = "model" /\ ~Interrupted(r)
  /\ \E why \in {"text", "failed"} : Raise(r, why)
  /\ UNCHANGED <<iteration, guarded, result, sshVars, historyVars, cancelled,
                 taskCancel, registry>>

\* check_react_limit refuses the decision and reject_limit ends the Run.
LimitReached(r) ==
  /\ node[r] = "model" /\ ~Interrupted(r)
  /\ iteration[r] >= ReactLimit
  /\ Raise(r, "limit")
  /\ UNCHANGED <<iteration, guarded, result, sshVars, historyVars, cancelled,
                 taskCancel, registry>>

\* check_react_limit counts the iteration, then prepare_tool classifies the
\* call: several calls, an unknown tool, invalid arguments or a BLOCKED
\* command end at once in a failure message; an allowed command goes to
\* execute_tool; any other command is registered as a pending approval.
PrepareTool(r) ==
  /\ node[r] = "model" /\ ~Interrupted(r)
  /\ iteration[r] < ReactLimit
  /\ iteration' = [iteration EXCEPT ![r] = @ + 1]
  /\ \/ /\ Goto(r, "recording")
        /\ result' = [result EXCEPT ![r] = "refused"]
        /\ UNCHANGED <<guarded, registry, accepted>>
     \/ /\ Goto(r, "execute")
        /\ UNCHANGED <<guarded, result, registry, accepted>>
     \/ /\ Goto(r, "requesting")
        /\ guarded' = [guarded EXCEPT ![r] = TRUE]
        /\ registry' = [registry EXCEPT ![<<r, iteration[r] + 1>>] = Pending]
        /\ accepted' = [accepted EXCEPT ![<<r, iteration[r] + 1>>] = "asked"]
        /\ UNCHANGED result
  /\ UNCHANGED <<outcome, sshVars, answers, dispatched, recorded, cancelled,
                 taskCancel>>

\* approval_requested is in the SSE queue.
RequestPublished(r) ==
  /\ node[r] = "requesting" /\ ~Interrupted(r)
  /\ Goto(r, "pending")
  /\ UNCHANGED <<iteration, guarded, result, outcome, sshVars, historyVars,
                 cancelled, taskCancel, registry>>

\* _wait_for_approval wakes up: cancellation first, then the session, then
\* the decision.
DecisionArrives(r) ==
  /\ node[r] = "pending" /\ ~Interrupted(r)
  /\ ~cancelled[r] /\ Available(r)
  /\ registry[Current(r)].resolution # "none"
  /\ IF registry[Current(r)].resolution = "INVALIDATED"
       THEN Raise(r, "failed")
       ELSE Goto(r, "resolving") /\ UNCHANGED outcome
  /\ UNCHANGED <<iteration, guarded, result, sshVars, historyVars, cancelled,
                 taskCancel, registry>>

WaitFails(r) ==
  /\ node[r] = "pending" /\ ~Interrupted(r)
  /\ cancelled[r] \/ ~Available(r)
  /\ InvalidateRun(r)
  /\ Raise(r, IF cancelled[r] THEN "cancelled" ELSE "failed")
  /\ UNCHANGED <<iteration, guarded, result, sshVars, historyVars, cancelled,
                 taskCancel>>

\* approval_resolved is in the SSE queue and the graph resumes.
ResolutionPublished(r) ==
  /\ node[r] = "resolving" /\ ~Interrupted(r)
  /\ IF registry[Current(r)].resolution = "APPROVED"
       THEN Goto(r, "execute") /\ UNCHANGED result
       ELSE /\ Goto(r, "recording")
            /\ result' = [result EXCEPT ![r] = "rejected"]
  /\ UNCHANGED <<iteration, guarded, outcome, sshVars, historyVars, cancelled,
                 taskCancel, registry>>

\* execute_tool consumes the authorization of exactly this call and starts
\* to publish tool_started.
ConsumeAndAnnounce(r) ==
  /\ node[r] = "execute" /\ ~Interrupted(r)
  /\ ~cancelled[r]
  /\ IF guarded[r]
       THEN IF Consumable(registry[Current(r)])
              THEN /\ registry' = [registry EXCEPT ![Current(r)].consumed = TRUE]
                   /\ Goto(r, "announcing")
                   /\ UNCHANGED outcome
              ELSE Raise(r, "failed") /\ UNCHANGED registry
       ELSE Goto(r, "announcing") /\ UNCHANGED <<outcome, registry>>
  /\ UNCHANGED <<iteration, guarded, result, sshVars, historyVars, cancelled,
                 taskCancel>>

\* The observed cancellation event: before the graph is resumed, in
\* execute_tool, in the model call, in a publication, before exec.
CancelObserved(r) ==
  /\ node[r] \in {"model", "requesting", "resolving", "execute", "announcing"}
  /\ cancelled[r] /\ ~Interrupted(r)
  /\ Raise(r, "cancelled")
  /\ UNCHANGED <<iteration, guarded, result, sshVars, historyVars, cancelled,
                 taskCancel, registry>>

\* A frame over the byte budget: the operation behind it is not done.
PublishFails(r) ==
  /\ node[r] \in {"requesting", "resolving", "announcing"} /\ ~Interrupted(r)
  /\ Raise(r, "failed")
  /\ UNCHANGED <<iteration, guarded, result, sshVars, historyVars, cancelled,
                 taskCancel, registry>>
-----------------------------------------------------------------------------
(* SshCommandExecutor.execute.                                             *)

\* tool_started is in the SSE queue; the session decides whether the command
\* is dispatched.
Dispatch(r) ==
  /\ node[r] = "announcing" /\ ~Interrupted(r)
  /\ IF ~Available(r)
       THEN /\ Goto(r, "recording")
            /\ result' = [result EXCEPT ![r] = "unavailable"]
            /\ UNCHANGED dispatched
       ELSE /\ ~cancelled[r]
            /\ Goto(r, "creating")
            /\ dispatched' = [dispatched EXCEPT ![Current(r)] = @ + 1]
            /\ UNCHANGED result
  /\ UNCHANGED <<iteration, guarded, outcome, sshVars, answers, accepted,
                 recorded, cancelled, taskCancel, registry>>

\* The handle arrives: the process is owned by the session at once, whatever
\* happened to the session meanwhile.  A cancellation closes it again.
ProcessCreated(r) ==
  /\ node[r] = "creating"
  /\ session[SessionOf[r]] # "closed"
  /\ process' = [process EXCEPT ![r] = "open"]
  /\ children' = children \cup {r}
  /\ IF Interrupted(r) \/ cancelled[r]
       THEN /\ Goto(r, "closing")
            /\ outcome' = [outcome EXCEPT ![r] = "cancelled"]
            /\ IF Interrupted(r) THEN Deliver(r) ELSE UNCHANGED taskCancel
       ELSE /\ Goto(r, "running")
            /\ UNCHANGED <<outcome, taskCancel>>
  /\ UNCHANGED <<iteration, guarded, result, session, historyVars, cancelled,
                 registry>>

\* create_process raises: the remote state is not known.
CreateFails(r) ==
  /\ node[r] = "creating"
  /\ IF Interrupted(r)
       THEN Raise(r, "cancelled") /\ Deliver(r) /\ UNCHANGED result
       ELSE /\ Goto(r, "recording")
            /\ \E res \in {"lost", "undetermined"} :
                 result' = [result EXCEPT ![r] = res]
            /\ UNCHANGED <<outcome, taskCancel>>
  /\ UNCHANGED <<iteration, guarded, sshVars, historyVars, cancelled, registry>>

\* process.wait returned first: the channel is closed by the remote side.
CommandCompletes(r) ==
  /\ node[r] = "running" /\ ~Interrupted(r)
  /\ process' = [process EXCEPT ![r] = "closed"]
  /\ children' = children \ {r}
  /\ Goto(r, "recording")
  /\ result' = [result EXCEPT ![r] = "completed"]
  /\ UNCHANGED <<iteration, guarded, outcome, session, historyVars, cancelled,
                 taskCancel, registry>>

\* The 30 s timeout, the loss of the transport, or the cancellation event
\* that won the race: the channel is terminated and closed.
CommandInterrupted(r) ==
  /\ node[r] = "running"
  /\ Goto(r, "closing")
  /\ IF Interrupted(r) \/ cancelled[r]
       THEN /\ outcome' = [outcome EXCEPT ![r] = "cancelled"]
            /\ IF Interrupted(r) THEN Deliver(r) ELSE UNCHANGED taskCancel
            /\ UNCHANGED result
       ELSE /\ \E res \in {"timeout", "lost", "undetermined"} :
                 result' = [result EXCEPT ![r] = res]
            /\ UNCHANGED <<outcome, taskCancel>>
  /\ UNCHANGED <<iteration, guarded, sshVars, historyVars, cancelled, registry>>

AfterClosing(r) ==
  IF outcome[r] = "none" THEN Goto(r, "recording") ELSE Goto(r, "raising")

\* _close_indeterminate_process confirmed the close.  An error of terminate
\* or close before that replaces the outcome of the call.
CloseConfirmed(r) ==
  /\ node[r] = "closing" /\ ~Interrupted(r)
  /\ process' = [process EXCEPT ![r] = "closed"]
  /\ children' = children \ {r}
  /\ \/ AfterClosing(r) /\ UNCHANGED outcome
     \/ Raise(r, "failed")
  /\ UNCHANGED <<iteration, guarded, result, session, historyVars, cancelled,
                 taskCancel, registry>>

\* It did not, because the channel failed or a CancelledError interrupted
\* wait_closed: the process stays registered and the first error is raised.
CloseFails(r) ==
  /\ node[r] = "closing"
  /\ \/ Raise(r, "failed")
     \/ Interrupted(r) /\ Raise(r, "cancelled")
  /\ IF Interrupted(r) THEN Deliver(r) ELSE UNCHANGED taskCancel
  /\ UNCHANGED <<iteration, guarded, result, sshVars, historyVars, cancelled,
                 registry>>

\* record_tool_result pairs the call with its message and clears the
\* temporary authorization state; the next model call follows.
Record(r) ==
  /\ node[r] = "recording" /\ ~Interrupted(r)
  /\ Goto(r, "model")
  /\ recorded' = [recorded EXCEPT ![Current(r)] = result[r]]
  /\ result' = [result EXCEPT ![r] = "none"]
  /\ guarded' = [guarded EXCEPT ![r] = FALSE]
  /\ process' = [process EXCEPT ![r] = "none"]
  /\ UNCHANGED <<iteration, outcome, session, children, answers, accepted,
                 dispatched, cancelled, taskCancel, registry>>

\* CancelledError anywhere else.
TaskCancelled(r) ==
  /\ Interrupted(r)
  /\ node[r] \in {"model", "requesting", "pending", "resolving", "execute",
                  "announcing", "recording", "raising"}
  /\ Raise(r, "cancelled")
  /\ Deliver(r)
  /\ UNCHANGED <<iteration, guarded, result, sshVars, historyVars, cancelled,
                 registry>>

\* The finally of _invoke_until_terminal.
GraphExits(r) ==
  /\ node[r] = "raising"
  /\ ReleaseRun(r)
  /\ Goto(r, "ended")
  /\ UNCHANGED <<iteration, guarded, result, outcome, sshVars, historyVars,
                 cancelled, taskCancel>>
-----------------------------------------------------------------------------
(* The others: decision requests, the dispatcher, the client, the session.  *)

\* AgentService.decide_approval, without an await.  An approval is known
\* from its frame, which may reach the client while the worker still
\* publishes it.
Decide(a, status, matches) ==
  LET entry == registry[a]
      r     == a[1]
  IN
  /\ accepted[a] # "nothing"
  /\ IF entry = NoEntry
       THEN Answer(a, "NOT_FOUND") /\ UNCHANGED <<registry, accepted>>
     ELSE IF ~matches
       THEN Answer(a, "CONFLICT") /\ UNCHANGED <<registry, accepted>>
     ELSE IF ~entry.active
       THEN Answer(a, "INACTIVE") /\ UNCHANGED <<registry, accepted>>
     ELSE IF entry.resolution \notin {"none", status}
       THEN Answer(a, "CONFLICT") /\ UNCHANGED <<registry, accepted>>
     ELSE /\ accepted' = [accepted EXCEPT ![a] = status]
          /\ LET decided == [registry EXCEPT ![a].resolution = status]
             IN  IF Available(r)
                   THEN registry' = decided /\ Answer(a, status)
                   ELSE /\ registry' = [b \in Approvals |->
                                          IF b[1] = r THEN Invalidated(decided[b])
                                                      ELSE decided[b]]
                        /\ Answer(a, "INACTIVE")
  /\ UNCHANGED <<workerVars, sshVars, dispatched, recorded, cancelled, taskCancel>>

\* dispatcher.close(), or the disconnect of the client of the turn.
CancelRun(r) ==
  /\ node[r] # "ended"
  /\ \/ /\ ~cancelled[r]
        /\ cancelled' = [cancelled EXCEPT ![r] = TRUE]
        /\ UNCHANGED taskCancel
     \/ /\ taskCancel[r] = "no"
        /\ taskCancel' = [taskCancel EXCEPT ![r] = "pending"]
        /\ UNCHANGED cancelled
  /\ UNCHANGED <<workerVars, sshVars, historyVars, registry>>

\* The transport breaks.
TransportLost(s) ==
  /\ session[s] = "connected"
  /\ session' = [session EXCEPT ![s] = "lost"]
  /\ UNCHANGED <<workerVars, children, process, historyVars, cancelled,
                 taskCancel, registry>>

\* SshSessionRegistry.close: the session is popped and its channels are told
\* to close; once they converged the set of channels is cleared and the
\* connection closed, which ends every channel opened meanwhile.
BeginClose(s) ==
  /\ session[s] \in {"connected", "lost"}
  /\ session' = [session EXCEPT ![s] = "closing"]
  /\ UNCHANGED <<workerVars, children, process, historyVars, cancelled, taskCancel,
                 registry>>

EndClose(s) ==
  /\ session[s] = "closing"
  /\ session' = [session EXCEPT ![s] = "closed"]
  /\ children' = {r \in children : SessionOf[r] # s}
  /\ process' = [r \in Runs |-> IF SessionOf[r] = s /\ process[r] = "open"
                                  THEN "closed" ELSE process[r]]
  /\ UNCHANGED <<workerVars, historyVars, cancelled, taskCancel, registry>>
-----------------------------------------------------------------------------
GraphStep(r) == \/ ModelEnds(r) \/ LimitReached(r) \/ PrepareTool(r)
                \/ RequestPublished(r) \/ DecisionArrives(r) \/ WaitFails(r)
                \/ ResolutionPublished(r) \/ ConsumeAndAnnounce(r)
                \/ CancelObserved(r) \/ PublishFails(r) \/ Record(r)
                \/ TaskCancelled(r) \/ GraphExits(r)

ExecutorStep(r) == \/ Dispatch(r) \/ ProcessCreated(r) \/ CreateFails(r)
                   \/ CommandCompletes(r) \/ CommandInterrupted(r)
                   \/ CloseConfirmed(r) \/ CloseFails(r)

SessionStep(s) == TransportLost(s) \/ BeginClose(s) \/ EndClose(s)

Next == \/ \E r \in Runs : GraphStep(r) \/ ExecutorStep(r) \/ CancelRun(r)
        \/ \E a \in Approvals, matches \in BOOLEAN :
             \E status \in {"APPROVED", "REJECTED"} : Decide(a, status, matches)
        \/ \E s \in Sessions : SessionStep(s)

Spec == Init /\ [][Next]_vars

\* What the event loop runs by itself: a worker whose awaited event fired,
\* and the 30 s timeout of a command.  Nothing is assumed of the user, of the
\* model or of the remote host: create_process and wait_closed have no
\* timeout.
Resumes(r) == \/ DecisionArrives(r) \/ WaitFails(r) \/ CancelObserved(r)
              \/ TaskCancelled(r) \/ CommandInterrupted(r) \/ Record(r)
              \/ GraphExits(r)

FairSpec == Spec /\ \A r \in Runs : WF_vars(Resumes(r))
-----------------------------------------------------------------------------
(* Properties.                                                             *)

\* The authority an approval carries, as the rest of the system may use it.
Authority(a) ==
  IF accepted[a] = "nothing" THEN "none"
  ELSE IF dispatched[a] > 0 THEN "executed"
  ELSE IF "REJECTED" \in answers[a] THEN "rejected"
  ELSE IF registry[a] # NoEntry /\ registry[a].active
         THEN IF registry[a].resolution = "none" THEN "pending" ELSE "approved"
  ELSE "void"

Promise == INSTANCE ApprovalAuthority
             WITH authority <- [a \in Approvals |-> Authority(a)]

\* The registry, the worker and the decision requests together keep the
\* promise of ApprovalAuthority: no command that needs an approval is
\* dispatched unless its own approval is approved and active at that moment,
\* and never after a client was told that it would not be.
AuthorityContract == Promise!Spec

\* A call is dispatched at most once: no timeout, lost channel or repeated
\* decision makes the executor send it again.
CommandRunsOnce == \A a \in Approvals : dispatched[a] <= 1

\* What the model is told of a call is true: a message saying that the command
\* was not executed stands for a command that was never dispatched, and any
\* other message for one that was.
ToolMessageIsTrue ==
  \A a \in Approvals :
    recorded[a] # "none" => (recorded[a] \in NotExecuted <=> dispatched[a] = 0)

\* The history of a call is true: it was executed once at most, and the model
\* is told whether it was, through timeouts, losses and cancellations
\* (SshCommandExecutor.execute, record_tool_result).
CallHistoryIsTrue == CommandRunsOnce /\ ToolMessageIsTrue

\* Authority does not outlive the Run, and nothing is undecided once the worker
\* stopped waiting for it.
AuthorityReleased ==
  \A a \in Approvals :
    LET r == a[1]
    IN  /\ node[r] = "ended" => registry[a] = NoEntry
        /\ registry[a].resolution = "none"
             => Current(r) = a /\ node[r] \in {"requesting", "pending", "raising"}

\* An open exec channel is registered with its session, so that closing the
\* session closes it, whatever interrupted the executor.
OpenProcessIsOwned == \A r \in Runs : process[r] = "open" => r \in children

\* Nothing that a Run holds is left behind, however it ends: neither authority
\* nor a process that nobody will close (release_run, _close_process).
NothingIsLeftBehind == AuthorityReleased /\ OpenProcessIsOwned

\* A cancelled Run ends, except that the executor may have to wait for the
\* remote side.
CancellationConverges ==
  \A r \in Runs :
    (cancelled[r] \/ Interrupted(r)) ~> (node[r] \in {"ended", "creating", "closing"})

\* Waiting for a decision ends with the decision or with the session, without
\* any timeout.
WaitConverges ==
  \A r \in Runs :
    (node[r] = "pending" /\ (~Available(r) \/ registry[Current(r)].resolution # "none"))
      ~> (node[r] # "pending")

\* No Run waits for something that will not come: neither a cancelled one nor
\* one whose decision was made or whose session was lost (wait, request_approval).
RunsConverge == CancellationConverges /\ WaitConverges
=============================================================================
