# TLA+ models of Harness SSH

Harness SSH is a desktop application: a Tauri shell and a React frontend talk over loopback
HTTP and one WebSocket to a Python backend (`backend/src/harness_ssh_sidecar`), which owns SSH
sessions, interactive terminals, manual SFTP transfers and an LLM Agent that may run commands
on a remote host. A small Rust launcher starts and stops the backend.

The backend is one process with one asyncio event loop. Everything below is about tasks of
that loop (they switch only at an `await`), about two durable stores (SQLite rows and the
remote file system) and about parties that do not ask: the user, a browser that disconnects,
a remote host that is slow, a process that dies. **An action of these modules is what one
task does between two awaits**, or what an outside party does at once.

Paths below are relative to `backend/src/harness_ssh_sidecar/` unless they start otherwise.

## Inventory

| Component | State it keeps | Operations | What makes it correct |
|---|---|---|---|
| `runtime/dispatcher.py` RequestDispatcher | table of active request IDs, closing flag, a cancellation event per request | `execute`, `dispatch`, `close` | bounded, one owner per ID, every slot given back, `close` ends |
| `web/agent_stream.py` publisher and session | start barrier, bounded frame queue, sequence, byte budget, worker task | `start`, `body`, `aclose`, publish one frame, `events` | contiguous frames, terminal frame always fits, nothing outlives the session |
| `agent/service.py` AgentService | durable Run, message and conversation locks | `run_turn`, `decide_approval`, `delete_conversation` | one RUNNING Run per conversation, a Run ends once, what is reported is durable |
| `agent/graph.py` + `agent/approvals.py` | graph state, approval registry | model, prepare, await approval, execute, record | a command needs its own live approval, runs at most once |
| `agent/executor.py` | exec channel of the call | `execute` | a command whose outcome is unknown is neither repeated nor called unexecuted; no channel is lost |
| `manual_sftp/transfers.py` uploads | `_active` table, write handle, channel, durable record, remote temporary file | `begin`, `write_chunk`, `finish`, `abort`, `close_all` | the target receives all of the source or nothing, an absent target is never overwritten, residue is listed |
| `manual_sftp/transfers.py` downloads, `manual_sftp/listings.py`, `manual_sftp/service.py` | `_active`, `_finalized`, the listing cursors, a lease for each channel | `begin`, `read_chunk`, `finish`, `abort`; `begin`, `next`, `close`; single questions; `close_all` | the bytes are those of the frozen source, a listing is whole, no channel is forgotten |
| `manual_sftp/recovery.py` + `operation_store.py` | durable records | `list`, `inspect`, `execute` | a record is only resolved by evidence, never offers a harmful action |
| `manual_sftp/mutations.py` | records, delete plans | `mkdir`, `rename`, `remove`, two-phase recursive delete | a plan is used once, only what was shown is deleted |
| `ssh/sessions.py`, `manual_sftp/channels.py` | sessions, child channels | `register`, `close`, `wait_unavailable`, `open`, lease `close` | a channel always has an owner that closes it |
| `ssh/runtime.py`, `ssh/host_keys.py` | none between calls: a call works with a snapshot of profile, credentials and trusted keys | `inspect_host_key`, `connect`, `disconnect` | no session before the host key is trusted, no leak on failure |
| `agent/conversations.py` | conversations, runs, messages, summaries | transactions of the service | retry replaces exactly the last finished turn |
| `agent/context*.py`, `image_*`, `attachments.py` | summaries, drafts | load, budget, compact, bind | the window fits, message pairs stay together |
| `agent/model_gateway.py`, `agent/streaming.py` | per call: the SDK client, the stream, the attempt, what was published, the output merged so far; nothing between calls | `invoke` with its attempts, `summarize_once`, the parsers of both APIs | the client sees the answer, nothing half-said is persisted, every stream and client is closed |
| `web/websocket.py` gateway | owner flag, two bounded queues | `claim`, `release`, `run`, `publish` | one owner, order, no stuck shutdown |
| `terminal/manager.py` PTYs | table of PTYs, readers, monitor | `open`, `write`, `resize`, `close` | output numbered in order, close converges |
| `runtime/resources.py`, `web/lifespan.py`, `launcher/src` | phase, resources, child process | initialize, shutdown, kill after grace | ordered shutdown, nothing used after it is closed |
| `storage/*`, `credentials/*`, `connections/*` | SQLite rows: profiles, the credentials each owns, trusted and replaced host keys | create, update, delete, `trust_first_host_key`, `replace_host_key` | no credential without its profile, trust only as the user confirmed |
| `frontend/src/features/agent`, `.../sftp`, `.../terminal` | reducers, transfer coordinator, output buffer | events of the streams | frames are accepted in order, a transfer is settled once |

How they interact: the HTTP route creates a stream session; its worker takes a dispatcher
slot and runs `AgentService.run_turn`; that drives the graph, which calls the model gateway,
the approval registry and the executor, and publishes frames into the session's queue; the
HTTP task drains the queue. Decisions arrive as other HTTP requests and meet the worker in the
registry. The executor, the PTYs and the SFTP managers open channels of one SSH session and
register them there; closing the session closes them. PTY output and connection states leave
through the WebSocket gateway. `RuntimeResources.shutdown` closes the dispatcher, then the
managers, then the database.

What is hard to test: cancellations of two kinds (the dispatcher's event, `Task.cancel` of a
disconnect) at any await; checks before an await whose answer is used after it; queues that
block; a remote request that was executed although its answer was lost; a crash between two
durable steps. The list is in `PROJECT.json` under `hazards`, each at its line.

## Modules

| Module | What it is |
|---|---|
| `AgentTurnOutcome` | what one turn promises: abstract, two variables |
| `AgentTurnStream` | dispatcher, worker, publisher, HTTP side of turns |
| `AgentTurnStreamProofs` | theorems about `AgentTurnStream` |
| `MCAgentTurnStream` | constants for TLC |
| `ApprovalAuthority` | what human approval promises: abstract |
| `AgentApproval` | tool loop, registry, executor, session |
| `AgentApprovalProofs` | theorems about `AgentApproval`, and that it implements `ApprovalAuthority` |
| `MCAgentApproval` | constants for TLC |
| `ManualSftpUpload` | one upload and its recovery |
| `ManualSftpUploadProofs` | theorems about `ManualSftpUpload` |
| `MCManualSftpUpload` | constants for TLC |
| `ConversationTurns` | durable history, retry, compaction, deletion |
| `ConversationTurnsProofs` | theorems about `ConversationTurns` |
| `MCConversationTurns` | symmetry for TLC |
| `ModelStreaming` | the calls to the model of one turn: attempts, parsers, publication, cancellation |
| `MCModelStreaming` | the instance for TLC |
| `ModelStreamingProofs` | theorems about `ModelStreaming` |
| `RecursiveDelete` | one recursive delete and its recovery |
| `RecursiveDeleteProofs` | theorems about `RecursiveDelete` |
| `MCRecursiveDelete` | symmetry for TLC |
| `DesktopTerminal` | PTYs, the WebSocket gateway, disconnect, exit of the process |
| `MCDesktopTerminal` | a model value for TLC |
| `SshProfiles` | profiles, credentials, host keys: the database, and the abstract side of connecting |
| `SshConnections` | inspect, connect, disconnect over `SshProfiles` (EXTENDS it) |
| `SshProofs` | theorems about both and about `DesktopTerminal`, and that connecting implements `SshProfiles` |
| `MCSshConnections` | symmetry for TLC |
| `ManualSftpReads` | downloads, directory listings, single questions, their channels |
| `MCManualSftpReads` | symmetry for TLC |
| `ManualSftpReadsProofs` | theorems about `ManualSftpReads` |

### AgentTurnStream

State and code: `active`, `closing`, `cancelled` are the dispatcher (`_active`, `_closing`,
the event of each `_ActiveRequest`); `started`, `queue`, `sequence`, `bytes`, `offered` are the
publisher (`_started_future`, `_queue`, `_sequence`, `_encoded_bytes`, the frame `_put` works
on); `worker` is the await at which the worker task of a session is suspended, `taskCancel` a
`Task.cancel` that is not yet delivered; `consumer` and `frame` are the HTTP task; `run` is the
durable row. `received`, `lastFrame` and `dbFault` are history.

| Worker phase | Where |
|---|---|
| `created` | the task exists, its first step is due |
| `setup` | admitted; validation, message and conversation lock |
| `offering`, `enqueued` | in `_put`: before and after the queue accepted the frame |
| `graph`, `limit` | in the graph; on the way out after `reject_limit` |
| `unwinding` | an exception or cancellation travels through `run_turn` |
| `awaitSent` | `wait_terminal_sent`, the lock already released |

The two-step `_put` matters: the task that puts runs by itself, so a frame can be in the queue
although the worker sees a cancellation first. `PublishTerminal` is `completed()` and `failed()`
up to that await. `UnwindEnds` is `_finish_if_running(CANCELLED)`; the frame that `failed()`
would then send is never sent, because `_put` raises at once when the event is set, so the
abstract specification has no step that tells of a CANCELLED Run.
`DisconnectWhileSending` is the server blocked in `send` when the client leaves: the body
generator is suspended at its `yield` and only closed by its finalizer.

Left out: text and tool payloads (a frame has a kind, a number and a size), the operations that
share the dispatcher with a turn, the approval loop (its own module), the abandoned-consumer
flag of `_put` apart from its effect, which a disconnect always joins with `Task.cancel`.

### AgentApproval

A Run makes one tool call at a time, so the approval of its n-th call is `<<r, n>>`.
`node` is the await of the worker in the graph (`agent/graph.py`), in `_wait_for_approval`
(`agent/service.py`) or in the executor (`agent/executor.py`). `registry` is
`ApprovalRegistry._entries`; `session` and `children` are an `SshSession`; `process` is the exec
channel of the call. `answers`, `accepted`, `dispatched` and `recorded` are history.

The order inside the code is kept: `PrepareTool` counts the iteration, classifies and registers
in one step; `ConsumeAndAnnounce` consumes the authority before `tool_started` is put into the
queue; only `Dispatch` looks at the session again; `WaitFails` is checked in the order
cancellation, session, decision. `Decide` is one step because `decide_approval` has no await; a
decision that finds the session lost is accepted and then invalidated, and the client is told
INACTIVE. `CloseConfirmed` and `CloseFails` are the outcomes of `_close_indeterminate_process`.

Left out: parallel tool calls (the code refuses them with a failure message: the `refused`
branch of `PrepareTool`), command classification (a nondeterministic choice), the text of
outputs, the `frame budget` beyond `PublishFails`. Decisions name an approval only after its
frame was offered; a request for an unknown ID changes nothing.

### ManualSftpUpload

One upload, `Requests` handlers that may be in progress at once, the server, another client.
`task[r]` is the await of a handler with what it remembers across it; `active` and `state` are
`UploadManager._active` and the `_UploadState`; `record` is the state of the durable
`RemoteOperationRecord`; `temp`, `content`, `target` are the remote directory. A remote request
is one action (the server executes it and the handler has its answer) and what the handler does
with the answer is the next, so every check-then-act of the code has its window.

Assumptions: one `begin` per operation ID (the frontend draws a fresh UUID); a chunk has length
one, so sequence and offset agree; the server executes the requests of one channel in order
(`behind`, `MayRemove`); a failed write leaves nothing or the whole chunk; `rename` without
overwrite refuses an existing target (the code's own comment, `transfers.py:347-349`); what another client or an earlier
file leaves at the target differs from the source; at most one restart.

Left out: the hash as a number (a snapshot either matches or not), the read-only preflight, the
recovery of recursive deletes (`RecursiveDelete`).

### ConversationTurns

One action is one transaction with what the task does up to its next await. `conversation`,
`runs`, `messages`, `summaries` are the tables, each the set of its rows; `order` is
`ORDER BY started_at, agent_run_id` over all Runs there ever were, of which a query sees those in `runs`;
`queue` holds, for every user message and every conversation, the holder and the waiters of its
`asyncio.Lock`; `call[c]` is the await of a request with what it read before it (the previous
attempt and its status, the snapshot the compaction works on).

| Action | Code |
|---|---|
| `SubmitTurn` | `run_turn` up to the lock of the user message |
| `OpenConversation`, `FindAttempt` | the first transaction of `_run_turn`, then the wait for the conversation lock |
| `BeginTurn` | the second transaction: `remove_last_turn`, `start_run` |
| `Conflict`, `Refuse` | what those refuse; a validation that fails, a request cancelled at a lock |
| `LoadTurn` | `load_context`: repair, user message, summaries |
| `KeepSummaries`, `AppendSummary` | `compact`, `commit_candidate` |
| `CallModel`, `CheckLimit`, `RecordResults`, `Finish`, `Fail` | the graph and the end of `run_turn` |
| `RequestDelete`, `DeleteConversation` | `delete_conversation`, before and under the lock |
| `FailUnrecorded`, `Restart` | the finishing transaction fails; the process is restarted |

Left out: message text and attachments (a retry with another text or other images is refused by
`Refuse`), the token estimate (whether the threshold is reached is a free choice between
`KeepSummaries` and `AppendSummary`), the three attempts at a summary (they change nothing),
CANCELLED as a status of its own (FAILED stands for it), summaries of older databases whose first
revision is above 1. The results of all calls of one AI message are one message, because one
transaction appends them.

`NoCircularWait` is the safety side of the two locks: while the process runs, either nobody has
a request open or some task can go on. `_run_turn` takes the lock of the user message before that of the
conversation and `delete_conversation` takes only the latter, so no two wait for each other.

### ModelStreaming

One turn calls the model for a summary, when its context has to be compacted, and then once per iteration.
`phase` is the await at which the worker and the task of the attempt are suspended; `client` is the
`AsyncOpenAI` of the call, `stream` the stream of the attempt (`cut`: its close was cancelled, so it is
no longer ours); `invocation` is `_InvocationState`; `output` is `_ResponsesOutput` or the accumulated Chat
message, and `ids` the IDs its items were told; `pending` is the snapshot `_publish_snapshot` still sends; `shown`
is `streamed_text` of the sink, which is what the client has. `said`, `base`, `lost`, `taskCancel` are history.

| Action | Code |
|---|---|
| `Invoke`, `ClientClosed` | `ModelGateway.invoke` and `summarize_once` with their `_close_on_exit`; what graph, compactor and service do with the result |
| `Opened`, `ProviderFails`, `StreamEnds`, `StreamClosed` | `_invoke_responses`, `_invoke_chat_completions` around their stream |
| `Announces`, `Delta`, `Revises`, `Terminates` | the events of both parsers; `Slot` is how an event finds its item |
| `FrameEnters`, `FrameRefused`, `Abandoned` | the frames of `_publish_snapshot` |
| `Settles`, `BackoffEnds` | `_invoke_attempts` and the attempts of the compactor |
| `DeadlineHits` | `asyncio.timeout` of the summary |
| `Cancel`, `CancelObserved`, `TaskCancelled` | the dispatcher's event and `Task.cancel`, in `_await_with_cancellation` and while closing |

The Provider is external: it may say anything in any order that its naming (`wire`) allows, stop at any
point and fail at any point. A naming that could not tell two interleaved items apart is not used for
interleaved items: events without ID or index belong to the last item, and a Chat stream has one text.
`said` keeps, item by item, what the Provider said in the attempt, and `PersistedIsSaid` compares it with
the message that enters the conversation, which went through the slots.

What the model showed and the properties allow for by name:

* `_close_on_exit` awaits the close of a client in a `finally` and drops an exception of that close when the
  call has failed already, a `CancelledError` too. If it comes from `aclose` of a disconnected stream while
  the client of a failed summary attempt is closed, the compactor goes on and asks the Provider again for a
  client that is gone; the next publication ends the turn. `CancelEnds` excludes that cancellation (`lost`),
  and no other.
* a final message without text publishes nothing, so after a commentary of an earlier iteration
  `streamed_text` is still the commentary and the Run fails as MODEL_RESPONSE_INVALID (`agent/service.py:263`).
  `AnswerIsShown` speaks of messages with text.
* a main stream that ends without a terminal event is accepted; a summary is not.

Left out: serialization of requests, reasoning items, token usage, which fields of an error are logged, the
content of JSON (the arguments of a call are complete or not).

### RecursiveDelete

One recursive delete and one recovery mutation for it. `Requests` handlers may be in progress at
once, with no lock between them; `task[r]` is the await of a handler. `plan`, `record` and
`bound` are the durable plan, the durable record and `MutationManager._delete_plans`; `dir` is
the directory at each of three places: the root, the tombstone of the delete, and the tombstone
of a recovery that deletes the tombstone. `pending` holds renames without an answer that the
server may still execute, also after a restart.

| Action | Code |
|---|---|
| `RequestPreflight`, `Scan` | `delete_preflight`: manifest, plan, record, binding |
| `RequestExecute`, `Check...`, `Isolate...` | `delete_execute` up to the rename, and the outcomes of the rename |
| `Rescan`, `NeedsCleanup`, `RemoveEntry`, `RemoveDirectory`, `Verify...` | comparison, removal bottom up, the last look |
| `RequestContinue`, `RequestRestore`, `ResolveOld` | `RecoveryManager.execute` |
| `Compare`, `Restore...` | `MutationManager.rename` without overwrite |
| `RequestInspect`, `InspectRoot`, `InspectTombstone` | `RecoveryManager.inspect` |
| `LateRename`, `LateRestore`, `AddEntry`, `RecreateRoot`, `Restart` | the server, another client, the process |

History variables name what the code does not guard against, and the two invariants on records
exclude exactly these: `overlapped` (the loser of two executions writes `failed` while the winner
removes), `late` (an inspection closes the record of a plan that was not executed yet, and the plan
stays executable; a rename is executed after its record was closed), `unverified` (the last look
times out after everything was removed, and the record says `failed`), `recreated` (an inspection
does not compare the root with the planned one). `ConfirmedOnly` holds with all of them, but for
an empty directory under overlap.

Left out: `mkdir`, `rename` and `remove` of the user, links and nested directories (the removal
order bottom up is the entries before the directory), recovering a recovery, the size limit of a
manifest, the crash between the two transactions of `_finalize_delete_plan` (the binding is lost
with the process, so the plan cannot be executed again).

### DesktopTerminal

`runtime` is the phase of `RuntimeOwner` and of `RuntimeResources.shutdown`; `connected`,
`inbound`, `outbound` are the gateway (`web/websocket.py`), `conn` the endpoint of each
connection with the answer `_process` has in hand; `pty[p]` is a `_PtyState` with its readers,
its monitor, its channel and its `close` (`terminal/manager.py`); `session` and `transport` are an
`SshSession` while `SshSessionRegistry.close` works on it. `taken`, `written`, `messages` are history.

| Action | Code |
|---|---|
| `Claim`, `Receive`, `Process`, `Reply`, `Take`, `End`, `Release` | `claim`, the three tasks of `run`, the end of the first of them, `release` |
| `RequestOpen`, `Opened`, `OpenFails` | `PtyManager.open` before and after its await |
| `Read`, `Put`, `ReadEnds` | `_read_stream`: the number is drawn before the queue is awaited |
| `Drained`, `PublishClosed`, `MonitorRaises` | `_monitor` and its `finally` |
| `RequestClose`, `CloseByForce`, `CloseReturns` | `PtyManager.close` |
| `RequestDisconnect`, `Announce`, `CloseTarget`, `Disconnected` | `SshRuntime.disconnect` with its two events, `SshSessionRegistry.close` |
| `Exit`, `Shutdown`, `CloseNext`, `CloseSessions`, `Stop` | the server that exits, `RuntimeOwner.shutdown`, `PtyManager.close_all`, `SshRuntime.close_all` |

A put into a full queue is two steps, because `asyncio.Queue.put` lets a newcomer overtake a waiter
that was woken. `OutputIntact` holds nevertheless for each stream alone. `AckIsTrue` says that a
result that is on its way tells what the terminal did, although the terminal may have closed and
another desktop may read it. `ShutdownConverges` excludes a full queue: then readers, monitors
and the CLOSING event wait for a desktop that no longer comes.

Left out: `resize` (it changes nothing that is kept), pings, the text of output, initialization and
the database's close, the launcher.

### SshProfiles and SshConnections

`SshProfiles` is the database: `profile` (rows of `connection_profiles`), `credentials`, `hostKey`
(the active key and the replaced ones), `retired` (identifiers are random, so never drawn twice);
`confirmed` is history. Each action is one write transaction: `Create`, `Update`, `Delete`,
`TrustFirst`, `Replace`. The random identifier of a credential is modelled by what made it: owner,
version of the profile, kind.

`SshConnections` extends it. `call[a]` is one request to inspect or to connect and the session it
registers; `server` is the key each endpoint presents; `dialogs` is what the user was shown. A call
reads profiles, credentials and trusted keys before its first await, in one step (`Begin`), and works
with that snapshot: whatever is edited meanwhile.

| Action | Code |
|---|---|
| `Begin` | `CredentialService` resolves profile and jump, `SshRuntime` reads the trusted keys and chooses whom to contact |
| `JumpOpens`, `TargetOpens` | `_open_verified`, `SshSessionRegistry.register` |
| `Mismatch`, `AuthenticationFails`, `NetworkFails`, `TunnelRefused` | the errors of `connect`; a network error is retried once, from the jump on |
| `Inspected`, `InspectionFails` | `inspect_host_key` |
| `Disconnect` | `disconnect` |
| `ConfirmShown`, `Dismiss`, `EditProfiles`, `ServerChanges` | the user and the servers |

`TunnelRefused` leaves the jump open for good: AsyncSSH raises `ChannelOpenError`, which is neither of
the errors that `connect` and `_connect_via_proxy` catch. `ConnectionsOwned` names that exception
(`tunnelRefused`) and excludes nothing else.

Left out: the ConnectionStatus events (those of a disconnect are in `DesktopTerminal`), encryption of
what the desktop sends, migrations, provider and API configurations.

### ManualSftpReads

`call[c]` is one request with the await it is at; `lease[l]` an `SftpChannelLease` with the state it
serves, a `_DownloadState` or a listing cursor with its iterator; `active` and `finalized` are those
of `DownloadManager`; `file` counts the versions of the remote file, `directory` is the size of the
remote directory. `delivered`, `batches`, `succeeded` are history.

| Action | Code |
|---|---|
| `Opens`, `ChannelOpens`, `ChannelFails`, `CloseEnds`, `CloseRaises` | `SftpChannelFactory.open`, `SftpChannelLease.close` |
| `BeginDownload`, `SourceRead`, `SourceHashed`, `HandleOpens`, `BeginFails` | `DownloadManager.begin` with `_snapshot` |
| `ReadChunk`, `ChunkArrives`, `ReadTimesOut`, `ReadFails` | `read_chunk` and the route's check of the sequence number |
| `Finish`, `FinishReads`, `Abort` | `finish`, `abort`, `_close_download` |
| `BeginListing`, `NextBatch`, `BatchArrives`, `BatchFails`, `CloseListing` | `ListingManager` |
| `Ask`, `Answered` | `open`, `lstat`, `readlink`, `sha256` of the service |
| `Stop`, `CloseAll`, `SessionCloses`, `ConnectionCloses`, `FileChanges` | shutdown, the session, another client |

Three facts the model shows and the properties allow for: a finish that overlaps an abort can be
answered `succeeded` while the abort is answered `cancelled` (both true: everything was delivered);
a listing that has come to its end can be asked again while its last batch still closes the channel: the
second answer is an empty last batch, which `ListingIsWhole` admits because it is at the end; `begin` looks the
identifier up before its awaits and registers after them, so two downloads with one identifier lose one channel until
the session ends (`Contested`, excepted in `ChannelsOwned` by name).

Left out: sorting and projection of entries, parsing of requests, the upload routes
(`ManualSftpUpload`), `mkdir`, `rename` and `remove` of the user.

## Runs

| Run | Instance | What it shows |
|---|---|---|
| `agent_turn_stream` | 2 sessions, 2 request IDs, capacity 1, queue 1, room for one event frame | the invariants of the stream and the refinement `OutcomeContract`; about 2.8 million states |
| `agent_turn_convergence` | the same sessions, capacity 2, no event frame fits | with fairness, shutdown and disconnect converge (`TurnsConverge`); about 0.8 million states |
| `agent_approval` | 1 Run, 2 calls, 1 session | authority, at-most-once dispatch, truthful tool messages, nothing left behind, `RunsConverge`; about 0.4 million states |
| `manual_sftp_upload` | 2 concurrent handlers, a source of 2 equal chunks | `OutcomeIsTrue` (atomic commit, honest answers), no blind overwrite, nothing left behind; about 1.8 million states |
| `manual_sftp_reads` | 2 requests, 1 download ID, 2 channels, a file of 2 chunks rewritten once, up to 4 entries where 3 are allowed, listed by 2 | a download is its frozen source, a listing is whole, channels are owned; about 1.4 million states |
| `conversation_turns` | 3 requests, 2 conversations, 1 user message ID beside messages without one, 1 tool iteration, 1 fault | `HistoryIsSound` (paired tool calls, one turn per message, loadable summaries), `NoCircularWait`, only the last turn replaced; about 1 million states |
| `model_streaming` | 2 kinds of text, frames of 1 piece, 2 pieces of text, 2 items, calls of 2 fragments, 2 attempts, 2 attempts at a summary, 1 iteration | the client sees the answer, what is persisted was said completely, streams and clients are closed, and with fairness a cancelled turn ends; about 0.6 million states |
| `recursive_delete` | 2 concurrent handlers, a directory of 2 entries, 1 foreign entry, 1 restart | only what was planned is removed, `RecordsAreTrue` (an isolated directory stays listed, records are truthful); about 1.4 million states |
| `desktop_terminal` | 2 desktops in turn, 1 terminal, a queue of 1, 2 chunks, 1 input | output intact, acknowledgements true, nothing left open, and with fairness the exit converges; about 0.7 million states |
| `ssh_connections` | 2 profiles, 1 endpoint, 2 keys, private keys only, 2 versions, 1 call, 2 dialogs | verified sessions, owned connections and credentials, trust as shown; about 1.6 million states |
| `manual_sftp_abort_race` | as `manual_sftp_upload` | expected violation: `abort` of a commit reports `cancelled` |
| `pty_output_order` | 1 desktop, 1 terminal, a queue of 1, 3 chunks, no input | expected violation: output is published out of the order of its numbers |

Why the bounds are enough. A slot, a queue place and the last bytes of the budget are contended
as soon as there are two who want them and room for one; two sessions of one conversation are
two parties at its lock and, under the same or two request IDs, at the dispatcher. In the
convergence run capacity 2 lets both turns reach the lock. Two calls of one Run are enough for
an approval to be confused with, or to survive into, the next; different Runs share nothing but
the session. Two equal chunks are the smallest source for which a chunk written twice has the
right length and the right stream hash but the wrong file. Two overlapping handlers cover every
pair of upload operations and recovery operations, and of a delete and its recovery; two entries
let a removal stop halfway. Three requests on a conversation are a turn, a
later turn whose summary covers the first, and a retry or deletion that meets both; with 40 %
retained, two message units are enough for a prefix to compact. Messages without an ID are other
user messages that no lock orders. `ClockAdvances` is an assumption on the host: `started_at` is
the wall clock (see below for what depends on it). For the terminal, one queue place is contended by
two readers, the monitor, the answer to an input and the disconnect; a second desktop inherits what the
first left. For the connections, two profiles are a target and its jump, two keys a trusted and a
changed one, two versions a snapshot and an edit behind it, and two dialogs one that was overtaken by
the other; the other kind of authentication and more calls at a time are covered by the proofs. For
the reads, two calls meet on one download or one listing, and four entries are one more than allowed. For
the model calls, a text of two pieces takes two frames, so a cancellation or a failure finds it half shown;
two items interleave; two fragments can be cut in the middle; one iteration makes a second call find the
text of the first.
`CHECK_DEADLOCK FALSE`: each of these systems really stops when its requests are done.

### Fairness

* `agent_turn_convergence` assumes weak fairness of `Converge`, the resumption of a worker once
  what it awaits has fired (an event that is set, a delivered cancellation, a lock that is free):
  the event loop runs ready tasks in FIFO order. `GraphCancelled` and `UnwindEnds` stand for code
  that listens to the cancellation; where the executor has to close a remote channel
  (`wait_closed`) this assumes that the transport answers or breaks. Nothing is assumed of the
  model, the client or the remote host while a turn runs undisturbed.
* `agent_approval` is stricter about the remote side: `create_process` and `wait_closed` have no
  timeout in the code, so there is no fairness for them, and `CancellationConverges` ends in
  `creating` or `closing` as well. The command itself has the 30 s timeout, which justifies the
  fairness of `CommandInterrupted`. No decision is ever assumed to come.
* `model_streaming` assumes weak fairness of what the process does by itself: a cancellation that is due is
  delivered (`CancelObserved`), the worker resumes (`Settles`, `Invoke`), the close of a stream or of a
  client ends (`StreamClosed`, `ClientClosed`: a local close of the HTTP response and of the connection
  pool). Nothing is assumed of the Provider, of the consumer of the frames, or of a timeout.
* `desktop_terminal` assumes weak fairness of the tasks of each PTY and of the steps of disconnect and
  shutdown (ready tasks run), of the answer to an open, of the end of a channel that was closed by
  force or with its session, and of the server closing the WebSocket once it exits. The remote process
  need not end by itself, and the desktop is not relied upon at all: not to read, not to leave.
* `conversation_turns` (where `NoCircularWait` is an invariant), `manual_sftp_upload`, `manual_sftp_reads`, `recursive_delete` and
  `ssh_connections` check safety only and assume no fairness.

### Expected violations

* `CancelledIsNotCommitted`: `UploadManager.abort` promises not to commit. If the finish is
  waiting for its rename, the abort's removal is served after it, finds nothing and counts that
  as success. `SequentialFailureIsHonest` is the part that does hold.
* `OutputInOrder`: the docstring of `_read_stream` promises ordered events, and the desktop fails a
  terminal whose numbers are not consecutive. The readers draw from one counter and then wait for the
  queue separately. `OutputIntact` is the part that does hold.

Both are listed under `findings` with the lines they contradict.

Three more disagreements were met and have a configuration, but no run of their own:

* `ManualSftpInspectRace.cfg` (`MCManualSftpUpload`): `ReconcilesNonTerminal` is violated.
  `_persist_reconciled_terminal` promises to replace non-terminal records; it writes a copy of the
  record that was read before two remote awaits.
* `ConversationClock.cfg` (`MCConversationTurns`): `OnlyLastTurnIsReplaced` is violated when
  `ClockAdvances = FALSE`. The comment in `remove_last_turn` allows only the last ended turn to be
  replaced, but the last one is found by the wall clock.
* `SshJumpChain.cfg` (`MCSshConnections`): `SingleHop` is violated. `_validate_proxy` looks at the
  jump of the profile being saved and not at the profiles that already jump through it, so a jump can
  be given a jump afterwards; `connect` then refuses (`OneHop`), so no session is affected.

## Proofs

`AgentTurnStreamProofs` proves, for every set of sessions, every capacity, queue length and byte
limit that satisfies `LimitsAssumption`:

* `Invariance`: `Spec => []IInv`;
* `TypeCorrect`, `SlotsExact`, `ContiguousFrames`, `UndisturbedReported`, `NoOrphan`, `OneRun`:
  the invariants of the two runs (`RunsAlwaysOwned` joins the last two as
  `RunsAreOwned`);
* `Implements`: `Spec => OutcomeContract`, step by step under the refinement mapping `Told`.

`LimitsAssumption` is what the constants of the code satisfy: the limits are positive, a frame
fits into the reserve, a frame and the reserve fit into the body.

Why a strengthening is needed: none of the invariants is inductive alone. `NoOrphanRun` speaks of
workers that are done, so `RunInv` ties the durable status to every phase before. A terminal
frame fits only because every frame before it left the reserve (`BudgetInv`). That queued frames
are contiguous needs the counter of the publisher in every phase, with the exception of
`enqueued`, where the frame is in the queue and the counter has not moved (`SequenceInv`); and it
needs that a session that has not started has an untouched queue (`ClientInv`). `Implements` needs
that a frame on its way reports what is durable (`FrameInv`): a Run that is terminal never
changes, so a frame cannot become false while it waits. `OneRunPerConversation` follows from
mutual exclusion of the lock (`LockInv`) and `RunInv`. Each conjunct has its lemma
(`TypeStep`, `RunStep`, ...) with one step per group of actions; `NextPreserves` joins them.

`AgentApprovalProofs` proves, for every set of Runs, every assignment of them to sessions and every
limit of iterations (`ReactAssumption` asks no more than that these are a function and a natural
number):

* `ApprovalInvariance`: `Spec => []IInv`;
* `ApprovalTyped`, `EveryCommandRunsOnce` and `EveryToolMessageIsTrue` (joined by `EveryCallHistoryIsTrue`),
  `NothingIsEverLeftBehind`: the invariants of the run;
* `ApprovalIsTheOnlyAuthority`: `Spec => AuthorityContract`; every step is one of `ApprovalAuthority`,
  or leaves the authority of every approval as it is.

The strengthening ties the registry to what clients were told and to what was dispatched. `Asked`: of a
call that was not made yet nothing is registered, answered, dispatched or recorded, so `PrepareTool`
finds a clean approval. `Entered`: an entry without a decision, or with a rejection, stands for a
command that was not dispatched, and a client is told REJECTED exactly while the entry says so, unless
the entry was withdrawn before the answer. `Called`: the phase of the worker determines how often its
call was dispatched, which makes `CommandRunsOnce` and `ToolMessageIsTrue` inductive. `Announced` is
what the refinement needs and the code does not check again: between `consume` and `create_process`
the entry stays approved, and it is withdrawn only by a decision that found the session gone, which
`Dispatch` looks at. The lemmas follow the parties (`CallStep` for the worker, `ApprovalStep` for its
approvals, `DecideStep` for clients, `SessionKeeps` for the session).

`ManualSftpUploadProofs` proves, for every source that is a sequence of chunks (`SourceAssumption`) and
every set of requests in progress at a time:

* `UploadInvariance`: `Spec => []IInv`;
* `UploadTyped`, `OutcomesAreTrue`, `NothingStaysBehind`, `NeverOverwritesBlindly`: the three invariants
  and the action property of the run.

The code holds no lock, so the strengthening says what each waiting handler may still rely on. `BeginInv`:
before `begin` nothing happened, and nothing but recovery runs beside it, for the record is durable and
the operation not yet active; so the exclusive open meets no rename and no handle. `Sealed`: a handler
that closed the handle for good works on a file no write can change (a write needs the open handle, and
it is opened once), so what was hashed is what is renamed, whatever runs in between; `SealInv` extends it
to a rename nobody waits for any more, which makes `CommitIsComplete` and `SuccessIsCommitted` inductive.
`SequentialInv` is the same without overlap: the handler that cleans up is the only one, and the upload
it took out of `_active` was not renamed. `Searched`: a handler that is about to make the record terminal
without listing it knows that the file is gone and that no open can create it any more, or the history
variable `unseen` says why not; `ResidueInv` is `ResidueIsListed` without its condition that nobody works.
`WriteInv` (a write that waits is in the file) is what keeps the position within the file. The lemmas
follow the parts of the code (`SealWriting`, `SealFinishing`, ...), one per conjunct and group of actions.

`SshProofs` proves, for every set of connections, endpoints, keys and
calls, both kinds of authentication, every last version and every number of dialogs:

* `CredentialsAreOwned`, `TrustIsAlwaysConfirmed`, `JumpsAlwaysExist` for `ProfilesSpec`, from
  `ProfilesInv` (types and these three; none is inductive alone: that an update drops exactly what it
  must needs that the old credentials belong to no other profile, which is `OwnCredentials`);
* `ConnectionsImplementProfiles`: every step of `SshConnections` is one of `SshProfiles` or leaves the
  database alone, so the former hold of it as well;
* `ConnectionsTyped`, `SessionsAreVerified`, `ConnectionsAreOwned`, `TrustAlwaysMovesAsShown` for `Spec`,
  from `ConnectionsInv`. A session is verified only because the call it comes from was: `Grounded` says
  of every call that the keys it works with were confirmed (when it began; confirmations are never
  forgotten), and that its snapshots are still what the rows are if these have the version of the
  snapshot. That needs that a version never comes twice, which is why `retired` is part of the state.
  `Progressed` says for each await which of the two connections is open and which key was seen.

The assumptions are `ProfilesAssumption` and `DialogsAssumption`: `None` is no name, at most the two kinds of
authentication the code has, and natural bounds.

`ModelStreamingProofs` proves, for every set of pieces, every length of a frame and of the arguments of
a call, every number of items, attempts and iterations: `StreamingTypeCorrect`, `ClientAlwaysSeesTheAnswer`,
`PersistedIsAlwaysSaid` and `ProviderIsAlwaysReleased`. The invariant `IInv` rests on `Merged`: the items of the
parser are those the Provider spoke of, in its order. `SlotIsItem` is the lemma behind it: for each of the four
namings the slot that `Slot` finds for an event of item `n` is `n`, provided the events keep to what the naming
can tell apart (the guards of `Announces`, `Delta` and `Revises`). `Kept` carries an accepted result through the
closing of its stream and client to the message, `Released` names for every phase what may be open. `Visible`
is `AnswerIsShown` on its way: while nothing is being published the text of the output is what is shown; while
a snapshot is, what is shown and the rest of the snapshot are the text, or the rest alone is if it replaces what
is there (`PublishShows`, `FrameShows`). `Bounded` and `Worded` are the types; that the text of an output is text
needs what `FlattenSeq` computes, which `FlattenTyped` shows without an induction theorem: the least length
for which it failed (`LeastExists`) would follow one for which it holds.

`ManualSftpReadsProofs` proves, for every set of requests and identifiers, every number of channels, size of
the file, of a batch and of the directory, and every number of rewrites, `ReadsTyped`, `ReadsAreAlwaysTrue` and
`ChannelsAreOwned`. The invariant is stated channel by channel. `Alone`: until a read has begun, the request
that opened the channel is the only one that knows it. `Delivers`: as long as the chunks that were hashed are
those of the file in its order, each was let through under its number, the handle stands behind the last one,
and every read names the chunk that it reads; two reads of the same chunk break the order, and then nothing is
claimed, for the digest can no longer be that of the snapshot. `Wholes` carries the comparison of the digest
from `finish` to its answer: everything was delivered, and the number of a late read is below the number of
chunks that were hashed, so that the route no longer lets it through. `Iterates`: one request at a time is in the iterator, which a failed batch closes
for good. `Chained` is `ListingIsWhole` with the last batch that is still to be returned when the channel is
closed, and `Headed` says where a listing that may go on stands, which is what the next batch is chained to.
`Owned` is `ChannelsOwned` with the requests that will in fact close the channel or hand it on: that a request
merely works with a channel, which the property allows, would not survive its error. A step touches one request
and one channel (`Local`); `SafeElsewhere` and `OwnedElsewhere` are the lemmas that leave the others alone.
`ReadsAssumption` asks for natural bounds, a batch of at least one entry, and a `None` that is neither an
identifier nor a number of a channel.

`RecursiveDeleteProofs` proves, for every set of requests and every set of entries in the directory (the
only assumption is that the entry another client adds is not one of them): `DeleteTypeCorrect`,
`DeleteRecordsAreTrue` and the action property `DeleteRemovesConfirmedOnly`. The invariant `DeleteInv` has
layers, for the code guarantees less the more goes wrong. Always: a rename that is still under way at the
server belongs to an operation no session can execute again (`SentOnce`), the user's directory is at one
place and whole until it leaves the root (`OneDirectory`), a handler that removes keeps to the entries of its
plan (`PlannedRest`); with the second scan this is all that `ConfirmedOnly` needs. Without two handlers at
once (not `overlapped`), `Order` says how far the directory, the binding and the records may be apart
between two steps of the only handler. Without a late rename as well (not `late`), `Story` is
`RecordsAreTrue` with what each handler knows that is about to write a record (`Knows`).

`ConversationTurnsProofs` proves, for every set of requests, conversations and messages, every limit of
iterations, retained share and number of faults: `TurnsTypeCorrect` and `NobodyEverWaitsInACircle`, and for a
clock that advances `HistoryAlwaysSound` and `OnlyLastTurnEverReplaced`. The invariant has two layers. `RunsInv` holds whatever the clock does: every turn
that executes holds the lock of its conversation and of its message (`LocksHeld`), what a retry has read of
the newest attempt under the lock of the message is still so when it has waited for the conversation
(`Attempting`: no other request can have started an attempt, and who runs one holds the same lock), and all
attempts at a message are in one conversation. `HistoryInv` needs a clock that advances
(`ConversationClock.cfg` shows what happens otherwise): the messages of a history are in the order of their
Runs and of all attempts only the newest has any (`ByRun`), a turn that executes is the newest of its
conversation, and where it stands says whether the history ends in a call (`Working`). The argument is that
what a retry removes, the messages of one Run, is then a tail (`NewestIsTail`), that a prefix of a counted
and paired history is one (`FirstMessages`), and that the summaries that go are the last ones too, while
every other summary keeps its boundary and the user message behind it (`WithoutNewest`). An appended row
keeps all of this because the turn before it says so (`AppendedHistory`, `RowAppended`).
`ConversationAssumption` asks that the identities are disjoint, that the retained share is a percentage
between 1 and 99, and for natural bounds. The proofs need no induction over a history: a set of natural
numbers has a least element (`Least`), which gives the first message of a Run.

`NobodyEverWaitsInACircle` is what `NoCircularWait` says of the locks, without ENABLED: in every set of
requests that wait for a lock, one stands behind a request in progress that is not in the set. It needs a
second invariant, `QueuesInv`: who stands in a queue stands there once and is on its way to work with what the
queue is about (`Claims`), so a lock that is given back is given back wholly (`RemovedOnce`) and nobody who has
been answered is left in front of others. Then the holder of a conversation waits for no lock, because it has
that of its message already (`HolderMoves`, from `LocksHeld`), and a holder of a message that waits can only
wait for a conversation (`NoCircle`).

`SshProofs` also proves, for every set of terminals, number of desktops, capacity of the queue, number of
outputs and inputs: `TerminalTypeCorrect`, `TerminalsAreTrue` and `NothingStaysOpen`. `Flow` is `OutputIntact`
with what the next step needs: a chunk that a reader holds is behind all that was told of its stream, and the
end is told only of a terminal whose monitor is done. The lemmas follow what is told: an output (`FlowOutput`),
a number that is drawn and waits (`FlowHeld`), the end (`FlowClosed`), and messages about others that are put or
taken (`FlowMoves`: the places of a terminal move, their order does not). `Sane` is what holds of a terminal
alone: two readers never hold the same number, and a terminal is `CLOSED` only when both have drained.
`InputsInOrder` proves the acknowledgements: what was written or answered was sent before everything still in
the queue (`Behind`), so no answer that is on its way can become false by a later write. `ExitInOrder` says phase by phase
what the exit has closed: after a shutdown that did not fail, whatever is listed is still to be closed, closing
or closed, which is why the sessions are closed with no terminal listed. The assumption is `LimitsAssumption` of
`DesktopTerminal`: natural bounds and a queue of at least one place.

Only model-checked: the liveness properties `TurnsConverge`, `RunsConverge`, `CancelEnds` and
`ShutdownConverges` (fairness is out of the prover's reach), of `NoCircularWait` that a request which waits for
no lock has an action to take (it is stated with ENABLED, which is out of reach too; the rest of it is
`NobodyEverWaitsInACircle`), and that no sequence of steps deadlocks where the runs look for it.

## Plan

1. `AgentTurnStream`, with proofs: done.
2. `AgentApproval`, with proofs: done.
3. `ManualSftpUpload`, with proofs: done.
4. `ModelStreaming`, with proofs: done.
5. `ConversationTurns`, with proofs: done (the ENABLED part of `NoCircularWait` stays with TLC).
6. `RecursiveDelete` with its recovery, with proofs: done.
7. `DesktopTerminal`, with proofs: done (`ShutdownConverges` stays with TLC).
8. Lifecycle: the exit of a ready runtime is in `DesktopTerminal`; initialization and the launcher's
   grace and kill are left.
9. `SshProfiles` and `SshConnections`, with proofs: done.
10. `ManualSftpReads`, with proofs: done. `mkdir`, `rename` and `remove` of the user are left.
11. Context: the token budget as operators against a reference definition.
12. Frontend: the Agent reducer against the frames of the stream, the transfer coordinator, the
    terminal output buffer.

## Not modelled

* Of the model gateway: how a request is serialized, reasoning items, usage, which fields of an error are
  safe to log. `AgentApproval` and `ConversationTurns` keep the call of the model as one step that answers,
  fails or is cancelled; `ModelStreaming` is that step in detail and does not repeat approvals.
* `mkdir`, `rename` and `remove` of the user: one request each. A time-out of the metadata request leaves
  the record of a `remove` as it was prepared, to be inspected like the others.
* Initialization of the runtime (it fails as a whole before it is ready) and the launcher.
* The frontend: TypeScript state outside the backend. What it requires of the backend is used as a
  property (`FramesContiguous`, `OutputInOrder`).
* Wording, logging and layout; request parsing and schemas; SQLite itself (a transaction is a step);
  cryptography of credentials; packaging and installers; the user interface.
