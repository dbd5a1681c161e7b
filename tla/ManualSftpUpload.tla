-------------------------- MODULE ManualSftpUpload --------------------------
(***************************************************************************)
(* One manual SFTP upload (UploadManager) and the recovery of what it may   *)
(* leave behind (RecoveryManager, the branches of an upload).  The handlers *)
(* of HTTP requests share one event loop and nothing else: no lock is held  *)
(* from one await to the next, so the requests that name the operation meet *)
(* in _UploadState, in the durable record and in the remote directory.      *)
(*                                                                          *)
(* The remote server answers the requests of one SFTP channel in the order  *)
(* they were sent.  A remote request is one action of its own (the server   *)
(* executes it, task keeps the answer), what the handler does with the      *)
(* answer is the next one.  A chunk has length one, so that sequence and    *)
(* offset are one number.                                                   *)
(***************************************************************************)
EXTENDS Naturals, Sequences

CONSTANTS
  Requests,   \* HTTP requests in progress at a time
  Chunks,     \* what a chunk may hold
  Source      \* the frozen local source, a sequence of chunks

ASSUME SourceAssumption == Source \in Seq(Chunks)

TERMINAL_STATES == {"succeeded", "failed", "cancelled"}
RecordStates == TERMINAL_STATES \cup
  {"preparing", "transferring", "verifying", "committing", "cleanup_required",
   "outcome_unknown"}

\* What the target path may hold.
Targets == {"absent", "old", "other", "upload"}

\* Where a handler is suspended, with what it remembers.
Waiting == {"idle", "opening", "preparing", "created", "closingHandle", "hashing",
            "renamed", "refused", "inspecting", "missing", "resolving"}
Task    == [pc : Waiting]
           \cup [pc : {"snapshot", "rechecked", "inspected"}, seen : Targets]
           \cup [pc : {"hashed"}, match : BOOLEAN]
           \cup [pc : {"renaming"}, behind : SUBSET Requests]
           \cup [pc : {"writing"}, chunk : Chunks, offset : Nat]
           \cup [pc : {"cleaning", "removing", "releasing"},
                 receipt : {"failed", "cancelled"}, clean : BOOLEAN]
           \cup [pc : {"comparing", "deleting"}, sample : Seq(Chunks)]

VARIABLES
  task,        \* the handlers, by request
  began,       \* the client has sent its begin request
  active,      \* the operation is in UploadManager._active
  state,       \* the _UploadState: digest, expected offset, handle, lease
  frozen,      \* target_snapshot
  record,      \* state of the RemoteOperationRecord, or "none"
  temp,        \* the temporary path exists
  content,     \* what was written to the temporary file
  target,      \* what the target path holds
  stray,       \* a rename nobody waits for may still be executed
  committed,   \* the rename was executed (history)
  told,        \* the outcomes reported by the upload's requests (history)
  overlapped,  \* two requests were in progress at once (history)
  unseen,      \* begin, or an inspection during begin, missed the file (history)
  restarted    \* the process was restarted (history, at most once)

remoteVars  == <<temp, content, target, stray, committed>>
historyVars == <<told, unseen>>
vars == <<remoteVars, historyVars, task, began, active, state, frozen, record,
          overlapped, restarted>>

TypeOK ==
  /\ task \in [Requests -> Task]
  /\ began \in BOOLEAN /\ active \in BOOLEAN
  /\ state \in [digest : Seq(Chunks), offset : Nat, position : Nat,
                handle : BOOLEAN, lease : BOOLEAN]
  /\ frozen \in {"absent", "old", "other"}
  /\ record \in RecordStates \cup {"none"}
  /\ temp \in BOOLEAN
  /\ content \in Seq(Chunks)
  /\ Len(state.digest) = state.offset /\ state.position <= Len(content)
  /\ target \in Targets
  /\ stray \in BOOLEAN /\ committed \in BOOLEAN
  /\ told \in SUBSET (TERMINAL_STATES \cup {"cleanup_required", "outcome_unknown"})
  /\ overlapped \in BOOLEAN /\ unseen \in BOOLEAN /\ restarted \in BOOLEAN

Init ==
  /\ task = [r \in Requests |-> [pc |-> "idle"]]
  /\ began = FALSE /\ active = FALSE
  /\ state = [digest |-> <<>>, offset |-> 0, position |-> 0,
              handle |-> FALSE, lease |-> FALSE]
  /\ target \in {"absent", "old"}
  /\ frozen = target
  /\ record = "none"
  /\ temp = FALSE /\ content = <<>>
  /\ stray = FALSE /\ committed = FALSE
  /\ told = {}
  /\ overlapped = FALSE /\ unseen = FALSE /\ restarted = FALSE
-----------------------------------------------------------------------------
At(r, pc)   == task[r].pc = pc
Become(r, t) == task' = [task EXCEPT ![r] = t]
Goto(r, pc) == Become(r, [pc |-> pc])
Report(outcome) == told' = told \cup {outcome}

\* A request of the operation arrives.
Arrives(r) ==
  /\ At(r, "idle")
  /\ overlapped' = (overlapped \/ \E q \in Requests : ~At(q, "idle"))

\* _fail_upload and abort up to the first await of _close_upload: the
\* operation stops being active and the handle, if any, is closed.
CloseUpload(r, receipt) ==
  /\ active' = FALSE
  /\ state' = [state EXCEPT !.handle = FALSE]
  /\ Become(r, [pc |-> IF state.handle THEN "cleaning" ELSE "removing",
                receipt |-> receipt, clean |-> TRUE])

\* write(chunk) at the position of the handle.
Written(file, position, chunk) ==
  [i \in 1..(IF position < Len(file) THEN Len(file) ELSE position + 1) |->
     IF i = position + 1 THEN chunk ELSE file[i]]
-----------------------------------------------------------------------------
(* Mutated forms of the definitions below, for the mutation runs.          *)

\* The offset is acknowledged, the hash is not updated.
AcknowledgeUnhashed(r) ==
  /\ At(r, "writing")
  /\ state' = [state EXCEPT !.offset = @ + 1, !.position = task[r].offset + 1]
  /\ Goto(r, "idle")
  /\ UNCHANGED <<remoteVars, historyVars, began, active, frozen, record,
                 overlapped, restarted>>

\* The rename always asks for FXR_OVERWRITE.
AlwaysOverwrites == temp

\* A rename without an answer is handled like a refused one.
UnknownIsFailure(r) ==
  /\ At(r, "renaming") \/ At(r, "renamed") \/ At(r, "refused")
  /\ CloseUpload(r, "failed")
  /\ UNCHANGED <<remoteVars, historyVars, began, frozen, record, overlapped, restarted>>

\* A removal that failed is not remembered.
ReleasedAnyway(r) ==
  /\ At(r, "releasing")
  /\ record' = task[r].receipt
  /\ Report(task[r].receipt)
  /\ state' = [state EXCEPT !.lease = FALSE]
  /\ Goto(r, "idle")
  /\ UNCHANGED <<remoteVars, unseen, began, active, frozen, overlapped, restarted>>

-----------------------------------------------------------------------------
(* begin.                                                                  *)

\* The client froze the target by a preflight and draws a fresh operation ID.
Begin(r) ==
  /\ Arrives(r)
  /\ ~began
  /\ began' = TRUE
  /\ frozen' = target
  /\ Goto(r, "opening")
  /\ UNCHANGED <<remoteVars, historyVars, active, state, record, restarted>>

\* The channel is open: the intent is durable before the remote side changes.
ChannelOpened(r) ==
  /\ At(r, "opening")
  /\ \/ /\ state' = [state EXCEPT !.lease = TRUE]
        /\ record' = "preparing"
        /\ Goto(r, "preparing")
     \/ Goto(r, "idle") /\ UNCHANGED <<state, record>>
  /\ UNCHANGED <<remoteVars, historyVars, began, active, frozen, overlapped, restarted>>

\* Any error of begin: the record fails, the channel is closed.
BeginFails(r) ==
  /\ record' = "failed"
  /\ state' = [state EXCEPT !.lease = FALSE]
  /\ Report("failed")
  /\ Goto(r, "idle")

TargetRead(r) ==
  /\ At(r, "preparing")
  /\ Become(r, [pc |-> "snapshot", seen |-> target])
  /\ UNCHANGED <<remoteVars, historyVars, began, active, state, frozen, record,
                 overlapped, restarted>>

\* The unchanged target lets the exclusive open be sent.
TempCreated(r) ==
  /\ At(r, "snapshot")
  /\ task[r].seen = frozen
  /\ temp' = TRUE
  /\ Goto(r, "created")
  /\ UNCHANGED <<content, target, stray, committed, historyVars, began, active,
                 state, frozen, record, overlapped, restarted>>

BeginRefused(r) ==
  /\ At(r, "preparing") \/ At(r, "snapshot")
  /\ BeginFails(r)
  /\ UNCHANGED <<remoteVars, unseen, began, active, frozen, overlapped, restarted>>

BeginEnds(r) ==
  /\ At(r, "created")
  /\ active' = TRUE
  /\ state' = [state EXCEPT !.handle = TRUE]
  /\ record' = "transferring"
  /\ Goto(r, "idle")
  /\ UNCHANGED <<remoteVars, historyVars, began, frozen, overlapped, restarted>>

\* The answer to the open is lost: the file exists and nobody says so.
OpenTimesOut(r) ==
  /\ At(r, "created")
  /\ BeginFails(r)
  /\ unseen' = TRUE
  /\ UNCHANGED <<remoteVars, began, active, frozen, overlapped, restarted>>
-----------------------------------------------------------------------------
(* write_chunk.                                                            *)

\* A chunk in sequence, within the declared size, on the open handle.
Write(r) ==
  /\ Arrives(r)
  /\ active /\ state.handle
  /\ state.offset < Len(Source)
  /\ \E chunk \in Chunks :
       /\ Become(r, [pc |-> "writing", chunk |-> chunk, offset |-> state.position])
       /\ content' = Written(content, state.position, chunk)
  /\ UNCHANGED <<temp, target, stray, committed, historyVars, began, active,
                 state, frozen, record, restarted>>

\* Any other chunk, and one the server refuses, ends the upload.
WriteRefused(r) ==
  /\ Arrives(r)
  /\ active
  /\ CloseUpload(r, "failed")
  /\ UNCHANGED <<remoteVars, historyVars, began, frozen, record, restarted>>

\* Hash, sequence and offset advance after the write was confirmed.
Acknowledge(r) ==
  /\ At(r, "writing")
  /\ state' = [state EXCEPT !.digest = Append(@, task[r].chunk), !.offset = @ + 1,
                            !.position = task[r].offset + 1]
  /\ Goto(r, "idle")
  /\ UNCHANGED <<remoteVars, historyVars, began, active, frozen, record,
                 overlapped, restarted>>

WriteFails(r) ==
  /\ At(r, "writing")
  /\ CloseUpload(r, "failed")
  /\ UNCHANGED <<remoteVars, historyVars, began, frozen, record, overlapped, restarted>>
-----------------------------------------------------------------------------
(* finish.                                                                 *)

Complete == state.offset = Len(Source) /\ state.digest = Source

\* All bytes arrived: the handle is closed before anything is verified.
Finish(r) ==
  /\ Arrives(r)
  /\ active
  /\ Complete
  /\ record' = "verifying"
  /\ state' = [state EXCEPT !.handle = FALSE]
  /\ Goto(r, IF state.handle THEN "closingHandle" ELSE "hashing")
  /\ UNCHANGED <<remoteVars, historyVars, began, active, frozen, restarted>>

FinishRefused(r) ==
  /\ Arrives(r)
  /\ active
  /\ ~Complete
  /\ CloseUpload(r, "failed")
  /\ UNCHANGED <<remoteVars, historyVars, began, frozen, record, restarted>>

HandleClosed(r) ==
  /\ At(r, "closingHandle")
  /\ Goto(r, "hashing")
  /\ UNCHANGED <<remoteVars, historyVars, began, active, state, frozen, record,
                 overlapped, restarted>>

TempHashed(r) ==
  /\ At(r, "hashing")
  /\ state.lease
  /\ Become(r, [pc |-> "hashed", match |-> temp /\ content = Source])
  /\ UNCHANGED <<remoteVars, historyVars, began, active, state, frozen, record,
                 overlapped, restarted>>

\* The verified temporary file lets the target be read again.
TargetRechecked(r) ==
  /\ At(r, "hashed")
  /\ task[r].match
  /\ state.lease
  /\ Become(r, [pc |-> "rechecked", seen |-> target])
  /\ UNCHANGED <<remoteVars, historyVars, began, active, state, frozen, record,
                 overlapped, restarted>>

\* The unchanged target lets the rename be sent.
Commit(r) ==
  /\ At(r, "rechecked")
  /\ task[r].seen = frozen
  /\ record' = "committing"
  /\ Become(r, [pc |-> "renaming",
                behind |-> {q \in Requests : At(q, "removing")}])
  /\ UNCHANGED <<remoteVars, historyVars, began, active, state, frozen,
                 overlapped, restarted>>

\* A ManualSftpError, a failed verification or a changed target.
VerifyFails(r) ==
  /\ \/ At(r, "hashing")
     \/ At(r, "hashed")
     \/ At(r, "rechecked") /\ task[r].seen # frozen
  /\ CloseUpload(r, "failed")
  /\ UNCHANGED <<remoteVars, historyVars, began, frozen, record, overlapped, restarted>>

\* Any other error of the handle, of the reads or of a channel that another
\* request closed leaves finish as it is.
FinishRaises(r) ==
  /\ At(r, "closingHandle") \/ At(r, "hashing") \/ At(r, "hashed")
  /\ Goto(r, "idle")
  /\ UNCHANGED <<remoteVars, historyVars, began, active, state, frozen, record,
                 overlapped, restarted>>

\* The server executes the rename: it needs the temporary file and, if the
\* frozen target was absent, a target that still is.
MayRename == temp /\ (frozen = "absent" => target = "absent")

Renames == /\ MayRename
           /\ target' = "upload"
           /\ temp' = FALSE
           /\ committed' = TRUE
           /\ UNCHANGED content

ServeRename(r) ==
  /\ At(r, "renaming")
  /\ \A q \in task[r].behind : ~At(q, "removing")
  /\ \/ Renames /\ Goto(r, "renamed")
     \/ Goto(r, "refused") /\ UNCHANGED <<temp, content, target, committed>>
  /\ UNCHANGED <<stray, historyVars, began, active, state, frozen, record,
                 overlapped, restarted>>

Committed(r) ==
  /\ At(r, "renamed")
  /\ active' = FALSE
  /\ record' = "succeeded"
  /\ Report("succeeded")
  /\ state' = [state EXCEPT !.lease = FALSE]
  /\ Goto(r, "idle")
  /\ UNCHANGED <<remoteVars, unseen, began, frozen, overlapped, restarted>>

\* Exists, missing, permission denied or unsupported: nothing was renamed.
RenameRefused(r) ==
  /\ At(r, "refused")
  /\ CloseUpload(r, "failed")
  /\ UNCHANGED <<remoteVars, historyVars, began, frozen, record, overlapped, restarted>>

\* Any other status, a lost channel or the timeout: nobody knows.
RenameUnknown(r) ==
  /\ At(r, "renaming") \/ At(r, "renamed") \/ At(r, "refused")
  /\ active' = FALSE
  /\ record' = "outcome_unknown"
  /\ Report("outcome_unknown")
  /\ state' = [state EXCEPT !.lease = FALSE]
  /\ stray' = (stray \/ At(r, "renaming"))
  /\ Goto(r, "idle")
  /\ UNCHANGED <<temp, content, target, committed, unseen, began, frozen,
                 overlapped, restarted>>
-----------------------------------------------------------------------------
(* abort, close_all and the cleanup they share with every failure.         *)

Abort(r) ==
  /\ Arrives(r)
  /\ active
  /\ CloseUpload(r, "cancelled")
  /\ UNCHANGED <<remoteVars, historyVars, began, frozen, record, restarted>>

\* The handle is closed, or its close failed: the next step is due anyway.
Cleaned(r) ==
  /\ At(r, "cleaning")
  /\ \E ok \in BOOLEAN : Become(r, [task[r] EXCEPT !.pc = "removing", !.clean = ok])
  /\ UNCHANGED <<remoteVars, historyVars, began, active, state, frozen, record,
                 overlapped, restarted>>

\* Behind a rename on the same channel, the removal waits.
MayRemove(r) ==
  /\ state.lease
  /\ \A q \in Requests : At(q, "renaming") => r \in task[q].behind

\* The temporary path is removed, or was absent.
TempRemoved(r) ==
  /\ At(r, "removing")
  /\ MayRemove(r)
  /\ temp' = FALSE
  /\ Become(r, [task[r] EXCEPT !.pc = "releasing"])
  /\ UNCHANGED <<content, target, stray, committed, historyVars, began, active,
                 state, frozen, record, overlapped, restarted>>

\* The removal fails, or its answer is lost.
RemoveFails(r) ==
  /\ At(r, "removing")
  /\ \/ UNCHANGED temp
     \/ temp' = FALSE /\ MayRemove(r)
  /\ Become(r, [task[r] EXCEPT !.pc = "releasing", !.clean = FALSE])
  /\ UNCHANGED <<content, target, stray, committed, historyVars, began, active,
                 state, frozen, record, overlapped, restarted>>

\* The lease is closed once, and the outcome becomes durable.
Released(r) ==
  /\ At(r, "releasing")
  /\ \E closed \in BOOLEAN :
       LET outcome == IF task[r].clean /\ closed THEN task[r].receipt
                                                 ELSE "cleanup_required"
       IN  record' = outcome /\ Report(outcome)
  /\ state' = [state EXCEPT !.lease = FALSE]
  /\ Goto(r, "idle")
  /\ UNCHANGED <<remoteVars, unseen, began, active, frozen, overlapped, restarted>>
-----------------------------------------------------------------------------
(* RecoveryManager.                                                        *)

\* The temporary file may appear after an inspection did not find it.
BeginInProgress == \E q \in Requests : At(q, "preparing") \/ At(q, "snapshot")

Listed == record \notin TERMINAL_STATES \cup {"none"}

\* inspect, or execute(verify): a channel of its own.
Inspect(r) ==
  /\ Arrives(r)
  /\ Listed
  /\ Goto(r, "inspecting")
  /\ UNCHANGED <<remoteVars, historyVars, began, active, state, frozen, record, restarted>>

TargetInspected(r) ==
  /\ At(r, "inspecting")
  /\ \/ Become(r, [pc |-> "inspected", seen |-> target])
     \/ Goto(r, "idle")
  /\ UNCHANGED <<remoteVars, historyVars, began, active, state, frozen, record,
                 overlapped, restarted>>

\* The target has the hash of the source: succeeded.  Otherwise the temporary
\* path is read: if it exists, the record stays as it is.
TempInspected(r) ==
  /\ At(r, "inspected")
  /\ IF task[r].seen = "upload" /\ content = Source
       THEN record' = "succeeded" /\ Goto(r, "idle") /\ UNCHANGED unseen
       ELSE /\ Goto(r, IF temp THEN "idle" ELSE "missing")
            /\ unseen' = (unseen \/ (~temp /\ BeginInProgress))
            /\ UNCHANGED record
  /\ UNCHANGED <<remoteVars, told, began, active, state, frozen, overlapped, restarted>>

\* Neither was found: failed.
Reconciled(r) ==
  /\ At(r, "missing")
  /\ record' = "failed"
  /\ Goto(r, "idle")
  /\ UNCHANGED <<remoteVars, historyVars, began, active, state, frozen, overlapped, restarted>>

\* execute(delete_temp): the temporary file is read, compared and removed by
\* a mutation of its own; its success resolves the old record.
DeleteTemp(r) ==
  /\ Arrives(r)
  /\ Listed
  /\ temp
  /\ Become(r, [pc |-> "comparing", sample |-> content])
  /\ UNCHANGED <<remoteVars, historyVars, began, active, state, frozen, record, restarted>>

TempCompared(r) ==
  /\ At(r, "comparing")
  /\ IF temp /\ content = task[r].sample
       THEN Become(r, [task[r] EXCEPT !.pc = "deleting"])
       ELSE Goto(r, "idle")
  /\ UNCHANGED <<remoteVars, historyVars, began, active, state, frozen, record,
                 overlapped, restarted>>

TempDeleted(r) ==
  /\ At(r, "deleting")
  /\ \/ temp /\ Goto(r, "resolving")
     \/ Goto(r, "idle")
  /\ temp' \in {FALSE, temp /\ task'[r].pc = "idle"}
  /\ UNCHANGED <<content, target, stray, committed, historyVars, began, active,
                 state, frozen, record, overlapped, restarted>>

Resolved(r) ==
  /\ At(r, "resolving")
  /\ record' = "failed"
  /\ Goto(r, "idle")
  /\ UNCHANGED <<remoteVars, historyVars, began, active, state, frozen, overlapped, restarted>>
-----------------------------------------------------------------------------
(* The environment.                                                        *)

\* The server executes, or drops, a rename whose handler gave up.
StrayRename ==
  /\ stray
  /\ stray' = FALSE
  /\ Renames \/ UNCHANGED <<temp, content, target, committed>>
  /\ UNCHANGED <<historyVars, task, began, active, state, frozen, record,
                 overlapped, restarted>>

\* Another client of the remote host writes the target path.
TargetChanges ==
  /\ target # "other"
  /\ target' = "other"
  /\ UNCHANGED <<temp, content, stray, committed, historyVars, task, began, active,
                 state, frozen, record, overlapped, restarted>>

\* The process dies and starts again: the records and the files are left.
Restart ==
  /\ ~restarted
  /\ restarted' = TRUE
  /\ stray' = (stray \/ \E r \in Requests : At(r, "renaming"))
  /\ task' = [r \in Requests |-> [pc |-> "idle"]]
  /\ active' = FALSE
  /\ state' = [state EXCEPT !.handle = FALSE, !.lease = FALSE]
  /\ UNCHANGED <<temp, content, target, committed, historyVars, began, frozen,
                 record, overlapped>>
-----------------------------------------------------------------------------
Beginning(r)  == \/ Begin(r) \/ ChannelOpened(r) \/ TargetRead(r) \/ TempCreated(r)
                 \/ BeginRefused(r) \/ BeginEnds(r) \/ OpenTimesOut(r)
Writing(r)    == Write(r) \/ WriteRefused(r) \/ Acknowledge(r) \/ WriteFails(r)
Finishing(r)  == \/ Finish(r) \/ FinishRefused(r) \/ HandleClosed(r) \/ TempHashed(r)
                 \/ TargetRechecked(r) \/ Commit(r) \/ VerifyFails(r)
                 \/ FinishRaises(r) \/ ServeRename(r) \/ Committed(r)
                 \/ RenameRefused(r) \/ RenameUnknown(r)
Closing(r)    == \/ Abort(r) \/ Cleaned(r) \/ TempRemoved(r) \/ RemoveFails(r)
                 \/ Released(r)
Recovering(r) == \/ Inspect(r) \/ TargetInspected(r) \/ TempInspected(r)
                 \/ Reconciled(r) \/ DeleteTemp(r) \/ TempCompared(r)
                 \/ TempDeleted(r) \/ Resolved(r)

Next == \/ StrayRename \/ TargetChanges \/ Restart
        \/ \E r \in Requests : \/ Beginning(r) \/ Writing(r) \/ Finishing(r)
                               \/ Closing(r) \/ Recovering(r)

Spec == Init /\ [][Next]_vars
-----------------------------------------------------------------------------
(* Properties.                                                             *)

\* The commit never puts anything but the complete verified source at the
\* target, although chunks race each other, the finish and the abort.
CommitIsComplete == target = "upload" => content = Source

\* A file that appears at a target that did not exist at preflight is never
\* replaced: the last check and the rename are not atomic, the rename is.
NoBlindOverwrite ==
  [][frozen = "absent" /\ target' = "upload" => target \in {"absent", "upload"}]_vars

\* A success is only reported, and only recorded, of an executed rename.
SuccessIsCommitted ==
  "succeeded" \in told \/ record = "succeeded" => committed

\* While the requests of the operation come one after the other, an outcome
\* reported as failed or cancelled stands for a target that was not replaced.
SequentialFailureIsHonest ==
  ~overlapped /\ told \cap {"failed", "cancelled"} # {} => ~committed

\* A temporary file that no handler and no manager owns is listed for
\* recovery, whatever failed and whenever the process died; unless the answer
\* to the exclusive open was lost or an inspection came before that open.
ResidueIsListed ==
  (temp /\ ~active /\ ~unseen /\ \A r \in Requests : At(r, "idle")) => Listed

\* An open SFTP channel belongs to the active upload or to a handler that is
\* about to close it.
ChannelIsOwned ==
  state.lease => \/ active
                 \/ \E r \in Requests :
                      task[r].pc \in {"preparing", "snapshot", "created", "cleaning",
                                     "removing", "releasing", "renaming", "renamed",
                                     "refused"}

\* What is told of an upload and kept in its record is true of the target, as
\* the three statements above say (finish, abort, inspect).
OutcomeIsTrue == CommitIsComplete /\ SuccessIsCommitted /\ SequentialFailureIsHonest

\* Whatever fails, neither a channel nor a temporary file is left that nobody
\* will close or offer to delete (_cleanup_active, close_all, list).
NothingIsLeftBehind == ChannelIsOwned /\ ResidueIsListed

\* What the docstring of abort promises: the upload is deleted, not committed.
CancelledIsNotCommitted == "cancelled" \in told => ~committed

\* What the docstring of _persist_reconciled_terminal promises: the result of
\* an inspection replaces a record that is not terminal.
ReconcilesNonTerminal ==
  [][\A r \in Requests : Reconciled(r) => record \notin TERMINAL_STATES]_vars
=============================================================================
