-------------------------- MODULE RecursiveDelete --------------------------
(***************************************************************************)
(* One recursive delete of a remote directory (MutationManager) and its     *)
(* recovery (RecoveryManager): a preflight freezes the manifest in a plan,  *)
(* the execution renames the root to a tombstone, scans it again, compares  *)
(* it with the plan and removes entry by entry.  What it may leave behind   *)
(* is resolved by continuing (another recursive delete, of the tombstone),  *)
(* by restoring (a rename back) or by a read-only inspection.               *)
(*                                                                          *)
(* The handlers of HTTP requests share no lock.  Each opens a channel of    *)
(* its own.  A remote request is one action: the server executes it, and    *)
(* the handler does with the answer what it does up to its next await.  A   *)
(* scan of the tree is one request here.                                    *)
(***************************************************************************)
EXTENDS FiniteSets

CONSTANTS
  Requests,   \* HTTP requests in progress at a time
  Entries,    \* what the directory holds at first
  Foreign     \* an entry that another client of the host may add

ASSUME EntriesAssumption == Foreign \notin Entries

\* The delete the user asked for, and the one recovery mutation.
Ops == {"delete", "recovery"}

Places    == {"root", "tombstone", "second"}
Path      == [delete |-> "root",      recovery |-> "tombstone"]
Tombstone == [delete |-> "tombstone", recovery |-> "second"]

Absent == [id |-> "none", entries |-> {}]
NoPlan == [id |-> "none", entries |-> {}, consumed |-> FALSE]

TERMINAL_STATES == {"succeeded", "failed", "cancelled"}
Listed          == {"preparing", "cleanup_required", "outcome_unknown"}

VARIABLES
  task,        \* the handlers: the await of each, with what it remembers
  plan,        \* DeletePlanRecord of each operation
  bound,       \* the operations in MutationManager._delete_plans
  record,      \* state of the RemoteOperationRecord, or "none"
  dir,         \* the directory at each place of the remote parent directory
  pending,     \* renames without an answer that the server may still execute:
               \* the isolation of an operation, or "restore"
  added,       \* the other client has added its entry
  recreated,   \* the other client has created a directory at the free root path
  restarted,   \* the process was restarted (at most once)
  overlapped,  \* two handlers were in progress at once (history)
  late,        \* an isolation was executed after the record had been closed, or
               \* a restore after its handler had given up (history)
  unverified   \* the last look for the tombstone got no answer (history)

serverVars  == <<dir, pending>>
worldVars   == <<added, recreated, restarted>>
historyVars == <<overlapped, late, unverified>>
vars == <<task, plan, bound, record, serverVars, worldVars, historyVars>>

Idle == [pc |-> "idle"]

Init ==
  /\ task = [r \in Requests |-> Idle]
  /\ plan = [o \in Ops |-> NoPlan]
  /\ bound = {}
  /\ record = [o \in Ops |-> "none"]
  /\ dir = [p \in Places |-> IF p = "root" THEN [id |-> "ours", entries |-> Entries]
                                           ELSE Absent]
  /\ pending = {}
  /\ added = FALSE /\ recreated = FALSE /\ restarted = FALSE
  /\ overlapped = FALSE /\ late = FALSE /\ unverified = FALSE

Exists(p)      == dir[p] # Absent
At(r, pc)      == task[r].pc = pc
Op(r)          == task[r].op
Goto(r, pc)    == task' = [task EXCEPT ![r].pc = pc]
Moved(from, to) == dir' = [dir EXCEPT ![to] = dir[from], ![from] = Absent]

-----------------------------------------------------------------------------
(* How a handler ends *)

\* The handler writes nothing; delete_execute forgets the plan's binding.
Leave(r) ==
  /\ task' = [task EXCEPT ![r] = Idle]
  /\ bound' = bound \ {Op(r)}

\* _finalize_delete_plan, and what the recovery that waits for it goes on to
\* do: only a success resolves the old operation.
Finalize(r, state) ==
  /\ record' = [record EXCEPT ![Op(r)] = state]
  /\ plan' = [plan EXCEPT ![Op(r)].consumed = TRUE]
  /\ bound' = bound \ {Op(r)}
  /\ task' = [task EXCEPT ![r] = IF Op(r) = "recovery" /\ state = "succeeded"
                                 THEN [pc |-> "resolving"] ELSE Idle]

\* The handler of a ManualSftpError: an operation that is still open failed.
FinalizeIfOpen(r) ==
  IF record[Op(r)] = "preparing"
  THEN Finalize(r, "failed")
  ELSE Leave(r) /\ UNCHANGED <<record, plan>>

-----------------------------------------------------------------------------
(* Requests *)

Start(r, entry) ==
  /\ task[r] = Idle
  /\ task' = [task EXCEPT ![r] = entry]
  /\ overlapped' = (overlapped \/ \E q \in Requests : task[q] # Idle)
  /\ UNCHANGED <<plan, bound, record, serverVars, worldVars, late, unverified>>

\* delete_preflight with a fresh operation ID.
RequestPreflight(r) ==
  /\ record["delete"] = "none"
  /\ \A q \in Requests : ~At(q, "scanning")
  /\ Start(r, [pc |-> "scanning", op |-> "delete"])

\* delete_execute: the plan is stored, not consumed, and bound to a session of
\* this process.  The binding is removed only when the execution ends.
RequestExecute(r) ==
  /\ plan["delete"] # NoPlan
  /\ ~plan["delete"].consumed
  /\ "delete" \in bound
  /\ Start(r, [pc |-> "checking", op |-> "delete"])

\* The record is there and not terminal.
Recoverable(o) == record[o] \in Listed

\* _require_fresh_operation.  The client draws one operation ID for the one
\* recovery mutation.
FreshRecovery == record["recovery"] = "none"

RequestRecovery(r, pc) ==
  /\ Recoverable("delete")
  /\ FreshRecovery
  /\ \A q \in Requests : task[q] # Idle => ~At(q, "resolving") /\ Op(q) # "recovery"
  /\ Start(r, [pc |-> pc, op |-> "recovery"])

RequestContinue(r) == RequestRecovery(r, "scanning")
RequestRestore(r)  == RequestRecovery(r, "comparing")

RequestInspect(r) ==
  \E o \in Ops :
    /\ Recoverable(o)
    /\ plan[o] # NoPlan
    /\ Start(r, [pc |-> "inspecting", op |-> o])

\* The session is gone or the channel breaks where the code has no handler for
\* it: nothing is written, and the record stays as it is.  The channel of an
\* execution is opened before the block that forgets the binding.
Quit(r) ==
  /\ task[r].pc \in {"scanning", "checking", "verifying", "comparing", "inspecting",
                     "inspected"}
  /\ \/ /\ task[r].pc \in {"checking", "verifying"}
        /\ Leave(r)
     \/ /\ ~At(r, "verifying")
        /\ task' = [task EXCEPT ![r] = Idle]
        /\ UNCHANGED bound
  /\ UNCHANGED <<plan, record, serverVars, worldVars, historyVars>>

-----------------------------------------------------------------------------
(* delete_preflight and delete_execute *)

\* _scan_manifest: the metadata of the directory and of all entries in it.
Manifest(p) == [id |-> dir[p].id, entries |-> dir[p].entries]

\* The plan of a preflight.
Planned(p) == [id |-> Manifest(p).id, entries |-> Manifest(p).entries, consumed |-> FALSE]

\* (mutant) The plan is stored and the record is forgotten.
ScanWithoutRecord(r) ==
  /\ At(r, "scanning")
  /\ Exists(Path[Op(r)])
  /\ plan' = [plan EXCEPT ![Op(r)] = Planned(Path[Op(r)])]
  /\ bound' = bound \cup {Op(r)}
  /\ task' = [task EXCEPT ![r] = Idle]
  /\ UNCHANGED <<record, serverVars, worldVars, historyVars>>

\* The scan found a directory: plan, record and binding are written in one
\* step.  The recovery goes on to execute the plan at once.
Scan(r) ==
  /\ At(r, "scanning")
  /\ LET o == Op(r)
     IN  /\ Exists(Path[o])
         /\ record[o] = "none"
         /\ plan' = [plan EXCEPT ![o] = Planned(Path[o])]
         /\ record' = [record EXCEPT ![o] = "preparing"]
         /\ bound' = bound \cup {o}
         /\ task' = [task EXCEPT ![r] = IF o = "recovery"
                                        THEN [pc |-> "checking", op |-> o] ELSE Idle]
  /\ UNCHANGED <<serverVars, worldVars, historyVars>>

\* The snapshot of the root.  An added entry shows in its modification time,
\* but for the resolution of the server's clock.
RootUnchanged(o) == dir[Path[o]].id = plan[o].id

Check(r) ==
  /\ At(r, "checking")
  /\ RootUnchanged(Op(r))
  /\ Goto(r, "isolating")
  /\ UNCHANGED <<plan, bound, record, serverVars, worldVars, historyVars>>

\* The root changed or the snapshot timed out.
CheckFails(r) ==
  /\ At(r, "checking")
  /\ FinalizeIfOpen(r)
  /\ UNCHANGED <<serverVars, worldVars, historyVars>>

\* Denied: finalized whatever the record says by now.
CheckDenied(r) ==
  /\ At(r, "checking")
  /\ Finalize(r, "failed")
  /\ UNCHANGED <<serverVars, worldVars, historyVars>>

\* The execution looks at the plan only: an inspection may have closed the
\* record of a plan that was never executed.
NoteRename(o) == late' = (late \/ record[o] \in TERMINAL_STATES)

\* The rename without overwrite.
MayIsolate(o) == Exists(Path[o]) /\ ~Exists(Tombstone[o])

Isolate(r) ==
  /\ At(r, "isolating")
  /\ MayIsolate(Op(r))
  /\ Moved(Path[Op(r)], Tombstone[Op(r)])
  /\ Goto(r, "rescanning")
  /\ NoteRename(Op(r))
  /\ UNCHANGED <<plan, bound, record, pending, worldVars, overlapped, unverified>>

\* A definite refusal: no source, an existing tombstone, permission, support.
IsolateRefused(r) ==
  /\ At(r, "isolating")
  /\ FinalizeIfOpen(r)
  /\ UNCHANGED <<serverVars, worldVars, historyVars>>

\* _delete_unknown: no answer.  The rename was executed, or will or will not be.
IsolateUnknown(r) ==
  /\ At(r, "isolating")
  /\ \/ UNCHANGED serverVars
     \/ pending' = pending \cup {Op(r)} /\ UNCHANGED dir
     \/ /\ MayIsolate(Op(r))
        /\ Moved(Path[Op(r)], Tombstone[Op(r)])
        /\ UNCHANGED pending
  /\ Finalize(r, "outcome_unknown")
  /\ NoteRename(Op(r))
  /\ UNCHANGED <<worldVars, overlapped, unverified>>

\* (mutant) The second scan is not compared with the plan.
ManifestUnchecked(o) == Exists(Tombstone[o])

\* The manifest of the tombstone, with the modification times, has the hash of
\* the plan.
ManifestMatches(o) ==
  Manifest(Tombstone[o]) = [id |-> plan[o].id, entries |-> plan[o].entries]

Rescan(r) ==
  /\ At(r, "rescanning")
  /\ ManifestMatches(Op(r))
  /\ task' = [task EXCEPT ![r] = [pc |-> "removing", op |-> Op(r),
                                  rest |-> dir[Tombstone[Op(r)]].entries]]
  /\ UNCHANGED <<plan, bound, record, serverVars, worldVars, historyVars>>

\* (mutant) The failure of a cleanup ends the operation as failed.
CleanupFails(r) ==
  /\ task[r].pc \in {"rescanning", "removing"}
  /\ Finalize(r, "failed")
  /\ UNCHANGED <<serverVars, worldVars, historyVars>>

\* _delete_cleanup_failure, or the manifest differs; at any time a request of
\* the rescan or of the removal may fail.
NeedsCleanup(r) ==
  /\ task[r].pc \in {"rescanning", "removing"}
  /\ Finalize(r, "cleanup_required")
  /\ UNCHANGED <<serverVars, worldVars, historyVars>>

\* Bottom up: one entry of the rescanned manifest, answered or not.
RemoveEntry(r) ==
  /\ At(r, "removing")
  /\ \E e \in task[r].rest \cap dir[Tombstone[Op(r)]].entries :
       /\ dir' = [dir EXCEPT ![Tombstone[Op(r)]].entries = @ \ {e}]
       /\ \/ /\ task' = [task EXCEPT ![r].rest = @ \ {e}]
             /\ UNCHANGED <<plan, bound, record>>
          \/ Finalize(r, "cleanup_required")
  /\ UNCHANGED <<pending, worldVars, historyVars>>

\* The directory itself, last: only if it is empty.
RemoveDirectory(r) ==
  /\ At(r, "removing")
  /\ task[r].rest = {}
  /\ Exists(Tombstone[Op(r)])
  /\ dir[Tombstone[Op(r)]].entries = {}
  /\ dir' = [dir EXCEPT ![Tombstone[Op(r)]] = Absent]
  /\ \/ /\ task' = [task EXCEPT ![r] = [pc |-> "verifying", op |-> Op(r)]]
        /\ UNCHANGED <<plan, bound, record>>
     \/ Finalize(r, "cleanup_required")
  /\ UNCHANGED <<pending, worldVars, historyVars>>

\* One more look for the tombstone.
Verify(r) ==
  /\ At(r, "verifying")
  /\ Finalize(r, IF Exists(Tombstone[Op(r)]) THEN "cleanup_required" ELSE "succeeded")
  /\ UNCHANGED <<serverVars, worldVars, historyVars>>

VerifyDenied(r) ==
  /\ At(r, "verifying")
  /\ Finalize(r, "cleanup_required")
  /\ UNCHANGED <<serverVars, worldVars, historyVars>>

\* Its timeout is a ManualSftpError like that of the first snapshot: the record
\* says failed.
VerifyTimesOut(r) ==
  /\ At(r, "verifying")
  /\ unverified' = TRUE
  /\ FinalizeIfOpen(r)
  /\ UNCHANGED <<serverVars, worldVars, overlapped, late>>

-----------------------------------------------------------------------------
(* Recovery *)

\* The first of the two reads of inspect.
InspectRoot(r) ==
  /\ At(r, "inspecting")
  /\ task' = [task EXCEPT ![r] = [pc |-> "inspected", op |-> Op(r),
                                  root |-> Exists(Path[Op(r)])]]
  /\ UNCHANGED <<plan, bound, record, serverVars, worldVars, historyVars>>

\* The second, and _persist_reconciled_terminal with the record it read before.
InspectTombstone(r) ==
  /\ At(r, "inspected")
  /\ task' = [task EXCEPT ![r] = Idle]
  /\ record' = IF Exists(Tombstone[Op(r)]) THEN record
               ELSE [record EXCEPT ![Op(r)] =
                       IF task[r].root THEN "failed" ELSE "succeeded"]
  /\ UNCHANGED <<plan, bound, serverVars, worldVars, historyVars>>

MayRestore == Exists("tombstone") /\ ~Exists("root")

\* MutationManager.rename as restore_tombstone calls it: the source exists, the
\* target does not (two reads, one action here); the intent is written before the
\* rename is sent.
Compare(r) ==
  /\ At(r, "comparing")
  /\ MayRestore
  /\ record["recovery"] = "none"
  /\ record' = [record EXCEPT !["recovery"] = "preparing"]
  /\ Goto(r, "restoring")
  /\ UNCHANGED <<plan, bound, serverVars, worldVars, historyVars>>

SettleRestore(r, state, next) ==
  /\ record' = [record EXCEPT !["recovery"] = state]
  /\ task' = [task EXCEPT ![r] = next]
  /\ UNCHANGED <<plan, bound, worldVars, historyVars>>

Restore(r) ==
  /\ At(r, "restoring")
  /\ MayRestore
  /\ Moved("tombstone", "root")
  /\ UNCHANGED pending
  /\ SettleRestore(r, "succeeded", [pc |-> "resolving"])

RestoreRefused(r) ==
  /\ At(r, "restoring")
  /\ UNCHANGED serverVars
  /\ SettleRestore(r, "failed", Idle)

RestoreUnknown(r) ==
  /\ At(r, "restoring")
  /\ \/ UNCHANGED serverVars
     \/ pending' = pending \cup {"restore"} /\ UNCHANGED dir
     \/ MayRestore /\ Moved("tombstone", "root") /\ UNCHANGED pending
  /\ SettleRestore(r, "outcome_unknown", Idle)

\* _resolve_old, after the channel of the recovery mutation was closed.
ResolveOld(r) ==
  /\ At(r, "resolving")
  /\ record' = [record EXCEPT !["delete"] = "failed"]
  /\ task' = [task EXCEPT ![r] = Idle]
  /\ UNCHANGED <<plan, bound, serverVars, worldVars, historyVars>>

-----------------------------------------------------------------------------
(* The server, another client, the process *)

LateRename(o) ==
  /\ o \in pending
  /\ pending' = pending \ {o}
  /\ IF MayIsolate(o) THEN Moved(Path[o], Tombstone[o]) ELSE UNCHANGED dir
  /\ NoteRename(o)
  /\ UNCHANGED <<task, plan, bound, record, worldVars, overlapped, unverified>>

LateRestore ==
  /\ "restore" \in pending
  /\ pending' = pending \ {"restore"}
  /\ IF MayRestore THEN Moved("tombstone", "root") ELSE UNCHANGED dir
  /\ late' = TRUE
  /\ UNCHANGED <<task, plan, bound, record, worldVars, overlapped, unverified>>

AddEntry ==
  /\ ~added
  /\ added' = TRUE
  /\ \E p \in Places :
       /\ Exists(p)
       /\ dir' = [dir EXCEPT ![p].entries = @ \cup {Foreign}]
  /\ UNCHANGED <<task, plan, bound, record, pending, recreated, restarted, historyVars>>

RecreateRoot ==
  /\ ~recreated
  /\ recreated' = TRUE
  /\ ~Exists("root")
  /\ dir' = [dir EXCEPT !["root"] = [id |-> "other", entries |-> {}]]
  /\ UNCHANGED <<task, plan, bound, record, pending, added, restarted, historyVars>>

\* The bindings and the handlers are gone; requests on their way may still be
\* executed.
Restart ==
  /\ ~restarted
  /\ restarted' = TRUE
  /\ task' = [r \in Requests |-> Idle]
  /\ bound' = {}
  /\ pending' = pending \cup {Op(r) : r \in {q \in Requests : At(q, "isolating")}}
                     \cup {"restore" : r \in {q \in Requests : At(q, "restoring")}}
  /\ UNCHANGED <<plan, record, dir, added, recreated, historyVars>>

-----------------------------------------------------------------------------

Request(r) ==
  \/ RequestPreflight(r) \/ RequestExecute(r) \/ RequestContinue(r)
  \/ RequestRestore(r) \/ RequestInspect(r)

Handler(r) ==
  \/ Request(r) \/ Quit(r) \/ Scan(r) \/ Check(r) \/ CheckFails(r) \/ CheckDenied(r)
  \/ Isolate(r) \/ IsolateRefused(r) \/ IsolateUnknown(r)
  \/ Rescan(r) \/ NeedsCleanup(r) \/ RemoveEntry(r) \/ RemoveDirectory(r)
  \/ Verify(r) \/ VerifyDenied(r) \/ VerifyTimesOut(r)
  \/ InspectRoot(r) \/ InspectTombstone(r)
  \/ Compare(r) \/ Restore(r) \/ RestoreRefused(r) \/ RestoreUnknown(r)
  \/ ResolveOld(r)

Next ==
  \/ \E r \in Requests : Handler(r)
  \/ \E o \in Ops : LateRename(o)
  \/ LateRestore \/ AddEntry \/ RecreateRoot \/ Restart

Spec == Init /\ [][Next]_vars

-----------------------------------------------------------------------------
(* Properties *)

Items == Entries \cup {Foreign}
Dirs  == {Absent} \cup [id : {"ours", "other"}, entries : SUBSET Items]
Tasks ==
  {Idle, [pc |-> "resolving"]}
  \cup [pc : {"scanning", "checking", "isolating", "rescanning", "verifying",
              "comparing", "restoring", "inspecting"}, op : Ops]
  \cup [pc : {"removing"}, op : Ops, rest : SUBSET Items]
  \cup [pc : {"inspected"}, op : Ops, root : BOOLEAN]

\* A plan is written once with its record, and an operation that is bound has
\* one; a handler that executes a plan finds it, consumed or not.
TypeOK ==
  /\ task \in [Requests -> Tasks]
  /\ \A r \in Requests :
       task[r].pc \in {"checking", "isolating", "rescanning", "removing", "verifying"}
         => plan[Op(r)] # NoPlan
  /\ plan \in [Ops -> [id : {"none", "ours", "other"}, entries : SUBSET Items,
                       consumed : BOOLEAN]]
  /\ record \in [Ops -> TERMINAL_STATES \cup Listed \cup {"none"}]
  /\ \A o \in Ops : plan[o] # NoPlan => record[o] # "none"
  /\ bound \subseteq {o \in Ops : plan[o] # NoPlan}
  /\ dir \in [Places -> Dirs]
  /\ pending \subseteq Ops \cup {"restore"}

\* What a step removes from a place, with the directory there or of it.
Confirmed(p) ==
  LET removed == {e \in dir[p].entries : \A q \in Places : e \notin dir'[q].entries}
      gone    == Exists(p) /\ \A q \in Places : dir'[q].id # dir[p].id
  IN  removed # {} \/ gone =>
        \E o \in Ops : /\ p = Tombstone[o]
                      /\ (~overlapped => dir[p].id = plan[o].id)
                      /\ removed \subseteq plan[o].entries

\* What is removed was isolated, and was in the manifest of the plan of the
\* operation it was isolated for: neither an entry that appeared after the
\* preflight nor anything at the path the user knows is ever removed, whatever
\* requests, recoveries and other clients overlap.  Without overlap the removed
\* directory is the planned one; with it, an empty one that took its place may
\* be removed (a delayed rename of it during a removal that a recovery stopped).
ConfirmedOnly == [][\A p \in Places : Confirmed(p)]_vars

\* The user's directory never disappears from both the path and the list of
\* recoveries: while it is at a tombstone, the record of the operation
\* that isolated it is open and so in that list.  Not covered, because the code does not prevent it: two overlapping
\* handlers, an isolation executed after an inspection closed the record, be it
\* a delayed one or that of a plan which had not been executed yet, and a
\* delayed restore.
IsolatedIsListed ==
  ~overlapped /\ ~late =>
    \A o \in Ops : Exists(Tombstone[o]) => record[o] \in Listed

\* Without overlap the record of the delete tells the truth: succeeded means
\* that the directory is gone, or was isolated again by a recovery that is
\* listed; failed without a recovery means that it is whole and in its place.
\* Not covered: the last look timed out after everything was removed, and a new
\* directory of another client taken for the old root by an inspection.
OutcomeIsTrue ==
  ~overlapped /\ ~late =>
    /\ record["delete"] = "succeeded" =>
         /\ \A p \in {"root", "tombstone"} : dir[p].id # "ours"
         /\ Exists("second") => record["recovery"] \in Listed
    /\ record["delete"] = "failed" /\ record["recovery"] = "none"
       /\ ~unverified /\ ~recreated =>
         dir["root"].id = "ours" /\ Entries \subseteq dir["root"].entries

\* The records of the delete and of its recovery tell the user where the
\* directory is (_finalize, _mark_needs_cleanup, the recovery actions).
RecordsAreTrue == IsolatedIsListed /\ OutcomeIsTrue
=============================================================================
