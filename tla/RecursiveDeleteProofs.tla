----------------------- MODULE RecursiveDeleteProofs -----------------------
(***************************************************************************)
(* Proofs about RecursiveDelete, for any number of requests and entries:    *)
(* nothing is removed that was not confirmed, and the records say where the *)
(* directory is.                                                            *)
(*                                                                          *)
(* The invariant has two layers.  SentOnce, OneDirectory and PlannedRest    *)
(* hold whatever overlaps; Order holds until two handlers overlap, Story    *)
(* until a late rename as well.  A handler that steps without overlap is    *)
(* alone (Alone), so Order is proved of that one handler (OrderOf).         *)
(***************************************************************************)
EXTENDS RecursiveDelete, TLAPS

Renamed   == {"rescanning", "removing", "verifying"}
Executing == {"checking", "isolating"} \cup Renamed

\* The states of a handler that works for an operation.
Serving == {"scanning", "comparing", "restoring", "inspecting", "inspected"} \cup Executing

Runs(r, o, pcs) == task[r].pc \in pcs /\ task[r].op = o

\* The handler of a recovery that is under way.
Recovers(r) ==
  \/ task[r].pc \in {"comparing", "restoring", "resolving"}
  \/ Runs(r, "recovery", {"scanning"} \cup Executing)

\* Whatever overlaps: an isolation under way at the server belongs to an
\* operation that no session can execute again, and what recovers has something
\* to recover.
SentOnce ==
  /\ \A o \in Ops \cap pending : o \notin bound /\ record[o] # "none"
  /\ "restore" \in pending => record["recovery"] # "none"
  /\ record["recovery"] # "none" => record["delete"] # "none"
  /\ \A r \in Requests :
       /\ At(r, "restoring") \/ At(r, "resolving") => record["recovery"] # "none"
       /\ task[r].pc \in {"inspecting", "inspected"} => record[Op(r)] # "none"
       /\ Recovers(r) => record["delete"] # "none"

\* The user's directory is at one place, and whole as long as it never left.
OneDirectory ==
  /\ \A p, q \in Places : dir[p].id = "ours" /\ dir[q].id = "ours" => p = q
  /\ \A p \in Places : dir[p].id = "other" => recreated
  /\ record["recovery"] = "none" /\ dir["root"].id = "ours" =>
       Entries \subseteq dir["root"].entries

\* A removal keeps to the entries of its plan.
PlannedRest ==
  \A r \in Requests : At(r, "removing") => task[r].rest \subseteq plan[Op(r)].entries

OneAtATime == \A q, r \in Requests : task[q] # Idle /\ task[r] # Idle => q = r

\* No handler has isolated the directory of an operation and works on it.
NotIsolated(o) == ~\E r \in Requests : Runs(r, o, Renamed)

\* The user's directory is in its place and nothing is at its tombstone.
Untouched == dir["root"].id = "ours" /\ ~Exists("tombstone")

\* As long as no two handlers overlapped, an operation is isolated at most once,
\* the recovery begins only after the execution of the delete ended, and what a
\* removal finds is what its plan names.
Order ==
  /\ OneAtATime
  /\ record["recovery"] # "none" => "delete" \notin bound
  /\ "delete" \in bound /\ NotIsolated("delete") => Untouched
  /\ record["delete"] = "none" \/ "delete" \in pending => Untouched
  /\ "delete" \in pending => record["recovery"] = "none"
  /\ Exists("second") => record["recovery"] # "none"
  /\ "recovery" \in pending \/ ("recovery" \in bound /\ NotIsolated("recovery")) =>
       ~Exists("second")
  /\ \A r \in Requests :
       /\ task[r].pc \in Executing => Op(r) \in bound
       /\ At(r, "removing") => dir[Tombstone[Op(r)]].id = plan[Op(r)].id
       /\ At(r, "verifying") => ~Exists(Tombstone[Op(r)])
       /\ Runs(r, "recovery", Renamed) \/ At(r, "resolving") => ~Exists("tombstone")

-----------------------------------------------------------------------------
(* The shape of a handler *)

\* Where a handler is says which fields its state has.
LEMMA TaskShape ==
  ASSUME TypeOK, NEW r \in Requests
  PROVE  /\ task[r].pc = "idle" <=> task[r] = Idle
         /\ task[r].pc = "resolving" <=> task[r] = [pc |-> "resolving"]
         /\ task[r].pc \in {"idle", "resolving"} \cup Serving
         /\ task[r].pc \in Serving => Op(r) \in Ops
         /\ task[r].pc \in Serving \ {"removing", "inspected"} =>
              task[r] = [pc |-> task[r].pc, op |-> Op(r)]
         /\ task[r].pc = "removing" =>
              /\ task[r] = [pc |-> "removing", op |-> Op(r), rest |-> task[r].rest]
              /\ task[r].rest \subseteq Items
         /\ task[r].pc = "inspected" =>
              /\ task[r] = [pc |-> "inspected", op |-> Op(r), root |-> task[r].root]
              /\ task[r].root \in BOOLEAN
<1>1. task[r] \in Tasks
  BY DEF TypeOK
<1>2. CASE task[r] = Idle
  BY <1>2 DEF Idle, Serving, Executing, Renamed
<1>3. CASE task[r] = [pc |-> "resolving"]
  BY <1>3 DEF Idle, Serving, Executing, Renamed
<1>4. CASE task[r] \in [pc : {"scanning", "checking", "isolating", "rescanning", "verifying",
                              "comparing", "restoring", "inspecting"}, op : Ops]
  BY <1>4 DEF Idle, Serving, Executing, Renamed, Op
<1>5. CASE task[r] \in [pc : {"removing"}, op : Ops, rest : SUBSET Items]
  BY <1>5 DEF Idle, Serving, Executing, Renamed, Op
<1>6. CASE task[r] \in [pc : {"inspected"}, op : Ops, root : BOOLEAN]
  BY <1>6 DEF Idle, Serving, Executing, Renamed, Op
<1> QED BY <1>1, <1>2, <1>3, <1>4, <1>5, <1>6 DEF Tasks

LEMMA PlacesOf ==
  ASSUME NEW o \in Ops
  PROVE  /\ Path[o] \in Places /\ Tombstone[o] \in Places /\ Path[o] # Tombstone[o]
         /\ o = "delete" => Path[o] = "root" /\ Tombstone[o] = "tombstone"
         /\ o = "recovery" => Path[o] = "tombstone" /\ Tombstone[o] = "second"
  BY DEF Ops, Places, Path, Tombstone

\* A rename.
LEMMA Moving ==
  ASSUME TypeOK, NEW from \in Places, NEW to \in Places, from # to, Moved(from, to)
  PROVE  /\ dir'[to] = dir[from] /\ dir'[from] = Absent
         /\ \A p \in Places \ {from, to} : dir'[p] = dir[p]
         /\ dir' \in [Places -> Dirs]
<1>1. dir \in [Places -> Dirs] /\ Absent \in Dirs
  BY DEF TypeOK, Dirs
<1> QED BY <1>1 DEF Moved

LEMMA Existing ==
  ASSUME TypeOK, NEW p \in Places
  PROVE  /\ Exists(p) <=> dir[p].id # "none"
         /\ Exists(p) => dir[p].id \in {"ours", "other"}
         /\ ~Exists(p) => dir[p].id = "none" /\ dir[p].entries = {}
         /\ dir[p].entries \subseteq Items
  BY DEF TypeOK, Dirs, Absent, Exists

\* A step of one handler.
LEMMA TaskChange ==
  ASSUME TypeOK, NEW r \in Requests, NEW x \in Tasks, task' = [task EXCEPT ![r] = x]
  PROVE  /\ task' \in [Requests -> Tasks]
         /\ task'[r] = x
         /\ \A q \in Requests \ {r} : task'[q] = task[q]
  BY DEF TypeOK

LEMMA Going ==
  ASSUME TypeOK, NEW r \in Requests, task[r].pc \in Serving \ {"removing", "inspected"},
         NEW pc \in Serving \ {"removing", "inspected"}, Goto(r, pc)
  PROVE  /\ task' = [task EXCEPT ![r] = [pc |-> pc, op |-> Op(r)]]
         /\ [pc |-> pc, op |-> Op(r)] \in Tasks
         /\ task' \in [Requests -> Tasks]
         /\ task'[r] = [pc |-> pc, op |-> Op(r)]
         /\ \A q \in Requests \ {r} : task'[q] = task[q]
<1>1. task[r] = [pc |-> task[r].pc, op |-> Op(r)] /\ Op(r) \in Ops
  BY TaskShape
<1>2. [task[r] EXCEPT !.pc = pc] = [pc |-> pc, op |-> Op(r)]
  BY <1>1
<1>3. task' = [task EXCEPT ![r] = [pc |-> pc, op |-> Op(r)]]
  BY <1>2 DEF Goto
<1>4. [pc |-> pc, op |-> Op(r)] \in Tasks
  BY <1>1 DEF Tasks, Serving, Executing, Renamed
<1> QED BY <1>3, <1>4, TaskChange

\* What is left of an operation that ends.
LEMMA Finalized ==
  ASSUME TypeOK, NEW r \in Requests, task[r].pc \in Executing,
         NEW state, Finalize(r, state)
  PROVE  /\ Op(r) \in Ops
         /\ task' \in [Requests -> Tasks]
         /\ task'[r] = IF Op(r) = "recovery" /\ state = "succeeded"
                       THEN [pc |-> "resolving"] ELSE Idle
         /\ \A q \in Requests \ {r} : task'[q] = task[q]
         /\ record'[Op(r)] = state /\ \A o \in Ops \ {Op(r)} : record'[o] = record[o]
         /\ \A o \in Ops : plan'[o].id = plan[o].id /\ plan'[o].entries = plan[o].entries
         /\ bound' = bound \ {Op(r)}
<1>1. Op(r) \in Ops
  BY TaskShape DEF Serving
<1>2. Idle \in Tasks /\ [pc |-> "resolving"] \in Tasks
  BY DEF Tasks
<1> QED BY <1>1, <1>2, TaskChange DEF Finalize, TypeOK

LEMMA FinalizeTypeOK ==
  ASSUME TypeOK, NEW r \in Requests, task[r].pc \in Executing,
         NEW state \in TERMINAL_STATES \cup Listed, Finalize(r, state),
         dir' \in [Places -> Dirs], pending' \subseteq Ops \cup {"restore"}
  PROVE  TypeOK'
<1>1. /\ Op(r) \in Ops /\ task' \in [Requests -> Tasks]
      /\ task'[r].pc \notin Executing
      /\ \A q \in Requests \ {r} : task'[q] = task[q]
      /\ bound' = bound \ {Op(r)}
  BY Finalized DEF Idle, Executing, Renamed
<1>2. plan' \in [Ops -> [id : {"none", "ours", "other"}, entries : SUBSET Items,
                        consumed : BOOLEAN]]
  <2>1. plan[Op(r)] \in [id : {"none", "ours", "other"}, entries : SUBSET Items,
                         consumed : BOOLEAN]
    BY <1>1 DEF TypeOK
  <2>2. [plan[Op(r)] EXCEPT !.consumed = TRUE]
          \in [id : {"none", "ours", "other"}, entries : SUBSET Items, consumed : BOOLEAN]
    BY <2>1
  <2>3. plan' = [plan EXCEPT ![Op(r)] = [plan[Op(r)] EXCEPT !.consumed = TRUE]]
    BY DEF Finalize
  <2> QED BY <1>1, <2>2, <2>3 DEF TypeOK
<1>3. record' \in [Ops -> TERMINAL_STATES \cup Listed \cup {"none"}]
  BY <1>1 DEF Finalize, TypeOK
<1>4. plan'[Op(r)] # NoPlan /\ \A o \in Ops \ {Op(r)} : plan'[o] = plan[o]
  BY <1>1 DEF Finalize, TypeOK, NoPlan
<1>5. \A q \in Requests : task'[q].pc \in Executing => plan'[Op(q)'] # NoPlan
  <2> SUFFICES ASSUME NEW q \in Requests, task'[q].pc \in Executing
               PROVE  plan'[Op(q)'] # NoPlan
    OBVIOUS
  <2>1. q # r /\ Op(q)' = Op(q) /\ task[q].pc \in Executing
    BY <1>1 DEF Op
  <2>2. Op(q) \in Ops /\ plan[Op(q)] # NoPlan
    BY <2>1, TaskShape DEF TypeOK, Serving, Executing, Renamed
  <2> QED BY <2>1, <2>2, <1>4
<1>6. \A o \in Ops : plan'[o] # NoPlan => record'[o] # "none"
  <2>1. record'[Op(r)] = state /\ \A o \in Ops \ {Op(r)} : record'[o] = record[o]
    BY Finalized
  <2>2. state # "none"
    BY DEF TERMINAL_STATES, Listed
  <2> QED BY <2>1, <2>2, <1>1, <1>4 DEF TypeOK
<1>7. bound' \subseteq {o \in Ops : plan'[o] # NoPlan}
  BY <1>1, <1>4 DEF TypeOK
<1> QED BY <1>1, <1>2, <1>3, <1>5, <1>6, <1>7 DEF TypeOK, Executing, Renamed

\* A handler that goes on, or gives up, and leaves the plans and records.
LEMMA MoveOnTypeOK ==
  ASSUME TypeOK, NEW r \in Requests, NEW x \in Tasks, task' = [task EXCEPT ![r] = x],
         x.pc \in Executing => x.op \in Ops /\ plan[x.op] # NoPlan,
         UNCHANGED <<plan, record>>, bound' \subseteq bound,
         dir' \in [Places -> Dirs], pending' \subseteq Ops \cup {"restore"}
  PROVE  TypeOK'
<1>1. /\ task' \in [Requests -> Tasks] /\ task'[r] = x
      /\ \A q \in Requests \ {r} : task'[q] = task[q]
  BY TaskChange
<1>2. \A q \in Requests : task'[q].pc \in Executing => plan'[Op(q)'] # NoPlan
  BY <1>1 DEF TypeOK, Op, Executing, Renamed
<1> QED BY <1>1, <1>2 DEF TypeOK, Executing, Renamed

-----------------------------------------------------------------------------
(* The types *)

LEMMA MoveOnTypes ==
  ASSUME TypeOK, UNCHANGED <<serverVars, worldVars>>
  PROVE  dir' \in [Places -> Dirs] /\ pending' \subseteq Ops \cup {"restore"}
  BY DEF TypeOK, serverVars

LEMMA StartTypeOK ==
  ASSUME TypeOK, NEW r \in Requests, NEW entry \in Tasks, Start(r, entry),
         entry.pc \in Executing => entry.op \in Ops /\ plan[entry.op] # NoPlan
  PROVE  TypeOK'
<1>1. /\ task' = [task EXCEPT ![r] = entry] /\ UNCHANGED <<plan, record>>
      /\ bound' \subseteq bound /\ UNCHANGED <<serverVars, worldVars>>
  BY DEF Start
<1> QED BY <1>1, MoveOnTypes, MoveOnTypeOK

LEMMA RequestTypeOK ==
  ASSUME TypeOK, NEW r \in Requests, Request(r)
  PROVE  TypeOK'
<1> USE DEF Tasks, Ops, Executing, Renamed
<1>1. CASE RequestPreflight(r)
  <2>1. [pc |-> "scanning", op |-> "delete"] \in Tasks
    OBVIOUS
  <2> QED BY <1>1, <2>1, StartTypeOK DEF RequestPreflight
<1>2. CASE RequestExecute(r)
  <2>1. [pc |-> "checking", op |-> "delete"] \in Tasks
    OBVIOUS
  <2> QED BY <1>2, <2>1, StartTypeOK DEF RequestExecute
<1>3. CASE RequestContinue(r)
  <2>1. [pc |-> "scanning", op |-> "recovery"] \in Tasks
    OBVIOUS
  <2> QED BY <1>3, <2>1, StartTypeOK DEF RequestContinue, RequestRecovery
<1>4. CASE RequestRestore(r)
  <2>1. [pc |-> "comparing", op |-> "recovery"] \in Tasks
    OBVIOUS
  <2> QED BY <1>4, <2>1, StartTypeOK DEF RequestRestore, RequestRecovery
<1>5. CASE RequestInspect(r)
  <2>1. PICK o \in Ops : Start(r, [pc |-> "inspecting", op |-> o])
    BY <1>5 DEF RequestInspect
  <2>2. [pc |-> "inspecting", op |-> o] \in Tasks
    OBVIOUS
  <2> QED BY <2>1, <2>2, StartTypeOK
<1> QED BY <1>1, <1>2, <1>3, <1>4, <1>5 DEF Request

LEMMA FinalizeIfOpenTypeOK ==
  ASSUME TypeOK, NEW r \in Requests, task[r].pc \in Executing, FinalizeIfOpen(r),
         dir' \in [Places -> Dirs], pending' \subseteq Ops \cup {"restore"}
  PROVE  TypeOK'
<1>1. CASE Finalize(r, "failed")
  BY <1>1, FinalizeTypeOK DEF TERMINAL_STATES
<1>2. CASE Leave(r) /\ UNCHANGED <<record, plan>>
  <2>1. Idle \in Tasks /\ Idle.pc \notin Executing
    BY DEF Tasks, Idle, Executing, Renamed
  <2>2. task' = [task EXCEPT ![r] = Idle] /\ bound' \subseteq bound
    BY <1>2 DEF Leave
  <2> QED BY <1>2, <2>1, <2>2, MoveOnTypeOK
<1> QED BY <1>1, <1>2 DEF FinalizeIfOpen

LEMMA HandlerTypeOK ==
  ASSUME TypeOK, NEW r \in Requests, Handler(r)
  PROVE  TypeOK'
<1> DEFINE Same == UNCHANGED <<serverVars, worldVars>>
<1>s. Same => dir' \in [Places -> Dirs] /\ pending' \subseteq Ops \cup {"restore"}
  BY MoveOnTypes
<1>i. Idle \in Tasks /\ Idle.pc \notin Executing
  BY DEF Tasks, Idle, Executing, Renamed
<1>e. Executing \subseteq Serving
  BY DEF Serving
<1>t. \A q \in Requests : task[q].pc \in Executing => Op(q) \in Ops /\ plan[Op(q)] # NoPlan
  BY TaskShape, <1>e DEF TypeOK, Executing, Renamed
<1>f. \A state \in TERMINAL_STATES \cup Listed :
        task[r].pc \in Executing /\ Finalize(r, state) /\ Same => TypeOK'
  BY <1>s, FinalizeTypeOK
<1>g. task[r].pc \in Executing /\ FinalizeIfOpen(r) /\ Same => TypeOK'
  BY <1>s, FinalizeIfOpenTypeOK
<1>h. "failed" \in TERMINAL_STATES /\ "succeeded" \in TERMINAL_STATES
      /\ {"cleanup_required", "outcome_unknown"} \subseteq Listed
  BY DEF TERMINAL_STATES, Listed
<1>x. /\ At(r, "checking") \/ At(r, "isolating") \/ At(r, "rescanning") \/ At(r, "removing")
         \/ At(r, "verifying") => task[r].pc \in Executing
      /\ At(r, "scanning") \/ At(r, "inspecting") \/ At(r, "inspected") \/ At(r, "comparing")
         \/ At(r, "restoring") => task[r].pc \in Serving
  BY DEF At, Executing, Renamed, Serving
<1> HIDE DEF Same
<1>1. CASE Request(r)
  BY <1>1, RequestTypeOK
<1>2. CASE Quit(r)
  <2>1. /\ task' = [task EXCEPT ![r] = Idle] /\ bound' \subseteq bound
        /\ UNCHANGED <<plan, record>> /\ Same
    BY <1>2 DEF Quit, Leave, Same
  <2> QED BY <2>1, <1>i, <1>s, MoveOnTypeOK
<1>3. CASE Scan(r)
  <2> DEFINE o == Op(r)
  <2>1. o \in Ops /\ task[r].pc \in Serving
    BY <1>3, <1>x, TaskShape DEF Scan
  <2>2. /\ Exists(Path[o]) /\ record[o] = "none" /\ Same
        /\ plan' = [plan EXCEPT ![o] = Planned(Path[o])]
        /\ record' = [record EXCEPT ![o] = "preparing"]
        /\ bound' = bound \cup {o}
        /\ task' = [task EXCEPT ![r] = IF o = "recovery"
                                       THEN [pc |-> "checking", op |-> o] ELSE Idle]
    BY <1>3 DEF Scan, Same
  <2> HIDE DEF o
  <2>3. /\ Planned(Path[o]) \in [id : {"ours", "other"}, entries : SUBSET Items,
                                 consumed : BOOLEAN]
        /\ Planned(Path[o]) # NoPlan
    BY <2>1, <2>2, PlacesOf, Existing DEF Planned, Manifest, NoPlan
  <2>4. /\ plan' \in [Ops -> [id : {"none", "ours", "other"}, entries : SUBSET Items,
                            consumed : BOOLEAN]]
        /\ plan'[o] # NoPlan /\ \A q \in Ops \ {o} : plan'[q] = plan[q]
    BY <2>1, <2>2, <2>3 DEF TypeOK
  <2>5. /\ record' \in [Ops -> TERMINAL_STATES \cup Listed \cup {"none"}]
        /\ record'[o] # "none" /\ \A q \in Ops \ {o} : record'[q] = record[q]
    BY <2>1, <2>2 DEF TypeOK, Listed
  <2> DEFINE x == IF o = "recovery" THEN [pc |-> "checking", op |-> o] ELSE Idle
  <2>6. x \in Tasks
    BY <1>i, <2>1 DEF Tasks
  <2>7. /\ task' \in [Requests -> Tasks] /\ task'[r] = x
        /\ \A q \in Requests \ {r} : task'[q] = task[q]
    BY <2>2, <2>6, TaskChange
  <2>8. \A q \in Requests : task'[q].pc \in Executing => plan'[Op(q)'] # NoPlan
    BY <2>1, <2>4, <2>7, <1>t, <1>i DEF Op
  <2>9. bound' \subseteq {q \in Ops : plan'[q] # NoPlan}
    BY <2>1, <2>2, <2>4 DEF TypeOK
  <2>10. \A q \in Ops : plan'[q] # NoPlan => record'[q] # "none"
    BY <2>1, <2>4, <2>5 DEF TypeOK
  <2>11. dir' \in [Places -> Dirs] /\ pending' \subseteq Ops \cup {"restore"}
    BY <2>2, <1>s
  <2> QED BY <2>4, <2>5, <2>7, <2>8, <2>9, <2>10, <2>11 DEF TypeOK, Executing, Renamed
<1>4. CASE Check(r)
  <2> DEFINE x == [pc |-> "isolating", op |-> Op(r)]
  <2>1. task[r].pc \in Executing /\ task[r] = [pc |-> "checking", op |-> Op(r)]
    BY <1>4, <1>x, <1>e, TaskShape DEF Check, At
  <2>2. x \in Tasks /\ x.pc \in Executing /\ Op(r) \in Ops /\ plan[Op(r)] # NoPlan
    BY <2>1, <1>t DEF Tasks, Executing
  <2>3. task' = [task EXCEPT ![r] = x]
    <3>1. /\ "checking" \in Serving \ {"removing", "inspected"}
          /\ "isolating" \in Serving \ {"removing", "inspected"}
      BY DEF Serving, Executing, Renamed
    <3>2. task[r].pc = "checking" /\ Goto(r, "isolating")
      BY <1>4 DEF Check, At
    <3> QED BY <3>1, <3>2, Going
  <2>4. bound' = bound /\ UNCHANGED <<plan, record>> /\ Same
    BY <1>4 DEF Check, Same
  <2> QED BY <2>2, <2>3, <2>4, <1>s, MoveOnTypeOK
<1>5. CASE CheckFails(r)
  BY <1>5, <1>g, <1>x DEF CheckFails, Same
<1>6. CASE CheckDenied(r)
  BY <1>6, <1>f, <1>h, <1>x DEF CheckDenied, Same
<1>7. CASE Isolate(r)
  <2> DEFINE x == [pc |-> "rescanning", op |-> Op(r)]
  <2>1. task[r].pc \in Executing /\ task[r] = [pc |-> "isolating", op |-> Op(r)]
    BY <1>7, <1>x, <1>e, TaskShape DEF Isolate, At
  <2>2. x \in Tasks /\ x.pc \in Executing /\ Op(r) \in Ops /\ plan[Op(r)] # NoPlan
    BY <2>1, <1>t DEF Tasks, Executing, Renamed
  <2>3. task' = [task EXCEPT ![r] = x]
    <3>1. /\ "isolating" \in Serving \ {"removing", "inspected"}
          /\ "rescanning" \in Serving \ {"removing", "inspected"}
      BY DEF Serving, Executing, Renamed
    <3>2. task[r].pc = "isolating" /\ Goto(r, "rescanning")
      BY <1>7 DEF Isolate, At
    <3> QED BY <3>1, <3>2, Going
  <2>4. bound' = bound /\ UNCHANGED <<plan, record>> /\ pending' = pending
    BY <1>7 DEF Isolate
  <2>5. dir' \in [Places -> Dirs]
    BY <1>7, <2>2, PlacesOf, Moving DEF Isolate
  <2> QED BY <2>2, <2>3, <2>4, <2>5, MoveOnTypeOK DEF TypeOK
<1>8. CASE IsolateRefused(r)
  BY <1>8, <1>g, <1>x DEF IsolateRefused, Same
<1>9. CASE IsolateUnknown(r)
  <2>1. Op(r) \in Ops /\ task[r].pc \in Executing /\ Finalize(r, "outcome_unknown")
    BY <1>9, <1>x, <1>t DEF IsolateUnknown
  <2>2. pending' \subseteq Ops \cup {"restore"}
    BY <1>9, <2>1 DEF IsolateUnknown, serverVars, TypeOK
  <2>3. dir' = dir \/ Moved(Path[Op(r)], Tombstone[Op(r)])
    BY <1>9 DEF IsolateUnknown, serverVars
  <2>4. dir' \in [Places -> Dirs]
    BY <2>1, <2>3, PlacesOf, Moving DEF TypeOK
  <2> QED BY <2>1, <2>2, <2>4, <1>h, FinalizeTypeOK
<1>10. CASE Rescan(r)
  <2> DEFINE p == Tombstone[Op(r)]
             x == [pc |-> "removing", op |-> Op(r), rest |-> dir[p].entries]
  <2>1. Op(r) \in Ops /\ plan[Op(r)] # NoPlan
    BY <1>10, <1>x, <1>t DEF Rescan
  <2>2. dir[p].entries \subseteq Items
    BY <2>1, PlacesOf, Existing
  <2>3. x \in Tasks /\ x.op = Op(r)
    BY <2>1, <2>2 DEF Tasks
  <2>4. task' = [task EXCEPT ![r] = x] /\ bound' = bound /\ UNCHANGED <<plan, record>> /\ Same
    BY <1>10 DEF Rescan, Same
  <2> QED BY <2>1, <2>3, <2>4, <1>s, MoveOnTypeOK
<1>11. CASE NeedsCleanup(r)
  BY <1>11, <1>f, <1>h, <1>x DEF NeedsCleanup, Same, At
<1>12. CASE RemoveEntry(r)
  <2>1. Op(r) \in Ops /\ plan[Op(r)] # NoPlan /\ task[r].pc \in Executing
    BY <1>12, <1>x, <1>t DEF RemoveEntry
  <2>2. PICK e \in task[r].rest \cap dir[Tombstone[Op(r)]].entries :
          /\ dir' = [dir EXCEPT ![Tombstone[Op(r)]].entries = @ \ {e}]
          /\ \/ /\ task' = [task EXCEPT ![r].rest = @ \ {e}]
                /\ UNCHANGED <<plan, bound, record>>
             \/ Finalize(r, "cleanup_required")
    BY <1>12 DEF RemoveEntry
  <2>3. dir' \in [Places -> Dirs] /\ pending' \subseteq Ops \cup {"restore"}
    <3>1. Tombstone[Op(r)] \in Places /\ dir[Tombstone[Op(r)]] \in Dirs
      BY <2>1, PlacesOf DEF TypeOK
    <3>2. [dir[Tombstone[Op(r)]] EXCEPT !.entries = @ \ {e}] \in Dirs
      BY <2>2, <3>1 DEF Dirs, Absent
    <3> QED BY <1>12, <2>2, <3>1, <3>2 DEF TypeOK, RemoveEntry
  <2>4. CASE Finalize(r, "cleanup_required")
    BY <2>1, <2>3, <2>4, <1>h, FinalizeTypeOK
  <2>5. CASE task' = [task EXCEPT ![r].rest = @ \ {e}] /\ UNCHANGED <<plan, bound, record>>
    <3> DEFINE x == [pc |-> "removing", op |-> Op(r), rest |-> task[r].rest \ {e}]
    <3>1. /\ task[r] = [pc |-> "removing", op |-> Op(r), rest |-> task[r].rest]
          /\ task[r].rest \subseteq Items
      BY <1>12, TaskShape DEF RemoveEntry, At
    <3>2. [task[r] EXCEPT !.rest = @ \ {e}] = x
      BY <3>1
    <3>3. x \in Tasks /\ x.op = Op(r)
      BY <2>1, <3>1 DEF Tasks
    <3>4. task' = [task EXCEPT ![r] = x]
      BY <2>5, <3>2
    <3> QED BY <2>1, <2>3, <2>5, <3>3, <3>4, MoveOnTypeOK
  <2> QED BY <2>2, <2>4, <2>5
<1>13. CASE RemoveDirectory(r)
  <2> DEFINE x == [pc |-> "verifying", op |-> Op(r)]
  <2>1. Op(r) \in Ops /\ plan[Op(r)] # NoPlan /\ task[r].pc \in Executing
    BY <1>13, <1>x, <1>t DEF RemoveDirectory
  <2>2. dir' \in [Places -> Dirs] /\ pending' \subseteq Ops \cup {"restore"}
    BY <1>13, <2>1, PlacesOf DEF RemoveDirectory, TypeOK, Dirs
  <2>3. x \in Tasks
    BY <2>1 DEF Tasks
  <2>4. CASE Finalize(r, "cleanup_required")
    BY <2>1, <2>2, <2>4, <1>h, FinalizeTypeOK
  <2>5. CASE task' = [task EXCEPT ![r] = x] /\ UNCHANGED <<plan, bound, record>>
    BY <2>1, <2>2, <2>3, <2>5, MoveOnTypeOK
  <2> QED BY <1>13, <2>4, <2>5 DEF RemoveDirectory
<1>14. CASE Verify(r)
  BY <1>14, <1>f, <1>h, <1>x DEF Verify, Same
<1>15. CASE VerifyDenied(r)
  BY <1>15, <1>f, <1>h, <1>x DEF VerifyDenied, Same
<1>16. CASE VerifyTimesOut(r)
  BY <1>16, <1>g, <1>x DEF VerifyTimesOut, Same
<1>17. CASE InspectRoot(r)
  <2> DEFINE x == [pc |-> "inspected", op |-> Op(r), root |-> Exists(Path[Op(r)])]
  <2>1. Op(r) \in Ops /\ Exists(Path[Op(r)]) \in BOOLEAN
    BY <1>17, <1>x, TaskShape DEF InspectRoot, Exists
  <2>2. x \in Tasks /\ x.pc \notin Executing
    BY <2>1 DEF Tasks, Executing, Renamed
  <2>3. task' = [task EXCEPT ![r] = x] /\ bound' = bound /\ UNCHANGED <<plan, record>> /\ Same
    BY <1>17 DEF InspectRoot, Same
  <2> QED BY <2>2, <2>3, <1>s, MoveOnTypeOK
<1>18. CASE InspectTombstone(r)
  <2>1. Op(r) \in Ops
    BY <1>18, <1>x, TaskShape DEF InspectTombstone
  <2>2. task' \in [Requests -> Tasks] /\ task'[r] = Idle
        /\ \A q \in Requests \ {r} : task'[q] = task[q]
    BY <1>18, <1>i, TaskChange DEF InspectTombstone
  <2>3. /\ record' \in [Ops -> TERMINAL_STATES \cup Listed \cup {"none"}]
        /\ \A o \in Ops : record[o] # "none" => record'[o] # "none"
    BY <1>18, <2>1, <1>h DEF InspectTombstone, TypeOK, TERMINAL_STATES
  <2>4. UNCHANGED <<plan, bound>> /\ Same
    BY <1>18 DEF InspectTombstone, Same
  <2>5. \A q \in Requests : task'[q].pc \in Executing => plan'[Op(q)'] # NoPlan
    BY <2>2, <2>4, <1>t, <1>i DEF Op
  <2> QED BY <2>2, <2>3, <2>4, <2>5, <1>s DEF TypeOK, Executing, Renamed
<1>19. CASE Compare(r)
  <2> DEFINE x == [pc |-> "restoring", op |-> Op(r)]
  <2>1. Op(r) \in Ops /\ task[r] = [pc |-> "comparing", op |-> Op(r)]
    BY <1>19, <1>x, TaskShape DEF Compare, At
  <2>2. task' = [task EXCEPT ![r] = x] /\ x \in Tasks
    BY <1>19, <2>1, Going DEF Compare, Serving
  <2>3. task' \in [Requests -> Tasks] /\ task'[r] = x
        /\ \A q \in Requests \ {r} : task'[q] = task[q]
    BY <2>2, TaskChange
  <2>4. /\ record' \in [Ops -> TERMINAL_STATES \cup Listed \cup {"none"}]
        /\ \A o \in Ops : record[o] # "none" => record'[o] # "none"
    BY <1>19 DEF Compare, TypeOK, Listed
  <2>5. UNCHANGED <<plan, bound>> /\ Same
    BY <1>19 DEF Compare, Same
  <2>6. \A q \in Requests : task'[q].pc \in Executing => plan'[Op(q)'] # NoPlan
    BY <2>3, <2>5, <1>t DEF Op, Executing, Renamed
  <2> QED BY <2>3, <2>4, <2>5, <2>6, <1>s DEF TypeOK, Executing, Renamed
<1>20. ASSUME NEW state \in TERMINAL_STATES \cup Listed, NEW next \in {Idle, [pc |-> "resolving"]},
              SettleRestore(r, state, next),
              dir' \in [Places -> Dirs], pending' \subseteq Ops \cup {"restore"}
       PROVE  TypeOK'
  <2>1. next \in Tasks /\ next.pc \notin Executing
    BY <1>i DEF Tasks, Executing, Renamed
  <2>2. task' \in [Requests -> Tasks] /\ task'[r] = next
        /\ \A q \in Requests \ {r} : task'[q] = task[q]
    BY <1>20, <2>1, TaskChange DEF SettleRestore
  <2>3. /\ record' \in [Ops -> TERMINAL_STATES \cup Listed \cup {"none"}]
        /\ \A o \in Ops : record[o] # "none" => record'[o] # "none"
    BY <1>20 DEF SettleRestore, TypeOK, Listed, TERMINAL_STATES
  <2>4. UNCHANGED <<plan, bound>>
    BY <1>20 DEF SettleRestore
  <2>5. \A q \in Requests : task'[q].pc \in Executing => plan'[Op(q)'] # NoPlan
    BY <2>1, <2>2, <2>4, <1>t DEF Op
  <2> QED BY <1>20, <2>2, <2>3, <2>4, <2>5 DEF TypeOK, Executing, Renamed
<1>m. /\ Moved("tombstone", "root") => dir' \in [Places -> Dirs]
      /\ dir' = dir => dir' \in [Places -> Dirs]
  BY Moving DEF Places, TypeOK
<1>21. CASE Restore(r)
  BY <1>21, <1>20, <1>m, <1>h DEF Restore, TypeOK
<1>22. CASE RestoreRefused(r)
  BY <1>22, <1>20, <1>m, <1>h DEF RestoreRefused, TypeOK, serverVars
<1>23. CASE RestoreUnknown(r)
  <2>1. dir' \in [Places -> Dirs]
    BY <1>23, <1>m DEF RestoreUnknown, serverVars
  <2>2. pending' \subseteq Ops \cup {"restore"}
    BY <1>23 DEF RestoreUnknown, TypeOK, serverVars
  <2> QED BY <1>23, <1>20, <2>1, <2>2, <1>h DEF RestoreUnknown
<1>24. CASE ResolveOld(r)
  <2>2. task' \in [Requests -> Tasks] /\ task'[r] = Idle
        /\ \A q \in Requests \ {r} : task'[q] = task[q]
    BY <1>24, <1>i, TaskChange DEF ResolveOld
  <2>3. /\ record' \in [Ops -> TERMINAL_STATES \cup Listed \cup {"none"}]
        /\ \A o \in Ops : record[o] # "none" => record'[o] # "none"
    BY <1>24, <1>h DEF ResolveOld, TypeOK, TERMINAL_STATES
  <2>4. UNCHANGED <<plan, bound>> /\ Same
    BY <1>24 DEF ResolveOld, Same
  <2>5. \A q \in Requests : task'[q].pc \in Executing => plan'[Op(q)'] # NoPlan
    BY <2>2, <2>4, <1>t, <1>i DEF Op
  <2> QED BY <2>2, <2>3, <2>4, <2>5, <1>s DEF TypeOK, Executing, Renamed
<1> QED
  BY <1>1, <1>2, <1>3, <1>4, <1>5, <1>6, <1>7, <1>8, <1>9, <1>10, <1>11, <1>12, <1>13,
     <1>14, <1>15, <1>16, <1>17, <1>18, <1>19, <1>21, <1>22, <1>23, <1>24 DEF Handler

LEMMA TypeOKStep ==
  ASSUME TypeOK, [Next]_vars
  PROVE  TypeOK'
<1>m. ASSUME NEW from \in Places, NEW to \in Places, from # to, Moved(from, to) \/ dir' = dir
      PROVE  dir' \in [Places -> Dirs]
  BY <1>m, Moving DEF TypeOK
<1>u. ASSUME UNCHANGED <<task, plan, bound, record>>, dir' \in [Places -> Dirs],
             pending' \subseteq pending
      PROVE  TypeOK'
  BY <1>u DEF TypeOK, Op
<1>1. ASSUME NEW r \in Requests, Handler(r) PROVE TypeOK'
  BY <1>1, HandlerTypeOK
<1>2. ASSUME NEW o \in Ops, LateRename(o) PROVE TypeOK'
  BY <1>2, <1>m, <1>u, PlacesOf DEF LateRename
<1>3. CASE LateRestore
  BY <1>3, <1>m, <1>u DEF LateRestore, Places
<1>4. CASE AddEntry
  <2>1. PICK p \in Places :
          Exists(p) /\ dir' = [dir EXCEPT ![p].entries = @ \cup {Foreign}]
    BY <1>4 DEF AddEntry
  <2>2. [dir[p] EXCEPT !.entries = @ \cup {Foreign}] \in Dirs
    BY <2>1 DEF TypeOK, Dirs, Items, Exists
  <2> QED BY <1>4, <1>u, <2>1, <2>2 DEF AddEntry, TypeOK
<1>5. CASE RecreateRoot
  BY <1>5, <1>u DEF RecreateRoot, TypeOK, Dirs
<1>6. CASE Restart
  <2>1. pending' \subseteq Ops \cup {"restore"}
    BY <1>6, TaskShape DEF Restart, TypeOK, At, Serving, Executing
  <2> QED BY <1>6, <2>1 DEF Restart, TypeOK, Tasks, Idle
<1>7. CASE UNCHANGED vars
  BY <1>7, <1>u DEF vars, serverVars, TypeOK
<1> QED BY <1>1, <1>2, <1>3, <1>4, <1>5, <1>6, <1>7 DEF Next

-----------------------------------------------------------------------------
(* What a handler's step can change *)

LEMMA HandlerTasks ==
  ASSUME TypeOK, NEW r \in Requests, Handler(r)
  PROVE  \A q \in Requests \ {r} : task'[q] = task[q]
  BY ZenonT(60) DEF Handler, Request, Quit, Scan, Check, CheckFails, CheckDenied,
         Isolate, IsolateRefused, IsolateUnknown, Rescan, NeedsCleanup, RemoveEntry,
         RemoveDirectory, Verify, VerifyDenied, VerifyTimesOut, InspectRoot,
         InspectTombstone, Compare, Restore, RestoreRefused, RestoreUnknown, ResolveOld,
         RequestPreflight, RequestExecute, RequestContinue, RequestRestore, RequestInspect,
         RequestRecovery, Start, FinalizeIfOpen, Finalize, Leave, Goto, SettleRestore, TypeOK

\* The directories change by a rename that finds its target free, and below a
\* tombstone.
LEMMA HandlerDirs ==
  ASSUME TypeOK, NEW r \in Requests, Handler(r)
  PROVE  \/ dir' = dir
         \/ /\ At(r, "isolating") /\ MayIsolate(Op(r))
            /\ Moved(Path[Op(r)], Tombstone[Op(r)])
         \/ At(r, "restoring") /\ MayRestore /\ Moved("tombstone", "root")
         \/ RemoveEntry(r)
         \/ RemoveDirectory(r)
  BY DEF Handler, Request, Quit, Scan, Check, CheckFails, CheckDenied,
         Isolate, IsolateRefused, IsolateUnknown, Rescan, NeedsCleanup,
         Verify, VerifyDenied, VerifyTimesOut, InspectRoot,
         InspectTombstone, Compare, Restore, RestoreRefused, RestoreUnknown, ResolveOld,
         RequestPreflight, RequestExecute, RequestContinue, RequestRestore, RequestInspect,
         RequestRecovery, Start, serverVars

\* A plan is bound when it is stored, and only then.
LEMMA HandlerBound ==
  ASSUME NEW r \in Requests, Handler(r)
  PROVE  Scan(r) \/ bound' \subseteq bound
  BY DEF Handler, Request, Quit, Check, CheckFails, CheckDenied,
         Isolate, IsolateRefused, IsolateUnknown, Rescan, NeedsCleanup, RemoveEntry,
         RemoveDirectory, Verify, VerifyDenied, VerifyTimesOut, InspectRoot,
         InspectTombstone, Compare, Restore, RestoreRefused, RestoreUnknown, ResolveOld,
         RequestPreflight, RequestExecute, RequestContinue, RequestRestore, RequestInspect,
         RequestRecovery, Start, FinalizeIfOpen, Finalize, Leave, SettleRestore

LEMMA HandlerPending ==
  ASSUME NEW r \in Requests, Handler(r)
  PROVE  \/ pending' \subseteq pending
         \/ IsolateUnknown(r) /\ pending' = pending \cup {Op(r)}
         \/ RestoreUnknown(r) /\ pending' = pending \cup {"restore"}
  BY DEF Handler, Request, Quit, Scan, Check, CheckFails, CheckDenied,
         Isolate, IsolateRefused, IsolateUnknown, Rescan, NeedsCleanup, RemoveEntry,
         RemoveDirectory, Verify, VerifyDenied, VerifyTimesOut, InspectRoot,
         InspectTombstone, Compare, Restore, RestoreRefused, RestoreUnknown, ResolveOld,
         RequestPreflight, RequestExecute, RequestContinue, RequestRestore, RequestInspect,
         RequestRecovery, Start, serverVars

\* Plans keep what they list, once they are stored.
LEMMA HandlerPlans ==
  ASSUME TypeOK, NEW r \in Requests, Handler(r)
  PROVE  \/ Scan(r)
         \/ \A o \in Ops : plan'[o].id = plan[o].id /\ plan'[o].entries = plan[o].entries
<1>1. \/ Scan(r)
      \/ plan' = plan
      \/ plan' = [plan EXCEPT ![Op(r)].consumed = TRUE]
  BY DEF Handler, Request, Quit, Check, CheckFails, CheckDenied,
         Isolate, IsolateRefused, IsolateUnknown, Rescan, NeedsCleanup, RemoveEntry,
         RemoveDirectory, Verify, VerifyDenied, VerifyTimesOut, InspectRoot,
         InspectTombstone, Compare, Restore, RestoreRefused, RestoreUnknown, ResolveOld,
         RequestPreflight, RequestExecute, RequestContinue, RequestRestore, RequestInspect,
         RequestRecovery, Start, SettleRestore, FinalizeIfOpen, Finalize
<1>2. ASSUME plan' = [plan EXCEPT ![Op(r)].consumed = TRUE]
      PROVE  \A o \in Ops : plan'[o].id = plan[o].id /\ plan'[o].entries = plan[o].entries
  BY <1>2 DEF TypeOK
<1> QED BY <1>1, <1>2

\* Which steps write a record, and what.
LEMMA HandlerRecords ==
  ASSUME TypeOK, NEW r \in Requests, Handler(r)
  PROVE  \/ record' = record
         \/ Scan(r)
         \/ Compare(r)
         \/ /\ task[r].pc \in Executing
            /\ \E state \in TERMINAL_STATES \cup Listed : Finalize(r, state)
         \/ InspectTombstone(r)
         \/ At(r, "restoring") /\ \E state \in TERMINAL_STATES \cup Listed :
              record' = [record EXCEPT !["recovery"] = state]
         \/ ResolveOld(r)
<1>h. "failed" \in TERMINAL_STATES /\ "succeeded" \in TERMINAL_STATES
      /\ {"cleanup_required", "outcome_unknown"} \subseteq Listed
  BY DEF TERMINAL_STATES, Listed
<1>1. CASE Request(r) \/ Quit(r) \/ Check(r) \/ Isolate(r) \/ Rescan(r) \/ InspectRoot(r)
  BY <1>1 DEF Request, Quit, Check, Isolate, Rescan, InspectRoot,
         RequestPreflight, RequestExecute, RequestContinue, RequestRestore, RequestInspect,
         RequestRecovery, Start
<1>2. CASE CheckFails(r) \/ CheckDenied(r) \/ IsolateRefused(r) \/ IsolateUnknown(r)
           \/ NeedsCleanup(r) \/ RemoveEntry(r) \/ RemoveDirectory(r) \/ Verify(r)
           \/ VerifyDenied(r) \/ VerifyTimesOut(r)
  <2>1. task[r].pc \in Executing
    BY <1>2 DEF CheckFails, CheckDenied, IsolateRefused, IsolateUnknown, NeedsCleanup,
                RemoveEntry, RemoveDirectory, Verify, VerifyDenied, VerifyTimesOut, At,
                Executing, Renamed
  <2>2. record' = record \/ \E state \in TERMINAL_STATES \cup Listed : Finalize(r, state)
    BY <1>2, <1>h DEF CheckFails, CheckDenied, IsolateRefused, IsolateUnknown, NeedsCleanup,
                RemoveEntry, RemoveDirectory, Verify, VerifyDenied, VerifyTimesOut, 
                FinalizeIfOpen
  <2> QED BY <2>1, <2>2
<1>3. CASE Restore(r) \/ RestoreRefused(r) \/ RestoreUnknown(r)
  BY <1>3, <1>h DEF Restore, RestoreRefused, RestoreUnknown, SettleRestore
<1> QED BY <1>1, <1>2, <1>3 DEF Handler

\* A record is written, by the handler of its operation or of the recovery.
LEMMA RecordsStay ==
  ASSUME TypeOK, SentOnce, NEW r \in Requests, Handler(r)
  PROVE  /\ \A o \in Ops : record[o] # "none" => record'[o] # "none"
         /\ record["delete"] = "none" /\ record'["delete"] # "none" =>
              At(r, "scanning") /\ Op(r) = "delete"
         /\ record["recovery"] = "none" /\ record'["recovery"] # "none" =>
              record["delete"] # "none" /\ (Scan(r) \/ Compare(r))
<1> USE DEF Ops
<1>h. "none" \notin TERMINAL_STATES \cup Listed
  BY DEF TERMINAL_STATES, Listed
<1>1. CASE record' = record
  BY <1>1
<1>2. CASE Scan(r)
  <2>1. Op(r) \in Ops /\ At(r, "scanning")
    BY <1>2, TaskShape DEF Scan, At, Serving
  <2>2. Op(r) = "recovery" => record["delete"] # "none"
    BY <2>1 DEF SentOnce, Recovers, Runs, At, Op
  <2> QED BY <1>2, <2>1, <2>2 DEF Scan, TypeOK
<1>3. CASE Compare(r)
  <2>1. record["delete"] # "none"
    BY <1>3 DEF Compare, SentOnce, Recovers, At
  <2> QED BY <1>3, <2>1 DEF Compare, TypeOK
<1>4. ASSUME task[r].pc \in Executing, NEW state \in TERMINAL_STATES \cup Listed,
             Finalize(r, state)
      PROVE  \A o \in Ops : /\ record[o] # "none" => record'[o] # "none"
                            /\ record[o] = "none" => record'[o] = "none"
  <2>1. Op(r) \in Ops /\ record'[Op(r)] = state
        /\ \A o \in Ops \ {Op(r)} : record'[o] = record[o]
    BY <1>4, Finalized
  <2>2. record[Op(r)] # "none"
    BY <1>4, <2>1 DEF TypeOK, Executing, Renamed
  <2> QED BY <1>h, <2>1, <2>2
<1>5. CASE InspectTombstone(r)
  <2>1. Op(r) \in Ops /\ record[Op(r)] # "none"
    BY <1>5, TaskShape DEF InspectTombstone, At, Serving, SentOnce
  <2> QED BY <1>5, <2>1 DEF InspectTombstone, TypeOK
<1>6. ASSUME At(r, "restoring"), NEW state \in TERMINAL_STATES \cup Listed,
             record' = [record EXCEPT !["recovery"] = state]
      PROVE  \A o \in Ops : /\ record[o] # "none" => record'[o] # "none"
                            /\ record[o] = "none" => record'[o] = "none"
  BY <1>6, <1>h DEF TypeOK, SentOnce
<1>7. CASE ResolveOld(r)
  BY <1>7 DEF ResolveOld, TypeOK, SentOnce, Recovers, At
<1> QED BY <1>1, <1>2, <1>3, <1>4, <1>5, <1>6, <1>7, HandlerRecords

-----------------------------------------------------------------------------
(* Requests are sent once *)

\* The states that say of an operation that it is recorded are entered with it.
LEMMA HandlerRecorded ==
  ASSUME TypeOK, SentOnce, NEW r \in Requests, Handler(r)
  PROVE  /\ (At(r, "restoring") \/ At(r, "resolving"))' => record'["recovery"] # "none"
         /\ task'[r].pc \in {"inspecting", "inspected"} => record'[Op(r)'] # "none"
         /\ Recovers(r)' => record'["delete"] # "none"
<1> USE DEF Ops
<1>s. \A o \in Ops : record[o] # "none" => record'[o] # "none"
  BY RecordsStay
<1>l. "none" \notin Listed
  BY DEF Listed
<1>i. ASSUME task'[r] = Idle
      PROVE  /\ ~At(r, "restoring")' /\ ~At(r, "resolving")' /\ ~Recovers(r)'
             /\ task'[r].pc \notin {"inspecting", "inspected"}
  BY <1>i DEF Idle, At, Recovers, Runs, Executing, Renamed
<1>x. ASSUME NEW x \in Tasks, task' = [task EXCEPT ![r] = x] PROVE task'[r] = x
  BY <1>x, TaskChange
<1>y. Idle \in Tasks
  BY DEF Tasks
<1>d. \A o \in Ops : plan[o] # NoPlan => record[o] # "none"
  BY DEF TypeOK
<1>1. ASSUME NEW entry \in Tasks, Start(r, entry)
      PROVE  task'[r] = entry /\ record' = record
  BY <1>1, <1>x DEF Start
<1>2. CASE RequestPreflight(r) \/ RequestExecute(r)
  <2>1. [pc |-> "scanning", op |-> "delete"] \in Tasks /\ [pc |-> "checking", op |-> "delete"] \in Tasks
    BY DEF Tasks
  <2>2. task'[r] = [pc |-> "scanning", op |-> "delete"]
        \/ task'[r] = [pc |-> "checking", op |-> "delete"]
    BY <1>2, <1>1, <2>1 DEF RequestPreflight, RequestExecute
  <2> QED BY <2>2 DEF At, Recovers, Runs
<1>3. CASE RequestContinue(r) \/ RequestRestore(r)
  <2>1. [pc |-> "scanning", op |-> "recovery"] \in Tasks /\ [pc |-> "comparing", op |-> "recovery"] \in Tasks
    BY DEF Tasks
  <2>2. /\ \/ task'[r] = [pc |-> "scanning", op |-> "recovery"]
           \/ task'[r] = [pc |-> "comparing", op |-> "recovery"]
        /\ record["delete"] \in Listed
    BY <1>3, <1>1, <2>1 DEF RequestContinue, RequestRestore, RequestRecovery, Recoverable
  <2> QED BY <2>2, <1>s, <1>l DEF At
<1>4. CASE RequestInspect(r)
  <2>1. PICK o \in Ops : Recoverable(o) /\ Start(r, [pc |-> "inspecting", op |-> o])
    BY <1>4 DEF RequestInspect
  <2>2. [pc |-> "inspecting", op |-> o] \in Tasks
    BY DEF Tasks
  <2>3. task'[r] = [pc |-> "inspecting", op |-> o] /\ record[o] # "none"
    BY <2>1, <2>2, <1>1, <1>l DEF Recoverable
  <2> QED BY <2>3, <1>s DEF At, Recovers, Runs, Op, Executing, Renamed
<1>5. CASE Quit(r) \/ InspectTombstone(r) \/ ResolveOld(r) \/ RestoreRefused(r) \/ RestoreUnknown(r)
  <2>1. task'[r] = Idle
    BY <1>5, <1>x, <1>y DEF Quit, Leave, InspectTombstone, ResolveOld, RestoreRefused,
                             RestoreUnknown, SettleRestore
  <2> QED BY <2>1, <1>i
<1>6. CASE Scan(r)
  <2> DEFINE x == IF Op(r) = "recovery" THEN [pc |-> "checking", op |-> Op(r)] ELSE Idle
  <2>1. Op(r) \in Ops /\ x \in Tasks
    BY <1>6, <1>y, TaskShape DEF Scan, At, Serving, Tasks
  <2>2. task'[r] = x
    BY <1>6, <2>1, <1>x DEF Scan
  <2>3. CASE Op(r) = "recovery"
    <3>1. Recovers(r)
      BY <1>6, <2>3 DEF Scan, At, Recovers, Runs, Op
    <3>2. record["delete"] # "none"
      BY <3>1 DEF SentOnce
    <3> QED BY <2>2, <2>3, <3>2, <1>s DEF At
  <2>4. CASE Op(r) # "recovery"
    BY <2>2, <2>4, <1>i
  <2> QED BY <2>3, <2>4
<1>7. ASSUME NEW x \in Tasks, task'[r] = x, task[r].pc \in Executing, x.pc \in Executing, x.op = Op(r)
      PROVE  /\ ~At(r, "restoring")' /\ ~At(r, "resolving")'
             /\ task'[r].pc \notin {"inspecting", "inspected"}
             /\ Recovers(r)' => record'["delete"] # "none"
  <2>1. Recovers(r)' => Recovers(r)
    BY <1>7 DEF Recovers, Runs, Executing, Renamed, Op
  <2> QED BY <1>7, <2>1, <1>s DEF SentOnce, At, Executing, Renamed
<1>8. CASE Check(r)
  <2>1. task[r].pc = "checking" /\ Goto(r, "isolating")
    BY <1>8 DEF Check, At
  <2>2. [pc |-> "isolating", op |-> Op(r)] \in Tasks /\ task'[r] = [pc |-> "isolating", op |-> Op(r)]
    BY <2>1, Going DEF Serving, Executing
  <2> QED BY <2>1, <2>2, <1>7 DEF Executing
<1>9. CASE Isolate(r)
  <2>1. task[r].pc = "isolating" /\ Goto(r, "rescanning")
    BY <1>9 DEF Isolate, At
  <2>2. [pc |-> "rescanning", op |-> Op(r)] \in Tasks /\ task'[r] = [pc |-> "rescanning", op |-> Op(r)]
    BY <2>1, Going DEF Serving, Executing, Renamed
  <2> QED BY <2>1, <2>2, <1>7 DEF Executing, Renamed
<1>10. ASSUME task[r].pc \in Executing, NEW state \in TERMINAL_STATES \cup Listed, Finalize(r, state)
       PROVE  /\ (At(r, "restoring") \/ At(r, "resolving"))' => record'["recovery"] # "none"
              /\ task'[r].pc \notin {"inspecting", "inspected"}
              /\ Recovers(r)' => record'["delete"] # "none"
  <2>1. Op(r) \in Ops /\ task'[r] = IF Op(r) = "recovery" /\ state = "succeeded"
                     THEN [pc |-> "resolving"] ELSE Idle
    BY <1>10, Finalized
  <2>2. CASE task'[r] = Idle
    BY <2>2, <1>i
  <2>3. CASE Op(r) = "recovery" /\ task'[r] = [pc |-> "resolving"]
    <3>1. Recovers(r) /\ record["recovery"] # "none"
      BY <1>10, <2>3, <1>d DEF Recovers, Runs, Op, TypeOK, Executing, Renamed
    <3> QED BY <2>3, <3>1, <1>s DEF SentOnce
  <2> QED BY <2>1, <2>2, <2>3
<1>11. CASE Leave(r)
  BY <1>11, <1>x, <1>y, <1>i DEF Leave
<1>12. "failed" \in TERMINAL_STATES /\ "succeeded" \in TERMINAL_STATES
      /\ {"cleanup_required", "outcome_unknown"} \subseteq Listed
  BY DEF TERMINAL_STATES, Listed
<1>13. CASE CheckFails(r) \/ CheckDenied(r) \/ IsolateRefused(r) \/ IsolateUnknown(r)
           \/ NeedsCleanup(r) \/ Verify(r) \/ VerifyDenied(r) \/ VerifyTimesOut(r)
  <2>1. task[r].pc \in Executing
    BY <1>13 DEF CheckFails, CheckDenied, IsolateRefused, IsolateUnknown, NeedsCleanup,
                 Verify, VerifyDenied, VerifyTimesOut, At, Executing, Renamed
  <2>2. Leave(r) \/ \E state \in TERMINAL_STATES \cup Listed : Finalize(r, state)
    BY <1>13, <1>12 DEF CheckFails, CheckDenied, IsolateRefused, IsolateUnknown, NeedsCleanup,
                 Verify, VerifyDenied, VerifyTimesOut, FinalizeIfOpen
  <2> QED BY <2>1, <2>2, <1>10, <1>11
<1>14. CASE Rescan(r) \/ RemoveEntry(r) \/ RemoveDirectory(r)
  <2>1. task[r].pc \in Executing /\ Op(r) \in Ops
    BY <1>14, TaskShape DEF Rescan, RemoveEntry, RemoveDirectory, At, Executing, Renamed, Serving
  <2>2. CASE \E state \in TERMINAL_STATES \cup Listed : Finalize(r, state)
    BY <2>1, <2>2, <1>10
  <2>3. CASE task'[r].pc \in Executing /\ Op(r)' = Op(r)
    <3>1. task'[r] \in Tasks
      BY HandlerTypeOK DEF TypeOK
    <3> QED BY <2>1, <2>3, <3>1, <1>7 DEF Op
  <2>4. CASE Rescan(r)
    BY <2>4, <2>3 DEF Rescan, TypeOK, Op, Executing, Renamed
  <2>5. CASE RemoveEntry(r)
    <3>1. ASSUME NEW e, task' = [task EXCEPT ![r].rest = @ \ {e}]
          PROVE  task'[r].pc \in Executing /\ Op(r)' = Op(r)
      <4>1. task[r] = [pc |-> "removing", op |-> Op(r), rest |-> task[r].rest]
        BY <2>5, TaskShape DEF RemoveEntry, At
      <4>2. task'[r] = [pc |-> "removing", op |-> Op(r), rest |-> task[r].rest \ {e}]
        <5>1. [task[r] EXCEPT !.rest = @ \ {e}]
              = [pc |-> "removing", op |-> Op(r), rest |-> task[r].rest \ {e}]
          BY <4>1
        <5>2. task' = [task EXCEPT ![r] = [task[r] EXCEPT !.rest = @ \ {e}]]
          BY <3>1
        <5> QED BY <5>1, <5>2 DEF TypeOK
      <4> QED BY <4>2 DEF Executing, Renamed, Op
    <3> QED BY <2>5, <2>3, <2>2, <3>1, <1>12 DEF RemoveEntry
  <2>6. CASE RemoveDirectory(r)
    <3>1. ASSUME task' = [task EXCEPT ![r] = [pc |-> "verifying", op |-> Op(r)]]
          PROVE  task'[r].pc \in Executing /\ Op(r)' = Op(r)
      BY <3>1 DEF TypeOK, Op, Executing, Renamed
    <3> QED BY <2>6, <2>3, <2>2, <3>1, <1>12 DEF RemoveDirectory
  <2> QED BY <1>14, <2>4, <2>5, <2>6
<1>15. CASE InspectRoot(r)
  <2>1. task'[r].pc = "inspected" /\ task'[r].op = Op(r) /\ record[Op(r)] # "none" /\ Op(r) \in Ops
    BY <1>15, TaskShape DEF InspectRoot, SentOnce, At, TypeOK, Serving
  <2> QED BY <2>1, <1>s DEF At, Op, Recovers, Runs, Executing, Renamed
<1>16. CASE Compare(r)
  <2>1. task[r].pc = "comparing" /\ Goto(r, "restoring") /\ Recovers(r)
        /\ record'["recovery"] # "none"
    BY <1>16 DEF Compare, At, Recovers, TypeOK
  <2>2. task'[r] = [pc |-> "restoring", op |-> Op(r)] 
    BY <2>1, Going DEF Serving
  <2> QED BY <2>1, <2>2, <1>s DEF At, SentOnce
<1>17. CASE Restore(r)
  <2>1. task'[r] = [pc |-> "resolving"] /\ Recovers(r) /\ record["recovery"] # "none"
    BY <1>17, <1>x DEF Restore, SettleRestore, Tasks, At, Recovers, SentOnce
  <2> QED BY <2>1, <1>s DEF SentOnce
<1> QED
  BY <1>2, <1>3, <1>4, <1>5, <1>6, <1>8, <1>9, <1>13, <1>14, <1>15, <1>16, <1>17
     DEF Handler, Request

LEMMA SentOnceStep ==
  ASSUME TypeOK, SentOnce, [Next]_vars
  PROVE  SentOnce'
<1> USE DEF Ops
<1>1. ASSUME NEW r \in Requests, Handler(r) PROVE SentOnce'
  <2>s. /\ \A o \in Ops : record[o] # "none" => record'[o] # "none"
        /\ record["recovery"] = "none" /\ record'["recovery"] # "none" => record["delete"] # "none"
    BY <1>1, RecordsStay
  <2>1. ASSUME NEW o \in Ops \cap pending' PROVE o \notin bound' /\ record'[o] # "none"
    <3>1. CASE o \in pending
      <4>1. o \notin bound /\ record[o] # "none"
        BY <3>1 DEF SentOnce
      <4>2. Scan(r) => bound' = bound \cup {Op(r)} /\ record[Op(r)] = "none"
        BY DEF Scan
      <4> QED BY <1>1, <2>s, <4>1, <4>2, HandlerBound
    <3>2. CASE o \notin pending
      <4>1. IsolateUnknown(r) /\ o = Op(r)
        BY <1>1, <3>2, HandlerPending
      <4>2. task[r].pc \in Executing /\ Finalize(r, "outcome_unknown")
        BY <4>1 DEF IsolateUnknown, At, Executing
      <4> QED BY <4>1, <4>2, Finalized
    <3> QED BY <3>1, <3>2
  <2>2. "restore" \in pending' => record'["recovery"] # "none"
    <3>1. IsolateUnknown(r) => Op(r) \in Ops
      BY TaskShape DEF IsolateUnknown, At, Serving, Executing
    <3> QED BY <1>1, <2>s, <3>1, HandlerPending DEF SentOnce, RestoreUnknown, At
  <2>3. record'["recovery"] # "none" => record'["delete"] # "none"
    BY <2>s DEF SentOnce
  <2>4. ASSUME NEW q \in Requests
        PROVE  /\ (At(q, "restoring") \/ At(q, "resolving"))' => record'["recovery"] # "none"
               /\ task'[q].pc \in {"inspecting", "inspected"} => record'[Op(q)'] # "none"
               /\ Recovers(q)' => record'["delete"] # "none"
    <3>1. CASE q = r
      BY <1>1, <3>1, HandlerRecorded
    <3>2. CASE q # r
      <4>1. task'[q] = task[q]
        BY <1>1, <3>2, HandlerTasks
      <4>2. task[q].pc \in {"inspecting", "inspected"} => Op(q) \in Ops
        BY TaskShape DEF Serving
      <4> QED BY <4>1, <4>2, <2>s DEF SentOnce, At, Op, Recovers, Runs
    <3> QED BY <3>1, <3>2
  <2> QED BY <2>1, <2>2, <2>3, <2>4 DEF SentOnce
<1>2. ASSUME UNCHANGED <<task, bound, record>>, pending' \subseteq pending PROVE SentOnce'
  BY <1>2 DEF SentOnce, At, Op, Recovers, Runs
<1>3. CASE Restart
  <2>1. \A o \in Ops \cap pending' : record[o] # "none"
    <3>1. \A r \in Requests : At(r, "isolating") => Op(r) \in Ops /\ record[Op(r)] # "none"
      BY TaskShape DEF At, TypeOK, Serving, Executing
    <3> QED BY <1>3, <3>1 DEF Restart, SentOnce
  <2>2. "restore" \in pending' => record["recovery"] # "none"
    <3>1. \A r \in Requests : At(r, "isolating") => Op(r) \in Ops
      BY TaskShape DEF At, Serving, Executing
    <3> QED BY <1>3, <3>1 DEF Restart, SentOnce
  <2>3. \A r \in Requests : task'[r].pc = "idle"
    BY <1>3 DEF Restart, Idle
  <2> QED BY <1>3, <2>1, <2>2, <2>3 DEF Restart, SentOnce, At, Recovers, Runs, Executing, Renamed
<1>4. CASE \/ \E o \in Ops : LateRename(o)
           \/ LateRestore \/ AddEntry \/ RecreateRoot \/ UNCHANGED vars
  BY <1>4, <1>2 DEF LateRename, LateRestore, AddEntry, RecreateRoot, vars, serverVars
<1> QED BY <1>1, <1>3, <1>4 DEF Next

-----------------------------------------------------------------------------
(* The directories *)

\* What the steps of the removal do to the tombstone.
LEMMA Removing ==
  ASSUME TypeOK, NEW r \in Requests, RemoveEntry(r) \/ RemoveDirectory(r)
  PROVE  /\ Op(r) \in Ops /\ At(r, "removing")
         /\ Exists(Tombstone[Op(r)])
         /\ \A p \in Places \ {Tombstone[Op(r)]} : dir'[p] = dir[p]
         /\ dir[Tombstone[Op(r)]].entries \ dir'[Tombstone[Op(r)]].entries \subseteq task[r].rest
         /\ \/ RemoveEntry(r) /\ dir'[Tombstone[Op(r)]].id = dir[Tombstone[Op(r)]].id
            \/ RemoveDirectory(r) /\ dir'[Tombstone[Op(r)]] = Absent
<1>1. Op(r) \in Ops /\ At(r, "removing")
  BY TaskShape DEF RemoveEntry, RemoveDirectory, At, Serving, Executing, Renamed
<1> DEFINE p == Tombstone[Op(r)]
<1>2. p \in Places /\ dir \in [Places -> Dirs]
  BY <1>1, PlacesOf DEF TypeOK
<1> HIDE DEF p
<1>3. CASE RemoveEntry(r)
  <2>1. PICK e \in task[r].rest \cap dir[p].entries : dir' = [dir EXCEPT ![p].entries = @ \ {e}]
    BY <1>3 DEF RemoveEntry, p
  <2>2. Exists(p)
    BY <1>2, <2>1, Existing
  <2>3. dir' = [dir EXCEPT ![p] = [dir[p] EXCEPT !.entries = @ \ {e}]]
    BY <2>1
  <2>4. dir[p] \in [id : {"ours", "other"}, entries : SUBSET Items]
    BY <1>2, <2>2 DEF Dirs, Exists
  <2>5. dir'[p].id = dir[p].id /\ dir'[p].entries = dir[p].entries \ {e}
    BY <1>2, <2>3, <2>4
  <2> QED BY <1>1, <1>2, <1>3, <2>1, <2>2, <2>3, <2>5 DEF p
<1>4. CASE RemoveDirectory(r)
  BY <1>1, <1>2, <1>4 DEF RemoveDirectory, p
<1> QED BY <1>3, <1>4

\* A rename leaves a single directory of the user; only one back to the path
\* brings it there.
LEMMA MovedOneDirectory ==
  ASSUME TypeOK, OneDirectory, NEW from \in Places, NEW to \in Places, from # to,
         Moved(from, to), recreated' = recreated,
         record'["recovery"] = "none" => record["recovery"] = "none" /\ to # "root"
  PROVE  OneDirectory'
<1>1. /\ dir'[to] = dir[from] /\ dir'[from] = Absent
      /\ \A p \in Places \ {from, to} : dir'[p] = dir[p]
  BY Moving
<1> QED BY <1>1 DEF OneDirectory, Absent, Places

LEMMA OneDirectoryStep ==
  ASSUME TypeOK, SentOnce, OneDirectory, [Next]_vars
  PROVE  OneDirectory'
<1>u. ASSUME dir' = dir, recreated => recreated',
             record'["recovery"] = "none" => record["recovery"] = "none"
      PROVE  OneDirectory'
  BY <1>u DEF OneDirectory
<1>p. "tombstone" \in Places /\ "root" \in Places /\ "tombstone" # "root" /\ "second" # "root"
  BY DEF Places
<1>1. ASSUME NEW r \in Requests, Handler(r) PROVE OneDirectory'
  <2>s. record'["recovery"] = "none" => record["recovery"] = "none"
    BY <1>1, RecordsStay DEF Ops
  <2>r. recreated' = recreated
    BY <1>1 DEF Handler, Request, Quit, Scan, Check, CheckFails, CheckDenied,
         Isolate, IsolateRefused, IsolateUnknown, Rescan, NeedsCleanup, RemoveEntry,
         RemoveDirectory, Verify, VerifyDenied, VerifyTimesOut, InspectRoot,
         InspectTombstone, Compare, Restore, RestoreRefused, RestoreUnknown, ResolveOld,
         RequestPreflight, RequestExecute, RequestContinue, RequestRestore, RequestInspect,
         RequestRecovery, Start, SettleRestore, worldVars
  <2>1. CASE dir' = dir
    BY <1>u, <2>1, <2>s, <2>r
  <2>2. CASE At(r, "isolating") /\ Moved(Path[Op(r)], Tombstone[Op(r)])
    <3>1. Op(r) \in Ops
      BY <2>2, TaskShape DEF At, Serving, Executing
    <3>2. Tombstone[Op(r)] # "root"
      BY <3>1, PlacesOf, <1>p DEF Ops
    <3> QED BY <2>2, <2>s, <2>r, <3>1, <3>2, PlacesOf, MovedOneDirectory
  <2>3. CASE At(r, "restoring") /\ Moved("tombstone", "root")
    <3>1. record["recovery"] # "none"
      BY <2>3 DEF SentOnce
    <3> QED BY <2>3, <2>s, <2>r, <3>1, <1>p, MovedOneDirectory
  <2>4. CASE RemoveEntry(r) \/ RemoveDirectory(r)
    <3>1. /\ \A p \in Places \ {Tombstone[Op(r)]} : dir'[p] = dir[p]
          /\ \/ dir'[Tombstone[Op(r)]].id = dir[Tombstone[Op(r)]].id
             \/ dir'[Tombstone[Op(r)]] = Absent
          /\ Tombstone[Op(r)] \in Places /\ Tombstone[Op(r)] # "root"
      BY <2>4, Removing, PlacesOf, <1>p DEF Ops
    <3>2. \A p \in Places : dir'[p].id \in {"ours", "other"} => dir'[p].id = dir[p].id
      BY <3>1 DEF Absent
    <3> QED BY <3>1, <3>2, <2>s, <2>r, <1>p DEF OneDirectory
  <2> QED BY <1>1, <2>1, <2>2, <2>3, <2>4, HandlerDirs
<1>2. ASSUME NEW o \in Ops, LateRename(o) PROVE OneDirectory'
  <2>1. Tombstone[o] # "root" /\ UNCHANGED <<record, recreated>>
    BY <1>2, PlacesOf, <1>p DEF Ops, LateRename, worldVars
  <2>2. CASE Moved(Path[o], Tombstone[o])
    BY <2>1, <2>2, PlacesOf, MovedOneDirectory
  <2> QED BY <1>2, <2>1, <2>2, <1>u DEF LateRename
<1>3. CASE LateRestore
  <2>1. record["recovery"] # "none" /\ UNCHANGED <<record, recreated>>
    BY <1>3 DEF LateRestore, SentOnce, worldVars
  <2> QED BY <1>3, <2>1, <1>p, <1>u, MovedOneDirectory DEF LateRestore
<1>4. CASE AddEntry
  <2>1. PICK p \in Places :
          Exists(p) /\ dir' = [dir EXCEPT ![p].entries = @ \cup {Foreign}]
    BY <1>4 DEF AddEntry
  <2>2. /\ dir'[p].id = dir[p].id /\ dir[p].entries \subseteq dir'[p].entries
        /\ \A q \in Places \ {p} : dir'[q] = dir[q]
    <3>1. dir[p] \in [id : {"ours", "other"}, entries : SUBSET Items]
      BY <2>1 DEF TypeOK, Dirs, Exists
    <3>2. dir' = [dir EXCEPT ![p] = [dir[p] EXCEPT !.entries = @ \cup {Foreign}]]
      BY <2>1
    <3> QED BY <3>1, <3>2 DEF TypeOK
  <2>3. UNCHANGED <<record, recreated>>
    BY <1>4 DEF AddEntry
  <2> QED BY <2>2, <2>3 DEF OneDirectory, Places
<1>5. CASE RecreateRoot
  BY <1>5 DEF RecreateRoot, OneDirectory, TypeOK
<1>6. CASE Restart \/ UNCHANGED vars
  BY <1>6, <1>u DEF Restart, vars, serverVars, worldVars
<1> QED BY <1>1, <1>2, <1>3, <1>4, <1>5, <1>6 DEF Next

LEMMA PlannedRestStep ==
  ASSUME TypeOK, SentOnce, PlannedRest, [Next]_vars
  PROVE  PlannedRest'
<1>1. ASSUME NEW r \in Requests, Handler(r), NEW q \in Requests, At(q, "removing")'
      PROVE  task'[q].rest \subseteq plan'[Op(q)'].entries
  <2>p. \A o \in Ops : record[o] # "none" => plan'[o].entries = plan[o].entries
    <3>1. Scan(r) => \A o \in Ops : record[o] # "none" => plan'[o] = plan[o]
      BY DEF Scan, TypeOK
    <3>2. ~Scan(r) => \A o \in Ops : plan'[o].entries = plan[o].entries
      BY <1>1, HandlerPlans
    <3> QED BY <3>1, <3>2
  <2>1. CASE q # r
    <3>1. task'[q] = task[q]
      BY <1>1, <2>1, HandlerTasks
    <3>2. At(q, "removing") /\ Op(q) \in Ops /\ record[Op(q)] # "none"
      BY <1>1, <3>1, TaskShape DEF At, TypeOK, Serving, Executing, Renamed
    <3> QED BY <2>p, <3>1, <3>2 DEF PlannedRest, Op
  <2>2. CASE q = r /\ Rescan(r)
    <3>1. Op(r) \in Ops
      BY <2>2, TaskShape DEF Rescan, At, Serving, Executing, Renamed
    <3>2. task'[r] = [pc |-> "removing", op |-> Op(r), rest |-> dir[Tombstone[Op(r)]].entries]
      BY <2>2 DEF Rescan, TypeOK
    <3>3. dir[Tombstone[Op(r)]].entries = plan[Op(r)].entries /\ plan' = plan
      BY <2>2 DEF Rescan, ManifestMatches, Manifest
    <3> QED BY <2>2, <3>1, <3>2, <3>3 DEF Op
  <2>3. CASE q = r /\ RemoveEntry(r)
    <3>1. Op(r) \in Ops /\ record[Op(r)] # "none"
          /\ task[r] = [pc |-> "removing", op |-> Op(r), rest |-> task[r].rest]
      BY <2>3, TaskShape DEF RemoveEntry, At, TypeOK, Serving, Executing, Renamed
    <3>2. PICK e : \/ task' = [task EXCEPT ![r].rest = @ \ {e}]
                   \/ Finalize(r, "cleanup_required")
      BY <2>3 DEF RemoveEntry
    <3>3. ~Finalize(r, "cleanup_required")
      BY <1>1, <2>3, <3>1, Finalized DEF At, Idle, Executing, Renamed
    <3>4. task'[r] = [pc |-> "removing", op |-> Op(r), rest |-> task[r].rest \ {e}]
      <4>1. [task[r] EXCEPT !.rest = @ \ {e}]
            = [pc |-> "removing", op |-> Op(r), rest |-> task[r].rest \ {e}]
        BY <3>1
      <4>2. task' = [task EXCEPT ![r] = [task[r] EXCEPT !.rest = @ \ {e}]]
        BY <3>2, <3>3
      <4> QED BY <4>1, <4>2 DEF TypeOK
    <3>5. task[r].rest \subseteq plan[Op(r)].entries
      BY <3>1 DEF PlannedRest, At
    <3> QED BY <2>3, <2>p, <3>1, <3>4, <3>5 DEF Op
  <2>4. CASE q = r /\ ~Rescan(r) /\ ~RemoveEntry(r)
    <3>1. CASE task[r].pc \in Executing /\ \E state \in TERMINAL_STATES \cup Listed : Finalize(r, state)
      BY <1>1, <2>4, <3>1, Finalized DEF At, Idle
    <3>2. CASE Leave(r)
      BY <1>1, <2>4, <3>2 DEF Leave, At, Idle, TypeOK
    <3>h. "failed" \in TERMINAL_STATES /\ "succeeded" \in TERMINAL_STATES
          /\ {"cleanup_required", "outcome_unknown"} \subseteq Listed
      BY DEF TERMINAL_STATES, Listed
    <3>3. CASE CheckFails(r) \/ CheckDenied(r) \/ IsolateRefused(r) \/ IsolateUnknown(r)
           \/ NeedsCleanup(r) \/ Verify(r) \/ VerifyDenied(r) \/ VerifyTimesOut(r)
      <4>1. task[r].pc \in Executing
        BY <3>3 DEF CheckFails, CheckDenied, IsolateRefused, IsolateUnknown, NeedsCleanup,
                 Verify, VerifyDenied, VerifyTimesOut, At, Executing, Renamed
      <4>2. Leave(r) \/ \E state \in TERMINAL_STATES \cup Listed : Finalize(r, state)
        BY <3>3, <3>h DEF CheckFails, CheckDenied, IsolateRefused, IsolateUnknown, NeedsCleanup,
                 Verify, VerifyDenied, VerifyTimesOut, FinalizeIfOpen
      <4> QED BY <4>1, <4>2, <3>1, <3>2
    <3>4. CASE Check(r) \/ Isolate(r) \/ Compare(r)
      <4>1. \E pc \in {"isolating", "rescanning", "restoring"} : Goto(r, pc)
        BY <3>4 DEF Check, Isolate, Compare
      <4>2. task[r].pc \in {"checking", "isolating", "comparing"}
        BY <3>4 DEF Check, Isolate, Compare, At
      <4>3. /\ {"isolating", "rescanning", "restoring"} \subseteq Serving \ {"removing", "inspected"}
            /\ {"checking", "isolating", "comparing"} \subseteq Serving \ {"removing", "inspected"}
        BY DEF Serving, Executing, Renamed
      <4>4. PICK pc \in {"isolating", "rescanning", "restoring"} :
              task'[r] = [pc |-> pc, op |-> Op(r)]
        BY <4>1, <4>2, <4>3, Going
      <4> QED BY <1>1, <2>4, <4>4 DEF At
    <3>5. CASE RemoveDirectory(r)
      <4>1. task[r].pc \in Executing
        BY <3>5 DEF RemoveDirectory, At, Executing, Renamed
      <4> QED BY <1>1, <2>4, <3>5, <4>1, <3>1, <3>h DEF RemoveDirectory, At, TypeOK
    <3>6. CASE Request(r) \/ Quit(r) \/ Scan(r) \/ InspectRoot(r) \/ InspectTombstone(r)
               \/ Restore(r) \/ RestoreRefused(r) \/ RestoreUnknown(r) \/ ResolveOld(r)
      BY <1>1, <2>4, <3>6 DEF Request, Quit, Leave, Scan, InspectRoot, InspectTombstone,
           Restore, RestoreRefused, RestoreUnknown, ResolveOld, SettleRestore, At, TypeOK,
           RequestPreflight, RequestExecute, RequestContinue, RequestRestore, RequestInspect,
           RequestRecovery, Start, Idle
    <3> QED BY <1>1, <2>4, <3>3, <3>4, <3>5, <3>6 DEF Handler
  <2> QED BY <2>1, <2>2, <2>3, <2>4
<1>2. ASSUME UNCHANGED <<task, plan>> PROVE PlannedRest'
  BY <1>2 DEF PlannedRest, At, Op
<1>3. CASE Restart
  BY <1>3 DEF Restart, PlannedRest, At, Idle
<1>4. CASE \/ \E o \in Ops : LateRename(o)
           \/ LateRestore \/ AddEntry \/ RecreateRoot \/ UNCHANGED vars
  BY <1>4, <1>2 DEF LateRename, LateRestore, AddEntry, RecreateRoot, vars
<1> QED BY <1>1, <1>3, <1>4 DEF Next, PlannedRest

-----------------------------------------------------------------------------
(* One handler at a time *)

\* What Order says of the only handler.
OrderOf(r) ==
  /\ record["recovery"] # "none" => "delete" \notin bound
  /\ "delete" \in bound /\ ~Runs(r, "delete", Renamed) => Untouched
  /\ record["delete"] = "none" \/ "delete" \in pending => Untouched
  /\ "delete" \in pending => record["recovery"] = "none"
  /\ Exists("second") => record["recovery"] # "none"
  /\ "recovery" \in pending \/ ("recovery" \in bound /\ ~Runs(r, "recovery", Renamed)) =>
       ~Exists("second")
  /\ task[r].pc \in Executing => Op(r) \in bound
  /\ At(r, "removing") => dir[Tombstone[Op(r)]].id = plan[Op(r)].id
  /\ At(r, "verifying") => ~Exists(Tombstone[Op(r)])
  /\ Runs(r, "recovery", Renamed) \/ At(r, "resolving") => ~Exists("tombstone")

LEMMA AloneBefore ==
  ASSUME NEW r \in Requests, \A q \in Requests \ {r} : task[q] = Idle, Order
  PROVE  OrderOf(r)
<1>1. \A q \in Requests \ {r}, o \in Ops : ~Runs(q, o, Renamed)
  BY DEF Runs, Renamed, Idle
<1> QED BY <1>1 DEF Order, OrderOf, NotIsolated, Ops

LEMMA AloneAfter ==
  ASSUME NEW r \in Requests, \A q \in Requests \ {r} : task'[q] = Idle, OrderOf(r)'
  PROVE  Order'
<1>1. \A q \in Requests \ {r} : task'[q].pc = "idle"
  BY DEF Idle
<1>2. \A o \in Ops : NotIsolated(o)' <=> ~Runs(r, o, Renamed)'
  BY <1>1 DEF NotIsolated, Runs, Renamed
<1>3. OneAtATime'
  BY DEF OneAtATime, Idle
<1> QED BY <1>1, <1>2, <1>3 DEF Order, OrderOf, Ops, Executing, Renamed, At, Runs

\* What happened stays in the history.
LEMMA HandlerHistory ==
  ASSUME NEW r \in Requests, Handler(r)
  PROVE  /\ overlapped => overlapped'
         /\ late => late'
         /\ unverified => unverified'
         /\ recreated' = recreated
<1>1. CASE Request(r)
  <2>1. PICK entry : Start(r, entry)
    BY <1>1 DEF Request, RequestPreflight, RequestExecute, RequestContinue, RequestRestore,
                RequestInspect, RequestRecovery
  <2> QED BY <2>1 DEF Start, worldVars
<1>2. CASE Isolate(r) \/ IsolateUnknown(r)
  <2>1. late' = (late \/ record[Op(r)] \in TERMINAL_STATES)
    BY <1>2 DEF Isolate, IsolateUnknown, NoteRename
  <2>2. UNCHANGED <<recreated, overlapped, unverified>>
    BY <1>2 DEF Isolate, IsolateUnknown, worldVars
  <2> QED BY <2>1, <2>2
<1>3. CASE VerifyTimesOut(r)
  BY <1>3 DEF VerifyTimesOut, worldVars
<1>4. CASE ~Request(r) /\ ~Isolate(r) /\ ~IsolateUnknown(r) /\ ~VerifyTimesOut(r)
  <2>1. UNCHANGED <<worldVars, historyVars>>
    BY <1>4 DEF Handler, Quit, Scan, Check, CheckFails, CheckDenied,
         IsolateRefused, Rescan, NeedsCleanup, RemoveEntry,
         RemoveDirectory, Verify, VerifyDenied, InspectRoot,
         InspectTombstone, Compare, Restore, RestoreRefused, RestoreUnknown, ResolveOld,
         SettleRestore
  <2> QED BY <2>1 DEF worldVars, historyVars
<1> QED BY <1>1, <1>2, <1>3, <1>4

\* A handler that takes a step without overlap is alone.
LEMMA Alone ==
  ASSUME TypeOK, OneAtATime, NEW r \in Requests, Handler(r), ~overlapped'
  PROVE  /\ \A q \in Requests \ {r} : task[q] = Idle /\ task'[q] = Idle
<1>1. CASE Request(r)
  <2>1. \A q \in Requests : task[q] = Idle
    BY <1>1 DEF Request, RequestPreflight, RequestExecute, RequestContinue, RequestRestore,
                RequestInspect, RequestRecovery, Start
  <2> QED BY <2>1, HandlerTasks
<1>2. CASE ~Request(r)
  <2>1. task[r] # Idle
    BY <1>2 DEF Handler, Quit, Scan, Check, CheckFails, CheckDenied,
         Isolate, IsolateRefused, IsolateUnknown, Rescan, NeedsCleanup, RemoveEntry,
         RemoveDirectory, Verify, VerifyDenied, VerifyTimesOut, InspectRoot,
         InspectTombstone, Compare, Restore, RestoreRefused, RestoreUnknown, ResolveOld,
         At, Idle
  <2>2. \A q \in Requests \ {r} : task[q] = Idle
    BY <2>1 DEF OneAtATime
  <2> QED BY <2>2, HandlerTasks
<1> QED BY <1>1, <1>2

\* An execution or a recovery that ends.
LEMMA FinalizeOrder ==
  ASSUME TypeOK, SentOnce, NEW r \in Requests, OrderOf(r), task[r].pc \in Executing,
         NEW state \in TERMINAL_STATES \cup Listed, Finalize(r, state),
         state = "succeeded" => task[r].pc \in Renamed,
         UNCHANGED <<dir, pending>>
  PROVE  OrderOf(r)'
<1> USE DEF Ops
<1>1. /\ Op(r) \in Ops /\ bound' = bound \ {Op(r)} /\ record[Op(r)] # "none"
      /\ record'[Op(r)] = state /\ \A o \in Ops \ {Op(r)} : record'[o] = record[o]
  BY Finalized DEF TypeOK, Executing, Renamed
<1>2. state # "none"
  BY DEF TERMINAL_STATES, Listed
<1>3. \/ task'[r] = Idle
      \/ task'[r] = [pc |-> "resolving"] /\ Runs(r, "recovery", Renamed)
  BY Finalized DEF Runs, Op
<1>4. /\ task'[r].pc \notin Executing /\ ~At(r, "removing")' /\ ~At(r, "verifying")'
      /\ \A o \in Ops : ~Runs(r, o, Renamed)'
      /\ At(r, "resolving")' => Runs(r, "recovery", Renamed)
  BY <1>3 DEF Idle, At, Executing, Renamed, Runs
<1>5. \A p \in Places : Exists(p)' = Exists(p)
  BY DEF Exists
<1>6. Untouched' = Untouched
  BY DEF Untouched, Exists
<1>7. \A o \in Ops : Runs(r, o, Renamed) => o = Op(r)
  BY DEF Runs, Op
<1> QED BY <1>1, <1>2, <1>4, <1>5, <1>6, <1>7 DEF OrderOf, Places

\* A handler that leaves.
LEMMA LeaveOrder ==
  ASSUME TypeOK, SentOnce, NEW r \in Requests, OrderOf(r), task'[r] = Idle,
         bound' = bound \/ bound' = bound \ {Op(r)},
         \/ task[r].pc \notin Renamed
         \/ bound' = bound \ {Op(r)},
         UNCHANGED <<dir, pending, record>>
  PROVE  OrderOf(r)'
<1> USE DEF Ops
<1>1. /\ task'[r].pc \notin Executing /\ ~At(r, "removing")' /\ ~At(r, "verifying")'
      /\ ~At(r, "resolving")' /\ \A o \in Ops : ~Runs(r, o, Renamed)'
  BY DEF Idle, At, Executing, Renamed, Runs
<1>2. \A p \in Places : Exists(p)' = Exists(p)
  BY DEF Exists
<1>3. Untouched' = Untouched
  BY DEF Untouched, Exists
<1>4. \A o \in Ops : Runs(r, o, Renamed) => o = Op(r) /\ task[r].pc \in Renamed
  BY DEF Runs, Op
<1> QED BY <1>1, <1>2, <1>3, <1>4 DEF OrderOf, Places

\* A handler that starts.
LEMMA StartOrder ==
  ASSUME TypeOK, NEW r \in Requests, OrderOf(r), NEW entry \in Tasks, Start(r, entry),
         entry.pc \in {"scanning", "comparing", "inspecting"}
           \/ (entry.pc = "checking" /\ entry.op \in bound)
  PROVE  OrderOf(r)'
<1>1. task[r] = Idle /\ task'[r] = entry /\ UNCHANGED <<plan, bound, record, dir, pending>>
  BY TaskChange DEF Start, serverVars
<1>2. /\ \A o \in Ops : ~Runs(r, o, Renamed) /\ ~Runs(r, o, Renamed)'
      /\ ~At(r, "removing")' /\ ~At(r, "verifying")' /\ ~At(r, "resolving")'
      /\ task'[r].pc \in Executing => Op(r)' \in bound'
  BY <1>1 DEF Idle, Runs, Renamed, Executing, At, Op
<1>3. (\A p \in Places : Exists(p)' = Exists(p)) /\ Untouched' = Untouched
  BY <1>1 DEF Exists, Untouched
<1> QED BY <1>1, <1>2, <1>3 DEF OrderOf, Places, Ops

\* A rename of the isolation.  The handler goes on, or the operation has ended.
LEMMA IsolateOrder ==
  ASSUME TypeOK, SentOnce, NEW r \in Requests, OrderOf(r), At(r, "isolating"),
         MayIsolate(Op(r)), Moved(Path[Op(r)], Tombstone[Op(r)]), pending' = pending,
         \/ /\ task'[r] = [pc |-> "rescanning", op |-> Op(r)]
            /\ UNCHANGED <<bound, record>>
         \/ /\ task'[r] = Idle /\ bound' = bound \ {Op(r)}
            /\ record' = [record EXCEPT ![Op(r)] = "outcome_unknown"]
  PROVE  OrderOf(r)'
<1> USE DEF Ops
<1>1. Op(r) \in Ops /\ Op(r) \in bound /\ record[Op(r)] # "none"
  BY TaskShape DEF At, Serving, Executing, OrderOf, TypeOK
<1>2. /\ dir'[Tombstone[Op(r)]] = dir[Path[Op(r)]] /\ dir'[Path[Op(r)]] = Absent
      /\ \A p \in Places \ {Path[Op(r)], Tombstone[Op(r)]} : dir'[p] = dir[p]
  BY <1>1, PlacesOf, Moving
<1>3. Op(r) \notin pending
  BY <1>1 DEF SentOnce
<1>4. record'[Op(r)] # "none" /\ \A o \in Ops \ {Op(r)} : record'[o] = record[o]
  BY <1>1 DEF TypeOK
<1>5. /\ ~At(r, "removing")' /\ ~At(r, "verifying")' /\ ~At(r, "resolving")'
      /\ task'[r].pc \in Executing => Op(r)' \in bound'
      /\ Runs(r, "recovery", Renamed)' => Op(r) = "recovery"
      /\ Op(r) \in bound' => Runs(r, Op(r), Renamed)'
  BY <1>1 DEF Idle, At, Executing, Renamed, Runs, Op
<1>6. \A o \in Ops : ~Runs(r, o, Renamed)
  BY DEF At, Runs, Renamed
<1>7. CASE Op(r) = "delete"
  <2>1. /\ record["recovery"] = "none" /\ ~Exists("second")
        /\ Path[Op(r)] = "root" /\ Tombstone[Op(r)] = "tombstone"
    BY <1>1, <1>7, PlacesOf DEF OrderOf
  <2>2. dir'["second"] = dir["second"]
    BY <1>2, <2>1 DEF Places
  <2> QED BY <1>1, <1>3, <1>4, <1>5, <1>7, <2>1, <2>2 DEF OrderOf, SentOnce, Exists, Runs, At
<1>8. CASE Op(r) = "recovery"
  <2>1. /\ record["delete"] # "none" /\ "delete" \notin pending /\ "delete" \notin bound
        /\ Path[Op(r)] = "tombstone" /\ Tombstone[Op(r)] = "second"
    BY <1>1, <1>8, PlacesOf DEF OrderOf, SentOnce
  <2>2. bound' \subseteq bound
    OBVIOUS
  <2> QED BY <1>1, <1>2, <1>3, <1>4, <1>5, <1>8, <2>1, <2>2 DEF OrderOf, Exists, Runs, At
<1> QED BY <1>1, <1>7, <1>8

LEMMA HandlerOrder ==
  ASSUME TypeOK, SentOnce, NEW r \in Requests, Handler(r), OrderOf(r)
  PROVE  OrderOf(r)'
<1> USE DEF Ops
<1>h. "failed" \in TERMINAL_STATES /\ "succeeded" \in TERMINAL_STATES
      /\ {"cleanup_required", "outcome_unknown"} \subseteq Listed
  BY DEF TERMINAL_STATES, Listed
<1>y. Idle \in Tasks
  BY DEF Tasks
<1>1. CASE Request(r)
  <2> USE DEF Tasks
  <2>1. CASE RequestPreflight(r)
    <3>1. [pc |-> "scanning", op |-> "delete"] \in Tasks
      OBVIOUS
    <3> QED BY <2>1, <3>1, StartOrder DEF RequestPreflight
  <2>2. CASE RequestExecute(r)
    <3>1. [pc |-> "checking", op |-> "delete"] \in Tasks
      OBVIOUS
    <3> QED BY <2>2, <3>1, StartOrder DEF RequestExecute
  <2>3. CASE RequestContinue(r)
    <3>1. [pc |-> "scanning", op |-> "recovery"] \in Tasks
      OBVIOUS
    <3> QED BY <2>3, <3>1, StartOrder DEF RequestContinue, RequestRecovery
  <2>4. CASE RequestRestore(r)
    <3>1. [pc |-> "comparing", op |-> "recovery"] \in Tasks
      OBVIOUS
    <3> QED BY <2>4, <3>1, StartOrder DEF RequestRestore, RequestRecovery
  <2>5. CASE RequestInspect(r)
    <3>1. PICK o \in Ops : Start(r, [pc |-> "inspecting", op |-> o])
      BY <2>5 DEF RequestInspect
    <3>2. [pc |-> "inspecting", op |-> o] \in Tasks
      OBVIOUS
    <3> QED BY <3>1, <3>2, StartOrder
  <2> QED BY <1>1, <2>1, <2>2, <2>3, <2>4, <2>5 DEF Request
<1>2. CASE Quit(r)
  <2>1. /\ task' = [task EXCEPT ![r] = Idle] /\ UNCHANGED <<record, dir, pending>>
        /\ bound' = bound \/ bound' = bound \ {Op(r)}
        /\ bound' = bound \ {Op(r)} \/ task[r].pc \notin Renamed
    BY <1>2 DEF Quit, Leave, serverVars, At, Renamed
  <2> QED BY <2>1, <1>y, TaskChange, LeaveOrder
<1>3. CASE Scan(r)
  <2> DEFINE o == Op(r)
             x == IF o = "recovery" THEN [pc |-> "checking", op |-> o] ELSE Idle
  <2>1. o \in Ops /\ x \in Tasks /\ At(r, "scanning")
    BY <1>3, <1>y, TaskShape DEF Scan, At, Serving, Tasks
  <2>2. /\ Exists(Path[o]) /\ record[o] = "none" /\ UNCHANGED <<dir, pending>>
        /\ record' = [record EXCEPT ![o] = "preparing"]
        /\ bound' = bound \cup {o}
        /\ task'[r] = x
    BY <1>3, <2>1, TaskChange DEF Scan, serverVars
  <2>3. record'[o] = "preparing" /\ \A q \in Ops \ {o} : record'[q] = record[q]
    BY <2>1, <2>2 DEF TypeOK
  <2> HIDE DEF o
  <2>4. /\ \A q \in Ops : ~Runs(r, q, Renamed) /\ ~Runs(r, q, Renamed)'
        /\ ~At(r, "removing")' /\ ~At(r, "verifying")' /\ ~At(r, "resolving")'
        /\ task'[r].pc \in Executing => Op(r)' = o
    BY <2>1, <2>2 DEF At, Runs, Renamed, Executing, Idle, Op
  <2>5. (\A p \in Places : Exists(p)' = Exists(p)) /\ Untouched' = Untouched
    BY <2>2 DEF Exists, Untouched
  <2>6. CASE o = "delete"
    <3>1. Untouched /\ record["recovery"] = "none" /\ ~Exists("second")
      BY <2>2, <2>6 DEF OrderOf, SentOnce
    <3> QED BY <2>2, <2>3, <2>4, <2>5, <2>6, <3>1 DEF OrderOf, Places, SentOnce
  <2>7. CASE o = "recovery"
    <3>1. Exists("tombstone") /\ ~Exists("second")
      BY <2>1, <2>2, <2>7, PlacesOf DEF OrderOf
    <3>2. ~Untouched
      BY <3>1 DEF Untouched
    <3>3. "delete" \notin bound /\ "delete" \notin pending
      BY <2>4, <3>2 DEF OrderOf
    <3> QED BY <2>2, <2>3, <2>4, <2>5, <2>7, <3>1, <3>3 DEF OrderOf, Places
  <2> QED BY <2>1, <2>6, <2>7
<1>4. CASE Check(r)
  <2>1. task[r].pc = "checking" /\ Goto(r, "isolating")
    BY <1>4 DEF Check, At
  <2>2. task'[r] = [pc |-> "isolating", op |-> Op(r)]
    BY <2>1, Going DEF Serving, Executing
  <2>3. /\ \A o \in Ops : ~Runs(r, o, Renamed) /\ ~Runs(r, o, Renamed)'
        /\ ~At(r, "removing")' /\ ~At(r, "verifying")' /\ ~At(r, "resolving")'
        /\ task'[r].pc \in Executing => Op(r)' \in bound
    BY <2>1, <2>2 DEF Runs, Renamed, Executing, At, Op, OrderOf
  <2>4. UNCHANGED <<bound, record, dir, pending>>
    BY <1>4 DEF Check, serverVars
  <2>5. (\A p \in Places : Exists(p)' = Exists(p)) /\ Untouched' = Untouched
    BY <2>4 DEF Exists, Untouched
  <2> QED BY <2>3, <2>4, <2>5 DEF OrderOf, Places
<1>5. CASE Isolate(r)
  <2>1. task[r].pc = "isolating" /\ Goto(r, "rescanning")
    BY <1>5 DEF Isolate, At
  <2>2. task'[r] = [pc |-> "rescanning", op |-> Op(r)]
    BY <2>1, Going DEF Serving, Executing, Renamed
  <2> QED BY <1>5, <2>2, IsolateOrder DEF Isolate
<1>6. CASE IsolateUnknown(r)
  <2>1. At(r, "isolating") /\ Finalize(r, "outcome_unknown") /\ Op(r) \in Ops
        /\ task[r].pc \in Executing
    BY <1>6, TaskShape DEF IsolateUnknown, At, Serving, Executing
  <2>2. /\ task'[r] = Idle /\ bound' = bound \ {Op(r)}
        /\ record' = [record EXCEPT ![Op(r)] = "outcome_unknown"]
    BY <2>1, Finalized DEF Finalize
  <2>3. CASE UNCHANGED <<dir, pending>>
    BY <2>1, <2>3, <1>h, FinalizeOrder
  <2>4. CASE MayIsolate(Op(r)) /\ Moved(Path[Op(r)], Tombstone[Op(r)]) /\ pending' = pending
    BY <2>1, <2>2, <2>4, IsolateOrder
  <2>5. CASE pending' = pending \cup {Op(r)} /\ dir' = dir
    <3>1. /\ Op(r) \in bound /\ ~Runs(r, Op(r), Renamed) /\ record[Op(r)] # "none"
      BY <2>1 DEF OrderOf, Runs, At, Executing, Renamed, TypeOK
    <3>2. /\ task'[r].pc \notin Executing /\ ~At(r, "removing")' /\ ~At(r, "verifying")'
          /\ ~At(r, "resolving")' /\ \A o \in Ops : ~Runs(r, o, Renamed)'
      BY <2>2 DEF Idle, At, Executing, Renamed, Runs
    <3>3. (\A p \in Places : Exists(p)' = Exists(p)) /\ Untouched' = Untouched
      BY <2>5 DEF Exists, Untouched
    <3>4. record'[Op(r)] = "outcome_unknown" /\ \A o \in Ops \ {Op(r)} : record'[o] = record[o]
      BY <2>1, <2>2 DEF TypeOK
    <3>5. \A o \in Ops : ~Runs(r, o, Renamed)
      BY <2>1 DEF At, Runs, Renamed
    <3>6. CASE Op(r) = "delete"
      BY <2>2, <2>5, <3>1, <3>2, <3>3, <3>4, <3>5, <3>6 DEF OrderOf, Places
    <3>7. CASE Op(r) = "recovery"
      BY <2>2, <2>5, <3>1, <3>2, <3>3, <3>4, <3>5, <3>7 DEF OrderOf, Places
    <3> QED BY <2>1, <3>6, <3>7
  <2> QED BY <1>6, <2>3, <2>4, <2>5 DEF IsolateUnknown, serverVars
<1>7. CASE CheckFails(r) \/ CheckDenied(r) \/ IsolateRefused(r) \/ NeedsCleanup(r)
           \/ Verify(r) \/ VerifyDenied(r) \/ VerifyTimesOut(r)
  <2>1. /\ task[r].pc \in Executing /\ UNCHANGED <<dir, pending>>
        /\ Verify(r) => task[r].pc \in Renamed
    BY <1>7 DEF CheckFails, CheckDenied, IsolateRefused, NeedsCleanup, Verify, VerifyDenied,
                VerifyTimesOut, At, Executing, Renamed, serverVars
  <2>2. \/ Leave(r) /\ UNCHANGED record
        \/ \E state \in TERMINAL_STATES \cup Listed :
             Finalize(r, state) /\ (state = "succeeded" => Verify(r))
    BY <1>7, <1>h DEF CheckFails, CheckDenied, IsolateRefused, NeedsCleanup, Verify,
                VerifyDenied, VerifyTimesOut, FinalizeIfOpen
  <2>3. CASE Leave(r) /\ UNCHANGED record
    <3>1. task'[r] = Idle /\ bound' = bound \ {Op(r)}
      BY <2>3, <1>y, TaskChange DEF Leave
    <3> QED BY <2>1, <2>3, <3>1, LeaveOrder
  <2>4. ASSUME NEW state \in TERMINAL_STATES \cup Listed, Finalize(r, state),
               state = "succeeded" => Verify(r)
        PROVE  OrderOf(r)'
    BY <1>7, <2>1, <2>4, FinalizeOrder
  <2> QED BY <2>2, <2>3, <2>4
<1>8. CASE Rescan(r)
  <2>1. /\ task'[r] = [pc |-> "removing", op |-> Op(r),
                       rest |-> dir[Tombstone[Op(r)]].entries]
        /\ At(r, "rescanning") /\ UNCHANGED <<plan, bound, record, dir, pending>>
        /\ dir[Tombstone[Op(r)]].id = plan[Op(r)].id
    BY <1>8 DEF Rescan, TypeOK, serverVars, ManifestMatches, Manifest
  <2>2. /\ ~At(r, "verifying")' /\ ~At(r, "resolving")' /\ Op(r)' = Op(r)
        /\ \A o \in Ops : Runs(r, o, Renamed)' <=> Runs(r, o, Renamed)
        /\ task[r].pc \in Executing
    BY <2>1 DEF At, Op, Runs, Renamed, Executing
  <2>3. (\A p \in Places : Exists(p)' = Exists(p)) /\ Untouched' = Untouched
    BY <2>1 DEF Exists, Untouched
  <2> QED BY <2>1, <2>2, <2>3 DEF OrderOf, Places
<1>9. CASE RemoveEntry(r) \/ RemoveDirectory(r)
  <2>0. PICK o : o = Op(r)
    OBVIOUS
  <2>1. /\ o \in Ops /\ At(r, "removing") /\ Exists(Tombstone[o])
        /\ \A p \in Places \ {Tombstone[o]} : dir'[p] = dir[p]
        /\ \/ RemoveEntry(r) /\ dir'[Tombstone[o]].id = dir[Tombstone[o]].id
           \/ RemoveDirectory(r) /\ dir'[Tombstone[o]] = Absent
    BY <1>9, <2>0, Removing
  <2>2. o \in bound /\ record[o] # "none" /\ Runs(r, o, Renamed) /\ o \notin pending
        /\ \A q \in Ops : Runs(r, q, Renamed) => q = o
    BY <2>0, <2>1 DEF OrderOf, SentOnce, TypeOK, Runs, At, Renamed, Executing, Op
  <2>3. pending' = pending
    BY <1>9 DEF RemoveEntry, RemoveDirectory
  <2>4. \A p \in Places : Exists(p)' => Exists(p)
    BY <2>1, Existing DEF Exists, Places
  <2>5. o = "delete" => Tombstone[o] = "tombstone"
    BY <2>1, PlacesOf
  <2>6. o = "recovery" => Tombstone[o] = "second" /\ "delete" \notin bound
                          /\ record["recovery"] # "none" /\ record["delete"] # "none"
                          /\ "delete" \notin pending
    BY <2>1, <2>2, PlacesOf DEF OrderOf, SentOnce
  <2>7. o = "delete" => record["delete"] # "none" /\ "delete" \notin pending
    BY <2>2
  <2>8. CASE Finalize(r, "cleanup_required")
    <3>1. /\ bound' = bound \ {o} /\ task'[r] = Idle /\ record'[o] # "none"
          /\ \A q \in Ops \ {o} : record'[q] = record[q]
      BY <2>0, <2>1, <2>8, Finalized DEF At, Executing, Renamed
    <3>2. /\ task'[r].pc \notin Executing /\ ~At(r, "removing")' /\ ~At(r, "verifying")'
          /\ ~At(r, "resolving")' /\ \A q \in Ops : ~Runs(r, q, Renamed)'
      BY <3>1 DEF Idle, At, Executing, Renamed, Runs
    <3> QED BY <2>1, <2>2, <2>3, <2>4, <2>5, <2>6, <2>7, <3>1, <3>2 DEF OrderOf, Places
  <2>9. CASE UNCHANGED <<plan, bound, record>> /\ ~Finalize(r, "cleanup_required")
    <3>1. /\ Op(r)' = o
          /\ \/ task'[r].pc = "removing" /\ dir'[Tombstone[o]].id = dir[Tombstone[o]].id
             \/ task'[r].pc = "verifying" /\ dir'[Tombstone[o]] = Absent
      <4>1. ASSUME NEW e, task' = [task EXCEPT ![r].rest = @ \ {e}]
            PROVE  task'[r].pc = "removing" /\ task'[r].op = o
        <5>1. task[r] = [pc |-> "removing", op |-> o, rest |-> task[r].rest]
          BY <2>0, <2>1, TaskShape DEF At
        <5>2. task' = [task EXCEPT ![r] = [task[r] EXCEPT !.rest = @ \ {e}]]
          BY <4>1
        <5>3. [task[r] EXCEPT !.rest = @ \ {e}]
              = [pc |-> "removing", op |-> o, rest |-> task[r].rest \ {e}]
          BY <5>1
        <5> QED BY <5>2, <5>3 DEF TypeOK
      <4>2. RemoveEntry(r) => \E e : task' = [task EXCEPT ![r].rest = @ \ {e}]
        BY <2>9 DEF RemoveEntry
      <4>3. RemoveDirectory(r) => task' = [task EXCEPT ![r] = [pc |-> "verifying", op |-> o]]
        BY <2>0, <2>9 DEF RemoveDirectory
      <4>4. RemoveDirectory(r) => task'[r].pc = "verifying" /\ task'[r].op = o
        BY <4>3 DEF TypeOK
      <4> QED BY <2>1, <4>1, <4>2, <4>4 DEF Op
    <3>2. /\ \A q \in Ops : Runs(r, q, Renamed)' <=> Runs(r, q, Renamed)
          /\ ~At(r, "resolving")'
      BY <2>0, <2>1, <3>1 DEF Runs, Renamed, Op, At
    <3>3. dir'[Tombstone[o]] = Absent => ~Exists(Tombstone[o])'
      BY DEF Exists
    <3> QED BY <2>0, <2>1, <2>2, <2>3, <2>4, <2>5, <2>6, <2>7, <2>9, <3>1, <3>2, <3>3
            DEF OrderOf, Places, At, Executing, Renamed
  <2> QED BY <1>9, <2>8, <2>9 DEF RemoveEntry, RemoveDirectory
<1>10. CASE InspectRoot(r)
  <2>1. /\ task'[r] = [pc |-> "inspected", op |-> Op(r), root |-> Exists(Path[Op(r)])]
        /\ At(r, "inspecting") /\ UNCHANGED <<plan, bound, record, dir, pending>>
    BY <1>10 DEF InspectRoot, TypeOK, serverVars
  <2>2. /\ \A o \in Ops : ~Runs(r, o, Renamed) /\ ~Runs(r, o, Renamed)'
        /\ ~At(r, "removing")' /\ ~At(r, "verifying")' /\ ~At(r, "resolving")'
        /\ task'[r].pc \notin Executing
    BY <2>1 DEF Runs, Renamed, Executing, At
  <2>3. (\A p \in Places : Exists(p)' = Exists(p)) /\ Untouched' = Untouched
    BY <2>1 DEF Exists, Untouched
  <2> QED BY <2>1, <2>2, <2>3 DEF OrderOf, Places
<1>11. CASE InspectTombstone(r) \/ ResolveOld(r) \/ RestoreRefused(r)
  <2>1. /\ task'[r] = Idle /\ ~(task[r].pc \in Renamed) /\ UNCHANGED <<bound, dir, pending>>
    BY <1>11, <1>y, TaskChange DEF InspectTombstone, ResolveOld, RestoreRefused, SettleRestore,
          serverVars, At, Renamed
  <2>2. \A o \in Ops : record'[o] # "none" <=> record[o] # "none"
    <3>1. record["recovery"] # "none" => record'["recovery"] # "none"
      BY <1>1, RecordsStay
    <3> QED BY <1>11, RecordsStay DEF InspectTombstone, ResolveOld, RestoreRefused, At, Scan, Compare
  <2>3. /\ task'[r].pc \notin Executing /\ ~At(r, "removing")' /\ ~At(r, "verifying")'
        /\ ~At(r, "resolving")' /\ \A o \in Ops : ~Runs(r, o, Renamed)'
        /\ \A o \in Ops : ~Runs(r, o, Renamed)
    BY <2>1 DEF Idle, At, Executing, Renamed, Runs
  <2>4. (\A p \in Places : Exists(p)' = Exists(p)) /\ Untouched' = Untouched
    BY <2>1 DEF Exists, Untouched
  <2> QED BY <2>1, <2>2, <2>3, <2>4 DEF OrderOf, Places
<1>12. CASE Compare(r)
  <2>1. task[r].pc = "comparing" /\ Goto(r, "restoring") /\ Exists("tombstone")
        /\ UNCHANGED <<bound, dir, pending>>
        /\ record' = [record EXCEPT !["recovery"] = "preparing"]
    BY <1>12 DEF Compare, At, MayRestore, serverVars
  <2>2. task'[r] = [pc |-> "restoring", op |-> Op(r)]
    BY <2>1, Going DEF Serving
  <2>3. /\ \A o \in Ops : ~Runs(r, o, Renamed) /\ ~Runs(r, o, Renamed)'
        /\ ~At(r, "removing")' /\ ~At(r, "verifying")' /\ ~At(r, "resolving")'
        /\ task'[r].pc \notin Executing
    BY <2>1, <2>2 DEF Runs, Renamed, Executing, At
  <2>4. (\A p \in Places : Exists(p)' = Exists(p)) /\ Untouched' = Untouched
    BY <2>1 DEF Exists, Untouched
  <2>5. record'["recovery"] # "none" /\ record'["delete"] = record["delete"]
    BY <2>1 DEF TypeOK
  <2>6. ~Untouched
    BY <2>1 DEF Untouched
  <2> QED BY <2>1, <2>3, <2>4, <2>5, <2>6 DEF OrderOf, Places
<1>13. CASE Restore(r) \/ RestoreUnknown(r)
  <2>1. /\ At(r, "restoring") /\ bound' = bound /\ record["recovery"] # "none"
        /\ record'["recovery"] # "none" /\ record'["delete"] = record["delete"]
    BY <1>13 DEF Restore, RestoreUnknown, SettleRestore, SentOnce, TypeOK
  <2>2. "delete" \notin bound /\ "delete" \notin pending /\ record["delete"] # "none"
    BY <2>1 DEF OrderOf, SentOnce
  <2>3. \A o \in Ops : ~Runs(r, o, Renamed)
    BY <2>1 DEF At, Runs, Renamed
  <2>4. /\ \A o \in Ops : o \in pending' <=> o \in pending
        /\ dir' = dir \/ (MayRestore /\ Moved("tombstone", "root"))
    BY <1>13 DEF Restore, RestoreUnknown, serverVars
  <2>5. \/ task'[r] = Idle
        \/ Restore(r) /\ task'[r] = [pc |-> "resolving"]
    BY <1>13, <1>y, TaskChange DEF Restore, RestoreUnknown, SettleRestore, Tasks
  <2>6. /\ task'[r].pc \notin Executing /\ ~At(r, "removing")' /\ ~At(r, "verifying")'
        /\ \A o \in Ops : ~Runs(r, o, Renamed)' /\ (At(r, "resolving")' => Restore(r))
    BY <2>5 DEF Idle, Runs, Executing, Renamed, At
  <2>7. Moved("tombstone", "root") => dir'["tombstone"] = Absent /\ dir'["second"] = dir["second"]
    BY Moving DEF Places
  <2>8. Exists("second")' = Exists("second") /\ (Restore(r) => ~Exists("tombstone")')
    BY <2>4, <2>7 DEF Exists, Restore
  <2> QED BY <2>1, <2>2, <2>3, <2>4, <2>6, <2>8 DEF OrderOf
<1> QED
  BY <1>1, <1>2, <1>3, <1>4, <1>5, <1>6, <1>7, <1>8, <1>9, <1>10, <1>11, <1>12, <1>13
     DEF Handler

\* Another client adds an entry or takes the free path of the root.
LEMMA OtherClient ==
  ASSUME TypeOK, AddEntry \/ RecreateRoot
  PROVE  /\ UNCHANGED <<task, plan, bound, record, pending, historyVars>>
         /\ \A p \in Places \ {"root"} :
              dir'[p].id = dir[p].id /\ (Exists(p)' <=> Exists(p))
         /\ Exists("root") => dir'["root"].id = dir["root"].id /\ Exists("root")'
         /\ dir'["root"].id = "ours" <=> dir["root"].id = "ours"
<1>1. CASE AddEntry
  <2>1. PICK p \in Places :
          Exists(p) /\ dir' = [dir EXCEPT ![p].entries = @ \cup {Foreign}]
    BY <1>1 DEF AddEntry
  <2>2. /\ dir'[p].id = dir[p].id /\ dir[p].id \in {"ours", "other"}
        /\ \A q \in Places \ {p} : dir'[q] = dir[q]
    <3>1. dir[p] \in [id : {"ours", "other"}, entries : SUBSET Items]
      BY <2>1 DEF TypeOK, Dirs, Exists
    <3>2. dir' = [dir EXCEPT ![p] = [dir[p] EXCEPT !.entries = @ \cup {Foreign}]]
      BY <2>1
    <3> QED BY <3>1, <3>2 DEF TypeOK
  <2>3. Exists(p)' /\ Exists(p)
    BY <2>1, <2>2 DEF Exists, Absent
  <2> QED BY <1>1, <2>2, <2>3 DEF AddEntry, Exists, Places
<1>2. CASE RecreateRoot
  BY <1>2, Existing DEF RecreateRoot, TypeOK, Exists, Absent, Places
<1> QED BY <1>1, <1>2

LEMMA LateRenameOrder ==
  ASSUME TypeOK, SentOnce, Order, NEW o \in Ops, LateRename(o)
  PROVE  Order'
<1> USE DEF Ops
<1>1. /\ o \notin bound /\ record[o] # "none" /\ pending' = pending \ {o}
      /\ UNCHANGED <<task, plan, bound, record>>
      /\ dir' = dir \/ (MayIsolate(o) /\ Moved(Path[o], Tombstone[o]))
  BY DEF LateRename, SentOnce
<1>2. \A r \in Requests : task[r].pc \in Executing => record[Op(r)] # "none" /\ Op(r) \in bound
                                                     /\ Op(r) \in Ops
  BY TaskShape DEF TypeOK, Serving, Executing, Renamed, Order
<1>3. \A q \in Ops : NotIsolated(q)' <=> NotIsolated(q)
  BY <1>1 DEF NotIsolated, Runs
<1>4. OneAtATime'
  BY <1>1 DEF OneAtATime, Order
<1>5. \A r \in Requests :
        /\ At(r, "removing") \/ At(r, "verifying") => task[r].pc \in Executing
        /\ \A q \in Ops : Runs(r, q, Renamed) => task[r].pc \in Executing /\ Op(r) = q
  BY DEF At, Runs, Renamed, Executing, Op
<1>6. CASE o = "delete"
  <2>1. "delete" \in pending /\ record["recovery"] = "none" /\ "recovery" \notin pending
    BY <1>6 DEF LateRename, Order, SentOnce
  <2>2. \A r \in Requests : ~(task[r].pc \in Executing) /\ ~At(r, "resolving")
    BY <1>1, <1>2, <1>6, <2>1 DEF SentOnce
  <2>3. dir'["second"] = dir["second"]
    BY <1>1, <1>6, PlacesOf, Moving DEF Places
  <2>4. Exists("second")' = Exists("second")
    BY <2>3 DEF Exists
  <2>5. \A r \in Requests : /\ ~(task'[r].pc \in Executing) /\ ~At(r, "resolving")'
                            /\ ~At(r, "removing")' /\ ~At(r, "verifying")'
                            /\ ~Runs(r, "recovery", Renamed)'
    BY <1>1, <1>5, <2>2 DEF At, Runs
  <2> QED BY <1>1, <1>3, <1>4, <1>6, <2>1, <2>4, <2>5 DEF Order
<1>7. CASE o = "recovery"
  <2>1. /\ "delete" \notin bound /\ "delete" \notin pending /\ record["delete"] # "none"
        /\ record["recovery"] # "none"
    BY <1>1, <1>7 DEF Order, SentOnce
  <2>2. \A r \in Requests : ~(task[r].pc \in Executing)
    BY <1>1, <1>2, <1>7, <2>1
  <2>3. Exists("tombstone")' => Exists("tombstone")
    BY <1>1, <1>7, PlacesOf, Moving DEF Places, Exists
  <2>5. \A r \in Requests : /\ ~(task'[r].pc \in Executing)
                            /\ At(r, "resolving")' => At(r, "resolving")
                            /\ ~At(r, "removing")' /\ ~At(r, "verifying")'
                            /\ ~Runs(r, "recovery", Renamed)'
    BY <1>1, <1>5, <2>2 DEF At, Runs
  <2> QED BY <1>1, <1>3, <1>4, <1>7, <2>1, <2>3, <2>5 DEF Order
<1> QED BY <1>6, <1>7

LEMMA LateRestoreOrder ==
  ASSUME TypeOK, SentOnce, Order, LateRestore
  PROVE  Order'
<1> USE DEF Ops
<1>1. /\ \A o \in Ops : o \in pending' <=> o \in pending
      /\ UNCHANGED <<task, plan, bound, record>>
      /\ dir' = dir \/ (MayRestore /\ Moved("tombstone", "root"))
      /\ record["recovery"] # "none" /\ record["delete"] # "none"
  BY DEF LateRestore, SentOnce
<1>2. "delete" \notin bound /\ "delete" \notin pending
  BY <1>1 DEF Order
<1>3. dir'["second"] = dir["second"] /\ (dir' = dir \/ ~Exists("tombstone")')
  BY <1>1, Moving DEF Places, Exists
<1>4. /\ Exists("second")' = Exists("second")
      /\ Exists("tombstone")' => Exists("tombstone")
  BY <1>3 DEF Exists
<1>5. \A q \in Ops : NotIsolated(q)' <=> NotIsolated(q)
  BY <1>1 DEF NotIsolated, Runs
<1>6. \A r \in Requests :
        At(r, "removing") \/ At(r, "verifying") => Op(r) = "recovery" /\ Tombstone[Op(r)] = "second"
  BY <1>2, TaskShape, PlacesOf DEF Order, At, Executing, Renamed, Serving
<1>7. OneAtATime'
  BY <1>1 DEF OneAtATime, Order
<1>8. \A r \in Requests :
       /\ task'[r].pc \in Executing => Op(r)' \in bound'
       /\ At(r, "removing")' => dir'[Tombstone[Op(r)']].id = plan'[Op(r)'].id
       /\ At(r, "verifying")' => ~Exists(Tombstone[Op(r)])'
       /\ Runs(r, "recovery", Renamed)' \/ At(r, "resolving")' => ~Exists("tombstone")'
  BY <1>1, <1>3, <1>4, <1>6 DEF Order, At, Op, Runs, Exists
<1> QED BY <1>1, <1>2, <1>4, <1>5, <1>7, <1>8 DEF Order

LEMMA OrderStep ==
  ASSUME TypeOK, SentOnce, ~overlapped => Order, [Next]_vars, ~overlapped'
  PROVE  Order'
<1> USE DEF Ops
<1>1. ASSUME NEW r \in Requests, Handler(r) PROVE Order'
  <2>1. ~overlapped
    BY <1>1, HandlerHistory
  <2>2. Order /\ OneAtATime
    BY <2>1 DEF Order
  <2>3. \A q \in Requests \ {r} : task[q] = Idle /\ task'[q] = Idle
    BY <1>1, <2>2, Alone
  <2>4. OrderOf(r)'
    BY <1>1, <2>2, <2>3, AloneBefore, HandlerOrder
  <2> QED BY <2>3, <2>4, AloneAfter
<1>2. ASSUME NEW o \in Ops, LateRename(o) PROVE Order'
  BY <1>2, LateRenameOrder DEF LateRename
<1>3. CASE LateRestore
  BY <1>3, LateRestoreOrder DEF LateRestore
<1>4. CASE AddEntry \/ RecreateRoot
  <2>1. Order
    BY <1>4, OtherClient DEF historyVars
  <2>2. \A q \in Ops : NotIsolated(q)' <=> NotIsolated(q)
    BY <1>4, OtherClient DEF NotIsolated, Runs
  <2>3. /\ Exists("second")' <=> Exists("second")
        /\ Exists("tombstone")' <=> Exists("tombstone")
        /\ Untouched => Untouched'
    BY <1>4, OtherClient DEF Untouched, Places, Exists
  <2>4. \A r \in Requests :
          At(r, "removing") \/ At(r, "verifying") =>
            Tombstone[Op(r)] \in Places \ {"root"}
    BY TaskShape, PlacesOf DEF At, Executing, Renamed, Serving, Places
  <2>5. \A r \in Requests :
       /\ task'[r].pc \in Executing => Op(r)' \in bound'
       /\ At(r, "removing")' => dir'[Tombstone[Op(r)']].id = plan'[Op(r)'].id
       /\ At(r, "verifying")' => ~Exists(Tombstone[Op(r)])'
       /\ Runs(r, "recovery", Renamed)' \/ At(r, "resolving")' => ~Exists("tombstone")'
    <3> SUFFICES ASSUME NEW r \in Requests
                 PROVE  /\ task'[r].pc \in Executing => Op(r)' \in bound'
                        /\ At(r, "removing")' => dir'[Tombstone[Op(r)']].id = plan'[Op(r)'].id
                        /\ At(r, "verifying")' => ~Exists(Tombstone[Op(r)])'
                        /\ Runs(r, "recovery", Renamed)' \/ At(r, "resolving")'
                             => ~Exists("tombstone")'
      OBVIOUS
    <3>1. UNCHANGED <<task, plan, bound>>
      BY <1>4, OtherClient
    <3>2. Op(r)' = Op(r)
      BY <3>1 DEF Op
    <3>3. At(r, "removing") => dir'[Tombstone[Op(r)]].id = plan[Op(r)].id
      BY <1>4, <2>1, <2>4, OtherClient DEF Order
    <3>4. At(r, "verifying") => ~Exists(Tombstone[Op(r)])'
      <4> SUFFICES ASSUME At(r, "verifying") PROVE ~Exists(Tombstone[Op(r)])'
        OBVIOUS
      <4>1. PICK p \in Places \ {"root"} : p = Tombstone[Op(r)]
        BY <2>4
      <4>2. ~Exists(p)'
        BY <1>4, <2>1, <4>1, OtherClient DEF Order
      <4> QED BY <3>2, <4>1, <4>2 DEF Exists
    <3> QED BY <2>1, <2>3, <3>1, <3>2, <3>3, <3>4 DEF Order, At, Runs
  <2>6. OneAtATime'
    BY <1>4, <2>1, OtherClient DEF OneAtATime, Order
  <2>7. UNCHANGED <<bound, record, pending>>
    BY <1>4, OtherClient
  <2> QED BY <2>1, <2>2, <2>3, <2>5, <2>6, <2>7 DEF Order
<1>5. CASE Restart
  <2>1. /\ \A r \in Requests : task'[r] = Idle
        /\ bound' = {} /\ UNCHANGED <<plan, record, dir>> /\ Order
        /\ pending' = pending \cup {Op(r) : r \in {q \in Requests : At(q, "isolating")}}
                     \cup {"restore" : r \in {q \in Requests : At(q, "restoring")}}
    BY <1>5 DEF Restart, historyVars
  <2>2. \A r \in Requests : /\ ~(task'[r].pc \in Executing) /\ ~At(r, "resolving")'
                            /\ ~At(r, "removing")' /\ ~At(r, "verifying")'
                            /\ \A o \in Ops : ~Runs(r, o, Renamed)'
    BY <2>1 DEF Idle, At, Executing, Renamed, Runs
  <2>3. ASSUME NEW o \in Ops, o \in pending', o \notin pending
        PROVE  o \in bound /\ NotIsolated(o) /\ record[o] # "none"
    <3>1. PICK r \in Requests : At(r, "isolating") /\ Op(r) = o
      BY <2>1, <2>3
    <3>2. \A q \in Requests \ {r} : task[q] = Idle
      BY <2>1, <3>1 DEF Order, OneAtATime, At, Idle
    <3>3. \A q \in Requests : ~Runs(q, o, Renamed)
      BY <3>1, <3>2 DEF At, Idle, Runs, Renamed
    <3> QED BY <2>1, <3>1, <3>3 DEF Order, NotIsolated, At, Executing, TypeOK
  <2>4. Exists("second")' = Exists("second") /\ Untouched' = Untouched
    BY <2>1 DEF Exists, Untouched
  <2>5. OneAtATime'
    BY <2>1 DEF OneAtATime
  <2>6. "delete" \in pending' => Untouched /\ record["recovery"] = "none"
    BY <2>1, <2>3 DEF Order
  <2>7. "recovery" \in pending' => ~Exists("second")
    BY <2>1, <2>3 DEF Order
  <2> QED BY <2>1, <2>2, <2>4, <2>5, <2>6, <2>7 DEF Order
<1>6. CASE UNCHANGED vars
  BY <1>6 DEF vars, serverVars, historyVars, Order, OneAtATime, NotIsolated, Untouched, Exists,
              At, Op, Runs
<1> QED BY <1>1, <1>2, <1>3, <1>4, <1>5, <1>6 DEF Next

-----------------------------------------------------------------------------
(* What is removed *)

\* A directory whose entries are all at one place still.
LEMMA KeptIsConfirmed ==
  ASSUME TypeOK, NEW p \in Places,
         Exists(p) => \E q \in Places : /\ dir[p].entries \subseteq dir'[q].entries
                                       /\ dir'[q].id = dir[p].id
  PROVE  Confirmed(p)
<1>1. CASE Exists(p)
  BY <1>1 DEF Confirmed
<1>2. CASE ~Exists(p)
  BY <1>2, Existing DEF Confirmed
<1> QED BY <1>1, <1>2

LEMMA MovedIsConfirmed ==
  ASSUME TypeOK, NEW from \in Places, NEW to \in Places, from # to,
         ~Exists(to), Moved(from, to), NEW p \in Places
  PROVE  Confirmed(p)
<1>1. /\ dir'[to] = dir[from]
      /\ \A q \in Places \ {from, to} : dir'[q] = dir[q]
  BY Moving
<1>2. CASE p = from
  BY <1>1, <1>2, KeptIsConfirmed
<1>3. CASE p = to
  BY <1>3, KeptIsConfirmed
<1>4. CASE p \notin {from, to}
  BY <1>1, <1>4, KeptIsConfirmed
<1> QED BY <1>2, <1>3, <1>4

LEMMA StepConfirmed ==
  ASSUME TypeOK, PlannedRest, ~overlapped => Order, Next, NEW p \in Places
  PROVE  Confirmed(p)
<1>p. "tombstone" \in Places /\ "root" \in Places /\ "tombstone" # "root"
  BY DEF Places
<1>u. ASSUME dir' = dir PROVE Confirmed(p)
  BY <1>u, KeptIsConfirmed
<1>1. ASSUME NEW r \in Requests, Handler(r) PROVE Confirmed(p)
  <2>1. CASE At(r, "isolating") /\ MayIsolate(Op(r)) /\ Moved(Path[Op(r)], Tombstone[Op(r)])
    <3>1. Op(r) \in Ops
      BY <2>1, TaskShape DEF At, Serving, Executing
    <3> QED BY <2>1, <3>1, PlacesOf, MovedIsConfirmed DEF MayIsolate
  <2>2. CASE MayRestore /\ Moved("tombstone", "root")
    BY <2>2, <1>p, MovedIsConfirmed DEF MayRestore
  <2>3. CASE RemoveEntry(r) \/ RemoveDirectory(r)
    <3>0. PICK o \in Ops : o = Op(r)
      BY <2>3, Removing
    <3>1. /\ At(r, "removing") /\ Exists(Tombstone[o]) /\ Tombstone[o] \in Places
          /\ \A q \in Places \ {Tombstone[o]} : dir'[q] = dir[q]
          /\ dir[Tombstone[o]].entries \ dir'[Tombstone[o]].entries \subseteq task[r].rest
      BY <2>3, <3>0, Removing, PlacesOf
    <3>2. CASE p # Tombstone[o]
      BY <3>1, <3>2, KeptIsConfirmed
    <3>3. CASE p = Tombstone[o]
      <4>1. task[r].rest \subseteq plan[o].entries
        BY <3>0, <3>1 DEF PlannedRest
      <4>2. ~overlapped => dir[p].id = plan[o].id
        BY <3>0, <3>1, <3>3 DEF Order
      <4>3. {e \in dir[p].entries : \A q \in Places : e \notin dir'[q].entries}
            \subseteq plan[o].entries
        BY <3>1, <3>3, <4>1
      <4> QED BY <3>3, <4>2, <4>3 DEF Confirmed
    <3> QED BY <3>2, <3>3
  <2> QED BY <1>1, <1>u, <2>1, <2>2, <2>3, HandlerDirs
<1>2. ASSUME NEW o \in Ops, LateRename(o) PROVE Confirmed(p)
  <2>1. CASE MayIsolate(o) /\ Moved(Path[o], Tombstone[o])
    BY <2>1, PlacesOf, MovedIsConfirmed DEF MayIsolate
  <2> QED BY <1>2, <1>u, <2>1 DEF LateRename
<1>3. CASE LateRestore
  <2>1. CASE MayRestore /\ Moved("tombstone", "root")
    BY <2>1, <1>p, MovedIsConfirmed DEF MayRestore
  <2> QED BY <1>3, <1>u, <2>1 DEF LateRestore
<1>4. CASE AddEntry
  <2>1. PICK q \in Places :
          Exists(q) /\ dir' = [dir EXCEPT ![q].entries = @ \cup {Foreign}]
    BY <1>4 DEF AddEntry
  <2>2. /\ dir'[q].id = dir[q].id /\ dir[q].entries \subseteq dir'[q].entries
        /\ \A s \in Places \ {q} : dir'[s] = dir[s]
    <3>1. dir[q] \in [id : {"ours", "other"}, entries : SUBSET Items]
      BY <2>1 DEF TypeOK, Dirs, Exists
    <3>2. dir' = [dir EXCEPT ![q] = [dir[q] EXCEPT !.entries = @ \cup {Foreign}]]
      BY <2>1
    <3> QED BY <3>1, <3>2 DEF TypeOK
  <2>3. dir'[p].id = dir[p].id /\ dir[p].entries \subseteq dir'[p].entries
    BY <2>2
  <2> QED BY <2>3, KeptIsConfirmed
<1>5. CASE RecreateRoot
  <2>1. /\ ~Exists("root") /\ \A q \in Places \ {"root"} : dir'[q] = dir[q]
    BY <1>5 DEF RecreateRoot, TypeOK
  <2> QED BY <2>1, KeptIsConfirmed
<1>6. CASE Restart
  BY <1>6, <1>u DEF Restart
<1> QED BY <1>1, <1>2, <1>3, <1>4, <1>5, <1>6 DEF Next

-----------------------------------------------------------------------------
(* What the records tell *)

\* Without overlap and without a late rename: what is at a tombstone is listed, a
\* delete that succeeded has taken the directory from the path and the tombstone,
\* and one that failed with nothing to recover has left it.
Told ==
  /\ \A o \in Ops : Exists(Tombstone[o]) => record[o] \in Listed
  /\ record["delete"] = "succeeded" =>
       dir["root"].id # "ours" /\ dir["tombstone"].id # "ours"
  /\ record["delete"] = "failed" /\ record["recovery"] = "none"
     /\ ~unverified /\ ~recreated => dir["root"].id = "ours"

\* What a handler knows that is about to write a record.
Knows(r) ==
  /\ Recovers(r) => record["delete"] \in Listed
  /\ Runs(r, "delete", Renamed) => dir["root"].id # "ours"
  /\ Runs(r, "delete", {"inspected"}) =>
       /\ ~task[r].root => dir["root"].id # "ours"
       /\ task[r].root /\ record["recovery"] = "none" => Exists("root") \/ Exists("tombstone")
  /\ At(r, "restoring") => ~Exists("second") /\ "recovery" \notin pending

Story == Told /\ \A r \in Requests : Knows(r)

LEMMA ListedIsOpen ==
  /\ Listed \cap TERMINAL_STATES = {}
  /\ "none" \notin Listed /\ "none" \notin TERMINAL_STATES
  /\ {"preparing", "cleanup_required", "outcome_unknown"} \subseteq Listed
  /\ {"succeeded", "failed"} \subseteq TERMINAL_STATES
  BY DEF Listed, TERMINAL_STATES

LEMMA IdleKnows ==
  ASSUME NEW r, task'[r] = Idle
  PROVE  Knows(r)'
  BY DEF Knows, Idle, Recovers, Runs, At, Executing, Renamed

\* Handlers that write no record and touch no directory.
LEMMA SameTold ==
  ASSUME Told, UNCHANGED <<dir, record>>, unverified => unverified', recreated => recreated'
  PROVE  Told'
  BY DEF Told, Exists

\* An operation that ends.
LEMMA FinalizeTold ==
  ASSUME TypeOK, NEW r \in Requests, OrderOf(r), Told, Knows(r),
         task[r].pc \in Executing, NEW state, Finalize(r, state), dir' = dir,
         unverified => unverified', recreated' = recreated,
         \/ state \in {"cleanup_required", "outcome_unknown"}
         \/ state = "failed" /\ task[r].pc \in {"checking", "isolating"}
         \/ state = "failed" /\ At(r, "verifying") /\ unverified'
         \/ state = "succeeded" /\ At(r, "verifying")
  PROVE  Told' /\ Knows(r)'
<1> USE DEF Ops
<1>1. /\ Op(r) \in Ops
      /\ task'[r] = IF Op(r) = "recovery" /\ state = "succeeded"
                       THEN [pc |-> "resolving"] ELSE Idle
      /\ record'[Op(r)] = state /\ \A o \in Ops \ {Op(r)} : record'[o] = record[o]
  BY Finalized
<1>2. \A p \in Places : Exists(p)' = Exists(p)
  BY DEF Exists
<1>3. state \notin Listed => ~Exists(Tombstone[Op(r)])
  <2>1. state \notin Listed => task[r].pc \in {"checking", "isolating", "verifying"}
    BY ListedIsOpen DEF At
  <2>2. CASE task[r].pc \in {"checking", "isolating"}
    <3>1. ~Runs(r, "delete", Renamed) /\ ~Runs(r, "recovery", Renamed) /\ Op(r) \in bound
      BY <2>2 DEF Runs, Renamed, OrderOf
    <3> QED BY <1>1, <3>1, PlacesOf DEF OrderOf, Untouched
  <2>3. CASE task[r].pc = "verifying"
    BY <2>3 DEF OrderOf, At
  <2> QED BY <2>1, <2>2, <2>3
<1>4. \A o \in Ops : Exists(Tombstone[o])' => record'[o] \in Listed
  BY <1>1, <1>2, <1>3, PlacesOf DEF Told, Exists
<1>5. record'["delete"] = "succeeded" => dir["root"].id # "ours" /\ dir["tombstone"].id # "ours"
  <2>1. CASE Op(r) = "delete" /\ state = "succeeded"
    <3>1. At(r, "verifying") /\ Runs(r, "delete", Renamed)
      BY <2>1, ListedIsOpen DEF At, Runs, Op, Renamed
    <3>2. ~Exists("tombstone")
      BY <2>1, <3>1, PlacesOf DEF OrderOf
    <3> QED BY <3>1, <3>2 DEF Knows, Exists, Absent
  <2> QED BY <1>1, <2>1 DEF Told
<1>6. record'["delete"] = "failed" /\ record'["recovery"] = "none" /\ ~unverified' /\ ~recreated'
        => dir["root"].id = "ours"
  <2>1. CASE Op(r) = "delete" /\ state = "failed" /\ ~unverified'
    <3>1. task[r].pc \in {"checking", "isolating"}
      BY <2>1
    <3> QED BY <2>1, <3>1 DEF OrderOf, Untouched, Runs, Renamed, Executing
  <2>2. CASE Op(r) = "recovery"
    <3>1. record'["recovery"] # "none"
      BY <1>1, <2>2, ListedIsOpen
    <3> QED BY <3>1
  <2> QED BY <1>1, <2>1, <2>2 DEF Told
<1>7. Told'
  BY <1>4, <1>5, <1>6 DEF Told
<1>8. Knows(r)'
  <2>1. CASE task'[r] = Idle
    BY <2>1, IdleKnows
  <2>2. CASE task'[r] = [pc |-> "resolving"] /\ Op(r) = "recovery"
    <3>1. Recovers(r)
      BY <2>2 DEF Recovers, Runs, Op
    <3>2. record'["delete"] = record["delete"]
      BY <1>1, <2>2
    <3> QED BY <2>2, <3>1, <3>2 DEF Knows, Runs, Renamed, At
  <2> QED BY <1>1, <2>1, <2>2
<1> QED BY <1>7, <1>8

LEMMA HandlerStory ==
  ASSUME TypeOK, SentOnce, OneDirectory, NEW r \in Requests, Handler(r),
         OrderOf(r), Told, Knows(r), ~late'
  PROVE  Told' /\ Knows(r)'
<1> USE DEF Ops
<1>m. /\ unverified => unverified'
      /\ recreated' = recreated
  BY HandlerHistory
<1>y. Idle \in Tasks
  BY DEF Tasks
<1>1. ASSUME NEW entry \in Tasks, Start(r, entry),
             entry.pc \in {"scanning", "checking", "inspecting", "comparing"},
             \/ record["delete"] \in Listed
             \/ entry.pc # "comparing" /\ entry.op # "recovery"
             \/ entry.pc = "inspecting"
      PROVE  Told' /\ Knows(r)'
  <2>1. task'[r] = entry /\ UNCHANGED <<dir, record, pending>>
    BY <1>1, TaskChange DEF Start, serverVars
  <2>2. Told'
    BY <1>m, <2>1, SameTold
  <2> QED BY <1>1, <2>1, <2>2 DEF Knows, Recovers, Runs, At, Renamed, Executing
<1>2. CASE Request(r)
  <2>1. CASE RequestPreflight(r)
    <3>1. [pc |-> "scanning", op |-> "delete"] \in Tasks
      BY DEF Tasks
    <3> QED BY <2>1, <3>1, <1>1 DEF RequestPreflight
  <2>2. CASE RequestExecute(r)
    <3>1. [pc |-> "checking", op |-> "delete"] \in Tasks
      BY DEF Tasks
    <3> QED BY <2>2, <3>1, <1>1 DEF RequestExecute
  <2>3. CASE RequestContinue(r)
    <3>1. [pc |-> "scanning", op |-> "recovery"] \in Tasks
      BY DEF Tasks
    <3> QED BY <2>3, <3>1, <1>1 DEF RequestContinue, RequestRecovery, Recoverable
  <2>4. CASE RequestRestore(r)
    <3>1. [pc |-> "comparing", op |-> "recovery"] \in Tasks
      BY DEF Tasks
    <3> QED BY <2>4, <3>1, <1>1 DEF RequestRestore, RequestRecovery, Recoverable
  <2>5. CASE RequestInspect(r)
    <3>1. PICK o \in Ops : Start(r, [pc |-> "inspecting", op |-> o])
      BY <2>5 DEF RequestInspect
    <3>2. [pc |-> "inspecting", op |-> o] \in Tasks
      BY DEF Tasks
    <3> QED BY <3>1, <3>2, <1>1
  <2> QED BY <1>2, <2>1, <2>2, <2>3, <2>4, <2>5 DEF Request
<1>3. CASE Quit(r) \/ (Leave(r) /\ UNCHANGED <<dir, record>>)
  <2>1. task'[r] = Idle /\ UNCHANGED <<dir, record>>
    BY <1>3, <1>y, TaskChange DEF Quit, Leave, serverVars
  <2> QED BY <2>1, <1>m, SameTold, IdleKnows
<1>4. CASE Scan(r)
  <2> DEFINE x == IF Op(r) = "recovery" THEN [pc |-> "checking", op |-> Op(r)] ELSE Idle
  <2>1. /\ Op(r) \in Ops /\ x \in Tasks /\ At(r, "scanning")
    BY <1>4, <1>y, TaskShape DEF Scan, At, Serving, Tasks
  <2>2. /\ record[Op(r)] = "none" /\ UNCHANGED <<dir, pending>>
        /\ record' = [record EXCEPT ![Op(r)] = "preparing"]
        /\ task'[r] = x
    BY <1>4, <2>1, TaskChange DEF Scan, serverVars
  <2>3. record'[Op(r)] = "preparing" /\ \A q \in Ops \ {Op(r)} : record'[q] = record[q]
    BY <2>1, <2>2 DEF TypeOK
  <2>4. Told'
    BY <1>m, <2>1, <2>2, <2>3, ListedIsOpen DEF Told, Exists
  <2>5. CASE Op(r) = "recovery"
    <3>1. Recovers(r)
      BY <2>1, <2>5 DEF Recovers, Runs, At, Op
    <3> QED BY <2>2, <2>3, <2>4, <2>5, <3>1 DEF Knows, Runs, Renamed, At
  <2>6. CASE Op(r) # "recovery"
    BY <2>2, <2>4, <2>6, IdleKnows
  <2> QED BY <2>5, <2>6
<1>5. CASE Check(r)
  <2>1. task[r].pc = "checking" /\ Goto(r, "isolating") /\ UNCHANGED <<dir, record, pending>>
    BY <1>5 DEF Check, At, serverVars
  <2>2. task'[r] = [pc |-> "isolating", op |-> Op(r)]
    BY <2>1, Going DEF Serving, Executing
  <2>3. Recovers(r)' => Recovers(r)
    BY <2>1, <2>2 DEF Recovers, Runs, Op, Executing
  <2>4. Told'
    BY <1>m, <2>1, SameTold
  <2> QED BY <2>1, <2>2, <2>3, <2>4 DEF Knows, Runs, Renamed, At
<1>6. CASE Isolate(r) \/ IsolateUnknown(r)
  <2>1. /\ At(r, "isolating") /\ Op(r) \in Ops /\ task[r].pc \in Executing
        /\ Op(r) \in bound /\ record[Op(r)] # "none"
    BY <1>6, TaskShape DEF Isolate, IsolateUnknown, At, Serving, Executing, OrderOf, TypeOK
  <2>2. record[Op(r)] \in Listed
    <3>1. record[Op(r)] \notin TERMINAL_STATES
      BY <1>6 DEF Isolate, IsolateUnknown, NoteRename
    <3> QED BY <2>1, <3>1 DEF TypeOK
  <2>3. CASE IsolateUnknown(r) /\ dir' = dir
    <3>1. Finalize(r, "outcome_unknown")
      BY <2>3 DEF IsolateUnknown
    <3> QED BY <2>1, <2>3, <3>1, <1>m, FinalizeTold
  <2>4. CASE Moved(Path[Op(r)], Tombstone[Op(r)])
    <3>1. /\ dir'[Tombstone[Op(r)]] = dir[Path[Op(r)]] /\ dir'[Path[Op(r)]] = Absent
          /\ \A p \in Places \ {Path[Op(r)], Tombstone[Op(r)]} : dir'[p] = dir[p]
      BY <2>1, <2>4, PlacesOf, Moving
    <3>2. /\ record'[Op(r)] \in Listed
          /\ \A o \in Ops \ {Op(r)} : record'[o] = record[o]
      <4>1. CASE Isolate(r)
        BY <2>2, <4>1 DEF Isolate
      <4>2. CASE IsolateUnknown(r)
        BY <2>1, <4>2, Finalized, ListedIsOpen DEF IsolateUnknown
      <4> QED BY <1>6, <4>1, <4>2
    <3>3. \/ Isolate(r) /\ task'[r] = [pc |-> "rescanning", op |-> Op(r)]
          \/ task'[r] = Idle
      <4>1. CASE Isolate(r)
        <5>1. task[r].pc = "isolating" /\ Goto(r, "rescanning")
          BY <4>1 DEF Isolate, At
        <5> QED BY <4>1, <5>1, Going DEF Serving, Executing, Renamed
      <4>2. CASE IsolateUnknown(r)
        BY <2>1, <4>2, Finalized DEF IsolateUnknown
      <4> QED BY <1>6, <4>1, <4>2
    <3>4. CASE Op(r) = "delete"
      <4>1. Path[Op(r)] = "root" /\ Tombstone[Op(r)] = "tombstone"
        BY <2>1, <3>4, PlacesOf
      <4>2. record'["delete"] \in Listed /\ dir'["root"].id # "ours" /\ dir'["second"] = dir["second"]
        BY <3>1, <3>2, <3>4, <4>1 DEF Absent, Places
      <4>3. \A o \in Ops : Exists(Tombstone[o])' => record'[o] \in Listed
        BY <3>2, <4>1, <4>2, <3>4, PlacesOf DEF Told, Exists
      <4>4. Told'
        BY <4>2, <4>3, ListedIsOpen DEF Told
      <4>5. CASE task'[r] = Idle
        BY <4>4, <4>5, IdleKnows
      <4>6. CASE task'[r] = [pc |-> "rescanning", op |-> Op(r)]
        BY <3>4, <4>2, <4>4, <4>6 DEF Knows, Recovers, Runs, Renamed, Executing, At
      <4> QED BY <3>3, <4>5, <4>6
    <3>5. CASE Op(r) = "recovery"
      <4>1. /\ Path[Op(r)] = "tombstone" /\ Tombstone[Op(r)] = "second"
            /\ record'["delete"] = record["delete"] /\ Recovers(r)
            /\ record["delete"] \in Listed
        BY <2>1, <3>2, <3>5, PlacesOf DEF Recovers, Runs, Op, Knows
      <4>2. Told'
        BY <3>2, <3>5, <4>1, PlacesOf, ListedIsOpen DEF Told
      <4>3. CASE task'[r] = Idle
        BY <4>2, <4>3, IdleKnows
      <4>4. CASE task'[r] = [pc |-> "rescanning", op |-> Op(r)]
        BY <3>5, <4>1, <4>2, <4>4 DEF Knows, Recovers, Runs, Renamed, Executing, At
      <4> QED BY <3>3, <4>3, <4>4
    <3> QED BY <2>1, <3>4, <3>5
  <2> QED BY <1>6, <2>3, <2>4 DEF Isolate, IsolateUnknown, serverVars
<1>7. CASE CheckFails(r) \/ CheckDenied(r) \/ IsolateRefused(r) \/ NeedsCleanup(r)
           \/ Verify(r) \/ VerifyDenied(r) \/ VerifyTimesOut(r)
  <2>1. /\ task[r].pc \in Executing /\ UNCHANGED dir
        /\ CheckFails(r) \/ CheckDenied(r) \/ IsolateRefused(r) =>
             task[r].pc \in {"checking", "isolating"}
        /\ Verify(r) => At(r, "verifying")
        /\ VerifyTimesOut(r) => At(r, "verifying") /\ unverified'
    BY <1>7 DEF CheckFails, CheckDenied, IsolateRefused, NeedsCleanup, Verify, VerifyDenied,
                VerifyTimesOut, At, Executing, Renamed, serverVars
  <2>2. \/ Leave(r) /\ UNCHANGED record
        \/ /\ CheckFails(r) \/ CheckDenied(r) \/ IsolateRefused(r) \/ VerifyTimesOut(r)
           /\ Finalize(r, "failed")
        \/ Finalize(r, "cleanup_required")
        \/ Verify(r) /\ Finalize(r, "succeeded")
    BY <1>7 DEF CheckFails, CheckDenied, IsolateRefused, NeedsCleanup, Verify,
                VerifyDenied, VerifyTimesOut, FinalizeIfOpen
  <2>3. CASE Leave(r) /\ UNCHANGED record
    BY <1>3, <2>1, <2>3
  <2>4. CASE Finalize(r, "cleanup_required")
    BY <1>m, <2>1, <2>4, FinalizeTold
  <2>5. CASE Verify(r) /\ Finalize(r, "succeeded")
    BY <1>m, <2>1, <2>5, FinalizeTold
  <2>6. CASE /\ CheckFails(r) \/ CheckDenied(r) \/ IsolateRefused(r) \/ VerifyTimesOut(r)
             /\ Finalize(r, "failed")
    BY <1>m, <2>1, <2>6, FinalizeTold
  <2> QED BY <2>2, <2>3, <2>4, <2>5, <2>6
<1>8. CASE Rescan(r)
  <2>1. /\ task'[r] = [pc |-> "removing", op |-> Op(r),
                       rest |-> dir[Tombstone[Op(r)]].entries]
        /\ At(r, "rescanning") /\ UNCHANGED <<record, dir, pending>>
    BY <1>8 DEF Rescan, TypeOK, serverVars
  <2>2. /\ Recovers(r)' => Recovers(r)
        /\ Runs(r, "delete", Renamed)' => Runs(r, "delete", Renamed)
    BY <2>1 DEF At, Op, Runs, Renamed, Executing, Recovers
  <2>3. Told'
    BY <1>m, <2>1, SameTold
  <2> QED BY <2>1, <2>2, <2>3 DEF Knows, Runs, At
<1>9. CASE RemoveEntry(r) \/ RemoveDirectory(r)
  <2>0. PICK o \in Ops : o = Op(r)
    BY <1>9, Removing
  <2>1. /\ At(r, "removing") /\ Tombstone[o] \in Places
        /\ \A p \in Places \ {Tombstone[o]} : dir'[p] = dir[p]
        /\ \/ dir'[Tombstone[o]].id = dir[Tombstone[o]].id
           \/ dir'[Tombstone[o]] = Absent
        /\ Exists(Tombstone[o]) /\ Tombstone[o] # "root"
    BY <1>9, <2>0, Removing, PlacesOf
  <2>2. \A p \in Places : /\ Exists(p)' => Exists(p)
                          /\ dir'[p].id = "ours" => dir[p].id = "ours"
    BY <2>1 DEF Exists, Absent
  <2>3. dir'["root"] = dir["root"]
    BY <2>1 DEF Places
  <2>4. /\ \A q \in Ops \ {o} : record'[q] = record[q]
        /\ record'[o] = record[o] \/ record'[o] = "cleanup_required"
    BY <1>9, <2>0, <2>1, Finalized DEF RemoveEntry, RemoveDirectory, At, Executing, Renamed
  <2>5. Told'
    <3>1. \A q \in Ops : Exists(Tombstone[q])' => record'[q] \in Listed
      <4> SUFFICES ASSUME NEW q \in Ops, Exists(Tombstone[q])' PROVE record'[q] \in Listed
        OBVIOUS
      <4>1. Exists(Tombstone[q])
        BY <2>2, PlacesOf DEF Exists
      <4> QED BY <2>4, <4>1, ListedIsOpen DEF Told
    <3> QED BY <1>m, <2>2, <2>3, <2>4, <3>1, ListedIsOpen DEF Told, Places
  <2>6. CASE Finalize(r, "cleanup_required")
    BY <2>1, <2>5, <2>6, Finalized, IdleKnows DEF At, Executing, Renamed
  <2>7. CASE UNCHANGED <<plan, bound, record>> /\ ~Finalize(r, "cleanup_required")
    <3>1. task'[r].pc \in {"removing", "verifying"} /\ task'[r].op = o
      <4>1. ASSUME NEW e, task' = [task EXCEPT ![r].rest = @ \ {e}]
            PROVE  task'[r].pc = "removing" /\ task'[r].op = o
        <5>1. task[r] = [pc |-> "removing", op |-> o, rest |-> task[r].rest]
          BY <2>0, <2>1, TaskShape DEF At
        <5>2. task' = [task EXCEPT ![r] = [task[r] EXCEPT !.rest = @ \ {e}]]
          BY <4>1
        <5>3. [task[r] EXCEPT !.rest = @ \ {e}]
              = [pc |-> "removing", op |-> o, rest |-> task[r].rest \ {e}]
          BY <5>1
        <5> QED BY <5>2, <5>3 DEF TypeOK
      <4>2. RemoveEntry(r) => \E e : task' = [task EXCEPT ![r].rest = @ \ {e}]
        BY <2>7 DEF RemoveEntry
      <4>3. RemoveDirectory(r) => task' = [task EXCEPT ![r] = [pc |-> "verifying", op |-> o]]
        BY <2>0, <2>7 DEF RemoveDirectory
      <4>4. RemoveDirectory(r) => task'[r].pc = "verifying" /\ task'[r].op = o
        BY <4>3 DEF TypeOK
      <4> QED BY <1>9, <4>1, <4>2, <4>4
    <3>2. /\ Recovers(r)' => Recovers(r)
          /\ Runs(r, "delete", Renamed)' => Runs(r, "delete", Renamed)
      BY <2>0, <2>1, <3>1 DEF Recovers, Runs, Renamed, Executing, At, Op
    <3> QED BY <2>3, <2>5, <2>7, <3>1, <3>2 DEF Knows, Runs, At
  <2> QED BY <1>9, <2>6, <2>7 DEF RemoveEntry, RemoveDirectory
<1>10. CASE InspectRoot(r)
  <2>1. /\ task'[r] = [pc |-> "inspected", op |-> Op(r), root |-> Exists(Path[Op(r)])]
        /\ At(r, "inspecting") /\ UNCHANGED <<record, dir, pending>>
    BY <1>10 DEF InspectRoot, TypeOK, serverVars
  <2>2. Told'
    BY <1>m, <2>1, SameTold
  <2>3. Op(r) = "delete" => /\ task'[r].root = Exists("root")
                            /\ Exists("root")' = Exists("root")
                            /\ ~Exists("root") => dir'["root"].id # "ours"
    BY <2>1, PlacesOf DEF Exists, Absent
  <2> QED BY <2>1, <2>2, <2>3 DEF Knows, Recovers, Runs, Renamed, Executing, At
<1>11. CASE InspectTombstone(r)
  <2>1. /\ task'[r] = Idle /\ Op(r) \in Ops /\ At(r, "inspected") /\ UNCHANGED dir
    BY <1>11, <1>y, TaskChange, TaskShape DEF InspectTombstone, serverVars, At, Serving
  <2>2. CASE Exists(Tombstone[Op(r)])
    BY <1>11, <1>m, <2>1, <2>2, SameTold, IdleKnows DEF InspectTombstone
  <2>3. CASE ~Exists(Tombstone[Op(r)])
    <3>1. /\ \A o \in Ops \ {Op(r)} : record'[o] = record[o]
          /\ record'[Op(r)] = IF task[r].root THEN "failed" ELSE "succeeded"
      BY <1>11, <2>1, <2>3 DEF InspectTombstone, TypeOK
    <3>2. \A o \in Ops : Exists(Tombstone[o])' => record'[o] \in Listed
      BY <2>1, <2>3, <3>1 DEF Told, Exists
    <3>3. CASE Op(r) = "recovery"
      BY <1>m, <2>1, <3>1, <3>2, <3>3, IdleKnows DEF Told
    <3>4. CASE Op(r) = "delete"
      <4>1. Runs(r, "delete", {"inspected"}) /\ ~Exists("tombstone")
        BY <2>1, <2>3, <3>4, PlacesOf DEF Runs, At, Op
      <4>2. dir["tombstone"].id # "ours"
        BY <4>1 DEF Exists, Absent
      <4>3. record'["delete"] = "succeeded" => dir["root"].id # "ours"
        BY <3>1, <3>4, <4>1 DEF Knows
      <4>4. record'["delete"] = "failed" /\ record'["recovery"] = "none" /\ ~recreated
              => dir["root"].id = "ours"
        <5> SUFFICES ASSUME record'["delete"] = "failed", record'["recovery"] = "none", ~recreated
                     PROVE  dir["root"].id = "ours"
          OBVIOUS
        <5>1. task[r].root /\ record["recovery"] = "none"
          BY <3>1, <3>4
        <5>2. Exists("root")
          BY <4>1, <5>1 DEF Knows
        <5> QED BY <5>2, Existing DEF OneDirectory, Places
      <4>5. Told'
        BY <1>m, <2>1, <3>2, <4>2, <4>3, <4>4 DEF Told
      <4> QED BY <2>1, <4>5, IdleKnows
    <3> QED BY <2>1, <3>3, <3>4
  <2> QED BY <2>2, <2>3
<1>12. CASE Compare(r)
  <2>1. task[r].pc = "comparing" /\ Goto(r, "restoring") /\ record["recovery"] = "none"
        /\ UNCHANGED <<dir, pending>> /\ Recovers(r)
        /\ record' = [record EXCEPT !["recovery"] = "preparing"]
    BY <1>12 DEF Compare, At, serverVars, Recovers
  <2>2. task'[r] = [pc |-> "restoring", op |-> Op(r)]
    BY <2>1, Going DEF Serving
  <2>3. record'["recovery"] = "preparing" /\ record'["delete"] = record["delete"]
        /\ record["delete"] \in Listed
    BY <2>1 DEF TypeOK, Knows
  <2>4. ~Exists("second") /\ "recovery" \notin pending
    BY <2>1 DEF OrderOf, SentOnce
  <2>5. Told'
    BY <1>m, <2>1, <2>3, ListedIsOpen DEF Told, Exists
  <2> QED BY <2>1, <2>2, <2>3, <2>4, <2>5 DEF Knows, Runs, Renamed, At, Exists
<1>13. CASE Restore(r) \/ RestoreRefused(r) \/ RestoreUnknown(r)
  <2>1. /\ At(r, "restoring") /\ Recovers(r) /\ record["delete"] \in Listed
        /\ record'["recovery"] # "none" /\ record'["delete"] = record["delete"]
        /\ ~Exists("second")
    BY <1>13, ListedIsOpen DEF Restore, RestoreRefused, RestoreUnknown, SettleRestore, TypeOK,
          Recovers, At, Knows
  <2>2. dir' = dir \/ Moved("tombstone", "root")
    BY <1>13 DEF Restore, RestoreRefused, RestoreUnknown, serverVars
  <2>3. dir'["second"] = dir["second"]
    BY <2>2, Moving DEF Places
  <2>4. \A o \in Ops : Exists(Tombstone[o])' => record'[o] \in Listed
    BY <2>1, <2>3, PlacesOf DEF Exists
  <2>5. Told'
    BY <2>1, <2>4, ListedIsOpen DEF Told
  <2>6. \/ task'[r] = Idle
        \/ task'[r] = [pc |-> "resolving"]
    BY <1>13, <1>y, TaskChange DEF Restore, RestoreRefused, RestoreUnknown, SettleRestore, Tasks
  <2> QED BY <2>1, <2>5, <2>6, IdleKnows DEF Knows, Runs, Renamed, At
<1>14. CASE ResolveOld(r)
  <2>1. /\ task'[r] = Idle /\ UNCHANGED dir /\ At(r, "resolving")
        /\ record' = [record EXCEPT !["delete"] = "failed"]
    BY <1>14, <1>y, TaskChange DEF ResolveOld, serverVars
  <2>2. ~Exists("tombstone") /\ record["recovery"] # "none"
    BY <2>1 DEF OrderOf, SentOnce
  <2>3. record'["delete"] = "failed" /\ record'["recovery"] = record["recovery"]
    BY <2>1 DEF TypeOK
  <2>4. \A o \in Ops : Exists(Tombstone[o])' => record'[o] \in Listed
    BY <2>1, <2>2, <2>3, PlacesOf DEF Told, Exists
  <2> QED BY <2>1, <2>2, <2>3, <2>4, IdleKnows DEF Told
<1> QED
  BY <1>2, <1>3, <1>4, <1>5, <1>6, <1>7, <1>8, <1>9, <1>10, <1>11, <1>12, <1>13, <1>14
     DEF Handler

LEMMA StoryStep ==
  ASSUME TypeOK, SentOnce, OneDirectory, ~overlapped => Order,
         ~overlapped /\ ~late => Story, [Next]_vars, ~overlapped', ~late'
  PROVE  Story'
<1> USE DEF Ops
<1>1. ASSUME NEW r \in Requests, Handler(r) PROVE Story'
  <2>1. ~overlapped /\ ~late
    BY <1>1, HandlerHistory
  <2>2. Order /\ OneAtATime /\ Story
    BY <2>1 DEF Order
  <2>3. \A q \in Requests \ {r} : task[q] = Idle /\ task'[q] = Idle
    BY <1>1, <2>2, Alone
  <2>4. Told' /\ Knows(r)'
    BY <1>1, <2>2, <2>3, AloneBefore, HandlerStory DEF Story
  <2>5. \A q \in Requests \ {r} : Knows(q)'
    BY <2>3, IdleKnows
  <2> QED BY <2>4, <2>5 DEF Story
<1>2. ASSUME NEW o \in Ops, LateRename(o) PROVE Story'
  <2>1. /\ UNCHANGED <<task, record, recreated, unverified>> /\ pending' = pending \ {o}
        /\ o \in pending /\ record[o] \notin TERMINAL_STATES /\ Story /\ Order
        /\ dir' = dir \/ (MayIsolate(o) /\ Moved(Path[o], Tombstone[o]))
    BY <1>2 DEF LateRename, NoteRename, worldVars
  <2>2. record[o] \in Listed
    BY <2>1 DEF SentOnce, TypeOK
  <2>3. CASE dir' = dir
    BY <2>1, <2>3 DEF Story, Told, Knows, Exists, Recovers, Runs, At
  <2>4. CASE MayIsolate(o) /\ Moved(Path[o], Tombstone[o])
    <3>1. /\ dir'[Tombstone[o]] = dir[Path[o]] /\ dir'[Path[o]] = Absent
          /\ \A p \in Places \ {Path[o], Tombstone[o]} : dir'[p] = dir[p]
          /\ Exists(Path[o])
      BY <2>4, PlacesOf, Moving DEF MayIsolate
    <3>2. \A r \in Requests : At(r, "restoring") => o # "recovery"
      BY <2>1 DEF Story, Knows
    <3>3. CASE o = "delete"
      <4>1. Path[o] = "root" /\ Tombstone[o] = "tombstone" /\ dir'["second"] = dir["second"]
        BY <3>1, <3>3, PlacesOf DEF Places
      <4>2. Told'
        BY <2>1, <2>2, <3>1, <3>3, <4>1, PlacesOf, ListedIsOpen DEF Story, Told, Exists
      <4>3. dir'["root"].id # "ours" /\ Exists("tombstone")'
        BY <3>1, <4>1 DEF Absent, Exists
      <4> QED BY <2>1, <4>1, <4>2, <4>3 DEF Story, Knows, Exists, Recovers, Runs, At
    <3>4. CASE o = "recovery"
      <4>1. Path[o] = "tombstone" /\ Tombstone[o] = "second" /\ dir'["root"] = dir["root"]
            /\ dir'["tombstone"] = Absent
        BY <3>1, <3>4, PlacesOf DEF Places
      <4>2. record["recovery"] # "none"
        BY <2>2, <3>4, ListedIsOpen
      <4>3. Told'
        BY <2>1, <2>2, <3>4, <4>1, <4>2, PlacesOf, ListedIsOpen DEF Story, Told, Exists, Absent
      <4> QED BY <2>1, <3>2, <3>4, <4>1, <4>2, <4>3 DEF Story, Knows, Exists, Recovers, Runs, At
    <3> QED BY <3>3, <3>4
  <2> QED BY <2>1, <2>3, <2>4
<1>3. CASE LateRestore
  BY <1>3 DEF LateRestore
<1>4. CASE AddEntry \/ RecreateRoot
  <2>1. /\ UNCHANGED <<task, record, pending>> /\ Story
        /\ unverified' = unverified
    BY <1>4, OtherClient DEF historyVars
  <2>2. /\ Exists("tombstone")' <=> Exists("tombstone")
        /\ Exists("second")' <=> Exists("second")
        /\ Exists("root") => Exists("root")'
        /\ dir'["tombstone"].id = dir["tombstone"].id
        /\ dir'["root"].id = "ours" <=> dir["root"].id = "ours"
    BY <1>4, OtherClient DEF Exists, Places
  <2>3. Told'
    <3>1. recreated => recreated'
      BY <1>4 DEF AddEntry, RecreateRoot
    <3> QED BY <2>1, <2>2, <3>1, PlacesOf DEF Story, Told, Exists
  <2>4. ASSUME NEW r \in Requests PROVE Knows(r)'
    BY <2>1, <2>2 DEF Story, Knows, Recovers, Runs, At
  <2> QED BY <2>3, <2>4 DEF Story
<1>5. CASE Restart
  <2>1. /\ \A r \in Requests : task'[r] = Idle
        /\ UNCHANGED <<record, dir, recreated, unverified>> /\ Story
    BY <1>5 DEF Restart, historyVars
  <2> QED BY <2>1, IdleKnows, SameTold DEF Story
<1>6. CASE UNCHANGED vars
  BY <1>6 DEF vars, serverVars, worldVars, historyVars, Story, Told, Knows, Exists, Recovers,
              Runs, At
<1> QED BY <1>1, <1>2, <1>3, <1>4, <1>5, <1>6 DEF Next

-----------------------------------------------------------------------------
(* The theorems *)

\* The inductive invariant.
DeleteInv ==
  /\ TypeOK
  /\ SentOnce
  /\ OneDirectory
  /\ PlannedRest
  /\ ~overlapped => Order
  /\ ~overlapped /\ ~late => Story

LEMMA DeleteInit == Init => DeleteInv
<1> SUFFICES ASSUME Init PROVE DeleteInv
  OBVIOUS
<1> USE DEF Ops, Places
<1>1. /\ \A r \in Requests : task[r] = Idle
      /\ \A o \in Ops : plan[o] = NoPlan /\ record[o] = "none"
      /\ bound = {} /\ pending = {}
      /\ dir["root"] = [id |-> "ours", entries |-> Entries]
      /\ dir["tombstone"] = Absent /\ dir["second"] = Absent
  BY DEF Init
<1>2. TypeOK
  <2>1. task \in [Requests -> Tasks]
    BY DEF Init, Tasks
  <2>2. plan \in [Ops -> [id : {"none", "ours", "other"}, entries : SUBSET Items,
                        consumed : BOOLEAN]]
    BY DEF Init, NoPlan
  <2>3. record \in [Ops -> TERMINAL_STATES \cup Listed \cup {"none"}]
    BY DEF Init
  <2>4. dir \in [Places -> Dirs]
    BY DEF Init, Dirs, Items, Absent
  <2> QED BY <1>1, <2>1, <2>2, <2>3, <2>4 DEF TypeOK, Idle
<1>3. \A r \in Requests : /\ task[r].pc \notin Executing
                          /\ ~At(r, "restoring") /\ ~At(r, "resolving") /\ ~At(r, "removing")
                          /\ ~At(r, "verifying") /\ ~Recovers(r)
                          /\ task[r].pc \notin {"inspecting", "inspected"}
                          /\ \A o \in Ops : ~Runs(r, o, Renamed)
                          /\ ~Runs(r, "delete", {"inspected"})
  BY <1>1 DEF Idle, At, Executing, Renamed, Recovers, Runs
<1>4. SentOnce
  BY <1>1, <1>3 DEF SentOnce
<1>5. OneDirectory
  BY <1>1 DEF OneDirectory, Absent
<1>6. PlannedRest
  BY <1>3 DEF PlannedRest
<1>7. Untouched /\ ~Exists("second") /\ ~Exists("tombstone")
  BY <1>1 DEF Untouched, Exists
<1>8. Order
  BY <1>1, <1>3, <1>7 DEF Order, OneAtATime
<1>9. Told
  BY <1>1, <1>7, PlacesOf DEF Told, Exists
<1>10. Story
  BY <1>3, <1>9 DEF Story, Knows
<1> QED BY <1>2, <1>4, <1>5, <1>6, <1>8, <1>10 DEF DeleteInv

LEMMA DeleteStep == DeleteInv /\ [Next]_vars => DeleteInv'
  BY TypeOKStep, SentOnceStep, OneDirectoryStep, PlannedRestStep, OrderStep, StoryStep
     DEF DeleteInv

\* The invariant holds for any number of requests and any set of entries.
THEOREM DeleteInvariance == Spec => []DeleteInv
  BY DeleteInit, DeleteStep, PTL DEF Spec

\* Plans, records, bindings, directories and handlers stay what they should be;
\* a handler that executes has the plan that it needs (delete_preflight writes it
\* with the record, and nothing removes it).
THEOREM DeleteTypeCorrect == Spec => []TypeOK
<1>1. DeleteInv => TypeOK
  BY DEF DeleteInv
<1> QED BY <1>1, DeleteInvariance, PTL

\* What the two records say of the directory is true, in every order of requests
\* without overlap (_finalize_delete_plan, _mark_needs_cleanup, inspect, the
\* recovery actions).
THEOREM DeleteRecordsAreTrue == Spec => []RecordsAreTrue
<1>1. DeleteInv => RecordsAreTrue
  <2> SUFFICES ASSUME DeleteInv, ~overlapped, ~late PROVE RecordsAreTrue
    BY DEF RecordsAreTrue, IsolatedIsListed, OutcomeIsTrue
  <2> USE DEF Ops, Places
  <2>1. Told /\ OneDirectory
    BY DEF DeleteInv, Story
  <2>2. IsolatedIsListed
    BY <2>1 DEF IsolatedIsListed, Told
  <2>3. Exists("second") => record["recovery"] \in Listed
    BY <2>1, PlacesOf DEF Told, Exists
  <2>4. OutcomeIsTrue
    BY <2>1, <2>3 DEF OutcomeIsTrue, Told, OneDirectory
  <2> QED BY <2>2, <2>4 DEF RecordsAreTrue
<1> QED BY <1>1, DeleteInvariance, PTL

\* Nothing that the user did not confirm is removed, whatever requests,
\* recoveries and other clients overlap (delete_execute: the rename to the
\* tombstone, the second scan and its comparison with the plan, the removal of
\* what it listed).
THEOREM DeleteRemovesConfirmedOnly == Spec => ConfirmedOnly
<1>1. DeleteInv /\ [Next]_vars => [\A p \in Places : Confirmed(p)]_vars
  BY StepConfirmed DEF DeleteInv
<1> QED BY <1>1, DeleteInvariance, PTL DEF Spec, ConfirmedOnly
=============================================================================
