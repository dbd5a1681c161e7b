----------------------- MODULE ManualSftpUploadProofs -----------------------
(***************************************************************************)
(* Proofs about ManualSftpUpload, for any source and any number of requests *)
(* in progress at a time: what is told of an upload is true of its target,  *)
(* a file that appeared is never replaced, and nothing is left behind.      *)
(***************************************************************************)
EXTENDS ManualSftpUpload, SequenceTheorems, TLAPS

\* Where begin, the uses of an active upload, its cleanup and recovery wait.
FreshPcs   == {"opening", "preparing", "snapshot"}
BeginPcs   == FreshPcs \cup {"created"}
UsePcs     == {"writing", "closingHandle", "hashing", "hashed", "rechecked", "renaming",
               "renamed", "refused"}
CleanPcs   == {"cleaning", "removing", "releasing"}
RecoverPcs == {"inspecting", "inspected", "missing", "comparing", "deleting", "resolving"}

\* Nothing happened before begin, and begin is alone but for recovery: there is
\* no temporary file before the exclusive open, no handle and no rename.
BeginInv ==
  /\ ~began => /\ \A r \in Requests : At(r, "idle")
               /\ record = "none" /\ told = {} /\ ~temp
               /\ ~active /\ ~state.handle /\ ~stray /\ ~committed
  /\ \A r \in Requests : task[r].pc \in BeginPcs =>
       /\ told = {} /\ ~active /\ ~state.handle /\ ~stray /\ ~committed
       /\ (task[r].pc \in FreshPcs => ~temp)
       /\ (task[r].pc = "opening" <=> record = "none")
       /\ \A q \in Requests \ {r} : task[q].pc \in RecoverPcs \cup {"idle"}
  /\ record = "none" =>
       ~active /\ \A r \in Requests : task[r].pc \in {"idle", "opening"}

\* From the moment its handle is closed for good a handler works on a file that
\* does not change, and what it verified is the source.
Sealed(r) ==
  /\ task[r].pc \in UsePcs \ {"writing"} => ~state.handle
  /\ task[r].pc = "hashed" => (task[r].match => content = Source)
  /\ task[r].pc \in {"rechecked", "renaming", "renamed"} => content = Source
  /\ task[r].pc = "renamed" => committed
  /\ task[r].pc = "inspected" => (task[r].seen = "upload" => committed)

\* So what is renamed is the source, and a rename is not undone.
SealInv ==
  /\ target = "upload" => committed
  /\ committed => ~temp
  /\ committed \/ stray => content = Source /\ ~state.handle
  /\ stray => ~active
  /\ \A r \in Requests : Sealed(r)

\* While requests come one after the other: an upload that is being closed was
\* not committed, and cannot be any more.
SequentialInv ==
  ~overlapped =>
    /\ \A q, r \in Requests : ~At(q, "idle") /\ ~At(r, "idle") => q = r
    /\ \A r \in Requests : task[r].pc \in UsePcs => active
    /\ active /\ committed => \E r \in Requests : At(r, "renamed")
    /\ \A r \in Requests : task[r].pc \in CleanPcs => ~active /\ ~stray /\ ~committed
    /\ told \cap {"failed", "cancelled"} # {} => ~active /\ ~stray /\ ~committed

\* What a handler that is about to make a record terminal knows of the temporary
\* file: it is gone, and no open can create it any more.
Searched(r) ==
  /\ task[r].pc = "releasing" => (task[r].clean => ~temp)
  /\ task[r].pc \in {"missing", "resolving"} =>
       unseen \/ (~temp /\ \A q \in Requests : task[q].pc \notin FreshPcs)

\* So a temporary file is in the list of recoveries as long as it exists.
ResidueInv ==
  /\ (temp \/ BeginInProgress) /\ ~unseen => Listed
  /\ \A r \in Requests : Searched(r)

\* A write that waits for its answer is in the file.
WriteInv ==
  \A r \in Requests : task[r].pc = "writing" => task[r].offset < Len(content)

\* The inductive invariant.
IInv ==
  /\ TypeOK
  /\ BeginInv /\ SealInv /\ SequentialInv /\ ResidueInv /\ WriteInv
  /\ SuccessIsCommitted /\ ChannelIsOwned
-----------------------------------------------------------------------------
(* Types *)

\* Two numbers that bound each other are one.
LEMMA SameLength == ASSUME NEW a \in Nat, NEW b \in Nat, a <= b, b <= a PROVE a = b
  OBVIOUS

\* A write extends the file by what lies behind its end.
LEMMA WrittenType ==
  ASSUME NEW file \in Seq(Chunks), NEW position \in Nat, position <= Len(file),
         NEW chunk \in Chunks
  PROVE  /\ Written(file, position, chunk) \in Seq(Chunks)
         /\ Len(Written(file, position, chunk)) \in Nat
         /\ Len(Written(file, position, chunk)) >= Len(file)
         /\ Len(Written(file, position, chunk)) > position
<1> DEFINE n == IF position < Len(file) THEN Len(file) ELSE position + 1
           w == Written(file, position, chunk)
<1>1. n \in Nat /\ n >= Len(file) /\ n > position BY LenProperties
<1>2. ASSUME NEW i \in 1..n, i # position + 1 PROVE file[i] \in Chunks
  <2>1. i \in 1..Len(file) BY <1>1, <1>2, LenProperties
  <2> QED BY <2>1, ElementOfSeq
<1> HIDE DEF n
<1>3. w = [i \in 1..n |-> IF i = position + 1 THEN chunk ELSE file[i]]
  BY DEF Written, n
<1> HIDE DEF w
<1>4. w \in [1..n -> Chunks] BY <1>2, <1>3
<1>5. w \in Seq(Chunks) BY <1>1, <1>4, SeqDef
<1>6. Len(w) = n
  <2>1. Len(w) \in Nat /\ DOMAIN w = 1..Len(w) BY <1>5, LenProperties
  <2>2. 1..n = 1..Len(w) BY <1>4, <2>1
  <2>3. n \in 1..n BY <1>1
  <2>4. n <= Len(w) BY <2>1, <2>2, <2>3
  <2>5. Len(w) \in 1..Len(w) BY <1>1, <2>1, <2>4
  <2>6. Len(w) \in 1..n BY <2>2, <2>5
  <2>7. Len(w) <= n BY <2>6
  <2>8. Len(w) \in Nat BY <2>1
  <2> QED BY <1>1, <2>4, <2>7, <2>8, SameLength
<1> QED BY <1>1, <1>5, <1>6 DEF w

\* A handler that waits for the cleanup remembers its receipt, a comparison its
\* sample, a write its chunk.
LEMMA TaskFields ==
  ASSUME NEW t \in Task
  PROVE  /\ t.pc \in CleanPcs => t.receipt \in {"failed", "cancelled"} /\ t.clean \in BOOLEAN
         /\ t.pc \in {"comparing", "deleting"} => t.sample \in Seq(Chunks)
         /\ t.pc = "writing" => t.chunk \in Chunks /\ t.offset \in Nat
         /\ t.pc = "hashed" => t.match \in BOOLEAN
  BY DEF Task, Waiting, CleanPcs

\* A cleanup that goes on keeps its receipt.
LEMMA Recleaned ==
  ASSUME NEW t \in Task, t.pc \in CleanPcs, NEW pc \in CleanPcs, NEW clean \in BOOLEAN
  PROVE  /\ [t EXCEPT !.pc = pc] = [pc |-> pc, receipt |-> t.receipt, clean |-> t.clean]
         /\ [t EXCEPT !.pc = pc, !.clean = clean] =
              [pc |-> pc, receipt |-> t.receipt, clean |-> clean]
         /\ t.receipt \in {"failed", "cancelled"} /\ t.clean \in BOOLEAN
<1>1. t \in [pc : CleanPcs, receipt : {"failed", "cancelled"}, clean : BOOLEAN]
  BY DEF Task, Waiting, CleanPcs
<1>2. [t EXCEPT !.pc = pc] = [pc |-> pc, receipt |-> t.receipt, clean |-> t.clean]
  BY <1>1
<1> DEFINE u == [pc |-> pc, receipt |-> t.receipt, clean |-> t.clean]
<1>4. /\ u \in [pc : CleanPcs, receipt : {"failed", "cancelled"}, clean : BOOLEAN]
      /\ u.pc = pc /\ u.receipt = t.receipt
  BY <1>1
<1> HIDE DEF u
<1>5. [u EXCEPT !.clean = clean] = [pc |-> pc, receipt |-> t.receipt, clean |-> clean]
  BY <1>4
<1>6. [t EXCEPT !.pc = pc, !.clean = clean] = [u EXCEPT !.clean = clean] BY <1>2 DEF u
<1>3. [t EXCEPT !.pc = pc, !.clean = clean] = [pc |-> pc, receipt |-> t.receipt, clean |-> clean]
  BY <1>5, <1>6
<1> QED BY <1>1, <1>2, <1>3

\* A comparison that goes on keeps its sample.
LEMMA Resampled ==
  ASSUME NEW t \in Task, t.pc = "comparing"
  PROVE  /\ [t EXCEPT !.pc = "deleting"] = [pc |-> "deleting", sample |-> t.sample]
         /\ t.sample \in Seq(Chunks)
<1>1. t \in [pc : {"comparing", "deleting"}, sample : Seq(Chunks)]
  BY DEF Task, Waiting
<1> QED BY <1>1

\* The type of an _UploadState.
State == [digest : Seq(Chunks), offset : Nat, position : Nat, handle : BOOLEAN, lease : BOOLEAN]

\* What a step changes of it: the flags or, when a write is acknowledged, the counters.
LEMMA StateFields ==
  ASSUME NEW s \in State, NEW b \in BOOLEAN
  PROVE  /\ [s EXCEPT !.handle = b] =
              [digest |-> s.digest, offset |-> s.offset, position |-> s.position,
               handle |-> b, lease |-> s.lease]
         /\ [s EXCEPT !.lease = b] =
              [digest |-> s.digest, offset |-> s.offset, position |-> s.position,
               handle |-> s.handle, lease |-> b]
         /\ s.digest \in Seq(Chunks) /\ s.offset \in Nat /\ s.position \in Nat
         /\ s.handle \in BOOLEAN /\ s.lease \in BOOLEAN
<1>1. [s EXCEPT !.handle = b] =
        [digest |-> s.digest, offset |-> s.offset, position |-> s.position,
         handle |-> b, lease |-> s.lease]
  BY DEF State
<1>2. [s EXCEPT !.lease = b] =
        [digest |-> s.digest, offset |-> s.offset, position |-> s.position,
         handle |-> s.handle, lease |-> b]
  BY DEF State
<1>4. /\ s.digest \in Seq(Chunks) /\ s.offset \in Nat /\ s.position \in Nat
      /\ s.handle \in BOOLEAN /\ s.lease \in BOOLEAN
  BY DEF State
<1> QED BY <1>1, <1>2, <1>4

\* Both flags are reset at once.
LEMMA StateReset ==
  ASSUME NEW s \in State
  PROVE  [s EXCEPT !.handle = FALSE, !.lease = FALSE] =
           [digest |-> s.digest, offset |-> s.offset, position |-> s.position,
            handle |-> FALSE, lease |-> FALSE]
<1> DEFINE t == [digest |-> s.digest, offset |-> s.offset, position |-> s.position,
                 handle |-> FALSE, lease |-> s.lease]
<1>1. [s EXCEPT !.handle = FALSE] = t BY StateFields
<1>2. t \in State BY StateFields DEF State
<1>3. t.digest = s.digest /\ t.offset = s.offset /\ t.position = s.position /\ t.handle = FALSE
  OBVIOUS
<1> HIDE DEF t
<1>4. [s EXCEPT !.handle = FALSE, !.lease = FALSE] = [t EXCEPT !.lease = FALSE]
  BY <1>1
<1>5. [t EXCEPT !.lease = FALSE] =
        [digest |-> t.digest, offset |-> t.offset, position |-> t.position,
         handle |-> t.handle, lease |-> FALSE]
  BY <1>2, StateFields
<1> QED BY <1>3, <1>4, <1>5

\* The steps that change the _UploadState, but for Acknowledge, change a flag.
LEMMA HandleSet ==
  ASSUME TypeOK, NEW b \in BOOLEAN, state' = [state EXCEPT !.handle = b]
  PROVE  /\ state' \in State
         /\ state'.handle = b /\ state'.lease = state.lease
         /\ state'.digest = state.digest /\ state'.offset = state.offset
         /\ state'.position = state.position
  BY StateFields DEF TypeOK, State

\* The lease is set, the rest is kept.
LEMMA LeaseSet ==
  ASSUME TypeOK, NEW b \in BOOLEAN, state' = [state EXCEPT !.lease = b]
  PROVE  /\ state' \in State
         /\ state'.lease = b /\ state'.handle = state.handle
         /\ state'.digest = state.digest /\ state'.offset = state.offset
         /\ state'.position = state.position
  BY StateFields DEF TypeOK, State

\* A restart leaves neither handle nor lease.
LEMMA FlagsReset ==
  ASSUME TypeOK, state' = [state EXCEPT !.handle = FALSE, !.lease = FALSE]
  PROVE  /\ state' \in State
         /\ state'.lease = FALSE /\ state'.handle = FALSE
         /\ state'.digest = state.digest /\ state'.offset = state.offset
         /\ state'.position = state.position
  BY StateFields, StateReset DEF TypeOK, State

\* A write that is acknowledged adds its chunk to the hash.
LEMMA CountersSet ==
  ASSUME TypeOK, NEW chunk \in Chunks, NEW n \in Nat,
         state' = [state EXCEPT !.digest = Append(@, chunk), !.offset = @ + 1, !.position = n]
  PROVE  /\ state' \in State
         /\ state'.handle = state.handle /\ state'.lease = state.lease
         /\ Len(state'.digest) = state'.offset /\ state'.position = n
<1> DEFINE d == Append(state.digest, chunk)
<1>1. state \in State /\ Len(state.digest) = state.offset BY DEF TypeOK, State
<1>2. state.digest \in Seq(Chunks) /\ state.offset \in Nat BY <1>1, StateFields
<1>3. d \in Seq(Chunks) /\ Len(d) = state.offset + 1 BY <1>1, <1>2, AppendProperties
<1> HIDE DEF d
<1>4. state' = [[[state EXCEPT !.digest = d] EXCEPT !.offset = state.offset + 1]
                  EXCEPT !.position = n]
  BY <1>1 DEF State, d
<1>5. state' = [digest |-> d, offset |-> state.offset + 1, position |-> n,
                handle |-> state.handle, lease |-> state.lease]
  BY <1>1, <1>4 DEF State
<1> QED BY <1>1, <1>2, <1>3, <1>5, StateFields DEF State

\* The handlers stay handlers.
LEMMA TaskStep ==
  ASSUME TypeOK, [Next]_vars
  PROVE  task' \in [Requests -> Task]
<1>1. task \in [Requests -> Task] /\ content \in Seq(Chunks) /\ state.position \in Nat
  BY StateFields DEF TypeOK, State
<1>2. ASSUME NEW r \in Requests, NEW t \in Task, Become(r, t)
      PROVE  task' \in [Requests -> Task]
  BY <1>1, <1>2 DEF Become
<1>3. ASSUME NEW pc \in Waiting PROVE [pc |-> pc] \in Task BY DEF Task
<1>4. ASSUME NEW r \in Requests, NEW pc \in Waiting, Goto(r, pc)
      PROVE  task' \in [Requests -> Task]
  BY <1>2, <1>3, <1>4 DEF Goto
<1>5. ASSUME NEW seen \in Targets, NEW pc \in {"snapshot", "rechecked", "inspected"}
      PROVE  [pc |-> pc, seen |-> seen] \in Task
  BY DEF Task
<1>6. ASSUME NEW pc \in CleanPcs, NEW receipt \in {"failed", "cancelled"}, NEW clean \in BOOLEAN
      PROVE  [pc |-> pc, receipt |-> receipt, clean |-> clean] \in Task
  BY DEF Task, CleanPcs
<1>7. ASSUME NEW r \in Requests, NEW receipt \in {"failed", "cancelled"}, CloseUpload(r, receipt)
      PROVE  task' \in [Requests -> Task]
  BY <1>2, <1>6, <1>7 DEF CloseUpload, CleanPcs
<1>8. ASSUME NEW r \in Requests, Beginning(r) PROVE task' \in [Requests -> Task]
  <2>1. CASE TargetRead(r) BY <1>2, <1>5, <2>1 DEF TargetRead, TypeOK
  <2>2. CASE ~TargetRead(r)
    <3>1. \E pc \in Waiting : Goto(r, pc)
      BY <1>8, <2>2 DEF Beginning, Begin, ChannelOpened, TempCreated, BeginRefused, BeginFails,
         BeginEnds, OpenTimesOut, Waiting
    <3> QED BY <1>4, <3>1
  <2> QED BY <2>1, <2>2
<1>9. ASSUME NEW r \in Requests, Writing(r) PROVE task' \in [Requests -> Task]
  <2>1. CASE Write(r)
    <3>1. ASSUME NEW chunk \in Chunks
          PROVE  [pc |-> "writing", chunk |-> chunk, offset |-> state.position] \in Task
      BY <1>1 DEF Task
    <3> QED BY <1>2, <2>1, <3>1 DEF Write
  <2>2. CASE Acknowledge(r) BY <1>4, <2>2 DEF Acknowledge, Waiting
  <2>3. CASE WriteRefused(r) \/ WriteFails(r) BY <1>7, <2>3 DEF WriteRefused, WriteFails
  <2> QED BY <1>9, <2>1, <2>2, <2>3 DEF Writing
<1>10. ASSUME NEW r \in Requests, Finishing(r) PROVE task' \in [Requests -> Task]
  <2>1. CASE \/ Finish(r) \/ HandleClosed(r) \/ FinishRaises(r) \/ ServeRename(r)
             \/ Committed(r) \/ RenameUnknown(r)
    <3>1. \E pc \in Waiting : Goto(r, pc)
      BY <2>1 DEF Finish, HandleClosed, FinishRaises, ServeRename, Committed, RenameUnknown, Waiting
    <3> QED BY <1>4, <3>1
  <2>2. CASE FinishRefused(r) \/ VerifyFails(r) \/ RenameRefused(r)
    BY <1>7, <2>2 DEF FinishRefused, VerifyFails, RenameRefused
  <2>3. CASE TempHashed(r)
    <3>1. ASSUME NEW match \in BOOLEAN PROVE [pc |-> "hashed", match |-> match] \in Task
      BY DEF Task
    <3>2. (temp /\ content = Source) \in BOOLEAN OBVIOUS
    <3> QED BY <1>2, <2>3, <3>1, <3>2 DEF TempHashed
  <2>4. CASE TargetRechecked(r) BY <1>2, <1>5, <2>4 DEF TargetRechecked, TypeOK
  <2>5. CASE Commit(r)
    <3>1. ASSUME NEW behind \in SUBSET Requests
          PROVE  [pc |-> "renaming", behind |-> behind] \in Task
      BY DEF Task
    <3>2. {q \in Requests : At(q, "removing")} \in SUBSET Requests OBVIOUS
    <3> QED BY <1>2, <2>5, <3>1, <3>2 DEF Commit
  <2> QED BY <1>10, <2>1, <2>2, <2>3, <2>4, <2>5 DEF Finishing
<1>11. ASSUME NEW r \in Requests, Closing(r) PROVE task' \in [Requests -> Task]
  <2>1. CASE Abort(r) BY <1>7, <2>1 DEF Abort
  <2>2. CASE Released(r) BY <1>4, <2>2 DEF Released, Waiting
  <2>3. CASE Cleaned(r) \/ TempRemoved(r) \/ RemoveFails(r)
    <3>1. task[r] \in Task /\ task[r].pc \in CleanPcs
      BY <1>1, <2>3 DEF Cleaned, TempRemoved, RemoveFails, At, CleanPcs
    <3> DEFINE t == task[r]
    <3>2. \/ \E ok \in BOOLEAN : Become(r, [t EXCEPT !.pc = "removing", !.clean = ok])
          \/ Become(r, [t EXCEPT !.pc = "releasing"])
          \/ Become(r, [t EXCEPT !.pc = "releasing", !.clean = FALSE])
      BY <2>3 DEF Cleaned, TempRemoved, RemoveFails
    <3> HIDE DEF t
    <3>3. t \in Task /\ t.pc \in CleanPcs BY <3>1 DEF t
    <3>4. "removing" \in CleanPcs /\ "releasing" \in CleanPcs BY DEF CleanPcs
    <3>5. \E u \in Task : Become(r, u)
      <4>1. ASSUME NEW ok \in BOOLEAN
            PROVE  [t EXCEPT !.pc = "removing", !.clean = ok] =
                     [pc |-> "removing", receipt |-> t.receipt, clean |-> ok]
        BY <3>3, <3>4, Recleaned, ZenonT(60)
      <4>2. [t EXCEPT !.pc = "releasing"] =
              [pc |-> "releasing", receipt |-> t.receipt, clean |-> t.clean]
        BY <3>3, <3>4, Recleaned, Zenon
      <4>3. [t EXCEPT !.pc = "releasing", !.clean = FALSE] =
              [pc |-> "releasing", receipt |-> t.receipt, clean |-> FALSE]
        BY <3>3, <3>4, Recleaned, Zenon
      <4>4. t.receipt \in {"failed", "cancelled"} /\ t.clean \in BOOLEAN
        BY <3>3, TaskFields
      <4>5. ASSUME NEW ok \in BOOLEAN PROVE [t EXCEPT !.pc = "removing", !.clean = ok] \in Task
        <5>1. [pc |-> "removing", receipt |-> t.receipt, clean |-> ok] \in Task
          BY <1>6, <3>4, <4>4
        <5> QED BY <4>1, <5>1, Zenon
      <4>6. [t EXCEPT !.pc = "releasing"] \in Task BY <1>6, <3>4, <4>2, <4>4
      <4>7. [t EXCEPT !.pc = "releasing", !.clean = FALSE] \in Task BY <1>6, <3>4, <4>3, <4>4, ZenonT(60)
      <4> QED BY <3>2, <4>5, <4>6, <4>7, Zenon
    <3> QED BY <1>2, <3>5
  <2> QED BY <1>11, <2>1, <2>2, <2>3 DEF Closing
<1>12. ASSUME NEW r \in Requests, Recovering(r) PROVE task' \in [Requests -> Task]
  <2>1. CASE Inspect(r) \/ TempInspected(r) \/ Reconciled(r) \/ TempDeleted(r) \/ Resolved(r)
    <3>1. \E pc \in Waiting : Goto(r, pc)
      BY <2>1 DEF Inspect, TempInspected, Reconciled, TempDeleted, Resolved, Waiting
    <3> QED BY <1>4, <3>1
  <2>2. CASE TargetInspected(r)
    BY <1>2, <1>4, <1>5, <2>2 DEF TargetInspected, TypeOK, Waiting
  <2>3. ASSUME NEW pc \in {"comparing", "deleting"}, NEW sample \in Seq(Chunks)
        PROVE  [pc |-> pc, sample |-> sample] \in Task
    BY DEF Task
  <2>4. CASE DeleteTemp(r) BY <1>1, <1>2, <2>3, <2>4 DEF DeleteTemp
  <2>5. CASE TempCompared(r)
    <3>1. task[r] \in Task /\ task[r].pc = "comparing" BY <1>1, <2>5 DEF TempCompared, At
    <3> DEFINE t == task[r]
    <3>2. Become(r, [t EXCEPT !.pc = "deleting"]) \/ Goto(r, "idle") BY <2>5 DEF TempCompared
    <3>3. t \in Task /\ t.pc = "comparing" BY <3>1
    <3> HIDE DEF t
    <3>4. \/ \E sample \in Seq(Chunks) : Become(r, [pc |-> "deleting", sample |-> sample])
          \/ Goto(r, "idle")
      BY <3>2, <3>3, Resampled
    <3> QED BY <1>2, <1>4, <2>3, <3>4 DEF Waiting
  <2> QED BY <1>12, <2>1, <2>2, <2>4, <2>5 DEF Recovering
<1>13. CASE Restart
  <2>1. [pc |-> "idle"] \in Task BY <1>3 DEF Waiting
  <2> QED BY <1>13, <2>1 DEF Restart
<1>14. CASE StrayRename \/ TargetChanges \/ UNCHANGED vars
  BY <1>1, <1>14 DEF StrayRename, TargetChanges, vars
<1> QED BY <1>8, <1>9, <1>10, <1>11, <1>12, <1>13, <1>14 DEF Next

\* The _UploadState and the temporary file keep their types; no write is undone.
LEMMA StateStep ==
  ASSUME TypeOK, WriteInv, [Next]_vars
  PROVE  /\ state' \in State
         /\ Len(state'.digest) = state'.offset
         /\ content' \in Seq(Chunks)
         /\ Len(content') \in Nat /\ Len(content) <= Len(content')
         /\ state'.position <= Len(content')
<1> DEFINE Flags == /\ state' \in State
                    /\ state'.digest = state.digest /\ state'.offset = state.offset
                    /\ state'.position = state.position
<1>1. /\ state \in State /\ Len(state.digest) = state.offset /\ content \in Seq(Chunks)
      /\ Len(content) \in Nat /\ state.position <= Len(content) /\ state.position \in Nat
  BY LenProperties, StateFields DEF TypeOK, State
<1>2. ASSUME Flags, content' = content
      PROVE  /\ state' \in State /\ Len(state'.digest) = state'.offset
             /\ content' \in Seq(Chunks) /\ Len(content') \in Nat /\ Len(content) <= Len(content')
             /\ state'.position <= Len(content')
  BY <1>1, <1>2
<1>4. ASSUME NEW b \in BOOLEAN, \/ state' = [state EXCEPT !.handle = b]
                                \/ state' = [state EXCEPT !.lease = b]
      PROVE  Flags
  BY <1>4, HandleSet, LeaseSet
<1>5. ASSUME UNCHANGED state PROVE Flags BY <1>5, <1>1
<1> HIDE DEF Flags
<1>6. ASSUME NEW r \in Requests, NEW receipt, CloseUpload(r, receipt) PROVE Flags
  BY <1>4, <1>6 DEF CloseUpload
<1>7. ASSUME NEW r \in Requests, Beginning(r) PROVE Flags /\ content' = content
  BY <1>4, <1>5, <1>7 DEF Beginning, Begin, ChannelOpened, TargetRead, TempCreated, BeginRefused,
     BeginFails, BeginEnds, OpenTimesOut, remoteVars
<1>8. ASSUME NEW r \in Requests, WriteRefused(r) \/ WriteFails(r) PROVE Flags /\ content' = content
  BY <1>6, <1>8 DEF WriteRefused, WriteFails, remoteVars
<1>9. ASSUME NEW r \in Requests, Finishing(r) PROVE Flags /\ content' = content
  <2>1. CASE FinishRefused(r) \/ VerifyFails(r) \/ RenameRefused(r)
    BY <1>6, <2>1 DEF FinishRefused, VerifyFails, RenameRefused, remoteVars
  <2>2. CASE ~(FinishRefused(r) \/ VerifyFails(r) \/ RenameRefused(r))
    BY <1>4, <1>5, <1>9, <2>2 DEF Finishing, Finish, HandleClosed, TempHashed, TargetRechecked,
       Commit, FinishRaises, ServeRename, Renames, Committed, RenameUnknown, remoteVars
  <2> QED BY <2>1, <2>2
<1>10. ASSUME NEW r \in Requests, Closing(r) PROVE Flags /\ content' = content
  <2>1. CASE Abort(r) BY <1>6, <2>1 DEF Abort, remoteVars
  <2>2. CASE ~Abort(r)
    BY <1>4, <1>5, <1>10, <2>2 DEF Closing, Cleaned, TempRemoved, RemoveFails, Released, remoteVars
  <2> QED BY <2>1, <2>2
<1>11. ASSUME NEW r \in Requests, Recovering(r) PROVE Flags /\ content' = content
  BY <1>5, <1>11 DEF Recovering, Inspect, TargetInspected, TempInspected, Reconciled, DeleteTemp,
     TempCompared, TempDeleted, Resolved, remoteVars
<1>12. CASE Restart
  <2>1. Flags BY <1>12, FlagsReset DEF Restart, Flags
  <2> QED BY <1>2, <1>12, <2>1 DEF Restart
<1>13. CASE StrayRename \/ TargetChanges \/ UNCHANGED vars
  BY <1>2, <1>5, <1>13 DEF StrayRename, Renames, TargetChanges, vars, remoteVars
<1>14. ASSUME NEW r \in Requests, Write(r)
       PROVE  /\ state' \in State /\ Len(state'.digest) = state'.offset
              /\ content' \in Seq(Chunks) /\ Len(content') \in Nat /\ Len(content) <= Len(content')
              /\ state'.position <= Len(content')
  <2>1. PICK chunk \in Chunks : content' = Written(content, state.position, chunk)
    BY <1>14 DEF Write
  <2>2. state' = state BY <1>14 DEF Write
  <2>3. content' \in Seq(Chunks) /\ Len(content') \in Nat /\ Len(content) <= Len(content')
    BY <1>1, <2>1, WrittenType
  <2> QED BY <1>1, <2>2, <2>3
<1>15. ASSUME NEW r \in Requests, Acknowledge(r)
       PROVE  /\ state' \in State /\ Len(state'.digest) = state'.offset
              /\ content' \in Seq(Chunks) /\ Len(content') \in Nat /\ Len(content) <= Len(content')
              /\ state'.position <= Len(content')
  <2>1. content' = content BY <1>15 DEF Acknowledge, remoteVars
  <2>2. /\ task[r].chunk \in Chunks /\ task[r].offset \in Nat /\ task[r].offset < Len(content)
    <3>1. task[r] \in Task /\ task[r].pc = "writing" BY <1>15 DEF Acknowledge, At, TypeOK
    <3> QED BY <3>1, TaskFields DEF WriteInv
  <2>3. task[r].offset + 1 \in Nat /\ task[r].offset + 1 <= Len(content) BY <1>1, <2>2
  <2>4. state' = [state EXCEPT !.digest = Append(@, task[r].chunk), !.offset = @ + 1,
                               !.position = task[r].offset + 1]
    BY <1>15 DEF Acknowledge
  <2>5. /\ state' \in State /\ Len(state'.digest) = state'.offset
        /\ state'.position = task[r].offset + 1
    BY <2>2, <2>3, <2>4, CountersSet, Zenon
  <2> QED BY <1>1, <2>1, <2>3, <2>5
<1> QED BY <1>2, <1>7, <1>8, <1>9, <1>10, <1>11, <1>12, <1>13, <1>14, <1>15 DEF Next, Writing

\* The states of the record, the snapshots and the reports.
Names ==
  /\ frozen \in {"absent", "old", "other"}
  /\ record \in RecordStates \cup {"none"}
  /\ target \in Targets
  /\ told \in SUBSET (TERMINAL_STATES \cup {"cleanup_required", "outcome_unknown"})

\* A step leaves target, record and outcomes well typed.
LEMMA NamesStep ==
  ASSUME TypeOK, BeginInv, SealInv, [Next]_vars
  PROVE  Names'
<1> USE DEF Names, remoteVars, historyVars, Targets, RecordStates, TERMINAL_STATES, Report
<1>1. Names BY DEF TypeOK
<1>4. ASSUME NEW r \in Requests, Beginning(r) PROVE Names'
  <2>1. CASE Begin(r)
    <3>1. target # "upload" BY <2>1 DEF Begin, BeginInv, SealInv
    <3> QED BY <1>1, <2>1, <3>1 DEF Begin
  <2>2. CASE ChannelOpened(r) BY <1>1, <2>2 DEF ChannelOpened
  <2>3. CASE TargetRead(r) BY <1>1, <2>3 DEF TargetRead
  <2>4. CASE TempCreated(r) BY <1>1, <2>4 DEF TempCreated
  <2>5. CASE BeginRefused(r) BY <1>1, <2>5 DEF BeginRefused, BeginFails
  <2>6. CASE BeginEnds(r) BY <1>1, <2>6 DEF BeginEnds
  <2>7. CASE OpenTimesOut(r) BY <1>1, <2>7 DEF OpenTimesOut, BeginFails
  <2> QED BY <1>4, <2>1, <2>2, <2>3, <2>4, <2>5, <2>6, <2>7 DEF Beginning
<1>5. ASSUME NEW r \in Requests, Writing(r) PROVE Names'
  BY <1>1, <1>5 DEF Writing, Write, WriteRefused, Acknowledge, WriteFails
<1>6. ASSUME NEW r \in Requests, Finishing(r) PROVE Names'
  <2>1. CASE Finish(r) BY <1>1, <2>1 DEF Finish
  <2>2. CASE FinishRefused(r) BY <1>1, <2>2 DEF FinishRefused
  <2>3. CASE VerifyFails(r) BY <1>1, <2>3 DEF VerifyFails
  <2>4. CASE RenameRefused(r) BY <1>1, <2>4 DEF RenameRefused
  <2>5. CASE HandleClosed(r) BY <1>1, <2>5 DEF HandleClosed
  <2>6. CASE TempHashed(r) BY <1>1, <2>6 DEF TempHashed
  <2>7. CASE TargetRechecked(r) BY <1>1, <2>7 DEF TargetRechecked
  <2>8. CASE FinishRaises(r) BY <1>1, <2>8 DEF FinishRaises
  <2>9. CASE Commit(r) BY <1>1, <2>9 DEF Commit
  <2>10. CASE ServeRename(r)
    <3>1. CASE Renames BY <1>1, <2>10, <3>1 DEF ServeRename, Renames
    <3>2. CASE ~Renames BY <1>1, <2>10, <3>2 DEF ServeRename
    <3> QED BY <3>1, <3>2
  <2>11. CASE Committed(r) BY <1>1, <2>11 DEF Committed
  <2>12. CASE RenameUnknown(r) BY <1>1, <2>12 DEF RenameUnknown
  <2> QED BY <1>6, <2>1, <2>2, <2>3, <2>4, <2>5, <2>6, <2>7, <2>8, <2>9, <2>10, <2>11, <2>12
          DEF Finishing
<1>7. ASSUME NEW r \in Requests, Closing(r) PROVE Names'
  <2>1. CASE Abort(r) BY <1>1, <2>1 DEF Abort
  <2>2. CASE Cleaned(r) BY <1>1, <2>2 DEF Cleaned
  <2>3. CASE TempRemoved(r) BY <1>1, <2>3 DEF TempRemoved
  <2>4. CASE RemoveFails(r)
    <3>1. CASE UNCHANGED temp BY <1>1, <2>4, <3>1 DEF RemoveFails
    <3>2. CASE temp' = FALSE BY <1>1, <2>4, <3>2 DEF RemoveFails
    <3> QED BY <2>4, <3>1, <3>2 DEF RemoveFails
  <2>5. CASE Released(r)
    <3>1. task[r].receipt \in {"failed", "cancelled"}
      BY <2>5, TaskFields DEF Released, At, TypeOK, CleanPcs
    <3> QED BY <1>1, <2>5, <3>1 DEF Released
  <2> QED BY <1>7, <2>1, <2>2, <2>3, <2>4, <2>5 DEF Closing
<1>8. ASSUME NEW r \in Requests, Recovering(r) PROVE Names'
  <2>1. CASE Inspect(r) BY <1>1, <2>1 DEF Inspect
  <2>2. CASE TargetInspected(r) BY <1>1, <2>2 DEF TargetInspected
  <2>3. CASE TempInspected(r)
    <3>1. CASE task[r].seen = "upload" /\ content = Source BY <1>1, <2>3, <3>1 DEF TempInspected
    <3>2. CASE ~(task[r].seen = "upload" /\ content = Source)
      BY <1>1, <2>3, <3>2 DEF TempInspected
    <3> QED BY <3>1, <3>2
  <2>4. CASE Reconciled(r) BY <1>1, <2>4 DEF Reconciled
  <2>5. CASE DeleteTemp(r) BY <1>1, <2>5 DEF DeleteTemp
  <2>6. CASE TempCompared(r) BY <1>1, <2>6 DEF TempCompared
  <2>7. CASE TempDeleted(r)
    BY <1>1, <2>7 DEF TempDeleted
  <2>8. CASE Resolved(r) BY <1>1, <2>8 DEF Resolved
  <2> QED BY <1>8, <2>1, <2>2, <2>3, <2>4, <2>5, <2>6, <2>7, <2>8 DEF Recovering
<1>9. CASE StrayRename
  <2>1. CASE Renames BY <1>1, <1>9, <2>1 DEF StrayRename, Renames
  <2>2. CASE ~Renames BY <1>1, <1>9, <2>2 DEF StrayRename
  <2> QED BY <2>1, <2>2
<1>12. CASE TargetChanges BY <1>1, <1>12 DEF TargetChanges
<1>13. CASE Restart BY <1>1, <1>13 DEF Restart
<1>14. CASE UNCHANGED vars BY <1>1, <1>14 DEF vars
<1> QED BY <1>4, <1>5, <1>6, <1>7, <1>8, <1>9, <1>12, <1>13, <1>14 DEF Next

\* The flags.
Flags ==
  /\ began \in BOOLEAN /\ active \in BOOLEAN /\ temp \in BOOLEAN
  /\ stray \in BOOLEAN /\ committed \in BOOLEAN
  /\ overlapped \in BOOLEAN /\ unseen \in BOOLEAN /\ restarted \in BOOLEAN

\* A step leaves the flags well typed.
LEMMA FlagsStep ==
  ASSUME TypeOK, [Next]_vars
  PROVE  Flags'
<1> USE DEF Flags, remoteVars, historyVars
<1>1. Flags /\ TRUE \in BOOLEAN /\ FALSE \in BOOLEAN BY DEF TypeOK
<1>2. ASSUME NEW r \in Requests, Arrives(r) PROVE overlapped' \in BOOLEAN
  BY <1>2 DEF Arrives
<1>3. ASSUME NEW r \in Requests, NEW receipt, CloseUpload(r, receipt) PROVE active' \in BOOLEAN
  BY <1>3 DEF CloseUpload
<1>4. ASSUME NEW r \in Requests, Beginning(r) PROVE Flags'
  <2>1. CASE Begin(r) BY <1>1, <1>2, <2>1, Zenon DEF Begin
  <2>2. CASE ChannelOpened(r) BY <1>1, <2>2, Zenon DEF ChannelOpened
  <2>3. CASE TargetRead(r) BY <1>1, <2>3, Zenon DEF TargetRead
  <2>4. CASE TempCreated(r) BY <1>1, <2>4, Zenon DEF TempCreated
  <2>5. CASE BeginRefused(r) BY <1>1, <2>5, Zenon DEF BeginRefused, BeginFails
  <2>6. CASE BeginEnds(r) BY <1>1, <2>6, Zenon DEF BeginEnds
  <2>7. CASE OpenTimesOut(r) BY <1>1, <2>7, Zenon DEF OpenTimesOut, BeginFails
  <2> QED BY <1>4, <2>1, <2>2, <2>3, <2>4, <2>5, <2>6, <2>7, Zenon DEF Beginning
<1>5. ASSUME NEW r \in Requests, Writing(r) PROVE Flags'
  BY <1>1, <1>2, <1>3, <1>5, ZenonT(60) DEF Writing, Write, WriteRefused, Acknowledge, WriteFails
<1>6. ASSUME NEW r \in Requests, Finishing(r) PROVE Flags'
  <2>1. CASE Finish(r) BY <1>1, <1>2, <2>1, Zenon DEF Finish
  <2>2. CASE FinishRefused(r) BY <1>1, <1>2, <1>3, <2>2, Zenon DEF FinishRefused
  <2>3. CASE VerifyFails(r) BY <1>1, <1>3, <2>3, Zenon DEF VerifyFails
  <2>4. CASE RenameRefused(r) BY <1>1, <1>3, <2>4, Zenon DEF RenameRefused
  <2>5. CASE HandleClosed(r) BY <1>1, <2>5, Zenon DEF HandleClosed
  <2>6. CASE TempHashed(r) BY <1>1, <2>6, Zenon DEF TempHashed
  <2>7. CASE TargetRechecked(r) BY <1>1, <2>7, Zenon DEF TargetRechecked
  <2>8. CASE FinishRaises(r) BY <1>1, <2>8, Zenon DEF FinishRaises
  <2>9. CASE Commit(r) BY <1>1, <2>9, Zenon DEF Commit
  <2>10. CASE ServeRename(r)
    <3>1. CASE Renames BY <1>1, <2>10, <3>1, Zenon DEF ServeRename, Renames
    <3>2. CASE ~Renames BY <1>1, <2>10, <3>2, Zenon DEF ServeRename
    <3> QED BY <3>1, <3>2
  <2>11. CASE Committed(r) BY <1>1, <2>11, Zenon DEF Committed
  <2>12. CASE RenameUnknown(r) BY <1>1, <2>12, Zenon DEF RenameUnknown
  <2> QED BY <1>6, <2>1, <2>2, <2>3, <2>4, <2>5, <2>6, <2>7, <2>8, <2>9, <2>10, <2>11, <2>12
         , Zenon DEF Finishing
<1>7. ASSUME NEW r \in Requests, Closing(r) PROVE Flags'
  <2>1. CASE Abort(r) BY <1>1, <1>2, <1>3, <2>1, Zenon DEF Abort
  <2>2. CASE Cleaned(r) BY <1>1, <2>2, Zenon DEF Cleaned
  <2>3. CASE TempRemoved(r) BY <1>1, <2>3, Zenon DEF TempRemoved
  <2>4. CASE RemoveFails(r)
    <3>1. CASE UNCHANGED temp BY <1>1, <2>4, <3>1, Zenon DEF RemoveFails
    <3>2. CASE temp' = FALSE BY <1>1, <2>4, <3>2, Zenon DEF RemoveFails
    <3> QED BY <2>4, <3>1, <3>2, Zenon DEF RemoveFails
  <2>5. CASE Released(r)
    BY <1>1, <2>5, Zenon DEF Released
  <2> QED BY <1>7, <2>1, <2>2, <2>3, <2>4, <2>5, Zenon DEF Closing
<1>8. ASSUME NEW r \in Requests, Recovering(r) PROVE Flags'
  <2>1. CASE Inspect(r) BY <1>1, <1>2, <2>1, Zenon DEF Inspect
  <2>2. CASE TargetInspected(r) BY <1>1, <2>2, Zenon DEF TargetInspected
  <2>3. CASE TempInspected(r)
    <3>1. CASE task[r].seen = "upload" /\ content = Source BY <1>1, <2>3, <3>1, Zenon DEF TempInspected
    <3>2. CASE ~(task[r].seen = "upload" /\ content = Source)
      BY <1>1, <2>3, <3>2, Zenon DEF TempInspected
    <3> QED BY <3>1, <3>2
  <2>4. CASE Reconciled(r) BY <1>1, <2>4, Zenon DEF Reconciled
  <2>5. CASE DeleteTemp(r) BY <1>1, <1>2, <2>5, Zenon DEF DeleteTemp
  <2>6. CASE TempCompared(r) BY <1>1, <2>6, Zenon DEF TempCompared
  <2>7. CASE TempDeleted(r)
    <3>1. temp' \in BOOLEAN BY <2>7, Zenon DEF TempDeleted
    <3> QED BY <1>1, <2>7, <3>1, Zenon DEF TempDeleted
  <2>8. CASE Resolved(r) BY <1>1, <2>8, Zenon DEF Resolved
  <2> QED BY <1>8, <2>1, <2>2, <2>3, <2>4, <2>5, <2>6, <2>7, <2>8, Zenon DEF Recovering
<1>9. CASE StrayRename
  <2>1. CASE Renames BY <1>1, <1>9, <2>1, Zenon DEF StrayRename, Renames
  <2>2. CASE ~Renames BY <1>1, <1>9, <2>2, Zenon DEF StrayRename
  <2> QED BY <2>1, <2>2
<1>12. CASE TargetChanges BY <1>1, <1>12, Zenon DEF TargetChanges
<1>13. CASE Restart BY <1>1, <1>13, Zenon DEF Restart
<1>14. CASE UNCHANGED vars BY <1>1, <1>14 DEF vars
<1> QED BY <1>4, <1>5, <1>6, <1>7, <1>8, <1>9, <1>12, <1>13, <1>14, Zenon DEF Next

\* Every step keeps the types.
LEMMA TypeStep ==
  ASSUME TypeOK, BeginInv, SealInv, WriteInv, [Next]_vars
  PROVE  TypeOK'
<1>1. state' \in [digest : Seq(Chunks), offset : Nat, position : Nat,
                  handle : BOOLEAN, lease : BOOLEAN]
  BY StateStep DEF State
<1> QED BY <1>1, TaskStep, StateStep, NamesStep, FlagsStep, Zenon DEF TypeOK, Names, Flags

-----------------------------------------------------------------------------
(* Begin *)

\* A step of one handler is not a step of another.
LEMMA Moves ==
  ASSUME TypeOK, NEW r \in Requests, NEW t, Become(r, t)
  PROVE  task'[r] = t /\ \A q \in Requests \ {r} : task'[q] = task[q]
  BY DEF TypeOK, Become

\* A handler that only moves on remembers nothing.
LEMMA Goes ==
  ASSUME TypeOK, NEW r \in Requests, NEW pc, Goto(r, pc)
  PROVE  task'[r].pc = pc /\ \A q \in Requests \ {r} : task'[q] = task[q]
<1>1. Become(r, [pc |-> pc]) BY DEF Goto
<1>2. task'[r] = [pc |-> pc] /\ \A q \in Requests \ {r} : task'[q] = task[q]
  BY <1>1, Moves, Zenon
<1> QED BY <1>2

\* A handler that closes the upload takes over its handle.
LEMMA Closes ==
  ASSUME TypeOK, NEW r \in Requests, NEW receipt, CloseUpload(r, receipt)
  PROVE  /\ task'[r].pc \in {"cleaning", "removing"}
         /\ \A q \in Requests \ {r} : task'[q] = task[q]
         /\ active' = FALSE
         /\ state' \in State /\ state'.handle = FALSE /\ state'.lease = state.lease
<1> DEFINE t == [pc |-> IF state.handle THEN "cleaning" ELSE "removing",
                 receipt |-> receipt, clean |-> TRUE]
<1>1. Become(r, t) /\ active' = FALSE /\ state' = [state EXCEPT !.handle = FALSE]
  BY DEF CloseUpload
<1>2. t.pc \in {"cleaning", "removing"} OBVIOUS
<1> HIDE DEF t
<1>3. task'[r] = t /\ \A q \in Requests \ {r} : task'[q] = task[q] BY <1>1, Moves
<1> QED BY <1>1, <1>2, <1>3, HandleSet

\* The steps of the cleanup keep the receipt; what failed is not clean.
LEMMA Cleans ==
  ASSUME TypeOK, NEW r \in Requests, Cleaned(r) \/ TempRemoved(r) \/ RemoveFails(r)
  PROVE  /\ task[r].pc \in CleanPcs
         /\ Cleaned(r) => task'[r].pc = "removing"
         /\ ~Cleaned(r) => task'[r].pc = "releasing"
         /\ RemoveFails(r) => task'[r].clean = FALSE
         /\ task'[r].receipt = task[r].receipt
         /\ \A q \in Requests \ {r} : task'[q] = task[q]
<1> DEFINE t == task[r]
<1>1. t.pc \in CleanPcs /\ t \in Task
  BY DEF Cleaned, TempRemoved, RemoveFails, At, CleanPcs, TypeOK
<1>2. CASE Cleaned(r)
  <2>1. PICK ok \in BOOLEAN : Become(r, [t EXCEPT !.pc = "removing", !.clean = ok])
    BY <1>2 DEF Cleaned
  <2>2. ~TempRemoved(r) /\ ~RemoveFails(r) BY <1>2 DEF Cleaned, TempRemoved, RemoveFails, At
  <2>3. "removing" \in CleanPcs BY DEF CleanPcs
  <2> HIDE DEF t
  <2>4. [t EXCEPT !.pc = "removing", !.clean = ok] =
          [pc |-> "removing", receipt |-> t.receipt, clean |-> ok]
    BY <1>1, <2>3, Recleaned, ZenonT(60)
  <2>5. /\ task'[r] = [pc |-> "removing", receipt |-> t.receipt, clean |-> ok]
        /\ \A q \in Requests \ {r} : task'[q] = task[q]
    BY <2>1, <2>4, Moves, Zenon
  <2> QED BY <1>1, <1>2, <2>2, <2>5 DEF t
<1>3. CASE TempRemoved(r) /\ ~RemoveFails(r)
  <2>1. Become(r, [t EXCEPT !.pc = "releasing"]) BY <1>3 DEF TempRemoved
  <2>2. ~Cleaned(r) BY <1>3 DEF Cleaned, TempRemoved, At
  <2>3. "releasing" \in CleanPcs /\ t.clean \in BOOLEAN BY <1>1, TaskFields DEF CleanPcs
  <2> HIDE DEF t
  <2>4. [t EXCEPT !.pc = "releasing"] =
          [pc |-> "releasing", receipt |-> t.receipt, clean |-> t.clean]
    BY <1>1, <2>3, Recleaned, Zenon
  <2>5. /\ task'[r] = [pc |-> "releasing", receipt |-> t.receipt, clean |-> t.clean]
        /\ \A q \in Requests \ {r} : task'[q] = task[q]
    BY <2>1, <2>4, Moves, Zenon
  <2> QED BY <1>1, <1>3, <2>2, <2>5 DEF t
<1>4. CASE RemoveFails(r)
  <2>1. Become(r, [t EXCEPT !.pc = "releasing", !.clean = FALSE]) BY <1>4 DEF RemoveFails
  <2>2. ~Cleaned(r) BY <1>4 DEF Cleaned, RemoveFails, At
  <2>3. "releasing" \in CleanPcs /\ FALSE \in BOOLEAN BY DEF CleanPcs
  <2> HIDE DEF t
  <2>4. [t EXCEPT !.pc = "releasing", !.clean = FALSE] =
          [pc |-> "releasing", receipt |-> t.receipt, clean |-> FALSE]
    BY <1>1, <2>3, Recleaned, Zenon
  <2>5. /\ task'[r] = [pc |-> "releasing", receipt |-> t.receipt, clean |-> FALSE]
        /\ \A q \in Requests \ {r} : task'[q] = task[q]
    BY <2>1, <2>4, Moves, Zenon
  <2> QED BY <1>1, <2>2, <2>5 DEF t
<1> QED BY <1>2, <1>3, <1>4

\* A comparison goes on to the removal or gives up.
LEMMA Compares ==
  ASSUME TypeOK, NEW r \in Requests, TempCompared(r)
  PROVE  /\ task[r].pc = "comparing"
         /\ task'[r].pc \in {"deleting", "idle"}
         /\ \A q \in Requests \ {r} : task'[q] = task[q]
<1> DEFINE t == task[r]
<1>1. t.pc = "comparing" /\ t \in Task BY DEF TempCompared, At, TypeOK
<1>2. Become(r, [t EXCEPT !.pc = "deleting"]) \/ Goto(r, "idle") BY DEF TempCompared
<1> HIDE DEF t
<1>3. [t EXCEPT !.pc = "deleting"] = [pc |-> "deleting", sample |-> t.sample]
  BY <1>1, Resampled, Zenon
<1>4. CASE Become(r, [t EXCEPT !.pc = "deleting"])
  <2>1. /\ task'[r] = [pc |-> "deleting", sample |-> t.sample]
        /\ \A q \in Requests \ {r} : task'[q] = task[q]
    BY <1>3, <1>4, Moves, Zenon
  <2> QED BY <1>1, <2>1 DEF t
<1>5. CASE Goto(r, "idle") BY <1>1, <1>5, Goes DEF t
<1> QED BY <1>2, <1>4, <1>5

\* Where a handler is after a step of its own, and where it was.
LEMMA Phases ==
  ASSUME TypeOK, NEW r \in Requests, Writing(r) \/ Finishing(r) \/ Closing(r)
  PROVE  /\ (At(r, "idle") /\ active) \/ task[r].pc \in UsePcs \cup CleanPcs
         /\ task'[r].pc \in UsePcs \cup CleanPcs \cup {"idle"}
         /\ \A q \in Requests \ {r} : task'[q] = task[q]
         /\ record' = record \/ record' # "none"
         /\ began' = began
<1> USE DEF At, UsePcs, CleanPcs
<1>1. CASE \/ WriteRefused(r) \/ WriteFails(r) \/ FinishRefused(r) \/ VerifyFails(r)
           \/ RenameRefused(r) \/ Abort(r)
  BY <1>1, Closes DEF WriteRefused, WriteFails, FinishRefused, VerifyFails, RenameRefused, Abort,
     Arrives
<1>2. CASE \/ Acknowledge(r) \/ Finish(r) \/ HandleClosed(r) \/ FinishRaises(r) \/ ServeRename(r)
           \/ Committed(r) \/ RenameUnknown(r)
  BY <1>2, Goes DEF Acknowledge, Finish, HandleClosed, FinishRaises, ServeRename, Committed,
     RenameUnknown, Arrives
<1>3. CASE Write(r) BY <1>3, Moves DEF Write, Arrives
<1>6. CASE TempHashed(r) BY <1>6, Moves DEF TempHashed
<1>7. CASE TargetRechecked(r) BY <1>7, Moves DEF TargetRechecked
<1>8. CASE Commit(r) BY <1>8, Moves DEF Commit
<1>4. CASE Cleaned(r) \/ TempRemoved(r) \/ RemoveFails(r)
  BY <1>4, Cleans, ZenonT(60) DEF Cleaned, TempRemoved, RemoveFails
<1>5. CASE Released(r)
  <2>1. task[r].receipt # "none" BY <1>5, TaskFields DEF Released, TypeOK
  <2> QED BY <1>5, <2>1, Goes DEF Released
<1> QED BY <1>1, <1>2, <1>3, <1>4, <1>5, <1>6, <1>7, <1>8 DEF Writing, Finishing, Closing

\* Recovery moves between its own points and removes at most the temporary file.
LEMMA RecoverPhases ==
  ASSUME TypeOK, NEW r \in Requests, Recovering(r)
  PROVE  /\ (At(r, "idle") /\ Listed) \/ task[r].pc \in RecoverPcs
         /\ task'[r].pc \in RecoverPcs \cup {"idle"}
         /\ \A q \in Requests \ {r} : task'[q] = task[q]
         /\ record' = record \/ record' # "none"
         /\ UNCHANGED <<began, told, active, state, stray, committed, content, target, frozen>>
         /\ temp' => temp
<1> USE DEF At, RecoverPcs, remoteVars, historyVars
<1>1. CASE Inspect(r) \/ Reconciled(r) \/ Resolved(r)
  BY <1>1, Goes DEF Inspect, Reconciled, Resolved, Arrives
<1>2. CASE TempInspected(r) BY <1>2, Goes DEF TempInspected
<1>3. CASE TempDeleted(r) BY <1>3, Goes DEF TempDeleted
<1>4. CASE TargetInspected(r) BY <1>4, Goes, Moves DEF TargetInspected
<1>5. CASE DeleteTemp(r) BY <1>5, Moves DEF DeleteTemp, Arrives
<1>6. CASE TempCompared(r) BY <1>6, Compares DEF TempCompared
<1> QED BY <1>1, <1>2, <1>3, <1>4, <1>5, <1>6 DEF Recovering

\* Nothing of an upload happens before begin ended, apart from its recovery.
LEMMA Apart ==
  ASSUME TypeOK, BeginInv, NEW r \in Requests, Writing(r) \/ Finishing(r) \/ Closing(r)
  PROVE  /\ began /\ began' /\ record # "none" /\ record' # "none"
         /\ \A q \in Requests : task[q].pc \notin BeginPcs /\ task'[q].pc \notin BeginPcs
<1>1. /\ task[r].pc \notin BeginPcs \cup RecoverPcs
      /\ ~active => task[r].pc # "idle"
      /\ task[r].pc # "opening"
      /\ task'[r].pc \notin BeginPcs
  BY Phases DEF At, UsePcs, CleanPcs, BeginPcs, FreshPcs, RecoverPcs
<1>2. began BY <1>1 DEF BeginInv, At
<1>3. record # "none" BY <1>1 DEF BeginInv
<1>4. ASSUME NEW q \in Requests PROVE task[q].pc \notin BeginPcs
  BY <1>1 DEF BeginInv
<1> QED BY <1>1, <1>2, <1>3, <1>4, Phases

\* Nothing happens before begin, and begin is alone but for recovery.
LEMMA BeginStep ==
  ASSUME TypeOK, BeginInv, SealInv, [Next]_vars
  PROVE  BeginInv'
<1> USE DEF remoteVars, historyVars
<1>1. ASSUME NEW r \in Requests, Writing(r) \/ Finishing(r) \/ Closing(r) PROVE BeginInv'
  BY <1>1, Apart DEF BeginInv
<1>2. ASSUME NEW r \in Requests, Recovering(r) PROVE BeginInv'
  <2>1. began /\ record # "none" /\ record' # "none"
    BY <1>2, RecoverPhases DEF BeginInv, At, Listed, RecoverPcs
  <2>2. task'[r].pc \in RecoverPcs \cup {"idle"} /\ task'[r].pc \notin BeginPcs
    BY <1>2, RecoverPhases DEF RecoverPcs, BeginPcs, FreshPcs
  <2>3. task[r].pc \in RecoverPcs \cup {"idle"} BY <1>2, RecoverPhases DEF At
  <2>4. ASSUME NEW q \in Requests, task'[q].pc \in BeginPcs
        PROVE  /\ told' = {} /\ ~active' /\ ~state.handle' /\ ~stray' /\ ~committed'
               /\ (task'[q].pc \in FreshPcs => ~temp')
               /\ (task'[q].pc = "opening" <=> record' = "none")
               /\ \A p \in Requests \ {q} : task'[p].pc \in RecoverPcs \cup {"idle"}
    <3>1. q # r /\ task'[q] = task[q] BY <1>2, <2>2, <2>4, RecoverPhases
    <3> QED BY <1>2, <2>1, <2>2, <2>4, <3>1, RecoverPhases DEF BeginInv
  <2> QED BY <1>2, <2>1, <2>4, RecoverPhases DEF BeginInv
<1>3. ASSUME NEW r \in Requests, Beginning(r) PROVE BeginInv'
  <2> USE DEF BeginPcs, FreshPcs, RecoverPcs, At
  <2>1. CASE Begin(r)
    <3>1. /\ \A q \in Requests : task[q].pc = "idle"
          /\ record = "none" /\ told = {} /\ ~temp /\ ~active /\ ~state.handle /\ ~stray /\ ~committed
      BY <2>1 DEF Begin, BeginInv
    <3>2. task'[r].pc = "opening" /\ \A q \in Requests \ {r} : task'[q].pc = "idle"
      BY <2>1, <3>1, Goes DEF Begin
    <3> QED BY <2>1, <3>1, <3>2 DEF Begin, BeginInv
  <2>2. task[r].pc \in BeginPcs => /\ told = {} /\ ~active /\ ~state.handle /\ ~stray /\ ~committed
                                   /\ (task[r].pc \in FreshPcs => ~temp)
                                   /\ (task[r].pc = "opening" <=> record = "none")
                                   /\ \A q \in Requests \ {r} : task[q].pc \in RecoverPcs \cup {"idle"}
                                   /\ began
    BY DEF BeginInv
  <2>3. CASE ChannelOpened(r)
    <3>1. state'.handle = state.handle BY <2>3, LeaseSet DEF ChannelOpened
    <3>2. \/ record' = "preparing" /\ task'[r].pc = "preparing"
          \/ record' = record /\ task'[r].pc = "idle"
      BY <2>3, Goes DEF ChannelOpened
    <3>3. \A q \in Requests \ {r} : task'[q] = task[q] BY <2>3, Goes DEF ChannelOpened
    <3> QED BY <2>2, <2>3, <3>1, <3>2, <3>3 DEF ChannelOpened, BeginInv
  <2>4. CASE TargetRead(r)
    <3>1. task'[r].pc = "snapshot" /\ \A q \in Requests \ {r} : task'[q] = task[q]
      BY <2>4, Moves DEF TargetRead
    <3> QED BY <2>2, <2>4, <3>1 DEF TargetRead, BeginInv
  <2>5. CASE TempCreated(r)
    <3>1. task'[r].pc = "created" /\ \A q \in Requests \ {r} : task'[q] = task[q]
      BY <2>5, Goes DEF TempCreated
    <3> QED BY <2>2, <2>5, <3>1 DEF TempCreated, BeginInv
  <2>6. CASE BeginRefused(r) \/ BeginEnds(r) \/ OpenTimesOut(r)
    <3>1. task'[r].pc = "idle" /\ \A q \in Requests \ {r} : task'[q] = task[q]
      BY <2>6, Goes DEF BeginRefused, BeginEnds, OpenTimesOut, BeginFails
    <3>2. task[r].pc \in BeginPcs /\ record' # "none" /\ began'
      BY <2>2, <2>6 DEF BeginRefused, BeginEnds, OpenTimesOut, BeginFails
    <3> QED BY <2>2, <3>1, <3>2 DEF BeginInv
  <2> QED BY <1>3, <2>1, <2>3, <2>4, <2>5, <2>6 DEF Beginning
<1>4. CASE Restart
  <2>1. /\ \A q \in Requests : task'[q].pc = "idle"
        /\ ~active' /\ UNCHANGED <<began, record, told, temp, committed>> /\ ~state'.handle
        /\ ~began => ~stray'
    BY <1>4, FlagsReset DEF Restart, BeginInv, At
  <2> QED BY <2>1 DEF BeginInv, BeginPcs, FreshPcs, At
<1>5. CASE StrayRename
  <2>1. stray /\ ~stray' /\ UNCHANGED <<task, began, active, state, record, told>> BY <1>5 DEF StrayRename
  <2>2. began /\ \A q \in Requests : task[q].pc \notin BeginPcs BY <2>1 DEF BeginInv
  <2> QED BY <2>1, <2>2 DEF BeginInv, At
<1>6. CASE TargetChanges \/ UNCHANGED vars
  BY <1>6 DEF TargetChanges, BeginInv, At, vars
<1> QED BY <1>1, <1>2, <1>3, <1>4, <1>5, <1>6 DEF Next

-----------------------------------------------------------------------------
(* The commit *)

\* What the other handlers verified stays true while the file does not change.
LEMMA SealedOthers ==
  ASSUME SealInv, NEW r \in Requests, \A q \in Requests \ {r} : task'[q] = task[q],
         content' = content, state'.handle => state.handle, committed => committed',
         Sealed(r)'
  PROVE  \A q \in Requests : Sealed(q)'
<1>1. ASSUME NEW q \in Requests, q # r PROVE Sealed(q)'
  BY <1>1 DEF SealInv, Sealed
<1> QED BY <1>1

\* Begin verifies nothing.
LEMMA SealBegin ==
  ASSUME TypeOK, BeginInv, SealInv, NEW r \in Requests, Beginning(r)
  PROVE  SealInv'
<1> USE DEF At, remoteVars
<1>1. /\ ~committed /\ ~stray /\ ~active
      /\ \A q \in Requests \ {r} : task[q].pc \in RecoverPcs \cup {"idle"}
  BY DEF Beginning, Begin, ChannelOpened, TargetRead, TempCreated, BeginRefused, BeginEnds,
     OpenTimesOut, BeginInv, BeginPcs, FreshPcs
<1>2. UNCHANGED <<content, target, stray, committed>> /\ target # "upload"
  BY <1>1 DEF Beginning, Begin, ChannelOpened, TargetRead, TempCreated, BeginRefused, BeginEnds,
     OpenTimesOut, SealInv
<1>3. task'[r].pc \in BeginPcs \cup {"idle"} /\ \A q \in Requests \ {r} : task'[q] = task[q]
  <2>1. CASE TargetRead(r) BY <2>1, Moves DEF TargetRead, BeginPcs, FreshPcs
  <2>2. CASE ~TargetRead(r)
    BY <2>2, Goes DEF Beginning, Begin, ChannelOpened, TempCreated, BeginRefused, BeginFails,
       BeginEnds, OpenTimesOut, BeginPcs, FreshPcs
  <2> QED BY <2>1, <2>2
<1>4. Sealed(r)' BY <1>3 DEF Sealed, UsePcs, BeginPcs, FreshPcs
<1>5. ASSUME NEW q \in Requests, q # r PROVE Sealed(q)'
  <2>1. task'[q] = task[q] /\ task[q].pc \notin UsePcs /\ Sealed(q)
    BY <1>1, <1>3, <1>5 DEF RecoverPcs, UsePcs, SealInv
  <2>2. task[q].pc \notin {"hashed", "rechecked", "renaming", "renamed"} BY <2>1 DEF UsePcs
  <2> QED BY <1>2, <2>1, <2>2 DEF Sealed
<1> QED BY <1>1, <1>2, <1>4, <1>5 DEF SealInv

\* A write needs the open handle, so it changes nothing verified.
LEMMA SealWriting ==
  ASSUME TypeOK, SealInv, NEW r \in Requests, Writing(r)
  PROVE  SealInv'
<1> USE DEF At, remoteVars, historyVars
<1>1. Sealed(r) BY DEF SealInv
<1>2. CASE Write(r)
  <2>1. /\ state.handle /\ UNCHANGED <<state, temp, target, stray, committed, active>>
        /\ ~committed /\ ~stray /\ target # "upload"
    BY <1>2 DEF Write, SealInv
  <2>2. task'[r].pc = "writing" /\ \A q \in Requests \ {r} : task'[q] = task[q]
    BY <1>2, Moves DEF Write
  <2>3. ASSUME NEW q \in Requests PROVE Sealed(q)'
    <3>1. CASE q = r BY <2>2, <3>1 DEF Sealed, UsePcs
    <3>2. CASE q # r
      <4>1. Sealed(q) /\ task'[q] = task[q] BY <2>2, <3>2 DEF SealInv
      <4> QED BY <2>1, <4>1 DEF Sealed, UsePcs
    <3> QED BY <3>1, <3>2
  <2> QED BY <2>1, <2>3 DEF SealInv
<1>3. CASE WriteRefused(r) \/ WriteFails(r)
  <2>1. /\ task'[r].pc \in {"cleaning", "removing"} /\ active' = FALSE /\ state'.handle = FALSE
        /\ \A q \in Requests \ {r} : task'[q] = task[q]
        /\ UNCHANGED <<content, temp, target, stray, committed>>
    BY <1>3, Closes DEF WriteRefused, WriteFails
  <2>2. Sealed(r)' BY <2>1 DEF Sealed, UsePcs
  <2>3. \A q \in Requests : Sealed(q)' BY <2>1, <2>2, SealedOthers
  <2> QED BY <2>1, <2>3 DEF SealInv
<1>4. CASE Acknowledge(r)
  <2>1. /\ task'[r].pc = "idle" /\ \A q \in Requests \ {r} : task'[q] = task[q]
        /\ UNCHANGED <<content, temp, target, stray, committed, active>>
    BY <1>4, Goes DEF Acknowledge
  <2>2. state'.handle = state.handle BY <1>4 DEF Acknowledge, TypeOK
  <2>3. Sealed(r)' BY <2>1 DEF Sealed, UsePcs
  <2>4. \A q \in Requests : Sealed(q)' BY <2>1, <2>2, <2>3, SealedOthers
  <2> QED BY <2>1, <2>2, <2>4 DEF SealInv
<1> QED BY <1>2, <1>3, <1>4 DEF Writing

\* Finish verifies what no write can change any more, and renames it.
LEMMA SealFinishing ==
  ASSUME TypeOK, SealInv, NEW r \in Requests, Finishing(r)
  PROVE  SealInv'
<1> USE DEF At, remoteVars, historyVars
<1>1. Sealed(r) BY DEF SealInv
<1>2. ASSUME content' = content, state'.handle => state.handle, committed => committed',
             \A q \in Requests \ {r} : task'[q] = task[q], Sealed(r)',
             target' = "upload" => committed', committed' => ~temp',
             committed' \/ stray' => content = Source /\ ~state'.handle,
             stray' => ~active'
      PROVE  SealInv'
  BY <1>2, SealedOthers DEF SealInv
<1>3. CASE Finish(r)
  <2>1. state'.handle = FALSE BY <1>3, HandleSet DEF Finish
  <2>2. task'[r].pc \in {"closingHandle", "hashing"} /\ \A q \in Requests \ {r} : task'[q] = task[q]
    BY <1>3, Goes DEF Finish
  <2>3. Sealed(r)' BY <2>1, <2>2 DEF Sealed, UsePcs
  <2>4. UNCHANGED <<content, temp, target, stray, committed, active>> BY <1>3 DEF Finish
  <2> QED BY <1>2, <2>1, <2>2, <2>3, <2>4 DEF SealInv
<1>4. CASE FinishRefused(r) \/ VerifyFails(r) \/ RenameRefused(r)
  <2>1. /\ task'[r].pc \in {"cleaning", "removing"} /\ active' = FALSE /\ state'.handle = FALSE
        /\ \A q \in Requests \ {r} : task'[q] = task[q]
        /\ UNCHANGED <<content, temp, target, stray, committed>>
    BY <1>4, Closes DEF FinishRefused, VerifyFails, RenameRefused
  <2>2. Sealed(r)' BY <2>1 DEF Sealed, UsePcs
  <2> QED BY <1>2, <2>1, <2>2 DEF SealInv
<1>5. CASE HandleClosed(r) \/ FinishRaises(r)
  <2>1. /\ \/ task[r].pc = "closingHandle" /\ task'[r].pc = "hashing"
           \/ task'[r].pc = "idle"
        /\ \A q \in Requests \ {r} : task'[q] = task[q]
        /\ UNCHANGED <<content, temp, target, stray, committed, active, state>>
    BY <1>5, Goes DEF HandleClosed, FinishRaises
  <2>2. Sealed(r)' BY <1>1, <2>1 DEF Sealed, UsePcs
  <2> QED BY <1>2, <2>1, <2>2 DEF SealInv
<1>6. CASE TempHashed(r)
  <2>1. /\ task[r].pc = "hashing" /\ task'[r].pc = "hashed"
        /\ task'[r].match = (temp /\ content = Source)
        /\ \A q \in Requests \ {r} : task'[q] = task[q]
        /\ UNCHANGED <<content, temp, target, stray, committed, active, state>>
    BY <1>6, Moves DEF TempHashed
  <2>2. Sealed(r)' BY <1>1, <2>1 DEF Sealed, UsePcs
  <2> QED BY <1>2, <2>1, <2>2 DEF SealInv
<1>7. CASE TargetRechecked(r)
  <2>1. /\ task[r].pc = "hashed" /\ task[r].match /\ task'[r].pc = "rechecked"
        /\ \A q \in Requests \ {r} : task'[q] = task[q]
        /\ UNCHANGED <<content, temp, target, stray, committed, active, state>>
    BY <1>7, Moves DEF TargetRechecked
  <2>2. Sealed(r)' BY <1>1, <2>1 DEF Sealed, UsePcs
  <2> QED BY <1>2, <2>1, <2>2 DEF SealInv
<1>8. CASE Commit(r)
  <2>1. /\ task[r].pc = "rechecked" /\ task'[r].pc = "renaming"
        /\ \A q \in Requests \ {r} : task'[q] = task[q]
        /\ UNCHANGED <<content, temp, target, stray, committed, active, state>>
    BY <1>8, Moves DEF Commit
  <2>2. Sealed(r)' BY <1>1, <2>1 DEF Sealed, UsePcs
  <2> QED BY <1>2, <2>1, <2>2 DEF SealInv
<1>9. CASE ServeRename(r)
  <2>1. /\ task[r].pc = "renaming" /\ content = Source /\ ~state.handle
        /\ \A q \in Requests \ {r} : task'[q] = task[q]
        /\ UNCHANGED <<content, stray, active, state>>
        /\ \/ task'[r].pc = "renamed" /\ target' = "upload" /\ temp' = FALSE /\ committed' = TRUE
           \/ task'[r].pc = "refused" /\ UNCHANGED <<temp, target, committed>>
    BY <1>1, <1>9, Goes DEF ServeRename, Renames, Sealed, UsePcs
  <2>2. Sealed(r)' BY <2>1 DEF Sealed, UsePcs
  <2> QED BY <1>2, <2>1, <2>2 DEF SealInv
<1>10. CASE Committed(r)
  <2>1. /\ task'[r].pc = "idle" /\ \A q \in Requests \ {r} : task'[q] = task[q]
        /\ state'.handle = state.handle /\ active' = FALSE
        /\ UNCHANGED <<content, temp, target, stray, committed>>
    BY <1>10, Goes, LeaseSet DEF Committed
  <2>2. Sealed(r)' BY <2>1 DEF Sealed, UsePcs
  <2> QED BY <1>2, <2>1, <2>2 DEF SealInv
<1>11. CASE RenameUnknown(r)
  <2>1. /\ task[r].pc \in {"renaming", "renamed", "refused"}
        /\ task'[r].pc = "idle" /\ \A q \in Requests \ {r} : task'[q] = task[q]
        /\ state'.handle = state.handle /\ active' = FALSE
        /\ stray' => stray \/ task[r].pc = "renaming"
        /\ UNCHANGED <<content, temp, target, committed>>
    BY <1>11, Goes, LeaseSet DEF RenameUnknown
  <2>2. Sealed(r)' BY <2>1 DEF Sealed, UsePcs
  <2>3. stray' => content = Source /\ ~state.handle BY <1>1, <2>1 DEF Sealed, UsePcs, SealInv
  <2> QED BY <1>2, <2>1, <2>2, <2>3 DEF SealInv
<1> QED BY <1>3, <1>4, <1>5, <1>6, <1>7, <1>8, <1>9, <1>10, <1>11 DEF Finishing

LEMMA SealClosing ==
  ASSUME TypeOK, SealInv, NEW r \in Requests, Closing(r)
  PROVE  SealInv'
<1> USE DEF At, remoteVars, historyVars
<1>1. ASSUME task'[r].pc \in CleanPcs \cup {"idle"}, \A q \in Requests \ {r} : task'[q] = task[q],
             state'.handle => state.handle, active' => active, temp' => temp,
             UNCHANGED <<content, target, stray, committed>>
      PROVE  SealInv'
  <2>1. Sealed(r)' BY <1>1 DEF Sealed, UsePcs, CleanPcs
  <2>2. \A q \in Requests : Sealed(q)' BY <1>1, <2>1, SealedOthers
  <2> QED BY <1>1, <2>2 DEF SealInv
<1>2. CASE Abort(r)
  BY <1>1, <1>2, Closes DEF Abort, CleanPcs
<1>3. CASE Cleaned(r) \/ TempRemoved(r) \/ RemoveFails(r)
  <2>1. /\ task'[r].pc \in CleanPcs /\ \A q \in Requests \ {r} : task'[q] = task[q]
    BY <1>3, Cleans DEF CleanPcs
  <2>2. (temp' => temp) /\ UNCHANGED <<content, target, stray, committed, active, state>>
    <3>1. CASE Cleaned(r) BY <3>1 DEF Cleaned
    <3>2. CASE TempRemoved(r) BY <3>2 DEF TempRemoved
    <3>3. CASE RemoveFails(r) BY <3>3 DEF RemoveFails
    <3> QED BY <1>3, <3>1, <3>2, <3>3
  <2> QED BY <1>1, <2>1, <2>2
<1>4. CASE Released(r)
  BY <1>1, <1>4, Goes, LeaseSet DEF Released
<1> QED BY <1>2, <1>3, <1>4 DEF Closing

\* Recovery sees an upload only at a target that was renamed.
LEMMA SealRecovering ==
  ASSUME TypeOK, SealInv, NEW r \in Requests, Recovering(r)
  PROVE  SealInv'
<1> USE DEF At
<1>1. /\ task'[r].pc \in RecoverPcs \cup {"idle"} /\ (temp' => temp)
      /\ \A q \in Requests \ {r} : task'[q] = task[q]
      /\ UNCHANGED <<active, state, stray, committed, content, target>>
  BY RecoverPhases
<1>2. task'[r].pc = "inspected" => (task'[r].seen = "upload" => target = "upload")
  <2>1. CASE TargetInspected(r) BY <2>1, Goes, Moves DEF TargetInspected
  <2>2. CASE TempCompared(r) BY <2>2, Compares
  <2>3. CASE DeleteTemp(r) BY <2>3, Moves DEF DeleteTemp
  <2>4. CASE Inspect(r) \/ TempInspected(r) \/ Reconciled(r) \/ TempDeleted(r) \/ Resolved(r)
    <3>1. \E pc \in Waiting : Goto(r, pc) /\ pc # "inspected"
      BY <2>4 DEF Inspect, TempInspected, Reconciled, TempDeleted, Resolved, Waiting
    <3> QED BY <3>1, Goes
  <2> QED BY <2>1, <2>2, <2>3, <2>4 DEF Recovering
<1>3. Sealed(r)' BY <1>1, <1>2 DEF Sealed, SealInv, UsePcs, RecoverPcs
<1>4. \A q \in Requests : Sealed(q)' BY <1>1, <1>3, SealedOthers
<1> QED BY <1>1, <1>4 DEF SealInv

\* What is renamed is the source.
LEMMA SealStep ==
  ASSUME TypeOK, BeginInv, SealInv, [Next]_vars
  PROVE  SealInv'
<1> USE DEF At, remoteVars, historyVars
<1>1. CASE \E r \in Requests : \/ Beginning(r) \/ Writing(r) \/ Finishing(r)
                               \/ Closing(r) \/ Recovering(r)
  BY <1>1, SealBegin, SealWriting, SealFinishing, SealClosing, SealRecovering
<1>2. CASE StrayRename
  <2>1. /\ UNCHANGED <<content, state, task>> /\ content = Source /\ ~state.handle /\ stray' = FALSE
        /\ \/ target' = "upload" /\ temp' = FALSE /\ committed' = TRUE
           \/ UNCHANGED <<temp, target, committed>>
    BY <1>2 DEF StrayRename, Renames, SealInv
  <2>2. ASSUME NEW q \in Requests PROVE Sealed(q)' BY <2>1 DEF Sealed, SealInv
  <2> QED BY <2>1, <2>2 DEF SealInv
<1>3. CASE TargetChanges
  BY <1>3 DEF TargetChanges, SealInv, Sealed
<1>4. CASE Restart
  <2>1. /\ \A q \in Requests : task'[q].pc = "idle"
        /\ state'.handle = FALSE /\ active' = FALSE
        /\ UNCHANGED <<content, temp, target, committed>>
    BY <1>4, FlagsReset DEF Restart
  <2>2. stray' => stray \/ \E q \in Requests : task[q].pc = "renaming" BY <1>4 DEF Restart
  <2>3. stray' => content = Source BY <2>2 DEF SealInv, Sealed
  <2>4. ASSUME NEW q \in Requests PROVE Sealed(q)' BY <2>1 DEF Sealed, UsePcs
  <2> QED BY <2>1, <2>3, <2>4 DEF SealInv
<1>5. CASE UNCHANGED vars BY <1>5 DEF vars, SealInv, Sealed
<1> QED BY <1>1, <1>2, <1>3, <1>4, <1>5 DEF Next

\* A success stands for an executed rename.
LEMMA SuccessStep ==
  ASSUME TypeOK, BeginInv, SealInv, SuccessIsCommitted, [Next]_vars
  PROVE  SuccessIsCommitted'
<1> USE DEF SuccessIsCommitted, At, remoteVars, historyVars, Report
<1>1. ASSUME NEW r \in Requests, Beginning(r) PROVE SuccessIsCommitted'
  BY <1>1 DEF Beginning, Begin, ChannelOpened, TargetRead, TempCreated, BeginRefused, BeginFails,
     BeginEnds, OpenTimesOut
<1>2. ASSUME NEW r \in Requests, Writing(r) PROVE SuccessIsCommitted'
  BY <1>2 DEF Writing, Write, WriteRefused, Acknowledge, WriteFails
<1>3. ASSUME NEW r \in Requests, Finishing(r) PROVE SuccessIsCommitted'
  <2>1. CASE Committed(r)
    <3>1. committed /\ committed' = committed BY <2>1 DEF Committed, SealInv, Sealed
    <3> QED BY <3>1
  <2>2. CASE ServeRename(r) BY <2>2 DEF ServeRename, Renames
  <2>3. CASE ~Committed(r) /\ ~ServeRename(r)
    BY <1>3, <2>3 DEF Finishing, Finish, FinishRefused, HandleClosed, TempHashed, TargetRechecked,
       Commit, VerifyFails, FinishRaises, RenameRefused, RenameUnknown
  <2> QED BY <2>1, <2>2, <2>3
<1>4. ASSUME NEW r \in Requests, Closing(r) PROVE SuccessIsCommitted'
  <2>1. CASE Released(r)
    <3>1. task[r].receipt \in {"failed", "cancelled"}
      BY <2>1, TaskFields DEF Released, TypeOK, CleanPcs
    <3> QED BY <2>1, <3>1 DEF Released
  <2>2. CASE ~Released(r)
    BY <1>4, <2>2 DEF Closing, Abort, Cleaned, TempRemoved, RemoveFails
  <2> QED BY <2>1, <2>2
<1>5. ASSUME NEW r \in Requests, Recovering(r) PROVE SuccessIsCommitted'
  <2>1. CASE TempInspected(r)
    <3>1. task[r].seen = "upload" => committed BY <2>1 DEF TempInspected, SealInv, Sealed
    <3> QED BY <2>1, <3>1 DEF TempInspected
  <2>2. CASE ~TempInspected(r)
    BY <1>5, <2>2 DEF Recovering, Inspect, TargetInspected, Reconciled, DeleteTemp, TempCompared,
       TempDeleted, Resolved
  <2> QED BY <2>1, <2>2
<1>6. CASE StrayRename BY <1>6 DEF StrayRename, Renames
<1>7. CASE TargetChanges \/ Restart \/ UNCHANGED vars
  BY <1>7 DEF TargetChanges, Restart, vars
<1> QED BY <1>1, <1>2, <1>3, <1>4, <1>5, <1>6, <1>7 DEF Next

\* A write that waits stays in the file.
LEMMA WriteStep ==
  ASSUME TypeOK, WriteInv, [Next]_vars
  PROVE  WriteInv'
<1>1. ASSUME NEW r \in Requests, task'[r].pc = "writing", task'[r] = task[r]
      PROVE  task'[r].offset < Len(content')
  <2>1. task[r] \in Task BY DEF TypeOK
  <2>2. task[r].offset \in Nat /\ task[r].offset < Len(content)
    BY <1>1, <2>1, TaskFields DEF WriteInv
  <2>3. Len(content) \in Nat /\ Len(content') \in Nat /\ Len(content) <= Len(content')
    BY StateStep, LenProperties DEF TypeOK
  <2> QED BY <1>1, <2>2, <2>3
<1>2. ASSUME NEW r \in Requests, Write(r)
      PROVE  /\ task'[r].offset < Len(content')
             /\ \A q \in Requests \ {r} : task'[q] = task[q]
  <2>1. PICK chunk \in Chunks :
          /\ Become(r, [pc |-> "writing", chunk |-> chunk, offset |-> state.position])
          /\ content' = Written(content, state.position, chunk)
    BY <1>2 DEF Write
  <2>2. /\ task'[r] = [pc |-> "writing", chunk |-> chunk, offset |-> state.position]
        /\ \A q \in Requests \ {r} : task'[q] = task[q]
    BY <2>1, Moves, Zenon
  <2>3. state \in State /\ state.position <= Len(content) /\ content \in Seq(Chunks)
    BY DEF TypeOK, State
  <2>4. state.position \in Nat BY <2>3, StateFields
  <2>5. Len(content') > state.position /\ Len(content') \in Nat
    BY <2>1, <2>3, <2>4, WrittenType
  <2> QED BY <2>2, <2>4, <2>5
<1>3. ASSUME NEW r \in Requests, Beginning(r) \/ Writing(r) \/ Finishing(r) \/ Closing(r) \/ Recovering(r),
             ~Write(r)
      PROVE  task'[r].pc # "writing" /\ \A q \in Requests \ {r} : task'[q] = task[q]
  <2>1. CASE Beginning(r)
    <3>1. CASE TargetRead(r) BY <3>1, Moves DEF TargetRead
    <3>2. CASE ~TargetRead(r)
      <4>1. \E pc \in Waiting : Goto(r, pc)
        BY <2>1, <3>2 DEF Beginning, Begin, ChannelOpened, TempCreated, BeginRefused, BeginFails,
           BeginEnds, OpenTimesOut, Waiting
      <4> QED BY <4>1, Goes DEF Waiting
    <3> QED BY <3>1, <3>2
  <2>2. CASE WriteRefused(r) \/ WriteFails(r) \/ FinishRefused(r) \/ VerifyFails(r)
             \/ RenameRefused(r) \/ Abort(r)
    BY <2>2, Closes DEF WriteRefused, WriteFails, FinishRefused, VerifyFails, RenameRefused, Abort
  <2>3. CASE \/ Acknowledge(r) \/ Finish(r) \/ HandleClosed(r) \/ FinishRaises(r) \/ ServeRename(r)
             \/ Committed(r) \/ RenameUnknown(r) \/ Released(r)
    <3>1. \E pc \in Waiting : Goto(r, pc)
      BY <2>3 DEF Acknowledge, Finish, HandleClosed, FinishRaises, ServeRename, Committed,
         RenameUnknown, Released, Waiting
    <3> QED BY <3>1, Goes DEF Waiting
  <2>4. CASE TempHashed(r) BY <2>4, Moves DEF TempHashed
  <2>5. CASE TargetRechecked(r) BY <2>5, Moves DEF TargetRechecked
  <2>6. CASE Commit(r) BY <2>6, Moves DEF Commit
  <2>7. CASE Cleaned(r) \/ TempRemoved(r) \/ RemoveFails(r) BY <2>7, Cleans
  <2>8. CASE Recovering(r) BY <2>8, RecoverPhases DEF RecoverPcs
  <2> QED BY <1>3, <2>1, <2>2, <2>3, <2>4, <2>5, <2>6, <2>7, <2>8 DEF Writing, Finishing, Closing
<1>4. CASE Restart BY <1>4 DEF Restart, WriteInv
<1>5. CASE StrayRename \/ TargetChanges \/ UNCHANGED vars
  <2>1. task' = task BY <1>5 DEF StrayRename, TargetChanges, vars
  <2> QED BY <1>1, <2>1 DEF WriteInv
<1>6. ASSUME NEW r \in Requests, Beginning(r) \/ Writing(r) \/ Finishing(r) \/ Closing(r) \/ Recovering(r)
      PROVE  WriteInv'
  <2>1. ASSUME NEW q \in Requests, task'[q].pc = "writing" PROVE task'[q].offset < Len(content')
    <3>1. CASE q = r BY <1>2, <1>3, <1>6, <2>1, <3>1
    <3>2. CASE q # r
      <4>1. task'[q] = task[q] BY <1>2, <1>3, <1>6, <3>2
      <4> QED BY <1>1, <2>1, <4>1
    <3> QED BY <3>1, <3>2
  <2> QED BY <2>1 DEF WriteInv
<1> QED BY <1>4, <1>5, <1>6 DEF Next

\* A handler that gives up the channel closes it, or leaves it to the upload.
LEMMA OwnedStep ==
  ASSUME TypeOK, ChannelIsOwned, [Next]_vars
  PROVE  ChannelIsOwned'
<1> DEFINE Holds == {"preparing", "snapshot", "created", "cleaning", "removing", "releasing",
                     "renaming", "renamed", "refused"}
<1> USE DEF At, remoteVars, historyVars
<1>1. ASSUME NEW r \in Requests, \A q \in Requests \ {r} : task'[q] = task[q],
             state'.lease = state.lease, active => active' \/ task'[r].pc \in Holds,
             task[r].pc \in Holds => task'[r].pc \in Holds \/ active'
      PROVE  ChannelIsOwned'
  BY <1>1 DEF ChannelIsOwned
<1>2. ASSUME NEW r \in Requests, task'[r].pc \in Holds PROVE ChannelIsOwned'
  BY <1>2 DEF ChannelIsOwned
<1>3. ASSUME state'.lease = FALSE PROVE ChannelIsOwned'
  BY <1>3 DEF ChannelIsOwned
<1>4. ASSUME active' PROVE ChannelIsOwned' BY <1>4 DEF ChannelIsOwned
<1>5. ASSUME NEW r \in Requests, NEW receipt, CloseUpload(r, receipt) PROVE ChannelIsOwned'
  BY <1>2, <1>5, Closes
<1>6. ASSUME NEW r \in Requests, Beginning(r) PROVE ChannelIsOwned'
  <2>1. CASE Begin(r) BY <1>1, <2>1, Goes DEF Begin, Arrives
  <2>2. CASE ChannelOpened(r)
    <3>1. CASE Goto(r, "preparing") BY <1>2, <3>1, Goes
    <3>2. CASE Goto(r, "idle") /\ UNCHANGED state BY <1>1, <2>2, <3>2, Goes DEF ChannelOpened
    <3> QED BY <2>2, <3>1, <3>2 DEF ChannelOpened
  <2>3. CASE TargetRead(r) BY <1>2, <2>3, Moves DEF TargetRead
  <2>4. CASE TempCreated(r) BY <1>2, <2>4, Goes DEF TempCreated
  <2>5. CASE BeginRefused(r) \/ OpenTimesOut(r)
    BY <1>3, <2>5, LeaseSet DEF BeginRefused, OpenTimesOut, BeginFails
  <2>6. CASE BeginEnds(r) BY <1>4, <2>6 DEF BeginEnds
  <2> QED BY <1>6, <2>1, <2>2, <2>3, <2>4, <2>5, <2>6 DEF Beginning
<1>7. ASSUME NEW r \in Requests, Writing(r) PROVE ChannelIsOwned'
  <2>1. CASE Write(r) BY <1>4, <2>1 DEF Write
  <2>2. CASE Acknowledge(r)
    <3>1. state'.lease = state.lease BY <2>2 DEF Acknowledge, TypeOK
    <3> QED BY <1>1, <2>2, <3>1, Goes DEF Acknowledge
  <2> QED BY <1>5, <1>7, <2>1, <2>2 DEF Writing, WriteRefused, WriteFails
<1>8. ASSUME NEW r \in Requests, Finishing(r) PROVE ChannelIsOwned'
  <2>1. CASE Finish(r) BY <1>4, <2>1 DEF Finish
  <2>2. CASE FinishRefused(r) \/ VerifyFails(r) \/ RenameRefused(r)
    BY <1>5, <2>2 DEF FinishRefused, VerifyFails, RenameRefused
  <2>3. CASE HandleClosed(r) \/ FinishRaises(r)
    BY <1>1, <2>3, Goes DEF HandleClosed, FinishRaises
  <2>4. CASE TempHashed(r) BY <1>1, <2>4, Moves DEF TempHashed
  <2>5. CASE TargetRechecked(r) BY <1>1, <2>5, Moves DEF TargetRechecked
  <2>6. CASE Commit(r) BY <1>2, <2>6, Moves DEF Commit
  <2>7. CASE ServeRename(r) BY <1>2, <2>7, Goes DEF ServeRename
  <2>8. CASE Committed(r) \/ RenameUnknown(r) BY <1>3, <2>8, LeaseSet DEF Committed, RenameUnknown
  <2> QED BY <1>8, <2>1, <2>2, <2>3, <2>4, <2>5, <2>6, <2>7, <2>8 DEF Finishing
<1>9. ASSUME NEW r \in Requests, Closing(r) PROVE ChannelIsOwned'
  <2>1. CASE Abort(r) BY <1>5, <2>1 DEF Abort
  <2>2. CASE Cleaned(r) \/ TempRemoved(r) \/ RemoveFails(r) BY <1>2, <2>2, Cleans
  <2>3. CASE Released(r) BY <1>3, <2>3, LeaseSet DEF Released
  <2> QED BY <1>9, <2>1, <2>2, <2>3 DEF Closing
<1>10. ASSUME NEW r \in Requests, Recovering(r) PROVE ChannelIsOwned'
  <2>1. task[r].pc \notin Holds BY <1>10, RecoverPhases DEF RecoverPcs
  <2> QED BY <1>1, <1>10, <2>1, RecoverPhases
<1>11. CASE Restart BY <1>3, <1>11, FlagsReset DEF Restart
<1>12. CASE StrayRename \/ TargetChanges \/ UNCHANGED vars
  BY <1>12 DEF StrayRename, TargetChanges, vars, ChannelIsOwned
<1> QED BY <1>6, <1>7, <1>8, <1>9, <1>10, <1>11, <1>12 DEF Next

-----------------------------------------------------------------------------
(* The temporary file *)

\* What the others know stays true: no step but TempCreated makes the file appear.
LEMMA ResidueKeeps ==
  ASSUME ResidueInv, NEW r \in Requests, \A q \in Requests \ {r} : task'[q] = task[q],
         unseen => unseen', temp' => temp,
         task'[r].pc \in FreshPcs => task[r].pc \in FreshPcs,
         (temp' \/ BeginInProgress') /\ ~unseen' => Listed',
         Searched(r)'
  PROVE  ResidueInv'
<1>1. ASSUME NEW q \in Requests, q # r PROVE Searched(q)'
  <2>1. Searched(q) /\ task'[q] = task[q] BY <1>1 DEF ResidueInv
  <2>2. ASSUME \A p \in Requests : task[p].pc \notin FreshPcs
        PROVE  \A p \in Requests : task'[p].pc \notin FreshPcs
    BY <2>2
  <2> QED BY <2>1, <2>2 DEF Searched
<1> QED BY <1>1 DEF ResidueInv

\* The intent is durable before the file can appear.
LEMMA ResidueBegin ==
  ASSUME TypeOK, BeginInv, ResidueInv, NEW r \in Requests, Beginning(r)
  PROVE  ResidueInv'
<1> USE DEF At, remoteVars, historyVars, BeginPcs, FreshPcs, RecoverPcs
<1>1. CASE Begin(r)
  <2>1. /\ \A q \in Requests : task[q].pc = "idle"
        /\ ~temp /\ temp' = temp
    BY <1>1 DEF Begin, BeginInv
  <2>2. task'[r].pc = "opening" /\ \A q \in Requests \ {r} : task'[q].pc = "idle"
    BY <1>1, <2>1, Goes DEF Begin
  <2> QED BY <2>1, <2>2 DEF ResidueInv, Searched, BeginInProgress
<1>2. task[r].pc \in BeginPcs =>
        /\ (task[r].pc \in FreshPcs => ~temp)
        /\ \A q \in Requests \ {r} : task[q].pc \in RecoverPcs \cup {"idle"}
  BY DEF BeginInv
<1>3. CASE ChannelOpened(r)
  <2>1. /\ UNCHANGED <<temp, unseen>> /\ ~temp
        /\ task'[r].pc \in {"preparing", "idle"} /\ task[r].pc = "opening"
        /\ task'[r].pc = "preparing" => record' = "preparing"
        /\ \A q \in Requests \ {r} : task'[q] = task[q] /\ task[q].pc \in RecoverPcs \cup {"idle"}
    BY <1>2, <1>3, Goes DEF ChannelOpened
  <2>2. BeginInProgress' => Listed' BY <2>1 DEF BeginInProgress, Listed, TERMINAL_STATES
  <2>3. Searched(r)' BY <2>1 DEF Searched
  <2> QED BY <2>1, <2>2, <2>3, ResidueKeeps
<1>4. CASE TargetRead(r)
  <2>1. /\ UNCHANGED <<temp, unseen, record>>
        /\ task'[r].pc = "snapshot" /\ task[r].pc = "preparing"
        /\ \A q \in Requests \ {r} : task'[q] = task[q]
    BY <1>4, Moves DEF TargetRead
  <2>2. BeginInProgress BY <2>1 DEF BeginInProgress
  <2>3. ~unseen' => Listed' BY <2>1, <2>2 DEF ResidueInv, Listed
  <2>4. Searched(r)' BY <2>1 DEF Searched
  <2> QED BY <2>1, <2>3, <2>4, ResidueKeeps
<1>5. CASE TempCreated(r)
  <2>1. /\ UNCHANGED <<unseen, record>>
        /\ task'[r].pc = "created" /\ task[r].pc = "snapshot"
        /\ \A q \in Requests \ {r} : task'[q] = task[q] /\ task[q].pc \in RecoverPcs \cup {"idle"}
    BY <1>2, <1>5, Goes DEF TempCreated
  <2>2. BeginInProgress BY <2>1 DEF BeginInProgress
  <2>3. ~unseen' => Listed' BY <2>1, <2>2 DEF ResidueInv, Listed
  <2>4. ASSUME NEW q \in Requests PROVE Searched(q)'
    <3>1. task'[q].pc # "releasing" BY <2>1
    <3>2. CASE task'[q].pc \in {"missing", "resolving"}
      <4>1. q # r /\ task[q].pc \in {"missing", "resolving"} /\ Searched(q)
        BY <2>1, <3>2 DEF ResidueInv
      <4>2. unseen BY <2>1, <4>1 DEF Searched
      <4> QED BY <2>1, <3>1, <4>2 DEF Searched
    <3> QED BY <3>1, <3>2 DEF Searched
  <2> QED BY <2>3, <2>4 DEF ResidueInv
<1>6. CASE BeginRefused(r)
  <2>1. /\ UNCHANGED <<temp, unseen>> /\ ~temp
        /\ task'[r].pc = "idle"
        /\ \A q \in Requests \ {r} : task'[q] = task[q] /\ task[q].pc \in RecoverPcs \cup {"idle"}
    BY <1>2, <1>6, Goes DEF BeginRefused, BeginFails
  <2>2. ~BeginInProgress' BY <2>1 DEF BeginInProgress
  <2>3. Searched(r)' BY <2>1 DEF Searched
  <2> QED BY <2>1, <2>2, <2>3, ResidueKeeps
<1>7. CASE BeginEnds(r) \/ OpenTimesOut(r)
  <2>1. /\ temp' = temp /\ (unseen => unseen')
        /\ record' = "transferring" \/ unseen'
        /\ task'[r].pc = "idle" /\ \A q \in Requests \ {r} : task'[q] = task[q]
    BY <1>7, Goes DEF BeginEnds, OpenTimesOut, BeginFails
  <2>2. ~unseen' => Listed' BY <2>1 DEF Listed, TERMINAL_STATES
  <2>3. Searched(r)' BY <2>1 DEF Searched
  <2> QED BY <2>1, <2>2, <2>3, ResidueKeeps
<1> QED BY <1>1, <1>3, <1>4, <1>5, <1>6, <1>7 DEF Beginning

\* No later step of the upload can see a begin in progress.
LEMMA ResidueApart ==
  ASSUME TypeOK, BeginInv, ResidueInv, NEW r \in Requests,
         Writing(r) \/ Finishing(r) \/ Closing(r),
         unseen' = unseen, temp' => temp, Listed \/ unseen \/ ~temp => Listed' \/ unseen' \/ ~temp',
         Searched(r)'
  PROVE  ResidueInv'
<1>1. /\ \A q \in Requests \ {r} : task'[q] = task[q]
      /\ \A q \in Requests : task'[q].pc \notin BeginPcs
  BY Phases, Apart
<1>2. ~BeginInProgress' /\ task'[r].pc \notin FreshPcs
  BY <1>1 DEF BeginInProgress, At, BeginPcs, FreshPcs
<1>3. Listed \/ unseen \/ ~temp BY DEF ResidueInv
<1> QED BY <1>1, <1>2, <1>3, ResidueKeeps

\* A handler ends the record only when the file is gone, or lists it.
LEMMA ResidueLater ==
  ASSUME TypeOK, BeginInv, SealInv, ResidueInv, NEW r \in Requests,
         Writing(r) \/ Finishing(r) \/ Closing(r)
  PROVE  ResidueInv'
<1> USE DEF At, remoteVars, historyVars
<1>1. ASSUME task'[r].pc \in UsePcs \cup {"cleaning", "removing", "idle"} PROVE Searched(r)'
  BY <1>1 DEF Searched, UsePcs
<1>2. CASE \/ WriteRefused(r) \/ WriteFails(r) \/ FinishRefused(r) \/ VerifyFails(r)
           \/ RenameRefused(r) \/ Abort(r)
  <2>1. task'[r].pc \in {"cleaning", "removing"} /\ UNCHANGED <<temp, unseen, record>>
    BY <1>2, Closes DEF WriteRefused, WriteFails, FinishRefused, VerifyFails, RenameRefused, Abort
  <2> QED BY <1>1, <2>1, ResidueApart DEF Listed
<1>3. CASE Acknowledge(r) \/ HandleClosed(r) \/ FinishRaises(r)
  <2>1. task'[r].pc \in {"hashing", "idle"} /\ UNCHANGED <<temp, unseen, record>>
    BY <1>3, Goes DEF Acknowledge, HandleClosed, FinishRaises
  <2> QED BY <1>1, <2>1, ResidueApart DEF Listed, UsePcs
<1>4. CASE Write(r)
  <2>1. task'[r].pc = "writing" /\ UNCHANGED <<temp, unseen, record>>
    BY <1>4, Moves DEF Write
  <2> QED BY <1>1, <2>1, ResidueApart DEF Listed, UsePcs
<1>5. CASE TempHashed(r)
  <2>1. task'[r].pc = "hashed" /\ UNCHANGED <<temp, unseen, record>>
    BY <1>5, Moves DEF TempHashed
  <2> QED BY <1>1, <2>1, ResidueApart DEF Listed, UsePcs
<1>6. CASE TargetRechecked(r)
  <2>1. task'[r].pc = "rechecked" /\ UNCHANGED <<temp, unseen, record>>
    BY <1>6, Moves DEF TargetRechecked
  <2> QED BY <1>1, <2>1, ResidueApart DEF Listed, UsePcs
<1>7. CASE Commit(r)
  <2>1. task'[r].pc = "renaming" /\ UNCHANGED <<temp, unseen>> /\ record' = "committing"
    BY <1>7, Moves DEF Commit
  <2> QED BY <1>1, <2>1, ResidueApart DEF Listed, UsePcs, TERMINAL_STATES
<1>8. CASE Finish(r) \/ RenameUnknown(r)
  <2>1. /\ task'[r].pc \in {"closingHandle", "hashing", "idle"} /\ UNCHANGED <<temp, unseen>>
        /\ record' \in {"verifying", "outcome_unknown"}
    BY <1>8, Goes DEF Finish, RenameUnknown
  <2> QED BY <1>1, <2>1, ResidueApart DEF Listed, UsePcs, TERMINAL_STATES
<1>9. CASE ServeRename(r)
  <2>1. task'[r].pc \in {"renamed", "refused"} /\ UNCHANGED <<unseen, record>> /\ (temp' => temp)
    BY <1>9, Goes DEF ServeRename, Renames
  <2> QED BY <1>1, <2>1, ResidueApart DEF Listed, UsePcs
<1>10. CASE Committed(r)
  <2>1. task'[r].pc = "idle" /\ UNCHANGED <<unseen, temp>> /\ ~temp
    BY <1>10, Goes DEF Committed, SealInv, Sealed
  <2> QED BY <1>1, <2>1, ResidueApart
<1>11. CASE Cleaned(r)
  <2>1. task'[r].pc = "removing" /\ UNCHANGED <<temp, unseen, record>>
    BY <1>11, Cleans DEF Cleaned
  <2> QED BY <1>1, <2>1, ResidueApart DEF Listed
<1>12. CASE TempRemoved(r)
  <2>1. task'[r].pc = "releasing" /\ UNCHANGED <<unseen, record>> /\ ~temp'
    BY <1>12, Cleans DEF TempRemoved, Cleaned
  <2>2. Searched(r)' BY <2>1 DEF Searched
  <2> QED BY <2>1, <2>2, ResidueApart, SMTT(60)
<1>13. CASE RemoveFails(r)
  <2>0. ~Cleaned(r) /\ UNCHANGED <<unseen, record>> /\ (temp' = temp \/ temp' = FALSE)
    BY <1>13 DEF RemoveFails, Cleaned
  <2>1. /\ task'[r].pc = "releasing" /\ task'[r].clean = FALSE
        /\ UNCHANGED <<unseen, record>> /\ (temp' => temp)
    <3>1. task'[r].pc = "releasing" /\ task'[r].clean = FALSE BY <1>13, <2>0, Cleans, Zenon
    <3>2. temp' => temp BY <2>0
    <3> QED BY <2>0, <3>1, <3>2
  <2>2. Searched(r)' BY <2>1 DEF Searched
  <2> QED BY <2>1, <2>2, ResidueApart DEF Listed
<1>14. CASE Released(r)
  <2>1. task'[r].pc = "idle" /\ UNCHANGED <<temp, unseen>> BY <1>14, Goes DEF Released
  <2>2. record' = "cleanup_required" \/ ~temp
    BY <1>14 DEF Released, ResidueInv, Searched
  <2> QED BY <1>1, <2>1, <2>2, ResidueApart DEF Listed, TERMINAL_STATES
<1> QED BY <1>2, <1>3, <1>4, <1>5, <1>6, <1>7, <1>8, <1>9, <1>10, <1>11, <1>12, <1>13, <1>14
        DEF Writing, Finishing, Closing

\* Recovery ends the record only when it missed or removed the file.
LEMMA ResidueRecovering ==
  ASSUME TypeOK, BeginInv, SealInv, ResidueInv, NEW r \in Requests, Recovering(r)
  PROVE  ResidueInv'
<1> USE DEF At, remoteVars, historyVars
<1>1. /\ \A q \in Requests \ {r} : task'[q] = task[q]
      /\ temp' => temp
      /\ task[r].pc \in RecoverPcs \cup {"idle"} /\ task'[r].pc \in RecoverPcs \cup {"idle"}
  BY RecoverPhases
<1>2. task'[r].pc \notin FreshPcs /\ (BeginInProgress' <=> BeginInProgress)
  BY <1>1 DEF FreshPcs, RecoverPcs, BeginInProgress
<1>3. CASE \/ Inspect(r) \/ TargetInspected(r) \/ DeleteTemp(r) \/ TempCompared(r)
  <2>1. UNCHANGED <<temp, unseen, record>>
    BY <1>3 DEF Inspect, TargetInspected, DeleteTemp, TempCompared
  <2>2. task'[r].pc \notin {"releasing", "missing", "resolving"}
    <3>1. CASE TargetInspected(r) BY <3>1, Goes, Moves DEF TargetInspected
    <3>2. CASE TempCompared(r) BY <3>2, Compares
    <3>3. CASE DeleteTemp(r) BY <3>3, Moves DEF DeleteTemp
    <3>4. CASE Inspect(r) BY <3>4, Goes DEF Inspect
    <3> QED BY <1>3, <3>1, <3>2, <3>3, <3>4
  <2>3. Searched(r)' BY <2>2 DEF Searched
  <2> QED BY <1>1, <1>2, <2>1, <2>3, ResidueKeeps DEF ResidueInv, Listed
<1>4. CASE TempInspected(r)
  <2>1. task[r].pc = "inspected" /\ temp' = temp /\ (unseen => unseen')
    BY <1>4 DEF TempInspected
  <2>2. CASE task[r].seen = "upload" /\ content = Source
    <3>1. committed /\ ~temp BY <2>1, <2>2 DEF SealInv, Sealed
    <3>2. ~BeginInProgress BY <3>1 DEF BeginInv, BeginInProgress, BeginPcs, FreshPcs
    <3>3. task'[r].pc = "idle" BY <1>4, <2>2, Goes DEF TempInspected
    <3>4. Searched(r)' BY <3>3 DEF Searched
    <3> QED BY <1>1, <1>2, <2>1, <3>1, <3>2, <3>4, ResidueKeeps
  <2>3. CASE ~(task[r].seen = "upload" /\ content = Source)
    <3>1. /\ task'[r].pc = IF temp THEN "idle" ELSE "missing"
          /\ unseen' = (unseen \/ (~temp /\ BeginInProgress))
          /\ record' = record
      BY <1>4, <2>3, Goes DEF TempInspected
    <3>2. record # "none" BY <2>1 DEF BeginInv
    <3>3. Searched(r)'
      <4>1. CASE temp BY <3>1, <4>1 DEF Searched
      <4>2. CASE ~temp /\ ~unseen'
        <5>1. ~BeginInProgress BY <3>1, <4>2
        <5>2. ASSUME NEW q \in Requests PROVE task[q].pc \notin FreshPcs
          BY <3>2, <5>1 DEF BeginInProgress, BeginInv, FreshPcs, BeginPcs
        <5>3. ASSUME NEW q \in Requests PROVE task'[q].pc \notin FreshPcs
          BY <1>1, <1>2, <5>2
        <5> QED BY <2>1, <3>1, <4>2, <5>3 DEF Searched
      <4>3. CASE ~temp /\ unseen' BY <3>1, <4>3 DEF Searched
      <4> QED BY <4>1, <4>2, <4>3
    <3> QED BY <1>1, <1>2, <2>1, <3>1, <3>3, ResidueKeeps DEF ResidueInv, Listed
  <2> QED BY <2>2, <2>3
<1>5. CASE Reconciled(r) \/ Resolved(r)
  <2>1. /\ task[r].pc \in {"missing", "resolving"} /\ task'[r].pc = "idle" /\ UNCHANGED <<temp, unseen>>
    BY <1>5, Goes DEF Reconciled, Resolved
  <2>2. unseen \/ (~temp /\ \A q \in Requests : task[q].pc \notin FreshPcs)
    BY <2>1 DEF ResidueInv, Searched
  <2>3. unseen \/ (~temp /\ ~BeginInProgress) BY <2>2 DEF BeginInProgress, FreshPcs
  <2>4. Searched(r)' BY <2>1 DEF Searched
  <2> QED BY <1>1, <1>2, <2>1, <2>3, <2>4, ResidueKeeps
<1>6. CASE TempDeleted(r)
  <2>1. UNCHANGED <<unseen, record>> BY <1>6 DEF TempDeleted
  <2>2. \/ temp /\ task'[r].pc = "resolving" /\ ~temp'
        \/ task'[r].pc = "idle"
    BY <1>6, Goes DEF TempDeleted
  <2>3. Searched(r)'
    <3>1. CASE task'[r].pc = "idle" BY <3>1 DEF Searched
    <3>2. CASE temp /\ task'[r].pc = "resolving" /\ ~temp'
      <4>1. ASSUME NEW q \in Requests PROVE task[q].pc \notin FreshPcs
        BY <3>2 DEF BeginInv, BeginPcs
      <4>2. ASSUME NEW q \in Requests PROVE task'[q].pc \notin FreshPcs BY <1>1, <1>2, <4>1
      <4> QED BY <3>2, <4>2 DEF Searched
    <3> QED BY <2>2, <3>1, <3>2
  <2> QED BY <1>1, <1>2, <2>1, <2>3, ResidueKeeps DEF ResidueInv, Listed
<1> QED BY <1>3, <1>4, <1>5, <1>6 DEF Recovering

\* A temporary file stays in the list of recoveries.
LEMMA ResidueStep ==
  ASSUME TypeOK, BeginInv, SealInv, ResidueInv, [Next]_vars
  PROVE  ResidueInv'
<1> USE DEF At, remoteVars, historyVars
<1>1. CASE \E r \in Requests : \/ Beginning(r) \/ Writing(r) \/ Finishing(r)
                               \/ Closing(r) \/ Recovering(r)
  BY <1>1, ResidueBegin, ResidueLater, ResidueRecovering
<1>2. CASE Restart
  <2>1. /\ \A q \in Requests : task'[q].pc = "idle"
        /\ UNCHANGED <<temp, unseen, record>>
    BY <1>2 DEF Restart
  <2> QED BY <2>1 DEF ResidueInv, Searched, BeginInProgress, Listed
<1>3. CASE StrayRename \/ TargetChanges \/ UNCHANGED vars
  <2>1. UNCHANGED <<task, unseen, record>> /\ (temp' => temp)
    BY <1>3 DEF StrayRename, Renames, TargetChanges, vars
  <2> QED BY <2>1 DEF ResidueInv, Searched, BeginInProgress, Listed
<1> QED BY <1>1, <1>2, <1>3 DEF Next

-----------------------------------------------------------------------------
(* One request after the other *)

\* While requests do not overlap, the others are idle when one takes a step.
LEMMA OnlyOne ==
  ASSUME TypeOK, SequentialInv, NEW r \in Requests, ~overlapped',
         Beginning(r) \/ Writing(r) \/ Finishing(r) \/ Closing(r) \/ Recovering(r)
  PROVE  /\ ~overlapped
         /\ \A q \in Requests \ {r} : At(q, "idle")
<1> USE DEF At
<1>1. Arrives(r) \/ (~At(r, "idle") /\ overlapped' = overlapped)
  <2>1. CASE Beginning(r)
    BY <2>1 DEF Beginning, Begin, ChannelOpened, TargetRead, TempCreated, BeginRefused, BeginEnds,
       OpenTimesOut
  <2>2. CASE Writing(r) BY <2>2 DEF Writing, Write, WriteRefused, Acknowledge, WriteFails
  <2>3. CASE Finishing(r)
    BY <2>3, SMTT(60) DEF Finishing, Finish, FinishRefused, HandleClosed, TempHashed, TargetRechecked,
       Commit, VerifyFails, FinishRaises, ServeRename, Committed, RenameRefused, RenameUnknown
  <2>4. CASE Closing(r)
    BY <2>4 DEF Closing, Abort, Cleaned, TempRemoved, RemoveFails, Released
  <2>5. CASE Recovering(r)
    BY <2>5 DEF Recovering, Inspect, TargetInspected, TempInspected, Reconciled, DeleteTemp,
       TempCompared, TempDeleted, Resolved
  <2> QED BY <2>1, <2>2, <2>3, <2>4, <2>5
<1>2. CASE Arrives(r) BY <1>2 DEF Arrives
<1>3. CASE ~At(r, "idle") /\ overlapped' = overlapped BY <1>3 DEF SequentialInv
<1> QED BY <1>1, <1>2, <1>3

\* Then the invariant is about the one handler that took a step.
LEMMA SequentialOne ==
  ASSUME NEW r \in Requests, \A q \in Requests \ {r} : task'[q].pc = "idle",
         task'[r].pc \in UsePcs => active',
         active' /\ committed' => task'[r].pc = "renamed",
         task'[r].pc \in CleanPcs => ~active' /\ ~stray' /\ ~committed',
         told' \cap {"failed", "cancelled"} # {} => ~active' /\ ~stray' /\ ~committed'
  PROVE  SequentialInv'
<1>1. \A q \in Requests : task'[q].pc # "idle" => q = r OBVIOUS
<1> QED BY <1>1 DEF SequentialInv, At, UsePcs, CleanPcs

\* Begin ends without a rename.
LEMMA SequentialBegin ==
  ASSUME TypeOK, BeginInv, SealInv, SequentialInv, NEW r \in Requests, Beginning(r), ~overlapped'
  PROVE  SequentialInv'
<1> USE DEF At, remoteVars, historyVars
<1>1. /\ ~committed /\ ~stray /\ ~active /\ told = {}
  BY DEF Beginning, Begin, ChannelOpened, TargetRead, TempCreated, BeginRefused, BeginEnds,
     OpenTimesOut, BeginInv, BeginPcs, FreshPcs
<1>2. UNCHANGED <<stray, committed>>
  BY DEF Beginning, Begin, ChannelOpened, TargetRead, TempCreated, BeginRefused, BeginEnds,
     OpenTimesOut
<1>3. task'[r].pc \in BeginPcs \cup {"idle"} /\ \A q \in Requests \ {r} : task'[q] = task[q]
  <2>1. CASE TargetRead(r) BY <2>1, Moves DEF TargetRead, BeginPcs, FreshPcs
  <2>2. CASE ~TargetRead(r)
    BY <2>2, Goes DEF Beginning, Begin, ChannelOpened, TempCreated, BeginRefused, BeginFails,
       BeginEnds, OpenTimesOut, BeginPcs, FreshPcs
  <2> QED BY <2>1, <2>2
<1>4. told' = {} \/ ~active'
  BY <1>1 DEF Beginning, Begin, ChannelOpened, TargetRead, TempCreated, BeginRefused, BeginFails,
     BeginEnds, OpenTimesOut
<1>5. \A q \in Requests \ {r} : task'[q].pc = "idle" BY <1>3, OnlyOne
<1>6. task'[r].pc \notin UsePcs \cup CleanPcs
  BY <1>3 DEF BeginPcs, FreshPcs, UsePcs, CleanPcs
<1> QED BY <1>1, <1>2, <1>4, <1>5, <1>6, SequentialOne

\* A request that uses the upload leaves it active or closes it uncommitted.
LEMMA SequentialUse ==
  ASSUME TypeOK, BeginInv, SealInv, SequentialInv, NEW r \in Requests, ~overlapped',
         Writing(r) \/ Finishing(r) \/ Abort(r)
  PROVE  SequentialInv'
<1> USE DEF At, remoteVars, historyVars
<1>1. /\ ~overlapped
      /\ \A q \in Requests \ {r} : task[q].pc = "idle" /\ task'[q] = task[q]
  BY OnlyOne, Phases DEF Closing
<1>2. task[r].pc \in UsePcs \/ (task[r].pc = "idle" /\ active)
  BY DEF Writing, Finishing, Write, WriteRefused, Acknowledge, WriteFails, Finish, FinishRefused,
     HandleClosed, TempHashed, TargetRechecked, Commit, VerifyFails, FinishRaises, ServeRename,
     Committed, RenameRefused, RenameUnknown, Abort, Arrives, UsePcs
<1>3. /\ active /\ ~stray /\ told \cap {"failed", "cancelled"} = {}
      /\ committed => task[r].pc = "renamed"
  <2>1. active BY <1>1, <1>2 DEF SequentialInv
  <2>2. committed => \E q \in Requests : task[q].pc = "renamed" BY <1>1, <2>1 DEF SequentialInv
  <2>3. committed => task[r].pc = "renamed" BY <1>1, <2>2
  <2> QED BY <1>1, <2>1, <2>3 DEF SequentialInv, SealInv
<1>4. \A q \in Requests \ {r} : task'[q].pc = "idle" BY <1>1
<1>5. CASE \/ WriteRefused(r) \/ WriteFails(r) \/ FinishRefused(r) \/ VerifyFails(r)
           \/ RenameRefused(r) \/ Abort(r)
  <2>1. /\ task'[r].pc \in {"cleaning", "removing"} /\ active' = FALSE
        /\ UNCHANGED <<stray, committed, told>> /\ task[r].pc # "renamed"
    BY <1>5, Closes DEF WriteRefused, WriteFails, FinishRefused, VerifyFails, RenameRefused, Abort,
       Arrives
  <2>2. task'[r].pc \notin UsePcs BY <2>1 DEF UsePcs
  <2> QED BY <1>3, <1>4, <2>1, <2>2, SequentialOne
<1>6. ASSUME task[r].pc # "renamed", UNCHANGED <<active, stray, committed, told>>,
             task'[r].pc \in UsePcs \cup {"idle"}
      PROVE  SequentialInv'
  <2>1. task'[r].pc \notin CleanPcs BY <1>6 DEF UsePcs, CleanPcs
  <2> QED BY <1>3, <1>4, <1>6, <2>1, SequentialOne
<1>7. CASE Acknowledge(r) \/ Finish(r) \/ HandleClosed(r) \/ FinishRaises(r)
  BY <1>6, <1>7, Goes DEF Acknowledge, Finish, HandleClosed, FinishRaises, UsePcs, Arrives
<1>8. CASE Write(r) BY <1>6, <1>8, Moves DEF Write, UsePcs, Arrives
<1>9. CASE TempHashed(r) BY <1>6, <1>9, Moves DEF TempHashed, UsePcs
<1>10. CASE TargetRechecked(r) BY <1>6, <1>10, Moves DEF TargetRechecked, UsePcs
<1>11. CASE Commit(r) BY <1>6, <1>11, Moves DEF Commit, UsePcs
<1>12. CASE ServeRename(r)
  <2>1. /\ task'[r].pc = "renamed" \/ (task'[r].pc = "refused" /\ committed' = committed)
        /\ UNCHANGED <<active, stray, told>> /\ task[r].pc = "renaming"
    BY <1>12, Goes DEF ServeRename
  <2>2. task'[r].pc \notin CleanPcs BY <2>1 DEF CleanPcs
  <2> QED BY <1>3, <1>4, <2>1, <2>2, SequentialOne
<1>13. CASE Committed(r) \/ RenameUnknown(r)
  <2>1. /\ task'[r].pc = "idle" /\ active' = FALSE
        /\ told' \in {told \cup {"succeeded"}, told \cup {"outcome_unknown"}}
    BY <1>13, Goes DEF Committed, RenameUnknown, Report
  <2>2. task'[r].pc \notin UsePcs \cup CleanPcs BY <2>1 DEF UsePcs, CleanPcs
  <2>3. told' \cap {"failed", "cancelled"} = {} BY <1>3, <2>1
  <2> QED BY <1>4, <2>1, <2>2, <2>3, SequentialOne
<1> QED BY <1>5, <1>7, <1>8, <1>9, <1>10, <1>11, <1>12, <1>13 DEF Writing, Finishing

\* A cleanup follows no rename.
LEMMA SequentialClosing ==
  ASSUME TypeOK, BeginInv, SealInv, SequentialInv, NEW r \in Requests, ~overlapped',
         Cleaned(r) \/ TempRemoved(r) \/ RemoveFails(r) \/ Released(r)
  PROVE  SequentialInv'
<1> USE DEF At, remoteVars, historyVars
<1>1. /\ ~overlapped
      /\ \A q \in Requests \ {r} : task[q].pc = "idle" /\ task'[q] = task[q]
  BY OnlyOne, Phases DEF Closing
<1>2. task[r].pc \in CleanPcs
  BY DEF Cleaned, TempRemoved, RemoveFails, Released, CleanPcs
<1>3. ~active /\ ~stray /\ ~committed BY <1>1, <1>2 DEF SequentialInv
<1>4. UNCHANGED <<active, stray, committed>>
  BY DEF Cleaned, TempRemoved, RemoveFails, Released
<1>5. task'[r].pc \in CleanPcs \cup {"idle"}
  <2>1. CASE Released(r) BY <2>1, Goes DEF Released
  <2>2. CASE ~Released(r) BY <2>2, Cleans DEF CleanPcs
  <2> QED BY <2>1, <2>2
<1>6. task'[r].pc \notin UsePcs BY <1>5 DEF UsePcs, CleanPcs
<1> QED BY <1>1, <1>3, <1>4, <1>6, SequentialOne

\* Recovery reports nothing and makes nothing active.
LEMMA SequentialRecovering ==
  ASSUME TypeOK, BeginInv, SealInv, SequentialInv, NEW r \in Requests, ~overlapped', Recovering(r)
  PROVE  SequentialInv'
<1> USE DEF At
<1>1. /\ ~overlapped
      /\ \A q \in Requests \ {r} : task[q].pc = "idle" /\ task'[q] = task[q]
      /\ task[r].pc \in RecoverPcs \cup {"idle"} /\ task'[r].pc \in RecoverPcs \cup {"idle"}
      /\ UNCHANGED <<told, active, stray, committed>>
  BY OnlyOne, RecoverPhases
<1>2. \A q \in Requests : task[q].pc # "renamed" BY <1>1 DEF RecoverPcs
<1>3. ~(active /\ committed) BY <1>1, <1>2 DEF SequentialInv
<1>4. task'[r].pc \notin UsePcs \cup CleanPcs BY <1>1 DEF RecoverPcs, UsePcs, CleanPcs
<1>5. told \cap {"failed", "cancelled"} # {} => ~active /\ ~stray /\ ~committed
  BY <1>1 DEF SequentialInv
<1> QED BY <1>1, <1>3, <1>4, <1>5, SequentialOne

\* While requests do not overlap, no failed upload is committed.
LEMMA SequentialStep ==
  ASSUME TypeOK, BeginInv, SealInv, SequentialInv, [Next]_vars
  PROVE  SequentialInv'
<1> USE DEF At, remoteVars, historyVars
<1>1. CASE overlapped' BY <1>1 DEF SequentialInv
<1>2. CASE ~overlapped' /\ \E r \in Requests : \/ Beginning(r) \/ Writing(r) \/ Finishing(r)
                                               \/ Closing(r) \/ Recovering(r)
  BY <1>2, SequentialBegin, SequentialUse, SequentialClosing, SequentialRecovering DEF Closing
<1>3. CASE ~overlapped' /\ StrayRename
  <2>1. /\ ~overlapped /\ stray /\ ~active /\ ~stray'
        /\ UNCHANGED <<task, active, told>>
    BY <1>3 DEF StrayRename, SealInv
  <2>2. told \cap {"failed", "cancelled"} = {} /\ \A r \in Requests : task[r].pc \notin CleanPcs
    BY <2>1 DEF SequentialInv
  <2>3. ~active' /\ \A r \in Requests : task'[r].pc \notin UsePcs
    BY <2>1 DEF SequentialInv
  <2> QED BY <2>1, <2>2, <2>3 DEF SequentialInv
<1>4. CASE ~overlapped' /\ Restart
  <2>1. /\ ~overlapped /\ \A q \in Requests : task'[q].pc = "idle"
        /\ active' = FALSE /\ UNCHANGED <<committed, told>>
        /\ stray' => stray \/ \E q \in Requests : task[q].pc = "renaming"
    BY <1>4 DEF Restart
  <2>2. told \cap {"failed", "cancelled"} # {} => ~stray' /\ ~committed
    BY <2>1 DEF SequentialInv, UsePcs
  <2> QED BY <2>1, <2>2 DEF SequentialInv, UsePcs, CleanPcs
<1>5. CASE TargetChanges \/ UNCHANGED vars
  <2>1. UNCHANGED <<task, active, stray, committed, told, overlapped>>
    BY <1>5 DEF TargetChanges, vars
  <2> QED BY <2>1 DEF SequentialInv
<1> QED BY <1>1, <1>2, <1>3, <1>4, <1>5 DEF Next

-----------------------------------------------------------------------------
(* The theorems *)

\* The invariant holds before any request.
LEMMA InitInv == Init => IInv
<1> SUFFICES ASSUME Init PROVE IInv OBVIOUS
<1> USE DEF Init, At
<1>1. TypeOK
  <2>1. <<>> \in Seq(Chunks) /\ Len(<<>>) = 0 BY EmptySeq, SMT
  <2>2. [pc |-> "idle"] \in Task BY DEF Task, Waiting
  <2>3. task \in [Requests -> Task] BY <2>2
  <2>4. /\ state \in [digest : Seq(Chunks), offset : Nat, position : Nat,
                     handle : BOOLEAN, lease : BOOLEAN]
        /\ content \in Seq(Chunks)
        /\ Len(state.digest) = state.offset /\ state.position <= Len(content)
    BY <2>1
  <2>5. /\ frozen \in {"absent", "old", "other"} /\ target \in Targets
        /\ record \in RecordStates \cup {"none"}
        /\ told \in SUBSET (TERMINAL_STATES \cup {"cleanup_required", "outcome_unknown"})
    BY DEF Targets
  <2>6. /\ began \in BOOLEAN /\ active \in BOOLEAN /\ temp \in BOOLEAN /\ stray \in BOOLEAN
        /\ committed \in BOOLEAN /\ overlapped \in BOOLEAN /\ unseen \in BOOLEAN
        /\ restarted \in BOOLEAN
    OBVIOUS
  <2> QED BY <2>3, <2>4, <2>5, <2>6, Zenon DEF TypeOK
<1>2. \A r \in Requests : task[r].pc = "idle" OBVIOUS
<1>3. BeginInv BY <1>2 DEF BeginInv, BeginPcs, FreshPcs
<1>4. SealInv BY <1>2 DEF SealInv, Sealed, UsePcs
<1>5. SequentialInv BY <1>2 DEF SequentialInv, UsePcs, CleanPcs
<1>6. ResidueInv BY <1>2 DEF ResidueInv, Searched, BeginInProgress
<1>7. WriteInv BY <1>2 DEF WriteInv
<1> QED BY <1>1, <1>3, <1>4, <1>5, <1>6, <1>7 DEF IInv, SuccessIsCommitted, ChannelIsOwned

\* Every step keeps the invariant.
LEMMA NextInv == IInv /\ [Next]_vars => IInv'
<1> SUFFICES ASSUME IInv, [Next]_vars PROVE IInv' OBVIOUS
<1>1. /\ TypeOK /\ BeginInv /\ SealInv /\ SequentialInv /\ ResidueInv /\ WriteInv
      /\ SuccessIsCommitted /\ ChannelIsOwned
  BY DEF IInv
<1>2. TypeOK' BY <1>1, TypeStep, Zenon
<1>3. BeginInv' BY <1>1, BeginStep, Zenon
<1>4. SealInv' BY <1>1, SealStep, Zenon
<1>5. SequentialInv' BY <1>1, SequentialStep, Zenon
<1>6. ResidueInv' BY <1>1, ResidueStep, Zenon
<1>7. WriteInv' BY <1>1, WriteStep, Zenon
<1>8. SuccessIsCommitted' BY <1>1, SuccessStep, Zenon
<1>9. ChannelIsOwned' BY <1>1, OwnedStep, Zenon
<1> QED BY <1>2, <1>3, <1>4, <1>5, <1>6, <1>7, <1>8, <1>9, Zenon DEF IInv

\* In every reachable state the upload, its record, its temporary file and the
\* handlers agree as the inductive invariant says (_UploadState, _active).
THEOREM UploadInvariance == Spec => []IInv
  BY InitInv, NextInv, PTL DEF Spec

\* Handlers, upload and record are well typed, and the offset of an upload is
\* the number of chunks it has hashed (write_chunk).
THEOREM UploadTyped == Spec => []TypeOK
<1>1. IInv => TypeOK BY DEF IInv
<1> QED BY <1>1, UploadInvariance, PTL

\* The target holds nothing but the verified source, a success stands for an
\* executed rename, and a failure of an upload whose requests did not overlap for
\* a target that was not replaced (finish, abort, inspect).
THEOREM OutcomesAreTrue == Spec => []OutcomeIsTrue
<1>1. IInv => OutcomeIsTrue
  <2> SUFFICES ASSUME IInv PROVE OutcomeIsTrue OBVIOUS
  <2>1. CommitIsComplete BY DEF IInv, SealInv, CommitIsComplete
  <2>2. SequentialFailureIsHonest BY DEF IInv, SequentialInv, SequentialFailureIsHonest
  <2> QED BY <2>1, <2>2 DEF IInv, OutcomeIsTrue
<1> QED BY <1>1, UploadInvariance, PTL

\* An open channel belongs to a handler or to the active upload, and a temporary
\* file that nobody owns is listed for recovery (_cleanup_active, close_all, list).
THEOREM NothingStaysBehind == Spec => []NothingIsLeftBehind
<1>1. IInv => NothingIsLeftBehind
  BY DEF IInv, ResidueInv, NothingIsLeftBehind, ResidueIsListed
<1> QED BY <1>1, UploadInvariance, PTL

\* A file that appeared at a target that was absent is not replaced: each step
\* that puts the upload there is a rename without FXR_OVERWRITE (finish).
THEOREM NeverOverwritesBlindly == Spec => NoBlindOverwrite
<1>1. ASSUME [Next]_vars
      PROVE  [frozen = "absent" /\ target' = "upload" => target \in {"absent", "upload"}]_vars
  <2> USE DEF remoteVars, historyVars
  <2>1. CASE Renames BY <2>1 DEF Renames, MayRename
  <2>2. CASE target' = target BY <2>2
  <2>3. CASE TargetChanges BY <2>3 DEF TargetChanges
  <2>4. Renames \/ target' = target \/ TargetChanges
    <3>1. CASE StrayRename \/ Restart \/ UNCHANGED vars
      BY <3>1 DEF StrayRename, Restart, vars
    <3>2. ASSUME NEW r \in Requests, Beginning(r) PROVE target' = target
      BY <3>2 DEF Beginning, Begin, ChannelOpened, TargetRead, TempCreated, BeginRefused,
         BeginEnds, OpenTimesOut
    <3>3. ASSUME NEW r \in Requests, Writing(r) PROVE target' = target
      BY <3>3 DEF Writing, Write, WriteRefused, Acknowledge, WriteFails
    <3>4. ASSUME NEW r \in Requests, Finishing(r) PROVE Renames \/ target' = target
      BY <3>4 DEF Finishing, Finish, FinishRefused, HandleClosed, TempHashed, TargetRechecked,
         Commit, VerifyFails, FinishRaises, ServeRename, Committed, RenameRefused, RenameUnknown
    <3>5. ASSUME NEW r \in Requests, Closing(r) PROVE target' = target
      BY <3>5 DEF Closing, Abort, Cleaned, TempRemoved, RemoveFails, Released
    <3>6. ASSUME NEW r \in Requests, Recovering(r) PROVE target' = target
      BY <3>6 DEF Recovering, Inspect, TargetInspected, TempInspected, Reconciled, DeleteTemp,
         TempCompared, TempDeleted, Resolved
    <3> QED BY <1>1, <3>1, <3>2, <3>3, <3>4, <3>5, <3>6, Zenon DEF Next
  <2> QED BY <2>1, <2>2, <2>3, <2>4
<1> QED BY <1>1, PTL DEF Spec, NoBlindOverwrite
=============================================================================
