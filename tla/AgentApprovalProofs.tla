------------------------ MODULE AgentApprovalProofs ------------------------
(***************************************************************************)
(* Proofs about AgentApproval, for any number of Runs and sessions and any  *)
(* limit of iterations: a command runs once, what the model is told of it   *)
(* is true, nothing is left behind, and approval is the only authority.     *)
(***************************************************************************)
EXTENDS AgentApproval, TLAPS

USE ReactAssumption

\* A call is in progress.
Busy == Nodes \ {"model", "raising", "ended"}

\* An approval is asked for before there is anything else to say of it, and
\* nothing is said of a call that was not made yet.
Asked(a) ==
  /\ accepted[a] = "nothing" => registry[a] = NoEntry /\ answers[a] = {}
  /\ a[2] > iteration[a[1]] =>
       accepted[a] = "nothing" /\ dispatched[a] = 0 /\ recorded[a] = "none"

\* What an entry says of the command, and of what clients were told.
Entered(a) ==
  /\ registry[a].resolution \in {"none", "REJECTED"} => dispatched[a] = 0
  /\ registry[a] # NoEntry /\ "REJECTED" \in answers[a]
       => registry[a].resolution = "REJECTED"
  /\ registry[a] # NoEntry /\ registry[a].resolution = "REJECTED" /\ registry[a].active
       => "REJECTED" \in answers[a]

\* AuthorityReleased of one approval.
Released(a) ==
  /\ node[a[1]] = "ended" => registry[a] = NoEntry
  /\ registry[a].resolution = "none"
       => Current(a[1]) = a /\ node[a[1]] \in {"requesting", "pending", "raising"}

\* ToolMessageIsTrue and CommandRunsOnce of one approval.
Told(a) ==
  /\ dispatched[a] <= 1
  /\ recorded[a] # "none" => (recorded[a] \in NotExecuted <=> dispatched[a] = 0)

\* The call in progress: whether it is guarded and was dispatched, and what its
\* message will say.
Called(r) ==
  /\ node[r] = "model" => ~guarded[r]
  /\ node[r] \notin {"closing", "raising", "ended"} => outcome[r] = "none"
  /\ node[r] \in Busy =>
       /\ iteration[r] >= 1
       /\ recorded[Current(r)] = "none"
       /\ guarded[r] <=> accepted[Current(r)] # "nothing"
  /\ node[r] \in {"requesting", "pending", "resolving", "execute", "announcing"} =>
       dispatched[Current(r)] = 0
  /\ node[r] \in {"creating", "running", "closing"} => dispatched[Current(r)] = 1
  /\ node[r] = "closing" /\ outcome[r] = "none" => result[r] \in Executed
  /\ node[r] = "recording" =>
       result[r] # "none" /\ (result[r] \in NotExecuted <=> dispatched[Current(r)] = 0)

\* The command that is about to be dispatched is approved; its approval is
\* withdrawn only when its session is gone, which Dispatch looks at.
Announced(r) ==
  node[r] = "announcing" /\ guarded[r] =>
    /\ registry[Current(r)] # NoEntry
    /\ registry[Current(r)].resolution = "APPROVED"
    /\ Available(r) => registry[Current(r)].active

ApprovalInv == \A a \in Approvals : Asked(a) /\ Entered(a) /\ Released(a) /\ Told(a)
CallInv     == \A r \in Runs : Called(r) /\ Announced(r)

\* The inductive invariant.
IInv == TypeOK /\ ApprovalInv /\ CallInv /\ OpenProcessIsOwned

-----------------------------------------------------------------------------
(* Types *)

\* The current call of a Run that has counted an iteration is an approval.
LEMMA CurrentType ==
  ASSUME TypeOK, NEW r \in Runs, iteration[r] >= 1
  PROVE  Current(r) \in Approvals
  BY DEF TypeOK, Current, Approvals

\* An entry that changes stays an entry.
LEMMA EntryType ==
  ASSUME NEW e \in Entries \cup {NoEntry}
  PROVE  /\ Invalidated(e) \in Entries \cup {NoEntry}
         /\ e.resolution = "absent" <=> e = NoEntry
         /\ Invalidated(e) = NoEntry <=> e = NoEntry
         /\ e # NoEntry => /\ e \in Entries
                           /\ ~Invalidated(e).active
                           /\ Invalidated(e).resolution =
                                IF e.resolution = "none" THEN "INVALIDATED" ELSE e.resolution
<1>1. NoEntry.resolution = "absent" BY DEF NoEntry
<1>2. ASSUME NEW f \in Entries PROVE f.resolution # "absent" /\ f # NoEntry
  BY <1>1 DEF Entries
<1>3. CASE e = NoEntry BY <1>1, <1>3 DEF Invalidated
<1>4. CASE e \in Entries
  <2>1. Invalidated(e) = [e EXCEPT !.active = FALSE,
                           !.resolution = IF @ = "none" THEN "INVALIDATED" ELSE @]
    BY <1>2, <1>4 DEF Invalidated
  <2>2. /\ Invalidated(e) \in Entries
        /\ Invalidated(e).active = FALSE
        /\ Invalidated(e).resolution =
             IF e.resolution = "none" THEN "INVALIDATED" ELSE e.resolution
    BY <1>4, <2>1 DEF Entries
  <2> QED BY <1>2, <1>4, <2>2
<1> QED BY <1>3, <1>4

\* A function with another value of its range stays what it is.
LEMMA UpdateType ==
  ASSUME NEW D, NEW R, NEW f \in [D -> R], NEW d, NEW v \in R
  PROVE  [f EXCEPT ![d] = v] \in [D -> R]
  OBVIOUS

\* A registry whose entries of a Run are withdrawn is still one.
LEMMA RegistryType ==
  ASSUME registry \in [Approvals -> Entries \cup {NoEntry}], NEW r \in Runs,
         InvalidateRun(r) \/ ReleaseRun(r)
  PROVE  registry' \in [Approvals -> Entries \cup {NoEntry}]
  BY EntryType DEF InvalidateRun, ReleaseRun

\* Consuming an entry that is there leaves a registry.
LEMMA ConsumedType ==
  ASSUME NEW f \in [Approvals -> Entries \cup {NoEntry}], NEW a, f[a] # NoEntry
  PROVE  [f EXCEPT ![a].consumed = TRUE] \in [Approvals -> Entries \cup {NoEntry}]
<1>1. ASSUME NEW e \in Entries PROVE [e EXCEPT !.consumed = TRUE] \in Entries
  BY DEF Entries
<1>2. CASE a \in Approvals
  <2>1. f[a] \in Entries BY <1>2
  <2>2. [f[a] EXCEPT !.consumed = TRUE] \in Entries BY <1>1, <2>1
  <2>3. [f EXCEPT ![a].consumed = TRUE] = [f EXCEPT ![a] = [f[a] EXCEPT !.consumed = TRUE]]
    OBVIOUS
  <2> QED BY <2>2, <2>3
<1>3. CASE a \notin Approvals BY <1>3
<1> QED BY <1>2, <1>3

\* Every step keeps the types.
LEMMA TypeStep ==
  ASSUME TypeOK, [Next]_vars
  PROVE  TypeOK'
<1> USE DEF TypeOK, Goto, Raise, Deliver, Interrupted, vars, workerVars, sshVars, historyVars,
            Nodes, Results, NotExecuted, Executed
<1>1. ASSUME NEW r \in Runs, GraphStep(r) PROVE TypeOK'
  <2>1. CASE ModelEnds(r) BY <2>1 DEF ModelEnds
  <2>2. CASE LimitReached(r) BY <2>2 DEF LimitReached
  <2>3. CASE PrepareTool(r)
    <3>1. iteration[r] + 1 \in 1..ReactLimit BY <2>3 DEF PrepareTool
    <3>2. <<r, iteration[r] + 1>> \in Approvals BY <3>1 DEF Approvals
    <3>3. Pending \in Entries BY DEF Pending, Entries
    <3>4. iteration' \in [Runs -> 0..ReactLimit] BY <2>3, <3>1 DEF PrepareTool
    <3>5. node' \in [Runs -> Nodes] /\ result' \in [Runs -> Results \cup {"none"}]
      BY <2>3, SMTT(60) DEF PrepareTool
    <3> DEFINE c == <<r, iteration[r] + 1>>
    <3> HIDE DEF Nodes, Results, c
    <3>6. CASE UNCHANGED <<guarded, registry, accepted>>
      BY <2>3, <3>4, <3>5, <3>6 DEF PrepareTool
    <3>7. CASE /\ guarded' = [guarded EXCEPT ![r] = TRUE]
               /\ registry' = [registry EXCEPT ![c] = Pending]
               /\ accepted' = [accepted EXCEPT ![c] = "asked"]
      <4>1. registry' \in [Approvals -> Entries \cup {NoEntry}]
        BY <3>3, <3>7, UpdateType
      <4>2. accepted' \in [Approvals -> {"nothing", "asked", "APPROVED", "REJECTED"}]
        BY <3>7, UpdateType
      <4>3. guarded' \in [Runs -> BOOLEAN] BY <3>7, UpdateType
      <4> QED BY <2>3, <3>4, <3>5, <4>1, <4>2, <4>3 DEF PrepareTool
    <3> QED BY <2>3, <3>6, <3>7 DEF PrepareTool, c
  <2>4. CASE RequestPublished(r) BY <2>4 DEF RequestPublished
  <2>5. CASE DecisionArrives(r) BY <2>5 DEF DecisionArrives
  <2>6. CASE WaitFails(r) BY <2>6, RegistryType DEF WaitFails
  <2>7. CASE ResolutionPublished(r) BY <2>7 DEF ResolutionPublished
  <2>8. CASE ConsumeAndAnnounce(r)
    <3>1. registry' \in [Approvals -> Entries \cup {NoEntry}]
      <4>1. CASE UNCHANGED registry BY <4>1
      <4>2. CASE /\ Consumable(registry[Current(r)])
                 /\ registry' = [registry EXCEPT ![Current(r)].consumed = TRUE]
        <5>1. registry[Current(r)] # NoEntry BY <4>2 DEF Consumable
        <5>2. registry \in [Approvals -> Entries \cup {NoEntry}] OBVIOUS
        <5> QED BY <4>2, <5>1, <5>2, ConsumedType
      <4> QED BY <2>8, <4>1, <4>2 DEF ConsumeAndAnnounce
    <3> QED BY <2>8, <3>1, SMTT(60) DEF ConsumeAndAnnounce
  <2>9. CASE CancelObserved(r) BY <2>9 DEF CancelObserved
  <2>10. CASE PublishFails(r) BY <2>10 DEF PublishFails
  <2>11. CASE Record(r) BY <2>11, ZenonT(60) DEF Record
  <2>12. CASE TaskCancelled(r) BY <2>12 DEF TaskCancelled
  <2>13. CASE GraphExits(r) BY <2>13, RegistryType DEF GraphExits
  <2> QED BY <1>1, <2>1, <2>2, <2>3, <2>4, <2>5, <2>6, <2>7, <2>8, <2>9, <2>10, <2>11, <2>12,
             <2>13 DEF GraphStep
<1>2. ASSUME NEW r \in Runs, ExecutorStep(r) PROVE TypeOK'
  <2>1. CASE Dispatch(r)
    <3>1. dispatched' \in [Approvals -> Nat] BY <2>1 DEF Dispatch
    <3> QED BY <2>1, <3>1 DEF Dispatch
  <2>2. CASE ProcessCreated(r)
    <3>1. CASE Interrupted(r) \/ cancelled[r] BY <2>2, <3>1 DEF ProcessCreated
    <3>2. CASE ~(Interrupted(r) \/ cancelled[r]) BY <2>2, <3>2 DEF ProcessCreated
    <3> QED BY <3>1, <3>2
  <2>3. CASE CreateFails(r) BY <2>3, SMTT(60) DEF CreateFails
  <2>4. CASE CommandCompletes(r) BY <2>4 DEF CommandCompletes
  <2>5. CASE CommandInterrupted(r) BY <2>5, SMTT(60) DEF CommandInterrupted
  <2>6. CASE CloseConfirmed(r) BY <2>6, SMTT(60) DEF CloseConfirmed, AfterClosing
  <2>7. CASE CloseFails(r) BY <2>7 DEF CloseFails
  <2> QED BY <1>2, <2>1, <2>2, <2>3, <2>4, <2>5, <2>6, <2>7 DEF ExecutorStep
<1>3. ASSUME NEW r \in Runs, CancelRun(r) PROVE TypeOK'
  <2> HIDE DEF Nodes, Results
  <2>1. cancelled' = cancelled \/ cancelled' = [cancelled EXCEPT ![r] = TRUE]
    BY <1>3 DEF CancelRun
  <2>2. cancelled' \in [Runs -> BOOLEAN]
    <3>1. cancelled \in [Runs -> BOOLEAN] /\ TRUE \in BOOLEAN OBVIOUS
    <3>2. [cancelled EXCEPT ![r] = TRUE] \in [Runs -> BOOLEAN]
      BY <3>1, UpdateType, Zenon
    <3> QED BY <2>1, <3>1, <3>2, ZenonT(60)
  <2>3. taskCancel' \in [Runs -> {"no", "pending", "delivered"}] BY <1>3 DEF CancelRun
  <2>4. UNCHANGED <<workerVars, sshVars, historyVars, registry>> BY <1>3 DEF CancelRun
  <2> QED BY <2>2, <2>3, <2>4
<1>4. ASSUME NEW a \in Approvals, NEW matches \in BOOLEAN, NEW status \in {"APPROVED", "REJECTED"},
             Decide(a, status, matches)
      PROVE  TypeOK'
  <2> DEFINE decided == [registry EXCEPT ![a].resolution = status]
  <2>1. registry' \in [Approvals -> Entries \cup {NoEntry}]
    <3>1. CASE UNCHANGED registry BY <3>1
    <3>2. CASE registry[a] # NoEntry /\ registry' = decided
      <4>1. [registry[a] EXCEPT !.resolution = status] \in Entries BY <3>2 DEF Entries
      <4> QED BY <3>2, <4>1
    <3>3. CASE /\ registry[a] # NoEntry
               /\ registry' = [b \in Approvals |-> IF b[1] = a[1] THEN Invalidated(decided[b])
                                                   ELSE decided[b]]
      <4>1. [registry[a] EXCEPT !.resolution = status] \in Entries BY <3>3, SMTT(60) DEF Entries
      <4>2. decided \in [Approvals -> Entries \cup {NoEntry}] BY <4>1
      <4> HIDE DEF decided
      <4> QED BY <3>3, <4>2, EntryType
    <3> QED BY <1>4, <3>1, <3>2, <3>3 DEF Decide
  <2>2. answers' \in [Approvals -> SUBSET {"APPROVED", "REJECTED", "INACTIVE", "CONFLICT",
                                           "NOT_FOUND"}]
    BY <1>4 DEF Decide, Answer
  <2>3. accepted' \in [Approvals -> {"nothing", "asked", "APPROVED", "REJECTED"}]
    BY <1>4 DEF Decide
  <2> QED BY <1>4, <2>1, <2>2, <2>3 DEF Decide
<1>5. ASSUME NEW s \in Sessions, SessionStep(s) PROVE TypeOK'
  BY <1>5 DEF SessionStep, TransportLost, BeginClose, EndClose
<1>6. CASE UNCHANGED vars BY <1>6
<1> QED BY <1>1, <1>2, <1>3, <1>4, <1>5, <1>6, SMTT(60) DEF Next

-----------------------------------------------------------------------------
(* Steps of a worker *)

\* What a worker leaves alone: other Runs, their approvals, sessions, answers.
LEMMA WorkerFrame ==
  ASSUME TypeOK, NEW r \in Runs, GraphStep(r) \/ ExecutorStep(r) \/ CancelRun(r)
  PROVE  /\ UNCHANGED <<session, answers>>
         /\ \A q \in Runs \ {r} :
              /\ node'[q] = node[q] /\ iteration'[q] = iteration[q] /\ guarded'[q] = guarded[q]
              /\ result'[q] = result[q] /\ outcome'[q] = outcome[q]
         /\ \A a \in Approvals :
              a[1] # r =>
                /\ registry'[a] = registry[a] /\ accepted'[a] = accepted[a]
                /\ dispatched'[a] = dispatched[a] /\ recorded'[a] = recorded[a]
<1> USE DEF TypeOK, Goto, Raise, Current, historyVars, workerVars, sshVars, InvalidateRun, ReleaseRun
<1>1. CASE ModelEnds(r) BY <1>1 DEF ModelEnds
<1>2. CASE LimitReached(r) BY <1>2 DEF LimitReached
<1>3. CASE PrepareTool(r) BY <1>3 DEF PrepareTool
<1>4. CASE RequestPublished(r) BY <1>4 DEF RequestPublished
<1>5. CASE DecisionArrives(r) BY <1>5 DEF DecisionArrives
<1>6. CASE WaitFails(r) BY <1>6 DEF WaitFails
<1>7. CASE ResolutionPublished(r) BY <1>7 DEF ResolutionPublished
<1>8. CASE ConsumeAndAnnounce(r) BY <1>8 DEF ConsumeAndAnnounce
<1>9. CASE CancelObserved(r) BY <1>9 DEF CancelObserved
<1>10. CASE PublishFails(r) BY <1>10 DEF PublishFails
<1>11. CASE Record(r) BY <1>11 DEF Record
<1>12. CASE TaskCancelled(r) BY <1>12 DEF TaskCancelled
<1>13. CASE GraphExits(r) BY <1>13 DEF GraphExits
<1>14. CASE Dispatch(r) BY <1>14 DEF Dispatch
<1>15. CASE ProcessCreated(r) BY <1>15 DEF ProcessCreated
<1>16. CASE CreateFails(r) BY <1>16 DEF CreateFails
<1>17. CASE CommandCompletes(r) BY <1>17 DEF CommandCompletes
<1>18. CASE CommandInterrupted(r) BY <1>18 DEF CommandInterrupted
<1>19. CASE CloseConfirmed(r) BY <1>19 DEF CloseConfirmed, AfterClosing
<1>20. CASE CloseFails(r) BY <1>20 DEF CloseFails
<1>21. CASE CancelRun(r) BY <1>21 DEF CancelRun
<1> QED BY <1>1, <1>2, <1>3, <1>4, <1>5, <1>6, <1>7, <1>8, <1>9, <1>10, <1>11, <1>12, <1>13,
           <1>14, <1>15, <1>16, <1>17, <1>18, <1>19, <1>20, <1>21 DEF GraphStep, ExecutorStep

\* So only the worker's own call and approvals are left to show.
LEMMA WorkerSuffices ==
  ASSUME IInv, TypeOK', NEW r \in Runs, GraphStep(r) \/ ExecutorStep(r) \/ CancelRun(r),
         Called(r)', Announced(r)',
         \A n \in 1..ReactLimit :
           Asked(<<r, n>>)' /\ Entered(<<r, n>>)' /\ Released(<<r, n>>)' /\ Told(<<r, n>>)'
  PROVE  ApprovalInv' /\ CallInv'
<1>1. ASSUME NEW a \in Approvals
      PROVE  (Asked(a) /\ Entered(a) /\ Released(a) /\ Told(a))'
  <2>1. a[1] \in Runs /\ a[2] \in 1..ReactLimit /\ a = <<a[1], a[2]>> BY DEF Approvals
  <2>2. CASE a[1] = r BY <2>1, <2>2
  <2>3. CASE a[1] # r
    <3>1. /\ registry'[a] = registry[a] /\ accepted'[a] = accepted[a]
          /\ dispatched'[a] = dispatched[a] /\ recorded'[a] = recorded[a]
          /\ answers'[a] = answers[a] /\ node'[a[1]] = node[a[1]]
          /\ iteration'[a[1]] = iteration[a[1]]
      BY <2>1, <2>3, WorkerFrame DEF IInv
    <3>2. Asked(a) /\ Entered(a) /\ Released(a) /\ Told(a) BY DEF IInv, ApprovalInv
    <3> QED BY <3>1, <3>2 DEF Asked, Entered, Released, Told, Current
  <2> QED BY <2>2, <2>3
<1>2. ASSUME NEW q \in Runs PROVE (Called(q) /\ Announced(q))'
  <2>1. CASE q = r BY <2>1
  <2>2. CASE q # r
    <3>1. /\ node'[q] = node[q] /\ iteration'[q] = iteration[q] /\ guarded'[q] = guarded[q]
          /\ result'[q] = result[q] /\ outcome'[q] = outcome[q] /\ UNCHANGED session
      BY <2>2, WorkerFrame DEF IInv
    <3>2. Called(q) /\ Announced(q) BY DEF IInv, CallInv
    <3>3. CASE node[q] \in Busy
      <4>1. Current(q)' = Current(q) /\ Current(q) \in Approvals /\ Current(q)[1] = q
        BY <3>1, <3>2, <3>3, CurrentType DEF IInv, Called, Current
      <4>2. /\ registry'[Current(q)] = registry[Current(q)]
            /\ accepted'[Current(q)] = accepted[Current(q)]
            /\ dispatched'[Current(q)] = dispatched[Current(q)]
            /\ recorded'[Current(q)] = recorded[Current(q)]
        BY <2>2, <4>1, WorkerFrame DEF IInv
      <4>3. Available(q)' <=> Available(q) BY <3>1 DEF Available
      <4> QED BY <3>1, <3>2, <3>3, <4>1, <4>2, <4>3 DEF Called, Announced
    <3>4. CASE node[q] \notin Busy
      BY <3>1, <3>2, <3>4 DEF Called, Announced, Busy, Nodes
    <3> QED BY <3>3, <3>4
  <2> QED BY <2>1, <2>2
<1> QED BY <1>1, <1>2 DEF ApprovalInv, CallInv

-----------------------------------------------------------------------------
(* The call of the worker *)

\* An entry that is consumed is otherwise the same.
LEMMA ConsumedEntry ==
  ASSUME NEW e \in Entries
  PROVE  LET d == [e EXCEPT !.consumed = TRUE]
         IN  d \in Entries /\ d.resolution = e.resolution /\ d.active = e.active
  BY DEF Entries

\* Each step of a worker keeps what is known of its call.
LEMMA CallStep ==
  ASSUME IInv, NEW r \in Runs, GraphStep(r) \/ ExecutorStep(r) \/ CancelRun(r)
  PROVE  Called(r)' /\ Announced(r)'
<1> USE DEF Goto, Raise, historyVars, workerVars, sshVars, TypeOK, Called, Announced, Current,
            Available, Busy, Nodes, Executed, NotExecuted, Results
<1>1. TypeOK /\ Called(r) /\ Announced(r) BY DEF IInv, CallInv
<1>2. iteration[r] >= 1 => Current(r) \in Approvals BY <1>1, CurrentType
<1>3. CASE ModelEnds(r) BY <1>1, <1>2, <1>3 DEF ModelEnds
<1>4. CASE LimitReached(r) BY <1>1, <1>2, <1>4 DEF LimitReached
<1>5. CASE PrepareTool(r)
  <2> DEFINE c == <<r, iteration[r] + 1>>
  <2>1. /\ iteration[r] + 1 \in 1..ReactLimit /\ iteration'[r] = iteration[r] + 1
        /\ c \in Approvals /\ Current(r)' = c
    BY <1>1, <1>5 DEF PrepareTool, Approvals
  <2>2. accepted[c] = "nothing" /\ dispatched[c] = 0 /\ recorded[c] = "none"
    BY <1>1, <2>1 DEF IInv, ApprovalInv, Asked
  <2>3. /\ guarded'[r] <=> accepted'[c] # "nothing"
        /\ dispatched'[c] = 0 /\ recorded'[c] = "none"
    BY <1>1, <2>1, <2>2, <1>5 DEF PrepareTool
  <2>4. /\ node'[r] \in {"recording", "execute", "requesting"} /\ outcome'[r] = "none"
        /\ node'[r] = "recording" => result'[r] = "refused"
    BY <1>1, <1>5 DEF PrepareTool
  <2> QED BY <2>1, <2>3, <2>4
<1>6. CASE RequestPublished(r) BY <1>1, <1>2, <1>6 DEF RequestPublished
<1>7. CASE DecisionArrives(r) BY <1>1, <1>2, <1>7 DEF DecisionArrives
<1>8. CASE WaitFails(r) BY <1>1, <1>2, <1>8 DEF WaitFails
<1>9. CASE ResolutionPublished(r) BY <1>1, <1>2, <1>9 DEF ResolutionPublished
<1>10. CASE ConsumeAndAnnounce(r)
  <2>1. CASE UNCHANGED registry /\ (node'[r] = "announcing" => ~guarded'[r])
    BY <1>1, <1>2, <1>10, <2>1 DEF ConsumeAndAnnounce
  <2>2. CASE /\ Consumable(registry[Current(r)]) /\ node'[r] = "announcing"
             /\ registry' = [registry EXCEPT ![Current(r)].consumed = TRUE]
    <3>1. Current(r) \in Approvals /\ Current(r)' = Current(r) /\ registry[Current(r)] \in Entries
      BY <1>1, <1>2, <1>10, <2>2 DEF ConsumeAndAnnounce, Consumable
    <3>2. /\ registry'[Current(r)] \in Entries
          /\ registry'[Current(r)].resolution = "APPROVED" /\ registry'[Current(r)].active
      BY <2>2, <3>1, ConsumedEntry DEF Consumable
    <3>3. registry'[Current(r)] # NoEntry BY <3>2, EntryType
    <3>4. Announced(r)' BY <3>1, <3>2, <3>3
    <3> QED BY <1>1, <1>10, <2>2, <3>1, <3>4, SMTT(60) DEF ConsumeAndAnnounce
  <2> QED BY <1>1, <1>10, <2>1, <2>2 DEF ConsumeAndAnnounce
<1>11. CASE CancelObserved(r) BY <1>1, <1>2, <1>11 DEF CancelObserved
<1>12. CASE PublishFails(r) BY <1>1, <1>2, <1>12 DEF PublishFails
<1>13. CASE Record(r) BY <1>1, <1>2, <1>13 DEF Record
<1>14. CASE TaskCancelled(r) BY <1>1, <1>2, <1>14 DEF TaskCancelled
<1>15. CASE GraphExits(r) BY <1>1, <1>2, <1>15 DEF GraphExits
<1>16. CASE Dispatch(r) BY <1>1, <1>2, <1>16 DEF Dispatch
<1>17. CASE ProcessCreated(r) BY <1>1, <1>2, <1>17 DEF ProcessCreated
<1>18. CASE CreateFails(r) BY <1>1, <1>2, <1>18 DEF CreateFails
<1>19. CASE CommandCompletes(r) BY <1>1, <1>2, <1>19 DEF CommandCompletes
<1>20. CASE CommandInterrupted(r) BY <1>1, <1>2, <1>20 DEF CommandInterrupted
<1>21. CASE CloseConfirmed(r) BY <1>1, <1>2, <1>21 DEF CloseConfirmed, AfterClosing
<1>22. CASE CloseFails(r) BY <1>1, <1>2, <1>22 DEF CloseFails
<1>23. CASE CancelRun(r) BY <1>1, <1>2, <1>23, SMTT(60) DEF CancelRun
<1> QED BY <1>3, <1>4, <1>5, <1>6, <1>7, <1>8, <1>9, <1>10, <1>11, <1>12, <1>13, <1>14, <1>15,
           <1>16, <1>17, <1>18, <1>19, <1>20, <1>21, <1>22, <1>23
        DEF GraphStep, ExecutorStep

-----------------------------------------------------------------------------
(* The approvals of the worker *)

\* Each step of a worker keeps what is known of its approvals.
LEMMA ApprovalStep ==
  ASSUME IInv, NEW r \in Runs, GraphStep(r) \/ ExecutorStep(r) \/ CancelRun(r),
         NEW n \in 1..ReactLimit
  PROVE  Asked(<<r, n>>)' /\ Entered(<<r, n>>)' /\ Released(<<r, n>>)' /\ Told(<<r, n>>)'
<1> DEFINE a == <<r, n>>
<1>0. a \in Approvals /\ Asked(a) /\ Entered(a) /\ Released(a) /\ Told(a)
  BY DEF IInv, ApprovalInv, Approvals
<1> USE DEF Goto, Raise, historyVars, workerVars, sshVars, TypeOK, Called, Asked, Entered,
            Released, Told, Current, Busy, Nodes, Executed, NotExecuted, Results
<1>1. TypeOK /\ Called(r) /\ Announced(r) BY DEF IInv, CallInv
<1>2. iteration[r] >= 1 => Current(r) \in Approvals BY <1>1, CurrentType
<1>3. CASE ModelEnds(r) BY <1>0, <1>1, <1>2, <1>3, SMTT(60) DEF ModelEnds
<1>4. CASE LimitReached(r) BY <1>0, <1>1, <1>2, <1>4 DEF LimitReached
<1>5. CASE PrepareTool(r)
  <2> DEFINE c == <<r, iteration[r] + 1>>
  <2>1. /\ iteration[r] + 1 \in 1..ReactLimit /\ iteration'[r] = iteration[r] + 1
        /\ c \in Approvals /\ Current(r)' = c
    BY <1>1, <1>5 DEF PrepareTool, Approvals
  <2>2. accepted[c] = "nothing" /\ dispatched[c] = 0 /\ recorded[c] = "none" /\ answers[c] = {}
    BY <1>1, <2>1, SMTT(60) DEF IInv, ApprovalInv, Asked
  <2>3. UNCHANGED <<dispatched, recorded, answers>> BY <1>5 DEF PrepareTool
  <2>4. registry[a].resolution # "none" BY <1>0, <1>5 DEF PrepareTool
  <2>5. CASE a # c \/ UNCHANGED <<registry, accepted>>
    <3>1. registry'[a] = registry[a] /\ accepted'[a] = accepted[a]
      BY <1>0, <1>1, <2>1, <2>5, <1>5 DEF PrepareTool
    <3>2. a[2] > iteration'[r] => a[2] > iteration[r] BY <1>1, <2>1
    <3>3. node'[r] # "ended" BY <1>1, <1>5 DEF PrepareTool
    <3> QED BY <1>0, <2>3, <2>4, <3>1, <3>2, <3>3
  <2>6. CASE /\ a = c /\ node'[r] = "requesting"
             /\ registry'[c] = Pending /\ accepted'[c] = "asked"
    <3>1. Pending.resolution = "none" /\ Pending \in Entries BY DEF Pending, Entries
    <3>2. Current(r)' = a /\ ~(a[2] > iteration'[r]) BY <1>1, <2>1, <2>6
    <3> HIDE DEF Current
    <3> QED BY <2>2, <2>3, <2>6, <3>1, <3>2
  <2> QED BY <1>1, <2>1, <2>5, <2>6, <1>5, SMTT(60) DEF PrepareTool
<1>6. CASE RequestPublished(r) BY <1>0, <1>1, <1>2, <1>6, SMTT(60) DEF RequestPublished
<1>7. CASE DecisionArrives(r) BY <1>0, <1>1, <1>2, <1>7, SMTT(60) DEF DecisionArrives
<1>8. CASE WaitFails(r)
  <2>1. registry'[a] = Invalidated(registry[a]) BY <1>0, <1>8 DEF WaitFails, InvalidateRun
  <2>2. registry[a] \in Entries \cup {NoEntry} BY <1>0, <1>1
  <2>3. registry'[a].resolution # "none" BY <2>1, <2>2, EntryType
  <2>4. UNCHANGED <<accepted, dispatched, recorded, answers, iteration>> BY <1>8 DEF WaitFails
  <2>5. node'[r] = "raising" BY <1>1, <1>8 DEF WaitFails
  <2> QED BY <1>0, <2>1, <2>2, <2>3, <2>4, <2>5, EntryType
<1>9. CASE ResolutionPublished(r) BY <1>0, <1>1, <1>2, <1>9 DEF ResolutionPublished
<1>10. CASE ConsumeAndAnnounce(r)
  <2>1. UNCHANGED <<accepted, dispatched, recorded, answers, iteration>>
    BY <1>10 DEF ConsumeAndAnnounce
  <2>2. node'[r] \in {"announcing", "raising"} BY <1>1, <1>10 DEF ConsumeAndAnnounce
  <2>3. registry[a].resolution # "none" BY <1>0, <1>10 DEF ConsumeAndAnnounce
  <2>4. CASE registry'[a] = registry[a] BY <1>0, <2>1, <2>2, <2>3, <2>4
  <2>5. CASE registry[a] # NoEntry /\ registry'[a] = [registry[a] EXCEPT !.consumed = TRUE]
    <3>1. registry[a] \in Entries BY <1>0, <1>1, <2>5
    <3>2. /\ registry'[a] # NoEntry /\ registry'[a].resolution = registry[a].resolution
          /\ registry'[a].active = registry[a].active
      BY <2>5, <3>1, ConsumedEntry, EntryType, ZenonT(60)
    <3> QED BY <1>0, <2>1, <2>2, <2>3, <2>5, <3>2
  <2>6. \/ UNCHANGED registry
        \/ /\ registry[Current(r)] # NoEntry
           /\ registry' = [registry EXCEPT ![Current(r)].consumed = TRUE]
    BY <1>10 DEF ConsumeAndAnnounce, Consumable
  <2>7. registry \in [Approvals -> Entries \cup {NoEntry}] BY <1>1
  <2> HIDE DEF Current, TypeOK
  <2>8. CASE a = Current(r) BY <1>0, <2>4, <2>5, <2>6, <2>7, <2>8
  <2>9. CASE a # Current(r) BY <1>0, <2>4, <2>6, <2>7, <2>9
  <2> QED BY <2>8, <2>9
<1>11. CASE CancelObserved(r) BY <1>0, <1>1, <1>2, <1>11, SMTT(60) DEF CancelObserved
<1>12. CASE PublishFails(r) BY <1>0, <1>1, <1>2, <1>12 DEF PublishFails
<1>13. CASE Record(r) BY <1>0, <1>1, <1>2, <1>13, SMTT(60) DEF Record
<1>14. CASE TaskCancelled(r) BY <1>0, <1>1, <1>2, <1>14 DEF TaskCancelled
<1>15. CASE GraphExits(r)
  <2>1. registry'[a] = NoEntry BY <1>0, <1>15 DEF GraphExits, ReleaseRun
  <2>2. NoEntry.resolution = "absent" BY EntryType
  <2> QED BY <1>0, <1>1, <2>1, <2>2, <1>15 DEF GraphExits
<1>16. CASE Dispatch(r)
  <2>1. UNCHANGED <<registry, accepted, recorded, answers, iteration>> BY <1>16 DEF Dispatch
  <2>2. node'[r] \in {"recording", "creating"} BY <1>1, <1>16 DEF Dispatch
  <2>3. registry[a].resolution # "none" BY <1>0, <1>16 DEF Dispatch
  <2>4. CASE dispatched'[a] = dispatched[a] BY <1>0, <2>1, <2>2, <2>3, <2>4
  <2>5. CASE a = Current(r)
    <3>1. dispatched[a] = 0 /\ recorded[a] = "none" BY <1>1, <2>5, <1>16 DEF Dispatch
    <3>2. registry[a].resolution # "REJECTED"
      <4>1. CASE guarded[r] BY <1>1, <2>5, <4>1, <1>16 DEF Dispatch, Announced
      <4>2. CASE ~guarded[r]
        <5>1. registry[a] = NoEntry BY <1>0, <1>1, <2>5, <4>2, <1>16 DEF Dispatch
        <5> QED BY <5>1, EntryType
      <4> QED BY <4>1, <4>2
    <3>3. dispatched'[a] \in {0, 1} BY <1>0, <1>1, <2>5, <3>1, <1>16 DEF Dispatch
    <3>4. ~(a[2] > iteration'[r]) BY <1>1, <2>1, <2>5
    <3> QED BY <1>0, <2>1, <2>2, <2>3, <3>1, <3>2, <3>3, <3>4
  <2> QED BY <1>0, <1>1, <2>4, <2>5, <1>16, SMTT(60) DEF Dispatch
<1>17. CASE ProcessCreated(r) BY <1>0, <1>1, <1>2, <1>17, SMTT(60) DEF ProcessCreated
<1>18. CASE CreateFails(r) BY <1>0, <1>1, <1>2, <1>18 DEF CreateFails
<1>19. CASE CommandCompletes(r) BY <1>0, <1>1, <1>2, <1>19 DEF CommandCompletes
<1>20. CASE CommandInterrupted(r) BY <1>0, <1>1, <1>2, <1>20, SMTT(60) DEF CommandInterrupted
<1>21. CASE CloseConfirmed(r) BY <1>0, <1>1, <1>2, <1>21, SMTT(60) DEF CloseConfirmed, AfterClosing
<1>22. CASE CloseFails(r) BY <1>0, <1>1, <1>2, <1>22, SMTT(60) DEF CloseFails
<1>23. CASE CancelRun(r) BY <1>0, <1>1, <1>2, <1>23 DEF CancelRun
<1> QED BY <1>3, <1>4, <1>5, <1>6, <1>7, <1>8, <1>9, <1>10, <1>11, <1>12, <1>13, <1>14, <1>15,
           <1>16, <1>17, <1>18, <1>19, <1>20, <1>21, <1>22, <1>23
        DEF GraphStep, ExecutorStep

-----------------------------------------------------------------------------
(* Decisions and sessions *)

\* An entry after a decision that was accepted.
LEMMA DecidedEntry ==
  ASSUME NEW e \in Entries, NEW status \in {"APPROVED", "REJECTED"}
  PROVE  LET d == [e EXCEPT !.resolution = status]
         IN  d \in Entries /\ d # NoEntry /\ d.resolution = status /\ d.active = e.active
<1>1. LET d == [e EXCEPT !.resolution = status]
      IN  d \in Entries /\ d.resolution = status /\ d.active = e.active
  BY DEF Entries
<1> QED BY <1>1, EntryType

\* What a decision does: it is refused, or is recorded while the session is
\* there, or is recorded and withdrawn at once.
Refused(a) ==
  /\ UNCHANGED <<registry, accepted>>
  /\ \E answer \in {"NOT_FOUND", "CONFLICT", "INACTIVE"} :
       /\ answers'[a] = answers[a] \cup {answer}
       /\ answer = "NOT_FOUND" => registry[a] = NoEntry
       /\ answer = "INACTIVE" => registry[a] # NoEntry /\ ~registry[a].active

Recorded(a, status) ==
  /\ registry[a] \in Entries /\ registry[a].active
  /\ registry[a].resolution \in {"none", status}
  /\ accepted'[a] = status
  /\ \/ /\ Available(a[1])
        /\ answers'[a] = answers[a] \cup {status}
        /\ registry'[a] = [registry[a] EXCEPT !.resolution = status]
        /\ \A b \in Approvals : b # a => registry'[b] = registry[b]
     \/ /\ ~Available(a[1])
        /\ answers'[a] = answers[a] \cup {"INACTIVE"}
        /\ registry'[a] = Invalidated([registry[a] EXCEPT !.resolution = status])
        /\ \A b \in Approvals :
             b # a => registry'[b] = IF b[1] = a[1] THEN Invalidated(registry[b])
                                     ELSE registry[b]

\* Every decision is one of the two, and tells nobody of other approvals.
LEMMA DecideCases ==
  ASSUME TypeOK, NEW a \in Approvals, NEW matches \in BOOLEAN,
         NEW status \in {"APPROVED", "REJECTED"}, Decide(a, status, matches)
  PROVE  /\ UNCHANGED <<workerVars, sshVars, dispatched, recorded>>
         /\ accepted[a] # "nothing"
         /\ \A b \in Approvals : b # a => answers'[b] = answers[b] /\ accepted'[b] = accepted[b]
         /\ Refused(a) \/ Recorded(a, status)
<1> USE DEF Refused, Recorded
<1>1. answers \in [Approvals -> SUBSET {"APPROVED", "REJECTED", "INACTIVE", "CONFLICT",
                                        "NOT_FOUND"}]
      /\ registry \in [Approvals -> Entries \cup {NoEntry}]
      /\ accepted \in [Approvals -> {"nothing", "asked", "APPROVED", "REJECTED"}]
  BY DEF TypeOK
<1> DEFINE entry == registry[a]
<1>2. /\ UNCHANGED <<workerVars, sshVars, dispatched, recorded>> /\ accepted[a] # "nothing"
  BY DEF Decide
<1>3. CASE entry = NoEntry BY <1>1, <1>2, <1>3 DEF Decide, Answer
<1>4. CASE entry # NoEntry /\ (~matches \/ ~entry.active \/ entry.resolution \notin {"none", status})
  BY <1>1, <1>2, <1>4 DEF Decide, Answer
<1>5. CASE /\ entry # NoEntry /\ matches /\ entry.active
           /\ entry.resolution \in {"none", status} /\ Available(a[1])
  BY <1>1, <1>2, <1>5 DEF Decide, Answer
<1>6. CASE /\ entry # NoEntry /\ matches /\ entry.active
           /\ entry.resolution \in {"none", status} /\ ~Available(a[1])
  BY <1>1, <1>2, <1>6 DEF Decide, Answer
<1> QED BY <1>3, <1>4, <1>5, <1>6

\* A decision keeps the invariants of approvals and calls.
LEMMA DecideStep ==
  ASSUME IInv, NEW a \in Approvals, NEW matches \in BOOLEAN,
         NEW status \in {"APPROVED", "REJECTED"}, Decide(a, status, matches)
  PROVE  ApprovalInv' /\ CallInv'
<1>1. TypeOK /\ registry \in [Approvals -> Entries \cup {NoEntry}] BY DEF IInv, TypeOK
<1>2. UNCHANGED <<workerVars, sshVars, dispatched, recorded>> /\ accepted[a] # "nothing"
  BY <1>1, DecideCases
<1>3. Refused(a) \/ Recorded(a, status)
  BY <1>1, DecideCases
<1>4. \A b \in Approvals : b # a => answers'[b] = answers[b] /\ accepted'[b] = accepted[b]
  BY <1>1, DecideCases
<1>5. \A b \in Approvals : (accepted'[b] = "nothing") <=> (accepted[b] = "nothing")
  BY <1>2, <1>3, <1>4 DEF Refused, Recorded
\* An entry changes at most its resolution, from none to the decision or to
\* INVALIDATED, and is only made inactive where the session is gone.
<1>6. ASSUME NEW b \in Approvals
      PROVE  /\ registry'[b] = NoEntry <=> registry[b] = NoEntry
             /\ registry'[b].resolution = "none" => registry[b].resolution = "none"
             /\ registry'[b].resolution = "APPROVED" \/ registry[b].resolution # "APPROVED"
             /\ registry'[b].resolution = "REJECTED" =>
                  registry[b].resolution \in {"none", "REJECTED"}
             /\ registry[b] # NoEntry /\ registry[b].active /\ Available(b[1])
                  => registry'[b].active
  <2>1. registry[b] \in Entries \cup {NoEntry} BY <1>1
  <2>2. CASE registry'[b] = registry[b] BY <2>2
  <2>3. CASE registry'[b] = Invalidated(registry[b]) /\ ~Available(b[1])
    BY <2>1, <2>3, EntryType
  <2>4. CASE b = a /\ registry[a] \in Entries /\ registry[a].resolution \in {"none", status}
             /\ registry'[a] = [registry[a] EXCEPT !.resolution = status]
    BY <2>4, DecidedEntry, EntryType
  <2>5. CASE b = a /\ registry[a] \in Entries /\ registry[a].resolution \in {"none", status}
             /\ registry'[a] = Invalidated([registry[a] EXCEPT !.resolution = status])
             /\ ~Available(b[1])
    <3> DEFINE d == [registry[a] EXCEPT !.resolution = status]
    <3>0. registry[a] \in Entries BY <2>5
    <3>1. d \in Entries /\ d # NoEntry /\ d.resolution = status BY <3>0, DecidedEntry
    <3> HIDE DEF d
    <3>2. registry'[a] # NoEntry /\ registry'[a].resolution = status
      BY <2>5, <3>1, EntryType DEF d
    <3> QED BY <2>5, <3>2, EntryType
  <2> QED BY <1>3, <2>2, <2>3, <2>4, <2>5 DEF Refused, Recorded
<1>7. ASSUME NEW b \in Approvals
      PROVE  (Asked(b) /\ Entered(b) /\ Released(b) /\ Told(b))'
  <2>1. Asked(b) /\ Entered(b) /\ Released(b) /\ Told(b) BY DEF IInv, ApprovalInv
  <2>2. Asked(b)'
    BY <1>2, <1>5, <1>6, <1>4, <2>1 DEF Asked, workerVars
  <2>3. Entered(b)'
    <3>1. registry'[b].resolution \in {"none", "REJECTED"} => dispatched'[b] = 0
      BY <1>2, <1>6, <2>1 DEF Entered
    <3>2. CASE b # a
      <4>1. answers'[b] = answers[b] BY <1>4, <3>2
      <4>2. registry'[b] = registry[b] \/ registry'[b] = Invalidated(registry[b])
        BY <1>3, <3>2 DEF Refused, Recorded
      <4> QED BY <1>1, <2>1, <3>1, <4>1, <4>2, EntryType DEF Entered
    <3>3. CASE b = a
      <4>1. CASE registry'[a] = registry[a] /\ answers'[a] \ answers[a] \subseteq
                   {"NOT_FOUND", "CONFLICT", "INACTIVE"} /\ answers[a] \subseteq answers'[a]
        BY <2>1, <3>1, <3>3, <4>1 DEF Entered
      <4>2. CASE /\ registry[a] \in Entries /\ registry[a].resolution \in {"none", status}
                 /\ answers'[a] = answers[a] \cup {status}
                 /\ registry'[a] = [registry[a] EXCEPT !.resolution = status]
        BY <2>1, <3>1, <3>3, <4>2, DecidedEntry, EntryType DEF Entered
      <4>3. CASE /\ registry[a] \in Entries /\ registry[a].resolution \in {"none", status}
                 /\ answers'[a] = answers[a] \cup {"INACTIVE"}
                 /\ registry'[a] = Invalidated([registry[a] EXCEPT !.resolution = status])
        <5> DEFINE d == [registry[a] EXCEPT !.resolution = status]
        <5>1. d \in Entries /\ d # NoEntry /\ d.resolution = status BY <4>3, DecidedEntry, ZenonT(60)
        <5> HIDE DEF d
        <5>2. registry'[a] # NoEntry /\ registry'[a].resolution = status /\ ~registry'[a].active
          BY <4>3, <5>1, EntryType DEF d
        <5>3. registry[a] # NoEntry BY <4>3, EntryType
        <5> QED BY <2>1, <3>1, <3>3, <4>3, <5>2, <5>3 DEF Entered
      <4> QED BY <1>3, <4>1, <4>2, <4>3 DEF Refused, Recorded
    <3> QED BY <3>2, <3>3
  <2>4. Released(b)' BY <1>2, <1>6, <2>1 DEF Released, workerVars, Current
  <2>5. Told(b)' BY <1>2, <2>1 DEF Told
  <2> QED BY <2>2, <2>3, <2>4, <2>5
<1>8. ASSUME NEW r \in Runs PROVE (Called(r) /\ Announced(r))'
  <2>1. Called(r) /\ Announced(r) BY DEF IInv, CallInv
  <2>2. node[r] \in Busy => Current(r) \in Approvals
    BY <1>1, <2>1, CurrentType DEF Called
  <2>3. Called(r)'
    BY <1>2, <1>5, <2>1, <2>2 DEF Called, workerVars, Current
  <2>4. Announced(r)'
    <3>1. SUFFICES ASSUME node[r] = "announcing", guarded[r] PROVE Announced(r)'
      BY <1>2 DEF Announced, workerVars
    <3>2. Current(r) \in Approvals /\ Current(r)' = Current(r) /\ Current(r)[1] = r
      BY <1>2, <2>2, <3>1 DEF Busy, Nodes, Current, workerVars
    <3>3. Available(r)' <=> Available(r) BY <1>2 DEF Available, sshVars
    <3> QED BY <1>6, <2>1, <3>1, <3>2, <3>3 DEF Announced
  <2> QED BY <2>3, <2>4
<1> QED BY <1>7, <1>8 DEF ApprovalInv, CallInv

\* A session only ever becomes less available.
LEMMA SessionKeeps ==
  ASSUME IInv, NEW s \in Sessions, SessionStep(s)
  PROVE  ApprovalInv' /\ CallInv'
<1>1. /\ UNCHANGED <<workerVars, historyVars, registry>>
      /\ \A r \in Runs : Available(r)' => Available(r)
  BY DEF IInv, TypeOK, SessionStep, TransportLost, BeginClose, EndClose, Available
<1>2. ApprovalInv'
  BY <1>1 DEF IInv, ApprovalInv, Asked, Entered, Released, Told, Current, workerVars, historyVars
<1>3. CallInv'
  BY <1>1 DEF IInv, CallInv, Called, Announced, Current, workerVars, historyVars
<1> QED BY <1>2, <1>3

\* An open process stays registered with its session.
LEMMA OwnedStep ==
  ASSUME TypeOK, OpenProcessIsOwned, [Next]_vars
  PROVE  OpenProcessIsOwned'
<1> USE DEF OpenProcessIsOwned, TypeOK, sshVars
<1>1. ASSUME NEW r \in Runs, GraphStep(r) PROVE OpenProcessIsOwned'
  <2>1. CASE Record(r) BY <2>1 DEF Record
  <2>2. CASE ~Record(r)
    <3>1. UNCHANGED <<children, process>>
      BY <1>1, <2>2 DEF GraphStep, ModelEnds, LimitReached, PrepareTool, RequestPublished,
         DecisionArrives, WaitFails, ResolutionPublished, ConsumeAndAnnounce, CancelObserved,
         PublishFails, TaskCancelled, GraphExits
    <3> QED BY <3>1
  <2> QED BY <2>1, <2>2
<1>2. ASSUME NEW r \in Runs, ExecutorStep(r) PROVE OpenProcessIsOwned'
  BY <1>2 DEF ExecutorStep, Dispatch, ProcessCreated, CreateFails, CommandCompletes,
     CommandInterrupted, CloseConfirmed, CloseFails
<1>3. ASSUME NEW r \in Runs, CancelRun(r) PROVE OpenProcessIsOwned'
  BY <1>3 DEF CancelRun
<1>4. ASSUME NEW a \in Approvals, NEW matches \in BOOLEAN, NEW status \in {"APPROVED", "REJECTED"},
             Decide(a, status, matches)
      PROVE  OpenProcessIsOwned'
  BY <1>4 DEF Decide
<1>5. ASSUME NEW s \in Sessions, SessionStep(s) PROVE OpenProcessIsOwned'
  BY <1>5 DEF SessionStep, TransportLost, BeginClose, EndClose
<1>6. CASE UNCHANGED vars BY <1>6 DEF vars
<1> QED BY <1>1, <1>2, <1>3, <1>4, <1>5, <1>6 DEF Next

-----------------------------------------------------------------------------
(* The invariant *)

\* The initial states satisfy it.
LEMMA InitInv ==
  ASSUME Init
  PROVE  IInv
<1>1. TypeOK BY DEF Init, TypeOK, Nodes
<1>2. NoEntry.resolution = "absent" BY EntryType
<1>3. ApprovalInv
  BY <1>2 DEF Init, ApprovalInv, Asked, Entered, Released, Told, Approvals
<1>4. CallInv BY DEF Init, CallInv, Called, Announced, Busy, Nodes
<1>5. OpenProcessIsOwned BY DEF Init, OpenProcessIsOwned
<1> QED BY <1>1, <1>3, <1>4, <1>5 DEF IInv

\* Every step preserves it.
LEMMA NextInv ==
  ASSUME IInv, [Next]_vars
  PROVE  IInv'
<1>1. TypeOK' BY TypeStep DEF IInv
<1>2. OpenProcessIsOwned' BY OwnedStep DEF IInv
<1>3. ApprovalInv' /\ CallInv'
  <2>1. ASSUME NEW r \in Runs, GraphStep(r) \/ ExecutorStep(r) \/ CancelRun(r)
        PROVE  ApprovalInv' /\ CallInv'
    <3>1. Called(r)' /\ Announced(r)' BY <2>1, CallStep
    <3>2. \A n \in 1..ReactLimit :
            Asked(<<r, n>>)' /\ Entered(<<r, n>>)' /\ Released(<<r, n>>)' /\ Told(<<r, n>>)'
      BY <2>1, ApprovalStep
    <3> QED BY <1>1, <2>1, <3>1, <3>2, WorkerSuffices
  <2>2. ASSUME NEW a \in Approvals, NEW matches \in BOOLEAN,
               NEW status \in {"APPROVED", "REJECTED"}, Decide(a, status, matches)
        PROVE  ApprovalInv' /\ CallInv'
    BY <2>2, DecideStep
  <2>3. ASSUME NEW s \in Sessions, SessionStep(s) PROVE ApprovalInv' /\ CallInv'
    BY <2>3, SessionKeeps
  <2>4. CASE UNCHANGED vars
    BY <2>4 DEF vars, workerVars, sshVars, historyVars, IInv, ApprovalInv, CallInv, Asked, Entered,
       Released, Told, Called, Announced, Current, Available
  <2> QED BY <2>1, <2>2, <2>3, <2>4 DEF Next
<1> QED BY <1>1, <1>2, <1>3 DEF IInv

\* Every reachable state satisfies the inductive invariant.
THEOREM ApprovalInvariance == Spec => []IInv
<1>1. Init => IInv BY InitInv
<1>2. IInv /\ [Next]_vars => IInv' BY NextInv
<1> QED BY <1>1, <1>2, PTL DEF Spec

\* Workers, entries, sessions and processes are well typed.
THEOREM ApprovalTyped == Spec => []TypeOK
<1>1. IInv => TypeOK BY DEF IInv
<1> QED BY <1>1, ApprovalInvariance, PTL

\* No command is dispatched twice (SshCommandExecutor.execute).
THEOREM EveryCommandRunsOnce == Spec => []CommandRunsOnce
<1>1. IInv => CommandRunsOnce BY DEF IInv, ApprovalInv, Told, CommandRunsOnce
<1> QED BY <1>1, ApprovalInvariance, PTL

\* What the model is told of a command is true (record_tool_result).
THEOREM EveryToolMessageIsTrue == Spec => []ToolMessageIsTrue
<1>1. IInv => ToolMessageIsTrue BY DEF IInv, ApprovalInv, Told, ToolMessageIsTrue
<1> QED BY <1>1, ApprovalInvariance, PTL

\* A call is executed once at most, and the model knows whether it was.
THEOREM EveryCallHistoryIsTrue == Spec => []CallHistoryIsTrue
<1>1. CommandRunsOnce /\ ToolMessageIsTrue => CallHistoryIsTrue BY DEF CallHistoryIsTrue
<1> QED BY <1>1, EveryCommandRunsOnce, EveryToolMessageIsTrue, PTL

\* No authority and no process outlives its Run (release_run, execute).
THEOREM NothingIsEverLeftBehind == Spec => []NothingIsLeftBehind
<1>1. IInv => NothingIsLeftBehind
  BY DEF IInv, ApprovalInv, Released, AuthorityReleased, NothingIsLeftBehind
<1> QED BY <1>1, ApprovalInvariance, PTL

-----------------------------------------------------------------------------
(* The promise *)

\* What changes neither the entry, as far as it matters, nor what else the
\* authority of an approval depends on does not change its authority.
LEMMA SameAuthority ==
  ASSUME NEW a \in Approvals, accepted'[a] = "nothing" <=> accepted[a] = "nothing",
         dispatched'[a] = dispatched[a], answers'[a] = answers[a],
         \/ registry'[a] = registry[a]
         \/ /\ registry[a] # NoEntry /\ registry'[a] # NoEntry
            /\ registry'[a].active = registry[a].active
            /\ registry'[a].resolution = registry[a].resolution
  PROVE  Authority(a)' = Authority(a)
  BY DEF Authority

\* A step that changes no authority and no answer is a stutter of the promise.
LEMMA Stutters ==
  ASSUME UNCHANGED answers, \A a \in Approvals : Authority(a)' = Authority(a)
  PROVE  UNCHANGED Promise!vars
  BY DEF Promise!vars

\* So is one that leaves the registry, decisions and dispatches alone.
LEMMA QuietStutters ==
  ASSUME UNCHANGED <<registry, accepted, dispatched, answers>>
  PROVE  UNCHANGED Promise!vars
<1>1. \A a \in Approvals : Authority(a)' = Authority(a) BY SameAuthority
<1> QED BY <1>1, Stutters

\* An entry that goes or is made inactive takes the authority that was not used.
LEMMA Withdrawn ==
  ASSUME NEW a \in Approvals, accepted'[a] = "nothing" <=> accepted[a] = "nothing",
         dispatched'[a] = dispatched[a],
         "REJECTED" \in answers'[a] <=> "REJECTED" \in answers[a],
         registry'[a] = NoEntry \/ ~registry'[a].active
  PROVE  /\ Authority(a)' = IF Authority(a) \in {"pending", "approved"} THEN "void"
                            ELSE Authority(a)
         /\ accepted[a] # "nothing" => Authority(a)' \in {"rejected", "void", "executed"}
  BY DEF Authority

\* InvalidateRun and ReleaseRun withdraw what is left of the Run's authority.
LEMMA WithdrawRefines ==
  ASSUME TypeOK, NEW r \in Runs, InvalidateRun(r) \/ ReleaseRun(r),
         UNCHANGED <<accepted, dispatched, answers>>
  PROVE  Promise!Next
<1> DEFINE A == {a \in Approvals : a[1] = r}
<1>1. ASSUME NEW a \in Approvals
      PROVE  Authority(a)' = IF a \in A /\ Authority(a) \in {"pending", "approved"} THEN "void"
                             ELSE Authority(a)
  <2>1. registry[a] \in Entries \cup {NoEntry} BY DEF TypeOK
  <2>2. CASE a \in A
    <3>1. registry'[a] = NoEntry \/ ~registry'[a].active
      BY <2>1, <2>2, EntryType DEF InvalidateRun, ReleaseRun
    <3> QED BY <2>2, <3>1, Withdrawn
  <2>3. CASE a \notin A
    <3>1. registry'[a] = registry[a] BY <2>3 DEF InvalidateRun, ReleaseRun
    <3> QED BY <2>3, <3>1, SameAuthority
  <2> QED BY <2>2, <2>3
<1>2. Promise!Withdraw(A) BY <1>1 DEF Promise!Withdraw
<1> QED BY <1>2 DEF Promise!Next

\* To register an approval is to ask for it; other calls say nothing of it.
LEMMA AskRefines ==
  ASSUME IInv, NEW r \in Runs, PrepareTool(r)
  PROVE  [Promise!Next]_Promise!vars
<1>0. <<r, iteration[r] + 1>> \in Approvals BY DEF IInv, TypeOK, PrepareTool, Approvals
<1> PICK c \in Approvals : c = <<r, iteration[r] + 1>> BY <1>0
<1>1. TypeOK /\ c[1] = r /\ c[2] = iteration[r] + 1 BY DEF IInv
<1>2. UNCHANGED <<answers, dispatched>> BY DEF PrepareTool
<1>3. CASE UNCHANGED <<registry, accepted>> BY <1>2, <1>3, QuietStutters
<1>4. CASE /\ registry' = [registry EXCEPT ![c] = Pending]
           /\ accepted' = [accepted EXCEPT ![c] = "asked"]
  <2>1. accepted[c] = "nothing" /\ dispatched[c] = 0 /\ answers[c] = {}
    BY <1>1, SMTT(60) DEF IInv, ApprovalInv, Asked, TypeOK
  <2>2. Authority(c) = "none" BY <2>1 DEF Authority
  <2>3. Pending \in Entries /\ Pending.resolution = "none" /\ Pending.active
    BY DEF Pending, Entries
  <2>4. registry'[c] = Pending /\ accepted'[c] = "asked" BY <1>1, <1>4 DEF TypeOK
  <2>5. Authority(c)' = "pending" BY <1>2, <2>1, <2>3, <2>4, EntryType DEF Authority
  <2>6. ASSUME NEW a \in Approvals, a # c PROVE Authority(a)' = Authority(a)
    BY <1>1, <1>2, <1>4, <2>6, SameAuthority DEF TypeOK
  <2>7. Promise!Ask(c) BY <1>1, <1>2, <2>2, <2>5, <2>6 DEF Promise!Ask
  <2> QED BY <1>1, <2>7 DEF Promise!Next
<1> QED BY <1>3, <1>4 DEF PrepareTool

\* To consume an approval is no step of the promise: to dispatch is.
LEMMA ConsumeRefines ==
  ASSUME IInv, NEW r \in Runs, ConsumeAndAnnounce(r)
  PROVE  UNCHANGED Promise!vars
<1>1. registry \in [Approvals -> Entries \cup {NoEntry}] BY DEF IInv, TypeOK
<1>2. UNCHANGED <<accepted, dispatched, answers>> BY DEF ConsumeAndAnnounce, historyVars
<1>3. CASE UNCHANGED registry BY <1>2, <1>3, QuietStutters
<1>4. CASE /\ registry[Current(r)] # NoEntry
           /\ registry' = [registry EXCEPT ![Current(r)].consumed = TRUE]
  <2>1. ASSUME NEW a \in Approvals PROVE Authority(a)' = Authority(a)
    <3>1. CASE a # Current(r) BY <1>1, <1>2, <1>4, <3>1, SameAuthority
    <3>2. CASE a = Current(r)
      <4>1. registry[a] \in Entries /\ registry'[a] = [registry[a] EXCEPT !.consumed = TRUE]
        BY <1>1, <1>4, <3>2
      <4>2. /\ registry'[a] \in Entries /\ registry'[a].resolution = registry[a].resolution
            /\ registry'[a].active = registry[a].active
        BY <4>1, ConsumedEntry
      <4>3. registry[a] # NoEntry /\ registry'[a] # NoEntry BY <4>1, <4>2, EntryType DEF Entries
      <4> QED BY <1>2, <4>2, <4>3, SameAuthority
    <3> QED BY <3>1, <3>2
  <2> QED BY <1>2, <2>1, Stutters
<1> QED BY <1>3, <1>4 DEF ConsumeAndAnnounce, Consumable

\* A command that needs an approval is dispatched under that one, which is
\* approved and active.
LEMMA DispatchRefines ==
  ASSUME IInv, NEW r \in Runs, Dispatch(r)
  PROVE  [Promise!Next]_Promise!vars
<1>1. TypeOK /\ Called(r) /\ Announced(r) BY DEF IInv, CallInv
<1>0. Current(r) \in Approvals BY <1>1, CurrentType DEF Dispatch, Called, Busy, Nodes
<1> PICK c \in Approvals : c = Current(r) BY <1>0
<1>2. UNCHANGED <<registry, accepted, answers>> BY DEF Dispatch
<1>3. CASE UNCHANGED dispatched BY <1>2, <1>3, QuietStutters
<1>4. CASE Available(r) /\ dispatched' = [dispatched EXCEPT ![c] = @ + 1]
  <2>1. /\ c \in Approvals /\ dispatched[c] = 0
        /\ guarded[r] <=> accepted[c] # "nothing"
    BY <1>1, CurrentType DEF Dispatch, Called, Busy, Nodes
  <2>2. \A a \in Approvals : a # c => dispatched'[a] = dispatched[a] BY <1>1, <1>4 DEF TypeOK
  <2>3. \A a \in Approvals : a # c => Authority(a)' = Authority(a)
    BY <1>2, <2>2, SameAuthority
  <2>4. dispatched'[c] = 1 BY <1>1, <1>4, <2>1 DEF TypeOK
  <2>5. CASE guarded[r]
    <3>1. registry[c] # NoEntry /\ registry[c].resolution = "APPROVED" /\ registry[c].active
      BY <1>1, <1>4, <2>5 DEF Dispatch, Announced
    <3>2. "REJECTED" \notin answers[c] BY <2>1, <3>1 DEF IInv, ApprovalInv, Entered
    <3>3. Authority(c) = "approved" BY <2>1, <2>5, <3>1, <3>2 DEF Authority
    <3>4. Authority(c)' = "executed" BY <1>2, <2>1, <2>4, <2>5 DEF Authority
    <3>5. Promise!Execute(c) BY <1>2, <2>1, <2>3, <3>3, <3>4 DEF Promise!Execute
    <3> QED BY <2>1, <3>5 DEF Promise!Next
  <2>6. CASE ~guarded[r]
    <3>1. Authority(c)' = Authority(c) BY <1>2, <2>1, <2>6 DEF Authority
    <3> QED BY <1>2, <2>3, <3>1, Stutters
  <2> QED BY <2>5, <2>6
<1> QED BY <1>3, <1>4 DEF Dispatch

\* A decision accepts, repeats or refuses, and tells the client the truth.
LEMMA DecideRefines ==
  ASSUME IInv, NEW a \in Approvals, NEW matches \in BOOLEAN,
         NEW status \in {"APPROVED", "REJECTED"}, Decide(a, status, matches)
  PROVE  Promise!Next
<1>1. TypeOK /\ Asked(a) /\ Entered(a) BY DEF IInv, ApprovalInv
<1>2. UNCHANGED dispatched /\ accepted[a] # "nothing" BY <1>1, DecideCases
<1>3. Refused(a) \/ Recorded(a, status) BY <1>1, DecideCases
<1>4. \A b \in Approvals : b # a => answers'[b] = answers[b] /\ accepted'[b] = accepted[b]
  BY <1>1, DecideCases
<1>5. answers' \in [Approvals -> SUBSET {"APPROVED", "REJECTED", "INACTIVE", "CONFLICT",
                                         "NOT_FOUND"}]
  BY DEF IInv, TypeOK, Decide, Answer
<1>6. ASSUME NEW answer, answers'[a] = answers[a] \cup {answer}
      PROVE  Promise!Tell(a, answer)
  BY <1>1, <1>4, <1>5, <1>6 DEF Promise!Tell, TypeOK
<1>7. CASE Refused(a)
  <2>1. PICK answer \in {"NOT_FOUND", "CONFLICT", "INACTIVE"} :
          /\ answers'[a] = answers[a] \cup {answer}
          /\ answer = "NOT_FOUND" => registry[a] = NoEntry
          /\ answer = "INACTIVE" => registry[a] # NoEntry /\ ~registry[a].active
    BY <1>7 DEF Refused
  <2>2. Promise!Tell(a, answer) BY <1>6, <2>1
  <2>3. UNCHANGED <<registry, accepted>> BY <1>7 DEF Refused
  <2>4. \A b \in Approvals : b # a => Authority(b)' = Authority(b)
    BY <1>2, <1>4, <2>3, SameAuthority
  <2>5. Authority(a)' = Authority(a) BY <1>2, <2>1, <2>3 DEF Authority
  <2>6. CASE answer = "CONFLICT"
    <3>1. Promise!Repeat(a) BY <2>2, <2>4, <2>5, <2>6 DEF Promise!Repeat
    <3> QED BY <3>1 DEF Promise!Next
  <2>7. CASE answer \in {"NOT_FOUND", "INACTIVE"}
    <3>1. Authority(a)' \in {"rejected", "void", "executed"}
      BY <1>2, <2>1, <2>3, <2>7 DEF Authority
    <3>2. Promise!Withdraw({}) BY <2>4, <2>5 DEF Promise!Withdraw
    <3>3. Promise!Refuse(a, {}) BY <2>2, <2>7, <3>1, <3>2 DEF Promise!Refuse
    <3> QED BY <3>3 DEF Promise!Next
  <2> QED BY <2>6, <2>7
<1>8. CASE Recorded(a, status) /\ Available(a[1])
  <2>1. /\ registry[a] \in Entries /\ registry[a] # NoEntry /\ registry[a].active
        /\ registry[a].resolution \in {"none", status}
        /\ accepted'[a] = status /\ answers'[a] = answers[a] \cup {status}
        /\ registry'[a] = [registry[a] EXCEPT !.resolution = status]
        /\ \A b \in Approvals : b # a => registry'[b] = registry[b]
    BY <1>8, EntryType DEF Recorded
  <2>2. /\ registry'[a] # NoEntry /\ registry'[a].resolution = status /\ registry'[a].active
    <3> DEFINE d == [registry[a] EXCEPT !.resolution = status]
    <3>1. registry[a] \in Entries BY <2>1
    <3>2. d # NoEntry /\ d.resolution = status /\ d.active = registry[a].active
      BY <3>1, DecidedEntry
    <3>3. registry'[a] = d BY <2>1
    <3> HIDE DEF d
    <3> QED BY <2>1, <3>2, <3>3
  <2>3. \A b \in Approvals : b # a => Authority(b)' = Authority(b)
    BY <1>2, <1>4, <2>1, SameAuthority
  <2>4. Promise!Tell(a, status) BY <1>6, <2>1
  <2>5. CASE registry[a].resolution = "none"
    <3>1. dispatched[a] = 0 /\ "REJECTED" \notin answers[a] BY <1>1, <2>1, <2>5 DEF Entered
    <3>2. Authority(a) = "pending" BY <1>2, <2>1, <2>5, <3>1 DEF Authority
    <3>3. Authority(a)' = IF status = "APPROVED" THEN "approved" ELSE "rejected"
      BY <1>2, <2>1, <2>2, <3>1 DEF Authority
    <3>4. Promise!Accept(a) BY <2>3, <2>4, <3>2, <3>3 DEF Promise!Accept
    <3> QED BY <3>4 DEF Promise!Next
  <2>6. CASE registry[a].resolution = status
    <3>1. "REJECTED" \in answers[a] <=> status = "REJECTED" BY <1>1, <2>1, <2>6 DEF Entered
    <3>2. status = "REJECTED" => dispatched[a] = 0 BY <1>1, <2>6 DEF Entered
    <3>3. Authority(a) \in IF status = "APPROVED" THEN {"approved", "executed"} ELSE {"rejected"}
      BY <1>1, <1>2, <2>1, <2>6, <3>1, <3>2 DEF Authority, TypeOK
    <3>4. Authority(a)' = Authority(a)
      BY <1>2, <2>1, <2>2, <2>6, <3>1 DEF Authority
    <3>5. Promise!Repeat(a) BY <2>3, <2>4, <3>3, <3>4 DEF Promise!Repeat
    <3> QED BY <3>5 DEF Promise!Next
  <2> QED BY <2>1, <2>5, <2>6
<1>9. CASE Recorded(a, status) /\ ~Available(a[1])
  <2> DEFINE d == [registry[a] EXCEPT !.resolution = status]
             A == {b \in Approvals : b[1] = a[1]}
  <2>1. /\ registry[a] \in Entries /\ accepted'[a] = status
        /\ answers'[a] = answers[a] \cup {"INACTIVE"} /\ registry'[a] = Invalidated(d)
        /\ \A b \in Approvals :
             b # a => registry'[b] = IF b[1] = a[1] THEN Invalidated(registry[b])
                                     ELSE registry[b]
    BY <1>9 DEF Recorded
  <2>2. d \in Entries /\ d # NoEntry BY <2>1, DecidedEntry, ZenonT(60)
  <2> HIDE DEF d
  <2>3. ~registry'[a].active BY <2>1, <2>2, EntryType
  <2>4. /\ Authority(a)' = IF Authority(a) \in {"pending", "approved"} THEN "void"
                           ELSE Authority(a)
        /\ Authority(a)' \in {"rejected", "void", "executed"}
    BY <1>2, <2>1, <2>3, Withdrawn
  <2>5. ASSUME NEW b \in Approvals, b # a
        PROVE  Authority(b)' = IF b \in A /\ Authority(b) \in {"pending", "approved"} THEN "void"
                               ELSE Authority(b)
    <3>1. CASE b \in A
      <4>1. registry[b] \in Entries \cup {NoEntry} BY <1>1 DEF TypeOK
      <4>2. registry'[b] = Invalidated(registry[b]) BY <2>1, <2>5, <3>1
      <4>3. registry'[b] = NoEntry \/ ~registry'[b].active BY <4>1, <4>2, EntryType DEF Entries
      <4> QED BY <1>2, <1>4, <2>5, <3>1, <4>3, Withdrawn
    <3>2. CASE b \notin A BY <1>2, <1>4, <2>1, <2>5, <3>2, SameAuthority
    <3> QED BY <3>1, <3>2
  <2>6. Promise!Withdraw(A) BY <2>4, <2>5 DEF Promise!Withdraw
  <2>7. Promise!Tell(a, "INACTIVE") BY <1>6, <2>1
  <2>8. Promise!Refuse(a, A) BY <2>4, <2>6, <2>7 DEF Promise!Refuse
  <2> QED BY <2>8 DEF Promise!Next
<1> QED BY <1>3, <1>7, <1>8, <1>9

\* Nothing has been asked at first.
LEMMA InitRefines ==
  ASSUME Init
  PROVE  Promise!Init
  BY DEF Init, Promise!Init, Authority

\* Every step is one of the promise or a stutter.
LEMMA NextRefines ==
  ASSUME IInv, [Next]_vars
  PROVE  [Promise!Next]_Promise!vars
<1> USE DEF historyVars
<1>1. ASSUME NEW r \in Runs, GraphStep(r) PROVE [Promise!Next]_Promise!vars
  <2>1. CASE PrepareTool(r) BY <2>1, AskRefines
  <2>2. CASE WaitFails(r) BY <2>2, WithdrawRefines DEF WaitFails, IInv
  <2>3. CASE GraphExits(r) BY <2>3, WithdrawRefines DEF GraphExits, IInv
  <2>4. CASE ConsumeAndAnnounce(r) BY <2>4, ConsumeRefines
  <2>5. CASE ModelEnds(r) \/ LimitReached(r) \/ RequestPublished(r) \/ DecisionArrives(r)
             \/ ResolutionPublished(r) \/ CancelObserved(r) \/ PublishFails(r) \/ Record(r)
             \/ TaskCancelled(r)
    BY <2>5, QuietStutters DEF ModelEnds, LimitReached, RequestPublished, DecisionArrives,
       ResolutionPublished, CancelObserved, PublishFails, Record, TaskCancelled
  <2> QED BY <1>1, <2>1, <2>2, <2>3, <2>4, <2>5 DEF GraphStep
<1>2. ASSUME NEW r \in Runs, ExecutorStep(r) PROVE [Promise!Next]_Promise!vars
  <2>1. CASE Dispatch(r) BY <2>1, DispatchRefines
  <2>2. CASE ~Dispatch(r)
    BY <1>2, <2>2, QuietStutters DEF ExecutorStep, ProcessCreated, CreateFails, CommandCompletes,
       CommandInterrupted, CloseConfirmed, CloseFails
  <2> QED BY <2>1, <2>2
<1>3. ASSUME NEW r \in Runs, CancelRun(r) PROVE [Promise!Next]_Promise!vars
  BY <1>3, QuietStutters DEF CancelRun
<1>4. ASSUME NEW a \in Approvals, NEW matches \in BOOLEAN, NEW status \in {"APPROVED", "REJECTED"},
             Decide(a, status, matches)
      PROVE  [Promise!Next]_Promise!vars
  BY <1>4, DecideRefines
<1>5. ASSUME NEW s \in Sessions, SessionStep(s) PROVE [Promise!Next]_Promise!vars
  BY <1>5, QuietStutters DEF SessionStep, TransportLost, BeginClose, EndClose
<1>6. CASE UNCHANGED vars BY <1>6, QuietStutters DEF vars
<1> QED BY <1>1, <1>2, <1>3, <1>4, <1>5, <1>6 DEF Next

\* The registry, the worker, the executor and the decision requests implement
\* ApprovalAuthority: nothing that needs an approval is executed unless its own
\* approval is approved, and never after a client was told that it would not be.
THEOREM ApprovalIsTheOnlyAuthority == Spec => AuthorityContract
<1>1. Init => Promise!Init BY InitRefines
<1>2. IInv /\ [Next]_vars => [Promise!Next]_Promise!vars BY NextRefines
<1> QED BY <1>1, <1>2, ApprovalInvariance, PTL DEF Spec, AuthorityContract, Promise!Spec
=============================================================================
