----------------------- MODULE AgentTurnStreamProofs -----------------------
(***************************************************************************)
(* Theorems about AgentTurnStream for every number of streams, every        *)
(* capacity and every byte limit that satisfies LimitsAssumption.           *)
(***************************************************************************)
EXTENDS AgentTurnStream, FiniteSetTheorems, TLAPS

\* The frame kind agrees with the durable status of the Run.
Reports(s, kind) ==
  /\ run[s] # "none"
  /\ kind = "completed" => run[s] = "COMPLETED"
  /\ kind = "failed" => run[s] \in {"FAILED", "LIMIT_REACHED"}

\* How many frames left the queue towards the client.
Delivered(s) == received[s] + (IF frame[s] = NoFrame THEN 0 ELSE 1)

\* The durable Run in each phase of the worker.
RunInv ==
  \A s \in Streams :
    /\ worker[s] \in {"none", "created", "setup"} => run[s] = "none"
    /\ worker[s] = "graph" => run[s] = "RUNNING"
    /\ worker[s] = "limit" => run[s] = "LIMIT_REACHED"
    /\ worker[s] = "awaitSent" => run[s] \in {"COMPLETED", "FAILED", "LIMIT_REACHED"}
    /\ worker[s] = "unwinding" => run[s] # "none" /\ (taskCancel[s] \/ cancelled[s])
    /\ worker[s] = "done" /\ run[s] = "RUNNING" => dbFault[s]

\* Frames on their way report what is durable.
FrameInv ==
  \A s \in Streams :
    /\ worker[s] \in {"offering", "enqueued"} =>
         /\ offered[s] \in Frames
         /\ Reports(s, offered[s].kind)
         /\ offered[s].kind \in {"started", "event"} => run[s] = "RUNNING"
    /\ \A i \in 1..Len(queue[s]) : Reports(s, queue[s][i].kind)
    /\ frame[s] # NoFrame => Reports(s, frame[s].kind)
    /\ lastFrame[s] # "none" => Reports(s, lastFrame[s])

\* Sequence numbers, and what is known of frame zero.
SequenceOf(s) ==
  /\ worker[s] \in {"none", "created", "setup"} => sequence[s] = 0
  /\ worker[s] \in {"graph", "limit"} => sequence[s] # 0
  /\ worker[s] \in {"none", "created", "setup", "offering", "graph", "limit"}
       => sequence[s] = Delivered(s) + Len(queue[s])
  /\ worker[s] = "enqueued" => sequence[s] + 1 = Delivered(s) + Len(queue[s])
  /\ worker[s] \in {"offering", "enqueued"} =>
       /\ offered[s].seq = sequence[s]
       /\ offered[s].kind = "started" <=> offered[s].seq = 0
  /\ \A i \in 1..Len(queue[s]) :
       /\ queue[s][i].seq = Delivered(s) + i - 1
       /\ queue[s][i].kind = "started" <=> queue[s][i].seq = 0
  /\ frame[s] # NoFrame =>
       /\ frame[s].seq = received[s]
       /\ frame[s].kind = "started" <=> frame[s].seq = 0
  /\ lastFrame[s] = "none" <=> received[s] = 0

SequenceInv == \A s \in Streams : SequenceOf(s)

\* The client side: a session has a worker once it started, a frame is held
\* exactly while it is being sent, nothing is sent after a terminal frame.
ClientInv ==
  \A s \in Streams :
    /\ consumer[s] = "absent" => worker[s] = "none"
    /\ consumer[s] = "sending" => frame[s] # NoFrame
    /\ consumer[s] \in {"absent", "starting", "reading", "joining"} => frame[s] = NoFrame
    /\ consumer[s] \in {"absent", "starting", "reading", "sending"}
         => lastFrame[s] \notin TerminalKinds

\* The body budget always has room for the terminal frame.
BudgetInv ==
  \A s \in Streams :
    /\ worker[s] \in {"none", "created", "setup"} => bytes[s] = 0
    /\ worker[s] \in {"graph", "limit"} => bytes[s] + Reserve <= BodyLimit
    /\ worker[s] \in {"offering", "enqueued"} =>
         /\ bytes[s] + offered[s].size <= BodyLimit
         /\ offered[s].kind \in {"started", "event"}
              => bytes[s] + offered[s].size + Reserve <= BodyLimit

\* The conversation lock excludes two run_turns of one conversation.
LockInv ==
  \A s, t \in Streams :
    s # t /\ Conversation[s] = Conversation[t]
      => worker[s] \notin RunTurnPhases \/ worker[t] \notin RunTurnPhases

IInv == /\ TypeOK
        /\ IsFiniteSet(active)
        /\ SlotOwnership
        /\ RunInv
        /\ FrameInv
        /\ SequenceInv
        /\ ClientInv
        /\ BudgetInv
        /\ LockInv
        /\ UndisturbedTurnIsReported
-----------------------------------------------------------------------------
USE LimitsAssumption
USE DEF dispatcherVars, publisherVars, clientVars, durableVars

\* What members of Frames look like, and that NoFrame is none of them: facts about
\* records and sets that the leaves below would otherwise repeat.
LEMMA FrameFields ==
  /\ \A f \in Frames : f.kind \in Kinds /\ f.seq \in Nat /\ f.size \in 1..FrameLimit
  /\ NoFrame \notin Frames
  /\ \A kind \in Kinds, n \in Nat, size \in 1..FrameLimit :
       [kind |-> kind, seq |-> n, size |-> size] \in Frames
<1>1. \A f \in Frames : f.kind \in Kinds /\ f.seq \in Nat /\ f.size \in 1..FrameLimit
  BY DEF Frames
<1>2. NoFrame.kind = "none"
  BY DEF NoFrame
<1>3. "none" \notin Kinds
  BY DEF Kinds, TerminalKinds
<1>4. \A kind \in Kinds, n \in Nat, size \in 1..FrameLimit :
        [kind |-> kind, seq |-> n, size |-> size] \in Frames
  BY DEF Frames
<1> QED
  BY <1>1, <1>2, <1>3, <1>4

\* How run_turn ends once the outcome is durable: the frame is withheld
\* because the dispatcher cancelled the request, or it is offered.
Outcomes == {"COMPLETED", "FAILED", "LIMIT_REACHED"}

Settle(s, status) ==
  /\ worker[s] \in {"graph", "limit"}
  /\ ~taskCancel[s]
  /\ run[s] \in {"RUNNING", status}
  /\ run' = [run EXCEPT ![s] = status]
  /\ UNCHANGED <<request, active, closing, cancelled, started, sequence, bytes,
                 clientVars, dbFault, taskCancel, queue>>

OutcomeWithheld(s, status) ==
  /\ Settle(s, status)
  /\ cancelled[s]
  /\ worker' = [worker EXCEPT ![s] = "unwinding"]
  /\ UNCHANGED offered

OutcomeOffered(s, status, size) ==
  /\ Settle(s, status)
  /\ ~cancelled[s]
  /\ bytes[s] + size <= BodyLimit
  /\ Offer(s, IF status = "COMPLETED" THEN "completed" ELSE "failed", size)

\* The reserve is at least one frame, so a terminal frame always fits: the
\* error branch of _publish_terminal is never taken.
LEMMA PublishTerminalEffect ==
  ASSUME TypeOK, BudgetInv, NEW s \in Streams, worker[s] \in {"graph", "limit"},
         NEW kind, PublishTerminal(s, kind)
  PROVE  \/ /\ cancelled[s]
            /\ worker' = [worker EXCEPT ![s] = "unwinding"]
            /\ UNCHANGED <<active, started, offered>>
         \/ /\ ~cancelled[s]
            /\ \E size \in 1..FrameLimit :
                 bytes[s] + size <= BodyLimit /\ Offer(s, kind, size)
<1>1. \A size \in 1..FrameLimit : Fits(s, size, TRUE) /\ bytes[s] + size <= BodyLimit
  BY DEF TypeOK, BudgetInv, Fits
<1> QED
  BY <1>1 DEF PublishTerminal

\* The three actions that publish a terminal frame, in one form.
LEMMA GraphSteps ==
  ASSUME TypeOK, RunInv, BudgetInv, NEW s \in Streams, Graph(s)
  PROVE  \/ GraphEmits(s)
         \/ LimitReached(s)
         \/ GraphCancelled(s)
         \/ \E status \in Outcomes :
              \/ OutcomeWithheld(s, status)
              \/ \E size \in 1..FrameLimit : OutcomeOffered(s, status, size)
<1>1. ASSUME NEW kind, NEW status \in Outcomes,
             kind = IF status = "COMPLETED" THEN "completed" ELSE "failed",
             worker[s] \in {"graph", "limit"}, ~taskCancel[s],
             run[s] \in {"RUNNING", status},
             PublishTerminal(s, kind), run' = [run EXCEPT ![s] = status],
             UNCHANGED <<request, closing, cancelled, sequence, bytes,
                         clientVars, dbFault, taskCancel, queue>>
      PROVE  \/ OutcomeWithheld(s, status)
             \/ \E size \in 1..FrameLimit : OutcomeOffered(s, status, size)
  BY <1>1, PublishTerminalEffect DEF OutcomeWithheld, OutcomeOffered, Settle, Offer
<1>2. CASE GraphCompletes(s)
  BY <1>1, <1>2 DEF GraphCompletes, Outcomes, RunInv
<1>3. CASE GraphFails(s)
  BY <1>1, <1>3 DEF GraphFails, Outcomes, RunInv
<1>4. CASE LimitReturns(s)
  <2>1. run' = [run EXCEPT ![s] = "LIMIT_REACHED"]
    BY <1>4 DEF LimitReturns, RunInv, TypeOK
  <2> QED
    BY <1>1, <1>4, <2>1 DEF LimitReturns, Outcomes, RunInv
<1> QED
  BY <1>2, <1>3, <1>4 DEF Graph

\* Popping the entry of a request keeps the count of slots exact.
LEMMA EndWorkerSlots ==
  ASSUME TypeOK, IsFiniteSet(active), SlotOwnership, NEW s \in Streams,
         EndWorker(s), UNCHANGED request
  PROVE  IsFiniteSet(active') /\ SlotOwnership'
<1>1. active' \in SUBSET active /\ active' = active \ {s}
  BY DEF EndWorker
<1>2. IsFiniteSet(active') /\ Cardinality(active') <= Cardinality(active)
  BY <1>1, FS_Subset
<1>3. Cardinality(active') <= Capacity
  BY <1>1, <1>2, FS_CardinalityType DEF SlotOwnership
<1>4. worker' = [worker EXCEPT ![s] = "done"] /\ "done" \notin OwnedPhases
  BY DEF EndWorker, OwnedPhases, RunTurnPhases
<1>5. active' = {t \in Streams : worker'[t] \in OwnedPhases}
  BY <1>1, <1>4 DEF SlotOwnership, TypeOK
<1> QED
  BY <1>1, <1>2, <1>3, <1>5 DEF SlotOwnership

\* Moving the head of the queue to the client shifts every position by one.
LEMMA TakeKeepsSequence ==
  ASSUME TypeOK, SequenceInv, ClientInv, NEW s \in Streams, Take(s)
  PROVE  SequenceInv'
<1>1. \A t \in Streams : t # s => queue'[t] = queue[t] /\ frame'[t] = frame[t]
  BY DEF Take, TypeOK
<1>2. UNCHANGED <<worker, sequence, offered, received, lastFrame>>
  BY DEF Take
<1>3. /\ queue[s] \in Seq(Frames) /\ queue[s] # <<>>
      /\ queue'[s] = Tail(queue[s])
      /\ frame'[s] = queue[s][1]
      /\ frame[s] = NoFrame
  BY DEF Take, TypeOK, ClientInv
<1> DEFINE q == queue[s]
           r == queue'[s]
           d == received[s]
<1>4. /\ d \in Nat
      /\ Len(q) \in Nat \ {0}
      /\ Len(r) = Len(q) - 1
      /\ \A i \in 1..Len(r) : i + 1 \in 1..Len(q) /\ r[i] = q[i + 1]
  BY <1>3 DEF TypeOK
<1>5. frame'[s] \in Frames
  BY <1>3, <1>4
<1>6. Delivered(s) = d /\ Delivered(s)' = d + 1
  BY <1>2, <1>3, <1>4, <1>5, FrameFields DEF Delivered
<1>7. ASSUME NEW t \in Streams, t # s PROVE SequenceOf(t)'
  BY <1>1, <1>2, <1>7 DEF SequenceInv, SequenceOf, Delivered
<1>8. \A i \in 1..Len(q) : /\ q[i].seq = d + i - 1
                           /\ q[i].kind = "started" <=> q[i].seq = 0
  BY <1>6 DEF SequenceInv, SequenceOf
<1>9. \A i \in 1..Len(r) : /\ r[i].seq = (d + 1) + i - 1
                           /\ r[i].kind = "started" <=> r[i].seq = 0
  <2> SUFFICES ASSUME NEW i \in 1..Len(r)
               PROVE  /\ r[i].seq = (d + 1) + i - 1
                      /\ r[i].kind = "started" <=> r[i].seq = 0
    OBVIOUS
  <2>1. /\ q[i + 1].seq = d + (i + 1) - 1
        /\ q[i + 1].kind = "started" <=> q[i + 1].seq = 0
    BY <1>4, <1>8
  <2>2. d + (i + 1) - 1 = (d + 1) + i - 1
    BY <1>4
  <2> QED
    BY <1>4, <2>1, <2>2
<1>10. frame'[s].seq = d /\ (frame'[s].kind = "started" <=> frame'[s].seq = 0)
  BY <1>3, <1>4, <1>8
<1>11. SequenceOf(s)
  BY DEF SequenceInv
<1>12. SequenceOf(s)'
  <2> HIDE DEF q, r, d
  <2>1. Len(r) \in Nat /\ d + 1 + Len(r) = d + Len(q)
    BY <1>4
  <2> QED
    BY <1>2, <1>6, <1>9, <1>10, <1>11, <2>1 DEF SequenceOf, q, r, d
<1> QED
  BY <1>7, <1>12 DEF SequenceInv

\* start() creates a worker that has put nothing.
LEMMA StartKeepsSequence ==
  ASSUME TypeOK, SequenceInv, ClientInv, NEW s \in Streams, Start(s)
  PROVE  SequenceInv'
<1>1. /\ UNCHANGED <<sequence, offered, received, frame, lastFrame, queue>>
      /\ worker' = [worker EXCEPT ![s] = "created"]
  BY DEF Start
<1>2. worker[s] = "none"
  BY DEF Start, ClientInv
<1>3. ASSUME NEW t \in Streams PROVE SequenceOf(t)'
  <2>1. Delivered(t)' = Delivered(t)
    BY <1>1 DEF Delivered
  <2>2. worker'[t] = IF t = s THEN "created" ELSE worker[t]
    BY <1>1 DEF TypeOK
  <2>3. SequenceOf(t)
    BY DEF SequenceInv
  <2> QED
    BY <1>1, <1>2, <2>1, <2>2, <2>3 DEF SequenceOf
<1> QED
  BY <1>3 DEF SequenceInv

\* Every step preserves the types.
LEMMA TypeStep ==
  ASSUME TypeOK, RunInv, FrameInv, ClientInv, BudgetInv, [Next]_vars
  PROVE  TypeOK'
<1> USE FrameFields DEF TypeOK, FrameInv, ClientInv, BudgetInv, WorkerPhases,
    OwnedPhases, RunTurnPhases, ConsumerPhases, Kinds, TerminalKinds,
    TerminalStatus, Outcomes, NoRequest
<1>1. ASSUME NEW s \in Streams, Start(s) PROVE TypeOK'
  BY <1>1 DEF Start
<1>2. ASSUME NEW s \in Streams, Admit(s) PROVE TypeOK'
  BY <1>2 DEF Admit, CanAdmit
<1>3. ASSUME NEW s \in Streams, Refuse(s) PROVE TypeOK'
  BY <1>3, ZenonT(60) DEF Refuse, CanAdmit, EndWorker
<1>4. ASSUME NEW s \in Streams, CancelBeforeFirstStep(s) PROVE TypeOK'
  BY <1>4 DEF CancelBeforeFirstStep
<1>5. ASSUME NEW s \in Streams, SetupRefused(s) PROVE TypeOK'
  BY <1>5 DEF SetupRefused, EndWorker
<1>6. ASSUME NEW s \in Streams, SetupCancelled(s) PROVE TypeOK'
  BY <1>6 DEF SetupCancelled, EndWorker, LockFree
<1>7. ASSUME NEW s \in Streams, BeginRun(s) PROVE TypeOK'
  BY <1>7, SMTT(60) DEF BeginRun, Offer, LockFree
<1>8. ASSUME NEW s \in Streams, PutEnters(s) PROVE TypeOK'
  BY <1>8, SMTT(60) DEF PutEnters
<1>9. ASSUME NEW s \in Streams, PutReturns(s) PROVE TypeOK'
  BY <1>9, SMTT(60) DEF PutReturns
<1>10. ASSUME NEW s \in Streams, PutCancelled(s) PROVE TypeOK'
  BY <1>10 DEF PutCancelled
<1>11. ASSUME NEW s \in Streams, GraphEmits(s) PROVE TypeOK'
  BY <1>11, SMTT(60) DEF GraphEmits, Offer, Fits
<1>12. ASSUME NEW s \in Streams, LimitReached(s) PROVE TypeOK'
  BY <1>12 DEF LimitReached
<1>13. ASSUME NEW s \in Streams, GraphCancelled(s) PROVE TypeOK'
  BY <1>13 DEF GraphCancelled
<1>14. ASSUME NEW s \in Streams, NEW status \in Outcomes,
             OutcomeWithheld(s, status)
      PROVE  TypeOK'
  BY <1>14 DEF OutcomeWithheld, Settle
<1>15. ASSUME NEW s \in Streams, NEW status \in Outcomes,
             NEW size \in 1..FrameLimit, OutcomeOffered(s, status, size)
      PROVE  TypeOK'
  BY <1>15, ZenonT(60) DEF OutcomeOffered, Settle, Offer
<1>16. ASSUME NEW s \in Streams, UnwindEnds(s) PROVE TypeOK'
  BY <1>16 DEF UnwindEnds, EndWorker
<1>17. ASSUME NEW s \in Streams, FinishTransactionFails(s) PROVE TypeOK'
  BY <1>17 DEF FinishTransactionFails, EndWorker
<1>18. ASSUME NEW s \in Streams, TerminalSent(s) PROVE TypeOK'
  BY <1>18 DEF TerminalSent, EndWorker
<1>19. ASSUME NEW s \in Streams, StartBarrier(s) PROVE TypeOK'
  BY <1>19 DEF StartBarrier
<1>20. ASSUME NEW s \in Streams, StartFailed(s) PROVE TypeOK'
  BY <1>20 DEF StartFailed, CancelWorker
<1>21. ASSUME NEW s \in Streams, Take(s) PROVE TypeOK'
  BY <1>21, SMTT(60) DEF Take
<1>22. ASSUME NEW s \in Streams, Sent(s) PROVE TypeOK'
  BY <1>22, SMTT(60) DEF Sent
<1>23. ASSUME NEW s \in Streams, WorkerEnded(s) PROVE TypeOK'
  BY <1>23 DEF WorkerEnded, CancelWorker
<1>24. ASSUME NEW s \in Streams, Disconnect(s) PROVE TypeOK'
  BY <1>24 DEF Disconnect, CancelWorker
<1>25. ASSUME NEW s \in Streams, DisconnectWhileSending(s) PROVE TypeOK'
  BY <1>25 DEF DisconnectWhileSending
<1>26. ASSUME NEW s \in Streams, GeneratorFinalized(s) PROVE TypeOK'
  BY <1>26 DEF GeneratorFinalized, CancelWorker
<1>27. ASSUME NEW s \in Streams, Closed(s) PROVE TypeOK'
  BY <1>27 DEF Closed
<1>28. CASE CloseDispatcher
  BY <1>28 DEF CloseDispatcher
<1>29. CASE UNCHANGED vars
  BY <1>29 DEF vars
<1> HIDE DEF TypeOK, FrameInv, ClientInv, BudgetInv
<1> QED
  BY <1>1, <1>2, <1>3, <1>4, <1>5, <1>6, <1>7, <1>8, <1>9, <1>10, <1>11,
    <1>12, <1>13, <1>14, <1>15, <1>16, <1>17, <1>18, <1>19, <1>20, <1>21,
    <1>22, <1>23, <1>24, <1>25, <1>26, <1>27, <1>28, <1>29, GraphSteps DEF
    Next, Admission, Setup, Publish, Finish, Respond, Leave

\* The Run agrees with the phase of the worker.
LEMMA RunStep ==
  ASSUME TypeOK, RunInv, FrameInv, ClientInv, BudgetInv, [Next]_vars
  PROVE  RunInv'
<1> USE FrameFields DEF TypeOK, RunInv, FrameInv, ClientInv, Reports, Kinds,
    TerminalKinds, TerminalStatus, Outcomes
<1>1. ASSUME NEW s \in Streams, Start(s) PROVE RunInv'
  BY <1>1 DEF Start
<1>2. ASSUME NEW s \in Streams, Admit(s) PROVE RunInv'
  BY <1>2 DEF Admit, CanAdmit
<1>3. ASSUME NEW s \in Streams, Refuse(s) PROVE RunInv'
  BY <1>3, SMTT(60) DEF Refuse, CanAdmit, EndWorker
<1>4. ASSUME NEW s \in Streams, CancelBeforeFirstStep(s) PROVE RunInv'
  BY <1>4 DEF CancelBeforeFirstStep
<1>5. ASSUME NEW s \in Streams, SetupRefused(s) PROVE RunInv'
  BY <1>5 DEF SetupRefused, EndWorker
<1>6. ASSUME NEW s \in Streams, SetupCancelled(s) PROVE RunInv'
  BY <1>6 DEF SetupCancelled, EndWorker, LockFree
<1>7. ASSUME NEW s \in Streams, BeginRun(s) PROVE RunInv'
  BY <1>7 DEF BeginRun, Offer, LockFree
<1>8. ASSUME NEW s \in Streams, PutEnters(s) PROVE RunInv'
  BY <1>8, SMTT(60) DEF PutEnters
<1>9. ASSUME NEW s \in Streams, PutReturns(s) PROVE RunInv'
  BY <1>9, SMTT(60) DEF PutReturns
<1>10. ASSUME NEW s \in Streams, PutCancelled(s) PROVE RunInv'
  BY <1>10 DEF PutCancelled
<1>11. ASSUME NEW s \in Streams, GraphEmits(s) PROVE RunInv'
  BY <1>11, SMTT(60) DEF GraphEmits, Offer, Fits
<1>12. ASSUME NEW s \in Streams, LimitReached(s) PROVE RunInv'
  BY <1>12 DEF LimitReached
<1>13. ASSUME NEW s \in Streams, GraphCancelled(s) PROVE RunInv'
  BY <1>13 DEF GraphCancelled
<1>14. ASSUME NEW s \in Streams, NEW status \in Outcomes,
             OutcomeWithheld(s, status)
      PROVE  RunInv'
  BY <1>14 DEF OutcomeWithheld, Settle
<1>15. ASSUME NEW s \in Streams, NEW status \in Outcomes,
             NEW size \in 1..FrameLimit, OutcomeOffered(s, status, size)
      PROVE  RunInv'
  BY <1>15 DEF OutcomeOffered, Settle, Offer
<1>16. ASSUME NEW s \in Streams, UnwindEnds(s) PROVE RunInv'
  BY <1>16 DEF UnwindEnds, EndWorker
<1>17. ASSUME NEW s \in Streams, FinishTransactionFails(s) PROVE RunInv'
  BY <1>17 DEF FinishTransactionFails, EndWorker
<1>18. ASSUME NEW s \in Streams, TerminalSent(s) PROVE RunInv'
  BY <1>18 DEF TerminalSent, EndWorker
<1>19. ASSUME NEW s \in Streams, StartBarrier(s) PROVE RunInv'
  BY <1>19 DEF StartBarrier
<1>20. ASSUME NEW s \in Streams, StartFailed(s) PROVE RunInv'
  BY <1>20 DEF StartFailed, CancelWorker
<1>21. ASSUME NEW s \in Streams, Take(s) PROVE RunInv'
  BY <1>21 DEF Take
<1>22. ASSUME NEW s \in Streams, Sent(s) PROVE RunInv'
  BY <1>22 DEF Sent
<1>23. ASSUME NEW s \in Streams, WorkerEnded(s) PROVE RunInv'
  BY <1>23 DEF WorkerEnded, CancelWorker
<1>24. ASSUME NEW s \in Streams, Disconnect(s) PROVE RunInv'
  BY <1>24 DEF Disconnect, CancelWorker
<1>25. ASSUME NEW s \in Streams, DisconnectWhileSending(s) PROVE RunInv'
  BY <1>25 DEF DisconnectWhileSending
<1>26. ASSUME NEW s \in Streams, GeneratorFinalized(s) PROVE RunInv'
  BY <1>26 DEF GeneratorFinalized, CancelWorker
<1>27. ASSUME NEW s \in Streams, Closed(s) PROVE RunInv'
  BY <1>27 DEF Closed
<1>28. CASE CloseDispatcher
  BY <1>28 DEF CloseDispatcher
<1>29. CASE UNCHANGED vars
  BY <1>29 DEF vars
<1> HIDE DEF TypeOK, RunInv, FrameInv, ClientInv
<1> QED
  BY <1>1, <1>2, <1>3, <1>4, <1>5, <1>6, <1>7, <1>8, <1>9, <1>10, <1>11,
    <1>12, <1>13, <1>14, <1>15, <1>16, <1>17, <1>18, <1>19, <1>20, <1>21,
    <1>22, <1>23, <1>24, <1>25, <1>26, <1>27, <1>28, <1>29, GraphSteps DEF
    Next, Admission, Setup, Publish, Finish, Respond, Leave

\* The reserve survives every ordinary frame.
LEMMA BudgetStep ==
  ASSUME TypeOK, RunInv, FrameInv, ClientInv, BudgetInv, [Next]_vars
  PROVE  BudgetInv'
<1> USE FrameFields DEF TypeOK, FrameInv, ClientInv, BudgetInv, Kinds,
    TerminalKinds, Outcomes
<1>1. ASSUME NEW s \in Streams, Start(s) PROVE BudgetInv'
  BY <1>1 DEF Start
<1>2. ASSUME NEW s \in Streams, Admit(s) PROVE BudgetInv'
  BY <1>2 DEF Admit, CanAdmit
<1>3. ASSUME NEW s \in Streams, Refuse(s) PROVE BudgetInv'
  BY <1>3 DEF Refuse, CanAdmit, EndWorker
<1>4. ASSUME NEW s \in Streams, CancelBeforeFirstStep(s) PROVE BudgetInv'
  BY <1>4 DEF CancelBeforeFirstStep
<1>5. ASSUME NEW s \in Streams, SetupRefused(s) PROVE BudgetInv'
  BY <1>5 DEF SetupRefused, EndWorker
<1>6. ASSUME NEW s \in Streams, SetupCancelled(s) PROVE BudgetInv'
  BY <1>6 DEF SetupCancelled, EndWorker, LockFree
<1>7. ASSUME NEW s \in Streams, BeginRun(s) PROVE BudgetInv'
  BY <1>7 DEF BeginRun, Offer, LockFree
<1>8. ASSUME NEW s \in Streams, PutEnters(s) PROVE BudgetInv'
  BY <1>8 DEF PutEnters
<1>9. ASSUME NEW s \in Streams, PutReturns(s) PROVE BudgetInv'
  BY <1>9 DEF PutReturns
<1>10. ASSUME NEW s \in Streams, PutCancelled(s) PROVE BudgetInv'
  BY <1>10 DEF PutCancelled
<1>11. ASSUME NEW s \in Streams, GraphEmits(s) PROVE BudgetInv'
  BY <1>11 DEF GraphEmits, Offer, Fits
<1>12. ASSUME NEW s \in Streams, LimitReached(s) PROVE BudgetInv'
  BY <1>12 DEF LimitReached
<1>13. ASSUME NEW s \in Streams, GraphCancelled(s) PROVE BudgetInv'
  BY <1>13 DEF GraphCancelled
<1>14. ASSUME NEW s \in Streams, NEW status \in Outcomes,
             OutcomeWithheld(s, status)
      PROVE  BudgetInv'
  BY <1>14 DEF OutcomeWithheld, Settle
<1>15. ASSUME NEW s \in Streams, NEW status \in Outcomes,
             NEW size \in 1..FrameLimit, OutcomeOffered(s, status, size)
      PROVE  BudgetInv'
  BY <1>15 DEF OutcomeOffered, Settle, Offer
<1>16. ASSUME NEW s \in Streams, UnwindEnds(s) PROVE BudgetInv'
  BY <1>16 DEF UnwindEnds, EndWorker
<1>17. ASSUME NEW s \in Streams, FinishTransactionFails(s) PROVE BudgetInv'
  BY <1>17 DEF FinishTransactionFails, EndWorker
<1>18. ASSUME NEW s \in Streams, TerminalSent(s) PROVE BudgetInv'
  BY <1>18 DEF TerminalSent, EndWorker
<1>19. ASSUME NEW s \in Streams, StartBarrier(s) PROVE BudgetInv'
  BY <1>19 DEF StartBarrier
<1>20. ASSUME NEW s \in Streams, StartFailed(s) PROVE BudgetInv'
  BY <1>20 DEF StartFailed, CancelWorker
<1>21. ASSUME NEW s \in Streams, Take(s) PROVE BudgetInv'
  BY <1>21 DEF Take
<1>22. ASSUME NEW s \in Streams, Sent(s) PROVE BudgetInv'
  BY <1>22 DEF Sent
<1>23. ASSUME NEW s \in Streams, WorkerEnded(s) PROVE BudgetInv'
  BY <1>23 DEF WorkerEnded, CancelWorker
<1>24. ASSUME NEW s \in Streams, Disconnect(s) PROVE BudgetInv'
  BY <1>24 DEF Disconnect, CancelWorker
<1>25. ASSUME NEW s \in Streams, DisconnectWhileSending(s) PROVE BudgetInv'
  BY <1>25 DEF DisconnectWhileSending
<1>26. ASSUME NEW s \in Streams, GeneratorFinalized(s) PROVE BudgetInv'
  BY <1>26 DEF GeneratorFinalized, CancelWorker
<1>27. ASSUME NEW s \in Streams, Closed(s) PROVE BudgetInv'
  BY <1>27 DEF Closed
<1>28. CASE CloseDispatcher
  BY <1>28 DEF CloseDispatcher
<1>29. CASE UNCHANGED vars
  BY <1>29 DEF vars
<1> HIDE DEF TypeOK, FrameInv, ClientInv, BudgetInv
<1> QED
  BY <1>1, <1>2, <1>3, <1>4, <1>5, <1>6, <1>7, <1>8, <1>9, <1>10, <1>11,
    <1>12, <1>13, <1>14, <1>15, <1>16, <1>17, <1>18, <1>19, <1>20, <1>21,
    <1>22, <1>23, <1>24, <1>25, <1>26, <1>27, <1>28, <1>29, GraphSteps DEF
    Next, Admission, Setup, Publish, Finish, Respond, Leave

\* The HTTP side holds a frame exactly while it sends it.
LEMMA ClientStep ==
  ASSUME TypeOK, RunInv, ClientInv, BudgetInv, [Next]_vars
  PROVE  ClientInv'
<1> USE FrameFields DEF TypeOK, ClientInv, Outcomes
<1>1. ASSUME NEW s \in Streams, Start(s) PROVE ClientInv'
  BY <1>1 DEF Start
<1>2. ASSUME NEW s \in Streams, Admit(s) PROVE ClientInv'
  BY <1>2 DEF Admit, CanAdmit
<1>3. ASSUME NEW s \in Streams, Refuse(s) PROVE ClientInv'
  BY <1>3 DEF Refuse, CanAdmit, EndWorker
<1>4. ASSUME NEW s \in Streams, CancelBeforeFirstStep(s) PROVE ClientInv'
  BY <1>4 DEF CancelBeforeFirstStep
<1>5. ASSUME NEW s \in Streams, SetupRefused(s) PROVE ClientInv'
  BY <1>5 DEF SetupRefused, EndWorker
<1>6. ASSUME NEW s \in Streams, SetupCancelled(s) PROVE ClientInv'
  BY <1>6 DEF SetupCancelled, EndWorker, LockFree
<1>7. ASSUME NEW s \in Streams, BeginRun(s) PROVE ClientInv'
  BY <1>7 DEF BeginRun, Offer, LockFree
<1>8. ASSUME NEW s \in Streams, PutEnters(s) PROVE ClientInv'
  BY <1>8 DEF PutEnters
<1>9. ASSUME NEW s \in Streams, PutReturns(s) PROVE ClientInv'
  BY <1>9 DEF PutReturns
<1>10. ASSUME NEW s \in Streams, PutCancelled(s) PROVE ClientInv'
  BY <1>10 DEF PutCancelled
<1>11. ASSUME NEW s \in Streams, GraphEmits(s) PROVE ClientInv'
  BY <1>11 DEF GraphEmits, Offer, Fits
<1>12. ASSUME NEW s \in Streams, LimitReached(s) PROVE ClientInv'
  BY <1>12 DEF LimitReached
<1>13. ASSUME NEW s \in Streams, GraphCancelled(s) PROVE ClientInv'
  BY <1>13 DEF GraphCancelled
<1>14. ASSUME NEW s \in Streams, NEW status \in Outcomes,
             OutcomeWithheld(s, status)
      PROVE  ClientInv'
  BY <1>14 DEF OutcomeWithheld, Settle
<1>15. ASSUME NEW s \in Streams, NEW status \in Outcomes,
             NEW size \in 1..FrameLimit, OutcomeOffered(s, status, size)
      PROVE  ClientInv'
  BY <1>15 DEF OutcomeOffered, Settle, Offer
<1>16. ASSUME NEW s \in Streams, UnwindEnds(s) PROVE ClientInv'
  BY <1>16 DEF UnwindEnds, EndWorker
<1>17. ASSUME NEW s \in Streams, FinishTransactionFails(s) PROVE ClientInv'
  BY <1>17 DEF FinishTransactionFails, EndWorker
<1>18. ASSUME NEW s \in Streams, TerminalSent(s) PROVE ClientInv'
  BY <1>18 DEF TerminalSent, EndWorker
<1>19. ASSUME NEW s \in Streams, StartBarrier(s) PROVE ClientInv'
  BY <1>19 DEF StartBarrier
<1>20. ASSUME NEW s \in Streams, StartFailed(s) PROVE ClientInv'
  BY <1>20 DEF StartFailed, CancelWorker
<1>21. ASSUME NEW s \in Streams, Take(s) PROVE ClientInv'
  BY <1>21 DEF Take
<1>22. ASSUME NEW s \in Streams, Sent(s) PROVE ClientInv'
  BY <1>22 DEF Sent
<1>23. ASSUME NEW s \in Streams, WorkerEnded(s) PROVE ClientInv'
  BY <1>23 DEF WorkerEnded, CancelWorker
<1>24. ASSUME NEW s \in Streams, Disconnect(s) PROVE ClientInv'
  BY <1>24 DEF Disconnect, CancelWorker
<1>25. ASSUME NEW s \in Streams, DisconnectWhileSending(s) PROVE ClientInv'
  BY <1>25 DEF DisconnectWhileSending
<1>26. ASSUME NEW s \in Streams, GeneratorFinalized(s) PROVE ClientInv'
  BY <1>26 DEF GeneratorFinalized, CancelWorker
<1>27. ASSUME NEW s \in Streams, Closed(s) PROVE ClientInv'
  BY <1>27 DEF Closed
<1>28. CASE CloseDispatcher
  BY <1>28 DEF CloseDispatcher
<1>29. CASE UNCHANGED vars
  BY <1>29 DEF vars
<1> HIDE DEF TypeOK, ClientInv
<1> QED
  BY <1>1, <1>2, <1>3, <1>4, <1>5, <1>6, <1>7, <1>8, <1>9, <1>10, <1>11,
    <1>12, <1>13, <1>14, <1>15, <1>16, <1>17, <1>18, <1>19, <1>20, <1>21,
    <1>22, <1>23, <1>24, <1>25, <1>26, <1>27, <1>28, <1>29, GraphSteps DEF
    Next, Admission, Setup, Publish, Finish, Respond, Leave

\* BeginRun checks the lock, and no other step enters run_turn.
LEMMA LockStep ==
  ASSUME TypeOK, RunInv, LockInv, BudgetInv, [Next]_vars
  PROVE  LockInv'
<1> USE DEF TypeOK, LockInv, RunTurnPhases, Outcomes
<1>1. ASSUME NEW s \in Streams, Start(s) PROVE LockInv'
  BY <1>1, SMTT(60) DEF Start
<1>2. ASSUME NEW s \in Streams, Admit(s) PROVE LockInv'
  BY <1>2, ZenonT(60) DEF Admit, CanAdmit
<1>3. ASSUME NEW s \in Streams, Refuse(s) PROVE LockInv'
  BY <1>3, ZenonT(60) DEF Refuse, CanAdmit, EndWorker
<1>4. ASSUME NEW s \in Streams, CancelBeforeFirstStep(s) PROVE LockInv'
  BY <1>4, SMTT(60) DEF CancelBeforeFirstStep
<1>5. ASSUME NEW s \in Streams, SetupRefused(s) PROVE LockInv'
  BY <1>5, ZenonT(60) DEF SetupRefused, EndWorker
<1>6. ASSUME NEW s \in Streams, SetupCancelled(s) PROVE LockInv'
  BY <1>6, ZenonT(60) DEF SetupCancelled, EndWorker, LockFree
<1>7. ASSUME NEW s \in Streams, BeginRun(s) PROVE LockInv'
  BY <1>7, SMTT(60) DEF BeginRun, Offer, LockFree
<1>8. ASSUME NEW s \in Streams, PutEnters(s) PROVE LockInv'
  BY <1>8, SMTT(60) DEF PutEnters
<1>9. ASSUME NEW s \in Streams, PutReturns(s) PROVE LockInv'
  BY <1>9, SMTT(60) DEF PutReturns
<1>10. ASSUME NEW s \in Streams, PutCancelled(s) PROVE LockInv'
  BY <1>10 DEF PutCancelled
<1>11. ASSUME NEW s \in Streams, GraphEmits(s) PROVE LockInv'
  BY <1>11, ZenonT(60) DEF GraphEmits, Offer, Fits
<1>12. ASSUME NEW s \in Streams, LimitReached(s) PROVE LockInv'
  BY <1>12, ZenonT(60) DEF LimitReached
<1>13. ASSUME NEW s \in Streams, GraphCancelled(s) PROVE LockInv'
  BY <1>13, ZenonT(60) DEF GraphCancelled
<1>14. ASSUME NEW s \in Streams, NEW status \in Outcomes,
             OutcomeWithheld(s, status)
      PROVE  LockInv'
  BY <1>14, SMTT(60) DEF OutcomeWithheld, Settle
<1>15. ASSUME NEW s \in Streams, NEW status \in Outcomes,
             NEW size \in 1..FrameLimit, OutcomeOffered(s, status, size)
      PROVE  LockInv'
  BY <1>15, ZenonT(60) DEF OutcomeOffered, Settle, Offer
<1>16. ASSUME NEW s \in Streams, UnwindEnds(s) PROVE LockInv'
  BY <1>16 DEF UnwindEnds, EndWorker
<1>17. ASSUME NEW s \in Streams, FinishTransactionFails(s) PROVE LockInv'
  BY <1>17, SMTT(60) DEF FinishTransactionFails, EndWorker
<1>18. ASSUME NEW s \in Streams, TerminalSent(s) PROVE LockInv'
  BY <1>18, ZenonT(60) DEF TerminalSent, EndWorker
<1>19. ASSUME NEW s \in Streams, StartBarrier(s) PROVE LockInv'
  BY <1>19 DEF StartBarrier
<1>20. ASSUME NEW s \in Streams, StartFailed(s) PROVE LockInv'
  BY <1>20 DEF StartFailed, CancelWorker
<1>21. ASSUME NEW s \in Streams, Take(s) PROVE LockInv'
  BY <1>21 DEF Take
<1>22. ASSUME NEW s \in Streams, Sent(s) PROVE LockInv'
  BY <1>22 DEF Sent
<1>23. ASSUME NEW s \in Streams, WorkerEnded(s) PROVE LockInv'
  BY <1>23 DEF WorkerEnded, CancelWorker
<1>24. ASSUME NEW s \in Streams, Disconnect(s) PROVE LockInv'
  BY <1>24 DEF Disconnect, CancelWorker
<1>25. ASSUME NEW s \in Streams, DisconnectWhileSending(s) PROVE LockInv'
  BY <1>25 DEF DisconnectWhileSending
<1>26. ASSUME NEW s \in Streams, GeneratorFinalized(s) PROVE LockInv'
  BY <1>26 DEF GeneratorFinalized, CancelWorker
<1>27. ASSUME NEW s \in Streams, Closed(s) PROVE LockInv'
  BY <1>27 DEF Closed
<1>28. CASE CloseDispatcher
  BY <1>28 DEF CloseDispatcher
<1>29. CASE UNCHANGED vars
  BY <1>29 DEF vars
<1> HIDE DEF TypeOK, LockInv
<1> QED
  BY <1>1, <1>2, <1>3, <1>4, <1>5, <1>6, <1>7, <1>8, <1>9, <1>10, <1>11,
    <1>12, <1>13, <1>14, <1>15, <1>16, <1>17, <1>18, <1>19, <1>20, <1>21,
    <1>22, <1>23, <1>24, <1>25, <1>26, <1>27, <1>28, <1>29, GraphSteps DEF
    Next, Admission, Setup, Publish, Finish, Respond, Leave

\* The sequence numbers stay contiguous from the worker to the client.
LEMMA SequenceStep ==
  ASSUME TypeOK, RunInv, FrameInv, SequenceInv, ClientInv, BudgetInv,
         [Next]_vars
  PROVE  SequenceInv'
<1> USE FrameFields DEF TypeOK, RunInv, FrameInv, SequenceInv, SequenceOf,
    ClientInv, Delivered, Kinds, TerminalKinds, Outcomes
<1>1. ASSUME NEW s \in Streams, Start(s) PROVE SequenceInv'
  BY <1>1, StartKeepsSequence
<1>2. ASSUME NEW s \in Streams, Admit(s) PROVE SequenceInv'
  BY <1>2 DEF Admit, CanAdmit
<1>3. ASSUME NEW s \in Streams, Refuse(s) PROVE SequenceInv'
  BY <1>3 DEF Refuse, CanAdmit, EndWorker
<1>4. ASSUME NEW s \in Streams, CancelBeforeFirstStep(s) PROVE SequenceInv'
  BY <1>4 DEF CancelBeforeFirstStep
<1>5. ASSUME NEW s \in Streams, SetupRefused(s) PROVE SequenceInv'
  BY <1>5 DEF SetupRefused, EndWorker
<1>6. ASSUME NEW s \in Streams, SetupCancelled(s) PROVE SequenceInv'
  BY <1>6 DEF SetupCancelled, EndWorker, LockFree
<1>7. ASSUME NEW s \in Streams, BeginRun(s) PROVE SequenceInv'
  BY <1>7 DEF BeginRun, Offer, LockFree
<1>8. ASSUME NEW s \in Streams, PutEnters(s) PROVE SequenceInv'
  BY <1>8, SMTT(60) DEF PutEnters
<1>9. ASSUME NEW s \in Streams, PutReturns(s) PROVE SequenceInv'
  BY <1>9, SMTT(60) DEF PutReturns
<1>10. ASSUME NEW s \in Streams, PutCancelled(s) PROVE SequenceInv'
  BY <1>10 DEF PutCancelled
<1>11. ASSUME NEW s \in Streams, GraphEmits(s) PROVE SequenceInv'
  BY <1>11, SMTT(60) DEF GraphEmits, Offer, Fits
<1>12. ASSUME NEW s \in Streams, LimitReached(s) PROVE SequenceInv'
  BY <1>12 DEF LimitReached
<1>13. ASSUME NEW s \in Streams, GraphCancelled(s) PROVE SequenceInv'
  BY <1>13 DEF GraphCancelled
<1>14. ASSUME NEW s \in Streams, NEW status \in Outcomes,
             OutcomeWithheld(s, status)
      PROVE  SequenceInv'
  BY <1>14 DEF OutcomeWithheld, Settle
<1>15. ASSUME NEW s \in Streams, NEW status \in Outcomes,
             NEW size \in 1..FrameLimit, OutcomeOffered(s, status, size)
      PROVE  SequenceInv'
  BY <1>15, SMTT(60) DEF OutcomeOffered, Settle, Offer
<1>16. ASSUME NEW s \in Streams, UnwindEnds(s) PROVE SequenceInv'
  BY <1>16 DEF UnwindEnds, EndWorker
<1>17. ASSUME NEW s \in Streams, FinishTransactionFails(s) PROVE SequenceInv'
  BY <1>17 DEF FinishTransactionFails, EndWorker
<1>18. ASSUME NEW s \in Streams, TerminalSent(s) PROVE SequenceInv'
  BY <1>18 DEF TerminalSent, EndWorker
<1>19. ASSUME NEW s \in Streams, StartBarrier(s) PROVE SequenceInv'
  BY <1>19 DEF StartBarrier
<1>20. ASSUME NEW s \in Streams, StartFailed(s) PROVE SequenceInv'
  BY <1>20 DEF StartFailed, CancelWorker
<1>21. ASSUME NEW s \in Streams, Take(s) PROVE SequenceInv'
  BY <1>21, TakeKeepsSequence
<1>22. ASSUME NEW s \in Streams, Sent(s) PROVE SequenceInv'
  BY <1>22, SMTT(60) DEF Sent
<1>23. ASSUME NEW s \in Streams, WorkerEnded(s) PROVE SequenceInv'
  BY <1>23 DEF WorkerEnded, CancelWorker
<1>24. ASSUME NEW s \in Streams, Disconnect(s) PROVE SequenceInv'
  BY <1>24 DEF Disconnect, CancelWorker
<1>25. ASSUME NEW s \in Streams, DisconnectWhileSending(s) PROVE SequenceInv'
  BY <1>25 DEF DisconnectWhileSending
<1>26. ASSUME NEW s \in Streams, GeneratorFinalized(s) PROVE SequenceInv'
  BY <1>26 DEF GeneratorFinalized, CancelWorker
<1>27. ASSUME NEW s \in Streams, Closed(s) PROVE SequenceInv'
  BY <1>27 DEF Closed
<1>28. CASE CloseDispatcher
  BY <1>28 DEF CloseDispatcher
<1>29. CASE UNCHANGED vars
  BY <1>29 DEF vars
<1> HIDE DEF TypeOK, RunInv, FrameInv, SequenceInv, ClientInv
<1> QED
  BY <1>1, <1>2, <1>3, <1>4, <1>5, <1>6, <1>7, <1>8, <1>9, <1>10, <1>11,
    <1>12, <1>13, <1>14, <1>15, <1>16, <1>17, <1>18, <1>19, <1>20, <1>21,
    <1>22, <1>23, <1>24, <1>25, <1>26, <1>27, <1>28, <1>29, GraphSteps DEF
    Next, Admission, Setup, Publish, Finish, Respond, Leave

\* Frames on their way keep agreeing with the Run: a terminal Run is final.
LEMMA FrameStep ==
  ASSUME TypeOK, RunInv, FrameInv, SequenceInv, ClientInv, BudgetInv,
         [Next]_vars
  PROVE  FrameInv'
<1> USE FrameFields DEF TypeOK, RunInv, FrameInv, SequenceInv, SequenceOf,
    ClientInv, Reports, Kinds, TerminalKinds, TerminalStatus, Outcomes
<1>1. ASSUME NEW s \in Streams, Start(s) PROVE FrameInv'
  BY <1>1 DEF Start
<1>2. ASSUME NEW s \in Streams, Admit(s) PROVE FrameInv'
  BY <1>2 DEF Admit, CanAdmit
<1>3. ASSUME NEW s \in Streams, Refuse(s) PROVE FrameInv'
  BY <1>3 DEF Refuse, CanAdmit, EndWorker
<1>4. ASSUME NEW s \in Streams, CancelBeforeFirstStep(s) PROVE FrameInv'
  BY <1>4 DEF CancelBeforeFirstStep
<1>5. ASSUME NEW s \in Streams, SetupRefused(s) PROVE FrameInv'
  BY <1>5 DEF SetupRefused, EndWorker
<1>6. ASSUME NEW s \in Streams, SetupCancelled(s) PROVE FrameInv'
  BY <1>6 DEF SetupCancelled, EndWorker, LockFree
<1>7. ASSUME NEW s \in Streams, BeginRun(s) PROVE FrameInv'
  BY <1>7 DEF BeginRun, Offer, LockFree
<1>8. ASSUME NEW s \in Streams, PutEnters(s) PROVE FrameInv'
  BY <1>8 DEF PutEnters
<1>9. ASSUME NEW s \in Streams, PutReturns(s) PROVE FrameInv'
  BY <1>9, SMTT(60) DEF PutReturns
<1>10. ASSUME NEW s \in Streams, PutCancelled(s) PROVE FrameInv'
  BY <1>10 DEF PutCancelled
<1>11. ASSUME NEW s \in Streams, GraphEmits(s) PROVE FrameInv'
  BY <1>11, SMTT(60) DEF GraphEmits, Offer, Fits
<1>12. ASSUME NEW s \in Streams, LimitReached(s) PROVE FrameInv'
  BY <1>12 DEF LimitReached
<1>13. ASSUME NEW s \in Streams, GraphCancelled(s) PROVE FrameInv'
  BY <1>13 DEF GraphCancelled
<1>14. ASSUME NEW s \in Streams, NEW status \in Outcomes,
             OutcomeWithheld(s, status)
      PROVE  FrameInv'
  BY <1>14 DEF OutcomeWithheld, Settle
<1>15. ASSUME NEW s \in Streams, NEW status \in Outcomes,
             NEW size \in 1..FrameLimit, OutcomeOffered(s, status, size)
      PROVE  FrameInv'
  BY <1>15, SMTT(60) DEF OutcomeOffered, Settle, Offer
<1>16. ASSUME NEW s \in Streams, UnwindEnds(s) PROVE FrameInv'
  BY <1>16 DEF UnwindEnds, EndWorker
<1>17. ASSUME NEW s \in Streams, FinishTransactionFails(s) PROVE FrameInv'
  BY <1>17 DEF FinishTransactionFails, EndWorker
<1>18. ASSUME NEW s \in Streams, TerminalSent(s) PROVE FrameInv'
  BY <1>18 DEF TerminalSent, EndWorker
<1>19. ASSUME NEW s \in Streams, StartBarrier(s) PROVE FrameInv'
  BY <1>19 DEF StartBarrier
<1>20. ASSUME NEW s \in Streams, StartFailed(s) PROVE FrameInv'
  BY <1>20 DEF StartFailed, CancelWorker
<1>21. ASSUME NEW s \in Streams, Take(s) PROVE FrameInv'
  BY <1>21 DEF Take
<1>22. ASSUME NEW s \in Streams, Sent(s) PROVE FrameInv'
  BY <1>22 DEF Sent
<1>23. ASSUME NEW s \in Streams, WorkerEnded(s) PROVE FrameInv'
  BY <1>23 DEF WorkerEnded, CancelWorker
<1>24. ASSUME NEW s \in Streams, Disconnect(s) PROVE FrameInv'
  BY <1>24 DEF Disconnect, CancelWorker
<1>25. ASSUME NEW s \in Streams, DisconnectWhileSending(s) PROVE FrameInv'
  BY <1>25 DEF DisconnectWhileSending
<1>26. ASSUME NEW s \in Streams, GeneratorFinalized(s) PROVE FrameInv'
  BY <1>26 DEF GeneratorFinalized, CancelWorker
<1>27. ASSUME NEW s \in Streams, Closed(s) PROVE FrameInv'
  BY <1>27 DEF Closed
<1>28. CASE CloseDispatcher
  BY <1>28 DEF CloseDispatcher
<1>29. CASE UNCHANGED vars
  BY <1>29 DEF vars
<1> HIDE DEF TypeOK, RunInv, FrameInv, SequenceInv, ClientInv
<1> QED
  BY <1>1, <1>2, <1>3, <1>4, <1>5, <1>6, <1>7, <1>8, <1>9, <1>10, <1>11,
    <1>12, <1>13, <1>14, <1>15, <1>16, <1>17, <1>18, <1>19, <1>20, <1>21,
    <1>22, <1>23, <1>24, <1>25, <1>26, <1>27, <1>28, <1>29, GraphSteps DEF
    Next, Admission, Setup, Publish, Finish, Respond, Leave

\* An undisturbed worker waits in wait_terminal_sent.
LEMMA ReportedStep ==
  ASSUME TypeOK, RunInv, UndisturbedTurnIsReported, ClientInv, BudgetInv,
         [Next]_vars
  PROVE  UndisturbedTurnIsReported'
<1> USE FrameFields DEF TypeOK, RunInv, UndisturbedTurnIsReported, ClientInv,
    Outcomes
<1>1. ASSUME NEW s \in Streams, Start(s)
      PROVE  UndisturbedTurnIsReported'
  BY <1>1 DEF Start
<1>2. ASSUME NEW s \in Streams, Admit(s)
      PROVE  UndisturbedTurnIsReported'
  BY <1>2 DEF Admit, CanAdmit
<1>3. ASSUME NEW s \in Streams, Refuse(s)
      PROVE  UndisturbedTurnIsReported'
  BY <1>3 DEF Refuse, CanAdmit, EndWorker
<1>4. ASSUME NEW s \in Streams, CancelBeforeFirstStep(s)
      PROVE  UndisturbedTurnIsReported'
  BY <1>4 DEF CancelBeforeFirstStep
<1>5. ASSUME NEW s \in Streams, SetupRefused(s)
      PROVE  UndisturbedTurnIsReported'
  BY <1>5 DEF SetupRefused, EndWorker
<1>6. ASSUME NEW s \in Streams, SetupCancelled(s)
      PROVE  UndisturbedTurnIsReported'
  BY <1>6 DEF SetupCancelled, EndWorker, LockFree
<1>7. ASSUME NEW s \in Streams, BeginRun(s)
      PROVE  UndisturbedTurnIsReported'
  BY <1>7 DEF BeginRun, Offer, LockFree
<1>8. ASSUME NEW s \in Streams, PutEnters(s)
      PROVE  UndisturbedTurnIsReported'
  BY <1>8 DEF PutEnters
<1>9. ASSUME NEW s \in Streams, PutReturns(s)
      PROVE  UndisturbedTurnIsReported'
  BY <1>9 DEF PutReturns
<1>10. ASSUME NEW s \in Streams, PutCancelled(s)
      PROVE  UndisturbedTurnIsReported'
  BY <1>10 DEF PutCancelled
<1>11. ASSUME NEW s \in Streams, GraphEmits(s)
      PROVE  UndisturbedTurnIsReported'
  BY <1>11 DEF GraphEmits, Offer, Fits
<1>12. ASSUME NEW s \in Streams, LimitReached(s)
      PROVE  UndisturbedTurnIsReported'
  BY <1>12 DEF LimitReached
<1>13. ASSUME NEW s \in Streams, GraphCancelled(s)
      PROVE  UndisturbedTurnIsReported'
  BY <1>13 DEF GraphCancelled
<1>14. ASSUME NEW s \in Streams, NEW status \in Outcomes,
             OutcomeWithheld(s, status)
      PROVE  UndisturbedTurnIsReported'
  BY <1>14 DEF OutcomeWithheld, Settle
<1>15. ASSUME NEW s \in Streams, NEW status \in Outcomes,
             NEW size \in 1..FrameLimit, OutcomeOffered(s, status, size)
      PROVE  UndisturbedTurnIsReported'
  BY <1>15 DEF OutcomeOffered, Settle, Offer
<1>16. ASSUME NEW s \in Streams, UnwindEnds(s)
      PROVE  UndisturbedTurnIsReported'
  BY <1>16 DEF UnwindEnds, EndWorker
<1>17. ASSUME NEW s \in Streams, FinishTransactionFails(s)
      PROVE  UndisturbedTurnIsReported'
  BY <1>17 DEF FinishTransactionFails, EndWorker
<1>18. ASSUME NEW s \in Streams, TerminalSent(s)
      PROVE  UndisturbedTurnIsReported'
  BY <1>18 DEF TerminalSent, EndWorker
<1>19. ASSUME NEW s \in Streams, StartBarrier(s)
      PROVE  UndisturbedTurnIsReported'
  BY <1>19 DEF StartBarrier
<1>20. ASSUME NEW s \in Streams, StartFailed(s)
      PROVE  UndisturbedTurnIsReported'
  BY <1>20 DEF StartFailed, CancelWorker
<1>21. ASSUME NEW s \in Streams, Take(s)
      PROVE  UndisturbedTurnIsReported'
  BY <1>21 DEF Take
<1>22. ASSUME NEW s \in Streams, Sent(s)
      PROVE  UndisturbedTurnIsReported'
  BY <1>22 DEF Sent
<1>23. ASSUME NEW s \in Streams, WorkerEnded(s)
      PROVE  UndisturbedTurnIsReported'
  BY <1>23 DEF WorkerEnded, CancelWorker
<1>24. ASSUME NEW s \in Streams, Disconnect(s)
      PROVE  UndisturbedTurnIsReported'
  BY <1>24 DEF Disconnect, CancelWorker
<1>25. ASSUME NEW s \in Streams, DisconnectWhileSending(s)
      PROVE  UndisturbedTurnIsReported'
  BY <1>25 DEF DisconnectWhileSending
<1>26. ASSUME NEW s \in Streams, GeneratorFinalized(s)
      PROVE  UndisturbedTurnIsReported'
  BY <1>26 DEF GeneratorFinalized, CancelWorker
<1>27. ASSUME NEW s \in Streams, Closed(s)
      PROVE  UndisturbedTurnIsReported'
  BY <1>27 DEF Closed
<1>28. CASE CloseDispatcher
  BY <1>28 DEF CloseDispatcher
<1>29. CASE UNCHANGED vars
  BY <1>29 DEF vars
<1> HIDE DEF TypeOK, RunInv, ClientInv
<1> QED
  BY <1>1, <1>2, <1>3, <1>4, <1>5, <1>6, <1>7, <1>8, <1>9, <1>10, <1>11,
    <1>12, <1>13, <1>14, <1>15, <1>16, <1>17, <1>18, <1>19, <1>20, <1>21,
    <1>22, <1>23, <1>24, <1>25, <1>26, <1>27, <1>28, <1>29, GraphSteps DEF
    Next, Admission, Setup, Publish, Finish, Respond, Leave

\* Admit takes a slot and every exit of the worker gives it back.
LEMMA SlotStep ==
  ASSUME TypeOK, RunInv, ClientInv, BudgetInv, IsFiniteSet(active),
         SlotOwnership, [Next]_vars
  PROVE  (IsFiniteSet(active) /\ SlotOwnership)'
<1> USE DEF TypeOK, SlotOwnership, ClientInv, OwnedPhases, RunTurnPhases,
    Outcomes
<1>1. ASSUME NEW s \in Streams, Start(s)
      PROVE  (IsFiniteSet(active) /\ SlotOwnership)'
  BY <1>1, SMTT(60) DEF Start
<1>2. ASSUME NEW s \in Streams, Admit(s)
      PROVE  (IsFiniteSet(active) /\ SlotOwnership)'
  <2>1. s \notin active
    BY <1>2 DEF Admit
  <2>2. IsFiniteSet(active') /\ Cardinality(active') = Cardinality(active) + 1
    BY <1>2, <2>1, FS_AddElement DEF Admit
  <2>3. Cardinality(active') <= Capacity
    BY <1>2, <2>2, FS_CardinalityType DEF Admit, CanAdmit
  <2>4. active' = {t \in Streams : worker'[t] \in OwnedPhases}
    BY <1>2 DEF Admit
  <2>5. \A t, u \in active' : request'[t] = request'[u] => t = u
    BY <1>2, SMTT(60) DEF Admit, CanAdmit
  <2> QED
    BY <2>2, <2>3, <2>4, <2>5
<1>3. ASSUME NEW s \in Streams, Refuse(s)
      PROVE  (IsFiniteSet(active) /\ SlotOwnership)'
  BY <1>3, EndWorkerSlots DEF Refuse
<1>4. ASSUME NEW s \in Streams, CancelBeforeFirstStep(s)
      PROVE  (IsFiniteSet(active) /\ SlotOwnership)'
  BY <1>4 DEF CancelBeforeFirstStep
<1>5. ASSUME NEW s \in Streams, SetupRefused(s)
      PROVE  (IsFiniteSet(active) /\ SlotOwnership)'
  BY <1>5, EndWorkerSlots DEF SetupRefused
<1>6. ASSUME NEW s \in Streams, SetupCancelled(s)
      PROVE  (IsFiniteSet(active) /\ SlotOwnership)'
  BY <1>6, EndWorkerSlots DEF SetupCancelled
<1>7. ASSUME NEW s \in Streams, BeginRun(s)
      PROVE  (IsFiniteSet(active) /\ SlotOwnership)'
  BY <1>7 DEF BeginRun, Offer, LockFree
<1>8. ASSUME NEW s \in Streams, PutEnters(s)
      PROVE  (IsFiniteSet(active) /\ SlotOwnership)'
  BY <1>8 DEF PutEnters
<1>9. ASSUME NEW s \in Streams, PutReturns(s)
      PROVE  (IsFiniteSet(active) /\ SlotOwnership)'
  BY <1>9 DEF PutReturns
<1>10. ASSUME NEW s \in Streams, PutCancelled(s)
      PROVE  (IsFiniteSet(active) /\ SlotOwnership)'
  BY <1>10 DEF PutCancelled
<1>11. ASSUME NEW s \in Streams, GraphEmits(s)
      PROVE  (IsFiniteSet(active) /\ SlotOwnership)'
  BY <1>11 DEF GraphEmits, Offer, Fits
<1>12. ASSUME NEW s \in Streams, LimitReached(s)
      PROVE  (IsFiniteSet(active) /\ SlotOwnership)'
  BY <1>12 DEF LimitReached
<1>13. ASSUME NEW s \in Streams, GraphCancelled(s)
      PROVE  (IsFiniteSet(active) /\ SlotOwnership)'
  BY <1>13 DEF GraphCancelled
<1>14. ASSUME NEW s \in Streams, NEW status \in Outcomes,
             OutcomeWithheld(s, status)
      PROVE  (IsFiniteSet(active) /\ SlotOwnership)'
  BY <1>14 DEF OutcomeWithheld, Settle
<1>15. ASSUME NEW s \in Streams, NEW status \in Outcomes,
             NEW size \in 1..FrameLimit, OutcomeOffered(s, status, size)
      PROVE  (IsFiniteSet(active) /\ SlotOwnership)'
  BY <1>15 DEF OutcomeOffered, Settle, Offer
<1>16. ASSUME NEW s \in Streams, UnwindEnds(s)
      PROVE  (IsFiniteSet(active) /\ SlotOwnership)'
  BY <1>16, EndWorkerSlots DEF UnwindEnds
<1>17. ASSUME NEW s \in Streams, FinishTransactionFails(s)
      PROVE  (IsFiniteSet(active) /\ SlotOwnership)'
  BY <1>17, EndWorkerSlots DEF FinishTransactionFails
<1>18. ASSUME NEW s \in Streams, TerminalSent(s)
      PROVE  (IsFiniteSet(active) /\ SlotOwnership)'
  BY <1>18, EndWorkerSlots DEF TerminalSent
<1>19. ASSUME NEW s \in Streams, StartBarrier(s)
      PROVE  (IsFiniteSet(active) /\ SlotOwnership)'
  BY <1>19, SMTT(60) DEF StartBarrier
<1>20. ASSUME NEW s \in Streams, StartFailed(s)
      PROVE  (IsFiniteSet(active) /\ SlotOwnership)'
  BY <1>20, SMTT(60) DEF StartFailed, CancelWorker
<1>21. ASSUME NEW s \in Streams, Take(s)
      PROVE  (IsFiniteSet(active) /\ SlotOwnership)'
  BY <1>21, SMTT(60) DEF Take
<1>22. ASSUME NEW s \in Streams, Sent(s)
      PROVE  (IsFiniteSet(active) /\ SlotOwnership)'
  BY <1>22, SMTT(60) DEF Sent
<1>23. ASSUME NEW s \in Streams, WorkerEnded(s)
      PROVE  (IsFiniteSet(active) /\ SlotOwnership)'
  BY <1>23 DEF WorkerEnded, CancelWorker
<1>24. ASSUME NEW s \in Streams, Disconnect(s)
      PROVE  (IsFiniteSet(active) /\ SlotOwnership)'
  BY <1>24, SMTT(60) DEF Disconnect, CancelWorker
<1>25. ASSUME NEW s \in Streams, DisconnectWhileSending(s)
      PROVE  (IsFiniteSet(active) /\ SlotOwnership)'
  BY <1>25, SMTT(60) DEF DisconnectWhileSending
<1>26. ASSUME NEW s \in Streams, GeneratorFinalized(s)
      PROVE  (IsFiniteSet(active) /\ SlotOwnership)'
  BY <1>26, SMTT(60) DEF GeneratorFinalized, CancelWorker
<1>27. ASSUME NEW s \in Streams, Closed(s)
      PROVE  (IsFiniteSet(active) /\ SlotOwnership)'
  BY <1>27, SMTT(60) DEF Closed
<1>28. CASE CloseDispatcher
  BY <1>28 DEF CloseDispatcher
<1>29. CASE UNCHANGED vars
  BY <1>29 DEF vars
<1> HIDE DEF TypeOK, ClientInv
<1> QED
  BY <1>1, <1>2, <1>3, <1>4, <1>5, <1>6, <1>7, <1>8, <1>9, <1>10, <1>11,
    <1>12, <1>13, <1>14, <1>15, <1>16, <1>17, <1>18, <1>19, <1>20, <1>21,
    <1>22, <1>23, <1>24, <1>25, <1>26, <1>27, <1>28, <1>29, GraphSteps DEF
    Next, Admission, Setup, Publish, Finish, Respond, Leave

-----------------------------------------------------------------------------
\* Before the first request there is no frame, no slot and no Run.
LEMMA InitEstablishes == Init => IInv
<1> SUFFICES ASSUME Init PROVE IInv
  OBVIOUS
<1> USE DEF Init
<1>1. TypeOK
  <2>1. 0 \in 0..BodyLimit /\ 0 \in Nat
    OBVIOUS
  <2>2. <<>> \in Seq(Frames)
    OBVIOUS
  <2>3. /\ "none" \in WorkerPhases
        /\ "absent" \in ConsumerPhases
        /\ "pending" \in {"pending", "ok", "error"}
    BY DEF WorkerPhases, OwnedPhases, RunTurnPhases, ConsumerPhases
  <2>4. /\ queue \in [Streams -> Seq(Frames)]
        /\ bytes \in [Streams -> 0..BodyLimit]
        /\ worker \in [Streams -> WorkerPhases]
        /\ consumer \in [Streams -> ConsumerPhases]
    BY <2>1, <2>2, <2>3
  <2> QED
    BY <2>1, <2>4 DEF TypeOK
<1>2. IsFiniteSet(active) /\ SlotOwnership
  BY FS_EmptySet DEF SlotOwnership, OwnedPhases, RunTurnPhases
<1>3. RunInv /\ FrameInv /\ BudgetInv /\ LockInv /\ UndisturbedTurnIsReported
  BY DEF RunInv, FrameInv, BudgetInv, LockInv, UndisturbedTurnIsReported,
         RunTurnPhases
<1>4. SequenceInv /\ ClientInv
  BY DEF SequenceInv, SequenceOf, ClientInv, Delivered, TerminalKinds
<1> QED
  BY <1>1, <1>2, <1>3, <1>4 DEF IInv

\* Every step of the dispatcher, the worker, the client and the process keeps
\* the inductive invariant: one lemma per conjunct.
LEMMA NextPreserves == IInv /\ [Next]_vars => IInv'
BY TypeStep, SlotStep, RunStep, FrameStep, SequenceStep, ClientStep, BudgetStep,
   LockStep, ReportedStep DEF IInv

\* The inductive invariant holds in every reachable state.
THEOREM Invariance == Spec => []IInv
BY InitEstablishes, NextPreserves, PTL DEF Spec

\* Every variable keeps its type; in particular the encoded bytes never pass
\* the body limit.
THEOREM TypeCorrect == Spec => []TypeOK
<1>1. IInv => TypeOK
  BY DEF IInv
<1> QED
  BY <1>1, Invariance, PTL

\* RequestDispatcher: the slots in use are exactly the admitted workers,
\* within the capacity, one per request ID.
THEOREM SlotsExact == Spec => []SlotOwnership
<1>1. IInv => SlotOwnership
  BY DEF IInv
<1> QED
  BY <1>1, Invariance, PTL

\* _AgentEventPublisher and events(): the client sees 0, 1, 2, ... without a
\* gap, whatever is cancelled.
THEOREM ContiguousFrames == Spec => []FramesContiguous
<1>1. IInv => FramesContiguous
  BY DEF IInv, SequenceInv, SequenceOf, Delivered, FramesContiguous
<1> QED
  BY <1>1, Invariance, PTL

\* The terminal reserve and wait_terminal_sent: a turn that nobody disturbed
\* has told its client how it ended before its slot is given up.
THEOREM UndisturbedReported == Spec => []UndisturbedTurnIsReported
<1>1. IInv => UndisturbedTurnIsReported
  BY DEF IInv
<1> QED
  BY <1>1, Invariance, PTL

\* run_turn's cancellation path: no worker ends and leaves its Run RUNNING.
THEOREM NoOrphan == Spec => []NoOrphanRun
<1>1. IInv => NoOrphanRun
  BY DEF IInv, RunInv, NoOrphanRun
<1> QED
  BY <1>1, Invariance, PTL

\* _conversation_lock: one RUNNING Run per conversation.
THEOREM OneRun == Spec => []OneRunPerConversation
<1>1. IInv => OneRunPerConversation
  <2> SUFFICES ASSUME IInv, NEW s \in Streams, NEW t \in Streams, s # t,
                      Conversation[s] = Conversation[t],
                      run[s] = "RUNNING", run[t] = "RUNNING",
                      ~dbFault[s], ~dbFault[t]
               PROVE  FALSE
    BY DEF OneRunPerConversation
  <2>1. worker[s] \in RunTurnPhases /\ worker[t] \in RunTurnPhases
    BY DEF IInv, TypeOK, RunInv, WorkerPhases, OwnedPhases, RunTurnPhases
  <2> QED
    BY <2>1 DEF IInv, LockInv
<1> QED
  BY <1>1, Invariance, PTL
-----------------------------------------------------------------------------
\* What the client is told changes only when a frame was sent, and the frame
\* that is sent next is the one the promise allows.
LEMMA SentTells ==
  ASSUME IInv, NEW s \in Streams, Sent(s)
  PROVE  Outcome!Next \/ UNCHANGED Outcome!vars
<1> DEFINE told == [t \in Streams |-> Told(t)]
<1>1. /\ frame[s] # NoFrame /\ frame[s] \in Frames /\ frame[s].kind \in Kinds
      /\ lastFrame[s] \notin TerminalKinds
      /\ Reports(s, frame[s].kind)
      /\ frame[s].kind = "started" <=> lastFrame[s] = "none"
  <2>1. consumer[s] = "sending" /\ frame[s] # NoFrame /\ lastFrame[s] \notin TerminalKinds
    BY DEF IInv, ClientInv, Sent
  <2>2. frame[s] \in Frames /\ frame[s].kind \in Kinds
    BY <2>1, FrameFields DEF IInv, TypeOK
  <2>3. Reports(s, frame[s].kind)
    BY <2>1 DEF IInv, FrameInv
  <2>4. SequenceOf(s)
    BY DEF IInv, SequenceInv
  <2>5. frame[s].kind = "started" <=> lastFrame[s] = "none"
    BY <2>1, <2>4 DEF SequenceOf
  <2> QED
    BY <2>1, <2>2, <2>3, <2>5
<1>2. /\ run' = run
      /\ lastFrame' = [lastFrame EXCEPT ![s] = frame[s].kind]
  BY DEF Sent
<1>3. told' = [told EXCEPT ![s] = CASE frame[s].kind \in {"started", "event"} -> "started"
                                    [] OTHER -> frame[s].kind]
  BY <1>1, <1>2 DEF Told, IInv, TypeOK, Kinds, TerminalKinds
<1>4. CASE frame[s].kind = "started"
  <2>1. told[s] = "nothing" /\ run[s] # "none"
    BY <1>1, <1>4 DEF Told, Reports
  <2>2. Outcome!TellStarted(s)
    BY <1>2, <1>3, <1>4, <2>1 DEF Outcome!TellStarted
  <2> QED
    BY <2>2 DEF Outcome!Next
<1>5. CASE frame[s].kind # "started"
  <2>1. told[s] = "started"
    BY <1>1, <1>5 DEF Told, IInv, TypeOK, Kinds, TerminalKinds
  <2>2. CASE frame[s].kind = "event"
    BY <1>2, <1>3, <2>1, <2>2 DEF Outcome!vars
  <2>3. CASE frame[s].kind = "completed"
    <3>1. Outcome!TellCompleted(s)
      BY <1>1, <1>2, <1>3, <2>1, <2>3 DEF Outcome!TellCompleted, Reports
    <3> QED
      BY <3>1 DEF Outcome!Next
  <2>4. CASE frame[s].kind = "failed"
    <3>1. Outcome!TellFailed(s)
      BY <1>1, <1>2, <1>3, <2>1, <2>4 DEF Outcome!TellFailed, Reports
    <3> QED
      BY <3>1 DEF Outcome!Next
  <2> QED
    BY <1>1, <1>5, <2>2, <2>3, <2>4 DEF Kinds, TerminalKinds
<1> QED
  BY <1>4, <1>5

\* Both together: _conversation_lock and _finish_if_running under every
\* interruption.
THEOREM RunsAlwaysOwned == Spec => []RunsAreOwned
<1>1. OneRunPerConversation /\ NoOrphanRun => RunsAreOwned
  BY DEF RunsAreOwned
<1> QED
  BY <1>1, OneRun, NoOrphan, PTL

\* Every other step tells nothing; it begins or finishes one Run, or neither.
LEMMA RunStepAllowed ==
  ASSUME IInv, NEW s \in Streams, UNCHANGED lastFrame,
         \/ run' = run
         \/ run[s] = "none" /\ run' = [run EXCEPT ![s] = "RUNNING"]
         \/ /\ run[s] = "RUNNING"
            /\ \E status \in TerminalStatus : run' = [run EXCEPT ![s] = status]
  PROVE  Outcome!Next \/ UNCHANGED Outcome!vars
<1>1. UNCHANGED [t \in Streams |-> Told(t)]
  BY DEF Told
<1>2. CASE run' = run
  BY <1>1, <1>2 DEF Outcome!vars
<1>3. CASE run[s] = "none" /\ run' = [run EXCEPT ![s] = "RUNNING"]
  BY <1>1, <1>3 DEF Outcome!Next, Outcome!Begin
<1>4. CASE /\ run[s] = "RUNNING"
           /\ \E status \in TerminalStatus : run' = [run EXCEPT ![s] = status]
  BY <1>1, <1>4 DEF Outcome!Next, Outcome!Finish, Outcome!TerminalStatus, TerminalStatus
<1> QED
  BY <1>2, <1>3, <1>4

\* Every step of the stream maps to a step of AgentTurnOutcome or to none.
LEMMA StepImplements ==
  ASSUME IInv, [Next]_vars
  PROVE  Outcome!Next \/ UNCHANGED Outcome!vars
<1> DEFINE Allowed == Outcome!Next \/ UNCHANGED Outcome!vars
<1> HIDE DEF Allowed
<1>0. TypeOK /\ RunInv /\ BudgetInv
  BY DEF IInv
<1>1. ASSUME NEW s \in Streams, Admission(s) \/ Publish(s) \/ Leave(s) PROVE Allowed
  <2>1. UNCHANGED <<run, lastFrame>>
    BY <1>1 DEF Admission, Publish, Leave, Start, Admit, Refuse,
         CancelBeforeFirstStep, PutEnters, PutReturns, PutCancelled, Disconnect,
         DisconnectWhileSending, GeneratorFinalized, Closed
  <2> QED
    BY <2>1, RunStepAllowed DEF Allowed
<1>2. ASSUME NEW s \in Streams, Setup(s) PROVE Allowed
  <2>1. /\ UNCHANGED lastFrame
        /\ run' = run \/ (run[s] = "none" /\ run' = [run EXCEPT ![s] = "RUNNING"])
    BY <1>0, <1>2 DEF Setup, SetupRefused, SetupCancelled, BeginRun, RunInv
  <2> QED
    BY <2>1, RunStepAllowed DEF Allowed
<1>3. ASSUME NEW s \in Streams, Graph(s) PROVE Allowed
  <2>1. /\ UNCHANGED lastFrame
        /\ \/ run' = run
           \/ /\ run[s] = "RUNNING"
              /\ \E status \in TerminalStatus : run' = [run EXCEPT ![s] = status]
    <3>1. CASE GraphEmits(s) \/ GraphCancelled(s)
      BY <3>1 DEF GraphEmits, GraphCancelled
    <3>2. CASE LimitReached(s)
      BY <1>0, <3>2 DEF LimitReached, RunInv, TerminalStatus
    <3>3. ASSUME NEW status \in Outcomes, Settle(s, status)
          PROVE  /\ UNCHANGED lastFrame
                 /\ \/ run' = run
                    \/ run[s] = "RUNNING" /\ run' = [run EXCEPT ![s] = status]
      BY <1>0, <3>3 DEF Settle, TypeOK
    <3>4. \A status \in Outcomes : status \in TerminalStatus
      BY DEF Outcomes, TerminalStatus
    <3> QED
      BY <1>0, <1>3, <3>1, <3>2, <3>3, <3>4, GraphSteps
         DEF OutcomeWithheld, OutcomeOffered
  <2> QED
    BY <2>1, RunStepAllowed DEF Allowed
<1>4. ASSUME NEW s \in Streams, Finish(s) PROVE Allowed
  <2>1. /\ UNCHANGED lastFrame
        /\ \/ run' = run
           \/ /\ run[s] = "RUNNING"
              /\ \E status \in TerminalStatus : run' = [run EXCEPT ![s] = status]
    BY <1>0, <1>4 DEF Finish, UnwindEnds, FinishTransactionFails, TerminalSent,
       TerminalStatus, TypeOK
  <2> QED
    BY <2>1, RunStepAllowed DEF Allowed
<1>5. ASSUME NEW s \in Streams, Respond(s), ~Sent(s) PROVE Allowed
  <2>1. UNCHANGED <<run, lastFrame>>
    BY <1>5 DEF Respond, StartBarrier, StartFailed, Take, WorkerEnded
  <2> QED
    BY <2>1, RunStepAllowed DEF Allowed
<1>6. ASSUME NEW s \in Streams, Sent(s) PROVE Allowed
  BY <1>6, SentTells DEF Allowed
<1>7. CASE CloseDispatcher \/ UNCHANGED vars
  <2>1. UNCHANGED <<run, [s \in Streams |-> Told(s)]>>
    BY <1>7 DEF CloseDispatcher, vars, Told
  <2> QED
    BY <2>1 DEF Allowed, Outcome!vars
<1> QED
  BY <1>1, <1>2, <1>3, <1>4, <1>5, <1>6, <1>7 DEF Next, Allowed

\* The stream implements AgentTurnOutcome.
THEOREM Implements == Spec => OutcomeContract
<1>1. Init => Outcome!Init
  BY DEF Init, Outcome!Init, Told
<1>2. IInv /\ [Next]_vars => [Outcome!Next]_Outcome!vars
  BY StepImplements
<1> QED
  BY <1>1, <1>2, Invariance, PTL DEF Spec, OutcomeContract, Outcome!Spec
=============================================================================
