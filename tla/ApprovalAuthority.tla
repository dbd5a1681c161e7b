------------------------- MODULE ApprovalAuthority -------------------------
(***************************************************************************)
(* What human approval of a remote command promises.  An approval is asked  *)
(* for once, decided at most once, executed at most once, and executed only *)
(* while it is approved.  A client that was told REJECTED, INACTIVE or      *)
(* NOT_FOUND knows that the command will not be started from then on.       *)
(***************************************************************************)
CONSTANT Approvals

VARIABLES
  authority,  \* [Approvals -> State]
  answers     \* [Approvals -> SUBSET Answer]: what clients were told

vars == <<authority, answers>>

State  == {"none", "pending", "approved", "rejected", "void", "executed"}
Answer == {"APPROVED", "REJECTED", "INACTIVE", "CONFLICT", "NOT_FOUND"}

Init == /\ authority = [a \in Approvals |-> "none"]
        /\ answers = [a \in Approvals |-> {}]

Ask(a) == /\ authority[a] = "none"
          /\ authority' = [authority EXCEPT ![a] = "pending"]
          /\ UNCHANGED answers

Tell(a, answer) == answers' = [answers EXCEPT ![a] = @ \cup {answer}]

Accept(a) == /\ authority[a] = "pending"
             /\ \/ authority' = [authority EXCEPT ![a] = "approved"] /\ Tell(a, "APPROVED")
                \/ authority' = [authority EXCEPT ![a] = "rejected"] /\ Tell(a, "REJECTED")

\* A repeated or contradictory decision changes nothing.
Repeat(a) == /\ \/ authority[a] \in {"approved", "executed"} /\ Tell(a, "APPROVED")
                \/ authority[a] = "rejected" /\ Tell(a, "REJECTED")
                \/ Tell(a, "CONFLICT")
             /\ UNCHANGED authority

\* The Run ended, was cancelled or lost its session: what was not executed
\* yet never will be.
Withdraw(A) == authority' = [a \in Approvals |->
                 IF a \in A /\ authority[a] \in {"pending", "approved"}
                   THEN "void" ELSE authority[a]]

Refuse(a, A) == /\ Withdraw(A)
                /\ authority'[a] \in {"rejected", "void", "executed"}
                /\ Tell(a, "INACTIVE") \/ Tell(a, "NOT_FOUND")

Execute(a) == /\ authority[a] = "approved"
              /\ authority' = [authority EXCEPT ![a] = "executed"]
              /\ UNCHANGED answers

Next == \/ \E a \in Approvals : Ask(a) \/ Accept(a) \/ Repeat(a) \/ Execute(a)
        \/ \E A \in SUBSET Approvals :
             \/ Withdraw(A) /\ UNCHANGED answers
             \/ \E a \in Approvals : Refuse(a, A)

Spec == Init /\ [][Next]_vars
=============================================================================
