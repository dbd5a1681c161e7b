-------------------------- MODULE AgentTurnOutcome --------------------------
(***************************************************************************)
(* What one Agent turn promises, whatever the transport does.  Each turn    *)
(* has a durable Run (a row of agent_runs) and a client that is told things *)
(* about it over one SSE response:                                          *)
(*   - a Run leaves RUNNING at most once and never comes back;              *)
(*   - the client hears of a turn only when its Run is durable;             *)
(*   - the client hears an outcome only after that outcome is durable, and  *)
(*     the outcome it hears is the durable one;                             *)
(*   - a CANCELLED Run is never reported by a frame: the connection is gone *)
(*     or the process is stopping.                                          *)
(***************************************************************************)
CONSTANT Turns

VARIABLES
  run,    \* [Turns -> RunStatus \cup {"none"}]: the durable row
  told    \* [Turns -> Told]: the strongest thing the client was sent

vars == <<run, told>>

TerminalStatus == {"COMPLETED", "FAILED", "LIMIT_REACHED", "CANCELLED"}
RunStatus      == {"RUNNING"} \cup TerminalStatus
Told           == {"nothing", "started", "completed", "failed"}

Init == /\ run  = [t \in Turns |-> "none"]
        /\ told = [t \in Turns |-> "nothing"]

Begin(t) == /\ run[t] = "none"
            /\ run' = [run EXCEPT ![t] = "RUNNING"]
            /\ UNCHANGED told

Finish(t) == /\ run[t] = "RUNNING"
             /\ \E status \in TerminalStatus : run' = [run EXCEPT ![t] = status]
             /\ UNCHANGED told

TellStarted(t) == /\ run[t] # "none"
                  /\ told[t] = "nothing"
                  /\ told' = [told EXCEPT ![t] = "started"]
                  /\ UNCHANGED run

TellCompleted(t) == /\ run[t] = "COMPLETED"
                    /\ told[t] = "started"
                    /\ told' = [told EXCEPT ![t] = "completed"]
                    /\ UNCHANGED run

TellFailed(t) == /\ run[t] \in {"FAILED", "LIMIT_REACHED"}
                 /\ told[t] = "started"
                 /\ told' = [told EXCEPT ![t] = "failed"]
                 /\ UNCHANGED run

Next == \E t \in Turns : \/ Begin(t)
                         \/ Finish(t)
                         \/ TellStarted(t)
                         \/ TellCompleted(t)
                         \/ TellFailed(t)

Spec == Init /\ [][Next]_vars
=============================================================================
