---------------------------- MODULE MCTransport ----------------------------
(***************************************************************************)
(* The three models of what carries a circuit, side by side: a behaviour   *)
(* is one of the scheduler, of the channels or of one circuit's windows.   *)
(***************************************************************************)
EXTENDS Scheduler, Channel, FlowControl

MCLow == <<4, 5>>
MCMarks == {MCLow, <<100, 101>>}
MCHop == {[dig |-> "d", addr |-> 1], [dig |-> "d", addr |-> 2]}

VARIABLE part       \* the model whose behaviour this is

vars == <<part, schedVars, chanVars, flowVars>>

Init ==
    /\ part \in {"scheduler", "channel", "flow"}
    /\ SchedInit
    /\ part # "scheduler" => marks = MCLow
    /\ ChInit
    /\ FlowInit

Next ==
    \/ part = "scheduler" /\ SchedNext /\ UNCHANGED <<part, chanVars, flowVars>>
    \/ part = "channel" /\ ChNext /\ UNCHANGED <<part, schedVars, flowVars>>
    \/ part = "flow" /\ FlowNext /\ UNCHANGED <<part, schedVars, chanVars>>

\* SchedFairness, ChFairness and FlowFairness, each asked of the behaviours of
\* its own part only: the other two models stay in their initial states.
Fairness ==
    /\ WF_schedVars(part = "scheduler" /\ RunStep)
    /\ WF_schedVars(part = "scheduler" /\ Age)
    /\ \A c \in SChan : WF_schedVars(part = "scheduler" /\ DrainSome(c))
    /\ \A ch \in Slot : WF_chanVars(part = "channel" /\ ChDue(ch))
    /\ WF_flowVars(part = "flow" /\ FlushCell)
    /\ WF_flowVars(part = "flow" /\ ExitData)
    /\ WF_flowVars(part = "flow" /\ HandleBack)
    /\ \A s \in FStream :
          /\ WF_flowVars(part = "flow" /\ ReadSome(s))
          /\ WF_flowVars(part = "flow" /\ ExitFlush(s))

Spec == Init /\ [][Next]_vars /\ Fairness
=============================================================================
