------------------------- MODULE MCJaegerReconcile -------------------------
(* Small instances of JaegerReconcile for TLC.                             *)
EXTENDS JaegerReconcile, TLC

CONSTANTS p1, p2, p3, opA, opB

\* an operator of two pods and another of one, or a single pod
TwoOperators == p1 :> opA @@ p2 :> opA @@ p3 :> opB
OnePod == p1 :> opA

\* the pods of the first operator, which are interchangeable
SameOperator == Permutations({p1, p2})

\* at most two of the pods have been started, and at most two things happen:
\* edits, failures and crashes
TwoAtWork ==
    /\ \E p \in Pods : pc[p] = "startup" /\ bin[p] = 1
    /\ edits + faults + restarts <= 2

\* one stage of each kind of error handling apply has, in its order
FourStages == <<"Deployments", "ConsoleLinks", "HorizontalPodAutoscalers",
                "DaemonSets">>
FourErrors == [k \in {FourStages[i] : i \in 1..4} |->
                 CASE k = "ConsoleLinks" -> "log"
                   [] k = "HorizontalPodAutoscalers" -> "finish"
                   [] OTHER -> "fail"]

\* a single stage, for the runs that are about the CR alone
OneStage == <<"Deployments">>
OneError == [k \in {"Deployments"} |-> "fail"]
=============================================================================
