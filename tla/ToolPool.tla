------------------------------ MODULE ToolPool ------------------------------
(***************************************************************************)
(* What backend/app/tools/registry.py promises of its capacity limiter:    *)
(* calls begin and end one at a time, no more than Total at once and no    *)
(* more than Limit of any tool.                                            *)
(***************************************************************************)
EXTENDS Integers, FiniteSets

CONSTANTS
    Jobs,     \* the calls that may be made
    Tools,
    Users,    \* per tool, the calls made of it
    Total, Limit

VARIABLE busy   \* the calls being made

Init == busy = {}

Begin(j) ==
    /\ j \notin busy
    /\ busy' = busy \cup {j}
    /\ Cardinality(busy') <= Total
    /\ \A t \in Tools : Cardinality(busy' \cap Users[t]) <= Limit[t]

End(j) ==
    /\ j \in busy
    /\ busy' = busy \ {j}

Next == \E j \in Jobs : Begin(j) \/ End(j)

Spec == Init /\ [][Next]_busy
=============================================================================
