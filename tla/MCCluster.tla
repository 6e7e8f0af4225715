----------------------------- MODULE MCCluster ------------------------------
(* Instances of ClusterConnection for TLC: each scenario allows a few events *)
(* that matter together, so that two faults meet without every mixture of    *)
(* them being explored.                                                      *)
EXTENDS ClusterConnection

AllFaults == Redirections \cup Refusals

Calm == [k \in Events |-> 0]

\* One request that meets two or three events ...
OneRequest == {
    [Calm EXCEPT !["submit"] = 1, !["break"] = 2, !["back"] = 1, !["elapse"] = 1],
    [Calm EXCEPT !["submit"] = 1, !["break"] = 1, !["back"] = 1, !["migrate"] = 1],
    [Calm EXCEPT !["submit"] = 1, !["migrate"] = 1, !["refuse"] = 1],
    [Calm EXCEPT !["submit"] = 1, !["break"] = 1, !["back"] = 1, !["refuse"] = 1],
    [Calm EXCEPT !["submit"] = 1, !["break"] = 1, !["back"] = 1, !["giveUp"] = 1],
    [Calm EXCEPT !["submit"] = 1, !["break"] = 1, !["unmanaged"] = 1],
    [Calm EXCEPT !["submit"] = 1, !["break"] = 1, !["ioError"] = 1]}

\* ... or two that meet one, or lose both nodes for good.
TwoRequests ==
    {[Calm EXCEPT !["submit"] = 2, !["back"] = 1, ![k] = 1] :
        k \in {"break", "migrate", "refuse", "giveUp"}}
        \cup {[Calm EXCEPT !["submit"] = 2, !["ioError"] = 1]}

Outage == [Calm EXCEPT !["submit"] = 2, !["break"] = 2]

Settings ==
    [threads : {1, 2}, events : OneRequest \cup TwoRequests]
        \cup {[threads |-> 1, events |-> Outage]}
=============================================================================
