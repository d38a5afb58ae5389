------------------------ MODULE MCDeploymentSelection ------------------------
(* Every status the strategy tells apart, for strategies at the edges.      *)
EXTENDS DeploymentSelection

MCStatuses ==
    {s \in [ready : BOOLEAN, latestModelApplied : BOOLEAN,
            state : {"", "Succeeded", "Failed", "Deleting"}, created : {1, 2}] :
        s.state \in {"", "Failed", "Deleting"} => ~s.ready /\ s.created = 1}

Absolute(n) == [percent |-> FALSE, value |-> n]
Percent(n)  == [percent |-> TRUE, value |-> n]

MCStrategies ==
    {DefaultStrategy} \cup
    [maxSurge : {Nil}, deletePolicy : Policies,
     maxUnavailable : {Nil, Absolute(1), Absolute(4), Percent(50)}]
=============================================================================
