---- MODULE MCAzureCluster ----
EXTENDS AzureCluster

\* A public cluster always has a node outbound load balancer.
AllClusters ==
    {c \in Configs : /\ c.outbound = IF c.private THEN -1 ELSE c.outbound
                     /\ ~c.private => c.outbound \in {1, 2}
                     /\ c.outbound = 2 => c.userGroup /\ ~c.userVnet /\ ~c.bastion /\ ~c.vnetApart
                     /\ c.bastion => ~c.private /\ (c.vnetApart => ~c.userVnet)}

\* A pre-existing network in a pre-existing resource group.
Provided == {c \in AllClusters : c.userGroup /\ c.userVnet /\ ~c.bastion /\ c.outbound = 1}

\* A group shrinks by all that nothing refers to at once.
MCAzure == GroupEnds \/ GroupShrinks(Removable)

\* What is in the cache matters when a reconciliation starts only.
MCCacheSync == pc \in {"idle", "close"} /\ CacheSync

\* So do the entries of others, at the load balancer or security group.
MCForeignEdit == pc \in {"idle", "put"} /\ \E r \in Contended : ForeignEdit(r)

MCNext ==
    \/ Reconcile
    \/ DeleteCluster
    \/ MCCacheSync
    \/ MCAzure
    \/ MCForeignEdit
    \/ Fault

MCSpec == Init /\ [][MCNext]_vars /\ WF_vars(Reconcile) /\ SF_vars(MCCacheSync) /\ WF_vars(MCAzure)
====
