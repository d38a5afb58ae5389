---- MODULE MCAzureManagedCluster ----
(* Two pools, and a configuration for each way that the set-up matters.    *)
EXTENDS AzureManagedCluster

Setup(allowed, users, services, pods, dns) ==
    [allowed |-> allowed, users |-> users, services |-> services, pods |-> pods, dns |-> dns]

AllSetups == {Setup(TRUE, {"group"}, 1, 1, "inside"), Setup(TRUE, {}, 1, 0, "outside"),
              Setup(TRUE, {"group", "vnet"}, 0, 2, "none"), Setup(FALSE, {}, 0, 0, "none")}
====
