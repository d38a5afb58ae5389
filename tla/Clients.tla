---- MODULE Clients ----
(***************************************************************************)
(* The clients through which the services call Azure.  A write is one      *)
(* request, effective when it is answered ("request"), or an operation     *)
(* that Azure goes on with after the answer: the client waits for its end  *)
(* ("awaited") or returns at once ("started").  etag: the write of what    *)
(* was read before carries If-Match and is refused if it has changed.      *)
(***************************************************************************)

\* A caller may rely on the effect of a write that has returned.
Effective(call) == call \in {"request", "awaited"}

\* Slip: the deletion of a group is started only.
groupsNotAwaited == [CreateOrUpdate |-> "request", Delete |-> "started", etag |-> FALSE]

groups == [CreateOrUpdate |-> "request", Delete |-> "awaited", etag |-> FALSE]

virtualnetworks == [CreateOrUpdate |-> "awaited", Delete |-> "awaited", etag |-> FALSE]

\* Slip: no If-Match header.
securitygroupsNoEtag == [CreateOrUpdate |-> "awaited", Delete |-> "awaited", etag |-> FALSE]

securitygroups == [CreateOrUpdate |-> "awaited", Delete |-> "awaited", etag |-> TRUE]

routetables == [CreateOrUpdate |-> "awaited", Delete |-> "awaited", etag |-> FALSE]

subnets == [CreateOrUpdate |-> "awaited", Delete |-> "awaited", etag |-> FALSE]

publicips == [CreateOrUpdate |-> "awaited", Delete |-> "awaited", etag |-> FALSE]

loadbalancers == [CreateOrUpdate |-> "awaited", Delete |-> "awaited", etag |-> TRUE]

bastionhosts == [CreateOrUpdate |-> "awaited", Delete |-> "awaited", etag |-> FALSE]

\* Zones and links of a private DNS zone are operations, records are not.
privatezones == [CreateOrUpdate |-> "awaited", Delete |-> "awaited", etag |-> FALSE]

vnetlinks == [CreateOrUpdate |-> "awaited", Delete |-> "awaited", etag |-> FALSE]

recordsets == [CreateOrUpdate |-> "request", Delete |-> "request", etag |-> FALSE]

inboundnatrules == [CreateOrUpdate |-> "awaited", Delete |-> "awaited", etag |-> FALSE]

networkinterfaces == [CreateOrUpdate |-> "awaited", Delete |-> "awaited", etag |-> FALSE]

availabilitysets == [CreateOrUpdate |-> "request", Delete |-> "request", etag |-> FALSE]

virtualmachines == [CreateOrUpdate |-> "awaited", Delete |-> "awaited", etag |-> FALSE]

\* A data or OS disk is created with its VM.
disks == [Delete |-> "awaited"]

roleassignments == [Create |-> "request"]

\* The only write of a machine that is not waited for.
vmextensions == [CreateOrUpdateAsync |-> "started", Delete |-> "awaited"]

tags == [CreateOrUpdateAtScope |-> "request"]
====
