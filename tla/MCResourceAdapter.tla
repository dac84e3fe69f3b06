-------------------------- MODULE MCResourceAdapter --------------------------
(***************************************************************************)
(* Instances of ResourceAdapter for TLC: the combinations of options that  *)
(* the provider's resource definitions use, with and without faults.       *)
(***************************************************************************)
EXTENDS ResourceAdapter

CONSTANTS o1, o2

Unchecked == [v \in Values |-> "ok"]
Checked ==
  [v \in Values |-> IF v = "active" THEN "ok" ELSE IF v = "error" THEN "failed" ELSE "notDesired"]

Resource(idFrom, desired, failed, check, deleteState, deleted) ==
  [idFrom |-> idFrom, ignoreAlreadyExists |-> FALSE, removeMissing |-> TRUE,
   refreshState |-> TRUE, desired |-> desired, failed |-> failed, check |-> check,
   deleteState |-> deleteState, deleted |-> deleted, faults |-> {}]

\* aiven_byoc_aws_provision, aiven_organization_vpc, aiven_transit_gateway_vpc_attachment.
Provision ==
  [Resource("plan", {"active"}, {"error"}, Unchecked, TRUE, {"deleted"})
     EXCEPT !.ignoreAlreadyExists = TRUE, !.removeMissing = FALSE]
VPC == Resource("create", {"active"}, {"error"}, Unchecked, TRUE, {"deleted"})
Attachment == Resource("plan", {}, {}, Checked, TRUE, {})

\* aiven_pg_database, aiven_kafka_user, a resource whose ID only Read tells,
\* and one that is not read after Create.
Database == Resource("plan", {}, {}, Unchecked, FALSE, {})
User == Resource("plan", {}, {}, Checked, FALSE, {})
ReadID == Resource("read", {"active"}, {"error"}, Unchecked, FALSE, {})
Unread == [Resource("create", {}, {}, Unchecked, FALSE, {}) EXCEPT !.refreshState = FALSE]

Declared == {Provision, VPC, Attachment, Database, User, ReadID, Unread}

With(resources, faults) == {[r EXCEPT !.faults = faults] : r \in resources}

\* Everything goes wrong, or nothing but a lag that Create waits for and a
\* deletion that must wait.
AllResources ==
  With(Declared, Faults) \cup With({r \in Declared : r.deleteState}, {"lag", "dependents"})
    \cup With({r \in Declared : r.refreshState}, {"lag"}) \cup With(Declared, {})

ExpiringAttachments == With({Attachment}, {"expiry"})

ASSUME ResourcesAreSensible == \A r \in Resources : Sensible(r)
===============================================================================
