------------------------------ MODULE SdkResources ------------------------------
(***************************************************************************)
(* The handlers of the resources written with the Terraform plugin SDK, as *)
(* the steps that ResourceApply runs: the calls in their order, where the  *)
(* ID is set, and what Read does about an object that is not there.        *)
(* Services, Kafka topics, database and OpenSearch ACLs have modules of    *)
(* their own.                                                              *)
(***************************************************************************)
EXTENDS Sequences

Sdk(named, create, update, delete, missing) ==
  [framework |-> "sdk", named |-> named, adopts |-> FALSE,
   create |-> create, update |-> update, delete |-> delete, missing |-> missing]

\* "Creating ... is unsupported", or deprecated.
Refusing == <<"refuse">>

-----------------------------------------------------------------------------
(* Accounts.                                                               *)

Account ==
  Sdk(FALSE, <<"make", "setID", "read">>, <<"change", "setID", "read">>, <<"remove">>, "drop")

\* The team is created first and named next.
AccountTeam ==
  Sdk(FALSE, <<"make", "rest", "setID", "read">>, <<"change", "setID", "read">>,
      <<"remove">>, "drop")

\* While the invitation is not accepted: one that is gone is sent again.
AccountTeamMember ==
  Sdk(TRUE, <<"put", "setID", "read">>, <<>>, <<"remove", "remove">>, "remake")

\* Once it is accepted, a member who is gone is not noticed.
AccountTeamMemberAccepted == [AccountTeamMember EXCEPT !.missing = "keep"]

AccountTeamProject ==
  Sdk(TRUE, <<"make", "setID", "read">>, <<"change", "setID", "read">>, <<"remove">>, "dropNew")

AccountAuthentication ==
  Sdk(FALSE, Refusing, <<"change", "setID", "read">>, <<"remove">>, "drop")

-----------------------------------------------------------------------------
(* Projects and their users.                                               *)

\* An Update renames the project, then assigns it to its billing group, and
\* sets the ID, the name, last; it does not read.
Project ==
  Sdk(TRUE, <<"make", "setID", "read">>, <<"rename", "rest", "setID">>, <<"remove">>, "drop")

ProjectUser == Sdk(TRUE, Refusing, Refusing, <<"remove">>, "error")

\* Read keeps a user who is gone; Delete takes one for an error.
OrganizationUser == Sdk(TRUE, Refusing, <<>>, <<"removeStrict">>, "keep")

-----------------------------------------------------------------------------
(* Service integrations.                                                   *)

ServiceIntegration ==
  Sdk(FALSE, <<"make", "setID", "pollReady", "read">>, <<"change", "pollReady", "read">>,
      <<"remove">>, "drop")

\* The integration of a read replica is made with its service.
ReadReplicaIntegration ==
  [ServiceIntegration EXCEPT !.create = <<"adopt">> \o @, !.named = TRUE]

ServiceIntegrationEndpoint ==
  Sdk(FALSE, <<"make", "setID", "read">>, <<"change", "read">>, <<"remove">>, "drop")

-----------------------------------------------------------------------------
(* Kafka.                                                                  *)

\* Create and Update are one call, and Create reads until the quota is there.
KafkaQuota ==
  Sdk(TRUE, <<"put", "setID", "refresh">>, <<"put", "read">>, <<"removeStrict">>, "drop")

KafkaConnector ==
  Sdk(TRUE, <<"make", "setID", "poll", "read">>, <<"change", "read">>, <<"remove">>, "dropNew")

\* A version is posted and looked for in the list, the compatibility level put.
KafkaSchema ==
  LET upsert == <<"put", "poll", "rest", "setID", "read">>
  IN Sdk(TRUE, upsert, upsert, <<"remove">>, "drop")

\* The registry has a level always; deleting sets it back to the default.
KafkaSchemaConfiguration ==
  Sdk(TRUE, <<"put", "setID", "read">>, <<"put", "read">>, <<"remove">>, "empty")

-----------------------------------------------------------------------------
(* ClickHouse and Flink.                                                   *)

\* CREATE ROLE IF NOT EXISTS, DROP ROLE IF EXISTS.  A role that does not exist
\* is handed to ResourceReadHandleNotFound without an error, and stays.
ClickhouseRole == Sdk(TRUE, <<"put", "setID", "read">>, <<>>, <<"remove">>, "keep")

\* Privileges, then roles: one statement each.
ClickhouseGrant ==
  Sdk(TRUE, <<"put", "rest", "setID", "read">>, <<>>, <<"unset", "remove">>, "empty")

\* Create is retried while the integration is not found, which makes nothing.
FlinkApplicationVersion ==
  Sdk(FALSE, <<"make", "setID", "read">>, <<>>, <<"removeStrict">>, "drop")

-----------------------------------------------------------------------------
(* VPC peerings and private links.                                         *)

\* The peering is looked for, made, waited for, and deleted if it has failed.
Peering ==
  Sdk(TRUE, <<"check", "make", "wait", "setID", "inspect", "read">>, <<>>,
      <<"remove", "waitGone">>, "drop")

AWSVPCPeeringConnection == Peering
AzureVPCPeeringConnection == Peering
GCPVPCPeeringConnection == Peering

\* Approving waits for the connection that the user makes at the cloud.  The
\* API has no way back: Delete leaves the connection alone.
AzurePrivatelinkConnectionApproval ==
  LET update == <<"approve", "awaitConnected", "rest", "pollReady", "setID", "read">>
  IN Sdk(TRUE, update, update, <<"leave">>, "drop")

\* The IP address goes with the approval, and nowhere else.
GCPPrivatelinkConnectionApproval ==
  LET update == <<"approve", "poll", "setID", "read">>
  IN Sdk(TRUE, update, update, <<"leave">>, "drop")

-----------------------------------------------------------------------------
SdkCatalogue ==
  {Account, AccountTeam, AccountTeamMember, AccountTeamMemberAccepted, AccountTeamProject,
   AccountAuthentication, Project, ProjectUser, OrganizationUser,
   ServiceIntegration, ReadReplicaIntegration, ServiceIntegrationEndpoint,
   KafkaQuota, KafkaConnector, KafkaSchema, KafkaSchemaConfiguration,
   ClickhouseRole, ClickhouseGrant, FlinkApplicationVersion,
   AWSVPCPeeringConnection, AzureVPCPeeringConnection, GCPVPCPeeringConnection,
   AzurePrivatelinkConnectionApproval, GCPPrivatelinkConnectionApproval}
===============================================================================
