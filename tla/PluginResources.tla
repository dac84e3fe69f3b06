---------------------------- MODULE PluginResources ----------------------------
(***************************************************************************)
(* The handlers of the resources written with the Terraform plugin         *)
(* framework, as the steps that ResourceApply runs.  A resource says what  *)
(* its Create, Update and Delete call; the resource adapter adds the poll  *)
(* after them, and its options say what it waits for and what Read does    *)
(* about an object that is not there.  Kafka topics, PostgreSQL databases  *)
(* and organization permissions have modules of their own.                 *)
(***************************************************************************)
EXTENDS Sequences

\* The options of the adapter: "refresh" is RefreshState without a condition,
\* "ready" with one (Desired, RefreshStateCheck), "reconcile" with a Read that
\* changes what it reads, "gone" is DeleteState, "removeMissing" RemoveMissing,
\* "adopts" IgnoreAlreadyExists.

\* refreshState.
Polled(options) ==
  IF "reconcile" \in options THEN <<"reconcile">>
  ELSE IF "ready" \in options THEN <<"refreshReady">>
  ELSE IF "refresh" \in options THEN <<"refresh">> ELSE <<>>

\* The ID is put into the state when Create has returned, before the poll.
\* deleteState calls the Delete of the resource, then waits.
Plugin(named, create, update, delete, options) ==
  [framework |-> "plugin", named |-> named, adopts |-> "adopts" \in options,
   create |-> create \o <<"setID">> \o Polled(options),
   update |-> IF update = <<>> THEN <<>> ELSE update \o Polled(options),
   delete |-> IF "gone" \in options THEN <<"deleteState", "waitGone">> ELSE delete,
   missing |-> IF "removeMissing" \in options THEN "drop" ELSE "error"]

\* One call each, with an ID that the server gives, or the configuration.
Numbered(update, options) == Plugin(FALSE, <<"make">>, update, <<"remove">>, options)
Named(update, options) == Plugin(TRUE, <<"make">>, update, <<"remove">>, options)

Shown == {"refresh", "removeMissing"}
Awaited == {"ready", "removeMissing"}

-----------------------------------------------------------------------------
(* Without RefreshState and RemoveMissing.                                 *)

BillingGroup == Numbered(<<"change">>, {})
CustomCloudEnvironment == Numbered(<<"change">>, {})
CMK == Numbered(<<"change">>, {})
OrganizationAddress == Numbered(<<"change">>, {})
ApplicationUser == Numbered(<<"change">>, {})
OrganizationBillingGroup == Numbered(<<"change">>, {})
UpgradePipelineStep == Numbered(<<"change">>, {})
OrganizationalUnit == Numbered(<<"change">>, {})
UserGroup == Numbered(<<"change">>, {})
GovernanceAccess == Numbered(<<>>, {})

\* Deprecated: what was made before can be read and removed.
GroupProject ==
  [Plugin(TRUE, <<"refuse">>, <<>>, <<"remove">>, {}) EXCEPT !.create = <<"refuse">>]

-----------------------------------------------------------------------------
(* Organizations and their projects.                                       *)

Organization == Numbered(<<"change">>, {"refresh"})
OrganizationProject == Named(<<"change">>, {"refresh"})
ApplicationUserToken == Numbered(<<>>, {"refresh"})

\* Adding a member that is there changes nothing.
UserGroupMember == Plugin(TRUE, <<"put">>, <<>>, <<"remove">>, {"refresh"})

\* Delete dissociates the address first, whatever that answers.
StaticIP == Numbered(<<"change">>, {"ready"})

-----------------------------------------------------------------------------
(* Bring your own cloud.                                                   *)

\* A provisioning that was started before is waited for.
Provision == Plugin(TRUE, <<"make">>, <<>>, <<"remove">>, {"adopts", "ready", "gone"})

\* Setting the lists, and setting them to nothing.
Permissions == Plugin(TRUE, <<"put">>, <<"put">>, <<"remove">>, Shown)

-----------------------------------------------------------------------------
(* Databases, pools and users of a service.                                *)

ClickhouseDatabase == Named(<<>>, Shown)
MySQLDatabase == Named(<<>>, Shown)
ConnectionPool == Named(<<"change">>, Shown)
ClickhouseUser == Numbered(<<"change">>, Shown)

\* Create makes the user, then resets the password when one is configured.
ServiceUser(update) == Plugin(TRUE, <<"make", "rest">>, update, <<"remove">>, Shown)

KafkaUser == ServiceUser(<<"change">>)
OpenSearchUser == ServiceUser(<<"change">>)
MySQLUser == ServiceUser(<<"change">>)

\* The access control, then the password.
PGUser == ServiceUser(<<"change", "rest">>)
ValkeyUser == ServiceUser(<<"change", "rest">>)

\* The password is changed by one who knows the last; Delete only warns.
SecurityPluginConfig == Plugin(TRUE, <<"make">>, <<"exchange">>, <<"leave">>, Shown)

-----------------------------------------------------------------------------
(* Kafka and Flink.                                                        *)

KafkaACL == Numbered(<<>>, Shown)
KafkaNativeACL == Numbered(<<>>, Shown)
SchemaRegistryACL == Numbered(<<>>, Shown)
MirrorMakerReplicationFlow == Named(<<"change">>, Shown)

FlinkApplication == Numbered(<<"change">>, Shown)
FlinkJarApplication == Numbered(<<"change">>, Shown)

\* The file is uploaded next; when that fails, the version is deleted again.
FlinkJarVersion == Plugin(FALSE, <<"make", "upload">>, <<>>, <<"remove">>, Awaited)

\* Delete cancels and deletes, until a read finds nothing.
FlinkDeployment == Plugin(FALSE, <<"make">>, <<>>, <<"removeUntilGone">>, Shown)
FlinkJarDeployment == FlinkDeployment

-----------------------------------------------------------------------------
(* Networks.                                                               *)

\* Mutant of ProjectVPC: no RemoveMissing.
ProjectVPCKept == Numbered(<<>>, {"ready", "gone"})

ProjectVPC == Numbered(<<>>, Awaited \cup {"gone"})

OrganizationVPC == Numbered(<<"change">>, Awaited \cup {"gone"})

AWSOrgVPCPeeringConnection == Named(<<>>, Awaited \cup {"gone"})
AzureOrgVPCPeeringConnection == Named(<<>>, Awaited \cup {"gone"})
GCPOrgVPCPeeringConnection == Named(<<>>, Awaited \cup {"gone"})

AWSPrivatelink == Named(<<"change">>, Awaited)
AzurePrivatelink == Named(<<"change">>, Awaited \cup {"gone"})
GCPPrivatelink == Named(<<>>, Awaited \cup {"gone"})

\* The CIDRs are set by Update, and by a Read after Create and Update that
\* finds others.
TransitGatewayVPCAttachment ==
  Plugin(TRUE, <<"make">>, <<"change">>, <<"remove">>, {"reconcile", "removeMissing", "gone"})

-----------------------------------------------------------------------------
PluginCatalogue ==
  {BillingGroup, CustomCloudEnvironment, CMK, OrganizationAddress, ApplicationUser,
   OrganizationBillingGroup, UpgradePipelineStep, OrganizationalUnit, UserGroup,
   GovernanceAccess, GroupProject, Organization, OrganizationProject, ApplicationUserToken,
   UserGroupMember, StaticIP, Provision, Permissions, ClickhouseDatabase, MySQLDatabase,
   ConnectionPool, ClickhouseUser, KafkaUser, OpenSearchUser, MySQLUser, PGUser, ValkeyUser,
   SecurityPluginConfig, KafkaACL, KafkaNativeACL, SchemaRegistryACL,
   MirrorMakerReplicationFlow, FlinkApplication, FlinkJarApplication, FlinkJarVersion,
   FlinkDeployment, FlinkJarDeployment, ProjectVPC, OrganizationVPC,
   AWSOrgVPCPeeringConnection, AzureOrgVPCPeeringConnection, GCPOrgVPCPeeringConnection,
   AWSPrivatelink, AzurePrivatelink, GCPPrivatelink, TransitGatewayVPCAttachment}
===============================================================================
