------------------------------ MODULE PluginSchemas ------------------------------
(***************************************************************************)
(* The schemas of the resources of the plugin framework: of each resource  *)
(* its top-level attributes and the flags of AttributeData that its        *)
(* schema, its ID fields (idFields in its view) and its handlers give them.*)
(***************************************************************************)

-----------------------------------------------------------------------------
(* Kinds of attributes, and what a schema adds to them.                    *)

Needed(type) == {type, "required"}

Optional(type) == {type, "optional"}

Generated(type) == {type, "optional", "computed"}

Defaulted(type) == {type, "optional", "computed", "default"}

Shown(type) == {type, "computed"}

Replacing(kind) == kind \cup {"replaces"}

Keeping(kind) == kind \cup {"keeps"}

NonZero(kind) == kind \cup {"nonZero"}

Nested(kind) == kind \cup {"nested"}

Identifying(kind) == kind \cup {"id"}

Fixed == Replacing(Needed("string"))

ID == Identifying(Fixed)

Reported == Shown("string")

Settled == Keeping(Reported)

ServerID == Identifying(Settled)

\* config of a Kafka topic: a block that the adapter takes for computed.
ComputedBlock == {"block", "optional", "computed"}

\* What the handlers add.  Staying: Flatten keeps the value of d, a parent_id in
\* the form the user wrote it, an authentication that is set.  Explicit: a
\* response without the ACLs of a Valkey user has them empty.  Hidden: in no
\* response.
Staying(kind) == kind \cup {"stays"}

Explicit(kind) == kind \cup {"explicit"}

Hidden(kind) == kind \cup {"hidden"}

Protecting(kind) == kind \cup {"protects"}

Protection == Protecting(Hidden(Defaulted("scalar")))

\* The password of a service user has a module of its own, ServiceUserPassword.
Secret == {"string", "optional", "computed", "secret"}

-----------------------------------------------------------------------------
(* The resources.                                                          *)

BillingGroup ==
  [account_id |-> Generated("string"), address_lines |-> Optional("collection"),
   billing_contact_emails |-> Optional("collection"),
   billing_currency |-> Generated("string"), billing_emails |-> Optional("collection"),
   billing_extra_text |-> Optional("string"), billing_group_id |-> ServerID,
   card_id |-> Optional("string"), city |-> Generated("string"),
   company |-> Generated("string"),
   copy_from_billing_group |-> Hidden(Replacing(Optional("string"))),
   country_code |-> Generated("string"), name |-> Needed("string"),
   parent_id |-> Needed("string"), state |-> Optional("string"),
   vat_id |-> Generated("string"), zip_code |-> Optional("string")]

BYOCAWSEntity ==
  [aiven_aws_account_principal |-> Reported, aiven_aws_assume_role_external_id |-> Settled,
   aiven_aws_object_storage_credentials_creator_arn |-> Reported,
   aiven_aws_object_storage_user_arn |-> Reported,
   aiven_management_cidr_blocks |-> Shown("collection"),
   aiven_object_storage_credentials_creator_user |-> Reported,
   aws_subnets_bastion |-> Shown("map"), aws_subnets_workload |-> Shown("map"),
   bucket_names |-> Shown("map"), byoc_resource_tags |-> Shown("map"),
   byoc_unique_name |-> Reported, cloud_provider |-> Fixed, cloud_region |-> Fixed,
   custom_cloud_environment_id |-> ServerID, deployment_model |-> Fixed,
   display_name |-> Needed("string"), organization_id |-> ID, reserved_cidr |-> Fixed,
   tags |-> Optional("map"), use_customer_owned_storage |-> Shown("scalar"),
   contact_emails |-> NonZero(Optional("block"))]

BYOCAWSProvision ==
  [aiven_aws_account_principal |-> Reported, aiven_aws_assume_role_external_id |-> Settled,
   aws_iam_role_arn |-> Fixed, custom_cloud_environment_id |-> ID,
   custom_cloud_names |-> Shown("collection"), organization_id |-> ID, state |-> Reported]

BYOCPermissions ==
  [accounts |-> Needed("collection"), custom_cloud_environment_id |-> ID,
   organization_id |-> ID, projects |-> Needed("collection")]

ClickhouseDatabase ==
  [name |-> ID, project |-> ID, service_name |-> ID, termination_protection |-> Protection]

ClickhouseUser ==
  [password |-> Secret, password_wo |-> Secret, password_wo_version |-> Secret,
   project |-> ID, required |-> Shown("scalar"), service_name |-> ID, username |-> Fixed,
   uuid |-> ServerID]

CMK ==
  [cmk_id |-> ServerID, cmk_provider |-> Fixed, created_at |-> Settled,
   default_cmk |-> Optional("scalar"), project |-> ID, resource |-> Fixed,
   status |-> Reported, updated_at |-> Reported]

FlinkApplication ==
  [application_id |-> ServerID, created_at |-> Settled, created_by |-> Settled,
   name |-> Needed("string"), project |-> ID, service_name |-> ID, updated_at |-> Reported,
   updated_by |-> Reported]

FlinkApplicationDeployment ==
  [application_id |-> ID, created_at |-> Settled, created_by |-> Settled,
   deployment_id |-> ServerID, parallelism |-> Replacing(Defaulted("scalar")),
   project |-> ID, restart_enabled |-> Replacing(Defaulted("scalar")), service_name |-> ID,
   starting_savepoint |-> Replacing(NonZero(Optional("string"))), version_id |-> Fixed]

FlinkJarApplication ==
  [application_id |-> ServerID, application_versions |-> Nested(Shown("collection")),
   created_at |-> Settled, created_by |-> Settled,
   current_deployment |-> Nested(Shown("collection")), name |-> Needed("string"),
   project |-> ID, service_name |-> ID, updated_at |-> Reported, updated_by |-> Reported]

FlinkJarApplicationDeployment ==
  [application_id |-> ID, created_at |-> Settled, created_by |-> Settled,
   deployment_id |-> ServerID, entry_class |-> Replacing(Generated("string")),
   error_msg |-> Reported, job_id |-> Settled, last_savepoint |-> Reported,
   parallelism |-> Replacing(Keeping(Generated("scalar"))),
   program_args |-> Replacing(Generated("collection")), project |-> ID,
   restart_enabled |-> Replacing(Keeping(Generated("scalar"))), service_name |-> ID,
   starting_savepoint |-> Replacing(Generated("string")), status |-> Reported,
   version_id |-> Fixed]

FlinkJarApplicationVersion ==
  [application_id |-> ID, application_version_id |-> ServerID, created_at |-> Settled,
   created_by |-> Settled, file_info |-> Nested(Shown("collection")), project |-> ID,
   service_name |-> ID, source |-> Hidden(Needed("string")), version |-> Shown("scalar")]

GovernanceAccess ==
  [access_id |-> ServerID, access_name |-> Fixed, access_type |-> Fixed,
   organization_id |-> ID, owner_user_group_id |-> Replacing(Optional("string")),
   access_data |-> Replacing(Needed("block"))]

KafkaACL ==
  [acl_id |-> ServerID, permission |-> Fixed, project |-> ID, service_name |-> ID,
   topic |-> Fixed, username |-> Fixed]

MirrorMakerReplicationFlow ==
  [config_properties_exclude |-> Optional("collection"),
   emit_backward_heartbeats_enabled |-> Defaulted("scalar"),
   emit_heartbeats_enabled |-> Defaulted("scalar"), enable |-> Needed("scalar"),
   exactly_once_delivery_enabled |-> Defaulted("scalar"),
   follower_fetching_enabled |-> Keeping(Generated("scalar")),
   offset_lag_max |-> Keeping(Generated("scalar")),
   offset_syncs_topic_location |-> Keeping(Generated("string")), project |-> ID,
   replication_factor |-> Keeping(Generated("scalar")),
   replication_policy_class |-> Keeping(Generated("string")), service_name |-> ID,
   source_cluster |-> ID, sync_group_offsets_enabled |-> Defaulted("scalar"),
   sync_group_offsets_interval_seconds |-> Defaulted("scalar"), target_cluster |-> ID,
   topics |-> Optional("collection"), topics_blacklist |-> Optional("collection")]

KafkaNativeACL ==
  [acl_id |-> ServerID, host |-> Replacing(Keeping(Defaulted("string"))),
   operation |-> Fixed, pattern_type |-> Fixed, permission_type |-> Fixed,
   principal |-> Fixed, project |-> ID, resource_name |-> Fixed, resource_type |-> Fixed,
   service_name |-> ID]

KafkaTopic ==
  [owner_user_group_id |-> NonZero(Optional("string")), partitions |-> Needed("scalar"),
   project |-> ID, replication |-> Needed("scalar"), service_name |-> ID,
   termination_protection |-> Protection, topic_description |-> NonZero(Optional("string")),
   topic_name |-> ID, config |-> ComputedBlock, tag |-> Optional("block")]

KafkaUser ==
  [access_cert |-> Reported, access_key |-> Reported,
   mysql_grants |-> Replacing(Optional("collection")), password |-> Secret,
   password_encryption_type |-> Reported, password_wo |-> Secret,
   password_wo_version |-> Secret, project |-> ID, service_name |-> ID, type |-> Reported,
   username |-> ID]

KafkaSchemaRegistryACL ==
  [acl_id |-> ServerID, permission |-> Fixed, project |-> ID, resource |-> Fixed,
   service_name |-> ID, username |-> Fixed]

MySQLDatabase ==
  [database_name |-> ID, project |-> ID, service_name |-> ID,
   termination_protection |-> Protection]

MySQLUser ==
  [access_cert |-> Reported, access_key |-> Reported,
   authentication |-> Staying(Generated("string")),
   mysql_grants |-> Replacing(Optional("collection")), password |-> Secret,
   password_encryption_type |-> Reported, password_wo |-> Secret,
   password_wo_version |-> Secret, project |-> ID, service_name |-> ID, type |-> Reported,
   username |-> ID]

OpenSearchSecurityPluginConfig ==
  [admin_enabled |-> Shown("scalar"), admin_password |-> Hidden(Needed("string")),
   available |-> Shown("scalar"), enabled |-> Shown("scalar"), project |-> ID,
   service_name |-> ID]

OpenSearchUser ==
  [mysql_grants |-> Replacing(Optional("collection")), password |-> Secret,
   password_encryption_type |-> Reported, password_wo |-> Secret,
   password_wo_version |-> Secret, project |-> ID, service_name |-> ID, type |-> Reported,
   username |-> ID]

OrganizationAddress ==
  [address_id |-> ServerID, address_lines |-> NonZero(Needed("collection")),
   city |-> Needed("string"), country_code |-> Needed("string"), create_time |-> Settled,
   name |-> Needed("string"), organization_id |-> ID, state |-> Optional("string"),
   update_time |-> Reported, zip_code |-> Optional("string")]

OrganizationApplicationUser ==
  [create_time |-> Settled, email |-> Reported, is_super_admin |-> Defaulted("scalar"),
   name |-> Needed("string"), organization_id |-> ID, user_id |-> ServerID]

OrganizationApplicationUserToken ==
  [create_time |-> Settled, created_manually |-> Shown("scalar"),
   currently_active |-> Shown("scalar"), description |-> Replacing(Optional("string")),
   expiry_time |-> Reported, extend_when_used |-> Replacing(Defaulted("scalar")),
   full_token |-> Reported, ip_allowlist |-> Replacing(Optional("collection")),
   last_ip |-> Reported, last_used_time |-> Reported, last_user_agent |-> Reported,
   last_user_agent_human_readable |-> Reported,
   max_age_seconds |-> Replacing(Optional("scalar")), organization_id |-> ID,
   scopes |-> Replacing(Optional("collection")),
   token_prefix |-> Identifying(Shown("string")), user_id |-> ID]

OrganizationBillingGroup ==
  [billing_address_id |-> Needed("string"), billing_group_id |-> ServerID,
   billing_group_name |-> Needed("string"), create_time |-> Settled,
   custom_invoice_text |-> Optional("string"), organization_id |-> ID,
   shipping_address_id |-> Needed("string"), vat_id |-> Optional("string"),
   billing_contact_emails |-> Needed("block"), billing_emails |-> Needed("block"),
   payment_method |-> Needed("block")]

Organization ==
  [create_time |-> Settled, name |-> Needed("string"), tenant_id |-> Settled,
   update_time |-> Reported]

OrganizationPermission ==
  [organization_id |-> ID, resource_id |-> ID, resource_type |-> ID,
   permissions |-> Needed("block")]

OrganizationProject ==
  [base_port |-> Generated("scalar"), billing_group_id |-> Needed("string"),
   ca_cert |-> Reported, organization_id |-> Identifying(Needed("string")),
   parent_id |-> Staying(Needed("string")), project_id |-> ID,
   technical_emails |-> Optional("collection"), tag |-> Optional("block")]

OrganizationalUnit ==
  [create_time |-> Settled, name |-> Needed("string"),
   parent_id |-> Staying(Needed("string")), tenant_id |-> Settled, update_time |-> Reported]

OrganizationUserGroup ==
  [create_time |-> Settled, description |-> Needed("string"), group_id |-> ServerID,
   managed_by_scim |-> Shown("scalar"), name |-> Needed("string"), organization_id |-> ID,
   update_time |-> Reported]

OrganizationUserGroupMember ==
  [group_id |-> ID, last_activity_time |-> Reported, organization_id |-> ID, user_id |-> ID]

ConnectionPool ==
  [connection_uri |-> Reported, database_name |-> Fixed, pool_mode |-> Defaulted("string"),
   pool_name |-> ID, pool_size |-> Defaulted("scalar"), project |-> ID, service_name |-> ID,
   username |-> NonZero(Optional("string"))]

PGDatabase ==
  [database_name |-> ID, lc_collate |-> Replacing(Defaulted("string")),
   lc_ctype |-> Replacing(Defaulted("string")), project |-> ID, service_name |-> ID,
   termination_protection |-> Protection]

PGUser ==
  [access_cert |-> Reported, access_key |-> Reported,
   mysql_grants |-> Replacing(Optional("collection")), password |-> Secret,
   password_encryption_type |-> Reported, password_wo |-> Secret,
   password_wo_version |-> Secret, pg_allow_replication |-> Keeping(Generated("scalar")),
   project |-> ID, service_name |-> ID, type |-> Reported, username |-> ID]

StaticIP ==
  [cloud_name |-> Fixed, ip_address |-> Reported, project |-> ID, service_name |-> Reported,
   state |-> Reported, static_ip_address_id |-> ServerID,
   termination_protection |-> Protecting(Defaulted("scalar"))]

UpgradeStep ==
  [auto_validation_delay_days |-> Generated("scalar"), destination_project_name |-> Fixed,
   destination_service_name |-> Fixed, organization_id |-> ID,
   source_project_name |-> Fixed, source_service_name |-> Fixed, step_id |-> ServerID]

ValkeyUser ==
  [mysql_grants |-> Replacing(Optional("collection")), password |-> Secret,
   password_encryption_type |-> Reported, password_wo |-> Secret,
   password_wo_version |-> Secret, project |-> ID, service_name |-> ID, type |-> Reported,
   username |-> ID, valkey_acl_categories |-> Explicit(Optional("collection")),
   valkey_acl_channels |-> Explicit(Optional("collection")),
   valkey_acl_commands |-> Explicit(Optional("collection")),
   valkey_acl_keys |-> Explicit(Optional("collection"))]

AWSOrgVPCPeeringConnection ==
  [aws_account_id |-> ID, aws_vpc_id |-> ID, aws_vpc_peering_connection_id |-> Settled,
   aws_vpc_region |-> ID, organization_id |-> ID, organization_vpc_id |-> ID,
   peering_connection_id |-> Settled, state |-> Reported]

AWSPrivatelink ==
  [aws_service_id |-> Settled, aws_service_name |-> Reported,
   principals |-> NonZero(Needed("collection")), project |-> ID, service_name |-> ID,
   state |-> Reported, supported_regions |-> Optional("collection")]

AzureOrgVPCPeeringConnection ==
  [azure_subscription_id |-> ID, organization_id |-> ID, organization_vpc_id |-> ID,
   peer_azure_app_id |-> Fixed, peer_azure_tenant_id |-> Fixed, peer_resource_group |-> ID,
   peering_connection_id |-> Settled, state |-> Reported, vnet_name |-> ID]

AzurePrivatelink ==
  [azure_service_alias |-> Reported, azure_service_id |-> Settled, message |-> Settled,
   project |-> ID, service_name |-> ID, state |-> Reported,
   user_subscription_ids |-> Needed("collection")]

GCPOrgVPCPeeringConnection ==
  [gcp_project_id |-> ID, organization_id |-> ID, organization_vpc_id |-> ID,
   peer_vpc |-> ID, self_link |-> Reported, state |-> Reported]

GCPPrivatelink ==
  [google_service_attachment |-> Reported, message |-> Settled, project |-> ID,
   service_name |-> ID, state |-> Reported]

OrganizationVPC ==
  [cloud_name |-> Fixed, create_time |-> Settled, display_name |-> Generated("string"),
   network_cidr |-> Fixed, organization_id |-> ID, organization_vpc_id |-> ServerID,
   state |-> Reported, update_time |-> Reported]

ProjectVPC ==
  [cloud_name |-> Fixed, network_cidr |-> Fixed, project |-> ID,
   project_vpc_id |-> ServerID, state |-> Reported]

TransitGatewayVPCAttachment ==
  [peer_cloud_account |-> Fixed, peer_region |-> Replacing(Optional("string")),
   peer_vpc |-> Fixed, peering_connection_id |-> Settled, state |-> Reported,
   state_info |-> Shown("map"),
   user_peer_network_cidrs |-> Keeping(Generated("collection")), vpc_id |-> Fixed]

-----------------------------------------------------------------------------
Schemas ==
  {BillingGroup, BYOCAWSEntity, BYOCAWSProvision, BYOCPermissions, ClickhouseDatabase,
   ClickhouseUser, CMK, FlinkApplication, FlinkApplicationDeployment, FlinkJarApplication,
   FlinkJarApplicationDeployment, FlinkJarApplicationVersion, GovernanceAccess, KafkaACL,
   MirrorMakerReplicationFlow, KafkaNativeACL, KafkaTopic, KafkaUser,
   KafkaSchemaRegistryACL, MySQLDatabase, MySQLUser, OpenSearchSecurityPluginConfig,
   OpenSearchUser, OrganizationAddress, OrganizationApplicationUser,
   OrganizationApplicationUserToken, OrganizationBillingGroup, Organization,
   OrganizationPermission, OrganizationProject, OrganizationalUnit, OrganizationUserGroup,
   OrganizationUserGroupMember, ConnectionPool, PGDatabase, PGUser, StaticIP, UpgradeStep,
   ValkeyUser, AWSOrgVPCPeeringConnection, AWSPrivatelink, AzureOrgVPCPeeringConnection,
   AzurePrivatelink, GCPOrgVPCPeeringConnection, GCPPrivatelink, OrganizationVPC,
   ProjectVPC, TransitGatewayVPCAttachment}

\* What it asks for to edit other attributes of the resource.  The timeouts,
\* which every resource has, are to be edited in place.
Siblings(schema, a) ==
  {"mutable"} \cup
    IF \E b \in DOMAIN schema \ {a} : {"required", "replaces"} \subseteq schema[b]
                                      \/ {"optional", "replaces"} \subseteq schema[b]
    THEN {"replacing"} ELSE {}

\* The attributes of all schemas, as AttributeApply tells them apart.
SchemaAttributes ==
  UNION {{[kind |-> schema[a], siblings |-> Siblings(schema, a)] :
            a \in {b \in DOMAIN schema : "secret" \notin schema[b]}} : schema \in Schemas}
===============================================================================
