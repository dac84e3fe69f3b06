---------------------------- MODULE MCResourceApply ----------------------------
(***************************************************************************)
(* ResourceApply for TLC, with the resources of both catalogues, and what  *)
(* holds of them.  A property holds of all resources but those of a set    *)
(* named here, each of which TLC finds to violate it: what the sets say is *)
(* as much a result as the property.                                       *)
(***************************************************************************)
EXTENDS ResourceApply, SdkResources, PluginResources

AllResources == SdkCatalogue \cup PluginCatalogue

-----------------------------------------------------------------------------
(* The resources that are the exceptions.                                  *)

\* Delete has nothing to call: it succeeds, and the object stays.
Undeletable ==
  {AzurePrivatelinkConnectionApproval, GCPPrivatelinkConnectionApproval, SecurityPluginConfig}

\* deleteState takes its deadline for success while an object is being deleted,
\* when an earlier Delete has begun that, or one whose answer was lost.
Impatient ==
  {Provision, ProjectVPC, OrganizationVPC, AWSOrgVPCPeeringConnection,
   AzureOrgVPCPeeringConnection, GCPOrgVPCPeeringConnection, AzurePrivatelink, GCPPrivatelink,
   TransitGatewayVPCAttachment}

\* A step of Create can fail between the call that makes the object and the one
\* that sets the ID: naming a team, resetting a password, putting a level,
\* granting roles, the clean-up after an upload, the wait for a peering.
SetsIDTooLate ==
  {AccountTeam, KafkaUser, OpenSearchUser, MySQLUser, PGUser, ValkeyUser, KafkaSchema,
   ClickhouseGrant, FlinkJarVersion,
   AWSVPCPeeringConnection, AzureVPCPeeringConnection, GCPVPCPeeringConnection}

\* The read of a Create or an Update gives up an object that is not visible yet.
DropsTooEarly == {AccountTeamProject, KafkaQuota}

\* The ID is the old name while an Update that fails has set the new one.
LosesName == {Project}

MayStray == SetsIDTooLate \cup DropsTooEarly \cup LosesName \cup Undeletable

\* Read reports success for an object that is gone.
Blind == {AccountTeamMemberAccepted, OrganizationUser, ClickhouseRole}

\* Read fails on an object that is gone, until the user removes the entry.
Unforgetting ==
  {ProjectUser, BillingGroup, CustomCloudEnvironment, CMK, OrganizationAddress, ApplicationUser,
   OrganizationBillingGroup, UpgradePipelineStep, OrganizationalUnit, UserGroup, GovernanceAccess,
   GroupProject, Organization, OrganizationProject, ApplicationUserToken, UserGroupMember,
   StaticIP, Provision}

\* An approved connection is not approved again with another address: Azure's
\* fails, GCP's succeeds and changes nothing.  A password whose change was not
\* answered is not known to the state, which asks to replace the one before.
\* The Update of a project user, which is deprecated, always fails.
Unsettled == Undeletable \cup {ProjectUser}

-----------------------------------------------------------------------------
(* What the handlers of all other resources have in common, which is why   *)
(* the properties hold of them.                                            *)

Renames(r) == Has(r.create, {"rename"}) \/ Has(r.update, {"rename"})

GivesUp(r) == r.missing \in {"drop", "dropNew"}

\* A step before step i of the list has one of the names.
Before(steps, i, names) == \E j \in 1..(i - 1) : steps[j] \in names

Makes == {"make", "put", "approve"}

DeleteSteps == {"unset", "remove", "removeStrict", "removeUntilGone", "deleteState", "waitGone"}

WellFormed(r) ==
  /\ r.create # <<>> /\ r.delete # <<>>
  /\ ~Has(r.create, {"none"}) /\ ~Has(r.update, {"none"}) /\ ~Has(r.delete, {"none"})

\* A Delete ends with the call that deletes, or with the wait for its end.
DeletesLast(r) ==
  /\ \A i \in DOMAIN r.delete : r.delete[i] \in DeleteSteps
  /\ r.delete[Len(r.delete)] \in
       IF SlowDelete(r) THEN {"removeUntilGone", "waitGone"} ELSE {"remove", "removeStrict"}
  /\ Renames(r) => GivesUp(r)

\* Create makes one object, sets the ID next, and reads only what is there.
MakesOnce(r) ==
  \A i \in DOMAIN r.create :
    /\ r.create[i] \in Makes =>
         /\ i < Len(r.create) /\ r.create[i + 1] = "setID"
         /\ ~Before(r.create, i, {"setID"})
    /\ r.create[i] = "read" =>
         /\ r.missing = "dropNew" => i > 1 /\ r.create[i - 1] \in {"poll", "pollReady"}
         /\ r.missing = "remake" => ~r.adopts /\ Before(r.create, i, {"setID"})

\* No Update can come to lead to another object, or to give up a new one.
KeepsObject(r) ==
  /\ ~Renames(r) /\ ~Has(r.create, {"approve"}) /\ ~Has(r.update, {"make", "approve"})
  /\ Has(r.update, {"put"}) => ~(r.framework = "sdk" /\ GivesUp(r) /\ Has(r.update, {"read"}))

\* A Read shows all settings, or the one that it does not show follows the other.
ShowsAll(r) ==
  /\ r.missing # "keep"
  /\ Has(r.update, {"exchange"}) =>
       /\ r.missing # "remake"
       /\ \A steps \in {r.create, r.update, r.delete} :
            ~Has(steps, {"rest", "upload", "reconcile", "unset"})

ASSUME HandlersAssumption ==
  \A r \in Resources :
    /\ WellFormed(r)
    /\ DeletesLast(r) \/ r \in Undeletable
    /\ Has(r.delete, {"deleteState"}) => r \in Impatient
    /\ (DeletesLast(r) /\ MakesOnce(r) /\ KeepsObject(r)) \/ r \in MayStray
    /\ ShowsAll(r) \/ r \in Blind

-----------------------------------------------------------------------------
\* No apply ends with an object at the API that neither an entry nor the name
\* in the configuration leads to, and none is left behind without an entry,
\* unless an answer was lost: Create sets the ID as soon as it has made the
\* object (adapter/resource.go, the order of ensurePostCreateID and the poll),
\* so that what fails afterwards leaves a tainted entry.
StraysExcused ==
  op = "none" /\ (strays \/ (Exists /\ entry.status = "none" /\ object.status # "deleting"))
    => lost \/ resource \in MayStray

\* When core plans no change for a resource that is configured, the object is
\* there, with the settings of the configuration: no failed Create, Update or
\* Delete, lost answer or change of others is hidden by the state.
NoopIsRight ==
  op = "plan" /\ Verdict = "none" /\ goal # 0
    => (Visible /\ object.main = goal /\ object.rest = goal) \/ resource \in Blind

\* A Delete that succeeds leaves nothing at the API: it waits where the API
\* deletes later (the second half of deleteState, the loop of flink/deployment),
\* and takes only a 404 for an object that is gone.  A 404 of its own Delete call,
\* joined to its deadline, deleteState takes for one too (adapter/resource.go, 652):
\* then the object is at least being deleted.
DeletedIsGone ==
  [][op = "delete" /\ op' = "plan" =>
       \/ ~Exists'
       \/ object'.status = "deleting" /\ resource \in Impatient
       \/ resource \in Undeletable]_vars

\* The state, the object and the configuration agree.
Settled ==
  IF goal = 0
  THEN entry = NoEntry
  ELSE /\ entry = [status |-> "kept", main |-> goal, rest |-> goal]
       /\ Visible /\ object.main = goal /\ object.rest = goal

\* Create is refused: the name is taken, by an object without an entry, or
\* there is no Create.
Blocked ==
  /\ entry = NoEntry
  /\ (resource.named /\ Exists) \/ resource.create = <<"refuse">>

\* A user who keeps applying ends with what is configured, whatever failed
\* before: a failed, half-finished or repeated operation is made good by the
\* next ones.  Else the name is taken by an object that StraysExcused excuses,
\* or the object is gone and Read does not give the entry up.
Converges ==
  <>[](\/ Settled \/ Blocked
       \/ resource \in Unforgetting \cup Blind /\ ~Found
       \/ resource \in Unsettled)
===============================================================================
