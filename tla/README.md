# Verification of the Aiven Terraform provider

TLA+ specifications, TLC instances and TLAPS proofs for the hand-written
control logic of the provider (`internal/`): the parts that keep state between
calls, share it between goroutines, poll the Aiven API or perform several
remote steps for one Terraform operation.

## 1. Inventory

Terraform core walks its graph with up to ten resource operations at a time and
calls the provider for each of them in a goroutine of its own. The provider is
one process; what it keeps between calls lives in package-level variables. All
lasting state is elsewhere: in the Aiven backend, behind an eventually
consistent HTTP API, and in the Terraform state file, which core writes with
whatever a call returned.

| component | code | state it keeps | operations | what makes it correct |
|---|---|---|---|---|
| Kafka topic repository | `internal/plugin/kafkatopicrepository` | seen topics and services, read queue, worker | Create, Read, Update, Delete, Exists; worker: withdraw, fetch | a name is created once, each read is answered once, the cache of names agrees with the backend |
| Resource adapter | `internal/plugin/adapter/resource.go` | the Terraform state of one resource | Create, Read, Update, Delete, refreshState | nothing created is lost from the state, nothing is dropped from it that exists |
| Resource data, timeouts, warnings, schema conversion | `internal/plugin/adapter` (other files) | attribute maps of one call | Get, GetOk, HasChange, Set, Expand, Flatten | plan before config before state; an apply leaves what its plan has shown, and a plan without changes is right |
| Database conflict cache, `DoOnce` | `internal/schemautil/database.go`, `wait.go`, `plugin/service/{pg,mysql,clickhouse}/database` | seen database names, one cached result per service | CheckDbConflict, ForgetDatabase, Create, Delete | two resources never own one database; a deleted name can be used again |
| Service lifecycle | `internal/schemautil/service.go`, `wait.go`, `static_ips.go`, `custom_diff.go`, `helpers.go` | none in the process; remote service, static IPs, disk, settings | create, update, delete with their waiters, plan-time checks | the waiters return only when the service is in the state they wait for; static IPs are never released while in use; the disk and the settings are those of the configuration |
| Service users | `internal/schemautil/service_user.go`, `internal/plugin/serviceuser`, `plugin/service/*/user` | remote user and password | create, read, reset password, delete | the password in the state is the one the service accepts |
| Organization permissions | `internal/plugin/service/organization/permission` | a package mutex | create, read, update, delete | no resource silently overwrites permissions of another |
| OpenSearch ACLs | `internal/sdkprovider/service/opensearch` | a package mutex, the remote ACL document | add, change, delete a rule, set the configuration | read-modify-write of one document loses no rule |
| VPC peering, transit gateways, private links | `internal/plugin/vpc`, `internal/plugin/service/vpc`, `internal/sdkprovider/service/vpc` | remote peering state | create, poll, approve, delete | pollers end in a final state; approval is sent once, to the right connection |
| Flink deployments and JARs | `internal/plugin/service/flink`, `internal/sdkprovider/service/flink` | remote deployment state | create, cancel and delete, upload | a deployment is gone when delete returns; a failed upload leaves no version behind |
| Kafka schemas | `internal/plugin/service/kafkaschema`, `internal/sdkprovider/service/kafkaschema` | remote subject versions | upsert, compatibility, delete | the version in the state is the one of the schema sent |
| ClickHouse grants | `internal/plugin/service/clickhouse`, `internal/sdkprovider/service/clickhouse` | remote grants | grant, revoke, read | grants in the state are the grants in the database |
| Projects, accounts, billing, integrations, connectors, quotas, other resources | rest of `internal/sdkprovider/service`, `internal/plugin/service` | none | one API call per operation | argument mapping |
| User configuration converters, generated schemas | `internal/sdkprovider/userconfig`, `internal/schemautil/userconfig`, `zz_*` files | none; three versions of every field: configuration, Terraform state, API | Expand, Flatten, SuppressUnchanged, renaming of fields | what the user removes stays, what is shown is sent and nothing else; nobody is let in or kept out by accident |
| Provider server, mux, factories | `main.go`, `internal/server`, `internal/plugin/provider.go`, `internal/sdkprovider/provider` | the API client | configure | wiring |
| Generators, tools, sweepers, acceptance tests, policies, docs | `generators`, `tools`, `opa`, `internal/acctest`, `mocks`, `docs`, `examples` | files | build time | not part of the running program |

How they interact: the adapter calls the view functions of a resource (topic,
database, permission, ...), which call the API client; views share the process
singletons above (`kafkatopicrepository.New`, `seenDatabases`, `DoOnce`,
mutexes). SDK v2 resources call the API directly and poll through
`retry.StateChangeConf`.

What is hard: goroutines of one apply sharing a cache and a mutex across
network calls; answers sent over channels nobody may read any more; two list
endpoints that disagree; names deleted and created again in one process; one
remote step of several failing; pollers that must not take a transient answer
for a final one; context deadlines that expire between two steps. Crashes of the
provider lose only the process caches.

## 2. Modules

The order of the table is the order of the plan. Each module is one component;
no two of these components share state in the process, except that every
database operation goes through two `DoOnce` instances, which is a composition
(`DatabaseConflict` instantiates `DoOnce` twice), and that all plugin resources
sit under the adapter, whose model therefore leaves the resource open.

The handlers of the other resources are data for one machine: `ResourceApply`
runs them, `SdkResources` and `PluginResources` say what they call. What happens
to *values* in the same applies is the subject of six more machines, each of
which has one value through configuration, plan, request, response and Terraform
state: `AttributeApply` (an attribute of a generated schema; the schemas are data
in `PluginSchemas`), `UserConfig` (a field of a user configuration; the fields are
data in `UserConfigSchemas`), `IPFilters`, `ServiceUserPassword`, `DiskSpace` and
`ServiceSettings`. `MCApplies` composes the seven: a behaviour looks at an apply
in one of these ways.

| module | what it is | status |
|---|---|---|
| `TopicRepository` | the topic repository: calls, caches, queue, worker, with the backend's two list endpoints | checked and proved |
| `TopicReads` | what a reader of topics is promised; `TopicRepository` implements it | refinement checked and proved |
| `ResourceAdapter` | the adapter's operations and pollers over an asynchronous backend | checked and proved |
| `DatabaseConflict`, `DoOnce` | the conflict check of databases and the once-per-service results | checked and proved |
| `ServiceLifecycle` | a service and its static IPs | checked and proved |
| `OpenSearchACL`, `ACLDocument` | the ACL resources: concurrent read-modify-writes of one document under a mutex | checked and proved |
| `ACLUpdates` | what a user of the ACL resources is promised: one atomic change per call; `OpenSearchACL` implements it | refinement checked and proved |
| `OrganizationPermission` | the permission resource: a check and a set under a mutex, beside sets without one | checked and proved |
| `LockedCalls`, `CallJobs` | what the two have in common: concurrent calls, their jobs, a package-level mutex | |
| `SharedDocuments` | the two in one process, which runs the one or the other | checked and proved |
| `ResourceApply` | any other resource: its object, its entry in the state, a user who keeps applying, faults everywhere | checked and proved |
| `SdkResources`, `PluginResources` | the handlers of seventy resources as sequences of steps | |
| `AttributeData`, `AttributeApply` | the value of one attribute of a plugin resource through applies | checked and proved |
| `PluginSchemas` | the top-level attributes of forty-eight generated schemas, with what schema, ID fields and handlers make of each | |
| `ServiceUserPassword` | the password of a service user: generated, configured or write-only, with a backend that lags | checked and proved |
| `UserConfig` | one field of a user configuration through applies | checked and proved |
| `UserConfigSchemas` | the fields of the fifty-two user configurations of services, integrations and endpoints | |
| `IPFilters` | the one list of networks and the three fields that show it | checked and proved |
| `DiskSpace` | plan, disk_space, additional_disk_space and the autoscaler of a service | checked and proved |
| `ServiceSettings` | the other settings of a service, the upgrade check of PostgreSQL, the default ACLs of Kafka | checked and proved |
| `TopicRepositoryProofs`, `ResourceAdapterProofs`, `DatabaseConflictProofs`, `ServiceLifecycleProofs`, `OpenSearchACLProofs`, `OrganizationPermissionProofs` | theorems about the module of that name | proved |
| `SharedDocumentsProofs` | what the last two prove, of the two in one process | proved |
| `AppliesProofs` | theorems about the seven views of `MCApplies` | proved |
| `MCResourceApply` | `ResourceApply` with the resources of both catalogues, what holds of them and which are the exceptions | |
| `MCApplies` | the seven machines of applies in one, and what the proofs assume of their catalogues | checked and proved |
| other `MC...` | instances for TLC | |

### Correspondence with the code

Every definition that stands for code is listed with its lines in
`PROJECT.json`, "map". The conventions are these.

- A goroutine's code between two points at which it can be interrupted (an API
  call, a lock it may wait for, a channel operation) is one action. An API call
  takes effect and is answered in one action, except where something may come
  between the two; then it has two (`ExistsList`, `ExistsListed`). What the
  backend does on its own (catching up, tearing down, dropping) is an action of
  its own, marked external in the map.
- `TopicRepository`: `pc[c]` is where the goroutine of call `c` is, `lock` the
  repository's mutex while it is held over a network call, `queue`, `chan` and
  `batch` are `rep.queue`, the requests' `rsp` channels and the map that
  `withdraw` makes. `chan = "closed"` is what `Read` does after it received;
  sending on it is a panic (`SendPanics`). `remote` are the topics that exist,
  `fresh` those v1List does not show yet.
- `ResourceAdapter`: `resource` is the `ResourceOptions` value of a resource,
  reduced to what the adapter branches on, with the faults its environment
  has; `entry` is what Terraform holds, `checkpoint` what `rsp.State` was set
  to before polling. Terraform core's rule, that a response with an error and a
  state taints the resource on Create, is in `Fail`. `hidden` are the objects that
  reads do not find yet, in the operation that made them or a later one; calls
  that change an object find it. `overlooked` remembers those that a Read, or a
  delete poll, has taken for gone meanwhile.
- `DatabaseConflict`: `seen` is `seenDatabases`; `Publish` is the loop body that
  stores one name, so that other goroutines run between two names.
- `ServiceLifecycle`: `at` is the API call that is next; `planned` is
  `d.Get("static_ips")`; `hits` counts the consecutive successes that
  `StateChangeConf` demands. SDK v2's rule, that a failed Update keeps the
  planned values, is in `Remains`. `freed` remembers the IPs of the state that the
  last successful Delete has emptied, until a Create makes the service again.

- `OpenSearchACL`, `OrganizationPermission`: `pc[c]` is the call that is next,
  `holder` the package-level mutex. A document is what a `PUT` replaces; `got` is
  the copy that a call has changed and not yet put back. The two resources never
  meet; `SharedDocuments` runs the one or the other.
- `ResourceApply`: `resource` is a record of step names, one per API call, wait or
  `d.SetId`, in the order of the handler; `at` is the next one. `data` is the
  handler's `d`: whether it has an ID and the two settings, `main`, which the
  first call sends, and `rest`, which a later one does (a password reset, an
  upload, a second PUT). `object` is what the API has, `entry` what Terraform
  holds, `goal` the configuration. `strays` remembers that a second object was
  made while a first existed that no entry leads to; `object.moved` is a rename
  the state has not followed. `Read` says what the resource's Read does about a
  missing object (`missing`): drop the entry, fail, keep it, report it empty or
  make the object again. A Delete with a delete poller has two steps: `DeleteState`
  calls the resource's Delete until it is answered with success, `WaitGone` reads
  until nothing is found; `DeadlineTaken` is the deadline between two attempts, of
  which the last Delete call had a 404. `RemoveUntilGone` is the loop of the Flink
  deployment, which ends only with a read.

- The modules of values have the same frame. `Refresh`, `Plan`, then `Create`,
  `Update`, `Delete` or `Handle` with all that the handler does to the value; what
  fails in between is an action of its own (`CallFails`, `UpdateFails`, `Fails`).
  Four variables are one value seen from four sides: the configuration, the API,
  the Terraform state and the plan (`config`, `remote`, `stored`, `planned` in
  `AttributeApply` and `UserConfig`). Values are two real ones and the ways to
  have none that some part of the code tells apart (null, empty, 0, absent).
- `AttributeApply`: `attribute.kind` is a set of flags, which `PluginSchemas` gives
  for each attribute: what the generator writes into the schema (required,
  computed, default, `UseStateForUnknown`, `RequiresReplace`), and what the handlers
  of a resource do with it (hidden in responses, one of the ID fields).
- `UserConfig`: `nine` says whether the items of a set have hashes of nine digits,
  the only ones that `SuppressUnchanged` recognises.
- `IPFilters`: `filters`, `known` and `shown` have a value for each of the fields;
  `networks` is the list at the API; `purge` is `AIVEN_ALLOW_IP_FILTER_PURGE`.
- `ServiceUserPassword`: `accepted` is the password the service takes, `settling`
  that the API does not show it yet; `adrift` remembers that it was set without
  the state's knowing.
- `DiskSpace`: a size is a number with its unit, as users write it; the provider
  writes GiB only. `Copied(d, s, withConfig)` is what Read does in a refresh, which
  has no configuration, and at the end of Create and Update, which have one.
- `ServiceSettings`: a behaviour has one of ten settings; `Keeping`, `Suppressed`,
  `Sent` and `Shown` say how they differ.

External, and taken from the comments and tests of the repository: what core and
the plugin SDK do. `HasChange` compares the state with the configuration, where
null counts as no change; an unset number is 0 in the state; a failed Update
leaves the plan in the state, except in the plugin framework, where the adapter
decides; a refresh has no configuration; core replaces what is tainted.

Assumed of the API in `ResourceApply`: a second object of one name is refused with
a conflict; an object is built or deleted after the answer only where the
provider waits for it; a plan is made on what its refresh has just read; others
delete objects but do not change their settings; an object can be read when the
user applies the next time (`Apply`; lag that lasts longer is the subject of
`ResourceAdapter`).

Abstracted: attribute values, payloads, messages, logging, waiting times (a
poll may happen at any time). A timeout may pass whenever
something polls. Failures of an API call are: it has no effect; or it has one
and the answer is lost.

## 3. Runs

| run | instance | result |
|---|---|---|
| `topic_calls` | three calls: every multiset of Create, Read, Delete, Exists on one name, with Update once; reads of three topics of two services, of which one may be powered off; batches of two, two attempts | holds, 331,926 states |
| `topic_chunks` | reads of a service with two chunks | `WorkerSurvives` is violated |
| `topic_sametopic` | three reads of one topic | `ReadsReturn` is violated |
| `adapter_operations` | the seven combinations of options that resources declare, each with every fault and with none, those that wait for reads also with a lag alone, those with a delete poller with a lag and refused deletions; two objects, one of which has the configured name | holds, 136,572 states |
| `adapter_deadline` | one resource with `DeleteState` whose context may expire | `DeletedMeansGone` is violated |
| `database_calls` | three calls: every multiset of Create, Read, Delete on one name; a Create or Read beside a Delete and a Create on the other page; pages of one name, two attempts, any call may fail | holds, 278,036 states |
| `database_replaced` | Delete and two Creates of one name | `CheckProves` is violated |
| `database_reused` | Delete and Create of one name, Create of another | `RejectedExists` is violated |
| `service_operations` | two static IPs, two occurrences, all operations in any order, every fault; and again without power-offs and other services | holds, 473,320 states |
| `service_deleted` | the same without faults | `DeletedMeansGone` is violated |
| `documents_calls` | three calls: every multiset of operations on one ACL document, or on one organization's permissions, with a second target; a resource without permissions among them; lost answers | holds, 372,281 states |
| `applies_faults` | an apply seen one of seven ways: the handlers of each of seventy resources, three faults, two changes of the configuration (`MaxFaults`, `MaxEdits`); each kind of attribute, user password, user configuration field and the IP filters, three edits, changes of others or faults (`MaxEvents`); disk and settings of a service, two (`MaxSizings`) | holds, 283,251 states |

What the passing runs show:

- `topic_calls`. `CreatesBounded`: of concurrent Creates of one name one reaches
  the API, plus one for each Delete that succeeded. `CreatedNotMissing`: a name
  created in this process is not reported missing because v1List lags.
  `MarkedHasReason`: a name destroyed in this process can be created again.
  `AnsweredAtMostOnce` and `ReadsKept`: each Read gets one answer, and a positive
  one for a topic that existed while it waited. `CallsReturn`: the worker answers
  everybody without any context having to expire.
- `adapter_operations`. `NothingLost`: an acknowledged object whose ID is known
  is in the state between operations, whatever failed. It names one exception: an
  object that a Read or a delete poll did not find because reads still lagged
  behind its creation. `RemoveMissing` and `deleteState` take any 404 for "gone", so such
  an object leaves the state; TLC finds it when the exception is taken out, and
  nothing else loses an object. `ForeignNotTainted`: an
  adopted object is not condemned. `AttemptDeletes`: a Delete that
  succeeds in one of its attempts has seen its object gone, and not because reads
  lag behind its creation. `NothingFails`, `OperationsReturn`: a backend that lags
  behind a Create that waits for reads (`refreshState`), and refuses for a while a
  deletion that a poller repeats, never makes an operation fail or wait for its
  deadline.
- `database_calls`. `CreatesBounded`, `CheckProvesUndeleted` (the check proves a
  name absent, unless the process also deletes that name), `DeletedOrRecreated`,
  `ListsWhole` (the paged listing misses nothing that was there throughout),
  `CallsReturn` (both mutexes are handed on, whatever fails).
- `service_operations`. `NeverStripped`: while an Update exchanges static IPs the
  service always has the old ones or all the new ones. `UpdateSettles`: an Update
  that succeeds, after any number that failed half-way, leaves exactly the
  planned IPs. `CreateIsFirst`: a Create never adopts. `FreedAreUsable`: once
  a Delete has succeeded and the service is gone, in whichever order the backend
  gets there, the IPs that the state gave it are free, and stay so until a Create
  takes them, which is not refused because of them; it assumes that no other
  service uses static IPs. `OperationsReturn`: no operation needs its timeout,
  unless others take the IPs or power the service off.
  `NeverStripped`, `UpdateSettles` and `OperationsReturn` exclude an
  Update that plans an IP whose dissociation an earlier, failed Update has
  requested and the backend has not carried out: the code takes the IP for
  associated and does not associate it again.

- `documents_calls`. `UpdatesAtomic`: every ACL call changes the document as it is
  at that moment, so no rule or setting of another is lost. `OneRuleEach`: an
  update that adds the new rule and removes the old one never leaves two.
  `CreatesBounded`: with the conflict check on, of the Creates of one target one
  gets to set permissions, and one more for every call that has cleared them.
  `CreateSparesOthers`: nor does a Create replace permissions that were there before
  it began or that another Create has set; those of an Update, which takes no
  lock, it may. `CallsReturn`: both mutexes
  are handed on, whatever fails.
- `applies_faults`. `StraysExcused`: what a failed apply leaves at the API is in
  the state or can be found by its name, unless the answer that made it was
  lost. `DeletedIsGone`: a Delete that succeeds has deleted; only the
  deadline of `deleteState` can leave an object behind, one that is being deleted
  (the set `Impatient`; the run `adapter_deadline` is about that). `NoopsAreRight`: "no
  changes" is true, of objects and of every value. `AllConverge`: a user who keeps
  applying gets what is configured, and then plans without changes. `PlansKept`:
  an apply leaves the values that its plan has shown, changes no others, resizes
  no disk and upgrades no PostgreSQL whose check has failed.
  `ReplacedOnlyIfAsked`: nothing is replaced that has what the user asks for.
  `RotatedOnlyIfAsked`: no password is reset that the user has not changed.
  `FiltersKept`: no Update lets in or keeps out other networks than configured.

Each property of the values has named exceptions. They are conditions on the
configuration or the schema, not on the history, and TLC finds the property
violated when one is taken out; they say what the code does not tell apart.

| exception | module | what happens |
|---|---|---|
| `EmptyString` | `AttributeApply` | an empty string in the configuration is never in the state: every plan shows it |
| `Irremovable` | `AttributeApply` | the removal of a number, a boolean, a map or what must not be zero is not sent: the value comes back |
| `Unseen` | `AttributeApply`, `UserConfig` | no response has the value. A service that was imported is replaced when the name or the password of its administrator is configured |
| `Preferred` | `AttributeApply` | the value of the plan is preferred to that of the response |
| `Rechosen` | `AttributeApply` | entry class, arguments and savepoint of a JAR deployment, which the API may choose, are unknown in every plan: the deployment is replaced when its timeouts are edited |
| `EmptyForNone` | `AttributeApply` | core tells null from empty, the API does not |
| `Regenerated` | `ServiceUserPassword` | a generated password is unknown in every plan that changes the user, and is reset |
| `ZeroUnseen` | `UserConfig` | 0 for a number without a value shows no change |
| `MapRemoved` | `UserConfig` | the removal of a map is shown in every plan and never sent |
| `Overlooked` | `IPFilters` | a field that is set to no networks while the default list is in another shows no change: everyone is let in |
| `Misplaced` | `IPFilters` | the default list, moved away from `ip_filter_string`, stays there in the state: every plan moves it |
| `Forbidden` | `IPFilters` | an empty list, without the variable that allows it |
| `Unread` | `DiskSpace` | `disk_space` is not refreshed: another size, by others or because an Update failed, is not seen |
| `Overruled` | `DiskSpace` | beside an autoscaler `disk_space` is planned each time and not sent |
| `Abbreviated` | `DiskSpace` | sizes are read back in GiB: `30G` differs in every plan |
| `Unrequestable` | `DiskSpace` | `additional_disk_space` with a plan of unknown size is an error of the apply, not of the plan |
| `Halved` | `ServiceSettings` | a Create sends no maintenance window of which the day or the time is missing; the next apply does |
| `Never` | `ServiceSettings` | a window that others have set to "never" is not sent: a time alone differs in every plan |
| `Refused`, `Rejected` | `ServiceSettings`, `DiskSpace` | the upgrade check, or a check of the plan, says no, and goes on saying so |

Each property of the handlers holds of all resources but those of a set that
`MCResourceApply` names, and every member of the sets violates its property when
it is taken out. The sets say what the handlers do:

| set | resources | what they do |
|---|---|---|
| `Undeletable` | Azure and GCP private link approvals, OpenSearch security configuration | Delete makes no call and succeeds |
| `Impatient` | BYOC provision, project and organization VPC, the three organization VPC peerings, Azure and GCP private link, transit gateway attachment | `deleteState` joins the last Delete's error to its deadline's; when that was a 404, because an earlier call has begun the deletion and its answer was lost, Delete succeeds while the object is still being deleted |
| `SetsIDTooLate` | team, service users with a password, Kafka schema, ClickHouse grant, JAR version, VPC peerings | a step of Create may fail after the object was made and before the ID is set: the object is not tracked |
| `DropsTooEarly` | team project, Kafka quota | the read inside Create or Update drops the entry of an object that is not visible yet |
| `LosesName` | project | Update renames first and sets the ID last: what fails in between leaves the old name in the state, the next read drops it, the next Create meets a conflict |
| `Blind` | accepted team member, organization user, ClickHouse role | Read succeeds for an object that is gone: it is never made again |
| `Unforgetting` | eighteen, among them billing groups, units, user groups and static IPs | Read of an object that is gone is an error until the user removes the entry by hand |
| `Unsettled` | private link approvals, security configuration, project user | a later change of the GCP or Azure IP address is not carried out; a password whose change was not answered is exchanged for one the state does not know; Update always refuses |

Met on the way, and outside what the machine tells apart:
`resourceProjectCopyBillingGroupFromProject` assigns the project it copies from
(`project.go`, 197-222) and its caller drops the error; `Read` of an account team
member calls Create, which calls `Read`; the Update of a team project addresses
the new name, as `project_name` does not force a replacement;
`termination_protection` is looked at only when the whole plan is null
(`adapter/resource.go`, `ModifyPlan`), so it does not stop a replacement; the
comment of `plugin/service/clickhouse/user/user.go` that a password is not reset
when the user has not provided it is not true of other edits (`Regenerated`); a
service is powered on by every Update, though the description of `state` says
that Terraform does not do that; `karapace = true` of a new Kafka service is
never sent, as only Update sends it, and only when it changes; the `default` of the timeouts has
no validator of durations; no kind of service supports `service_password_wo`, so
that `upsertServicePassword` calls nothing; between the upgrade check of
PostgreSQL and the update others may upgrade the service (`PlansKept` says
`quiet`), and between the check for running Flink deployments and the deletion
of their service others may start one.

### Bounds, and why they are enough

Topics and databases: the races are between operations on one name, and two
goroutines are needed for each; the third shows the interference of a third
party (a Delete between two Creates). Names of other keys never meet in the
code except in one batch of reads and one listing, so a second service and a
second name are there for these. Batches of two and attempts of two are the
least for which "last of the chunk" and "last attempt" differ from the first.
A page of one name makes every listing of two names a paged one.
Adapter: one object bears the configured name; another is what a second Create
makes; a third would never meet the first two, as the adapter knows one ID.
Service: two IPs are the least of which one stays while another goes;
`ContinuousTargetOccurence` is 5 in the code and 2 here, which is enough for a
target that is met and lost again. Documents: a lost update needs a reader, a writer in between and a third to
overwrite; a second target shows that changes of one leave the other alone.
Resources: handlers of one resource share nothing with others in the process,
so each runs alone. Two faults make a half-finished operation and a
half-finished attempt to repair it; the third is the change of others in
between. Two edits are the least for which the state, the object and the
configuration all differ. Values: the longest way to any of the exceptions
has an edit, a change of others and a fault. Of the disk and the settings two events suffice: every exception is
needed then already. Two real values tell apart whatever compares them; sizes of
disks are four steps, with a plan whose steps are two. Nothing in any model counts without a bound
in the code, apart from the sequence of operations, which is unbounded in
`ResourceAdapter` and `ServiceLifecycle`.

`TopicRepository`, `DatabaseConflict` and the shared documents end when all their
calls have returned, so their runs do not check deadlock; `CallsReturn` takes its
place. The others never end.

### Fairness

Weak fairness of the goroutines' steps: the Go scheduler runs what can run,
API calls return (the HTTP client has a timeout, and a call that fails is among
the steps), and `sync.Mutex` does not starve. Of the backend only that it
finishes what it has begun. In `ResourceApply` also the user is fair: he applies
again as long as he is not done; its faults end because they are bounded, and
what it promises is that after the last of them things get right. So it is in
the six machines of values (`WF` of `Work`, the user's next step), and the backend
of `ServiceUserPassword` shows a new password in the end. No fairness makes a context expire, a fault
occur or Terraform start an operation: what is said to happen happens without
the help of a timeout.

## 4. Findings

Each is a run whose expected result is a violation, with the quotation it
contradicts in `PROJECT.json`.

- `topic_chunks`: a failed chunk answers the requests of all chunks of its
  service, then the others are answered again: the worker panics or blocks.
- `topic_sametopic`: of two Reads of one topic in one tick only one is answered.
- `adapter_deadline`: a delete that times out after its last Delete call got a
  404 is reported as success, although the last read found the object.
- `database_replaced`: a Delete forgets the mark that a Create of the same name
  has set meanwhile.
- `database_reused`: a list read before a deletion is published after it.
- `service_deleted`: the deletion waiter does not wait for the service, only for
  its static IPs.

## 5. Theorems

TLAPS proves every invariant and every action property of the passing runs, for
all values of the constants that satisfy the named assumptions: finite sets of
calls, a sentinel that is no member of a set, positive bounds
(`ConstantsAssumption`); for the adapter's resources, what `ResourceOptions`
requires of one another; for the views of an apply, what is said below. A proof
module has one inductive invariant per part of the state that changes on its own,
and its theorems follow from them by PTL.

`TopicRepositoryProofs`. The cache of names and the worker share only `pc` and
`result`.

- `NamesInv` = types, where a call may be (`PlaceInv`), that a call in `listing`
  holds the lock and its name is unmarked (`MutexInv`), and `MarkInv`. The bound
  on Creates alone is not inductive: nothing in it says why the next Create must
  wait. `MarkInv` adds the mark to the balance: the Creates that reached the API
  are paid for by the Deletes that succeeded and by the mark. It gives
  `CreatesAreBounded` and `CreatedIsNotMissing`; with where a mark may come
  from, `MarksHaveReasons`.
- `AnswersInv` follows a request through queue, batch, `todo`, chunk and `outbox`
  and says that it is in one of them, unanswered, as long as its service fits
  one chunk. It gives `AnswersAreSingle`, `WorkerSurvivesOneChunk` and
  `ReadsAreKept`, the refinement of `TopicReads`. The hypothesis of one chunk is
  what `topic_chunks` shows to be needed.

`ResourceAdapterProofs`. `IInv`: types, that a Create begins with an empty
history (`CreateCallInv`), that while it polls it knows and has checkpointed the
one object it made (`CreatePollInv`), that every other operation knows what the
state holds, whether reads find it or not (`EntryOpInv`), what a 404 of a Delete call proves (`DeleteCallInv`), and
where foreign objects can be (`ForeignInv`). It gives `CreatedIsTracked`
(an entry that a 404 drops is of an object that is absent or `overlooked`),
`ForeignIsSpared` and `DeleteIsFinal`. `FriendlyOperationsSucceed` needs two
more, about a backend that only lags: which objects there are, the one in the
state, the one being created, or none, and that only a Create that polls may not
see its object (`PeaceInv`), and that only a resource with
a delete poller has objects that linger (`LingerInv`). Its hypothesis
`Sensible(r)`: what is new or finished does not count as failed, and who finds
the ID by reading can tell the object from a deleted one. All combinations of
the run satisfy it.

`DatabaseConflictProofs`. `MarkInv` is the balance of the topics', and gives
`CreatesBounded`. `PagesInv` is about a listing in progress: what has been there
since it began is on the pages got so far or after the cursor; it gives
`ListsWhole`. That a page which is not the last has a last name to go on from
needs the greatest element of a finite set; it comes from
`FS_StrictSubsetOrderingWellFounded` and `WFMin`, an induction over finite sets
that takes no operator as a parameter. `CreatedInv`: what a call knows to have
been missing, and is there all the same, a Create has made since; it gives
`DeletedOrRecreated`. `OnceInv` (`DoOnce` keeps its result) and `UndeletedInv` (a name
that no call deletes is marked if it exists, unless the listing has yet to
publish it) give `CheckProvesUndeleted`.

`ServiceLifecycleProofs`. `MadeInv`: a Create that gets beyond its first call has
made the service. `SetsInv`: an Update associates only planned IPs and takes only
others away, and after the wait none of those is left. `PoolInv`: a service that is
gone holds no IP, no IP is assigned again before a Create makes a service, and what
nobody owns is not in use; with it, what a Delete has seen unassigned is free when
the service is gone (`FreedIPsAreUsable`). `KeptInv`: until it has
seen the planned IPs ready it lets none go, and those it has seen stay.
`NeverStripped` alone is not inductive: it does not say that what is associated
or dissociated next is planned or not.

`OpenSearchACLProofs` and `OrganizationPermissionProofs`. The call that holds the
mutex is the only one past its read (`LockedCalls`), so what it is about to put
back is its change of the document as it still is (`PutInv`). `UpdatesAtomic`
follows: the step that puts the document back is the step of `ACLUpdates`, all
others stutter. Permissions have a lock for Creates only: behind its check a
Create meets what the check has seen, or what an Update has put there since
(`CheckedInv`). `BalanceInv` counts the Creates that get to set permissions against
the calls that clear them; a target that has none, or that a Create is about to
set, owes no Create. `SharedDocumentsProofs` carries both over to the process that
has the two, through instances of the proof modules.

`AppliesProofs`. In `MCApplies` a behaviour is one of seven views, and a step
outside a view leaves its variables alone. So each view has an invariant of its own;
PTL puts them together.

| view | invariant | gives |
|---|---|---|
| handlers | `OpInv` (what is refreshed, updated or deleted has an entry), `PresenceInv` (what is deleted has been seen, and has not moved since) | `DeletedIsGone` |
| | `CreateInv` (a Create makes its object when it has no ID yet, and has it in the next step), `LeadsInv` (entry and object of every other moment) | `StraysExcused` |
| | `ShowInv` (a plan is of an entry that shows the object, or what differs) | `NoopsAreRight` |
| attributes | `ShownInv` (since the refresh, the state is what was made of the API's answer), `PlannedInv` (what is done is what the plan says) | `PlansKept`, `NoopsAreRight`, `ReplacedOnlyIfAsked` |
| passwords | `EntryInv` (no write-only password is in the state), `ActInv`, `SyncInv` (the state has the password that the service accepts, or its version, or the next plan shows a change) | `RotatedOnlyIfAsked`, `NoopsAreRight` |
| fields | `HeldInv`, `DraftInv` (as of attributes) | `PlansKept`, `NoopsAreRight`, `ReplacedOnlyIfAsked` |
| networks | `ListedInv` (a plan is of the list of the service, in one of the three fields) | `FiltersKept`, `NoopsAreRight` |
| disk | `TrackedInv`, `ProposalInv` (as of attributes, and the proposal fits the plan of the service) | `PlansKept`, `NoopsAreRight` |
| settings | `NotedInv`, `OfferInv` (as of attributes, and no update follows a refused check) | `PlansKept`, `NoopsAreRight` |

Nothing is used of the catalogues but what these assumptions say, which TLC
evaluates with the catalogues in place: that they are not empty
(`ViewsAssumption`), that a field's schema does not contradict itself
(`FieldsAssumption`), that an attribute's does not (`AttributesAssumption`), and
`HandlersAssumption`. The last is the interesting one: a criterion on the list of
steps of a handler for each property. `DeletesLast`: Delete ends with the call
that deletes or the wait for its end; a resource with the step `deleteState` is in
`Impatient`, since the deadline may cut that wait short. `MakesOnce`: Create makes the object once
and sets the ID in the step after. `KeepsObject`: no handler clears the ID of an
object that is there. `ShowsAll`: Read does not keep the entry of an object that is
gone, and a setting that it does not show follows one that it shows. What
holds of seventy lists of steps is thus proved of any list that meets the
criteria, and the sets of section 3 are the resources that do not. They are
sharp: each member violates its property in TLC. A resource that is added to the
provider needs its criteria looked at, no proof.

Only model-checked:

- liveness (`CallsReturn`, `OperationsReturn`, `AllConverge`): the prover has no rule
  for fairness;
- `ReadsKept` for a service of one chunk beside services of several: the theorem
  assumes one chunk of all services (`AnsweredAtMostOnce` is proved of the former);
- that the catalogues have the properties the assumptions name, and the runs that
  expect a violation.

## 6. Not modelled, and why

Two components have the status "not_modelled" in `PROJECT.json`: the wiring at
start-up, and what is not the running provider (generators, tests, sweepers,
documentation).

Left out of modelled components:

- the adapter's `ValidateConfig` and `ConfigValidators`, which change nothing;
- data sources: they read, and keep nothing between two reads;
- the upgraders of states of version 0 (`schemautil/userconfig/stateupgrader`): they
  run once, before the refresh that replaces what they have converted;
- of a service, what Read only shows (URIs, components, connection details), the
  deprecated `karapace`, and the check of a Flink service's deployments;
- `source_checksum` of a JAR version, a `password_wo` that is edited without its
  version, a Create of a user that fails before it has an entry (in
  `ResourceApply`, not in `ServiceUserPassword`);
- required fields, ranges and descriptions in `UserConfigSchemas`;
- test hooks (`forgetTopic`, `forgetService`, `ServicePoweredOffForget`); the unused
  `DatabaseDeleteWaiter`.

## 7. Plan

What the earlier plan had is done: every invariant and every action property that
a passing run checks is a theorem. Left, in this order:

1. the findings' positive counterparts: what must not happen for
   `CheckProves`, `RejectedExists` and the two `DeletedMeansGone` to hold (no Delete of
   the name between check and creation; no deadline between two attempts; no
   service that outlives its static IPs), as theorems under a hypothesis on the
   behaviour;
2. `ReadsKept` for services of one chunk beside services of several;
3. for `ResourceApply`, an abstract specification of what an apply promises (entry,
   object and configuration, no steps), which the handlers that meet the criteria
   implement.
