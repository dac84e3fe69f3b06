--------------------------- MODULE ResourceAdapter ---------------------------
(***************************************************************************)
(* The adapter of internal/plugin/adapter/resource.go, which carries out   *)
(* Terraform's Create, Read, Update, Delete and Import of one resource:    *)
(* the call of the resource's own view function, the pollers that follow   *)
(* it (refreshState, deleteState), and what is left in the Terraform state *)
(* when one of these steps fails.                                          *)
(*                                                                         *)
(* Terraform core runs one operation at a time on a resource.  The backend *)
(* is asynchronous: an object is built and torn down in steps, and reads   *)
(* may not find a new object yet, in this operation or a later one; calls  *)
(* that change it do.  Other clients may create and delete.                *)
(***************************************************************************)
EXTENDS Naturals, FiniteSets

CONSTANTS
  Objects,    \* remote objects the resource may come to stand for
  Named,      \* the object whose identity the configuration gives
  NoObject,   \* no object: an unknown ID
  Resources   \* the ResourceOptions a resource may be declared with

Values == {"building", "active", "error", "deleting", "deleted"}
Live == {"building", "active", "error"}

\* What may go wrong with the operations on a resource.
Faults ==
  {"lag",        \* reads do not find a new object for a while
   "apiError",   \* a call fails
   "lostReply",  \* a call takes effect and fails
   "expiry",     \* the operation's context expires while it polls
   "dependents", \* deletion is refused while something is attached
   "buildError", \* an object may end up in error
   "outsiders"}  \* other clients create and delete the object

\* Whether the ID is known from the configuration, from what Create returns
\* or only from what Read returns; then IgnoreAlreadyExists, RemoveMissing,
\* RefreshState with its Desired and Failed values, RefreshStateCheck,
\* DeleteState and its Desired values; and the faults it has to cope with.
ResourceOptions ==
  [idFrom : {"plan", "create", "read"},
   ignoreAlreadyExists : BOOLEAN, removeMissing : BOOLEAN,
   refreshState : BOOLEAN, desired : SUBSET Values, failed : SUBSET Values,
   check : [Values -> {"ok", "notDesired", "failed"}],
   deleteState : BOOLEAN, deleted : SUBSET Values,
   faults : SUBSET Faults]

ASSUME ConstantsAssumption ==
  /\ Named \in Objects
  /\ NoObject \notin Objects
  /\ Resources \subseteq ResourceOptions
  /\ \A r \in Resources :
       /\ r.ignoreAlreadyExists => r.refreshState /\ r.idFrom = "plan"
       /\ r.idFrom = "read" => r.refreshState
       /\ r.deleted \subseteq {"deleted"}

ReadErrors == {"notFound", "forbidden", "multiple", "apiError"}
DeleteErrors == {"notFound", "conflict", "apiError"}

Entries == [id : Objects, tainted : BOOLEAN]
NoEntry == [id |-> NoObject, tainted |-> FALSE]
Kept(o) == [id |-> o, tainted |-> FALSE]
Tainted(o) == [id |-> o, tainted |-> TRUE]

-----------------------------------------------------------------------------
VARIABLES
  resource,         \* a.resource
  remote,           \* state of each object on the backend
  hidden,           \* new objects that reads do not find yet
  foreign,          \* objects other clients have created
  attached,         \* something is attached to the object: it cannot be deleted
  entry,            \* the resource in the Terraform state
  op,               \* the operation in progress
  polling,          \* the view has been called, the poller runs
  data,             \* d.ID(): the object the operation knows
  checkpoint,       \* rsp.State as set before polling
  createSucceeded,
  deleteSucceeded,
  deleteErr,        \* the error of the last Delete call
  owned,            \* objects whose creation was acknowledged since the last
                    \* Create began
  told,             \* IDs the API has told since then
  overlooked,       \* objects a Read has taken for gone since then, while they
                    \* were hidden
  result            \* of the last operation

remoteVars == <<remote, hidden, foreign, attached>>
callVars == <<op, polling, data, checkpoint, createSucceeded, deleteSucceeded, deleteErr>>
historyVars == <<owned, told, overlooked>>
vars == <<resource, remoteVars, entry, callVars, historyVars, result>>

TypeOK ==
  /\ resource \in Resources
  /\ remote \in [Objects -> Values \cup {"absent"}]
  /\ hidden \subseteq Objects
  /\ foreign \subseteq Objects
  /\ attached \in BOOLEAN
  /\ entry \in Entries \cup {NoEntry}
  /\ op \in {"none", "create", "read", "update", "delete"}
  /\ polling \in BOOLEAN
  /\ data \in Objects \cup {NoObject}
  /\ checkpoint \in Entries \cup {NoEntry}
  /\ createSucceeded \in BOOLEAN
  /\ deleteSucceeded \in BOOLEAN
  /\ deleteErr \in DeleteErrors \cup {"nil"}
  /\ owned \subseteq Objects
  /\ told \subseteq Objects
  /\ overlooked \subseteq Objects
  /\ result \in {"none", "ok", "error"}

Init ==
  /\ resource \in Resources
  /\ remote = [o \in Objects |-> "absent"]
  /\ hidden = {}
  /\ foreign = {}
  /\ attached = FALSE
  /\ entry = NoEntry
  /\ op = "none"
  /\ polling = FALSE
  /\ data = NoObject
  /\ checkpoint = NoEntry
  /\ createSucceeded = FALSE
  /\ deleteSucceeded = FALSE
  /\ deleteErr = "nil"
  /\ owned = {}
  /\ told = {}
  /\ overlooked = {}
  /\ result = "none"

-----------------------------------------------------------------------------
(* How an operation begins and ends.                                       *)

Begin(operation, id) ==
  /\ op = "none"
  /\ op' = operation
  /\ polling' = FALSE
  /\ data' = id
  /\ checkpoint' = NoEntry
  /\ createSucceeded' = FALSE
  /\ deleteSucceeded' = FALSE
  /\ deleteErr' = "nil"
  /\ result' = "none"
  /\ UNCHANGED <<resource, remoteVars, entry>>

\* Terraform keeps what the response carries, with or without an error.
End(outcome, state, id) ==
  /\ op' = "none"
  /\ result' = outcome
  /\ entry' = state
  /\ data' = id
  /\ UNCHANGED <<resource, polling, checkpoint, createSucceeded, deleteSucceeded, deleteErr>>

Succeed(state, id) == End("ok", state, id)
Fail(state, id) == End("error", state, id)

StartPolling(id, state, created) ==
  /\ polling' = TRUE
  /\ data' = id
  /\ checkpoint' = state
  /\ createSucceeded' = created
  /\ UNCHANGED <<resource, entry, op, deleteSucceeded, deleteErr, result>>

\* What Terraform core may ask for, whether reads have caught up or not.
StartCreate ==
  /\ entry = NoEntry
  /\ Begin("create", NoObject)
  /\ owned' = {}
  /\ told' = {}
  /\ overlooked' = {}

StartRead == entry # NoEntry /\ Begin("read", entry.id) /\ UNCHANGED historyVars

StartUpdate ==
  /\ entry # NoEntry
  /\ ~ entry.tainted
  /\ Begin("update", entry.id)
  /\ UNCHANGED historyVars

StartDelete == entry # NoEntry /\ Begin("delete", entry.id) /\ UNCHANGED historyVars

\* ImportState sets the ID; Terraform reads next.
StartImport(o) ==
  /\ entry = NoEntry
  /\ remote[o] \in Live
  /\ Begin("read", o)
  /\ UNCHANGED historyVars

-----------------------------------------------------------------------------
(* What Read finds, and how its outcome is judged.                         *)

\* The objects Read looks among: the known one, or those that match.
Matches ==
  IF data # NoObject THEN {data}
  ELSE IF resource.idFrom = "plan" THEN {Named}
  ELSE Objects

Visible == {o \in Matches : remote[o] # "absent"} \ hidden

\* Read's errors.  A hidden object may also read as forbidden; an API error
\* here is any other status.
ReadError(e) ==
  \/ e = "notFound" /\ Visible = {}
  \/ e = "forbidden" /\ Visible = {} /\ hidden # {}
  \/ e = "multiple" /\ Cardinality(Visible) > 1
  \/ e = "apiError" /\ "apiError" \in resource.faults

\* Mutant of IsRefreshStateRetryable: 404 and 403 are final.
IsRefreshStateRetryableNever(e) == e = "notDesired"

IsRefreshStateRetryable(e) == e \in {"notFound", "forbidden", "notDesired"}

\* The conditions of refreshState on a value Read returned.
Judge(v) ==
  IF resource.desired # {} /\ v \in resource.failed THEN "failed"
  ELSE IF resource.desired # {} /\ v \notin resource.desired THEN "notDesired"
  ELSE resource.check[v]

\* Mutant of AfterFailedRefresh: the ID that Read learned is dropped.
AfterFailedRefreshCheckpoint(id) == IF op = "update" THEN entry ELSE checkpoint

\* Mutant of AfterFailedRefresh: an unknown ID is saved.
AfterFailedRefreshUnchecked(id) ==
  IF op = "update" THEN entry
  ELSE IF checkpoint # NoEntry THEN checkpoint
  ELSE IF createSucceeded THEN Tainted(id)
  ELSE NoEntry

\* What a failed refresh leaves in the state: the prior state after Update;
\* after Create the checkpoint, or else the ID that Read has learned.
AfterFailedRefresh(id) ==
  IF op = "update" THEN entry
  ELSE IF checkpoint # NoEntry THEN checkpoint
  ELSE IF createSucceeded /\ id # NoObject THEN Tainted(id)
  ELSE NoEntry

\* One attempt of refreshState went wrong: retried or final.
RefreshError(e, id) ==
  IF IsRefreshStateRetryable(e)
  THEN data' = id /\ UNCHANGED <<resource, entry, op, polling, checkpoint,
                                 createSucceeded, deleteSucceeded, deleteErr, result>>
  ELSE Fail(AfterFailedRefresh(id), id)

-----------------------------------------------------------------------------
(* Create.                                                                 *)

Creating == op = "create" /\ ~ polling

\* A name is free again once its object is deleted; server-assigned IDs are new.
Free(o) ==
  remote[o] = "absent" \/ (resource.idFrom = "plan" /\ remote[o] = "deleted")

\* The backend makes object o, which reads may not find for a while.
Make(o) ==
  /\ Free(o)
  /\ resource.idFrom = "plan" => o = Named
  /\ remote' = [remote EXCEPT ![o] = "building"]
  /\ hidden' \in {hidden} \cup (IF "lag" \in resource.faults THEN {hidden \cup {o}} ELSE {})
  /\ foreign' = foreign \ {o}
  /\ UNCHANGED attached

\* ensurePostCreateID: the object whose ID is known once Create succeeded.
KnownID(o) == IF resource.idFrom = "read" THEN NoObject ELSE o

Checkpoint(id) == IF id = NoObject THEN NoEntry ELSE Tainted(id)

CreateAccepted(o) ==
  /\ Creating
  /\ Make(o)
  /\ owned' = owned \cup {o}
  /\ told' = told \cup ({KnownID(o)} \ {NoObject})
  /\ UNCHANGED overlooked
  /\ IF resource.refreshState
     THEN StartPolling(KnownID(o), Checkpoint(KnownID(o)), TRUE)
     ELSE Succeed(Kept(o), o)

\* Mutant of AlreadyExists: an adopted object is checkpointed like a new one.
AlreadyExistsCheckpointed ==
  IF resource.ignoreAlreadyExists THEN StartPolling(Named, Checkpoint(Named), TRUE)
  ELSE Fail(NoEntry, NoObject)

\* The API answered 409: adopt the object, or fail.
AlreadyExists ==
  IF resource.ignoreAlreadyExists THEN StartPolling(NoObject, NoEntry, FALSE)
  ELSE Fail(NoEntry, NoObject)

CreateConflict ==
  /\ Creating
  /\ resource.idFrom = "plan"
  /\ ~ Free(Named)
  /\ AlreadyExists
  /\ UNCHANGED <<remoteVars, historyVars>>

\* The object is made but the reply is lost: Create fails, or the client
\* repeats the request and gets a 409.
CreateLost(o) ==
  /\ Creating
  /\ "lostReply" \in resource.faults
  /\ Make(o)
  /\ \/ Fail(NoEntry, NoObject)
     \/ resource.idFrom = "plan" /\ AlreadyExists
  /\ UNCHANGED historyVars

CreateFails ==
  /\ Creating
  /\ "apiError" \in resource.faults
  /\ Fail(NoEntry, NoObject)
  /\ UNCHANGED <<remoteVars, historyVars>>

-----------------------------------------------------------------------------
(* refreshState, after Create and Update.                                  *)

Refreshing == op \in {"create", "update"} /\ polling

RefreshReads(o) ==
  /\ Refreshing
  /\ Visible = {o}
  /\ IF Judge(remote[o]) = "ok" THEN Succeed(Kept(o), o)
     ELSE RefreshError(Judge(remote[o]), o)
  /\ told' = told \cup {o}
  /\ UNCHANGED <<remoteVars, owned, overlooked>>

RefreshReadFails(e) ==
  /\ Refreshing
  /\ ReadError(e)
  /\ RefreshError(e, data)
  /\ UNCHANGED <<remoteVars, historyVars>>

RefreshExpires ==
  /\ Refreshing
  /\ "expiry" \in resource.faults
  /\ Fail(AfterFailedRefresh(data), data)
  /\ UNCHANGED <<remoteVars, historyVars>>

-----------------------------------------------------------------------------
(* Read and Update.                                                        *)

Reading == op = "read"

ReadFound(o) ==
  /\ Reading
  /\ Visible = {o}
  /\ Succeed(IF entry = NoEntry THEN Kept(o) ELSE entry, o)
  /\ UNCHANGED <<remoteVars, historyVars>>

Overlook == overlooked' = overlooked \cup ({data} \cap hidden)

\* RemoveMissing takes a 404 for "gone", also that of a Read that lags.
ReadFails(e) ==
  /\ Reading
  /\ ReadError(e)
  /\ IF resource.removeMissing /\ e = "notFound" THEN Succeed(NoEntry, data) /\ Overlook
     ELSE Fail(entry, data) /\ UNCHANGED overlooked
  /\ UNCHANGED <<remoteVars, owned, told>>

Updating == op = "update" /\ ~ polling

\* An update that changes something rebuilds the object.
Rebuild ==
  \/ /\ remote[data] \in Live
     /\ remote' = [remote EXCEPT ![data] = "building"]
     /\ UNCHANGED <<hidden, foreign, attached>>
  \/ UNCHANGED remoteVars

UpdateAccepted ==
  /\ Updating
  /\ remote[data] \in Live
  /\ Rebuild
  /\ IF resource.refreshState THEN StartPolling(data, NoEntry, FALSE)
     ELSE Succeed(entry, data)
  /\ UNCHANGED historyVars

\* Terraform keeps the prior state.
UpdateFails ==
  /\ Updating
  /\ \/ remote[data] \notin Live /\ UNCHANGED remoteVars
     \/ "apiError" \in resource.faults /\ UNCHANGED remoteVars
     \/ "lostReply" \in resource.faults /\ Rebuild
  /\ Fail(entry, data)
  /\ UNCHANGED historyVars

-----------------------------------------------------------------------------
(* Delete, and deleteState.                                                *)

Deleting == op = "delete" /\ ~ polling

\* The backend starts to tear the object down.  A resource without a poller
\* is deleted at once.
TearDown ==
  /\ remote[data] \in Live
  /\ ~ attached
  /\ remote' = [remote EXCEPT ![data] = IF resource.deleteState THEN "deleting" ELSE "absent"]
  /\ UNCHANGED <<hidden, foreign, attached>>

\* The errors of the Delete call: gone already, refused, failed, or done but
\* with the reply lost.
DeleteError(e) ==
  \/ e = "notFound" /\ remote[data] \notin Live /\ UNCHANGED remoteVars
  \/ e = "conflict" /\ remote[data] \in Live /\ attached /\ UNCHANGED remoteVars
  \/ e = "apiError" /\ "apiError" \in resource.faults /\ UNCHANGED remoteVars
  \/ e = "apiError" /\ "lostReply" \in resource.faults /\ TearDown

DeleteAccepted ==
  /\ Deleting
  /\ ~ resource.deleteState
  /\ TearDown
  /\ Succeed(NoEntry, data)
  /\ UNCHANGED historyVars

DeleteFails(e) ==
  /\ Deleting
  /\ ~ resource.deleteState
  /\ DeleteError(e)
  /\ IF e = "notFound" THEN Succeed(NoEntry, data) ELSE Fail(entry, data)
  /\ UNCHANGED historyVars

\* Mutant of PollDelete: Delete is issued once, whatever it answers.
PollDeleteOnce(e) ==
  /\ polling' = TRUE
  /\ deleteErr' = e
  /\ deleteSucceeded' = TRUE
  /\ UNCHANGED <<resource, entry, op, data, checkpoint, createSucceeded, result, historyVars>>

PollDelete(e) ==
  /\ polling' = TRUE
  /\ deleteErr' = e
  /\ deleteSucceeded' = (e = "nil")
  /\ UNCHANGED <<resource, entry, op, data, checkpoint, createSucceeded, result, historyVars>>

\* deleteState: an attempt calls Delete unless it has succeeded, then Read.
DeleteCalled ==
  /\ Deleting
  /\ resource.deleteState
  /\ \/ ~ deleteSucceeded /\ TearDown /\ PollDelete("nil")
     \/ ~ deleteSucceeded /\ \E e \in DeleteErrors : DeleteError(e) /\ PollDelete(e)
     \/ deleteSucceeded /\ UNCHANGED remoteVars /\ PollDelete("nil")

DeletePolling == op = "delete" /\ polling

\* Mutant of DeletePollReads: the first successful Delete is enough.
DeletePollReadsOnce(o) ==
  /\ DeletePolling
  /\ Visible = {o}
  /\ IF remote[o] \in resource.deleted \/ deleteSucceeded
     THEN Succeed(NoEntry, data)
     ELSE polling' = FALSE /\ UNCHANGED <<resource, entry, op, data, checkpoint,
                                         createSucceeded, deleteSucceeded, deleteErr, result>>
  /\ UNCHANGED <<remoteVars, historyVars>>

DeletePollReads(o) ==
  /\ DeletePolling
  /\ Visible = {o}
  /\ IF remote[o] \in resource.deleted
     THEN Succeed(NoEntry, data)
     ELSE polling' = FALSE /\ UNCHANGED <<resource, entry, op, data, checkpoint,
                                         createSucceeded, deleteSucceeded, deleteErr, result>>
  /\ UNCHANGED <<remoteVars, historyVars>>

\* A 404 ends the poll well, any other error of Read badly.
DeletePollFails(e) ==
  /\ DeletePolling
  /\ ReadError(e)
  /\ IF e = "notFound" THEN Succeed(NoEntry, data) /\ Overlook
     ELSE Fail(entry, data) /\ UNCHANGED overlooked
  /\ UNCHANGED <<remoteVars, owned, told>>

\* The deadline fails the delete.  Between two attempts deleteState joins its
\* error with that of the last Delete call, and Delete's outer guard takes the
\* pair for a 404 if that call got one.
DeleteExpires ==
  /\ op = "delete"
  /\ resource.deleteState
  /\ "expiry" \in resource.faults
  /\ IF ~ polling /\ deleteErr = "notFound" THEN Succeed(NoEntry, data) ELSE Fail(entry, data)
  /\ UNCHANGED <<remoteVars, historyVars>>

-----------------------------------------------------------------------------
(* The backend and its other clients.                                      *)

adapterVars == <<resource, entry, callVars, historyVars, result>>

Become(o, value) ==
  /\ remote' = [remote EXCEPT ![o] = value]
  /\ UNCHANGED <<hidden, attached, adapterVars>>

Settle ==
  /\ hidden # {}
  /\ hidden' = {}
  /\ UNCHANGED <<remote, foreign, attached, adapterVars>>

Converge(o) ==
  \/ /\ remote[o] = "building"
     /\ \/ Become(o, "active")
        \/ "buildError" \in resource.faults /\ Become(o, "error")
     /\ UNCHANGED foreign
  \/ /\ remote[o] = "deleting"
     /\ Become(o, IF resource.deleted = {} THEN "absent" ELSE "deleted")
     /\ UNCHANGED foreign
  \/ /\ remote[o] = "deleted"
     /\ Become(o, "absent")
     /\ UNCHANGED foreign

Attach ==
  /\ "dependents" \in resource.faults
  /\ op = "none"
  /\ ~ attached
  /\ attached' = TRUE
  /\ UNCHANGED <<remote, hidden, foreign, adapterVars>>

Detach ==
  /\ attached
  /\ attached' = FALSE
  /\ UNCHANGED <<remote, hidden, foreign, adapterVars>>

\* Another client creates an object of the configured name.
OutsiderCreates ==
  /\ "outsiders" \in resource.faults
  /\ resource.idFrom = "plan"
  /\ Free(Named)
  /\ Become(Named, "building")
  /\ foreign' = foreign \cup {Named}

OutsiderDeletes(o) ==
  /\ "outsiders" \in resource.faults
  /\ remote[o] \in Live
  /\ Become(o, "absent")
  /\ foreign' = foreign \ {o}

-----------------------------------------------------------------------------
Start ==
  \/ StartCreate \/ StartRead \/ StartUpdate \/ StartDelete
  \/ \E o \in Objects : StartImport(o)

Continue ==
  \/ \E o \in Objects : \/ CreateAccepted(o) \/ CreateLost(o) \/ RefreshReads(o)
                        \/ ReadFound(o) \/ DeletePollReads(o)
  \/ CreateConflict \/ CreateFails \/ UpdateAccepted \/ UpdateFails
  \/ DeleteAccepted \/ DeleteCalled
  \/ \E e \in ReadErrors : RefreshReadFails(e) \/ ReadFails(e) \/ DeletePollFails(e)
  \/ \E e \in DeleteErrors : DeleteFails(e)

Expire == RefreshExpires \/ DeleteExpires

Backend == Settle \/ Detach \/ \E o \in Objects : Converge(o)

Others == Attach \/ OutsiderCreates \/ \E o \in Objects : OutsiderDeletes(o)

Next == Start \/ Continue \/ Expire \/ Backend \/ Others

\* Calls are answered and pollers go on; the backend finishes what it has
\* begun.  Nothing makes Terraform start an operation, or a context expire.
Fairness ==
  /\ WF_vars(Continue)
  /\ WF_vars(Settle)
  /\ WF_vars(Detach)
  /\ \A o \in Objects : WF_vars(Converge(o))

Spec == Init /\ [][Next]_vars
FairSpec == Spec /\ Fairness

-----------------------------------------------------------------------------
(* Properties.                                                             *)

\* Nothing that was created is lost: between operations, an object whose
\* creation the API has acknowledged, that still exists and whose ID Create
\* or some Read has told, is in the Terraform state, whatever failed since
\* (Create, refreshState, Read with RemoveMissing, Delete, deleteState).  The
\* one way to lose it is a Read that does not find it yet: RemoveMissing and
\* deleteState take that for gone, and nothing else does.
NothingLost ==
  op = "none" =>
    \A o \in (owned \cap told) \ foreign :
      remote[o] \in Live => entry.id = o \/ o \in overlooked

\* The next apply destroys what is tainted.  So a failed operation never
\* taints an object that another client created and this one only adopted
\* ("Do not checkpoint a failed AlreadyExists adoption").
ForeignNotTainted ==
  op = "none" /\ entry.tainted /\ entry.id \in foreign => entry.id \in owned

\* When a Delete succeeds the object is gone, or is what the resource calls
\* deleted: however many refusals, lost replies and attempts it took.
DeleteSucceeds == op = "delete" /\ op' = "none" /\ result' = "ok"

GoneOrDeleted == remote'[data] \in {"absent"} \cup resource.deleted

DeletedMeansGone == [][DeleteSucceeds => GoneOrDeleted]_vars

\* The same of a Delete that succeeds in one of its attempts, rather than
\* between two of them when its deadline passes, and does not overlook its
\* object.
Attempting == IF polling THEN data \notin hidden ELSE ~ resource.deleteState

AttemptDeletes == [][DeleteSucceeds /\ Attempting => GoneOrDeleted]_vars

\* With a backend that converges, lags behind the Create of a resource that
\* waits for reads to catch up, and refuses for a while to delete what a delete
\* poller waits for...
Friendly ==
  resource.faults \subseteq
    (IF resource.refreshState THEN {"lag"} ELSE {})
      \cup (IF resource.deleteState THEN {"dependents"} ELSE {})

\* ...and a resource that takes neither a new object nor a finished one for a
\* failure, and that can tell its object from a deleted one...
Sensible(r) ==
  /\ \A v \in {"building", "active"} : (r.desired # {} => v \notin r.failed) /\ r.check[v] # "failed"
  /\ r.idFrom = "read" => r.deleted = {}

\* ...no operation fails...
NothingFails == Friendly => result # "error"

\* ...and each returns, without any help of its context's deadline.
OperationsReturn == Friendly /\ op # "none" ~> op = "none"
=============================================================================
