--------------------------- MODULE ServiceLifecycle ---------------------------
(***************************************************************************)
(* Creating, updating and deleting a service, with the waiters in between  *)
(* and the static IPs that come and go with it (internal/schemautil:       *)
(* service.go, wait.go, static_ips.go).  Every service resource of the     *)
(* provider (pg, kafka, opensearch, ...) runs these functions.             *)
(*                                                                         *)
(* One service resource, on which Terraform core runs one operation at a   *)
(* time.  An operation is a sequence of API calls, any of which may fail   *)
(* and leave the rest undone.  The backend rebuilds the service and        *)
(* attaches and detaches the IPs in its own time; other services of the    *)
(* project use the same pool of IPs.                                       *)
(***************************************************************************)
EXTENDS Naturals, FiniteSets

CONSTANTS
  IPs,          \* the static IPs of the project
  Occurrences,  \* ContinuousTargetOccurence
  Climates      \* sets of what may go wrong in one behaviour

Faults ==
  {"apiError",   \* a call fails
   "lostReply",  \* a call takes effect and fails
   "expiry",     \* the operation's timeout passes while it waits
   "powerOff",   \* somebody powers the service off
   "outsiders"}  \* other services take and release static IPs

ASSUME ConstantsAssumption ==
  /\ Occurrences \in Nat \ {0}
  /\ Climates \subseteq SUBSET Faults

Entries == [status : {"none", "kept", "tainted"}, ips : SUBSET IPs]
NoEntry == [status |-> "none", ips |-> {}]
Kept(ips) == [status |-> "kept", ips |-> ips]
Tainted(ips) == [status |-> "tainted", ips |-> ips]

-----------------------------------------------------------------------------
VARIABLES
  service,  \* the service on the backend
  ready,    \* its first backup is there, its Grafana answers
  owner,    \* the service each IP is associated with: service_name
  ipState,  \* the state of each IP
  leaving,  \* the IPs whose dissociation the backend has accepted
  entry,    \* the service in the Terraform state
  op,       \* the operation in progress
  at,       \* its next API call
  planned,  \* d.Get("static_ips")
  todo,     \* the IPs still to associate, later to dissociate
  dis,      \* the IPs to dissociate
  hits,     \* how often in a row the waiter has met its target
  result,   \* of the last operation
  faults,   \* what may go wrong
  made,     \* history: this Create has made the service
  before,   \* history: the IPs that were to stay when Update looked
  calm,     \* history: no planned IP was leaving then
  freed     \* history: the IPs of the state that the last Delete emptied

backendVars == <<service, ready, owner, ipState, leaving>>
callVars == <<op, at, planned, todo, dis, hits>>
historyVars == <<made, before, calm, freed>>
vars == <<backendVars, entry, callVars, result, faults, historyVars>>

Steps ==
  {"none", "create", "diff", "associate", "update", "wait", "waitIPs", "password",
   "dissociate", "waitGone", "tags", "read", "delete", "waitDeleted"}

TypeOK ==
  /\ service \in {"absent", "rebuilding", "running", "poweroff", "deleting"}
  /\ ready \in BOOLEAN
  /\ owner \in [IPs -> {"none", "this", "other"}]
  /\ ipState \in [IPs -> {"created", "available", "assigned"}]
  /\ leaving \subseteq IPs
  /\ entry \in Entries
  /\ op \in {"none", "create", "read", "update", "delete"}
  /\ at \in Steps
  /\ planned \subseteq IPs
  /\ todo \subseteq IPs
  /\ dis \subseteq IPs
  /\ hits \in 0..(Occurrences - 1)
  /\ result \in {"none", "ok", "error"}
  /\ faults \in Climates
  /\ made \in BOOLEAN
  /\ before \subseteq IPs
  /\ calm \in BOOLEAN
  /\ freed \subseteq IPs

Init ==
  /\ service = "absent"
  /\ ready = FALSE
  /\ owner = [ip \in IPs |-> "none"]
  /\ ipState = [ip \in IPs |-> "created"]
  /\ leaving = {}
  /\ entry = NoEntry
  /\ op = "none"
  /\ at = "none"
  /\ planned = {}
  /\ todo = {}
  /\ dis = {}
  /\ hits = 0
  /\ result = "none"
  /\ faults \in Climates
  /\ made = FALSE
  /\ before = {}
  /\ calm = TRUE
  /\ freed = {}

\* ServiceStaticIpsList.
Held == {ip \in IPs : owner[ip] = "this"}

\* A service may take these.
Free == {ip \in IPs : owner[ip] = "none" /\ ipState[ip] = "created"}

-----------------------------------------------------------------------------
(* How an operation begins, goes on and ends.                              *)

Begin(operation, step, ips) ==
  /\ op = "none"
  /\ op' = operation
  /\ at' = step
  /\ planned' = ips
  /\ todo' = {}
  /\ dis' = {}
  /\ hits' = 0
  /\ result' = "none"
  /\ made' = FALSE
  /\ calm' = TRUE
  /\ UNCHANGED <<backendVars, entry, before, freed>>

StartCreate(ips) == entry = NoEntry /\ Begin("create", "create", ips)

StartRead == entry # NoEntry /\ Begin("read", "read", entry.ips)

\* CustomizeDiffCheckStaticIPDisassociation: the plan asks for no IP of
\* another service.
StartUpdate(ips) ==
  /\ entry.status = "kept"
  /\ \A ip \in ips : owner[ip] # "other"
  /\ Begin("update", "diff", ips)

StartDelete == entry # NoEntry /\ Begin("delete", "delete", entry.ips)

Go(step) ==
  /\ at' = step
  /\ UNCHANGED <<entry, op, planned, todo, dis, hits, result>>

End(outcome, state) ==
  /\ op' = "none"
  /\ at' = "none"
  /\ result' = outcome
  /\ entry' = state
  /\ hits' = 0
  /\ UNCHANGED <<planned, todo, dis>>

Succeed(state) == End("ok", state)

\* What an error leaves in the Terraform state: Create stores nothing before
\* SetId; of a failed Update the SDK stores the planned values.
Remains ==
  CASE op = "create" -> IF at = "read" THEN Tainted(planned) ELSE NoEntry
    [] op = "update" -> Kept(planned)
    [] OTHER         -> entry

Fail == End("error", Remains)

\* An API call of the operation fails without any effect.
CallFails ==
  /\ op # "none" /\ at # "password"
  /\ "apiError" \in faults
  /\ Fail
  /\ UNCHANGED <<backendVars, historyVars>>

-----------------------------------------------------------------------------
(* StateChangeConf.                                                        *)

Waits == {"wait", "waitIPs", "waitGone", "waitDeleted"}

\* Mutant of Hit: one occurrence too many.
HitOnceMore(again, done) ==
  IF hits = Occurrences THEN done
  ELSE hits' = hits + 1 /\ at' = again /\ UNCHANGED <<entry, op, planned, todo, dis, result>>

\* The target is met: once more in a row is enough, or the waiter goes on.
Hit(again, done) ==
  IF hits + 1 = Occurrences THEN done
  ELSE hits' = hits + 1 /\ at' = again /\ UNCHANGED <<entry, op, planned, todo, dis, result>>

Pending(again) ==
  /\ hits' = 0
  /\ at' = again
  /\ UNCHANGED <<entry, op, planned, todo, dis, result>>

\* The waiter is over.
Proceed(step) ==
  /\ hits' = 0
  /\ at' = step
  /\ UNCHANGED <<entry, op, planned, todo, dis, result>>

WaitExpires ==
  /\ at \in Waits
  /\ "expiry" \in faults
  /\ Fail
  /\ UNCHANGED <<backendVars, historyVars>>

\* WaitForServiceCreation and WaitForServiceUpdate: ServiceGet.  The latter
\* does not look at the service's state.
WaitService ==
  /\ at = "wait"
  /\ IF service = "absent" \/ (op = "create" /\ service \notin {"rebuilding", "running"})
     THEN Fail
     ELSE IF ready /\ (op = "create" => service = "running") THEN Go("waitIPs")
     ELSE Pending("wait")
  /\ UNCHANGED <<backendVars, historyVars>>

\* ...then staticIpsReady.
Ready(ips) == \A ip \in ips : owner[ip] = "this" /\ ipState[ip] \in {"available", "assigned"}

WaitIPs ==
  /\ at = "waitIPs"
  /\ IF Ready(planned) THEN Hit("wait", Proceed("password")) ELSE Pending("wait")
  /\ UNCHANGED <<backendVars, historyVars>>

-----------------------------------------------------------------------------
(* resourceServiceCreate.                                                  *)

\* Mutant of Refused: an existing service is adopted.
RefusedAdopted == Go("wait")

\* ServiceCreate answers with a conflict, or that an IP is taken.
Refused == Fail

ServiceCreate ==
  /\ at = "create"
  /\ IF service = "absent" /\ planned \subseteq Free
     THEN /\ service' = "rebuilding"
          /\ ready' = FALSE
          /\ owner' = [ip \in IPs |-> IF ip \in planned THEN "this" ELSE owner[ip]]
          /\ made' = TRUE
          /\ freed' = {}
          /\ Go("wait") \/ ("lostReply" \in faults /\ Fail)
          /\ UNCHANGED <<ipState, leaving>>
     ELSE Refused /\ UNCHANGED <<backendVars, made, freed>>
  /\ UNCHANGED <<before, calm>>

-----------------------------------------------------------------------------
(* resourceServiceUpdate.                                                  *)

AfterDiff(add, del) ==
  /\ todo' = add
  /\ dis' = del
  /\ at' = IF add = {} THEN "update" ELSE "associate"
  /\ UNCHANGED <<entry, op, planned, hits, result>>

\* Mutant of DiffStaticIps: the diff is made from the Terraform state.
DiffStaticIpsPlanned ==
  /\ at = "diff"
  /\ AfterDiff(planned \ entry.ips, entry.ips \ planned)
  /\ before' = Held \ leaving
  /\ calm' = (planned \cap leaving = {})
  /\ UNCHANGED <<backendVars, made, freed>>

\* Mutant of DiffStaticIps: IPs are dissociated first.
DiffStaticIpsSwapped ==
  /\ at = "diff"
  /\ AfterDiff(planned \ Held, {})
  /\ leaving' = leaving \cup (Held \ planned)
  /\ before' = Held \ leaving
  /\ calm' = (planned \cap leaving = {})
  /\ UNCHANGED <<service, ready, owner, ipState, made, freed>>

DiffStaticIps ==
  /\ at = "diff"
  /\ AfterDiff(planned \ Held, Held \ planned)
  /\ before' = Held \ leaving
  /\ calm' = (planned \cap leaving = {})
  /\ UNCHANGED <<backendVars, made, freed>>

\* One IP of todo is dealt with; the step ends with the last one.
Next1(ip, step) ==
  /\ todo' = todo \ {ip}
  /\ at' = IF todo = {ip} THEN step ELSE at
  /\ UNCHANGED <<entry, op, planned, dis, hits, result>>

\* ProjectStaticIPAssociate: refused unless the IP is free.
Associate(ip) ==
  /\ at = "associate"
  /\ ip \in todo
  /\ IF ip \in Free /\ service # "absent"
     THEN /\ owner' = [owner EXCEPT ![ip] = "this"]
          /\ Next1(ip, "update") \/ ("lostReply" \in faults /\ Fail)
     ELSE Fail /\ UNCHANGED owner
  /\ UNCHANGED <<service, ready, ipState, leaving, historyVars>>

\* ServiceGet and ServiceUpdate, which also powers the service on.
ServiceUpdate ==
  /\ at = "update"
  /\ IF service \in {"absent", "deleting"} THEN Fail /\ UNCHANGED <<service, ready>>
     ELSE /\ \/ service' = "rebuilding" /\ ready' \in {ready, FALSE}
             \/ service # "poweroff" /\ UNCHANGED <<service, ready>>
          /\ Go("wait") \/ ("lostReply" \in faults /\ Fail)
  /\ UNCHANGED <<owner, ipState, leaving, historyVars>>

\* upsertServicePassword: no kind of service supports it (supportsWriteOnlyPassword),
\* so that it calls nothing.  Update then turns to the IPs it has to dissociate.
Password ==
  /\ at = "password"
  /\ todo' = dis
  /\ at' = IF dis = {} THEN "tags" ELSE "dissociate"
  /\ UNCHANGED <<backendVars, entry, op, planned, dis, hits, result, historyVars>>

\* ProjectStaticIPDissociate: the backend accepts, or the IP is gone already.
Dissociate(ip) ==
  /\ at = "dissociate"
  /\ ip \in todo
  /\ IF owner[ip] = "this"
     THEN /\ leaving' = leaving \cup {ip}
          /\ Next1(ip, "waitGone") \/ ("lostReply" \in faults /\ Fail)
     ELSE Fail /\ UNCHANGED leaving
  /\ UNCHANGED <<service, ready, owner, ipState, historyVars>>

\* Mutant of Disassociated: no IP is left at all.
DisassociatedAll == Held = {}

\* staticIpsAreDisassociated.
Disassociated == Held \subseteq planned

\* WaitStaticIpsDissociation.
WaitGone ==
  /\ at = "waitGone"
  /\ IF Disassociated THEN Hit("waitGone", Proceed("tags")) ELSE Pending("waitGone")
  /\ UNCHANGED <<backendVars, historyVars>>

-----------------------------------------------------------------------------
(* The end of Create and Update, and Read.                                 *)

\* ProjectServiceTagsReplace; Create then sets the ID.
Tags ==
  /\ at = "tags"
  /\ IF service = "absent" THEN Fail ELSE Go("read")
  /\ UNCHANGED <<backendVars, historyVars>>

\* resourceServiceRead: a 404 empties the state, except for a new resource.
\* A tainted resource stays so.
Read ==
  /\ at = "read"
  /\ IF service # "absent"
     THEN Succeed([status |-> IF op = "read" THEN entry.status ELSE "kept", ips |-> Held])
     ELSE IF op = "create" THEN Fail
     ELSE Succeed(NoEntry)
  /\ UNCHANGED <<backendVars, historyVars>>

-----------------------------------------------------------------------------
(* resourceServiceDelete.                                                  *)

ServiceDelete ==
  /\ at = "delete"
  /\ \/ service = "absent" /\ UNCHANGED service /\ Go("waitDeleted")
     \/ /\ service # "absent"
        /\ service' = "deleting"
        /\ Go("waitDeleted") \/ ("lostReply" \in faults /\ Fail)
  /\ UNCHANGED <<ready, owner, ipState, leaving, historyVars>>

\* Mutant of StillAssigned: only IPs that name the service.
StillAssignedHere(ip) == owner[ip] = "this" /\ ipState[ip] = "assigned"

\* staticIpsDisassociatedAfterServiceDeletion: "no check for service name".
StillAssigned(ip) == ipState[ip] = "assigned"

\* WaitForDeletion: ServiceGet's answer, found or not, makes no difference.
WaitDeleted ==
  /\ at = "waitDeleted"
  /\ IF \E ip \in planned : StillAssigned(ip) THEN Pending("waitDeleted")
     ELSE Hit("waitDeleted", Succeed(NoEntry))
  /\ freed' = IF at' = "none" THEN planned ELSE freed
  /\ UNCHANGED <<backendVars, made, before, calm>>

-----------------------------------------------------------------------------
(* The backend.                                                            *)

operationVars == <<entry, callVars, result, historyVars>>

Rebuilt ==
  /\ service = "rebuilding"
  /\ service' = "running"
  /\ UNCHANGED <<ready, owner, ipState, leaving, operationVars>>

GetReady ==
  /\ service = "running"
  /\ ~ ready
  /\ ready' = TRUE
  /\ UNCHANGED <<service, owner, ipState, leaving, operationVars>>

\* An IP of a service becomes available, then is assigned to a node.
Attach(ip) ==
  /\ \/ ipState[ip] = "created" /\ owner[ip] # "none"
        /\ ipState' = [ipState EXCEPT ![ip] = "available"]
     \/ ipState[ip] = "available" /\ (owner[ip] = "other" \/ (owner[ip] = "this" /\ service = "running"))
        /\ ipState' = [ipState EXCEPT ![ip] = "assigned"]
  /\ UNCHANGED <<service, ready, owner, leaving, operationVars>>

\* A dissociated IP leaves the service.
Detach(ip) ==
  /\ ip \in leaving
  /\ leaving' = leaving \ {ip}
  /\ owner' = [owner EXCEPT ![ip] = "none"]
  /\ ipState' = [ipState EXCEPT ![ip] = "created"]
  /\ UNCHANGED <<service, ready, operationVars>>

\* The service is gone; its IPs stay assigned for a while.
Vanish ==
  /\ service = "deleting"
  /\ service' = "absent"
  /\ ready' = FALSE
  /\ owner' = [ip \in IPs |-> IF ip \in Held THEN "none" ELSE owner[ip]]
  /\ leaving' = {}
  /\ ipState' = [ip \in IPs |->
                   IF ip \in Held /\ ipState[ip] = "available" THEN "created" ELSE ipState[ip]]
  /\ UNCHANGED operationVars

Release(ip) ==
  /\ owner[ip] = "none"
  /\ ipState[ip] # "created"
  /\ ipState' = [ipState EXCEPT ![ip] = "created"]
  /\ UNCHANGED <<service, ready, owner, leaving, operationVars>>

PowerOff ==
  /\ "powerOff" \in faults
  /\ service = "running"
  /\ service' = "poweroff"
  /\ UNCHANGED <<ready, owner, ipState, leaving, operationVars>>

OtherTakes(ip) ==
  /\ "outsiders" \in faults
  /\ ip \in Free
  /\ owner' = [owner EXCEPT ![ip] = "other"]
  /\ UNCHANGED <<service, ready, ipState, leaving, operationVars>>

OtherReleases(ip) ==
  /\ "outsiders" \in faults
  /\ owner[ip] = "other"
  /\ owner' = [owner EXCEPT ![ip] = "none"]
  /\ UNCHANGED <<service, ready, ipState, leaving, operationVars>>

-----------------------------------------------------------------------------
Start ==
  \/ StartRead \/ StartDelete
  \/ \E ips \in SUBSET IPs : StartCreate(ips) \/ StartUpdate(ips)

Answer ==
  \/ ServiceCreate \/ WaitService \/ WaitIPs \/ Password \/ Tags \/ Read
  \/ DiffStaticIps \/ ServiceUpdate \/ WaitGone \/ ServiceDelete \/ WaitDeleted
  \/ \E ip \in IPs : Associate(ip) \/ Dissociate(ip)

Converge == Rebuilt \/ GetReady \/ Vanish \/ \E ip \in IPs : Attach(ip) \/ Detach(ip) \/ Release(ip)

Others == PowerOff \/ \E ip \in IPs : OtherTakes(ip) \/ OtherReleases(ip)

Step == Start \/ Answer \/ CallFails \/ WaitExpires \/ Converge \/ Others

Next == Step /\ UNCHANGED faults

\* API calls are answered, and the backend finishes what it has begun.
\* Nothing makes a timeout pass or Terraform start an operation.
Fairness ==
  /\ WF_vars(Answer /\ UNCHANGED faults)
  /\ WF_vars((Rebuilt \/ GetReady \/ Vanish) /\ UNCHANGED faults)
  /\ \A ip \in IPs : WF_vars((Attach(ip) \/ Detach(ip) \/ Release(ip)) /\ UNCHANGED faults)

Spec == Init /\ [][Next]_vars
FairSpec == Spec /\ Fairness

-----------------------------------------------------------------------------
(* Properties.                                                             *)

Succeeds(operation) == op = operation /\ op' = "none" /\ result' = "ok"

\* "associate first": while an Update exchanges static IPs, whatever fails,
\* the service always has those it had when the Update began, or all that
\* are planned, ready for use.  (Not if it counts on an IP that an earlier
\* Update, which failed later, has let go.)
NeverStripped ==
  /\ op = "update" /\ at # "diff" /\ calm
  /\ service \notin {"absent", "deleting"}
  => before \subseteq Held \/ Ready(planned)

\* An Update that succeeds, perhaps after some that failed half-way, leaves
\* the service with the planned static IPs and no others (with the same
\* exception).
UpdateSettles ==
  [][Succeeds("update") /\ calm /\ service \notin {"absent", "deleting"} => Held = planned]_vars

\* A Create that succeeds has made the service itself: it never adopts what
\* an earlier Create has left behind, or somebody else's service.
CreateIsFirst == [][Succeeds("create") => made]_vars

\* "the static ip lingers in the assigned state for a while until it gets
\* usable again": Delete waits long enough for the next Create.  When the
\* service of a Delete that has succeeded is gone, then or later, the IPs that
\* the Terraform state gave it are free, and stay so until a Create takes
\* them; no Create is refused because of them.  (If no other service uses
\* static IPs.)
FreedAreUsable == "outsiders" \notin faults /\ service = "absent" => freed \subseteq Free

\* Every operation returns without the help of its timeout, if nobody powers
\* the service off or takes its static IPs (with the same exception).
OperationsReturn ==
  faults \cap {"powerOff", "outsiders"} = {} => (op # "none" ~> (op = "none" \/ ~ calm))

\* "unable to check if service is gone": when a Delete has succeeded, so it is.
DeletedMeansGone == [][Succeeds("delete") => service = "absent"]_vars
===============================================================================
