----------------------------- MODULE ResourceApply -----------------------------
(***************************************************************************)
(* One resource, its object at the Aiven API, its entry in the Terraform   *)
(* state, and a user who keeps applying a configuration.  A resource is    *)
(* given by what its handlers call, step by step: the records of Resources *)
(* (SdkResources, PluginResources).  The machine is the same for all: core *)
(* refreshes, plans, and calls Create, Update or Delete; every API call    *)
(* may fail or lose its answer, every poll may expire, and others may      *)
(* delete the object.                                                      *)
(***************************************************************************)
EXTENDS Naturals, Sequences

CONSTANTS
  Resources,  \* the handlers of each resource
  MaxFaults,  \* bound: faults of one behaviour
  MaxEdits    \* bound: changes that the user makes

\* named: the ID is known from the configuration, and is unique at the API;
\* missing: what Read does when it does not find the object.
Resource ==
  [framework : {"sdk", "plugin"}, named : BOOLEAN, adopts : BOOLEAN,
   create : Seq(STRING), update : Seq(STRING), delete : Seq(STRING),
   missing : {"drop", "dropNew", "error", "keep", "empty", "remake"}]

ASSUME ResourcesAssumption == Resources \subseteq Resource
ASSUME BoundAssumption == MaxFaults \in Nat /\ MaxEdits \in Nat

VARIABLES
  resource,  \* whose handlers run
  object,    \* the object at the API: its state and two settings of it
  strays,    \* an object was made that no entry and no name leads to
  entry,     \* the entry of the resource in the Terraform state
  goal,      \* the configuration: the value of both settings, 0 to destroy
  edits,     \* of the configuration, so far
  op, at,    \* the operation, and the step of its handler
  data,      \* the handler's d: is the ID set, and the settings
  faults,    \* so far
  lost       \* the answer to a call that made an object was lost

vars == <<resource, object, strays, entry, goal, edits, op, at, data, faults, lost>>

\* 0: not set.
Settings == 0..2

NoObject == [status |-> "none", main |-> 0, rest |-> 0, moved |-> FALSE]
NoEntry == [status |-> "none", main |-> 0, rest |-> 0]
Blank == [known |-> FALSE, main |-> 0, rest |-> 0]

\* An operation of the resource, or of core.
Steps ==
  CASE op = "create"  -> resource.create
    [] op = "update"  -> resource.update
    [] op = "delete"  -> resource.delete
    [] op = "refresh" -> <<"read">>
    [] OTHER          -> <<>>

Step == IF at \in DOMAIN Steps THEN Steps[at] ELSE "none"

Has(steps, names) == \E i \in DOMAIN steps : steps[i] \in names

\* Objects that the API builds, or deletes, after it has answered: those that
\* the provider waits for.
SlowBuild(r) == Has(r.create, {"wait", "pollReady", "refreshReady", "reconcile"})
SlowDelete(r) == Has(r.delete, {"waitGone", "removeUntilGone"})

TypeOK ==
  /\ resource \in Resources
  /\ object \in [status : {"none", "hidden", "building", "ready", "failed", "deleting"},
                 main : Settings, rest : Settings, moved : BOOLEAN]
  /\ entry \in [status : {"none", "kept", "tainted"}, main : Settings, rest : Settings]
  /\ data \in [known : BOOLEAN, main : Settings, rest : Settings]
  /\ goal \in Settings /\ edits \in 0..MaxEdits /\ faults \in 0..MaxFaults
  /\ strays \in BOOLEAN /\ lost \in BOOLEAN
  /\ op \in {"none", "refresh", "plan", "create", "update", "delete"}
  /\ IF op \in {"none", "plan"} THEN at = 0 /\ data = Blank ELSE Step # "none"
  /\ object.status = "none" => object = NoObject
  /\ entry.status = "none" => entry = NoEntry

\* Nothing yet, or an object that was imported or made by earlier applies.
Init ==
  /\ resource \in Resources
  /\ \/ object = NoObject /\ entry = NoEntry
     \/ /\ object = [status |-> "ready", main |-> 1, rest |-> 1, moved |-> FALSE]
        /\ entry = [status |-> "kept", main |-> 1, rest |-> 1]
  /\ strays = FALSE /\ lost = FALSE /\ faults = 0
  /\ goal = 1 /\ edits = 0
  /\ op = "none" /\ at = 0 /\ data = Blank

-----------------------------------------------------------------------------
(* What the API sees.                                                      *)

Exists == object.status # "none"
Visible == object.status \notin {"none", "hidden"}

\* The ID in the state leads to the object.
Found == Visible /\ ~object.moved

\* Faults are bounded.
Fault == faults < MaxFaults /\ faults' = faults + 1

NoFault == UNCHANGED <<faults, lost>>

-----------------------------------------------------------------------------
(* The operations of core, and how a handler ends.                         *)

Idle == op' = "none" /\ at' = 0 /\ data' = Blank

\* Only once the last make is visible: applies are minutes apart.
Apply ==
  /\ op = "none"
  /\ object.status # "hidden"
  /\ IF entry.status = "none"
     THEN op' = "plan" /\ UNCHANGED <<at, data>>
     ELSE /\ op' = "refresh" /\ at' = 1
          /\ data' = [known |-> TRUE, main |-> entry.main, rest |-> entry.rest]
  /\ UNCHANGED <<resource, object, strays, entry, goal, edits, faults, lost>>

\* What core asks for.  A resource without an Update is replaced.
Verdict ==
  IF entry.status = "none" THEN IF goal = 0 THEN "none" ELSE "create"
  ELSE IF goal = 0 \/ entry.status = "tainted" THEN "delete"
  ELSE IF entry = [status |-> "kept", main |-> goal, rest |-> goal] THEN "none"
  ELSE IF resource.update = <<>> THEN "delete" ELSE "update"

Plan ==
  /\ op = "plan"
  /\ IF Verdict = "none"
     THEN Idle
     ELSE /\ op' = Verdict /\ at' = 1
          /\ data' = IF Verdict = "delete"
                     THEN [known |-> TRUE, main |-> entry.main, rest |-> entry.rest]
                     ELSE [known |-> Verdict = "update", main |-> goal, rest |-> goal]
  /\ UNCHANGED <<resource, object, strays, entry, goal, edits, faults, lost>>

Stored(status, d) == [status |-> status, main |-> d.main, rest |-> d.rest]

\* After a refresh, or the deletion that a replacement starts with, core plans.
Succeed(d) ==
  /\ entry' = CASE op = "delete"  -> NoEntry
                [] op = "refresh" -> Stored(entry.status, d)
                [] OTHER          -> Stored("kept", d)
  /\ IF op \in {"refresh", "delete"}
     THEN op' = "plan" /\ at' = 0 /\ data' = Blank
     ELSE Idle

\* Mutant of Continue: it steps past the last step.
ContinuePastEnd(d) ==
  IF at <= Len(Steps)
  THEN at' = at + 1 /\ data' = d /\ UNCHANGED <<op, entry>>
  ELSE Succeed(d)

Continue(d) ==
  IF at < Len(Steps)
  THEN at' = at + 1 /\ data' = d /\ UNCHANGED <<op, entry>>
  ELSE Succeed(d)

\* Mutant of AfterFailure: a Create that fails leaves nothing.
AfterFailureForgotten(d) ==
  IF op = "update" /\ resource.framework = "sdk" THEN Stored("kept", d) ELSE entry

\* A Create that fails after it has set the ID leaves a tainted entry.  A
\* failed Update of the SDK stores what was planned, one of the framework
\* leaves the state as it was.
AfterFailure(d) ==
  CASE op = "create" /\ d.known -> Stored("tainted", d)
    [] op = "update" /\ resource.framework = "sdk" -> Stored("kept", d)
    [] OTHER -> entry

Fail(d) == Idle /\ entry' = AfterFailure(d)

\* A handler returns an error of its own.
Refuse == Fail(data) /\ NoFault /\ UNCHANGED <<object, strays>>

\* A step without effect.
Pass(d) == Continue(d) /\ NoFault /\ UNCHANGED <<object, strays>>

Skip(d) ==
  /\ at' = Len(Steps) /\ data' = d
  /\ NoFault /\ UNCHANGED <<op, entry, object, strays>>

\* The answer to a call that has changed the object, which may be lost.
Answer ==
  \/ Continue(data) /\ NoFault
  \/ /\ Fault /\ Fail(data)
     /\ lost' = (lost \/ (Step \in {"make", "put", "approve"} /\ ~data.known))

Removed == IF SlowDelete(resource) THEN [object EXCEPT !.status = "deleting"] ELSE NoObject

RemovedIfFound == IF Found THEN Removed ELSE object

-----------------------------------------------------------------------------
(* Steps that make or change the object.                                   *)

\* A later step of the same handler sets the rest.
RestFollows ==
  \E i \in DOMAIN Steps :
    i > at /\ (Steps[i] \in {"rest", "upload"} \/ (Steps[i] = "reconcile" /\ op = "create"))

\* The API may be slow to show a new object.
New ==
  /\ object' = [status |-> IF SlowBuild(resource) THEN "building" ELSE "ready", main |-> goal,
                rest |-> IF RestFollows THEN 0 ELSE goal, moved |-> FALSE]
  /\ Answer

NewHidden ==
  /\ Fault /\ UNCHANGED lost
  /\ object' = [status |-> "hidden", main |-> goal,
                rest |-> IF RestFollows THEN 0 ELSE goal, moved |-> FALSE]
  /\ Continue(data)

Written == [object EXCEPT !.main = goal, !.rest = IF RestFollows THEN @ ELSE goal]

\* A Create that looks for the object first.
Check ==
  /\ Step = "check"
  /\ IF Visible THEN Refuse ELSE Pass(data)

\* A Create that takes the object it finds.
Adopt ==
  /\ Step = "adopt"
  /\ IF Visible THEN Skip([data EXCEPT !.known = TRUE]) ELSE Pass(data)

\* A name is taken once.  With an ID of the server a second object is made,
\* and a first one that the state has lost stays behind.
Make ==
  /\ Step = "make"
  /\ IF resource.named /\ Exists
     THEN IF resource.adopts THEN Skip(data) ELSE Refuse
     ELSE /\ strays' = (strays \/ (Exists /\ object.status # "deleting"))
          /\ New \/ NewHidden

\* A call that makes the object or changes the one that is there.
Put ==
  /\ Step = "put"
  /\ UNCHANGED strays
  /\ IF Exists THEN object' = Written /\ Answer ELSE New \/ NewHidden

\* An approval of what another party has made; it waits for one.
Approve ==
  /\ Step = "approve"
  /\ IF Exists THEN Pass(data) ELSE UNCHANGED strays /\ New

\* A change of an object that is not there fails.
Change ==
  /\ Step = "change"
  /\ IF Found THEN object' = Written /\ Answer /\ UNCHANGED strays ELSE Refuse

\* The ID is the name that changes: until it is set again it leads nowhere.
Rename ==
  /\ Step = "rename"
  /\ IF Found
     THEN object' = [Written EXCEPT !.moved = object.main # goal] /\ Answer /\ UNCHANGED strays
     ELSE Refuse

Rest ==
  /\ Step = "rest"
  /\ IF Visible
     THEN object' = [object EXCEPT !.main = goal, !.rest = goal] /\ Answer /\ UNCHANGED strays
     ELSE Refuse

\* When the upload fails, what was made is deleted again, if that succeeds.
Upload ==
  /\ Step = "upload"
  /\ UNCHANGED <<strays, lost>>
  /\ \/ /\ object' = IF Exists THEN [object EXCEPT !.rest = goal] ELSE object
        /\ Continue(data) /\ UNCHANGED faults
     \/ object' \in {object, RemovedIfFound} /\ Fault /\ Fail(data)

\* A change that has to name the value it replaces, as the state knows it.
Exchange ==
  /\ Step = "exchange"
  /\ IF Visible /\ object.rest = entry.rest
     THEN object' = Written /\ Answer /\ UNCHANGED strays
     ELSE Refuse

SetID ==
  /\ Step = "setID"
  /\ object' = [object EXCEPT !.moved = FALSE]
  /\ Continue([data EXCEPT !.known = TRUE])
  /\ NoFault /\ UNCHANGED strays

\* "Creation of this resource is not supported", or a step that is not there.
Refused == Step = "refuse" /\ Refuse
Leave == Step = "leave" /\ Pass(data)

-----------------------------------------------------------------------------
(* Reading, and waiting for the object.                                    *)

\* Mutant of Seen: Read does not set the second setting.
SeenPart(d) == [d EXCEPT !.main = object.main]

\* A password that has to be exchanged is not shown.
Seen(d) ==
  [d EXCEPT !.main = object.main,
            !.rest = IF Has(resource.update, {"exchange"}) THEN @ ELSE object.rest]

Drop ==
  /\ entry' = NoEntry
  /\ IF op = "refresh" THEN op' = "plan" /\ at' = 0 /\ data' = Blank ELSE Idle
  /\ NoFault /\ UNCHANGED <<object, strays>>

\* ResourceReadHandleNotFound keeps the entry of a resource that is new;
\* RemoveMissing is for Read alone, not for the reads of Create and Update.
Drops ==
  \/ op = "refresh" /\ resource.missing \in {"drop", "dropNew"}
  \/ op = "update" /\ resource.framework = "sdk" /\ resource.missing \in {"drop", "dropNew"}
  \/ op = "create" /\ resource.missing = "dropNew"

\* What a missing object reads as, when Read does not give the entry up.
ReadMissing ==
  CASE resource.missing = "keep"  -> Pass(data)
    [] resource.missing = "empty" -> Pass([data EXCEPT !.main = 0, !.rest = 0])
    [] OTHER                      -> Refuse

\* A Read that makes the object again, and then reads it.
Remake ==
  /\ object' = [status |-> "ready", main |-> data.main, rest |-> data.rest, moved |-> FALSE]
  /\ UNCHANGED <<strays, entry, op, at, data>> /\ NoFault

Read ==
  /\ Step = "read"
  /\ IF Found THEN Pass(Seen(data))
     ELSE IF Drops THEN Drop
     ELSE IF resource.missing = "remake" THEN Remake
     ELSE ReadMissing

\* The object is not there and will not appear.
Hopeless == ~Exists \/ object.moved

Ready == Found /\ object.status = "ready"
Failed == Found /\ object.status = "failed"

\* Polls: a 404 is asked again.  Those of refreshState read into d.
Poll ==
  \/ Step = "poll" /\ Found /\ Pass(data)
  \/ Step = "refresh" /\ Found /\ Pass(Seen(data))
  \/ Step = "pollReady" /\ Ready /\ Pass(data)
  \/ Step = "refreshReady" /\ Ready /\ Pass(Seen(data))
  \/ Step \in {"pollReady", "refreshReady", "reconcile"} /\ Failed /\ Refuse

\* A Read that sets what differs from the configuration, and is repeated.
Reconcile ==
  /\ Step = "reconcile" /\ Ready
  /\ IF object.rest = goal
     THEN Pass(Seen(data))
     ELSE /\ object' = [object EXCEPT !.rest = goal]
          /\ \/ UNCHANGED <<entry, op, at, data>> /\ NoFault
             \/ Fault /\ UNCHANGED lost /\ Fail(data)
          /\ UNCHANGED strays

\* A wait that takes a 404 for an error, and any state but building for the end.
Wait ==
  /\ Step = "wait"
  /\ IF ~Visible THEN Refuse ELSE object.status # "building" /\ Pass(data)

\* A peering that was not built is deleted again.
Inspect ==
  /\ Step = "inspect"
  /\ IF object.status = "failed"
     THEN /\ (object' = NoObject /\ NoFault) \/ (UNCHANGED <<object, lost>> /\ Fault)
          /\ Fail(data) /\ UNCHANGED strays
     ELSE Pass(data)

\* "connected", the state before the IP address is set, is waited for: a
\* connection that has one is in none of the states the wait knows.
AwaitConnected ==
  /\ Step = "awaitConnected"
  /\ \/ Ready /\ object.rest = 0 /\ Pass(data)
     \/ ((Ready /\ object.rest # 0) \/ Failed) /\ Refuse

-----------------------------------------------------------------------------
(* Deleting.                                                               *)

Unset ==
  /\ Step = "unset"
  /\ UNCHANGED strays
  /\ object' = IF Found THEN [object EXCEPT !.rest = 0] ELSE object
  /\ Answer

\* A 404 is no error.
Remove ==
  /\ Step = "remove"
  /\ UNCHANGED strays
  /\ object' = RemovedIfFound
  /\ Answer

\* A 404 is one.
RemoveStrict ==
  /\ Step = "removeStrict"
  /\ IF Found THEN object' = Removed /\ Answer /\ UNCHANGED strays ELSE Refuse

\* Mutant of RemoveUntilGone: it does not read again.
RemoveOnce ==
  /\ Step = "removeUntilGone"
  /\ object' = RemovedIfFound
  /\ Answer /\ UNCHANGED strays

\* A loop that deletes, whatever that answers, until a read finds nothing.
RemoveUntilGone ==
  /\ Step = "removeUntilGone"
  /\ IF Found
     THEN /\ object.status # "deleting"
          /\ object' = Removed
          /\ UNCHANGED <<strays, entry, op, at, data>> /\ NoFault
     ELSE Pass(data)

\* deleteState: Delete is called until it succeeds, which a call with a lost
\* answer does not.  A read that finds nothing ends it too.  For an object that
\* is being deleted the call gets a 404, and is repeated.
DeleteState ==
  /\ Step = "deleteState"
  /\ IF Found
     THEN /\ object.status # "deleting"
          /\ object' = Removed
          /\ \/ Continue(data) /\ NoFault
             \/ Fault /\ UNCHANGED <<entry, op, at, data, lost>>
          /\ UNCHANGED strays
     ELSE Pass(data)

WaitGone == Step = "waitGone" /\ ~Found /\ Pass(data)

-----------------------------------------------------------------------------
(* Faults.                                                                 *)

Polls == {"poll", "pollReady", "refresh", "refreshReady", "reconcile", "awaitConnected"}
Waits == Polls \cup {"wait", "waitGone", "removeUntilGone", "deleteState"}
Local == {"none", "setID", "inspect", "upload", "refuse", "leave"}

\* A call fails before it has an effect.
CallFails ==
  /\ Step \notin Waits \cup Local
  /\ Fault /\ Fail(data)
  /\ UNCHANGED <<object, strays, lost>>

\* A wait ends with its timeout, or with an error that it does not retry.
WaitExpires ==
  /\ Step \in Waits
  /\ IF Step \in Polls /\ Hopeless THEN NoFault ELSE Fault /\ UNCHANGED lost
  /\ Fail(data)
  /\ UNCHANGED <<object, strays>>

\* The deadline passes between two attempts of deleteState, of which the last
\* had a 404 from Delete: it is joined to the deadline's error, and the pair is
\* taken for a 404.
DeadlineTaken ==
  /\ op = "delete" /\ Step = "deleteState"
  /\ Found /\ object.status = "deleting"
  /\ Fault /\ Succeed(data)
  /\ UNCHANGED <<object, strays, lost>>

\* Someone else deletes the object: a service is powered off, a user clicks.
\* A plan is made of what the refresh has just read: nothing comes in between.
Outsider ==
  /\ op # "plan"
  /\ object.status = "ready"
  /\ object' = NoObject
  /\ Fault
  /\ UNCHANGED <<resource, strays, entry, goal, edits, op, at, data, lost>>

BuildFails ==
  /\ op # "plan"
  /\ object.status = "building"
  /\ object' = [object EXCEPT !.status = "failed"]
  /\ Fault
  /\ UNCHANGED <<resource, strays, entry, goal, edits, op, at, data, lost>>

-----------------------------------------------------------------------------
(* The API at work, and the user.                                          *)

Advanced ==
  CASE object.status = "hidden"   -> [object EXCEPT !.status = IF SlowBuild(resource) THEN "building" ELSE "ready"]
    [] object.status = "building" -> [object EXCEPT !.status = "ready"]
    [] object.status = "deleting" -> NoObject

Backend ==
  /\ op # "plan"
  /\ object.status \in {"hidden", "building", "deleting"}
  /\ object' = Advanced
  /\ UNCHANGED <<resource, strays, entry, goal, edits, op, at, data, faults, lost>>

\* The user changes the settings, destroys the resource, or wants it again.
Configure ==
  /\ op = "none"
  /\ edits < MaxEdits /\ edits' = edits + 1
  /\ goal' \in Settings \ {goal}
  /\ UNCHANGED <<resource, object, strays, entry, op, at, data, faults, lost>>

Handler ==
  /\ \/ Check \/ Adopt \/ Make \/ Put \/ Approve \/ Change \/ Rename \/ Rest \/ Upload \/ Exchange
     \/ SetID \/ Refused \/ Leave \/ Read \/ Poll \/ Reconcile \/ Wait \/ Inspect
     \/ AwaitConnected \/ Unset \/ Remove \/ RemoveStrict \/ RemoveUntilGone \/ DeleteState
     \/ WaitGone \/ CallFails \/ WaitExpires \/ DeadlineTaken
  /\ UNCHANGED <<resource, goal, edits>>

Next == Apply \/ Plan \/ Handler \/ Outsider \/ BuildFails \/ Backend \/ Configure

\* The user applies again and again, handlers run, the API gets its work done.
\* Faults are not fair: they use up their bound.
Fairness == WF_vars(Apply \/ Plan \/ Handler) /\ WF_vars(Backend)

Spec == Init /\ [][Next]_vars
FairSpec == Spec /\ Fairness
===============================================================================
