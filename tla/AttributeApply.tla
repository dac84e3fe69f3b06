------------------------------ MODULE AttributeApply ------------------------------
(***************************************************************************)
(* One attribute of one resource through applies: its value in the         *)
(* configuration, in the plan, in the Terraform state and at the API.  The *)
(* user edits it, other attributes of the resource and the object itself;  *)
(* others change it at the API; calls fail and lose their answers.         *)
(* ResourceApply has the steps of the handlers, here a handler is a step.  *)
(***************************************************************************)
EXTENDS AttributeData

CONSTANTS
  Attributes,  \* [kind, siblings]: what editing another attribute of the resource
               \* asks for, an update ("mutable") or a replacement ("replacing")
  MaxEvents    \* bound: edits, changes of others and faults of one behaviour

VARIABLES
  attribute,
  omits,     \* the API leaves out of its responses what is not set
  config,    \* the value in the configuration, "absent" to destroy the resource
  touched,   \* other attributes that were edited ask for this, or "nothing"
  remote,    \* the value at the API, "gone" without an object
  stored,    \* the value in the Terraform state, "gone" without an entry
  tainted,   \* the entry is
  verb,      \* what is done now
  planned,   \* the value in the plan
  alone,     \* nobody else has changed the object since the refresh
  events     \* so far

attributeVars ==
  <<attribute, omits, config, touched, remote, stored, tainted, verb, planned, alone, events>>

k == attribute.kind

TypeOK ==
  /\ attribute \in Attributes /\ omits \in BOOLEAN
  /\ config \in ConfigValues(k) \cup {"absent"}
  /\ touched \in {"nothing"} \cup attribute.siblings
  /\ remote \in Real \cup {"none", "gone"}
  /\ stored \in Values \cup {"gone"}
  /\ planned \in Values \cup {"unknown"}
  /\ verb \in {"none", "plan", "create", "update", "replace", "destroy"}
  /\ verb \in {"none", "plan"} => planned = "none"
  /\ verb = "create" => stored = "gone"
  /\ stored = "gone" => ~tainted
  /\ remote = "gone" <=> stored = "gone"
  /\ tainted \in BOOLEAN /\ alone \in BOOLEAN /\ events \in 0..MaxEvents

\* The API gives a value to what is required and to an ID.
RemoteValues ==
  IF Is("id", k) \/ (Is("required", k) /\ "empty" \notin ConfigValues(k))
  THEN Real
  ELSE Real \cup {"none"}

\* A new resource, or one that ImportState has put into the state with its ID
\* fields: the Read that follows sets the rest.
Init ==
  /\ attribute \in Attributes /\ omits \in BOOLEAN
  /\ config \in ConfigValues(k)
  /\ \/ remote = "gone" /\ stored = "gone"
     \/ remote \in RemoteValues /\ stored = IF Is("id", k) THEN remote ELSE "none"
  /\ touched = "nothing" /\ tainted = FALSE /\ alone = TRUE
  /\ verb = "none" /\ planned = "none"
  /\ events = 0

Event == events < MaxEvents /\ events' = events + 1

-----------------------------------------------------------------------------
(* Refresh and plan.                                                       *)

Refresh ==
  /\ verb = "none"
  /\ verb' = "plan" /\ alone' = TRUE
  /\ stored' = IF stored = "gone" THEN stored
               ELSE Flattened(k, stored, "nil", Answer(k, remote, omits))
  /\ UNCHANGED <<attribute, omits, config, touched, remote, tainted, planned, events>>

Changes == Proposed(k, config, stored) # stored \/ touched # "nothing"

PlannedInPlace == Planned(k, config, stored, FALSE, Changes)

PlannedAnew == Planned(k, config, "none", TRUE, TRUE)

\* RequiresReplace looks at the planned value, also at one that is unknown.
Replaces ==
  \/ tainted \/ touched = "replacing"
  \/ Is("replaces", k) /\ PlannedInPlace # stored

Protected == Is("protects", k) /\ stored = "two"

\* A protected resource is not destroyed.  It is replaced: ModifyPlan looks at
\* the protection when the plan is to destroy, and a replacement has a plan.
Verdict ==
  CASE config = "absent" -> IF stored = "gone" \/ Protected THEN "none" ELSE "destroy"
    [] config # "absent" /\ stored = "gone" -> "create"
    [] OTHER -> IF Replaces THEN "replace" ELSE IF Changes THEN "update" ELSE "none"

Plan ==
  /\ verb = "plan"
  /\ verb' = Verdict
  /\ planned' = CASE Verdict \in {"create", "replace"} -> PlannedAnew
                  [] Verdict = "update"                -> PlannedInPlace
                  [] OTHER                             -> "none"
  /\ UNCHANGED <<attribute, omits, config, touched, remote, stored, tainted, alone, events>>

-----------------------------------------------------------------------------
(* Create, Update and Delete.                                              *)

Idle == verb' = "none" /\ planned' = "none"

\* The response into the plan: what is in d when the handler returns.
Result(value) ==
  Flattened(k, IF planned = "unknown" THEN "none" ELSE planned, config, Answer(k, value, omits))

\* Core takes no other value than the planned one: an error, and a tainted
\* entry if the object is new.
Conclude(value) ==
  /\ stored' = Result(value)
  /\ tainted' = (verb = "create" /\ planned \notin {"unknown", Result(value)})
  /\ touched' = "nothing"
  /\ Idle

\* What the API makes of a request; it may set what it is not given.
Applied(sent, before) ==
  CASE sent \in Real   -> {sent}
    [] sent = "empty"  -> {"none"}
    [] sent = "none"   ->
         IF verb = "create"
         THEN IF Is("computed", k) THEN RemoteValues ELSE {"none"}
         ELSE {before} \cup IF Configurable(k) \/ Is("keeps", k) THEN {} ELSE RemoteValues

Create ==
  /\ verb = "create"
  /\ remote' \in Applied(Sent(k, planned, "none"), "none")
  /\ Conclude(remote')
  /\ UNCHANGED <<attribute, omits, config, alone, events>>

Update ==
  /\ verb = "update"
  /\ remote' \in Applied(Sent(k, planned, stored), remote)
  /\ \/ Conclude(remote') /\ UNCHANGED events
     \/ Event /\ Idle /\ UNCHANGED <<stored, tainted, touched>>  \* the answer is lost
  /\ UNCHANGED <<attribute, omits, config, alone>>

\* A replacement goes on with a Create.
Delete ==
  /\ verb \in {"destroy", "replace"}
  /\ remote' = "gone" /\ stored' = "gone" /\ tainted' = FALSE
  /\ IF verb = "replace" THEN verb' = "create" /\ UNCHANGED planned ELSE Idle
  /\ UNCHANGED <<attribute, omits, config, touched, alone, events>>

CallFails ==
  /\ verb \in {"create", "update", "replace", "destroy"}
  /\ Event /\ Idle
  /\ UNCHANGED <<attribute, omits, config, touched, remote, stored, tainted, alone>>

-----------------------------------------------------------------------------
(* The user, and others.                                                   *)

Configure ==
  /\ verb = "none" /\ Event
  /\ config' \in (ConfigValues(k) \cup {"absent"}) \ {config}
  /\ UNCHANGED <<attribute, omits, touched, remote, stored, tainted, verb, planned, alone>>

Touch ==
  /\ verb = "none" /\ stored # "gone" /\ Event
  /\ touched' \in attribute.siblings
  /\ UNCHANGED <<attribute, omits, config, remote, stored, tainted, verb, planned, alone>>

\* Someone else sets it, or the API does.  An ID stays, and what the provider
\* takes for settled (UsesStateForUnknown); its own protection is not at the API.
Outsider ==
  /\ verb # "plan" /\ remote # "gone"
  /\ ~Is("id", k) /\ (Configurable(k) \/ ~Is("keeps", k))
  /\ ~(Is("protects", k) /\ Is("hidden", k))
  /\ Event
  /\ remote' \in RemoteValues \ {remote} /\ alone' = FALSE
  /\ UNCHANGED <<attribute, omits, config, touched, stored, tainted, verb, planned>>

Work == Refresh \/ Plan \/ Create \/ Update \/ Delete

Next == Work \/ CallFails \/ Configure \/ Touch \/ Outsider

\* The user applies again and again.
Fairness == WF_attributeVars(Work)

Spec == Init /\ [][Next]_attributeVars
FairSpec == Spec /\ Fairness

-----------------------------------------------------------------------------
(* What the user asks for.                                                 *)

Wanted == Proposed(k, config, "any")

\* The object has what the user asks for.
Right ==
  \/ Wanted = "any"
  \/ remote = IF Wanted = "empty" THEN "none" ELSE Wanted

-----------------------------------------------------------------------------
(* The exceptions.                                                         *)

\* Flatten stores no empty string: one in the configuration is never settled.
EmptyString == config = "empty" /\ Is("string", k)

\* An Update has no way to say that this was removed: a number, a boolean or a
\* map, and what must not be zero.  The value stays at the API, comes back, and
\* is not the one that was planned.
Irremovable ==
  config = "none" /\ Is("optional", k) /\ ~Is("computed", k) /\ ~Emptied(k)

\* The response does not show it, and the state keeps what it has.
Unseen == Answer(k, remote, omits) = "absent" /\ stored # remote

\* What the state has is not what the response says.
Preferred == Is("stays", k) \/ (Is("block", k) /\ Is("computed", k))

\* What the API may choose is unknown in every plan that changes anything, and
\* core replaces the object for fear that it is another value: the entry class,
\* the arguments and the savepoint of a JAR deployment, when its timeouts are edited.
Rechosen ==
  /\ k \in {{type, "optional", "computed", "replaces"} : type \in {"string", "collection"}}
  /\ config = "none"

\* Core tells null from empty, the API does not.
EmptyForNone == "empty" \in {config, stored} /\ remote = "none"

-----------------------------------------------------------------------------
\* The value after a Create or an Update is the one that core was shown in the
\* plan, which takes it for an error of the provider if not ("Provider produced
\* inconsistent result"), unless others interfere: Expand has cleared what was
\* removed, Flatten has told null from empty as the configuration does.
PlansKept ==
  [][alone /\ verb \in {"create", "update"} /\ verb' = "none" /\ events' = events
       => planned \in {"unknown", stored'} \/ EmptyString \/ Irremovable]_attributeVars

\* No edit of another attribute, no refresh and no change of others makes core
\* replace an object, which loses its data, while it has what the user asks for.
ReplacedOnlyIfAsked ==
  verb = "plan" /\ Verdict = "replace"
    => \/ tainted \/ touched = "replacing"
       \/ Is("replaces", k) /\ ~Right
       \/ Unseen \/ EmptyForNone \/ Rechosen

\* When core plans no change, the object has the value of the configuration.
NoopIsRight ==
  verb = "plan" /\ Verdict = "none" /\ config # "absent" => Right \/ Unseen \/ Preferred

Settled ==
  IF config = "absent"
  THEN stored = "gone" \/ Protected
  ELSE stored # "gone" /\ verb \in {"none", "plan"} /\ (Right \/ Unseen \/ Preferred)

\* Applying again and again ends with the value of the configuration, and with
\* plans that have nothing to do.
Converges == <>[](Settled \/ EmptyString \/ Irremovable)
===============================================================================
