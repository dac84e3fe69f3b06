------------------------------- MODULE UserConfig -------------------------------
(***************************************************************************)
(* One field of the user configuration of a service, an integration or an  *)
(* endpoint through applies: its value in the configuration, in the plan,  *)
(* in the Terraform state and at the API.  Terraform keeps what the API    *)
(* has set by default, and what the user removes stays at the API: values  *)
(* can be overridden only.  So the plan is what the SDK compares, less     *)
(* what SuppressUnchanged suppresses, and the request is what Expand makes *)
(* of the configuration.  The filters of IP addresses are in IPFilters.    *)
(***************************************************************************)
EXTENDS Naturals

CONSTANTS
  Fields,     \* the kinds of fields: see UserConfigSchemas
  MaxChanges  \* bound: edits, changes of others and faults of one behaviour

VARIABLES
  field,
  nine,     \* the hashes of the items of the set have nine digits
  config,   \* the value in the configuration
  touched,  \* another field of the resource was edited
  remote,   \* the value at the API, "gone" without a service
  stored,   \* the value in the Terraform state, "gone" without an entry
  verb,     \* what is done now
  planned,  \* the value in the plan
  alone,    \* nobody else has changed the field since the refresh
  changes   \* so far

fieldVars == <<field, nine, config, touched, remote, stored, verb, planned, alone, changes>>

Is(flag) == flag \in field

Collection == Is("list") \/ Is("set") \/ Is("objects") \/ Is("map")

-----------------------------------------------------------------------------
(* Values: "none" is null, "zero" is 0, false or without elements.         *)

\* An empty string is not a value, and a list of blocks is absent or has some.
ConfigValues ==
  {"none", "one"}
    \cup IF Is("bool") THEN {} ELSE {"two"}
    \cup IF Is("string") \/ Is("objects") THEN {} ELSE {"zero"}

Real == ConfigValues \ {"none"}

\* What the state has for a field without a value.
Unset == IF Is("number") \/ Collection THEN "zero" ELSE "none"

\* What a response shows.  The name and the password of the administrator are
\* in the one to the POST only.
Answer(value) == IF Is("createOnly") THEN "none" ELSE value

\* Flatten: null is left out.  What the responses do not repeat is copied from
\* d, which has a value.
Flattened(d, value) ==
  CASE Is("createOnly") /\ d # "none" -> d
    [] OTHER -> IF Answer(value) = "none" THEN Unset ELSE Answer(value)

\* HasChange: what is not in the configuration is as in the state.
HasChange(new, old) ==
  new # "none" /\ (IF new = "zero" THEN old \notin {"none", "zero"} ELSE new # old)

\* What the SDK compares.  It takes an unset boolean for "" and not for "false".
Differs == IF config = "none" THEN stored # Unset ELSE config # stored

\* Mutant of SuppressUnchanged: what the user has left out is shown as removed.
SuppressZeroOnly == config = "zero" /\ ~HasChange(config, stored) /\ stored # "none"

\* The map compares the number of its keys, a set its items, which are known by
\* the digits of their hash.
SuppressUnchanged ==
  /\ ~Is("map") /\ ~(Is("set") /\ nine)
  /\ config \in {"none", "zero"}
  /\ ~HasChange(config, stored) /\ stored # "none"

Shown == Differs /\ ~SuppressUnchanged

\* The value in the plan of a new service, which suppresses nothing, and of one
\* that is there.
PlannedAnew == IF config = "none" THEN Unset ELSE config

PlannedInPlace == IF Shown THEN PlannedAnew ELSE stored

\* Expand: nothing that is null, but for a list or a set that was removed; an
\* empty one if that is a change; on an Update, nothing that needs a new service.
\* A map has to be in the configuration.
Sent(isNew) ==
  IF Is("replaces") /\ ~isNew THEN "none"
  ELSE IF Is("map") \/ ~Collection \/ config \notin {"none", "zero"} THEN config
  ELSE IF ~isNew /\ planned # stored THEN "zero" ELSE "none"

-----------------------------------------------------------------------------
TypeOK ==
  /\ field \in Fields /\ nine \in BOOLEAN
  /\ config \in ConfigValues \cup {"absent"} /\ touched \in BOOLEAN
  /\ remote \in ConfigValues \cup {"gone"}
  /\ stored \in Real \cup {Unset, "gone"} /\ planned \in Real \cup {Unset, "nothing"}
  /\ stored = "gone" <=> remote = "gone"
  /\ verb \in {"none", "plan", "create", "update", "replace", "destroy"}
  /\ verb \in {"create", "update", "replace"} <=> planned # "nothing"
  /\ alone \in BOOLEAN /\ changes \in 0..MaxChanges

\* A new service, or one that was imported: the Read that follows sets the field.
Init ==
  /\ field \in Fields /\ nine \in BOOLEAN
  /\ config \in ConfigValues
  /\ \/ remote = "gone" /\ stored = "gone"
     \/ remote \in ConfigValues /\ stored = Unset
  /\ touched = FALSE /\ alone = TRUE
  /\ verb = "none" /\ planned = "nothing" /\ changes = 0

Change == changes < MaxChanges /\ changes' = changes + 1

Idle == verb' = "none" /\ planned' = "nothing"

Refresh ==
  /\ verb = "none"
  /\ verb' = "plan" /\ alone' = TRUE
  /\ stored' = IF stored = "gone" THEN stored ELSE Flattened(stored, remote)
  /\ UNCHANGED <<field, nine, config, touched, remote, planned, changes>>

Verdict ==
  IF config = "absent" THEN IF stored = "gone" THEN "none" ELSE "destroy"
  ELSE IF stored = "gone" THEN "create"
  ELSE IF Shown /\ Is("replaces") THEN "replace"
  ELSE IF Shown \/ touched THEN "update" ELSE "none"

Plan ==
  /\ verb = "plan"
  /\ verb' = Verdict
  /\ planned' = CASE Verdict \in {"create", "replace"} -> PlannedAnew
                  [] Verdict = "update"                -> PlannedInPlace
                  [] OTHER                             -> "nothing"
  /\ UNCHANGED <<field, nine, config, touched, remote, stored, alone, changes>>

\* The API gives a value to what it is not sent; what the user has not sent it
\* leaves as it is, and in a list that is sent again it is gone.
Applied(sent) ==
  IF sent # "none" THEN {sent}
  ELSE IF verb = "create" THEN ConfigValues
  ELSE {remote} \cup IF Is("item") THEN {"none"} ELSE {}

\* The handlers end with a Read of the service into d, which has the plan.
Handle ==
  /\ verb \in {"create", "update"}
  /\ remote' \in Applied(Sent(verb = "create"))
  /\ stored' = Flattened(planned, remote')
  /\ touched' = FALSE
  /\ Idle
  /\ UNCHANGED <<field, nine, config, alone, changes>>

\* A call of an Update fails, or its answer is lost: the SDK keeps the plan.
\* The user applies again what was asked for.
UpdateFails ==
  /\ verb = "update" /\ Change
  /\ remote' \in {remote} \cup Applied(Sent(FALSE))
  /\ stored' = planned
  /\ Idle
  /\ UNCHANGED <<field, nine, config, touched, alone>>

\* A replacement goes on with the Create.
Delete ==
  /\ verb \in {"replace", "destroy"}
  /\ remote' = "gone" /\ stored' = "gone"
  /\ IF verb = "replace" THEN verb' = "create" /\ UNCHANGED planned ELSE Idle
  /\ UNCHANGED <<field, nine, config, touched, alone, changes>>

-----------------------------------------------------------------------------
(* The user, and others.                                                   *)

Configure ==
  /\ verb = "none" /\ Change
  /\ config' \in (ConfigValues \cup {"absent"}) \ {config}
  /\ UNCHANGED <<field, nine, touched, remote, stored, verb, planned, alone>>

Touch ==
  /\ verb = "none" /\ stored # "gone" /\ ~touched /\ Change
  /\ touched' = TRUE
  /\ UNCHANGED <<field, nine, config, remote, stored, verb, planned, alone>>

\* What needs a new service is changed by nobody.
Outsider ==
  /\ verb # "plan" /\ remote # "gone" /\ ~Is("replaces") /\ Change
  /\ remote' \in ConfigValues \ {remote} /\ alone' = FALSE
  /\ UNCHANGED <<field, nine, config, touched, stored, verb, planned>>

Work == Refresh \/ Plan \/ Handle \/ Delete

Next == Work \/ UpdateFails \/ Configure \/ Touch \/ Outsider

Spec == Init /\ [][Next]_fieldVars /\ WF_fieldVars(Work)

-----------------------------------------------------------------------------
(* The exceptions.                                                         *)

\* The service has what the user asks for; null asks for nothing.
Right ==
  \/ config \in {"none", remote}
  \/ config = "zero" /\ Collection /\ remote = "none"

\* The state has 0 for a number without a value: that it is set to 0 is not seen.
ZeroUnseen == Is("number") /\ config = "zero" /\ remote = "none"

\* No response shows it.
Unseen == Is("createOnly")

\* The number of keys of a map differs in every plan, and Expand sends no map
\* that is not in the configuration.
MapRemoved == Is("map") /\ config = "none"

-----------------------------------------------------------------------------
\* An Update changes at the API what the plan shows, and nothing that the plan
\* hides: what the user has removed and what the API has set by default stay as
\* they are, as the head of converters.go says, whatever else is edited.
PlansKept ==
  [][alone /\ verb = "update" /\ verb' = "none" /\ changes' = changes
       => \/ remote' = IF planned = stored THEN remote ELSE planned
          \/ planned = stored /\ {remote, remote'} \subseteq {"none", "zero"}
          \/ Is("item") /\ remote' = "none"
          \/ MapRemoved]_fieldVars

\* A service is replaced for a field only if the field is not as the user asks,
\* or cannot be known.
ReplacedOnlyIfAsked ==
  verb = "plan" /\ Verdict = "replace" => ~Right \/ Unseen

\* When core plans no change, the service has the value of the configuration.
NoopIsRight ==
  verb = "plan" /\ Verdict = "none" /\ config # "absent" => Right \/ ZeroUnseen \/ Unseen

Settled ==
  IF config = "absent"
  THEN stored = "gone"
  ELSE stored # "gone" /\ verb \in {"none", "plan"} /\ (Right \/ ZeroUnseen \/ Unseen)

\* Applying again and again ends with the value of the configuration, and with
\* plans that have nothing to do.
Converges == <>[](Settled \/ MapRemoved)
===============================================================================
