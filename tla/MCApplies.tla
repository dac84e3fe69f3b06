------------------------------- MODULE MCApplies -------------------------------
(***************************************************************************)
(* Applies for TLC, seen seven ways, of which a behaviour has one: the    *)
(* steps of a resource's handlers (ResourceApply), the value of one        *)
(* attribute of a schema (AttributeApply), the password of a service user  *)
(* (ServiceUserPassword), one field of a user configuration (UserConfig),  *)
(* the networks that may connect to a service (IPFilters), its disk        *)
(* (DiskSpace), its other settings (ServiceSettings).  They share no       *)
(* state; what is not looked at is settled, and stays.                     *)
(***************************************************************************)
EXTENDS MCResourceApply

CONSTANTS
  Users,     \* see ServiceUserPassword
  MaxEvents,  \* bound: edits, changes of others and faults in the other views
  MaxSizings  \* bound: the same for the disk and the settings of a service

VARIABLES
  view,  \* the one of this behaviour
  attribute, omits, config, touched, remote, stored, tainted, verb, planned, alone, events,
  user, wish, edited, accepted, settling, userEntry, act, change, reset, adrift, turns,
  field, nine, value, elsewhere, held, stated, step, draft, undisturbed, changes,
  purge, filters, touches, networks, known, doing, shown, moves,
  configured, modified, service, tracked, task, proposal, steady, sizings,
  setting, chosen, besides, actual, noted, spoilt, job, offer, quiet, shocks

Schema == INSTANCE PluginSchemas
Attribute == INSTANCE AttributeApply WITH Attributes <- Schema!SchemaAttributes
Password == INSTANCE ServiceUserPassword WITH entry <- userEntry
Configs == INSTANCE UserConfigSchemas
Field == INSTANCE UserConfig WITH
  Fields <- Configs!UserConfigFields, MaxChanges <- MaxEvents,
  config <- value, touched <- elsewhere, remote <- held, stored <- stated, verb <- step,
  planned <- draft, alone <- undisturbed
Filter == INSTANCE IPFilters WITH MaxMoves <- MaxEvents, edited <- touches
Disk == INSTANCE DiskSpace WITH MaxTurns <- MaxSizings, turns <- sizings
Service == INSTANCE ServiceSettings WITH MaxShocks <- MaxSizings

ASSUME ViewsAssumption ==
  /\ MaxEvents \in Nat /\ MaxSizings \in Nat
  /\ Users \subseteq Password!UserKinds /\ Users # {}

\* A field of a user configuration has one type, and what needs a new service is
\* neither a set nor a map.
ASSUME FieldsAssumption ==
  LET types == {"number", "bool", "string", "list", "set", "objects", "map"}
  IN  \A f \in Configs!UserConfigFields :
        /\ \E type \in types : f \cap types = {type}
        /\ "createOnly" \in f => {"string", "replaces"} \subseteq f
        /\ "replaces" \in f => f \cap {"set", "map"} = {}

\* An attribute of a schema has one type, and somebody to set it.  What is hidden or in
\* an object is no block; a default is for what may be left out.  What core replaces for,
\* is not preferred in the state, and if the API chooses it, it has a default, keeps its
\* value, or is one of the three that core takes for another in every plan.
ASSUME AttributesAssumption ==
  \A a \in Schema!SchemaAttributes :
    LET kind == a.kind
        types == Attribute!Types
    IN  /\ \E type \in types : kind \cap types = {type}
        /\ kind \cap {"required", "optional", "computed"} # {}
        /\ "default" \in kind => "optional" \in kind /\ "block" \notin kind
        /\ "hidden" \in kind => kind \cap {"nested", "block"} = {}
        /\ "nested" \in kind =>
             "computed" \in kind /\ kind \cap {"required", "optional", "keeps"} = {}
        /\ "replaces" \in kind => "stays" \notin kind /\ ~ {"block", "computed"} \subseteq kind
        /\ {"replaces", "computed"} \subseteq kind /\ kind \cap {"default", "keeps"} = {} =>
             kind \in {{type, "optional", "computed", "replaces"} : type \in {"string", "collection"}}

attributeVars ==
  <<attribute, omits, config, touched, remote, stored, tainted, verb, planned, alone, events>>
userVars ==
  <<user, wish, edited, accepted, settling, userEntry, act, change, reset, adrift, turns>>
fieldVars ==
  <<field, nine, value, elsewhere, held, stated, step, draft, undisturbed, changes>>
filterVars == <<purge, filters, touches, networks, known, doing, shown, moves>>
diskVars == <<configured, modified, service, tracked, task, proposal, steady, sizings>>
settingVars == <<setting, chosen, besides, actual, noted, spoilt, job, offer, quiet, shocks>>
serviceVars == <<filterVars, diskVars, settingVars>>
allVars == <<view, vars, attributeVars, userVars, fieldVars, serviceVars>>

HandlersSettled ==
  /\ resource = CHOOSE r \in Resources : TRUE
  /\ entry = [status |-> "kept", main |-> 1, rest |-> 1]

\* A resource that is destroyed.
AttributeSettled ==
  /\ attribute = CHOOSE a \in Schema!SchemaAttributes : TRUE
  /\ omits = FALSE /\ config = "absent" /\ touched = "nothing"
  /\ remote = "gone" /\ stored = "gone" /\ tainted = FALSE
  /\ verb = "none" /\ planned = "none" /\ alone = TRUE /\ events = 0

PasswordSettled ==
  /\ user = CHOOSE u \in Users : TRUE
  /\ wish = "any" /\ edited = FALSE /\ accepted = "g1" /\ settling = FALSE
  /\ userEntry = [status |-> "kept", password |-> "g1", version |-> 0]
  /\ act = "none" /\ change = "none" /\ reset = FALSE /\ adrift = "no" /\ turns = 0

FieldSettled ==
  /\ field = CHOOSE f \in Configs!UserConfigFields : TRUE
  /\ nine = FALSE /\ value = "absent" /\ elsewhere = FALSE
  /\ held = "gone" /\ stated = "gone" /\ step = "none" /\ draft = "nothing"
  /\ undisturbed = TRUE /\ changes = 0

\* A service that lets everyone in, and is not configured.
FilterSettled ==
  /\ purge = FALSE /\ filters = [f \in Filter!AllFilters |-> "none"] /\ touches = FALSE
  /\ networks = "any" /\ known = Filter!Nowhere
  /\ doing = "none" /\ shown = Filter!Nowhere /\ moves = 0

\* A service that is as configured.
DiskSettled ==
  /\ configured = [Disk!Anew EXCEPT !.plan = "small"] /\ modified = FALSE
  /\ service = [plan |-> "small", disk |-> 1, scaled |-> FALSE] /\ tracked = configured
  /\ task = "none" /\ proposal = Disk!Anew /\ steady = TRUE /\ sizings = 0

\* A service of which everyone is told.
SettingSettled ==
  /\ setting = "emails" /\ chosen = Service!Only("a") /\ besides = FALSE
  /\ actual = chosen /\ noted = chosen /\ spoilt = FALSE
  /\ job = "none" /\ offer = Service!Gone /\ quiet = TRUE /\ shocks = 0

AppliesInit ==
  /\ view \in {"handlers", "attribute", "password", "field", "filters", "disk", "settings"}
  /\ Init /\ IF view = "handlers" THEN TRUE ELSE HandlersSettled
  /\ IF view = "attribute" THEN Attribute!Init ELSE AttributeSettled
  /\ IF view = "password" THEN Password!Init ELSE PasswordSettled
  /\ IF view = "field" THEN Field!Init ELSE FieldSettled
  /\ IF view = "filters" THEN Filter!Init ELSE FilterSettled
  /\ IF view = "disk" THEN Disk!Init ELSE DiskSettled
  /\ IF view = "settings" THEN Service!Init ELSE SettingSettled

In(looked) == view = looked /\ UNCHANGED view

InHandlers ==
  In("handlers") /\ UNCHANGED <<attributeVars, userVars, fieldVars, serviceVars>>
InAttribute ==
  In("attribute") /\ UNCHANGED <<vars, userVars, fieldVars, serviceVars>>
InPassword ==
  In("password") /\ UNCHANGED <<vars, attributeVars, fieldVars, serviceVars>>
InField ==
  In("field") /\ UNCHANGED <<vars, attributeVars, userVars, serviceVars>>

OfService(looked) == In(looked) /\ UNCHANGED <<vars, attributeVars, userVars, fieldVars>>

InFilters == OfService("filters") /\ UNCHANGED <<diskVars, settingVars>>
InDisk == OfService("disk") /\ UNCHANGED <<filterVars, settingVars>>
InSettings == OfService("settings") /\ UNCHANGED <<filterVars, diskVars>>

AppliesNext ==
  \/ InHandlers /\ Next
  \/ InAttribute /\ Attribute!Next
  \/ InPassword /\ Password!Next
  \/ InField /\ Field!Next
  \/ InFilters /\ Filter!Next
  \/ InDisk /\ Disk!Next
  \/ InSettings /\ Service!Next

\* The user applies again and again, and the API gets its work done.
Applying ==
  \/ InHandlers /\ (Apply \/ Plan \/ Handler)
  \/ InAttribute /\ Attribute!Work
  \/ InPassword /\ Password!Work
  \/ InField /\ Field!Work
  \/ InFilters /\ Filter!Work
  \/ InDisk /\ Disk!Work
  \/ InSettings /\ Service!Work

AtWork ==
  \/ InHandlers /\ Backend
  \/ InPassword /\ Password!Settle

AppliesSpec ==
  AppliesInit /\ [][AppliesNext]_allVars /\ WF_allVars(Applying) /\ WF_allVars(AtWork)

-----------------------------------------------------------------------------
TypesOK ==
  TypeOK /\ Attribute!TypeOK /\ Password!TypeOK /\ Field!TypeOK /\ Filter!TypeOK
  /\ Disk!TypeOK /\ Service!TypeOK

\* When core plans no change, no failed step, lost answer or change of others
\* is hidden by the state: object, attribute, password, field, networks, disk and
\* settings are those of the configuration.  See the property of that name of each module.
NoopsAreRight ==
  /\ NoopIsRight /\ Attribute!NoopIsRight /\ Password!NoopIsRight
  /\ Field!NoopIsRight /\ Filter!NoopIsRight /\ Disk!NoopIsRight
  /\ Service!NoopIsRight

\* Applying again and again ends with what is configured, whatever failed before.
\* See the property of that name of each module.
AllConverge ==
  /\ Converges /\ Attribute!Converges /\ Password!Converges
  /\ Field!Converges /\ Filter!Converges /\ Disk!Converges
  /\ Service!Converges

\* What a Create or an Update does to an attribute or a field is what core was
\* shown in the plan, and it resizes no disk but that of a plan that shows it.  See
\* AttributeApply, UserConfig, DiskSpace and ServiceSettings.
PlansKept ==
  Attribute!PlansKept /\ Field!PlansKept /\ Disk!PlansKept /\ Service!PlansKept

\* Core replaces no object, which loses its data, that has what the user asks
\* for.  See AttributeApply and UserConfig.
ReplacedOnlyIfAsked == Attribute!ReplacedOnlyIfAsked /\ Field!ReplacedOnlyIfAsked

\* A password is reset only if the user has changed it.  See ServiceUserPassword.
RotatedOnlyIfAsked == Password!RotatedOnlyIfAsked

\* No Update lets in or keeps out other networks than the configuration says, in
\* whatever field.  See IPFilters.
FiltersKept == Filter!FiltersKept
===============================================================================
