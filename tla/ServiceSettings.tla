----------------------------- MODULE ServiceSettings -----------------------------
(***************************************************************************)
(* The settings of a service through applies, beside its disk, its user    *)
(* configuration and its static IPs: the cloud, the VPC, the maintenance   *)
(* window, the customer managed key, the termination protection, the tags, *)
(* the technical emails and the integrations it is created with; with      *)
(* them the version of PostgreSQL, whose upgrade is checked first, and the *)
(* ACLs that Kafka has by default, which Create removes.  They differ in   *)
(* what core is shown when one is removed from the configuration, in what  *)
(* Create and Update send of it, and in how it is reset.  A behaviour has  *)
(* one of them.                                                            *)
(***************************************************************************)
EXTENDS Naturals

CONSTANT
  MaxShocks  \* bound: edits, changes of others and faults of one behaviour

VARIABLES
  setting,  \* the one of this behaviour
  chosen,   \* in the configuration
  besides,  \* another attribute of the service was edited
  actual,   \* what the service has, Gone if there is none
  noted,    \* in the Terraform state, Gone without an entry
  spoilt,   \* the entry is tainted
  job,      \* what is done now
  offer,    \* in the plan of core
  quiet,    \* nobody else has changed the service since the plan was made
  shocks    \* so far

settingVars ==
  <<setting, chosen, besides, actual, noted, spoilt, job, offer, quiet, shocks>>

-----------------------------------------------------------------------------
(* The values: a window has a day and a time, the others one part.         *)

Settings ==
  {"cloud", "vpc", "window", "cmk", "protection", "tags", "emails", "integrations",
   "version", "defaultACL"}

Only(value) == <<value, "">>

\* What d.Get has of a setting that is not there; also false, and an empty set.
Empty == Only("")

Gone == Only("gone")

\* No Read shows the default ACLs: of an imported service they are not known.
Imported == Only("imported")

\* cmkIDReset.
Reset == Only("reset")

\* Two tags of one key.
Duplicate == Only("twice")

Days == {"a", "b"}

Choices ==
  CASE setting = "window"     -> (Days \cup {""}) \X (Days \cup {""})
    [] setting = "cmk"        -> {Empty, Only("a"), Only("b"), Reset}
    [] setting = "tags"       -> {Empty, Only("a"), Only("b"), Duplicate}
    [] setting \in {"protection", "defaultACL"} -> {Empty, Only("a")}
    [] OTHER                  -> {Empty, Only("a"), Only("b")}

\* What a service can have.  A window "can be set on the backend" to never.
Possible ==
  CASE setting \in {"cloud", "version"} -> {Only("a"), Only("b")}
    [] setting = "window"     -> (Days \cup {"never"}) \X Days
    [] setting \in {"protection", "defaultACL"} -> {Empty, Only("a")}
    [] OTHER                  -> {Empty, Only("a"), Only("b")}

-----------------------------------------------------------------------------
(* The plan of core.                                                       *)

\* Core keeps the state where these are not configured: the schema suppresses the
\* removal of a cloud, of a part of a window and of a version, key and integrations are
\* computed.
Keeping == {"cloud", "window", "cmk", "integrations", "version"}

Known == IF noted = Gone \/ spoilt THEN Empty ELSE noted

\* CreateOnlyDiffSuppressFunc.
Suppressed == setting = "defaultACL" /\ noted # Gone /\ ~spoilt

\* The reset of a key that is none is suppressed.
ProposedPart(part) ==
  CASE chosen[part] = ""      -> IF setting \in Keeping THEN Known[part] ELSE ""
    [] chosen[part] = "reset" -> IF Known[part] = "" THEN "" ELSE "reset"
    [] OTHER                  -> chosen[part]

Proposed == IF Suppressed THEN noted ELSE <<ProposedPart(1), ProposedPart(2)>>

\* CustomizeDiffCheckUniqueTag and CustomizeDiffServiceIntegrationAfterCreation.
Rejected ==
  \/ chosen = Duplicate
  \/ setting = "integrations" /\ noted # Gone /\ Proposed \notin {noted, Empty}

-----------------------------------------------------------------------------
(* The requests, and what the API makes of them.                           *)

\* GetMaintenanceWindow, and NilIfZero of a key or, at creation, a cloud.  Every
\* service has a cloud.  Without a VPC null is sent.  Expand sends the version that is
\* configured.
Sent ==
  CASE setting = "window"           -> "" \notin {offer[1], offer[2]} /\ offer[1] # "never"
    [] setting \in {"cloud", "cmk"} -> offer # Empty
    [] setting = "version"          -> chosen # Empty
    [] setting \in {"integrations", "defaultACL"} -> job = "create"
    [] OTHER                        -> TRUE

Fresh == IF setting \in {"cloud", "window", "version"} THEN Possible ELSE {Empty}

Answers ==
  IF Sent THEN {IF offer = Reset THEN Empty ELSE offer}
  ELSE IF job = "create" THEN Fresh ELSE {actual}

\* The check of an upgrade fails: there is no way back to the version before.
Refused == setting = "version" /\ chosen = Only("a") /\ actual = Only("b")

\* What a Read leaves in the state.
Shown(before, now) == IF setting = "defaultACL" THEN before ELSE now

-----------------------------------------------------------------------------
TypeOK ==
  /\ setting \in Settings /\ chosen \in Choices
  /\ {besides, spoilt, quiet} \subseteq BOOLEAN
  /\ {actual, noted} \subseteq Possible \cup {Gone, Reset, Imported}
  /\ actual = Gone <=> noted = Gone
  /\ job \in {"none", "plan", "replace", "create", "check", "update"}
  /\ offer = Gone <=> job \in {"none", "plan"}
  /\ shocks \in 0..MaxShocks

\* A new service, or one that was imported.
Init ==
  /\ setting \in Settings /\ chosen \in Choices /\ besides = FALSE
  /\ actual \in Possible \cup {Gone} /\ spoilt = FALSE
  /\ noted = IF actual = Gone THEN Gone ELSE Shown(Imported, actual)
  /\ job = "none" /\ offer = Gone /\ quiet = TRUE /\ shocks = 0

Shock == shocks < MaxShocks /\ shocks' = shocks + 1

Idle == job' = "none" /\ offer' = Gone /\ quiet' = TRUE

Refresh ==
  /\ job = "none"
  /\ job' = "plan" /\ noted' = Shown(noted, actual)
  /\ UNCHANGED <<setting, chosen, besides, actual, spoilt, offer, quiet, shocks>>

Verdict ==
  IF Rejected THEN "none"
  ELSE IF noted = Gone THEN "create"
  ELSE IF spoilt THEN "replace"
  ELSE IF Proposed = noted /\ ~besides THEN "none"
  ELSE IF setting = "version" THEN "check" ELSE "update"

Plan ==
  /\ job = "plan"
  /\ job' = Verdict
  /\ offer' = IF Verdict = "none" THEN Gone ELSE Proposed
  /\ UNCHANGED <<setting, chosen, besides, actual, noted, spoilt, quiet, shocks>>

Replace ==
  /\ job = "replace"
  /\ job' = "create" /\ actual' = Gone /\ noted' = Gone /\ spoilt' = FALSE
  /\ UNCHANGED <<setting, chosen, besides, offer, quiet, shocks>>

\* Mutant of UpgradeCheck: the result of the task is not looked at.
UpgradeCheckIgnored ==
  /\ job = "check"
  /\ job' = "update"
  /\ UNCHANGED <<setting, chosen, besides, actual, noted, spoilt, offer, quiet, shocks>>

\* resourceServicePGUpdate, before it updates the service.
UpgradeCheck ==
  /\ job = "check"
  /\ IF Refused
     THEN noted' = offer /\ Idle
     ELSE job' = "update" /\ UNCHANGED <<noted, offer, quiet>>
  /\ UNCHANGED <<setting, chosen, besides, actual, spoilt, shocks>>

\* Create or Update, with the call for the tags, and the Read at the end.
Handle ==
  /\ job \in {"create", "update"}
  /\ actual' \in Answers
  /\ noted' = Shown(offer, actual') /\ besides' = FALSE
  /\ Idle
  /\ UNCHANGED <<setting, chosen, spoilt, shocks>>

\* resourceKafkaCreate removes the default ACLs after the Create proper: when that
\* fails, the entry is tainted.
CreateFails ==
  /\ job = "create" /\ setting = "defaultACL" /\ offer = Empty /\ Shock
  /\ actual' \in {Only("a"), Empty}
  /\ noted' = offer /\ spoilt' = TRUE
  /\ Idle
  /\ UNCHANGED <<setting, chosen, besides>>

\* The SDK keeps the plan of an Update that fails, before its call for this setting
\* or after.
UpdateFails ==
  /\ job \in {"check", "update"} /\ Shock
  /\ actual' \in {actual} \cup IF job = "update" THEN Answers ELSE {}
  /\ noted' = offer
  /\ Idle
  /\ UNCHANGED <<setting, chosen, besides, spoilt>>

-----------------------------------------------------------------------------
(* The user, and others.                                                   *)

Configure ==
  /\ job = "none" /\ Shock
  /\ \/ chosen' \in Choices \ {chosen} /\ UNCHANGED besides
     \/ noted # Gone /\ ~besides /\ besides' = TRUE /\ UNCHANGED chosen
  /\ UNCHANGED <<setting, actual, noted, spoilt, job, offer, quiet>>

\* The ACLs of Kafka are resources of their own.
Outsider ==
  /\ job # "plan" /\ actual # Gone /\ setting # "defaultACL" /\ Shock
  /\ ~(setting = "version" /\ actual = Only("b"))
  /\ actual' \in Possible \ {actual}
  /\ quiet' = (job = "none")
  /\ UNCHANGED <<setting, chosen, besides, noted, spoilt, job, offer>>

Work == Refresh \/ Plan \/ Replace \/ UpgradeCheck \/ Handle

Next == Work \/ CreateFails \/ UpdateFails \/ Configure \/ Outsider

Spec == Init /\ [][Next]_settingVars /\ WF_settingVars(Work)

-----------------------------------------------------------------------------
\* A key that is reset is none; what is kept may be anything.  Kafka has the default ACLs
\* it was to have when it was created.
Right ==
  \/ setting = "defaultACL" /\ noted \in {actual, Imported} /\ ~spoilt
  \/ /\ setting # "defaultACL"
     /\ \A part \in 1..2 :
          \/ actual[part] = chosen[part]
          \/ chosen[part] = "" /\ setting \in Keeping
          \/ chosen[part] = "reset" /\ actual[part] = ""

\* A Create sends no window of which a day or a time is missing; the plan after it, which
\* knows the other part, shows the difference.
Halved == job = "create" /\ setting = "window" /\ "" \in {chosen[1], chosen[2]}

\* A window that was set to never is not sent back, nor the time that is configured alone.
Never == setting = "window" /\ chosen[1] = "" /\ actual[1] = "never"

\* A Create or an Update leaves the setting as it is configured, and an Update of
\* something else, though it sends everything again, does not change it.  No Update,
\* failing or not, asks for a version of PostgreSQL whose check has failed.
PlansKept ==
  /\ [][quiet /\ job \in {"create", "update"} /\ job' = "none" /\ shocks' = shocks
          => /\ Right' \/ Halved \/ Never
             /\ offer = noted => actual' = actual]_settingVars
  /\ [][quiet /\ job = "update" /\ job' = "none" => ~Refused]_settingVars

\* When core plans no change, the setting is as it is configured, or the plan was
\* rejected.
NoopIsRight == job = "plan" /\ Verdict = "none" => Right \/ Rejected

Settled == Never \/ Refused \/ (job \in {"none", "plan"} /\ (Right \/ Rejected))

\* Applying again and again ends with the setting that is configured, and with plans that
\* have nothing to do.
Converges == <>[]Settled
===============================================================================
