--------------------------- MODULE ServiceUserPassword ---------------------------
(***************************************************************************)
(* The password of a service user: given in the configuration, given       *)
(* write-only together with a version, or left to the service; known to    *)
(* the Terraform state, but in write-only mode; reset by an API call that  *)
(* the service takes time to show the result of.                           *)
(***************************************************************************)
EXTENDS Naturals

CONSTANTS
  Users,     \* the resources: what else an Update of each does
  MaxEvents  \* bound: edits, changes of others and faults of one behaviour

\* kafka and opensearch have nothing else to update; pg and valkey set an access
\* control first, mysql an authentication by the same call; clickhouse has calls
\* of its own, which answer with the password.
UserKinds == {"plain", "access", "authentication", "clickhouse"}

VARIABLES
  user,      \* the resource
  wish,      \* the password of the configuration
  edited,    \* another attribute is to be updated
  accepted,  \* the password that the service accepts, "none" without a user
  settling,  \* the API does not show it yet
  entry,     \* the Terraform state: status, password, password_wo_version
  act,       \* what is done now
  change,    \* the planned password
  reset,     \* this Create or Update has set the password
  adrift,    \* the password was set without the state's knowing: "pending" as long
             \* as the next apply sets it again, or "lost"
  turns      \* edits, changes of others and faults so far

userVars ==
  <<user, wish, edited, accepted, settling, entry, act, change, reset, adrift, turns>>

Given == {"p1", "p2"}
WriteOnly == {"w1", "w2"}
Made == {"g1", "g2"}
Passwords == Given \cup WriteOnly \cup Made

NoEntry == [status |-> "none", password |-> "none", version |-> 0]

\* The password and the password_wo_version of the configuration.
Plain == IF wish \in Given THEN wish ELSE "none"
Version == CASE wish = "w1" -> 1 [] wish = "w2" -> 2 [] OTHER -> 0

TypeOK ==
  /\ user \in Users /\ Users \subseteq UserKinds
  /\ wish \in Given \cup WriteOnly \cup {"any"} /\ edited \in BOOLEAN
  /\ accepted \in Passwords \cup {"none"} /\ settling \in BOOLEAN
  /\ entry \in [status : {"none", "kept", "tainted"}, password : Passwords \cup {"none"},
                version : 0..2]
  /\ entry.password \notin WriteOnly
  /\ act \in {"none", "plan", "remove", "make", "access", "reset", "read"}
  /\ change \in Passwords \cup {"none", "unknown"}
  /\ reset \in BOOLEAN /\ adrift \in {"no", "pending", "lost"} /\ turns \in 0..MaxEvents
  /\ accepted = "none" => entry.status = "none" /\ ~settling

Init ==
  /\ user \in Users
  /\ wish \in Given \cup WriteOnly \cup {"any"}
  /\ \/ accepted = "none" /\ entry = NoEntry
     \/ accepted \in {"p1", "g1"} /\ entry = [NoEntry EXCEPT !.status = "kept"]  \* imported
        /\ user # "clickhouse"
  /\ edited = FALSE /\ settling = FALSE /\ reset = FALSE /\ adrift = "no"
  /\ act = "none" /\ change = "none" /\ turns = 0

Turn == turns < MaxEvents /\ turns' = turns + 1

-----------------------------------------------------------------------------
(* Refresh and plan.                                                       *)

Shown == IF settling THEN "none" ELSE accepted

\* PasswordFlatten: the password of d is kept, and in write-only mode there is
\* none.
PasswordFlatten(password, version) ==
  CASE version # 0                        -> "none"
    [] version = 0 /\ password # "none"   -> password
    [] version = 0 /\ password = "none"   -> Shown

Refresh ==
  /\ act = "none"
  /\ act' = "plan"
  /\ entry' = IF entry.status = "none" THEN entry
              ELSE [entry EXCEPT !.password = PasswordFlatten(@, entry.version)]
  /\ UNCHANGED <<user, wish, edited, accepted, settling, change, reset, adrift, turns>>

Differs ==
  \/ Plain \notin {"none", entry.password}
  \/ Version # entry.version
  \/ edited

\* password is computed, and does not keep its value: when anything changes, it
\* is unknown unless it is configured.
Planned ==
  IF Plain # "none" THEN Plain
  ELSE IF entry.status # "kept" \/ Differs THEN "unknown" ELSE entry.password

FirstStep == IF user = "access" /\ edited THEN "access" ELSE "reset"

Verdict ==
  CASE entry.status = "none"    -> "make"
    [] entry.status = "tainted" -> "remove"
    [] entry.status = "kept"    -> IF Differs THEN FirstStep ELSE "none"

Plan ==
  /\ act = "plan"
  /\ act' = Verdict
  /\ change' = IF Verdict = "none" THEN "none" ELSE Planned
  /\ UNCHANGED <<user, wish, edited, accepted, settling, entry, reset, adrift, turns>>

-----------------------------------------------------------------------------
(* Create and Update.                                                      *)

\* What Get finds in the plan, or else the configuration.
Asked ==
  IF change \notin {"none", "unknown"} THEN change
  ELSE IF wish \in WriteOnly THEN wish ELSE "none"

\* Mutant of NewPasswords: the request has no NewPassword.
NewPasswordsMade == Made \ {accepted}

\* The backend makes a password where NewPassword is nil.
NewPasswords == IF Asked # "none" THEN {Asked} ELSE Made \ {accepted}

\* The value of the plan, of which Expand and HasChange see no unknown one.
Known == IF change = "unknown" THEN "none" ELSE change

New == entry.status = "none"

Remove ==
  /\ act = "remove"
  /\ act' = "make"
  /\ accepted' = "none" /\ settling' = FALSE /\ entry' = NoEntry
  /\ UNCHANGED <<user, wish, edited, change, reset, adrift, turns>>

\* CreateUser takes no password; that of ClickHouse does.
Make ==
  /\ act = "make"
  /\ accepted' \in IF user = "clickhouse" THEN NewPasswords ELSE Made
  /\ reset' = (user = "clickhouse")
  /\ act' = IF user = "clickhouse" THEN "read" ELSE "reset"
  /\ UNCHANGED <<user, wish, edited, settling, entry, change, adrift, turns>>

\* SetAccessControl, before the password.
SetAccess ==
  /\ act = "access"
  /\ act' = "reset"
  /\ UNCHANGED <<user, wish, edited, accepted, settling, entry, change, reset, adrift, turns>>

\* A password that is unknown in the plan differs from one in the state.
HasChange ==
  \/ Known # entry.password
  \/ Version # entry.version
  \/ user = "authentication" /\ edited

Skips == (New /\ Asked = "none") \/ ~HasChange

\* ResetPassword, or updateViewPasswordOnly.
ResetPassword ==
  /\ act = "reset"
  /\ act' = "read"
  /\ IF Skips
     THEN UNCHANGED <<accepted, settling, reset, adrift>>
     ELSE /\ accepted' \in NewPasswords
          /\ settling' = (user # "clickhouse")
          /\ reset' = TRUE /\ adrift' = "no"
  /\ UNCHANGED <<user, wish, edited, entry, change, turns>>

Idle == act' = "none" /\ change' = "none" /\ reset' = FALSE

\* Read, again until PasswordIsReady.
PasswordIsReady == Version # 0 \/ Known # "none" \/ Shown # "none"

ReadBack ==
  /\ act = "read"
  /\ PasswordIsReady
  /\ entry' = [status |-> "kept", password |-> PasswordFlatten(Known, Version),
               version |-> Version]
  /\ edited' = FALSE
  /\ Idle
  /\ UNCHANGED <<user, wish, accepted, settling, adrift, turns>>

\* A call fails, with an answer that is lost or before it does anything, or
\* PasswordIsReady is not for the length of the timeout.  A new user gets a
\* tainted entry once it has an ID; before, see ResourceApply.
Fails ==
  /\ act \in {"access", "reset", "read", "remove"} /\ Turn
  /\ act = "reset" => ~New
  /\ \/ /\ UNCHANGED <<accepted, settling>>
        /\ adrift' = IF reset /\ adrift = "no" THEN "pending" ELSE adrift
     \/ /\ act = "reset" /\ ~Skips
        /\ accepted' \in NewPasswords
        /\ settling' = (user # "clickhouse") /\ adrift' = "pending"
  /\ entry' = IF New /\ act = "read"
              THEN [status |-> "tainted", password |-> PasswordFlatten(Known, Version), version |-> Version]
              ELSE entry
  /\ Idle
  /\ UNCHANGED <<user, wish, edited>>

-----------------------------------------------------------------------------
(* The service, the user and others.                                       *)

Settle ==
  /\ settling /\ settling' = FALSE
  /\ UNCHANGED <<user, wish, edited, accepted, entry, act, change, reset, adrift, turns>>

\* A new write-only password comes with a new version.
Configure ==
  /\ act = "none" /\ Turn
  /\ \/ /\ wish' \in (Given \cup WriteOnly \cup {"any"}) \ {wish}
        /\ adrift' = IF adrift = "no" THEN "no" ELSE "lost"
        /\ UNCHANGED edited
     \/ edited' = TRUE /\ entry.status # "none" /\ UNCHANGED <<wish, adrift>>
  /\ UNCHANGED <<user, accepted, settling, entry, act, change, reset>>

Outsider ==
  /\ act \notin {"plan", "make"} /\ accepted # "none" /\ Turn
  /\ accepted' \in Made \ {accepted} /\ adrift' = "lost"
  /\ UNCHANGED <<user, wish, edited, settling, entry, act, change, reset>>

Work == Refresh \/ Plan \/ Remove \/ Make \/ SetAccess \/ ResetPassword \/ ReadBack

Next == Work \/ Settle \/ Fails \/ Configure \/ Outsider

Fairness == WF_userVars(Work) /\ WF_userVars(Settle)

Spec == Init /\ [][Next]_userVars
FairSpec == Spec /\ Fairness

-----------------------------------------------------------------------------
(* What holds of it.                                                       *)

\* The state has the password that the service accepts, or none in write-only
\* mode, and it is that of the configuration.
Right ==
  /\ entry.password = IF Version # 0 THEN "none" ELSE accepted
  /\ wish = "any" \/ accepted = wish

\* When core plans no change, the password is the one that the service accepts,
\* however many steps of a reset have failed, unless it was set without the
\* state's knowing: by others, or by an Update that failed after the reset and
\* that the user has given up.
NoopIsRight == act = "plan" /\ Verdict = "none" => Right \/ adrift = "lost"

\* A password that is not configured is unknown in every plan with a change, so
\* that ResetPassword takes it for changed.
Regenerated == edited /\ Plain = "none" /\ Version = 0

\* The provider makes a service take another password only if the user has
\* changed it, "since running it unnecessarily would reset the password when it
\* was not provided by the user" (clickhouse/user).  It does whenever another
\* attribute, or the timeouts, of a user are edited whose password is generated.
RotatedOnlyIfAsked ==
  [][act = "reset" /\ act' # "reset" /\ accepted' # accepted
       => \/ entry.status = "none"
          \/ Plain \notin {"none", entry.password}
          \/ Version # entry.version
          \/ adrift = "lost" \/ Regenerated]_userVars

Settled == entry.status = "kept" /\ act \in {"none", "plan"} /\ (Right \/ adrift = "lost")

\* Applying again and again ends with a password that the state knows.
Converges == <>[]Settled
===============================================================================
