------------------------- MODULE OrganizationPermission -------------------------
(***************************************************************************)
(* The resource aiven_organization_permission (internal/plugin/service/    *)
(* organization/permission): Create checks under a mutex of the process    *)
(* that its target has no permissions, then sets them; Update and Delete   *)
(* set them without the mutex and without looking.  A value stands for the *)
(* permissions of one resource; a resource may have none.                  *)
(***************************************************************************)
EXTENDS Naturals, FiniteSets, LockedCalls

CONSTANT NoPermissions

VARIABLES
  validate,  \* AIVEN_ORGANIZATION_PERMISSION_VALIDATE_CONFLICT
  remote,    \* the permissions of each target
  setters    \* history: the calls whose PermissionsSet took effect

vars == <<callVars, validate, remote, setters>>

Handlers == {"Create", "Update", "Delete"}

TypeOK ==
  /\ job \in [Calls -> Jobs]
  /\ \A c \in Calls : Op(c) \in Handlers
  /\ pc \in [Calls -> {"ready", "check", "set", "read", "done"}]
  /\ result \in [Calls -> {"none", "ok", "error", "conflict"}]
  /\ holder \in Calls \cup {NoCall}
  /\ \A c \in Calls : holder = c <=> Op(c) = "Create" /\ pc[c] \in {"check", "set", "read"}
  /\ validate \in BOOLEAN
  /\ remote \in [Targets -> Values \cup {NoPermissions}]
  /\ setters \subseteq Calls

Init ==
  /\ CallsInit
  /\ \A c \in Calls : Op(c) \in Handlers
  /\ validate \in BOOLEAN
  /\ remote \in [Targets -> Values \cup {NoPermissions}]
  /\ setters = {}

-----------------------------------------------------------------------------
\* What a call sets: Delete sets none.
Permissions(c) == IF Op(c) = "Delete" THEN NoPermissions ELSE Value(c)

\* Mutant of Begin: Create holds no lock either.
BeginUnlocked(c) ==
  /\ pc[c] = "ready"
  /\ Goto(c, IF Op(c) = "Create" THEN "check" ELSE "set")
  /\ UNCHANGED <<holder, validate, remote, setters>>

Begin(c) ==
  /\ pc[c] = "ready"
  /\ IF Op(c) = "Create"
     THEN Lock(c) /\ Goto(c, "check")
     ELSE Goto(c, "set") /\ UNCHANGED holder
  /\ UNCHANGED <<validate, remote, setters>>

\* validateConflict.
ValidateConflict(c) ==
  /\ pc[c] = "check"
  /\ IF remote[Target(c)] # NoPermissions /\ validate
     THEN Return(c, "conflict") /\ Unlock(c)
     ELSE Goto(c, "set") /\ UNCHANGED holder
  /\ UNCHANGED <<validate, remote, setters>>

\* PermissionsSet, of which the answer may be lost.  Delete is done then.
Set(c) ==
  /\ pc[c] = "set"
  /\ remote' = [remote EXCEPT ![Target(c)] = Permissions(c)]
  /\ setters' = setters \cup {c}
  /\ \/ Op(c) = "Delete" /\ Return(c, "ok") /\ Unlock(c)
     \/ Op(c) # "Delete" /\ Goto(c, "read") /\ UNCHANGED holder
     \/ Faulty /\ Return(c, "error") /\ Unlock(c)
  /\ UNCHANGED validate

\* readPermission, before Create's deferred Unlock.
Read(c) ==
  /\ pc[c] = "read"
  /\ Return(c, "ok")
  /\ Unlock(c)
  /\ UNCHANGED <<validate, remote, setters>>

\* Mutant of CallFails: an error leaves the mutex locked.
CallFailsHeld(c) ==
  /\ Faulty
  /\ pc[c] \in {"check", "set", "read"}
  /\ Return(c, "error")
  /\ UNCHANGED <<holder, validate, remote, setters>>

CallFails(c) ==
  /\ Faulty
  /\ pc[c] \in {"check", "set", "read"}
  /\ Return(c, "error")
  /\ Unlock(c)
  /\ UNCHANGED <<validate, remote, setters>>

Step(c) == Begin(c) \/ ValidateConflict(c) \/ Set(c) \/ Read(c) \/ CallFails(c)

Next == \E c \in Calls : Step(c)

\* Goroutines run, API calls answer, the mutex does not starve.
Fairness == \A c \in Calls : WF_vars(Step(c))

Spec == Init /\ [][Next]_vars
FairSpec == Spec /\ Fairness

-----------------------------------------------------------------------------
(* Properties.                                                             *)

Grants(t) ==
  {c \in setters : Op(c) = "Create" /\ Target(c) = t /\ Permissions(c) # NoPermissions}

Clearings(t) == {c \in setters : Target(c) = t /\ Permissions(c) = NoPermissions}

\* "This likely indicates another aiven_organization_permission resource is
\* managing these permissions": with the validation on, of the Creates of one
\* target one gets to set permissions, and one more for every call that has
\* cleared them, whatever answers are lost.
CreatesBounded ==
  validate => \A t \in Targets : Cardinality(Grants(t)) <= Cardinality(Clearings(t)) + 1

\* A step that sets permissions over others: with the validation on, a Create
\* meets only those of an Update, which takes no lock.
SparesOthers ==
  \A c \in setters' \ setters :
    validate /\ Op(c) = "Create" =>
      \/ remote[Target(c)] = NoPermissions
      \/ \E u \in setters : job[u] = [op |-> "Update", target |-> Target(c), value |-> remote[Target(c)]]

\* With the validation on, a Create never replaces permissions that were there
\* before it began or that another Create has set; only those of an Update,
\* which takes no lock, can get in between.
CreateSparesOthers == [][SparesOthers]_vars

\* Every call returns: the mutex is handed on, whatever fails.
CallsReturn == \A c \in Calls : <>(pc[c] = "done")
===============================================================================
