---------------------------- MODULE SharedDocuments ----------------------------
(***************************************************************************)
(* The two resources whose calls read and write a document that others     *)
(* share: the ACL document of an OpenSearch service and the permissions of *)
(* an organization.  They are handlers of one process and meet nowhere:    *)
(* each behaviour runs the calls of one of them.                           *)
(***************************************************************************)
EXTENDS LockedCalls, Naturals

CONSTANTS
  Off,            \* of OpenSearchACL
  NoPermissions   \* of OrganizationPermission

VARIABLES component, got, remote, validate, setters

vars == <<component, callVars, got, remote, validate, setters>>

Rules == Values \ {NoPermissions}

ACLScripts ==
  {s \in Scripts : \A c \in Calls : /\ s[c].op \in {"SetRule", "DeleteRule", "SetConfig", "DeleteConfig"}
                                    /\ s[c].value \in Rules}

PermissionScripts ==
  {s \in Scripts : \A c \in Calls : s[c].op \in {"Create", "Update", "Delete"}}

ACL == INSTANCE OpenSearchACL WITH Scripts <- ACLScripts, Values <- Rules
Permission == INSTANCE OrganizationPermission WITH Scripts <- PermissionScripts

IsACL == component = "acl"
IsPermission == component = "permission"

permissionVars == <<validate, setters>>

Init ==
  \/ component = "acl" /\ ACL!Init /\ validate = TRUE /\ setters = {}
  \/ component = "permission" /\ Permission!Init /\ got = <<>>

Next ==
  /\ UNCHANGED component
  /\ \/ IsACL /\ ACL!Next /\ UNCHANGED permissionVars
     \/ IsPermission /\ Permission!Next /\ UNCHANGED got

Spec == Init /\ [][Next]_vars

\* Goroutines run, API calls answer, the mutexes do not starve.
Fairness == \A c \in Calls : WF_vars(Next /\ pc'[c] # pc[c])

FairSpec == Spec /\ Fairness

-----------------------------------------------------------------------------
(* The properties of the two components.                                   *)

TypeOK ==
  \/ IsACL /\ ACL!TypeOK
  \/ IsPermission /\ Permission!TypeOK

\* While the other component runs, no ACL call does anything.
Atomic == INSTANCE ACLUpdates
  WITH Scripts <- ACLScripts, Values <- Rules,
       outcome <- [c \in Calls |-> IF IsACL THEN ACL!Outcome(c) ELSE "pending"],
       remote <- IF IsACL THEN remote ELSE ACL!Blank

\* "serialize calls to modify the remote config since it's an abstraction that
\* first GETs, modifies and then PUTs again": each call changes the ACL
\* document as it is when it puts it back; no rule or setting of another call
\* is lost.
UpdatesAtomic == Atomic!Spec

\* "delete the old acl if it's there": however many calls change the
\* permission of a target, it never has two rules.
OneRuleEach == IsACL => ACL!OneRuleEach

\* With the validation on, of the Creates of one target one gets to set
\* permissions, and one more for every call that has cleared them.
CreatesBounded == IsPermission => Permission!CreatesBounded

\* With the validation on, a Create never replaces permissions that were there
\* before it began or that another Create has set.
CreateSparesOthers ==
  [][IsPermission => Permission!SparesOthers]_vars

\* Every call returns: the two mutexes are handed on, whatever fails.
CallsReturn == \A c \in Calls : <>(pc[c] = "done")
===============================================================================
