----------------------------- MODULE OpenSearchACL -----------------------------
(***************************************************************************)
(* The resources aiven_opensearch_acl_rule and aiven_opensearch_acl_config *)
(* of one service: every Create, Update and Delete gets the ACL document,  *)
(* changes it and puts it back, under one mutex of the process.            *)
(***************************************************************************)
EXTENDS Naturals, LockedCalls, ACLDocument

VARIABLES
  got,    \* the document that a call has got and changed
  remote  \* the document of the service

vars == <<callVars, got, remote>>

TypeOK ==
  /\ job \in [Calls -> Jobs]
  /\ pc \in [Calls -> {"ready", "get", "put", "read", "done"}]
  /\ result \in [Calls -> {"none", "ok", "error"}]
  /\ holder \in Calls \cup {NoCall}
  /\ \A c \in Calls : holder = c <=> pc[c] \in {"get", "put"}
  /\ got \in [Calls -> Documents]
  /\ remote \in Documents

\* A target has one rule or none.
Single == {<<>>} \cup {<<p>> : p \in Values}

\* A call that holds no document.
Blank == [rules |-> [t \in Targets |-> <<>>], config |-> Off]

Init ==
  /\ CallsInit
  /\ remote \in [rules : [Targets -> Single], config : Values]
  /\ got = [c \in Calls |-> Blank]

-----------------------------------------------------------------------------
(* resourceOpenSearchACLModifyRemoteConfig.                                *)

\* Mutant of Begin: no mutex.
BeginUnlocked(c) ==
  /\ pc[c] = "ready"
  /\ Goto(c, "get")
  /\ UNCHANGED <<holder, got, remote>>

Begin(c) ==
  /\ pc[c] = "ready"
  /\ Lock(c)
  /\ Goto(c, "get")
  /\ UNCHANGED <<got, remote>>

Get(c) ==
  /\ pc[c] = "get"
  /\ got' = [got EXCEPT ![c] = Modified(job[c], remote)]
  /\ Goto(c, "put")
  /\ UNCHANGED <<holder, remote>>

\* A rule or a configuration that was set is read afterwards; one that was
\* deleted is not.
AfterPut(c) ==
  IF Op(c) \in {"SetRule", "SetConfig"} THEN Goto(c, "read") ELSE Return(c, "ok")

\* The document is replaced, though the answer may be lost.
Put(c) ==
  /\ pc[c] = "put"
  /\ remote' = got[c]
  /\ AfterPut(c) \/ (Faulty /\ Return(c, "error"))
  /\ Unlock(c)
  /\ got' = [got EXCEPT ![c] = Blank]

\* Mutant of CallFails: an error leaves the mutex locked.
CallFailsHeld(c) ==
  /\ Faulty
  /\ pc[c] \in {"get", "put", "read"}
  /\ Return(c, "error")
  /\ UNCHANGED <<holder, got, remote>>

CallFails(c) ==
  /\ Faulty
  /\ pc[c] \in {"get", "put", "read"}
  /\ Return(c, "error")
  /\ Unlock(c)
  /\ got' = [got EXCEPT ![c] = Blank]
  /\ UNCHANGED remote

\* The handler's Read at the end: a rule that is not found is no error.
Read(c) ==
  /\ pc[c] = "read"
  /\ Return(c, "ok")
  /\ UNCHANGED <<holder, got, remote>>

Step(c) == Begin(c) \/ Get(c) \/ Put(c) \/ CallFails(c) \/ Read(c)

Next == \E c \in Calls : Step(c)

\* Goroutines run, API calls answer, the mutex does not starve.
Fairness == \A c \in Calls : WF_vars(Step(c))

Spec == Init /\ [][Next]_vars
FairSpec == Spec /\ Fairness

-----------------------------------------------------------------------------
(* Properties.                                                             *)

Outcome(c) ==
  CASE pc[c] = "done" -> result[c]
    [] pc[c] = "read" -> "applied"
    [] OTHER          -> "pending"

Atomic == INSTANCE ACLUpdates WITH outcome <- [c \in Calls |-> Outcome(c)]

\* "serialize calls to modify the remote config since it's an abstraction that
\* first GETs, modifies and then PUTs again": each call changes the document
\* as it is when it puts it back; no rule and no setting of another is lost.
UpdatesAtomic == Atomic!Spec

\* "delete the old acl if it's there": however many calls change the
\* permission of a target, it never has two.
OneRuleEach == \A t \in Targets : Len(remote.rules[t]) <= 1

\* Every call returns: the mutex is handed on, whatever fails.
CallsReturn == \A c \in Calls : <>(pc[c] = "done")
===============================================================================
