------------------------------- MODULE ACLUpdates -------------------------------
(***************************************************************************)
(* What a user of the ACL resources is promised: a call changes the        *)
(* document as it is at that moment, at once and at most once, and reports *)
(* success only if it did.                                                 *)
(***************************************************************************)
EXTENDS ACLDocument

VARIABLES
  job,      \* what each call asks for
  outcome,  \* "pending", "applied", or what the call returned
  remote    \* the document

Init ==
  /\ outcome = [c \in Calls |-> "pending"]
  /\ remote \in Documents

Become(c, value) == outcome' = [outcome EXCEPT ![c] = value]

\* The change is made; the caller hears of it at once or later, or gets to hear
\* of a failure all the same.
Apply(c) ==
  /\ outcome[c] = "pending"
  /\ remote' = Modified(job[c], remote)
  /\ Become(c, "applied") \/ Become(c, "ok") \/ Become(c, "error")

\* The change is not made.
Refuse(c) ==
  /\ outcome[c] = "pending"
  /\ Become(c, "error")
  /\ UNCHANGED remote

Answer(c) ==
  /\ outcome[c] = "applied"
  /\ Become(c, "ok") \/ Become(c, "error")
  /\ UNCHANGED remote

Next == (\E c \in Calls : Apply(c) \/ Refuse(c) \/ Answer(c)) /\ UNCHANGED job

vars == <<job, outcome, remote>>

Spec == Init /\ [][Next]_vars
===============================================================================
