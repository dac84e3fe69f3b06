------------------------------ MODULE TopicReads ------------------------------
(***************************************************************************)
(* What the topic repository promises its readers, without queue, batches  *)
(* or worker: a Read either is turned away, or is answered once, and a     *)
(* positive answer was looked up while the topic existed, between the      *)
(* call's request and its return.                                          *)
(***************************************************************************)
CONSTANTS Calls, Topics

VARIABLES
  wants,   \* the topic each call reads
  exists,  \* the topics that exist
  phase,   \* "idle", "asked", "answered", "returned"
  answer   \* "none", or what the call has been answered

vars == <<wants, exists, phase, answer>>

Init ==
  /\ wants \in [Calls -> Topics]
  /\ exists \subseteq Topics
  /\ phase = [c \in Calls |-> "idle"]
  /\ answer = [c \in Calls |-> "none"]

Ask(c) ==
  /\ phase[c] = "idle"
  /\ phase' = [phase EXCEPT ![c] = "asked"]
  /\ UNCHANGED <<wants, exists, answer>>

\* One V2List answers a set of requests at once, or fails them at once.
Answer(calls) ==
  /\ \A c \in calls : phase[c] = "asked"
  /\ phase' = [c \in Calls |-> IF c \in calls THEN "answered" ELSE phase[c]]
  /\ \/ /\ \A c \in calls : wants[c] \in exists
        /\ answer' = [c \in Calls |-> IF c \in calls THEN "ok" ELSE answer[c]]
     \/ answer' = [c \in Calls |-> IF c \in calls THEN "error" ELSE answer[c]]
  /\ UNCHANGED <<wants, exists>>

\* The call returns its answer; or, at any time, without one.
Return(c) ==
  /\ phase[c] # "returned"
  /\ phase' = [phase EXCEPT ![c] = "returned"]
  /\ \/ phase[c] = "answered" /\ UNCHANGED answer
     \/ answer' = [answer EXCEPT ![c] = "none"]
  /\ UNCHANGED <<wants, exists>>

Change ==
  /\ exists' \in SUBSET Topics
  /\ UNCHANGED <<wants, phase, answer>>

Next ==
  \/ \E c \in Calls : Ask(c) \/ Return(c)
  \/ \E calls \in SUBSET Calls : Answer(calls)
  \/ Change

Spec == Init /\ [][Next]_vars
===============================================================================
