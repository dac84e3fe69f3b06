------------------------------ MODULE LockedCalls ------------------------------
(***************************************************************************)
(* Concurrent calls of a resource's handlers in one provider process, and  *)
(* the package-level sync.Mutex that some of them hold over API calls.     *)
(* The modules that extend this one say what the calls do.                 *)
(***************************************************************************)
EXTENDS CallJobs

VARIABLES
  job,     \* what each call does
  pc,      \* the API call or the lock it is about to make or take
  result,  \* what it returned
  holder   \* the call that holds the mutex

callVars == <<job, pc, result, holder>>

Op(c) == job[c].op
Target(c) == job[c].target
Value(c) == job[c].value

CallsInit ==
  /\ job \in Scripts
  /\ pc = [c \in Calls |-> "ready"]
  /\ result = [c \in Calls |-> "none"]
  /\ holder = NoCall

Goto(c, place) ==
  /\ pc' = [pc EXCEPT ![c] = place]
  /\ UNCHANGED <<job, result>>

Return(c, value) ==
  /\ pc' = [pc EXCEPT ![c] = "done"]
  /\ result' = [result EXCEPT ![c] = value]
  /\ UNCHANGED job

Lock(c) == holder = NoCall /\ holder' = c

\* Also as the deferred Unlock of a call that does not hold the mutex.
Unlock(c) == holder' = IF holder = c THEN NoCall ELSE holder
===============================================================================
