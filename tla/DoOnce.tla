-------------------------------- MODULE DoOnce --------------------------------
(***************************************************************************)
(* schemautil.DoOnce for one key (internal/schemautil/wait.go): the first  *)
(* caller runs fn while it holds the key's mutex, its result is kept, an   *)
(* error too, and every later caller gets what was kept.  Modules that use *)
(* it say what fn does between Enter and Leave.                            *)
(***************************************************************************)
CONSTANTS Callers, NoCaller, Results, NoResult

VARIABLES
  mutex,  \* the caller that runs fn
  kept    \* the result of the key

TypeOK ==
  /\ mutex \in Callers \cup {NoCaller}
  /\ kept \in Results \cup {NoResult}

Init == mutex = NoCaller /\ kept = NoResult

\* Do finds the result; it holds the mutex only to load it.
Hit(result) ==
  /\ mutex = NoCaller
  /\ kept # NoResult
  /\ result = kept
  /\ UNCHANGED <<mutex, kept>>

\* Do takes the mutex and starts fn.
Enter(c) ==
  /\ mutex = NoCaller
  /\ kept = NoResult
  /\ mutex' = c
  /\ UNCHANGED kept

\* fn has returned: its result is stored, the mutex released.
Leave(c, result) ==
  /\ mutex = c
  /\ kept' = result
  /\ mutex' = NoCaller
===============================================================================
