------------------------------- MODULE CallJobs -------------------------------
(***************************************************************************)
(* The handler calls of one terraform run and the jobs they are given.     *)
(***************************************************************************)
CONSTANTS
  Calls,    \* the handler calls of one terraform run
  NoCall,
  Ops,      \* what a call may do,
  Targets,  \* to what,
  Values,   \* with which value
  Scripts,  \* the jobs the calls may be given
  Faulty    \* whether API calls may fail

Jobs == [op : Ops, target : Targets, value : Values]

ASSUME CallsAssumption ==
  /\ NoCall \notin Calls
  /\ Scripts \subseteq [Calls -> Jobs]
  /\ Faulty \in BOOLEAN
===============================================================================
