--------------------------- MODULE MCSharedDocuments ---------------------------
(***************************************************************************)
(* Instances of SharedDocuments for TLC.                                   *)
(***************************************************************************)
EXTENDS SharedDocuments

CONSTANTS c1, c2, c3

AllOps == <<"SetRule", "DeleteRule", "SetConfig", "DeleteConfig", "Create", "Update", "Delete">>

RankedJobs == [rank : DOMAIN AllOps, target : Targets, value : Values]

\* The jobs worth telling apart: some operations take no value or no target.
\* The second target is there for one call, as a bystander.
Distinct(j) ==
  /\ AllOps[j.rank] \in {"DeleteConfig", "Delete"} => j.value = Off
  /\ j.value = NoPermissions => AllOps[j.rank] \in {"Create", "Update"}
  /\ AllOps[j.rank] \in {"SetConfig", "DeleteConfig"} => j.target = 1
  /\ j.target = 2 => AllOps[j.rank] \in {"SetRule", "Create"} /\ j.value = Off

Weight(j) == j.target * 100 + j.rank * 10 + j.value

\* Three calls of these operations.  The calls are interchangeable, so the
\* order of their jobs does not matter.
ScriptsOf(ranks) ==
  LET jobs == {j \in RankedJobs : j.rank \in ranks /\ Distinct(j)}
      Job(j) == [op |-> AllOps[j.rank], target |-> j.target, value |-> j.value]
  IN {[c \in Calls |-> Job(IF c = c1 THEN t[1] ELSE IF c = c2 THEN t[2] ELSE t[3])] :
        t \in {u \in jobs \X jobs \X jobs :
                 Weight(u[1]) <= Weight(u[2]) /\ Weight(u[2]) <= Weight(u[3]) /\ u[2].target = 1}}

AllScripts == ScriptsOf(1..4) \cup ScriptsOf(5..7)
OpNames == {AllOps[i] : i \in DOMAIN AllOps}
===============================================================================
