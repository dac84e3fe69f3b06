-------------------------- MODULE MCDatabaseConflict --------------------------
(***************************************************************************)
(* Instances of DatabaseConflict for TLC.                                  *)
(***************************************************************************)
EXTENDS DatabaseConflict

CONSTANTS c1, c2, c3

Job(o, d) == [op |-> o, database |-> d]

\* One job for each of c1, c2 and c3.
Script(j1, j2, j3) == [c \in Calls |-> IF c = c1 THEN j1 ELSE IF c = c2 THEN j2 ELSE j3]

\* Three operations of any kind on one name.  The calls are interchangeable,
\* so the order of the operations does not matter.
Ordered == <<"Create", "Read", "Delete">>
AnyOps ==
  {Script(Job(Ordered[i], 2), Job(Ordered[j], 2), Job(Ordered[k], 2)) :
     <<i, j, k>> \in {n \in (1..3) \X (1..3) \X (1..3) : n[1] <= n[2] /\ n[2] <= n[3]}}

\* A listing of several pages, before and after a name that is deleted and
\* created meanwhile.
Paging ==
  {Script(Job(o, d), Job("Delete", 3 - d), Job("Create", 3 - d)) :
     <<o, d>> \in {"Create", "Read"} \X {1, 2}}

AnyCalls == AnyOps \cup Paging

\* A database is replaced while two others of its name are created.
Replaced == {Script(Job("Delete", 1), Job("Create", 1), Job("Create", 1))}

\* One database is deleted while another is created, then its name is reused.
Reused == {Script(Job("Delete", 1), Job("Create", 2), Job("Create", 1))}
===============================================================================
