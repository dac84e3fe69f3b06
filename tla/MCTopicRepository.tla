-------------------------- MODULE MCTopicRepository --------------------------
(***************************************************************************)
(* Instances of TopicRepository for TLC.                                   *)
(***************************************************************************)
EXTENDS TopicRepository

CONSTANTS c1, c2, c3, t1, t2, t3, s1, s2

Job(o, t) == [op |-> o, topic |-> t]

TwoServices == [t \in Topics |-> IF t = t3 THEN s2 ELSE s1]

\* One job for each of c1, c2 and c3.
Script(j1, j2, j3) == [c \in Calls |-> IF c = c1 THEN j1 ELSE IF c = c2 THEN j2 ELSE j3]

\* Three operations of any kind on one name.  The calls are interchangeable,
\* so the order of the operations does not matter; Update shares nothing with
\* the others, so once is enough.
Ordered == <<"Create", "Read", "Delete", "Exists">>
AnyOps ==
  {Script(Job(Ordered[i], t3), Job(Ordered[j], t3), Job(Ordered[k], t3)) :
     <<i, j, k>> \in {n \in (1..4) \X (1..4) \X (1..4) : n[1] <= n[2] /\ n[2] <= n[3]}}
  \cup {Script(Job("Create", t3), Job("Update", t3), Job("Delete", t3))}

\* A data source and resources reading distinct topics of two services.
DistinctReads == {Script(Job("Read", t1), Job("Read", t2), Job("Read", t3))}

AnyCalls == AnyOps \cup DistinctReads

\* A resource and a data source read the same topic.
SameReads == {Script(Job("Read", t1), Job("Read", t1), Job("Read", t1))}
==============================================================================
