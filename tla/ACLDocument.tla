------------------------------ MODULE ACLDocument ------------------------------
(***************************************************************************)
(* The ACL document of an OpenSearch service and what the resources        *)
(* aiven_opensearch_acl_rule and aiven_opensearch_acl_config make of it    *)
(* (internal/sdkprovider/service/opensearch).  A target is a pair of a     *)
(* user name and an index; the permissions of one target are in the order  *)
(* of the document.  A value is a permission, or the settings.             *)
(***************************************************************************)
EXTENDS Naturals, Sequences, CallJobs

CONSTANT Off  \* the settings { enabled = false, extended_acl = false }

Documents == [rules : [Targets -> Seq(Values)], config : Values \cup {Off}]

Has(rules, permission) == \E i \in DOMAIN rules : rules[i] = permission

Index(rules, permission) == CHOOSE i \in DOMAIN rules : rules[i] = permission

\* OpenSearchACLConfig.Delete of the client.  No rule is there twice.
Without(rules, permission) ==
  IF Has(rules, permission)
  THEN LET i == Index(rules, permission) IN
       SubSeq(rules, 1, i - 1) \o SubSeq(rules, i + 1, Len(rules))
  ELSE rules

\* OpenSearchACLConfig.Add of the client: nothing is added twice.
Add(rules, permission) ==
  IF Has(rules, permission) THEN rules ELSE Append(rules, permission)

\* Mutant of Updated: the rule that is looked up is the one just added.
UpdatedLast(rules, permission) ==
  LET added == Add(rules, permission) IN
  IF added[Len(added)] # permission THEN Without(added, added[Len(added)]) ELSE added

\* resourceOpenSearchACLModifierUpdateACLRule: the new rule is added behind
\* the old one; the first rule of the target, if another, is the old one.
Updated(rules, permission) ==
  LET added == Add(rules, permission) IN
  IF Head(added) # permission THEN Without(added, Head(added)) ELSE added

\* What the modifier of a call makes of the document; the last one is that of
\* "DeleteConfig".
Modified(j, doc) ==
  CASE j.op = "SetRule"      -> [doc EXCEPT !.rules[j.target] = Updated(@, j.value)]
    [] j.op = "DeleteRule"   -> [doc EXCEPT !.rules[j.target] = Without(@, j.value)]
    [] j.op = "SetConfig"    -> [doc EXCEPT !.config = j.value]
    [] OTHER               -> [doc EXCEPT !.config = Off]
===============================================================================
