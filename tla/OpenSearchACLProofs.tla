-------------------------- MODULE OpenSearchACLProofs --------------------------
(***************************************************************************)
(* Proofs about OpenSearchACL, for any calls, targets and permissions.     *)
(***************************************************************************)
EXTENDS OpenSearchACL, SequenceTheorems, TLAPS

\* The calls work on one document at a time: what the holder of the mutex is
\* about to put back is its change of the document as it still is.
PutInv == \A c \in Calls : pc[c] = "put" => got[c] = Modified(job[c], remote)

IInv == TypeOK /\ PutInv /\ OneRuleEach

-----------------------------------------------------------------------------
(* The list of rules of one target.                                        *)

\* A rule that is taken out leaves a list that is shorter by one.
LEMMA WithoutProperties ==
  ASSUME NEW rules \in Seq(Values), NEW permission
  PROVE  /\ Without(rules, permission) \in Seq(Values)
         /\ Len(Without(rules, permission)) =
              IF Has(rules, permission) THEN Len(rules) - 1 ELSE Len(rules)
<1>1. CASE Has(rules, permission)
  <2>1. PICK i \in 1..Len(rules) : i = Index(rules, permission)
    BY <1>1, LenProperties DEF Has, Index
  <2>2. Len(rules) \in Nat /\ \A j \in 1..Len(rules) : rules[j] \in Values
    BY LenProperties
  <2> DEFINE front == SubSeq(rules, 1, i - 1)
             back == SubSeq(rules, i + 1, Len(rules))
  <2>3. front \in Seq(Values) /\ Len(front) = i - 1
    BY <2>2, SubSeqProperties
  <2>4. /\ back \in Seq(Values)
        /\ Len(back) = IF i + 1 <= Len(rules) THEN Len(rules) - (i + 1) + 1 ELSE 0
    BY <2>2, SubSeqProperties
  <2>5. Without(rules, permission) = front \o back
    BY <1>1, <2>1 DEF Without
  <2> HIDE DEF front, back
  <2>6. front \o back \in Seq(Values) /\ Len(front \o back) = Len(front) + Len(back)
    BY <2>3, <2>4, ConcatProperties
  <2>7. Len(front) + Len(back) = Len(rules) - 1
    BY <2>2, <2>3, <2>4
  <2> QED
    BY <1>1, <2>5, <2>6, <2>7
<1>2. CASE ~ Has(rules, permission)
  BY <1>2 DEF Without
<1> QED
  BY <1>1, <1>2

LEMMA AddProperties ==
  ASSUME NEW rules \in Seq(Values), NEW permission \in Values
  PROVE  /\ Add(rules, permission) \in Seq(Values) \ {<<>>}
         /\ Len(Add(rules, permission)) =
              IF Has(rules, permission) THEN Len(rules) ELSE Len(rules) + 1
         /\ Has(Add(rules, permission), Head(Add(rules, permission)))
<1>1. Len(rules) \in Nat /\ DOMAIN rules = 1..Len(rules)
  BY LenProperties
<1>2. Add(rules, permission) \in Seq(Values)
  BY DEF Add
<1>3. Len(Add(rules, permission)) = IF Has(rules, permission) THEN Len(rules) ELSE Len(rules) + 1
  BY DEF Add
<1>4. Len(Add(rules, permission)) \in Nat \ {0}
  BY <1>1, <1>3 DEF Has
<1> QED
  BY <1>2, <1>3, <1>4 DEF Has

\* A change of the permission of a target leaves it one rule, if it had one
\* or none.
LEMMA UpdatedProperties ==
  ASSUME NEW rules \in Seq(Values), NEW permission \in Values
  PROVE  /\ Updated(rules, permission) \in Seq(Values)
         /\ Len(rules) <= 1 => Len(Updated(rules, permission)) = 1
<1> DEFINE added == Add(rules, permission)
<1>1. /\ added \in Seq(Values) /\ added # <<>>
      /\ Len(added) = IF Has(rules, permission) THEN Len(rules) ELSE Len(rules) + 1
      /\ Has(added, Head(added))
  BY AddProperties
<1>2. Len(rules) \in Nat /\ DOMAIN rules = 1..Len(rules)
  BY LenProperties
<1>3. /\ Without(added, Head(added)) \in Seq(Values)
      /\ Len(Without(added, Head(added))) = Len(added) - 1
  BY <1>1, WithoutProperties
<1>4. Has(rules, permission) => Len(rules) # 0
  BY <1>2 DEF Has
<1>5. Len(rules) <= 1 /\ Has(rules, permission) => Head(added) = permission
  BY <1>2 DEF Has, Add
<1>6. Len(rules) <= 1 /\ ~ Has(rules, permission) =>
        (Head(added) # permission <=> Len(rules) = 1)
  BY <1>2 DEF Has, Add
<1> HIDE DEF added
<1>7. Updated(rules, permission) =
        IF Head(added) # permission THEN Without(added, Head(added)) ELSE added
  BY DEF Updated, added
<1>8. Updated(rules, permission) \in Seq(Values)
  BY <1>1, <1>3, <1>7
<1>9. ASSUME Len(rules) <= 1 PROVE Len(Updated(rules, permission)) = 1
  <2>1. Len(rules) \in {0, 1}
    BY <1>2, <1>9
  <2>2. CASE Has(rules, permission)
    <3>1. Len(added) = 1 /\ Head(added) = permission
      BY <1>1, <1>4, <1>5, <1>9, <2>1, <2>2
    <3> QED
      BY <1>7, <3>1
  <2>3. CASE ~ Has(rules, permission)
    <3>1. CASE Len(rules) = 0
      BY <1>1, <1>6, <1>7, <1>9, <2>3, <3>1
    <3>2. CASE Len(rules) = 1
      BY <1>1, <1>3, <1>6, <1>7, <1>9, <2>3, <3>2
    <3> QED
      BY <2>1, <3>1, <3>2
  <2> QED
    BY <2>2, <2>3
<1> QED
  BY <1>8, <1>9

-----------------------------------------------------------------------------
(* Documents.                                                              *)

\* A change makes a document of a document, and no second rule.
LEMMA ModifiedProperties ==
  ASSUME NEW j \in Jobs, NEW doc \in Documents
  PROVE  /\ Modified(j, doc) \in Documents
         /\ (\A t \in Targets : Len(doc.rules[t]) <= 1)
              => \A t \in Targets : Len(Modified(j, doc).rules[t]) <= 1
<1>1. /\ j.target \in Targets /\ j.value \in Values
      /\ doc.rules \in [Targets -> Seq(Values)] /\ doc.config \in Values \cup {Off}
  BY DEF Jobs, Documents
<1>2. ASSUME NEW rules \in Seq(Values),
             Modified(j, doc) = [doc EXCEPT !.rules[j.target] = rules],
             Len(doc.rules[j.target]) <= 1 => Len(rules) <= 1
      PROVE  /\ Modified(j, doc) \in Documents
             /\ (\A t \in Targets : Len(doc.rules[t]) <= 1)
                  => \A t \in Targets : Len(Modified(j, doc).rules[t]) <= 1
  BY <1>1, <1>2 DEF Documents
<1>3. CASE j.op = "SetRule"
  <2> DEFINE rules == Updated(doc.rules[j.target], j.value)
  <2>1. /\ rules \in Seq(Values)
        /\ Len(doc.rules[j.target]) <= 1 => Len(rules) = 1
    <3>1. doc.rules[j.target] \in Seq(Values)
      BY <1>1
    <3> QED
      BY <1>1, <3>1, UpdatedProperties
  <2>2. Modified(j, doc) = [doc EXCEPT !.rules[j.target] = rules]
    BY <1>1, <1>3 DEF Modified
  <2> HIDE DEF rules
  <2>3. ASSUME Len(doc.rules[j.target]) <= 1 PROVE Len(rules) <= 1
    <3>1. Len(rules) = 1
      BY <2>1, <2>3
    <3> QED
      BY <3>1
  <2> QED
    BY <1>2, <2>1, <2>2, <2>3
<1>4. CASE j.op = "DeleteRule"
  <2> DEFINE rules == Without(doc.rules[j.target], j.value)
  <2>1. rules \in Seq(Values) /\ (Len(doc.rules[j.target]) <= 1 => Len(rules) <= 1)
    BY <1>1, WithoutProperties, LenProperties
  <2>2. Modified(j, doc) = [doc EXCEPT !.rules[j.target] = rules]
    BY <1>1, <1>4 DEF Modified
  <2> HIDE DEF rules
  <2> QED
    BY <1>2, <2>1, <2>2
<1>5. CASE j.op \notin {"SetRule", "DeleteRule"}
  BY <1>1, <1>5 DEF Modified, Documents
<1> QED
  BY <1>3, <1>4, <1>5

LEMMA BlankIsDocument == Blank \in Documents
  BY EmptySeq DEF Blank, Documents

-----------------------------------------------------------------------------
(* The invariant.                                                          *)

LEMMA InitialInv == Init => IInv
<1> SUFFICES ASSUME Init PROVE IInv
  OBVIOUS
<1>1. job \in [Calls -> Jobs]
  BY CallsAssumption DEF Init, CallsInit
<1>2. ASSUME NEW s \in Single PROVE s \in Seq(Values) /\ Len(s) <= 1
  <2>1. CASE s = <<>>
    BY <2>1, EmptySeq
  <2>2. ASSUME NEW p \in Values, s = <<p>> PROVE s \in Seq(Values) /\ Len(s) <= 1
    BY <2>2
  <2> QED
    BY <2>1, <2>2 DEF Single
<1>3. remote \in Documents /\ OneRuleEach
  BY <1>2 DEF Init, OneRuleEach, Documents
<1> QED
  BY <1>1, <1>3, BlankIsDocument, CallsAssumption
     DEF Init, CallsInit, IInv, TypeOK, PutInv

\* The mutex is with the call that has got the document, or about to get it.
LEMMA TypeStep == TypeOK /\ [Next]_vars => TypeOK'
<1> SUFFICES ASSUME TypeOK, [Next]_vars PROVE TypeOK'
  OBVIOUS
<1> USE DEF TypeOK, callVars
<1>1. ASSUME NEW c \in Calls, Begin(c) PROVE TypeOK'
  BY <1>1, CallsAssumption DEF Begin, Lock, Goto
<1>2. ASSUME NEW c \in Calls, Get(c) PROVE TypeOK'
  BY <1>2, ModifiedProperties DEF Get, Goto
<1>3. ASSUME NEW c \in Calls, Put(c) PROVE TypeOK'
  BY <1>3, BlankIsDocument, CallsAssumption DEF Put, AfterPut, Unlock, Goto, Return
<1>4. ASSUME NEW c \in Calls, CallFails(c) PROVE TypeOK'
  BY <1>4, BlankIsDocument, CallsAssumption DEF CallFails, Unlock, Return
<1>5. ASSUME NEW c \in Calls, Read(c) PROVE TypeOK'
  BY <1>5 DEF Read, Return
<1>6. CASE UNCHANGED vars
  BY <1>6 DEF vars
<1> QED
  BY <1>1, <1>2, <1>3, <1>4, <1>5, <1>6 DEF Next, Step

\* Nobody but the holder of the mutex changes the document.
LEMMA PutStep == TypeOK /\ PutInv /\ [Next]_vars => PutInv'
<1> SUFFICES ASSUME TypeOK, PutInv, [Next]_vars PROVE PutInv'
  OBVIOUS
<1> USE DEF TypeOK, PutInv, callVars
<1>1. ASSUME NEW c \in Calls, Begin(c) \/ Read(c) PROVE PutInv'
  BY <1>1 DEF Begin, Read, Lock, Goto, Return
<1>2. ASSUME NEW c \in Calls, Get(c) PROVE PutInv'
  BY <1>2 DEF Get, Goto
<1>3. ASSUME NEW c \in Calls, Put(c) PROVE PutInv'
  <2>1. \A d \in Calls : pc'[d] # "put"
    BY <1>3 DEF Put, AfterPut, Goto, Return
  <2> QED
    BY <2>1
<1>4. ASSUME NEW c \in Calls, CallFails(c) PROVE PutInv'
  BY <1>4 DEF CallFails, Return
<1>5. CASE UNCHANGED vars
  BY <1>5 DEF vars
<1> QED
  BY <1>1, <1>2, <1>3, <1>4, <1>5 DEF Next, Step

LEMMA OneRuleStep == TypeOK /\ PutInv /\ OneRuleEach /\ [Next]_vars => OneRuleEach'
<1> SUFFICES ASSUME TypeOK, PutInv, OneRuleEach, [Next]_vars PROVE OneRuleEach'
  OBVIOUS
<1>1. ASSUME NEW c \in Calls, Put(c) PROVE OneRuleEach'
  <2>1. remote' = Modified(job[c], remote) /\ job[c] \in Jobs /\ remote \in Documents
    BY <1>1 DEF Put, PutInv, TypeOK
  <2> QED
    BY <2>1, ModifiedProperties DEF OneRuleEach
<1>2. CASE UNCHANGED remote
  BY <1>2 DEF OneRuleEach
<1> QED
  BY <1>1, <1>2 DEF Next, Step, Begin, Get, CallFails, Read, vars

LEMMA Inductive == Spec => []IInv
<1>1. IInv /\ [Next]_vars => IInv'
  BY TypeStep, PutStep, OneRuleStep DEF IInv
<1> QED
  BY <1>1, InitialInv, PTL DEF Spec

-----------------------------------------------------------------------------
(* Theorems.                                                               *)

\* Every variable keeps its type, and the mutex is held from Get to Put:
\* resourceOpenSearchACLModifierMutex serialises the read-modify-writes.
THEOREM TypeCorrect == Spec => []TypeOK
  BY Inductive, PTL DEF IInv

\* However many calls change the permission of a target, in whatever order and
\* whatever fails, it never has two rules.
THEOREM TargetsHaveOneRule == Spec => []OneRuleEach
  BY Inductive, PTL DEF IInv

\* The calls implement ACLUpdates: each changes the document as it is when it
\* puts it back, so no rule and no setting of another call is lost.
THEOREM UpdatesAreAtomic == Spec => UpdatesAtomic
<1> DEFINE outcome == [c \in Calls |-> Outcome(c)]
<1>0. \A j, doc : Atomic!Modified(j, doc) = Modified(j, doc)
  BY DEF Modified, Updated, Add, Without, Has, Index,
         Atomic!Modified, Atomic!Updated, Atomic!Add, Atomic!Without, Atomic!Has, Atomic!Index
<1>1. Init => Atomic!Init
  <2> SUFFICES ASSUME Init PROVE Atomic!Init
    OBVIOUS
  <2>1. \A c \in Calls : Outcome(c) = "pending"
    BY DEF Init, CallsInit, Outcome
  <2>2. remote \in Documents
    BY InitialInv DEF IInv, TypeOK
  <2> QED
    BY <2>1, <2>2 DEF Atomic!Init, Atomic!Documents, Documents
<1>2. IInv /\ [Next]_vars => [Atomic!Next]_(Atomic!vars)
  <2> SUFFICES ASSUME TypeOK, PutInv, [Next]_vars
               PROVE  Atomic!Next \/ UNCHANGED Atomic!vars
    BY DEF IInv
  <2>1. ASSUME NEW c \in Calls, Begin(c) \/ Get(c) PROVE UNCHANGED Atomic!vars
    BY <2>1 DEF Begin, Get, Goto, Atomic!vars, Outcome, TypeOK
  <2>2. ASSUME NEW c \in Calls, Put(c) PROVE Atomic!Next
    <3>1. remote' = Modified(job[c], remote) /\ job' = job /\ Outcome(c) = "pending"
      BY <2>2 DEF Put, AfterPut, PutInv, Goto, Return, Outcome
    <3>2. \A d \in Calls \ {c} : Outcome(d)' = Outcome(d)
      BY <2>2 DEF Put, AfterPut, Goto, Return, Outcome, TypeOK
    <3>3. Outcome(c)' \in {"applied", "ok", "error"}
      BY <2>2 DEF Put, AfterPut, Goto, Return, Outcome, TypeOK
    <3> HIDE DEF outcome
    <3>4. outcome' = [outcome EXCEPT ![c] = Outcome(c)']
      BY <3>2 DEF outcome
    <3>5. outcome[c] = "pending"
      BY <3>1 DEF outcome
    <3> QED
      BY <1>0, <3>1, <3>3, <3>4, <3>5 DEF Atomic!Next, Atomic!Apply, Atomic!Become, outcome
  <2>3. ASSUME NEW c \in Calls, CallFails(c) PROVE Atomic!Next
    <3>1. Outcome(c) \in {"pending", "applied"} /\ UNCHANGED <<job, remote>>
      BY <2>3 DEF CallFails, Return, Outcome
    <3>2. outcome' = [outcome EXCEPT ![c] = "error"]
      BY <2>3 DEF CallFails, Return, Outcome, TypeOK
    <3> QED
      BY <3>1, <3>2 DEF Atomic!Next, Atomic!Refuse, Atomic!Answer, Atomic!Become
  <2>4. ASSUME NEW c \in Calls, Read(c) PROVE Atomic!Next
    <3>1. Outcome(c) = "applied" /\ UNCHANGED <<job, remote>>
      BY <2>4 DEF Read, Return, Outcome
    <3>2. outcome' = [outcome EXCEPT ![c] = "ok"]
      BY <2>4 DEF Read, Return, Outcome, TypeOK
    <3> QED
      BY <3>1, <3>2 DEF Atomic!Next, Atomic!Answer, Atomic!Become
  <2>5. CASE UNCHANGED vars
    BY <2>5 DEF vars, callVars, Atomic!vars, Outcome
  <2> QED
    BY <2>1, <2>2, <2>3, <2>4, <2>5 DEF Next, Step
<1> QED
  BY <1>1, <1>2, Inductive, PTL DEF Spec, UpdatesAtomic, Atomic!Spec
==============================================================================
