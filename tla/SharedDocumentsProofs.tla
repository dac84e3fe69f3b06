------------------------- MODULE SharedDocumentsProofs -------------------------
(***************************************************************************)
(* What is proved of OpenSearchACL and of OrganizationPermission holds of  *)
(* the two in one process.                                                 *)
(***************************************************************************)
EXTENDS SharedDocuments, TLAPS

ACLProofs == INSTANCE OpenSearchACLProofs WITH Scripts <- ACLScripts, Values <- Rules
PermissionProofs == INSTANCE OrganizationPermissionProofs WITH Scripts <- PermissionScripts

\* Their assumptions follow from those about both.
LEMMA Assumptions ==
  /\ NoCall \notin Calls
  /\ ACLScripts \subseteq [Calls -> [op : Ops, target : Targets, value : Rules]]
  /\ PermissionScripts \subseteq [Calls -> [op : Ops, target : Targets, value : Values]]
  /\ Faulty \in BOOLEAN
<1>1. \A s \in ACLScripts : s \in [Calls -> [op : Ops, target : Targets, value : Rules]]
  BY CallsAssumption DEF ACLScripts, Jobs, Rules
<1> QED
  BY <1>1, CallsAssumption DEF PermissionScripts, Jobs

LEMMA ACLInit == ACL!Init <=> ACLProofs!Init
  BY DEF ACL!Init, ACL!CallsInit, ACL!Single, ACL!Blank,
         ACLProofs!Init, ACLProofs!CallsInit, ACLProofs!Single, ACLProofs!Blank

LEMMA ACLModified == \A j, doc : ACL!Modified(j, doc) = ACLProofs!Modified(j, doc)
  BY DEF ACL!Modified, ACL!Updated, ACL!Add, ACL!Without, ACL!Has, ACL!Index,
         ACLProofs!Modified, ACLProofs!Updated, ACLProofs!Add, ACLProofs!Without, ACLProofs!Has,
         ACLProofs!Index

LEMMA ACLNext == ACL!Next <=> ACLProofs!Next
<1>1. ASSUME NEW c
      PROVE  /\ \A place : ACL!Goto(c, place) <=> ACLProofs!Goto(c, place)
             /\ \A value : ACL!Return(c, value) <=> ACLProofs!Return(c, value)
             /\ ACL!Lock(c) <=> ACLProofs!Lock(c)
             /\ ACL!Unlock(c) <=> ACLProofs!Unlock(c)
  BY DEF ACL!Goto, ACL!Return, ACL!Lock, ACL!Unlock,
         ACLProofs!Goto, ACLProofs!Return, ACLProofs!Lock, ACLProofs!Unlock
<1>2. ASSUME NEW c PROVE ACL!Begin(c) <=> ACLProofs!Begin(c)
  BY <1>1 DEF ACL!Begin, ACLProofs!Begin
<1>3. ASSUME NEW c PROVE ACL!Get(c) <=> ACLProofs!Get(c)
  BY <1>1, ACLModified DEF ACL!Get, ACLProofs!Get
<1>4. ASSUME NEW c PROVE ACL!Put(c) <=> ACLProofs!Put(c)
  BY <1>1 DEF ACL!Put, ACL!AfterPut, ACL!Blank, ACL!Op,
              ACLProofs!Put, ACLProofs!AfterPut, ACLProofs!Blank, ACLProofs!Op
<1>5. ASSUME NEW c PROVE ACL!CallFails(c) <=> ACLProofs!CallFails(c)
  BY <1>1 DEF ACL!CallFails, ACL!Blank, ACLProofs!CallFails, ACLProofs!Blank
<1>6. ASSUME NEW c PROVE ACL!Read(c) <=> ACLProofs!Read(c)
  BY <1>1 DEF ACL!Read, ACLProofs!Read
<1> QED
  BY <1>2, <1>3, <1>4, <1>5, <1>6 DEF ACL!Next, ACL!Step, ACLProofs!Next, ACLProofs!Step

LEMMA ACLBehaves == Spec /\ IsACL => ACLProofs!Spec /\ []IsACL
<1>1. Init /\ IsACL => ACLProofs!Init
  BY ACLInit DEF Init, IsACL
<1>2. IsACL /\ [Next]_vars => [ACLProofs!Next]_(ACLProofs!vars) /\ IsACL'
  BY ACLNext DEF Next, IsACL, IsPermission, vars, callVars, ACLProofs!vars, ACLProofs!callVars
<1> QED
  BY <1>1, <1>2, PTL DEF Spec, ACLProofs!Spec

LEMMA ACLInvariant == Spec /\ IsACL => [](IsACL /\ ACLProofs!IInv)
<1>1. ACLProofs!Spec => []ACLProofs!IInv
  BY Assumptions, ACLProofs!Inductive DEF ACLProofs!Jobs
<1> QED
  BY <1>1, ACLBehaves, PTL

-----------------------------------------------------------------------------
(* The other component.                                                    *)

LEMMA PermissionInit == Permission!Init <=> PermissionProofs!Init
  BY DEF Permission!Init, Permission!CallsInit, Permission!Handlers, Permission!Op,
         PermissionProofs!Init, PermissionProofs!CallsInit, PermissionProofs!Handlers,
         PermissionProofs!Op

LEMMA PermissionNext == Permission!Next <=> PermissionProofs!Next
<1>1. ASSUME NEW c
      PROVE  /\ \A place : Permission!Goto(c, place) <=> PermissionProofs!Goto(c, place)
             /\ \A value : Permission!Return(c, value) <=> PermissionProofs!Return(c, value)
             /\ Permission!Lock(c) <=> PermissionProofs!Lock(c)
             /\ Permission!Unlock(c) <=> PermissionProofs!Unlock(c)
  BY DEF Permission!Goto, Permission!Return, Permission!Lock, Permission!Unlock,
         PermissionProofs!Goto, PermissionProofs!Return, PermissionProofs!Lock,
         PermissionProofs!Unlock
<1>2. ASSUME NEW c
      PROVE  /\ Permission!Op(c) = PermissionProofs!Op(c)
             /\ Permission!Target(c) = PermissionProofs!Target(c)
             /\ Permission!Value(c) = PermissionProofs!Value(c)
  BY DEF Permission!Op, Permission!Target, Permission!Value,
         PermissionProofs!Op, PermissionProofs!Target, PermissionProofs!Value
<1>3. ASSUME NEW c PROVE Permission!Begin(c) <=> PermissionProofs!Begin(c)
  BY <1>1, <1>2 DEF Permission!Begin, PermissionProofs!Begin
<1>4. ASSUME NEW c PROVE Permission!ValidateConflict(c) <=> PermissionProofs!ValidateConflict(c)
  BY <1>1, <1>2 DEF Permission!ValidateConflict, PermissionProofs!ValidateConflict
<1>5. ASSUME NEW c PROVE Permission!Set(c) <=> PermissionProofs!Set(c)
  BY <1>1, <1>2 DEF Permission!Set, Permission!Permissions,
                    PermissionProofs!Set, PermissionProofs!Permissions
<1>6. ASSUME NEW c PROVE Permission!Read(c) <=> PermissionProofs!Read(c)
  BY <1>1 DEF Permission!Read, PermissionProofs!Read
<1>7. ASSUME NEW c PROVE Permission!CallFails(c) <=> PermissionProofs!CallFails(c)
  BY <1>1 DEF Permission!CallFails, PermissionProofs!CallFails
<1> QED
  BY <1>3, <1>4, <1>5, <1>6, <1>7
     DEF Permission!Next, Permission!Step, PermissionProofs!Next, PermissionProofs!Step

LEMMA PermissionBehaves == Spec /\ IsPermission => PermissionProofs!Spec /\ []IsPermission
<1>1. Init /\ IsPermission => PermissionProofs!Init
  BY PermissionInit DEF Init, IsPermission
<1>2. IsPermission /\ [Next]_vars
        => [PermissionProofs!Next]_(PermissionProofs!vars) /\ IsPermission'
  BY PermissionNext
     DEF Next, IsACL, IsPermission, vars, callVars, PermissionProofs!vars,
         PermissionProofs!callVars
<1> QED
  BY <1>1, <1>2, PTL DEF Spec, PermissionProofs!Spec

LEMMA PermissionInvariant == Spec /\ IsPermission => [](IsPermission /\ PermissionProofs!IInv)
<1>1. PermissionProofs!Spec => []PermissionProofs!IInv
  BY Assumptions, PermissionProofs!Inductive DEF PermissionProofs!Jobs
<1> QED
  BY <1>1, PermissionBehaves, PTL

LEMMA OneComponent == Spec => IsACL \/ IsPermission
<1>1. Init => IsACL \/ IsPermission
  BY DEF Init, IsACL, IsPermission
<1> QED
  BY <1>1 DEF Spec

-----------------------------------------------------------------------------
(* Theorems.                                                               *)

\* Every variable keeps its type; each mutex is held by the call that is
\* between the read and the write it covers.
THEOREM TypeCorrect == Spec => []TypeOK
<1>1. IsACL /\ ACLProofs!IInv => TypeOK
  <2>1. ACLProofs!TypeOK <=> ACL!TypeOK
    BY DEF ACL!TypeOK, ACL!Documents, ACL!Jobs, ACLProofs!TypeOK, ACLProofs!Documents,
           ACLProofs!Jobs
  <2> QED
    BY <2>1 DEF TypeOK, ACLProofs!IInv
<1>2. IsPermission /\ PermissionProofs!IInv => TypeOK
  <2>1. PermissionProofs!TypeOK <=> Permission!TypeOK
    BY DEF Permission!TypeOK, Permission!Jobs, Permission!Handlers, Permission!Op,
           PermissionProofs!TypeOK, PermissionProofs!Jobs, PermissionProofs!Handlers,
           PermissionProofs!Op
  <2> QED
    BY <2>1 DEF TypeOK, PermissionProofs!IInv
<1> QED
  BY <1>1, <1>2, ACLInvariant, PermissionInvariant, OneComponent, PTL

\* However many calls change the permission of a target of the ACL document, in
\* whatever order and whatever fails, it never has two rules.
THEOREM TargetsHaveOneRule == Spec => []OneRuleEach
<1>1. ACLProofs!IInv => OneRuleEach
  BY DEF ACLProofs!IInv, ACLProofs!OneRuleEach, OneRuleEach, ACL!OneRuleEach
<1>2. IsPermission => OneRuleEach
  BY DEF IsACL, IsPermission, OneRuleEach
<1> QED
  BY <1>1, <1>2, ACLInvariant, PermissionBehaves, OneComponent, PTL

\* With the validation on, of the Creates of one target one gets to set
\* permissions, and one more for every call that has cleared them.
THEOREM CreatesAreBounded == Spec => []CreatesBounded
<1>1. PermissionProofs!IInv => CreatesBounded
  <2>1. /\ \A t : Permission!Grants(t) = PermissionProofs!Grants(t)
        /\ \A t : Permission!Clearings(t) = PermissionProofs!Clearings(t)
    BY DEF Permission!Grants, Permission!Clearings, Permission!Permissions, Permission!Op,
           Permission!Target, Permission!Value,
           PermissionProofs!Grants, PermissionProofs!Clearings, PermissionProofs!Permissions,
           PermissionProofs!Op, PermissionProofs!Target, PermissionProofs!Value
  <2>2. PermissionProofs!IInv => PermissionProofs!CreatesBounded
    BY DEF PermissionProofs!IInv, PermissionProofs!BalanceInv, PermissionProofs!CreatesBounded
  <2>3. ASSUME PermissionProofs!CreatesBounded, validate, NEW t \in Targets
        PROVE  Permission!Cardinality(Permission!Grants(t)) <= Permission!Cardinality(Permission!Clearings(t)) + 1
    <3>1. PermissionProofs!Cardinality(PermissionProofs!Grants(t))
            <= PermissionProofs!Cardinality(PermissionProofs!Clearings(t)) + 1
      BY <2>3 DEF PermissionProofs!CreatesBounded
    <3>2. \A S : Permission!Cardinality(S) = PermissionProofs!Cardinality(S)
      BY Zenon DEF Permission!Cardinality, PermissionProofs!Cardinality
    <3> QED
      BY <2>1, <3>1, <3>2, Zenon
  <2> QED
    BY <2>2, <2>3 DEF CreatesBounded, Permission!CreatesBounded
<1>2. IsACL => CreatesBounded
  BY DEF IsACL, IsPermission, CreatesBounded
<1> QED
  BY <1>1, <1>2, ACLBehaves, PermissionInvariant, OneComponent, PTL

\* With the validation on, a Create never replaces permissions that were there
\* before it began or that another Create has set.
THEOREM OthersAreSpared == Spec => CreateSparesOthers
<1> DEFINE Sparing == IsPermission => Permission!SparesOthers
<1>1. PermissionProofs!Spec => [][PermissionProofs!SparesOthers]_(PermissionProofs!vars)
  <2>1. PermissionProofs!Spec => PermissionProofs!CreateSparesOthers
    BY Assumptions, PermissionProofs!OthersAreSpared DEF PermissionProofs!Jobs
  <2> QED
    BY <2>1, PTL DEF PermissionProofs!CreateSparesOthers
<1>2. [PermissionProofs!SparesOthers]_(PermissionProofs!vars) => [Sparing]_vars
  <2>1. PermissionProofs!SparesOthers => Permission!SparesOthers
    BY DEF Permission!SparesOthers, Permission!Op, Permission!Target,
           PermissionProofs!SparesOthers, PermissionProofs!Op, PermissionProofs!Target
  <2>2. setters' = setters => Permission!SparesOthers
    BY DEF Permission!SparesOthers
  <2> QED
    BY <2>1, <2>2 DEF PermissionProofs!vars
<1>3. IsACL => [Sparing]_vars
  BY DEF IsACL, IsPermission
<1>4. [][Sparing]_vars => CreateSparesOthers
  BY PTL DEF CreateSparesOthers
<1> QED
  BY <1>1, <1>2, <1>3, <1>4, ACLBehaves, PermissionBehaves, OneComponent, PTL

\* The ACL calls implement ACLUpdates: each changes the document as it is when
\* it puts it back, so no rule and no setting of another call is lost.
THEOREM UpdatesAreAtomic == Spec => UpdatesAtomic
<1>1. Spec /\ IsACL => UpdatesAtomic
  <2>1. ACLProofs!Spec => ACLProofs!Atomic!Init /\ [][ACLProofs!Atomic!Next]_(ACLProofs!Atomic!vars)
    <3>1. ACLProofs!Spec => ACLProofs!UpdatesAtomic
      BY Assumptions, ACLProofs!UpdatesAreAtomic DEF ACLProofs!Jobs
    <3> QED
      BY <3>1, PTL DEF ACLProofs!UpdatesAtomic, ACLProofs!Atomic!Spec
  <2>2. \A c : ACL!Outcome(c) = ACLProofs!Outcome(c)
    BY DEF ACL!Outcome, ACLProofs!Outcome
  <2>3. IsACL /\ ACLProofs!Atomic!Init => Atomic!Init
    BY <2>2 DEF IsACL, ACLProofs!Atomic!Init, Atomic!Init, ACLProofs!Atomic!Documents,
                Atomic!Documents
  <2>4. IsACL /\ IsACL' /\ [ACLProofs!Atomic!Next]_(ACLProofs!Atomic!vars)
          => [Atomic!Next]_(Atomic!vars)
    <3> SUFFICES ASSUME IsACL, IsACL', [ACLProofs!Atomic!Next]_(ACLProofs!Atomic!vars)
                 PROVE  [Atomic!Next]_(Atomic!vars)
      OBVIOUS
    <3>1. \A j, doc : Atomic!Modified(j, doc) = ACLProofs!Atomic!Modified(j, doc)
      BY DEF ACLProofs!Atomic!Modified, ACLProofs!Atomic!Updated, ACLProofs!Atomic!Add,
             ACLProofs!Atomic!Without, ACLProofs!Atomic!Has, ACLProofs!Atomic!Index,
             Atomic!Modified, Atomic!Updated, Atomic!Add, Atomic!Without, Atomic!Has, Atomic!Index
    <3>2. /\ [c \in Calls |-> IF IsACL THEN ACL!Outcome(c) ELSE "pending"]
               = [c \in Calls |-> ACLProofs!Outcome(c)]
          /\ [c \in Calls |-> IF IsACL THEN ACL!Outcome(c) ELSE "pending"]'
               = [c \in Calls |-> ACLProofs!Outcome(c)]'
      BY <2>2 DEF IsACL, ACL!Outcome, ACLProofs!Outcome
    <3>3. /\ (IF IsACL THEN remote ELSE ACL!Blank) = remote
          /\ (IF IsACL THEN remote ELSE ACL!Blank)' = remote'
      BY DEF IsACL
    <3> QED
      BY <3>1, <3>2, <3>3
         DEF ACLProofs!Atomic!Next, ACLProofs!Atomic!Apply, ACLProofs!Atomic!Refuse,
             ACLProofs!Atomic!Answer, ACLProofs!Atomic!Become, ACLProofs!Atomic!vars,
             Atomic!Next, Atomic!Apply, Atomic!Refuse, Atomic!Answer, Atomic!Become, Atomic!vars
  <2> QED
    BY <2>1, <2>3, <2>4, ACLBehaves, PTL DEF UpdatesAtomic, Atomic!Spec
<1>2. Spec /\ IsPermission => UpdatesAtomic
  <2>1. Init /\ IsPermission => Atomic!Init
    <3>1. ACL!Blank \in Atomic!Documents
      BY DEF ACL!Blank, Atomic!Documents
    <3> QED
      BY <3>1 DEF IsACL, IsPermission, Atomic!Init
  <2>2. [Next]_vars /\ IsPermission /\ IsPermission' => UNCHANGED Atomic!vars
    <3>1. [Next]_vars /\ IsPermission => UNCHANGED job
      BY DEF Next, IsACL, IsPermission, vars, callVars, Permission!Next, Permission!Step,
             Permission!Begin, Permission!ValidateConflict, Permission!Set, Permission!Read,
             Permission!CallFails, Permission!Goto, Permission!Return
    <3>2. UNCHANGED ACL!Blank
      BY DEF ACL!Blank
    <3> QED
      BY <3>1, <3>2 DEF IsACL, IsPermission, Atomic!vars
  <2> QED
    BY <2>1, <2>2, PermissionBehaves, PTL DEF Spec, UpdatesAtomic, Atomic!Spec
<1> QED
  BY <1>1, <1>2, OneComponent
==============================================================================
