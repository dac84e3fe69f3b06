--------------------- MODULE OrganizationPermissionProofs ---------------------
(***************************************************************************)
(* Proofs about OrganizationPermission, for any calls, targets and         *)
(* permissions, those of a resource without any among them.                *)
(***************************************************************************)
EXTENDS OrganizationPermission, FiniteSetTheorems, TLAPS

\* Each call sets permissions once.
SettersInv == IsFiniteSet(setters) /\ \A c \in Calls : pc[c] \in {"ready", "check", "set"} => c \notin setters

\* What an Update has left.
Overwritten(t) == \E u \in setters : job[u] = [op |-> "Update", target |-> t, value |-> remote[t]]

\* Behind its check and under its lock, a Create meets what its check has seen,
\* or what an Update has put there since.
CheckedInv ==
  validate =>
    \A c \in Calls : pc[c] = "set" /\ Op(c) = "Create" =>
      remote[Target(c)] = NoPermissions \/ Overwritten(Target(c))

\* A target without permissions owes no Create; nor does one that a Create is
\* about to set, as it had none when the Create looked and no other Create has
\* held the lock since.
BalanceInv ==
  validate =>
    \A t \in Targets :
      /\ Cardinality(Grants(t)) <= Cardinality(Clearings(t)) + 1
      /\ \/ remote[t] = NoPermissions
         \/ \E c \in Calls : pc[c] = "set" /\ Op(c) = "Create" /\ Target(c) = t
         => Cardinality(Grants(t)) <= Cardinality(Clearings(t))

IInv == TypeOK /\ SettersInv /\ CheckedInv /\ BalanceInv

-----------------------------------------------------------------------------
LEMMA JobTypes ==
  ASSUME TypeOK, NEW c \in Calls
  PROVE  /\ job[c] \in Jobs /\ Op(c) \in Handlers /\ Target(c) \in Targets /\ Value(c) \in Values
         /\ job[c] = [op |-> Op(c), target |-> Target(c), value |-> Value(c)]
         /\ Permissions(c) \in Values \cup {NoPermissions}
  BY DEF TypeOK, Jobs, Op, Target, Value, Permissions

LEMMA InitialInv == Init => IInv
<1> SUFFICES ASSUME Init PROVE IInv
  OBVIOUS
<1>1. job \in [Calls -> Jobs]
  BY CallsAssumption DEF Init, CallsInit
<1>2. TypeOK
  BY <1>1, CallsAssumption DEF Init, CallsInit, TypeOK
<1>3. \A t : Grants(t) = {} /\ Clearings(t) = {}
  BY DEF Init, Grants, Clearings
<1> QED
  BY <1>2, <1>3, FS_EmptySet DEF Init, CallsInit, IInv, SettersInv, CheckedInv, BalanceInv

LEMMA TypeStep == TypeOK /\ [Next]_vars => TypeOK'
<1> SUFFICES ASSUME TypeOK, [Next]_vars PROVE TypeOK'
  OBVIOUS
<1> USE CallsAssumption DEF TypeOK, callVars, Op
<1>1. ASSUME NEW c \in Calls, Begin(c) PROVE TypeOK'
  BY <1>1 DEF Begin, Lock, Goto
<1>2. ASSUME NEW c \in Calls, ValidateConflict(c) PROVE TypeOK'
  BY <1>2 DEF ValidateConflict, Unlock, Goto, Return
<1>3. ASSUME NEW c \in Calls, Set(c) PROVE TypeOK'
  BY <1>3, JobTypes DEF Set, Unlock, Goto, Return
<1>4. ASSUME NEW c \in Calls, Read(c) PROVE TypeOK'
  BY <1>4 DEF Read, Unlock, Return
<1>5. ASSUME NEW c \in Calls, CallFails(c) PROVE TypeOK'
  BY <1>5 DEF CallFails, Unlock, Return
<1>6. CASE UNCHANGED vars
  BY <1>6 DEF vars
<1> QED
  BY <1>1, <1>2, <1>3, <1>4, <1>5, <1>6 DEF Next, Step

-----------------------------------------------------------------------------
\* The steps that set nothing: one call moves, and gets to set permissions only
\* from the check or, without the lock, from the start.
Moves(c) ==
  /\ UNCHANGED <<job, validate, remote, setters>>
  /\ \E place \in {"check", "set", "read", "done"} : pc' = [pc EXCEPT ![c] = place]
  /\ pc'[c] \in {"check", "set"} => pc[c] \in {"ready", "check"}
  /\ pc'[c] = "set" /\ Op(c) = "Create" /\ validate => remote[Target(c)] = NoPermissions

LEMMA OtherSteps ==
  ASSUME TypeOK, NEW c \in Calls, Begin(c) \/ ValidateConflict(c) \/ Read(c) \/ CallFails(c)
  PROVE  Moves(c)
<1>1. CASE Begin(c)
  BY <1>1 DEF Begin, Goto, Moves, TypeOK
<1>2. CASE ValidateConflict(c)
  BY <1>2 DEF ValidateConflict, Goto, Return, Moves, TypeOK
<1>3. CASE Read(c) \/ CallFails(c)
  BY <1>3 DEF Read, CallFails, Return, Moves, TypeOK
<1> QED
  BY <1>1, <1>2, <1>3

LEMMA MovesStep ==
  ASSUME IInv, NEW c \in Calls, Moves(c)
  PROVE  SettersInv' /\ CheckedInv' /\ BalanceInv'
<1>1. SettersInv'
  BY DEF IInv, TypeOK, SettersInv, Moves
<1>2. CheckedInv'
  BY DEF IInv, TypeOK, CheckedInv, Overwritten, Moves, Op, Target
<1>3. BalanceInv'
  <2>1. \A t : Grants(t)' = Grants(t) /\ Clearings(t)' = Clearings(t)
    BY DEF Moves, Grants, Clearings, Op, Target, Permissions, Value
  <2> SUFFICES ASSUME validate, NEW t \in Targets
               PROVE  /\ Cardinality(Grants(t)) <= Cardinality(Clearings(t)) + 1
                      /\ \/ remote[t] = NoPermissions
                         \/ \E d \in Calls : pc'[d] = "set" /\ Op(d) = "Create" /\ Target(d) = t
                         => Cardinality(Grants(t)) <= Cardinality(Clearings(t))
    BY <2>1 DEF BalanceInv, Moves, Op, Target
  <2> QED
    BY DEF IInv, TypeOK, BalanceInv, Moves
<1> QED
  BY <1>1, <1>2, <1>3

-----------------------------------------------------------------------------
\* PermissionsSet: of the targets, that of the call gets its permissions.
LEMMA SetSteps ==
  ASSUME TypeOK, NEW c \in Calls, Set(c)
  PROVE  /\ pc[c] = "set" /\ setters' = setters \cup {c} /\ UNCHANGED <<job, validate>>
         /\ remote' = [remote EXCEPT ![Target(c)] = Permissions(c)]
         /\ \E place \in {"read", "done"} : pc' = [pc EXCEPT ![c] = place]
  BY DEF Set, Goto, Return

LEMMA SettersStep ==
  ASSUME IInv, NEW c \in Calls, Set(c)
  PROVE  SettersInv'
<1>1. IsFiniteSet(setters \cup {c})
  BY FS_AddElement DEF IInv, SettersInv
<1> QED
  BY <1>1, SetSteps DEF IInv, TypeOK, SettersInv

\* The mutex keeps a Create at its set alone with the other Creates, so that
\* only an Update can put permissions under it.
LEMMA CheckedStep ==
  ASSUME IInv, NEW c \in Calls, Set(c)
  PROVE  CheckedInv'
<1> SUFFICES ASSUME validate, NEW d \in Calls, pc'[d] = "set", Op(d) = "Create"
             PROVE  remote'[Target(d)] = NoPermissions \/ Overwritten(Target(d))'
  BY SetSteps DEF IInv, CheckedInv, Op, Target
<1>1. /\ TypeOK /\ pc[c] = "set" /\ setters' = setters \cup {c} /\ UNCHANGED job
      /\ remote' = [remote EXCEPT ![Target(c)] = Permissions(c)]
      /\ pc[d] = "set" /\ d # c
  BY SetSteps DEF IInv, TypeOK
<1>2. remote[Target(d)] = NoPermissions \/ Overwritten(Target(d))
  BY <1>1 DEF IInv, CheckedInv
<1>3. Op(c) # "Create"
  BY <1>1 DEF TypeOK
<1>4. CASE Target(d) # Target(c)
  BY <1>1, <1>2, <1>4, JobTypes DEF Overwritten, TypeOK, Target
<1>5. CASE Target(d) = Target(c) /\ Op(c) = "Delete"
  BY <1>1, <1>5, JobTypes DEF Permissions, TypeOK
<1>6. CASE Target(d) = Target(c) /\ Op(c) = "Update"
  <2>1. remote'[Target(d)] = Value(c)
    BY <1>1, <1>6, JobTypes DEF Permissions, TypeOK
  <2>2. job[c] = [op |-> "Update", target |-> Target(d), value |-> remote'[Target(d)]]
    BY <1>1, <1>6, <2>1, JobTypes
  <2> QED
    BY <1>1, <2>2 DEF Overwritten, Target
<1>7. Op(c) \in Handlers
  BY <1>1, JobTypes
<1> QED
  BY <1>3, <1>4, <1>5, <1>6, <1>7 DEF Handlers

\* A Create that sets permissions was owed them; whoever clears a target owes
\* it one more.
LEMMA BalanceStep ==
  ASSUME IInv, NEW c \in Calls, Set(c)
  PROVE  BalanceInv'
<1> SUFFICES ASSUME validate, NEW t \in Targets
             PROVE  /\ Cardinality(Grants(t)') <= Cardinality(Clearings(t)') + 1
                    /\ \/ remote'[t] = NoPermissions
                       \/ \E d \in Calls : pc'[d] = "set" /\ Op(d) = "Create" /\ Target(d) = t
                       => Cardinality(Grants(t)') <= Cardinality(Clearings(t)')
  <2>1. UNCHANGED <<job, validate>>
    BY SetSteps DEF IInv
  <2> QED
    BY <2>1 DEF BalanceInv, Op, Target
<1>1. /\ TypeOK /\ pc[c] = "set" /\ setters' = setters \cup {c} /\ UNCHANGED job
      /\ remote' = [remote EXCEPT ![Target(c)] = Permissions(c)]
      /\ \E place \in {"read", "done"} : pc' = [pc EXCEPT ![c] = place]
      /\ c \notin setters
  BY SetSteps DEF IInv, SettersInv
<1>2. /\ Cardinality(Grants(t)) \in Nat /\ IsFiniteSet(Grants(t)) /\ c \notin Grants(t)
      /\ Cardinality(Clearings(t)) \in Nat /\ IsFiniteSet(Clearings(t)) /\ c \notin Clearings(t)
  BY <1>1, FS_Subset, FS_CardinalityType DEF IInv, SettersInv, Grants, Clearings
<1>3. Cardinality(Grants(t)) <= Cardinality(Clearings(t)) + 1
  BY DEF IInv, BalanceInv
<1>4. ASSUME remote[t] = NoPermissions
               \/ \E d \in Calls : pc[d] = "set" /\ Op(d) = "Create" /\ Target(d) = t
      PROVE  Cardinality(Grants(t)) <= Cardinality(Clearings(t))
  BY <1>4 DEF IInv, BalanceInv
<1>5. Grants(t)' = IF Target(c) = t /\ Op(c) = "Create" /\ Permissions(c) # NoPermissions
                   THEN Grants(t) \cup {c} ELSE Grants(t)
  BY <1>1 DEF Grants, Op, Target, Permissions, Value
<1>6. Clearings(t)' = IF Target(c) = t /\ Permissions(c) = NoPermissions
                      THEN Clearings(t) \cup {c} ELSE Clearings(t)
  BY <1>1 DEF Clearings, Op, Target, Permissions, Value
<1>7. CASE Target(c) # t
  <2>1. Grants(t)' = Grants(t) /\ Clearings(t)' = Clearings(t) /\ remote'[t] = remote[t]
    BY <1>1, <1>5, <1>6, <1>7 DEF TypeOK
  <2>2. \A d \in Calls : pc'[d] = "set" => pc[d] = "set"
    BY <1>1 DEF TypeOK
  <2> QED
    BY <1>3, <1>4, <2>1, <2>2
<1>8. CASE Target(c) = t /\ Permissions(c) = NoPermissions
  <2>1. Grants(t)' = Grants(t) /\ Clearings(t)' = Clearings(t) \cup {c}
    BY <1>5, <1>6, <1>8
  <2>2. Cardinality(Clearings(t)') = Cardinality(Clearings(t)) + 1
    BY <1>2, <2>1, FS_AddElement
  <2> QED
    BY <1>2, <1>3, <2>1, <2>2
<1>9. CASE Target(c) = t /\ Permissions(c) # NoPermissions /\ Op(c) = "Create"
  <2>1. Grants(t)' = Grants(t) \cup {c} /\ Clearings(t)' = Clearings(t)
    BY <1>5, <1>6, <1>9
  <2>2. Cardinality(Grants(t)') = Cardinality(Grants(t)) + 1
    BY <1>2, <2>1, FS_AddElement
  <2>3. Cardinality(Grants(t)) <= Cardinality(Clearings(t))
    BY <1>1, <1>4, <1>9
  <2>4. remote'[t] # NoPermissions
    BY <1>1, <1>9 DEF TypeOK
  <2>5. \A d \in Calls : ~ (pc'[d] = "set" /\ Op(d) = "Create")
    BY <1>1, <1>9 DEF TypeOK
  <2> QED
    BY <1>2, <2>1, <2>2, <2>3, <2>4, <2>5
<1>10. CASE Target(c) = t /\ Permissions(c) # NoPermissions /\ Op(c) # "Create"
  <2>1. Grants(t)' = Grants(t) /\ Clearings(t)' = Clearings(t)
    BY <1>5, <1>6, <1>10
  <2>2. remote'[t] # NoPermissions
    BY <1>1, <1>10 DEF TypeOK
  <2>3. \A d \in Calls : pc'[d] = "set" => pc[d] = "set"
    BY <1>1 DEF TypeOK
  <2> QED
    BY <1>3, <1>4, <2>1, <2>2, <2>3
<1> QED
  BY <1>7, <1>8, <1>9, <1>10

LEMMA Inductive == Spec => []IInv
<1>1. IInv /\ [Next]_vars => IInv'
  <2> SUFFICES ASSUME IInv, [Next]_vars PROVE IInv'
    OBVIOUS
  <2>1. TypeOK'
    BY TypeStep DEF IInv
  <2>2. ASSUME NEW c \in Calls, Set(c) PROVE SettersInv' /\ CheckedInv' /\ BalanceInv'
    BY <2>2, SettersStep, CheckedStep, BalanceStep
  <2>3. ASSUME NEW c \in Calls, Begin(c) \/ ValidateConflict(c) \/ Read(c) \/ CallFails(c)
        PROVE  SettersInv' /\ CheckedInv' /\ BalanceInv'
    <3>1. Moves(c)
      BY <2>3, OtherSteps DEF IInv
    <3> QED
      BY <3>1, MovesStep
  <2>4. CASE UNCHANGED vars
    <3>1. UNCHANGED <<job, pc, validate, remote, setters>>
      BY <2>4 DEF vars, callVars
    <3>2. \A t : Grants(t)' = Grants(t) /\ Clearings(t)' = Clearings(t)
      BY <3>1 DEF Grants, Clearings, Op, Target, Permissions, Value
    <3>3. BalanceInv'
      BY <3>1, <3>2 DEF IInv, BalanceInv, Op, Target
    <3>4. SettersInv'
      BY <3>1 DEF IInv, SettersInv
    <3>5. \A t : Overwritten(t)' = Overwritten(t)
      BY <3>1 DEF Overwritten
    <3>6. CheckedInv'
      BY <3>1, <3>5 DEF IInv, CheckedInv, Op, Target
    <3> QED
      BY <2>1, <3>3, <3>4, <3>6 DEF IInv
  <2> QED
    BY <2>1, <2>2, <2>3, <2>4 DEF IInv, Next, Step
<1> QED
  BY <1>1, InitialInv, PTL DEF Spec

-----------------------------------------------------------------------------
(* Theorems.                                                               *)

\* Every variable keeps its type, and permissionLock is held by the Create
\* that is between its check and the end of its read.
THEOREM TypeCorrect == Spec => []TypeOK
  BY Inductive, PTL DEF IInv

\* With the validation on, of the Creates of one target one gets to set
\* permissions, and one more for every call that has cleared them.
THEOREM CreatesAreBounded == Spec => []CreatesBounded
<1>1. IInv => CreatesBounded
  BY DEF IInv, BalanceInv, CreatesBounded
<1> QED
  BY <1>1, Inductive, PTL

\* With the validation on, a Create never replaces permissions that were there
\* before it began or that another Create has set.
THEOREM OthersAreSpared == Spec => CreateSparesOthers
<1>1. IInv /\ [Next]_vars => [SparesOthers]_vars
  <2> SUFFICES ASSUME IInv, Next, NEW c \in setters' \ setters, validate, Op(c) = "Create"
               PROVE  remote[Target(c)] = NoPermissions \/ Overwritten(Target(c))
    BY DEF SparesOthers, Overwritten
  <2>1. PICK d \in Calls : Step(d)
    BY DEF Next
  <2>2. Set(d)
    BY <2>1, OtherSteps DEF Step, Moves, IInv
  <2>3. c = d /\ pc[c] = "set" /\ c \in Calls
    BY <2>2, SetSteps DEF IInv
  <2> QED
    BY <2>3 DEF IInv, CheckedInv
<1>2. [][SparesOthers]_vars => CreateSparesOthers
  BY PTL DEF CreateSparesOthers
<1> QED
  BY <1>1, <1>2, Inductive, PTL DEF Spec
==============================================================================
