------------------------------ MODULE AppliesProofs ------------------------------
(***************************************************************************)
(* Proofs about MCApplies: what holds of its views whatever the bounds on  *)
(* faults, edits and changes are.  The handlers are those of any resources *)
(* that HandlersAssumption allows, the fields and attributes any that      *)
(* FieldsAssumption and AttributesAssumption do: of the catalogues it is   *)
(* only used that they are not empty.  Each view has an invariant, kept by *)
(* the steps of its module; the views are put together at the end.         *)
(***************************************************************************)
EXTENDS MCApplies, TLAPS

-----------------------------------------------------------------------------
(* The handlers: the operation in progress.                                *)

Data == [known : BOOLEAN, main : Settings, rest : Settings]

Running == op \notin {"none", "plan"}

\* What the operation in progress agrees with.
OpInv ==
  /\ op \in {"refresh", "update", "delete"} => entry.status # "none"
  /\ op = "create" => entry = NoEntry

LEMMA ResourceFacts ==
  ASSUME NEW r \in Resources
  PROVE  /\ r.create \in Seq(STRING) /\ r.update \in Seq(STRING) /\ r.delete \in Seq(STRING)
         /\ WellFormed(r)
BY ResourcesAssumption, HandlersAssumption DEF Resource

LEMMA StepsFacts ==
  ASSUME TypeOK
  PROVE  /\ Len(Steps) \in Nat /\ DOMAIN Steps = 1..Len(Steps)
         /\ \A i \in 1..Len(Steps) : Steps[i] # "none"
         /\ Running => at \in 1..Len(Steps) /\ Step = Steps[at]
         /\ ~ Running => Step = "none"
<1>1. /\ resource.create \in Seq(STRING) /\ resource.update \in Seq(STRING)
      /\ resource.delete \in Seq(STRING)
  BY ResourceFacts DEF TypeOK
<1>2. Len(Steps) \in Nat /\ DOMAIN Steps = 1..Len(Steps)
  <2>1. CASE op \in {"create", "update", "delete"}
    <3>1. \A steps \in Seq(STRING) : Len(steps) \in Nat /\ DOMAIN steps = 1..Len(steps)
      OBVIOUS
    <3>2. Steps \in {resource.create, resource.update, resource.delete}
      BY <2>1 DEF Steps
    <3> QED
      BY <1>1, <3>1, <3>2
  <2>2. CASE op = "refresh"
    BY <2>2 DEF Steps
  <2>3. CASE op \notin {"create", "update", "delete", "refresh"}
    BY <2>3 DEF Steps
  <2> QED
    BY <2>1, <2>2, <2>3
<1>3. WellFormed(resource)
  BY ResourceFacts DEF TypeOK
<1>4. \A i \in 1..Len(Steps) : Steps[i] # "none"
  BY <1>1, <1>3 DEF Steps, WellFormed, Has
<1>5. Running => at \in 1..Len(Steps) /\ Step = Steps[at]
  BY <1>2 DEF TypeOK, Step, Running
<1>6. ~ Running => Step = "none"
  BY DEF TypeOK, Step, Steps, Running
<1> QED
  BY <1>2, <1>4, <1>5, <1>6

\* What a step of a handler may do to it: go on, jump to the last step, end, or
\* be repeated.
Jump(d) == at' = Len(Steps) /\ data' = d /\ UNCHANGED <<op, entry>>

GiveUp ==
  /\ entry' = NoEntry
  /\ IF op = "refresh" THEN op' = "plan" /\ at' = 0 /\ data' = Blank ELSE Idle

Moves(d) ==
  \/ Continue(d) \/ Jump(d) \/ Fail(d) \/ GiveUp \/ (op = "delete" /\ Succeed(d))
  \/ UNCHANGED <<entry, op, at, data>>

LEMMA HandlerMoves ==
  ASSUME TypeOK, Handler
  PROVE  Running /\ \E d \in Data : Moves(d)
<1>1. Running
  BY StepsFacts
  DEF Handler, Check, Adopt, Make, Put, Approve, Change, Rename, Rest, Upload, Exchange, SetID,
      Refused, Leave, Read, Poll, Reconcile, Wait, Inspect, AwaitConnected, Unset, Remove,
      RemoveStrict, RemoveUntilGone, DeleteState, WaitGone, CallFails, WaitExpires,
      DeadlineTaken, Waits, Polls, Local
<1>2. data \in Data
  BY DEF TypeOK, Data
<1>3. ASSUME Check \/ Adopt \/ Make \/ Put \/ Approve \/ Change \/ Rename \/ Rest
      PROVE  \E d \in Data : Moves(d)
  <2>1. [data EXCEPT !.known = TRUE] \in Data
    BY <1>2 DEF Data
  <2> QED
    BY <1>2, <1>3, <2>1
    DEF Check, Adopt, Make, Put, Approve, Change, Rename, Rest, New, NewHidden, Answer, Refuse,
        Pass, Skip, Jump, Moves
<1>4. ASSUME Upload \/ Exchange \/ SetID \/ Refused \/ Leave
      PROVE  \E d \in Data : Moves(d)
  <2>1. [data EXCEPT !.known = TRUE] \in Data
    BY <1>2 DEF Data
  <2> QED
    BY <1>2, <1>4, <2>1
    DEF Upload, Exchange, SetID, Refused, Leave, Answer, Refuse, Pass, Moves
<1>5. ASSUME Read \/ Poll \/ Reconcile \/ Wait \/ Inspect \/ AwaitConnected
      PROVE  \E d \in Data : Moves(d)
  <2>0. object.main \in Settings /\ object.rest \in Settings
    BY DEF TypeOK
  <2>1. Seen(data) \in Data
    BY <1>2, <2>0 DEF Data, Seen
  <2>2. \A v \in Settings : [data EXCEPT !.main = v, !.rest = v] \in Data
    BY <1>2 DEF Data
  <2>3. 0 \in Settings
    BY DEF Settings
  <2> QED
    BY <1>2, <1>5, <2>1, <2>2, <2>3
    DEF Read, Poll, Reconcile, Wait, Inspect, AwaitConnected, Refuse, Pass, ReadMissing, Remake,
        Drop, GiveUp, Moves
<1>6. ASSUME \/ Unset \/ Remove \/ RemoveStrict \/ RemoveUntilGone \/ DeleteState
             \/ WaitGone \/ CallFails \/ WaitExpires \/ DeadlineTaken
      PROVE  \E d \in Data : Moves(d)
  BY <1>2, <1>6
  DEF Unset, Remove, RemoveStrict, RemoveUntilGone, DeleteState, WaitGone, CallFails, WaitExpires,
      DeadlineTaken, Answer, Refuse, Pass, Moves
<1> QED
  BY <1>1, <1>3, <1>4, <1>5, <1>6 DEF Handler

Entries == [status : {"none", "kept", "tainted"}, main : Settings, rest : Settings]

Ops == {"none", "refresh", "plan", "create", "update", "delete"}

\* TypeOK's part about the operation in progress.
CoreInv ==
  /\ entry \in Entries /\ data \in Data /\ op \in Ops
  /\ IF op \in {"none", "plan"} THEN at = 0 /\ data = Blank ELSE Step # "none"
  /\ entry.status = "none" => entry = NoEntry
  /\ OpInv

Objects == [status : {"none", "hidden", "building", "ready", "failed", "deleting"},
            main : Settings, rest : Settings, moved : BOOLEAN]

LEMMA BlankType == Blank \in Data /\ NoEntry \in Entries /\ NoObject \in Objects
BY DEF Blank, Data, NoEntry, Entries, NoObject, Objects, Settings

LEMMA DataType ==
  ASSUME NEW known0 \in BOOLEAN, NEW m \in Settings, NEW r \in Settings
  PROVE  [known |-> known0, main |-> m, rest |-> r] \in Data
BY DEF Data

LEMMA StoredType ==
  ASSUME NEW d \in Data, NEW status \in {"none", "kept", "tainted"}
  PROVE  Stored(status, d) \in Entries /\ Stored(status, d).status = status
BY DEF Stored, Data, Entries

LEMMA MovesKeepType ==
  ASSUME TypeOK, OpInv, Running, resource' = resource, NEW d \in Data, Moves(d)
  PROVE  CoreInv'
<1> USE DEF Running, OpInv
<1>0. /\ op \in Ops /\ entry \in Entries /\ data \in Data
      /\ entry.status = "none" => entry = NoEntry
      /\ entry.status \in {"none", "kept", "tainted"}
  BY DEF TypeOK, Ops, Entries, Data
<1>1. CASE UNCHANGED <<entry, op, at, data>>
  BY <1>0, <1>1 DEF TypeOK, CoreInv, Step, Steps
<1>2. ASSUME at' \in 1..Len(Steps), data' = d, UNCHANGED <<op, entry>>
      PROVE  CoreInv'
  <2>1. Steps' = Steps
    BY <1>2 DEF Steps
  <2>2. Step' = Steps[at'] /\ Step' # "none"
    BY <1>2, <2>1, StepsFacts DEF Step
  <2> QED
    BY <1>0, <1>2, <2>2 DEF CoreInv
<1>3. CASE Idle
  <2>1. CASE Fail(d)
    <3>1. entry' \in Entries /\ (entry'.status = "none" => entry' = NoEntry)
      BY <1>0, <2>1, StoredType DEF Fail, AfterFailure
    <3> QED
      BY <1>3, <3>1, BlankType DEF CoreInv, Idle, Ops
  <2>2. CASE entry' = NoEntry \/ entry' = Stored("kept", d)
    <3>1. entry' \in Entries /\ (entry'.status = "none" => entry' = NoEntry)
      BY <2>2, StoredType, BlankType
    <3> QED
      BY <1>3, <3>1, BlankType DEF CoreInv, Idle, Ops
  <2>3. CASE Succeed(d) /\ op \notin {"refresh", "delete"}
    BY <2>2, <2>3 DEF Succeed
  <2>4. CASE UNCHANGED <<entry, op, at, data>>
    BY <1>1, <2>4
  <2> QED
    BY <1>3, <2>1, <2>2, <2>3, <2>4 DEF Moves, Continue, Jump, GiveUp, Succeed, Idle
<1>4. ASSUME op' = "plan", at' = 0, data' = Blank, op \in {"refresh", "delete"},
             entry' \in {NoEntry, Stored(entry.status, d)}
      PROVE  CoreInv'
  <2>1. entry' \in Entries /\ (entry'.status = "none" => entry' = NoEntry)
    BY <1>0, <1>4, StoredType, BlankType
  <2> QED
    BY <1>4, <2>1, BlankType DEF CoreInv, Ops
<1>5. CASE Continue(d)
  <2>1. CASE at < Len(Steps)
    BY <1>2, <1>5, <2>1, StepsFacts DEF Continue
  <2>2. CASE ~ (at < Len(Steps))
    <3>1. Succeed(d)
      BY <1>5, <2>2 DEF Continue
    <3> QED
      BY <1>3, <1>4, <3>1 DEF Succeed
  <2> QED
    BY <2>1, <2>2
<1>6. CASE Jump(d)
  BY <1>2, <1>6, StepsFacts DEF Jump
<1>7. CASE GiveUp
  BY <1>3, <1>4, <1>7 DEF GiveUp
<1>8. CASE Fail(d)
  BY <1>3, <1>8 DEF Fail
<1>9. CASE op = "delete" /\ Succeed(d)
  BY <1>4, <1>9 DEF Succeed
<1> QED
  BY <1>1, <1>5, <1>6, <1>7, <1>8, <1>9 DEF Moves

\* What a step may make of the object.
Shaped(o) == o \in Objects /\ (o.status = "none" => o = NoObject)

LEMMA ObjectShapes ==
  ASSUME TypeOK
  PROVE  /\ Shaped(object) /\ Shaped(NoObject) /\ Shaped(Removed) /\ Shaped(RemovedIfFound)
         /\ \A status \in {"building", "ready", "hidden"}, r \in {0, goal} :
              Shaped([status |-> status, main |-> goal, rest |-> r, moved |-> FALSE])
         /\ Shaped([status |-> "ready", main |-> data.main, rest |-> data.rest, moved |-> FALSE])
         /\ Exists =>
              /\ Shaped(Written) /\ Shaped([Written EXCEPT !.moved = object.main # goal])
              /\ \A r \in {0, goal} : Shaped([object EXCEPT !.rest = r])
              /\ Shaped([object EXCEPT !.main = goal, !.rest = goal])
         /\ Shaped([object EXCEPT !.moved = FALSE])
<1>1. Shaped(object) /\ Shaped(NoObject)
  BY DEF TypeOK, Shaped, Objects, NoObject, Settings
<1>2. Shaped(Removed)
  BY <1>1 DEF Removed, Shaped, Objects
<1>3. Shaped(RemovedIfFound)
  BY <1>1, <1>2 DEF RemovedIfFound
<1>4. {0, goal} \subseteq Settings /\ data.main \in Settings /\ data.rest \in Settings
  BY DEF TypeOK, Settings
<1>5. \A status \in {"building", "ready", "hidden"}, r \in {0, goal} :
              Shaped([status |-> status, main |-> goal, rest |-> r, moved |-> FALSE])
  BY <1>4 DEF Shaped, Objects
<1>6. Shaped([status |-> "ready", main |-> data.main, rest |-> data.rest, moved |-> FALSE])
  BY <1>4 DEF Shaped, Objects
<1>7. ASSUME Exists
      PROVE  /\ Shaped(Written) /\ Shaped([Written EXCEPT !.moved = object.main # goal])
             /\ \A r \in {0, goal} : Shaped([object EXCEPT !.rest = r])
             /\ Shaped([object EXCEPT !.main = goal, !.rest = goal])
  <2>1. Written \in Objects /\ Written.status = object.status
    BY <1>1, <1>4 DEF Written, Shaped, Objects
  <2>2. Shaped([Written EXCEPT !.moved = object.main # goal])
    <3>1. \A b \in BOOLEAN : [Written EXCEPT !.moved = b] \in Objects
      BY <2>1 DEF Objects
    <3> QED
      BY <1>7, <2>1, <3>1 DEF Shaped, Exists, Objects
  <2>3. \A r \in {0, goal} : Shaped([object EXCEPT !.rest = r])
    BY <1>1, <1>4, <1>7 DEF Shaped, Exists, Objects
  <2>4. Shaped([object EXCEPT !.main = goal, !.rest = goal])
    BY <1>1, <1>4, <1>7 DEF Shaped, Exists, Objects
  <2> QED
    BY <1>7, <2>1, <2>2, <2>3, <2>4 DEF Shaped, Exists
<1>8. Shaped([object EXCEPT !.moved = FALSE])
  BY <1>1 DEF Shaped, Objects, NoObject
<1> QED
  BY <1>1, <1>2, <1>3, <1>5, <1>6, <1>7, <1>8

Flags == faults \in 0..MaxFaults /\ strays \in BOOLEAN /\ lost \in BOOLEAN

LEMMA HandlerShapes ==
  ASSUME TypeOK, Handler
  PROVE  Shaped(object') /\ Flags'
<1>1. Visible => Exists
  BY DEF Visible, Exists
<1>2. Found => Exists
  BY <1>1 DEF Found
<1>3. Flags
  BY DEF TypeOK, Flags
<1>4. NoFault => faults' = faults /\ lost' = lost
  BY DEF NoFault
<1>5. Fault => faults' \in 0..MaxFaults
  BY <1>3, BoundAssumption DEF Flags, Fault
<1>6. Answer => faults' \in 0..MaxFaults /\ lost' \in BOOLEAN
  BY <1>3, <1>4, <1>5 DEF Flags, Answer
<1>7. (New \/ NewHidden) => Shaped(object') /\ faults' \in 0..MaxFaults /\ lost' \in BOOLEAN
  BY <1>3, <1>5, <1>6, ObjectShapes DEF New, NewHidden, Flags
<1>8. ASSUME Check \/ Adopt \/ Make \/ Put \/ Approve \/ Change \/ Rename \/ Rest
      PROVE  Shaped(object') /\ Flags'
  BY <1>1, <1>2, <1>3, <1>4, <1>6, <1>7, <1>8, ObjectShapes
  DEF Check, Adopt, Make, Put, Approve, Change, Rename, Rest, Refuse, Pass, Skip, Flags
<1>9. ASSUME Upload \/ Exchange \/ SetID \/ Refused \/ Leave
      PROVE  Shaped(object') /\ Flags'
  BY <1>1, <1>2, <1>3, <1>4, <1>5, <1>6, <1>9, ObjectShapes
  DEF Upload, Exchange, SetID, Refused, Leave, Refuse, Pass, Flags
<1>10. ASSUME Read \/ Poll \/ Reconcile \/ Wait \/ Inspect \/ AwaitConnected
      PROVE  Shaped(object') /\ Flags'
  BY <1>1, <1>2, <1>3, <1>4, <1>5, <1>10, ObjectShapes
  DEF Read, Poll, Reconcile, Wait, Inspect, AwaitConnected, Refuse, Pass, ReadMissing, Remake,
      Drop, Flags, Ready
<1>11. ASSUME \/ Unset \/ Remove \/ RemoveStrict \/ RemoveUntilGone \/ DeleteState
             \/ WaitGone \/ CallFails \/ WaitExpires \/ DeadlineTaken
      PROVE  Shaped(object') /\ Flags'
  BY <1>1, <1>2, <1>3, <1>4, <1>5, <1>6, <1>11, ObjectShapes
  DEF Unset, Remove, RemoveStrict, RemoveUntilGone, DeleteState, WaitGone, CallFails, WaitExpires,
      DeadlineTaken, Refuse, Pass, Flags
<1> QED
  BY <1>8, <1>9, <1>10, <1>11 DEF Handler

LEMMA HandlersTypes == TypeOK /\ OpInv /\ [Next]_vars => TypeOK' /\ OpInv'
<1> SUFFICES ASSUME TypeOK, OpInv, [Next]_vars
             PROVE  TypeOK' /\ OpInv'
  OBVIOUS
<1>0. /\ op \in Ops /\ entry \in Entries /\ data \in Data
      /\ entry.status = "none" => entry = NoEntry
      /\ Shaped(object) /\ Flags
  BY DEF TypeOK, Ops, Entries, Data, Shaped, Objects, Flags
<1> DEFINE Fixed == resource \in Resources /\ goal \in Settings /\ edits \in 0..MaxEdits
<1>1. Fixed
  BY DEF TypeOK
<1>2. CoreInv' /\ Shaped(object') /\ Flags' /\ Fixed' => TypeOK' /\ OpInv'
  BY DEF TypeOK, CoreInv, Shaped, Flags, Ops, Entries, Data, Objects
<1>3. CASE Handler
  <2>1. UNCHANGED <<resource, goal, edits>>
    BY <1>3 DEF Handler
  <2>2. CoreInv'
    BY <1>3, <2>1, HandlerMoves, MovesKeepType
  <2> QED
    BY <1>1, <1>2, <1>3, <2>1, <2>2, HandlerShapes
<1>4. ASSUME UNCHANGED <<resource, entry, op, at, data>>
      PROVE  CoreInv'
  BY <1>0, <1>4 DEF TypeOK, CoreInv, OpInv, Step, Steps
<1>5. CASE Apply
  <2>1. UNCHANGED <<resource, object, strays, entry, goal, edits, faults, lost>> /\ op = "none"
    BY <1>5 DEF Apply
  <2>2. CASE entry.status = "none"
    <3>1. op' = "plan" /\ at' = 0 /\ data' = Blank
      BY <1>5, <2>2 DEF Apply, TypeOK
    <3>2. CoreInv'
      BY <1>0, <2>1, <3>1, BlankType DEF CoreInv, OpInv, Ops
    <3> QED
      BY <1>0, <1>1, <1>2, <2>1, <3>2 DEF Flags
  <2>3. CASE entry.status # "none"
    <3>0. entry.main \in Settings /\ entry.rest \in Settings
      BY <1>0 DEF Entries
    <3>1. op' = "refresh" /\ at' = 1 /\ data' \in Data
      BY <1>5, <2>3, <3>0, DataType DEF Apply
    <3>2. Step' = "read"
      BY <3>1 DEF Step, Steps
    <3>3. CoreInv'
      BY <1>0, <2>1, <2>3, <3>1, <3>2 DEF CoreInv, OpInv, Ops
    <3> QED
      BY <1>0, <1>1, <1>2, <2>1, <3>3 DEF Flags
  <2> QED
    BY <2>2, <2>3
<1>6. CASE Plan
  <2>1. UNCHANGED <<resource, object, strays, entry, goal, edits, faults, lost>>
    BY <1>6 DEF Plan
  <2>2. CASE Verdict = "none"
    <3>1. op' = "none" /\ at' = 0 /\ data' = Blank
      BY <1>6, <2>2 DEF Plan, Idle
    <3>2. CoreInv'
      BY <1>0, <2>1, <3>1, BlankType DEF CoreInv, OpInv, Ops
    <3> QED
      BY <1>0, <1>1, <1>2, <2>1, <3>2 DEF Flags
  <2>3. CASE Verdict # "none"
    <3>0. entry.main \in Settings /\ entry.rest \in Settings
      BY <1>0 DEF Entries
    <3>1. op' = Verdict /\ at' = 1 /\ data' \in Data
      BY <1>1, <1>6, <2>3, <3>0, DataType DEF Plan
    <3>2. /\ Verdict \in {"create", "update", "delete"}
          /\ Verdict = "create" => entry.status = "none"
          /\ Verdict # "create" => entry.status # "none"
          /\ Verdict = "update" => resource.update # <<>>
      BY <2>3 DEF Verdict
    <3>3. \A steps \in Seq(STRING) : steps # <<>> => 1 \in DOMAIN steps
      OBVIOUS
    <3>4. /\ 1 \in DOMAIN resource.create /\ 1 \in DOMAIN resource.delete
          /\ resource.update # <<>> => 1 \in DOMAIN resource.update
          /\ \A steps \in {resource.create, resource.update, resource.delete} :
               \A i \in DOMAIN steps : steps[i] # "none"
      BY <1>1, <3>3, ResourceFacts DEF WellFormed, Has
    <3>5. Steps' = IF Verdict = "create" THEN resource.create
                   ELSE IF Verdict = "update" THEN resource.update ELSE resource.delete
      BY <2>1, <3>1, <3>2 DEF Steps
    <3>6. Step' # "none"
      BY <3>1, <3>2, <3>4, <3>5 DEF Step
    <3>7. CoreInv'
      BY <1>0, <2>1, <3>1, <3>2, <3>6 DEF CoreInv, OpInv, Ops
    <3> QED
      BY <1>0, <1>1, <1>2, <2>1, <3>7 DEF Flags
  <2> QED
    BY <2>2, <2>3
<1>7. CASE Outsider \/ BuildFails
  <2>1. UNCHANGED <<resource, strays, entry, goal, edits, op, at, data, lost>>
    BY <1>7 DEF Outsider, BuildFails
  <2>2. Shaped(object')
    BY <1>0, <1>7, ObjectShapes DEF Outsider, BuildFails, Shaped, Objects
  <2>3. faults' \in 0..MaxFaults
    BY <1>0, <1>7, BoundAssumption DEF Outsider, BuildFails, Fault, Flags
  <2> QED
    BY <1>0, <1>1, <1>2, <1>4, <2>1, <2>2, <2>3 DEF Flags
<1>8. CASE Backend
  <2>1. UNCHANGED <<resource, strays, entry, goal, edits, op, at, data, faults, lost>>
    BY <1>8 DEF Backend
  <2>2. Shaped(object')
    BY <1>0, <1>8, ObjectShapes DEF Backend, Advanced, Shaped, Objects
  <2> QED
    BY <1>0, <1>1, <1>2, <1>4, <2>1, <2>2 DEF Flags
<1>9. CASE Configure
  <2>1. UNCHANGED <<resource, object, strays, entry, op, at, data, faults, lost>>
    BY <1>9 DEF Configure
  <2>2. goal' \in Settings /\ edits' \in 0..MaxEdits
    BY <1>1, <1>9, BoundAssumption DEF Configure
  <2> QED
    BY <1>0, <1>1, <1>2, <1>4, <2>1, <2>2 DEF Flags
<1>10. CASE UNCHANGED vars
  BY <1>0, <1>1, <1>2, <1>4, <1>10 DEF Flags, vars
<1> QED
  BY <1>3, <1>5, <1>6, <1>7, <1>8, <1>9, <1>10 DEF Next

-----------------------------------------------------------------------------
(* Deleting.                                                               *)

\* What core deletes can be found: it has been read just before.
PresenceInv ==
  DeletesLast(resource) =>
       /\ object.moved => Renames(resource)
       /\ object.status = "hidden" => op \in {"none", "create", "update"}
       /\ op = "delete" \/ (op = "plan" /\ entry # NoEntry) => ~ object.moved

\* Only a Delete or a refresh is followed by a plan.
LEMMA EndsAt ==
  ASSUME TypeOK, Running, NEW d, Continue(d)
  PROVE  /\ op' \in {op, "none", "plan"}
         /\ op' = "plan" => op \in {"refresh", "delete"} /\ at = Len(Steps)
         /\ op' = op => entry' = entry
BY StepsFacts DEF Continue, Succeed, Idle, Running

LEMMA DeleteActions ==
  ASSUME TypeOK, op = "delete", DeletesLast(resource), Handler
  PROVE  /\ \/ Unset \/ Remove \/ RemoveStrict \/ RemoveUntilGone \/ DeleteState
            \/ WaitGone \/ CallFails \/ WaitExpires \/ DeadlineTaken
         /\ Step \in DeleteSteps
         /\ at = Len(Steps) => Step \in IF SlowDelete(resource) THEN {"removeUntilGone", "waitGone"}
                                        ELSE {"remove", "removeStrict"}
<1>1. Steps = resource.delete /\ Step = Steps[at] /\ at \in 1..Len(Steps)
      /\ DOMAIN Steps = 1..Len(Steps)
  BY StepsFacts DEF Steps, Running
<1>2. /\ Step \in DeleteSteps
      /\ at = Len(Steps) => Step \in IF SlowDelete(resource) THEN {"removeUntilGone", "waitGone"}
                                     ELSE {"remove", "removeStrict"}
  BY <1>1 DEF DeletesLast
<1> QED
  BY <1>2
  DEF Handler, Check, Adopt, Make, Put, Approve, Change, Rename, Rest, Upload, Exchange, SetID,
      Refused, Leave, Read, Poll, Reconcile, Wait, Inspect, AwaitConnected, DeleteSteps

LEMMA DeleteStep ==
  ASSUME TypeOK, OpInv, PresenceInv, op = "delete", DeletesLast(resource), Handler
  PROVE  /\ object'.status # "hidden" /\ ~ object'.moved
         /\ op' = "plan" =>
              /\ entry' = NoEntry
              /\ \/ ~ Exists'
                 \/ object'.status = "deleting" /\ Has(resource.delete, {"deleteState"})
<1>1. object.status # "hidden" /\ ~ object.moved
  BY DEF PresenceInv
<1>2. Found <=> Exists
  BY <1>1 DEF Found, Visible, Exists
<1>3. /\ RemovedIfFound.status # "hidden" /\ ~ RemovedIfFound.moved
      /\ Removed.status # "hidden" /\ ~ Removed.moved
      /\ ~ SlowDelete(resource) => Removed = NoObject /\ (RemovedIfFound.status = "none")
  BY <1>1, <1>2 DEF RemovedIfFound, Removed, NoObject, Exists, TypeOK
<1>4. object'.status # "hidden" /\ ~ object'.moved
  BY <1>1, <1>3, DeleteActions
  DEF Unset, Remove, RemoveStrict, RemoveUntilGone, DeleteState, WaitGone, CallFails, WaitExpires,
      DeadlineTaken, Refuse, Pass, TypeOK
<1>5. CASE DeadlineTaken
  <2>1. Has(resource.delete, {"deleteState"}) /\ object'.status = "deleting"
    BY <1>5, StepsFacts DEF DeadlineTaken, Steps, Running, Has
  <2>2. op' = "plan" /\ entry' = NoEntry
    BY <1>5 DEF DeadlineTaken, Succeed
  <2> QED
    BY <1>4, <2>1, <2>2
<1>6. ASSUME op' = "plan", ~ DeadlineTaken
      PROVE  ~ Exists' /\ entry' = NoEntry
  <2>1. ~ Fail(data) /\ ~ UNCHANGED <<entry, op, at, data>>
    BY <1>6 DEF Fail, Idle
  <2>2. Continue(data)
    BY <1>6, <2>1, DeleteActions
    DEF Unset, Remove, RemoveStrict, RemoveUntilGone, DeleteState, WaitGone, CallFails, WaitExpires,
        Refuse, Pass, Answer
  <2>3. at = Len(Steps)
    BY <1>6, <2>2, EndsAt DEF Running
  <2>4. entry' = NoEntry
    BY <1>6, <2>2, <2>3 DEF Continue, Succeed
  <2>5. CASE SlowDelete(resource)
    <3>1. (RemoveUntilGone \/ WaitGone) /\ ~ Fail(data) /\ ~ UNCHANGED <<entry, op, at, data>>
      BY <1>6, <2>1, <2>3, <2>5, DeleteActions
      DEF Unset, Remove, RemoveStrict, DeleteState, CallFails, WaitExpires
    <3>2. ~ Found /\ object' = object
      BY <3>1 DEF RemoveUntilGone, WaitGone, Pass
    <3> QED
      BY <1>2, <2>4, <3>2 DEF Exists
  <2>6. CASE ~ SlowDelete(resource)
    <3>1. Remove \/ RemoveStrict
      BY <1>6, <2>1, <2>3, <2>6, DeleteActions
      DEF Unset, RemoveUntilGone, DeleteState, WaitGone, CallFails, WaitExpires
    <3>2. object'.status = "none"
      BY <1>3, <2>1, <2>6, <3>1 DEF Remove, RemoveStrict, Refuse, NoObject
    <3> QED
      BY <2>4, <3>2 DEF Exists
  <2> QED
    BY <2>5, <2>6
<1> QED
  BY <1>4, <1>5, <1>6

\* What a refresh may find, and make of the entry.
LEMMA RefreshStep ==
  ASSUME TypeOK, op = "refresh", Handler
  PROVE  /\ UNCHANGED <<strays, lost>>
         /\ \/ Fail(data) /\ object' = object
            \/ Found /\ object' = object /\ Succeed(Seen(data))
            \/ ~ Found /\ Drops /\ object' = object /\ GiveUp
            \/ ~ Found /\ ~ Drops /\ Remake
            \/ /\ ~ Found /\ ~ Drops /\ object' = object
               /\ \/ resource.missing = "keep" /\ Succeed(data)
                  \/ resource.missing = "empty" /\ Succeed([data EXCEPT !.main = 0, !.rest = 0])
<1>1. Len(Steps) = 1 /\ at = 1 /\ Step = "read"
  <2>1. Steps = <<"read">> /\ at \in 1..Len(Steps) /\ Step = Steps[at]
    BY StepsFacts DEF Steps, Running
  <2> QED
    BY <2>1
<1>2. \A d : Continue(d) => Succeed(d)
  BY <1>1 DEF Continue
<1>3. Read \/ CallFails
  BY <1>1
  DEF Handler, Check, Adopt, Make, Put, Approve, Change, Rename, Rest, Upload, Exchange, SetID,
      Refused, Leave, Poll, Reconcile, Wait, Inspect, AwaitConnected, Unset, Remove, RemoveStrict,
      RemoveUntilGone, DeleteState, WaitGone, WaitExpires, DeadlineTaken, Waits, Polls
<1>4. CASE CallFails
  BY <1>4 DEF CallFails
<1>5. CASE Read
  <2>1. CASE Found
    BY <1>2, <1>5, <2>1 DEF Read, Pass, NoFault
  <2>2. CASE ~ Found /\ Drops
    BY <1>5, <2>2 DEF Read, Drop, GiveUp, NoFault
  <2>3. CASE ~ Found /\ ~ Drops /\ resource.missing = "remake"
    BY <1>5, <2>3 DEF Read, Remake, NoFault
  <2>4. CASE ~ Found /\ ~ Drops /\ resource.missing # "remake"
    <3>1. ReadMissing
      BY <1>5, <2>4 DEF Read
    <3> QED
      BY <1>2, <2>4, <3>1 DEF ReadMissing, Pass, Refuse, NoFault
  <2> QED
    BY <2>1, <2>2, <2>3, <2>4
<1> QED
  BY <1>3, <1>4, <1>5

\* A handler of Create or Update makes no plan, and only a rename moves the object.
LEMMA CreateUpdateStep ==
  ASSUME TypeOK, op \in {"create", "update"}, Handler
  PROVE  /\ op' \in {op, "none"}
         /\ object'.moved => object.moved \/ Renames(resource)
<1>1. op' \in {op, "none"}
  <2>1. PICK d \in Data : Moves(d)
    BY HandlerMoves
  <2> QED
    BY <2>1 DEF Moves, Continue, Succeed, Jump, Fail, GiveUp, Idle
<1>2. CASE Step = "rename"
  <2>1. Has(Steps, {"rename"})
    BY <1>2, StepsFacts DEF Has, Running
  <2> QED
    BY <1>1, <2>1 DEF Renames, Steps
<1>3. CASE Step # "rename"
  <2>0. object \in Objects
    BY DEF TypeOK, Objects
  <2>1. /\ Removed.moved => object.moved
        /\ RemovedIfFound.moved => object.moved
        /\ Written.moved = object.moved
        /\ ~ NoObject.moved
        /\ \A m, r \in {0, goal} : ~ [status |-> "ready", main |-> m, rest |-> r, moved |-> FALSE].moved
    BY <2>0 DEF Removed, RemovedIfFound, Written, NoObject, Objects
  <2>2. New \/ NewHidden => ~ object'.moved
    BY DEF New, NewHidden
  <2>3. ASSUME Check \/ Adopt \/ Make \/ Put \/ Approve \/ Change \/ Rename \/ Rest
        PROVE  object'.moved => object.moved
    BY <1>3, <2>0, <2>1, <2>2, <2>3
    DEF Check, Adopt, Make, Put, Approve, Change, Rename, Rest, Refuse, Pass, Skip, Objects
  <2>4. ASSUME Upload \/ Exchange \/ SetID \/ Refused \/ Leave
        PROVE  object'.moved => object.moved
    BY <2>0, <2>1, <2>4
    DEF Upload, Exchange, SetID, Refused, Leave, Refuse, Pass, Objects
  <2>5. ASSUME Read \/ Poll \/ Reconcile \/ Wait \/ Inspect \/ AwaitConnected
        PROVE  object'.moved => object.moved
    BY <2>0, <2>1, <2>5
    DEF Read, Poll, Reconcile, Wait, Inspect, AwaitConnected, Refuse, Pass, ReadMissing, Remake,
        Drop, Objects
  <2>6. ASSUME \/ Unset \/ Remove \/ RemoveStrict \/ RemoveUntilGone \/ DeleteState
               \/ WaitGone \/ CallFails \/ WaitExpires \/ DeadlineTaken
        PROVE  object'.moved => object.moved
    BY <2>0, <2>1, <2>6
    DEF Unset, Remove, RemoveStrict, RemoveUntilGone, DeleteState, WaitGone, CallFails, WaitExpires,
        DeadlineTaken, Refuse, Pass, Objects
  <2> QED
    BY <1>1, <2>3, <2>4, <2>5, <2>6 DEF Handler
<1> QED
  BY <1>2, <1>3

LEMMA PresenceStep == TypeOK /\ OpInv /\ PresenceInv /\ [Next]_vars => PresenceInv'
<1> SUFFICES ASSUME TypeOK, OpInv, PresenceInv, [Next]_vars
             PROVE  PresenceInv'
  OBVIOUS
<1>0. resource' = resource
  BY DEF Next, Apply, Plan, Handler, Outsider, BuildFails, Backend, Configure, vars
<1>1. CASE Handler /\ op = "delete"
  <2>1. CASE DeletesLast(resource)
    <3>1. /\ object'.status # "hidden" /\ ~ object'.moved
          /\ op' = "plan" => entry' = NoEntry
      BY <1>1, <2>1, DeleteStep
    <3> QED
      BY <1>0, <3>1 DEF PresenceInv
  <2>2. CASE ~ DeletesLast(resource)
    BY <1>0, <2>2 DEF PresenceInv
  <2> QED
    BY <2>1, <2>2
<1>2. CASE Handler /\ op = "refresh"
  <2>0. object.status # "hidden" \/ ~ DeletesLast(resource)
    BY <1>2 DEF PresenceInv
  <2>1. CASE Fail(data) /\ object' = object
    BY <1>0, <2>0, <2>1 DEF PresenceInv, Fail, Idle
  <2>2. CASE Found /\ object' = object /\ Succeed(Seen(data))
    BY <1>0, <1>2, <2>0, <2>2 DEF PresenceInv, Succeed, Found
  <2>3. CASE ~ Found /\ Drops /\ object' = object /\ GiveUp
    BY <1>0, <1>2, <2>0, <2>3 DEF PresenceInv, GiveUp
  <2>4. CASE ~ Found /\ ~ Drops /\ Remake
    BY <1>0, <1>2, <2>4 DEF PresenceInv, Remake
  <2>5. ASSUME ~ Found, ~ Drops, object' = object, NEW d, Succeed(d),
               resource.missing \in {"keep", "empty"}
        PROVE  PresenceInv'
    <3>1. DeletesLast(resource) => ~ object.moved
      BY <2>5 DEF PresenceInv, DeletesLast, GivesUp
    <3> QED
      BY <1>0, <1>2, <2>0, <2>5, <3>1 DEF PresenceInv, Succeed
  <2> QED
    BY <1>2, <2>1, <2>2, <2>3, <2>4, <2>5, RefreshStep
<1>3. CASE Handler /\ op \in {"create", "update"}
  BY <1>0, <1>3, CreateUpdateStep DEF PresenceInv
<1>4. CASE Apply
  BY <1>0, <1>4 DEF PresenceInv, Apply, TypeOK
<1>5. CASE Plan
  BY <1>0, <1>5 DEF PresenceInv, Plan, Idle, Verdict, NoEntry
<1>6. CASE Outsider \/ BuildFails \/ Backend
  <2>1. UNCHANGED <<resource, op, entry>> /\ op # "plan"
    BY <1>6 DEF Outsider, BuildFails, Backend
  <2>2. (object'.moved => object.moved) /\ (object'.status = "hidden" => object.status = "hidden")
    BY <1>6 DEF Outsider, BuildFails, Backend, Advanced, NoObject, TypeOK
  <2> QED
    BY <2>1, <2>2 DEF PresenceInv
<1>7. CASE Configure \/ UNCHANGED vars
  BY <1>7 DEF PresenceInv, Configure, vars
<1>8. Handler => Running
  BY HandlerMoves
<1>9. Running => op \in {"refresh", "create", "update", "delete"}
  BY DEF Running, TypeOK
<1> QED
  BY <1>1, <1>2, <1>3, <1>4, <1>5, <1>6, <1>7, <1>8, <1>9 DEF Next

LEMMA HandlersInit == Init => TypeOK /\ OpInv /\ PresenceInv
<1> SUFFICES ASSUME Init
             PROVE  TypeOK /\ OpInv /\ PresenceInv
  OBVIOUS
<1>1. TypeOK
  <2>1. 0 \in Settings /\ 1 \in Settings
    BY DEF Settings
  <2>2. Shaped(object) /\ object \in Objects
    <3>1. NoObject \in Objects
      BY BlankType
    <3>2. [status |-> "ready", main |-> 1, rest |-> 1, moved |-> FALSE] \in Objects
      BY <2>1 DEF Objects
    <3>3. object = NoObject \/ object = [status |-> "ready", main |-> 1, rest |-> 1, moved |-> FALSE]
      BY DEF Init
    <3>4. object.status = "none" => object = NoObject
      BY <3>3
    <3> QED
      BY <3>1, <3>2, <3>3, <3>4 DEF Shaped
  <2>3. entry \in Entries /\ (entry.status = "none" => entry = NoEntry)
    BY <2>1 DEF Init, Entries, NoEntry
  <2>4. /\ data \in Data /\ at = 0 /\ data = Blank /\ op = "none" /\ resource \in Resources
        /\ strays \in BOOLEAN /\ lost \in BOOLEAN /\ goal \in Settings
    BY <2>1, BlankType DEF Init
  <2>5. edits \in 0..MaxEdits /\ faults \in 0..MaxFaults
    BY BoundAssumption DEF Init
  <2> QED
    BY <2>2, <2>3, <2>4, <2>5 DEF TypeOK, Shaped, Objects, Entries, Data
<1>2. OpInv /\ PresenceInv
  BY DEF Init, OpInv, PresenceInv, NoObject
<1> QED
  BY <1>1, <1>2

LEMMA DeletedStep ==
  TypeOK /\ OpInv /\ PresenceInv /\ [Next]_vars
    => [op = "delete" /\ op' = "plan" =>
          \/ ~ Exists'
          \/ object'.status = "deleting" /\ resource \in Impatient
          \/ resource \in Undeletable]_vars
<1> SUFFICES ASSUME TypeOK, OpInv, PresenceInv, [Next]_vars, op = "delete", op' = "plan"
             PROVE  \/ ~ Exists'
                    \/ object'.status = "deleting" /\ resource \in Impatient
                    \/ resource \in Undeletable
  OBVIOUS
<1>1. Handler
  BY DEF Next, Apply, Plan, Outsider, BuildFails, Backend, Configure, vars
<1>2. /\ DeletesLast(resource) \/ resource \in Undeletable
      /\ Has(resource.delete, {"deleteState"}) => resource \in Impatient
  BY HandlersAssumption DEF TypeOK
<1> QED
  BY <1>1, <1>2, DeleteStep

\* The view of the handlers is ResourceApply: all other steps leave it alone.
LEMMA HandlersView == AppliesSpec => Init /\ [][Next]_vars
<1>1. AppliesInit => Init
  BY DEF AppliesInit
<1>2. [AppliesNext]_allVars => [Next]_vars
  BY DEF AppliesNext, InHandlers, InAttribute, InPassword, InField, OfService, InFilters, InDisk,
         InSettings, In, allVars
<1> QED
  BY <1>1, <1>2, PTL DEF AppliesSpec

\* The type invariant, with what the operation in progress agrees with: a refresh,
\* an Update and a Delete have an entry, a Create has none.
THEOREM HandlersTypeCorrect == AppliesSpec => [](TypeOK /\ OpInv /\ PresenceInv)
BY HandlersInit, HandlersTypes, PresenceStep, HandlersView, PTL

\* DeletedIsGone: a Delete that succeeds leaves nothing at the API, or an object
\* that is being deleted when deleteState's deadline has passed.  What core deletes
\* the refresh before it has found; the last step of the Delete is the call that
\* deletes, or the wait for its end, and only the deadline cuts that short.
THEOREM DeletesComplete == AppliesSpec => DeletedIsGone
BY HandlersTypeCorrect, HandlersView, DeletedStep, PTL DEF DeletedIsGone

-----------------------------------------------------------------------------
(* Creating.                                                               *)

Clear == object.status \in {"none", "deleting"}

Careful(r) == DeletesLast(r) /\ MakesOnce(r) /\ KeepsObject(r)

\* A Create makes its object when it does not have the ID yet, has it in the
\* next step, and reads only what a poll has found.
CreateInv ==
  op = "create" =>
    /\ data.known \/ Clear \/ Step = "setID"
    /\ data.known => at = Len(resource.create) \/ Before(resource.create, at, {"setID"})
    /\ ~ data.known /\ ~ resource.adopts => ~ Before(resource.create, at, {"setID"})
    /\ at > 1 /\ resource.create[at - 1] \in {"poll", "pollReady"}
         => object.status # "hidden"

\* The entry leads to the object.
LeadsInv ==
  Careful(resource) /\ ~ lost =>
    /\ ~ strays
    /\ op \in {"none", "plan"} /\ entry.status = "none" => Clear
    /\ op = "update" /\ object.status = "hidden" => Has(resource.update, {"put"})
    /\ CreateInv

\* The steps of a Create that are particular to it.
Particular == {"make", "put", "approve", "setID", "read", "adopt"}

LEMMA PlainStep ==
  ASSUME TypeOK, Handler, Step \notin Particular
  PROVE  /\ UNCHANGED strays /\ (lost => lost')
         /\ Clear => Clear'
         /\ object'.status = "hidden" => object.status = "hidden"
         /\ \/ /\ Continue(data) \/ Continue(Seen(data))
               /\ Step \in {"poll", "pollReady"} => object'.status # "hidden"
            \/ Fail(data)
            \/ op = "delete" /\ Succeed(data)
            \/ UNCHANGED <<entry, op, at, data>>
<1>0. object \in Objects
  BY DEF TypeOK, Objects
<1>1. /\ Removed.status \in {"none", "deleting"} /\ Written.status = object.status
      /\ RemovedIfFound.status \in {object.status, "none", "deleting"}
      /\ NoObject.status = "none"
  BY <1>0 DEF Removed, RemovedIfFound, Written, NoObject, Objects
<1>2. Found => object.status # "hidden"
  BY DEF Found, Visible
<1>3. Answer => (Continue(data) \/ Fail(data)) /\ (lost => lost')
  <2>1. CASE Continue(data) /\ NoFault
    BY <2>1 DEF NoFault
  <2>2. ASSUME Fail(data), lost' = (lost \/ (Step \in {"make", "put", "approve"} /\ ~data.known)), lost
        PROVE  lost'
    BY <2>2, Zenon
  <2> QED
    BY <2>1, <2>2, Zenon DEF Answer
<1>4. ASSUME Check \/ Change \/ Rename \/ Rest \/ Exchange
      PROVE  /\ UNCHANGED strays /\ (lost => lost') /\ object'.status = object.status
             /\ Continue(data) \/ Fail(data)
             /\ Step \notin {"poll", "pollReady"}
  <2>1. [Written EXCEPT !.moved = object.main # goal].status = object.status
    BY <1>0, <1>1 DEF Written, Objects
  <2>2. CASE Rename
    BY <1>3, <2>1, <2>2 DEF Rename, Refuse, NoFault
  <2>3. CASE Check \/ Change \/ Rest \/ Exchange
    BY <1>0, <1>1, <1>3, <2>3 DEF Check, Change, Rest, Exchange, Refuse, Pass, NoFault, Objects
  <2> QED
    BY <1>4, <2>2, <2>3
<1>5. ASSUME Upload \/ Refused \/ Leave
      PROVE  /\ UNCHANGED strays /\ (lost => lost')
             /\ object'.status \in {object.status, "none", "deleting"}
             /\ Continue(data) \/ Fail(data)
             /\ Step \notin {"poll", "pollReady"}
  BY <1>0, <1>1, <1>5 DEF Upload, Refused, Leave, Refuse, Pass, NoFault, Objects
<1>6. ASSUME Poll \/ Reconcile \/ Wait \/ Inspect \/ AwaitConnected
      PROVE  /\ UNCHANGED strays /\ (lost => lost')
             /\ object'.status \in {object.status, "none"}
             /\ \/ /\ Continue(data) \/ Continue(Seen(data))
                   /\ Step \in {"poll", "pollReady"} => object'.status # "hidden"
                \/ Fail(data)
                \/ UNCHANGED <<entry, op, at, data>>
  BY <1>0, <1>1, <1>2, <1>6
  DEF Poll, Reconcile, Wait, Inspect, AwaitConnected, Refuse, Pass, NoFault, Ready, Objects
<1>7. ASSUME \/ Unset \/ Remove \/ RemoveStrict \/ RemoveUntilGone \/ DeleteState
             \/ WaitGone \/ CallFails \/ WaitExpires \/ DeadlineTaken
      PROVE  /\ UNCHANGED strays /\ (lost => lost')
             /\ object'.status \in {object.status, "none", "deleting"}
             /\ \/ Continue(data) /\ Step \notin {"poll", "pollReady"}
                \/ Fail(data)
                \/ op = "delete" /\ Succeed(data)
                \/ UNCHANGED <<entry, op, at, data>>
  BY <1>0, <1>1, <1>3, <1>7
  DEF Unset, Remove, RemoveStrict, RemoveUntilGone, DeleteState, WaitGone, CallFails, WaitExpires,
      DeadlineTaken, Refuse, Pass, NoFault, Objects
<1>8. ~ (Adopt \/ Make \/ Put \/ Approve \/ SetID \/ Read)
  BY DEF Adopt, Make, Put, Approve, SetID, Read, Particular
<1> QED
  BY <1>4, <1>5, <1>6, <1>7, <1>8 DEF Handler, Clear

LEMMA ParticularStep ==
  ASSUME TypeOK, Handler, Step \in Particular
  PROVE  \/ Adopt \/ Make \/ Put \/ Approve \/ SetID \/ Read \/ CallFails
BY DEF Handler, Check, Change, Rename, Rest, Upload, Exchange, Refused, Leave, Poll, Reconcile,
       Wait, Inspect, AwaitConnected, Unset, Remove, RemoveStrict, RemoveUntilGone, DeleteState,
       WaitGone, WaitExpires, DeadlineTaken, Waits, Polls, Particular

LEMMA CreateFacts ==
  ASSUME TypeOK, op = "create", Careful(resource), CreateInv
  PROVE  /\ Steps = resource.create /\ Step = Steps[at] /\ Step # "approve"
         /\ Len(Steps) \in Nat /\ DOMAIN Steps = 1..Len(Steps) /\ at \in 1..Len(Steps)
         /\ Step \in {"make", "put"} =>
              /\ at < Len(Steps) /\ Steps[at + 1] = "setID"
              /\ ~ data.known /\ Clear
         /\ Step = "read" /\ resource.missing = "dropNew" => object.status # "hidden"
         /\ Step = "read" /\ resource.missing = "remake" => data.known
<1>1. /\ Steps = resource.create /\ Step = Steps[at]
      /\ Len(Steps) \in Nat /\ DOMAIN Steps = 1..Len(Steps) /\ at \in 1..Len(Steps)
  BY StepsFacts DEF Steps, Running
<1>2. Step # "approve"
  BY <1>1 DEF Careful, KeepsObject, Has
<1>3. Step \in {"make", "put"} =>
        /\ at < Len(Steps) /\ Steps[at + 1] = "setID"
        /\ ~ Before(resource.create, at, {"setID"})
  BY <1>1 DEF Careful, MakesOnce, Makes
<1>4. /\ Step = "read" /\ resource.missing = "dropNew"
           => at > 1 /\ resource.create[at - 1] \in {"poll", "pollReady"}
      /\ Step = "read" /\ resource.missing = "remake"
           => ~ resource.adopts /\ Before(resource.create, at, {"setID"})
  BY <1>1 DEF Careful, MakesOnce
<1> QED
  BY <1>1, <1>2, <1>3, <1>4 DEF CreateInv

\* Create goes on with what the next step needs, or ends with an entry.
LEMMA CreateGoesOn ==
  ASSUME TypeOK, op = "create", Careful(resource), CreateInv, resource' = resource,
         NEW d \in Data, Continue(d),
         d.known \/ Clear' \/ Step \in {"make", "put"},
         d.known => data.known \/ Step = "setID",
         data.known \/ Step = "setID" => d.known,
         Step \in {"poll", "pollReady"} => object'.status # "hidden"
  PROVE  /\ CreateInv' /\ op' \in {"create", "none"}
         /\ op' = "none" => entry'.status = "kept"
<1> USE CreateFacts
<1>1. CASE at < Len(Steps)
  <2>1. at' = at + 1 /\ data' = d /\ op' = op
    BY <1>1 DEF Continue
  <2>2. Step' = Steps[at + 1]
    BY <1>1, <2>1 DEF Step, Steps
  <2>3. Before(resource.create, at + 1, {"setID"})
          <=> Before(resource.create, at, {"setID"}) \/ Step = "setID"
    BY DEF Before
  <2>4. at + 1 - 1 = at
    OBVIOUS
  <2> QED
    BY <1>1, <2>1, <2>2, <2>3, <2>4 DEF CreateInv
<1>2. CASE ~ (at < Len(Steps))
  BY <1>2 DEF Continue, Succeed, Idle, Stored, CreateInv
<1> QED
  BY <1>1, <1>2

\* Create fails with a tainted entry, or without an object.
LEMMA CreateFails ==
  ASSUME op = "create", Fail(data)
  PROVE  CreateInv' /\ op' = "none" /\ (entry'.status = "none" => ~ data.known)
BY DEF Fail, Idle, AfterFailure, Stored, CreateInv

LEMMA CreateStep ==
  ASSUME TypeOK, PresenceInv, op = "create", Careful(resource), CreateInv, Handler, ~ lost'
  PROVE  /\ ~ strays => ~ strays'
         /\ CreateInv' /\ op' \in {"create", "none"}
         /\ op' = "none" /\ entry'.status = "none" => Clear'
<1> USE CreateFacts
<1>0. /\ resource' = resource /\ object \in Objects /\ data \in Data /\ entry \in Entries
      /\ strays \in BOOLEAN /\ ~ object.moved
  BY DEF Handler, TypeOK, Objects, Data, Entries, PresenceInv, Careful, KeepsObject
<1>1. /\ \A d : Continue(d) => op' \in {"create", "none"}
      /\ Seen(data) \in Data /\ Seen(data).known = data.known
      /\ [data EXCEPT !.main = 0, !.rest = 0].known = data.known
      /\ [data EXCEPT !.main = 0, !.rest = 0] \in Data
      /\ [data EXCEPT !.known = TRUE].known /\ [data EXCEPT !.known = TRUE] \in Data
  <2>1. \A d : Continue(d) => op' \in {"create", "none"}
    BY DEF Continue, Succeed, Idle
  <2>2. object.main \in Settings /\ object.rest \in Settings /\ 0 \in Settings
    BY <1>0 DEF Objects, Settings
  <2>3. Seen(data) \in Data /\ Seen(data).known = data.known
    BY <1>0, <2>2 DEF Seen, Data
  <2>4. \A v \in Settings : /\ [data EXCEPT !.main = v, !.rest = v] \in Data
                           /\ [data EXCEPT !.main = v, !.rest = v].known = data.known
    BY <1>0 DEF Data
  <2>5. [data EXCEPT !.known = TRUE].known /\ [data EXCEPT !.known = TRUE] \in Data
    BY <1>0 DEF Data
  <2> QED
    BY <2>1, <2>2, <2>3, <2>4, <2>5
<1>2. CASE Step \notin Particular
  <2>0. /\ ~ strays => ~ strays'
        /\ Clear => Clear'
        /\ object'.status = "hidden" => object.status = "hidden"
        /\ data.known \/ Clear'
        /\ Step \notin {"make", "put", "setID"}
    BY <1>0, <1>2, PlainStep DEF CreateInv, Particular
  <2>1. ASSUME NEW d \in Data, Continue(d), d.known = data.known,
               Step \in {"poll", "pollReady"} => object'.status # "hidden"
        PROVE  CreateInv' /\ op' \in {"create", "none"} /\ (op' = "none" => entry'.status = "kept")
    BY <1>0, <2>0, <2>1, CreateGoesOn
  <2>2. CASE Fail(data)
    BY <2>0, <2>2, CreateFails
  <2>3. CASE UNCHANGED <<entry, op, at, data>>
    BY <1>0, <2>0, <2>3 DEF CreateInv
  <2> QED
    BY <1>0, <1>1, <1>2, <2>0, <2>1, <2>2, <2>3, PlainStep
<1>3. CASE Step \in {"make", "put"} /\ ~ CallFails
  <2>1. ~ data.known /\ Clear /\ object.status # "hidden"
    BY <1>3 DEF Clear
  <2>2. Make \/ Put
    BY <1>3, ParticularStep DEF Particular, Adopt, Approve, SetID, Read
  <2>3. strays' = strays
    BY <1>0, <2>1, <2>2 DEF Make, Put, Clear, Exists, Skip, Refuse
  <2>4. ASSUME Continue(data)
        PROVE  CreateInv' /\ op' \in {"create", "none"} /\ (op' = "none" => entry'.status = "kept")
    BY <1>0, <1>3, <2>1, <2>4, CreateGoesOn
  <2>5. Answer => Continue(data)
    BY <1>3, <2>1 DEF Answer
  <2>6. CASE New \/ NewHidden \/ Answer
    BY <2>3, <2>4, <2>5, <2>6 DEF New, NewHidden
  <2>7. CASE Skip(data) /\ Make /\ resource.adopts
    BY <1>0, <2>1, <2>3, <2>7 DEF Skip, CreateInv, Clear
  <2>8. CASE Refuse
    BY <2>1, <2>3, <2>8, CreateFails DEF Refuse, Clear
  <2> QED
    BY <2>2, <2>6, <2>7, <2>8 DEF Make, Put
<1>4. CASE Step = "setID"
  <2>1. SetID
    BY <1>4, ParticularStep DEF Particular, Adopt, Make, Put, Approve, Read, CallFails, Local
  <2> QED
    BY <1>0, <1>1, <1>4, <2>1, CreateGoesOn DEF SetID
<1>5. CASE Step = "read" /\ ~ CallFails
  <2>1. Read
    BY <1>5, ParticularStep DEF Particular, Adopt, Make, Put, Approve, SetID
  <2>2. ASSUME NEW d \in Data, Pass(d), d.known = data.known
        PROVE  /\ ~ strays => ~ strays'
               /\ CreateInv' /\ op' \in {"create", "none"} /\ (op' = "none" => entry'.status = "kept")
    <3>1. data.known \/ Clear'
      BY <1>5, <2>2 DEF CreateInv, Pass, Clear
    <3> QED
      BY <1>0, <1>5, <2>2, <3>1, CreateGoesOn DEF Pass
  <2>3. CASE Drop /\ Drops /\ ~ Found
    <3>1. resource.missing = "dropNew"
      BY <2>3 DEF Drops
    <3>2. Clear /\ object' = object /\ strays' = strays
      BY <1>0, <1>5, <2>3, <3>1 DEF Drop, Found, Visible, Clear
    <3> QED
      BY <2>3, <3>2 DEF Drop, Idle, CreateInv, Clear
  <2>4. CASE Remake /\ resource.missing = "remake"
    BY <1>0, <1>5, <2>4 DEF Remake, CreateInv
  <2>5. CASE Refuse
    <3>1. data.known \/ Clear
      BY <1>5 DEF CreateInv
    <3> QED
      BY <2>5, <3>1, CreateFails DEF Refuse, Clear
  <2> QED
    BY <1>0, <1>1, <2>1, <2>2, <2>3, <2>4, <2>5 DEF Read, ReadMissing
<1>6. CASE Step = "adopt" /\ ~ CallFails
  <2>1. Adopt
    BY <1>6, ParticularStep DEF Particular, Read, Make, Put, Approve, SetID
  <2>2. CASE Visible /\ Skip([data EXCEPT !.known = TRUE])
    BY <1>0, <1>1, <2>2 DEF Skip, Visible, CreateInv
  <2>3. CASE Pass(data)
    <3>1. data.known \/ Clear'
      BY <1>6, <2>3 DEF CreateInv, Pass, Clear
    <3> QED
      BY <1>0, <1>6, <2>3, <3>1, CreateGoesOn DEF Pass
  <2> QED
    BY <2>1, <2>2, <2>3 DEF Adopt
<1>7. CASE CallFails
  <2>1. data.known \/ Clear
    BY <1>7 DEF CallFails, Local, CreateInv
  <2> QED
    BY <1>7, <2>1, CreateFails DEF CallFails, Clear
<1>8. Step # "approve"
  OBVIOUS
<1> QED
  BY <1>2, <1>3, <1>4, <1>5, <1>6, <1>7, <1>8 DEF Particular

\* An Update neither makes a second object nor gives up one that is new.
LEMMA UpdateStep ==
  ASSUME TypeOK, OpInv, PresenceInv, op = "update", Careful(resource), Handler,
         object.status = "hidden" => Has(resource.update, {"put"})
  PROVE  /\ strays' = strays /\ op' \in {"update", "none"}
         /\ op' = "none" /\ entry'.status = "none" => Clear'
         /\ object'.status = "hidden" => Has(resource.update, {"put"})
<1>0. /\ resource' = resource /\ object \in Objects /\ ~ object.moved /\ entry.status # "none"
      /\ Steps = resource.update /\ at \in DOMAIN Steps /\ Step = Steps[at]
  BY StepsFacts
  DEF Handler, TypeOK, Objects, PresenceInv, Careful, KeepsObject, OpInv, Steps, Running
<1>1. Step \notin {"make", "approve"}
  BY <1>0 DEF Careful, KeepsObject, Has
<1>2. \A d : Continue(d) \/ Fail(d) => op' \in {"update", "none"} /\ entry'.status # "none"
  BY <1>0 DEF Continue, Succeed, Idle, Fail, AfterFailure, Stored
<1>3. UNCHANGED <<entry, op>> => op' \in {"update", "none"} /\ entry'.status # "none"
  BY <1>0
<1>4. CASE Step \notin Particular
  BY <1>2, <1>3, <1>4, PlainStep
<1>5. CASE Step = "put" /\ Put
  <2>1. Has(resource.update, {"put"})
    BY <1>0, <1>5 DEF Has
  <2> QED
    BY <1>2, <1>5, <2>1 DEF Put, New, NewHidden, Answer
<1>6. CASE SetID
  BY <1>0, <1>2, <1>6 DEF SetID, Objects
<1>7. CASE Adopt
  BY <1>2, <1>3, <1>7 DEF Adopt, Skip, Pass
<1>8. CASE Read
  <2>1. CASE Drop /\ Drops /\ ~ Found
    <3>1. resource.framework = "sdk" /\ GivesUp(resource) /\ Has(resource.update, {"read"})
      BY <1>0, <1>8, <2>1 DEF Drops, GivesUp, Has, Read
    <3>2. object.status # "hidden"
      BY <3>1 DEF Careful, KeepsObject
    <3> QED
      BY <1>0, <2>1, <3>2 DEF Drop, Idle, Found, Visible, Clear
  <2>2. CASE Remake
    BY <1>3, <2>2 DEF Remake
  <2>3. ASSUME NEW d, Pass(d)
        PROVE  UNCHANGED <<object, strays>> /\ op' \in {"update", "none"} /\ entry'.status # "none"
    BY <1>2, <2>3 DEF Pass
  <2>4. CASE Refuse
    BY <1>2, <2>4 DEF Refuse
  <2> QED
    BY <1>8, <2>1, <2>2, <2>3, <2>4 DEF Read, ReadMissing
<1>9. CASE CallFails
  BY <1>2, <1>9 DEF CallFails
<1>10. ~ Make /\ ~ Approve /\ (Put => Step = "put")
  BY <1>1 DEF Make, Approve, Put
<1> QED
  BY <1>4, <1>5, <1>6, <1>7, <1>8, <1>9, <1>10, ParticularStep

LEMMA LostStays ==
  ASSUME TypeOK, Handler, ~ lost'
  PROVE  ~ lost
<1>1. CASE Step \notin Particular
  BY <1>1, PlainStep
<1>2. Answer => ~ lost
  <2>1. CASE Continue(data) /\ NoFault
    BY <2>1 DEF NoFault
  <2>2. ASSUME lost' = (lost \/ (Step \in {"make", "put", "approve"} /\ ~data.known))
        PROVE  ~ lost
    BY <2>2, Zenon
  <2> QED
    BY <2>1, <2>2, Zenon DEF Answer
<1>3. NoFault => ~ lost
  BY DEF NoFault
<1>4. CASE Adopt \/ SetID \/ Read \/ CallFails
  BY <1>3, <1>4
  DEF Adopt, SetID, Read, CallFails, Skip, Pass, Refuse, Drop, Remake, ReadMissing
<1>5. CASE Make \/ Put \/ Approve
  BY <1>2, <1>3, <1>5 DEF Make, Put, Approve, New, NewHidden, Skip, Pass, Refuse
<1> QED
  BY <1>1, <1>4, <1>5, ParticularStep

LEMMA LeadsStep == TypeOK /\ OpInv /\ PresenceInv /\ LeadsInv /\ [Next]_vars => LeadsInv'
<1> SUFFICES ASSUME TypeOK, OpInv, PresenceInv, LeadsInv, [Next]_vars
             PROVE  LeadsInv'
  OBVIOUS
<1>r. resource' = resource
  BY DEF Next, Apply, Plan, Handler, Outsider, BuildFails, Backend, Configure, vars
<1> SUFFICES ASSUME Careful(resource), ~ lost'
             PROVE  LeadsInv'
  BY <1>r DEF LeadsInv
<1>0. /\ resource' = resource /\ ~ lost /\ DeletesLast(resource)
      /\ ~ strays
      /\ op \in {"none", "plan"} /\ entry.status = "none" => Clear
      /\ op = "update" /\ object.status = "hidden" => Has(resource.update, {"put"})
      /\ CreateInv
  <2>1. Handler => resource' = resource /\ ~ lost
    BY LostStays DEF Handler
  <2>2. resource' = resource /\ ~ lost
    BY <2>1 DEF Next, Apply, Plan, Outsider, BuildFails, Backend, Configure, vars
  <2> QED
    BY <2>2 DEF LeadsInv, Careful
<1>1. CASE Handler /\ op = "create"
  BY <1>0, <1>1, CreateStep DEF LeadsInv
<1>2. CASE Handler /\ op = "update"
  BY <1>0, <1>2, UpdateStep DEF LeadsInv, CreateInv
<1>3. CASE Handler /\ op = "delete"
  <2>1. Step \notin Particular
    BY <1>0, <1>3, DeleteActions DEF DeleteSteps, Particular
  <2>2. strays' = strays /\ op' \in {"delete", "none", "plan"}
        /\ (op' = "none" => entry'.status # "none")
    BY <1>3, <2>1, PlainStep DEF OpInv, Continue, Succeed, Fail, Idle, AfterFailure
  <2>3. op' = "plan" => Clear'
    BY <1>0, <1>3, DeleteStep DEF Exists, Clear
  <2> QED
    BY <1>0, <2>1, <2>2, <2>3 DEF LeadsInv, CreateInv
<1>4. CASE Handler /\ op = "refresh"
  <2>1. entry.status # "none" /\ ~ object.moved /\ object.status # "hidden"
    BY <1>0, <1>4 DEF OpInv, PresenceInv, Careful, KeepsObject
  <2>2. ~ Found => Clear
    BY <2>1 DEF Found, Visible, Clear
  <2> QED
    BY <1>0, <1>4, <2>1, <2>2, RefreshStep
    DEF LeadsInv, CreateInv, Fail, AfterFailure, Idle, Succeed, Stored, GiveUp, Remake, Clear
<1>5. CASE Apply
  BY <1>0, <1>5 DEF LeadsInv, CreateInv, Apply, Clear
<1>6. CASE Plan
  <2>1. /\ UNCHANGED <<object, strays, entry>> /\ object.status # "hidden"
        /\ Clear' = Clear
    BY <1>0, <1>6 DEF Plan, PresenceInv, Clear
  <2>2. CASE Verdict = "none"
    BY <1>0, <1>6, <2>1, <2>2 DEF LeadsInv, CreateInv, Plan, Idle
  <2>3. CASE Verdict = "create"
    <3>1. op' = "create" /\ at' = 1 /\ ~ data'.known
      <4>1. data' = [known |-> Verdict = "update", main |-> goal, rest |-> goal]
        BY <1>6, <2>3 DEF Plan
      <4>2. data'.known = (Verdict = "update")
        BY <4>1
      <4>3. ~ data'.known
        BY <2>3, <4>2
      <4> QED
        BY <1>6, <2>3, <4>3 DEF Plan
    <3>2. Clear'
      BY <1>0, <1>6, <2>1, <2>3 DEF Plan, Verdict
    <3>3. ~ Before(resource.create, 1, {"setID"})
      BY DEF Before
    <3> QED
      BY <1>0, <2>1, <3>1, <3>2, <3>3 DEF LeadsInv, CreateInv
  <2>4. CASE Verdict \in {"update", "delete"}
    BY <1>0, <1>6, <2>1, <2>4 DEF LeadsInv, CreateInv, Plan
  <2> QED
    BY <2>2, <2>3, <2>4 DEF Verdict
<1>7. CASE Outsider \/ BuildFails \/ Backend
  <2>1. UNCHANGED <<resource, strays, entry, op, at, data>>
    BY <1>7 DEF Outsider, BuildFails, Backend
  <2>2. (Clear => Clear') /\ (object'.status = "hidden" => object.status = "hidden")
    BY <1>7 DEF Outsider, BuildFails, Backend, Advanced, Clear, NoObject, TypeOK
  <2>3. Step' = Step
    BY <2>1 DEF Step, Steps
  <2> QED
    BY <1>0, <2>1, <2>2, <2>3 DEF LeadsInv, CreateInv
<1>8. CASE Configure \/ UNCHANGED vars
  BY <1>0, <1>8 DEF LeadsInv, CreateInv, Configure, vars, Clear, Step, Steps
<1>9. Handler => op \in {"refresh", "create", "update", "delete"}
  BY HandlerMoves DEF Running, TypeOK
<1> QED
  BY <1>1, <1>2, <1>3, <1>4, <1>5, <1>6, <1>7, <1>8, <1>9 DEF Next

\* StraysExcused: unless an answer was lost, no apply ends with an object that
\* neither an entry nor the name in the configuration leads to.  Create sets the ID
\* in the step after the one that makes the object, from where a failure leaves a
\* tainted entry; only a read that has found nothing gives an entry up.
THEOREM NoneAstray == AppliesSpec => []StraysExcused
<1>1. Init => LeadsInv
  BY DEF Init, LeadsInv, CreateInv, Clear, NoObject, NoEntry
<1>2. TypeOK /\ LeadsInv => StraysExcused
  <2> SUFFICES ASSUME TypeOK, LeadsInv, op = "none", ~ lost, resource \notin MayStray
               PROVE  ~ (strays \/ (Exists /\ entry.status = "none" /\ object.status # "deleting"))
    BY DEF StraysExcused
  <2>1. Careful(resource)
    BY HandlersAssumption DEF TypeOK, Careful
  <2> QED
    BY <2>1 DEF LeadsInv, Clear, Exists
<1> QED
  BY <1>1, <1>2, LeadsStep, HandlersTypeCorrect, HandlersView, PTL

-----------------------------------------------------------------------------
(* Reading.                                                                *)

Exchanges(r) == Has(r.update, {"exchange"})

\* A plan is made of what the refresh before it has shown; what is not shown is set
\* with what is.
ShowInv ==
  ShowsAll(resource) =>
    /\ op = "plan" /\ entry # NoEntry =>
         \/ entry.main = 0
         \/ /\ Visible /\ entry.main = object.main
            /\ Exchanges(resource) \/ entry.rest = object.rest
    /\ Exchanges(resource) => object.main = object.rest

LEMMA ShownFields ==
  ASSUME TypeOK
  PROVE  /\ Seen(data).main = object.main
         /\ ~ Exchanges(resource) => Seen(data).rest = object.rest
         /\ [data EXCEPT !.main = 0, !.rest = 0].main = 0
         /\ Written.main = goal /\ Written.rest = IF RestFollows THEN object.rest ELSE goal
         /\ \A b : [Written EXCEPT !.moved = b].main = Written.main
         /\ \A b : [Written EXCEPT !.moved = b].rest = Written.rest
<1>1. data \in Data /\ object \in Objects
  BY DEF TypeOK, Data, Objects
<1>2. /\ Seen(data).main = object.main
      /\ ~ Exchanges(resource) => Seen(data).rest = object.rest
  BY <1>1 DEF Seen, Data, Exchanges
<1>3. [data EXCEPT !.main = 0, !.rest = 0].main = 0
  BY <1>1 DEF Data
<1>4. Written.main = goal /\ Written.rest = IF RestFollows THEN object.rest ELSE goal
  BY <1>1 DEF Written, Objects
<1>5. /\ \A b : [Written EXCEPT !.moved = b].main = Written.main
      /\ \A b : [Written EXCEPT !.moved = b].rest = Written.rest
  BY <1>1 DEF Written, Objects
<1> QED
  BY <1>2, <1>3, <1>4, <1>5

\* The settings of an object whose password is exchanged are set together.
LEMMA ExchangeStep ==
  ASSUME TypeOK, Handler, ShowsAll(resource), Exchanges(resource), object.main = object.rest
  PROVE  object'.main = object'.rest
<1>1. Step \notin {"rest", "upload", "reconcile", "unset"} /\ ~ RestFollows
  <2>1. \A i \in DOMAIN Steps : Steps[i] \notin {"rest", "upload", "reconcile", "unset"}
    <3>1. CASE op \in {"create", "update", "delete"}
      <4>1. Steps \in {resource.create, resource.update, resource.delete}
        BY <3>1 DEF Steps
      <4> QED
        BY <4>1 DEF ShowsAll, Exchanges, Has
    <3>2. CASE op \notin {"create", "update", "delete"}
      BY <3>2 DEF Steps
    <3> QED
      BY <3>1, <3>2
  <2> QED
    BY <2>1 DEF Step, RestFollows
<1>2. object \in Objects /\ resource.missing # "remake"
  BY DEF TypeOK, Objects, ShowsAll, Exchanges
<1>3. /\ Removed.main = Removed.rest /\ RemovedIfFound.main = RemovedIfFound.rest
      /\ Written.main = Written.rest /\ NoObject.main = NoObject.rest
      /\ [object EXCEPT !.moved = FALSE].main = [object EXCEPT !.moved = FALSE].rest
      /\ \A b : [Written EXCEPT !.moved = b].main = [Written EXCEPT !.moved = b].rest
  <2>1. NoObject.main = NoObject.rest
    BY DEF NoObject
  <2>2. Removed.main = Removed.rest
    BY <1>2, <2>1 DEF Removed, Objects
  <2>3. RemovedIfFound.main = RemovedIfFound.rest
    BY <2>2 DEF RemovedIfFound
  <2>4. Written.main = Written.rest
    BY <1>1, ShownFields
  <2>5. \A b : [Written EXCEPT !.moved = b].main = [Written EXCEPT !.moved = b].rest
    BY <2>4, ShownFields
  <2>6. [object EXCEPT !.moved = FALSE].main = [object EXCEPT !.moved = FALSE].rest
    BY <1>2 DEF Objects
  <2> QED
    BY <2>1, <2>2, <2>3, <2>4, <2>5, <2>6
<1>4. New \/ NewHidden => object'.main = object'.rest
  BY <1>1 DEF New, NewHidden
<1>5. ASSUME Check \/ Adopt \/ Make \/ Put \/ Approve \/ Change \/ Rename
      PROVE  object'.main = object'.rest
  <2>1. ASSUME Make \/ Put \/ Approve
        PROVE  New \/ NewHidden \/ object' \in {object, Written}
    BY <2>1 DEF Make, Put, Approve, Refuse, Pass, Skip
  <2>2. ASSUME Check \/ Adopt
        PROVE  object' = object
    BY <2>2 DEF Check, Adopt, Refuse, Pass, Skip
  <2>3. ASSUME Change \/ Rename
        PROVE  object' \in {object, Written} \/ \E b : object' = [Written EXCEPT !.moved = b]
    BY <2>3 DEF Change, Rename, Refuse
  <2> QED
    BY <1>3, <1>4, <1>5, <2>1, <2>2, <2>3
<1>6. ASSUME Exchange \/ SetID \/ Refused \/ Leave \/ Read \/ Poll \/ Wait \/ Inspect \/ AwaitConnected
      PROVE  object'.main = object'.rest
  BY <1>2, <1>3, <1>6
  DEF Exchange, SetID, Refused, Leave, Read, Poll, Wait, Inspect, AwaitConnected, Refuse, Pass,
      ReadMissing, Drop
<1>7. ASSUME \/ Remove \/ RemoveStrict \/ RemoveUntilGone \/ DeleteState
             \/ WaitGone \/ CallFails \/ WaitExpires \/ DeadlineTaken
      PROVE  object'.main = object'.rest
  BY <1>3, <1>7
  DEF Remove, RemoveStrict, RemoveUntilGone, DeleteState, WaitGone, CallFails, WaitExpires,
      DeadlineTaken, Refuse, Pass
<1>8. ~ (Rest \/ Upload \/ Reconcile \/ Unset)
  BY <1>1 DEF Rest, Upload, Reconcile, Unset
<1> QED
  BY <1>5, <1>6, <1>7, <1>8 DEF Handler

LEMMA ShowStep == TypeOK /\ OpInv /\ ShowInv /\ [Next]_vars => ShowInv'
<1> SUFFICES ASSUME TypeOK, OpInv, ShowInv, [Next]_vars
             PROVE  ShowInv'
  OBVIOUS
<1>r. resource' = resource
  BY DEF Next, Apply, Plan, Handler, Outsider, BuildFails, Backend, Configure, vars
<1> SUFFICES ASSUME ShowsAll(resource)
             PROVE  ShowInv'
  BY <1>r DEF ShowInv
<1> DEFINE Read0 == \/ entry.main = 0
                    \/ /\ Visible /\ entry.main = object.main
                       /\ Exchanges(resource) \/ entry.rest = object.rest
           Twins == Exchanges(resource) => object.main = object.rest
<1>0. /\ op = "plan" /\ entry # NoEntry => Read0
      /\ Twins /\ object \in Objects
  BY DEF ShowInv, TypeOK, Objects
<1> SUFFICES (op' = "plan" /\ entry' # NoEntry => Read0') /\ Twins'
  BY DEF ShowInv
<1>1. CASE Handler
  <2>1. Twins'
    BY <1>0, <1>1, ExchangeStep DEF Handler
  <2>2. ASSUME op' = "plan", entry' # NoEntry
        PROVE  Read0'
    <3>1. PICK d \in Data : Running /\ Moves(d)
      BY <1>1, HandlerMoves
    <3>2. op = "refresh"
      BY <1>1, <2>2, <3>1
      DEF Moves, Continue, Succeed, Jump, Fail, GiveUp, Idle, Running
    <3>3. CASE Found /\ object' = object /\ Succeed(Seen(data))
      <4>1. /\ entry'.main = object.main
            /\ Exchanges(resource) \/ entry'.rest = object.rest
        BY <3>2, <3>3, ShownFields DEF Succeed, Stored
      <4> QED
        BY <1>1, <3>3, <4>1 DEF Found, Visible, Handler
    <3>4. CASE Succeed([data EXCEPT !.main = 0, !.rest = 0])
      BY <3>2, <3>4, ShownFields DEF Succeed, Stored
    <3> QED
      BY <1>1, <2>2, <3>2, <3>3, <3>4, RefreshStep
      DEF Fail, Idle, GiveUp, Remake, ShowsAll
  <2> QED
    BY <2>1, <2>2
<1>2. CASE Apply
  BY <1>0, <1>2 DEF Apply, TypeOK
<1>3. CASE Plan
  BY <1>0, <1>3 DEF Plan, Idle, Verdict
<1>4. CASE Outsider \/ BuildFails \/ Backend
  <2>1. UNCHANGED <<resource, op>> /\ op # "plan"
    BY <1>4 DEF Outsider, BuildFails, Backend
  <2>2. object.main = object.rest => object'.main = object'.rest
    BY <1>0, <1>4 DEF Outsider, BuildFails, Backend, Advanced, NoObject, Objects
  <2> QED
    BY <1>0, <2>1, <2>2
<1>5. CASE Configure \/ UNCHANGED vars
  BY <1>0, <1>5 DEF Configure, vars, Visible
<1> QED
  BY <1>1, <1>2, <1>3, <1>4, <1>5 DEF Next

LEMMA HandlersNoop == TypeOK /\ ShowInv => NoopIsRight
<1> SUFFICES ASSUME TypeOK, ShowInv, op = "plan", Verdict = "none", goal # 0, resource \notin Blind
             PROVE  Visible /\ object.main = goal /\ object.rest = goal
  BY DEF NoopIsRight
<1>1. ShowsAll(resource)
  BY HandlersAssumption DEF TypeOK
<1>2. entry = [status |-> "kept", main |-> goal, rest |-> goal]
  BY DEF Verdict
<1>3. entry.status = "kept" /\ entry.main = goal /\ entry.rest = goal /\ entry # NoEntry
  BY <1>2 DEF NoEntry
<1> QED
  BY <1>1, <1>3 DEF ShowInv

LEMMA HandlersShown == AppliesSpec => [](TypeOK /\ ShowInv)
<1>1. Init => ShowInv
  BY DEF Init, ShowInv, NoObject
<1> QED
  BY <1>1, ShowStep, HandlersTypeCorrect, HandlersView, PTL

-----------------------------------------------------------------------------
(* The attributes of schemas.                                              *)

\* Since the refresh the state is what Flatten has made of the object.
ShownInv ==
  stored # "gone" /\ (verb = "plan" \/ (alone /\ verb = "update"))
    => \E before \in Attribute!Values :
         stored = Attribute!Flattened(Attribute!k, before, "nil", Attribute!Answer(Attribute!k, remote, omits))

\* What is done is what the plan says.
PlannedInv ==
  /\ verb \in {"create", "update", "replace"} => config # "absent"
  /\ verb \in {"create", "replace"} => planned = Attribute!PlannedAnew
  /\ verb = "update" => stored # "gone" /\ planned = Attribute!PlannedInPlace /\ Attribute!Changes
  /\ verb \in {"replace", "destroy"} => stored # "gone"

AttributeInv == Attribute!TypeOK /\ ShownInv /\ PlannedInv

LEMMA Kinds ==
  ASSUME attribute \in Schema!SchemaAttributes, NEW kind, kind = Attribute!k
  PROVE  /\ \E type \in Attribute!Types : kind \cap Attribute!Types = {type}
         /\ Attribute!Configurable(kind) \/ Attribute!Is("computed", kind)
         /\ Attribute!Is("default", kind) => Attribute!Is("optional", kind) /\ ~ Attribute!Is("block", kind)
         /\ Attribute!Is("hidden", kind) => ~ Attribute!Is("nested", kind) /\ ~ Attribute!Is("block", kind)
         /\ Attribute!Is("nested", kind) =>
              /\ Attribute!Is("computed", kind) /\ ~ Attribute!Configurable(kind)
              /\ ~ Attribute!Is("keeps", kind)
         /\ Attribute!Is("replaces", kind) =>
              ~ Attribute!Is("stays", kind) /\ ~ (Attribute!Is("block", kind) /\ Attribute!Is("computed", kind))
         /\ (/\ Attribute!Is("replaces", kind) /\ Attribute!Is("computed", kind)
             /\ ~ Attribute!Is("default", kind) /\ ~ Attribute!Is("keeps", kind))
              => kind \in {{type, "optional", "computed", "replaces"} : type \in {"string", "collection"}}
BY AttributesAssumption DEF Attribute!k, Attribute!Is, Attribute!Configurable

LEMMA OneType ==
  ASSUME NEW kind, \E type \in Attribute!Types : kind \cap Attribute!Types = {type}
  PROVE  \A u, v \in Attribute!Types : Attribute!Is(u, kind) /\ Attribute!Is(v, kind) => u = v
BY DEF Attribute!Is

\* What Flatten leaves in the state.
LEMMA FlattenedValue ==
  ASSUME NEW kind, NEW current \in Attribute!Values, NEW given,
         NEW answer \in Attribute!Values \cup {"absent"}
  PROVE  Attribute!Flattened(kind, current, given, answer) \in Attribute!Values
BY DEF Attribute!Flattened, Attribute!FlattenedComputedBlock, Attribute!FlattenedEmpty, Attribute!Values,
  Attribute!Real

LEMMA Answers ==
  ASSUME NEW kind, NEW v \in Attribute!Real \cup {"none", "gone"}, NEW o \in BOOLEAN
  PROVE  /\ Attribute!Answer(kind, v, o) \in Attribute!Real \cup {"empty", "absent"}
         /\ Attribute!Is("hidden", kind) => Attribute!Answer(kind, v, o) = "absent"
         /\ ~ Attribute!Is("hidden", kind) /\ v \in Attribute!Real => Attribute!Answer(kind, v, o) = v
         /\ v \notin Attribute!Real =>
              Attribute!Answer(kind, v, o) = Attribute!Answer(kind, "none", o)
              /\ Attribute!Answer(kind, v, o) \in {"empty", "absent"}
BY DEF Attribute!Answer, Attribute!Real

\* The value of a plan.
LEMMA PlannedValue ==
  ASSUME Attribute!TypeOK, config # "absent", NEW prior \in Attribute!Values, NEW new, NEW changed
  PROVE  Attribute!Planned(Attribute!k, config, prior, new, changed) \in Attribute!Values \cup {"unknown"}
BY DEF Attribute!TypeOK, Attribute!ConfigValues, Attribute!Planned, Attribute!Proposed, Attribute!Values,
  Attribute!Real

LEMMA SentValue ==
  ASSUME NEW kind, NEW plan \in Attribute!Values \cup {"unknown"}, NEW prior
  PROVE  Attribute!Sent(kind, plan, prior) \in Attribute!Values
BY DEF Attribute!Sent, Attribute!Values, Attribute!Real

LEMMA AppliedValue ==
  ASSUME NEW sent \in Attribute!Values, NEW before \in Attribute!Real \cup {"none"}
  PROVE  Attribute!Applied(sent, before) \subseteq Attribute!Real \cup {"none"}
BY DEF Attribute!Applied, Attribute!Values, Attribute!RemoteValues, Attribute!Real

LEMMA AttributeStart == Attribute!Init \/ AttributeSettled => AttributeInv
<1> USE DEF AttributeInv, ShownInv, PlannedInv, Attribute!TypeOK
<1>1. 0 \in 0..MaxEvents
  BY ViewsAssumption
<1>2. CASE Attribute!Init
  BY <1>1, <1>2 DEF Attribute!Init, Attribute!RemoteValues, Attribute!Real, Attribute!Values
<1>3. CASE AttributeSettled
  <2>1. (CHOOSE a \in Schema!SchemaAttributes : TRUE) \in Schema!SchemaAttributes
    <3>1. Schema!SchemaAttributes # {}
      <4>1. Schema!StaticIP \in Schema!Schemas
        BY DEF Schema!Schemas
      <4>2. "project" \in DOMAIN Schema!StaticIP /\ "secret" \notin Schema!StaticIP["project"]
        BY DEF Schema!StaticIP, Schema!ID, Schema!Identifying, Schema!Fixed, Schema!Replacing, Schema!Needed
      <4> DEFINE of(schema) ==
                   {[kind |-> schema[a], siblings |-> Schema!Siblings(schema, a)] :
                      a \in {b \in DOMAIN schema : "secret" \notin schema[b]}}
      <4>3. Schema!SchemaAttributes = UNION {of(schema) : schema \in Schema!Schemas}
        BY DEF Schema!SchemaAttributes
      <4>4. of(Schema!StaticIP) # {}
        BY <4>2
      <4> HIDE DEF of
      <4> QED
        BY <4>1, <4>3, <4>4
    <3> QED
      BY <3>1
  <2>2. "absent" \in Attribute!ConfigValues(attribute.kind) \cup {"absent"}
    OBVIOUS
  <2> QED
    BY <1>1, <1>3, <2>1 DEF AttributeSettled, Attribute!ConfigValues, Attribute!Values
<1> QED
  BY <1>2, <1>3

\* What a handler leaves in the state.
LEMMA ResultValue ==
  ASSUME Attribute!TypeOK, NEW v \in Attribute!Real \cup {"none"}
  PROVE  Attribute!Result(v) \in Attribute!Values
<1>1. Attribute!Answer(Attribute!k, v, omits) \in Attribute!Values \cup {"absent"}
  BY Answers DEF Attribute!TypeOK, Attribute!Values
<1>2. (IF planned = "unknown" THEN "none" ELSE planned) \in Attribute!Values
  BY DEF Attribute!TypeOK, Attribute!Values
<1> QED
  BY <1>1, <1>2, FlattenedValue DEF Attribute!Result

LEMMA AttributeStep == AttributeInv /\ [Attribute!Next]_attributeVars => AttributeInv'
<1> SUFFICES ASSUME AttributeInv, [Attribute!Next]_attributeVars
             PROVE  AttributeInv'
  OBVIOUS
<1> USE DEF AttributeInv
<1>a. attribute' = attribute /\ omits' = omits
  BY DEF Attribute!Next, Attribute!Work, Attribute!Refresh, Attribute!Plan, Attribute!Create,
         Attribute!Update, Attribute!Delete, Attribute!CallFails, Attribute!Configure, Attribute!Touch,
         Attribute!Outsider, attributeVars
<1>b. Attribute!k' = Attribute!k
  BY <1>a DEF Attribute!k
<1>e. Attribute!Event => events' \in 0..MaxEvents
  BY ViewsAssumption DEF Attribute!Event, Attribute!TypeOK
<1>g. /\ "gone" \notin Attribute!Real \cup {"none"} /\ "gone" \notin Attribute!Values
      /\ "none" \in Attribute!Values /\ "absent" \notin Attribute!ConfigValues(Attribute!k)
      /\ Attribute!Real \subseteq Attribute!Values
  BY DEF Attribute!Real, Attribute!Values, Attribute!ConfigValues
<1>p. UNCHANGED config => Attribute!PlannedAnew' = Attribute!PlannedAnew
  BY <1>b DEF Attribute!PlannedAnew
<1>q. UNCHANGED <<config, stored, touched>> =>
        /\ Attribute!PlannedInPlace' = Attribute!PlannedInPlace
        /\ Attribute!Changes' <=> Attribute!Changes
  BY <1>b DEF Attribute!PlannedInPlace, Attribute!Changes
<1>1. CASE Attribute!Refresh
  <2>1. CASE stored = "gone"
    BY <1>1, <2>1, <1>a, <1>b DEF Attribute!Refresh, Attribute!TypeOK, ShownInv, PlannedInv
  <2>2. CASE stored # "gone"
    <3>1. /\ stored \in Attribute!Values
          /\ stored' = Attribute!Flattened(Attribute!k, stored, "nil", Attribute!Answer(Attribute!k, remote, omits))
          /\ verb' = "plan" /\ alone' = TRUE
          /\ UNCHANGED <<attribute, omits, config, touched, remote, tainted, planned, events>>
      BY <1>1, <2>2 DEF Attribute!Refresh, Attribute!TypeOK
    <3>2. Attribute!Answer(Attribute!k, remote, omits) \in Attribute!Values \cup {"absent"}
      BY Answers DEF Attribute!TypeOK, Attribute!Values
    <3>3. stored' \in Attribute!Values
      BY <3>1, <3>2, FlattenedValue
    <3>4. ShownInv'
      BY <1>b, <3>1 DEF ShownInv
    <3> QED
      BY <1>1, <2>2, <3>1, <3>3, <3>4, <1>a, <1>b, <1>g DEF Attribute!Refresh, Attribute!TypeOK, PlannedInv
  <2> QED
    BY <2>1, <2>2
<1>2. CASE Attribute!Plan
  <2>1. /\ Attribute!Verdict \in {"none", "destroy", "create", "replace", "update"}
        /\ Attribute!Verdict \in {"create", "replace", "update"} => config # "absent"
        /\ Attribute!Verdict = "create" => stored = "gone"
        /\ Attribute!Verdict \in {"destroy", "replace", "update"} => stored # "gone"
        /\ Attribute!Verdict = "update" => Attribute!Changes
    BY DEF Attribute!Verdict
  <2>2. /\ verb' = Attribute!Verdict
        /\ UNCHANGED <<attribute, omits, config, touched, remote, stored, tainted, alone, events>>
        /\ Attribute!Verdict \in {"create", "replace"} => planned' = Attribute!PlannedAnew
        /\ Attribute!Verdict = "update" => planned' = Attribute!PlannedInPlace
        /\ Attribute!Verdict \in {"none", "destroy"} => planned' = "none"
        /\ verb = "plan"
    BY <1>2 DEF Attribute!Plan
  <2>3. /\ config # "absent" => Attribute!PlannedAnew \in Attribute!Values \cup {"unknown"}
        /\ config # "absent" /\ stored # "gone" =>
             Attribute!PlannedInPlace \in Attribute!Values \cup {"unknown"}
    BY <1>g, PlannedValue DEF Attribute!PlannedAnew, Attribute!PlannedInPlace, Attribute!TypeOK
  <2>4. planned' \in Attribute!Values \cup {"unknown"}
    BY <2>1, <2>2, <2>3, <1>g
  <2>5. Attribute!TypeOK'
    BY <2>1, <2>2, <2>4, <1>b DEF Attribute!TypeOK
  <2>6. ShownInv'
    BY <2>2, <1>b DEF ShownInv
  <2>7. PlannedInv'
    BY <2>1, <2>2, <1>p, <1>q DEF PlannedInv
  <2> QED
    BY <2>5, <2>6, <2>7
<1>3. ASSUME verb \in {"create", "update"}
      PROVE  \A prior : \A before \in Attribute!Real \cup {"none"} :
               Attribute!Applied(Attribute!Sent(Attribute!k, planned, prior), before)
                 \subseteq Attribute!Real \cup {"none"}
  BY SentValue, AppliedValue DEF Attribute!TypeOK
<1>4. CASE Attribute!Create
  <2>1. remote' \in Attribute!Real \cup {"none"}
    BY <1>3, <1>4 DEF Attribute!Create
  <2>2. stored' = Attribute!Result(remote') /\ stored' \in Attribute!Values
    BY <1>4, <2>1, ResultValue DEF Attribute!Create, Attribute!Conclude
  <2> QED
    BY <1>4, <2>1, <2>2, <1>a, <1>b, <1>g
    DEF Attribute!Create, Attribute!Conclude, Attribute!Idle, Attribute!TypeOK, ShownInv, PlannedInv
<1>5. CASE Attribute!Update
  <2>0. remote \in Attribute!Real \cup {"none"} /\ stored \in Attribute!Values
    BY <1>5 DEF Attribute!Update, PlannedInv, Attribute!TypeOK
  <2>1. remote' \in Attribute!Real \cup {"none"}
    BY <1>3, <1>5, <2>0 DEF Attribute!Update
  <2>2. CASE Attribute!Conclude(remote') /\ UNCHANGED events
    <3>2. stored' = Attribute!Result(remote') /\ stored' \in Attribute!Values
      BY <2>2, <2>1, ResultValue DEF Attribute!Conclude
    <3> QED
      BY <1>5, <2>1, <2>2, <3>2, <1>a, <1>b, <1>g
      DEF Attribute!Update, Attribute!Conclude, Attribute!Idle, Attribute!TypeOK, ShownInv, PlannedInv
  <2>3. CASE Attribute!Event /\ Attribute!Idle /\ UNCHANGED <<stored, tainted, touched>>
    BY <1>5, <2>0, <2>1, <2>3, <1>a, <1>b, <1>g, <1>e
    DEF Attribute!Update, Attribute!Idle, Attribute!TypeOK, ShownInv, PlannedInv
  <2> QED
    BY <1>5, <2>2, <2>3 DEF Attribute!Update
<1>6. CASE Attribute!Delete
  <2>1. CASE verb = "replace"
    BY <1>6, <2>1, <1>a, <1>b, <1>g, <1>p
    DEF Attribute!Delete, Attribute!TypeOK, ShownInv, PlannedInv
  <2>2. CASE verb = "destroy"
    BY <1>6, <2>2, <1>a, <1>b, <1>g
    DEF Attribute!Delete, Attribute!Idle, Attribute!TypeOK, ShownInv, PlannedInv
  <2> QED
    BY <1>6, <2>1, <2>2 DEF Attribute!Delete
<1>7. CASE Attribute!CallFails
  BY <1>7, <1>a, <1>b, <1>g, <1>e DEF Attribute!CallFails, Attribute!Idle, Attribute!TypeOK, ShownInv, PlannedInv
<1>8. CASE Attribute!Configure
  BY <1>8, <1>a, <1>b, <1>g, <1>e DEF Attribute!Configure, Attribute!TypeOK, ShownInv, PlannedInv
<1>9. CASE Attribute!Touch
  BY <1>9, <1>a, <1>b, <1>g, <1>e DEF Attribute!Touch, Attribute!TypeOK, ShownInv, PlannedInv
<1>10. CASE Attribute!Outsider
  <2>1. remote' \in Attribute!Real \cup {"none"}
    BY <1>10 DEF Attribute!Outsider, Attribute!RemoteValues
  <2>2. /\ UNCHANGED <<attribute, omits, config, touched, stored, tainted, verb, planned>>
        /\ alone' = FALSE /\ verb # "plan" /\ remote # "gone" /\ events' \in 0..MaxEvents
    BY <1>10, <1>e DEF Attribute!Outsider
  <2>3. Attribute!TypeOK'
    BY <2>1, <2>2, <1>b, <1>g DEF Attribute!TypeOK
  <2>4. ShownInv'
    BY <2>2 DEF ShownInv
  <2>5. PlannedInv'
    BY <2>2, <1>p, <1>q DEF PlannedInv
  <2> QED
    BY <2>3, <2>4, <2>5
<1>11. CASE UNCHANGED attributeVars
  BY <1>11, <1>b, <1>p, <1>q DEF attributeVars, Attribute!TypeOK, ShownInv, PlannedInv
<1> QED
  BY <1>1, <1>2, <1>4, <1>5, <1>6, <1>7, <1>8, <1>9, <1>10, <1>11 DEF Attribute!Next, Attribute!Work

\* What the state says after a refresh, if nothing was preferred to the response.
LEMMA ShownValue ==
  ASSUME AttributeInv, stored # "gone", verb = "plan" \/ (alone /\ verb = "update"),
         ~ Attribute!Is("stays", Attribute!k),
         ~ (Attribute!Is("block", Attribute!k) /\ Attribute!Is("computed", Attribute!k))
  PROVE  /\ remote \in Attribute!Real /\ ~ Attribute!Is("hidden", Attribute!k) => stored = remote
         /\ remote = "none" /\ ~ Attribute!Is("hidden", Attribute!k) =>
              \/ stored \in {"none", "empty"}
              \/ Attribute!Answer(Attribute!k, remote, omits) = "absent"
         /\ Attribute!Is("hidden", Attribute!k) => Attribute!Answer(Attribute!k, remote, omits) = "absent"
         /\ remote \in Attribute!Real \cup {"none"}
<1> DEFINE answer == Attribute!Answer(Attribute!k, remote, omits)
<1>1. PICK before \in Attribute!Values :
        stored = Attribute!Flattened(Attribute!k, before, "nil", answer)
  BY DEF AttributeInv, ShownInv
<1>2. /\ remote \in Attribute!Real \cup {"none"} /\ omits \in BOOLEAN
  BY DEF AttributeInv, Attribute!TypeOK
<1>3. /\ answer \in Attribute!Real \cup {"empty", "absent"}
      /\ Attribute!Is("hidden", Attribute!k) => answer = "absent"
      /\ ~ Attribute!Is("hidden", Attribute!k) /\ remote \in Attribute!Real => answer = remote
      /\ remote = "none" => answer \in {"empty", "absent"}
  BY <1>2, Answers DEF Attribute!Real
<1> HIDE DEF answer
<1>4. /\ answer \in Attribute!Real => stored = answer
      /\ answer = "empty" => stored \in {"none", "empty"}
  BY <1>1 DEF Attribute!Flattened, Attribute!FlattenedEmpty, Attribute!Real
<1> QED
  BY <1>2, <1>3, <1>4 DEF answer, Attribute!Real

\* What the user asks for.
LEMMA WantedValue ==
  ASSUME Attribute!TypeOK, config # "absent"
  PROVE  /\ config # "none" => Attribute!Wanted = config
                              /\ Attribute!Proposed(Attribute!k, config, stored) = config
         /\ config = "none" /\ Attribute!Is("default", Attribute!k) =>
              /\ Attribute!Wanted = "one" /\ Attribute!Proposed(Attribute!k, config, stored) = "one"
         /\ (/\ config = "none" /\ ~ Attribute!Is("default", Attribute!k)
             /\ Attribute!Is("computed", Attribute!k) /\ ~ Attribute!Is("block", Attribute!k)) =>
              /\ Attribute!Wanted = "any" /\ Attribute!Proposed(Attribute!k, config, stored) = stored
         /\ (/\ config = "none" /\ ~ Attribute!Is("default", Attribute!k)
             /\ ~ Attribute!Is("computed", Attribute!k) \/ Attribute!Is("block", Attribute!k)) =>
              /\ Attribute!Wanted = "none" /\ Attribute!Proposed(Attribute!k, config, stored) = "none"
         /\ config \in {"one", "two", "empty", "none"}
BY DEF Attribute!Wanted, Attribute!Proposed, Attribute!TypeOK, Attribute!ConfigValues, Attribute!Real

LEMMA AttributeNoop == AttributeInv => Attribute!NoopIsRight
<1> SUFFICES ASSUME AttributeInv, verb = "plan", Attribute!Verdict = "none", config # "absent",
                    ~ Attribute!Preferred
             PROVE  Attribute!Right \/ Attribute!Unseen
  BY DEF Attribute!NoopIsRight
<1>1. stored # "gone" /\ Attribute!Proposed(Attribute!k, config, stored) = stored
  BY DEF Attribute!Verdict, Attribute!Changes
<1>2. /\ remote \in Attribute!Real /\ ~ Attribute!Is("hidden", Attribute!k) => stored = remote
      /\ remote = "none" /\ ~ Attribute!Is("hidden", Attribute!k) =>
              \/ stored \in {"none", "empty"}
              \/ Attribute!Answer(Attribute!k, remote, omits) = "absent"
      /\ Attribute!Is("hidden", Attribute!k) => Attribute!Answer(Attribute!k, remote, omits) = "absent"
      /\ remote \in Attribute!Real \cup {"none"}
  BY <1>1, ShownValue DEF Attribute!Preferred
<1>3. Attribute!TypeOK
  BY DEF AttributeInv
<1> QED
  BY <1>1, <1>2, <1>3, WantedValue DEF Attribute!Right, Attribute!Unseen, Attribute!Real

LEMMA AttributeReplaced == AttributeInv => Attribute!ReplacedOnlyIfAsked
<1> SUFFICES ASSUME AttributeInv, verb = "plan", Attribute!Verdict = "replace",
                    ~ tainted, touched # "replacing", ~ Attribute!Unseen, ~ Attribute!EmptyForNone,
                    ~ Attribute!Rechosen
             PROVE  Attribute!Is("replaces", Attribute!k) /\ ~ Attribute!Right
  BY DEF Attribute!ReplacedOnlyIfAsked
<1>1. /\ stored # "gone" /\ config # "absent" /\ Attribute!TypeOK
      /\ Attribute!Is("replaces", Attribute!k) /\ Attribute!PlannedInPlace # stored
  BY DEF Attribute!Verdict, Attribute!Replaces, AttributeInv
<1>2. /\ ~ Attribute!Is("stays", Attribute!k)
      /\ ~ (Attribute!Is("block", Attribute!k) /\ Attribute!Is("computed", Attribute!k))
      /\ (/\ Attribute!Is("computed", Attribute!k) /\ ~ Attribute!Is("default", Attribute!k)
          /\ ~ Attribute!Is("keeps", Attribute!k))
           => Attribute!k \in {{type, "optional", "computed", "replaces"} : type \in {"string", "collection"}}
  BY <1>1, Kinds DEF Attribute!TypeOK
<1>3. Attribute!Proposed(Attribute!k, config, stored) # stored
  BY <1>1, <1>2 DEF Attribute!PlannedInPlace, Attribute!Planned, Attribute!Rechosen
<1>4. /\ remote \in Attribute!Real /\ ~ Attribute!Is("hidden", Attribute!k) => stored = remote
      /\ remote = "none" /\ ~ Attribute!Is("hidden", Attribute!k) =>
              \/ stored \in {"none", "empty"}
              \/ Attribute!Answer(Attribute!k, remote, omits) = "absent"
      /\ Attribute!Is("hidden", Attribute!k) => Attribute!Answer(Attribute!k, remote, omits) = "absent"
      /\ remote \in Attribute!Real \cup {"none"}
  BY <1>1, <1>2, ShownValue
<1> QED
  BY <1>1, <1>3, <1>4, WantedValue
  DEF Attribute!Right, Attribute!Unseen, Attribute!EmptyForNone, Attribute!Real
-----------------------------------------------------------------------------
\* Flatten of what it has shown already changes nothing.
LEMMA FlattenedAgain ==
  ASSUME NEW kind, NEW before \in Attribute!Values, NEW given \in {"nil", "none"},
         NEW answer \in Attribute!Real \cup {"empty", "absent"}, NEW shows,
         shows = Attribute!Flattened(kind, before, "nil", answer),
         ~ (Attribute!Is("block", kind) /\ Attribute!Is("computed", kind))
  PROVE  Attribute!Flattened(kind, shows, "none", answer) = shows
BY DEF Attribute!Flattened, Attribute!FlattenedEmpty, Attribute!Real, Attribute!Values

\* A value that was sent is the one that is stored.
LEMMA RealConcludes ==
  ASSUME attribute \in Schema!SchemaAttributes, omits \in BOOLEAN, NEW v \in Attribute!Real,
         planned = v, Attribute!Is("block", Attribute!k) /\ Attribute!Is("computed", Attribute!k) => config # "none",
         config # "nil"
  PROVE  Attribute!Result(v) = v
<1> DEFINE answer == Attribute!Answer(Attribute!k, v, omits)
<1>1. /\ Attribute!Is("hidden", Attribute!k) =>
           answer = "absent" /\ ~ Attribute!Is("nested", Attribute!k) /\ ~ Attribute!Is("block", Attribute!k)
      /\ ~ Attribute!Is("hidden", Attribute!k) => answer = v
  BY Answers, Kinds
<1> HIDE DEF answer
<1>2. Attribute!Result(v) = Attribute!Flattened(Attribute!k, v, config, answer)
  BY DEF answer, Attribute!Result, Attribute!Real
<1> QED
  BY <1>1, <1>2 DEF Attribute!Flattened, Attribute!FlattenedComputedBlock, Attribute!Real

\* An empty collection that was sent is stored as one.
LEMMA EmptyConcludes ==
  ASSUME attribute \in Schema!SchemaAttributes, omits \in BOOLEAN, planned = "empty",
         ~ Attribute!Is("string", Attribute!k), ~ Attribute!Is("block", Attribute!k),
         Attribute!Configurable(Attribute!k) \/ Attribute!Is("keeps", Attribute!k)
  PROVE  Attribute!Result("none") = "empty"
<1> DEFINE answer == Attribute!Answer(Attribute!k, "none", omits)
<1>1. answer \in {"empty", "absent"} /\ ~ Attribute!Is("nested", Attribute!k)
  BY Answers, Kinds DEF Attribute!Real
<1> HIDE DEF answer
<1>2. Attribute!Result("none") = Attribute!Flattened(Attribute!k, "empty", config, answer)
  BY DEF answer, Attribute!Result
<1> QED
  BY <1>1, <1>2 DEF Attribute!Flattened, Attribute!FlattenedEmpty, Attribute!Real

\* What nobody has set stays unset.
LEMMA NoneConcludes ==
  ASSUME attribute \in Schema!SchemaAttributes, omits \in BOOLEAN, planned = "none", config = "none",
         ~ Attribute!Is("computed", Attribute!k)
  PROVE  Attribute!Result("none") = "none"
<1> DEFINE answer == Attribute!Answer(Attribute!k, "none", omits)
<1>1. answer \in {"empty", "absent"} /\ ~ Attribute!Is("nested", Attribute!k)
  BY Answers, Kinds DEF Attribute!Real
<1> HIDE DEF answer
<1>2. Attribute!Result("none") = Attribute!Flattened(Attribute!k, "none", "none", answer)
  BY DEF answer, Attribute!Result
<1> QED
  BY <1>1, <1>2 DEF Attribute!Flattened, Attribute!FlattenedEmpty, Attribute!Real

LEMMA BlockConcludes ==
  ASSUME planned = "none", config = "none",
         Attribute!Is("block", Attribute!k), Attribute!Is("computed", Attribute!k), NEW v
  PROVE  Attribute!Result(v) = "none"
BY DEF Attribute!Result, Attribute!Flattened, Attribute!FlattenedComputedBlock, Attribute!Real

\* The plan of a value that the user has given, or the schema.
LEMMA GivenIsKept ==
  ASSUME AttributeInv, verb \in {"create", "update"}, planned # "unknown",
         config # "none" \/ Attribute!Is("default", Attribute!k), NEW prior, NEW before,
         ~ Attribute!EmptyString,
         NEW v \in Attribute!Applied(Attribute!Sent(Attribute!k, planned, prior), before)
  PROVE  Attribute!Result(v) = planned
<1>1. /\ Attribute!TypeOK /\ config # "absent" /\ attribute \in Schema!SchemaAttributes /\ omits \in BOOLEAN
      /\ config \in Attribute!ConfigValues(Attribute!k)
  BY DEF AttributeInv, PlannedInv, Attribute!TypeOK
<1>2. /\ Attribute!Is("default", Attribute!k) =>
           Attribute!Is("optional", Attribute!k) /\ ~ Attribute!Is("block", Attribute!k)
      /\ \E type \in Attribute!Types : Attribute!k \cap Attribute!Types = {type}
  BY <1>1, Kinds
<1>3. Attribute!Configurable(Attribute!k)
  BY <1>1, <1>2 DEF Attribute!Configurable, Attribute!ConfigValues
<1>4. planned = IF config # "none" THEN config ELSE "one"
  BY DEF AttributeInv, PlannedInv, Attribute!PlannedAnew, Attribute!PlannedInPlace, Attribute!Planned,
         Attribute!Proposed
<1>5. config \in {"one", "two", "empty", "none"}
  BY <1>1, WantedValue
<1>6. CASE planned \in Attribute!Real
  <2>1. v = planned
    BY <1>3, <1>6 DEF Attribute!Sent, Attribute!Applied, Attribute!Real
  <2>2. Attribute!Is("block", Attribute!k) => config # "none"
    BY <1>2
  <2> QED
    BY <1>1, <1>5, <1>6, <2>1, <2>2, RealConcludes
<1>7. CASE planned \notin Attribute!Real
  <2>1. planned = "empty" /\ config = "empty"
    BY <1>4, <1>5, <1>7 DEF Attribute!Real
  <2>2. v = "none"
    BY <1>3, <2>1 DEF Attribute!Sent, Attribute!Applied, Attribute!Real
  <2>3. ~ Attribute!Is("string", Attribute!k)
    BY <2>1 DEF Attribute!EmptyString
  <2>4. Attribute!Is("collection", Attribute!k) \/ Attribute!Is("map", Attribute!k)
    BY <1>1, <1>3, <2>1, <2>3 DEF Attribute!ConfigValues, Attribute!Real
  <2>5. ~ Attribute!Is("block", Attribute!k)
    BY <1>2, <2>4, OneType DEF Attribute!Types
  <2> QED
    BY <1>1, <1>3, <2>1, <2>2, <2>3, <2>5, EmptyConcludes
<1> QED
  BY <1>6, <1>7
\* An Update that does not send the attribute leaves the state as the refresh found it.
LEMMA UnsentConcludes ==
  ASSUME AttributeInv, alone, verb = "update", planned = stored, config = "none",
         ~ (Attribute!Is("block", Attribute!k) /\ Attribute!Is("computed", Attribute!k))
  PROVE  Attribute!Result(remote) = stored
<1> DEFINE answer == Attribute!Answer(Attribute!k, remote, omits)
<1>1. PICK before \in Attribute!Values :
        stored = Attribute!Flattened(Attribute!k, before, "nil", answer)
  BY DEF AttributeInv, ShownInv, PlannedInv
<1>2. answer \in Attribute!Real \cup {"empty", "absent"} /\ stored \in Attribute!Values
  BY Answers DEF AttributeInv, PlannedInv, Attribute!TypeOK
<1> HIDE DEF answer
<1>3. Attribute!Flattened(Attribute!k, stored, "none", answer) = stored
  BY <1>1, <1>2, FlattenedAgain
<1>4. Attribute!Result(remote) = Attribute!Flattened(Attribute!k, stored, "none", answer)
  BY <1>2 DEF answer, Attribute!Result, Attribute!Values, Attribute!Real
<1> QED
  BY <1>3, <1>4

\* An empty string is in the state only where the responses leave it out.
LEMMA EmptyShown ==
  ASSUME AttributeInv, alone, verb = "update", stored = "empty", attribute \in Schema!SchemaAttributes,
         Attribute!Is("string", Attribute!k)
  PROVE  /\ Attribute!Answer(Attribute!k, "none", omits) = "absent"
         /\ ~ Attribute!Is("nested", Attribute!k)
<1> DEFINE answer == Attribute!Answer(Attribute!k, remote, omits)
<1>1. PICK before \in Attribute!Values :
        stored = Attribute!Flattened(Attribute!k, before, "nil", answer)
  BY DEF AttributeInv, ShownInv, PlannedInv
<1>2. answer \in Attribute!Real \cup {"empty", "absent"}
  BY Answers DEF AttributeInv, PlannedInv, Attribute!TypeOK
<1>3. answer = "absent" /\ ~ Attribute!Is("nested", Attribute!k)
  <2> HIDE DEF answer
  <2> QED
    BY <1>1, <1>2 DEF Attribute!Flattened, Attribute!FlattenedComputedBlock, Attribute!FlattenedEmpty, Attribute!Real
<1>4. Attribute!Is("hidden", Attribute!k) \/ remote \notin Attribute!Real
  BY <1>3 DEF Attribute!Answer, Attribute!Real
<1>5. Attribute!Answer(Attribute!k, "none", omits) = "absent"
  BY <1>3, <1>4 DEF Attribute!Answer, Attribute!Real
<1> QED
  BY <1>3, <1>5

\* The plan of a value that only the API gives, and that is not taken for another.
LEMMA KeptIsKept ==
  ASSUME AttributeInv, alone, verb = "update", config = "none", ~ Attribute!Is("default", Attribute!k),
         Attribute!Is("computed", Attribute!k), ~ Attribute!Is("block", Attribute!k), planned # "unknown",
         NEW v \in Attribute!Applied(Attribute!Sent(Attribute!k, planned, stored), remote)
  PROVE  Attribute!Result(v) = planned
<1>1. /\ Attribute!TypeOK /\ attribute \in Schema!SchemaAttributes /\ omits \in BOOLEAN
      /\ stored \in Attribute!Values
  BY DEF AttributeInv, PlannedInv, Attribute!TypeOK
<1>2. planned = stored /\ Attribute!Is("keeps", Attribute!k)
  BY DEF AttributeInv, PlannedInv, Attribute!PlannedInPlace, Attribute!Planned, Attribute!Proposed
<1>3. Attribute!Sent(Attribute!k, planned, stored) \in {stored, "none"}
      /\ (stored = "none" => Attribute!Sent(Attribute!k, planned, stored) = "none")
  BY <1>1, <1>2 DEF Attribute!Sent, Attribute!Emptied
<1>4. CASE Attribute!Sent(Attribute!k, planned, stored) = "none"
  <2>1. v = remote
    BY <1>2, <1>4 DEF Attribute!Applied, Attribute!Real
  <2> QED
    BY <1>2, <2>1, UnsentConcludes
<1>5. CASE Attribute!Sent(Attribute!k, planned, stored) # "none" /\ stored \in Attribute!Real
  <2>1. v = stored
    BY <1>3, <1>5 DEF Attribute!Applied, Attribute!Real
  <2> QED
    BY <1>1, <1>2, <1>5, <2>1, RealConcludes
<1>6. CASE Attribute!Sent(Attribute!k, planned, stored) # "none" /\ stored \notin Attribute!Real
  <2>1. stored = "empty" /\ v = "none"
    BY <1>1, <1>3, <1>6 DEF Attribute!Applied, Attribute!Real, Attribute!Values
  <2>2. CASE Attribute!Is("string", Attribute!k)
    <3>1. Attribute!Answer(Attribute!k, "none", omits) = "absent" /\ ~ Attribute!Is("nested", Attribute!k)
      BY <1>1, <2>1, <2>2, EmptyShown
    <3> QED
      BY <1>2, <2>1, <3>1 DEF Attribute!Result, Attribute!Flattened, Attribute!Real
  <2>3. CASE ~ Attribute!Is("string", Attribute!k)
    BY <1>1, <1>2, <2>1, <2>3, EmptyConcludes
  <2> QED
    BY <2>2, <2>3
<1> QED
  BY <1>4, <1>5, <1>6

\* The plan of a value that was removed, or never there.
LEMMA RemovedIsKept ==
  ASSUME AttributeInv, alone, verb \in {"create", "update"}, config = "none",
         ~ Attribute!Is("default", Attribute!k),
         ~ Attribute!Is("computed", Attribute!k) \/ Attribute!Is("block", Attribute!k),
         ~ Attribute!Irremovable, NEW prior, NEW before,
         verb = "create" => prior = "none" /\ before = "none",
         verb = "update" => prior = stored /\ before = remote,
         NEW v \in Attribute!Applied(Attribute!Sent(Attribute!k, planned, prior), before)
  PROVE  Attribute!Result(v) = planned
<1>1. /\ Attribute!TypeOK /\ attribute \in Schema!SchemaAttributes /\ omits \in BOOLEAN
  BY DEF AttributeInv, Attribute!TypeOK
<1>2. planned = "none"
  BY DEF AttributeInv, PlannedInv, Attribute!PlannedAnew, Attribute!PlannedInPlace, Attribute!Planned,
         Attribute!Proposed
<1>3. CASE Attribute!Is("computed", Attribute!k)
  BY <1>2, <1>3, BlockConcludes
<1>4. CASE ~ Attribute!Is("computed", Attribute!k)
  <2>1. Attribute!Configurable(Attribute!k)
    BY <1>1, <1>4, Kinds
  <2>2. Attribute!Is("optional", Attribute!k)
    BY <1>1, <2>1 DEF Attribute!TypeOK, Attribute!ConfigValues, Attribute!Real, AttributeInv, PlannedInv
  <2>3. Attribute!Emptied(Attribute!k)
    BY <1>4, <2>2 DEF Attribute!Irremovable
  <2>4. CASE verb = "create" \/ prior # "none"
    <3>1. v = "none"
      BY <1>2, <1>4, <2>1, <2>3, <2>4 DEF Attribute!Sent, Attribute!Applied, Attribute!Real
    <3> QED
      BY <1>1, <1>2, <1>4, <3>1, NoneConcludes
  <2>5. CASE verb = "update" /\ prior = "none"
    <3>1. v = remote
      BY <1>2, <2>1, <2>5 DEF Attribute!Sent, Attribute!Applied, Attribute!Real
    <3> QED
      BY <1>2, <1>4, <2>5, <3>1, UnsentConcludes
  <2> QED
    BY <2>4, <2>5
<1> QED
  BY <1>3, <1>4

\* A Create or an Update leaves the value of the plan.
LEMMA AttributePlansStep ==
  AttributeInv /\ [Attribute!Next]_attributeVars =>
    (alone /\ verb \in {"create", "update"} /\ verb' = "none" /\ events' = events
       => planned \in {"unknown", stored'} \/ Attribute!EmptyString \/ Attribute!Irremovable)
<1> SUFFICES ASSUME AttributeInv, [Attribute!Next]_attributeVars, alone, verb \in {"create", "update"},
                    verb' = "none", events' = events, planned # "unknown",
                    ~ Attribute!EmptyString, ~ Attribute!Irremovable
             PROVE  stored' = planned
  OBVIOUS
<1>1. Attribute!Event => events' # events
  BY ViewsAssumption DEF AttributeInv, Attribute!TypeOK, Attribute!Event
<1>2. Attribute!Create \/ Attribute!Update
  BY <1>1 DEF Attribute!Next, Attribute!Work, Attribute!Refresh, Attribute!Plan, Attribute!Delete,
              Attribute!CallFails, Attribute!Configure, Attribute!Touch, Attribute!Outsider, attributeVars
<1>3. PICK prior, before :
        /\ verb = "create" => prior = "none" /\ before = "none"
        /\ verb = "update" => prior = stored /\ before = remote
        /\ remote' \in Attribute!Applied(Attribute!Sent(Attribute!k, planned, prior), before)
        /\ stored' = Attribute!Result(remote')
  BY <1>1, <1>2 DEF Attribute!Create, Attribute!Update, Attribute!Conclude
<1>4. CASE config # "none" \/ Attribute!Is("default", Attribute!k)
  BY <1>3, <1>4, GivenIsKept
<1>5. CASE /\ config = "none" /\ ~ Attribute!Is("default", Attribute!k)
           /\ ~ Attribute!Is("computed", Attribute!k) \/ Attribute!Is("block", Attribute!k)
  BY <1>3, <1>5, RemovedIsKept
<1>6. CASE /\ config = "none" /\ ~ Attribute!Is("default", Attribute!k)
           /\ Attribute!Is("computed", Attribute!k) /\ ~ Attribute!Is("block", Attribute!k)
  <2>1. verb = "update"
    BY <1>6 DEF AttributeInv, PlannedInv, Attribute!PlannedAnew, Attribute!Planned
  <2> QED
    BY <1>3, <1>6, <2>1, KeptIsKept
<1> QED
  BY <1>4, <1>5, <1>6

LEMMA AttributeView ==
  AppliesSpec => (Attribute!Init \/ AttributeSettled) /\ [][Attribute!Next]_attributeVars
<1>1. AppliesInit => Attribute!Init \/ AttributeSettled
  BY DEF AppliesInit
<1>2. [AppliesNext]_allVars => [Attribute!Next]_attributeVars
  BY DEF AppliesNext, InHandlers, InAttribute, InPassword, InField, OfService, InFilters, InDisk,
         InSettings, In, allVars
<1> QED
  BY <1>1, <1>2, PTL DEF AppliesSpec

\* The type invariant of an attribute, and that a plan is made of what the refresh has
\* shown, and that what Create or Update expands is what was planned of it.
THEOREM AttributeTypeCorrect == AppliesSpec => []AttributeInv
BY AttributeView, AttributeStart, AttributeStep, PTL

\* The attributes' part of PlansKept: flattening what the API answers to a Create or an
\* Update gives the planned value back.
THEOREM AttributePlansKept == AppliesSpec => Attribute!PlansKept
<1>1. attributeVars = Attribute!attributeVars
  BY DEF attributeVars, Attribute!attributeVars
<1> QED
  BY AttributeTypeCorrect, AttributeView, AttributePlansStep, PTL
  DEF Attribute!PlansKept, Attribute!attributeVars, attributeVars

-----------------------------------------------------------------------------
(* The passwords of service users.                                         *)

Secret(version) == IF version = 1 THEN "w1" ELSE "w2"

\* There is no write-only password in the state, and when there is none at all, it has
\* been left to the service.
EntryInv ==
  /\ userEntry.status = "none" => userEntry.password = "none" /\ userEntry.version = 0
  /\ userEntry.version # 0 => userEntry.password = "none"
  /\ userEntry.status # "none" /\ userEntry.version = 0 /\ userEntry.password = "none" =>
       accepted \notin Password!WriteOnly
       /\ (userEntry.status = "kept" => act = "none" /\ ~ settling)

\* What is done is what the plan says.
ActInv ==
  /\ act \in {"access", "reset", "read"} => accepted # "none"
  /\ act = "remove" => userEntry.status = "tainted"
  /\ act = "make" => Password!New
  /\ act = "access" => userEntry.status = "kept"
  /\ act \in {"reset", "read"} => userEntry.status \in {"none", "kept"}
  /\ act \notin {"none", "plan"} =>
       change = IF Password!Plain # "none" THEN Password!Plain ELSE "unknown"
  /\ act \notin {"none", "plan"} /\ userEntry.status = "kept" => Password!Differs
  /\ reset => act = "read"

\* The state has the password that the service accepts, or its version.
Synced ==
  IF userEntry.version = 0
  THEN userEntry.password \in {accepted, "none"}
  ELSE userEntry.password = "none" /\ accepted = Secret(userEntry.version)

\* The next apply resets the password, or has nothing to reset.
Again ==
  /\ Password!Differs
  /\ \/ Password!Plain # userEntry.password
     \/ Password!Version # userEntry.version
     \/ user = "authentication" /\ edited
  /\ wish # "any" => accepted = wish

SyncInv ==
  /\ userEntry.status = "kept" /\ adrift # "lost" =>
       Synced \/ (Again /\ (adrift = "pending" \/ reset))
  /\ act = "read" /\ adrift # "lost" => (wish # "any" => accepted = wish)
  /\ act = "read" /\ Password!Version = 0 /\ Password!Plain = "none" =>
       accepted \notin Password!WriteOnly
  /\ act = "reset" /\ userEntry.status = "none" => accepted \in Password!Made

PasswordInv == Password!TypeOK /\ EntryInv /\ ActInv /\ SyncInv

LEMMA PasswordSets ==
  /\ "none" \notin Password!Passwords /\ "any" \notin Password!Passwords
  /\ "unknown" \notin Password!Passwords
  /\ Password!Given \cap Password!WriteOnly = {} /\ Password!Given \cap Password!Made = {}
  /\ Password!Made \cap Password!WriteOnly = {}
  /\ Password!Passwords = Password!Given \cup Password!WriteOnly \cup Password!Made
BY DEF Password!Passwords, Password!Given, Password!WriteOnly, Password!Made

LEMMA Wishes ==
  ASSUME Password!TypeOK
  PROVE  /\ Password!Version \in 0..2
         /\ Password!Plain \in Password!Given \cup {"none"}
         /\ wish \in Password!Given => Password!Plain = wish /\ Password!Version = 0
         /\ wish \in Password!WriteOnly =>
              /\ Password!Plain = "none" /\ Password!Version # 0
              /\ wish = Secret(Password!Version)
         /\ wish = "any" => Password!Plain = "none" /\ Password!Version = 0
BY DEF Password!TypeOK, Password!Version, Password!Plain, Password!Given, Password!WriteOnly, Secret

\* What Create and Update ask for is what is configured.
LEMMA Requests ==
  ASSUME Password!TypeOK, change = IF Password!Plain # "none" THEN Password!Plain ELSE "unknown"
  PROVE  /\ Password!Known = Password!Plain
         /\ Password!Asked = IF wish = "any" THEN "none" ELSE wish
         /\ wish # "any" => Password!NewPasswords = {wish}
         /\ wish = "any" => Password!NewPasswords = Password!Made \ {accepted}
         /\ Password!NewPasswords \subseteq Password!Passwords
<1>1. Password!Known = Password!Plain
  BY Wishes, PasswordSets DEF Password!Known
<1>2. Password!Asked = IF wish = "any" THEN "none" ELSE wish
  BY Wishes, PasswordSets DEF Password!Asked, Password!TypeOK
<1>3. wish \in Password!Given \cup Password!WriteOnly \cup {"any"} /\ (wish # "any" => wish # "none")
  BY PasswordSets DEF Password!TypeOK
<1> QED
  BY <1>1, <1>2, <1>3, PasswordSets DEF Password!NewPasswords

\* What a read puts into the state.
LEMMA Flattens ==
  ASSUME NEW password \in Password!Given \cup Password!Made \cup {"none"}, NEW version \in 0..2,
         accepted \in Password!Passwords \cup {"none"}
  PROVE  /\ Password!PasswordFlatten(password, version) \in Password!Passwords \cup {"none"}
         /\ version # 0 => Password!PasswordFlatten(password, version) = "none"
         /\ version = 0 /\ password # "none" =>
              Password!PasswordFlatten(password, version) = password
         /\ version = 0 /\ password = "none" =>
              Password!PasswordFlatten(password, version) = IF settling THEN "none" ELSE accepted
<1>1. CASE version # 0
  BY <1>1 DEF Password!PasswordFlatten
<1>2. CASE version = 0 /\ password # "none"
  BY <1>2, PasswordSets DEF Password!PasswordFlatten
<1>3. CASE version = 0 /\ password = "none"
  BY <1>3 DEF Password!PasswordFlatten, Password!Shown
<1> QED
  BY <1>1, <1>2, <1>3

LEMMA PasswordStart == Password!Init \/ PasswordSettled => PasswordInv
<1> USE DEF PasswordInv, EntryInv, ActInv, SyncInv, Password!TypeOK
<1>1. 0 \in 0..MaxEvents /\ Users \subseteq Password!UserKinds /\ Users # {}
  BY ViewsAssumption
<1>s. /\ {"p1", "g1"} \subseteq Password!Passwords \ Password!WriteOnly
      /\ "g1" \in Password!Passwords \ Password!WriteOnly /\ "none" \notin Password!WriteOnly
  BY DEF Password!Passwords, Password!Given, Password!Made, Password!WriteOnly
<1>2. CASE Password!Init
  <2>1. /\ accepted \in {"none", "p1", "g1"} /\ act = "none" /\ reset = FALSE /\ settling = FALSE
        /\ \/ accepted = "none" /\ userEntry = [status |-> "none", password |-> "none", version |-> 0]
           \/ accepted # "none" /\ userEntry = [status |-> "kept", password |-> "none", version |-> 0]
    BY <1>2 DEF Password!Init, Password!NoEntry
  <2>2. userEntry \in [status : {"none", "kept", "tainted"},
                     password : Password!Passwords \cup {"none"}, version : 0..2]
    BY <2>1
  <2>3. /\ accepted \in Password!Passwords \cup {"none"}
        /\ userEntry.password = "none"
        /\ accepted = "none" => userEntry.status = "none"
    BY <1>s, <2>1
  <2>4. /\ user \in Users /\ wish \in Password!Given \cup Password!WriteOnly \cup {"any"}
        /\ edited = FALSE /\ adrift = "no" /\ change = "none" /\ turns = 0
    BY <1>2 DEF Password!Init
  <2>5. Password!TypeOK
    BY <1>1, <1>s, <2>1, <2>2, <2>3, <2>4
  <2> QED
    BY <1>s, <2>1, <2>5 DEF Synced
<1>3. CASE PasswordSettled
  <2>1. user \in Users
    BY <1>1, <1>3 DEF PasswordSettled
  <2>2. userEntry \in [status : {"none", "kept", "tainted"},
                     password : Password!Passwords \cup {"none"}, version : 0..2]
    BY <1>3, <1>s DEF PasswordSettled
  <2>3. Password!TypeOK
    BY <1>1, <1>3, <1>s, <2>1, <2>2 DEF PasswordSettled
  <2> QED
    BY <1>3, <1>s, <2>3 DEF PasswordSettled, Synced
<1> QED
  BY <1>2, <1>3

LEMMA PasswordStep == PasswordInv /\ [Password!Next]_userVars => PasswordInv'
<1> SUFFICES ASSUME PasswordInv, [Password!Next]_userVars
             PROVE  PasswordInv'
  OBVIOUS
<1>inv. Password!TypeOK /\ EntryInv /\ ActInv /\ SyncInv
  BY DEF PasswordInv
<1>f. user' = user
  BY DEF Password!Next, Password!Work, Password!Refresh, Password!Plan, Password!Remove, Password!Make,
         Password!SetAccess, Password!ResetPassword, Password!ReadBack, Password!Settle, Password!Fails,
         Password!Configure, Password!Outsider, userVars
<1>w. wish' = wish => Password!Plain' = Password!Plain /\ Password!Version' = Password!Version
  BY DEF Password!Plain, Password!Version
<1>d. UNCHANGED <<wish, edited, userEntry>> => (Password!Differs' <=> Password!Differs)
  BY <1>w DEF Password!Differs
<1>y. UNCHANGED <<userEntry, accepted>> => (Synced' <=> Synced)
  BY DEF Synced
<1>g. UNCHANGED <<wish, edited, userEntry, accepted>> => (Again' <=> Again)
  BY <1>d, <1>f, <1>w DEF Again
<1>k. Password!Turn => turns' \in 0..MaxEvents
  BY <1>inv, ViewsAssumption DEF Password!Turn, Password!TypeOK
<1>s. /\ "none" \notin Password!Passwords /\ "none" \notin Password!WriteOnly
      /\ Password!Made \cap Password!WriteOnly = {} /\ Password!Given \cap Password!WriteOnly = {}
      /\ Password!Passwords = Password!Given \cup Password!WriteOnly \cup Password!Made
  BY PasswordSets
<1>v. /\ Password!Version \in 0..2
      /\ Password!Plain \in Password!Given \cup {"none"}
      /\ wish \in Password!Given => Password!Plain = wish /\ Password!Version = 0
      /\ wish \in Password!WriteOnly =>
           Password!Plain = "none" /\ Password!Version # 0 /\ wish = Secret(Password!Version)
      /\ wish = "any" => Password!Plain = "none" /\ Password!Version = 0
  BY <1>inv, Wishes
<1>r. act \notin {"none", "plan"} =>
        /\ Password!Known = Password!Plain
        /\ Password!Asked = IF wish = "any" THEN "none" ELSE wish
        /\ wish # "any" => Password!NewPasswords = {wish}
        /\ wish = "any" => Password!NewPasswords = Password!Made \ {accepted}
        /\ Password!NewPasswords \subseteq Password!Passwords
  BY <1>inv, Requests DEF ActInv
<1> USE DEF PasswordInv
<1>1. CASE Password!Refresh
  <2> DEFINE F == Password!PasswordFlatten(userEntry.password, userEntry.version)
  <2>1. CASE userEntry.status = "none"
    BY <1>1, <2>1, <1>inv, <1>f, <1>w, <1>y, <1>g
    DEF Password!Refresh, Password!TypeOK, EntryInv, ActInv, SyncInv, Password!New
  <2>2. CASE userEntry.status # "none"
    <3>1. /\ userEntry.password \in Password!Given \cup Password!Made \cup {"none"}
          /\ userEntry.version \in 0..2 /\ accepted \in Password!Passwords /\ act = "none"
      BY <1>1, <2>2, <1>inv, <1>s DEF Password!Refresh, Password!TypeOK
    <3>2. \/ F = userEntry.password /\ (userEntry.version = 0 /\ F = "none" =>
                                          accepted \notin Password!WriteOnly
                                          /\ userEntry.status = "tainted")
          \/ /\ userEntry.version = 0 /\ userEntry.password = "none"
             /\ F = accepted /\ accepted \notin Password!WriteOnly
      <4>1. CASE userEntry.version # 0
        BY <4>1, <3>1, Flattens, <1>inv DEF EntryInv
      <4>2. CASE userEntry.version = 0 /\ userEntry.password # "none"
        BY <4>2, <3>1, Flattens
      <4>3. CASE userEntry.version = 0 /\ userEntry.password = "none"
        <5>1. F = IF settling THEN "none" ELSE accepted
          BY <4>3, <3>1, Flattens
        <5>2. accepted \notin Password!WriteOnly /\ (userEntry.status = "kept" => ~ settling)
          BY <4>3, <2>2, <1>inv DEF EntryInv
        <5> QED
          BY <4>3, <5>1, <5>2, <2>2, <1>inv DEF Password!TypeOK
      <4> QED
        BY <4>1, <4>2, <4>3
    <3>3. userEntry' = [status |-> userEntry.status, password |-> F, version |-> userEntry.version]
      BY <1>1, <2>2, <1>inv DEF Password!Refresh, Password!TypeOK
    <3>4. CASE F = userEntry.password
      <4>1. userEntry' = userEntry
        BY <3>3, <3>4, <1>inv DEF Password!TypeOK
      <4> QED
        BY <1>1, <2>2, <3>1, <3>2, <3>4, <4>1, <1>inv, <1>s, <1>f, <1>w, <1>y, <1>g
        DEF Password!Refresh, Password!TypeOK, EntryInv, ActInv, SyncInv
    <3>5. CASE F # userEntry.password
      <4>1. /\ userEntry.version = 0 /\ F = accepted /\ accepted \notin Password!WriteOnly
            /\ accepted # "none"
        BY <3>1, <3>2, <3>5, <1>s
      <4>2. Password!TypeOK'
        BY <1>1, <2>2, <3>1, <3>3, <4>1, <1>inv DEF Password!Refresh, Password!TypeOK
      <4>3. Synced'
        BY <1>1, <3>3, <4>1 DEF Password!Refresh, Synced
      <4> QED
        BY <1>1, <2>2, <3>1, <3>3, <4>1, <4>2, <4>3, <1>inv
        DEF Password!Refresh, EntryInv, ActInv, SyncInv
    <3> QED
      BY <3>4, <3>5
  <2> QED
    BY <2>1, <2>2
<1>2. CASE Password!Plan
  <2>1. /\ Password!Verdict \in {"none", "make", "remove", "access", "reset"}
        /\ Password!Verdict = "make" => userEntry.status = "none"
        /\ Password!Verdict = "remove" => userEntry.status = "tainted"
        /\ Password!Verdict \in {"access", "reset"} => userEntry.status = "kept" /\ Password!Differs
    BY <1>inv DEF Password!Verdict, Password!TypeOK, Password!FirstStep
  <2>2. Password!Verdict # "none" =>
          Password!Planned = IF Password!Plain # "none" THEN Password!Plain ELSE "unknown"
    BY <2>1, <1>inv DEF Password!Planned
  <2>3. Password!TypeOK'
    BY <1>2, <2>1, <2>2, <1>inv, <1>f, <1>v, <1>s DEF Password!Plan, Password!TypeOK
  <2> QED
    BY <1>2, <2>1, <2>2, <2>3, <1>inv, <1>f, <1>w, <1>d, <1>y, <1>g
    DEF Password!Plan, Password!TypeOK, EntryInv, ActInv, SyncInv, Password!New
<1>3. CASE Password!Remove
  <2>1. /\ userEntry' = [status |-> "none", password |-> "none", version |-> 0]
        /\ act = "remove" /\ act' = "make" /\ accepted' = "none" /\ settling' = FALSE
        /\ UNCHANGED <<user, wish, edited, change, reset, adrift, turns>>
    BY <1>3 DEF Password!Remove, Password!NoEntry
  <2>2. reset' = FALSE
    BY <2>1, <1>inv DEF ActInv, Password!TypeOK
  <2>3. /\ userEntry'.status = "none" /\ userEntry'.password = "none" /\ userEntry'.version = 0
        /\ userEntry' \in [status : {"none", "kept", "tainted"},
                           password : Password!Passwords \cup {"none"}, version : 0..2]
    BY <2>1
  <2>4. Password!TypeOK'
    BY <2>1, <2>3, <1>inv, <1>s DEF Password!TypeOK
  <2>5. EntryInv' /\ ActInv'
    BY <2>1, <2>2, <2>3, <1>inv, <1>w DEF EntryInv, ActInv, Password!New
  <2> QED
    BY <2>1, <2>3, <2>4, <2>5 DEF SyncInv
<1>4. CASE Password!Make
  <2>1. /\ userEntry.status = "none" /\ userEntry' = userEntry /\ wish' = wish
        /\ accepted' \in Password!Passwords /\ change' = change
        /\ user # "clickhouse" => accepted' \in Password!Made /\ act' = "reset" /\ reset' = FALSE
        /\ user = "clickhouse" => accepted' \in Password!NewPasswords /\ act' = "read" /\ reset' = TRUE
    BY <1>4, <1>inv, <1>r, <1>s DEF Password!Make, ActInv, Password!New
  <2>2. Password!TypeOK'
    BY <1>4, <2>1, <1>inv, <1>f, <1>s DEF Password!Make, Password!TypeOK
  <2>3. EntryInv' /\ ActInv'
    BY <1>4, <2>1, <1>inv, <1>w, <1>s DEF Password!Make, EntryInv, ActInv
  <2> QED
    BY <1>4, <2>1, <2>2, <2>3, <1>inv, <1>r, <1>v, <1>w, <1>s DEF Password!Make, Password!TypeOK, SyncInv
<1>5. CASE Password!SetAccess
  BY <1>5, <1>inv, <1>f, <1>w, <1>d, <1>y, <1>g
  DEF Password!SetAccess, Password!TypeOK, EntryInv, ActInv, SyncInv
\* What a reset leaves to be set again.
<1>a. ASSUME act = "reset", ~ Password!Skips, userEntry.status = "kept",
             accepted' \in Password!NewPasswords, UNCHANGED <<wish, edited, userEntry>>
      PROVE  Again'
  <2>1. Password!Differs' /\ (wish' # "any" => accepted' = wish')
    BY <1>a, <1>inv, <1>d, <1>r DEF ActInv
  <2>2. Password!HasChange /\ Password!Known = Password!Plain
    BY <1>a, <1>r DEF Password!Skips
  <2> QED
    BY <1>a, <2>1, <2>2, <1>f, <1>w DEF Again, Password!HasChange
<1>6. CASE Password!ResetPassword
  <2>1. CASE Password!Skips
    <3>1. /\ wish # "any" /\ adrift # "lost" => accepted = wish
          /\ Password!Version = 0 /\ Password!Plain = "none" => accepted \notin Password!WriteOnly
      <4>1. act = "reset" /\ userEntry.status \in {"none", "kept"}
        BY <1>6, <1>inv DEF Password!ResetPassword, ActInv
      <4>2. CASE userEntry.status = "none"
        <5>1. accepted \in Password!Made /\ userEntry.password = "none" /\ userEntry.version = 0
          BY <4>1, <4>2, <1>inv DEF SyncInv, EntryInv
        <5>2. wish = "any"
          BY <2>1, <4>1, <4>2, <5>1, <1>inv, <1>r, <1>v, <1>s
          DEF Password!Skips, Password!HasChange, Password!TypeOK
        <5> QED
          BY <5>1, <5>2, <1>s
      <4>3. CASE userEntry.status = "kept"
        <5>1. /\ Password!Plain = userEntry.password /\ Password!Version = userEntry.version
              /\ ~ (user = "authentication" /\ edited)
          BY <2>1, <4>1, <4>3, <1>r DEF Password!Skips, Password!HasChange, Password!New
        <5>2. adrift # "lost" => Synced
          BY <4>3, <5>1, <1>inv DEF SyncInv, Again
        <5>3. ~ (Password!Version = 0 /\ Password!Plain = "none")
          BY <4>1, <4>3, <5>1, <1>inv DEF EntryInv
        <5> QED
          BY <5>1, <5>2, <5>3, <1>inv, <1>v, <1>s DEF Synced, Password!TypeOK
      <4> QED
        BY <4>1, <4>2, <4>3
    <3> QED
      BY <1>6, <2>1, <3>1, <1>inv, <1>f, <1>w, <1>d, <1>y, <1>g
      DEF Password!ResetPassword, Password!TypeOK, EntryInv, ActInv, SyncInv
  <2>2. CASE ~ Password!Skips
    <3>1. /\ act = "reset" /\ act' = "read" /\ accepted' \in Password!NewPasswords
          /\ settling' \in BOOLEAN /\ reset' = TRUE /\ adrift' = "no"
          /\ UNCHANGED <<user, wish, edited, userEntry, change, turns>>
      BY <1>6, <2>2 DEF Password!ResetPassword
    <3>2. accepted' \in Password!Passwords /\ accepted' # "none"
      BY <3>1, <1>r, <1>s
    <3>3. Password!TypeOK'
      BY <3>1, <3>2, <1>inv DEF Password!TypeOK
    <3>4. EntryInv' /\ ActInv'
      BY <3>1, <3>2, <1>inv, <1>w, <1>d DEF EntryInv, ActInv
    <3>5. SyncInv'
      <4>1. userEntry'.status = "kept" => Again'
        BY <1>a, <2>2, <3>1
      <4>2. wish' # "any" => accepted' = wish'
        BY <3>1, <1>r
      <4>3. Password!Version = 0 /\ Password!Plain = "none" => accepted' \notin Password!WriteOnly
        BY <3>1, <1>inv, <1>r, <1>v, <1>s DEF Password!TypeOK
      <4> QED
        BY <3>1, <4>1, <4>2, <4>3, <1>w DEF SyncInv
    <3> QED
      BY <3>3, <3>4, <3>5
  <2> QED
    BY <2>1, <2>2
<1>h. ASSUME act = "read"
      PROVE  LET F == Password!PasswordFlatten(Password!Known, Password!Version)
             IN  /\ F \in (Password!Passwords \ Password!WriteOnly) \cup {"none"}
                 /\ Password!Version # 0 => F = "none"
                 /\ Password!Version = 0 /\ Password!Plain # "none" => F = Password!Plain
                 /\ Password!Version = 0 /\ Password!Plain = "none" =>
                      /\ F = IF settling THEN "none" ELSE accepted
                      /\ accepted \notin Password!WriteOnly
                 /\ accepted \in Password!Passwords
  <2>1. accepted \in Password!Passwords \cup {"none"} /\ accepted # "none"
    BY <1>h, <1>inv DEF ActInv, Password!TypeOK
  <2>2. Password!Version = 0 /\ Password!Plain = "none" => accepted \notin Password!WriteOnly
    BY <1>h, <1>inv DEF SyncInv
  <2>3. Password!Known = Password!Plain
    BY <1>h, <1>r
  <2>4. Password!Known \in Password!Given \cup Password!Made \cup {"none"}
    BY <2>3, <1>v
  <2> DEFINE F == Password!PasswordFlatten(Password!Known, Password!Version)
  <2>5. /\ Password!Version # 0 => F = "none"
        /\ Password!Version = 0 /\ Password!Known # "none" => F = Password!Known
        /\ Password!Version = 0 /\ Password!Known = "none" =>
             F = IF settling THEN "none" ELSE accepted
    BY <1>v, <2>1, <2>4, Flattens
  <2> QED
    BY <2>1, <2>2, <2>3, <2>5, <1>v, <1>s
<1>7. CASE Password!ReadBack
  <2> DEFINE F == Password!PasswordFlatten(Password!Known, Password!Version)
  <2>1. /\ act = "read" /\ act' = "none" /\ change' = "none" /\ reset' = FALSE
        /\ userEntry' = [status |-> "kept", password |-> F, version |-> Password!Version]
        /\ edited' = FALSE /\ UNCHANGED <<user, wish, accepted, settling, adrift, turns>>
        /\ Password!PasswordIsReady
    BY <1>7 DEF Password!ReadBack, Password!Idle
  <2>2. /\ F \in (Password!Passwords \ Password!WriteOnly) \cup {"none"}
        /\ Password!Version # 0 => F = "none"
        /\ Password!Version = 0 /\ Password!Plain # "none" => F = Password!Plain
        /\ Password!Version = 0 /\ Password!Plain = "none" =>
             /\ F = IF settling THEN "none" ELSE accepted
             /\ accepted \notin Password!WriteOnly
        /\ accepted \in Password!Passwords
    BY <1>h, <2>1
  <2>3. Password!Version = 0 /\ Password!Plain = "none" => ~ settling
    BY <2>1, <1>r DEF Password!PasswordIsReady, Password!Shown
  <2>4. adrift # "lost" => (wish # "any" => accepted = wish)
    BY <2>1, <1>inv DEF SyncInv
  <2>5. /\ userEntry'.status = "kept" /\ userEntry'.password = F
        /\ userEntry'.version = Password!Version
        /\ userEntry' \in [status : {"none", "kept", "tainted"},
                           password : Password!Passwords \cup {"none"}, version : 0..2]
        /\ F \notin Password!WriteOnly
    BY <2>1, <2>2, <1>v, <1>s
  <2>6. Password!TypeOK'
    BY <2>1, <2>2, <2>5, <1>inv, <1>s DEF Password!TypeOK
  <2>7. EntryInv' /\ ActInv'
    BY <2>1, <2>2, <2>3, <2>5, <1>s DEF EntryInv, ActInv
  <2>8. adrift # "lost" => Synced'
    BY <2>1, <2>2, <2>3, <2>4, <2>5, <1>v, <1>inv DEF Synced, Password!TypeOK
  <2> QED
    BY <2>1, <2>5, <2>6, <2>7, <2>8 DEF SyncInv
<1>8. CASE Password!Fails
  <2>1. /\ act' = "none" /\ change' = "none" /\ reset' = FALSE
        /\ act \in {"access", "reset", "read", "remove"} /\ act # "none"
        /\ turns' \in 0..MaxEvents /\ UNCHANGED <<user, wish, edited>>
    BY <1>8, <1>k DEF Password!Fails, Password!Idle
  <2>2. ActInv'
    BY <2>1 DEF ActInv
  <2>3. CASE act = "reset" /\ ~ Password!Skips /\ accepted' \in Password!NewPasswords
             /\ settling' = (user # "clickhouse") /\ adrift' = "pending"
    <3>1. userEntry.status = "kept" /\ userEntry' = userEntry
      BY <1>8, <2>3, <1>inv DEF Password!Fails, ActInv, Password!New
    <3>2. accepted' \in Password!Passwords /\ accepted' # "none"
      BY <2>1, <2>3, <1>r, <1>s
    <3>3. Password!TypeOK'
      BY <2>1, <2>3, <3>1, <3>2, <1>inv DEF Password!TypeOK
    <3>4. EntryInv'
      BY <2>1, <3>1, <1>inv DEF EntryInv
    <3>5. Again'
      BY <1>a, <2>1, <2>3, <3>1
    <3> QED
      BY <2>1, <2>2, <2>3, <3>3, <3>4, <3>5 DEF SyncInv
  <2>4. CASE /\ UNCHANGED <<accepted, settling>>
             /\ adrift' = IF reset /\ adrift = "no" THEN "pending" ELSE adrift
    <3>1. CASE Password!New /\ act = "read"
      <4> DEFINE F == Password!PasswordFlatten(Password!Known, Password!Version)
      <4>1. userEntry' = [status |-> "tainted", password |-> F, version |-> Password!Version]
        BY <1>8, <3>1 DEF Password!Fails
      <4>2. /\ F \in (Password!Passwords \ Password!WriteOnly) \cup {"none"}
            /\ Password!Version # 0 => F = "none"
            /\ Password!Version = 0 /\ Password!Plain # "none" => F = Password!Plain
            /\ Password!Version = 0 /\ Password!Plain = "none" => accepted \notin Password!WriteOnly
            /\ accepted \in Password!Passwords
        BY <1>h, <3>1
      <4>3. /\ userEntry'.status = "tainted" /\ userEntry'.password = F
            /\ userEntry'.version = Password!Version
            /\ userEntry' \in [status : {"none", "kept", "tainted"},
                               password : Password!Passwords \cup {"none"}, version : 0..2]
            /\ F \notin Password!WriteOnly
        BY <4>1, <4>2, <1>v, <1>s
      <4>4. Password!TypeOK'
        BY <2>1, <2>4, <4>2, <4>3, <1>inv, <1>s DEF Password!TypeOK
      <4>5. EntryInv'
        BY <2>4, <4>2, <4>3, <1>v, <1>s DEF EntryInv
      <4> QED
        BY <2>1, <2>2, <4>3, <4>4, <4>5 DEF SyncInv
    <3>2. CASE ~ (Password!New /\ act = "read")
      <4>1. userEntry' = userEntry
        BY <1>8, <3>2 DEF Password!Fails
      <4>2. Password!TypeOK'
        BY <2>1, <2>4, <4>1, <1>inv DEF Password!TypeOK
      <4>3. EntryInv'
        BY <2>1, <2>4, <4>1, <1>inv DEF EntryInv
      <4> QED
        BY <2>1, <2>2, <2>4, <4>1, <4>2, <4>3, <1>inv, <1>y, <1>g DEF SyncInv, Password!TypeOK
    <3> QED
      BY <3>1, <3>2
  <2> QED
    BY <1>8, <2>3, <2>4 DEF Password!Fails
<1>9. CASE Password!Settle
  <2>1. /\ settling' \in BOOLEAN /\ ~ settling'
        /\ UNCHANGED <<user, wish, edited, accepted, userEntry, act, change, reset, adrift, turns>>
    BY <1>9 DEF Password!Settle
  <2>2. Password!TypeOK'
    BY <2>1, <1>inv DEF Password!TypeOK
  <2>3. EntryInv' /\ ActInv'
    BY <2>1, <1>inv, <1>w, <1>d DEF EntryInv, ActInv, Password!New
  <2>4. SyncInv'
    BY <2>1, <1>inv, <1>w, <1>y, <1>g DEF SyncInv
  <2> QED
    BY <2>2, <2>3, <2>4
<1>10. CASE Password!Configure
  <2>1. /\ act = "none" /\ act' = "none" /\ reset = FALSE /\ reset' = FALSE /\ turns' \in 0..MaxEvents
        /\ UNCHANGED <<user, accepted, settling, userEntry, change>>
    BY <1>10, <1>k, <1>inv DEF Password!Configure, ActInv, Password!TypeOK
  <2>2. /\ \/ wish' \in Password!Given \cup Password!WriteOnly \cup {"any"}
              /\ adrift' = (IF adrift = "no" THEN "no" ELSE "lost") /\ edited' = edited
           \/ edited' = TRUE /\ UNCHANGED <<wish, adrift>>
    BY <1>10 DEF Password!Configure
  <2>3. Password!TypeOK'
    BY <2>1, <2>2, <1>inv DEF Password!TypeOK
  <2>4. EntryInv' /\ ActInv'
    BY <2>1, <1>inv DEF EntryInv, ActInv
  <2>5. userEntry.status = "kept" /\ adrift' # "lost" => Synced' \/ (Again' /\ adrift' = "pending")
    <3>1. CASE adrift' = (IF adrift = "no" THEN "no" ELSE "lost")
      BY <2>1, <3>1, <1>inv, <1>y DEF SyncInv
    <3>2. CASE edited' = TRUE /\ UNCHANGED <<wish, adrift>>
      BY <2>1, <3>2, <1>inv, <1>y, <1>w DEF SyncInv, Again, Password!Differs
    <3> QED
      BY <2>2, <3>1, <3>2
  <2> QED
    BY <2>1, <2>3, <2>4, <2>5 DEF SyncInv
<1>11. CASE Password!Outsider
  <2>1. /\ accepted' \in Password!Made /\ adrift' = "lost" /\ turns' \in 0..MaxEvents
        /\ accepted # "none" /\ act # "make"
        /\ UNCHANGED <<user, wish, edited, settling, userEntry, act, change, reset>>
    BY <1>11, <1>k DEF Password!Outsider
  <2>2. accepted' \in Password!Passwords /\ accepted' # "none" /\ accepted' \notin Password!WriteOnly
    BY <2>1, <1>s
  <2>3. Password!TypeOK'
    BY <2>1, <2>2, <1>inv DEF Password!TypeOK
  <2>4. EntryInv' /\ ActInv'
    BY <2>1, <2>2, <1>inv, <1>w, <1>d DEF EntryInv, ActInv, Password!New
  <2> QED
    BY <2>1, <2>2, <2>3, <2>4 DEF SyncInv
<1>12. CASE UNCHANGED userVars
  BY <1>12, <1>inv, <1>f, <1>w, <1>d, <1>y, <1>g
  DEF userVars, Password!TypeOK, EntryInv, ActInv, SyncInv, Password!New
<1> QED
  BY <1>1, <1>2, <1>3, <1>4, <1>5, <1>6, <1>7, <1>8, <1>9, <1>10, <1>11, <1>12
  DEF Password!Next, Password!Work

LEMMA PasswordNoop == PasswordInv => Password!NoopIsRight
<1> SUFFICES ASSUME PasswordInv, act = "plan", Password!Verdict = "none", adrift # "lost"
             PROVE  Password!Right
  BY DEF Password!NoopIsRight
<1>1. userEntry.status = "kept" /\ ~ Password!Differs
  BY DEF Password!Verdict, Password!FirstStep, PasswordInv, Password!TypeOK
<1>2. Synced /\ ~ (userEntry.version = 0 /\ userEntry.password = "none")
  BY <1>1 DEF PasswordInv, SyncInv, Again, EntryInv
<1>3. Password!Version = userEntry.version /\ Password!Plain \in {"none", userEntry.password}
  BY <1>1 DEF Password!Differs
<1>4. /\ wish \in Password!Given => Password!Plain = wish /\ Password!Version = 0
      /\ wish \in Password!WriteOnly =>
           Password!Plain = "none" /\ Password!Version # 0 /\ wish = Secret(Password!Version)
      /\ wish = "any" => Password!Plain = "none" /\ Password!Version = 0
      /\ wish \in Password!Given \cup Password!WriteOnly \cup {"any"}
      /\ wish \in Password!Given => wish # "none"
  BY Wishes, PasswordSets DEF PasswordInv, Password!TypeOK
<1> QED
  BY <1>2, <1>3, <1>4 DEF Synced, Password!Right

\* What a step sets another password for.
LEMMA RotatedStep ==
  PasswordInv /\ [Password!Next]_userVars =>
    (act = "reset" /\ act' # "reset" /\ accepted' # accepted
       => \/ userEntry.status = "none"
          \/ Password!Plain \notin {"none", userEntry.password}
          \/ Password!Version # userEntry.version
          \/ adrift = "lost" \/ Password!Regenerated)
<1> SUFFICES ASSUME PasswordInv, [Password!Next]_userVars, act = "reset", act' # "reset",
                    accepted' # accepted, userEntry.status # "none",
                    Password!Plain \in {"none", userEntry.password},
                    Password!Version = userEntry.version, adrift # "lost"
             PROVE  Password!Regenerated
  OBVIOUS
<1>1. accepted' \in Password!NewPasswords
  BY DEF Password!Next, Password!Work, Password!Refresh, Password!Plan, Password!Remove, Password!Make,
         Password!SetAccess, Password!ResetPassword, Password!ReadBack, Password!Settle, Password!Fails,
         Password!Configure, Password!Outsider, userVars
<1>2. userEntry.status = "kept" /\ Password!Differs
  BY DEF PasswordInv, ActInv
<1>3. edited
  BY <1>2 DEF Password!Differs
<1>4. CASE wish = "any"
  BY <1>3, <1>4, Wishes DEF PasswordInv, Password!Regenerated
<1>5. CASE wish # "any"
  <2>1. accepted' = wish
    BY <1>1, <1>5, Requests DEF PasswordInv, ActInv
  <2>2. accepted = wish
    <3>1. Synced \/ Again
      BY <1>2 DEF PasswordInv, SyncInv
    <3>2. CASE Synced
      <4>1. ~ (userEntry.version = 0 /\ userEntry.password = "none")
        BY <1>2 DEF PasswordInv, EntryInv
      <4>2. /\ wish \in Password!Given => Password!Plain = wish /\ Password!Version = 0
            /\ wish \in Password!WriteOnly =>
                 Password!Plain = "none" /\ Password!Version # 0 /\ wish = Secret(Password!Version)
            /\ wish \in Password!Given \cup Password!WriteOnly
            /\ wish \in Password!Given => wish # "none"
        BY <1>5, Wishes, PasswordSets DEF PasswordInv, Password!TypeOK
      <4> QED
        BY <3>2, <4>1, <4>2 DEF Synced
    <3> QED
      BY <1>5, <3>1, <3>2 DEF Again
  <2> QED
    BY <2>1, <2>2
<1> QED
  BY <1>4, <1>5

LEMMA PasswordView ==
  AppliesSpec => (Password!Init \/ PasswordSettled) /\ [][Password!Next]_userVars
<1>1. AppliesInit => Password!Init \/ PasswordSettled
  BY DEF AppliesInit
<1>2. [AppliesNext]_allVars => [Password!Next]_userVars
  BY DEF AppliesNext, InHandlers, InAttribute, InPassword, InField, OfService, InFilters, InDisk,
         InSettings, In, allVars
<1> QED
  BY <1>1, <1>2, PTL DEF AppliesSpec

\* The type invariant of a password, and that the state's password or version is of the
\* one the service accepts, or differs from the configuration so that it is set again.
THEOREM PasswordTypeCorrect == AppliesSpec => []PasswordInv
BY PasswordView, PasswordStart, PasswordStep, PTL

\* RotatedOnlyIfAsked: an Update resets a password to another one only if the user has
\* changed it, or it is generated and another attribute is edited: what a failed reset is
\* repeated with is the password that the service has taken already.
THEOREM PasswordRotated == AppliesSpec => RotatedOnlyIfAsked
<1>1. userVars = Password!userVars
  BY DEF userVars, Password!userVars
<1> QED
  BY PasswordTypeCorrect, PasswordView, RotatedStep, PTL
  DEF RotatedOnlyIfAsked, Password!RotatedOnlyIfAsked, Password!userVars, userVars

-----------------------------------------------------------------------------
(* The fields of user configurations.                                      *)

\* Since the refresh the state has what the service has, but for what no response
\* shows.
HeldInv ==
  held # "gone" /\ ~ Field!Is("createOnly") /\ (step = "plan" \/ (undisturbed /\ step # "none"))
    => stated = IF held = "none" THEN Field!Unset ELSE held

\* What is done is what the plan says.
DraftInv ==
  /\ step \in {"create", "update", "replace"} => value # "absent"
  /\ step = "create" => stated = "gone"
  /\ step \in {"update", "replace", "destroy"} => stated # "gone"
  /\ step = "update" => /\ draft = Field!PlannedInPlace
                       /\ ~ (Field!Shown /\ Field!Is("replaces"))

FieldInv == Field!TypeOK /\ HeldInv /\ DraftInv

\* A field has one type.
LEMMA FieldTypes ==
  ASSUME field \in Configs!UserConfigFields
  PROVE  /\ Field!Is("createOnly") => Field!Is("string") /\ Field!Is("replaces")
         /\ Field!Is("replaces") => ~ Field!Is("set") /\ ~ Field!Is("map")
         /\ Field!Is("string") => ~ Field!Is("number") /\ ~ Field!Collection
         /\ Field!Is("bool") => ~ Field!Is("number") /\ ~ Field!Collection
         /\ Field!Is("number") => ~ Field!Collection
         /\ Field!Is("objects") => ~ Field!Is("set") /\ ~ Field!Is("map")
<1> DEFINE types == {"number", "bool", "string", "list", "set", "objects", "map"}
<1>1. PICK type \in types : field \cap types = {type}
  BY FieldsAssumption
<1>2. \A u, v \in types : u \in field /\ v \in field => u = v
  BY <1>1
<1>3. /\ Field!Is("createOnly") => Field!Is("string") /\ Field!Is("replaces")
      /\ Field!Is("replaces") => ~ Field!Is("set") /\ ~ Field!Is("map")
  BY FieldsAssumption DEF Field!Is
<1> QED
  BY <1>2, <1>3 DEF Field!Is, Field!Collection

\* A list of blocks is never shown as removed: it is suppressed.
LEMMA ObjectsSuppressed ==
  ASSUME Field!TypeOK, Field!Is("objects"), value = "none", stated # "gone"
  PROVE  Field!PlannedInPlace = stated
<1>1. Field!Unset = "zero" /\ stated # "none"
  BY DEF Field!Unset, Field!Collection, Field!TypeOK, Field!Real
<1> QED
  BY <1>1, FieldTypes DEF Field!PlannedInPlace, Field!Shown, Field!SuppressUnchanged, Field!HasChange,
    Field!TypeOK

LEMMA SentValues ==
  ASSUME Field!TypeOK, value # "absent", stated # "gone", draft = Field!PlannedInPlace
  PROVE  Field!Sent(FALSE) \in Field!ConfigValues
<1>1. "none" \in Field!ConfigValues /\ value \in Field!ConfigValues
  BY DEF Field!TypeOK, Field!ConfigValues
<1>2. ~ Field!Is("objects") /\ Field!Collection => "zero" \in Field!ConfigValues
  BY FieldTypes DEF Field!ConfigValues, Field!TypeOK
<1>3. Field!Is("objects") /\ value \in {"none", "zero"} => draft = stated
  BY ObjectsSuppressed, <1>1 DEF Field!ConfigValues
<1> QED
  BY <1>1, <1>2, <1>3 DEF Field!Sent

LEMMA SentAnew ==
  ASSUME Field!TypeOK, value # "absent"
  PROVE  Field!Sent(TRUE) \in Field!ConfigValues
BY DEF Field!Sent, Field!TypeOK, Field!ConfigValues

LEMMA PlannedValues ==
  ASSUME Field!TypeOK, value # "absent"
  PROVE  /\ Field!PlannedAnew \in Field!Real \cup {Field!Unset}
         /\ stated # "gone" => Field!PlannedInPlace \in Field!Real \cup {Field!Unset}
BY DEF Field!TypeOK, Field!PlannedAnew, Field!PlannedInPlace, Field!Real

LEMMA FlattenedValues ==
  ASSUME NEW d \in Field!Real \cup {Field!Unset}, NEW v \in Field!ConfigValues
  PROVE  /\ Field!Flattened(d, v) \in Field!Real \cup {Field!Unset}
         /\ ~ Field!Is("createOnly") => Field!Flattened(d, v) = IF v = "none" THEN Field!Unset ELSE v
BY DEF Field!Flattened, Field!Answer, Field!Real

LEMMA FieldConstants ==
  /\ {"gone", "absent", "nothing"} \cap Field!ConfigValues = {}
  /\ Field!Unset \notin {"gone", "absent", "nothing"}
  /\ {"gone", "absent", "nothing", "none"} \cap Field!Real = {}
  /\ "none" \in Field!ConfigValues /\ Field!Real \subseteq Field!ConfigValues
BY DEF Field!ConfigValues, Field!Unset, Field!Real

LEMMA FieldStart == Field!Init \/ FieldSettled => FieldInv
<1> USE DEF FieldInv, HeldInv, DraftInv, Field!TypeOK
<1>1. 0 \in 0..MaxEvents
  BY ViewsAssumption
<1>2. CASE Field!Init
  BY <1>1, <1>2, FieldConstants DEF Field!Init
<1>3. CASE FieldSettled
  <2>1. (CHOOSE f \in Configs!UserConfigFields : TRUE) \in Configs!UserConfigFields
    <3>1. {"bool"} \in Configs!UserConfigFields
      <4>1. Configs!RsyslogIntegration \in Configs!IntegrationConfigs
        BY DEF Configs!IntegrationConfigs
      <4>2. {"bool"} \in Configs!Object(Configs!RsyslogIntegration)
        BY DEF Configs!Object, Configs!RsyslogIntegration, Configs!Bool
      <4> QED
        BY <4>1, <4>2 DEF Configs!UserConfigFields
    <3> QED
      BY <3>1
  <2> QED
    BY <1>1, <1>3, <2>1, FieldConstants DEF FieldSettled
<1> QED
  BY <1>2, <1>3
LEMMA FieldStep == FieldInv /\ [Field!Next]_fieldVars => FieldInv'
<1> SUFFICES ASSUME FieldInv, [Field!Next]_fieldVars
             PROVE  FieldInv'
  OBVIOUS
<1> USE DEF FieldInv
<1>f. field' = field /\ nine' = nine
  BY DEF Field!Next, Field!Work, Field!Refresh, Field!Plan, Field!Handle, Field!UpdateFails,
         Field!Delete, Field!Configure, Field!Touch, Field!Outsider, fieldVars
<1>i. \A flag : Field!Is(flag)' <=> Field!Is(flag)
  BY <1>f DEF Field!Is
<1>c. /\ Field!ConfigValues' = Field!ConfigValues /\ Field!Unset' = Field!Unset
      /\ Field!Real' = Field!Real
  BY <1>f DEF Field!ConfigValues, Field!Unset, Field!Real, Field!Collection, Field!Is
<1>p. UNCHANGED <<value, stated>> =>
        /\ Field!PlannedInPlace' = Field!PlannedInPlace
        /\ Field!Shown' <=> Field!Shown
  BY <1>f, <1>c DEF Field!PlannedInPlace, Field!PlannedAnew, Field!Shown, Field!Differs, Field!SuppressUnchanged,
              Field!HasChange, Field!Is
<1>k. Field!Change => changes' \in 0..MaxEvents
  BY ViewsAssumption DEF Field!Change, Field!TypeOK
<1>t. /\ {"gone", "absent", "nothing"} \cap Field!ConfigValues = {}
      /\ Field!Unset \notin {"gone", "absent", "nothing"}
      /\ {"gone", "absent", "nothing", "none"} \cap Field!Real = {}
  BY FieldConstants
<1>1. CASE Field!Refresh
  <2>1. CASE stated = "gone"
    BY <1>1, <2>1, <1>f, <1>c, <1>i DEF Field!Refresh, Field!TypeOK, HeldInv, DraftInv
  <2>2. CASE stated # "gone"
    <3>1. /\ stated' \in Field!Real \cup {Field!Unset}
          /\ ~ Field!Is("createOnly") => stated' = IF held = "none" THEN Field!Unset ELSE held
      BY <1>1, <2>2, FlattenedValues DEF Field!Refresh, Field!TypeOK
    <3> QED
      BY <1>1, <2>2, <3>1, <1>f, <1>c, <1>i, <1>t DEF Field!Refresh, Field!TypeOK, HeldInv, DraftInv
  <2> QED
    BY <2>1, <2>2
<1>2. CASE Field!Plan
  <2>1. /\ Field!Verdict \in {"none", "create", "update", "replace", "destroy"}
        /\ Field!Verdict \in {"create", "update", "replace"} => value # "absent"
        /\ Field!Verdict = "create" => stated = "gone"
        /\ Field!Verdict \in {"update", "replace", "destroy"} => stated # "gone"
        /\ Field!Verdict = "update" => ~ (Field!Shown /\ Field!Is("replaces"))
    BY DEF Field!Verdict
  <2>2. CASE Field!Verdict \in {"create", "replace"}
    BY <1>2, <2>1, <2>2, PlannedValues, <1>f, <1>c, <1>i, <1>t DEF Field!Plan, Field!TypeOK, HeldInv, DraftInv
  <2>3. CASE Field!Verdict = "update"
    <3>1. draft' = Field!PlannedInPlace /\ draft' \in Field!Real \cup {Field!Unset}
      BY <1>2, <2>1, <2>3, PlannedValues DEF Field!Plan
    <3> QED
      BY <1>2, <2>1, <2>3, <3>1, <1>f, <1>c, <1>i, <1>p, <1>t DEF Field!Plan, Field!TypeOK, HeldInv, DraftInv
  <2>4. CASE Field!Verdict \notin {"create", "replace", "update"}
    BY <1>2, <2>1, <2>4, <1>f, <1>c, <1>i, <1>t DEF Field!Plan, Field!TypeOK, HeldInv, DraftInv
  <2> QED
    BY <2>2, <2>3, <2>4
<1>3. ASSUME step = "update"
      PROVE  /\ draft \in Field!Real \cup {Field!Unset} /\ draft # "gone"
             /\ Field!Applied(Field!Sent(FALSE)) \subseteq Field!ConfigValues
             /\ stated # "gone" /\ held \in Field!ConfigValues
  BY <1>3, SentValues, FieldConstants, <1>t DEF DraftInv, Field!TypeOK, Field!Applied
<1>4. CASE Field!Handle
  <2>1. held' \in Field!ConfigValues /\ draft \in Field!Real \cup {Field!Unset}
    <3>1. CASE step = "create"
      BY <1>4, <3>1, SentAnew, <1>t DEF Field!Handle, Field!Applied, DraftInv, Field!TypeOK
    <3>2. CASE step = "update"
      BY <1>3, <1>4, <3>2 DEF Field!Handle
    <3> QED
      BY <1>4, <3>1, <3>2 DEF Field!Handle
  <2>2. stated' \in Field!Real \cup {Field!Unset}
    BY <1>4, <2>1, FlattenedValues DEF Field!Handle
  <2> QED
    BY <1>4, <2>1, <2>2, <1>f, <1>c, <1>i, <1>t DEF Field!Handle, Field!Idle, Field!TypeOK, HeldInv, DraftInv
<1>5. CASE Field!UpdateFails
  BY <1>3, <1>5, <1>f, <1>c, <1>i, <1>t, <1>k DEF Field!UpdateFails, Field!Idle, Field!TypeOK, HeldInv, DraftInv
<1>6. CASE Field!Delete
  BY <1>6, <1>f, <1>c, <1>i, <1>t DEF Field!Delete, Field!Idle, Field!TypeOK, HeldInv, DraftInv
<1>7. CASE Field!Configure
  BY <1>7, <1>f, <1>c, <1>i, <1>t, <1>k DEF Field!Configure, Field!TypeOK, HeldInv, DraftInv
<1>8. CASE Field!Touch
  BY <1>8, <1>f, <1>c, <1>i, <1>t, <1>k DEF Field!Touch, Field!TypeOK, HeldInv, DraftInv
<1>9. CASE Field!Outsider
  BY <1>9, <1>f, <1>c, <1>i, <1>p, <1>t, <1>k DEF Field!Outsider, Field!TypeOK, HeldInv, DraftInv
<1>10. CASE UNCHANGED fieldVars
  BY <1>10, <1>f, <1>c, <1>i, <1>p DEF fieldVars, Field!TypeOK, HeldInv, DraftInv
<1> QED
  BY <1>1, <1>2, <1>4, <1>5, <1>6, <1>7, <1>8, <1>9, <1>10 DEF Field!Next, Field!Work

\* What the state has of a field that a response shows.
LEMMA StatedIsHeld ==
  ASSUME FieldInv, step = "plan" \/ (undisturbed /\ step = "update"), stated # "gone",
         ~ Field!Is("createOnly")
  PROVE  /\ stated = (IF held = "none" THEN Field!Unset ELSE held) /\ held \in Field!ConfigValues
         /\ Field!Unset = (IF Field!Is("number") \/ Field!Collection THEN "zero" ELSE "none")
BY DEF FieldInv, HeldInv, Field!TypeOK, Field!Unset

LEMMA FieldNoop == FieldInv => Field!NoopIsRight
<1> SUFFICES ASSUME FieldInv, step = "plan", Field!Verdict = "none", value # "absent",
                    ~ Field!Is("createOnly"), value # "none"
             PROVE  Field!Right \/ Field!ZeroUnseen
  BY DEF Field!NoopIsRight, Field!Right, Field!Unseen
<1>1. stated # "gone" /\ ~ Field!Shown
  BY DEF Field!Verdict
<1>2. /\ stated = (IF held = "none" THEN Field!Unset ELSE held)
      /\ Field!Unset = (IF Field!Is("number") \/ Field!Collection THEN "zero" ELSE "none")
  BY <1>1, StatedIsHeld
<1>3. value = stated
  BY <1>1 DEF Field!Shown, Field!Differs, Field!SuppressUnchanged, Field!HasChange
<1> QED
  BY <1>2, <1>3 DEF Field!Right, Field!ZeroUnseen

LEMMA FieldReplaced == FieldInv => Field!ReplacedOnlyIfAsked
<1> SUFFICES ASSUME FieldInv, step = "plan", Field!Verdict = "replace", Field!Right,
                    ~ Field!Is("createOnly")
             PROVE  FALSE
  BY DEF Field!ReplacedOnlyIfAsked, Field!Unseen
<1>1. stated # "gone" /\ Field!Shown /\ ~ Field!Is("set") /\ ~ Field!Is("map")
  BY FieldTypes DEF Field!Verdict, FieldInv, Field!TypeOK
<1>2. /\ stated = (IF held = "none" THEN Field!Unset ELSE held)
      /\ Field!Unset = (IF Field!Is("number") \/ Field!Collection THEN "zero" ELSE "none")
  BY <1>1, StatedIsHeld
<1> QED
  BY <1>1, <1>2 DEF Field!Right, Field!Shown, Field!Differs, Field!SuppressUnchanged, Field!HasChange

\* What an Update changes is what the plan shows.
LEMMA FieldPlansStep ==
  FieldInv /\ [Field!Next]_fieldVars =>
    (undisturbed /\ step = "update" /\ step' = "none" /\ changes' = changes
       => \/ held' = IF draft = stated THEN held ELSE draft
          \/ draft = stated /\ {held, held'} \subseteq {"none", "zero"}
          \/ Field!Is("item") /\ held' = "none"
          \/ Field!MapRemoved)
<1> SUFFICES ASSUME FieldInv, [Field!Next]_fieldVars, undisturbed, step = "update", step' = "none",
                    changes' = changes, ~ (Field!Is("item") /\ held' = "none"), ~ Field!MapRemoved
             PROVE  \/ held' = IF draft = stated THEN held ELSE draft
                    \/ draft = stated /\ {held, held'} \subseteq {"none", "zero"}
  OBVIOUS
<1>1. Field!Handle
  <2>1. Field!Change => changes' # changes
    BY ViewsAssumption DEF FieldInv, Field!TypeOK, Field!Change
  <2> QED
    BY <2>1 DEF Field!Next, Field!Work, Field!Refresh, Field!Plan, Field!UpdateFails, Field!Delete,
                Field!Configure, Field!Touch, Field!Outsider, fieldVars
<1>2. /\ held' = IF Field!Sent(FALSE) = "none" THEN held ELSE Field!Sent(FALSE)
      /\ stated # "gone" /\ draft = Field!PlannedInPlace /\ value # "absent"
  BY <1>1 DEF Field!Handle, Field!Applied, FieldInv, DraftInv
<1>3. CASE Field!Is("replaces")
  BY <1>2, <1>3 DEF Field!Sent, FieldInv, DraftInv, Field!PlannedInPlace
<1>4. CASE ~ Field!Is("replaces")
  <2>1. /\ stated = (IF held = "none" THEN Field!Unset ELSE held)
        /\ Field!Unset = (IF Field!Is("number") \/ Field!Collection THEN "zero" ELSE "none")
    BY <1>2, <1>4, StatedIsHeld, FieldTypes DEF FieldInv, Field!TypeOK
  <2>2. CASE value = "none" /\ ~ Field!Collection
    BY <1>2, <1>4, <2>1, <2>2 DEF Field!Sent, Field!PlannedInPlace, Field!Shown, Field!Differs, Field!SuppressUnchanged,
      Field!HasChange, Field!Collection, Field!PlannedAnew
  <2>3. CASE value # "none" /\ (Field!Is("map") \/ ~ Field!Collection \/ value # "zero")
    BY <1>2, <1>4, <2>1, <2>3 DEF Field!Sent, Field!PlannedInPlace, Field!Shown, Field!Differs, Field!SuppressUnchanged,
      Field!HasChange, Field!PlannedAnew
  <2>4. CASE value \in {"none", "zero"} /\ Field!Collection /\ ~ Field!Is("map")
    BY <1>2, <1>4, <2>1, <2>4 DEF Field!Sent, Field!PlannedInPlace, Field!PlannedAnew, Field!Shown
  <2> QED
    BY <2>2, <2>3, <2>4 DEF Field!MapRemoved, Field!Collection
<1> QED
  BY <1>3, <1>4

LEMMA FieldView ==
  AppliesSpec => (Field!Init \/ FieldSettled) /\ [][Field!Next]_fieldVars
<1>1. AppliesInit => Field!Init \/ FieldSettled
  BY DEF AppliesInit
<1>2. [AppliesNext]_allVars => [Field!Next]_fieldVars
  BY DEF AppliesNext, InHandlers, InAttribute, InPassword, InField, OfService, InFilters, InDisk,
         InSettings, In, allVars
<1> QED
  BY <1>1, <1>2, PTL DEF AppliesSpec

\* The type invariant of a field of a user configuration, and that the state shows what
\* the service has, with the zero value for what is not set.
THEOREM FieldTypeCorrect == AppliesSpec => []FieldInv
BY FieldView, FieldStart, FieldStep, PTL

\* The fields' part of PlansKept: an Update sends what the plan shows, and nothing for a
\* field whose change the plan suppresses.
THEOREM FieldPlansKept == AppliesSpec => Field!PlansKept
<1>1. fieldVars = Field!fieldVars
  BY DEF fieldVars, Field!fieldVars
<1> QED
  BY FieldTypeCorrect, FieldView, FieldPlansStep, PTL
  DEF Field!PlansKept, Field!fieldVars, fieldVars

-----------------------------------------------------------------------------
(* The networks that may connect to a service.                             *)

\* A plan is made of what the refresh has shown: the list, in one of the fields.
\* What is updated is there.
ListedInv ==
  /\ doing = "plan" /\ networks # "gone" =>
       \E shows \in Filter!AllFilters :
         known = [f \in Filter!AllFilters |-> IF f = shows THEN networks ELSE "empty"]
  /\ doing = "update" => networks # "gone"

LEMMA FilterValues ==
  ASSUME NEW c \in Filter!Configurations
  PROVE  c \in [Filter!AllFilters -> Filter!Lists \cup {"none"}]
BY DEF Filter!Configurations, Filter!AllFilters, Filter!Strings, Filter!Aliases, Filter!NonEmpty,
       Filter!Lists

\* A list that is shown takes one of the fields.
LEMMA FlattenedType ==
  ASSUME NEW d, NEW list \in Filter!Lists, NEW v \in Filter!Flattened(d, list)
  PROVE  /\ v \in [Filter!AllFilters -> Filter!Lists]
         /\ \E shows \in Filter!AllFilters :
              v = [f \in Filter!AllFilters |-> IF f = shows THEN list ELSE "empty"]
<1>1. Filter!Showing(d) \subseteq Filter!AllFilters
  BY DEF Filter!Showing, Filter!AllFilters, Filter!Strings, Filter!Aliases
<1>2. PICK shows \in Filter!Showing(d) :
        v = [f \in Filter!AllFilters |-> IF f = shows THEN list ELSE "empty"]
  BY DEF Filter!Flattened
<1> QED
  BY <1>1, <1>2 DEF Filter!Lists

\* What a request asks for is in one of the fields, and it is empty only if none
\* of them has networks.
LEMMA RequestsAsk ==
  ASSUME filters \in [Filter!AllFilters -> Filter!Lists \cup {"none"}],
         NEW r \in Filter!Requests
  PROVE  /\ r \in Filter!Lists \cup {"absent"}
         /\ r \in Filter!NonEmpty => \E f \in Filter!AllFilters : filters[f] = r
         /\ r \notin Filter!NonEmpty => \A f \in Filter!AllFilters : filters[f] \notin Filter!NonEmpty
<1> DEFINE E(f) == Filter!Expanded(f)
<1>1. \A f \in Filter!AllFilters :
        /\ E(f) \in Filter!Lists \cup {"absent"}
        /\ E(f) \in Filter!NonEmpty <=> filters[f] \in Filter!NonEmpty
        /\ E(f) \in Filter!NonEmpty => filters[f] = E(f)
  BY DEF Filter!Expanded, Filter!NonEmpty, Filter!Lists
<1>2. \A list, a :
        /\ Filter!Renamed(list, a) \in {list, E(a)}
        /\ Filter!Renamed(list, a) \in Filter!NonEmpty
             <=> list \in Filter!NonEmpty \/ E(a) \in Filter!NonEmpty
  BY DEF Filter!Renamed, Filter!NonEmpty, Filter!Lists
<1>3. PICK o \in Filter!Orders : r = Filter!Renamed(Filter!Renamed(E("ip_filter"), o[1]), o[2])
  BY DEF Filter!Requests
<1>4. /\ {"ip_filter", o[1], o[2]} = Filter!AllFilters
  BY DEF Filter!Orders, Filter!AllFilters, Filter!Strings, Filter!Aliases
<1>5. /\ r \in {E("ip_filter"), E(o[1]), E(o[2])}
      /\ r \in Filter!NonEmpty <=> \E f \in {"ip_filter", o[1], o[2]} : E(f) \in Filter!NonEmpty
  BY <1>2, <1>3
<1> HIDE DEF E
<1> QED
  BY <1>1, <1>4, <1>5

FilterInv == Filter!TypeOK /\ ListedInv

LEMMA FilterStep == FilterInv /\ [Filter!Next]_filterVars => FilterInv'
<1> SUFFICES ASSUME FilterInv, [Filter!Next]_filterVars
             PROVE  FilterInv'
  OBVIOUS
<1> USE DEF FilterInv, Filter!TypeOK
<1>0. /\ filters \in [Filter!AllFilters -> Filter!Lists \cup {"none"}]
      /\ Filter!Nowhere \in [Filter!AllFilters -> Filter!Lists]
      /\ Filter!PlannedAnew \in [Filter!AllFilters -> Filter!Lists]
      /\ Filter!PlannedInPlace \in [Filter!AllFilters -> Filter!Lists]
  <2>1. filters \in [Filter!AllFilters -> Filter!Lists \cup {"none"}]
    BY FilterValues
  <2>2. Filter!Nowhere \in [Filter!AllFilters -> Filter!Lists]
    BY DEF Filter!Nowhere, Filter!Lists
  <2>3. Filter!PlannedAnew \in [Filter!AllFilters -> Filter!Lists]
    BY <2>1 DEF Filter!PlannedAnew, Filter!Lists
  <2>4. Filter!PlannedInPlace \in [Filter!AllFilters -> Filter!Lists]
    BY <2>3 DEF Filter!PlannedInPlace
  <2> QED
    BY <2>1, <2>2, <2>3, <2>4
<1>1. CASE Filter!Refresh
  <2>1. CASE networks = "gone"
    BY <1>1, <2>1 DEF Filter!Refresh, ListedInv
  <2>2. CASE networks # "gone"
    <3>1. known' \in Filter!Flattened(known, networks) /\ networks \in Filter!Lists
      BY <1>1, <2>2 DEF Filter!Refresh
    <3>2. /\ known' \in [Filter!AllFilters -> Filter!Lists]
          /\ \E shows \in Filter!AllFilters :
               known' = [f \in Filter!AllFilters |-> IF f = shows THEN networks ELSE "empty"]
      BY <3>1, FlattenedType
    <3> QED
      BY <1>1, <2>2, <3>2 DEF Filter!Refresh, ListedInv
  <2> QED
    BY <2>1, <2>2
<1>2. CASE Filter!Plan
  BY <1>0, <1>2 DEF Filter!Plan, Filter!Verdict, ListedInv
<1>3. ASSUME NEW d, networks' \in Filter!Lists, known' \in Filter!Flattened(d, networks')
      PROVE  known' \in [Filter!AllFilters -> Filter!Lists] /\ networks' # "gone"
  BY <1>3, FlattenedType DEF Filter!Lists
<1>4. CASE Filter!Create
  <2>1. networks' \in Filter!Lists
    BY <1>0, <1>4, RequestsAsk DEF Filter!Create, Filter!Lists
  <2>2. known' \in [Filter!AllFilters -> Filter!Lists] /\ networks' # "gone"
    BY <1>3, <1>4, <2>1 DEF Filter!Create
  <2> QED
    BY <1>4, <2>1, <2>2 DEF Filter!Create, Filter!Idle, ListedInv
<1>5. Filter!Move => moves' \in 0..MaxEvents
  BY ViewsAssumption DEF Filter!Move
<1>6. CASE Filter!Update
  <2>1. networks \in Filter!Lists
    BY <1>6 DEF Filter!Update, ListedInv
  <2>2. networks' \in Filter!Lists
    BY <1>0, <1>6, <2>1, RequestsAsk DEF Filter!Update
  <2>3. known' \in [Filter!AllFilters -> Filter!Lists] /\ networks' # "gone"
    BY <1>3, <1>6, <2>2 DEF Filter!Update, Filter!Lists
  <2> QED
    BY <1>0, <1>5, <1>6, <2>2, <2>3 DEF Filter!Update, Filter!Idle, ListedInv
<1>7. CASE Filter!UpdateFails
  BY <1>0, <1>5, <1>7 DEF Filter!UpdateFails, Filter!Idle, ListedInv
<1>8. CASE Filter!Configure \/ Filter!Touch \/ Filter!Outsider
  BY <1>5, <1>8 DEF Filter!Configure, Filter!Touch, Filter!Outsider, ListedInv, Filter!Lists
<1>9. CASE UNCHANGED filterVars
  BY <1>9 DEF filterVars, ListedInv
<1> QED
  BY <1>1, <1>2, <1>4, <1>6, <1>7, <1>8, <1>9 DEF Filter!Next, Filter!Work

LEMMA FilterStart == Filter!Init \/ FilterSettled => FilterInv
<1> USE DEF FilterInv, Filter!TypeOK
<1>1. Filter!Nowhere \in [Filter!AllFilters -> Filter!Lists]
  BY DEF Filter!Nowhere, Filter!Lists
<1>2. 0 \in 0..MaxEvents
  BY ViewsAssumption
<1>3. CASE Filter!Init
  BY <1>1, <1>2, <1>3 DEF Filter!Init, ListedInv
<1>4. CASE FilterSettled
  <2>1. filters \in Filter!Configurations
    <3> DEFINE Made(used, list, cleared) ==
          [f \in Filter!AllFilters |-> IF f = used THEN list
                                     ELSE IF f \in cleared THEN "empty" ELSE "none"]
    <3>1. \A used \in Filter!AllFilters, list \in Filter!NonEmpty \cup {"none"},
             cleared \in SUBSET Filter!Strings : Made(used, list, cleared) \in Filter!Configurations
      BY DEF Filter!Configurations
    <3>2. filters = Made("ip_filter", "none", {}) /\ "ip_filter" \in Filter!AllFilters
      BY <1>4 DEF FilterSettled, Filter!AllFilters, Filter!Strings
    <3> HIDE DEF Made
    <3> QED
      BY <3>1, <3>2
  <2> QED
    BY <1>1, <1>2, <1>4, <2>1 DEF FilterSettled, ListedInv, Filter!Lists
<1> QED
  BY <1>3, <1>4

LEMMA FiltersKeptStep ==
  FilterInv /\ [Filter!Next]_filterVars
    => [doing = "update" /\ doing' = "none" /\ networks' # networks
          => IF networks' = "empty" THEN purge /\ Filter!Asked \subseteq {"empty"}
                                    ELSE networks' \in Filter!Asked]_filterVars
<1> SUFFICES ASSUME FilterInv, [Filter!Next]_filterVars,
                    doing = "update", doing' = "none", networks' # networks
             PROVE  IF networks' = "empty" THEN purge /\ Filter!Asked \subseteq {"empty"}
                                           ELSE networks' \in Filter!Asked
  OBVIOUS
<1>1. Filter!Update
  BY DEF Filter!Next, Filter!Work, Filter!Refresh, Filter!Plan, Filter!Create, Filter!UpdateFails,
         Filter!Configure, Filter!Touch, Filter!Outsider, filterVars
<1>2. networks' \in Filter!Requests /\ networks' # "absent" /\ ~ Filter!Refused(networks')
  BY <1>1 DEF Filter!Update
<1>3. filters \in [Filter!AllFilters -> Filter!Lists \cup {"none"}]
  BY FilterValues DEF FilterInv, Filter!TypeOK
<1>4. /\ networks' \in Filter!Lists
      /\ networks' \in Filter!NonEmpty => \E f \in Filter!AllFilters : filters[f] = networks'
      /\ networks' \notin Filter!NonEmpty
           => \A f \in Filter!AllFilters : filters[f] \notin Filter!NonEmpty
  BY <1>2, <1>3, RequestsAsk
<1>5. CASE networks' = "empty"
  BY <1>2, <1>3, <1>4, <1>5 DEF Filter!Refused, Filter!Asked, Filter!NonEmpty
<1>6. CASE networks' # "empty"
  BY <1>3, <1>4, <1>6 DEF Filter!Asked, Filter!NonEmpty, Filter!Lists
<1> QED
  BY <1>5, <1>6

LEMMA FilterNoop == FilterInv => Filter!NoopIsRight
<1> SUFFICES ASSUME FilterInv, doing = "plan", Filter!Verdict = "none", ~ Filter!Overlooked
             PROVE  Filter!Right
  BY DEF Filter!NoopIsRight
<1>1. networks # "gone" /\ Filter!PlannedInPlace = known
  BY DEF Filter!Verdict
<1>2. PICK shows \in Filter!AllFilters :
        known = [f \in Filter!AllFilters |-> IF f = shows THEN networks ELSE "empty"]
  BY <1>1 DEF FilterInv, ListedInv
<1>3. filters \in [Filter!AllFilters -> Filter!Lists \cup {"none"}] /\ networks \in Filter!Lists
  BY <1>1, FilterValues DEF FilterInv, Filter!TypeOK
<1>4. \A f \in Filter!AllFilters :
        IF Filter!SuppressUnchanged(f, known[f])
        THEN f = shows /\ networks = "any" /\ filters[f] \in {"none", "any"} /\ f \in Filter!Strings
        ELSE known[f] = IF filters[f] = "none" THEN "empty" ELSE filters[f]
  BY <1>1, <1>2 DEF Filter!PlannedInPlace, Filter!PlannedAnew, Filter!SuppressUnchanged, Filter!HasChange
<1>5. \A f \in Filter!AllFilters : filters[f] \in {"none", "empty", networks}
  BY <1>2, <1>4
<1>6. CASE \E f \in Filter!AllFilters : filters[f] \in Filter!NonEmpty
  <2> DEFINE given == {filters[f] : f \in Filter!AllFilters} \ {"none"}
  <2>1. networks \in given /\ networks # "empty" /\ given \subseteq {"empty", networks}
    BY <1>3, <1>5, <1>6 DEF Filter!NonEmpty, Filter!Lists
  <2>2. Filter!Asked = given \ {"empty"}
    BY <2>1 DEF Filter!Asked
  <2>3. given \ {"empty"} = {networks}
    BY <2>1
  <2> QED
    BY <2>2, <2>3 DEF Filter!Right
<1>7. CASE \A f \in Filter!AllFilters : filters[f] \notin Filter!NonEmpty
  <2>1. CASE networks = "empty"
    BY <1>5, <2>1 DEF Filter!Right, Filter!Asked
  <2>2. CASE networks # "empty"
    <3>1. shows \in Filter!Strings /\ known[shows] = "any" /\ filters[shows] = "none"
      BY <1>2, <1>3, <1>4, <1>7, <2>2 DEF Filter!NonEmpty, Filter!Lists
    <3>2. \A f \in Filter!AllFilters : filters[f] = "none"
      BY <1>3, <1>7, <3>1 DEF Filter!Overlooked, Filter!NonEmpty, Filter!Lists
    <3> QED
      BY <3>2 DEF Filter!Right, Filter!Asked
  <2> QED
    BY <2>1, <2>2
<1> QED
  BY <1>6, <1>7

LEMMA FilterView ==
  AppliesSpec => (Filter!Init \/ FilterSettled) /\ [][Filter!Next]_filterVars
<1>1. AppliesInit => Filter!Init \/ FilterSettled
  BY DEF AppliesInit
<1>2. [AppliesNext]_allVars => [Filter!Next]_filterVars
  BY DEF AppliesNext, InHandlers, InAttribute, InPassword, InField, OfService, InFilters, InDisk,
         InSettings, In, allVars, serviceVars
<1> QED
  BY <1>1, <1>2, PTL DEF AppliesSpec

\* The type invariant of the networks, and that a refresh lists them in one field.
THEOREM FilterTypeCorrect == AppliesSpec => []FilterInv
BY FilterView, FilterStart, FilterStep, PTL

\* FiltersKept: an Update that changes the networks makes them those that some field of
\* the configuration lists, and blocks all traffic only if that is allowed and none does:
\* Expand keeps the list of the first field that has networks, whatever the order of the
\* aliases.
THEOREM FiltersAreKept == AppliesSpec => FiltersKept
<1>1. filterVars = Filter!filterVars
  BY DEF filterVars, Filter!filterVars
<1> QED
BY FilterTypeCorrect, FilterView, FiltersKeptStep, PTL DEF FiltersKept, Filter!FiltersKept, Filter!filterVars, filterVars

-----------------------------------------------------------------------------
(* The disk of a service.                                                  *)

Services == [plan : Disk!Plans \cup {"gone"}, disk : 0..4, scaled : BOOLEAN]

Tracks == [plan : Disk!Plans \cup {"gone"}, disk : Disk!Sizes, extra : Disk!Sizes]

\* The plan is of the service that the refresh has shown.
TrackedInv ==
  /\ service \in Services /\ tracked \in Tracks /\ proposal \in Tracks
  /\ tracked.plan # "gone" /\ (task = "plan" \/ (steady /\ task = "update"))
       => tracked.plan = service.plan /\ tracked.extra = Disk!ExtraShown(service)

\* What is done is what the plan says, and fits the plan of the service.
ProposalInv ==
  /\ task \in {"create", "update"} =>
       /\ proposal.plan = configured.plan /\ proposal.disk = configured.disk
       /\ Disk!Fits \/ (Disk!Kept = Disk!None /\ ~ Disk!HasConfigValue(configured.disk))
  /\ task = "create" => service.plan = "gone"
  /\ task = "update" => service.plan # "gone"
  /\ steady /\ task = "update" => proposal = Disk!Proposed

DiskInv == Disk!TypeOK /\ TrackedInv /\ ProposalInv

LEMMA SizeFacts ==
  /\ Disk!None # Disk!NoMore /\ Disk!None \in Disk!Sizes /\ Disk!NoMore \in Disk!Sizes
  /\ Disk!Number(Disk!None) = 0
  /\ \A n \in 1..4 : /\ Disk!HumanReadable(n) \in Disk!Sizes
                     /\ Disk!HumanReadable(n) \notin {Disk!None, Disk!NoMore}
                     /\ Disk!Number(Disk!HumanReadable(n)) = n
  /\ \A s \in Disk!Sizes \ {Disk!None, Disk!NoMore} : Disk!Number(s) \in 1..4
<1>1. \A n : Disk!Number(Disk!HumanReadable(n)) = n /\ Disk!HumanReadable(n) \notin {Disk!None, Disk!NoMore}
  BY DEF Disk!None, Disk!NoMore, Disk!Number, Disk!HumanReadable
<1>2. Disk!Number(<<2, "G">>) = 2 /\ Disk!Number(Disk!None) = 0 /\ Disk!None # Disk!NoMore
  BY DEF Disk!None, Disk!NoMore, Disk!Number
<1>3. /\ Disk!None \in Disk!Sizes /\ Disk!NoMore \in Disk!Sizes
      /\ \A n \in 1..4 : Disk!HumanReadable(n) \in Disk!Sizes
      /\ \A s \in Disk!Sizes \ {Disk!None, Disk!NoMore} :
           s = <<2, "G">> \/ \E n \in 1..4 : s = Disk!HumanReadable(n)
  BY DEF Disk!Sizes
<1> QED
  BY <1>1, <1>2, <1>3

LEMMA ConfiguredFacts ==
  ASSUME Disk!TypeOK
  PROVE  /\ configured.plan \in Disk!Plans
         /\ configured.disk \in Disk!Sizes \ {Disk!NoMore}
         /\ configured.extra \in Disk!Sizes \ {Disk!NoMore}
         /\ Disk!None \in {configured.disk, configured.extra}
         /\ Disk!Number(configured.extra) \in 0..2
BY DEF Disk!TypeOK, Disk!Configurations

\* A size that fits a plan is one that it can have.
LEMMA FittingSizes ==
  ASSUME Disk!TypeOK, ~ Disk!Unrequestable,
         Disk!Fits \/ (Disk!Kept = Disk!None /\ ~ Disk!HasConfigValue(configured.disk))
  PROVE  Disk!Requested # 0 => Disk!Requested \in Disk!Possible(configured.plan)
<1> DEFINE number == Disk!Requested
           default == Disk!DiskSizeDefault(configured.plan)
<1>1. /\ configured.plan \in Disk!Plans /\ default \in 0..2
      /\ configured.plan = "unknown" <=> default = 0
  BY ConfiguredFacts DEF Disk!DiskSizeDefault, Disk!Plans
<1>2. number \in 0..4
  BY <1>1, ConfiguredFacts, SizeFacts DEF Disk!Requested, Disk!HasConfigValue
<1>3. CASE configured.plan = "unknown"
  BY <1>2, <1>3 DEF Disk!Possible
<1>4. CASE configured.plan # "unknown"
  <2>1. CASE Disk!Fits
    <3>1. number = default \/ number \in default..Disk!DiskSizeMax(configured.plan)
      BY <1>4, <2>1 DEF Disk!Fits
    <3> QED
      BY <1>1, <1>2, <1>4, <3>1 DEF Disk!Possible, Disk!DiskSizeDefault, Disk!DiskSizeMax, Disk!Plans
  <2>2. CASE ~ Disk!Fits
    <3>1. configured.extra = Disk!None /\ number = default
      BY <2>2, <1>1, SizeFacts DEF Disk!Kept, Disk!HasConfigValue, Disk!Requested
    <3> QED
      BY <1>1, <1>4, <3>1 DEF Disk!Possible, Disk!DiskSizeDefault, Disk!DiskSizeMax, Disk!Plans
  <2> QED
    BY <2>1, <2>2
<1> QED
  BY <1>3, <1>4

LEMMA PossibleSizes ==
  \A plan \in Disk!Plans :
    /\ Disk!Possible(plan) \subseteq 1..4 /\ Disk!DiskSizeDefault(plan) \in 0..2
    /\ plan # "unknown" => \A disk \in Disk!Possible(plan) : disk >= Disk!DiskSizeDefault(plan)
    /\ plan # "unknown" => Disk!DiskSizeDefault(plan) > 0
    /\ plan = "unknown" => Disk!DiskSizeDefault(plan) = 0
BY DEF Disk!Possible, Disk!DiskSizeDefault, Disk!DiskSizeMax, Disk!Plans

LEMMA ExtraFacts ==
  ASSUME NEW s \in Services, s.plan \in Disk!Plans, s.disk \in Disk!Possible(s.plan)
  PROVE  /\ Disk!ExtraShown(s) \in Disk!Sizes \ {Disk!NoMore}
         /\ Disk!ExtraShown(s) = Disk!None <=>
              s.plan = "unknown" \/ s.disk = Disk!DiskSizeDefault(s.plan)
         /\ Disk!ExtraShown(s) # Disk!None =>
              s.disk = Disk!DiskSizeDefault(s.plan) + Disk!Number(Disk!ExtraShown(s))
BY PossibleSizes, SizeFacts DEF Disk!ExtraShown

LEMMA CopiedFacts ==
  ASSUME NEW d \in Tracks, NEW s \in Services, s.plan \in Disk!Plans, s.disk \in Disk!Possible(s.plan),
         NEW w \in BOOLEAN
  PROVE  /\ Disk!Copied(d, s, w) \in Tracks
         /\ Disk!Copied(d, s, w).plan = s.plan
         /\ Disk!Copied(d, s, w).extra = Disk!ExtraShown(s)
         /\ d.disk # Disk!NoMore => Disk!Copied(d, s, w).disk # Disk!NoMore
<1>1. Disk!HumanReadable(s.disk) \in Disk!Sizes \ {Disk!NoMore}
  BY PossibleSizes, SizeFacts
<1> QED
  BY <1>1, ExtraFacts DEF Disk!Copied, Tracks, Services

LEMMA ProposedFacts ==
  ASSUME Disk!TypeOK, tracked \in Tracks
  PROVE  /\ Disk!Proposed \in Tracks /\ Disk!Proposed # Disk!Anew
         /\ Disk!Proposed.plan = configured.plan /\ Disk!Proposed.disk = configured.disk
         /\ Disk!Proposed.extra = Disk!Extra
<1>1. Disk!Extra \in Disk!Sizes
  BY ConfiguredFacts, SizeFacts DEF Disk!Extra, Disk!Kept, Tracks
<1> QED
  BY <1>1, ConfiguredFacts DEF Disk!Proposed, Tracks, Disk!Anew, Disk!Plans

LEMMA AnewFacts ==
  Disk!Anew \in Tracks /\ Disk!Anew.plan = "gone" /\ Disk!Anew.disk = Disk!None /\ Disk!Anew.extra = Disk!None
BY SizeFacts DEF Disk!Anew, Tracks

LEMMA DiskStart == Disk!Init \/ DiskSettled => DiskInv
<1> USE DEF DiskInv, TrackedInv, ProposalInv, Disk!TypeOK
<1>1. 0 \in 0..MaxSizings
  BY ViewsAssumption
<1>2. CASE Disk!Init
  <2>1. CASE service = [plan |-> "gone", disk |-> 0, scaled |-> FALSE] /\ tracked = Disk!Anew
    <3>1. service \in Services /\ service.plan = "gone" /\ service.scaled = FALSE /\ "gone" \notin Disk!Plans
      BY <2>1 DEF Services, Disk!Plans
    <3> QED
      BY <1>1, <1>2, <2>1, <3>1, AnewFacts, SizeFacts DEF Disk!Init
  <2>2. CASE /\ service \in [plan : Disk!Plans, disk : 1..4, scaled : BOOLEAN]
             /\ service.disk \in Disk!Possible(service.plan)
             /\ tracked = [Disk!Anew EXCEPT !.plan = service.plan]
    <3>1. tracked \in Tracks /\ tracked.plan = service.plan /\ tracked.disk = Disk!None /\ tracked.extra = Disk!None
      BY <2>2, AnewFacts DEF Tracks
    <3>2. service \in Services /\ service.plan # "gone"
      BY <2>2 DEF Services, Disk!Plans
    <3> QED
      BY <1>1, <1>2, <2>2, <3>1, <3>2, AnewFacts, SizeFacts DEF Disk!Init
  <2> QED
    BY <1>2, <2>1, <2>2 DEF Disk!Init
<1>3. CASE DiskSettled
  <2>1. configured = [plan |-> "small", disk |-> Disk!None, extra |-> Disk!None]
    BY <1>3 DEF DiskSettled, Disk!Anew
  <2>2. configured \in Tracks /\ configured \in Disk!Configurations
    BY <2>1, SizeFacts DEF Tracks, Disk!Configurations, Disk!Plans
  <2>3. service \in Services /\ service.plan = "small" /\ service.disk = 1 /\ service.scaled = FALSE
    BY <1>3 DEF DiskSettled, Services, Disk!Plans
  <2>4. 1 \in Disk!Possible("small")
    BY DEF Disk!Possible, Disk!DiskSizeDefault, Disk!DiskSizeMax
  <2>5. /\ tracked = configured /\ modified = FALSE /\ task = "none" /\ proposal = Disk!Anew
        /\ steady = TRUE /\ sizings = 0
    BY <1>3 DEF DiskSettled
  <2>6. tracked.plan = "small" /\ tracked.disk = Disk!None /\ tracked.extra = Disk!None
    BY <2>1, <2>5
  <2> QED
    BY <1>1, <2>2, <2>3, <2>4, <2>5, <2>6, AnewFacts, SizeFacts
<1> QED
  BY <1>2, <1>3
\* What an Update asks for the service can have.
LEMMA UpdatedPossible ==
  ASSUME DiskInv, task = "update", ~ (Disk!Unrequestable /\ ~ service.scaled),
         NEW disk \in Disk!Updated
  PROVE  disk \in Disk!Possible(configured.plan)
<1>1. service.plan \in Disk!Plans /\ service.disk \in Disk!Possible(service.plan)
      /\ proposal.plan = configured.plan
  BY DEF DiskInv, ProposalInv, TrackedInv, Services, Disk!TypeOK
<1>2. CASE ~ service.scaled /\ Disk!Requested # 0
  BY <1>2, FittingSizes DEF DiskInv, ProposalInv, Disk!Updated
<1>3. CASE service.scaled \/ Disk!Requested = 0
  BY <1>1, <1>3 DEF Disk!Updated
<1> QED
  BY <1>2, <1>3

LEMMA Grown ==
  ASSUME NEW s \in Services, NEW disk \in 1..4
  PROVE  /\ [s EXCEPT !.disk = disk] \in Services
         /\ [s EXCEPT !.disk = disk].plan = s.plan
         /\ [s EXCEPT !.disk = disk].disk = disk
BY DEF Services

LEMMA Scaled ==
  ASSUME NEW s \in Services, NEW scaled \in BOOLEAN
  PROVE  /\ [s EXCEPT !.scaled = scaled] \in Services
         /\ [s EXCEPT !.scaled = scaled].plan = s.plan
         /\ [s EXCEPT !.scaled = scaled].disk = s.disk
BY DEF Services

LEMMA DiskStep == DiskInv /\ [Disk!Next]_diskVars => DiskInv'
<1> SUFFICES ASSUME DiskInv, [Disk!Next]_diskVars
             PROVE  DiskInv'
  OBVIOUS
<1> USE DEF DiskInv
<1>s. /\ service \in Services /\ tracked \in Tracks /\ proposal \in Tracks
      /\ service.plan \in Disk!Plans => service.disk \in Disk!Possible(service.plan)
      /\ service.plan \in Disk!Plans \cup {"gone"} /\ "gone" \notin Disk!Plans
      /\ tracked.disk # Disk!NoMore /\ (service.plan = "gone" <=> tracked.plan = "gone")
  BY DEF TrackedInv, Disk!TypeOK, Services, Disk!Plans
<1>c. configured.plan \in Disk!Plans
  BY ConfiguredFacts
<1>f. /\ UNCHANGED configured =>
           /\ Disk!Fits' <=> Disk!Fits
           /\ Disk!HasConfigValue(configured.disk)' <=> Disk!HasConfigValue(configured.disk)
      /\ UNCHANGED <<configured, tracked>> => Disk!Kept' = Disk!Kept
      /\ UNCHANGED <<configured, tracked, service>> => Disk!Proposed' = Disk!Proposed
  BY DEF Disk!Fits, Disk!Requested, Disk!HasConfigValue, Disk!Kept, Disk!Proposed, Disk!Extra,
         Disk!Configured
<1>k. Disk!Turn => sizings' \in 0..MaxSizings
  BY ViewsAssumption DEF Disk!Turn, Disk!TypeOK
<1>1. CASE Disk!Refresh
  <2>1. /\ tracked' \in Tracks /\ tracked'.disk # Disk!NoMore
        /\ tracked'.plan = "gone" <=> service.plan = "gone"
        /\ tracked'.plan # "gone" =>
             tracked'.plan = service.plan /\ tracked'.extra = Disk!ExtraShown(service)
    BY <1>1, <1>s, CopiedFacts DEF Disk!Refresh
  <2>2. tracked'.disk \in Disk!Sizes /\ tracked'.extra \in Disk!Sizes
    BY <2>1 DEF Tracks
  <2> QED
    BY <1>1, <2>1, <2>2, <1>s DEF Disk!Refresh, Disk!TypeOK, TrackedInv, ProposalInv
<1>2. CASE Disk!Plan
  <2>1. /\ Disk!Verdict \in {"none", "create", "update"}
        /\ Disk!Verdict # "none" => ~ Disk!Rejected
        /\ Disk!Verdict = "create" => tracked.plan = "gone"
        /\ Disk!Verdict = "update" => tracked.plan # "gone"
    BY DEF Disk!Verdict
  <2>2. CASE Disk!Verdict = "none"
    BY <1>2, <2>2, <1>s, AnewFacts, SizeFacts DEF Disk!Plan, Disk!TypeOK, TrackedInv, ProposalInv
  <2>3. CASE Disk!Verdict # "none"
    <3>1. proposal' = Disk!Proposed /\ task' = Disk!Verdict
          /\ UNCHANGED <<configured, modified, service, tracked, steady, sizings>>
      BY <1>2, <2>3 DEF Disk!Plan
    <3>2. /\ proposal' \in Tracks /\ proposal' # Disk!Anew
          /\ proposal'.plan = configured.plan /\ proposal'.disk = configured.disk
      BY <3>1, <1>s, ProposedFacts
    <3>3. Disk!Fits \/ (Disk!Kept = Disk!None /\ ~ Disk!HasConfigValue(configured.disk))
      BY <2>1, <2>3 DEF Disk!Rejected
    <3>4. proposal'.disk \in Disk!Sizes /\ proposal'.extra \in Disk!Sizes
      BY <3>2 DEF Tracks
    <3>5. Disk!Proposed' = Disk!Proposed
      BY <1>f, <3>1
    <3>6. TrackedInv'
      BY <3>1, <3>2, <1>2, <1>s DEF TrackedInv, Disk!Plan
    <3>7. ProposalInv'
      BY <2>1, <2>3, <3>1, <3>2, <3>3, <3>5, <1>f, <1>s DEF ProposalInv
    <3>8. Disk!TypeOK'
      BY <2>1, <2>3, <3>1, <3>2, <3>4, <1>s DEF Disk!TypeOK
    <3> QED
      BY <3>6, <3>7, <3>8
  <2> QED
    BY <2>2, <2>3
\* What the last three steps of a task leave.
<1>3. ASSUME NEW s \in Services, s.plan \in Disk!Plans, s.disk \in Disk!Possible(s.plan),
             NEW d \in Tracks, d.plan # "gone", d.disk # Disk!NoMore,
             service' = s, tracked' = d, UNCHANGED configured, Disk!Idle,
             modified' \in BOOLEAN, sizings' \in 0..MaxSizings
      PROVE  DiskInv'
  <2>1. /\ d.disk \in Disk!Sizes /\ d.extra \in Disk!Sizes /\ s.scaled \in BOOLEAN
        /\ proposal' = Disk!Anew /\ task' = "none" /\ steady' = TRUE
    BY <1>3 DEF Tracks, Services, Disk!Idle
  <2> QED
    BY <1>3, <2>1, <1>s, AnewFacts, SizeFacts DEF Disk!TypeOK, TrackedInv, ProposalInv
<1>n. sizings \in 0..MaxSizings /\ modified \in BOOLEAN
  BY DEF Disk!TypeOK
<1>4. CASE Disk!Create
  <2>1. CASE Disk!Unrequestable
    BY <1>4, <2>1, <1>s, <1>n, AnewFacts, SizeFacts
    DEF Disk!Create, Disk!Idle, Disk!TypeOK, TrackedInv, ProposalInv
  <2>2. CASE ~ Disk!Unrequestable
    <3>1. PICK disk \in IF Disk!Requested = 0 THEN Disk!Possible(configured.plan) ELSE {Disk!Requested} :
            service' = [plan |-> configured.plan, disk |-> disk, scaled |-> FALSE]
      BY <1>4, <2>2 DEF Disk!Create
    <3>2. disk \in Disk!Possible(configured.plan)
      BY <1>4, <2>2, <3>1, FittingSizes DEF Disk!Create, ProposalInv
    <3>3. /\ service' \in Services /\ service'.plan = configured.plan
          /\ service'.disk \in Disk!Possible(service'.plan)
      BY <1>c, <3>1, <3>2, PossibleSizes DEF Services
    <3>4. /\ tracked' = Disk!Copied(proposal, service', TRUE)
          /\ UNCHANGED configured /\ Disk!Idle /\ modified' = FALSE /\ sizings' = sizings
      BY <1>4, <2>2 DEF Disk!Create
    <3>5. proposal.disk # Disk!NoMore
      BY <1>4, ConfiguredFacts DEF Disk!Create, ProposalInv
    <3>6. /\ tracked' \in Tracks /\ tracked'.plan # "gone" /\ tracked'.disk # Disk!NoMore
      <4>1. tracked' = Disk!Copied(proposal, service', TRUE) /\ TRUE \in BOOLEAN
            /\ proposal \in Tracks /\ service'.plan \in Disk!Plans /\ service'.plan # "gone"
        BY <1>c, <1>s, <3>3, <3>4
      <4> QED
        BY <3>3, <3>5, <4>1, CopiedFacts
    <3> QED
      BY <1>3, <1>c, <1>n, <3>3, <3>4, <3>6
  <2> QED
    BY <2>1, <2>2
<1>5. ASSUME task = "update", ~ (Disk!Unrequestable /\ ~ service.scaled), NEW disk \in Disk!Updated,
             service' = Disk!Moved(disk)
      PROVE  /\ service' \in Services /\ service'.plan \in Disk!Plans
             /\ service'.disk \in Disk!Possible(service'.plan)
  <2>1. disk \in Disk!Possible(configured.plan) /\ proposal.plan = configured.plan
    BY <1>5, UpdatedPossible DEF ProposalInv
  <2>2. disk \in 1..4
    BY <1>c, <2>1, PossibleSizes
  <2> QED
    BY <1>5, <1>c, <1>s, <2>1, <2>2 DEF Disk!Moved, Services
<1>d. task = "update" => /\ proposal.plan # "gone" /\ proposal.disk # Disk!NoMore
                        /\ service.plan \in Disk!Plans
  BY <1>c, <1>s, ConfiguredFacts DEF ProposalInv
<1>6. CASE Disk!Update
  <2>1. PICK disk \in Disk!Updated : service' = Disk!Moved(disk)
    BY <1>6 DEF Disk!Update
  <2>2. /\ service' \in Services /\ service'.plan \in Disk!Plans
        /\ service'.disk \in Disk!Possible(service'.plan)
    BY <1>5, <1>6, <2>1 DEF Disk!Update
  <2>3. /\ tracked' = Disk!Copied(proposal, service', TRUE)
        /\ UNCHANGED configured /\ Disk!Idle /\ modified' = FALSE /\ sizings' = sizings
        /\ task = "update"
    BY <1>6 DEF Disk!Update
  <2>4. /\ Disk!Copied(proposal, service', TRUE) \in Tracks
        /\ Disk!Copied(proposal, service', TRUE).plan = service'.plan
        /\ Disk!Copied(proposal, service', TRUE).disk # Disk!NoMore
    <3>1. proposal \in Tracks /\ proposal.disk # Disk!NoMore
      BY <1>d, <1>s, <2>3
    <3> HIDE DEF DiskInv
    <3> QED
      BY <2>2, <3>1, CopiedFacts
  <2>5. /\ tracked' \in Tracks /\ tracked'.plan # "gone" /\ tracked'.disk # Disk!NoMore
    <3>1. service'.plan # "gone"
      BY <2>2 DEF Disk!Plans
    <3> QED
      BY <2>3, <2>4, <3>1
  <2> QED
    BY <1>3, <1>n, <2>2, <2>3, <2>5
<1>7. CASE Disk!UpdateFails
  <2>1. /\ service' \in Services /\ service'.plan \in Disk!Plans
        /\ service'.disk \in Disk!Possible(service'.plan)
    BY <1>5, <1>7, <1>d, <1>s DEF Disk!UpdateFails
  <2>2. /\ tracked' = proposal /\ UNCHANGED <<configured, modified>> /\ Disk!Idle
        /\ sizings' \in 0..MaxSizings /\ task = "update"
    BY <1>7, <1>k, <1>n DEF Disk!UpdateFails
  <2> QED
    BY <1>3, <1>n, <1>d, <1>s, <2>1, <2>2
<1>8. CASE Disk!Configure
  BY <1>8, <1>k, <1>s DEF Disk!Configure, Disk!TypeOK, TrackedInv, ProposalInv
<1>9. CASE Disk!Touch
  BY <1>9, <1>k, <1>s DEF Disk!Touch, Disk!TypeOK, TrackedInv, ProposalInv
<1>10. CASE Disk!Outsider
  <2>1. /\ service' \in Services /\ service'.plan = service.plan /\ service.plan \in Disk!Plans
        /\ service'.disk \in Disk!Possible(service'.plan)
    <3>1. service.plan \in Disk!Plans /\ Disk!Possible(service.plan) \subseteq 1..4
      BY <1>10, <1>s, PossibleSizes DEF Disk!Outsider
    <3>2. CASE \E disk \in Disk!Possible(service.plan) \ {service.disk} :
                 service' = [service EXCEPT !.disk = disk]
      <4>1. PICK disk \in Disk!Possible(service.plan) : service' = [service EXCEPT !.disk = disk]
        BY <3>2
      <4>2. disk \in 1..4 /\ service \in Services
        BY <1>s, <3>1, <4>1
      <4>3. /\ [service EXCEPT !.disk = disk] \in Services
            /\ [service EXCEPT !.disk = disk].plan = service.plan
            /\ [service EXCEPT !.disk = disk].disk = disk
        BY <3>1, <4>2, Grown
      <4> QED
        BY <3>1, <4>1, <4>3
    <3>3. CASE service' = [service EXCEPT !.scaled = ~ service.scaled]
      <4>1. (~ service.scaled) \in BOOLEAN
        OBVIOUS
      <4> QED
        BY <1>s, <3>1, <3>3, <4>1, Scaled
    <3> QED
      BY <1>10, <3>2, <3>3 DEF Disk!Outsider
  <2>2. /\ UNCHANGED <<configured, modified, tracked, task, proposal>> /\ task # "plan"
        /\ steady' = (task = "none") /\ sizings' \in 0..MaxSizings
    BY <1>10, <1>k DEF Disk!Outsider
  <2>3. service'.scaled \in BOOLEAN /\ steady' \in BOOLEAN
    BY <2>1, <2>2 DEF Services
  <2>4. Disk!TypeOK'
    BY <2>1, <2>2, <2>3, <1>s DEF Disk!TypeOK
  <2>5. TrackedInv'
    BY <2>1, <2>2, <1>s DEF TrackedInv
  <2>6. ProposalInv'
    BY <2>1, <2>2, <1>s, <1>f DEF ProposalInv
  <2> QED
    BY <2>4, <2>5, <2>6
<1>11. CASE UNCHANGED diskVars
  BY <1>11, <1>f DEF diskVars, Disk!TypeOK, TrackedInv, ProposalInv
<1> QED
  BY <1>1, <1>2, <1>4, <1>6, <1>7, <1>8, <1>9, <1>10, <1>11 DEF Disk!Next, Disk!Work

\* A plan that shows no other size, of a service whose disk_space is not configured: it
\* has the disk of the configuration.
LEMMA SameIsRight ==
  ASSUME DiskInv, task = "plan" \/ (steady /\ task = "update"), tracked.plan # "gone",
         Disk!Proposed = tracked, ~ Disk!HasConfigValue(configured.disk)
  PROVE  /\ service.plan = configured.plan
         /\ \/ service.disk = Disk!Requested /\ configured.plan # "unknown"
            \/ ~ Disk!Configured /\ (service.scaled \/ Disk!Requested = 0)
<1>1. /\ service \in Services /\ service.plan = tracked.plan /\ service.plan \in Disk!Plans
      /\ service.disk \in Disk!Possible(service.plan) /\ tracked.extra = Disk!ExtraShown(service)
      /\ tracked.plan = configured.plan /\ tracked.extra = Disk!Extra
  BY ProposedFacts, ConfiguredFacts DEF DiskInv, TrackedInv, Disk!TypeOK, Services
<1>2. Disk!Requested = Disk!DiskSizeDefault(configured.plan) + Disk!Number(configured.extra)
      /\ Disk!DiskSizeDefault(configured.plan) \in 0..2
  BY ConfiguredFacts, PossibleSizes DEF Disk!Requested, DiskInv
<1>3. CASE Disk!HasConfigValue(configured.extra)
  <2>1. Disk!ExtraShown(service) = configured.extra /\ configured.extra # Disk!None
    BY <1>1, <1>3 DEF Disk!Extra, Disk!Kept, Disk!Configured, Disk!HasConfigValue
  <2> QED
    BY <1>1, <1>2, <2>1, ExtraFacts
<1>4. CASE ~ Disk!HasConfigValue(configured.extra) /\ ~ service.scaled
  <2>1. tracked.extra = Disk!None
    BY <1>1, <1>4, ExtraFacts DEF Disk!Extra, Disk!Kept, Disk!Configured, Disk!Plans
  <2>2. Disk!Requested = Disk!DiskSizeDefault(configured.plan)
    BY <1>2, <1>4, SizeFacts DEF Disk!HasConfigValue
  <2>3. service.plan = "unknown" \/ service.disk = Disk!DiskSizeDefault(service.plan)
    BY <1>1, <2>1, ExtraFacts
  <2> QED
    BY <1>1, <1>4, <2>2, <2>3, PossibleSizes DEF Disk!Configured
<1>5. CASE ~ Disk!HasConfigValue(configured.extra) /\ service.scaled
  BY <1>1, <1>5 DEF Disk!Configured
<1> QED
  BY <1>3, <1>4, <1>5

LEMMA DiskNoop == DiskInv => Disk!NoopIsRight
<1> SUFFICES ASSUME DiskInv, task = "plan", Disk!Verdict = "none", ~ Disk!Rejected
             PROVE  Disk!Right \/ Disk!Unread
  BY DEF Disk!NoopIsRight
<1>1. tracked.plan # "gone" /\ Disk!Proposed = tracked
  BY DEF Disk!Verdict
<1>2. service.plan = configured.plan /\ tracked.disk = configured.disk
  BY <1>1, ProposedFacts DEF DiskInv, TrackedInv
<1>3. CASE Disk!HasConfigValue(configured.disk)
  BY <1>2, <1>3 DEF Disk!Unread
<1>4. CASE ~ Disk!HasConfigValue(configured.disk)
  <2>1. Disk!Requested = 0 => configured.plan = "unknown"
    BY <1>4, ConfiguredFacts, PossibleSizes DEF Disk!Requested, DiskInv
  <2> QED
    BY <1>1, <1>2, <1>4, <2>1, SameIsRight DEF Disk!Right, Disk!Unrequestable
<1> QED
  BY <1>3, <1>4

\* An Update resizes the disk as its plan shows.
LEMMA DiskPlansStep ==
  DiskInv /\ [Disk!Next]_diskVars =>
    (steady /\ task = "update" /\ task' = "none" /\ sizings' = sizings /\ ~ Disk!Unrequestable
       => /\ proposal = tracked => service'.disk = service.disk \/ Disk!Unread
          /\ Disk!Right' \/ service.scaled)
<1> SUFFICES ASSUME DiskInv, [Disk!Next]_diskVars, steady, task = "update", task' = "none",
                    sizings' = sizings, ~ Disk!Unrequestable
             PROVE  /\ proposal = tracked => service'.disk = service.disk \/ Disk!Unread
                    /\ Disk!Right' \/ service.scaled
  OBVIOUS
<1>1. Disk!Update
  <2>1. Disk!Turn => sizings' # sizings
    BY ViewsAssumption DEF DiskInv, Disk!TypeOK, Disk!Turn
  <2> QED
    BY <2>1 DEF Disk!Next, Disk!Work, Disk!Refresh, Disk!Plan, Disk!Create, Disk!UpdateFails,
                Disk!Configure, Disk!Touch, Disk!Outsider, diskVars
<1>2. /\ proposal.plan = configured.plan /\ proposal = Disk!Proposed /\ service \in Services
      /\ service.plan \in Disk!Plans /\ tracked.plan = service.plan /\ tracked \in Tracks
  BY DEF DiskInv, ProposalInv, TrackedInv, Services, Disk!TypeOK
<1>3. PICK disk \in Disk!Updated : service' = Disk!Moved(disk)
  BY <1>1 DEF Disk!Update
<1>4. service'.disk = disk /\ service'.plan = configured.plan /\ service'.scaled = service.scaled
  BY <1>2, <1>3 DEF Services, Disk!Moved
<1>5. configured' = configured
  BY <1>1 DEF Disk!Update
<1>6. proposal = tracked => disk = service.disk \/ Disk!Unread
  <2> SUFFICES ASSUME proposal = tracked
               PROVE  disk = service.disk \/ Disk!Unread
    OBVIOUS
  <2>1. service.plan = configured.plan /\ tracked.disk = configured.disk
    BY <1>2, ProposedFacts DEF DiskInv, TrackedInv
  <2>2. CASE Disk!HasConfigValue(configured.disk)
    BY <2>1, <2>2 DEF Disk!Unread
  <2>3. CASE ~ Disk!HasConfigValue(configured.disk)
    BY <1>2, <2>1, <2>3, SameIsRight DEF Disk!Updated, Disk!Plans
  <2> QED
    BY <2>2, <2>3
<1>7. ~ service.scaled => Disk!Right'
  <2> SUFFICES ASSUME ~ service.scaled
               PROVE  Disk!Right'
    OBVIOUS
  <2>1. Disk!Requested' = Disk!Requested /\ Disk!Unrequestable' = Disk!Unrequestable
        /\ Disk!Configured' = Disk!Configured
    BY <1>5 DEF Disk!Requested, Disk!Unrequestable, Disk!Configured, Disk!HasConfigValue
  <2>2. CASE Disk!Requested # 0
    BY <1>4, <1>5, <2>1, <2>2 DEF Disk!Updated, Disk!Right
  <2>3. CASE Disk!Requested = 0
    <3>1. ~ Disk!Configured /\ configured.plan = "unknown"
      BY <2>3, ConfiguredFacts, PossibleSizes, SizeFacts
      DEF Disk!Requested, Disk!Configured, Disk!HasConfigValue, DiskInv
    <3> QED
      BY <1>4, <1>5, <2>1, <3>1 DEF Disk!Right
  <2> QED
    BY <2>2, <2>3
<1> QED
  BY <1>4, <1>6, <1>7

LEMMA DiskView ==
  AppliesSpec => (Disk!Init \/ DiskSettled) /\ [][Disk!Next]_diskVars
<1>1. AppliesInit => Disk!Init \/ DiskSettled
  BY DEF AppliesInit
<1>2. [AppliesNext]_allVars => [Disk!Next]_diskVars
  BY DEF AppliesNext, InHandlers, InAttribute, InPassword, InField, OfService, InFilters, InDisk,
         InSettings, In, allVars, serviceVars
<1> QED
  BY <1>1, <1>2, PTL DEF AppliesSpec

\* The type invariant of a disk, and that the plan is of the service that the refresh has
\* shown, and passes the checks of sizes before Create or Update is called.
THEOREM DiskTypeCorrect == AppliesSpec => []DiskInv
BY DiskView, DiskStart, DiskStep, PTL

\* The disk's part of PlansKept: an Update that plans no other plan or size asks for the
\* size that the service has, and else for the one that is configured.
THEOREM DiskPlansKept == AppliesSpec => Disk!PlansKept
<1>1. diskVars = Disk!diskVars
  BY DEF diskVars, Disk!diskVars
<1> QED
  BY DiskTypeCorrect, DiskView, DiskPlansStep, PTL
  DEF Disk!PlansKept, Disk!diskVars, diskVars

-----------------------------------------------------------------------------
(* The other settings of a service.                                        *)

\* What the state may say of the setting of a service that is there.
Notes ==
  Service!Possible \cup (IF setting = "cmk" THEN {Service!Reset} ELSE {})
                   \cup (IF setting = "defaultACL" THEN {Service!Imported} ELSE {})

\* The state is as the last Read or the last plan left it.
NotedInv ==
  /\ noted = Service!Gone => ~ spoilt
  /\ spoilt => setting = "defaultACL"
  /\ actual \in Service!Possible \cup {Service!Gone}
  /\ noted \in Notes \cup {Service!Gone}
  /\ setting = "defaultACL" /\ ~ spoilt => noted \in {actual, Service!Imported}

\* What is done is what the plan says, of the service that the refresh has shown.
OfferInv ==
  /\ job = "plan" /\ setting # "defaultACL" => noted = actual
  /\ job \notin {"none", "plan"} => offer = Service!Proposed /\ ~ Service!Rejected
  /\ job = "create" => noted = Service!Gone
  /\ job = "replace" => noted # Service!Gone /\ spoilt
  /\ job \in {"check", "update"} => noted # Service!Gone /\ ~ spoilt
  /\ job = "check" => setting = "version"
  /\ quiet /\ job \in {"check", "update"} /\ setting # "defaultACL" => actual = noted
  /\ quiet /\ job = "update" => ~ Service!Refused

SettingInv == Service!TypeOK /\ NotedInv /\ OfferInv

LEMMA ValuesDiffer ==
  /\ Service!Gone \notin Service!Possible /\ Service!Reset \notin Service!Possible
  /\ Service!Imported \notin Service!Possible
  /\ Service!Gone # Service!Reset /\ Service!Gone # Service!Imported
  /\ Service!Gone # Service!Empty /\ Service!Reset # Service!Empty
  /\ Service!Imported # Service!Empty
BY DEF Service!Gone, Service!Reset, Service!Imported, Service!Empty, Service!Only, Service!Possible,
       Service!Days

\* A value has two parts.
LEMMA Parts ==
  /\ \A v : Service!Only(v)[1] = v /\ Service!Only(v)[2] = ""
  /\ \A u, v : Service!Only(u) = Service!Only(v) => u = v
BY DEF Service!Only

\* All settings but the window have one part.
LEMMA ChosenPart ==
  ASSUME Service!TypeOK, setting # "window"
  PROVE  /\ chosen = Service!Only(chosen[1]) /\ chosen[2] = ""
         /\ chosen[1] \in IF setting = "cmk" THEN {"", "a", "b", "reset"}
                         ELSE IF setting = "tags" THEN {"", "a", "b", "twice"}
                         ELSE IF setting \in {"protection", "defaultACL"} THEN {"", "a"}
                         ELSE {"", "a", "b"}
<1>1. chosen \in Service!Choices
  BY DEF Service!TypeOK
<1>2. CASE setting = "cmk"
  BY Parts, <1>1, <1>2 DEF Service!Choices, Service!Empty, Service!Reset
<1>3. CASE setting = "tags"
  BY Parts, <1>1, <1>3 DEF Service!Choices, Service!Empty, Service!Duplicate
<1>4. CASE setting \in {"protection", "defaultACL"}
  BY Parts, <1>1, <1>4 DEF Service!Choices, Service!Empty
<1>5. CASE setting \notin {"cmk", "tags", "protection", "defaultACL"}
  BY Parts, <1>1, <1>5 DEF Service!Choices, Service!Empty
<1> QED
  BY <1>2, <1>3, <1>4, <1>5

LEMMA PossiblePart ==
  ASSUME setting \in Service!Settings, setting # "window"
  PROVE  /\ \A v \in Service!Possible : v = Service!Only(v[1]) /\ v[2] = ""
         /\ \A part : Service!Only(part) \in Service!Possible <=>
               part \in IF setting \in {"cloud", "version"} THEN {"a", "b"}
                       ELSE IF setting \in {"protection", "defaultACL"} THEN {"", "a"}
                       ELSE {"", "a", "b"}
<1> DEFINE parts == IF setting \in {"cloud", "version"} THEN {"a", "b"}
                    ELSE IF setting \in {"protection", "defaultACL"} THEN {"", "a"}
                    ELSE {"", "a", "b"}
<1>1. Service!Possible = {Service!Only(part) : part \in parts}
  <2>1. CASE setting \in {"cloud", "version"}
    BY <2>1 DEF Service!Possible
  <2>2. CASE setting \in {"protection", "defaultACL"}
    BY <2>2 DEF Service!Possible, Service!Empty
  <2>3. CASE setting \notin {"window", "cloud", "version", "protection", "defaultACL"}
    BY <2>3 DEF Service!Possible, Service!Empty
  <2> QED
    BY <2>1, <2>2, <2>3
<1> HIDE DEF parts
<1>2. \A v \in Service!Possible : v = Service!Only(v[1]) /\ v[2] = ""
  BY <1>1, Parts
<1>3. \A part : Service!Only(part) \in Service!Possible <=> part \in parts
  BY <1>1, Parts
<1> QED
  BY <1>2, <1>3 DEF parts

LEMMA ProposedInPlace ==
  ASSUME Service!TypeOK, NotedInv, ~ Service!Rejected, noted # Service!Gone, ~ spoilt
  PROVE  Service!Proposed \in Notes
<1>1. CASE setting = "defaultACL"
  BY <1>1 DEF Service!Proposed, Service!Suppressed, NotedInv
<1>2. CASE setting = "window"
  BY <1>2 DEF Service!Proposed, Service!ProposedPart, Service!Suppressed, Service!Keeping,
    Service!Known, NotedInv, Notes, Service!Possible, Service!Choices, Service!TypeOK, Service!Days, Service!Gone, Service!Only
<1>3. CASE setting \notin {"defaultACL", "window"}
  <2>1. Service!Known = noted /\ noted[2] = "" /\ noted = Service!Only(noted[1])
    <3>1. noted \in Service!Possible \/ (setting = "cmk" /\ noted = Service!Only("reset"))
      BY <1>3 DEF NotedInv, Notes, Service!Reset
    <3> QED
      BY <1>3, <3>1, PossiblePart, Parts DEF Service!Known, Service!TypeOK
  <2>2. noted[1] \in IF setting = "cmk" THEN {"", "a", "b", "reset"}
                       ELSE IF setting \in {"cloud", "version"} THEN {"a", "b"}
                       ELSE IF setting = "protection" THEN {"", "a"}
                       ELSE {"", "a", "b"}
    <3>1. noted \in Service!Possible \/ (setting = "cmk" /\ noted[1] = "reset")
      BY <1>3, Parts DEF NotedInv, Notes, Service!Reset
    <3>2. Service!Only(noted[1]) \in Service!Possible \/ (setting = "cmk" /\ noted[1] = "reset")
      BY <2>1, <3>1
    <3> QED
      BY <1>3, <3>2, PossiblePart DEF Service!TypeOK
  <2>3. Service!ProposedPart(2) = ""
    BY <1>3, <2>1, ChosenPart DEF Service!ProposedPart
  <2>4. Service!Proposed = Service!Only(Service!ProposedPart(1))
    BY <1>3, <2>3 DEF Service!Proposed, Service!Suppressed, Service!Only
  <2>5. chosen[1] # "twice"
    BY <1>3, ChosenPart DEF Service!Rejected, Service!Duplicate, Service!TypeOK
  <2>6. Service!ProposedPart(1) \in IF setting = "cmk" THEN {"", "a", "b", "reset"}
                       ELSE IF setting \in {"cloud", "version"} THEN {"a", "b"}
                       ELSE IF setting = "protection" THEN {"", "a"}
                       ELSE {"", "a", "b"}
    BY <1>3, <2>1, <2>2, <2>5, ChosenPart DEF Service!ProposedPart, Service!Keeping
  <2> QED
    BY <1>3, <2>4, <2>6, PossiblePart DEF Notes, Service!Reset, Service!TypeOK
<1> QED
  BY <1>1, <1>2, <1>3

LEMMA ProposedParts ==
  ~ Service!Suppressed => /\ Service!Proposed[1] = Service!ProposedPart(1)
                         /\ Service!Proposed[2] = Service!ProposedPart(2)
BY DEF Service!Proposed

LEMMA WindowParts ==
  ASSUME setting = "window"
  PROVE  /\ Service!TypeOK => chosen[1] \in {"a", "b", ""} /\ chosen[2] \in {"a", "b", ""}
         /\ \A v \in Service!Possible : v[1] \in {"a", "b", "never"} /\ v[2] \in {"a", "b"}
         /\ \A a, b \in {"a", "b"} : <<a, b>> \in Service!Possible
BY DEF Service!TypeOK, Service!Choices, Service!Possible, Service!Days

\* What a Create sends the service can have.
LEMMA ProposedAnew ==
  ASSUME Service!TypeOK, job = "create", offer = Service!Proposed, ~ Service!Rejected,
         noted = Service!Gone, Service!Sent
  PROVE  offer \in Service!Possible
<1>0. Service!Known = Service!Only("") /\ ~ Service!Suppressed
  BY DEF Service!Known, Service!Empty, Service!Suppressed
<1>1. CASE setting = "window"
  <2>1. Service!Proposed = <<chosen[1], chosen[2]>>
    BY <1>0, <1>1, Parts, WindowParts DEF Service!Proposed, Service!ProposedPart
  <2>2. Service!Proposed[1] = chosen[1] /\ Service!Proposed[2] = chosen[2]
    BY <1>0, <1>1, Parts, WindowParts, ProposedParts DEF Service!ProposedPart
  <2>3. chosen[1] \in {"a", "b"} /\ chosen[2] \in {"a", "b"}
    BY <1>1, <2>2, WindowParts DEF Service!Sent
  <2> QED
    BY <1>1, <2>1, <2>3, WindowParts
<1>2. CASE setting # "window"
  <2>1. Service!ProposedPart(2) = ""
    BY <1>0, <1>2, ChosenPart, Parts DEF Service!ProposedPart
  <2>2. Service!Proposed = Service!Only(Service!ProposedPart(1))
    BY <1>0, <2>1 DEF Service!Proposed, Service!Only
  <2>3. chosen[1] # "twice"
    BY <1>2, ChosenPart DEF Service!Rejected, Service!Duplicate, Service!TypeOK
  <2>4. Service!ProposedPart(1) = IF chosen[1] = "reset" THEN "" ELSE chosen[1]
    BY <1>0, Parts DEF Service!ProposedPart
  <2>5. setting \in {"cloud", "version"} => chosen[1] # ""
    BY <1>2, <2>2, <2>4, ChosenPart DEF Service!Sent, Service!Empty
  <2>6. Service!ProposedPart(1) \in IF setting \in {"cloud", "version"} THEN {"a", "b"}
                       ELSE IF setting \in {"protection", "defaultACL"} THEN {"", "a"}
                       ELSE {"", "a", "b"}
    BY <1>2, <2>3, <2>4, <2>5, ChosenPart
  <2> QED
    BY <1>2, <2>2, <2>6, PossiblePart DEF Service!TypeOK
<1> QED
  BY <1>1, <1>2

LEMMA AnswersPossible ==
  ASSUME SettingInv, job \in {"create", "update"}
  PROVE  Service!Answers \subseteq Service!Possible
<1>0. Service!TypeOK /\ NotedInv /\ offer = Service!Proposed /\ ~ Service!Rejected
  BY DEF SettingInv, OfferInv
<1>1. setting # "window" => setting \in Service!Settings /\ Service!Empty = Service!Only("")
  BY <1>0 DEF Service!TypeOK, Service!Empty
<1>2. setting \notin {"window", "cloud", "version"} => Service!Empty \in Service!Possible
  BY <1>1, PossiblePart
<1>3. CASE job = "create"
  <2>1. Service!Sent => offer \in Service!Possible
    BY <1>0, <1>3, ProposedAnew DEF SettingInv, OfferInv
  <2>2. Service!Fresh \subseteq Service!Possible
    BY <1>2 DEF Service!Fresh
  <2> QED
    BY <1>3, <2>1, <2>2, ValuesDiffer DEF Service!Answers
<1>4. CASE job = "update"
  <2>1. offer \in Notes /\ actual \in Service!Possible
    BY <1>0, <1>4, ProposedInPlace DEF SettingInv, OfferInv, NotedInv, Service!TypeOK
  <2>2. setting = "defaultACL" => ~ Service!Sent
    BY <1>4 DEF Service!Sent
  <2> QED
    BY <1>2, <1>4, <2>1, <2>2, ValuesDiffer DEF Service!Answers, Notes
<1> QED
  BY <1>3, <1>4

LEMMA SettingStart == Service!Init \/ SettingSettled => SettingInv
<1> USE DEF SettingInv, NotedInv, OfferInv, Service!TypeOK
<1>1. 0 \in 0..MaxSizings
  BY ViewsAssumption
<1>2. CASE Service!Init
  BY <1>1, <1>2, ValuesDiffer DEF Service!Init, Notes, Service!Shown
<1>3. CASE SettingSettled
  <2>1. setting = "emails" /\ setting \in Service!Settings
    BY <1>3 DEF SettingSettled, Service!Settings
  <2>2. Service!Only("a") \in Service!Possible /\ Service!Only("a") \in Service!Choices
    BY <2>1, PossiblePart DEF Service!Choices
  <2> QED
    BY <1>1, <1>3, <2>1, <2>2, ValuesDiffer DEF SettingSettled, Notes
<1> QED
  BY <1>2, <1>3

LEMMA ProposedIsThere ==
  ASSUME Service!TypeOK, NotedInv, ~ Service!Rejected
  PROVE  Service!Proposed # Service!Gone
<1>1. CASE noted # Service!Gone /\ ~ spoilt
  BY <1>1, ProposedInPlace, ValuesDiffer DEF Notes, Service!Gone, Service!Reset, Service!Imported
<1>2. CASE noted = Service!Gone \/ spoilt
  <2>0. Service!Known = Service!Only("") /\ ~ Service!Suppressed
    BY <1>2 DEF Service!Known, Service!Empty, Service!Suppressed
  <2>1. chosen[1] # "gone"
    BY ChosenPart, WindowParts
  <2>2. Service!Proposed[1] # "gone"
    BY <2>0, <2>1, Parts, ProposedParts DEF Service!ProposedPart
  <2> QED
    BY <2>2, Parts DEF Service!Gone
<1> QED
  BY <1>1, <1>2

LEMMA SettingStep == SettingInv /\ [Service!Next]_settingVars => SettingInv'
<1> SUFFICES ASSUME SettingInv, [Service!Next]_settingVars
             PROVE  SettingInv'
  OBVIOUS
<1> USE DEF SettingInv
<1>s. setting' = setting
  BY DEF Service!Next, Service!Work, Service!Refresh, Service!Plan, Service!Replace,
         Service!UpgradeCheck, Service!Handle, Service!CreateFails, Service!UpdateFails,
         Service!Configure, Service!Outsider, settingVars
<1>p. Service!Possible' = Service!Possible /\ Service!Choices' = Service!Choices /\ Notes' = Notes
  BY <1>s DEF Service!Possible, Service!Choices, Notes
<1>o. UNCHANGED <<chosen, noted, spoilt>>
        => Service!Proposed' = Service!Proposed /\ Service!Rejected' = Service!Rejected
  BY <1>s DEF Service!Proposed, Service!ProposedPart, Service!Suppressed, Service!Known,
              Service!Rejected
<1>r. UNCHANGED <<chosen, actual>> => Service!Refused' = Service!Refused
  BY <1>s DEF Service!Refused
<1>k. Service!Shock => shocks' \in 0..MaxSizings
  BY ViewsAssumption DEF Service!Shock, Service!TypeOK
<1>g. Service!Gone \notin Notes
  BY ValuesDiffer DEF Notes
<1>1. CASE Service!Refresh
  BY <1>1, <1>s, <1>p, <1>g DEF Service!Refresh, Service!Shown, Service!TypeOK, NotedInv, OfferInv, Notes
<1>2. CASE Service!Plan
  <2>1. CASE Service!Verdict = "none"
    BY <1>2, <2>1, <1>p DEF Service!Plan, Service!TypeOK, NotedInv, OfferInv
  <2>2. CASE Service!Verdict # "none"
    <3>1. /\ ~ Service!Rejected
          /\ Service!Verdict \in {"create", "replace", "check", "update"}
          /\ Service!Verdict = "create" => noted = Service!Gone
          /\ Service!Verdict = "replace" => noted # Service!Gone /\ spoilt
          /\ Service!Verdict \in {"check", "update"} => noted # Service!Gone /\ ~ spoilt
          /\ Service!Verdict = "check" => setting = "version"
          /\ Service!Verdict = "update" => setting # "version"
      BY <2>2 DEF Service!Verdict
    <3>2. Service!Proposed # Service!Gone
      BY <3>1, ProposedIsThere
    <3>3. Service!Verdict = "update" => ~ Service!Refused
      BY <3>1 DEF Service!Refused
    <3> QED
      BY <1>2, <2>2, <3>1, <3>2, <3>3, <1>p, <1>o, <1>r
      DEF Service!Plan, Service!TypeOK, NotedInv, OfferInv
  <2> QED
    BY <2>1, <2>2
<1>3. CASE Service!Replace
  <2>1. Service!Proposed' = Service!Proposed
    <3>1. ~ Service!Suppressed /\ ~ Service!Suppressed'
      BY <1>3 DEF Service!Suppressed, Service!Replace, OfferInv
    <3>2. Service!Known' = Service!Known
      BY <1>3 DEF Service!Known, Service!Replace, OfferInv
    <3> QED
      BY <1>3, <1>s, <3>1, <3>2 DEF Service!Proposed, Service!ProposedPart, Service!Replace
  <2>2. ~ Service!Rejected'
    BY <1>3 DEF Service!Rejected, Service!Replace, OfferInv
  <2> QED
    BY <1>3, <1>p, <2>1, <2>2, <1>s DEF Service!Replace, Service!TypeOK, NotedInv, OfferInv
<1>4. ASSUME job \in {"check", "update"}
      PROVE  /\ offer \in Notes /\ offer # Service!Gone
             /\ noted # Service!Gone /\ ~ spoilt /\ actual \in Service!Possible
             /\ setting = "defaultACL" => offer = noted
  BY <1>4, <1>g, ProposedInPlace
  DEF OfferInv, NotedInv, Service!TypeOK, Service!Proposed, Service!Suppressed
<1>5. CASE Service!UpgradeCheck
  <2>1. CASE Service!Refused
    BY <1>4, <1>5, <2>1, <1>p, <1>s
    DEF Service!UpgradeCheck, Service!Idle, Service!TypeOK, NotedInv, OfferInv, Notes
  <2>2. CASE ~ Service!Refused
    BY <1>4, <1>5, <2>2, <1>p, <1>o, <1>r, <1>s
    DEF Service!UpgradeCheck, Service!TypeOK, NotedInv, OfferInv
  <2> QED
    BY <2>1, <2>2
<1>6. CASE Service!Handle
  <2>1. actual' \in Service!Possible /\ actual' # Service!Gone
    BY <1>6, AnswersPossible, ValuesDiffer DEF Service!Handle
  <2>2. setting = "defaultACL" =>
          noted' \in {actual', Service!Imported} /\ noted' # Service!Gone /\ noted' \in Notes /\ ~ spoilt
    <3>1. CASE job = "create"
      <4>1. setting = "defaultACL" => Service!Sent /\ offer \in Service!Possible /\ ~ spoilt
        BY <3>1, ProposedAnew DEF Service!Sent, OfferInv, NotedInv
      <4> QED
        BY <1>6, <4>1, ValuesDiffer DEF Service!Handle, Service!Answers, Service!Shown, Notes
    <3>2. CASE job = "update"
      <4>1. setting = "defaultACL" => actual' = actual /\ noted' = offer
        BY <1>6, <3>2 DEF Service!Handle, Service!Answers, Service!Sent, Service!Shown
      <4> QED
        BY <1>4, <3>2, <4>1 DEF NotedInv
    <3> QED
      BY <1>6, <3>1, <3>2 DEF Service!Handle
  <2>3. setting # "defaultACL" => noted' = actual' /\ ~ spoilt
    BY <1>6 DEF Service!Handle, Service!Shown, NotedInv
  <2>4. noted' \in Notes /\ noted' # Service!Gone /\ ~ spoilt'
    BY <1>6, <2>1, <2>2, <2>3 DEF Service!Handle, Notes
  <2> QED
    BY <1>6, <1>p, <1>s, <2>1, <2>2, <2>4
    DEF Service!Handle, Service!Idle, Service!TypeOK, NotedInv, OfferInv, Notes
<1>7. CASE Service!CreateFails
  <2>1. Service!Empty \in Service!Possible /\ Service!Only("a") \in Service!Possible
    BY <1>7 DEF Service!CreateFails, Service!Possible
  <2> QED
    BY <1>7, <1>k, <1>p, <1>s, <2>1, ValuesDiffer
    DEF Service!CreateFails, Service!Idle, Service!TypeOK, NotedInv, OfferInv, Notes
<1>8. CASE Service!UpdateFails
  <2>1. actual' \in Service!Possible /\ actual' # Service!Gone
    BY <1>4, <1>8, AnswersPossible, ValuesDiffer DEF Service!UpdateFails
  <2>2. setting = "defaultACL" => actual' = actual
    BY <1>8 DEF Service!UpdateFails, Service!Answers, Service!Sent, OfferInv
  <2> QED
    BY <1>4, <1>8, <1>k, <1>p, <1>s, <2>1, <2>2
    DEF Service!UpdateFails, Service!Idle, Service!TypeOK, NotedInv, OfferInv, Notes
<1>9. CASE Service!Configure
  BY <1>9, <1>k, <1>p, <1>s DEF Service!Configure, Service!TypeOK, NotedInv, OfferInv
<1>10. CASE Service!Outsider
  <2>1. actual' \in Service!Possible /\ actual' # Service!Gone /\ setting # "defaultACL"
    BY <1>10, ValuesDiffer DEF Service!Outsider
  <2>2. ~ (quiet' /\ job' \in {"check", "update"})
    BY <1>10 DEF Service!Outsider
  <2> QED
    BY <1>10, <1>k, <1>p, <1>o, <1>s, <2>1, <2>2 DEF Service!Outsider, Service!TypeOK, NotedInv, OfferInv
<1>11. CASE UNCHANGED settingVars
  BY <1>11, <1>p, <1>o, <1>r DEF settingVars, Service!TypeOK, NotedInv, OfferInv
<1> QED
  BY <1>1, <1>2, <1>3, <1>5, <1>6, <1>7, <1>8, <1>9, <1>10, <1>11 DEF Service!Next, Service!Work

LEMMA TwoParts == \A part \in 1..2 : part = 1 \/ part = 2
OBVIOUS

\* What is shown in the plan for a part, if it is kept, is right.
LEMMA PartKept ==
  ASSUME Service!TypeOK, setting # "defaultACL", NEW part \in 1..2
  PROVE  /\ chosen[part] = "" /\ setting \notin Service!Keeping => Service!ProposedPart(part) = ""
         /\ chosen[part] \notin {"", "reset"} => Service!ProposedPart(part) = chosen[part]
         /\ chosen[part] = "reset" => part = 1 /\ setting = "cmk" /\ Service!ProposedPart(part) \in {"", "reset"}
<1>0. part = 1 \/ part = 2
  BY TwoParts
<1>1. chosen[part] = "reset" => part = 1 /\ setting = "cmk"
  <2>1. CASE setting = "window"
    BY <1>0, <2>1, WindowParts
  <2>2. CASE setting # "window"
    <3>1. chosen[2] = "" /\ (setting # "cmk" => chosen[1] # "reset")
      BY <2>2, ChosenPart
    <3> QED
      BY <1>0, <3>1
  <2> QED
    BY <2>1, <2>2
<1> QED
  BY <1>1 DEF Service!ProposedPart

LEMMA SettingNoop == SettingInv => Service!NoopIsRight
<1> SUFFICES ASSUME SettingInv, job = "plan", Service!Verdict = "none", ~ Service!Rejected
             PROVE  Service!Right
  BY DEF Service!NoopIsRight
<1>1. noted # Service!Gone /\ ~ spoilt /\ Service!Proposed = noted
  BY DEF Service!Verdict
<1>2. CASE setting = "defaultACL"
  BY <1>1, <1>2 DEF Service!Right, SettingInv, NotedInv
<1>3. CASE setting # "defaultACL"
  <2>1. noted = actual /\ actual \in Service!Possible /\ Service!TypeOK
    BY <1>1, <1>3 DEF SettingInv, OfferInv, NotedInv
  <2> SUFFICES ASSUME NEW part \in 1..2, ~ (chosen[part] = "" /\ setting \in Service!Keeping),
                      actual[part] # chosen[part]
               PROVE  chosen[part] = "reset" /\ actual[part] = ""
    BY <1>3 DEF Service!Right
  <2>2. Service!ProposedPart(part) = actual[part]
    <3>1. part = 1 \/ part = 2
      BY TwoParts
    <3>2. Service!ProposedPart(1) = actual[1] /\ Service!ProposedPart(2) = actual[2]
      BY <1>1, <1>3, <2>1, ProposedParts DEF Service!Suppressed
    <3> QED
      BY <3>1, <3>2
  <2>3. chosen[part] = "reset" /\ part = 1 /\ setting = "cmk" /\ actual[part] \in {"", "reset"}
    BY <1>3, <2>1, <2>2, PartKept
  <2>4. actual[1] # "reset"
    BY <2>1, <2>3, PossiblePart DEF Service!Settings
  <2> QED
    BY <2>3, <2>4
<1> QED
  BY <1>2, <1>3

LEMMA SettingsKeptStep ==
  ASSUME SettingInv, SettingInv', Service!Handle, quiet
  PROVE  /\ Service!Right' \/ Service!Halved \/ Service!Never
         /\ offer = noted => actual' = actual
<1>1. Service!TypeOK /\ NotedInv /\ offer = Service!Proposed /\ ~ Service!Rejected /\ ~ spoilt
  BY DEF SettingInv, OfferInv, NotedInv, Service!Handle
<1>2. actual' \in Service!Answers /\ job \in {"create", "update"}
      /\ setting' = setting /\ chosen' = chosen /\ spoilt' = spoilt
  BY DEF Service!Handle
<1>3. CASE setting = "defaultACL"
  <2>1. Service!Right'
    BY <1>1, <1>2, <1>3 DEF Service!Right, SettingInv, NotedInv, Service!TypeOK, Service!Handle, Service!Idle
  <2>2. offer = noted => actual' = actual
    BY <1>1, <1>2, <1>3 DEF SettingInv, OfferInv, Service!TypeOK, Service!Answers, Service!Sent
  <2> QED
    BY <2>1, <2>2
<1>4. CASE setting # "defaultACL"
  <2>1. offer[1] = Service!ProposedPart(1) /\ offer[2] = Service!ProposedPart(2)
    BY <1>1, <1>4, ProposedParts DEF Service!Suppressed
  <2>2. job = "update" => noted = actual /\ Service!Known = actual /\ actual \in Service!Possible
    BY <1>1, <1>2, <1>4 DEF SettingInv, OfferInv, NotedInv, Service!Known
  <2>3. job = "create" => Service!Known = Service!Only("") /\ noted = Service!Gone
    BY <1>1 DEF SettingInv, OfferInv, Service!Known, Service!Empty
  <2>4. offer # Service!Gone
    BY <1>1, ProposedIsThere
  <2>5. setting # "window" => chosen[2] = ""
    BY <1>1, ChosenPart
  <2>6. actual \in Service!Possible => actual # Service!Reset
    BY ValuesDiffer
  <2>7. offer = noted => actual' = actual
    BY <1>2, <2>2, <2>3, <2>4, <2>6 DEF Service!Answers
  <2>8. SUFFICES ASSUME ~ Service!Halved, ~ Service!Never, NEW part \in 1..2,
                        ~ (chosen[part] = "" /\ setting \in Service!Keeping),
                        actual'[part] # chosen[part]
                 PROVE  chosen[part] = "reset" /\ actual'[part] = ""
    BY <1>2, <1>4, <2>7 DEF Service!Right
  <2>p. part = 1 \/ part = 2
    BY TwoParts
  <2>9. ASSUME Service!Sent
        PROVE  chosen[part] = "reset" /\ actual'[part] = ""
    <3>1. CASE offer = Service!Reset
      <4>1. actual' = Service!Only("") /\ offer[1] = "reset" /\ offer[2] = ""
        BY <1>2, <2>9, <3>1, Parts DEF Service!Answers, Service!Empty, Service!Reset
      <4>2. actual'[1] = "" /\ actual'[2] = ""
        BY <4>1, Parts
      <4>3. chosen[part] \in {"", "reset"} \/ chosen[part] = Service!ProposedPart(part)
        BY PartKept, <1>1, <1>4
      <4>4. Service!ProposedPart(part) \in {"", "reset"}
        BY <2>1, <2>p, <4>1
      <4> QED
        BY <2>8, <2>p, <4>2, <4>3, <4>4
    <3>2. CASE offer # Service!Reset
      <4>1. actual'[part] = Service!ProposedPart(part)
        BY <1>2, <2>1, <2>9, <3>2 DEF Service!Answers
      <4>2. chosen[part] = "reset" /\ part = 1 /\ setting = "cmk" /\ actual'[part] \in {"", "reset"}
        BY <1>1, <1>4, <2>8, <4>1, PartKept
      <4>3. Service!ProposedPart(2) = "" /\ offer = <<Service!ProposedPart(1), Service!ProposedPart(2)>>
        <5>1. Service!Known[2] = ""
          <6>1. \A v \in Service!Possible : v[2] = ""
            BY <1>1, <4>2, PossiblePart DEF Service!TypeOK
          <6>2. CASE job = "create"
            BY <2>3, <6>2, Parts
          <6>3. CASE job = "update"
            BY <2>2, <6>1, <6>3
          <6> QED
            BY <1>2, <6>2, <6>3
        <5>2. Service!ProposedPart(2) = ""
          BY <2>5, <4>2, <5>1 DEF Service!ProposedPart
        <5>3. offer = <<Service!ProposedPart(1), Service!ProposedPart(2)>>
          BY <1>1, <1>4 DEF Service!Proposed, Service!Suppressed
        <5> QED
          BY <5>2, <5>3
      <4>4. actual'[part] # "reset"
        BY <3>2, <4>1, <4>2, <4>3 DEF Service!Reset, Service!Only
      <4> QED
        BY <4>2, <4>4
    <3> QED
      BY <3>1, <3>2
  <2>10. ASSUME ~ Service!Sent, job = "create"
         PROVE  chosen[part] = "reset" /\ actual'[part] = ""
    <3>1. setting \in {"window", "cloud", "cmk", "version"}
      BY <1>1, <1>4, <2>10 DEF Service!Sent, Service!TypeOK, Service!Settings
    <3>2. setting # "window"
      <4> SUFFICES ASSUME setting = "window" PROVE FALSE
        OBVIOUS
      <4>1. chosen[1] \in {"a", "b"} /\ chosen[2] \in {"a", "b"}
        BY <1>1, <2>8, <2>10, WindowParts DEF Service!Halved
      <4>2. offer[1] = chosen[1] /\ offer[2] = chosen[2]
        BY <2>1, <4>1 DEF Service!ProposedPart
      <4> QED
        BY <2>10, <4>1, <4>2 DEF Service!Sent
    <3>3. setting \in Service!Keeping
      BY <3>1 DEF Service!Keeping
    <3>4. chosen[1] # "" /\ part = 1
      <4>1. chosen[2] = ""
        BY <2>5, <3>2
      <4>2. chosen[part] # ""
        BY <2>8, <3>3
      <4> QED
        BY <2>p, <4>1, <4>2
    <3>5. chosen # Service!Empty
      BY <3>4, Parts DEF Service!Empty
    <3>6. offer = Service!Empty /\ setting \in {"cloud", "cmk"}
      BY <2>10, <3>1, <3>2, <3>5 DEF Service!Sent
    <3>7. Service!ProposedPart(1) = ""
      <4>1. offer[1] = ""
        BY <3>6, Parts DEF Service!Empty
      <4> QED
        BY <2>1, <4>1
    <3>8. chosen[1] = "reset" /\ setting = "cmk"
      BY <1>1, <1>4, <3>4, <3>7, PartKept
    <3>9. actual' = Service!Only("")
      BY <1>2, <2>10, <3>8 DEF Service!Answers, Service!Fresh, Service!Empty
    <3> QED
      BY <3>4, <3>8, <3>9, Parts
  <2>11. ASSUME ~ Service!Sent, job = "update"
         PROVE  chosen[part] = "reset" /\ actual'[part] = ""
    <3>0. actual' = actual
      BY <1>2, <2>11 DEF Service!Answers
    <3>1. setting \in {"window", "cloud", "cmk", "version", "integrations"}
      BY <1>1, <1>4, <2>11 DEF Service!Sent, Service!TypeOK, Service!Settings
    <3>2. setting # "window"
      <4> SUFFICES ASSUME setting = "window" PROVE FALSE
        OBVIOUS
      <4>0. /\ chosen[1] \in {"a", "b", ""} /\ chosen[2] \in {"a", "b", ""}
            /\ actual[1] \in {"a", "b", "never"} /\ actual[2] \in {"a", "b"}
        BY <1>1, <2>2, <2>11, WindowParts
      <4>k. Service!Known = actual /\ setting \in Service!Keeping
        BY <2>2, <2>11 DEF Service!Keeping
      <4>1. offer[1] = IF chosen[1] = "" THEN actual[1] ELSE chosen[1]
        BY <2>1, <4>0, <4>k DEF Service!ProposedPart
      <4>2. offer[2] = IF chosen[2] = "" THEN actual[2] ELSE chosen[2]
        BY <2>1, <4>0, <4>k DEF Service!ProposedPart
      <4>3. offer[1] = "never"
        BY <2>11, <4>0, <4>1, <4>2 DEF Service!Sent
      <4> QED
        BY <2>8, <4>0, <4>1, <4>3 DEF Service!Never
    <3>3. setting \in Service!Keeping
      BY <3>1 DEF Service!Keeping
    <3>4. chosen[1] # "" /\ part = 1
      <4>1. chosen[2] = ""
        BY <2>5, <3>2
      <4>2. chosen[part] # ""
        BY <2>8, <3>3
      <4> QED
        BY <2>p, <4>1, <4>2
    <3>5. chosen # Service!Empty
      BY <3>4, Parts DEF Service!Empty
    <3>6. CASE setting = "integrations"
      <4>1. offer = noted \/ offer = Service!Empty
        BY <1>1, <2>2, <2>4, <2>11, <3>6, ValuesDiffer DEF Service!Rejected
      <4>2. Service!ProposedPart(1) \in {actual[1], ""}
        <5>1. Service!Empty[1] = ""
          BY Parts DEF Service!Empty
        <5> QED
          BY <2>1, <2>2, <2>11, <4>1, <5>1
      <4>3. Service!ProposedPart(1) = chosen[1]
        BY <1>1, <1>4, <3>4, <3>6, ChosenPart, PartKept
      <4> QED
        BY <2>8, <3>0, <3>4, <4>2, <4>3
    <3>7. CASE setting # "integrations"
      <4>1. offer = Service!Empty /\ setting \in {"cloud", "cmk"}
        BY <2>11, <3>1, <3>2, <3>5, <3>7 DEF Service!Sent
      <4>2. Service!ProposedPart(1) = ""
        <5>1. Service!Empty[1] = ""
          BY Parts DEF Service!Empty
        <5> QED
          BY <2>1, <4>1, <5>1
      <4>3. chosen[1] = "reset" /\ setting = "cmk"
        BY <1>1, <1>4, <3>4, <4>2, PartKept
      <4>4. actual[1] = ""
        BY <2>2, <2>11, <4>2, <4>3 DEF Service!ProposedPart
      <4> QED
        BY <3>0, <3>4, <4>3, <4>4
    <3> QED
      BY <3>6, <3>7
  <2> QED
    BY <1>2, <2>9, <2>10, <2>11
<1> QED
  BY <1>3, <1>4

\* Every step of Settings that a plan is kept by.
LEMMA SettingPlansStep ==
  SettingInv /\ SettingInv' /\ [Service!Next]_settingVars =>
    /\ (/\ quiet /\ job \in {"create", "update"} /\ job' = "none" /\ shocks' = shocks)
          => /\ Service!Right' \/ Service!Halved \/ Service!Never
             /\ offer = noted => actual' = actual
    /\ quiet /\ job = "update" /\ job' = "none" => ~ Service!Refused
<1> SUFFICES ASSUME SettingInv, SettingInv', [Service!Next]_settingVars,
                    quiet, job \in {"create", "update"}, job' = "none"
             PROVE  /\ shocks' = shocks =>
                         /\ Service!Right' \/ Service!Halved \/ Service!Never
                         /\ offer = noted => actual' = actual
                    /\ job = "update" => ~ Service!Refused
  OBVIOUS
<1>1. job = "update" => ~ Service!Refused
  BY DEF SettingInv, OfferInv
<1>2. shocks' = shocks => Service!Handle
  <2>1. Service!Shock => shocks' # shocks
    BY ViewsAssumption DEF SettingInv, Service!TypeOK, Service!Shock
  <2>2. job # "none"
    OBVIOUS
  <2> QED
    BY <2>1, <2>2 DEF Service!Next, Service!Work, Service!Refresh, Service!Plan, Service!Replace,
     Service!UpgradeCheck, Service!CreateFails, Service!UpdateFails, Service!Configure,
     Service!Outsider, settingVars
<1> QED
  BY <1>1, <1>2, SettingsKeptStep

LEMMA SettingView ==
  AppliesSpec => (Service!Init \/ SettingSettled) /\ [][Service!Next]_settingVars
<1>1. AppliesInit => Service!Init \/ SettingSettled
  BY DEF AppliesInit
<1>2. [AppliesNext]_allVars => [Service!Next]_settingVars
  BY DEF AppliesNext, InHandlers, InAttribute, InPassword, InField, OfService, InFilters, InDisk,
         InSettings, In, allVars, serviceVars
<1> QED
  BY <1>1, <1>2, PTL DEF AppliesSpec

\* The type invariant of a setting of a service, and that what is offered is what was
\* proposed for the setting that the refresh has shown, by a version check that has passed.
THEOREM SettingTypeCorrect == AppliesSpec => []SettingInv
BY SettingView, SettingStart, SettingStep, PTL

\* The settings' part of PlansKept: Create and Update leave the setting as configured,
\* and change nothing when the plan shows no change of it.
THEOREM SettingPlansKept == AppliesSpec => Service!PlansKept
<1>1. settingVars = Service!settingVars
  BY DEF settingVars, Service!settingVars
<1> QED
  BY SettingTypeCorrect, SettingView, SettingPlansStep, PTL
  DEF Service!PlansKept, Service!settingVars, settingVars

-----------------------------------------------------------------------------
(* All views.                                                              *)

\* TypesOK: in every view each variable keeps to its type, with what the module's
\* type invariant says of how they go together.
THEOREM TypesCorrect == AppliesSpec => []TypesOK
<1>1. /\ AttributeInv => Attribute!TypeOK
      /\ PasswordInv => Password!TypeOK
      /\ FieldInv => Field!TypeOK
      /\ FilterInv => Filter!TypeOK
      /\ DiskInv => Disk!TypeOK
      /\ SettingInv => Service!TypeOK
  BY DEF AttributeInv, PasswordInv, FieldInv, FilterInv, DiskInv, SettingInv
<1> QED
  BY <1>1, HandlersTypeCorrect, AttributeTypeCorrect, PasswordTypeCorrect, FieldTypeCorrect,
     FilterTypeCorrect, DiskTypeCorrect, SettingTypeCorrect, PTL DEF TypesOK

\* NoopsAreRight: when core plans no change, the object, attribute, password, field,
\* networks, disk and settings are those of the configuration: what a failed or
\* half-finished operation left, core is shown by the refresh, or finds it in the entry.
THEOREM NoopsShowNoDrift == AppliesSpec => []NoopsAreRight
BY HandlersShown, HandlersNoop, AttributeTypeCorrect, AttributeNoop, PasswordTypeCorrect,
   PasswordNoop, FieldTypeCorrect, FieldNoop, FilterTypeCorrect, FilterNoop, DiskTypeCorrect,
   DiskNoop, SettingTypeCorrect, SettingNoop, PTL
DEF NoopsAreRight

\* ReplacedOnlyIfAsked: core replaces nothing that has what the user asks for, as
\* flattening what the API answers gives what is configured, or a value that is not
\* shown as a change.
THEOREM NothingReplaced == AppliesSpec => []ReplacedOnlyIfAsked
BY AttributeTypeCorrect, AttributeReplaced, FieldTypeCorrect, FieldReplaced, PTL
DEF ReplacedOnlyIfAsked

\* PlansKept: what a Create or an Update does to an attribute, a field, a disk or a
\* setting is what core was shown in the plan.
THEOREM PlansAreKept == AppliesSpec => PlansKept
BY AttributePlansKept, FieldPlansKept, DiskPlansKept, SettingPlansKept, PTL DEF PlansKept
===============================================================================
