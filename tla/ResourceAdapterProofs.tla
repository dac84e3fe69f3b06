------------------------ MODULE ResourceAdapterProofs ------------------------
(***************************************************************************)
(* Proofs about ResourceAdapter, for any set of objects and of resource    *)
(* options, and whatever faults the backend has.                           *)
(***************************************************************************)
EXTENDS ResourceAdapter, FiniteSetTheorems, TLAPS

\* What is in the state, outside of Create.
Tracked ==
  \A o \in (owned \cap told) \ foreign :
    remote[o] \in Live => entry.id = o \/ o \in overlooked

\* Create begins without an entry and without a history.
CreateCallInv ==
  op = "create" =>
    /\ entry = NoEntry
    /\ ~ polling => owned = {} /\ told = {} /\ checkpoint = NoEntry /\ ~ createSucceeded

\* While Create polls, an object that was acknowledged and whose ID was told
\* is the one the operation knows, and the one it has checkpointed.
CreatePollInv ==
  op = "create" /\ polling =>
    /\ told \subseteq {data}
    /\ owned # {} => createSucceeded
    /\ checkpoint # NoEntry => checkpoint = Tainted(data) /\ data \in owned
    /\ createSucceeded /\ resource.idFrom # "read" => data \in owned

\* Every other operation works on the entry it began with (an import on the
\* ID it was given).
EntryOpInv ==
  op \in {"read", "update", "delete"} =>
    /\ data \in Objects
    /\ entry # NoEntry => entry.id = data
    /\ op # "read" => entry # NoEntry

\* When Delete gets a 404 its object is no longer live; another client may
\* make a new one of its name.
DeleteCallInv ==
  op = "delete" /\ deleteErr = "notFound" => remote[data] \notin Live \/ data \in foreign

\* Names clash only where the configuration gives the ID.
ForeignInv ==
  /\ resource.idFrom # "plan" => foreign = {}
  /\ entry.tainted /\ resource.idFrom = "plan" => entry.id \in owned

Facts ==
  /\ CreateCallInv /\ CreatePollInv /\ EntryOpInv /\ DeleteCallInv /\ ForeignInv
  /\ op # "create" => Tracked

IInv == TypeOK /\ Facts

-----------------------------------------------------------------------------
(* Types.                                                                  *)

\* An operation ends, or goes on to poll, in a well-typed state.
LEMMA EndTypes ==
  ASSUME TypeOK, NEW outcome \in {"ok", "error"}, NEW state \in Entries \cup {NoEntry},
         NEW id \in Objects \cup {NoObject}, End(outcome, state, id)
  PROVE  /\ op' = "none" /\ result' \in {"ok", "error"}
         /\ entry' \in Entries \cup {NoEntry} /\ data' \in Objects \cup {NoObject}
         /\ UNCHANGED <<resource, polling, checkpoint, createSucceeded, deleteSucceeded, deleteErr>>
  BY DEF End

LEMMA EntryTypes ==
  ASSUME NEW o \in Objects
  PROVE  /\ Kept(o) \in Entries /\ Tainted(o) \in Entries
         /\ Kept(o).id = o /\ ~ Kept(o).tainted
         /\ Tainted(o).id = o /\ Tainted(o).tainted
         /\ Kept(o) # NoEntry /\ Tainted(o) # NoEntry
  BY ConstantsAssumption DEF Entries, Kept, Tainted, NoEntry

LEMMA NoEntryTypes ==
  /\ NoEntry \notin Entries
  /\ NoEntry.id = NoObject
  /\ NoEntry.tainted = FALSE
  BY ConstantsAssumption DEF Entries, NoEntry

\* What a failed refresh leaves is an entry or nothing.
LEMMA AfterFailedRefreshTypes ==
  ASSUME TypeOK, NEW id \in Objects \cup {NoObject}
  PROVE  AfterFailedRefresh(id) \in Entries \cup {NoEntry}
  BY EntryTypes DEF AfterFailedRefresh, TypeOK

LEMMA RefreshErrorTypes ==
  ASSUME TypeOK, NEW e, NEW id \in Objects \cup {NoObject}, RefreshError(e, id)
  PROVE  /\ op' \in {"none", op} /\ result' \in {"none", "ok", "error"}
         /\ entry' \in Entries \cup {NoEntry} /\ data' \in Objects \cup {NoObject}
         /\ UNCHANGED <<resource, polling, checkpoint, createSucceeded, deleteSucceeded, deleteErr>>
  BY AfterFailedRefreshTypes DEF RefreshError, Fail, End, TypeOK

LEMMA VisibleTypes ==
  ASSUME TypeOK, NEW o, o \in Visible
  PROVE  /\ o \in Objects /\ o \notin hidden /\ remote[o] # "absent"
         /\ data # NoObject => o = data
         /\ resource.idFrom = "plan" /\ data = NoObject => o = Named
  BY ConstantsAssumption DEF Visible, Matches, TypeOK

LEMMA BeginTypes ==
  ASSUME TypeOK, NEW operation \in {"create", "read", "update", "delete"},
         NEW id \in Objects \cup {NoObject}, Begin(operation, id),
         owned' \subseteq Objects, told' \subseteq Objects, overlooked' \subseteq Objects
  PROVE  TypeOK'
  BY NoEntryTypes DEF TypeOK, Begin, remoteVars

LEMMA StartTypes == TypeOK /\ Start => TypeOK'
<1> SUFFICES ASSUME TypeOK, Start PROVE TypeOK'
  OBVIOUS
<1>1. CASE StartCreate
  <2>1. /\ Begin("create", NoObject)
        /\ owned' \subseteq Objects /\ told' \subseteq Objects /\ overlooked' \subseteq Objects
    BY <1>1 DEF StartCreate
  <2> QED
    BY <2>1, BeginTypes
<1>2. ASSUME NEW o \in Objects, StartImport(o) PROVE TypeOK'
  <2>1. /\ Begin("read", o)
        /\ owned' \subseteq Objects /\ told' \subseteq Objects /\ overlooked' \subseteq Objects
    BY <1>2 DEF StartImport, TypeOK, historyVars
  <2> QED
    BY <2>1, BeginTypes
<1>3. CASE StartRead \/ StartUpdate \/ StartDelete
  <2>1. /\ entry.id \in Objects
        /\ Begin("read", entry.id) \/ Begin("update", entry.id) \/ Begin("delete", entry.id)
        /\ owned' \subseteq Objects /\ told' \subseteq Objects /\ overlooked' \subseteq Objects
    BY <1>3 DEF StartRead, StartUpdate, StartDelete, TypeOK, historyVars, Entries
  <2> QED
    BY <2>1, BeginTypes
<1> QED
  BY <1>1, <1>2, <1>3 DEF Start

\* Create's answers.
LEMMA CreateTypes ==
  ASSUME TypeOK,
         (\E o \in Objects : CreateAccepted(o) \/ CreateLost(o)) \/ CreateConflict \/ CreateFails
  PROVE  TypeOK'
<1>1. /\ NoEntry \in Entries \cup {NoEntry}
      /\ Named \in Objects
  BY ConstantsAssumption
<1>2. ASSUME NEW o \in Objects, Make(o)
      PROVE  /\ remote' \in [Objects -> Values \cup {"absent"}]
             /\ hidden' \subseteq Objects /\ foreign' \subseteq Objects /\ attached' \in BOOLEAN
  BY <1>2 DEF Make, TypeOK, Values
<1>3. ASSUME NEW o \in Objects, CreateAccepted(o) PROVE TypeOK'
  <2>1. Make(o) /\ owned' \subseteq Objects /\ told' \subseteq Objects /\ UNCHANGED overlooked
    BY <1>3 DEF CreateAccepted, KnownID, TypeOK
  <2>2. CASE resource.refreshState
    <3>1. KnownID(o) \in Objects \cup {NoObject} /\ Checkpoint(KnownID(o)) \in Entries \cup {NoEntry}
      BY EntryTypes DEF KnownID, Checkpoint
    <3>2. StartPolling(KnownID(o), Checkpoint(KnownID(o)), TRUE)
      BY <1>3, <2>2 DEF CreateAccepted
    <3> HIDE DEF KnownID, Checkpoint
    <3> QED
      BY <1>2, <2>1, <3>1, <3>2 DEF StartPolling, TypeOK
  <2>3. CASE ~ resource.refreshState
    <3>1. End("ok", Kept(o), o) /\ Kept(o) \in Entries
      BY <1>3, <2>3, EntryTypes DEF CreateAccepted, Succeed
    <3> QED
      BY <1>2, <2>1, <3>1, EndTypes DEF TypeOK
  <2> QED
    BY <2>2, <2>3
<1>4. ASSUME AlreadyExists \/ Fail(NoEntry, NoObject)
      PROVE  /\ op' \in {"none", op} /\ polling' \in BOOLEAN /\ result' \in {"none", "ok", "error"}
             /\ entry' \in Entries \cup {NoEntry} /\ data' \in Objects \cup {NoObject}
             /\ checkpoint' \in Entries \cup {NoEntry}
             /\ createSucceeded' \in BOOLEAN /\ deleteSucceeded' \in BOOLEAN
             /\ UNCHANGED <<resource, deleteErr>>
  BY <1>4 DEF AlreadyExists, Fail, End, StartPolling, TypeOK
<1>5. ASSUME NEW o \in Objects, CreateLost(o) PROVE TypeOK'
  <2>1. Make(o) /\ (AlreadyExists \/ Fail(NoEntry, NoObject)) /\ UNCHANGED historyVars
    BY <1>5 DEF CreateLost
  <2> QED
    BY <1>2, <1>4, <2>1 DEF TypeOK, historyVars
<1>6. CASE CreateConflict \/ CreateFails
  <2>1. (AlreadyExists \/ Fail(NoEntry, NoObject)) /\ UNCHANGED <<remoteVars, historyVars>>
    BY <1>6 DEF CreateConflict, CreateFails
  <2> QED
    BY <1>4, <2>1 DEF TypeOK, historyVars, remoteVars
<1> QED
  BY <1>3, <1>5, <1>6

\* The steps of refreshState, Read and Update.
LEMMA RefreshTypes ==
  ASSUME TypeOK,
         \/ \E o \in Objects : RefreshReads(o) \/ ReadFound(o)
         \/ \E e \in ReadErrors : RefreshReadFails(e) \/ ReadFails(e)
         \/ UpdateAccepted \/ UpdateFails \/ RefreshExpires
  PROVE  TypeOK'
<1>1. ASSUME NEW o \in Objects, RefreshReads(o) PROVE TypeOK'
  <2>1. /\ Refreshing /\ o \in Visible /\ told' = told \cup {o}
        /\ UNCHANGED <<remoteVars, owned, overlooked>>
    BY <1>1 DEF RefreshReads
  <2>2. CASE Judge(remote[o]) = "ok"
    <3>1. End("ok", Kept(o), o) /\ Kept(o) \in Entries
      BY <1>1, <2>2, EntryTypes DEF RefreshReads, Succeed
    <3> QED
      BY <2>1, <3>1, EndTypes DEF TypeOK, remoteVars
  <2>3. CASE Judge(remote[o]) # "ok"
    <3>1. RefreshError(Judge(remote[o]), o)
      BY <1>1, <2>3 DEF RefreshReads
    <3> QED
      BY <2>1, <3>1, RefreshErrorTypes DEF TypeOK, remoteVars
  <2> QED
    BY <2>2, <2>3
<1>2. ASSUME NEW e \in ReadErrors, RefreshReadFails(e) PROVE TypeOK'
  <2>1. RefreshError(e, data) /\ data \in Objects \cup {NoObject}
        /\ UNCHANGED <<remoteVars, historyVars>>
    BY <1>2 DEF RefreshReadFails, TypeOK
  <2> QED
    BY <2>1, RefreshErrorTypes DEF TypeOK, remoteVars, historyVars
<1>3. CASE RefreshExpires
  <2>1. /\ End("error", AfterFailedRefresh(data), data) /\ data \in Objects \cup {NoObject}
        /\ UNCHANGED <<remoteVars, historyVars>>
    BY <1>3 DEF RefreshExpires, Fail, TypeOK
  <2> QED
    BY <2>1, AfterFailedRefreshTypes, EndTypes DEF TypeOK, remoteVars, historyVars
<1>4. ASSUME NEW o \in Objects, ReadFound(o) PROVE TypeOK'
  <2>1. PICK state \in Entries \cup {NoEntry} :
          End("ok", state, o) /\ UNCHANGED <<remoteVars, historyVars>>
    BY <1>4, EntryTypes DEF ReadFound, Succeed, TypeOK
  <2> QED
    BY <2>1, EndTypes DEF TypeOK, remoteVars, historyVars
<1>5. ASSUME NEW e \in ReadErrors, ReadFails(e) PROVE TypeOK'
  <2>1. \E outcome \in {"ok", "error"}, state \in Entries \cup {NoEntry} :
          End(outcome, state, data) /\ UNCHANGED <<remoteVars, owned, told>>
    BY <1>5 DEF ReadFails, Succeed, Fail, TypeOK
  <2>2. data \in Objects \cup {NoObject} /\ overlooked' \subseteq Objects
    BY <1>5 DEF ReadFails, Overlook, TypeOK
  <2> QED
    BY <2>1, <2>2, EndTypes DEF TypeOK, remoteVars, historyVars
<1>6. CASE UpdateAccepted \/ UpdateFails
  <2>1. remote' \in [Objects -> Values \cup {"absent"}] /\ UNCHANGED <<hidden, foreign, attached>>
    BY <1>6 DEF UpdateAccepted, UpdateFails, Rebuild, TypeOK, remoteVars, Values
  <2>2. /\ op' \in {"none", op} /\ polling' \in BOOLEAN /\ result' \in {"none", "ok", "error"}
        /\ entry' = entry /\ data' = data /\ checkpoint' \in Entries \cup {NoEntry}
        /\ createSucceeded' \in BOOLEAN /\ deleteSucceeded' \in BOOLEAN
        /\ UNCHANGED <<resource, deleteErr, historyVars>>
    BY <1>6 DEF UpdateAccepted, UpdateFails, StartPolling, Succeed, Fail, End, TypeOK
  <2> QED
    BY <2>1, <2>2 DEF TypeOK, historyVars
<1> QED
  BY <1>1, <1>2, <1>3, <1>4, <1>5, <1>6

\* The steps of Delete and deleteState.
LEMMA DeleteTypes ==
  ASSUME TypeOK,
         \/ DeleteAccepted \/ DeleteCalled \/ DeleteExpires
         \/ \E o \in Objects : DeletePollReads(o)
         \/ \E e \in ReadErrors : DeletePollFails(e)
         \/ \E e \in DeleteErrors : DeleteFails(e)
  PROVE  TypeOK'
<1>1. ASSUME TearDown PROVE remote' \in [Objects -> Values \cup {"absent"}]
                            /\ UNCHANGED <<hidden, foreign, attached>>
  BY <1>1 DEF TearDown, TypeOK, Values
<1>2. remote' \in [Objects -> Values \cup {"absent"}] /\ UNCHANGED <<hidden, foreign, attached>>
  BY <1>1 DEF DeleteAccepted, DeleteCalled, DeleteExpires, DeletePollReads, DeletePollFails,
              DeleteFails, DeleteError, TypeOK, remoteVars
<1>3. /\ op' \in {"none", op} /\ polling' \in BOOLEAN /\ result' \in {"none", "ok", "error"}
      /\ entry' \in {entry, NoEntry} /\ data' = data /\ checkpoint' = checkpoint
      /\ createSucceeded' = createSucceeded /\ deleteSucceeded' \in BOOLEAN
      /\ deleteErr' \in DeleteErrors \cup {"nil"}
      /\ UNCHANGED <<resource, owned, told>> /\ overlooked' \subseteq Objects
  BY DEF DeleteAccepted, DeleteCalled, DeleteExpires, DeletePollReads, DeletePollFails,
         DeleteFails, PollDelete, Overlook, Succeed, Fail, End, TypeOK, historyVars
<1> QED
  BY <1>2, <1>3 DEF TypeOK, historyVars

LEMMA BackendTypes == TypeOK /\ (Backend \/ Others) => TypeOK'
<1> SUFFICES ASSUME TypeOK, Backend \/ Others PROVE TypeOK'
  OBVIOUS
<1>1. /\ remote' \in [Objects -> Values \cup {"absent"}]
      /\ hidden' \subseteq Objects /\ foreign' \subseteq Objects /\ attached' \in BOOLEAN
  BY ConstantsAssumption
     DEF Backend, Others, Settle, Detach, Converge, Attach, OutsiderCreates, OutsiderDeletes,
         Become, TypeOK, Values
<1>2. UNCHANGED adapterVars
  BY DEF Backend, Others, Settle, Detach, Converge, Attach, OutsiderCreates, OutsiderDeletes, Become
<1> QED
  BY <1>1, <1>2 DEF TypeOK, adapterVars, callVars, historyVars

\* Every variable keeps its type.
THEOREM TypeCorrect == Spec => []TypeOK
<1>1. Init => TypeOK
  BY ConstantsAssumption DEF Init, TypeOK, Values
<1>2. TypeOK /\ [Next]_vars => TypeOK'
  <2>1. TypeOK /\ Next => TypeOK'
    BY StartTypes, CreateTypes, RefreshTypes, DeleteTypes, BackendTypes
       DEF Next, Continue, Expire
  <2>2. TypeOK /\ UNCHANGED vars => TypeOK'
    BY DEF TypeOK, vars, remoteVars, callVars, historyVars
  <2> QED
    BY <2>1, <2>2
<1> QED
  BY <1>1, <1>2, PTL DEF Spec

-----------------------------------------------------------------------------
(* The state entry.                                                        *)

LEMMA StartKeeps == TypeOK /\ Facts /\ Start => Facts'
<1> SUFFICES ASSUME TypeOK, Facts, Start PROVE Facts'
  OBVIOUS
<1> USE DEF Facts, CreateCallInv, CreatePollInv, EntryOpInv, DeleteCallInv, ForeignInv, Tracked,
            Begin, remoteVars
<1>1. CASE StartCreate
  BY <1>1, NoEntryTypes DEF StartCreate
<1>2. ASSUME NEW o \in Objects, StartImport(o) PROVE Facts'
  BY <1>2 DEF StartImport, historyVars
<1>3. CASE StartRead \/ StartUpdate \/ StartDelete
  <2>1. entry # NoEntry /\ op = "none" /\ op' \in {"read", "update", "delete"}
        /\ data' = entry.id /\ ~ polling' /\ deleteErr' = "nil"
        /\ UNCHANGED <<resource, remote, foreign, entry, owned, told, overlooked>>
    BY <1>3 DEF StartRead, StartUpdate, StartDelete, historyVars
  <2>2. data' \in Objects
    BY <2>1 DEF TypeOK, Entries
  <2> QED
    BY <2>1, <2>2
<1> QED
  BY <1>1, <1>2, <1>3 DEF Start

LEMMA CreateKeeps ==
  ASSUME TypeOK, Facts,
         (\E o \in Objects : CreateAccepted(o) \/ CreateLost(o)) \/ CreateConflict \/ CreateFails
  PROVE  Facts'
<1> USE DEF Facts, CreateCallInv, CreatePollInv, EntryOpInv, DeleteCallInv, ForeignInv, Tracked
<1>1. op = "create" /\ ~ polling /\ entry = NoEntry /\ owned = {} /\ told = {}
      /\ checkpoint = NoEntry /\ ~ createSucceeded
  BY DEF CreateAccepted, CreateLost, CreateConflict, CreateFails, Creating
<1>2. ASSUME NEW o \in Objects, Make(o) PROVE resource.idFrom # "plan" => foreign' = {}
  BY <1>2 DEF Make
<1>3. ASSUME NEW o \in Objects, CreateAccepted(o) PROVE Facts'
  <2>1. Make(o) /\ owned' = {o} /\ told' = {KnownID(o)} \ {NoObject}
    BY <1>1, <1>3 DEF CreateAccepted
  <2>2. CASE resource.refreshState
    <3>1. StartPolling(KnownID(o), Checkpoint(KnownID(o)), TRUE)
      BY <1>3, <2>2 DEF CreateAccepted
    <3> QED
      BY <1>1, <1>2, <2>1, <3>1, EntryTypes, NoEntryTypes DEF StartPolling, KnownID, Checkpoint
  <2>3. CASE ~ resource.refreshState
    <3>1. Succeed(Kept(o), o)
      BY <1>3, <2>3 DEF CreateAccepted
    <3> QED
      BY <1>1, <1>2, <2>1, <3>1, EntryTypes DEF Succeed, End
  <2> QED
    BY <2>2, <2>3
<1>4. ASSUME AlreadyExists \/ Fail(NoEntry, NoObject), UNCHANGED historyVars,
             resource.idFrom # "plan" => foreign' = {}
      PROVE  Facts'
  BY <1>1, <1>4, NoEntryTypes DEF AlreadyExists, Fail, End, StartPolling, historyVars
<1>5. ASSUME NEW o \in Objects, CreateLost(o) PROVE Facts'
  BY <1>2, <1>4, <1>5 DEF CreateLost
<1>6. CASE CreateConflict \/ CreateFails
  BY <1>4, <1>6 DEF CreateConflict, CreateFails, remoteVars
<1> QED
  BY <1>3, <1>5, <1>6

\* A refresh that fails leaves what was created in the state.
LEMMA RefreshErrorKeeps ==
  ASSUME TypeOK, Facts, NEW e, NEW id \in Objects \cup {NoObject}, Refreshing,
         RefreshError(e, id), owned' = owned, overlooked' = overlooked, UNCHANGED remoteVars,
         data # NoObject => id = data,
         op = "create" /\ createSucceeded /\ resource.idFrom # "read" => id \in owned,
         op = "create" => told' \subseteq {id},
         op = "update" => told' \subseteq told \cup {data}
  PROVE  Facts'
<1> USE DEF Facts, CreateCallInv, CreatePollInv, EntryOpInv, DeleteCallInv, ForeignInv, Tracked,
            Refreshing, remoteVars
<1>1. CASE IsRefreshStateRetryable(e)
  <2>1. /\ data' = id
        /\ UNCHANGED <<resource, entry, op, polling, checkpoint, createSucceeded>>
    BY <1>1 DEF RefreshError
  <2>2. data \in Objects => id = data
    BY ConstantsAssumption
  <2> QED
    BY <2>1, <2>2 DEF TypeOK
<1>2. CASE ~ IsRefreshStateRetryable(e) /\ op = "update"
  <2>1. entry' = entry /\ op' = "none" /\ resource' = resource
    BY <1>2 DEF RefreshError, Fail, End, AfterFailedRefresh
  <2> QED
    BY <1>2, <2>1
<1>3. CASE ~ IsRefreshStateRetryable(e) /\ op = "create"
  <2>1. entry' = AfterFailedRefresh(id) /\ op' = "none" /\ resource' = resource
    BY <1>3 DEF RefreshError, Fail, End
  <2>2. owned \subseteq Objects /\ (data \in owned => id = data)
    BY ConstantsAssumption DEF TypeOK
  <2>3. \A o \in owned \cap told' : o = id
    BY <1>3
  <2>4. CASE checkpoint # NoEntry
    <3>1. entry' = Tainted(id) /\ id \in owned
      BY <1>3, <2>1, <2>2, <2>4 DEF AfterFailedRefresh
    <3> QED
      BY <1>3, <2>1, <2>2, <2>3, <3>1, EntryTypes
  <2>5. CASE checkpoint = NoEntry /\ createSucceeded /\ id # NoObject
    <3>1. entry' = Tainted(id) /\ id \in Objects
      BY <1>3, <2>1, <2>5 DEF AfterFailedRefresh
    <3> QED
      BY <1>3, <2>1, <2>2, <2>3, <2>5, <3>1, EntryTypes
  <2>6. CASE checkpoint = NoEntry /\ ~ (createSucceeded /\ id # NoObject)
    <3>1. entry' = NoEntry
      BY <1>3, <2>1, <2>6 DEF AfterFailedRefresh
    <3>2. owned \cap told' = {}
      BY <1>3, <2>2, <2>3, <2>6, ConstantsAssumption
    <3> QED
      BY <1>3, <2>1, <3>1, <3>2, NoEntryTypes
  <2> QED
    BY <2>4, <2>5, <2>6
<1> QED
  BY <1>1, <1>2, <1>3

LEMMA RefreshKeeps ==
  ASSUME TypeOK, Facts,
         \/ \E o \in Objects : RefreshReads(o) \/ ReadFound(o)
         \/ \E e \in ReadErrors : RefreshReadFails(e) \/ ReadFails(e)
         \/ UpdateAccepted \/ UpdateFails \/ RefreshExpires
  PROVE  Facts'
<1>1. ASSUME NEW o \in Objects, RefreshReads(o) PROVE Facts'
  <2>1. /\ Refreshing /\ o \in Visible /\ told' = told \cup {o}
        /\ UNCHANGED <<remoteVars, owned, overlooked>>
    BY <1>1 DEF RefreshReads
  <2>2. data # NoObject => o = data
    BY <2>1, VisibleTypes
  <2>3. op = "update" => o = data
    BY <2>2, ConstantsAssumption DEF Facts, EntryOpInv
  <2>4. told' \subseteq {o} \/ op = "update"
    BY <2>1, <2>2, ConstantsAssumption DEF Facts, CreatePollInv, Refreshing, TypeOK
  <2>5. CASE Judge(remote[o]) = "ok"
    <3>1. End("ok", Kept(o), o)
      BY <1>1, <2>5 DEF RefreshReads, Succeed
    <3> QED
      BY <2>1, <2>2, <2>3, <2>4, <3>1, EntryTypes
         DEF End, Facts, CreateCallInv, CreatePollInv, EntryOpInv, DeleteCallInv, ForeignInv,
             Tracked, Refreshing, remoteVars
  <2>6. CASE Judge(remote[o]) # "ok"
    <3>1. RefreshError(Judge(remote[o]), o)
      BY <1>1, <2>6 DEF RefreshReads
    <3> QED
      <4>1. op = "create" /\ createSucceeded /\ resource.idFrom # "read" => o \in owned
        BY <2>1, <2>2, ConstantsAssumption DEF Facts, CreatePollInv, Refreshing, TypeOK
      <4>2. op = "create" => told' \subseteq {o}
        BY <2>4
      <4>3. op = "update" => told' \subseteq told \cup {data}
        BY <2>1, <2>3
      <4> QED
        BY <2>1, <2>2, <3>1, <4>1, <4>2, <4>3, RefreshErrorKeeps
  <2> QED
    BY <2>5, <2>6
<1>2. ASSUME NEW e \in ReadErrors, RefreshReadFails(e) PROVE Facts'
  <2>1. /\ Refreshing /\ RefreshError(e, data) /\ data \in Objects \cup {NoObject}
        /\ UNCHANGED <<remoteVars, historyVars>>
    BY <1>2 DEF RefreshReadFails, TypeOK
  <2> QED
    BY <2>1, RefreshErrorKeeps DEF Facts, CreatePollInv, Refreshing, historyVars
<1>3. CASE RefreshExpires
  <2>1. /\ Refreshing /\ RefreshError("apiError", data) /\ data \in Objects \cup {NoObject}
        /\ UNCHANGED <<remoteVars, historyVars>>
    BY <1>3 DEF RefreshExpires, RefreshError, IsRefreshStateRetryable, TypeOK
  <2> QED
    BY <2>1, RefreshErrorKeeps DEF Facts, CreatePollInv, Refreshing, historyVars
<1>4. ASSUME NEW o \in Objects, ReadFound(o) PROVE Facts'
  <2>1. /\ op = "read" /\ op' = "none" /\ o \in Visible /\ data' = o
        /\ entry' = IF entry = NoEntry THEN Kept(o) ELSE entry
        /\ UNCHANGED <<resource, remoteVars, historyVars>>
    BY <1>4 DEF ReadFound, Reading, Succeed, End
  <2> QED
    BY <2>1, EntryTypes, NoEntryTypes, ConstantsAssumption
       DEF Facts, CreateCallInv, CreatePollInv, EntryOpInv, DeleteCallInv, ForeignInv, Tracked,
           remoteVars, historyVars, TypeOK
<1>5. ASSUME NEW e \in ReadErrors, ReadFails(e) PROVE Facts'
  <2>1. /\ op = "read" /\ op' = "none" /\ data' = data
        /\ entry' = entry \/ (entry' = NoEntry /\ e = "notFound" /\ Overlook)
        /\ UNCHANGED <<resource, remoteVars, owned, told>> /\ overlooked \subseteq overlooked'
    BY <1>5 DEF ReadFails, Reading, Overlook, Succeed, Fail, End
  <2>2. ASSUME e = "notFound", Overlook PROVE remote[data] = "absent" \/ data \in overlooked'
    <3>1. Visible = {} /\ data # NoObject
      BY <1>5, <2>1, <2>2, ConstantsAssumption DEF ReadFails, ReadError, Facts, EntryOpInv
    <3> QED
      BY <2>2, <3>1 DEF Overlook, Visible, Matches
  <2> QED
    BY <2>1, <2>2, NoEntryTypes
       DEF Facts, CreateCallInv, CreatePollInv, EntryOpInv, DeleteCallInv, ForeignInv, Tracked,
           remoteVars, historyVars, TypeOK, Live
<1>6. CASE UpdateAccepted \/ UpdateFails
  <2>1. /\ op = "update" /\ op' \in {"update", "none"} /\ entry' = entry /\ data' = data
        /\ UNCHANGED <<resource, foreign, historyVars>>
    BY <1>6 DEF UpdateAccepted, UpdateFails, Updating, StartPolling, Succeed, Fail, End, Rebuild,
                remoteVars
  <2>2. \A o \in Objects : remote'[o] \in Live => remote[o] \in Live
    BY <1>6 DEF UpdateAccepted, UpdateFails, Rebuild, remoteVars, TypeOK
  <2> QED
    BY <2>1, <2>2
       DEF Facts, CreateCallInv, CreatePollInv, EntryOpInv, DeleteCallInv, ForeignInv, Tracked,
           historyVars, TypeOK
<1> QED
  BY <1>1, <1>2, <1>3, <1>4, <1>5, <1>6

LEMMA DeleteKeeps ==
  ASSUME TypeOK, Facts,
         \/ DeleteAccepted \/ DeleteCalled \/ DeleteExpires
         \/ \E o \in Objects : DeletePollReads(o)
         \/ \E e \in ReadErrors : DeletePollFails(e)
         \/ \E e \in DeleteErrors : DeleteFails(e)
  PROVE  Facts'
<1>1. /\ op = "delete" /\ op' \in {"delete", "none"} /\ data' = data
      /\ UNCHANGED <<resource, owned, told>> /\ overlooked \subseteq overlooked'
      /\ entry' = entry \/ (op' = "none" /\ entry' = NoEntry)
  BY DEF DeleteAccepted, DeleteCalled, DeleteExpires, DeletePollReads, DeletePollFails,
         DeleteFails, Deleting, DeletePolling, PollDelete, Overlook, Succeed, Fail, End, historyVars
<1>2. foreign' = foreign /\ \A o \in Objects : remote'[o] \in Live => remote[o] \in Live
  BY DEF DeleteAccepted, DeleteCalled, DeleteExpires, DeletePollReads, DeletePollFails,
         DeleteFails, DeleteError, TearDown, remoteVars, TypeOK, Live
<1>3. ASSUME entry' # entry
      PROVE  remote'[data] \notin Live \/ data \in foreign \/ data \in overlooked'
  <2>1. CASE DeleteAccepted
    BY <2>1 DEF DeleteAccepted, TearDown, TypeOK, Live, Facts, EntryOpInv, Deleting
  <2>2. ASSUME NEW e \in DeleteErrors, DeleteFails(e) PROVE remote'[data] \notin Live
    BY <1>3, <2>2 DEF DeleteFails, DeleteError, Fail, End, remoteVars
  <2>3. ASSUME NEW o \in Objects, DeletePollReads(o) PROVE remote'[data] \notin Live
    <3>1. remote[o] \in resource.deleted /\ o \in Visible /\ remote' = remote
      BY <1>3, <2>3 DEF DeletePollReads, remoteVars
    <3>2. o = data /\ remote[o] = "deleted"
      BY <1>1, <3>1, VisibleTypes, ConstantsAssumption DEF Facts, EntryOpInv, TypeOK
    <3> QED
      BY <3>1, <3>2 DEF Live
  <2>4. ASSUME NEW e \in ReadErrors, DeletePollFails(e)
        PROVE  remote'[data] \notin Live \/ data \in overlooked'
    <3>1. Visible = {} /\ data # NoObject /\ remote' = remote /\ Overlook
      BY <1>1, <1>3, <2>4, ConstantsAssumption
         DEF DeletePollFails, ReadError, Fail, End, Facts, EntryOpInv, remoteVars
    <3>2. remote[data] = "absent" \/ data \in overlooked'
      BY <3>1 DEF Overlook, Visible, Matches
    <3> QED
      BY <3>1, <3>2 DEF Live
  <2>5. CASE DeleteCalled
    BY <1>3, <2>5 DEF DeleteCalled, PollDelete
  <2>6. CASE DeleteExpires
    BY <1>1, <1>3, <2>6 DEF DeleteExpires, Fail, End, remoteVars, Facts, DeleteCallInv
  <2> QED
    BY <2>1, <2>2, <2>3, <2>4, <2>5, <2>6
<1>4. DeleteCallInv'
  <2>1. CASE DeleteCalled
    BY <1>1, <1>2, <2>1 DEF DeleteCalled, PollDelete, DeleteError, DeleteErrors, Facts,
                            DeleteCallInv, EntryOpInv, remoteVars
  <2>2. CASE ~ DeleteCalled
    <3>1. op' = "none" \/ deleteErr' = deleteErr
      BY <2>2 DEF DeleteAccepted, DeleteExpires, DeletePollReads, DeletePollFails, DeleteFails,
                  Succeed, Fail, End
    <3> QED
      BY <1>1, <1>2, <3>1 DEF Facts, DeleteCallInv, EntryOpInv
  <2> QED
    BY <2>1, <2>2
<1> QED
  BY <1>1, <1>2, <1>3, <1>4, NoEntryTypes
     DEF Facts, CreateCallInv, CreatePollInv, EntryOpInv, DeleteCallInv, ForeignInv, Tracked,
         historyVars, TypeOK

LEMMA BackendKeeps == TypeOK /\ Facts /\ (Backend \/ Others) => Facts'
<1> SUFFICES ASSUME TypeOK, Facts, Backend \/ Others PROVE Facts'
  OBVIOUS
<1>1. UNCHANGED <<resource, entry, op, polling, data, checkpoint, createSucceeded, deleteErr, owned,
                  told, overlooked>>
  BY DEF Backend, Others, Settle, Detach, Converge, Attach, OutsiderCreates, OutsiderDeletes,
         Become, adapterVars, callVars, historyVars
<1>2. \A o \in Objects : remote'[o] \in Live /\ o \notin foreign' =>
                           remote[o] \in Live /\ o \notin foreign
  BY DEF Backend, Others, Settle, Detach, Converge, Attach, OutsiderCreates, OutsiderDeletes,
         Become, TypeOK, Live
<1>3. resource.idFrom # "plan" => foreign' = {}
  BY DEF Backend, Others, Settle, Detach, Converge, Attach, OutsiderCreates, OutsiderDeletes,
         Become, Facts, ForeignInv
<1> QED
  BY <1>1, <1>2, <1>3
     DEF Facts, CreateCallInv, CreatePollInv, EntryOpInv, DeleteCallInv, ForeignInv, Tracked, TypeOK

LEMMA Inductive == Spec => []IInv
<1>1. Init => IInv
  BY ConstantsAssumption, NoEntryTypes
     DEF Init, IInv, TypeOK, Values, Facts, CreateCallInv, CreatePollInv, EntryOpInv,
         DeleteCallInv, ForeignInv, Tracked
<1>2. TypeOK /\ Facts /\ [Next]_vars => Facts'
  <2>1. TypeOK /\ Facts /\ Next => Facts'
    BY StartKeeps, CreateKeeps, RefreshKeeps, DeleteKeeps, BackendKeeps
       DEF Next, Continue, Expire
  <2>2. Facts /\ UNCHANGED vars => Facts'
    BY DEF Facts, CreateCallInv, CreatePollInv, EntryOpInv, DeleteCallInv, ForeignInv, Tracked,
           vars, remoteVars, callVars, historyVars
  <2> QED
    BY <2>1, <2>2
<1>3. Init => Facts
  BY <1>1 DEF IInv
<1>4. IInv <=> TypeOK /\ Facts
  BY DEF IInv
<1> QED
  BY <1>2, <1>3, <1>4, TypeCorrect, PTL DEF Spec

\* Whatever fails, nothing created is lost from the Terraform state, unless a
\* Read that lags takes it for gone.
THEOREM CreatedIsTracked == Spec => []NothingLost
<1>1. IInv => NothingLost
  BY DEF IInv, Facts, Tracked, NothingLost
<1> QED
  BY <1>1, Inductive, PTL

\* A failed adoption never condemns another client's object.
THEOREM ForeignIsSpared == Spec => []ForeignNotTainted
<1>1. IInv => ForeignNotTainted
  BY DEF IInv, Facts, ForeignInv, ForeignNotTainted
<1> QED
  BY <1>1, Inductive, PTL

\* Only a resource with a delete poller has objects that linger.
LingerInv ==
  resource \in Resources
  /\ (~ resource.deleteState => \A o \in Objects : remote[o] \in Live \cup {"absent"})

LEMMA NothingLingers == Spec => []LingerInv
<1>1. Init => LingerInv
  BY DEF Init, LingerInv
<1>2. TypeOK /\ LingerInv /\ [Next]_vars => LingerInv'
  <2>1. TypeOK /\ LingerInv /\ Start => LingerInv'
    BY DEF LingerInv, Start, StartCreate, StartRead, StartUpdate, StartDelete, StartImport, Begin,
           remoteVars
  <2>2. ASSUME TypeOK, LingerInv, Continue \/ Expire PROVE LingerInv'
    <3>1. resource' = resource
      BY <2>2 DEF Continue, Expire, CreateAccepted, CreateLost, CreateConflict, CreateFails,
                  AlreadyExists, RefreshReads, RefreshReadFails, RefreshExpires, RefreshError,
                  ReadFound, ReadFails, UpdateAccepted, UpdateFails, DeleteAccepted, DeleteFails,
                  DeleteCalled, PollDelete, DeletePollReads, DeletePollFails, DeleteExpires,
                  StartPolling, Succeed, Fail, End
    <3>2. \/ remote' = remote
          \/ TearDown \/ Rebuild
          \/ \E o \in Objects : Make(o)
      BY <2>2 DEF Continue, Expire, CreateAccepted, CreateLost, CreateConflict, CreateFails,
                  RefreshReads, RefreshReadFails, RefreshExpires, ReadFound, ReadFails,
                  UpdateAccepted, UpdateFails, DeleteAccepted, DeleteFails, DeleteError,
                  DeleteCalled, DeletePollReads, DeletePollFails, DeleteExpires, remoteVars
    <3> QED
      BY <2>2, <3>1, <3>2 DEF LingerInv, TearDown, Rebuild, Make, TypeOK, Live, remoteVars
  <2>3. ASSUME TypeOK, LingerInv, Backend \/ Others PROVE LingerInv'
    BY <2>3, ConstantsAssumption
       DEF Backend, Others, Settle, Detach, Converge, Attach, OutsiderCreates, OutsiderDeletes,
           Become, adapterVars, LingerInv, TypeOK, Live
  <2>4. LingerInv /\ UNCHANGED vars => LingerInv'
    BY DEF LingerInv, vars, remoteVars
  <2> QED
    BY <2>1, <2>2, <2>3, <2>4 DEF Next
<1> QED
  BY <1>1, <1>2, TypeCorrect, PTL DEF Spec

\* A Delete that succeeds in one of its attempts, and does not overlook its
\* object, leaves nothing behind, whatever fails.
THEOREM DeleteIsFinal == Spec => AttemptDeletes
<1> DEFINE Gone == DeleteSucceeds /\ Attempting => GoneOrDeleted
<1>1. IInv /\ LingerInv /\ [Next]_vars => [Gone]_vars
  <2> SUFFICES ASSUME TypeOK, Facts, LingerInv, Next, DeleteSucceeds, Attempting
               PROVE  remote'[data] \in {"absent"} \cup resource.deleted
    BY DEF IInv, GoneOrDeleted
  <2> USE DEF DeleteSucceeds
  <2>1. data \in Objects /\ data # NoObject /\ remote[data] \in Values \cup {"absent"}
    BY ConstantsAssumption DEF Facts, EntryOpInv, TypeOK
  <2>2. CASE DeleteAccepted
    BY <2>1, <2>2 DEF DeleteAccepted, TearDown, TypeOK
  <2>3. ASSUME NEW o \in Objects, DeletePollReads(o)
        PROVE  remote'[data] \in {"absent"} \cup resource.deleted
    <3>1. o = data
      BY <2>1, <2>3, VisibleTypes DEF DeletePollReads
    <3> QED
      BY <2>3, <3>1 DEF DeletePollReads, remoteVars
  <2>4. ASSUME NEW e \in ReadErrors, DeletePollFails(e)
        PROVE  remote'[data] \in {"absent"} \cup resource.deleted
    <3>1. e = "notFound" /\ Visible = {} /\ remote' = remote /\ polling
      BY <2>4 DEF DeletePollFails, DeletePolling, ReadError, Fail, End, remoteVars
    <3>2. data \notin hidden
      BY <3>1 DEF Attempting
    <3> QED
      BY <2>1, <3>1, <3>2 DEF Visible, Matches
  <2>5. ASSUME NEW e \in DeleteErrors, DeleteFails(e)
        PROVE  remote'[data] \in {"absent"} \cup resource.deleted
    <3>1. remote[data] \notin Live /\ ~ resource.deleteState /\ remote' = remote
      BY <2>5 DEF DeleteFails, DeleteError, Fail, End, remoteVars
    <3> QED
      BY <2>1, <3>1 DEF LingerInv
  <2>6. DeleteAccepted \/ (\E o \in Objects : DeletePollReads(o))
          \/ (\E e \in ReadErrors : DeletePollFails(e)) \/ (\E e \in DeleteErrors : DeleteFails(e))
    <3>1. ~ Start
      BY DEF Start, StartCreate, StartRead, StartUpdate, StartDelete, StartImport, Begin
    <3>2. ~ Backend /\ ~ Others
      BY DEF Backend, Others, Settle, Detach, Converge, Attach, OutsiderCreates, OutsiderDeletes,
             Become, adapterVars, callVars
    <3>3. ~ Expire
      BY DEF Expire, RefreshExpires, DeleteExpires, Refreshing, Attempting, Fail, End
    <3>4. ~ DeleteCalled
      BY DEF DeleteCalled, PollDelete
    <3> QED
      BY <3>1, <3>2, <3>3, <3>4
         DEF Next, Continue, CreateAccepted, CreateLost, CreateConflict, CreateFails, Creating,
             RefreshReads, RefreshReadFails, Refreshing, ReadFound, ReadFails, Reading,
             UpdateAccepted, UpdateFails, Updating
  <2> QED
    BY <2>2, <2>3, <2>4, <2>5, <2>6
<1>2. [][Gone]_vars => AttemptDeletes
  BY PTL DEF AttemptDeletes
<1> QED
  BY <1>1, <1>2, Inductive, NothingLingers, PTL DEF Spec

-----------------------------------------------------------------------------
(* Without faults.                                                         *)

NothingStands == \A o \in Objects : remote[o] \in {"absent", "deleted"}

StandsAlone(o) ==
  /\ remote[o] \in {"building", "active"}
  /\ \A p \in Objects \ {o} : remote[p] \in {"absent", "deleted"}

\* Which objects there are, while nothing goes wrong: the one in the state, the
\* one being created, or none.  Only the Create that polls it may not find it.
PeaceInv ==
  /\ result # "error"
  /\ resource.idFrom = "read" => \A o \in Objects : remote[o] # "deleted"
  /\ ~ resource.deleteState => ~ attached
  /\ op = "create" /\ ~ polling => NothingStands /\ data = NoObject
  /\ ~ (op = "create" /\ polling) => hidden = {}
  /\ op = "create" /\ polling =>
       \E o \in Objects :
         /\ StandsAlone(o) /\ hidden \subseteq {o}
         /\ data = o \/ (data = NoObject /\ resource.idFrom = "read")
  /\ op = "none" /\ entry = NoEntry => NothingStands
  /\ op \in {"none", "read", "update"} /\ entry # NoEntry => StandsAlone(entry.id)
  /\ op \in {"read", "update", "delete"} => entry # NoEntry
  /\ op = "delete" =>
       /\ \A p \in Objects \ {entry.id} : remote[p] \in {"absent", "deleted"}
       /\ ~ resource.deleteState => StandsAlone(entry.id)

LEMMA FriendlyFaults ==
  ASSUME Friendly
  PROVE  /\ resource.faults \cap {"apiError", "lostReply", "expiry", "buildError", "outsiders"} = {}
         /\ "dependents" \in resource.faults => resource.deleteState
         /\ "lag" \in resource.faults => resource.refreshState
BY DEF Friendly

LEMMA ResourceKept == [Next]_vars => resource' = resource
BY DEF Next, vars, Start, StartCreate, StartRead, StartUpdate, StartDelete, StartImport, Begin,
       Continue, Expire, CreateAccepted, CreateLost, CreateConflict, CreateFails,
       AlreadyExists, RefreshReads, RefreshReadFails, RefreshExpires, RefreshError,
       ReadFound, ReadFails, UpdateAccepted, UpdateFails, DeleteAccepted, DeleteFails,
       DeleteCalled, PollDelete, DeletePollReads, DeletePollFails, DeleteExpires,
       StartPolling, Succeed, Fail, End, Backend, Others, Settle, Detach, Converge, Attach,
       OutsiderCreates, OutsiderDeletes, Become, adapterVars

LEMMA StartIsPeaceful ==
  ASSUME TypeOK, Facts, PeaceInv, Start
  PROVE  PeaceInv'
<1> USE DEF PeaceInv, Begin, remoteVars, NothingStands, StandsAlone
<1>1. CASE StartCreate
  BY <1>1 DEF StartCreate
<1>2. ASSUME NEW o \in Objects, StartImport(o) PROVE FALSE
  BY <1>2 DEF StartImport, Live
<1>3. CASE StartRead \/ StartUpdate \/ StartDelete
  BY <1>3 DEF StartRead, StartUpdate, StartDelete
<1> QED
  BY <1>1, <1>2, <1>3 DEF Start

LEMMA CreateIsPeaceful ==
  ASSUME TypeOK, Facts, PeaceInv, Friendly, Sensible(resource),
         (\E o \in Objects : CreateAccepted(o) \/ CreateLost(o)) \/ CreateConflict \/ CreateFails
  PROVE  PeaceInv'
<1>1. op = "create" /\ ~ polling /\ NothingStands /\ data = NoObject
  BY DEF CreateAccepted, CreateLost, CreateConflict, CreateFails, Creating, PeaceInv
<1>2. PICK o \in Objects : CreateAccepted(o)
  BY <1>1, FriendlyFaults, ConstantsAssumption
  DEF CreateLost, CreateConflict, CreateFails, Free, NothingStands
<1>3. Make(o) /\ (resource.idFrom = "read" => resource.refreshState)
  BY <1>2, ConstantsAssumption DEF CreateAccepted, TypeOK
<1>4. StandsAlone(o)' /\ attached' = attached
  BY <1>1, <1>3 DEF Make, NothingStands, StandsAlone, TypeOK
<1>5. \A p \in Objects : remote'[p] = "deleted" => remote[p] = "deleted"
  BY <1>3 DEF Make, TypeOK
<1>6. hidden' \subseteq {o} /\ (~ resource.refreshState => hidden' = {})
  BY <1>1, <1>3, FriendlyFaults DEF Make, PeaceInv
<1>7. CASE resource.refreshState
  <2>1. StartPolling(KnownID(o), Checkpoint(KnownID(o)), TRUE)
    BY <1>2, <1>7 DEF CreateAccepted
  <2>2. /\ op' = "create" /\ polling' /\ result' = result /\ resource' = resource
        /\ data' = o \/ (data' = NoObject /\ resource.idFrom = "read")
    BY <1>1, <2>1 DEF StartPolling, KnownID
  <2> QED
    BY <1>4, <1>5, <1>6, <2>2 DEF PeaceInv, StandsAlone
<1>8. CASE ~ resource.refreshState
  <2>1. Succeed(Kept(o), o)
    BY <1>2, <1>8 DEF CreateAccepted
  <2>2. entry' # NoEntry /\ entry'.id = o /\ op' = "none" /\ result' = "ok" /\ resource' = resource
    BY <2>1, EntryTypes DEF Succeed, End
  <2> QED
    BY <1>4, <1>5, <1>6, <1>8, <2>2 DEF PeaceInv, StandsAlone
<1> QED
  BY <1>7, <1>8

LEMMA AtMostOne ==
  ASSUME NEW S, NEW e, S \subseteq {e}
  PROVE  ~ Cardinality(S) > 1
<1>1. CASE S = {}
  BY <1>1, FS_EmptySet
<1>2. CASE S = {e}
  <2>1. Cardinality({e}) = 1
    BY FS_Singleton
  <2> QED
    BY <1>2, <2>1
<1> QED
  BY <1>1, <1>2

\* The only object there is, if any, is what Read finds.
LEMMA ReadFindsIt ==
  ASSUME TypeOK, Facts, PeaceInv, Refreshing \/ op \in {"read", "delete"}
  PROVE  /\ Visible \subseteq Objects
         /\ ~ Cardinality(Visible) > 1
         /\ \A o \in Visible :
              \/ op = "delete" /\ o = entry.id
              \/ op # "delete" /\ StandsAlone(o)
         /\ op \in {"read", "delete", "update"} => data = entry.id /\ data \in Objects
  <1>1. CASE op = "create"
    <2>1. PICK o \in Objects :
            StandsAlone(o) /\ (data = o \/ (data = NoObject /\ resource.idFrom = "read"))
      BY <1>1 DEF PeaceInv, Refreshing
    <2>2. Visible \subseteq {o}
      BY <1>1, <2>1, ConstantsAssumption DEF Visible, Matches, StandsAlone, PeaceInv
    <2>3. Visible = {} \/ Visible = {o}
      BY <2>2
    <2>4. ~ Cardinality(Visible) > 1
      BY <2>2, AtMostOne
    <2> QED
      BY <1>1, <2>1, <2>3, <2>4
  <1>2. CASE op \in {"read", "update", "delete"}
    <2>1. data \in Objects /\ data # NoObject /\ entry.id = data
      BY <1>2, ConstantsAssumption DEF Facts, EntryOpInv, PeaceInv
    <2>2. Visible = {} \/ Visible = {data}
      BY <2>1 DEF Visible, Matches
    <2>3. ~ Cardinality(Visible) > 1
      BY <2>2, AtMostOne
    <2>4. op # "delete" => \A o \in Visible : StandsAlone(o)
      BY <1>2, <2>1, <2>2 DEF PeaceInv
    <2> QED
      BY <1>2, <2>1, <2>2, <2>3, <2>4
  <1> QED
    BY <1>1, <1>2 DEF Refreshing

LEMMA RefreshIsPeaceful ==
  ASSUME TypeOK, Facts, PeaceInv, Friendly, Sensible(resource),
         \/ \E o \in Objects : RefreshReads(o) \/ ReadFound(o)
         \/ \E e \in ReadErrors : RefreshReadFails(e) \/ ReadFails(e)
         \/ UpdateAccepted \/ UpdateFails \/ RefreshExpires
  PROVE  PeaceInv'
<1>1. ASSUME NEW o \in Objects, RefreshReads(o) PROVE PeaceInv'
  <2>1. Refreshing /\ Visible = {o} /\ UNCHANGED remoteVars
    BY <1>1 DEF RefreshReads
  <2>2. StandsAlone(o)
    BY <2>1, ReadFindsIt DEF Refreshing
  <2>3. Judge(remote[o]) # "failed"
    BY <2>2 DEF Judge, Sensible, StandsAlone
  <2>4. CASE Succeed(Kept(o), o)
    <3>1. /\ op' = "none" /\ result' = "ok" /\ entry' # NoEntry /\ entry'.id = o
          /\ resource' = resource
      BY <2>4, EntryTypes DEF Succeed, End
    <3>2. hidden = {}
      BY <2>1, <2>2 DEF PeaceInv, StandsAlone, Refreshing, Visible
    <3> QED
      BY <2>1, <2>2, <3>1, <3>2 DEF PeaceInv, StandsAlone, remoteVars
  <2>5. CASE RefreshError("notDesired", o)
    <3>1. data' = o /\ UNCHANGED <<resource, entry, op, polling, result>>
      BY <2>5 DEF RefreshError, IsRefreshStateRetryable
    <3> QED
      BY <2>1, <2>2, <3>1 DEF PeaceInv, StandsAlone, NothingStands, Refreshing, remoteVars
  <2>6. Judge(remote[o]) \in {"ok", "notDesired", "failed"}
    BY <2>2, ConstantsAssumption DEF Judge, TypeOK, StandsAlone, ResourceOptions, Values
  <2> QED
    BY <1>1, <2>3, <2>4, <2>5, <2>6 DEF RefreshReads
<1>2. ASSUME NEW e \in ReadErrors, RefreshReadFails(e) PROVE PeaceInv'
  <2>1. Refreshing /\ ReadError(e) /\ RefreshError(e, data) /\ UNCHANGED remoteVars
    BY <1>2 DEF RefreshReadFails
  <2>2. e \in {"notFound", "forbidden"}
    BY <2>1, FriendlyFaults, ReadFindsIt DEF ReadError
  <2>3. UNCHANGED <<data, resource, entry, op, polling, result>>
    BY <2>1, <2>2 DEF RefreshError, IsRefreshStateRetryable
  <2> QED
    BY <2>1, <2>3 DEF PeaceInv, StandsAlone, NothingStands, remoteVars
<1>3. ASSUME NEW o \in Objects, ReadFound(o) PROVE PeaceInv'
  <2>1. op = "read" /\ entry # NoEntry /\ UNCHANGED remoteVars
    BY <1>3 DEF ReadFound, Reading, PeaceInv
  <2>2. op' = "none" /\ result' = "ok" /\ entry' = entry /\ resource' = resource
    BY <1>3, <2>1 DEF ReadFound, Succeed, End
  <2> QED
    BY <2>1, <2>2 DEF PeaceInv, StandsAlone, remoteVars
<1>4. ASSUME NEW e \in ReadErrors, ReadFails(e) PROVE FALSE
  <2>1. op = "read" /\ ReadError(e) /\ entry # NoEntry /\ hidden = {}
    BY <1>4 DEF ReadFails, Reading, PeaceInv, Facts, EntryOpInv
  <2>2. Visible = {}
    BY <2>1, FriendlyFaults, ReadFindsIt DEF ReadError
  <2>3. data = entry.id /\ data \in Objects /\ StandsAlone(data)
    BY <2>1, ReadFindsIt DEF PeaceInv
  <2> QED
    BY <2>1, <2>2, <2>3, ConstantsAssumption DEF Visible, Matches, StandsAlone
<1>5. CASE UpdateAccepted
  <2>1. op = "update" /\ entry # NoEntry /\ data = entry.id /\ data \in Objects /\ StandsAlone(data)
    BY <1>5 DEF UpdateAccepted, Updating, PeaceInv, Facts, EntryOpInv
  <2>2. PICK o \in Objects : o = entry.id
    BY <2>1
  <2>3. UNCHANGED <<hidden, attached>> /\ StandsAlone(o)'
    BY <1>5, <2>1, <2>2 DEF UpdateAccepted, Rebuild, StandsAlone, TypeOK, remoteVars
  <2>4. \A p \in Objects : remote'[p] = "deleted" => remote[p] = "deleted"
    BY <1>5, <2>1 DEF UpdateAccepted, Rebuild, TypeOK, remoteVars
  <2>5. /\ op' \in {"none", "update"} /\ entry' = entry /\ resource' = resource
        /\ result' # "error"
    BY <1>5, <2>1 DEF UpdateAccepted, StartPolling, Succeed, End, PeaceInv
  <2> QED
    BY <2>1, <2>2, <2>3, <2>4, <2>5 DEF PeaceInv, StandsAlone
<1>6. CASE UpdateFails
  <2>1. op = "update" /\ entry # NoEntry /\ data = entry.id /\ StandsAlone(data)
    BY <1>6 DEF UpdateFails, Updating, PeaceInv, Facts, EntryOpInv
  <2> QED
    BY <1>6, <2>1, FriendlyFaults DEF UpdateFails, StandsAlone, Live
<1>7. ~ RefreshExpires
  BY FriendlyFaults DEF RefreshExpires
<1> QED
  BY <1>1, <1>2, <1>3, <1>4, <1>5, <1>6, <1>7

LEMMA DeleteIsPeaceful ==
  ASSUME TypeOK, Facts, PeaceInv, Friendly, Sensible(resource),
         \/ DeleteAccepted \/ DeleteCalled \/ DeleteExpires
         \/ \E e \in DeleteErrors : DeleteFails(e)
         \/ \E o \in Objects : DeletePollReads(o)
         \/ \E e \in ReadErrors : DeletePollFails(e)
  PROVE  PeaceInv'
<1>1. op = "delete"
  BY DEF DeleteAccepted, DeleteCalled, DeleteExpires, DeleteFails, DeletePollReads,
         DeletePollFails, Deleting, DeletePolling
<1>2. /\ data = entry.id /\ data \in Objects /\ hidden = {} /\ data # NoObject /\ entry # NoEntry
      /\ \A o \in Objects \ {data} : remote[o] \in {"absent", "deleted"}
  BY <1>1, ConstantsAssumption DEF PeaceInv, Facts, EntryOpInv
<1>3. Visible = {data} \ {o \in {data} : remote[o] = "absent"}
  BY <1>2 DEF Visible, Matches
\* The delete succeeds: the object is gone.
<1>4. ASSUME Succeed(NoEntry, data), NothingStands', UNCHANGED <<hidden, attached>>,
             \A o \in Objects : remote'[o] = "deleted" => remote[o] = "deleted"
      PROVE  PeaceInv'
  BY <1>2, <1>4 DEF Succeed, End, PeaceInv
<1>5. CASE DeleteAccepted
  <2>1. NothingStands' /\ \A o \in Objects : remote'[o] = "deleted" => remote[o] = "deleted"
    BY <1>2, <1>5 DEF DeleteAccepted, TearDown, NothingStands, TypeOK
  <2> QED
    BY <1>4, <1>5, <2>1 DEF DeleteAccepted, TearDown
<1>6. ~ \E e \in DeleteErrors : DeleteFails(e)
  BY <1>1, <1>2, FriendlyFaults
  DEF DeleteFails, DeleteError, DeleteErrors, PeaceInv, StandsAlone, Live
<1>7. CASE DeleteCalled
  <2>1. /\ UNCHANGED <<resource, entry, op, result, hidden, attached>> /\ resource.deleteState
        /\ remote' = remote \/ remote' = [remote EXCEPT ![data] = "deleting"]
    BY <1>7 DEF DeleteCalled, DeleteError, PollDelete, TearDown, remoteVars
  <2>2. \A o \in Objects : o # data => remote'[o] = remote[o]
    BY <2>1 DEF TypeOK
  <2>3. \A o \in Objects : remote'[o] = "deleted" => remote[o] = "deleted"
    BY <2>1 DEF TypeOK
  <2> QED
    BY <1>1, <1>2, <2>1, <2>2, <2>3 DEF PeaceInv
<1>8. ASSUME NEW o \in Objects, DeletePollReads(o) PROVE PeaceInv'
  <2>1. o = data /\ UNCHANGED remoteVars
    BY <1>3, <1>8 DEF DeletePollReads
  <2>2. CASE remote[o] \in resource.deleted
    <3>1. remote[data] = "deleted"
      BY <2>1, <2>2, ConstantsAssumption DEF TypeOK
    <3> QED
      BY <1>2, <1>4, <1>8, <2>1, <2>2, <3>1 DEF DeletePollReads, NothingStands, remoteVars
  <2>3. CASE remote[o] \notin resource.deleted
    <3>1. UNCHANGED <<resource, entry, op, result>>
      BY <1>8, <2>3 DEF DeletePollReads
    <3> QED
      BY <1>1, <2>1, <3>1 DEF PeaceInv, StandsAlone, remoteVars
  <2> QED
    BY <2>2, <2>3
<1>9. ASSUME NEW e \in ReadErrors, DeletePollFails(e) PROVE PeaceInv'
  <2>1. e = "notFound" /\ Visible = {}
    BY <1>1, <1>2, <1>9, FriendlyFaults, ReadFindsIt DEF DeletePollFails, ReadError
  <2>2. remote[data] = "absent"
    BY <1>3, <2>1
  <2> QED
    BY <1>2, <1>4, <1>9, <2>1, <2>2 DEF DeletePollFails, NothingStands, remoteVars
<1>10. ~ DeleteExpires
  BY FriendlyFaults DEF DeleteExpires
<1> QED
  BY <1>5, <1>6, <1>7, <1>8, <1>9, <1>10

LEMMA BackendIsPeaceful ==
  ASSUME TypeOK, Facts, PeaceInv, Friendly, Sensible(resource), Backend \/ Others
  PROVE  PeaceInv'
<1>1. UNCHANGED adapterVars
  BY DEF Backend, Others, Settle, Detach, Converge, Attach, OutsiderCreates, OutsiderDeletes,
         Become
<1>2. UNCHANGED <<resource, entry, op, polling, data, result>>
  BY <1>1 DEF adapterVars, callVars
<1>3. ~ OutsiderCreates /\ \A o \in Objects : ~ OutsiderDeletes(o)
  BY FriendlyFaults DEF OutsiderCreates, OutsiderDeletes
<1>4. ~ resource.deleteState => ~ attached'
  BY <1>3, FriendlyFaults DEF Backend, Others, Settle, Detach, Converge, Attach, Become, PeaceInv
<1>5. \A o \in Objects :
        /\ remote[o] \in {"absent", "deleted"} => remote'[o] \in {"absent", "deleted"}
        /\ remote[o] \in {"building", "active"} => remote'[o] \in {"building", "active"}
        /\ remote'[o] = "deleted" => remote[o] = "deleted" \/ resource.deleted # {}
  BY <1>3, FriendlyFaults DEF Backend, Others, Settle, Detach, Converge, Attach, Become, TypeOK
<1>6. hidden' \subseteq hidden
  BY <1>3 DEF Backend, Others, Settle, Detach, Converge, Attach, Become
<1> QED
  BY <1>2, <1>4, <1>5, <1>6, ConstantsAssumption
  DEF PeaceInv, NothingStands, StandsAlone, Sensible, TypeOK, Entries

\* While the backend only lags, converges and refuses for a while to delete, no
\* operation fails: retries, adoption of what Read finds and the two pollers of
\* resource.go absorb all of it.
THEOREM FriendlyOperationsSucceed ==
  ASSUME \A r \in Resources : Sensible(r)
  PROVE  Spec => []NothingFails
<1> DEFINE Peaceful == Friendly => PeaceInv
<1>1. Init => Peaceful
  BY DEF Init, PeaceInv, NothingStands, StandsAlone
<1>2. IInv /\ Peaceful /\ [Next]_vars => Peaceful'
  <2> SUFFICES ASSUME TypeOK, Facts, Peaceful, [Next]_vars, Friendly'
               PROVE  PeaceInv'
    BY DEF IInv
  <2>1. Friendly /\ PeaceInv /\ Sensible(resource)
    BY ResourceKept DEF Friendly, TypeOK
  <2>2. CASE UNCHANGED vars
    BY <2>1, <2>2 DEF PeaceInv, NothingStands, StandsAlone, vars, remoteVars, callVars
  <2>3. CASE Start
    BY <2>1, <2>3, StartIsPeaceful
  <2>4. CASE Continue \/ Expire
    BY <2>1, <2>4, CreateIsPeaceful, RefreshIsPeaceful, DeleteIsPeaceful DEF Continue, Expire
  <2>5. CASE Backend \/ Others
    BY <2>1, <2>5, BackendIsPeaceful
  <2> QED
    BY <2>2, <2>3, <2>4, <2>5 DEF Next
<1>3. Peaceful => NothingFails
  BY DEF PeaceInv, NothingFails
<1> QED
  BY <1>1, <1>2, <1>3, Inductive, PTL DEF Spec
=============================================================================
