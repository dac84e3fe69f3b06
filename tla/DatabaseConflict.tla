--------------------------- MODULE DatabaseConflict ---------------------------
(***************************************************************************)
(* The conflict check of databases: internal/schemautil/database.go, with  *)
(* the aiven_pg_database resource that uses it and CheckServiceIsPowered.  *)
(* For one service: the process remembers whether it is powered on and     *)
(* that its databases have been listed (one DoOnce each), and the names it *)
(* has seen; Create, Read and Delete calls run concurrently.  Keys of      *)
(* other services never meet these.  The service itself exists and keeps   *)
(* its power state throughout.                                             *)
(***************************************************************************)
EXTENDS Naturals, FiniteSets

CONSTANTS
  Calls,        \* the operations the Terraform graph runs in this process
  NoCall,
  Databases,    \* database names, ordered as the API lists them
  Scripts,      \* the jobs the calls may be given
  PageSize,     \* serviceDatabaseListPageSize
  MaxAttempts,  \* attempts of WaitUntilNotFound
  Faulty        \* whether API calls may fail

Jobs == [op : {"Create", "Read", "Delete"}, database : Databases]

ASSUME ConstantsAssumption ==
  /\ NoCall \notin Calls
  /\ IsFiniteSet(Calls)
  /\ Databases \subseteq Nat \ {0}
  /\ IsFiniteSet(Databases)
  /\ Scripts \subseteq [Calls -> Jobs]
  /\ PageSize \in Nat \ {0}
  /\ MaxAttempts \in Nat \ {0}
  /\ Faulty \in BOOLEAN

-----------------------------------------------------------------------------
VARIABLES
  job,           \* what each call does
  pc,            \* where each call is
  result,        \* what each call returned
  powerMutex,    \* servicePoweredOff: the mutex and the result of its key
  powerKept,
  listMutex,     \* serviceDatabaseList: the same
  listKept,
  seen,          \* seenDatabases
  listed,        \* the names a call has got so far from ServiceDatabaseList
  cursor,        \* the last name of its last page
  attempt,       \* its attempt of WaitUntilNotFound
  remote,        \* the databases of the service
  dropping,      \* those the backend is about to drop
  powered,       \* whether the service is on
  steady         \* the databases that have existed since the call's listing began

callVars == <<job, pc, result>>
onceVars == <<powerMutex, powerKept, listMutex, listKept>>
listVars == <<listed, cursor, attempt>>
remoteVars == <<remote, dropping, powered>>
vars == <<callVars, onceVars, seen, listVars, remoteVars, steady>>

Power == INSTANCE DoOnce
  WITH Callers <- Calls, NoCaller <- NoCall, Results <- {"on", "off", "error"},
       NoResult <- "none", mutex <- powerMutex, kept <- powerKept

List == INSTANCE DoOnce
  WITH Callers <- Calls, NoCaller <- NoCall, Results <- {"ok", "error"},
       NoResult <- "none", mutex <- listMutex, kept <- listKept

Op(c) == job[c].op
Database(c) == job[c].database

PCs == {"ready", "powering", "powered", "listing", "listed", "publish", "mark", "create",
        "wait", "forget", "done"}
Errors == {"poweredOff", "error", "exists", "conflict", "createError", "notfound"}

TypeOK ==
  /\ job \in [Calls -> Jobs]
  /\ pc \in [Calls -> PCs]
  /\ result \in [Calls -> Errors \cup {"none", "ok"}]
  /\ Power!TypeOK
  /\ List!TypeOK
  /\ seen \subseteq Databases
  /\ listed \in [Calls -> SUBSET Databases]
  /\ cursor \in [Calls -> Databases \cup {0}]
  /\ attempt \in [Calls -> 0..MaxAttempts]
  /\ dropping \subseteq remote
  /\ remote \subseteq Databases
  /\ powered \in BOOLEAN
  /\ steady \in [Calls -> SUBSET Databases]

Init ==
  /\ job \in Scripts
  /\ pc = [c \in Calls |-> "ready"]
  /\ result = [c \in Calls |-> "none"]
  /\ Power!Init
  /\ List!Init
  /\ seen = {}
  /\ listed = [c \in Calls |-> {}]
  /\ cursor = [c \in Calls |-> 0]
  /\ attempt = [c \in Calls |-> 0]
  /\ remote \in SUBSET Databases
  /\ dropping = {}
  /\ powered \in BOOLEAN
  /\ steady = [c \in Calls |-> {}]

Goto(c, place) ==
  /\ pc' = [pc EXCEPT ![c] = place]
  /\ UNCHANGED <<job, result>>

Return(c, value) ==
  /\ pc' = [pc EXCEPT ![c] = "done"]
  /\ result' = [result EXCEPT ![c] = value]
  /\ UNCHANGED job

\* Mutant of Retry: one attempt too many.
RetryOnceMore(c) ==
  IF attempt[c] <= MaxAttempts
  THEN Goto(c, "wait") /\ attempt' = [attempt EXCEPT ![c] = @ + 1]
  ELSE Return(c, "error") /\ UNCHANGED attempt

\* Mutant of Retry: running out of attempts counts as success.
RetryAssume(c) ==
  IF attempt[c] < MaxAttempts
  THEN Goto(c, "wait") /\ attempt' = [attempt EXCEPT ![c] = @ + 1]
  ELSE Goto(c, "forget") /\ UNCHANGED attempt

\* An attempt of Delete to see its database gone has failed.
Retry(c) ==
  IF attempt[c] < MaxAttempts
  THEN Goto(c, "wait") /\ attempt' = [attempt EXCEPT ![c] = @ + 1]
  ELSE Return(c, "error") /\ UNCHANGED attempt

\* A step before the point of the operation went wrong.
GiveUp(c, error) ==
  IF Op(c) = "Delete" THEN Retry(c) ELSE Return(c, error) /\ UNCHANGED attempt

-----------------------------------------------------------------------------
(* CheckServiceIsPowered, which Create and Read start with, and each       *)
(* attempt of Delete's waiter.                                             *)

AsksPower(c) == pc[c] = (IF Op(c) = "Delete" THEN "wait" ELSE "ready")

AfterPower(c, state) ==
  CASE state = "on"  -> Goto(c, "powered") /\ UNCHANGED attempt
    [] state = "off" -> GiveUp(c, "poweredOff")
    [] OTHER         -> GiveUp(c, "error")

PowerKnown(c) ==
  /\ AsksPower(c)
  /\ Power!Hit(powerKept)
  /\ AfterPower(c, powerKept)
  /\ UNCHANGED <<listMutex, listKept, seen, listed, cursor, remoteVars>>

PowerAsked(c) ==
  /\ AsksPower(c)
  /\ Power!Enter(c)
  /\ Goto(c, "powering")
  /\ UNCHANGED <<listMutex, listKept, seen, listVars, remoteVars>>

\* ServiceGet answers.
PowerAnswered(c) ==
  /\ pc[c] = "powering"
  /\ \E state \in {IF powered THEN "on" ELSE "off"} \cup (IF Faulty THEN {"error"} ELSE {}) :
       Power!Leave(c, state) /\ AfterPower(c, state)
  /\ UNCHANGED <<listMutex, listKept, seen, listed, cursor, remoteVars>>

-----------------------------------------------------------------------------
(* ListServiceDatabases: one page per step.                                *)

ListingStarts(c) ==
  /\ Goto(c, "listing")
  /\ listed' = [listed EXCEPT ![c] = {}]
  /\ cursor' = [cursor EXCEPT ![c] = 0]
  /\ UNCHANGED attempt

StartListing(c) ==
  /\ pc[c] = "powered"
  /\ Op(c) # "Create"
  /\ ListingStarts(c)
  /\ UNCHANGED <<onceVars, seen, remoteVars>>

After(name) == {d \in remote : d > name}

\* The first PageSize names after the cursor.
Page(name) ==
  {d \in After(name) : Cardinality({e \in After(name) : e <= d}) <= PageSize}

Last(names) == CHOOSE d \in names : \A e \in names : e <= d

\* Mutant of NextPage: one page only.
NextPageNone(c) ==
  /\ listed' = [listed EXCEPT ![c] = @ \cup Page(cursor[c])]
  /\ Goto(c, "listed")
  /\ UNCHANGED cursor

\* The page is added; its last name is the cursor of the next one, if any.
NextPage(c) ==
  /\ listed' = [listed EXCEPT ![c] = @ \cup Page(cursor[c])]
  /\ IF Page(cursor[c]) = After(cursor[c])
     THEN Goto(c, "listed") /\ UNCHANGED cursor
     ELSE /\ cursor' = [cursor EXCEPT ![c] = Last(Page(cursor[c]))]
          /\ UNCHANGED callVars

ListPage(c) ==
  /\ pc[c] = "listing"
  /\ powered
  /\ NextPage(c)
  /\ UNCHANGED <<onceVars, seen, attempt, remoteVars>>

\* Mutant of ListFails: the error leaves the listing, but not the mutex.
ListFailsHeld(c) ==
  /\ pc[c] = "listing"
  /\ Faulty \/ ~ powered
  /\ GiveUp(c, "error")
  /\ UNCHANGED <<onceVars, seen, listed, cursor, remoteVars>>

\* ServiceDatabaseList fails, on any page; the names got so far are dropped.
\* Create keeps the error for every later Create.
ListFails(c) ==
  /\ pc[c] = "listing"
  /\ Faulty \/ ~ powered
  /\ GiveUp(c, "error")
  /\ IF Op(c) = "Create" THEN List!Leave(c, "error") ELSE UNCHANGED <<listMutex, listKept>>
  /\ UNCHANGED <<powerMutex, powerKept, seen, listed, cursor, remoteVars>>

\* Read and Delete's waiter look for their name.
Look(c) ==
  /\ pc[c] = "listed"
  /\ \/ /\ Op(c) = "Read"
        /\ Return(c, IF Database(c) \in listed[c] THEN "ok" ELSE "notfound")
        /\ UNCHANGED attempt
     \/ /\ Op(c) = "Delete"
        /\ IF Database(c) \in listed[c] THEN Retry(c) ELSE Goto(c, "forget") /\ UNCHANGED attempt
  /\ UNCHANGED <<onceVars, seen, listed, cursor, remoteVars>>

-----------------------------------------------------------------------------
(* The rest of CheckDbConflict, and Create.                                *)

ListKnown(c) ==
  /\ pc[c] = "powered"
  /\ Op(c) = "Create"
  /\ List!Hit(listKept)
  /\ IF listKept = "ok" THEN Goto(c, "mark") ELSE Return(c, "error")
  /\ UNCHANGED <<powerMutex, powerKept, seen, listVars, remoteVars>>

ListAsked(c) ==
  /\ pc[c] = "powered"
  /\ Op(c) = "Create"
  /\ List!Enter(c)
  /\ ListingStarts(c)
  /\ UNCHANGED <<powerMutex, powerKept, seen, remoteVars>>

StartPublishing(c) ==
  /\ pc[c] = "listed"
  /\ Op(c) = "Create"
  /\ Goto(c, "publish")
  /\ UNCHANGED <<onceVars, seen, listVars, remoteVars>>

\* seenDatabases.Store, name by name: the mutex keeps other Creates away, but
\* not ForgetDatabase.
Publish(c) ==
  /\ pc[c] = "publish"
  /\ \E d \in listed[c] :
       /\ seen' = seen \cup {d}
       /\ listed' = [listed EXCEPT ![c] = @ \ {d}]
  /\ UNCHANGED <<callVars, onceVars, cursor, attempt, remoteVars>>

Published(c) ==
  /\ pc[c] = "publish"
  /\ listed[c] = {}
  /\ List!Leave(c, "ok")
  /\ Goto(c, "mark")
  /\ UNCHANGED <<powerMutex, powerKept, seen, listVars, remoteVars>>

\* Mutant of Mark: the name is looked up but not stored.
MarkNot(c) ==
  /\ pc[c] = "mark"
  /\ IF Database(c) \in seen THEN Return(c, "exists") ELSE Goto(c, "create")
  /\ UNCHANGED <<onceVars, seen, listVars, remoteVars>>

\* LoadOrStore.
Mark(c) ==
  /\ pc[c] = "mark"
  /\ IF Database(c) \in seen THEN Return(c, "exists") ELSE Goto(c, "create")
  /\ seen' = seen \cup {Database(c)}
  /\ UNCHANGED <<onceVars, listVars, remoteVars>>

\* ServiceDatabaseCreate answers.  The client repeats a request that got a
\* 5xx, so it may meet the database it has just created; create returns this
\* 409 too, as an error: the lines that ignore it are never reached.
CreateReply(c) ==
  /\ pc[c] = "create"
  /\ \/ /\ Database(c) \notin remote
        /\ remote' = remote \cup {Database(c)}
        /\ Return(c, "ok") \/ (Faulty /\ (Return(c, "createError") \/ Return(c, "conflict")))
     \/ Database(c) \in remote /\ Return(c, "conflict") /\ UNCHANGED remote
     \/ Faulty /\ Return(c, "createError") /\ UNCHANGED remote
  /\ UNCHANGED <<onceVars, seen, listVars, dropping, powered>>

-----------------------------------------------------------------------------
(* Delete.                                                                 *)

\* ServiceDatabaseDelete answers: the database will be dropped, is not there,
\* or the call failed, before or after it took effect.
DeleteReply(c) ==
  /\ pc[c] = "ready"
  /\ Op(c) = "Delete"
  /\ \/ /\ Database(c) \in remote
        /\ dropping' = dropping \cup {Database(c)}
        /\ Goto(c, "wait") \/ (Faulty /\ Return(c, "error"))
     \/ Database(c) \notin remote /\ Goto(c, "forget") /\ UNCHANGED dropping
     \/ Faulty /\ Return(c, "error") /\ UNCHANGED dropping
  /\ attempt' = [attempt EXCEPT ![c] = 1]
  /\ UNCHANGED <<onceVars, seen, listed, cursor, remote, powered>>

Forget(c) ==
  /\ pc[c] = "forget"
  /\ seen' = seen \ {Database(c)}
  /\ Return(c, "ok")
  /\ UNCHANGED <<onceVars, listVars, remoteVars>>

-----------------------------------------------------------------------------
CallStep(c) ==
  \/ PowerKnown(c) \/ PowerAsked(c) \/ PowerAnswered(c)
  \/ StartListing(c) \/ ListPage(c) \/ ListFails(c) \/ Look(c)
  \/ ListKnown(c) \/ ListAsked(c) \/ StartPublishing(c) \/ Publish(c) \/ Published(c)
  \/ Mark(c) \/ CreateReply(c) \/ DeleteReply(c) \/ Forget(c)

\* History: which databases have been there all along.
KeepSteady ==
  steady' = [c \in Calls |->
               IF pc[c] # "listing" /\ pc'[c] = "listing" THEN remote'
               ELSE steady[c] \cap remote']

\* The backend drops a database some time after it was told to.
Drop ==
  \E d \in dropping :
    /\ remote' = remote \ {d}
    /\ dropping' = dropping \ {d}
    /\ UNCHANGED <<callVars, onceVars, seen, listVars, powered>>

Next ==
  /\ Drop \/ \E c \in Calls : CallStep(c)
  /\ KeepSteady

\* Goroutines are scheduled, API calls answer, mutexes are handed on.
Fairness == \A c \in Calls : WF_vars(CallStep(c) /\ KeepSteady)

Spec == Init /\ [][Next]_vars
FairSpec == Spec /\ Fairness

-----------------------------------------------------------------------------
(* Properties.                                                             *)

\* The Create calls of database d that passed the check.
Creators(d) ==
  {c \in Calls : /\ Op(c) = "Create" /\ Database(c) = d
                 /\ pc[c] = "create" \/ result[c] \in {"ok", "conflict", "createError"}}

\* The Delete calls of database d that have returned success.
Deleters(d) ==
  {c \in Calls : Op(c) = "Delete" /\ Database(c) = d /\ result[c] = "ok"}

\* "It also prevents users from creating a database with the same name": of
\* concurrent Creates of one name, one passes the check, and one more for
\* every Delete of it that has succeeded.
CreatesBounded ==
  \A d \in Databases : Cardinality(Creators(d)) <= Cardinality(Deleters(d)) + 1

\* "returns all databases or an error ... callers never observe a partial
\* list": a database that is there from the first page to the last is listed,
\* whatever is created and deleted between the pages.
ListsWhole ==
  \A c \in Calls : pc[c] = "listed" => steady[c] \subseteq listed[c]

\* "This function can prove the database does not exist before creating it":
\* a Create passes the check only while its database does not exist.
Passes(c) == pc[c] = "mark" /\ pc'[c] = "create"

CheckProves == [][\A c \in Calls : Passes(c) => Database(c) \notin remote]_vars

\* The same for names that this process does not delete.
CheckProvesUndeleted ==
  [][\A c \in Calls :
       Passes(c) => \/ Database(c) \notin remote
                    \/ \E d \in Calls : job[d] = [job[c] EXCEPT !.op = "Delete"]]_vars

\* "database already exists": a Create is only rejected if its database does
\* exist, if another Create of it was let through, or if a Delete of it has
\* yet to succeed.
RejectedExists ==
  [][\A c \in Calls :
       result[c] = "none" /\ result'[c] = "exists" =>
         \/ Database(c) \in remote
         \/ Creators(Database(c)) # {}
         \/ \E d \in Calls : job[d] = [job[c] EXCEPT !.op = "Delete"] /\ result[d] # "ok"]_vars

\* A Delete that returns success has seen its database gone: if the name is
\* there now, somebody has created it since.
DeletedOrRecreated ==
  \A c \in Calls :
    Op(c) = "Delete" /\ result[c] = "ok" /\ Database(c) \in remote => Creators(Database(c)) # {}

\* Every call returns: the two mutexes are always handed on.
CallsReturn == \A c \in Calls : <>(pc[c] = "done")
===============================================================================
