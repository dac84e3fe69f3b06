--------------------------- MODULE TopicRepository ---------------------------
(***************************************************************************)
(* The process-wide Kafka topic repository of                              *)
(* internal/plugin/kafkatopicrepository.  Terraform runs many resource     *)
(* operations at once; each of them is a call on this singleton, which     *)
(* keeps the names it has seen, queues the reads, and lets one background  *)
(* worker fetch them from the Aiven API in batches.                        *)
(*                                                                         *)
(* A call is a goroutine that performs one operation and ends.  The two    *)
(* list endpoints are caches of the backend, and other clients change the  *)
(* backend behind the repository's back.                                   *)
(***************************************************************************)
EXTENDS Naturals, Sequences, FiniteSets

CONSTANTS
  Calls,        \* the operations the Terraform graph runs in this process
  NoCall,       \* nobody: a free lock, an absent batch entry
  Topics,       \* topic keys: project/service/topic
  Services,     \* service keys: project/service
  ServiceOf,    \* the service a topic belongs to
  Scripts,      \* the jobs the calls may be given
  BatchSize,    \* rep.v2ListBatchSize
  MaxAttempts,  \* attempts of retry.Do
  PowersOff     \* the services somebody may power off meanwhile

Ops == {"Create", "Read", "Update", "Delete", "Exists"}
Jobs == [op : Ops, topic : Topics]

ASSUME ConstantsAssumption ==
  /\ IsFiniteSet(Calls)
  /\ NoCall \notin Calls
  /\ ServiceOf \in [Topics -> Services]
  /\ Scripts \subseteq [Calls -> Jobs]
  /\ BatchSize \in Nat \ {0}
  /\ MaxAttempts \in Nat \ {0}
  /\ PowersOff \subseteq Services

-----------------------------------------------------------------------------
VARIABLES
  job,           \* what each call does
  pc,            \* where each call is
  result,        \* what each call returned
  lock,          \* holder of the repository's mutex across a network call
  seenTopics,    \* keys marked true in rep.seenTopics
  seenServices,  \* keys marked true in rep.seenServices
  queue,         \* rep.queue: the calls whose read request is queued
  chan,          \* the response channel of each call's request
  worker,        \* where the worker goroutine is
  batch,         \* the map withdraw returned
  todo,          \* batch keys fetch has not requested yet
  chunk,         \* topic names of the current V2List call
  attempt,       \* attempt number of the current retry.Do
  outbox,        \* requests the worker still has to send reply to
  reply,         \* the response being sent
  remote,        \* topics that exist on the backend
  fresh          \* those of them v1List does not return yet

callVars == <<job, pc, result>>
cacheVars == <<seenTopics, seenServices>>
workerVars == <<worker, batch, todo, chunk, attempt, outbox, reply>>
remoteVars == <<remote, fresh>>
vars == <<callVars, lock, cacheVars, queue, chan, workerVars, remoteVars>>

Topic(c) == job[c].topic
Op(c) == job[c].op

PCs == {"ready", "listing", "enqueue", "waiting", "create", "delete", "evict", "done"}
Results == {"none", "ok", "notfound", "conflict", "listError", "createError",
            "error", "expired"}
ChanStates == {"empty", "ok", "error", "closed"}
WorkerStates == {"idle", "chunking", "listing", "sending", "panicked"}

TypeOK ==
  /\ job \in [Calls -> Jobs]
  /\ pc \in [Calls -> PCs]
  /\ result \in [Calls -> Results]
  /\ lock \in Calls \cup {NoCall}
  /\ seenTopics \subseteq Topics
  /\ seenServices \subseteq Services
  /\ queue \in Seq(Calls)
  /\ chan \in [Calls -> ChanStates]
  /\ worker \in WorkerStates
  /\ batch \in [Topics -> Calls \cup {NoCall}]
  /\ todo \subseteq Topics
  /\ chunk \subseteq Topics
  /\ attempt \in 0..MaxAttempts
  /\ outbox \subseteq Calls
  /\ reply \in {"ok", "error"}
  /\ remote \subseteq Topics
  /\ fresh \subseteq remote

Init ==
  /\ job \in Scripts
  /\ pc = [c \in Calls |-> "ready"]
  /\ result = [c \in Calls |-> "none"]
  /\ lock = NoCall
  /\ seenTopics = {}
  /\ seenServices = {}
  /\ queue = <<>>
  /\ chan = [c \in Calls |-> "empty"]
  /\ worker = "idle"
  /\ batch = [t \in Topics |-> NoCall]
  /\ todo = {}
  /\ chunk = {}
  /\ attempt = 0
  /\ outbox = {}
  /\ reply = "ok"
  /\ remote \in SUBSET Topics
  /\ fresh = {}

Goto(c, place) ==
  /\ pc' = [pc EXCEPT ![c] = place]
  /\ UNCHANGED <<job, result>>

Return(c, value) ==
  /\ pc' = [pc EXCEPT ![c] = "done"]
  /\ result' = [result EXCEPT ![c] = value]
  /\ UNCHANGED job

-----------------------------------------------------------------------------
(* rep.exists, which Create, Read and Exists start with.                   *)

\* exists returned nil.
Found(c) ==
  CASE Op(c) = "Read"   -> Goto(c, "enqueue")
    [] Op(c) = "Create" -> Return(c, "conflict")
    [] OTHER            -> Return(c, "ok")

\* Mutant of Missing: Create does not acquire the name.
MissingUnacquired(c, seen) ==
  /\ seenTopics' = seen
  /\ IF Op(c) = "Create" THEN Goto(c, "create") ELSE Return(c, "notfound")

\* exists returned errNotFound; for Create it has acquired the name first.
\* seen: the names known at that point.
Missing(c, seen) ==
  IF Op(c) = "Create"
  THEN seenTopics' = seen \cup {Topic(c)} /\ Goto(c, "create")
  ELSE seenTopics' = seen /\ Return(c, "notfound")

\* exists answers from the cache while it holds the mutex.
ExistsCached(c) ==
  /\ pc[c] = "ready"
  /\ Op(c) \in {"Create", "Read", "Exists"}
  /\ lock = NoCall
  /\ \/ /\ Topic(c) \in seenTopics
        /\ Found(c)
        /\ UNCHANGED seenTopics
     \/ /\ Topic(c) \notin seenTopics
        /\ ServiceOf[Topic(c)] \in seenServices
        /\ Missing(c, seenTopics)
  /\ UNCHANGED <<lock, seenServices, queue, chan, workerVars, remoteVars>>

\* exists calls v1List and keeps the mutex meanwhile.
ExistsList(c) ==
  /\ pc[c] = "ready"
  /\ Op(c) \in {"Create", "Read", "Exists"}
  /\ lock = NoCall
  /\ Topic(c) \notin seenTopics
  /\ ServiceOf[Topic(c)] \notin seenServices
  /\ lock' = c
  /\ Goto(c, "listing")
  /\ UNCHANGED <<cacheVars, queue, chan, workerVars, remoteVars>>

TopicsOf(s) == {t \in Topics : ServiceOf[t] = s}

\* v1List answered: its names are marked, then the name is looked up again.
ExistsListed(c) ==
  LET service == ServiceOf[Topic(c)] IN
  /\ pc[c] = "listing"
  /\ \E hidden \in SUBSET (fresh \cap TopicsOf(service)) :
       LET seen == seenTopics \cup ((remote \cap TopicsOf(service)) \ hidden) IN
       \/ Topic(c) \in seen /\ seenTopics' = seen /\ Found(c)
       \/ Topic(c) \notin seen /\ Missing(c, seen)
  /\ seenServices' = seenServices \cup {service}
  /\ lock' = NoCall
  /\ UNCHANGED <<queue, chan, workerVars, remoteVars>>

\* v1List failed: nothing is marked.  A 404 (no such service) reads as "not
\* found" to Exists and to the callers of Read.
ExistsListFails(c) ==
  /\ pc[c] = "listing"
  /\ \/ Return(c, "listError")
     \/ Op(c) # "Create" /\ Return(c, "notfound")
  /\ lock' = NoCall
  /\ UNCHANGED <<cacheVars, queue, chan, workerVars, remoteVars>>

-----------------------------------------------------------------------------
(* The rest of Read, Create, Update and Delete.                            *)

\* Read appends its request to the queue.
Enqueue(c) ==
  /\ pc[c] = "enqueue"
  /\ lock = NoCall
  /\ queue' = Append(queue, c)
  /\ Goto(c, "waiting")
  /\ UNCHANGED <<lock, cacheVars, chan, workerVars, remoteVars>>

\* Read takes the response and closes the channel.
Receive(c) ==
  /\ pc[c] = "waiting"
  /\ chan[c] \in {"ok", "error"}
  /\ Return(c, chan[c])
  /\ chan' = [chan EXCEPT ![c] = "closed"]
  /\ UNCHANGED <<lock, cacheVars, queue, workerVars, remoteVars>>

\* Read's context is done: it leaves its request and its channel behind.
Expire(c) ==
  /\ pc[c] = "waiting"
  /\ Return(c, "expired")
  /\ UNCHANGED <<lock, cacheVars, queue, chan, workerVars, remoteVars>>

\* ServiceKafkaTopicCreate answers; a 409 is taken for success.  A call that
\* fails may still have reached the backend.
CreateReply(c) ==
  /\ pc[c] = "create"
  /\ \/ /\ remote' = remote \cup {Topic(c)}
        /\ fresh' = IF Topic(c) \in remote THEN fresh ELSE fresh \cup {Topic(c)}
        /\ Return(c, "ok") \/ Return(c, "createError")
     \/ Return(c, "createError") /\ UNCHANGED remoteVars
  /\ UNCHANGED <<lock, cacheVars, queue, chan, workerVars>>

\* Update only forwards the call.
UpdateReply(c) ==
  /\ pc[c] = "ready"
  /\ Op(c) = "Update"
  /\ Return(c, "ok") \/ Return(c, "error")
  /\ UNCHANGED <<lock, cacheVars, queue, chan, workerVars, remoteVars>>

\* Delete calls the API before it takes the mutex.  A 404 is ignored.
StartDelete(c) ==
  /\ pc[c] = "ready"
  /\ Op(c) = "Delete"
  /\ Goto(c, "delete")
  /\ UNCHANGED <<lock, cacheVars, queue, chan, workerVars, remoteVars>>

\* Mutant of DeleteReply: the mark outlives the deletion.
DeleteReplyOnly(c) ==
  /\ pc[c] = "delete"
  /\ \/ /\ remote' = remote \ {Topic(c)}
        /\ fresh' = fresh \ {Topic(c)}
        /\ Return(c, "ok") \/ Return(c, "error")
     \/ Return(c, "error") /\ UNCHANGED remoteVars
  /\ UNCHANGED <<lock, cacheVars, queue, chan, workerVars>>

DeleteReply(c) ==
  /\ pc[c] = "delete"
  /\ \/ /\ remote' = remote \ {Topic(c)}
        /\ fresh' = fresh \ {Topic(c)}
        /\ Goto(c, "evict") \/ Return(c, "error")
     \/ Return(c, "error") /\ UNCHANGED remoteVars
  /\ UNCHANGED <<lock, cacheVars, queue, chan, workerVars>>

Evict(c) ==
  /\ pc[c] = "evict"
  /\ lock = NoCall
  /\ seenTopics' = seenTopics \ {Topic(c)}
  /\ Return(c, "ok")
  /\ UNCHANGED <<lock, seenServices, queue, chan, workerVars, remoteVars>>

-----------------------------------------------------------------------------
(* The worker goroutine.                                                   *)

\* withdraw: a later request for the same key replaces an earlier one.
IsLast(i, t) ==
  /\ Topic(queue[i]) = t
  /\ \A j \in 1..Len(queue) : Topic(queue[j]) = t => j <= i

LastRequest(t) ==
  IF \E i \in 1..Len(queue) : IsLast(i, t)
  THEN queue[CHOOSE i \in 1..Len(queue) : IsLast(i, t)]
  ELSE NoCall

\* Mutant of Withdraw: the queue is not emptied.
WithdrawCopy ==
  /\ worker = "idle"
  /\ lock = NoCall
  /\ queue # <<>>
  /\ batch' = [t \in Topics |-> LastRequest(t)]
  /\ todo' = {t \in Topics : LastRequest(t) # NoCall}
  /\ worker' = "chunking"
  /\ chunk' = {}
  /\ UNCHANGED <<callVars, lock, cacheVars, queue, chan, attempt, outbox, reply, remoteVars>>

Withdraw ==
  /\ worker = "idle"
  /\ lock = NoCall
  /\ queue # <<>>
  /\ batch' = [t \in Topics |-> LastRequest(t)]
  /\ todo' = {t \in Topics : LastRequest(t) # NoCall}
  /\ queue' = <<>>
  /\ worker' = "chunking"
  /\ chunk' = {}
  /\ UNCHANGED <<callVars, lock, cacheVars, chan, attempt, outbox, reply, remoteVars>>

\* lo.Chunk over names in the arbitrary order of a Go map: any BatchSize of
\* them, or all that are left.
Chunks(names) ==
  IF Cardinality(names) <= BatchSize THEN {names}
  ELSE {s \in SUBSET names : Cardinality(s) = BatchSize}

\* The topics of one service of the batch.
Requested(s) == {t \in TopicsOf(s) : batch[t] # NoCall}

\* The service being fetched still has names to request.
Unfinished(s) == \E t \in todo, u \in chunk : ServiceOf[t] = s /\ ServiceOf[u] = s

NextChunk ==
  /\ worker = "chunking"
  /\ \E s \in Services :
       /\ Unfinished(s) \/ ~ \E r \in Services : Unfinished(r)
       /\ todo \cap TopicsOf(s) # {}
       /\ chunk' \in Chunks(todo \cap TopicsOf(s))
       /\ todo' = todo \ chunk'
  /\ attempt' = 1
  /\ worker' = "listing"
  /\ UNCHANGED <<callVars, lock, cacheVars, queue, chan, batch, outbox, reply, remoteVars>>

FetchDone ==
  /\ worker = "chunking"
  /\ todo = {}
  /\ worker' = "idle"
  /\ UNCHANGED <<callVars, lock, cacheVars, queue, chan, batch, todo, chunk, attempt,
                 outbox, reply, remoteVars>>

StartSending(calls, response) ==
  /\ outbox' = calls
  /\ reply' = response
  /\ worker' = "sending"

\* V2List returned every name of the chunk.
V2Listed ==
  /\ worker = "listing"
  /\ chunk \subseteq remote
  /\ StartSending({batch[t] : t \in chunk}, "ok")
  /\ UNCHANGED <<callVars, lock, cacheVars, queue, chan, batch, todo, chunk, attempt,
                 remoteVars>>

\* Mutant of V2Retry: one attempt too many.
V2RetryOnceMore ==
  /\ worker = "listing"
  /\ attempt <= MaxAttempts
  /\ attempt' = attempt + 1
  /\ UNCHANGED <<callVars, lock, cacheVars, queue, chan, worker, batch, todo, chunk,
                 outbox, reply, remoteVars>>

\* A 404 or a short list: an inconsistent cache, tried again.
V2Retry ==
  /\ worker = "listing"
  /\ attempt < MaxAttempts
  /\ attempt' = attempt + 1
  /\ UNCHANGED <<callVars, lock, cacheVars, queue, chan, worker, batch, todo, chunk,
                 outbox, reply, remoteVars>>

\* Mutant of V2Fails: the error is dropped.
V2FailsSilently ==
  /\ worker = "listing"
  /\ worker' = "chunking"
  /\ UNCHANGED <<callVars, lock, cacheVars, queue, chan, batch, todo, chunk, attempt,
                 outbox, reply, remoteVars>>

\* Any other error, or the last attempt: the error goes to every request of
\* the service, also to those of its other chunks.
V2Fails ==
  /\ worker = "listing"
  /\ \E t \in chunk :
       StartSending({batch[u] : u \in Requested(ServiceOf[t])}, "error")
  /\ UNCHANGED <<callVars, lock, cacheVars, queue, chan, batch, todo, chunk, attempt,
                 remoteVars>>

\* request.send into a channel of capacity one.  A full channel blocks the
\* worker: no step.
Send(c) ==
  /\ worker = "sending"
  /\ c \in outbox
  /\ chan[c] = "empty"
  /\ chan' = [chan EXCEPT ![c] = reply]
  /\ outbox' = outbox \ {c}
  /\ worker' = IF outbox' = {} THEN "chunking" ELSE "sending"
  /\ UNCHANGED <<callVars, lock, cacheVars, queue, batch, todo, chunk, attempt, reply,
                 remoteVars>>

\* A send on a closed channel panics.
SendPanics(c) ==
  /\ worker = "sending"
  /\ c \in outbox
  /\ chan[c] = "closed"
  /\ worker' = "panicked"
  /\ UNCHANGED <<callVars, lock, cacheVars, queue, chan, batch, todo, chunk, attempt,
                 outbox, reply, remoteVars>>

-----------------------------------------------------------------------------
(* The backend, which others change too.                                   *)

\* v1List's cache catches up.
Settle ==
  /\ fresh # {}
  /\ fresh' = {}
  /\ UNCHANGED <<callVars, lock, cacheVars, queue, chan, workerVars, remote>>

\* A powered-off Kafka service loses all of its topics.
PowerOff(s) ==
  /\ remote \cap TopicsOf(s) # {}
  /\ remote' = remote \ TopicsOf(s)
  /\ fresh' = fresh \ TopicsOf(s)
  /\ UNCHANGED <<callVars, lock, cacheVars, queue, chan, workerVars>>

-----------------------------------------------------------------------------
CallStep(c) ==
  \/ ExistsCached(c) \/ ExistsList(c) \/ ExistsListed(c) \/ ExistsListFails(c)
  \/ Enqueue(c) \/ Receive(c) \/ CreateReply(c) \/ UpdateReply(c)
  \/ StartDelete(c) \/ DeleteReply(c) \/ Evict(c)

WorkerStep ==
  \/ Withdraw \/ NextChunk \/ FetchDone \/ V2Listed \/ V2Retry \/ V2Fails
  \/ \E c \in Calls : Send(c) \/ SendPanics(c)

\* A panic of the worker takes the process with it.
Next ==
  /\ worker # "panicked"
  /\ \/ \E c \in Calls : CallStep(c) \/ Expire(c)
     \/ WorkerStep
     \/ Settle
     \/ \E s \in PowersOff : PowerOff(s)

\* Goroutines are scheduled, network calls answer or fail, and sync.Mutex
\* hands the lock on; nothing makes a context expire.
Fairness ==
  /\ \A c \in Calls : WF_vars(worker # "panicked" /\ CallStep(c))
  /\ WF_vars(worker # "panicked" /\ WorkerStep)

Spec == Init /\ [][Next]_vars
FairSpec == Spec /\ Fairness

-----------------------------------------------------------------------------
(* Properties.                                                             *)

\* The Create calls of topic t that got past the cache and reached the API.
Creators(t) ==
  {c \in Calls : /\ Op(c) = "Create" /\ Topic(c) = t
                 /\ pc[c] = "create" \/ result[c] \in {"ok", "createError"}}

\* The Delete calls of topic t that have returned success.
Deleters(t) ==
  {c \in Calls : Op(c) = "Delete" /\ Topic(c) = t /\ result[c] = "ok"}

\* Concurrent Creates of one name: every success of Delete lets at most one
\* more of them reach the API (what TestCreateConflict checks of one schedule
\* without deletes).
CreatesBounded ==
  \A t \in Topics : Cardinality(Creators(t)) <= Cardinality(Deleters(t)) + 1

\* A name this process has created is not reported missing because v1List is
\* late: only after a Delete of it may Read or Exists answer "not found".
CreatedNotMissing ==
  [][\A c, d \in Calls :
       /\ result[c] = "none" /\ result'[c] = "notfound"
       /\ Op(d) = "Create" /\ result[d] = "ok" /\ Topic(d) = Topic(c)
       => Deleters(Topic(c)) # {}]_vars

\* A marked name has a reason: the topic exists, a Create of it is in flight
\* or has failed, or a Delete of it is in flight or has failed.  So a name
\* destroyed in this process is free for Create and Exists again (unless the
\* whole service may lose its topics).
MarkedHasReason ==
  \A t \in seenTopics :
    \/ t \in remote \/ ServiceOf[t] \in PowersOff
    \/ \E c \in Calls :
         /\ Topic(c) = t
         /\ \/ Op(c) = "Create" /\ (pc[c] = "create" \/ result[c] = "createError")
            \/ Op(c) = "Delete" /\ (pc[c] = "evict" \/ result[c] = "error")

\* Whatever is requested of service s fits one V2List call.
OneChunk(s) == \A names \in SUBSET TopicsOf(s) : Chunks(names) = {names}

\* A request to a service that fits one chunk is answered at most once,
\* whatever becomes of the other services of the batch: when the worker is
\* about to send, the channel is empty and open, so it neither blocks there
\* nor panics.
AnsweredAtMostOnce ==
  worker = "sending" =>
    \A c \in outbox : OneChunk(ServiceOf[Topic(c)]) => chan[c] = "empty"

\* The worker survives every batch, however many chunks it takes
\* ("Runs in the background", repository.go).
WorkerSurvives == worker # "panicked"

\* What a reader sees: when its request is answered, and how.  A request the
\* worker is sending to counts as answered already.
ReadPhase ==
  [c \in Calls |->
     IF Op(c) # "Read" THEN "idle"
     ELSE IF pc[c] = "done" THEN "returned"
     ELSE IF c \in outbox \/ chan[c] # "empty" THEN "answered"
     ELSE IF pc[c] = "waiting" THEN "asked"
     ELSE "idle"]

ReadAnswer ==
  [c \in Calls |->
     IF Op(c) # "Read" THEN "none"
     ELSE IF pc[c] = "done" THEN IF chan[c] = "closed" THEN result[c] ELSE "none"
     ELSE IF c \in outbox THEN reply
     ELSE IF chan[c] # "empty" THEN chan[c]
     ELSE "none"]

Reads == INSTANCE TopicReads
  WITH wants <- [c \in Calls |-> Topic(c)], exists <- remote,
       phase <- ReadPhase, answer <- ReadAnswer

\* The repository keeps the promise of TopicReads: one answer per Read, and
\* an existing topic behind every positive one (every service in one chunk).
ReadsKept == Reads!Spec

\* Every Read that waits for the worker returns, though no context expires.
ReadsReturn == \A c \in Calls : pc[c] = "waiting" ~> pc[c] = "done"

\* Every call comes to an end, unless it reads a topic that another call
\* reads too (ReadsReturn).
CallsReturn ==
  \A c \in Calls :
    \/ \E d \in Calls \ {c} : Op(c) = "Read" /\ job[d] = job[c]
    \/ pc[c] # "ready" ~> pc[c] = "done"
=============================================================================
