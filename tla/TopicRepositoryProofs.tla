------------------------ MODULE TopicRepositoryProofs ------------------------
(***************************************************************************)
(* Proofs about TopicRepository, for any set of calls, topics and          *)
(* services, any batch size and any number of attempts.                    *)
(***************************************************************************)
EXTENDS TopicRepository, FiniteSetTheorems, TLAPS

\* The names fetch has yet to request, and those it is requesting, have a
\* request in the batch: queue[key].send never meets a nil request.
BatchCovers ==
  /\ \A t \in todo : batch[t] # NoCall
  /\ worker = "listing" => \A t \in chunk : batch[t] # NoCall

TypeInv == TypeOK /\ BatchCovers

\* Where a call is agrees with what it does, and it has no result before it
\* is done.
PlaceInv ==
  \A c \in Calls :
    /\ pc[c] # "done" <=> result[c] = "none"
    /\ pc[c] \in {"enqueue", "waiting"} => Op(c) = "Read"
    /\ pc[c] = "create" => Op(c) = "Create"
    /\ pc[c] \in {"delete", "evict"} => Op(c) = "Delete"
    /\ pc[c] = "listing" => Op(c) \in {"Create", "Read", "Exists"}

\* A call that lists holds the mutex, and nobody marks its topic meanwhile.
MutexInv ==
  \A c \in Calls : pc[c] = "listing" => lock = c /\ Topic(c) \notin seenTopics

\* The mark of a name is worth one creator: together with the successful
\* deletes it pays for every Create that reached the API.
MarkInv ==
  \A t \in Topics :
    Cardinality(Creators(t)) <=
      Cardinality(Deleters(t)) + (IF t \in seenTopics THEN 1 ELSE 0)

NamesInv == TypeInv /\ PlaceInv /\ MutexInv /\ MarkInv

\* Calls whose request the worker may know of.
Asked(c) == pc[c] \in {"waiting", "done"}

Silent(s) == \A t \in Requested(s) : chan[batch[t]] = "empty"

QueueInv ==
  /\ \A i \in 1..Len(queue) : Asked(queue[i]) /\ chan[queue[i]] = "empty"
  /\ \A c \in Calls : chan[c] # "empty" => Asked(c)

BatchInv ==
  \A t \in Topics : batch[t] # NoCall =>
    /\ Topic(batch[t]) = t
    /\ Asked(batch[t])
    /\ \A i \in 1..Len(queue) : queue[i] # batch[t]

TodoInv ==
  \A t \in todo :
    /\ batch[t] # NoCall
    /\ OneChunk(ServiceOf[t]) =>
         Requested(ServiceOf[t]) \subseteq todo /\ Silent(ServiceOf[t])

ListingInv ==
  worker = "listing" =>
    \A t \in chunk :
      /\ batch[t] # NoCall
      /\ \A u \in chunk : ServiceOf[u] = ServiceOf[t]
      /\ OneChunk(ServiceOf[t]) =>
           todo \cap TopicsOf(ServiceOf[t]) = {} /\ Silent(ServiceOf[t])

SendingInv ==
  worker = "sending" =>
    \A c \in outbox :
      /\ \E t \in Topics : batch[t] = c
      /\ OneChunk(ServiceOf[Topic(c)]) =>
           todo \cap TopicsOf(ServiceOf[Topic(c)]) = {} /\ chan[c] = "empty"

AnswersInv == TypeInv /\ QueueInv /\ BatchInv /\ TodoInv /\ ListingInv /\ SendingInv
-----------------------------------------------------------------------------
(* Type correctness.                                                       *)

LEMMA ConstantFacts ==
  /\ IsFiniteSet(Calls) /\ NoCall \notin Calls
  /\ ServiceOf \in [Topics -> Services] /\ PowersOff \subseteq Services
  /\ BatchSize \in Nat \ {0} /\ MaxAttempts \in Nat \ {0}
BY ConstantsAssumption DEF ConstantsAssumption

LEMMA LastRequestType ==
  ASSUME TypeOK, NEW t \in Topics
  PROVE  LastRequest(t) \in Calls \cup {NoCall}
<1>1. CASE \E i \in 1..Len(queue) : IsLast(i, t)
  <2> DEFINE last == CHOOSE i \in 1..Len(queue) : IsLast(i, t)
  <2>1. last \in 1..Len(queue)
    BY <1>1
  <2>2. queue[last] \in Calls
    BY <2>1 DEF TypeOK
  <2> QED
    BY <1>1, <2>2 DEF LastRequest
<1>2. CASE ~ \E i \in 1..Len(queue) : IsLast(i, t)
  BY <1>2 DEF LastRequest
<1> QED
  BY <1>1, <1>2

LEMMA ChunksWithin ==
  ASSUME NEW names, NEW some \in Chunks(names)
  PROVE  some \subseteq names
BY DEF Chunks

LEMMA TypeInit == Init => TypeInv
BY ConstantsAssumption
DEF Init, TypeInv, BatchCovers, TypeOK, PCs, Results, ChanStates, WorkerStates,
    ConstantsAssumption

LEMMA TypeStep == TypeInv /\ [Next]_vars => TypeInv'
<1> SUFFICES ASSUME TypeInv, [Next]_vars
             PROVE  TypeInv'
  OBVIOUS
<1> USE DEF TypeInv, BatchCovers, TypeOK, PCs, Results, ChanStates, WorkerStates, Goto, Return, callVars,
            cacheVars, workerVars, remoteVars
<1>1. ASSUME NEW c \in Calls, ExistsCached(c)
      PROVE  TypeInv'
  <2>1. Topic(c) \in Topics
    BY DEF Topic, Jobs
  <2> QED
    BY <1>1, <2>1 DEF ExistsCached, Found, Missing
<1>2. ASSUME NEW c \in Calls, ExistsList(c)
      PROVE  TypeInv'
  BY <1>2 DEF ExistsList
<1>3. ASSUME NEW c \in Calls, ExistsListed(c)
      PROVE  TypeInv'
  <2>1. Topic(c) \in Topics /\ ServiceOf[Topic(c)] \in Services
    BY ConstantFacts DEF Topic, Jobs
  <2> QED
    BY <1>3, <2>1 DEF ExistsListed, Found, Missing
<1>4. ASSUME NEW c \in Calls, ExistsListFails(c)
      PROVE  TypeInv'
  BY <1>4 DEF ExistsListFails
<1>5. ASSUME NEW c \in Calls, Enqueue(c)
      PROVE  TypeInv'
  BY <1>5 DEF Enqueue
<1>6. ASSUME NEW c \in Calls, Receive(c)
      PROVE  TypeInv'
  BY <1>6 DEF Receive
<1>7. ASSUME NEW c \in Calls, Expire(c)
      PROVE  TypeInv'
  BY <1>7 DEF Expire
<1>8. ASSUME NEW c \in Calls, CreateReply(c)
      PROVE  TypeInv'
  <2>1. Topic(c) \in Topics
    BY DEF Topic, Jobs
  <2> QED
    BY <1>8, <2>1 DEF CreateReply
<1>9. ASSUME NEW c \in Calls, UpdateReply(c)
      PROVE  TypeInv'
  BY <1>9 DEF UpdateReply
<1>10. ASSUME NEW c \in Calls, StartDelete(c)
      PROVE  TypeInv'
  BY <1>10 DEF StartDelete
<1>11. ASSUME NEW c \in Calls, DeleteReply(c)
      PROVE  TypeInv'
  BY <1>11 DEF DeleteReply
<1>12. ASSUME NEW c \in Calls, Evict(c)
      PROVE  TypeInv'
  BY <1>12 DEF Evict
<1>13. CASE Withdraw
  BY <1>13, LastRequestType DEF Withdraw
<1>14. CASE NextChunk
  <2>1. PICK s \in Services : chunk' \in Chunks(todo \cap TopicsOf(s)) /\ todo' = todo \ chunk'
    BY <1>14 DEF NextChunk
  <2>2. chunk' \subseteq todo
    BY <2>1, ChunksWithin
  <2> QED
    BY <1>14, <2>1, <2>2, ConstantFacts DEF NextChunk
<1>15. CASE FetchDone
  BY <1>15 DEF FetchDone
<1>16. CASE V2Listed
  BY <1>16, ConstantFacts DEF V2Listed, StartSending
<1>17. CASE V2Retry
  BY <1>17, ConstantFacts DEF V2Retry
<1>18. CASE V2Fails
  <2>1. PICK t \in chunk : StartSending({batch[u] : u \in Requested(ServiceOf[t])}, "error")
    BY <1>18 DEF V2Fails
  <2>2. \A u \in Requested(ServiceOf[t]) : batch[u] \in Calls
    BY DEF Requested, TopicsOf
  <2>3. outbox' \subseteq Calls /\ reply' = "error" /\ worker' = "sending"
    BY <2>1, <2>2 DEF StartSending
  <2> QED
    BY <1>18, <2>3 DEF V2Fails
<1>19. ASSUME NEW c \in Calls, Send(c)
      PROVE  TypeInv'
  BY <1>19 DEF Send
<1>20. ASSUME NEW c \in Calls, SendPanics(c)
      PROVE  TypeInv'
  BY <1>20 DEF SendPanics
<1>21. CASE Settle
  BY <1>21 DEF Settle
<1>22. ASSUME NEW s \in PowersOff, PowerOff(s)
      PROVE  TypeInv'
  BY <1>22 DEF PowerOff
<1>23. CASE UNCHANGED vars
  BY <1>23 DEF vars
<1> QED
  BY <1>1, <1>2, <1>3, <1>4, <1>5, <1>6, <1>7, <1>8, <1>9, <1>10, <1>11, <1>12,
     <1>13, <1>14, <1>15, <1>16, <1>17, <1>18, <1>19, <1>20, <1>21, <1>22, <1>23
  DEF Next, CallStep, WorkerStep

\* Every variable keeps its type: in particular nothing but a call ever holds
\* the mutex, waits in the queue or is in the worker's batch.
THEOREM TypeCorrect == Spec => []TypeOK
<1>1. TypeInv => TypeOK
  BY DEF TypeInv
<1> QED
  BY <1>1, TypeInit, TypeStep, PTL DEF Spec

-----------------------------------------------------------------------------
(* Names.                                                                  *)

LEMMA PlaceStep == TypeInv /\ PlaceInv /\ [Next]_vars => PlaceInv'
<1> SUFFICES ASSUME TypeInv, PlaceInv, [Next]_vars
             PROVE  PlaceInv'
  OBVIOUS
<1> USE DEF TypeInv, TypeOK, PCs, Results, ChanStates, PlaceInv, Goto, Return, Op, callVars
<1>1. ASSUME NEW c \in Calls, ExistsCached(c)
      PROVE  PlaceInv'
  BY <1>1 DEF ExistsCached, Found, Missing
<1>2. ASSUME NEW c \in Calls, ExistsList(c)
      PROVE  PlaceInv'
  BY <1>2 DEF ExistsList
<1>3. ASSUME NEW c \in Calls, ExistsListed(c)
      PROVE  PlaceInv'
  BY <1>3 DEF ExistsListed, Found, Missing
<1>4. ASSUME NEW c \in Calls, ExistsListFails(c)
      PROVE  PlaceInv'
  BY <1>4 DEF ExistsListFails
<1>5. ASSUME NEW c \in Calls, Enqueue(c)
      PROVE  PlaceInv'
  BY <1>5 DEF Enqueue
<1>6. ASSUME NEW c \in Calls, Receive(c)
      PROVE  PlaceInv'
  BY <1>6 DEF Receive
<1>7. ASSUME NEW c \in Calls, Expire(c)
      PROVE  PlaceInv'
  BY <1>7 DEF Expire
<1>8. ASSUME NEW c \in Calls, CreateReply(c)
      PROVE  PlaceInv'
  BY <1>8 DEF CreateReply
<1>9. ASSUME NEW c \in Calls, UpdateReply(c)
      PROVE  PlaceInv'
  BY <1>9 DEF UpdateReply
<1>10. ASSUME NEW c \in Calls, StartDelete(c)
      PROVE  PlaceInv'
  BY <1>10 DEF StartDelete
<1>11. ASSUME NEW c \in Calls, DeleteReply(c)
      PROVE  PlaceInv'
  BY <1>11 DEF DeleteReply
<1>12. ASSUME NEW c \in Calls, Evict(c)
      PROVE  PlaceInv'
  BY <1>12 DEF Evict
<1>13. CASE UNCHANGED callVars
  BY <1>13
<1>14. CASE WorkerStep \/ Settle \/ \E s \in PowersOff : PowerOff(s)
  BY <1>13, <1>14
  DEF WorkerStep, Withdraw, NextChunk, FetchDone, V2Listed, V2Retry, V2Fails, Send, SendPanics,
      Settle, PowerOff
<1> QED
  BY <1>1, <1>2, <1>3, <1>4, <1>5, <1>6, <1>7, <1>8, <1>9, <1>10, <1>11, <1>12, <1>13,
     <1>14
  DEF Next, CallStep, vars

LEMMA MutexStep == TypeInv /\ PlaceInv /\ MutexInv /\ [Next]_vars => MutexInv'
<1> SUFFICES ASSUME TypeInv, PlaceInv, MutexInv, [Next]_vars
             PROVE  MutexInv'
  OBVIOUS
<1> USE ConstantFacts
    DEF TypeInv, TypeOK, PCs, MutexInv, Goto, Return, Topic, callVars, cacheVars
<1>1. ASSUME NEW c \in Calls, ExistsCached(c)
      PROVE  MutexInv'
  BY <1>1 DEF ExistsCached, Found, Missing
<1>2. ASSUME NEW c \in Calls, ExistsList(c)
      PROVE  MutexInv'
  BY <1>2 DEF ExistsList
<1>3. ASSUME NEW c \in Calls, ExistsListed(c)
      PROVE  MutexInv'
  BY <1>3 DEF ExistsListed, Found, Missing
<1>4. ASSUME NEW c \in Calls, ExistsListFails(c)
      PROVE  MutexInv'
  BY <1>4 DEF ExistsListFails
<1>5. ASSUME NEW c \in Calls, Enqueue(c)
      PROVE  MutexInv'
  BY <1>5 DEF Enqueue
<1>6. ASSUME NEW c \in Calls, Receive(c)
      PROVE  MutexInv'
  BY <1>6 DEF Receive
<1>7. ASSUME NEW c \in Calls, Expire(c)
      PROVE  MutexInv'
  BY <1>7 DEF Expire
<1>8. ASSUME NEW c \in Calls, CreateReply(c)
      PROVE  MutexInv'
  BY <1>8 DEF CreateReply
<1>9. ASSUME NEW c \in Calls, UpdateReply(c)
      PROVE  MutexInv'
  BY <1>9 DEF UpdateReply
<1>10. ASSUME NEW c \in Calls, StartDelete(c)
      PROVE  MutexInv'
  BY <1>10 DEF StartDelete
<1>11. ASSUME NEW c \in Calls, DeleteReply(c)
      PROVE  MutexInv'
  BY <1>11 DEF DeleteReply
<1>12. ASSUME NEW c \in Calls, Evict(c)
      PROVE  MutexInv'
  BY <1>12 DEF Evict
<1>13. CASE UNCHANGED <<callVars, lock, cacheVars>>
  BY <1>13
<1>14. CASE WorkerStep \/ Settle \/ \E s \in PowersOff : PowerOff(s)
  BY <1>13, <1>14
  DEF WorkerStep, Withdraw, NextChunk, FetchDone, V2Listed, V2Retry, V2Fails, Send, SendPanics,
      Settle, PowerOff
<1> QED
  BY <1>1, <1>2, <1>3, <1>4, <1>5, <1>6, <1>7, <1>8, <1>9, <1>10, <1>11, <1>12, <1>13,
     <1>14
  DEF Next, CallStep, vars

LEMMA Counts ==
  ASSUME NEW S \in SUBSET Calls
  PROVE  /\ IsFiniteSet(S) /\ Cardinality(S) \in Nat
         /\ \A c \in Calls \ S : Cardinality(S \cup {c}) = Cardinality(S) + 1
<1>1. IsFiniteSet(S)
  BY ConstantFacts, FS_Subset
<1> QED
  BY <1>1, FS_CardinalityType, FS_AddElement

\* A step that adds neither a creator nor a deleter, and removes no mark.
LEMMA MarksKept ==
  ASSUME MarkInv, seenTopics \subseteq seenTopics',
         \A t \in Topics : Creators(t)' = Creators(t) /\ Deleters(t)' = Deleters(t)
  PROVE  MarkInv'
<1> SUFFICES ASSUME NEW t \in Topics
             PROVE  MarkInv!(t)'
  BY DEF MarkInv
<1>1. Cardinality(Creators(t)) \in Nat /\ Cardinality(Deleters(t)) \in Nat
  BY Counts DEF Creators, Deleters
<1> QED
  BY <1>1 DEF MarkInv

\* exists found the name missing: a Create takes the mark, and with it the
\* right to one more creator.
LEMMA MissingKeepsMarks ==
  ASSUME NamesInv, NEW c \in Calls, pc[c] \in {"ready", "listing"},
         Op(c) \in {"Create", "Read", "Exists"},
         NEW seen, seenTopics \subseteq seen, Topic(c) \notin seen, Missing(c, seen)
  PROVE  MarkInv'
<1> USE DEF NamesInv, TypeInv, TypeOK, PCs, Results, PlaceInv, Op, Topic, Goto, Return
<1>1. CASE Op(c) # "Create"
  <2>1. \A t \in Topics : Creators(t)' = Creators(t) /\ Deleters(t)' = Deleters(t)
    BY <1>1 DEF Missing, Creators, Deleters
  <2> QED
    BY <1>1, <2>1, MarksKept DEF Missing
<1>2. CASE Op(c) = "Create"
  <2>0. PICK name \in Topics : name = Topic(c)
    BY DEF Jobs
  <2>1. /\ seenTopics' = seen \cup {name}
        /\ pc' = [pc EXCEPT ![c] = "create"] /\ UNCHANGED <<job, result>>
    BY <1>2, <2>0 DEF Missing
  <2>2. \A t \in Topics : Deleters(t)' = Deleters(t)
    BY <2>1 DEF Deleters
  <2>3. \A t \in Topics \ {name} : Creators(t)' = Creators(t)
    BY <2>0, <2>1 DEF Creators
  <2>4. Creators(name)' = Creators(name) \cup {c} /\ c \notin Creators(name)
    BY <1>2, <2>0, <2>1 DEF Creators
  <2> SUFFICES ASSUME NEW t \in Topics
               PROVE  MarkInv!(t)'
    BY DEF MarkInv
  <2>5. /\ Cardinality(Creators(t)) \in Nat /\ Cardinality(Deleters(t)) \in Nat
        /\ c \notin Creators(t) =>
             Cardinality(Creators(t) \cup {c}) = Cardinality(Creators(t)) + 1
    BY Counts DEF Creators, Deleters
  <2>6. CASE t # name
    BY <2>1, <2>2, <2>3, <2>5, <2>6 DEF MarkInv
  <2>7. CASE t = name
    <3>1. Cardinality(Creators(t)) <= Cardinality(Deleters(t))
      BY <2>0, <2>5, <2>7 DEF MarkInv
    <3>2. Creators(t)' = Creators(t) \cup {c} /\ Deleters(t)' = Deleters(t)
      BY <2>2, <2>4, <2>7
    <3>3. t \in seenTopics' /\ c \notin Creators(t)
      BY <2>1, <2>4, <2>7
    <3>4. Cardinality(Creators(t)') <= Cardinality(Deleters(t)') + 1
      <4> HIDE DEF NamesInv, TypeInv, TypeOK, PlaceInv
      <4> QED
        BY <2>5, <3>1, <3>2, <3>3
    <3> QED
      BY <3>3, <3>4
  <2> QED
    BY <2>6, <2>7
<1> QED
  BY <1>1, <1>2

\* exists found the name: nobody gets past the cache.
LEMMA FoundKeepsMarks ==
  ASSUME NamesInv, NEW c \in Calls, pc[c] \in {"ready", "listing"},
         Op(c) \in {"Create", "Read", "Exists"},
         seenTopics \subseteq seenTopics', Found(c)
  PROVE  MarkInv'
<1>1. \A t \in Topics : Creators(t)' = Creators(t) /\ Deleters(t)' = Deleters(t)
  BY DEF NamesInv, TypeInv, TypeOK, PCs, Results, PlaceInv, Op, Topic, Goto, Return,
         Found, Creators, Deleters
<1> QED
  BY <1>1, MarksKept DEF NamesInv

LEMMA EvictKeepsMarks ==
  ASSUME NamesInv, NEW c \in Calls, Evict(c)
  PROVE  MarkInv'
<1> USE DEF NamesInv, TypeInv, TypeOK, PCs, Results, PlaceInv, Op, Topic, Return, Evict
<1>0. PICK name \in Topics : name = Topic(c)
  BY DEF Jobs
<1>1. \A t \in Topics : Creators(t)' = Creators(t)
  BY DEF Creators
<1>2. \A t \in Topics \ {name} : Deleters(t)' = Deleters(t)
  BY <1>0 DEF Deleters
<1>3. Deleters(name)' = Deleters(name) \cup {c} /\ c \notin Deleters(name)
  BY <1>0 DEF Deleters
<1> SUFFICES ASSUME NEW t \in Topics
             PROVE  MarkInv!(t)'
  BY DEF MarkInv
<1>4. /\ Cardinality(Creators(t)) \in Nat /\ Cardinality(Deleters(t)) \in Nat
      /\ c \notin Deleters(t) =>
           Cardinality(Deleters(t) \cup {c}) = Cardinality(Deleters(t)) + 1
  BY Counts DEF Creators, Deleters
<1>5. CASE t # name
  <2>1. Creators(t)' = Creators(t) /\ Deleters(t)' = Deleters(t)
    BY <1>1, <1>2, <1>5
  <2>2. t \in seenTopics' <=> t \in seenTopics
    BY <1>0, <1>5
  <2> HIDE DEF TypeInv, PlaceInv, Evict
  <2> QED
    BY <1>4, <2>1, <2>2 DEF MarkInv
<1>6. CASE t = name
  <2>1. Cardinality(Creators(t)) <= Cardinality(Deleters(t)) + 1
    BY <1>4 DEF MarkInv
  <2>2. Creators(t)' = Creators(t) /\ Deleters(t)' = Deleters(t) \cup {c}
    BY <1>1, <1>3, <1>6
  <2>3. t \notin seenTopics' /\ c \notin Deleters(t)
    BY <1>0, <1>3, <1>6
  <2>4. /\ Cardinality(Creators(t)') <= Cardinality(Deleters(t)')
        /\ Cardinality(Creators(t)') \in Nat /\ Cardinality(Deleters(t)') \in Nat
    <3> HIDE DEF NamesInv, TypeInv, TypeOK, PlaceInv
    <3> QED
      BY <1>4, <2>1, <2>2, <2>3
  <2> HIDE DEF NamesInv, TypeInv, TypeOK, PlaceInv, Evict
  <2> QED
    BY <2>3, <2>4
<1> QED
  BY <1>5, <1>6

LEMMA NamesStep == NamesInv /\ [Next]_vars => NamesInv'
<1> SUFFICES ASSUME NamesInv, [Next]_vars
             PROVE  MarkInv'
  BY TypeStep, PlaceStep, MutexStep DEF NamesInv
<1> DEFINE Same == /\ seenTopics' = seenTopics
                   /\ \A t \in Topics : Creators(t)' = Creators(t) /\ Deleters(t)' = Deleters(t)
<1>0. Same => MarkInv'
  BY MarksKept DEF NamesInv
<1> USE DEF NamesInv, TypeInv, TypeOK, PCs, Results, PlaceInv, Op, Topic, Goto, Return,
            cacheVars, callVars
<1>1. ASSUME NEW c \in Calls, ExistsCached(c)
      PROVE  MarkInv'
  <2>1. CASE Topic(c) \in seenTopics
    BY <1>1, <2>1, FoundKeepsMarks DEF ExistsCached
  <2>2. CASE Topic(c) \notin seenTopics
    BY <1>1, <2>2, MissingKeepsMarks DEF ExistsCached
  <2> QED
    BY <2>1, <2>2
<1>2. ASSUME NEW c \in Calls, ExistsListed(c)
      PROVE  MarkInv'
  <2>1. PICK seen : /\ seenTopics \subseteq seen
                    /\ \/ Topic(c) \in seen /\ seenTopics' = seen /\ Found(c)
                       \/ Topic(c) \notin seen /\ Missing(c, seen)
    BY <1>2 DEF ExistsListed
  <2>2. pc[c] = "listing" /\ Op(c) \in {"Create", "Read", "Exists"}
    BY <1>2 DEF ExistsListed
  <2> QED
    BY <2>1, <2>2, FoundKeepsMarks, MissingKeepsMarks
<1>3. ASSUME NEW c \in Calls, Evict(c)
      PROVE  MarkInv'
  BY <1>3, EvictKeepsMarks
<1>4. ASSUME NEW c \in Calls, ExistsList(c)
      PROVE  Same
  BY <1>4 DEF ExistsList, Creators, Deleters
<1>5. ASSUME NEW c \in Calls, ExistsListFails(c)
      PROVE  Same
  BY <1>5 DEF ExistsListFails, Creators, Deleters
<1>6. ASSUME NEW c \in Calls, Enqueue(c)
      PROVE  Same
  BY <1>6 DEF Enqueue, Creators, Deleters
<1>7. ASSUME NEW c \in Calls, Receive(c)
      PROVE  Same
  BY <1>7 DEF Receive, Creators, Deleters
<1>8. ASSUME NEW c \in Calls, Expire(c)
      PROVE  Same
  BY <1>8 DEF Expire, Creators, Deleters
<1>9. ASSUME NEW c \in Calls, CreateReply(c)
      PROVE  Same
  BY <1>9 DEF CreateReply, Creators, Deleters
<1>10. ASSUME NEW c \in Calls, UpdateReply(c)
       PROVE  Same
  BY <1>10 DEF UpdateReply, Creators, Deleters
<1>11. ASSUME NEW c \in Calls, StartDelete(c)
       PROVE  Same
  BY <1>11 DEF StartDelete, Creators, Deleters
<1>12. ASSUME NEW c \in Calls, DeleteReply(c)
       PROVE  Same
  BY <1>12 DEF DeleteReply, Creators, Deleters
<1>13. CASE UNCHANGED <<callVars, cacheVars>>
  BY <1>0, <1>13 DEF Creators, Deleters
<1>14. CASE WorkerStep \/ Settle \/ \E s \in PowersOff : PowerOff(s)
  BY <1>13, <1>14
  DEF WorkerStep, Withdraw, NextChunk, FetchDone, V2Listed, V2Retry, V2Fails, Send, SendPanics,
      Settle, PowerOff
<1> QED
  BY <1>0, <1>1, <1>2, <1>3, <1>4, <1>5, <1>6, <1>7, <1>8, <1>9, <1>10, <1>11, <1>12,
     <1>13, <1>14
  DEF Next, CallStep, vars

LEMMA NamesInductive == Spec => []NamesInv
<1>1. Init => NamesInv
  <2> SUFFICES ASSUME Init
               PROVE  PlaceInv /\ MutexInv /\ MarkInv
    BY TypeInit DEF NamesInv
  <2>1. PlaceInv /\ MutexInv
    BY DEF Init, PlaceInv, MutexInv
  <2>2. \A t \in Topics : Creators(t) = {} /\ Deleters(t) = {}
    BY DEF Init, Creators, Deleters
  <2> QED
    <3>1. \A t \in Topics : Cardinality(Creators(t)) = 0 /\ Cardinality(Deleters(t)) = 0
      BY <2>2, FS_EmptySet
    <3> QED
      BY <2>1, <3>1 DEF MarkInv
<1> QED
  BY <1>1, NamesStep, PTL DEF Spec

\* However many Creates of a name run at once, at most one more of them
\* reaches the API than Deletes of the name have succeeded.
THEOREM CreatesAreBounded == Spec => []CreatesBounded
<1>1. NamesInv => CreatesBounded
  <2> SUFFICES ASSUME NamesInv, NEW t \in Topics
               PROVE  Cardinality(Creators(t)) <= Cardinality(Deleters(t)) + 1
    BY DEF CreatesBounded
  <2>1. Cardinality(Creators(t)) \in Nat /\ Cardinality(Deleters(t)) \in Nat
    BY Counts DEF Creators, Deleters
  <2> QED
    BY <2>1 DEF NamesInv, MarkInv
<1> QED
  BY <1>1, NamesInductive, PTL

\* A name this process has created is never reported missing before a Delete
\* of it has succeeded, however late v1List is.
THEOREM CreatedIsNotMissing == Spec => CreatedNotMissing
<1> DEFINE Step ==
      \A c, d \in Calls :
        /\ result[c] = "none" /\ result'[c] = "notfound"
        /\ Op(d) = "Create" /\ result[d] = "ok" /\ Topic(d) = Topic(c)
        => Deleters(Topic(c)) # {}
<1>1. NamesInv /\ [Next]_vars => Step
  <2> SUFFICES ASSUME NamesInv, [Next]_vars, NEW c \in Calls, NEW d \in Calls,
                      result[c] = "none", result'[c] = "notfound",
                      Op(d) = "Create", result[d] = "ok", Topic(d) = Topic(c),
                      Deleters(Topic(c)) = {}
               PROVE  FALSE
    OBVIOUS
  <2>1. PICK t \in Topics : t = Topic(c)
    BY DEF NamesInv, TypeInv, TypeOK, Topic, Jobs
  <2>2. Cardinality(Creators(t)) \in Nat \ {0}
    <3>1. d \in Creators(t) /\ Creators(t) \in SUBSET Calls
      BY <2>1 DEF Creators
    <3> QED
      BY <3>1, Counts, FS_EmptySet
  <2>3. Cardinality(Deleters(t)) = 0
    BY <2>1, FS_EmptySet
  <2>4. Topic(c) \in seenTopics
    BY <2>1, <2>2, <2>3 DEF NamesInv, MarkInv
  <2>5. /\ result \in [Calls -> Results] /\ pc \in [Calls -> PCs]
        /\ chan \in [Calls -> ChanStates]
    BY DEF NamesInv, TypeInv, TypeOK
  <2>6. pc[c] # "listing"
    BY <2>4 DEF NamesInv, MutexInv
  <2>7. ASSUME NEW e \in Calls, CallStep(e) \/ Expire(e)
        PROVE  FALSE
    <3>1. e = c
      BY <2>5, <2>7
      DEF CallStep, ExistsCached, ExistsList, ExistsListed, ExistsListFails, Enqueue, Receive,
          Expire, CreateReply, UpdateReply, StartDelete, DeleteReply, Evict, Found, Missing,
          Goto, Return
    <3>2. ExistsCached(c)
      BY <2>5, <2>6, <2>7, <3>1
      DEF CallStep, ExistsList, ExistsListed, ExistsListFails, Enqueue, Receive,
          Expire, CreateReply, UpdateReply, StartDelete, DeleteReply, Evict, Goto, Return,
          Results
    <3> QED
      BY <2>4, <2>5, <3>2 DEF ExistsCached, Found, Goto, Return
  <2>8. CASE UNCHANGED callVars
    BY <2>8 DEF callVars
  <2>9. CASE WorkerStep \/ Settle \/ \E s \in PowersOff : PowerOff(s)
    BY <2>8, <2>9
    DEF WorkerStep, Withdraw, NextChunk, FetchDone, V2Listed, V2Retry, V2Fails, Send,
        SendPanics, Settle, PowerOff
  <2> QED
    BY <2>7, <2>8, <2>9 DEF Next, vars
<1> QED
  BY <1>1, NamesInductive, PTL DEF Spec, CreatedNotMissing

-----------------------------------------------------------------------------
(* Marks.                                                                  *)

\* What MarkedHasReason asks of a marked name.
Explains(c, t) ==
  /\ Topic(c) = t
  /\ \/ Op(c) = "Create" /\ (pc[c] = "create" \/ result[c] = "createError")
     \/ Op(c) = "Delete" /\ (pc[c] = "evict" \/ result[c] = "error")

HasReason(t) ==
  t \in remote \/ ServiceOf[t] \in PowersOff \/ \E c \in Calls : Explains(c, t)

\* A call that neither creates, deletes nor evicts explains what it did before,
\* and what it marks is listed, or its own Create.
LEMMA ExplanationsKept ==
  ASSUME TypeInv, PlaceInv, NEW t \in Topics, HasReason(t), remote' = remote, job' = job,
         NEW c \in Calls, pc[c] \notin {"create", "evict", "done"},
         \A d \in Calls \ {c} : pc'[d] = pc[d] /\ result'[d] = result[d]
  PROVE  HasReason(t)'
BY DEF TypeInv, TypeOK, PlaceInv, HasReason, Explains, Op, Topic

LEMMA MarkedStep ==
  TypeInv /\ PlaceInv /\ MarkedHasReason /\ [Next]_vars => MarkedHasReason'
<1> SUFFICES ASSUME TypeInv, PlaceInv, MarkedHasReason, [Next]_vars
             PROVE  MarkedHasReason'
  OBVIOUS
<1> SUFFICES ASSUME NEW t \in Topics, t \in seenTopics'
             PROVE  HasReason(t)'
  <2>1. TypeInv'
    BY TypeStep
  <2> QED
    BY <2>1 DEF MarkedHasReason, HasReason, Explains, TypeInv, TypeOK
<1>0. t \in seenTopics => HasReason(t)
  BY DEF MarkedHasReason, HasReason, Explains
<1> USE DEF TypeInv, TypeOK, PCs, Results, Goto, Return, cacheVars, callVars, workerVars,
            remoteVars
<1>1. ASSUME NEW c \in Calls, ExistsCached(c)
      PROVE  HasReason(t)'
  <2>1. CASE t \in seenTopics
    <3>1. \A d \in Calls \ {c} : pc'[d] = pc[d] /\ result'[d] = result[d]
      BY <1>1 DEF ExistsCached, Found, Missing
    <3>2. remote' = remote /\ job' = job /\ pc[c] = "ready"
      BY <1>1 DEF ExistsCached, Found, Missing
    <3> QED
      BY <1>0, <2>1, <3>1, <3>2, ExplanationsKept
  <2>2. CASE t \notin seenTopics
    <3>1. Op(c) = "Create" /\ t = Topic(c) /\ job' = job /\ pc'[c] = "create"
      BY <1>1, <2>2 DEF ExistsCached, Found, Missing
    <3> QED
      BY <3>1 DEF HasReason, Explains, Op, Topic
  <2> QED
    BY <2>1, <2>2
<1>2. ASSUME NEW c \in Calls, ExistsListed(c)
      PROVE  HasReason(t)'
  <2>1. CASE t \in seenTopics
    <3>1. \A d \in Calls \ {c} : pc'[d] = pc[d] /\ result'[d] = result[d]
      BY <1>2 DEF ExistsListed, Found, Missing
    <3>2. remote' = remote /\ job' = job /\ pc[c] = "listing"
      BY <1>2 DEF ExistsListed, Found, Missing
    <3> QED
      BY <1>0, <2>1, <3>1, <3>2, ExplanationsKept
  <2>2. CASE t \notin seenTopics /\ t \in remote
    BY <1>2, <2>2 DEF ExistsListed, HasReason
  <2>3. CASE t \notin seenTopics /\ t \notin remote
    <3>1. Op(c) = "Create" /\ t = Topic(c) /\ job' = job /\ pc'[c] = "create"
      BY <1>2, <2>3 DEF ExistsListed, Found, Missing
    <3> QED
      BY <3>1 DEF HasReason, Explains, Op, Topic
  <2> QED
    BY <2>1, <2>2, <2>3
<1>3. ASSUME NEW c \in Calls,
             \/ ExistsList(c) \/ ExistsListFails(c) \/ Enqueue(c) \/ Receive(c) \/ Expire(c)
             \/ UpdateReply(c) \/ StartDelete(c)
      PROVE  HasReason(t)'
  <2>1. t \in seenTopics /\ remote' = remote /\ job' = job
    BY <1>3
    DEF ExistsList, ExistsListFails, Enqueue, Receive, Expire, UpdateReply, StartDelete
  <2>2. pc[c] \in {"ready", "listing", "enqueue", "waiting"}
    BY <1>3
    DEF ExistsList, ExistsListFails, Enqueue, Receive, Expire, UpdateReply, StartDelete
  <2>3. \A d \in Calls \ {c} : pc'[d] = pc[d] /\ result'[d] = result[d]
    BY <1>3
    DEF ExistsList, ExistsListFails, Enqueue, Receive, Expire, UpdateReply, StartDelete
  <2> QED
    BY <1>0, <2>1, <2>2, <2>3, ExplanationsKept
<1>4. ASSUME NEW c \in Calls, CreateReply(c)
      PROVE  HasReason(t)'
  BY <1>0, <1>4 DEF CreateReply, HasReason, Explains, PlaceInv, Op, Topic
<1>5. ASSUME NEW c \in Calls, DeleteReply(c)
      PROVE  HasReason(t)'
  BY <1>0, <1>5 DEF DeleteReply, HasReason, Explains, PlaceInv, Op, Topic
<1>6. ASSUME NEW c \in Calls, Evict(c)
      PROVE  HasReason(t)'
  BY <1>0, <1>6 DEF Evict, HasReason, Explains, PlaceInv, Op, Topic
<1>7. CASE UNCHANGED <<callVars, seenTopics, remote>>
  BY <1>0, <1>7 DEF HasReason, Explains, Op, Topic
<1>8. CASE WorkerStep \/ Settle
  BY <1>7, <1>8
  DEF WorkerStep, Withdraw, NextChunk, FetchDone, V2Listed, V2Retry, V2Fails, Send, SendPanics,
      Settle
<1>9. ASSUME NEW s \in PowersOff, PowerOff(s)
      PROVE  HasReason(t)'
  BY <1>0, <1>9 DEF PowerOff, TopicsOf, HasReason, Explains, Op, Topic
<1> QED
  BY <1>1, <1>2, <1>3, <1>4, <1>5, <1>6, <1>7, <1>8, <1>9 DEF Next, CallStep, vars

\* A marked name exists, or a call explains its mark: every mark of seenTopics
\* was set by v1List or by a Create, and whoever removes the topic removes the
\* mark too, or has failed (rep.exists, Create, Delete).
THEOREM MarksHaveReasons == Spec => []MarkedHasReason
<1>1. Init => MarkedHasReason
  BY DEF Init, MarkedHasReason
<1>2. Spec => [](TypeInv /\ PlaceInv)
  BY NamesInductive, PTL DEF NamesInv
<1>3. TypeInv /\ PlaceInv /\ MarkedHasReason /\ [Next]_vars => MarkedHasReason'
  BY MarkedStep
<1> QED
  BY <1>1, <1>2, <1>3, PTL DEF Spec
-----------------------------------------------------------------------------
(* Answers.                                                                *)

LEMMA WholeChunk ==
  ASSUME NEW s, OneChunk(s), NEW names \in SUBSET TopicsOf(s), NEW some \in Chunks(names)
  PROVE  some = names
BY DEF OneChunk

LEMMA AnswersStep == AnswersInv /\ PlaceInv /\ [Next]_vars => AnswersInv'
<1> SUFFICES ASSUME AnswersInv, PlaceInv, [Next]_vars
             PROVE  (QueueInv /\ BatchInv /\ TodoInv /\ ListingInv /\ SendingInv)'
  BY TypeStep DEF AnswersInv
<1> DEFINE Frame ==
      /\ UNCHANGED <<job, queue, workerVars>>
      /\ \A c \in Calls : /\ Asked(c) => Asked(c)'
                          /\ chan[c] = "empty" <=> chan'[c] = "empty"
<1> DEFINE Goal == QueueInv /\ BatchInv /\ TodoInv /\ ListingInv /\ SendingInv
<1> USE ConstantFacts
    DEF AnswersInv, TypeInv, TypeOK, PCs, ChanStates, WorkerStates, QueueInv, BatchInv,
        TodoInv, ListingInv, SendingInv, BatchCovers, Silent, Requested, Asked, Topic, OneChunk,
        TopicsOf, Chunks
<1>0. Frame => Goal'
  <2> SUFFICES ASSUME Frame
               PROVE  Goal'
    OBVIOUS
  <2> USE DEF workerVars
  <2>1. QueueInv' /\ BatchInv'
    OBVIOUS
  <2>2. TodoInv'
    OBVIOUS
  <2>3. ListingInv'
    OBVIOUS
  <2>4. SendingInv'
    OBVIOUS
  <2> QED
    BY <2>1, <2>2, <2>3, <2>4
<1>1. ASSUME NEW c \in Calls, ExistsCached(c)
      PROVE  Frame
  BY <1>1 DEF ExistsCached, Goto, Return, workerVars, Found, Missing
<1>2. ASSUME NEW c \in Calls, ExistsList(c)
      PROVE  Frame
  BY <1>2 DEF ExistsList, Goto, Return, workerVars
<1>3. ASSUME NEW c \in Calls, ExistsListed(c)
      PROVE  Frame
  BY <1>3 DEF ExistsListed, Goto, Return, workerVars, Found, Missing
<1>4. ASSUME NEW c \in Calls, ExistsListFails(c)
      PROVE  Frame
  BY <1>4 DEF ExistsListFails, Goto, Return, workerVars
<1>5. ASSUME NEW c \in Calls, Enqueue(c)
      PROVE  Goal'
  <2> USE <1>5 DEF Enqueue, Goto, workerVars
  <2>1. /\ ~ Asked(c) /\ chan[c] = "empty"
        /\ \A t \in Topics : batch[t] # c
    <3>1. ~ Asked(c)
      OBVIOUS
    <3>2. chan[c] = "empty"
      BY <3>1 DEF QueueInv
    <3>3. \A t \in Topics : batch[t] # c
      <4> HIDE DEF Asked
      <4> QED
        BY <3>1 DEF BatchInv
    <3> QED
      BY <3>1, <3>2, <3>3
  <2>2. QueueInv'
    BY <2>1
  <2>3. BatchInv'
    BY <2>1
  <2>4. UNCHANGED <<job, chan, worker, batch, todo, chunk, outbox>>
    OBVIOUS
  <2>5. TodoInv' /\ ListingInv' /\ SendingInv'
    <3>0. TodoInv /\ ListingInv /\ SendingInv
      BY DEF AnswersInv
    <3> HIDE <1>5 DEF Enqueue, Goto, QueueInv, BatchInv, workerVars, BatchCovers, Asked, TypeOK,
                      TypeInv, AnswersInv, PCs, ChanStates, WorkerStates, OneChunk, Chunks
    <3>1. TodoInv'
      BY <2>4, <3>0
    <3>2. ListingInv'
      BY <2>4, <3>0
    <3>3. SendingInv'
      BY <2>4, <3>0
    <3> QED
      BY <3>1, <3>2, <3>3
  <2> QED
    BY <2>2, <2>3, <2>5
<1>6. ASSUME NEW c \in Calls, Receive(c)
      PROVE  Frame
  BY <1>6 DEF Receive, Goto, Return, workerVars
<1>7. ASSUME NEW c \in Calls, Expire(c)
      PROVE  Frame
  BY <1>7 DEF Expire, Goto, Return, workerVars
<1>8. ASSUME NEW c \in Calls, CreateReply(c)
      PROVE  Frame
  BY <1>8 DEF CreateReply, Goto, Return, workerVars
<1>9. ASSUME NEW c \in Calls, UpdateReply(c)
      PROVE  Frame
  BY <1>9 DEF UpdateReply, Goto, Return, workerVars
<1>10. ASSUME NEW c \in Calls, StartDelete(c)
      PROVE  Frame
  BY <1>10 DEF StartDelete, Goto, Return, workerVars
<1>11. ASSUME NEW c \in Calls, DeleteReply(c)
      PROVE  Frame
  BY <1>11 DEF DeleteReply, Goto, Return, workerVars
<1>12. ASSUME NEW c \in Calls, Evict(c)
      PROVE  Frame
  BY <1>12 DEF Evict, Goto, Return, workerVars
<1>13. CASE Withdraw
  <2> USE <1>13 DEF Withdraw, callVars
  <2>1. \A t \in Topics : LastRequest(t) # NoCall =>
          \E i \in 1..Len(queue) : LastRequest(t) = queue[i] /\ Topic(queue[i]) = t
    BY DEF LastRequest, IsLast
  <2>2. \A t \in Topics : batch'[t] # NoCall =>
          Topic(batch'[t]) = t /\ Asked(batch'[t]) /\ chan[batch'[t]] = "empty"
    BY <2>1
  <2>3. QueueInv' /\ BatchInv'
    BY <2>2
  <2>4. TodoInv'
    BY <2>2
  <2> QED
    BY <2>3, <2>4
<1>14. CASE NextChunk
  <2>1. PICK s \in Services : /\ chunk' \in Chunks(todo \cap TopicsOf(s))
                              /\ todo' = todo \ chunk'
    <3> HIDE DEF AnswersInv, TypeInv, TypeOK, QueueInv, BatchInv, TodoInv, ListingInv,
                 SendingInv, BatchCovers, OneChunk, TopicsOf, Chunks
    <3> QED
      BY <1>14 DEF NextChunk
  <2>2. chunk' \subseteq todo /\ chunk' \subseteq TopicsOf(s)
    BY <2>1, ChunksWithin
  <2>3. OneChunk(s) => chunk' = todo \cap TopicsOf(s)
    BY <2>1, WholeChunk
  <2>4. UNCHANGED <<callVars, queue, chan, batch>> /\ worker' = "listing"
    BY <1>14 DEF NextChunk
  <2> USE <2>4 DEF callVars
  <2>5. QueueInv' /\ BatchInv'
    OBVIOUS
  <2>6. TodoInv' /\ ListingInv'
    <3>0. /\ TodoInv /\ todo \subseteq Topics /\ chunk' \subseteq Topics
          /\ \A t \in TopicsOf(s) : ServiceOf[t] = s
      BY <2>2 DEF AnswersInv
    <3> HIDE DEF AnswersInv, TypeInv, TypeOK, PCs, ChanStates, WorkerStates, QueueInv, BatchInv,
                 SendingInv, BatchCovers, Asked, OneChunk, Chunks, TopicsOf
    <3>1. TodoInv'
      <4> SUFFICES ASSUME NEW t \in todo'
                   PROVE  /\ batch[t] # NoCall
                          /\ OneChunk(ServiceOf[t]) =>
                               Requested(ServiceOf[t]) \subseteq todo' /\ Silent(ServiceOf[t])
        BY <2>4
      <4>1. t \in todo /\ t \notin chunk'
        BY <2>1
      <4>2. OneChunk(ServiceOf[t]) => ServiceOf[t] # s
        BY <2>3, <3>0, <4>1 DEF TopicsOf
      <4>3. ASSUME ServiceOf[t] # s, NEW u \in Requested(ServiceOf[t])
            PROVE  u \notin chunk'
        BY <2>2, <3>0, <4>3 DEF TopicsOf
      <4> QED
        BY <2>1, <3>0, <4>1, <4>2, <4>3
    <3>2. ListingInv'
      <4> SUFFICES ASSUME NEW t \in chunk'
                   PROVE  /\ batch[t] # NoCall
                          /\ \A u \in chunk' : ServiceOf[u] = ServiceOf[t]
                          /\ OneChunk(ServiceOf[t]) =>
                               /\ todo' \cap TopicsOf(ServiceOf[t]) = {}
                               /\ Silent(ServiceOf[t])
        BY <2>4
      <4>1. t \in todo /\ ServiceOf[t] = s /\ \A u \in chunk' : ServiceOf[u] = s
        BY <2>2, <3>0
      <4> QED
        BY <2>1, <2>3, <3>0, <4>1
    <3> QED
      BY <3>1, <3>2
  <2>7. SendingInv'
    BY <2>4
  <2> QED
    BY <2>5, <2>6, <2>7
<1>15. CASE FetchDone
  BY <1>15 DEF FetchDone, StartSending, callVars
<1>16. CASE V2Listed
  <2> USE <1>16 DEF V2Listed, StartSending, callVars
  <2>1. QueueInv' /\ BatchInv' /\ TodoInv' /\ ListingInv'
    OBVIOUS
  <2>2. SendingInv'
    BY DEF Requested
  <2> QED
    BY <2>1, <2>2
<1>17. CASE V2Retry
  BY <1>17 DEF V2Retry, StartSending, callVars
<1>18. CASE V2Fails
  <2> USE <1>18 DEF V2Fails, StartSending, callVars
  <2>1. QueueInv' /\ BatchInv' /\ TodoInv' /\ ListingInv'
    OBVIOUS
  <2>2. SendingInv'
    BY DEF Requested
  <2> QED
    BY <2>1, <2>2
<1>19. ASSUME NEW c \in Calls, Send(c)
       PROVE  Goal'
  BY <1>19 DEF Send, callVars
<1>20. ASSUME NEW c \in Calls, SendPanics(c)
       PROVE  Goal'
  BY <1>20 DEF SendPanics, callVars
<1>21. CASE UNCHANGED <<callVars, queue, chan, workerVars>>
  BY <1>0, <1>21 DEF callVars, workerVars
<1>22. CASE Settle \/ \E s \in PowersOff : PowerOff(s)
  BY <1>21, <1>22 DEF Settle, PowerOff
<1> QED
  BY <1>0, <1>1, <1>2, <1>3, <1>4, <1>5, <1>6, <1>7, <1>8, <1>9, <1>10, <1>11, <1>12, <1>13,
     <1>14, <1>15, <1>16, <1>17, <1>18, <1>19, <1>20, <1>21, <1>22
  DEF Next, CallStep, WorkerStep, vars

\* The outbox is empty but while the worker sends.
OutboxInv == worker \notin {"sending", "panicked"} => outbox = {}

\* Only Reads are queued and batched.
ReadersInv ==
  /\ \A i \in 1..Len(queue) : Op(queue[i]) = "Read"
  /\ \A t \in Topics : batch[t] # NoCall => Op(batch[t]) = "Read"

\* Only a Read that has returned has closed its channel.
ClosedInv == \A c \in Calls : chan[c] = "closed" => pc[c] = "done"

ReadsInv == AnswersInv /\ PlaceInv /\ OutboxInv /\ ReadersInv /\ ClosedInv

LEMMA ClosedStep == TypeInv /\ ClosedInv /\ [Next]_vars => ClosedInv'
<1> SUFFICES ASSUME TypeInv, ClosedInv, [Next]_vars
             PROVE  ClosedInv'
  OBVIOUS
<1> USE DEF TypeInv, TypeOK, PCs, ChanStates, ClosedInv, callVars
<1>1. ASSUME NEW c \in Calls, CallStep(c) \/ Expire(c)
      PROVE  ClosedInv'
  BY <1>1
  DEF CallStep, ExistsCached, ExistsList, ExistsListed, ExistsListFails, Enqueue, Receive,
      Expire, CreateReply, UpdateReply, StartDelete, DeleteReply, Evict, Found, Missing, Goto,
      Return
<1>2. ASSUME NEW c \in Calls, Send(c)
      PROVE  ClosedInv'
  BY <1>2 DEF Send
<1>3. CASE UNCHANGED <<callVars, chan>>
  BY <1>3
<1> QED
  BY <1>1, <1>2, <1>3
  DEF Next, WorkerStep, vars, Withdraw, NextChunk, FetchDone, V2Listed, V2Retry, V2Fails,
      SendPanics, Settle, PowerOff

LEMMA ReadersStep == TypeInv /\ PlaceInv /\ ReadersInv /\ [Next]_vars => ReadersInv'
<1> SUFFICES ASSUME TypeInv, PlaceInv, ReadersInv, [Next]_vars
             PROVE  ReadersInv'
  OBVIOUS
<1>1. UNCHANGED job
  BY DEF Next, CallStep, WorkerStep, vars, callVars, ExistsCached, ExistsList, ExistsListed,
         ExistsListFails, Enqueue, Receive, Expire, CreateReply, UpdateReply, StartDelete,
         DeleteReply, Evict, Found, Missing, Goto, Return, Withdraw, NextChunk, FetchDone,
         V2Listed, V2Retry, V2Fails, Send, SendPanics, Settle, PowerOff
<1>2. ASSUME NEW c \in Calls, Enqueue(c)
      PROVE  ReadersInv'
  <2>1. Op(c) = "Read" /\ queue' = Append(queue, c) /\ UNCHANGED batch
    BY <1>2 DEF Enqueue, PlaceInv, workerVars
  <2> QED
    BY <1>1, <2>1 DEF TypeInv, TypeOK, ReadersInv, Op
<1>3. CASE Withdraw
  <2>1. \A t \in Topics : LastRequest(t) # NoCall =>
          \E i \in 1..Len(queue) : LastRequest(t) = queue[i]
    BY DEF LastRequest, IsLast
  <2> QED
    BY <1>1, <1>3, <2>1 DEF Withdraw, ReadersInv, Op
<1>4. CASE UNCHANGED <<queue, batch>>
  BY <1>1, <1>4 DEF ReadersInv, Op
<1> QED
  BY <1>2, <1>3, <1>4
  DEF Next, CallStep, WorkerStep, vars, workerVars, ExistsCached, ExistsList, ExistsListed,
      ExistsListFails, Receive, Expire, CreateReply, UpdateReply, StartDelete,
      DeleteReply, Evict, NextChunk, FetchDone, V2Listed, V2Retry, V2Fails, Send,
      SendPanics, Settle, PowerOff

LEMMA ReadsInductive == Spec => []ReadsInv
<1>1. Init => ReadsInv
  <2> SUFFICES ASSUME Init
               PROVE  ReadsInv
    OBVIOUS
  <2>1. PlaceInv /\ OutboxInv /\ ReadersInv /\ ClosedInv
    BY DEF Init, PlaceInv, OutboxInv, ReadersInv, ClosedInv
  <2>2. QueueInv /\ BatchInv /\ TodoInv /\ ListingInv /\ SendingInv
    BY DEF Init, QueueInv, BatchInv, TodoInv, ListingInv, SendingInv
  <2> QED
    BY <2>1, <2>2, TypeInit DEF ReadsInv, AnswersInv
<1>2. ReadsInv /\ [Next]_vars => OutboxInv'
  BY DEF ReadsInv, AnswersInv, TypeInv, TypeOK, OutboxInv, Next, CallStep, WorkerStep, vars,
         workerVars, ExistsCached, ExistsList, ExistsListed, ExistsListFails, Enqueue, Receive,
         Expire, CreateReply, UpdateReply, StartDelete, DeleteReply, Evict, Withdraw,
         NextChunk, FetchDone, V2Listed, V2Retry, V2Fails, StartSending, Send, SendPanics,
         Settle, PowerOff
<1>3. ReadsInv /\ [Next]_vars => ReadsInv'
  BY <1>2, AnswersStep, PlaceStep, ReadersStep, ClosedStep DEF ReadsInv, AnswersInv
<1> QED
  BY <1>1, <1>3, PTL DEF Spec

\* No request to a service that fits one chunk is ever sent a second
\* response, whatever the other services of the batch do.
THEOREM AnswersAreSingle == Spec => []AnsweredAtMostOnce
<1>1. ReadsInv => AnsweredAtMostOnce
  BY DEF ReadsInv, AnswersInv, SendingInv, AnsweredAtMostOnce
<1> QED
  BY <1>1, ReadsInductive, PTL

\* While no service has more topics than a chunk takes, the worker goroutine,
\* and the process with it, survives every batch.
THEOREM WorkerSurvivesOneChunk ==
  ASSUME \A s \in Services : OneChunk(s)
  PROVE  Spec => []WorkerSurvives
<1>1. Init => WorkerSurvives
  BY DEF Init, WorkerSurvives
<1>2. ReadsInv /\ WorkerSurvives /\ [Next]_vars => WorkerSurvives'
  <2> SUFFICES ASSUME ReadsInv, NEW c \in Calls, SendPanics(c)
               PROVE  FALSE
    BY DEF WorkerSurvives, Next, CallStep, WorkerStep, vars,
         workerVars, ExistsCached, ExistsList, ExistsListed, ExistsListFails, Enqueue, Receive,
         Expire, CreateReply, UpdateReply, StartDelete, DeleteReply, Evict, Withdraw,
         NextChunk, FetchDone, V2Listed, V2Retry, V2Fails, StartSending, Send, Settle, PowerOff
  <2>1. ServiceOf[Topic(c)] \in Services
    BY ConstantFacts
    DEF ReadsInv, AnswersInv, TypeInv, TypeOK, Topic, Jobs
  <2> QED
    BY <2>1 DEF SendPanics, ReadsInv, AnswersInv, SendingInv
<1> QED
  BY <1>1, <1>2, ReadsInductive, PTL DEF Spec

-----------------------------------------------------------------------------
(* The repository implements TopicReads.                                   *)

LEMMA CallTouchesItself ==
  ASSUME ReadsInv, NEW c \in Calls, CallStep(c) \/ Expire(c)
  PROVE  /\ UNCHANGED <<job, workerVars>>
         /\ \A d \in Calls \ {c} : pc'[d] = pc[d] /\ result'[d] = result[d] /\ chan'[d] = chan[d]
         /\ remote' \subseteq Topics
         /\ Op(c) # "Read" => UNCHANGED chan
         /\ Op(c) = "Read" => UNCHANGED remote
<1> DEFINE Goal ==
      /\ UNCHANGED <<job, workerVars>>
      /\ \A d \in Calls \ {c} : pc'[d] = pc[d] /\ result'[d] = result[d] /\ chan'[d] = chan[d]
      /\ remote' \subseteq Topics
      /\ Op(c) # "Read" => UNCHANGED chan
      /\ Op(c) = "Read" => UNCHANGED remote
<1> USE DEF ReadsInv, AnswersInv, TypeInv, TypeOK, PlaceInv, Goto, Return, Op, Topic, Jobs,
            remoteVars
<1>1. CASE ExistsCached(c)
  BY <1>1 DEF ExistsCached, Found, Missing
<1>2. CASE ExistsList(c)
  BY <1>2 DEF ExistsList
<1>3. CASE ExistsListed(c)
  BY <1>3 DEF ExistsListed, Found, Missing
<1>4. CASE ExistsListFails(c)
  BY <1>4 DEF ExistsListFails
<1>5. CASE Enqueue(c)
  BY <1>5 DEF Enqueue
<1>6. CASE Receive(c)
  BY <1>6 DEF Receive
<1>7. CASE Expire(c)
  BY <1>7 DEF Expire
<1>8. CASE CreateReply(c)
  BY <1>8 DEF CreateReply
<1>9. CASE UpdateReply(c)
  BY <1>9 DEF UpdateReply
<1>10. CASE StartDelete(c)
  BY <1>10 DEF StartDelete
<1>11. CASE DeleteReply(c)
  BY <1>11 DEF DeleteReply
<1>12. CASE Evict(c)
  BY <1>12 DEF Evict
<1> QED
  BY <1>1, <1>2, <1>3, <1>4, <1>5, <1>6, <1>7, <1>8, <1>9, <1>10, <1>11, <1>12 DEF CallStep

\* A step of a call that is not a Read may change the backend, no more.
LEMMA OtherCallKeepsReads ==
  ASSUME ReadsInv, NEW c \in Calls, CallStep(c) \/ Expire(c), Op(c) # "Read"
  PROVE  Reads!Change
<1>1. UNCHANGED <<ReadPhase, ReadAnswer, job>> /\ remote' \subseteq Topics
  BY CallTouchesItself DEF ReadPhase, ReadAnswer, Op, workerVars
<1> QED
  BY <1>1 DEF Reads!Change, Topic

\* A Read asks, returns, or does something its reader does not see.
LEMMA ReadCallKeepsReads ==
  ASSUME ReadsInv, NEW c \in Calls, CallStep(c) \/ Expire(c), Op(c) = "Read",
         worker # "panicked", \A s \in Services : OneChunk(s)
  PROVE  Reads!Ask(c) \/ Reads!Return(c) \/ UNCHANGED Reads!vars
<1> USE DEF Op
<1>1. /\ UNCHANGED <<job, remote, outbox, reply>>
      /\ \A d \in Calls \ {c} : ReadPhase'[d] = ReadPhase[d] /\ ReadAnswer'[d] = ReadAnswer[d]
  BY CallTouchesItself DEF ReadPhase, ReadAnswer, workerVars
<1>2. UNCHANGED <<[d \in Calls |-> Topic(d)], remote>>
  BY <1>1 DEF Topic
<1>3. /\ ReadPhase = [d \in Calls |-> ReadPhase[d]] /\ ReadPhase' = [d \in Calls |-> ReadPhase'[d]]
      /\ ReadAnswer = [d \in Calls |-> ReadAnswer[d]] /\ ReadAnswer' = [d \in Calls |-> ReadAnswer'[d]]
  BY DEF ReadPhase, ReadAnswer
<1> DEFINE Same == ReadPhase'[c] = ReadPhase[c] /\ ReadAnswer'[c] = ReadAnswer[c]
           Asks == /\ ReadPhase[c] = "idle" /\ ReadPhase'[c] = "asked"
                   /\ ReadAnswer'[c] = ReadAnswer[c]
           Ends == /\ ReadPhase[c] # "returned" /\ ReadPhase'[c] = "returned"
                   /\ \/ ReadPhase[c] = "answered" /\ ReadAnswer'[c] = ReadAnswer[c]
                      \/ ReadAnswer'[c] = "none"
<1>4. Same \/ Asks \/ Ends
  <2> USE DEF ReadsInv, AnswersInv, TypeInv, TypeOK, PCs, ChanStates, Results, PlaceInv, QueueInv,
              SendingInv, BatchInv, Asked, Goto, Return, ReadPhase, ReadAnswer, callVars
  <2>1. pc[c] \notin {"waiting", "done"} => c \notin outbox /\ chan[c] = "empty"
    <3>1. ASSUME c \in outbox
          PROVE  Asked(c)
      <4>1. worker = "sending"
        BY <3>1 DEF OutboxInv, WorkerStates
      <4>2. PICK t \in Topics : batch[t] = c
        BY <3>1, <4>1
      <4> QED
        BY <4>2, ConstantFacts
    <3> QED
      BY <3>1
  <2>2. CASE ExistsCached(c)
    BY <1>1, <2>1, <2>2 DEF ExistsCached, Found, Missing
  <2>3. CASE ExistsList(c)
    BY <1>1, <2>1, <2>3 DEF ExistsList
  <2>4. CASE ExistsListed(c)
    BY <1>1, <2>1, <2>4 DEF ExistsListed, Found, Missing
  <2>5. CASE ExistsListFails(c)
    BY <1>1, <2>1, <2>5 DEF ExistsListFails
  <2>6. CASE Enqueue(c)
    BY <1>1, <2>1, <2>6 DEF Enqueue
  <2>7. CASE Receive(c)
    <3>1. c \notin outbox
      <4>1. ServiceOf[Topic(c)] \in Services
        BY ConstantFacts DEF Topic, Jobs
      <4>2. c \in outbox => worker = "sending" /\ chan[c] = "empty"
        BY <4>1 DEF OutboxInv, WorkerStates
      <4> QED
        BY <2>7, <4>2 DEF Receive
    <3>2. /\ pc[c] = "waiting" /\ pc'[c] = "done" /\ result'[c] = chan[c]
          /\ chan[c] \in {"ok", "error"} /\ chan'[c] = "closed"
      BY <2>7 DEF Receive
    <3>3. /\ ReadPhase[c] = "answered" /\ ReadPhase'[c] = "returned"
          /\ ReadAnswer[c] = chan[c] /\ ReadAnswer'[c] = chan[c]
      <4> HIDE DEF ReadsInv, AnswersInv, TypeInv, TypeOK, PlaceInv, QueueInv, SendingInv, BatchInv
      <4> QED
        BY <1>1, <3>1, <3>2
    <3> QED
      BY <3>3
  <2>8. CASE Expire(c)
    BY <1>1, <2>8 DEF Expire, ClosedInv
  <2> QED
    BY <2>2, <2>3, <2>4, <2>5, <2>6, <2>7, <2>8
    DEF CallStep, CreateReply, UpdateReply, StartDelete, DeleteReply, Evict
<1>5. CASE Same
  BY <1>1, <1>2, <1>3, <1>5 DEF Reads!vars
<1>6. CASE Asks
  BY <1>1, <1>2, <1>3, <1>6 DEF Reads!Ask
<1>7. CASE Ends
  BY <1>1, <1>2, <1>3, <1>7 DEF Reads!Return
<1> QED
  BY <1>4, <1>5, <1>6, <1>7

\* Sending answers to a set of requests whose channels are empty.
LEMMA SendingAnswers ==
  ASSUME ReadsInv, NEW calls \in SUBSET Calls, NEW response \in {"ok", "error"},
         outbox = {}, StartSending(calls, response),
         UNCHANGED <<job, pc, result, chan, remote>>,
         \A c \in calls : Op(c) = "Read" /\ Asked(c) /\ chan[c] = "empty",
         response = "ok" => \A c \in calls : Topic(c) \in remote
  PROVE  Reads!Next
<1> DEFINE waiting == {c \in calls : pc[c] = "waiting"}
<1> USE DEF ReadsInv, AnswersInv, TypeInv, TypeOK, PCs, Asked
<1>1. \A c \in waiting : ReadPhase[c] = "asked"
  BY DEF ReadPhase
<1>2. ReadPhase' = [c \in Calls |-> IF c \in waiting THEN "answered" ELSE ReadPhase[c]]
  BY DEF ReadPhase, StartSending, Op
<1>3. ReadAnswer' = [c \in Calls |-> IF c \in waiting THEN response ELSE ReadAnswer[c]]
  BY DEF ReadAnswer, StartSending, Op
<1>4. Reads!Answer(waiting)
  BY <1>1, <1>2, <1>3 DEF Reads!Answer, Topic
<1> QED
  BY <1>4 DEF Reads!Next

LEMMA WorkerKeepsReads ==
  ASSUME ReadsInv, worker # "panicked", \A s \in Services : OneChunk(s), WorkerStep
  PROVE  Reads!Next \/ UNCHANGED Reads!vars
<1> USE DEF callVars, remoteVars
<1>1. ASSUME UNCHANGED <<callVars, chan, outbox, reply, remote>>
      PROVE  UNCHANGED Reads!vars
  BY <1>1 DEF Reads!vars, ReadPhase, ReadAnswer, Op, Topic
<1>2. CASE Withdraw \/ NextChunk \/ FetchDone \/ V2Retry
  BY <1>1, <1>2 DEF Withdraw, NextChunk, FetchDone, V2Retry
<1> USE DEF Asked
<1>3. \A t \in Topics : batch[t] # NoCall =>
        batch[t] \in Calls /\ Topic(batch[t]) = t /\ Asked(batch[t]) /\ Op(batch[t]) = "Read"
  BY DEF ReadsInv, AnswersInv, TypeInv, TypeOK, BatchInv, ReadersInv
<1>4. \A t \in Topics : ServiceOf[t] \in Services
  BY ConstantFacts
<1>5. chunk \subseteq Topics /\ outbox \subseteq Calls
  BY DEF ReadsInv, AnswersInv, TypeInv, TypeOK
<1>6. worker = "listing" =>
        /\ outbox = {}
        /\ \A t \in chunk : batch[t] # NoCall /\ Silent(ServiceOf[t]) /\ t \in Requested(ServiceOf[t])
  BY <1>4, <1>5 DEF ReadsInv, AnswersInv, ListingInv, OutboxInv, Requested, TopicsOf
<1>7. CASE V2Listed
  <2> DEFINE calls == {batch[t] : t \in chunk}
  <2>1. /\ worker = "listing" /\ chunk \subseteq remote /\ StartSending(calls, "ok")
        /\ UNCHANGED <<job, pc, result, chan, remote>>
    BY <1>7 DEF V2Listed
  <2>2. \A t \in chunk : /\ batch[t] \in Calls /\ Op(batch[t]) = "Read" /\ Asked(batch[t])
                          /\ chan[batch[t]] = "empty" /\ Topic(batch[t]) \in remote
    BY <1>3, <1>5, <1>6, <2>1 DEF Silent
  <2> HIDE DEF Asked
  <2>3. /\ calls \in SUBSET Calls
        /\ \A c \in calls : Op(c) = "Read" /\ Asked(c) /\ chan[c] = "empty" /\ Topic(c) \in remote
    BY <2>2
  <2> HIDE DEF calls
  <2> QED
    BY <1>6, <2>1, <2>3, SendingAnswers
<1>8. CASE V2Fails
  <2>1. PICK t \in chunk : StartSending({batch[u] : u \in Requested(ServiceOf[t])}, "error")
    BY <1>8 DEF V2Fails
  <2> DEFINE calls == {batch[u] : u \in Requested(ServiceOf[t])}
  <2>2. /\ worker = "listing" /\ StartSending(calls, "error")
        /\ UNCHANGED <<job, pc, result, chan, remote>>
    BY <1>8, <2>1 DEF V2Fails
  <2>3. \A u \in Requested(ServiceOf[t]) :
          /\ batch[u] \in Calls /\ Op(batch[u]) = "Read" /\ Asked(batch[u])
          /\ chan[batch[u]] = "empty"
    BY <1>3, <1>6, <2>2 DEF Silent, Requested, TopicsOf
  <2> HIDE DEF Asked
  <2>4. /\ calls \in SUBSET Calls
        /\ \A c \in calls : Op(c) = "Read" /\ Asked(c) /\ chan[c] = "empty"
    BY <2>3
  <2> HIDE DEF calls
  <2> QED
    BY <1>6, <2>2, <2>4, SendingAnswers
<1>9. ASSUME NEW c \in Calls, Send(c)
      PROVE  UNCHANGED Reads!vars
  <2>1. /\ c \in outbox /\ chan[c] = "empty" /\ reply \in {"ok", "error"}
        /\ chan' = [chan EXCEPT ![c] = reply] /\ outbox' = outbox \ {c}
        /\ UNCHANGED <<job, pc, result, reply, remote>>
        /\ chan \in [Calls -> ChanStates]
    BY <1>9 DEF Send, ReadsInv, AnswersInv, TypeInv, TypeOK
  <2>2. ReadPhase' = ReadPhase
    BY <2>1 DEF ReadPhase, Op
  <2>3. ReadAnswer' = ReadAnswer
    BY <2>1 DEF ReadAnswer, Op
  <2> QED
    BY <2>1, <2>2, <2>3 DEF Reads!vars, Topic
<1>10. ASSUME NEW c \in Calls, SendPanics(c)
       PROVE  UNCHANGED Reads!vars
  BY <1>1, <1>10 DEF SendPanics
<1> QED
  BY <1>2, <1>7, <1>8, <1>9, <1>10 DEF WorkerStep

\* While every service fits one chunk, the repository implements TopicReads:
\* each Read is answered at most once, and a positive answer was looked up
\* while the topic existed, after the Read had asked and before it returned.
THEOREM ReadsAreKept ==
  ASSUME \A s \in Services : OneChunk(s)
  PROVE  Spec => ReadsKept
<1>1. Init => Reads!Init
  <2> SUFFICES ASSUME Init
               PROVE  Reads!Init
    OBVIOUS
  <2>1. job \in [Calls -> Jobs]
    BY ConstantsAssumption DEF Init, ConstantsAssumption
  <2> QED
    BY <2>1 DEF Init, Reads!Init, ReadPhase, ReadAnswer, Topic, Jobs
<1>2. ReadsInv /\ [Next]_vars => [Reads!Next]_(Reads!vars)
  <2> SUFFICES ASSUME ReadsInv, [Next]_vars
               PROVE  Reads!Next \/ UNCHANGED Reads!vars
    OBVIOUS
  <2>1. ASSUME NEW c \in Calls, CallStep(c) \/ Expire(c), worker # "panicked"
        PROVE  Reads!Next \/ UNCHANGED Reads!vars
    BY <2>1, OtherCallKeepsReads, ReadCallKeepsReads DEF Reads!Next
  <2>2. CASE WorkerStep /\ worker # "panicked"
    BY <2>2, WorkerKeepsReads
  <2>3. CASE Settle
    BY <2>3
    DEF Settle, Reads!vars, ReadPhase, ReadAnswer, Op, Topic, callVars, workerVars
  <2>4. ASSUME NEW s \in PowersOff, PowerOff(s)
        PROVE  Reads!Change
    BY <2>4
    DEF PowerOff, Reads!Change, ReadPhase, ReadAnswer, Op, Topic, callVars, workerVars,
        ReadsInv, AnswersInv, TypeInv, TypeOK
  <2>5. CASE UNCHANGED vars
    BY <2>5
    DEF vars, Reads!vars, ReadPhase, ReadAnswer, Op, Topic, callVars, workerVars, remoteVars
  <2> QED
    BY <2>1, <2>2, <2>3, <2>4, <2>5 DEF Next, Reads!Next
<1> QED
  BY <1>1, <1>2, ReadsInductive, PTL DEF Spec, ReadsKept, Reads!Spec
==============================================================================
