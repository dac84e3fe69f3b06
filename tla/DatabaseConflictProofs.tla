------------------------- MODULE DatabaseConflictProofs -------------------------
(***************************************************************************)
(* Proofs about DatabaseConflict, for any calls and database names, any    *)
(* page size and any number of attempts.                                   *)
(***************************************************************************)
EXTENDS DatabaseConflict, FiniteSetTheorems, TLAPS

-----------------------------------------------------------------------------
(* The inductive invariant.                                                *)

\* Where a call is agrees with what it does, and it has no result before it
\* is done.
PlaceInv ==
  \A c \in Calls :
    /\ pc[c] # "done" <=> result[c] = "none"
    /\ pc[c] \in {"publish", "mark", "create"} => Op(c) = "Create"
    /\ pc[c] \in {"wait", "forget"} => Op(c) = "Delete"

\* The mark of a name is worth one creator: together with the successful
\* deletes it pays for every Create that passed the check.
MarkInv ==
  \A d \in Databases :
    Cardinality(Creators(d)) <= Cardinality(Deleters(d)) + (IF d \in seen THEN 1 ELSE 0)

\* What has been there since the listing began is on the pages got so far or
\* after the cursor.
PagesInv ==
  \A c \in Calls :
    /\ steady[c] \subseteq remote
    /\ pc[c] = "listing" => \A d \in steady[c] : d \in listed[c] \/ d > cursor[c]
    /\ pc[c] = "listed" => steady[c] \subseteq listed[c]

\* A call knows that a database has been missing since its listing began, or
\* that its own database has.
KnownGone(c, d) ==
  \/ pc[c] \in {"listing", "listed"} /\ d \notin steady[c]
  \/ Database(c) = d /\ (pc[c] = "forget" \/ (Op(c) = "Delete" /\ result[c] = "ok"))

\* If it is there all the same, a Create has made it since.
CreatedInv ==
  \A c \in Calls, d \in remote : KnownGone(c, d) => Creators(d) # {}

\* The result of the listing is kept for good.
OnceInv ==
  /\ listMutex # NoCall => listKept = "none"
  /\ \A c \in Calls : pc[c] = "mark" => listKept = "ok"

Undeleted(d) == \A c \in Calls : ~ (Op(c) = "Delete" /\ Database(c) = d)

\* A name that no call deletes is never dropped; if it exists, it is marked,
\* unless the listing has yet to find it.
UndeletedInv ==
  \A d \in Databases :
    Undeleted(d) =>
      /\ d \notin dropping
      /\ Creators(d) # {} => d \in seen
      /\ d \in remote =>
           /\ \A c \in Calls : pc[c] = "publish" => d \in seen \cup listed[c]
           /\ listKept = "ok" => d \in seen

IInv ==
  TypeOK /\ PlaceInv /\ MarkInv /\ PagesInv /\ CreatedInv /\ OnceInv /\ UndeletedInv

-----------------------------------------------------------------------------
(* Finite sets of numbers.                                                 *)

\* A finite set of numbers that is not empty has a least and a greatest one.
LEMMA Ends ==
  ASSUME NEW S, S \subseteq Nat, IsFiniteSet(S), S # {}
  PROVE  \E least, greatest \in S : \A n \in S : least <= n /\ n <= greatest
<1> DEFINE Bounded(A) == \E least, greatest \in A : \A n \in A : least <= n /\ n <= greatest
           Bad == {A \in FiniteSubsetsOf(S) : A # {} /\ ~ Bounded(A)}
<1> SUFFICES ASSUME ~ Bounded(S)
             PROVE  FALSE
  OBVIOUS
<1>1. S \in Bad
  BY DEF FiniteSubsetsOf
<1>2. PICK A \in Bad : \A B \in Bad : <<B, A>> \notin StrictSubsetOrdering(S)
  <2>1. IsWellFoundedOn(StrictSubsetOrdering(S), FiniteSubsetsOf(S))
    BY FS_StrictSubsetOrderingWellFounded
  <2>2. Bad \subseteq FiniteSubsetsOf(S)
    OBVIOUS
  <2> HIDE DEF Bad
  <2> QED
    BY <1>1, <2>1, <2>2, WFMin
<1>3. A \subseteq S /\ IsFiniteSet(A) /\ A # {} /\ A \subseteq Nat /\ ~ Bounded(A)
  BY DEF FiniteSubsetsOf
<1>4. PICK x \in A : TRUE
  BY <1>3
<1>5. CASE A = {x}
  <2>1. \A n \in A : x <= n /\ n <= x
    BY <1>3, <1>5
  <2> QED
    BY <1>3, <1>4, <2>1
<1>6. CASE A # {x}
  <2>0. PICK y \in A : y # x
    BY <1>4, <1>6
  <2>1. A \ {x} # {} /\ A \ {x} \subseteq S
    BY <1>3, <2>0
  <2>2. IsFiniteSet(A \ {x})
    BY <1>3, FS_RemoveElement
  <2>3. <<A \ {x}, A>> \in StrictSubsetOrdering(S)
    BY <1>3, <1>4, <2>1 DEF StrictSubsetOrdering
  <2>4. Bounded(A \ {x})
    BY <1>2, <2>1, <2>2, <2>3 DEF FiniteSubsetsOf
  <2>5. PICK least, greatest \in A \ {x} : \A n \in A \ {x} : least <= n /\ n <= greatest
    BY <2>4
  <2>6. PICK low \in {least, x} : low <= least /\ low <= x
    BY <1>3, <1>4
  <2>7. PICK high \in {greatest, x} : greatest <= high /\ x <= high
    BY <1>3, <1>4
  <2>8. low \in A /\ high \in A /\ least \in Nat /\ greatest \in Nat /\ A \subseteq Nat
    BY <1>3, <1>4, <2>5, <2>6, <2>7
  <2> HIDE DEF Bounded, Bad
  <2>9. ASSUME NEW n \in A
        PROVE  low <= n /\ n <= high
    <3>1. n \in Nat /\ low \in Nat /\ high \in Nat
      BY <2>8
    <3>2. CASE n = x
      BY <2>6, <2>7, <3>2
    <3>3. CASE n # x
      <4>1. least <= n /\ n <= greatest
        BY <2>5, <3>3
      <4> QED
        BY <2>6, <2>7, <2>8, <3>1, <4>1
    <3> QED
      BY <3>2, <3>3
  <2> QED
    BY <1>3, <2>8, <2>9 DEF Bounded
<1> QED
  BY <1>5, <1>6

LEMMA ConstantFacts ==
  /\ NoCall \notin Calls /\ IsFiniteSet(Calls)
  /\ Databases \subseteq Nat \ {0} /\ IsFiniteSet(Databases)
  /\ PageSize \in Nat \ {0} /\ MaxAttempts \in Nat \ {0}
BY ConstantsAssumption DEF ConstantsAssumption

\* A page that is not the last one has a last name, and leaves out no name
\* up to that.
LEMMA Pages ==
  ASSUME remote \subseteq Databases, NEW name \in Nat, Page(name) # After(name)
  PROVE  /\ Last(Page(name)) \in Page(name)
         /\ \A d \in After(name) : d \in Page(name) \/ d > Last(Page(name))
<1> DEFINE Upto(d) == {e \in After(name) : e <= d}
<1>1. /\ After(name) \subseteq Nat /\ IsFiniteSet(After(name))
      /\ Page(name) \subseteq After(name) /\ IsFiniteSet(Page(name))
      /\ \A d : IsFiniteSet(Upto(d)) /\ Cardinality(Upto(d)) \in Nat
  <2>1. After(name) \subseteq Databases /\ Page(name) \subseteq After(name)
    BY DEF After, Page
  <2>2. \A d : Upto(d) \subseteq Databases
    BY <2>1
  <2> QED
    BY <2>1, <2>2, ConstantFacts, FS_Subset, FS_CardinalityType
<1>2. After(name) # {}
  BY <1>1
<1>3. PICK least \in After(name) : \A n \in After(name) : least <= n
  BY <1>1, <1>2, Ends
<1>4. least \in Page(name)
  <2>1. Upto(least) = {least}
    BY <1>1, <1>3
  <2>2. Cardinality(Upto(least)) = 1
    BY <2>1, FS_Singleton
  <2> QED
    BY <2>2, ConstantFacts DEF Page
<1>5. Last(Page(name)) \in Page(name) /\ \A e \in Page(name) : e <= Last(Page(name))
  <2>1. \E d \in Page(name) : \A e \in Page(name) : e <= d
    BY <1>1, <1>4, Ends
  <2> QED
    BY <2>1 DEF Last
<1>6. ASSUME NEW d \in After(name), ~ (d > Last(Page(name)))
      PROVE  d \in Page(name)
  <2> DEFINE last == Last(Page(name))
  <2>1. last \in After(name) /\ d <= last
    BY <1>1, <1>5, <1>6
  <2> HIDE DEF last
  <2>2. Upto(d) \subseteq Upto(last)
    BY <1>1, <2>1
  <2>3. Cardinality(Upto(d)) <= Cardinality(Upto(last))
    BY <1>1, <2>2, FS_Subset
  <2>4. Cardinality(Upto(last)) <= PageSize
    BY <1>5 DEF Page, last
  <2>5. Cardinality(Upto(d)) <= PageSize
    <3>1. Cardinality(Upto(d)) \in Nat /\ Cardinality(Upto(last)) \in Nat
      BY <1>1
    <3> HIDE DEF Upto
    <3> QED
      BY <2>3, <2>4, <3>1, ConstantFacts
  <2> QED
    BY <2>5 DEF Page
<1> QED
  BY <1>5, <1>6

-----------------------------------------------------------------------------
(* Type correctness.                                                       *)

LEMMA TypeStep == TypeOK /\ [Next]_vars => TypeOK'
<1> SUFFICES ASSUME TypeOK, [Next]_vars
             PROVE  TypeOK'
  OBVIOUS
<1> USE DEF TypeOK, PCs, Errors, Goto, Return, Retry, GiveUp, callVars, onceVars, listVars,
            remoteVars, Power!TypeOK, List!TypeOK, Power!Enter, Power!Leave, Power!Hit,
            List!Enter, List!Leave, List!Hit
<1>0. ASSUME NEW c \in Calls
      PROVE  Database(c) \in Databases
  BY DEF Database, Jobs
<1> DEFINE Rest ==
      /\ job' \in [Calls -> Jobs]
      /\ pc' \in [Calls -> PCs]
      /\ result' \in [Calls -> Errors \cup {"none", "ok"}]
      /\ Power!TypeOK'
      /\ List!TypeOK'
      /\ seen' \subseteq Databases
      /\ listed' \in [Calls -> SUBSET Databases]
      /\ cursor' \in [Calls -> Databases \cup {0}]
      /\ attempt' \in [Calls -> 0..MaxAttempts]
      /\ dropping' \subseteq remote'
      /\ remote' \subseteq Databases
      /\ powered' \in BOOLEAN
<1>1. ASSUME NEW c \in Calls, PowerKnown(c)
      PROVE  Rest
  BY <1>1, ConstantFacts DEF PowerKnown, AfterPower
<1>2. ASSUME NEW c \in Calls, PowerAsked(c)
      PROVE  Rest
  BY <1>2 DEF PowerAsked
<1>3. ASSUME NEW c \in Calls, PowerAnswered(c)
      PROVE  Rest
  BY <1>3, ConstantFacts DEF PowerAnswered, AfterPower
<1>4. ASSUME NEW c \in Calls, StartListing(c)
      PROVE  Rest
  BY <1>4 DEF StartListing, ListingStarts
<1>5. ASSUME NEW c \in Calls, ListPage(c)
      PROVE  Rest
  <2>1. Page(cursor[c]) \subseteq Databases
    BY DEF Page, After
  <2>2. Page(cursor[c]) # After(cursor[c]) => Last(Page(cursor[c])) \in Databases
    BY <2>1, ConstantFacts, Pages
  <2> QED
    BY <1>5, <2>1, <2>2 DEF ListPage, NextPage
<1>6. ASSUME NEW c \in Calls, ListFails(c)
      PROVE  Rest
  BY <1>6, ConstantFacts DEF ListFails
<1>7. ASSUME NEW c \in Calls, Look(c)
      PROVE  Rest
  BY <1>7, ConstantFacts DEF Look
<1>8. ASSUME NEW c \in Calls, ListKnown(c)
      PROVE  Rest
  BY <1>8 DEF ListKnown
<1>9. ASSUME NEW c \in Calls, ListAsked(c)
      PROVE  Rest
  BY <1>9 DEF ListAsked, ListingStarts
<1>10. ASSUME NEW c \in Calls, StartPublishing(c)
       PROVE  Rest
  BY <1>10 DEF StartPublishing
<1>11. ASSUME NEW c \in Calls, Publish(c)
       PROVE  Rest
  BY <1>11 DEF Publish
<1>12. ASSUME NEW c \in Calls, Published(c)
       PROVE  Rest
  BY <1>12 DEF Published
<1>13. ASSUME NEW c \in Calls, Mark(c)
       PROVE  Rest
  BY <1>0, <1>13 DEF Mark
<1>14. ASSUME NEW c \in Calls, CreateReply(c)
       PROVE  Rest
  BY <1>0, <1>14 DEF CreateReply
<1>15. ASSUME NEW c \in Calls, DeleteReply(c)
       PROVE  Rest
  <2>1. dropping' \subseteq remote
    BY <1>15 DEF DeleteReply
  <2>2. 1 \in 0..MaxAttempts
    BY ConstantFacts
  <2>3. /\ Goto(c, "wait") \/ Return(c, "error") \/ Goto(c, "forget")
        /\ attempt' = [attempt EXCEPT ![c] = 1]
        /\ UNCHANGED <<onceVars, seen, listed, cursor, remote, powered>>
    BY <1>15 DEF DeleteReply
  <2> QED
    BY <2>1, <2>2, <2>3
<1>16. ASSUME NEW c \in Calls, Forget(c)
       PROVE  Rest
  BY <1>16 DEF Forget
<1>17. ASSUME Drop
       PROVE  Rest
  <2>1. dropping' \subseteq remote' /\ remote' \subseteq remote
    BY <1>17 DEF Drop
  <2>2. UNCHANGED <<callVars, onceVars, seen, listVars, powered>>
    BY <1>17 DEF Drop
  <2> QED
    BY <2>1, <2>2
<1>18. Rest /\ KeepSteady => TypeOK'
  BY DEF KeepSteady
<1>19. CASE UNCHANGED vars
  BY <1>19 DEF vars
<1> QED
  BY <1>1, <1>2, <1>3, <1>4, <1>5, <1>6, <1>7, <1>8, <1>9, <1>10, <1>11, <1>12, <1>13, <1>14,
     <1>15, <1>16, <1>17, <1>18, <1>19
  DEF Next, CallStep

-----------------------------------------------------------------------------
(* Names.                                                                  *)

LEMMA PlaceStep == TypeOK /\ PlaceInv /\ [Next]_vars => PlaceInv'
<1> SUFFICES ASSUME TypeOK, PlaceInv, [Next]_vars
             PROVE  PlaceInv'
  OBVIOUS
<1> USE DEF TypeOK, PCs, Errors, PlaceInv, Op, Goto, Return, Retry, GiveUp, AsksPower, callVars
<1>1. ASSUME NEW c \in Calls, PowerKnown(c) \/ PowerAsked(c)
      PROVE  PlaceInv'
  BY <1>1 DEF PowerKnown, PowerAsked, AfterPower
<1>2. ASSUME NEW c \in Calls, PowerAnswered(c)
      PROVE  PlaceInv'
  BY <1>2 DEF PowerAnswered, AfterPower
<1>3. ASSUME NEW c \in Calls, StartListing(c) \/ ListPage(c) \/ ListFails(c)
      PROVE  PlaceInv'
  BY <1>3 DEF StartListing, ListPage, NextPage, ListFails, ListingStarts
<1>4. ASSUME NEW c \in Calls, Look(c)
      PROVE  PlaceInv'
  BY <1>4 DEF Look
<1>5. ASSUME NEW c \in Calls, ListKnown(c) \/ ListAsked(c) \/ StartPublishing(c) \/ Published(c)
      PROVE  PlaceInv'
  BY <1>5 DEF ListKnown, ListAsked, ListingStarts, StartPublishing, Published
<1>6. ASSUME NEW c \in Calls, Mark(c) \/ CreateReply(c)
      PROVE  PlaceInv'
  BY <1>6 DEF Mark, CreateReply
<1>7. ASSUME NEW c \in Calls, DeleteReply(c) \/ Forget(c)
      PROVE  PlaceInv'
  BY <1>7 DEF DeleteReply, Forget
<1>8. CASE UNCHANGED callVars
  BY <1>8
<1> QED
  BY <1>1, <1>2, <1>3, <1>4, <1>5, <1>6, <1>7, <1>8
  DEF Next, CallStep, Publish, Drop, vars

\* Only Mark lets a Create through, only Forget ends a Delete well.
LEMMA CountersKept ==
  ASSUME TypeOK, PlaceInv, [Next]_vars, \A c \in Calls : ~ Mark(c) /\ ~ Forget(c)
  PROVE  \A d \in Databases : Creators(d)' = Creators(d) /\ Deleters(d)' = Deleters(d)
<1> DEFINE Kept == \A d \in Databases : Creators(d)' = Creators(d) /\ Deleters(d)' = Deleters(d)
<1> USE DEF TypeOK, PCs, Errors, PlaceInv, Op, Database, Goto, Return, Retry, GiveUp, AsksPower,
            callVars, Creators, Deleters
<1>1. ASSUME NEW c \in Calls, PowerKnown(c) \/ PowerAsked(c)
      PROVE  Kept
  BY <1>1 DEF PowerKnown, PowerAsked, AfterPower
<1>2. ASSUME NEW c \in Calls, PowerAnswered(c)
      PROVE  Kept
  BY <1>2 DEF PowerAnswered, AfterPower
<1>3. ASSUME NEW c \in Calls, StartListing(c) \/ ListPage(c) \/ ListFails(c)
      PROVE  Kept
  BY <1>3 DEF StartListing, ListPage, NextPage, ListFails, ListingStarts
<1>4. ASSUME NEW c \in Calls, Look(c)
      PROVE  Kept
  BY <1>4 DEF Look
<1>5. ASSUME NEW c \in Calls, ListKnown(c) \/ ListAsked(c) \/ StartPublishing(c) \/ Published(c)
      PROVE  Kept
  BY <1>5 DEF ListKnown, ListAsked, ListingStarts, StartPublishing, Published
<1>6. ASSUME NEW c \in Calls, CreateReply(c)
      PROVE  Kept
  BY <1>6 DEF CreateReply
<1>7. ASSUME NEW c \in Calls, DeleteReply(c)
      PROVE  Kept
  BY <1>7 DEF DeleteReply
<1>8. CASE UNCHANGED callVars
  BY <1>8
<1> QED
  BY <1>1, <1>2, <1>3, <1>4, <1>5, <1>6, <1>7, <1>8
  DEF Next, CallStep, Publish, Drop, vars

LEMMA MarkCounts ==
  ASSUME TypeOK, PlaceInv, NEW c \in Calls, Mark(c), NEW d \in Databases
  PROVE  /\ Deleters(d)' = Deleters(d)
         /\ d # Database(c) \/ d \in seen => Creators(d)' = Creators(d)
         /\ d = Database(c) /\ d \notin seen =>
              Creators(d)' = Creators(d) \cup {c} /\ c \notin Creators(d)
BY DEF TypeOK, PCs, Errors, PlaceInv, Op, Database, Goto, Return, Creators, Deleters, Mark

LEMMA ForgetCounts ==
  ASSUME TypeOK, PlaceInv, NEW c \in Calls, Forget(c), NEW d \in Databases
  PROVE  /\ Creators(d)' = Creators(d)
         /\ d # Database(c) => Deleters(d)' = Deleters(d)
         /\ d = Database(c) => Deleters(d)' = Deleters(d) \cup {c} /\ c \notin Deleters(d)
BY DEF TypeOK, PCs, Errors, PlaceInv, Op, Database, Goto, Return, Creators, Deleters, Forget

\* A name loses its mark only to a Delete that succeeds.
LEMMA SeenKept ==
  ASSUME [Next]_vars, \A c \in Calls : ~ Forget(c)
  PROVE  seen \subseteq seen'
BY DEF Next, CallStep, vars, PowerKnown, PowerAsked, PowerAnswered, StartListing, ListPage,
       ListFails, Look, ListKnown, ListAsked, StartPublishing, Publish, Published, Mark,
       CreateReply, DeleteReply, Drop

LEMMA Counts ==
  ASSUME NEW S \in SUBSET Calls
  PROVE  /\ IsFiniteSet(S) /\ Cardinality(S) \in Nat
         /\ \A c \in Calls \ S : Cardinality(S \cup {c}) = Cardinality(S) + 1
<1>1. IsFiniteSet(S)
  BY ConstantFacts, FS_Subset
<1> QED
  BY <1>1, FS_CardinalityType, FS_AddElement

LEMMA MarkStep == TypeOK /\ PlaceInv /\ MarkInv /\ [Next]_vars => MarkInv'
<1> SUFFICES ASSUME TypeOK, PlaceInv, MarkInv, [Next]_vars, NEW d \in Databases
             PROVE  Cardinality(Creators(d)') <=
                      Cardinality(Deleters(d)') + (IF d \in seen' THEN 1 ELSE 0)
  BY DEF MarkInv
<1>1. /\ Cardinality(Creators(d)) \in Nat /\ Cardinality(Deleters(d)) \in Nat
      /\ \A c \in Calls \ Creators(d) :
           Cardinality(Creators(d) \cup {c}) = Cardinality(Creators(d)) + 1
      /\ \A c \in Calls \ Deleters(d) :
           Cardinality(Deleters(d) \cup {c}) = Cardinality(Deleters(d)) + 1
  BY Counts DEF Creators, Deleters
<1>2. Cardinality(Creators(d)) <= Cardinality(Deleters(d)) + (IF d \in seen THEN 1 ELSE 0)
  BY DEF MarkInv
<1>3. ASSUME NEW c \in Calls, Mark(c)
      PROVE  Cardinality(Creators(d)') <=
               Cardinality(Deleters(d)') + (IF d \in seen' THEN 1 ELSE 0)
  <2>1. seen' = seen \cup {Database(c)} /\ Deleters(d)' = Deleters(d)
    BY <1>3, MarkCounts DEF Mark
  <2>2. CASE d = Database(c) /\ d \notin seen
    <3>1. Cardinality(Creators(d)') = Cardinality(Creators(d)) + 1
      BY <1>1, <1>3, <2>2, MarkCounts
    <3> QED
      BY <1>1, <1>2, <2>1, <2>2, <3>1
  <2>3. CASE d # Database(c) \/ d \in seen
    <3>1. Creators(d)' = Creators(d)
      BY <1>3, <2>3, MarkCounts
    <3> QED
      BY <1>1, <1>2, <2>1, <3>1
  <2> QED
    BY <2>2, <2>3
<1>4. ASSUME NEW c \in Calls, Forget(c)
      PROVE  Cardinality(Creators(d)') <=
               Cardinality(Deleters(d)') + (IF d \in seen' THEN 1 ELSE 0)
  <2>1. seen' = seen \ {Database(c)} /\ Creators(d)' = Creators(d)
    BY <1>4, ForgetCounts DEF Forget
  <2>2. CASE d = Database(c)
    <3>1. Cardinality(Deleters(d)') = Cardinality(Deleters(d)) + 1
      BY <1>1, <1>4, <2>2, ForgetCounts
    <3> QED
      BY <1>1, <1>2, <2>1, <3>1
  <2>3. CASE d # Database(c)
    <3>1. Deleters(d)' = Deleters(d)
      BY <1>4, <2>3, ForgetCounts
    <3> QED
      BY <1>1, <1>2, <2>1, <2>3, <3>1
  <2> QED
    BY <2>2, <2>3
<1>5. CASE \A c \in Calls : ~ Mark(c) /\ ~ Forget(c)
  <2>1. Creators(d)' = Creators(d) /\ Deleters(d)' = Deleters(d) /\ seen \subseteq seen'
    BY <1>5, CountersKept, SeenKept
  <2> QED
    BY <1>1, <1>2, <2>1
<1> QED
  BY <1>3, <1>4, <1>5

-----------------------------------------------------------------------------
(* Listings.                                                               *)

\* A call starts a listing, gets a page, or keeps what it has got.
LEMMA ListingMoves ==
  ASSUME TypeOK, Next, NEW c \in Calls, pc'[c] \in {"listing", "listed"}
  PROVE  \/ /\ pc[c] # "listing" /\ pc'[c] = "listing"
            /\ listed'[c] = {} /\ cursor'[c] = 0
         \/ ListPage(c)
         \/ pc'[c] = pc[c] /\ listed'[c] = listed[c] /\ cursor'[c] = cursor[c]
<1> USE DEF TypeOK, PCs, Goto, Return, Retry, GiveUp, AsksPower, callVars, listVars
<1> DEFINE Goal ==
      \/ /\ pc[c] # "listing" /\ pc'[c] = "listing"
         /\ listed'[c] = {} /\ cursor'[c] = 0
      \/ ListPage(c)
      \/ pc'[c] = pc[c] /\ listed'[c] = listed[c] /\ cursor'[c] = cursor[c]
<1>1. ASSUME NEW d \in Calls, PowerKnown(d) \/ PowerAsked(d)
      PROVE  Goal
  BY <1>1 DEF PowerKnown, PowerAsked, AfterPower
<1>2. ASSUME NEW d \in Calls, PowerAnswered(d)
      PROVE  Goal
  BY <1>2 DEF PowerAnswered, AfterPower
<1>3. ASSUME NEW d \in Calls, StartListing(d) \/ ListAsked(d)
      PROVE  Goal
  BY <1>3 DEF StartListing, ListAsked, ListingStarts
<1>4. ASSUME NEW d \in Calls, ListPage(d)
      PROVE  Goal
  BY <1>4 DEF ListPage, NextPage
<1>5. ASSUME NEW d \in Calls, ListFails(d) \/ Look(d)
      PROVE  Goal
  BY <1>5 DEF ListFails, Look
<1>6. ASSUME NEW d \in Calls, ListKnown(d) \/ StartPublishing(d) \/ Publish(d) \/ Published(d)
      PROVE  Goal
  BY <1>6 DEF ListKnown, StartPublishing, Publish, Published
<1>7. ASSUME NEW d \in Calls, Mark(d) \/ CreateReply(d)
      PROVE  Goal
  BY <1>7 DEF Mark, CreateReply
<1>8. ASSUME NEW d \in Calls, DeleteReply(d) \/ Forget(d)
      PROVE  Goal
  BY <1>8 DEF DeleteReply, Forget
<1>9. CASE Drop
  BY <1>9 DEF Drop
<1> QED
  BY <1>1, <1>2, <1>3, <1>4, <1>5, <1>6, <1>7, <1>8, <1>9 DEF Next, CallStep

LEMMA PagesStep == TypeOK /\ PagesInv /\ [Next]_vars => PagesInv'
<1>1. TypeOK /\ PagesInv /\ UNCHANGED vars => PagesInv'
  BY DEF PagesInv, vars, callVars, listVars, remoteVars
<1>2. ASSUME TypeOK, PagesInv, Next, NEW c \in Calls
      PROVE  /\ steady'[c] \subseteq remote'
             /\ pc'[c] = "listing" => \A d \in steady'[c] : d \in listed'[c] \/ d > cursor'[c]
             /\ pc'[c] = "listed" => steady'[c] \subseteq listed'[c]
  <2>1. /\ steady'[c] \subseteq remote'
        /\ (pc'[c] = "listing" /\ pc[c] # "listing") \/ steady'[c] \subseteq steady[c]
    BY <1>2 DEF Next, KeepSteady
  <2>2. remote' \subseteq Databases /\ remote \subseteq Databases /\ cursor[c] \in Nat
    <3>1. TypeOK'
      BY <1>2, TypeStep
    <3>2. cursor[c] \in Databases \cup {0} /\ remote \subseteq Databases
      BY <1>2 DEF TypeOK
    <3>3. remote' \subseteq Databases
      BY <3>1 DEF TypeOK
    <3>4. Databases \cup {0} \subseteq Nat
      BY ConstantFacts
    <3> QED
      BY <3>2, <3>3, <3>4
  <2>3. CASE pc[c] # "listing" /\ pc'[c] = "listing" /\ listed'[c] = {} /\ cursor'[c] = 0
    <3>1. \A d \in steady'[c] : d \in Nat /\ d # 0
      BY <2>1, <2>2, ConstantFacts
    <3> QED
      BY <2>1, <2>3, <3>1
  <2>4. CASE ListPage(c)
    <3> DEFINE name == cursor[c]
    <3>1. /\ pc[c] = "listing" /\ steady'[c] \subseteq steady[c]
          /\ listed'[c] = listed[c] \cup Page(name)
          /\ \/ pc'[c] = "listed" /\ Page(name) = After(name)
             \/ /\ pc'[c] = "listing" /\ Page(name) # After(name)
                /\ cursor'[c] = Last(Page(name))
      BY <1>2, <2>1, <2>4 DEF ListPage, NextPage, Goto, callVars, TypeOK
    <3>2. \A d \in steady[c] : d \in listed[c] \/ d \in After(name)
      BY <1>2, <3>1 DEF PagesInv, After
    <3>3. Page(name) # After(name) =>
            \A d \in After(name) : d \in Page(name) \/ d > Last(Page(name))
      BY <2>2, Pages
    <3> HIDE DEF name
    <3> QED
      BY <2>1, <3>1, <3>2, <3>3
  <2>5. CASE pc'[c] = pc[c] /\ listed'[c] = listed[c] /\ cursor'[c] = cursor[c]
    BY <1>2, <2>1, <2>5 DEF PagesInv
  <2> QED
    BY <1>2, <2>1, <2>3, <2>4, <2>5, ListingMoves
<1> QED
  BY <1>1, <1>2 DEF PagesInv

\* A Create that passed the check stays a creator.
LEMMA CreatorsStay ==
  ASSUME TypeOK, PlaceInv, [Next]_vars, NEW d \in Databases
  PROVE  Creators(d) \subseteq Creators(d)'
<1>1. CASE \A c \in Calls : ~ Mark(c) /\ ~ Forget(c)
  BY <1>1, CountersKept
<1>2. ASSUME NEW c \in Calls, Mark(c)
      PROVE  Creators(d) \subseteq Creators(d)'
  BY <1>2, MarkCounts
<1>3. ASSUME NEW c \in Calls, Forget(c)
      PROVE  Creators(d) \subseteq Creators(d)'
  BY <1>3, ForgetCounts
<1> QED
  BY <1>1, <1>2, <1>3

\* Only a creator makes a database.
LEMMA Created ==
  ASSUME TypeOK, PlaceInv, [Next]_vars, NEW d \in remote', d \notin remote
  PROVE  d \in Databases /\ Creators(d)' # {}
<1>1. PICK c \in Calls : CreateReply(c)
  BY DEF Next, CallStep, vars, remoteVars, PowerKnown, PowerAsked, PowerAnswered, StartListing,
         ListPage, ListFails, Look, ListKnown, ListAsked, StartPublishing, Publish, Published,
         Mark, DeleteReply, Forget, Drop
<1>2. d = Database(c) /\ pc[c] = "create"
  BY <1>1 DEF CreateReply
<1>3. d \in Databases
  BY <1>2 DEF TypeOK, Database, Jobs
<1>4. c \in Creators(d)
  BY <1>2 DEF PlaceInv, Creators
<1> QED
  BY <1>3, <1>4, CreatorsStay

\* What ends a Delete that has seen its database gone.
LEMMA GoneMoves ==
  ASSUME TypeOK, PlaceInv, Next, NEW c \in Calls, Op(c) = "Delete",
         pc'[c] = "forget" \/ result'[c] = "ok", pc[c] # "forget", result[c] # "ok"
  PROVE  \/ DeleteReply(c) /\ Database(c) \notin remote
         \/ Look(c) /\ Database(c) \notin listed[c]
<1> USE DEF TypeOK, PCs, Errors, PlaceInv, Op, Goto, Return, Retry, GiveUp, AsksPower, callVars
<1> DEFINE Goal ==
      \/ DeleteReply(c) /\ Database(c) \notin remote
      \/ Look(c) /\ Database(c) \notin listed[c]
<1>1. ASSUME NEW d \in Calls, PowerKnown(d) \/ PowerAsked(d)
      PROVE  Goal
  BY <1>1 DEF PowerKnown, PowerAsked, AfterPower
<1>2. ASSUME NEW d \in Calls, PowerAnswered(d)
      PROVE  Goal
  BY <1>2 DEF PowerAnswered, AfterPower
<1>3. ASSUME NEW d \in Calls, StartListing(d) \/ ListPage(d) \/ ListFails(d)
      PROVE  Goal
  BY <1>3 DEF StartListing, ListPage, NextPage, ListFails, ListingStarts
<1>4. ASSUME NEW d \in Calls, Look(d)
      PROVE  Goal
  BY <1>4 DEF Look
<1>5. ASSUME NEW d \in Calls, ListKnown(d) \/ ListAsked(d) \/ StartPublishing(d) \/ Published(d)
      PROVE  Goal
  BY <1>5 DEF ListKnown, ListAsked, ListingStarts, StartPublishing, Published
<1>6. ASSUME NEW d \in Calls, Mark(d) \/ CreateReply(d)
      PROVE  Goal
  BY <1>6 DEF Mark, CreateReply
<1>7. ASSUME NEW d \in Calls, DeleteReply(d) \/ Forget(d)
      PROVE  Goal
  BY <1>7 DEF DeleteReply, Forget
<1>8. CASE UNCHANGED callVars
  BY <1>8
<1> QED
  BY <1>1, <1>2, <1>3, <1>4, <1>5, <1>6, <1>7, <1>8
  DEF Next, CallStep, Publish, Drop

LEMMA JobsKept == [Next]_vars => job' = job
BY DEF Next, CallStep, vars, callVars, PowerKnown, PowerAsked, PowerAnswered, AfterPower,
       StartListing, ListPage, NextPage, ListFails, Look, ListKnown, ListAsked, ListingStarts,
       StartPublishing, Publish, Published, Mark, CreateReply, DeleteReply, Forget, Drop,
       Goto, Return, Retry, GiveUp

LEMMA CreatedStep ==
  TypeOK /\ PlaceInv /\ PagesInv /\ CreatedInv /\ [Next]_vars => CreatedInv'
<1> SUFFICES ASSUME TypeOK, PlaceInv, PagesInv, CreatedInv, [Next]_vars,
                    NEW c \in Calls, NEW d \in remote', KnownGone(c, d)'
             PROVE  Creators(d)' # {}
  BY DEF CreatedInv
<1>1. d \in Databases
  <2>1. TypeOK'
    BY TypeStep
  <2> QED
    BY <2>1 DEF TypeOK
<1>2. CASE d \notin remote
  BY <1>2, Created
<1>3. CASE d \in remote /\ KnownGone(c, d)
  BY <1>1, <1>3, CreatorsStay DEF CreatedInv
<1>4. CASE d \in remote /\ ~ KnownGone(c, d)
  <2>1. ~ UNCHANGED vars
    BY <1>4 DEF KnownGone, vars, callVars, Database, Op
  <2>2. Next /\ KeepSteady
    BY <2>1 DEF Next
  <2>3. CASE pc'[c] \in {"listing", "listed"} /\ d \notin steady'[c]
    <3>1. d \notin steady[c] /\ ~ (pc[c] # "listing" /\ pc'[c] = "listing")
      BY <1>4, <2>2, <2>3 DEF KeepSteady
    <3>2. pc[c] \in {"listing", "listed"}
      BY <2>2, <2>3, <3>1, ListingMoves DEF ListPage
    <3> QED
      BY <1>4, <3>1, <3>2 DEF KnownGone
  <2>4. CASE ~ (pc'[c] \in {"listing", "listed"} /\ d \notin steady'[c])
    <3>1. /\ Database(c) = d
          /\ pc'[c] = "forget" \/ (Op(c) = "Delete" /\ result'[c] = "ok")
          /\ pc[c] # "forget" /\ ~ (Op(c) = "Delete" /\ result[c] = "ok")
          /\ ~ (pc[c] \in {"listing", "listed"} /\ d \notin steady[c])
      BY <1>4, <2>4, JobsKept DEF KnownGone, Database, Op
    <3>2. Op(c) = "Delete"
      <4>1. PlaceInv'
        BY PlaceStep
      <4> QED
        BY <3>1, <4>1, JobsKept DEF PlaceInv, Op
    <3> QED
      BY <1>4, <2>2, <3>1, <3>2, GoneMoves DEF PagesInv, Look
  <2> QED
    BY <2>3, <2>4
<1> QED
  BY <1>2, <1>3, <1>4

-----------------------------------------------------------------------------
(* The check of names that are not deleted.                                *)

\* The listing's result is stored once: by Published, or by a Create whose
\* listing failed; and only a stored list of names lets a Create go on.
LEMMA OnceMoves ==
  ASSUME TypeOK, [Next]_vars
  PROVE  /\ listMutex' # NoCall =>
              (listMutex' = listMutex \/ listKept = "none") /\ listKept' = listKept
         /\ listKept' # listKept => listMutex # NoCall
         /\ listKept' = "ok" => listKept = "ok" \/ \E c \in Calls : Published(c)
         /\ \A c \in Calls :
              pc'[c] = "mark" => pc[c] = "mark" \/ listKept' = "ok"
<1> DEFINE Goal ==
      /\ listMutex' # NoCall =>
           (listMutex' = listMutex \/ listKept = "none") /\ listKept' = listKept
      /\ listKept' # listKept => listMutex # NoCall
      /\ listKept' = "ok" => listKept = "ok" \/ \E c \in Calls : Published(c)
      /\ \A c \in Calls :
           pc'[c] = "mark" => pc[c] = "mark" \/ listKept' = "ok"
<1> USE ConstantFacts
    DEF TypeOK, PCs, Goto, Return, Retry, GiveUp, callVars, onceVars, List!TypeOK,
        List!Enter, List!Leave, List!Hit
<1>1. ASSUME NEW d \in Calls, PowerKnown(d) \/ PowerAsked(d)
      PROVE  Goal
  BY <1>1 DEF PowerKnown, PowerAsked, AfterPower
<1>2. ASSUME NEW d \in Calls, PowerAnswered(d)
      PROVE  Goal
  BY <1>2 DEF PowerAnswered, AfterPower
<1>3. ASSUME NEW d \in Calls, StartListing(d) \/ ListPage(d)
      PROVE  Goal
  BY <1>3 DEF StartListing, ListPage, NextPage, ListingStarts
<1>4. ASSUME NEW d \in Calls, ListFails(d)
      PROVE  Goal
  BY <1>4 DEF ListFails
<1>5. ASSUME NEW d \in Calls, Look(d)
      PROVE  Goal
  BY <1>5 DEF Look
<1>6. ASSUME NEW d \in Calls, ListKnown(d) \/ ListAsked(d)
      PROVE  Goal
  BY <1>6 DEF ListKnown, ListAsked, ListingStarts
<1>7. ASSUME NEW d \in Calls, StartPublishing(d) \/ Publish(d) \/ Published(d)
      PROVE  Goal
  BY <1>7 DEF StartPublishing, Publish, Published
<1>8. ASSUME NEW d \in Calls, Mark(d) \/ CreateReply(d)
      PROVE  Goal
  BY <1>8 DEF Mark, CreateReply
<1>9. ASSUME NEW d \in Calls, DeleteReply(d) \/ Forget(d)
      PROVE  Goal
  BY <1>9 DEF DeleteReply, Forget
<1>10. CASE Drop \/ UNCHANGED vars
  BY <1>10 DEF Drop, vars
<1> QED
  BY <1>1, <1>2, <1>3, <1>4, <1>5, <1>6, <1>7, <1>8, <1>9, <1>10 DEF Next, CallStep

LEMMA OnceStep == TypeOK /\ OnceInv /\ [Next]_vars => OnceInv'
BY OnceMoves DEF OnceInv

\* Names are published one by one, from a list that is complete.
LEMMA PublishMoves ==
  ASSUME TypeOK, [Next]_vars, NEW c \in Calls, pc'[c] = "publish"
  PROVE  \/ StartPublishing(c) /\ listed'[c] = listed[c]
         \/ pc[c] = "publish" /\ listed[c] \subseteq listed'[c] \cup seen'
<1> DEFINE Goal ==
      \/ StartPublishing(c) /\ listed'[c] = listed[c]
      \/ pc[c] = "publish" /\ listed[c] \subseteq listed'[c] \cup seen'
<1> USE DEF TypeOK, PCs, Goto, Return, Retry, GiveUp, AsksPower, callVars, listVars
<1>1. ASSUME NEW d \in Calls, PowerKnown(d) \/ PowerAsked(d)
      PROVE  Goal
  BY <1>1 DEF PowerKnown, PowerAsked, AfterPower
<1>2. ASSUME NEW d \in Calls, PowerAnswered(d)
      PROVE  Goal
  BY <1>2 DEF PowerAnswered, AfterPower
<1>3. ASSUME NEW d \in Calls, StartListing(d) \/ ListAsked(d)
      PROVE  Goal
  BY <1>3 DEF StartListing, ListAsked, ListingStarts
<1>4. ASSUME NEW d \in Calls, ListPage(d)
      PROVE  Goal
  BY <1>4 DEF ListPage, NextPage
<1>5. ASSUME NEW d \in Calls, ListFails(d) \/ Look(d)
      PROVE  Goal
  BY <1>5 DEF ListFails, Look
<1>6. ASSUME NEW d \in Calls, ListKnown(d) \/ StartPublishing(d) \/ Publish(d) \/ Published(d)
      PROVE  Goal
  BY <1>6 DEF ListKnown, StartPublishing, Publish, Published
<1>7. ASSUME NEW d \in Calls, Mark(d) \/ CreateReply(d)
      PROVE  Goal
  BY <1>7 DEF Mark, CreateReply
<1>8. ASSUME NEW d \in Calls, DeleteReply(d) \/ Forget(d)
      PROVE  Goal
  BY <1>8 DEF DeleteReply, Forget
<1>9. CASE Drop \/ UNCHANGED vars
  BY <1>9 DEF Drop, vars
<1> QED
  BY <1>1, <1>2, <1>3, <1>4, <1>5, <1>6, <1>7, <1>8, <1>9 DEF Next, CallStep

LEMMA UndeletedStep == IInv /\ [Next]_vars => UndeletedInv'
<1> SUFFICES ASSUME IInv, [Next]_vars, NEW d \in Databases, Undeleted(d)'
             PROVE  /\ d \notin dropping'
                    /\ Creators(d)' # {} => d \in seen'
                    /\ d \in remote' =>
                         /\ \A c \in Calls : pc'[c] = "publish" => d \in seen' \cup listed'[c]
                         /\ listKept' = "ok" => d \in seen'
  BY DEF UndeletedInv
<1>1. /\ d \notin dropping
      /\ Creators(d) # {} => d \in seen
      /\ d \in remote =>
           /\ \A c \in Calls : pc[c] = "publish" => d \in seen \cup listed[c]
           /\ listKept = "ok" => d \in seen
      /\ \A c \in Calls : ~ (Op(c) = "Delete" /\ Database(c) = d)
  <2>1. Undeleted(d)
    BY JobsKept DEF Undeleted, Op, Database
  <2> QED
    BY <2>1 DEF IInv, UndeletedInv, Undeleted
<1>2. d \notin dropping'
  BY <1>1 DEF Next, CallStep, vars, remoteVars, PowerKnown, PowerAsked, PowerAnswered,
       StartListing, ListPage, ListFails, Look, ListKnown, ListAsked, StartPublishing, Publish,
       Published, Mark, CreateReply, DeleteReply, Forget, Drop
<1>3. d \in seen => d \in seen'
  <2>1. ASSUME NEW c \in Calls, Forget(c)
        PROVE  d \in seen => d \in seen'
    <3>1. Database(c) # d
      BY <1>1, <2>1 DEF Forget, IInv, PlaceInv
    <3> QED
      BY <2>1, <3>1 DEF Forget
  <2> QED
    BY <2>1, SeenKept
<1>4. Creators(d)' # {} => d \in seen'
  <2>1. ASSUME NEW c \in Calls, Mark(c)
        PROVE  Creators(d)' # {} => d \in seen'
    <3>1. d = Database(c) => d \in seen'
      BY <2>1 DEF Mark
    <3> QED
      BY <1>1, <1>3, <2>1, <3>1, MarkCounts DEF IInv
  <2>2. ASSUME NEW c \in Calls, Forget(c)
        PROVE  Creators(d)' # {} => d \in seen'
    BY <1>1, <1>3, <2>2, ForgetCounts DEF IInv
  <2> QED
    BY <1>1, <1>3, <2>1, <2>2, CountersKept DEF IInv
<1>5. ASSUME d \in remote', d \notin seen'
      PROVE  /\ \A c \in Calls : pc'[c] = "publish" => d \in listed'[c]
             /\ listKept' # "ok"
  <2>1. d \in remote /\ d \notin seen /\ Creators(d) = {}
    BY <1>1, <1>3, <1>4, <1>5, Created DEF IInv
  <2>2. ASSUME NEW c \in Calls, pc'[c] = "publish"
        PROVE  d \in listed'[c]
    <3>1. CASE pc[c] = "publish" /\ listed[c] \subseteq listed'[c] \cup seen'
      BY <1>1, <1>5, <2>1, <3>1
    <3>2. CASE StartPublishing(c) /\ listed'[c] = listed[c]
      <4>1. pc[c] = "listed" /\ d \in steady[c]
        BY <2>1, <3>2 DEF StartPublishing, IInv, CreatedInv, KnownGone
      <4> QED
        BY <3>2, <4>1 DEF IInv, PagesInv
    <3> QED
      BY <2>2, <3>1, <3>2, PublishMoves DEF IInv
  <2>3. listKept' # "ok"
    <3>1. ASSUME NEW c \in Calls, Published(c)
          PROVE  FALSE
      BY <1>1, <2>1, <3>1 DEF Published
    <3> QED
      BY <1>1, <2>1, <3>1, OnceMoves DEF IInv
  <2> QED
    BY <2>2, <2>3
<1> QED
  BY <1>2, <1>4, <1>5

LEMMA Inductive == Spec => []IInv
<1>1. Init => IInv
  <2> SUFFICES ASSUME Init
               PROVE  IInv
    OBVIOUS
  <2>1. TypeOK
    BY ConstantFacts, ConstantsAssumption
    DEF ConstantsAssumption, Init, TypeOK, PCs, Errors, Power!Init, Power!TypeOK, List!Init, List!TypeOK
  <2>2. PlaceInv /\ PagesInv /\ OnceInv
    BY DEF Init, PlaceInv, PagesInv, OnceInv, List!Init
  <2>3. \A d \in Databases : Creators(d) = {} /\ Deleters(d) = {}
    BY DEF Init, Creators, Deleters
  <2>4. MarkInv
    BY <2>3, FS_EmptySet DEF Init, MarkInv
  <2>5. CreatedInv
    BY DEF Init, CreatedInv, KnownGone
  <2>6. UndeletedInv
    BY <2>3 DEF Init, UndeletedInv, List!Init
  <2> QED
    BY <2>1, <2>2, <2>4, <2>5, <2>6 DEF IInv
<1>2. IInv /\ [Next]_vars => IInv'
  BY TypeStep, PlaceStep, MarkStep, PagesStep, CreatedStep, OnceStep, UndeletedStep DEF IInv
<1> QED
  BY <1>1, <1>2, PTL DEF Spec

-----------------------------------------------------------------------------
(* Theorems.                                                               *)

\* Every variable keeps its type: in particular a listing's cursor is always
\* a name or the start.
THEOREM TypeCorrect == Spec => []TypeOK
<1>1. IInv => TypeOK
  BY DEF IInv
<1> QED
  BY <1>1, Inductive, PTL

\* Of concurrent Creates of one name, one passes the check, and one more for
\* every Delete of it that has succeeded.
THEOREM CreatesAreBounded == Spec => []CreatesBounded
<1>1. IInv => CreatesBounded
  <2> SUFFICES ASSUME IInv, NEW d \in Databases
               PROVE  Cardinality(Creators(d)) <= Cardinality(Deleters(d)) + 1
    BY DEF CreatesBounded
  <2>1. Cardinality(Creators(d)) \in Nat /\ Cardinality(Deleters(d)) \in Nat
    BY Counts DEF Creators, Deleters
  <2> QED
    BY <2>1 DEF IInv, MarkInv
<1> QED
  BY <1>1, Inductive, PTL

\* A database that is there from the first page of a listing to the last is
\* on it, whatever is created and deleted meanwhile and whatever the page size.
THEOREM ListsAreWhole == Spec => []ListsWhole
<1>1. IInv => ListsWhole
  BY DEF IInv, PagesInv, ListsWhole
<1> QED
  BY <1>1, Inductive, PTL

\* If a database is there after a Delete of it has returned success, a Create
\* has made it again.
THEOREM DeletesAreReal == Spec => []DeletedOrRecreated
<1>1. IInv => DeletedOrRecreated
  BY DEF IInv, CreatedInv, KnownGone, DeletedOrRecreated
<1> QED
  BY <1>1, Inductive, PTL

\* A Create of a name that this process does not delete passes the check only
\* while its database does not exist.
THEOREM ChecksProve == Spec => CheckProvesUndeleted
<1> DEFINE Proves ==
      \A c \in Calls :
        Passes(c) => \/ Database(c) \notin remote
                     \/ \E d \in Calls : job[d] = [job[c] EXCEPT !.op = "Delete"]
<1>1. IInv /\ [Next]_vars => [Proves]_vars
  <2> SUFFICES ASSUME IInv, [Next]_vars, NEW c \in Calls, Passes(c), Database(c) \in remote,
                      \A d \in Calls : job[d] # [job[c] EXCEPT !.op = "Delete"]
               PROVE  FALSE
    OBVIOUS
  <2>0. PICK d \in Databases : d = Database(c)
    BY DEF IInv, TypeOK, Jobs, Database
  <2>1. Undeleted(d)
    BY <2>0 DEF IInv, TypeOK, Jobs, Undeleted, Database, Op
  <2>2. d \in seen
    BY <2>0, <2>1 DEF IInv, OnceInv, UndeletedInv, Passes
  <2>3. c \in Creators(d)' /\ c \notin Creators(d)
    <3>1. PlaceInv'
      BY PlaceStep DEF IInv
    <3> QED
      BY <2>0, <3>1, JobsKept DEF IInv, PlaceInv, Passes, Creators, Op, Database
  <2> QED
    BY <2>2, <2>3, CountersKept, MarkCounts, ForgetCounts DEF IInv
<1> QED
  BY <1>1, Inductive, PTL DEF Spec, CheckProvesUndeleted
=============================================================================
