------------------------- MODULE ServiceLifecycleProofs -------------------------
(***************************************************************************)
(* What ServiceLifecycle does whatever the static IPs, the waiter's        *)
(* occurrences and the faults: its type invariant, NeverStripped, the two  *)
(* properties of the step in which an operation succeeds, and what a       *)
(* Delete leaves to the Creates after it.                                  *)
(***************************************************************************)
EXTENDS ServiceLifecycle, TLAPS

USE ConstantsAssumption

-----------------------------------------------------------------------------
(* The inductive invariant.                                                *)

\* Where an operation may be.
PlaceInv ==
  /\ op = "update" =>
       at \in {"diff", "associate", "update", "wait", "waitIPs", "password", "dissociate",
               "waitGone", "tags", "read"}
  /\ op = "delete" => at \in {"delete", "waitDeleted"}

\* A Create that gets beyond ServiceCreate has made the service.
MadeInv == op = "create" /\ at # "create" => made

Differs == op = "update" /\ at # "diff"

\* Update gives the service only planned IPs, and takes only others from it:
\* beside the planned ones it has at most those to dissociate, and none of
\* them when the wait for that is over.
SetsInv ==
  Differs =>
    /\ dis \cap planned = {}
    /\ at = "associate" => todo \subseteq planned
    /\ at = "dissociate" => todo \subseteq dis
    /\ Held \subseteq planned \cup dis
    /\ at \in {"tags", "read"} => Held \subseteq planned

Alive == service \notin {"absent", "deleting"}

\* Until it has seen the planned IPs ready it lets no IP go; those it has
\* seen ready stay.
KeptInv ==
  Differs /\ Alive =>
    /\ calm => planned \cap leaving = {}
    /\ at \in {"associate", "update", "wait", "waitIPs"} => before \subseteq Held \ leaving
    /\ calm /\ at \in {"password", "dissociate", "waitGone", "tags", "read"} => Ready(planned)

Dead == service \in {"absent", "deleting"}

\* Among themselves: an IP leaves the service with its state reset, or still
\* assigned.  What a Delete has freed was not, and while the service is on
\* its way out nothing assigns it again.
PoolInv ==
  "outsiders" \notin faults =>
    /\ \A ip \in IPs : owner[ip] # "other" /\ (owner[ip] = "none" => ipState[ip] # "available")
    /\ service = "absent" => Held = {}
    /\ at = "waitDeleted" => Dead
    /\ freed # {} => Dead
    /\ \A ip \in freed : ipState[ip] # "assigned"

IInv == TypeOK /\ PlaceInv /\ MadeInv /\ SetsInv /\ KeptInv /\ PoolInv

-----------------------------------------------------------------------------
(* TypeOK.                                                                 *)

LEMMA Typed == TypeOK /\ [Next]_vars => TypeOK'
<1> SUFFICES ASSUME TypeOK, [Next]_vars PROVE TypeOK'
  OBVIOUS
<1> USE DEF TypeOK, Steps, vars, backendVars, callVars, historyVars, operationVars
<1>0. 0 \in 0..(Occurrences - 1)
  OBVIOUS
<1>1. CASE Start /\ UNCHANGED faults
  <2>1. ASSUME NEW operation \in {"create", "read", "update", "delete"}, NEW step \in Steps,
               NEW ips \in SUBSET IPs, Begin(operation, step, ips)
        PROVE  TypeOK'
    BY <1>0, <1>1, <2>1 DEF Begin
  <2>2. entry.ips \in SUBSET IPs
    BY DEF Entries
  <2> QED
    BY <1>1, <2>1, <2>2 DEF Start, StartRead, StartDelete, StartCreate, StartUpdate
<1>2. CASE (CallFails \/ WaitExpires) /\ UNCHANGED faults
  BY <1>2 DEF CallFails, WaitExpires, Fail, End, Remains, Tainted, Kept, NoEntry, Entries
<1>3. CASE Answer /\ UNCHANGED faults
  <2> USE <1>3 DEF Go, Fail, End, Remains, Tainted, Kept, NoEntry, Entries
  <2>1. CASE ServiceCreate
    <3>1. owner' \in [IPs -> {"none", "this", "other"}]
      BY <2>1 DEF ServiceCreate, Refused
    <3>2. /\ service' \in {"absent", "rebuilding", "running", "poweroff", "deleting"}
          /\ ready' \in BOOLEAN
          /\ made' \in BOOLEAN
          /\ freed' \subseteq IPs
          /\ UNCHANGED <<ipState, leaving, before, calm>>
      BY <2>1 DEF ServiceCreate, Refused
    <3>3. Go("wait") \/ Fail
      BY <2>1 DEF ServiceCreate, Refused
    <3> QED
      BY <1>0, <3>1, <3>2, <3>3
  <2>2. CASE WaitService
    BY <2>2 DEF WaitService, Pending
  <2>3. CASE WaitIPs
    BY <2>3 DEF WaitIPs, Hit, Pending, Proceed
  <2>4. CASE Password
    BY <2>4 DEF Password
  <2>5. CASE Tags
    BY <2>5 DEF Tags
  <2>6. CASE Read
    BY <2>6 DEF Read, Succeed, Held
  <2>7. CASE DiffStaticIps
    BY <2>7 DEF DiffStaticIps, AfterDiff, Held
  <2>8. CASE ServiceUpdate
    <3>1. /\ service' \in {"absent", "rebuilding", "running", "poweroff", "deleting"}
          /\ ready' \in BOOLEAN
      BY <2>8 DEF ServiceUpdate
    <3>2. UNCHANGED <<owner, ipState, leaving, historyVars>> /\ (Go("wait") \/ Fail)
      BY <2>8 DEF ServiceUpdate
    <3> QED
      BY <3>1, <3>2
  <2>9. CASE WaitGone
    BY <2>9 DEF WaitGone, Hit, Pending, Proceed
  <2>10. CASE ServiceDelete
    BY <2>10 DEF ServiceDelete
  <2>11. CASE WaitDeleted
    BY <2>11 DEF WaitDeleted, Hit, Pending, Succeed
  <2>12. CASE \E ip \in IPs : Associate(ip)
    BY <2>12 DEF Associate, Next1
  <2>13. CASE \E ip \in IPs : Dissociate(ip)
    BY <2>13 DEF Dissociate, Next1
  <2> QED
    BY <2>1, <2>2, <2>3, <2>4, <2>5, <2>6, <2>7, <2>8, <2>9, <2>10, <2>11, <2>12, <2>13
       DEF Answer
<1>4. CASE Converge /\ UNCHANGED faults
  <2>1. CASE Rebuilt
    BY <1>4, <2>1 DEF Rebuilt
  <2>4. CASE GetReady
    BY <1>4, <2>4 DEF GetReady
  <2>2. CASE Vanish
    BY <1>4, <2>2 DEF Vanish
  <2>3. CASE \E ip \in IPs : Attach(ip) \/ Detach(ip) \/ Release(ip)
    BY <1>4, <2>3 DEF Attach, Detach, Release
  <2> QED
    BY <1>4, <2>1, <2>2, <2>3, <2>4 DEF Converge
<1>5. CASE Others /\ UNCHANGED faults
  BY <1>5 DEF Others, PowerOff, OtherTakes, OtherReleases
<1>6. CASE UNCHANGED vars
  BY <1>6
<1> QED
  BY <1>1, <1>2, <1>3, <1>4, <1>5, <1>6 DEF Next, Step

-----------------------------------------------------------------------------
(* The other parts.                                                        *)

\* Where an answer leaves the operation: elsewhere in its course, or over.
LEMMA Placed == PlaceInv /\ [Next]_vars => PlaceInv'
<1> SUFFICES ASSUME PlaceInv, [Next]_vars PROVE PlaceInv'
  OBVIOUS
<1> USE DEF PlaceInv, vars, backendVars, callVars, historyVars, operationVars
<1>1. CASE Start
  BY <1>1 DEF Start, StartRead, StartDelete, StartCreate, StartUpdate, Begin
<1>2. CASE CallFails \/ WaitExpires
  BY <1>2 DEF CallFails, WaitExpires, Fail, End
<1>3. CASE Answer
  BY <1>3 DEF Answer, ServiceCreate, Refused, WaitService, WaitIPs, Password, Tags, Read,
       DiffStaticIps, AfterDiff, ServiceUpdate, WaitGone, ServiceDelete, WaitDeleted,
       Associate, Dissociate, Next1, Go, Hit, Pending, Proceed, Succeed, Fail, End
<1>4. CASE Converge \/ Others \/ UNCHANGED vars
  BY <1>4 DEF Converge, Rebuilt, GetReady, Vanish, Attach, Detach, Release,
       Others, PowerOff, OtherTakes, OtherReleases
<1> QED
  BY <1>1, <1>2, <1>3, <1>4 DEF Next, Step

LEMMA MadeFirst == MadeInv /\ [Next]_vars => MadeInv'
<1> SUFFICES ASSUME MadeInv, [Next]_vars PROVE MadeInv'
  OBVIOUS
<1> USE DEF MadeInv, vars, backendVars, callVars, historyVars, operationVars
<1>1. CASE Start
  BY <1>1 DEF Start, StartRead, StartDelete, StartCreate, StartUpdate, Begin
<1>2. CASE CallFails \/ WaitExpires
  BY <1>2 DEF CallFails, WaitExpires, Fail, End
<1>3. CASE Answer
  BY <1>3 DEF Answer, ServiceCreate, Refused, WaitService, WaitIPs, Password, Tags, Read,
       DiffStaticIps, AfterDiff, ServiceUpdate, WaitGone, ServiceDelete, WaitDeleted,
       Associate, Dissociate, Next1, Go, Hit, Pending, Proceed, Succeed, Fail, End
<1>4. CASE Converge \/ Others \/ UNCHANGED vars
  BY <1>4 DEF Converge, Rebuilt, GetReady, Vanish, Attach, Detach, Release,
       Others, PowerOff, OtherTakes, OtherReleases
<1> QED
  BY <1>1, <1>2, <1>3, <1>4 DEF Next, Step

\* While an Update lasts, nothing has begun or ended.
LEMMA GoesOn ==
  ASSUME PlaceInv, [Next]_vars, Differs'
  PROVE  /\ op = "update"
         /\ at \in {"diff", "associate", "update", "wait", "waitIPs", "password", "dissociate",
                   "waitGone", "tags", "read"}
         /\ \/ UNCHANGED callVars /\ UNCHANGED historyVars
            \/ /\ Answer
               /\ ~ Fail
               /\ at \notin {"create", "delete", "waitDeleted"}
<1>1. ~ Start /\ ~ Fail /\ op = "update"
  <2>1. ~ Start
    BY DEF Differs, Start, StartRead, StartDelete, StartCreate, StartUpdate, Begin
  <2>2. ~ Fail
    BY DEF Differs, Fail, End
  <2>3. op' = op \/ op' = "none"
    BY <2>1 DEF Next, Step, vars, backendVars, callVars, historyVars, operationVars,
         CallFails, WaitExpires, Converge, Rebuilt, GetReady, Vanish, Attach, Detach, Release,
         Others, PowerOff, OtherTakes, OtherReleases,
         Answer, ServiceCreate, Refused, WaitService, WaitIPs, Password, Tags, Read,
         DiffStaticIps, AfterDiff, ServiceUpdate, WaitGone, ServiceDelete, WaitDeleted,
         Associate, Dissociate, Next1, Go, Hit, Pending, Proceed, Succeed, Fail, End
  <2> QED
    BY <2>1, <2>2, <2>3 DEF Differs
<1>2. \/ UNCHANGED callVars /\ UNCHANGED historyVars
      \/ Answer
  BY <1>1 DEF Next, Step, vars, CallFails, WaitExpires, operationVars, Converge, Rebuilt,
       GetReady, Vanish, Attach, Detach, Release, Others, PowerOff, OtherTakes, OtherReleases
<1> QED
  BY <1>1, <1>2 DEF PlaceInv

\* Nothing but a Create brings the service back.
LEMMA StaysDead == [Next]_vars /\ ~ ServiceCreate /\ Alive' => Alive
<1> USE DEF Alive, vars, backendVars
<1>1. Start \/ CallFails \/ WaitExpires => UNCHANGED service
  BY DEF Start, StartRead, StartDelete, StartCreate, StartUpdate, Begin, CallFails, WaitExpires
<1>2. Answer /\ ~ ServiceCreate /\ Alive' => Alive
  BY DEF Answer, WaitService, WaitIPs, Password, Tags, Read, DiffStaticIps, ServiceUpdate,
       WaitGone, ServiceDelete, WaitDeleted, Associate, Dissociate
<1>3. Converge \/ Others => UNCHANGED service \/ Alive \/ ~ Alive'
  BY DEF Converge, Rebuilt, GetReady, Vanish, Attach, Detach, Release,
       Others, PowerOff, OtherTakes, OtherReleases
<1> QED
  BY <1>1, <1>2, <1>3 DEF Next, Step

\* What a step does with one IP of the service: only Associate gives it an IP,
\* only Dissociate lets one go, and it keeps the others until it is deleted.
LEMMA IPMoves ==
  ASSUME TypeOK, [Next]_vars, ~ ServiceCreate, NEW ip \in IPs
  PROVE  /\ owner[ip]' = "this" => owner[ip] = "this" \/ Associate(ip)
         /\ ip \in leaving' => ip \in leaving \/ Dissociate(ip)
         /\ Alive' /\ owner[ip] = "this" /\ ip \notin leaving => owner[ip]' = "this"
         /\ Alive' /\ owner[ip] = "this" /\ ip \notin leaving
              /\ ipState[ip] \in {"available", "assigned"}
              => ipState[ip]' \in {"available", "assigned"}
<1> USE DEF TypeOK, Alive, vars, backendVars
<1>1. CASE UNCHANGED backendVars
  BY <1>1
<1>2. CASE \E i \in IPs : Associate(i)
  <2>1. PICK i \in IPs : Associate(i)
    BY <1>2
  <2>2. owner' = [owner EXCEPT ![i] = "this"] \/ UNCHANGED owner
    BY <2>1 DEF Associate
  <2>3. UNCHANGED <<service, ipState, leaving>>
    BY <2>1 DEF Associate
  <2> QED
    BY <2>1, <2>2, <2>3
<1>3. CASE ServiceUpdate
  BY <1>3 DEF ServiceUpdate
<1>4. CASE \E i \in IPs : Dissociate(i)
  BY <1>4 DEF Dissociate
<1>5. CASE ServiceDelete
  BY <1>5 DEF ServiceDelete
<1>6. CASE Converge
  <2>1. CASE Rebuilt \/ GetReady
    BY <2>1 DEF Rebuilt, GetReady
  <2>2. CASE Vanish
    BY <2>2 DEF Vanish, Held
  <2>3. CASE \E i \in IPs : Attach(i) \/ Detach(i) \/ Release(i)
    BY <2>3 DEF Attach, Detach, Release
  <2> QED
    BY <1>6, <2>1, <2>2, <2>3 DEF Converge
<1>7. CASE Others
  BY <1>7 DEF Others, PowerOff, OtherTakes, OtherReleases, Free
<1>8. CASE Start \/ CallFails \/ WaitExpires \/ Answer
  <2>1. CASE Start \/ CallFails \/ WaitExpires
    BY <1>1, <2>1 DEF Start, StartRead, StartDelete, StartCreate, StartUpdate, Begin, CallFails,
         WaitExpires
  <2>2. CASE Answer
    BY <1>1, <1>2, <1>3, <1>4, <1>5, <2>2 DEF Answer, WaitService, WaitIPs, Password, Tags, Read,
         DiffStaticIps, WaitGone, WaitDeleted
  <2> QED
    BY <1>8, <2>1, <2>2
<1> QED
  BY <1>1, <1>6, <1>7, <1>8 DEF Next, Step

LEMMA Sets == TypeOK /\ PlaceInv /\ SetsInv /\ [Next]_vars => SetsInv'
<1> SUFFICES ASSUME TypeOK, PlaceInv, SetsInv, [Next]_vars, Differs'
             PROVE  /\ dis' \cap planned' = {}
                    /\ at' = "associate" => todo' \subseteq planned'
                    /\ at' = "dissociate" => todo' \subseteq dis'
                    /\ Held' \subseteq planned' \cup dis'
                    /\ at' \in {"tags", "read"} => Held' \subseteq planned'
  BY DEF SetsInv
<1>0. /\ op' = "update" /\ op = "update" /\ at' # "diff"
      /\ at \notin {"create", "delete", "waitDeleted"}
  BY GoesOn DEF Differs, PlaceInv
<1>1. ~ ServiceCreate
  BY <1>0 DEF ServiceCreate
<1>2. \A ip \in Held' : ip \in Held \/ Associate(ip)
  BY <1>1, IPMoves DEF Held
<1>3. CASE UNCHANGED callVars /\ UNCHANGED historyVars
  <2>1. \A ip \in IPs : ~ Associate(ip)
    <3> SUFFICES ASSUME NEW ip \in IPs, Associate(ip) PROVE FALSE
      OBVIOUS
    <3>1. ip \in todo /\ todo' = todo \ {ip}
      BY DEF Associate, Next1, Fail, End, Differs
    <3> QED
      BY <1>3, <3>1 DEF callVars
  <2>2. Held' \subseteq Held
    BY <1>2, <2>1 DEF Held
  <2>3. Differs
    BY <1>3 DEF Differs, callVars
  <2> QED
    BY <1>3, <2>2, <2>3 DEF SetsInv, callVars
<1>4. CASE DiffStaticIps
  <2>1. planned' = planned /\ todo' = planned \ Held /\ dis' = Held \ planned /\ Held' = Held
    BY <1>4 DEF DiffStaticIps, AfterDiff, Held, backendVars
  <2>2. at' \in {"associate", "update"}
    BY <1>4 DEF DiffStaticIps, AfterDiff
  <2> QED
    BY <2>1, <2>2
<1>5. ASSUME NEW ip \in IPs, Associate(ip) PROVE SetsInv'
  <2>1. /\ at = "associate" /\ ip \in todo
        /\ planned' = planned /\ dis' = dis /\ todo' = todo \ {ip}
        /\ at' \in {"associate", "update"}
    BY <1>5 DEF Associate, Next1, Fail, End, Differs
  <2>2. Held' \subseteq Held \cup {ip}
    BY <1>5 DEF Associate, Held, TypeOK
  <2>3. Differs
    BY <1>0, <2>1 DEF Differs
  <2> QED
    BY <2>1, <2>2, <2>3 DEF SetsInv
<1>6. ASSUME Answer, ~ DiffStaticIps, \A ip \in IPs : ~ Associate(ip) PROVE SetsInv'
  <2>1. Held' \subseteq Held
    BY <1>2, <1>6 DEF Held
  <2>2. /\ planned' = planned /\ dis' = dis
        /\ at \notin {"diff", "associate"} /\ at' # "associate"
        /\ at' = "dissociate" => todo' = dis \/ (at = "dissociate" /\ todo' \subseteq todo)
        /\ at' \in {"tags", "read"} =>
             dis = {} \/ Held \subseteq planned \/ at \in {"tags", "read"}
    <3> USE <1>0 DEF Go, Hit, Pending, Proceed, Succeed, Fail, End
    <3>1. CASE WaitService \/ WaitIPs
      BY <3>1 DEF WaitService, WaitIPs
    <3>2. CASE Password
      BY <3>2 DEF Password
    <3>3. CASE Tags \/ Read
      BY <3>3 DEF Tags, Read
    <3>4. CASE ServiceUpdate
      BY <3>4 DEF ServiceUpdate
    <3>5. CASE WaitGone
      BY <3>5 DEF WaitGone, Disassociated
    <3>6. CASE \E ip \in IPs : Dissociate(ip)
      BY <3>6 DEF Dissociate, Next1
    <3>7. CASE ServiceDelete \/ WaitDeleted
      BY <3>7 DEF ServiceDelete, WaitDeleted
    <3> QED
      BY <1>1, <1>6, <3>1, <3>2, <3>3, <3>4, <3>5, <3>6, <3>7 DEF Answer
  <2> QED
    BY <1>0, <2>1, <2>2 DEF SetsInv, Differs
<1> QED
  BY <1>3, <1>4, <1>5, <1>6, GoesOn DEF SetsInv

LEMMA Keeps == TypeOK /\ PlaceInv /\ SetsInv /\ KeptInv /\ [Next]_vars => KeptInv'
<1> DEFINE Early == {"associate", "update", "wait", "waitIPs"}
           Late  == {"password", "dissociate", "waitGone", "tags", "read"}
<1> SUFFICES ASSUME TypeOK, PlaceInv, SetsInv, KeptInv, [Next]_vars, Differs', Alive'
             PROVE  /\ calm' => planned' \cap leaving' = {}
                    /\ at' \in Early => before' \subseteq Held' \ leaving'
                    /\ calm' /\ at' \in Late => Ready(planned)'
  BY DEF KeptInv
<1>0. /\ op' = "update" /\ op = "update" /\ at' # "diff"
      /\ at \notin {"create", "delete", "waitDeleted"}
      /\ at \in Early \cup Late \cup {"diff"}
  BY GoesOn DEF Differs, PlaceInv
<1>1. ~ ServiceCreate
  BY <1>0 DEF ServiceCreate
<1>2. Alive
  BY <1>1, StaysDead
<1>3. \A ip \in IPs :
        /\ ip \in leaving' => ip \in leaving \/ Dissociate(ip)
        /\ owner[ip] = "this" /\ ip \notin leaving => owner[ip]' = "this"
        /\ owner[ip] = "this" /\ ip \notin leaving /\ ipState[ip] \in {"available", "assigned"}
             => ipState[ip]' \in {"available", "assigned"}
  BY <1>1, IPMoves
<1>4. planned \subseteq IPs /\ before \subseteq IPs /\ leaving' \subseteq IPs
  BY Typed DEF TypeOK
<1>5. ASSUME Differs, planned' = planned, calm' = calm, before' = before,
             at' \in Early => at \in Early,
             calm /\ at' \in Late => Ready(planned),
             leaving' \subseteq leaving
      PROVE  KeptInv'
  <2>1. calm => planned \cap leaving = {}
    BY <1>2, <1>5 DEF KeptInv
  <2>2. ASSUME at' \in Early PROVE before' \subseteq Held' \ leaving'
    <3>1. before \subseteq Held \ leaving
      BY <1>2, <1>5, <2>2 DEF KeptInv
    <3> QED
      BY <1>3, <1>4, <1>5, <3>1 DEF Held
  <2>3. ASSUME calm', at' \in Late PROVE Ready(planned)'
    <3>1. Ready(planned) /\ planned \cap leaving = {}
      BY <1>5, <2>1, <2>3
    <3> QED
      BY <1>3, <1>4, <1>5, <3>1 DEF Ready
  <2> QED
    BY <1>5, <2>1, <2>2, <2>3 DEF KeptInv
<1>6. CASE UNCHANGED callVars /\ UNCHANGED historyVars
  <2>1. ASSUME NEW ip \in IPs, Dissociate(ip) PROVE FALSE
    <3>1. ip \in todo /\ todo' = todo \ {ip}
      BY <2>1 DEF Dissociate, Next1, Fail, End, Differs
    <3> QED
      BY <1>6, <3>1 DEF callVars
  <2>2. Differs /\ planned' = planned /\ calm' = calm /\ before' = before /\ at' = at
    BY <1>6 DEF Differs, callVars, historyVars
  <2>3. calm /\ at' \in Late => Ready(planned)
    BY <1>2, <2>2 DEF KeptInv
  <2>4. leaving' \subseteq leaving
    BY <1>3, <1>4, <2>1
  <2>5. KeptInv'
    BY <1>5, <2>2, <2>3, <2>4
  <2> QED
    BY <2>5 DEF KeptInv
<1>7. CASE DiffStaticIps
  <2>1. /\ planned' = planned /\ calm' = (planned \cap leaving = {}) /\ before' = Held \ leaving
        /\ UNCHANGED <<owner, leaving>> /\ at' \in {"associate", "update"}
    BY <1>7 DEF DiffStaticIps, AfterDiff, backendVars
  <2> QED
    BY <2>1 DEF Held
<1>8. ASSUME NEW ip \in IPs, Dissociate(ip) PROVE KeptInv'
  <2>1. /\ at = "dissociate" /\ ip \in todo /\ at' \in {"dissociate", "waitGone"}
        /\ leaving' = leaving \cup {ip}
        /\ UNCHANGED <<service, owner, ipState, planned, calm>>
    BY <1>8 DEF Dissociate, Next1, Fail, End, Differs, historyVars
  <2>2. Differs
    BY <1>0, <2>1 DEF Differs
  <2>3. ip \notin planned
    BY <2>1, <2>2 DEF SetsInv
  <2>4. calm => planned \cap leaving = {} /\ Ready(planned)
    BY <1>2, <2>1, <2>2 DEF KeptInv
  <2> QED
    BY <2>1, <2>3, <2>4 DEF KeptInv, Ready
<1>9. ASSUME Answer, ~ DiffStaticIps, \A ip \in IPs : ~ Dissociate(ip) PROVE KeptInv'
  <2>1. leaving' \subseteq leaving
    BY <1>3, <1>4, <1>9
  <2>2. /\ planned' = planned /\ calm' = calm /\ before' = before /\ at # "diff"
        /\ at' \in Early => at \in Early
        /\ at' \in Late => at \in Late \/ (at = "waitIPs" /\ Ready(planned))
    <3> USE <1>0 DEF Go, Hit, Pending, Proceed, Succeed, Fail, End, historyVars
    <3>1. CASE WaitService \/ WaitIPs
      BY <3>1 DEF WaitService, WaitIPs
    <3>2. CASE Password
      BY <3>2 DEF Password
    <3>3. CASE Tags \/ Read
      BY <3>3 DEF Tags, Read
    <3>4. CASE ServiceUpdate
      BY <3>4 DEF ServiceUpdate
    <3>5. CASE WaitGone
      BY <3>5 DEF WaitGone
    <3>6. CASE \E ip \in IPs : Associate(ip)
      BY <3>6 DEF Associate, Next1
    <3>7. CASE ServiceDelete \/ WaitDeleted
      BY <3>7 DEF ServiceDelete, WaitDeleted
    <3> QED
      BY <1>1, <1>9, <3>1, <3>2, <3>3, <3>4, <3>5, <3>6, <3>7 DEF Answer
  <2>3. Differs
    BY <1>0, <2>2 DEF Differs
  <2>4. calm /\ at' \in Late => Ready(planned)
    BY <1>2, <2>2, <2>3 DEF KeptInv
  <2> QED
    BY <1>5, <2>1, <2>2, <2>3, <2>4
<1> QED
  BY <1>6, <1>7, <1>8, <1>9, GoesOn DEF KeptInv

\* One IP's owner and state, among the service's own.
LEMMA PoolMoves ==
  ASSUME TypeOK, PoolInv, [Next]_vars, "outsiders" \notin faults, NEW ip \in IPs
  PROVE  /\ owner[ip]' # "other"
         /\ owner[ip]' = "none" => ipState[ip]' # "available"
         /\ ipState[ip]' = "assigned" => ipState[ip] = "assigned" \/ service = "running"
         /\ service' = "absent" => owner[ip]' # "this"
<1> USE DEF TypeOK, PoolInv, Held, vars, backendVars
<1>1. CASE UNCHANGED backendVars
  BY <1>1
<1>2. CASE ServiceCreate
  BY <1>2 DEF ServiceCreate
<1>3. CASE \E i \in IPs : Associate(i)
  BY <1>3 DEF Associate
<1>4. CASE ServiceUpdate \/ ServiceDelete \/ \E i \in IPs : Dissociate(i)
  BY <1>4 DEF ServiceUpdate, ServiceDelete, Dissociate
<1>5. CASE Rebuilt \/ GetReady \/ PowerOff
  BY <1>5 DEF Rebuilt, GetReady, PowerOff
<1>6. CASE Vanish
  BY <1>6 DEF Vanish
<1>7. CASE \E i \in IPs : Attach(i)
  BY <1>7 DEF Attach
<1>8. CASE \E i \in IPs : Detach(i) \/ Release(i)
  BY <1>8 DEF Detach, Release
<1>9. CASE Start \/ CallFails \/ WaitExpires
  BY <1>1, <1>9 DEF Start, StartRead, StartDelete, StartCreate, StartUpdate, Begin, CallFails,
       WaitExpires
<1>10. CASE Answer
  BY <1>1, <1>2, <1>3, <1>4, <1>10 DEF Answer, WaitService, WaitIPs, Password, Tags, Read,
       DiffStaticIps, WaitGone, WaitDeleted
<1> QED
  BY <1>1, <1>5, <1>6, <1>7, <1>8, <1>9, <1>10 DEF Next, Step, Converge, Others, OtherTakes,
     OtherReleases

\* A step towards the end of a Delete, or of the service.
LEMMA DeadMoves ==
  ASSUME TypeOK, PoolInv, [Next]_vars, "outsiders" \notin faults
  PROVE  /\ at' = "waitDeleted" => Dead'
         /\ \/ freed' = freed
            \/ freed' = {}
            \/ freed' = planned /\ Dead' /\ UNCHANGED ipState
                 /\ \A ip \in planned : ipState[ip] # "assigned"
         /\ Dead /\ ~ Dead' => at' # "waitDeleted" /\ freed' = {}
<1> USE DEF Dead, PoolInv, vars, backendVars, callVars, historyVars, operationVars
<1>1. CASE Start
  BY <1>1 DEF Start, StartRead, StartDelete, StartCreate, StartUpdate, Begin
<1>2. CASE CallFails \/ WaitExpires
  BY <1>2 DEF CallFails, WaitExpires, Fail, End
<1>3. CASE ServiceCreate
  BY <1>3 DEF ServiceCreate, Refused, Go, Fail, End
<1>4. CASE WaitDeleted
  BY <1>4 DEF WaitDeleted, StillAssigned, Hit, Pending, Succeed, End
<1>5. CASE ServiceDelete
  BY <1>5 DEF ServiceDelete, Go, Fail, End
<1>6. CASE Answer /\ ~ ServiceCreate /\ ~ WaitDeleted /\ ~ ServiceDelete
  BY <1>6 DEF Answer, WaitService, WaitIPs, Password, Tags, Read, DiffStaticIps, AfterDiff,
       ServiceUpdate, WaitGone, Associate, Dissociate, Next1, Go, Hit, Pending, Proceed, Succeed,
       Fail, End
<1>7. CASE Converge \/ Others \/ UNCHANGED vars
  BY <1>7 DEF Converge, Rebuilt, GetReady, Vanish, Attach, Detach, Release,
       Others, PowerOff, OtherTakes, OtherReleases
<1> QED
  BY <1>1, <1>2, <1>3, <1>4, <1>5, <1>6, <1>7 DEF Next, Step

LEMMA Pool == TypeOK /\ PoolInv /\ [Next]_vars => PoolInv'
<1> SUFFICES ASSUME TypeOK, PoolInv, [Next]_vars, "outsiders" \notin faults'
             PROVE  PoolInv'
  BY DEF PoolInv
<1>0. "outsiders" \notin faults
  BY DEF Next, vars
<1>1. \A ip \in IPs : owner[ip]' # "other" /\ (owner[ip]' = "none" => ipState[ip]' # "available")
  BY <1>0, PoolMoves
<1>2. service' = "absent" => Held' = {}
  BY <1>0, PoolMoves DEF Held
<1>3. at' = "waitDeleted" => Dead'
  BY <1>0, DeadMoves
<1>4. freed' # {} => Dead'
  BY <1>0, DeadMoves DEF PoolInv
<1>5. \A ip \in freed' : ipState[ip]' # "assigned"
  <2> SUFFICES ASSUME NEW ip \in freed' PROVE ipState[ip]' # "assigned"
    OBVIOUS
  <2>1. CASE freed' = freed
    <3>1. Dead /\ ipState[ip] # "assigned"
      BY <1>0, <2>1 DEF PoolInv
    <3> QED
      BY <1>0, <2>1, <3>1, PoolMoves DEF Dead, TypeOK
  <2>2. CASE freed' = planned /\ UNCHANGED ipState /\ \A i \in planned : ipState[i] # "assigned"
    BY <2>2
  <2> QED
    BY <1>0, <2>1, <2>2, DeadMoves
<1> QED
  BY <1>1, <1>2, <1>3, <1>4, <1>5 DEF PoolInv

LEMMA Inductive == Spec => []IInv
<1>1. Init => IInv
  <2>1. Init => TypeOK
    <3>1. 0 \in 0..(Occurrences - 1)
      OBVIOUS
    <3>2. NoEntry \in Entries
      BY DEF NoEntry, Entries
    <3>3. "none" \in Steps
      BY DEF Steps
    <3> QED
      BY <3>1, <3>2, <3>3 DEF Init, TypeOK
  <2>2. Init => PlaceInv /\ MadeInv /\ SetsInv /\ KeptInv
    BY DEF Init, PlaceInv, MadeInv, SetsInv, KeptInv, Differs
  <2>3. Init => PoolInv
    BY DEF Init, PoolInv, Held
  <2> QED
    BY <2>1, <2>2, <2>3 DEF IInv
<1>2. IInv /\ [Next]_vars => IInv'
  BY Typed, Placed, MadeFirst, Sets, Keeps, Pool DEF IInv
<1> QED
  BY <1>1, <1>2, PTL DEF Spec

-----------------------------------------------------------------------------
(* Theorems.                                                               *)

\* Every variable keeps its type, whatever the calls and the backend do.
THEOREM TypeCorrect == Spec => []TypeOK
<1>1. IInv => TypeOK
  BY DEF IInv
<1> QED
  BY <1>1, Inductive, PTL

\* "associate first": an Update that fails, times out or loses its answer at
\* any point leaves the service the IPs it had, or all the planned ones ready.
THEOREM NeverStrippedOfIPs == Spec => []NeverStripped
<1>1. IInv => NeverStripped
  BY DEF IInv, PlaceInv, KeptInv, NeverStripped, Differs, Alive, Held
<1> QED
  BY <1>1, Inductive, PTL

\* When an operation succeeds.
LEMMA Success ==
  ASSUME IInv, [Next]_vars, NEW operation \in {"create", "update", "delete"}, Succeeds(operation)
  PROVE  /\ op = operation
         /\ \/ Read /\ operation # "delete"
            \/ WaitDeleted /\ operation # "update" /\ ~ Pending("waitDeleted")
<1> USE DEF Succeeds, vars, backendVars, callVars, historyVars, operationVars
<1>1. CASE Start \/ CallFails \/ WaitExpires
  BY <1>1 DEF Start, StartRead, StartDelete, StartCreate, StartUpdate, Begin, CallFails,
       WaitExpires, Fail, End
<1>2. CASE Answer
  BY <1>2 DEF Answer, ServiceCreate, Refused, WaitService, WaitIPs, Password, Tags, Read,
       DiffStaticIps, AfterDiff, ServiceUpdate, WaitGone, ServiceDelete, WaitDeleted,
       Associate, Dissociate, Next1, Go, Hit, Pending, Proceed, Fail, End, IInv, PlaceInv
<1>3. CASE Converge \/ Others \/ UNCHANGED vars
  BY <1>3 DEF Converge, Rebuilt, GetReady, Vanish, Attach, Detach, Release,
       Others, PowerOff, OtherTakes, OtherReleases
<1> QED
  BY <1>1, <1>2, <1>3 DEF Next, Step

\* An Update that succeeds leaves the service with the planned static IPs and no others,
\* after however many that failed half-way.
THEOREM UpdatesSettle == Spec => UpdateSettles
<1> DEFINE Settled == Succeeds("update") /\ calm /\ service \notin {"absent", "deleting"} => Held = planned
<1>1. IInv /\ [Next]_vars => [Settled]_vars
  <2> SUFFICES ASSUME IInv, [Next]_vars, Succeeds("update"), calm,
                      service \notin {"absent", "deleting"}
               PROVE  Held = planned
    OBVIOUS
  <2>1. op = "update" /\ at = "read"
    BY Success DEF Read
  <2> QED
    BY <2>1 DEF IInv, TypeOK, SetsInv, KeptInv, Differs, Alive, Ready, Held
<1> QED
  BY <1>1, Inductive, PTL DEF Spec, UpdateSettles

\* A Create that succeeds has made the service itself.
THEOREM CreatesAreFirst == Spec => CreateIsFirst
<1>1. IInv /\ [Next]_vars => [Succeeds("create") => made]_vars
  BY Success DEF IInv, MadeInv, Read, WaitDeleted
<1> QED
  BY <1>1, Inductive, PTL DEF Spec, CreateIsFirst

\* When a Delete has succeeded and the service is gone, then or later, the
\* static IPs that the Terraform state gave it are free for the next Create,
\* if no other service uses static IPs.
THEOREM FreedIPsAreUsable == Spec => []FreedAreUsable
<1>1. IInv => FreedAreUsable
  BY DEF IInv, TypeOK, PoolInv, Held, Free, FreedAreUsable
<1> QED
  BY <1>1, Inductive, PTL
=============================================================================
