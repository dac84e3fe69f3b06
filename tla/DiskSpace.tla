-------------------------------- MODULE DiskSpace --------------------------------
(***************************************************************************)
(* The disk of a service through applies.  The API has its size, which the *)
(* user configures in one of two ways: disk_space is all of it,            *)
(* additional_disk_space what comes on top of the plan's.  Without either  *)
(* it is the plan's, unless an autoscaler integration is in charge.  Core  *)
(* does not show that a computed value was removed, so the custom diff     *)
(* does, and a refresh does not know what is in the configuration.         *)
(***************************************************************************)
EXTENDS Integers

CONSTANT
  MaxTurns  \* bound: edits, changes of others and faults of one behaviour

VARIABLES
  configured,  \* plan, disk_space and additional_disk_space in the configuration
  modified,    \* another attribute of the service was edited
  service,     \* its plan, "gone" if there is none, the size of its disk, its autoscaler
  tracked,     \* the three in the Terraform state, the plan "gone" without an entry
  task,        \* what is done now
  proposal,    \* the three in the plan of core
  steady,      \* nobody else has changed the service since the plan was made
  turns        \* so far

diskVars == <<configured, modified, service, tracked, task, proposal, steady, turns>>

-----------------------------------------------------------------------------
(* Sizes are numbers of the smallest step, as they are written.            *)

None == <<0, "">>

NoMore == <<0, "B">>

Number(size) == size[1]

HumanReadable(number) == <<number, "GiB">>

Sizes == {None, NoMore, <<2, "G">>} \cup {HumanReadable(number) : number \in 1..4}

\* GetServicePlanParametersFromSchema.  A cap of 0 says that the size is fixed, by
\* the plan or by its price.  Nothing is known of a new type of plan.
Plans == {"small", "large", "fixed", "unknown"}

DiskSizeDefault(plan) ==
  CASE plan = "large" -> 2 [] plan = "unknown" -> 0 [] OTHER -> 1

DiskSizeMax(plan) == CASE plan = "small" -> 3 [] plan = "large" -> 4 [] OTHER -> 0

DiskSizeStep(plan) == IF plan = "large" THEN 2 ELSE 1

\* What the service can have.
Possible(plan) ==
  CASE plan = "fixed" -> {1} [] plan = "unknown" -> 1..4
    [] OTHER -> DiskSizeDefault(plan)..DiskSizeMax(plan)

Configurations ==
  LET extras == {size \in Sizes \ {NoMore} : Number(size) \in 0..2}
  IN  {c \in [plan : Plans, disk : Sizes \ {NoMore}, extra : extras] :
         None \in {c.disk, c.extra}}

Anew == [plan |-> "gone", disk |-> None, extra |-> None]

-----------------------------------------------------------------------------
(* The plan of core.                                                       *)

HasConfigValue(size) == size # None

\* getDiskSpaceFromStateOrDiff.
Requested ==
  IF HasConfigValue(configured.disk)
  THEN Number(configured.disk)
  ELSE DiskSizeDefault(configured.plan) + Number(configured.extra)

Unrequestable ==
  /\ ~HasConfigValue(configured.disk) /\ HasConfigValue(configured.extra)
  /\ configured.plan = "unknown"

Fits ==
  LET plan == configured.plan
  IN  \/ plan = "unknown"
      \/ Requested = DiskSizeDefault(plan)
      \/ /\ Requested \in DiskSizeDefault(plan)..DiskSizeMax(plan)
         /\ (Requested - DiskSizeDefault(plan)) % DiskSizeStep(plan) = 0

\* additional_disk_space is computed: core keeps what is not configured.
Kept == IF HasConfigValue(configured.extra) THEN configured.extra ELSE tracked.extra

Configured == HasConfigValue(configured.disk) \/ HasConfigValue(configured.extra)

AutoscalerConflict == Kept # None /\ Configured /\ service.plan # "gone" /\ service.scaled

\* CustomizeDiffCheckDiskSpace and CustomizeDiffAdditionalDiskSpace.
Rejected == (~Fits /\ (Kept # None \/ HasConfigValue(configured.disk))) \/ AutoscalerConflict

\* Mutant of Extra: no diff for the computed value.
ExtraKept == Kept

Extra ==
  IF Kept # None /\ ~Configured /\ service.plan # "gone" /\ ~service.scaled
  THEN NoMore ELSE Kept

Proposed == [plan |-> configured.plan, disk |-> configured.disk, extra |-> Extra]

-----------------------------------------------------------------------------
(* Read.                                                                   *)

ExtraShown(s) ==
  IF s.plan = "unknown" \/ s.disk <= DiskSizeDefault(s.plan) THEN None
  ELSE HumanReadable(s.disk - DiskSizeDefault(s.plan))

\* disk_space is read only where there is a configuration.
Copied(d, s, withConfig) ==
  [plan |-> s.plan, extra |-> ExtraShown(s),
   disk |-> IF withConfig /\ HasConfigValue(configured.disk) THEN HumanReadable(s.disk)
            ELSE d.disk]

-----------------------------------------------------------------------------
TypeOK ==
  /\ configured \in Configurations
  /\ {modified, steady, service.scaled} \subseteq BOOLEAN
  /\ service.plan \in Plans => service.disk \in Possible(service.plan)
  /\ service.plan = "gone" <=> tracked.plan = "gone"
  /\ {tracked.disk, tracked.extra, proposal.disk, proposal.extra} \subseteq Sizes
  /\ tracked.disk # NoMore
  /\ task \in {"none", "plan", "create", "update"}
  /\ task \in {"create", "update"} <=> proposal # Anew
  /\ turns \in 0..MaxTurns

\* A new service, or one that was imported: the Read that follows sets the rest.
Init ==
  /\ configured \in Configurations /\ modified = FALSE
  /\ \/ service = [plan |-> "gone", disk |-> 0, scaled |-> FALSE] /\ tracked = Anew
     \/ /\ service \in [plan : Plans, disk : 1..4, scaled : BOOLEAN]
        /\ service.disk \in Possible(service.plan)
        /\ tracked = [Anew EXCEPT !.plan = service.plan]
  /\ task = "none" /\ proposal = Anew /\ steady = TRUE /\ turns = 0

Turn == turns < MaxTurns /\ turns' = turns + 1

Idle == task' = "none" /\ proposal' = Anew /\ steady' = TRUE

Refresh ==
  /\ task = "none"
  /\ task' = "plan"
  /\ tracked' = IF tracked.plan = "gone" THEN tracked ELSE Copied(tracked, service, FALSE)
  /\ UNCHANGED <<configured, modified, service, proposal, steady, turns>>

Verdict ==
  CASE Rejected                                 -> "none"
    [] ~Rejected /\ tracked.plan = "gone"       -> "create"
    [] OTHER -> IF Proposed # tracked \/ modified THEN "update" ELSE "none"

Plan ==
  /\ task = "plan"
  /\ task' = Verdict
  /\ proposal' = IF Verdict = "none" THEN Anew ELSE Proposed
  /\ UNCHANGED <<configured, modified, service, tracked, steady, turns>>

Create ==
  /\ task = "create"
  /\ IF Unrequestable
     THEN UNCHANGED <<service, tracked>>
     ELSE /\ \E disk \in IF Requested = 0 THEN Possible(configured.plan) ELSE {Requested} :
               service' = [plan |-> configured.plan, disk |-> disk, scaled |-> FALSE]
          /\ tracked' = Copied(proposal, service', TRUE)
  /\ modified' = FALSE
  /\ Idle
  /\ UNCHANGED <<configured, turns>>

\* The size is sent if the service, as it is now, has no autoscaler.  The API moves
\* a service of another plan to a size it can have.
Updated ==
  CASE ~service.scaled /\ Requested # 0 -> {Requested}
    [] OTHER -> IF service.plan = proposal.plan THEN {service.disk}
                ELSE Possible(proposal.plan)

Moved(disk) == [plan |-> proposal.plan, disk |-> disk, scaled |-> service.scaled]

Update ==
  /\ task = "update" /\ ~(Unrequestable /\ ~service.scaled)
  /\ \E disk \in Updated : service' = Moved(disk)
  /\ tracked' = Copied(proposal, service', TRUE)
  /\ modified' = FALSE
  /\ Idle
  /\ UNCHANGED <<configured, turns>>

\* The SDK keeps the plan of an Update that fails, with its call done or not.
UpdateFails ==
  /\ task = "update"
  /\ \/ Unrequestable /\ ~service.scaled /\ UNCHANGED <<service, turns>>
     \/ /\ Turn
        /\ \/ UNCHANGED service
           \/ /\ ~(Unrequestable /\ ~service.scaled)
              /\ \E disk \in Updated : service' = Moved(disk)
  /\ tracked' = proposal
  /\ Idle
  /\ UNCHANGED <<configured, modified>>

-----------------------------------------------------------------------------
(* The user, and others: the autoscaler is an integration of its own.      *)

Configure ==
  /\ task = "none" /\ Turn
  /\ configured' \in Configurations \ {configured}
  /\ UNCHANGED <<modified, service, tracked, task, proposal, steady>>

Touch ==
  /\ task = "none" /\ tracked.plan # "gone" /\ ~modified /\ Turn
  /\ modified' = TRUE
  /\ UNCHANGED <<configured, service, tracked, task, proposal, steady>>

Outsider ==
  /\ task # "plan" /\ service.plan # "gone" /\ Turn
  /\ \/ \E disk \in Possible(service.plan) \ {service.disk} :
          service' = [service EXCEPT !.disk = disk]
     \/ service' = [service EXCEPT !.scaled = ~service.scaled]
  /\ steady' = (task = "none")
  /\ UNCHANGED <<configured, modified, tracked, task, proposal>>

Work == Refresh \/ Plan \/ Create \/ Update \/ (UpdateFails /\ turns' = turns)

Next == Work \/ UpdateFails \/ Configure \/ Touch \/ Outsider

Spec == Init /\ [][Next]_diskVars /\ WF_diskVars(Work)

-----------------------------------------------------------------------------
Right ==
  /\ service.plan = configured.plan
  /\ \/ service.disk = Requested /\ ~Unrequestable
     \/ ~Configured /\ (service.scaled \/ service.plan = "unknown")

\* A refresh leaves disk_space as it was, or as a failed Update has planned it: that
\* the disk has another size is not seen.
Unread ==
  /\ HasConfigValue(configured.disk) /\ tracked.disk = configured.disk
  /\ service.plan = configured.plan

\* An autoscaler that came after additional_disk_space, or with a disk of the size of the
\* plan, is not in conflict with disk_space: the size is planned and not sent.
Overruled == service.scaled /\ Configured

\* Sizes are read in GiB: what is written in G differs in every plan.
Abbreviated == "G" \in {configured.disk[2], configured.extra[2]}

\* An Update resizes the disk only if the plan shows another plan or size, and to what
\* is configured, whether or not an autoscaler was in charge.
PlansKept ==
  [][steady /\ task = "update" /\ task' = "none" /\ turns' = turns /\ ~Unrequestable
       => /\ proposal = tracked => service'.disk = service.disk \/ Unread
          /\ Right' \/ service.scaled]_diskVars

\* When core plans no change of a service, it has the disk of the configuration.
NoopIsRight ==
  task = "plan" /\ Verdict = "none" => Rejected \/ Right \/ Unread

Settled ==
  \/ task \in {"none", "plan"} /\ (Right \/ Unread)
  \/ task \in {"none", "plan"} /\ Rejected
  \/ Right /\ Abbreviated
  \/ Unrequestable \/ Overruled

\* Applying again and again ends with the disk that is configured, and with plans that
\* have nothing to do.
Converges == <>[]Settled
===============================================================================
