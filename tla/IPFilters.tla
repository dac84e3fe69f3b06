-------------------------------- MODULE IPFilters --------------------------------
(***************************************************************************)
(* The networks that may connect to a service, through applies.  The API   *)
(* has one list of them, the schema three fields: ip_filter, which is      *)
(* deprecated, and ip_filter_string for networks, ip_filter_object for     *)
(* networks with a description.  Expand makes one list of the three, and   *)
(* sends an empty one, which blocks all traffic, only if the environment   *)
(* allows it; Flatten decides which field shows the list.                  *)
(* The other fields are in UserConfig, which has the rest of the code.     *)
(***************************************************************************)
EXTENDS Naturals, FiniteSets

CONSTANT
  MaxMoves  \* bound: edits, changes of others and faults of one behaviour

VARIABLES
  purge,     \* AIVEN_ALLOW_IP_FILTER_PURGE is set
  filters,   \* of each field its value in the configuration
  edited,    \* another field of the service was edited
  networks,  \* the list at the API, "gone" without a service
  known,     \* of each field its value in the Terraform state, empty without an entry
  doing,     \* what is done now
  shown,     \* of each field its value in the plan
  moves      \* so far

filterVars == <<purge, filters, edited, networks, known, doing, shown, moves>>

Strings == {"ip_filter", "ip_filter_string"}

Aliases == {"ip_filter_string", "ip_filter_object"}

AllFilters == Strings \cup Aliases

\* "any" is one of the lists that IsDefaultIPFilterList knows, which the API
\* gives to a new service: they let everyone in.
Lists == {"empty", "any", "some", "others"}

NonEmpty == Lists \ {"empty"}

Nowhere == [f \in AllFilters |-> "empty"]

\* One of the fields may have networks, null asks for nothing.  The field of
\* objects, which are blocks, has some or is null.
Configurations ==
  {[f \in AllFilters |-> IF f = used THEN list
                         ELSE IF f \in cleared THEN "empty" ELSE "none"] :
    used \in AllFilters, list \in NonEmpty \cup {"none"}, cleared \in SUBSET Strings}

\* What the fields ask for together.
Asked ==
  LET given == {filters[f] : f \in AllFilters} \ {"none"}
  IN  IF given \subseteq {"empty"} THEN given ELSE given \ {"empty"}

-----------------------------------------------------------------------------
(* Plan.                                                                   *)

\* The SDK takes null in the configuration for what is in the state.
HasChange(f, old) == filters[f] \notin {"none", old}

\* suppressIPFilterSet: a default list that is not in the configuration stays.
\* isObjectSet: the removal of a set of objects is shown.
SuppressUnchanged(f, old) ==
  ~HasChange(f, old) /\ f \in Strings /\ old = "any"

PlannedAnew == [f \in AllFilters |-> IF filters[f] = "none" THEN "empty" ELSE filters[f]]

PlannedInPlace ==
  [f \in AllFilters |-> IF SuppressUnchanged(f, known[f]) THEN known[f] ELSE PlannedAnew[f]]

-----------------------------------------------------------------------------
(* Expand and Flatten.                                                     *)

\* A field that is null or empty is sent, as an empty list, only if that is a change.
Expanded(f) ==
  CASE filters[f] \in NonEmpty -> filters[f]
    [] OTHER -> IF shown[f] # known[f] THEN "empty" ELSE "absent"

\* renameAliasesToDto, for one alias: a list that is already there stays, unless
\* it is empty.
\* Mutant of Renamed: the alias takes the place of what is there.
RenamedOver(list, alias) ==
  IF Expanded(alias) = "absent" THEN list ELSE Expanded(alias)

Renamed(list, alias) ==
  CASE Expanded(alias) = "absent" -> list
    [] OTHER -> IF list \in NonEmpty THEN list ELSE Expanded(alias)

\* The order of the two aliases, whose names have the same length, is that of a map.
Orders == {o \in Aliases \X Aliases : o[1] # o[2]}

Requests == {Renamed(Renamed(Expanded("ip_filter"), o[1]), o[2]) : o \in Orders}

\* Expand fails rather than send an empty list.
Refused(request) == request = "empty" /\ ~purge

\* renameAliasesToTfo: an alias with a value in d takes the list, and of two the
\* first; convertIPFilter gives it the type of the field.
Showing(d) ==
  LET used == {f \in Aliases : d[f] \in NonEmpty}
  IN  IF used = {} THEN {"ip_filter"} ELSE used

Flattened(d, list) ==
  {[f \in AllFilters |-> IF f = shows THEN list ELSE "empty"] : shows \in Showing(d)}

-----------------------------------------------------------------------------
TypeOK ==
  /\ purge \in BOOLEAN /\ edited \in BOOLEAN
  /\ filters \in Configurations
  /\ networks \in Lists \cup {"gone"}
  /\ known \in [AllFilters -> Lists] /\ shown \in [AllFilters -> Lists]
  /\ doing \in {"none", "plan", "create", "update"}
  /\ doing = "create" => networks = "gone"
  /\ doing \notin {"create", "update"} => shown = Nowhere
  /\ networks = "gone" => known = Nowhere
  /\ moves \in 0..MaxMoves

\* A new service, or one that was imported: the Read that follows sets the list.
Init ==
  /\ purge \in BOOLEAN /\ edited = FALSE
  /\ filters \in Configurations
  /\ networks \in Lists \cup {"gone"} /\ known = Nowhere
  /\ doing = "none" /\ shown = Nowhere /\ moves = 0

Move == moves < MaxMoves /\ moves' = moves + 1

Idle == doing' = "none" /\ shown' = Nowhere

Refresh ==
  /\ doing = "none"
  /\ doing' = "plan"
  /\ IF networks = "gone" THEN UNCHANGED known ELSE known' \in Flattened(known, networks)
  /\ UNCHANGED <<purge, filters, edited, networks, shown, moves>>

Verdict ==
  CASE networks = "gone" -> "create"
    [] OTHER -> IF PlannedInPlace # known \/ edited THEN "update" ELSE "none"

Plan ==
  /\ doing = "plan"
  /\ doing' = Verdict
  /\ shown' = CASE Verdict = "create" -> PlannedAnew
                [] Verdict = "update" -> PlannedInPlace
                [] OTHER              -> Nowhere
  /\ UNCHANGED <<purge, filters, edited, networks, known, moves>>

\* An empty list is no change of a new service: the API lets everyone in.
Create ==
  /\ doing = "create"
  /\ networks' \in {IF r = "absent" THEN "any" ELSE r : r \in Requests}
  /\ known' \in Flattened(shown, networks')
  /\ edited' = FALSE
  /\ Idle
  /\ UNCHANGED <<purge, filters, moves>>

\* The SDK keeps the plan of an Update that fails; the service is as it was, or
\* the answer is lost.
Update ==
  /\ doing = "update"
  /\ \E request \in Requests :
       \/ /\ ~Refused(request)
          /\ networks' = IF request = "absent" THEN networks ELSE request
          /\ \/ known' \in Flattened(shown, networks') /\ edited' = FALSE /\ UNCHANGED moves
             \/ Move /\ known' = shown /\ UNCHANGED edited
       \/ Refused(request) /\ known' = shown /\ UNCHANGED <<networks, edited, moves>>
  /\ Idle
  /\ UNCHANGED <<purge, filters>>

UpdateFails ==
  /\ doing = "update" /\ Move
  /\ known' = shown
  /\ Idle
  /\ UNCHANGED <<purge, filters, edited, networks>>

-----------------------------------------------------------------------------
(* The user, and others.                                                   *)

Configure ==
  /\ doing = "none" /\ Move
  /\ filters' \in Configurations \ {filters}
  /\ UNCHANGED <<purge, edited, networks, known, doing, shown>>

Touch ==
  /\ doing = "none" /\ networks # "gone" /\ ~edited /\ Move
  /\ edited' = TRUE
  /\ UNCHANGED <<purge, filters, networks, known, doing, shown>>

Outsider ==
  /\ doing # "plan" /\ networks # "gone" /\ Move
  /\ networks' \in Lists \ {networks}
  /\ UNCHANGED <<purge, filters, edited, known, doing, shown>>

Work == Refresh \/ Plan \/ Create \/ Update

Next == Work \/ UpdateFails \/ Configure \/ Touch \/ Outsider

Spec == Init /\ [][Next]_filterVars /\ WF_filterVars(Work)

-----------------------------------------------------------------------------
Right == Asked \in {{}, {networks}}

\* No plan shows that a field without networks was asked for, if the default list
\* is in another: it is suppressed there, and everyone is let in.
Overlooked ==
  \E f \in AllFilters : filters[f] = "empty" /\ \E g \in Strings \ {f} : known[g] = "any"

\* The removal of ip_filter_string is suppressed, so d goes on showing the list in
\* it, and the field that the user has moved it to differs in every plan.
Misplaced ==
  filters["ip_filter_string"] = "none" /\ known["ip_filter_string"] = "any" /\ networks = "any"

\* Expand cannot send what is asked for, or what the plan shows.
Forbidden ==
  ~purge /\ (Asked = {"empty"} \/ (Asked = {} /\ networks \in {"some", "others"}))

\* An Update leaves the networks as they are or makes them what the configuration
\* asks for, whatever field the user has moved them from: it blocks all traffic
\* only if that is allowed and no field has networks, and it lets everyone in
\* only if a field says so.
FiltersKept ==
  [][doing = "update" /\ doing' = "none" /\ networks' # networks
       => IF networks' = "empty" THEN purge /\ Asked \subseteq {"empty"}
                                 ELSE networks' \in Asked]_filterVars

\* When core plans no change, the service lets in what the configuration says.
NoopIsRight == doing = "plan" /\ Verdict = "none" => Right \/ Overlooked

Settled ==
  /\ networks # "gone"
  /\ \/ doing \in {"none", "plan"} /\ (Right \/ Overlooked)
     \/ Right /\ Misplaced
     \/ Forbidden

\* Applying again and again ends with the networks of the configuration, and with
\* plans that have nothing to do, whatever field shows them in between.
Converges == <>[]Settled
===============================================================================
