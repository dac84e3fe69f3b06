------------------------------ MODULE AttributeData ------------------------------
(***************************************************************************)
(* What becomes of the value of one top-level attribute: in core's plan,   *)
(* in the request that Expand makes of the plan, and in the state that     *)
(* Flatten makes of the response.  The schema of an attribute is a set of  *)
(* flags, its kind; a value is one of two, or one of the ways to have none *)
(* that Terraform and the API tell apart.                                  *)
(***************************************************************************)
EXTENDS Naturals

\* "scalar" is a number or a boolean, "collection" a list or a set.
Types == {"string", "scalar", "collection", "map", "block"}

\* required, optional: the user may set it; else the API does.
\* computed, default, keeps (UseStateForUnknown), replaces (RequiresReplace):
\* what core does about it.  nonZero (ZeroNotAllowed), id (one of IDFields),
\* nested (an attribute of objects): what the adapter does about it.
\* protects: the termination protection of the adapter.  The others are what the
\* handlers of a resource do about it.  hidden: it is in no response.  stays: its
\* value in d is preferred to that of the response.  explicit: a response
\* without it is taken for one that has it empty.
Flags ==
  Types \cup {"required", "optional", "computed", "default", "keeps", "replaces", "nonZero",
              "id", "nested", "protects", "hidden", "stays", "explicit"}

Is(flag, k) == flag \in k

Configurable(k) == Is("required", k) \/ Is("optional", k)

\* A list of blocks is never null: there, having none and being empty are one.
Real == {"one", "two"}
Values == Real \cup {"none", "empty"}

\* The values a user may give it: a required one is not left out, and is no
\* empty string, which the API would refuse.
ConfigValues(k) ==
  IF ~Configurable(k)
  THEN {"none"}
  ELSE Real \cup (IF Is("optional", k) THEN {"none"} ELSE {})
            \cup (IF \/ Is("string", k) /\ Is("optional", k) /\ ~Is("nonZero", k)
                     \/ (Is("collection", k) \/ Is("map", k)) /\ ~Is("nonZero", k)
                  THEN {"empty"} ELSE {})

-----------------------------------------------------------------------------
(* The plan: what core and the framework make of the configuration and of  *)
(* the prior state.                                                        *)

\* Core's proposal, and the default.  A block is not computed for core, though
\* the schema of the adapter may say so.
Proposed(k, config, prior) ==
  CASE config # "none"                        -> config
    [] config = "none" /\ Is("default", k)    -> "one"
    [] config = "none" /\ ~Is("default", k)   ->
         IF Is("computed", k) /\ ~Is("block", k) THEN prior ELSE "none"

\* The value that nobody has given is unknown when the resource is new, and
\* when anything of it changes, unless the attribute keeps its value.
Planned(k, config, prior, new, changes) ==
  IF /\ config = "none" /\ Is("computed", k) /\ ~Is("default", k) /\ ~Is("block", k)
     /\ new \/ (changes /\ ~Is("keeps", k))
  THEN "unknown"
  ELSE Proposed(k, config, prior)

-----------------------------------------------------------------------------
(* Expand.                                                                 *)

\* Types whose zero value is sent in place of a value that was removed.
Emptied(k) ==
  /\ Is("string", k) \/ Is("collection", k) \/ Is("block", k)
  /\ ~Is("computed", k) /\ ~Is("nonZero", k)

\* Mutant of Sent: what was removed is left out of the request.
SentAsPlanned(k, planned, prior) ==
  IF planned = "unknown" \/ ~Configurable(k) THEN "none" ELSE planned

\* "none" is a request without the attribute.  What only the API sets has no
\* place in a request.
Sent(k, planned, prior) ==
  CASE ~Configurable(k) -> "none"
    [] Configurable(k) /\ planned \notin {"none", "unknown"} -> planned
    [] Configurable(k) /\ planned \in {"none", "unknown"} ->
         IF prior # "none" /\ Emptied(k) THEN "empty" ELSE "none"

-----------------------------------------------------------------------------
(* Flatten.                                                                *)

\* What a response says of a value.  One that is not set it leaves out
\* (omits), or shows as empty.
Answer(k, value, omits) ==
  CASE Is("hidden", k)                       -> "absent"
    [] value \in Real /\ ~Is("hidden", k)    -> value
    [] value \notin Real /\ ~Is("hidden", k) ->
         IF Is("explicit", k) THEN "empty"
         ELSE IF omits \/ Is("scalar", k) THEN "absent" ELSE "empty"

\* The block that the adapter calls computed, config of a Kafka topic: it is
\* not put into a state that has not had it, nor into one that is not to.
FlattenedComputedBlock(current, config, answer) ==
  IF \/ answer \notin Real
     \/ config = "none"
     \/ config = "nil" /\ current = "none"
  THEN "none"
  ELSE answer

\* pruneUnsetEmptyCollections: an empty collection is stored only if the state
\* or the configuration has one, so that null and empty stay what they were.
FlattenedEmpty(k, current, config) ==
  IF \/ Is("string", k) \/ Is("block", k)
     \/ ~Is("nested", k) /\ current = "none" /\ config \in {"none", "nil"}
  THEN "none"
  ELSE "empty"

\* current is the value in d, the plan or else the state; config is "nil" for a
\* Read, which is given none.  What the response leaves out stays as it was,
\* but for objects that only the API sets.
Flattened(k, current, config, answer) ==
  IF Is("stays", k) /\ current \in Real THEN current
  ELSE IF Is("block", k) /\ Is("computed", k) THEN FlattenedComputedBlock(current, config, answer)
  ELSE IF answer \in Real THEN answer
  ELSE IF answer = "empty" THEN FlattenedEmpty(k, current, config)
  ELSE IF Is("nested", k) THEN "none" ELSE current
===============================================================================
