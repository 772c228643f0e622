------------------------------ MODULE Decision ------------------------------
(***************************************************************************)
(* Whether an entity may be published: what Home Assistant requires of its *)
(* type (validation/ha_component_registry.py), the overrides of the user   *)
(* that concern it (models/evaluate_equipment.py, mapping/overrides.py)    *)
(* and the decision itself (models/decide_publication.py).                 *)
(*                                                                         *)
(* An entity has a type, the type its mapper gave it (its capabilities are *)
(* those of that mapper whatever the user makes of the type), a            *)
(* confidence, a set of capabilities, and the sequence "ids" of the        *)
(* commands it covers.  An override of a command is [type, policy], ""     *)
(* where it says nothing; that of an equipment is a policy.                *)
(***************************************************************************)
EXTENDS Integers, Sequences

ComponentTypes == {"light", "cover", "switch", "sensor", "binary_sensor", "button",
                   "number", "select", "climate", "alarm_control_panel"}
ProductScope == ComponentTypes \ {"number", "select"}
Confidence == {"sure", "probable", "ambiguous"}
Capability == {"onOff", "brightness", "openClose", "position", "stop", "bso", "state",
               "command", "setpoint"}
OverridePolicy == {"", "exclude", "force_publish"}
NoOverride == [type |-> "", policy |-> ""]

\* What a type requires of the capabilities.
Required(type) ==
  CASE type \in {"light", "switch", "button", "number"} -> {"has_command"}
    [] type \in {"sensor", "binary_sensor"} -> {"has_state"}
    [] type = "select" -> {"has_command", "has_options"}
    [] type = "climate" -> {"has_setpoint"}
    [] type = "alarm_control_panel" -> {"has_state", "has_command"}
    [] OTHER -> {}

\* A cover is commanded by its ends, everything else by on and off.
Provided(e) ==
  {c \in {"has_command", "has_state", "has_setpoint"} :
     CASE c = "has_command" -> IF e.native = "cover" THEN "openClose" \in e.caps
                               ELSE e.caps \cap {"onOff", "command"} # {}
       [] c = "has_state" -> "state" \in e.caps
       [] OTHER -> "setpoint" \in e.caps}

\* The commands of the mapper cannot drive the type the user chose.
CrossFamily(e) ==
  \/ e.type \in {"light", "switch"} /\ e.native = "cover"
  \/ e.type = "cover" /\ e.native \in {"light", "switch", "button"}

Valid(e) ==
  /\ e.type \in ComponentTypes
  /\ ~CrossFamily(e)
  /\ Required(e.type) \subseteq Provided(e)

----------------------------------------------------------------------------
\* Overrides

Covered(e) == {e.ids[n] : n \in DOMAIN e.ids}

\* The exclusion of the equipment is a veto, then a command speaks for itself,
\* then the equipment for it.
EquipmentOverride(eqPolicy) ==
  IF eqPolicy = "exclude" THEN "exclude_eqlogic" ELSE eqPolicy
CommandOverride(id, over, eqPolicy) ==
  IF eqPolicy = "exclude" THEN "exclude_eqlogic"
  ELSE IF over[id].policy = "exclude" THEN "exclude_command"
  ELSE IF over[id].policy = "force_publish" THEN "force_publish"
  ELSE EquipmentOverride(eqPolicy)

\* Mutant: a forced command takes the entity with it.
EntityOverrideForced(e, over, eqPolicy) ==
  LET said == {CommandOverride(id, over, eqPolicy) : id \in Covered(e)}
  IN  IF "force_publish" \in said THEN "force_publish"
      ELSE IF said \cap {"exclude_eqlogic", "exclude_command"} # {} THEN "exclude_command"
      ELSE ""
\* The policy of an entity: any exclusion wins, wherever it comes in the order of
\* the commands.
EntityOverride(e, over, eqPolicy) ==
  LET said == {CommandOverride(id, over, eqPolicy) : id \in Covered(e)}
                \cup {EquipmentOverride(eqPolicy)}
  IN  IF "exclude_eqlogic" \in said THEN "exclude_eqlogic"
      ELSE IF "exclude_command" \in said THEN "exclude_command"
      ELSE IF "force_publish" \in said THEN "force_publish"
      ELSE ""

\* The type of the first command that has one replaces that of the entity.
Retyping(e, over) == {n \in DOMAIN e.ids : over[e.ids[n]].type # ""}
Retyped(e, over) ==
  IF Retyping(e, over) = {} THEN e
  ELSE [e EXCEPT !.type =
          over[e.ids[CHOOSE n \in Retyping(e, over) :
                       \A m \in Retyping(e, over) : n <= m]].type]

\* Mutant: a proposed override replaces the whole saved one.
MergedWhole(saved, proposed) ==
  [id \in DOMAIN saved |-> IF proposed[id] = NoOverride THEN saved[id] ELSE proposed[id]]
\* What is proposed and not yet saved replaces what is saved, field by field.
Merged(saved, proposed) ==
  [id \in DOMAIN saved |->
    [type   |-> IF proposed[id].type # "" THEN proposed[id].type ELSE saved[id].type,
     policy |-> IF proposed[id].policy # "" THEN proposed[id].policy
                ELSE saved[id].policy]]
MergedPolicy(saved, proposed) == IF proposed # "" THEN proposed ELSE saved

\* A proposed type also wins over the saved type of another command of the entity.
RetypedFirst(e, saved, proposed) ==
  LET merged == Merged(saved, proposed)
      first  == [id \in DOMAIN saved |-> IF proposed[id] = NoOverride THEN NoOverride
                                         ELSE merged[id]]
  IN  Retyped(e, IF Retyping(e, first) # {} THEN first ELSE merged)

----------------------------------------------------------------------------
\* The decision

Reasons == {"publication_excluded_eqlogic", "publication_excluded_command",
            "ambiguous_skipped", "projection_invalid",
            "ha_component_not_in_product_scope", "publication_forced",
            "probable_skipped", "nominal"}
Published == {"publication_forced", "nominal"}

DecisionReason(e, confidencePolicy, override) ==
  IF override = "exclude_eqlogic" THEN "publication_excluded_eqlogic"
  ELSE IF override = "exclude_command" THEN "publication_excluded_command"
  ELSE IF e.conf = "ambiguous" /\ override # "force_publish" THEN "ambiguous_skipped"
  ELSE IF ~Valid(e) THEN "projection_invalid"
  ELSE IF e.type \notin ProductScope THEN "ha_component_not_in_product_scope"
  ELSE IF override = "force_publish" THEN "publication_forced"
  ELSE IF confidencePolicy = "sure_only" /\ e.conf = "probable" THEN "probable_skipped"
  ELSE "nominal"

\* The step of the pipeline a reason belongs to.
Step(reason) ==
  CASE reason \in {"publication_excluded_eqlogic", "publication_excluded_command"} -> "2b"
    [] reason = "ambiguous_skipped" -> "2"
    [] reason = "projection_invalid" -> "3"
    [] OTHER -> "4"

Decide(e, confidencePolicy, over, eqPolicy) ==
  LET reason == DecisionReason(e, confidencePolicy, EntityOverride(e, over, eqPolicy))
  IN  [entity |-> e, reason |-> reason, publish |-> reason \in Published]
=============================================================================
