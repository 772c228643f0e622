------------------------------- MODULE Rules --------------------------------
(***************************************************************************)
(* An equipment as its owner builds it: commands are added to it in        *)
(* Jeedom, the user saves overrides on it, and every change is followed by *)
(* a sync (or "publier") that evaluates it again.                          *)
(***************************************************************************)
EXTENDS Channels

CONSTANTS
  Setting,          \* [eq, menu, maxTuned]: an equipment, the commands it may get, and
                    \* the bound on their number once it has overrides
  MaxCommands,      \* bound on the commands of an equipment
  MaxSaved,         \* bound on the overrides, each field of a command counted
  OverrideType,     \* the types a user may choose
  Policy            \* the confidence policies

\* An equipment with its commands among those of a set.
Equipments(commands) ==
  [cmds : commands, generic : STRING, keywords : SUBSET STRING, solar : BOOLEAN,
   excluded : STRING, homekit : BOOLEAN, enabled : BOOLEAN]

ASSUME RulesAssumption ==
  /\ MaxCommands \in Nat /\ MaxSaved \in Nat
  /\ \A s \in Setting :
       /\ s.eq \in Equipments(Seq(s.menu)) /\ Len(s.eq.cmds) <= MaxCommands
       /\ s.maxTuned \in 0..MaxCommands
  /\ "" \notin OverrideType
  /\ Policy \subseteq {"sure_only", "sure_probable"}

VARIABLES
  setting,      \* the commands the equipment may be given
  eq,           \* the equipment, as the topology of Jeedom describes it
  policy,       \* the confidence policy of the configuration
  saved,        \* ha_overrides.json: the overrides of its commands
  savedPolicy,  \* and its own
  evaluation    \* the last evaluation

vars == <<setting, eq, policy, saved, savedPolicy, evaluation>>

Silent(e) == [id \in Ids(e) |-> NoOverride]
Sync(e, over, pol) == Evaluate(e, policy, over, pol, Silent(e), "")

Init ==
  /\ setting \in Setting
  /\ eq = setting.eq
  /\ policy \in Policy
  /\ saved = Silent(eq) /\ savedPolicy = ""
  /\ evaluation = Sync(eq, saved, savedPolicy)

\* How many overrides are saved.
Saves(over, pol) ==
  Cardinality({id \in DOMAIN over : over[id].type # ""})
  + Cardinality({id \in DOMAIN over : over[id].policy # ""})
  + (IF pol = "" THEN 0 ELSE 1)
Tuned == Saves(saved, savedPolicy) > 0
Tunable == eq.cmds # <<>> /\ Len(eq.cmds) <= setting.maxTuned

\* A command is added to the equipment in Jeedom.
AddCommand ==
  /\ Len(eq.cmds) < (IF Tuned THEN setting.maxTuned ELSE MaxCommands)
  /\ \E c \in setting.menu :
       /\ c \notin Range(eq.cmds)
       /\ eq' = [eq EXCEPT !.cmds = Append(@, c)]
  /\ saved' = Append(saved, NoOverride)
  /\ evaluation' = Sync(eq', saved', savedPolicy)
  /\ UNCHANGED <<setting, policy, savedPolicy>>

\* The user saves an override of a command, one field of it, or of the equipment.
SaveOverride ==
  /\ Tunable
  /\ \E id \in Ids(eq) :
       \/ \E t \in OverrideType : saved' = [saved EXCEPT ![id].type = t]
       \/ \E p \in {"exclude", "force_publish"} : saved' = [saved EXCEPT ![id].policy = p]
  /\ Saves(saved', savedPolicy) <= MaxSaved
  /\ evaluation' = Sync(eq, saved', savedPolicy)
  /\ UNCHANGED <<setting, eq, policy, savedPolicy>>

SaveEquipment ==
  /\ Tunable
  /\ savedPolicy' \in {"exclude", "force_publish"} \ {savedPolicy}
  /\ Saves(saved, savedPolicy') <= MaxSaved
  /\ evaluation' = Sync(eq, saved, savedPolicy')
  /\ UNCHANGED <<setting, eq, policy, saved>>

\* The user removes the overrides of the equipment.
Revert ==
  /\ Tuned
  /\ saved' = Silent(eq) /\ savedPolicy' = ""
  /\ evaluation' = Sync(eq, saved', savedPolicy')
  /\ UNCHANGED <<setting, eq, policy>>

Next == AddCommand \/ SaveOverride \/ SaveEquipment \/ Revert
Spec == Init /\ [][Next]_vars

----------------------------------------------------------------------------
Up == {n \in DOMAIN evaluation.decisions : evaluation.decisions[n].publish}
PublishedEntities == {evaluation.decisions[n].entity : n \in Up}

\* Each variable has the values the code gives it.
TypeOK ==
  /\ Len(eq.cmds) <= MaxCommands /\ DOMAIN saved = Ids(eq)
  /\ savedPolicy \in OverridePolicy
  /\ \A n \in DOMAIN evaluation.decisions :
       LET d == evaluation.decisions[n]
       IN  /\ d.reason \in Reasons
           /\ d.entity.conf \in Confidence /\ d.entity.caps \subseteq Capability
           /\ d.entity.ids # <<>> /\ Covered(d.entity) \subseteq Ids(eq)

\* The exclusion the user saved is a veto: no published entity covers an excluded
\* command, whatever the place of the command among those of the entity, the type
\* chosen or the forcing of another one (evaluate_equipment.py:166-183).
ExclusionWins ==
  \A e \in PublishedEntities :
    /\ savedPolicy # "exclude"
    /\ \A id \in Ids(eq) : saved[id].policy = "exclude" => id \notin Covered(e)

\* What the interface says of a command is what is published: it is told published
\* exactly when a published entity covers it, also when several entities share it
\* (evaluate_equipment.py:303-314, 474-511).
CommandsToldRight ==
  \A id \in Ids(eq) :
    evaluation.commands[id].publish <=> \E e \in PublishedEntities : id \in Covered(e)

\* In an equipment of several domains, the state a published switch group shows is not
\* a binary sensor as well: the mappers of the switches and of the binary sensors agree
\* on the groups (binary_sensor.py:170-228).
ReadbackNotDuplicated ==
  MultiDomain(eq) =>
    \A s, b \in PublishedEntities :
      (s.native = "switch" /\ s.scope # 0 /\ b.native = "binary_sensor") =>
        s.scope \notin Covered(b)

\* The equipments that are eligible without any tagged command are those the sensor
\* mapper has an entity for, which is published unless an override speaks
\* (sensor.py:58-62, topology.py:388-418).
ExemptionPays ==
  (/\ evaluation.eligible /\ ~\E i \in Ids(eq) : eq.cmds[i].gt # ""
   /\ saved = Silent(eq) /\ savedPolicy = "")
  => \E e \in PublishedEntities : e.type = "sensor"

\* For the types whose states are streamed (the state topics of climates and alarms are
\* declared, publisher.py:799 and 832, and nothing feeds them): what discovery declares,
\* what the state events are bound to and what confirms an order come from three modules,
\* and agree (readback.py:1-10).  Home Assistant waits for the state or the brightness of a
\* light, a cover or a sensor exactly when the daemon streams one on the topic it was told;
\* a switch may instead be told the state it was asked for; the position of a cover is
\* declared, but only fed by a numeric command.  Nothing is streamed elsewhere, except for
\* an entity with a topic of its own that was made a light or a cover.
StatesArrive ==
  \A e \in PublishedEntities : e.type \in Streamed =>
    /\ \A s \in DeclaredStates(eq, e) :
         LET fed == \E b \in Bindings(eq, e) : b.topic = s.topic
         IN  CASE s.channel = "brightness" -> fed
               [] s.channel = "position" -> fed <=> Reliable(eq, e, "position")
               [] s.channel = "state" /\ e.type \in {"light", "cover"} ->
                    Optimistic(eq, e) <=> ~fed
               [] s.channel = "state" /\ e.type = "switch" -> fed \/ ~Confirmed(eq, e)
               [] s.channel = "state" /\ e.type \in {"sensor", "binary_sensor"} -> fed
    /\ (e.type \in {"light", "cover"} => OwnState(e) = {}) =>
         \A b \in Bindings(eq, e) : \E s \in DeclaredStates(eq, e) : b.topic = s.topic

\* The mapper of a light, a cover or a switch made the entity, and an override has changed
\* its type at most when its topic is that of the equipment.
KeepsItsTopic(e) == e.native \in Actionable /\ (e.type = e.native \/ e.scope = 0)

\* An order sent on a topic the discovery of a light, a switch or a cover declares
\* reaches that entity, unless an override made it one from another type and another
\* topic; and the command an order runs, if any, is one of the entity it reaches
\* (command.py:248-349).
OrdersRouted ==
  \A e \in PublishedEntities : e.type \in Actionable =>
    \A topic \in DeclaredCommands(e) :
      LET takers == Routed(evaluation.decisions, topic)
      IN  /\ KeepsItsTopic(e) => takers = {e}
          /\ \A t \in takers, p \in {"ON", "OFF", "OPEN", "CLOSE", "STOP", "50"} :
               OrderCommand(t, topic, p) \subseteq Covered(t)

\* The preview of a policy or of a type tells what the sync decides once it is saved,
\* the overrides already saved included, unless another command of the equipment has a
\* type of its own: the preview then prefers the type of the command it is about
\* (evaluate_equipment.py:140-216).
PreviewHonest ==
  Tunable =>
    \A id \in Ids(eq) :
      LET alone == \A j \in Ids(eq) \ {id} : saved[j].type = ""
          Previewed(o) ==
            Evaluate(eq, policy, saved, savedPolicy, [Silent(eq) EXCEPT ![id] = o], "")
          Synced(o) == Sync(eq, [saved EXCEPT ![id] = o], savedPolicy)
      IN  /\ alone \/ saved[id].type = "" =>
               \A p \in {"exclude", "force_publish"} :
                 Previewed([NoOverride EXCEPT !.policy = p]) =
                 Synced([saved[id] EXCEPT !.policy = p])
          /\ alone =>
               \A t \in OverrideType :
                 Previewed([NoOverride EXCEPT !.type = t]) =
                 Synced([saved[id] EXCEPT !.type = t])
=============================================================================
