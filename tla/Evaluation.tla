----------------------------- MODULE Evaluation -----------------------------
(***************************************************************************)
(* The evaluation of an equipment (models/evaluate_equipment.py): its      *)
(* eligibility (models/topology.py), its entities, the decision of each,   *)
(* and what the interface says of each command.  The sync, "publier" and   *)
(* the preview all call it; only the preview has proposed overrides.       *)
(*                                                                         *)
(* An equipment also has [excluded, homekit, enabled]: the source of its   *)
(* exclusion ("" when it is not excluded), whether it is shown in HomeKit  *)
(* and whether it is enabled.                                              *)
(***************************************************************************)
EXTENDS Mappers, Decision

\* A room excludes its equipments unless they are effectively in HomeKit.
Exempted(eq) == eq.excluded = "object" /\ eq.homekit /\ eq.enabled
\* Untagged commands count when they are numeric and their unit says what they
\* measure, or when the equipment is a solar router.
Eligible(eq) ==
  /\ eq.excluded = "" \/ Exempted(eq)
  /\ eq.enabled
  /\ eq.cmds # <<>>
  /\ \E i \in Ids(eq) :
       LET c == eq.cmds[i]
       IN  c.gt # "" \/ (NumericInfo(c) /\ (c.unit # "" \/ eq.solar))

\* The ids of an entity in the order the overrides are looked for: the command
\* that names it, then its commands.
CoveredIds(e) ==
  (IF e.scope = 0 THEN <<>> ELSE <<e.scope>>) \o
  Where([n \in DOMAIN e.dict |-> e.dict[n].id], LAMBDA i : i # e.scope)
Candidate(e) ==
  [type |-> e.type, native |-> e.native, conf |-> e.conf, caps |-> e.caps,
   scope |-> e.scope, dict |-> e.dict, mode |-> e.mode, ids |-> CoveredIds(e)]

\* Mutant: the first entity that covers a command speaks for it.
CoveringFirst(decisions, id) ==
  LET by == {n \in DOMAIN decisions : id \in Covered(decisions[n].entity)}
      d  == decisions[Min(by)]
  IN  IF by = {} THEN [publish |-> FALSE, reason |-> "command_not_covered", step |-> "2"]
      ELSE [publish |-> d.publish, reason |-> d.reason, step |-> Step(d.reason)]
\* What the interface says of a command: the first published entity that covers it,
\* else the first one.
Covering(decisions, id) ==
  LET by == {n \in DOMAIN decisions : id \in Covered(decisions[n].entity)}
      up == {n \in by : decisions[n].publish}
  IN  IF by = {} THEN [publish |-> FALSE, reason |-> "command_not_covered", step |-> "2"]
      ELSE LET d == decisions[Min(IF up # {} THEN up ELSE by)]
           IN  [publish |-> d.publish, reason |-> d.reason, step |-> Step(d.reason)]

Decisions(entities, confidencePolicy, saved, savedPolicy, proposed, proposedPolicy) ==
  [n \in DOMAIN entities |->
     Decide(RetypedFirst(Candidate(entities[n]), saved, proposed), confidencePolicy,
            Merged(saved, proposed), MergedPolicy(savedPolicy, proposedPolicy))]

Told(eq, decisions) ==
  IF Eligible(eq)
  THEN [eligible |-> TRUE, decisions |-> decisions,
        commands |-> [i \in Ids(eq) |-> Covering(decisions, i)]]
  ELSE [eligible |-> FALSE, decisions |-> <<>>,
        commands |-> [i \in Ids(eq) |->
          [publish |-> FALSE, reason |-> "not_eligible", step |-> "1"]]]

Evaluate(eq, confidencePolicy, saved, savedPolicy, proposed, proposedPolicy) ==
  Told(eq, Decisions(MapAll(eq), confidencePolicy, saved, savedPolicy, proposed,
                     proposedPolicy))
=============================================================================
