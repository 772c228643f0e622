----------------------------- MODULE RulesProofs -----------------------------
(***************************************************************************)
(* The rules, for any equipment, commands and overrides: the exclusion is  *)
(* a veto, what is told of a command is what is published, orders and      *)
(* states reach the entity that declared them, and the preview is honest.  *)
(* They are all facts of the last evaluation (Evaluated), which each       *)
(* action makes anew from what the registry answers (RegistryWellMade).    *)
(***************************************************************************)
EXTENDS Rules, MappersProofs

Menu == UNION {s.menu : s \in Setting}
Override == [type : OverrideType \cup {""}, policy : OverridePolicy]

\* Each command has its overrides, and the last evaluation is made of what is saved.
Evaluated ==
  /\ setting \in Setting
  /\ eq \in Equipments(Seq(Menu))
  /\ saved \in Seq(Override) /\ Len(saved) = Len(eq.cmds)
  /\ evaluation = Sync(eq, saved, savedPolicy)

\* A published entity covers no command that is excluded, whoever maps it and whatever
\* its confidence, its type or what is forced.
LEMMA Veto ==
  ASSUME NEW e, NEW conf, NEW over, NEW pol, Decide(e, conf, over, pol).publish
  PROVE  pol # "exclude" /\ \A id \in Covered(e) : over[id].policy # "exclude"
  <1>. DEFINE said == {CommandOverride(id, over, pol) : id \in Covered(e)}
                        \cup {EquipmentOverride(pol)}
  <1>1. DecisionReason(e, conf, EntityOverride(e, over, pol)) \in Published
    BY DEF Decide
  <1>2. EntityOverride(e, over, pol) \notin {"exclude_eqlogic", "exclude_command"}
    BY <1>1 DEF DecisionReason, Published
  <1>3. "exclude_eqlogic" \notin said /\ "exclude_command" \notin said
    BY <1>2 DEF EntityOverride
  <1>4. pol # "exclude"
    BY <1>3 DEF EquipmentOverride
  <1>5. ASSUME NEW id \in Covered(e), over[id].policy = "exclude" PROVE FALSE
    <2>1. CommandOverride(id, over, pol) = "exclude_command"
      BY <1>4, <1>5 DEF CommandOverride
    <2>. QED  BY <1>3, <2>1
  <1>. QED  BY <1>4, <1>5

\* Without a proposal, what is merged is what is saved.
LEMMA NothingProposed ==
  ASSUME NEW over, NEW id \in DOMAIN over, DOMAIN over = Ids(eq)
  PROVE  Merged(over, Silent(eq))[id].policy = over[id].policy
  BY DEF Merged, Silent, NoOverride

LEMMA VetoHolds == Evaluated => ExclusionWins
  <1>. SUFFICES ASSUME Evaluated, NEW n \in Up
                PROVE  LET e == evaluation.decisions[n].entity
                       IN  /\ savedPolicy # "exclude"
                           /\ \A id \in Ids(eq) :
                                saved[id].policy = "exclude" => id \notin Covered(e)
    BY DEF ExclusionWins, PublishedEntities
  <1>. DEFINE ds == Decisions(MapAll(eq), policy, saved, savedPolicy, Silent(eq), "")
              over == Merged(saved, Silent(eq))
              entity == RetypedFirst(Candidate(MapAll(eq)[n]), saved, Silent(eq))
  <1>1. evaluation = Told(eq, ds)
    BY DEF Evaluated, Sync, Evaluate
  <1>2. evaluation.decisions = ds /\ n \in DOMAIN ds /\ ds[n].publish
    <2>1. evaluation.decisions = ds \/ evaluation.decisions = <<>>
      BY <1>1 DEF Told
    <2>2. n \in DOMAIN evaluation.decisions /\ evaluation.decisions[n].publish
      BY DEF Up
    <2>3. DOMAIN <<>> = {}
      BY SMT
    <2>. HIDE DEF ds
    <2>. QED  BY <2>1, <2>2, <2>3
  <1>3. ds[n] = Decide(entity, policy, over, savedPolicy)
    BY <1>2 DEF Decisions, MergedPolicy
  <1>4. ds[n].entity = entity
    <2>1. \A e, c, o, p : Decide(e, c, o, p).entity = e
      BY DEF Decide
    <2>. HIDE DEF ds, entity, over
    <2>. QED  BY <1>3, <2>1
  <1>5. savedPolicy # "exclude" /\ \A id \in Covered(entity) : over[id].policy # "exclude"
    BY <1>2, <1>3, Veto
  <1>6. \A id \in Ids(eq) : over[id].policy = saved[id].policy
    <2>1. DOMAIN saved = Ids(eq)
      BY LenProperties DEF Evaluated, Ids
    <2>. QED  BY <2>1, NothingProposed
  <1>. QED  BY <1>2, <1>4, <1>5, <1>6

----------------------------------------------------------------------------
\* No override is said of any command.
LEMMA SilentType ==
  ASSUME Len(eq.cmds) \in Nat
  PROVE  Silent(eq) \in Seq(Override) /\ Len(Silent(eq)) = Len(eq.cmds)
  <1>1. NoOverride \in Override
    BY DEF NoOverride, Override, OverridePolicy
  <1>. QED  BY <1>1, IsASeq DEF Silent, Ids

\* What the constants are.
LEMMA Bounds ==
  /\ MaxCommands \in Nat
  /\ \A s \in Setting : /\ s.eq \in Equipments(Seq(s.menu)) /\ Len(s.eq.cmds) <= MaxCommands
                        /\ s.maxTuned \in 0..MaxCommands
  BY RulesAssumption, Zenon

\* The equipment a setting starts with has commands of its menu.
LEMMA StartsTyped ==
  ASSUME NEW s \in Setting
  PROVE  s.eq \in Equipments(Seq(Menu)) /\ Len(s.eq.cmds) \in Nat
  <1>1. s.eq \in Equipments(Seq(s.menu))
    BY Bounds
  <1>2. s.menu \subseteq Menu
    BY DEF Menu
  <1>3. Seq(s.menu) \subseteq Seq(Menu)
    BY <1>2, SeqMonotonic
  <1>4. s.eq \in Equipments(Seq(Menu)) /\ s.eq.cmds \in Seq(Menu)
    BY <1>1, <1>3 DEF Equipments
  <1>. QED  BY <1>4, LenProperties

LEMMA InitEvaluated == Init => Evaluated
  <1>. SUFFICES ASSUME Init PROVE Evaluated
    OBVIOUS
  <1>1. setting \in Setting /\ eq = setting.eq
    BY DEF Init
  <1>2. eq \in Equipments(Seq(Menu)) /\ Len(eq.cmds) \in Nat
    BY <1>1, StartsTyped
  <1>3. saved \in Seq(Override) /\ Len(saved) = Len(eq.cmds)
    BY <1>2, SilentType DEF Init
  <1>. QED  BY <1>1, <1>2, <1>3 DEF Init, Evaluated

LEMMA AddEvaluated ==
  ASSUME Evaluated, AddCommand PROVE Evaluated'
  <1>1. PICK c \in setting.menu : eq' = [eq EXCEPT !.cmds = Append(eq.cmds, c)]
    BY DEF AddCommand
  <1>2. c \in Menu /\ eq.cmds \in Seq(Menu)
    BY DEF Evaluated, Equipments, Menu
  <1>3. Append(eq.cmds, c) \in Seq(Menu) /\ Len(Append(eq.cmds, c)) = Len(eq.cmds) + 1
    BY <1>2, AppendProperties
  <1>4. eq' \in Equipments(Seq(Menu)) /\ eq'.cmds = Append(eq.cmds, c)
    BY <1>1, <1>3 DEF Evaluated, Equipments
  <1>5. saved' \in Seq(Override) /\ Len(saved') = Len(saved) + 1
    <2>1. NoOverride \in Override
      BY DEF NoOverride, Override, OverridePolicy
    <2>. QED  BY <2>1, AppendProperties DEF AddCommand, Evaluated
  <1>. QED  BY <1>3, <1>4, <1>5 DEF AddCommand, Evaluated, Sync

LEMMA SaveEvaluated ==
  ASSUME Evaluated, SaveOverride \/ SaveEquipment \/ Revert PROVE Evaluated'
  <1>1. setting' = setting /\ eq' = eq /\ evaluation' = Sync(eq, saved', savedPolicy')
        /\ policy' = policy
    BY DEF SaveOverride, SaveEquipment, Revert
  <1>2. saved' \in Seq(Override) /\ Len(saved') = Len(saved)
    <2>1. CASE SaveOverride
      <3>1. PICK id \in Ids(eq) :
              \/ \E t \in OverrideType : saved' = [saved EXCEPT ![id].type = t]
              \/ \E p \in {"exclude", "force_publish"} : saved' = [saved EXCEPT ![id].policy = p]
        BY <2>1 DEF SaveOverride
      <3>2. id \in 1..Len(saved) /\ saved[id] \in Override
        BY LenProperties, ElementOfSeq DEF Evaluated, Ids
      <3>3. PICK o \in Override : saved' = [saved EXCEPT ![id] = o]
        <4>1. \A t \in OverrideType : [saved[id] EXCEPT !.type = t] \in Override
          BY <3>2 DEF Override
        <4>2. \A p \in {"exclude", "force_publish"} :
                [saved[id] EXCEPT !.policy = p] \in Override
          BY <3>2 DEF Override, OverridePolicy
        <4>. QED  BY <3>1, <4>1, <4>2
      <3>. QED  BY <3>2, <3>3, ExceptSeq DEF Evaluated
    <2>2. CASE SaveEquipment
      BY <2>2 DEF SaveEquipment, Evaluated
    <2>3. CASE Revert
      <3>1. Len(eq.cmds) \in Nat
        BY LenProperties DEF Evaluated, Equipments
      <3>. QED  BY <2>3, <3>1, SilentType DEF Revert, Evaluated
    <2>. QED  BY <2>1, <2>2, <2>3
  <1>3. Sync(eq, saved', savedPolicy') = Sync(eq, saved, savedPolicy)'
    BY <1>1 DEF Sync
  <1>. QED  BY <1>1, <1>2, <1>3 DEF Evaluated

\* Each action evaluates again what it saved.
LEMMA StepEvaluated == Evaluated /\ [Next]_vars => Evaluated'
  <1>. SUFFICES ASSUME Evaluated, [Next]_vars PROVE Evaluated'
    OBVIOUS
  <1>1. CASE Next
    BY <1>1, AddEvaluated, SaveEvaluated DEF Next
  <1>2. CASE UNCHANGED vars
    BY <1>2 DEF vars, Evaluated, Sync
  <1>. QED  BY <1>1, <1>2

\* The exclusion is a veto after any sequence of commands added and overrides saved or
\* removed, on any equipment.
THEOREM ExclusionIsVeto == Spec => []ExclusionWins
  <1>. QED  BY InitEvaluated, StepEvaluated, VetoHolds, PTL DEF Spec

----------------------------------------------------------------------------
\* The decisions and what is told of the commands.

\* The commands of a dictionary.
IdsIn(d) == {d[n].id : n \in DOMAIN d}

\* An entity covers the commands of its dictionary and the one it is named after, which
\* are commands of the equipment, and at least one.
LEMMA CoversItsCommands ==
  ASSUME NEW q, Len(q.cmds) \in Nat, NEW e \in AnyMade(q)
  PROVE  /\ CoveredIds(e) \in Seq(Ids(q)) /\ CoveredIds(e) # <<>>
         /\ {CoveredIds(e)[n] : n \in DOMAIN CoveredIds(e)} =
              IdsIn(e.dict) \cup ({e.scope} \ {0})
  <1>. DEFINE ids == [n \in DOMAIN e.dict |-> e.dict[n].id]
              S == {n \in DOMAIN ids : ids[n] # e.scope}
              rest == OfThose(ids, S)
              head == IF e.scope = 0 THEN <<>> ELSE <<e.scope>>
              all == CoveredIds(e)
  <1>1. all = head \o rest
    BY DEF CoveredIds, Where, Mapped, OfThose
  <1>2. e \in Entities(q)
    BY DEF AnyMade, Made
  <1>3. e.scope \in {0} \cup Ids(q) /\ e.dict \in Dictionary(q)
    BY <1>2 DEF Entities
  <1>4. /\ ids \in Seq(Ids(q)) /\ DOMAIN ids = DOMAIN e.dict /\ DOMAIN ids # {}
        /\ \A n \in DOMAIN ids : ids[n] = e.dict[n].id
    <2>. DEFINE T == [key : Tag(q), id : Ids(q)]
    <2>1. e.dict \in Seq(T) /\ e.dict # <<>>
      BY <1>3 DEF Dictionary
    <2>. HIDE DEF T
    <2>2. Len(e.dict) \in Nat /\ DOMAIN e.dict = 1 .. Len(e.dict) /\ Len(e.dict) # 0
      BY <2>1, LenProperties, EmptySeq
    <2>3. \A n \in 1 .. Len(e.dict) : e.dict[n] \in T
      BY <2>1, ElementOfSeq
    <2>4. \A n \in 1 .. Len(e.dict) : e.dict[n].id \in Ids(q)
      BY <2>3 DEF T
    <2>5. ids \in Seq(Ids(q))
      BY <2>2, <2>4, IsASeq
    <2>6. DOMAIN ids = DOMAIN e.dict /\ \A n \in DOMAIN ids : ids[n] = e.dict[n].id
      OBVIOUS
    <2>. HIDE DEF ids
    <2>7. 1 \in DOMAIN ids
      BY <2>2, <2>6
    <2>. QED  BY <2>5, <2>6, <2>7
  <1>5. S \in SUBSET DOMAIN ids
    OBVIOUS
  <1>6. \A n \in DOMAIN ids : n \in S <=> ids[n] # e.scope
    OBVIOUS
  <1>. HIDE DEF ids, S
  <1>7. /\ rest \in Seq(Ids(q)) /\ (rest = <<>> <=> S = {})
        /\ \A n \in DOMAIN rest : \E i \in S : rest[n] = ids[i]
        /\ \A i \in S : \E n \in DOMAIN rest : rest[n] = ids[i]
    BY <1>4, <1>5, Selected
  <1>. HIDE DEF rest, all
  <1>8. CASE e.scope = 0
    <2>1. all = rest
      BY <1>1, <1>7, <1>8, ConcatSimplifications
    <2>2. S = DOMAIN ids
      <3>1. \A n \in DOMAIN ids : ids[n] # 0
        BY <1>4, LenProperties, ElementOfSeq DEF Ids
      <3>. QED  BY <1>5, <1>6, <1>8, <3>1
    <2>3. rest # <<>>
      BY <1>4, <1>7, <2>2
    <2>4. {rest[n] : n \in DOMAIN rest} = IdsIn(e.dict)
      <3>0. \A n \in DOMAIN ids : ids[n] = e.dict[n].id
        BY <1>4
      <3>1. ASSUME NEW n \in DOMAIN rest PROVE \E i \in DOMAIN e.dict : rest[n] = e.dict[i].id
        <4>1. PICK i \in S : rest[n] = ids[i]
          BY <1>7
        <4>2. i \in DOMAIN ids /\ i \in DOMAIN e.dict
          BY <1>4, <2>2
        <4>. QED  BY <3>0, <4>1, <4>2
      <3>2. ASSUME NEW i \in DOMAIN e.dict PROVE \E n \in DOMAIN rest : rest[n] = e.dict[i].id
        <4>1. i \in S /\ i \in DOMAIN ids
          BY <1>4, <2>2
        <4>2. \E n \in DOMAIN rest : rest[n] = ids[i]
          BY <1>7, <4>1
        <4>. QED  BY <3>0, <4>1, <4>2
      <3>. QED  BY <3>1, <3>2 DEF IdsIn
    <2>. QED  BY <1>7, <1>8, <2>1, <2>3, <2>4 DEF all
  <1>9. CASE e.scope # 0
    <2>. DEFINE own == <<e.scope>>
    <2>1. own \in Seq(Ids(q)) /\ own # <<>> /\ DOMAIN own = {1} /\ own[1] = e.scope /\ Len(own) = 1
      BY <1>3, <1>9, Singleton
    <2>2. all = own \o rest
      BY <1>1, <1>9
    <2>. HIDE DEF own
    <2>3. all \in Seq(Ids(q)) /\ Len(all) = 1 + Len(rest)
          /\ \A i \in 1 .. 1 + Len(rest) : all[i] = IF i <= 1 THEN own[i] ELSE rest[i - 1]
      <3>1. own \o rest \in Seq(Ids(q)) /\ Len(own \o rest) = Len(own) + Len(rest)
            /\ \A i \in 1 .. Len(own) + Len(rest) :
                 (own \o rest)[i] = IF i <= Len(own) THEN own[i] ELSE rest[i - Len(own)]
        <4>1. own \in Seq(Ids(q)) /\ rest \in Seq(Ids(q))
          BY <1>7, <2>1
        <4>. QED  BY <4>1, ConcatProperties
      <3>. QED  BY <2>1, <2>2, <3>1
    <2>4. Len(rest) \in Nat /\ DOMAIN rest = 1 .. Len(rest) /\ DOMAIN all = 1 .. 1 + Len(rest)
      BY <1>7, <2>3, LenProperties
    <2>5. all # <<>>
      BY <2>3, <2>4, EmptySeq
    <2>6. all[1] = e.scope /\ 1 \in DOMAIN all
      BY <2>1, <2>3, <2>4
    <2>7. ASSUME NEW n \in DOMAIN all PROVE all[n] \in IdsIn(e.dict) \cup {e.scope}
      <3>1. CASE n = 1
        BY <2>6, <3>1
      <3>2. CASE n # 1
        <4>1. n - 1 \in DOMAIN rest /\ all[n] = rest[n - 1]
          BY <2>3, <2>4, <3>2
        <4>2. \E i \in S : all[n] = ids[i]
          BY <1>7, <4>1
        <4>. QED  BY <1>4, <1>5, <4>2 DEF IdsIn
      <3>. QED  BY <3>1, <3>2
    <2>8. ASSUME NEW i \in DOMAIN ids PROVE \E n \in DOMAIN all : all[n] = ids[i]
      <3>1. CASE ids[i] = e.scope
        BY <2>6, <3>1
      <3>2. CASE ids[i] # e.scope
        <4>1. PICK n \in DOMAIN rest : rest[n] = ids[i]
          BY <1>6, <1>7, <3>2
        <4>2. n + 1 \in DOMAIN all /\ all[n + 1] = rest[n]
          <5>1. n + 1 \in 1 .. 1 + Len(rest) /\ ~(n + 1 <= 1) /\ (n + 1) - 1 = n
            BY <2>4
          <5>. QED  BY <2>3, <2>4, <5>1
        <4>. QED  BY <4>1, <4>2
      <3>. QED  BY <3>1, <3>2
    <2>9. {all[n] : n \in DOMAIN all} = IdsIn(e.dict) \cup ({e.scope} \ {0})
      BY <1>4, <1>9, <2>6, <2>7, <2>8 DEF IdsIn
    <2>. QED  BY <2>3, <2>5, <2>9 DEF all
  <1>. QED  BY <1>8, <1>9

\* What the user saves changes the type of an entity and nothing else.
LEMMA RetypedKeeps ==
  ASSUME NEW x, NEW over, NEW proposed
  PROVE  LET e == RetypedFirst(Candidate(x), over, proposed)
         IN  /\ e.native = x.native /\ e.conf = x.conf /\ e.caps = x.caps
             /\ e.scope = x.scope /\ e.dict = x.dict /\ e.mode = x.mode
             /\ e.ids = CoveredIds(x)
  <1>. DEFINE c == Candidate(x)
  <1>1. c = [type |-> x.type, native |-> x.native, conf |-> x.conf, caps |-> x.caps,
             scope |-> x.scope, dict |-> x.dict, mode |-> x.mode, ids |-> CoveredIds(x)]
    BY DEF Candidate
  <1>. HIDE DEF c
  <1>2. ASSUME NEW o
        PROVE  Retyped(c, o) = c \/ \E t : Retyped(c, o) = [c EXCEPT !.type = t]
    BY Zenon DEF Retyped
  <1>3. ASSUME NEW t
        PROVE  LET e == [c EXCEPT !.type = t]
               IN  /\ e.native = x.native /\ e.conf = x.conf /\ e.caps = x.caps
                   /\ e.scope = x.scope /\ e.dict = x.dict /\ e.mode = x.mode
                   /\ e.ids = CoveredIds(x)
    BY <1>1
  <1>4. /\ c.native = x.native /\ c.conf = x.conf /\ c.caps = x.caps
        /\ c.scope = x.scope /\ c.dict = x.dict /\ c.mode = x.mode
        /\ c.ids = CoveredIds(x)
    BY <1>1
  <1>5. \E o : RetypedFirst(c, over, proposed) = Retyped(c, o)
    BY Zenon DEF RetypedFirst
  <1>. DEFINE e == RetypedFirst(c, over, proposed)
  <1>6. e = c \/ \E t : e = [c EXCEPT !.type = t]
    BY <1>2, <1>5
  <1>. HIDE DEF e
  <1>7. /\ e.native = x.native /\ e.conf = x.conf /\ e.caps = x.caps
        /\ e.scope = x.scope /\ e.dict = x.dict /\ e.mode = x.mode
        /\ e.ids = CoveredIds(x)
    <2>1. CASE e = c
      BY <1>4, <2>1
    <2>2. CASE \E t : e = [c EXCEPT !.type = t]
      <3>1. PICK t : e = [c EXCEPT !.type = t]
        BY <2>2
      <3>. QED  BY <1>3, <3>1
    <2>. QED  BY <1>6, <2>1, <2>2
  <1>. QED  BY <1>7 DEF e, c

\* A decision of the last evaluation is that of an entity of the registry.
LEMMA DecisionIs ==
  ASSUME Evaluated, NEW n \in DOMAIN evaluation.decisions
  PROVE  LET d == evaluation.decisions[n]
             x == MapAll(eq)[n]
         IN  /\ n \in DOMAIN MapAll(eq) /\ n \in Nat /\ x \in AnyMade(eq)
             /\ Eligible(eq)
             /\ d = Decide(RetypedFirst(Candidate(x), saved, Silent(eq)), policy,
                           Merged(saved, Silent(eq)), savedPolicy)
             /\ d.entity = RetypedFirst(Candidate(x), saved, Silent(eq))
             /\ d.publish = (d.reason \in Published) /\ d.publish \in BOOLEAN
             /\ d.reason = DecisionReason(d.entity, policy,
                             EntityOverride(d.entity, Merged(saved, Silent(eq)), savedPolicy))
             /\ d.entity.ids = CoveredIds(x)
  <1>. DEFINE ds == Decisions(MapAll(eq), policy, saved, savedPolicy, Silent(eq), "")
              e == RetypedFirst(Candidate(MapAll(eq)[n]), saved, Silent(eq))
              over == Merged(saved, Silent(eq))
  <1>1. evaluation = Told(eq, ds)
    BY DEF Evaluated, Sync, Evaluate
  <1>2. evaluation.decisions = ds /\ Eligible(eq)
    <2>1. DOMAIN <<>> = {}
      BY SMT
    <2>2. IF Eligible(eq) THEN evaluation.decisions = ds ELSE evaluation.decisions = <<>>
      BY <1>1 DEF Told
    <2>. HIDE DEF ds
    <2>. QED  BY <2>1, <2>2
  <1>3. n \in DOMAIN MapAll(eq)
    BY <1>2 DEF Decisions
  <1>4. MapAll(eq) \in Seq(AnyMade(eq))
    <2>1. Len(eq.cmds) \in Nat
      BY LenProperties DEF Evaluated, Equipments
    <2>. QED  BY <2>1, RegistryWellMade DEF WellMade
  <1>5. n \in Nat /\ MapAll(eq)[n] \in AnyMade(eq)
    BY <1>3, <1>4, LenProperties, ElementOfSeq
  <1>6. ds[n] = Decide(e, policy, over, savedPolicy)
    BY <1>3 DEF Decisions, MergedPolicy
  <1>7. \A a, c, o, p :
          /\ Decide(a, c, o, p).entity = a
          /\ Decide(a, c, o, p).reason = DecisionReason(a, c, EntityOverride(a, o, p))
          /\ Decide(a, c, o, p).publish = (Decide(a, c, o, p).reason \in Published)
          /\ Decide(a, c, o, p).publish \in BOOLEAN
    BY DEF Decide
  <1>8. e.ids = CoveredIds(MapAll(eq)[n])
    BY RetypedKeeps
  <1>. HIDE DEF ds, e, over
  <1>9. LET d == ds[n]
        IN  /\ d.entity = e
            /\ d.publish = (d.reason \in Published) /\ d.publish \in BOOLEAN
            /\ d.reason = DecisionReason(e, policy, EntityOverride(e, over, savedPolicy))
    BY <1>6, <1>7
  <1>. QED  BY <1>2, <1>3, <1>5, <1>6, <1>8, <1>9 DEF e, over

\* A published or a withheld entity covers commands of the equipment, at least one.
LEMMA DecisionTypes ==
  ASSUME Evaluated, NEW n \in DOMAIN evaluation.decisions
  PROVE  LET d == evaluation.decisions[n]
         IN  /\ d.reason \in Reasons
             /\ d.entity.conf \in Confidence /\ d.entity.caps \subseteq Capability
             /\ d.entity.ids # <<>> /\ Covered(d.entity) \subseteq Ids(eq)
             /\ Covered(d.entity) = IdsIn(d.entity.dict) \cup ({d.entity.scope} \ {0})
  <1>. DEFINE d == evaluation.decisions[n]
              x == MapAll(eq)[n]
  <1>1. /\ x \in AnyMade(eq)
        /\ d.entity = RetypedFirst(Candidate(x), saved, Silent(eq))
        /\ d.reason = DecisionReason(d.entity, policy,
                        EntityOverride(d.entity, Merged(saved, Silent(eq)), savedPolicy))
        /\ d.entity.ids = CoveredIds(x)
    BY DecisionIs
  <1>2. /\ d.entity.conf = x.conf /\ d.entity.caps = x.caps
        /\ d.entity.dict = x.dict /\ d.entity.scope = x.scope
    BY <1>1, RetypedKeeps
  <1>3. x \in Entities(eq)
    BY <1>1 DEF AnyMade, Made
  <1>4. Len(eq.cmds) \in Nat
    BY LenProperties DEF Evaluated, Equipments
  <1>5. /\ CoveredIds(x) \in Seq(Ids(eq)) /\ CoveredIds(x) # <<>>
        /\ {CoveredIds(x)[k] : k \in DOMAIN CoveredIds(x)} = IdsIn(x.dict) \cup ({x.scope} \ {0})
    BY <1>1, <1>4, CoversItsCommands
  <1>. HIDE DEF d, x
  <1>6. d.reason \in Reasons
    <2>1. \A e, c, o : DecisionReason(e, c, o) \in Reasons
      BY DEF DecisionReason, Reasons
    <2>. QED  BY <1>1, <2>1
  <1>7. x.conf \in Confidence /\ x.caps \subseteq Capability
    BY <1>3 DEF Entities
  <1>8. Covered(d.entity) = {CoveredIds(x)[k] : k \in DOMAIN CoveredIds(x)}
    BY <1>1 DEF Covered
  <1>9. \A k \in DOMAIN CoveredIds(x) : CoveredIds(x)[k] \in Ids(eq)
    BY <1>5, LenProperties, ElementOfSeq
  <1>10. Covered(d.entity) \subseteq Ids(eq)
    BY <1>8, <1>9
  <1>. QED  BY <1>1, <1>2, <1>5, <1>6, <1>7, <1>8, <1>10 DEF d

\* What is told of a command is a matter of the entities that cover it, published first.
LEMMA ToldRight == Evaluated => CommandsToldRight
  <1>. SUFFICES ASSUME Evaluated, NEW id \in Ids(eq)
                PROVE  evaluation.commands[id].publish <=>
                         \E e \in PublishedEntities : id \in Covered(e)
    BY DEF CommandsToldRight
  <1>. DEFINE ds == evaluation.decisions
              by == {n \in DOMAIN ds : id \in Covered(ds[n].entity)}
              up == {n \in by : ds[n].publish}
  <1>1. (\E e \in PublishedEntities : id \in Covered(e)) <=> up # {}
    BY DEF PublishedEntities, Up
  <1>2. evaluation = Told(eq, Decisions(MapAll(eq), policy, saved, savedPolicy, Silent(eq), ""))
    BY DEF Evaluated, Sync, Evaluate
  <1>3. CASE ~Eligible(eq)
    <2>1. ds = <<>> /\ evaluation.commands[id].publish = FALSE
      BY <1>2, <1>3 DEF Told
    <2>2. up = {}
      BY <2>1
    <2>. QED  BY <1>1, <2>1, <2>2
  <1>4. CASE Eligible(eq)
    <2>1. evaluation.commands[id] = Covering(ds, id)
      BY <1>2, <1>4 DEF Told
    <2>2. ASSUME NEW n \in DOMAIN ds PROVE n \in Nat /\ ds[n].publish \in BOOLEAN
      BY DecisionIs
    <2>3. by \in SUBSET Nat /\ up \in SUBSET Nat /\ up \subseteq by
      BY <2>2
    <2>4. /\ \A n \in by : n \notin up => ds[n].publish = FALSE
          /\ \A n \in up : ds[n].publish = TRUE
      BY <2>2
    <2>5. Covering(ds, id).publish =
            IF by = {} THEN FALSE ELSE ds[Min(IF up # {} THEN up ELSE by)].publish
      BY DEF Covering
    <2>. HIDE DEF by, up, ds
    <2>6. CASE by = {}
      BY <1>1, <2>1, <2>3, <2>5, <2>6
    <2>7. CASE by # {} /\ up = {}
      <3>1. Min(by) \in by
        BY <2>3, <2>7, MinIsIn
      <3>2. ds[Min(by)].publish = FALSE
        BY <2>4, <2>7, <3>1
      <3>. QED  BY <1>1, <2>1, <2>5, <2>7, <3>2
    <2>8. CASE up # {}
      <3>1. Min(up) \in up
        BY <2>3, <2>8, MinIsIn
      <3>2. ds[Min(up)].publish = TRUE /\ by # {}
        BY <2>3, <2>4, <2>8, <3>1
      <3>. QED  BY <1>1, <2>1, <2>5, <2>8, <3>2
    <2>. QED  BY <2>6, <2>7, <2>8
  <1>. QED  BY <1>3, <1>4

\* The bounds of the commands, and a policy the user may save.
Bounded ==
  /\ Evaluated /\ policy \in Policy
  /\ Len(eq.cmds) <= MaxCommands
  /\ savedPolicy \in OverridePolicy

\* The bounds hold at the start and each action keeps them.
LEMMA InitBounded == Init => Bounded
  <1>. SUFFICES ASSUME Init PROVE Bounded
    OBVIOUS
  <1>1. Evaluated /\ policy \in Policy
    BY InitEvaluated DEF Init
  <1>4. Len(eq.cmds) <= MaxCommands
    BY Bounds DEF Init
  <1>5. savedPolicy \in OverridePolicy
    BY DEF Init, OverridePolicy
  <1>. QED  BY <1>1, <1>4, <1>5 DEF Bounded

LEMMA StepBounded == Bounded /\ [Next]_vars => Bounded'
  <1>. SUFFICES ASSUME Bounded, [Next]_vars PROVE Bounded'
    OBVIOUS
  <1>1. Evaluated'
    BY StepEvaluated DEF Bounded
  <1>2. Len(eq.cmds) \in Nat /\ eq.cmds \in Seq(Menu)
    BY LenProperties DEF Bounded, Evaluated, Equipments
  <1>3. CASE AddCommand
    <2>1. PICK c \in setting.menu : eq' = [eq EXCEPT !.cmds = Append(eq.cmds, c)]
      BY <1>3 DEF AddCommand
    <2>2. c \in Menu
      BY DEF Bounded, Evaluated, Menu
    <2>3. Len(eq.cmds) < MaxCommands
      <3>1. Len(eq.cmds) < setting.maxTuned \/ Len(eq.cmds) < MaxCommands
        BY <1>3 DEF AddCommand
      <3>2. setting.maxTuned \in 0..MaxCommands
        BY Bounds DEF Bounded, Evaluated
      <3>. QED  BY <1>2, <3>1, <3>2, Bounds
    <2>4. eq'.cmds = Append(eq.cmds, c)
      BY <2>1 DEF Bounded, Evaluated, Equipments
    <2>5. Len(eq'.cmds) = Len(eq.cmds) + 1
      BY <1>2, <2>2, <2>4, AppendProperties
    <2>6. Len(eq'.cmds) <= MaxCommands
      BY <1>2, <2>3, <2>5, Bounds
    <2>. QED  BY <1>1, <1>3, <2>6 DEF AddCommand, Bounded
  <1>4. CASE SaveOverride
    BY <1>1, <1>4 DEF SaveOverride, Bounded
  <1>5. CASE SaveEquipment
    BY <1>1, <1>5 DEF SaveEquipment, Bounded, OverridePolicy
  <1>6. CASE Revert
    BY <1>1, <1>6 DEF Revert, Bounded, OverridePolicy
  <1>7. CASE UNCHANGED vars
    BY <1>1, <1>7 DEF vars, Bounded
  <1>. QED  BY <1>3, <1>4, <1>5, <1>6, <1>7 DEF Next

LEMMA BoundedTypes == Bounded => TypeOK
  <1>. SUFFICES ASSUME Bounded PROVE TypeOK
    OBVIOUS
  <1>1. DOMAIN saved = Ids(eq)
    BY LenProperties DEF Bounded, Evaluated, Ids
  <1>2. \A n \in DOMAIN evaluation.decisions :
          LET d == evaluation.decisions[n]
          IN  /\ d.reason \in Reasons
              /\ d.entity.conf \in Confidence /\ d.entity.caps \subseteq Capability
              /\ d.entity.ids # <<>> /\ Covered(d.entity) \subseteq Ids(eq)
    BY DecisionTypes DEF Bounded
  <1>. QED  BY <1>1, <1>2 DEF Bounded, TypeOK

\* Whatever the equipment and the overrides, each decision has a reason and a confidence,
\* and covers commands of that equipment, at least one (evaluate_equipment.py:255-300).
THEOREM Typing == Spec => []TypeOK
  <1>. QED  BY InitBounded, StepBounded, BoundedTypes, PTL DEF Spec

\* A command is told published exactly when a published entity covers it, also when
\* several entities share it (evaluate_equipment.py:303-314, 474-511).
THEOREM CommandsAreToldRight == Spec => []CommandsToldRight
  <1>. QED  BY InitEvaluated, StepEvaluated, ToldRight, PTL DEF Spec

\* What a decision of the last evaluation has of the entity of the registry.
LEMMA DecisionMade ==
  ASSUME Evaluated, NEW n \in DOMAIN evaluation.decisions
  PROVE  LET e == evaluation.decisions[n].entity
             x == MapAll(eq)[n]
         IN  /\ n \in DOMAIN MapAll(eq) /\ x \in AnyMade(eq)
             /\ e.native = x.native /\ e.caps = x.caps /\ e.scope = x.scope
             /\ e.dict = x.dict /\ e.mode = x.mode
             /\ Covered(e) = IdsIn(x.dict) \cup ({x.scope} \ {0})
  <1>1. LET x == MapAll(eq)[n]
        IN  /\ n \in DOMAIN MapAll(eq) /\ x \in AnyMade(eq)
            /\ evaluation.decisions[n].entity = RetypedFirst(Candidate(x), saved, Silent(eq))
    BY DecisionIs
  <1>2. LET e == evaluation.decisions[n].entity
            x == MapAll(eq)[n]
        IN  /\ e.native = x.native /\ e.caps = x.caps /\ e.scope = x.scope
            /\ e.dict = x.dict /\ e.mode = x.mode
    BY <1>1, RetypedKeeps
  <1>3. LET e == evaluation.decisions[n].entity
        IN  Covered(e) = IdsIn(e.dict) \cup ({e.scope} \ {0})
    BY DecisionTypes
  <1>. QED  BY <1>1, <1>2, <1>3

LEMMA EqualIds == Evaluated => Len(eq.cmds) \in Nat /\ WellMade(eq, MapAll(eq))
  <1>. SUFFICES ASSUME Evaluated PROVE Len(eq.cmds) \in Nat /\ WellMade(eq, MapAll(eq))
    OBVIOUS
  <1>1. Len(eq.cmds) \in Nat
    BY LenProperties DEF Evaluated, Equipments
  <1>. QED  BY <1>1, RegistryWellMade

\* The groups of the switch mapper and those the binary sensors leave out are the same.
LEMMA ReadbackOnce == Evaluated => ReadbackNotDuplicated
  <1>. SUFFICES ASSUME Evaluated, MultiDomain(eq),
                       NEW n \in DOMAIN evaluation.decisions, NEW m \in DOMAIN evaluation.decisions,
                       evaluation.decisions[n].entity.native = "switch",
                       evaluation.decisions[n].entity.scope # 0,
                       evaluation.decisions[m].entity.native = "binary_sensor"
                PROVE  evaluation.decisions[n].entity.scope
                         \notin Covered(evaluation.decisions[m].entity)
    BY DEF ReadbackNotDuplicated, PublishedEntities, Up
  <1>. DEFINE s == MapAll(eq)[n]
              b == MapAll(eq)[m]
  <1>1. /\ n \in DOMAIN MapAll(eq) /\ s.native = "switch" /\ s.scope # 0
        /\ evaluation.decisions[n].entity.scope = s.scope
    BY DecisionMade
  <1>2. /\ m \in DOMAIN MapAll(eq) /\ b.native = "binary_sensor"
        /\ Covered(evaluation.decisions[m].entity) = IdsIn(b.dict) \cup ({b.scope} \ {0})
    BY DecisionMade
  <1>3. /\ s.scope \in SwitchReadback(eq) /\ b.scope \notin SwitchReadback(eq)
        /\ \A k \in DOMAIN b.dict : b.dict[k].id = b.scope
    BY <1>1, <1>2, EqualIds DEF WellMade
  <1>. HIDE DEF s, b
  <1>. QED  BY <1>1, <1>2, <1>3 DEF IdsIn

\* In an equipment of several domains no state is shown by a switch and by a binary
\* sensor as well, whatever its commands and the overrides (binary_sensor.py:170-228).
THEOREM ReadbackShownOnce == Spec => []ReadbackNotDuplicated
  <1>. QED  BY InitEvaluated, StepEvaluated, ReadbackOnce, PTL DEF Spec

----------------------------------------------------------------------------
\* Orders: the command and the entity they reach (command.py:248-349).

\* The types of the commands an order may run.
OrderKey == {"LIGHT_SLIDER", "FLAP_SLIDER", "LIGHT_ON", "ENERGY_ON", "SWITCH_ON", "FAN_ON",
             "SET_ON", "LIGHT_OFF", "ENERGY_OFF", "SWITCH_OFF", "FAN_OFF", "SET_OFF",
             "GB_TOGGLE", "GB_OPEN", "GB_CLOSE", "FLAP_UP", "FLAP_DOWN", "FLAP_STOP"}

LEMMA OrderKeysAreKeys ==
  ASSUME NEW e, NEW topic, NEW p
  PROVE  OrderKeys(e, topic, p) \in Seq(OrderKey)
  <1>1. OrderKeys(e, topic, p) \in
          {<<>>, <<"LIGHT_SLIDER">>, <<"FLAP_SLIDER">>,
           <<"LIGHT_ON", "ENERGY_ON", "SWITCH_ON", "FAN_ON", "SET_ON">>,
           <<"LIGHT_OFF", "ENERGY_OFF", "SWITCH_OFF", "FAN_OFF", "SET_OFF">>,
           <<"GB_TOGGLE">>, <<"GB_OPEN">>, <<"GB_CLOSE">>,
           <<"FLAP_UP">>, <<"FLAP_DOWN">>, <<"FLAP_STOP">>}
    BY Zenon DEF OrderKeys
  <1>2. \A a \in OrderKey : <<a>> \in Seq(OrderKey)
    BY Singleton
  <1>3. \A a, b, c, d, f \in OrderKey : <<a, b, c, d, f>> \in Seq(OrderKey)
    OBVIOUS
  <1>4. <<>> \in Seq(OrderKey)
    BY EmptySeq
  <1>5. {"LIGHT_SLIDER", "FLAP_SLIDER", "LIGHT_ON", "ENERGY_ON", "SWITCH_ON", "FAN_ON",
         "SET_ON", "LIGHT_OFF", "ENERGY_OFF", "SWITCH_OFF", "FAN_OFF", "SET_OFF",
         "GB_TOGGLE", "GB_OPEN", "GB_CLOSE", "FLAP_UP", "FLAP_DOWN", "FLAP_STOP"}
          \subseteq OrderKey
    BY DEF OrderKey
  <1>6. <<"LIGHT_ON", "ENERGY_ON", "SWITCH_ON", "FAN_ON", "SET_ON">> \in Seq(OrderKey)
    BY <1>3, <1>5
  <1>7. <<"LIGHT_OFF", "ENERGY_OFF", "SWITCH_OFF", "FAN_OFF", "SET_OFF">> \in Seq(OrderKey)
    BY <1>3, <1>5
  <1>8. {<<"LIGHT_SLIDER">>, <<"FLAP_SLIDER">>, <<"GB_TOGGLE">>, <<"GB_OPEN">>, <<"GB_CLOSE">>,
         <<"FLAP_UP">>, <<"FLAP_DOWN">>, <<"FLAP_STOP">>} \subseteq Seq(OrderKey)
    BY <1>2, <1>5
  <1>. QED  BY <1>1, <1>4, <1>6, <1>7, <1>8

LEMMA InDictionary ==
  ASSUME NEW d, NEW k \in Keys(d)
  PROVE  IdOf(d, k) \in IdsIn(d)
  <1>1. \E n \in DOMAIN d : d[n].key = k
    BY DEF Keys
  <1>. QED  BY <1>1 DEF IdOf, IdsIn

\* Whatever the topic and the payload, the command an order runs is one of the entity.
LEMMA OrderIsCovered ==
  ASSUME NEW e, NEW topic, NEW p
  PROVE  OrderCommand(e, topic, p) \subseteq IdsIn(e.dict)
  <1>. DEFINE ks == OrderKeys(e, topic, p)
              S == {n \in DOMAIN ks : ks[n] \in Keys(e.dict)}
              present == OfThose(ks, S)
  <1>1. OrderCommand(e, topic, p) =
          IF present = <<>> THEN {} ELSE {IdOf(e.dict, Head(present))}
    BY DEF OrderCommand, Where, Mapped, OfThose
  <1>2. ks \in Seq(OrderKey)
    BY OrderKeysAreKeys
  <1>3. S \in SUBSET DOMAIN ks /\ \A n \in S : ks[n] \in Keys(e.dict)
    OBVIOUS
  <1>. HIDE DEF S, ks
  <1>4. (present = <<>> <=> S = {}) /\ (S # {} => Min(S) \in S /\ Head(present) = ks[Min(S)])
    BY <1>2, <1>3, Selected
  <1>. HIDE DEF present
  <1>5. present # <<>> => Head(present) \in Keys(e.dict)
    BY <1>3, <1>4
  <1>. QED  BY <1>1, <1>5, InDictionary

LEMMA OrElseIs == \A t, u : OrElse({}, t) = t /\ OrElse({u}, t) = u
  BY DEF OrElse

\* What the discovery of a light, a switch or a cover declares, it expects, when it has
\* no topic of its own or is the switch that was made for one.
LEMMA DeclaredIsExpected ==
  ASSUME NEW e, e.type \in Actionable, e.native \in Actionable,
         e.scope = 0 \/ (e.native = "switch" /\ e.type = "switch"),
         NEW topic \in DeclaredCommands(e)
  PROVE  /\ topic \in ExpectedCommands(e) /\ Parsed(topic)
         /\ e.scope # 0 => topic = <<e.scope, "set">>
  <1>. DEFINE own == OwnCommand(e)
              base == OrElse(own, <<0, "set">>)
  <1>0. own = IF e.native = "switch" /\ e.scope # 0 THEN {<<e.scope, "set">>} ELSE {}
    BY DEF OwnCommand, Actionable
  <1>1. base = IF e.scope # 0 THEN <<e.scope, "set">> ELSE <<0, "set">>
    BY <1>0, OrElseIs
  <1>2. CASE e.type = "switch"
    <2>1. topic = base /\ topic \in ExpectedCommands(e)
      BY <1>2 DEF DeclaredCommands, ExpectedCommands, Actionable
    <2>2. base[2] = "set"
      BY <1>1
    <2>. QED  BY <1>1, <2>1, <2>2 DEF Parsed
  <1>3. CASE e.type \in {"light", "cover"}
    <2>1. e.scope = 0 /\ base = <<0, "set">>
      BY <1>1, <1>3
    <2>2. ExpectedCommands(e) = {<<0, "set">>} \cup
            {t \in {<<0, "brightness/set">>} : e.type = "light" /\ "brightness" \in e.caps} \cup
            {t \in {<<0, "position/set">>} : e.type = "cover" /\ "position" \in e.caps}
      BY <1>3, <2>1 DEF ExpectedCommands, Actionable
    <2>3. \/ topic = <<0, "set">>
          \/ topic = <<0, "brightness/set">> /\ e.type = "light" /\ "brightness" \in e.caps
          \/ topic = <<0, "position/set">> /\ e.type = "cover" /\ "position" \in e.caps
      BY <1>3 DEF DeclaredCommands
    <2>4. topic \in ExpectedCommands(e)
      BY <2>2, <2>3
    <2>5. Parsed(topic)
      BY <2>3 DEF Parsed
    <2>. QED  BY <2>1, <2>4, <2>5
  <1>. QED  BY <1>2, <1>3 DEF Actionable

\* The topic of a command is expected by the switch it names.
LEMMA OwnTopic ==
  ASSUME NEW f, NEW i, i # 0, <<i, "set">> \in ExpectedCommands(f)
  PROVE  f.native = "switch" /\ f.scope = i
  <1>. DEFINE own == OwnCommand(f)
  <1>1. <<i, "set">> = OrElse(own, <<0, "set">>)
    <2>1. <<i, "set">> # <<0, "brightness/set">> /\ <<i, "set">> # <<0, "position/set">>
      OBVIOUS
    <2>. QED  BY <2>1 DEF ExpectedCommands
  <1>2. \/ own = {<<f.scope, "set">>} /\ f.native = "switch"
        \/ own = {<<0, "cmd">>} \/ own = {<<0, "alarm/set">>} \/ own = {}
    BY DEF OwnCommand
  <1>3. ASSUME own = {<<f.scope, "set">>} /\ f.native = "switch" PROVE f.scope = i
    <2>1. OrElse({<<f.scope, "set">>}, <<0, "set">>) = <<f.scope, "set">>
      BY OrElseIs
    <2>2. <<i, "set">> = <<f.scope, "set">>
      BY <1>1, <1>3, <2>1
    <2>. QED  BY <2>2
  <1>4. own # {<<0, "cmd">>}
    <2>1. OrElse({<<0, "cmd">>}, <<0, "set">>) = <<0, "cmd">>
      BY OrElseIs
    <2>2. <<i, "set">> # <<0, "cmd">>
      OBVIOUS
    <2>. HIDE DEF own
    <2>. QED  BY <1>1, <2>1, <2>2
  <1>5. own # {<<0, "alarm/set">>}
    <2>1. OrElse({<<0, "alarm/set">>}, <<0, "set">>) = <<0, "alarm/set">>
      BY OrElseIs
    <2>2. <<i, "set">> # <<0, "alarm/set">>
      OBVIOUS
    <2>. HIDE DEF own
    <2>. QED  BY <1>1, <2>1, <2>2
  <1>6. own # {}
    <2>1. OrElse({}, <<0, "set">>) = <<0, "set">>
      BY OrElseIs
    <2>2. <<i, "set">> # <<0, "set">>
      OBVIOUS
    <2>. HIDE DEF own
    <2>. QED  BY <1>1, <2>1, <2>2
  <1>. HIDE DEF own
  <1>. QED  BY <1>2, <1>3, <1>4, <1>5, <1>6

\* The entity an order is routed to is one of those that were decided on.
LEMMA TakerIs ==
  ASSUME Evaluated, NEW topic, NEW t \in Routed(evaluation.decisions, topic)
  PROVE  \E m \in DOMAIN evaluation.decisions : t = evaluation.decisions[m].entity
  <1>. DEFINE ds == evaluation.decisions
              takers == {m \in DOMAIN ds : /\ Parsed(topic) /\ ds[m].publish
                                           /\ topic \in ExpectedCommands(ds[m].entity)}
  <1>1. \A m \in takers : m \in Nat /\ m \in DOMAIN ds
    BY DecisionIs
  <1>2. Routed(ds, topic) = IF takers = {} THEN {} ELSE {ds[Min(takers)].entity}
    BY DEF Routed
  <1>. HIDE DEF takers, ds
  <1>3. takers # {} /\ t = ds[Min(takers)].entity
    BY <1>2 DEF ds
  <1>4. Min(takers) \in takers
    BY <1>1, <1>3, MinIsIn
  <1>. QED  BY <1>1, <1>3, <1>4 DEF ds

\* Two entities that listen to one topic are the same: only the principal one listens to
\* that of the equipment, and a switch of a command to its own.
LEMMA KeptTopic ==
  ASSUME Evaluated, NEW n \in DOMAIN evaluation.decisions, evaluation.decisions[n].publish,
         evaluation.decisions[n].entity.type \in Actionable,
         KeepsItsTopic(evaluation.decisions[n].entity),
         NEW topic \in DeclaredCommands(evaluation.decisions[n].entity)
  PROVE  Routed(evaluation.decisions, topic) = {evaluation.decisions[n].entity}
  <1>. DEFINE ds == evaluation.decisions
              e == ds[n].entity
              x == MapAll(eq)[n]
              takers == {m \in DOMAIN ds : /\ Parsed(topic) /\ ds[m].publish
                                           /\ topic \in ExpectedCommands(ds[m].entity)}
  <1>1. /\ n \in DOMAIN MapAll(eq) /\ x \in AnyMade(eq)
        /\ e.native = x.native /\ e.scope = x.scope
    BY DecisionMade
  <1>2. e.native \in Actionable /\ e.type \in Actionable
        /\ (e.scope = 0 \/ (e.native = "switch" /\ e.type = "switch"))
    <2>1. e.native \in Actionable /\ (e.type = e.native \/ e.scope = 0)
      BY DEF KeepsItsTopic
    <2>2. e.native \in {"light", "cover"} => e.scope = 0
      BY <1>1 DEF AnyMade, Made
    <2>. QED  BY <2>1, <2>2 DEF Actionable
  <1>3. /\ topic \in ExpectedCommands(e) /\ Parsed(topic)
        /\ e.scope # 0 => topic = <<e.scope, "set">>
    BY <1>2, DeclaredIsExpected
  <1>4. n \in takers
    BY <1>3
  <1>5. WellMade(eq, MapAll(eq))
    BY EqualIds
  <1>6. \A m \in takers : m \in Nat
    BY DecisionIs
  <1>7. Min(takers) = n
    <2>1. CASE e.scope = 0
      <3>1. n = 1
        BY <1>1, <1>2, <1>5, <2>1 DEF WellMade, Actionable
      <3>2. ASSUME NEW m \in takers PROVE n <= m
        <4>1. m \in DOMAIN MapAll(eq)
          BY DecisionMade
        <4>2. MapAll(eq) \in Seq(AnyMade(eq))
          BY <1>5 DEF WellMade
        <4>3. m \in Nat /\ m # 0
          BY <4>1, <4>2, LenProperties
        <4>. QED  BY <3>1, <4>3
      <3>3. Min(takers) \in takers /\ \A y \in takers : Min(takers) <= y
        BY <1>4, <1>6, MinIsIn
      <3>. HIDE DEF takers
      <3>4. Min(takers) <= n /\ n <= Min(takers) /\ Min(takers) \in Nat /\ n \in Nat
        BY <1>4, <1>6, <3>2, <3>3
      <3>. QED  BY <3>4
    <2>2. CASE e.scope # 0
      <3>1. e.native = "switch" /\ topic = <<e.scope, "set">>
        BY <1>2, <1>3, <2>2
      <3>2. ASSUME NEW m \in takers PROVE m = n
        <4>1. m \in DOMAIN ds /\ topic \in ExpectedCommands(ds[m].entity)
          OBVIOUS
        <4>2. ds[m].entity.native = "switch" /\ ds[m].entity.scope = e.scope
          BY <2>2, <3>1, <4>1, OwnTopic
        <4>3. m \in DOMAIN MapAll(eq) /\ MapAll(eq)[m].native = "switch" /\ MapAll(eq)[m].scope = x.scope
          BY <1>1, <4>1, <4>2, DecisionMade
        <4>. QED  BY <1>1, <1>5, <3>1, <4>3 DEF WellMade
      <3>3. Min(takers) \in takers
        BY <1>4, <1>6, MinIsIn
      <3>. QED  BY <3>2, <3>3
    <2>. QED  BY <2>1, <2>2
  <1>8. Routed(ds, topic) = IF takers = {} THEN {} ELSE {ds[Min(takers)].entity}
    BY DEF Routed
  <1>. HIDE DEF takers
  <1>. QED  BY <1>4, <1>7, <1>8

LEMMA OrdersReach == Evaluated => OrdersRouted
  <1>. SUFFICES ASSUME Evaluated, NEW n \in DOMAIN evaluation.decisions,
                       evaluation.decisions[n].publish,
                       evaluation.decisions[n].entity.type \in Actionable,
                       NEW topic \in DeclaredCommands(evaluation.decisions[n].entity)
                PROVE  LET takers == Routed(evaluation.decisions, topic)
                           e == evaluation.decisions[n].entity
                       IN  /\ KeepsItsTopic(e) => takers = {e}
                           /\ \A t \in takers, p \in {"ON", "OFF", "OPEN", "CLOSE", "STOP", "50"} :
                                OrderCommand(t, topic, p) \subseteq Covered(t)
    BY Zenon DEF OrdersRouted, PublishedEntities, Up
  <1>1. KeepsItsTopic(evaluation.decisions[n].entity)
          => Routed(evaluation.decisions, topic) = {evaluation.decisions[n].entity}
    BY KeptTopic
  <1>2. ASSUME NEW t \in Routed(evaluation.decisions, topic), NEW p
        PROVE  OrderCommand(t, topic, p) \subseteq Covered(t)
    <2>1. PICK m \in DOMAIN evaluation.decisions : t = evaluation.decisions[m].entity
      BY TakerIs
    <2>2. t.dict = MapAll(eq)[m].dict
          /\ Covered(t) = IdsIn(MapAll(eq)[m].dict) \cup ({MapAll(eq)[m].scope} \ {0})
      BY <2>1, DecisionMade
    <2>3. OrderCommand(t, topic, p) \subseteq IdsIn(t.dict)
      BY OrderIsCovered
    <2>. QED  BY <2>2, <2>3
  <1>. QED  BY <1>1, <1>2

\* On any equipment and whatever the overrides: an order sent on a topic the discovery of
\* a light, a switch or a cover declares reaches that entity, when a mapper of these types
\* made it and an override changed its type at most if its topic is that of the equipment
\* (KeepsItsTopic); and what an order runs is a command of the entity it reaches, whichever
\* that is (command.py:248-349).
THEOREM OrdersReachTheirEntity == Spec => []OrdersRouted
  <1>. QED  BY InitEvaluated, StepEvaluated, OrdersReach, PTL DEF Spec

----------------------------------------------------------------------------
\* States: what is declared and what is streamed (readback.py, publisher.py).

\* No state is found for types the dictionary of an entity has not.
LEMMA InfoAbsent ==
  ASSUME NEW q, NEW e, NEW T, NEW keys \in Seq(T), T \cap Keys(e.dict) = {}
  PROVE  InfoOf(q, e, keys) = {}
  <1>. DEFINE S == {n \in DOMAIN keys : keys[n] \in Keys(e.dict) /\ q.cmds[IdOf(e.dict, keys[n])].info}
              k == OfThose(keys, S)
  <1>1. InfoOf(q, e, keys) = IF k = <<>> THEN {} ELSE {IdOf(e.dict, Head(k))}
    BY DEF InfoOf, Where, Mapped, OfThose
  <1>2. \A n \in DOMAIN keys : keys[n] \in T
    BY LenProperties, ElementOfSeq
  <1>3. S = {}
    BY <1>2
  <1>. HIDE DEF S
  <1>4. k = <<>>
    BY <1>3, Selected
  <1>. QED  BY <1>1, <1>4

\* Without the states the lights and the covers are read from, they have none.
LEMMA NothingToRead ==
  ASSUME NEW q, NEW e, e.type \in {"light", "cover"}, Keys(e.dict) \cap ReadKeys = {}
  PROVE  StateCommand(q, e) = {}
  <1>1. /\ <<"LIGHT_STATE">> \in Seq(ReadKeys) /\ <<"FLAP_STATE", "FLAP_BSO_STATE">> \in Seq(ReadKeys)
        /\ <<"BARRIER_STATE", "GARAGE_STATE">> \in Seq(ReadKeys)
    BY DEF ReadKeys
  <1>2. ReadKeys \cap Keys(e.dict) = {}
    OBVIOUS
  <1>3. StateKeys(e.type) = <<"LIGHT_STATE">> \/ StateKeys(e.type) = <<"FLAP_STATE", "FLAP_BSO_STATE">>
    BY DEF StateKeys
  <1>4. InfoOf(q, e, StateKeys(e.type)) = {}
    BY <1>1, <1>2, <1>3, InfoAbsent
  <1>5. InfoOf(q, e, <<"BARRIER_STATE", "GARAGE_STATE">>) = {}
    BY <1>1, <1>2, InfoAbsent
  <1>6. NumericOnly(q, {}) = {}
    BY DEF NumericOnly
  <1>. QED  BY <1>4, <1>5, <1>6 DEF StateCommand

LEMMA ReliableIs ==
  ASSUME NEW q, NEW e
  PROVE  /\ Reliable(q, e, "state") <=> StateCommand(q, e) # {}
         /\ Reliable(q, e, "brightness") <=> BrightnessCommand(q, e) # {}
         /\ Reliable(q, e, "position") <=> PositionCommand(q, e) # {}
         /\ \A r \in ReadbackCommands(q, e) : r.channel \in {"state", "brightness", "position"}
  <1>1. PICK A : A = StateCommand(q, e)
    OBVIOUS
  <1>2. PICK B : B = BrightnessCommand(q, e)
    OBVIOUS
  <1>3. PICK C : C = PositionCommand(q, e)
    OBVIOUS
  <1>. DEFINE R == ReadbackCommands(q, e)
  <1>4. R = [channel : {"state"}, id : A] \cup [channel : {"brightness"}, id : B]
              \cup [channel : {"position"}, id : C]
    BY <1>1, <1>2, <1>3, Zenon DEF ReadbackCommands
  <1>5. \A c : Reliable(q, e, c) <=> \E r \in R : r.channel = c
    BY Zenon DEF Reliable
  <1>. HIDE DEF R
  <1>6. ASSUME NEW r \in R PROVE /\ r.channel = "state" => A # {}
                                 /\ r.channel = "brightness" => B # {}
                                 /\ r.channel = "position" => C # {}
                                 /\ r.channel \in {"state", "brightness", "position"}
    BY <1>4
  <1>7. ASSUME NEW a \in A PROVE \E r \in R : r.channel = "state"
    <2>1. [channel |-> "state", id |-> a] \in R
      BY <1>4
    <2>. QED  BY <2>1
  <1>8. ASSUME NEW b \in B PROVE \E r \in R : r.channel = "brightness"
    <2>1. [channel |-> "brightness", id |-> b] \in R
      BY <1>4
    <2>. QED  BY <2>1
  <1>9. Reliable(q, e, "state") <=> A # {}
    BY <1>5, <1>6, <1>7
  <1>10. Reliable(q, e, "brightness") <=> B # {}
    BY <1>5, <1>6, <1>8
  <1>11. ASSUME NEW c \in C PROVE \E r \in R : r.channel = "position"
    <2>1. [channel |-> "position", id |-> c] \in R
      BY <1>4
    <2>. QED  BY <2>1
  <1>12. Reliable(q, e, "position") <=> C # {}
    BY <1>5, <1>6, <1>11
  <1>. QED  BY <1>1, <1>2, <1>3, <1>6, <1>9, <1>10, <1>12 DEF R

\* The topic of a stream.
LEMMA StreamTopicIs ==
  ASSUME NEW e
  PROVE  /\ StreamTopic(e, "state") = OrElse(OwnState(e), <<0, "state">>)
         /\ \A c : c # "state" =>
              StreamTopic(e, c) = <<OrElse(OwnState(e), <<0, "state">>)[1], c>>
         /\ OrElse(OwnState(e), <<0, "state">>) =
              IF e.scope # 0 THEN <<e.scope, "state">>
              ELSE IF e.native = "alarm_control_panel" THEN <<0, "alarm/state">>
              ELSE <<0, "state">>
  <1>1. /\ e.scope # 0 => OwnState(e) = {<<e.scope, "state">>}
        /\ e.scope = 0 /\ e.native = "alarm_control_panel" => OwnState(e) = {<<0, "alarm/state">>}
        /\ e.scope = 0 /\ e.native # "alarm_control_panel" => OwnState(e) = {}
    BY DEF OwnState
  <1>2. OrElse(OwnState(e), <<0, "state">>) =
              IF e.scope # 0 THEN <<e.scope, "state">>
              ELSE IF e.native = "alarm_control_panel" THEN <<0, "alarm/state">>
              ELSE <<0, "state">>
    BY <1>1, OrElseIs
  <1>3. StreamTopic(e, "state") = OrElse(OwnState(e), <<0, "state">>)
    BY DEF StreamTopic
  <1>4. \A c : c # "state" => StreamTopic(e, c) = <<OrElse(OwnState(e), <<0, "state">>)[1], c>>
    BY DEF StreamTopic
  <1>. QED  BY <1>2, <1>3, <1>4

LEMMA SingleFeeds == \A q, e : \E i : SingleFeed(q, e) = {i}
  BY DEF SingleFeed

\* The streams of a light, a cover or a switch of the equipment are those of the readback.
LEMMA StateStreamed ==
  ASSUME NEW q, NEW e, e.scope = 0, e.type \in Actionable
  PROVE  /\ \A b \in Bindings(q, e) : \E r \in ReadbackCommands(q, e) :
              b.topic = StreamTopic(e, r.channel)
         /\ \A c : Reliable(q, e, c) => \E b \in Bindings(q, e) : b.topic = StreamTopic(e, c)
  <1>. DEFINE R == ReadbackCommands(q, e)
  <1>1. Bindings(q, e) = {[id |-> r.id, topic |-> StreamTopic(e, r.channel)] : r \in R}
    BY Zenon DEF Bindings, Streamed
  <1>2. \A c : Reliable(q, e, c) <=> \E r \in R : r.channel = c
    BY Zenon DEF Reliable
  <1>. HIDE DEF R
  <1>3. ASSUME NEW b \in Bindings(q, e) PROVE \E r \in R : b.topic = StreamTopic(e, r.channel)
    BY <1>1
  <1>4. ASSUME NEW c, Reliable(q, e, c) PROVE \E b \in Bindings(q, e) : b.topic = StreamTopic(e, c)
    <2>1. PICK r \in R : r.channel = c
      BY <1>2, <1>4
    <2>2. [id |-> r.id, topic |-> StreamTopic(e, c)] \in Bindings(q, e)
      BY <1>1, <2>1
    <2>. QED  BY <2>2
  <1>. QED  BY <1>3, <1>4 DEF R

\* The others have one stream, on their own topic.
LEMMA OwnStreamed ==
  ASSUME NEW q, NEW e, e.type \in Streamed, e.type \notin Actionable \/ e.scope # 0
  PROVE  /\ \A b \in Bindings(q, e) : b.topic = StreamTopic(e, "state")
         /\ \E b \in Bindings(q, e) : b.topic = StreamTopic(e, "state")
  <1>1. Bindings(q, e) = [id : SingleFeed(q, e), topic : {StreamTopic(e, "state")}]
    BY Zenon DEF Bindings
  <1>2. PICK i : SingleFeed(q, e) = {i}
    BY SingleFeeds
  <1>3. [id |-> i, topic |-> StreamTopic(e, "state")] \in Bindings(q, e)
    BY <1>1, <1>2
  <1>4. ASSUME NEW b \in Bindings(q, e) PROVE b.topic = StreamTopic(e, "state")
    BY <1>1, <1>4
  <1>5. \E b \in Bindings(q, e) : b.topic = StreamTopic(e, "state")
    <2>. WITNESS [id |-> i, topic |-> StreamTopic(e, "state")] \in Bindings(q, e)
    <2>. QED  OBVIOUS
  <1>. QED  BY <1>4, <1>5

\* The states a discovery declares, and the topic of each.
LEMMA DeclaredIs ==
  ASSUME NEW q, NEW e, NEW s \in DeclaredStates(q, e)
  PROVE  /\ e.type \in {"light", "cover"} /\ s.channel = "state" => s.topic = <<0, "state">>
         /\ e.type \in {"switch", "sensor", "binary_sensor"} =>
              s.channel = "state" /\ s.topic = OrElse(OwnState(e), <<0, "state">>)
         /\ s.channel = "brightness" =>
              e.type = "light" /\ Reliable(q, e, "brightness") /\ s.topic = <<0, "brightness">>
         /\ s.channel = "position" =>
              e.type = "cover" /\ "position" \in e.caps /\ s.topic = <<0, "position">>
         /\ s.channel \in {"state", "brightness", "position"}
  <1>1. CASE e.type \in {"light", "cover"}
    <2>. DEFINE A == {c \in {"brightness"} : e.type = "light" /\ Reliable(q, e, c)}
                B == {c \in {"position"} : e.type = "cover" /\ c \in e.caps}
    <2>1. DeclaredStates(q, e) =
            [channel : {"state"}, topic : {<<0, "state">>}]
              \cup [channel : A, topic : {<<0, "brightness">>}]
              \cup [channel : B, topic : {<<0, "position">>}]
      BY <1>1, Zenon DEF DeclaredStates
    <2>2. \A c \in A : c = "brightness" /\ e.type = "light" /\ Reliable(q, e, "brightness")
      OBVIOUS
    <2>3. \A c \in B : c = "position" /\ e.type = "cover" /\ "position" \in e.caps
      OBVIOUS
    <2>. HIDE DEF A, B
    <2>4. \/ s.channel = "state" /\ s.topic = <<0, "state">>
          \/ s.channel \in A /\ s.topic = <<0, "brightness">>
          \/ s.channel \in B /\ s.topic = <<0, "position">>
      BY <2>1
    <2>5. \/ s.channel = "state" /\ s.topic = <<0, "state">>
          \/ /\ s.channel = "brightness" /\ e.type = "light" /\ Reliable(q, e, "brightness")
             /\ s.topic = <<0, "brightness">>
          \/ /\ s.channel = "position" /\ e.type = "cover" /\ "position" \in e.caps
             /\ s.topic = <<0, "position">>
      BY <2>2, <2>3, <2>4
    <2>. QED  BY <1>1, <2>5
  <1>2. CASE e.type \in {"switch", "sensor", "binary_sensor"}
    <2>1. DeclaredStates(q, e) = [channel : {"state"}, topic : {OrElse(OwnState(e), <<0, "state">>)}]
      BY <1>2, Zenon DEF DeclaredStates
    <2>2. s.channel = "state" /\ s.topic = OrElse(OwnState(e), <<0, "state">>)
      BY <2>1
    <2>. QED  BY <1>2, <2>2
  <1>3. CASE e.type \notin {"light", "cover", "switch", "sensor", "binary_sensor"}
    <2>1. DeclaredStates(q, e) \in
            {{}, {[channel |-> "state", topic |-> <<0, "alarm/state">>]},
             {[channel |-> "state", topic |-> <<0, "temperature/state">>]}}
      BY <1>3, Zenon DEF DeclaredStates
    <2>2. s.channel = "state"
      BY <2>1
    <2>. QED  BY <1>3, <2>2
  <1>. QED  BY <1>1, <1>2, <1>3

\* The topics a discovery surely declares.
LEMMA DeclaresAll ==
  ASSUME NEW q, NEW e
  PROVE  /\ e.type \in {"light", "cover"} =>
              \E s \in DeclaredStates(q, e) : s.topic = <<0, "state">>
         /\ e.type \in {"switch", "sensor", "binary_sensor"} =>
              \E s \in DeclaredStates(q, e) : s.topic = OrElse(OwnState(e), <<0, "state">>)
         /\ e.type = "light" /\ Reliable(q, e, "brightness") =>
              \E s \in DeclaredStates(q, e) : s.topic = <<0, "brightness">>
         /\ e.type = "cover" /\ "position" \in e.caps =>
              \E s \in DeclaredStates(q, e) : s.topic = <<0, "position">>
  <1>1. ASSUME e.type \in {"light", "cover"}
        PROVE  /\ \E s \in DeclaredStates(q, e) : s.topic = <<0, "state">>
               /\ e.type = "light" /\ Reliable(q, e, "brightness") =>
                    \E s \in DeclaredStates(q, e) : s.topic = <<0, "brightness">>
               /\ e.type = "cover" /\ "position" \in e.caps =>
                    \E s \in DeclaredStates(q, e) : s.topic = <<0, "position">>
    <2>. DEFINE A == {c \in {"brightness"} : e.type = "light" /\ Reliable(q, e, c)}
                B == {c \in {"position"} : e.type = "cover" /\ c \in e.caps}
    <2>1. DeclaredStates(q, e) =
            [channel : {"state"}, topic : {<<0, "state">>}]
              \cup [channel : A, topic : {<<0, "brightness">>}]
              \cup [channel : B, topic : {<<0, "position">>}]
      BY <1>1, Zenon DEF DeclaredStates
    <2>2. /\ e.type = "light" /\ Reliable(q, e, "brightness") => "brightness" \in A
          /\ e.type = "cover" /\ "position" \in e.caps => "position" \in B
      OBVIOUS
    <2>. HIDE DEF A, B
    <2>3. /\ [channel |-> "state", topic |-> <<0, "state">>] \in DeclaredStates(q, e)
          /\ "brightness" \in A =>
               [channel |-> "brightness", topic |-> <<0, "brightness">>] \in DeclaredStates(q, e)
          /\ "position" \in B =>
               [channel |-> "position", topic |-> <<0, "position">>] \in DeclaredStates(q, e)
      BY <2>1
    <2>4. \A c, t : [channel |-> c, topic |-> t].topic = t
      OBVIOUS
    <2>. QED  BY <2>2, <2>3, <2>4
  <1>2. ASSUME e.type \in {"switch", "sensor", "binary_sensor"}
        PROVE  \E s \in DeclaredStates(q, e) : s.topic = OrElse(OwnState(e), <<0, "state">>)
    <2>1. DeclaredStates(q, e) = [channel : {"state"}, topic : {OrElse(OwnState(e), <<0, "state">>)}]
      BY <1>2, Zenon DEF DeclaredStates
    <2>2. [channel |-> "state", topic |-> OrElse(OwnState(e), <<0, "state">>)] \in DeclaredStates(q, e)
      BY <2>1
    <2>3. \A c, t : [channel |-> c, topic |-> t].topic = t
      OBVIOUS
    <2>. QED  BY <2>2, <2>3
  <1>. QED  BY <1>1, <1>2

\* The streams of an entity with no topic of its own.
LEMMA PlainTopics ==
  ASSUME NEW e, OwnState(e) = {}
  PROVE  /\ \A c : StreamTopic(e, c) = <<0, c>>
         /\ e.scope = 0
  <1>1. e.scope = 0
    BY DEF OwnState
  <1>2. OrElse(OwnState(e), <<0, "state">>) = <<0, "state">>
    BY OrElseIs
  <1>3. StreamTopic(e, "state") = <<0, "state">>
        /\ \A c : c # "state" => StreamTopic(e, c) = <<<<0, "state">>[1], c>>
    BY <1>2, StreamTopicIs
  <1>4. \A c : <<<<0, "state">>[1], c>> = <<0, c>>
    OBVIOUS
  <1>. QED  BY <1>1, <1>3, <1>4

\* What is streamed is declared, but for an entity with a topic of its own that was made a
\* light or a cover.
LEMMA StreamDeclared ==
  ASSUME NEW q, NEW e, NEW x \in AnyMade(q),
         e.native = x.native, e.caps = x.caps, e.scope = x.scope,
         e.type \in Streamed, e.type \in {"light", "cover"} => OwnState(e) = {},
         NEW b \in Bindings(q, e)
  PROVE  \E s \in DeclaredStates(q, e) : b.topic = s.topic
  <1>1. ASSUME b.topic = StreamTopic(e, "state")
        PROVE  \E s \in DeclaredStates(q, e) : b.topic = s.topic
    <2>1. CASE e.type \in {"light", "cover"}
      <3>1. b.topic = <<0, "state">>
        BY <1>1, <2>1, PlainTopics
      <3>. QED  BY <2>1, <3>1, DeclaresAll
    <2>2. CASE e.type \in {"switch", "sensor", "binary_sensor"}
      <3>1. b.topic = OrElse(OwnState(e), <<0, "state">>)
        BY <1>1, StreamTopicIs
      <3>. QED  BY <2>2, <3>1, DeclaresAll
    <2>. QED  BY <2>1, <2>2 DEF Streamed, Actionable
  <1>2. CASE e.type \notin Actionable \/ e.scope # 0
    <2>1. b.topic = StreamTopic(e, "state")
      BY <1>2, OwnStreamed
    <2>. QED  BY <1>1, <2>1
  <1>3. CASE e.type \in Actionable /\ e.scope = 0
    <2>1. PICK r \in ReadbackCommands(q, e) : b.topic = StreamTopic(e, r.channel)
      BY <1>3, StateStreamed
    <2>2. r.channel \in {"state", "brightness", "position"}
      BY ReliableIs
    <2>3. CASE r.channel = "state"
      BY <1>1, <2>1, <2>3
    <2>4. CASE r.channel = "brightness"
      <3>1. Reliable(q, e, "brightness")
        BY <2>4 DEF Reliable
      <3>2. e.type = "light"
        <4>1. BrightnessCommand(q, e) # {}
          BY <3>1, ReliableIs
        <4>. QED  BY <4>1, Zenon DEF BrightnessCommand
      <3>3. b.topic = <<0, "brightness">>
        BY <2>1, <2>4, <3>2, PlainTopics
      <3>. QED  BY <3>1, <3>2, <3>3, DeclaresAll
    <2>5. CASE r.channel = "position"
      <3>1. Reliable(q, e, "position")
        BY <2>5 DEF Reliable
      <3>2. e.type = "cover" /\ "position" \in e.caps
        <4>1. PositionCommand(q, e) # {}
          BY <3>1, ReliableIs
        <4>. QED  BY <4>1, Zenon DEF PositionCommand
      <3>3. b.topic = <<0, "position">>
        BY <2>1, <2>5, <3>2, PlainTopics
      <3>. QED  BY <3>2, <3>3, DeclaresAll
    <2>. QED  BY <2>2, <2>3, <2>4, <2>5
  <1>. QED  BY <1>2, <1>3

\* Of an entity the mappers made, whatever type the user gave it.
LEMMA StateArrives ==
  ASSUME NEW q, NEW e, NEW x \in AnyMade(q),
         e.native = x.native, e.caps = x.caps, e.scope = x.scope, e.dict = x.dict,
         NEW s \in DeclaredStates(q, e), NEW fed \in BOOLEAN,
         fed <=> \E b \in Bindings(q, e) : b.topic = s.topic
  PROVE  /\ e.type \in {"light", "cover"} /\ s.channel = "state" => (Optimistic(q, e) <=> ~fed)
         /\ e.type \in {"sensor", "binary_sensor"} \/ s.channel = "brightness" => fed
         /\ e.type = "switch" => fed \/ ~Confirmed(q, e)
         /\ s.channel = "position" => (fed <=> Reliable(q, e, "position"))
  <1>1. /\ e.scope # 0 \/ e.native = "alarm_control_panel" => Keys(e.dict) \cap ReadKeys = {}
        /\ e.native \in {"light", "cover"} => e.scope = 0
        /\ "brightness" \in e.caps => e.native = "light"
        /\ "position" \in e.caps => e.native = "cover"
    BY DEF AnyMade, Made
  <1>2. CASE e.type \in {"light", "cover"} /\ s.channel = "state"
    <2>1. s.topic = <<0, "state">>
      BY <1>2, DeclaredIs
    <2>2. Optimistic(q, e) <=> StateCommand(q, e) = {}
      BY <1>2, ReliableIs DEF Optimistic
    <2>3. e.type \in Actionable /\ e.type \in Streamed
      BY <1>2 DEF Streamed, Actionable
    <2>4. CASE e.scope # 0
      <3>1. StateCommand(q, e) = {}
        BY <1>1, <1>2, <2>4, NothingToRead
      <3>2. StreamTopic(e, "state") = <<e.scope, "state">>
        BY <2>4, StreamTopicIs
      <3>3. \A b \in Bindings(q, e) : b.topic = <<e.scope, "state">>
        BY <2>3, <2>4, <3>2, OwnStreamed
      <3>4. <<e.scope, "state">> # <<0, "state">>
        BY <2>4
      <3>. QED  BY <1>2, <2>1, <2>2, <3>1, <3>3, <3>4
    <2>5. CASE e.scope = 0 /\ e.native = "alarm_control_panel"
      <3>1. StateCommand(q, e) = {}
        BY <1>1, <1>2, <2>5, NothingToRead
      <3>2. StreamTopic(e, "state") = <<0, "alarm/state">>
            /\ \A c : c # "state" => StreamTopic(e, c) = <<<<0, "alarm/state">>[1], c>>
        BY <2>5, StreamTopicIs
      <3>3. \A c : StreamTopic(e, c) # <<0, "state">>
        <4>1. \A c : c # "state" => <<<<0, "alarm/state">>[1], c>> # <<0, "state">>
          OBVIOUS
        <4>2. <<0, "alarm/state">> # <<0, "state">>
          OBVIOUS
        <4>. QED  BY <3>2, <4>1, <4>2
      <3>4. \A b \in Bindings(q, e) : \E r \in ReadbackCommands(q, e) :
              b.topic = StreamTopic(e, r.channel)
        BY <2>3, <2>5, StateStreamed
      <3>5. ~fed
        BY <2>1, <3>3, <3>4
      <3>. QED  BY <1>2, <2>2, <3>1, <3>5
    <2>6. CASE e.scope = 0 /\ e.native # "alarm_control_panel"
      <3>1. StreamTopic(e, "state") = <<0, "state">>
            /\ \A c : c # "state" => StreamTopic(e, c) = <<<<0, "state">>[1], c>>
        BY <2>6, StreamTopicIs
      <3>2. \A c : c # "state" => StreamTopic(e, c) # <<0, "state">>
        <4>1. \A c : c # "state" => <<<<0, "state">>[1], c>> # <<0, "state">>
          OBVIOUS
        <4>. QED  BY <3>1, <4>1
      <3>3. /\ \A b \in Bindings(q, e) : \E r \in ReadbackCommands(q, e) :
                 b.topic = StreamTopic(e, r.channel)
            /\ \A c : Reliable(q, e, c) => \E b \in Bindings(q, e) : b.topic = StreamTopic(e, c)
        BY <2>3, <2>6, StateStreamed
      <3>4. fed <=> Reliable(q, e, "state")
        <4>1. ASSUME fed PROVE Reliable(q, e, "state")
          <5>1. PICK b \in Bindings(q, e) : b.topic = <<0, "state">>
            BY <2>1, <4>1
          <5>2. PICK r \in ReadbackCommands(q, e) : b.topic = StreamTopic(e, r.channel)
            BY <3>3
          <5>3. r.channel = "state"
            BY <3>2, <5>1, <5>2
          <5>. QED  BY <5>3 DEF Reliable
        <4>2. ASSUME Reliable(q, e, "state") PROVE fed
          BY <2>1, <3>1, <3>3, <4>2
        <4>. QED  BY <4>1, <4>2
      <3>. QED  BY <1>2, <3>4 DEF Optimistic
    <2>. QED  BY <2>4, <2>5, <2>6
  <1>3. CASE e.type \in {"sensor", "binary_sensor"}
    <2>1. s.topic = StreamTopic(e, "state") /\ s.channel = "state"
      BY <1>3, DeclaredIs, StreamTopicIs
    <2>2. e.type \in Streamed /\ e.type \notin Actionable
      BY <1>3 DEF Streamed, Actionable
    <2>3. fed
      BY <2>1, <2>2, OwnStreamed
    <2>. QED  BY <1>3, <2>1, <2>3
  <1>4. CASE s.channel = "brightness"
    <2>1. e.type = "light" /\ Reliable(q, e, "brightness") /\ s.topic = <<0, "brightness">>
      BY <1>4, DeclaredIs
    <2>2. "brightness" \in e.caps
      <3>1. BrightnessCommand(q, e) # {}
        BY <2>1, ReliableIs
      <3>. QED  BY <3>1, Zenon DEF BrightnessCommand
    <2>3. e.scope = 0 /\ e.native = "light"
      BY <1>1, <2>2
    <2>4. StreamTopic(e, "brightness") = <<0, "brightness">>
      <3>1. StreamTopic(e, "brightness") = <<<<0, "state">>[1], "brightness">>
        BY <2>3, StreamTopicIs
      <3>. QED  BY <3>1
    <2>5. e.type \in Actionable
      BY <2>1 DEF Actionable
    <2>6. fed
      BY <2>1, <2>3, <2>4, <2>5, StateStreamed
    <2>. QED  BY <1>4, <2>1, <2>6
  <1>5. CASE e.type = "switch"
    <2>1. s.topic = StreamTopic(e, "state") /\ s.channel = "state"
      BY <1>5, DeclaredIs, StreamTopicIs
    <2>2. e.type \in Streamed /\ e.type \in Actionable
      BY <1>5 DEF Streamed, Actionable
    <2>3. CASE e.scope # 0
      <3>1. fed
        BY <2>1, <2>2, <2>3, OwnStreamed
      <3>. QED  BY <1>5, <2>1, <3>1
    <2>4. CASE e.scope = 0
      <3>1. Confirmed(q, e) => fed
        BY <2>1, <2>2, <2>4, StateStreamed DEF Confirmed
      <3>. QED  BY <1>5, <2>1, <3>1
    <2>. QED  BY <2>3, <2>4
  <1>6. CASE s.channel = "position"
    <2>1. e.type = "cover" /\ "position" \in e.caps /\ s.topic = <<0, "position">>
      BY <1>6, DeclaredIs
    <2>2. OwnState(e) = {} /\ e.scope = 0
      BY <1>1, <2>1 DEF OwnState
    <2>3. /\ \A b \in Bindings(q, e) : \E r \in ReadbackCommands(q, e) :
               b.topic = StreamTopic(e, r.channel)
          /\ \A c : Reliable(q, e, c) => \E b \in Bindings(q, e) : b.topic = StreamTopic(e, c)
      BY <2>1, <2>2, StateStreamed DEF Actionable
    <2>4. \A c : StreamTopic(e, c) = <<0, c>>
      BY <2>2, PlainTopics
    <2>5. ASSUME fed PROVE Reliable(q, e, "position")
      <3>1. PICK b \in Bindings(q, e) : b.topic = <<0, "position">>
        BY <2>1, <2>5
      <3>2. PICK r \in ReadbackCommands(q, e) : b.topic = <<0, r.channel>>
        BY <2>3, <2>4
      <3>3. r.channel = "position"
        BY <3>1, <3>2
      <3>. QED  BY <3>3 DEF Reliable
    <2>6. ASSUME Reliable(q, e, "position") PROVE fed
      BY <2>1, <2>3, <2>4, <2>6
    <2>. QED  BY <1>6, <2>1, <2>5, <2>6
  <1>. QED  BY <1>2, <1>3, <1>4, <1>5, <1>6

LEMMA StatesReach == Evaluated => StatesArrive
  <1>. SUFFICES ASSUME Evaluated, NEW e \in PublishedEntities, e.type \in Streamed
                PROVE  /\ \A s \in DeclaredStates(eq, e) :
                            LET fed == \E b \in Bindings(eq, e) : b.topic = s.topic
                            IN  CASE s.channel = "brightness" -> fed
                                  [] s.channel = "position" -> fed <=> Reliable(eq, e, "position")
                                  [] s.channel = "state" /\ e.type \in {"light", "cover"} ->
                                       Optimistic(eq, e) <=> ~fed
                                  [] s.channel = "state" /\ e.type = "switch" ->
                                       fed \/ ~Confirmed(eq, e)
                                  [] s.channel = "state" /\ e.type \in {"sensor", "binary_sensor"} -> fed
                       /\ (e.type \in {"light", "cover"} => OwnState(e) = {}) =>
                            \A b \in Bindings(eq, e) :
                              \E s \in DeclaredStates(eq, e) : b.topic = s.topic
    BY Zenon DEF StatesArrive
  <1>1. PICK n \in DOMAIN evaluation.decisions : e = evaluation.decisions[n].entity
    BY DEF PublishedEntities, Up
  <1>2. PICK x \in AnyMade(eq) : /\ e.native = x.native /\ e.caps = x.caps
                                 /\ e.scope = x.scope /\ e.dict = x.dict
    BY <1>1, DecisionMade
  <1>3. e.type \in {"light", "cover", "switch", "sensor", "binary_sensor"}
    BY DEF Streamed, Actionable
  <1>4. ASSUME NEW s \in DeclaredStates(eq, e)
        PROVE  LET fed == \E b \in Bindings(eq, e) : b.topic = s.topic
               IN  CASE s.channel = "brightness" -> fed
                     [] s.channel = "position" -> fed <=> Reliable(eq, e, "position")
                     [] s.channel = "state" /\ e.type \in {"light", "cover"} ->
                          Optimistic(eq, e) <=> ~fed
                     [] s.channel = "state" /\ e.type = "switch" -> fed \/ ~Confirmed(eq, e)
                     [] s.channel = "state" /\ e.type \in {"sensor", "binary_sensor"} -> fed
    <2>1. PICK fed \in BOOLEAN : fed <=> \E b \in Bindings(eq, e) : b.topic = s.topic
      OBVIOUS
    <2>2. /\ e.type \in {"light", "cover"} /\ s.channel = "state" => (Optimistic(eq, e) <=> ~fed)
          /\ e.type \in {"sensor", "binary_sensor"} \/ s.channel = "brightness" => fed
          /\ e.type = "switch" => fed \/ ~Confirmed(eq, e)
          /\ s.channel = "position" => (fed <=> Reliable(eq, e, "position"))
      BY <1>2, <2>1, StateArrives
    <2>3. s.channel \in {"state", "brightness", "position"}
      BY DeclaredIs
    <2>4. PICK f \in BOOLEAN : f <=> Optimistic(eq, e)
      OBVIOUS
    <2>5. PICK g \in BOOLEAN : g <=> Confirmed(eq, e)
      OBVIOUS
    <2>6. PICK h \in BOOLEAN : h <=> Reliable(eq, e, "position")
      OBVIOUS
    <2>7. CASE s.channel = "brightness"
      BY <2>1, <2>2, <2>7
    <2>8. CASE s.channel = "position"
      BY <2>1, <2>2, <2>8
    <2>9. CASE s.channel = "state"
      BY <1>3, <2>1, <2>2, <2>9
    <2>. QED  BY <2>3, <2>7, <2>8, <2>9
  <1>5. ASSUME e.type \in {"light", "cover"} => OwnState(e) = {}, NEW b \in Bindings(eq, e)
        PROVE  \E s \in DeclaredStates(eq, e) : b.topic = s.topic
    BY <1>2, <1>5, StreamDeclared
  <1>. QED  BY <1>4, <1>5

\* For the types whose states are streamed, on any equipment and whatever the overrides
\* made of it: Home Assistant waits for the state or the brightness of a light, a cover or
\* a sensor exactly when the daemon streams one on the topic it was told, for the position
\* of a cover when a command feeds it reliably, and a switch whose orders the real state
\* confirms is streamed; nothing is streamed on a topic that is not declared, unless a
\* light or a cover has a topic of its own (readback.py:1-10, publisher.py:585-600).
THEOREM StatesDoArrive == Spec => []StatesArrive
  <1>. QED  BY InitEvaluated, StepEvaluated, StatesReach, PTL DEF Spec

----------------------------------------------------------------------------
\* The exemption from tags.

\* Overrides that say nothing change nothing.
LEMMA SilentKeeps ==
  ASSUME NEW q, NEW c, \A n \in DOMAIN c.ids : c.ids[n] \in Ids(q)
  PROVE  /\ RetypedFirst(c, Silent(q), Silent(q)) = c
         /\ EntityOverride(c, Merged(Silent(q), Silent(q)), "") = ""
  <1>. DEFINE none == Silent(q)
              merged == Merged(none, none)
              first == [id \in DOMAIN none |-> IF none[id] = NoOverride THEN NoOverride ELSE merged[id]]
  <1>1. DOMAIN none = Ids(q) /\ \A id \in Ids(q) : none[id] = NoOverride
    BY DEF Silent
  <1>2. NoOverride.type = "" /\ NoOverride.policy = ""
    BY DEF NoOverride
  <1>. HIDE DEF none
  <1>3. \A id \in Ids(q) : merged[id].type = "" /\ merged[id].policy = ""
    <2>. SUFFICES ASSUME NEW id \in Ids(q) PROVE merged[id].type = "" /\ merged[id].policy = ""
      OBVIOUS
    <2>1. none[id].type = "" /\ none[id].policy = "" /\ id \in DOMAIN none
      BY <1>1, <1>2
    <2>2. merged[id] = [type |-> "", policy |-> ""]
      BY <2>1 DEF Merged
    <2>. HIDE DEF merged
    <2>3. PICK r : r = merged[id]
      OBVIOUS
    <2>4. r = [type |-> "", policy |-> ""]
      BY <2>2, <2>3
    <2>5. r.type = "" /\ r.policy = ""
      BY <2>4
    <2>. QED  BY <2>3, <2>5, Zenon
  <1>4. \A id \in Ids(q) : first[id].type = ""
    BY <1>1, <1>2
  <1>. HIDE DEF merged, first
  <1>5. Retyping(c, merged) = {} /\ Retyping(c, first) = {}
    BY <1>3, <1>4 DEF Retyping
  <1>6. Retyped(c, merged) = c
    BY <1>5 DEF Retyped
  <1>7. RetypedFirst(c, none, none) = c
    <2>1. RetypedFirst(c, none, none) = Retyped(c, IF Retyping(c, first) # {} THEN first ELSE merged)
      BY Zenon DEF RetypedFirst, merged, first
    <2>. QED  BY <1>5, <1>6, <2>1
  <1>8. EntityOverride(c, merged, "") = ""
    <2>1. \A id \in Ids(q) : CommandOverride(id, merged, "") = ""
      BY <1>3 DEF CommandOverride, EquipmentOverride
    <2>. DEFINE said == {CommandOverride(id, merged, "") : id \in Covered(c)} \cup {EquipmentOverride("")}
    <2>2. \A id \in Covered(c) : id \in Ids(q)
      BY DEF Covered
    <2>3. EquipmentOverride("") = ""
      BY DEF EquipmentOverride
    <2>4. \A o \in said : o = ""
      BY <2>1, <2>2, <2>3
    <2>5. EntityOverride(c, merged, "") =
            IF "exclude_eqlogic" \in said THEN "exclude_eqlogic"
            ELSE IF "exclude_command" \in said THEN "exclude_command"
            ELSE IF "force_publish" \in said THEN "force_publish" ELSE ""
      BY Zenon DEF EntityOverride
    <2>. HIDE DEF said
    <2>. QED  BY <2>4, <2>5
  <1>. QED  BY <1>7, <1>8 DEF none, merged

\* A sure sensor is published under any policy of confidence.
LEMMA SensorIsNominal ==
  ASSUME NEW e, e.type = "sensor", e.native = "sensor", e.conf = "sure", e.caps = {"state"}, NEW pol
  PROVE  DecisionReason(e, pol, "") = "nominal"
  <1>1. Valid(e)
    <2>1. Required(e.type) = {"has_state"}
      BY DEF Required
    <2>2. "has_state" \in Provided(e)
      BY DEF Provided
    <2>. QED  BY <2>1, <2>2 DEF Valid, CrossFamily, ComponentTypes
  <1>2. e.type \in ProductScope
    BY DEF ProductScope, ComponentTypes
  <1>. QED  BY <1>1, <1>2 DEF DecisionReason

LEMMA SensorFields ==
  ASSUME NEW q, NEW i
  PROVE  /\ SensorOf(q, i).type = "sensor" /\ SensorOf(q, i).native = "sensor"
         /\ SensorOf(q, i).conf = "sure" /\ SensorOf(q, i).caps = {"state"}
  <1>. DEFINE plain == Entity("sensor", "sure", <<[key |-> "own", id |-> i]>>, {"state"})
  <1>1. \E dict : plain = [type |-> "sensor", native |-> "sensor", conf |-> "sure", scope |-> 0,
                           dict |-> dict, caps |-> {"state"}, measure |-> "", mode |-> "none"]
    BY Zenon DEF Entity
  <1>2. SensorOf(q, i) = [plain EXCEPT !.scope = i, !.measure = Measure(q.cmds[i])]
    BY Zenon DEF SensorOf, CommandEntity
  <1>. HIDE DEF plain
  <1>3. PICK s : s = SensorOf(q, i)
    OBVIOUS
  <1>4. PICK dict :
          plain = [type |-> "sensor", native |-> "sensor", conf |-> "sure", scope |-> 0,
                   dict |-> dict, caps |-> {"state"}, measure |-> "", mode |-> "none"]
    BY <1>1
  <1>5. PICK m : m = Measure(q.cmds[i])
    OBVIOUS
  <1>6. s = [plain EXCEPT !.scope = i, !.measure = m]
    BY <1>2, <1>3, <1>5
  <1>7. s.type = "sensor" /\ s.native = "sensor" /\ s.conf = "sure" /\ s.caps = {"state"}
    BY <1>4, <1>6
  <1>. QED  BY <1>3, <1>7

\* The solar routers and the measures are eligible for what their sensors are made of.
LEMMA Pays == Evaluated => ExemptionPays
  <1>. SUFFICES ASSUME Evaluated, evaluation.eligible, ~\E i \in Ids(eq) : eq.cmds[i].gt # "",
                       saved = Silent(eq), savedPolicy = ""
                PROVE  \E e \in PublishedEntities : e.type = "sensor"
    BY DEF ExemptionPays
  <1>1. Len(eq.cmds) \in Nat
    BY EqualIds
  <1>2. Untagged(eq)
    BY DEF Untagged
  <1>. DEFINE ds == Decisions(MapAll(eq), policy, saved, savedPolicy, Silent(eq), "")
  <1>3. Eligible(eq) /\ evaluation.decisions = ds
    <2>1. evaluation = Told(eq, ds)
      BY DEF Evaluated, Sync, Evaluate
    <2>2. \/ Eligible(eq) /\ evaluation.decisions = ds
          \/ evaluation.eligible = FALSE
      BY <2>1 DEF Told
    <2>. QED  BY <2>2
  <1>4. Shown(eq) # {}
    <2>1. PICK i \in Ids(eq) : NumericInfo(eq.cmds[i]) /\ (eq.cmds[i].unit # "" \/ eq.solar)
      BY <1>2, <1>3 DEF Eligible, Untagged
    <2>2. i \in Numeric(eq)
      BY <2>1 DEF Numeric
    <2>. QED  BY <2>1, <2>2 DEF Shown
  <1>5. MapAll(eq) = SensorMapper(eq)
    BY <1>1, <1>2, <1>4, SensorsAlone
  <1>6. 1 \in DOMAIN MapAll(eq) /\ \E i \in Ids(eq) : MapAll(eq)[1] = SensorOf(eq, i)
    BY <1>1, <1>2, <1>4, <1>5, SensorAnswers
  <1>7. 1 \in DOMAIN evaluation.decisions
    BY <1>3, <1>6 DEF Decisions
  <1>. DEFINE d == evaluation.decisions[1]
              x == MapAll(eq)[1]
              c == Candidate(x)
  <1>8. /\ x \in AnyMade(eq) /\ d.entity = RetypedFirst(c, saved, Silent(eq))
        /\ d.publish = (d.reason \in Published)
        /\ d.reason = DecisionReason(d.entity, policy,
                        EntityOverride(d.entity, Merged(saved, Silent(eq)), savedPolicy))
    BY <1>7, DecisionIs
  <1>9. /\ c.type = "sensor" /\ c.native = "sensor" /\ c.conf = "sure" /\ c.caps = {"state"}
        /\ c.ids = CoveredIds(x)
    <2>1. x.type = "sensor" /\ x.native = "sensor" /\ x.conf = "sure" /\ x.caps = {"state"}
      BY <1>6, SensorFields
    <2>. HIDE DEF x
    <2>2. c.type = x.type /\ c.native = x.native /\ c.conf = x.conf /\ c.caps = x.caps
          /\ c.ids = CoveredIds(x)
      BY DEF Candidate
    <2>. QED  BY <2>1, <2>2
  <1>10. \A n \in DOMAIN c.ids : c.ids[n] \in Ids(eq)
    <2>1. CoveredIds(x) \in Seq(Ids(eq))
      BY <1>1, <1>8, CoversItsCommands
    <2>. HIDE DEF c, x
    <2>2. c.ids \in Seq(Ids(eq))
      BY <1>9, <2>1
    <2>. QED  BY <2>2, LenProperties, ElementOfSeq
  <1>. HIDE DEF c, d, x
  <1>11. d.entity = c /\ EntityOverride(c, Merged(saved, Silent(eq)), savedPolicy) = ""
    BY <1>8, <1>10, SilentKeeps
  <1>12. d.reason = "nominal"
    <2>1. DecisionReason(c, policy, "") = "nominal"
      BY <1>9, SensorIsNominal
    <2>2. d.reason = DecisionReason(c, policy,
                       EntityOverride(c, Merged(saved, Silent(eq)), savedPolicy))
      BY <1>8, <1>11
    <2>. QED  BY <1>11, <2>1, <2>2
  <1>13. d.publish = TRUE
    BY <1>8, <1>12 DEF Published
  <1>14. d.entity \in PublishedEntities
    BY <1>7, <1>13 DEF PublishedEntities, Up, d
  <1>. QED  BY <1>9, <1>11, <1>14

\* An equipment that is eligible without any tag has a sensor, which is published unless an
\* override speaks (sensor.py:58-62, topology.py:388-418).
THEOREM ExemptionGivesASensor == Spec => []ExemptionPays
  <1>. QED  BY InitEvaluated, StepEvaluated, Pays, PTL DEF Spec

----------------------------------------------------------------------------
\* The preview.

\* The type of an entity is a matter of the types of the overrides.
LEMMA SameTypes ==
  ASSUME NEW c, NEW a, NEW b, DOMAIN c.ids \in SUBSET Nat,
         \A n \in DOMAIN c.ids : a[c.ids[n]].type = b[c.ids[n]].type
  PROVE  Retyping(c, a) = Retyping(c, b) /\ Retyped(c, a) = Retyped(c, b)
  <1>1. Retyping(c, a) = Retyping(c, b)
    BY DEF Retyping
  <1>2. PICK R : R = Retyping(c, a) /\ R = Retyping(c, b)
    BY <1>1
  <1>3. CASE R = {}
    BY <1>1, <1>2, <1>3 DEF Retyped
  <1>4. CASE R # {}
    <2>1. R \in SUBSET Nat /\ R \subseteq DOMAIN c.ids
      BY <1>2 DEF Retyping
    <2>2. PICK k : k = CHOOSE n \in R : \A m \in R : n <= m
      OBVIOUS
    <2>3. k \in DOMAIN c.ids
      <3>1. Min(R) \in R /\ \A y \in R : Min(R) <= y
        BY <1>4, <2>1, MinIsIn
      <3>2. k \in R
        BY <2>2, <3>1
      <3>. QED  BY <2>1, <3>2
    <2>4. ASSUME NEW o, Retyping(c, o) = R PROVE Retyped(c, o) = [c EXCEPT !.type = o[c.ids[k]].type]
      BY <1>4, <2>2, <2>4, Zenon DEF Retyped
    <2>5. a[c.ids[k]].type = b[c.ids[k]].type
      BY <2>3
    <2>. QED  BY <1>1, <1>2, <2>4, <2>5
  <1>. QED  BY <1>1, <1>3, <1>4

\* The commands of an entity of the equipment.
LEMMA IdsOfCandidate ==
  ASSUME Evaluated, NEW n \in DOMAIN MapAll(eq)
  PROVE  LET c == Candidate(MapAll(eq)[n])
         IN  DOMAIN c.ids \in SUBSET Nat /\ \A m \in DOMAIN c.ids : c.ids[m] \in Ids(eq)
  <1>. DEFINE x == MapAll(eq)[n]
  <1>1. Len(eq.cmds) \in Nat /\ MapAll(eq) \in Seq(AnyMade(eq))
    BY EqualIds DEF WellMade
  <1>2. x \in AnyMade(eq)
    BY <1>1, LenProperties, ElementOfSeq
  <1>3. CoveredIds(x) \in Seq(Ids(eq))
    BY <1>1, <1>2, CoversItsCommands
  <1>. HIDE DEF x
  <1>4. Candidate(x).ids = CoveredIds(x)
    BY DEF Candidate
  <1>5. Candidate(x).ids \in Seq(Ids(eq))
    BY <1>3, <1>4
  <1>6. DOMAIN Candidate(x).ids \in SUBSET Nat
        /\ \A m \in DOMAIN Candidate(x).ids : Candidate(x).ids[m] \in Ids(eq)
    BY <1>5, LenProperties, ElementOfSeq
  <1>. QED  BY <1>6 DEF x

\* One override proposed for a command.
Proposed(q, id, o) == [Silent(q) EXCEPT ![id] = o]

\* The only type of the overrides is that of the command, or the command has none.
TypedAlone(q, id, merged) ==
  (\A j \in Ids(q) \ {id} : merged[j].type = "") \/ merged[id].type = ""

\* A type that is proposed is chosen before those that are saved, so that it must be alone
\* for the sync to choose it as well.
LEMMA SameTyping ==
  ASSUME NEW q, NEW c, DOMAIN c.ids \in SUBSET Nat, \A m \in DOMAIN c.ids : c.ids[m] \in Ids(q),
         NEW over, DOMAIN over = Ids(q), NEW over2, DOMAIN over2 = Ids(q),
         NEW id \in Ids(q), NEW o, o # NoOverride,
         Merged(over, Proposed(q, id, o)) = Merged(over2, Silent(q)),
         TypedAlone(q, id, Merged(over2, Silent(q)))
  PROVE  RetypedFirst(c, over, Proposed(q, id, o)) = RetypedFirst(c, over2, Silent(q))
  <1>. DEFINE p == Proposed(q, id, o)
              merged == Merged(over2, Silent(q))
              first == [j \in DOMAIN over |-> IF p[j] = NoOverride THEN NoOverride ELSE merged[j]]
              none == [j \in DOMAIN over2 |-> IF Silent(q)[j] = NoOverride THEN NoOverride ELSE merged[j]]
  <1>0. /\ merged = Merged(over, Proposed(q, id, o))
        /\ (\A j \in Ids(q) \ {id} : merged[j].type = "") \/ merged[id].type = ""
    BY DEF TypedAlone
  <1>1. DOMAIN Silent(q) = Ids(q) /\ \A j \in Ids(q) : Silent(q)[j] = NoOverride
    BY DEF Silent
  <1>2. NoOverride.type = ""
    BY DEF NoOverride
  <1>3. p[id] = o /\ \A j \in Ids(q) \ {id} : p[j] = NoOverride
    BY <1>1 DEF Proposed
  <1>4. RetypedFirst(c, over, p) = Retyped(c, IF Retyping(c, first) # {} THEN first ELSE merged)
    BY <1>0, Zenon DEF RetypedFirst
  <1>5. RetypedFirst(c, over2, Silent(q)) = Retyped(c, IF Retyping(c, none) # {} THEN none ELSE merged)
    BY Zenon DEF RetypedFirst
  <1>. HIDE DEF p, merged
  <1>6. \A j \in Ids(q) : none[j].type = ""
    BY <1>1, <1>2
  <1>7. first[id] = merged[id] /\ \A j \in Ids(q) \ {id} : first[j].type = ""
    BY <1>2, <1>3
  <1>. HIDE DEF none, first
  <1>8. Retyping(c, none) = {}
    BY <1>6 DEF Retyping
  <1>9. Retyped(c, IF Retyping(c, first) # {} THEN first ELSE merged) = Retyped(c, merged)
    <2>1. CASE \A j \in Ids(q) \ {id} : merged[j].type = ""
      <3>1. \A j \in Ids(q) : first[j].type = merged[j].type
        BY <1>7, <2>1
      <3>2. \A m \in DOMAIN c.ids : first[c.ids[m]].type = merged[c.ids[m]].type
        BY <3>1
      <3>3. Retyped(c, first) = Retyped(c, merged)
        BY <3>2, SameTypes
      <3>. QED  BY <3>3
    <2>2. CASE merged[id].type = ""
      <3>1. \A j \in Ids(q) : first[j].type = ""
        BY <1>7, <2>2
      <3>2. Retyping(c, first) = {}
        BY <3>1 DEF Retyping
      <3>. QED  BY <3>2
    <2>. QED  BY <1>0, <2>1, <2>2
  <1>10. RetypedFirst(c, over2, Silent(q)) = Retyped(c, merged)
    BY <1>5, <1>8
  <1>11. RetypedFirst(c, over, p) = Retyped(c, merged)
    BY <1>4, <1>9, Zenon
  <1>. QED  BY <1>10, <1>11, Zenon DEF p

\* Overrides that merge into the same ones are evaluated alike.
LEMMA PreviewIsSync ==
  ASSUME Evaluated, NEW id \in Ids(eq), NEW o, o # NoOverride,
         NEW over2, DOMAIN over2 = Ids(eq),
         Merged(saved, Proposed(eq, id, o)) = Merged(over2, Silent(eq)),
         TypedAlone(eq, id, Merged(over2, Silent(eq)))
  PROVE  Evaluate(eq, policy, saved, savedPolicy, Proposed(eq, id, o), "") =
         Sync(eq, over2, savedPolicy)
  <1>. DEFINE p == Proposed(eq, id, o)
  <1>1. DOMAIN saved = Ids(eq)
    BY LenProperties DEF Evaluated, Ids
  <1>2. ASSUME NEW n \in DOMAIN MapAll(eq)
        PROVE  Decide(RetypedFirst(Candidate(MapAll(eq)[n]), saved, p), policy,
                      Merged(saved, p), MergedPolicy(savedPolicy, "")) =
               Decide(RetypedFirst(Candidate(MapAll(eq)[n]), over2, Silent(eq)), policy,
                      Merged(over2, Silent(eq)), MergedPolicy(savedPolicy, ""))
    <2>1. PICK c : c = Candidate(MapAll(eq)[n])
      OBVIOUS
    <2>2. DOMAIN c.ids \in SUBSET Nat /\ \A m \in DOMAIN c.ids : c.ids[m] \in Ids(eq)
      BY <2>1, IdsOfCandidate
    <2>3. RetypedFirst(c, saved, p) = RetypedFirst(c, over2, Silent(eq))
      BY <1>1, <2>2, SameTyping
    <2>. QED  BY <2>1, <2>3, Zenon
  <1>3. Decisions(MapAll(eq), policy, saved, savedPolicy, p, "") =
        Decisions(MapAll(eq), policy, over2, savedPolicy, Silent(eq), "")
    <2>. HIDE DEF p
    <2>. QED  BY <1>2, Zenon DEF Decisions
  <1>. QED  BY <1>3, Zenon DEF Evaluate, Sync

\* One override saved for a command: a field that says nothing keeps what was saved.
Saved(over, id, o) ==
  [over EXCEPT ![id] = [type   |-> IF o.type # "" THEN o.type ELSE over[id].type,
                        policy |-> IF o.policy # "" THEN o.policy ELSE over[id].policy]]

\* An override, by what it says.
Speaking(type, pol) == [type |-> type, policy |-> pol]

LEMMA Fields == \A x, y : Speaking(x, y).type = x /\ Speaking(x, y).policy = y
  BY DEF Speaking

\* The other commands have no type, or neither what is saved nor proposed has one.
Alone(q, id, over, o) ==
  \/ \A j \in Ids(q) \ {id} : over[j].type = ""
  \/ o.type = "" /\ over[id].type = ""

\* Proposing it or saving it makes the same overrides.
LEMMA SameMerge ==
  ASSUME NEW q, NEW over, DOMAIN over = Ids(q), NEW id \in Ids(q), NEW o
  PROVE  /\ Merged(over, Proposed(q, id, o)) = Merged(Saved(over, id, o), Silent(q))
         /\ DOMAIN Saved(over, id, o) = Ids(q)
         /\ Alone(q, id, over, o) => TypedAlone(q, id, Merged(Saved(over, id, o), Silent(q)))
  <1>. DEFINE p == Proposed(q, id, o)
              after == Saved(over, id, o)
              a == Merged(over, p)
              b == Merged(after, Silent(q))
              none == Silent(q)
  <1>1. DOMAIN none = Ids(q) /\ \A j \in Ids(q) : none[j] = NoOverride
    BY DEF Silent
  <1>2. NoOverride.type = "" /\ NoOverride.policy = ""
    BY DEF NoOverride
  <1>0. PICK type, pol : /\ type = IF o.type # "" THEN o.type ELSE over[id].type
                         /\ pol = IF o.policy # "" THEN o.policy ELSE over[id].policy
    OBVIOUS
  <1>3. p[id] = o /\ \A j \in Ids(q) \ {id} : p[j] = NoOverride
    BY <1>1 DEF Proposed
  <1>4. /\ DOMAIN after = Ids(q) /\ \A j \in Ids(q) \ {id} : after[j] = over[j]
        /\ after[id] = Speaking(type, pol)
    BY <1>0, <1>2 DEF Saved, Speaking
  <1>. HIDE DEF p, after, none
  <1>5. a = [j \in Ids(q) |-> [type   |-> IF p[j].type # "" THEN p[j].type ELSE over[j].type,
                               policy |-> IF p[j].policy # "" THEN p[j].policy ELSE over[j].policy]]
    BY DEF Merged
  <1>6. b = [j \in Ids(q) |-> [type   |-> IF none[j].type # "" THEN none[j].type ELSE after[j].type,
                               policy |-> IF none[j].policy # "" THEN none[j].policy ELSE after[j].policy]]
    BY <1>4 DEF Merged, none
  <1>. HIDE DEF a, b
  <1>7. \A j \in Ids(q) : none[j].type = "" /\ none[j].policy = ""
    BY <1>1, <1>2
  <1>8. \A j \in Ids(q) : b[j] = Speaking(after[j].type, after[j].policy)
    BY <1>6, <1>7 DEF Speaking
  <1>9. \A j \in Ids(q) \ {id} : a[j] = Speaking(over[j].type, over[j].policy)
    <2>1. \A j \in Ids(q) \ {id} : p[j].type = "" /\ p[j].policy = ""
      BY <1>2, <1>3
    <2>. QED  BY <1>5, <2>1 DEF Speaking
  <1>10. a[id] = Speaking(type, pol)
    <2>1. p[id] = o
      BY <1>3
    <2>. QED  BY <1>0, <1>5, <2>1 DEF Speaking
  <1>11. after[id].type = type /\ after[id].policy = pol
    BY <1>4, Fields
  <1>12. \A j \in Ids(q) : a[j] = b[j]
    <2>1. a[id] = b[id]
      BY <1>8, <1>10, <1>11
    <2>2. \A j \in Ids(q) \ {id} : a[j] = b[j]
      BY <1>4, <1>8, <1>9
    <2>. QED  BY <2>1, <2>2
  <1>13. a = b
    <2>1. a = [j \in Ids(q) |-> a[j]] /\ b = [j \in Ids(q) |-> b[j]]
      BY <1>5, <1>6
    <2>. QED  BY <1>12, <2>1
  <1>14. \A j \in Ids(q) \ {id} : b[j].type = over[j].type
    <2>. SUFFICES ASSUME NEW j \in Ids(q) \ {id} PROVE b[j].type = over[j].type
      OBVIOUS
    <2>1. b[j] = Speaking(after[j].type, after[j].policy) /\ after[j] = over[j]
      BY <1>4, <1>8
    <2>2. b[j].type = after[j].type
      BY <2>1, Fields
    <2>. QED  BY <2>1, <2>2
  <1>15. b[id].type = type
    <2>1. b[id] = Speaking(after[id].type, after[id].policy)
      BY <1>8
    <2>2. b[id].type = after[id].type
      BY <2>1, Fields
    <2>. QED  BY <1>11, <2>2
  <1>16. Alone(q, id, over, o) => TypedAlone(q, id, b)
    BY <1>0, <1>14, <1>15 DEF Alone, TypedAlone
  <1>. QED  BY <1>4, <1>13, <1>16 DEF a, b, p, after

LEMMA PreviewedAsSaved ==
  ASSUME Evaluated, NEW id \in Ids(eq), NEW o, o # NoOverride,
         Alone(eq, id, saved, o)
  PROVE  Evaluate(eq, policy, saved, savedPolicy, [Silent(eq) EXCEPT ![id] = o], "") =
         Sync(eq, Saved(saved, id, o), savedPolicy)
  <1>1. DOMAIN saved = Ids(eq)
    BY LenProperties DEF Evaluated, Ids
  <1>2. PICK over2 : over2 = Saved(saved, id, o)
    OBVIOUS
  <1>4. /\ Merged(saved, Proposed(eq, id, o)) = Merged(Saved(saved, id, o), Silent(eq))
        /\ DOMAIN Saved(saved, id, o) = Ids(eq)
        /\ TypedAlone(eq, id, Merged(Saved(saved, id, o), Silent(eq)))
    BY <1>1, SameMerge
  <1>6. Evaluate(eq, policy, saved, savedPolicy, Proposed(eq, id, o), "") =
        Sync(eq, over2, savedPolicy)
    BY <1>2, <1>4, PreviewIsSync
  <1>. QED  BY <1>2, <1>6, Zenon DEF Proposed

LEMMA WithField ==
  ASSUME NEW s \in Override
  PROVE  /\ \A t \in OverrideType : [s EXCEPT !.type = t] = Speaking(t, s.policy)
         /\ \A p \in OverridePolicy : [s EXCEPT !.policy = p] = Speaking(s.type, p)
  <1>1. ASSUME NEW t \in OverrideType PROVE [s EXCEPT !.type = t] = Speaking(t, s.policy)
    <2>1. PICK f : f = [s EXCEPT !.type = t]
      OBVIOUS
    <2>2. f \in Override /\ f.type = t /\ f.policy = s.policy
      BY <2>1 DEF Override
    <2>3. f = [type |-> f.type, policy |-> f.policy]
      BY <2>2 DEF Override
    <2>. QED  BY <2>1, <2>2, <2>3 DEF Speaking
  <1>2. ASSUME NEW p \in OverridePolicy PROVE [s EXCEPT !.policy = p] = Speaking(s.type, p)
    <2>1. PICK f : f = [s EXCEPT !.policy = p]
      OBVIOUS
    <2>2. f \in Override /\ f.type = s.type /\ f.policy = p
      BY <2>1 DEF Override
    <2>3. f = [type |-> f.type, policy |-> f.policy]
      BY <2>2 DEF Override
    <2>. QED  BY <2>1, <2>2, <2>3 DEF Speaking
  <1>. QED  BY <1>1, <1>2

\* A choice of the interface is a type or a policy, never both.
LEMMA Previews == Evaluated => PreviewHonest
  <1>. SUFFICES ASSUME Evaluated, Tunable, NEW id \in Ids(eq)
                PROVE  /\ (\A j \in Ids(eq) \ {id} : saved[j].type = "") \/ saved[id].type = "" =>
                            \A p \in {"exclude", "force_publish"} :
                              Evaluate(eq, policy, saved, savedPolicy,
                                [Silent(eq) EXCEPT ![id] = [NoOverride EXCEPT !.policy = p]], "") =
                              Sync(eq, [saved EXCEPT ![id] = [saved[id] EXCEPT !.policy = p]],
                                   savedPolicy)
                       /\ (\A j \in Ids(eq) \ {id} : saved[j].type = "") =>
                            \A t \in OverrideType :
                              Evaluate(eq, policy, saved, savedPolicy,
                                [Silent(eq) EXCEPT ![id] = [NoOverride EXCEPT !.type = t]], "") =
                              Sync(eq, [saved EXCEPT ![id] = [saved[id] EXCEPT !.type = t]],
                                   savedPolicy)
    BY Zenon DEF PreviewHonest
  <1>1. saved[id] \in Override
    BY LenProperties, ElementOfSeq DEF Evaluated, Ids
  <1>2. /\ NoOverride = Speaking("", "") /\ NoOverride \in Override
        /\ NoOverride.type = "" /\ NoOverride.policy = ""
    BY DEF NoOverride, Speaking, Override, OverridePolicy
  <1>3. ASSUME (\A j \in Ids(eq) \ {id} : saved[j].type = "") \/ saved[id].type = "",
               NEW p \in {"exclude", "force_publish"}
        PROVE  Evaluate(eq, policy, saved, savedPolicy,
                 [Silent(eq) EXCEPT ![id] = [NoOverride EXCEPT !.policy = p]], "") =
               Sync(eq, [saved EXCEPT ![id] = [saved[id] EXCEPT !.policy = p]], savedPolicy)
    <2>1. PICK o : o = Speaking("", p)
      OBVIOUS
    <2>2. o = [NoOverride EXCEPT !.policy = p]
      BY <1>2, <2>1, WithField DEF OverridePolicy
    <2>3. o # NoOverride /\ o.type = "" /\ o.policy = p
      <3>1. Speaking("", p).type = "" /\ Speaking("", p).policy = p
        BY Fields
      <3>. QED  BY <1>2, <2>1, <3>1
    <2>4. Saved(saved, id, o) = [saved EXCEPT ![id] = [saved[id] EXCEPT !.policy = p]]
      <3>1. [saved[id] EXCEPT !.policy = p] = Speaking(saved[id].type, p)
        BY <1>1, WithField DEF OverridePolicy
      <3>2. Saved(saved, id, o) = [saved EXCEPT ![id] = Speaking(saved[id].type, p)]
        BY <2>3 DEF Saved, Speaking
      <3>. QED  BY <3>1, <3>2, Zenon
    <2>5. Alone(eq, id, saved, o)
      BY <1>3, <2>3 DEF Alone
    <2>6. Evaluate(eq, policy, saved, savedPolicy, [Silent(eq) EXCEPT ![id] = o], "") =
          Sync(eq, Saved(saved, id, o), savedPolicy)
      BY <2>3, <2>5, PreviewedAsSaved
    <2>. QED  BY <2>2, <2>4, <2>6, Zenon
  <1>4. ASSUME \A j \in Ids(eq) \ {id} : saved[j].type = "", NEW t \in OverrideType
        PROVE  Evaluate(eq, policy, saved, savedPolicy,
                 [Silent(eq) EXCEPT ![id] = [NoOverride EXCEPT !.type = t]], "") =
               Sync(eq, [saved EXCEPT ![id] = [saved[id] EXCEPT !.type = t]], savedPolicy)
    <2>0. t # ""
      BY RulesAssumption, Zenon
    <2>1. PICK o : o = Speaking(t, "")
      OBVIOUS
    <2>2. o = [NoOverride EXCEPT !.type = t]
      BY <1>2, <2>1, WithField
    <2>3. o # NoOverride /\ o.type = t /\ o.policy = ""
      <3>1. Speaking(t, "").type = t /\ Speaking(t, "").policy = ""
        BY Fields
      <3>. QED  BY <1>2, <2>0, <2>1, <3>1
    <2>4. Saved(saved, id, o) = [saved EXCEPT ![id] = [saved[id] EXCEPT !.type = t]]
      <3>1. [saved[id] EXCEPT !.type = t] = Speaking(t, saved[id].policy)
        BY <1>1, WithField
      <3>2. Saved(saved, id, o) = [saved EXCEPT ![id] = Speaking(t, saved[id].policy)]
        BY <2>0, <2>3 DEF Saved, Speaking
      <3>. QED  BY <3>1, <3>2, Zenon
    <2>5. Alone(eq, id, saved, o)
      BY <1>4 DEF Alone
    <2>6. Evaluate(eq, policy, saved, savedPolicy, [Silent(eq) EXCEPT ![id] = o], "") =
          Sync(eq, Saved(saved, id, o), savedPolicy)
      BY <2>3, <2>5, PreviewedAsSaved
    <2>. QED  BY <2>2, <2>4, <2>6, Zenon
  <1>. QED  BY <1>3, <1>4

\* The preview of a type or of a policy tells what the sync decides once it is saved, on
\* any equipment, unless two of its commands have types (evaluate_equipment.py:140-216).
THEOREM PreviewIsHonest == Spec => []PreviewHonest
  <1>. QED  BY InitEvaluated, StepEvaluated, Previews, PTL DEF Spec
=============================================================================
