------------------------------ MODULE Mappers ------------------------------
(***************************************************************************)
(* What Home Assistant entities an equipment of Jeedom becomes             *)
(* (mapping/*.py).  Each mapper reads the commands of the equipment in     *)
(* their order; the registry asks the mappers in a fixed order, or puts    *)
(* the entities of several of them together.                               *)
(*                                                                         *)
(* A command is [gt, info, sub, name, unit]: its generic type ("" when it  *)
(* has none), whether it is an info or an action, its subtype, the key its *)
(* name gives to a group (its name without a final on or off) and the      *)
(* measure its unit reliably names; its id is its position.  An equipment  *)
(* is [cmds, generic, keywords, solar]: its own generic type, the mappers  *)
(* its name warns, and whether it is a solar router.  An entity keeps the  *)
(* ordered dictionary of its commands, the id that names it (0 when the    *)
(* equipment does) and what it can do.                                     *)
(***************************************************************************)
EXTENDS Integers, Sequences, FiniteSets, SequencesExt, FiniteSetsExt

----------------------------------------------------------------------------
\* Commands and ordered dictionaries of commands

Ids(eq) == 1 .. Len(eq.cmds)
Tagged(eq, T) == {i \in Ids(eq) : eq.cmds[i].gt \in T}
Infos(eq, T) == {i \in Tagged(eq, T) : eq.cmds[i].info}
Actions(eq, T) == Tagged(eq, T) \ Infos(eq, T)
Bears(eq, T) == Tagged(eq, T) # {}
NumericInfo(c) == c.info /\ c.sub = "numeric"
BinaryInfo(c) == c.info /\ c.sub = "binary"
Inc(S) == [n \in 1 .. Cardinality(S) |->
            CHOOSE i \in S : Cardinality({j \in S : j < i}) = n - 1]

\* A dictionary has one entry per generic type of P, in the order of the first
\* command of each, and keeps the one Pick chooses.
Like(eq, P, i) == {j \in P : eq.cmds[j].gt = eq.cmds[i].gt}
Entry(eq, i, id) == [key |-> eq.cmds[i].gt, id |-> id]
Mapped(ids, F(_)) == [n \in DOMAIN ids |-> F(ids[n])]
\* The elements that pass a test, in their order.
Where(s, Test(_)) == Mapped(Inc({n \in DOMAIN s : Test(s[n])}), LAMBDA n : s[n])
Entries(eq, P, Pick(_)) ==
  Mapped(Inc({i \in P : i = Min(Like(eq, P, i))}),
         LAMBDA i : Entry(eq, i, Pick(Like(eq, P, i))))
LastWins(eq, P) == Entries(eq, P, Max)
Just(eq, ids) == Mapped(ids, LAMBDA i : Entry(eq, i, i))
Keys(d) == {d[n].key : n \in DOMAIN d}
IdOf(d, k) == d[CHOOSE n \in DOMAIN d : d[n].key = k].id

Entity(type, conf, dict, caps) ==
  [type |-> type, native |-> type, conf |-> conf, scope |-> 0,
   dict |-> dict, caps |-> caps, measure |-> "", mode |-> "none"]
\* An entity of a command: its identity and its topics carry the id.
CommandEntity(type, conf, i, measure) ==
  [Entity(type, conf, <<[key |-> "own", id |-> i]>>, {"state"})
     EXCEPT !.scope = i, !.measure = measure]

Order == <<"sure", "probable", "ambiguous">>
Worst(confs) == Order[Max({CHOOSE n \in 1 .. 3 : Order[n] = c : c \in confs})]

----------------------------------------------------------------------------
\* Generic types

LightTypes == {"LIGHT_STATE", "LIGHT_ON", "LIGHT_OFF", "LIGHT_BRIGHTNESS",
               "LIGHT_SLIDER", "LIGHT_SET_COLOR", "LIGHT_COLOR", "LIGHT_COLOR_TEMP"}
ColorTypes == {"LIGHT_SET_COLOR", "LIGHT_COLOR", "LIGHT_COLOR_TEMP"}
PlainLight == LightTypes \ ColorTypes
BsoTypes == {"FLAP_BSO_STATE", "FLAP_BSO_UP", "FLAP_BSO_DOWN"}
ShutterTypes == {"FLAP_STATE", "FLAP_UP", "FLAP_DOWN", "FLAP_STOP", "FLAP_SLIDER"}
FlapTypes == ShutterTypes \cup BsoTypes
EnergyTypes == {"ENERGY_STATE", "ENERGY_ON", "ENERGY_OFF"}
SwitchTypes == EnergyTypes \cup {"SWITCH_STATE", "SWITCH_ON", "SWITCH_OFF"}
OwnedTypes == SwitchTypes \cup {"FAN_STATE", "FAN_ON", "FAN_OFF"}
HeatTypes == {"HEATING_STATE", "HEATING_ON", "HEATING_OFF", "THERMOSTAT_STATE",
              "THERMOSTAT_MODE", "THERMOSTAT_SETPOINT"}
SafetyTypes == {"SIREN_STATE", "SIREN_ON", "SIREN_OFF",
                "LOCK_STATE", "LOCK_OPEN", "LOCK_CLOSE"}
AntiLight == HeatTypes \cup SafetyTypes \cup ShutterTypes \cup EnergyTypes \cup
  {"HEATING_OTHER", "WATER_HEATER_STATE", "WATER_HEATER_ON", "WATER_HEATER_OFF",
   "SMOKE", "MOTION", "PRESENCE", "OPENING", "OPENING_WINDOW", "OPENING_DOOR",
   "ALARM_STATE", "ALARM_ENABLE", "ALARM_DISABLE"}
AntiCover == HeatTypes \cup SafetyTypes \cup PlainLight \cup EnergyTypes
AntiSwitch == HeatTypes \cup SafetyTypes \cup PlainLight \cup FlapTypes
PowerTypes == {"POWER", "ENERGY_POWER"}
SensorTypes == PowerTypes \cup
  {"TEMPERATURE", "HUMIDITY", "CONSUMPTION", "VOLTAGE", "AIR_QUALITY", "BRIGHTNESS",
   "UV", "CO2", "CO", "NOISE", "PRESSURE", "DEPTH", "DISTANCE", "BATTERY", "VOLUME",
   "WEATHER_TEMPERATURE", "WEATHER_HUMIDITY", "WEATHER_PRESSURE", "WIND_SPEED",
   "WEATHER_WIND_SPEED", "RAIN_TOTAL", "RAIN_CURRENT", "THERMOSTAT_TEMPERATURE",
   "THERMOSTAT_SETPOINT", "THERMOSTAT_HUMIDITY", "THERMOSTAT_TEMPERATURE_OUTDOOR",
   "FAN_SPEED_STATE", "ROTATION_STATE"}
BinaryTypes ==
  {"BATTERY_CHARGING", "CAMERA_RECORD_STATE", "HEATING_STATE", "PRESENCE", "SMOKE",
   "FILTER_CLEAN_STATE", "WATER_LEAK", "LOCK_STATE", "BARRIER_STATE", "GARAGE_STATE",
   "OPENING", "OPENING_WINDOW", "DOCK_STATE", "SIREN_STATE", "ALARM_STATE",
   "ALARM_ENABLE_STATE", "FLOOD", "SABOTAGE", "SHOCK", "THERMOSTAT_LOCK",
   "THERMOSTAT_STATE", "MEDIA_STATE", "TIMER_STATE", "SWITCH_STATE"}
----------------------------------------------------------------------------
\* Lights and covers: two commands of one type are told apart by their subtype

\* The subtype that wins for a type, where one does.
LightPreference == [t \in {"LIGHT_STATE", "LIGHT_BRIGHTNESS"} |->
                      IF t = "LIGHT_STATE" THEN "binary" ELSE "numeric"]
CoverPreference == [t \in {"FLAP_STATE"} |-> "binary"]

Keeper(eq, S, pref) ==
  LET liked == {i \in S : /\ eq.cmds[i].gt \in DOMAIN pref
                          /\ eq.cmds[i].sub = pref[eq.cmds[i].gt]}
  IN  Min(IF liked = {} THEN S ELSE liked)
\* The command i repeats a type and no rule says which one to keep.
Clash(eq, i, pref) ==
  LET c       == eq.cmds[i]
      earlier == {j \in 1 .. i - 1 : eq.cmds[j].gt = c.gt}
      kept    == eq.cmds[Keeper(eq, earlier, pref)].sub
  IN  /\ earlier # {}
      /\ ~ /\ kept # c.sub
           /\ c.gt \in DOMAIN pref
           /\ pref[c.gt] \in {kept, c.sub}
\* The commands read before the first clash.
BeforeClash(S, clashes) == IF clashes = {} THEN S ELSE {i \in S : i < Min(clashes)}
Collected(dict, read, clash) ==
  [dict |-> dict, clash |-> clash, merged |-> Len(dict) < Cardinality(read)]
CollectFrom(eq, T, pref, clashes) ==
  LET read == BeforeClash(Tagged(eq, T), clashes)
  IN  Collected(Entries(eq, read, LAMBDA S : Keeper(eq, S, pref)), read, clashes # {})
Collect(eq, T, pref) ==
  CollectFrom(eq, T, pref, {i \in Tagged(eq, T) : Clash(eq, i, pref)})

OnOff(k) ==
  LET ordered == k \cap {"LIGHT_ON", "LIGHT_OFF"}
  IN  IF "LIGHT_STATE" \in k /\ ordered # {}
      THEN IF Cardinality(ordered) = 2 THEN "sure" ELSE "probable"
      ELSE IF "LIGHT_SLIDER" \in k /\ ordered = {} THEN "sure" ELSE "no"
Brightness(k, numericState) ==
  IF "LIGHT_SLIDER" \in k
  THEN IF "LIGHT_BRIGHTNESS" \in k THEN "sure" ELSE "probable"
  ELSE IF numericState THEN "probable" ELSE "no"

\* The entity of the detected capabilities, as sure as the least sure of them.
Graded(type, col, grades, extra, warned) ==
  LET caps  == {c \in DOMAIN grades : grades[c] # "no"}
      confs == {grades[c] : c \in caps} \cup (IF col.merged THEN {"probable"} ELSE {})
  IN  IF caps = {} THEN Entity(type, "ambiguous", col.dict, {})
      ELSE Entity(type, IF warned THEN "ambiguous" ELSE Worst(confs),
                  col.dict, caps \cup extra)

NumericEntry(eq, d, k) == k \in Keys(d) /\ eq.cmds[IdOf(d, k)].sub = "numeric"

LightOf(eq, col) ==
  LET k     == Keys(col.dict)
      vague == <<Entity("light", "ambiguous", col.dict, {})>>
  IN  IF col.clash THEN vague
      ELSE IF k = {} \/ eq.generic \notin {"", "light"} THEN <<>>
      ELSE IF Bears(eq, AntiLight) \/ k \subseteq ColorTypes THEN vague
      ELSE <<Graded("light", col,
               [onOff      |-> OnOff(k),
                brightness |-> Brightness(k, NumericEntry(eq, col.dict, "LIGHT_STATE"))],
               {}, "light" \in eq.keywords)>>
LightMapper(eq) == LightOf(eq, Collect(eq, LightTypes, LightPreference))

OpenClose(k) ==
  IF {"FLAP_UP", "FLAP_DOWN"} \subseteq k
  THEN IF "FLAP_STATE" \in k THEN "sure" ELSE "probable"
  ELSE IF {"FLAP_BSO_UP", "FLAP_BSO_DOWN"} \subseteq k
  THEN IF "FLAP_BSO_STATE" \in k THEN "sure" ELSE "probable"
  ELSE IF "FLAP_SLIDER" \in k /\ k \cap {"FLAP_UP", "FLAP_DOWN"} = {} THEN "sure"
  ELSE "no"
Position(k, numericState) ==
  IF "FLAP_SLIDER" \notin k THEN "no" ELSE IF numericState THEN "sure" ELSE "probable"

\* A gate or a garage: one numeric state and the orders to reach its ends.
Barrier(eq) ==
  LET actions == Actions(eq, {"GB_OPEN", "GB_CLOSE", "GB_TOGGLE"})
      states  == Infos(eq, {"BARRIER_STATE", "GARAGE_STATE"})
      orders  == {eq.cmds[i].gt : i \in actions}
      mode    == IF "GB_TOGGLE" \in orders THEN "toggle"
                 ELSE IF {"GB_OPEN", "GB_CLOSE"} \subseteq orders THEN "direct" ELSE "none"
  IN  IF /\ Cardinality(orders) = Cardinality(actions)
         /\ Cardinality(states) = 1 /\ \A i \in states : eq.cmds[i].sub = "numeric"
         /\ mode # "none"
      THEN <<[Entity("cover", "sure", Just(eq, Inc(actions) \o Inc(states)), {"openClose"})
                EXCEPT !.mode = mode]>>
      ELSE <<>>

CoverOf(eq, col) ==
  LET k     == Keys(col.dict)
      vague == <<Entity("cover", "ambiguous", col.dict, {})>>
  IN  IF col.clash THEN vague
      ELSE IF k = {} THEN IF Bears(eq, AntiCover) THEN <<>> ELSE Barrier(eq)
      ELSE IF eq.generic \notin {"", "shutter", "cover", "blind", "flap"} THEN <<>>
      ELSE IF Bears(eq, AntiCover) THEN vague
      ELSE <<Graded("cover", col,
               [openClose |-> OpenClose(k),
                position  |-> Position(k, NumericEntry(eq, col.dict, "FLAP_STATE"))],
               {c \in {"stop", "bso"} : IF c = "stop" THEN "FLAP_STOP" \in k
                                        ELSE k \cap BsoTypes # {}},
               "cover" \in eq.keywords)>>
CoverMapper(eq) == CoverOf(eq, Collect(eq, FlapTypes, CoverPreference))
----------------------------------------------------------------------------
\* Switches: groups of a state, an on and an off command, else ENERGY_*

Trio(family) ==
  IF family = "FAN" THEN <<"FAN_STATE", "FAN_ON", "FAN_OFF">>
  ELSE <<"SWITCH_STATE", "SWITCH_ON", "SWITCH_OFF">>
Families == {"SWITCH", "FAN"}
Group(family, ids) == [n \in 1 .. 3 |-> [key |-> Trio(family)[n], id |-> ids[n]]]

\* The complete trios, by name first.  A family no name completes still has one
\* when it has exactly one command of each type.
SwitchGroups(eq) ==
  LET Of(f)      == Tagged(eq, Range(Trio(f)))
      Same(f, i) == {j \in Of(f) : eq.cmds[j].name = eq.cmds[i].name}
      Typed(S, t) == {j \in S : eq.cmds[j].gt = t}
      Whole(f, S) == \A t \in Range(Trio(f)) : Typed(S, t) # {}
      Latest(f, S) == Group(f, [n \in 1 .. 3 |-> Max(Typed(S, Trio(f)[n]))])
      Named(f)   == {i \in Of(f) : i = Min(Same(f, i)) /\ Whole(f, Same(f, i))}
      Lone(f)    == {i \in Of(f) : /\ Named(f) = {} /\ i = Min(Of(f))
                                   /\ \A t \in Range(Trio(f)) :
                                        Cardinality(Typed(Of(f), t)) = 1}
      family(i)  == IF eq.cmds[i].gt \in Range(Trio("FAN")) THEN "FAN" ELSE "SWITCH"
      all(P(_))  == Inc(UNION {P(f) : f \in Families})
  IN  Mapped(all(Named), LAMBDA i : Latest(family(i), Same(family(i), i))) \o
      Mapped(all(Lone), LAMBDA i : Latest(family(i), Of(family(i))))

EnergySwitchOf(eq, d) ==
  LET k      == Keys(d)
      state  == IF "ENERGY_STATE" \in k THEN {"state"} ELSE {}
  IN  IF k = {} \/ eq.generic \notin {"", "switch", "energy", "plug", "outlet", "prise"}
      THEN <<>>
      ELSE IF Bears(eq, AntiSwitch) THEN <<Entity("switch", "ambiguous", d, {})>>
      ELSE IF k = {"ENERGY_STATE"} THEN <<Entity("switch", "ambiguous", d, state)>>
      ELSE <<Entity("switch",
                    IF "switch" \in eq.keywords THEN "ambiguous"
                    ELSE IF k = EnergyTypes THEN "sure" ELSE "probable",
                    d, {"onOff"} \cup state)>>
EnergySwitch(eq) == EnergySwitchOf(eq, LastWins(eq, Tagged(eq, EnergyTypes)))

GroupSwitch(group) ==
  [Entity("switch", "probable", group, {"onOff", "state"}) EXCEPT !.scope = group[1].id]
SwitchesOf(eq, groups) ==
  IF groups = <<>> THEN EnergySwitch(eq) ELSE Mapped(groups, GroupSwitch)
SwitchMapper(eq) == SwitchesOf(eq, SwitchGroups(eq))
----------------------------------------------------------------------------
\* Sensors and binary sensors

\* The measure the type of a command names, else the one its unit names.
Measure(c) ==
  IF c.gt \in SensorTypes
  THEN IF c.gt \in PowerTypes THEN "power" ELSE IF c.gt = "CONSUMPTION" THEN "energy" ELSE ""
  ELSE c.unit
Metering(c) == NumericInfo(c) /\ Measure(c) \in {"power", "energy"}
Numeric(eq) == {i \in Ids(eq) : NumericInfo(eq.cmds[i])}

\* Mutant: the solar routers are forgotten.
MultiSensorByShape(eq) == Bears(eq, SwitchTypes) /\ Cardinality(Numeric(eq)) >= 2
MultiSensor(eq) ==
  \/ Bears(eq, SwitchTypes) /\ Cardinality(Numeric(eq)) >= 2
  \/ /\ ~Bears(eq, SwitchTypes)
     /\ Bears(eq, {"LIGHT_ON", "LIGHT_OFF", "LIGHT_SLIDER", "LIGHT_BRIGHTNESS"})
     /\ \E i \in Ids(eq) : Metering(eq.cmds[i])
     /\ eq.generic \in {"", "light"}
  \/ eq.solar
\* The state a switch of the same equipment already shows.
ConsumedBySwitch(eq, i) ==
  LET c == eq.cmds[i]
  IN  \/ /\ c.gt = "ENERGY_STATE" /\ i = Max(Tagged(eq, {"ENERGY_STATE"}))
         /\ Bears(eq, {"ENERGY_ON", "ENERGY_OFF"})
      \/ /\ c.gt = "SWITCH_STATE"
         /\ \A t \in {"SWITCH_ON", "SWITCH_OFF"} :
              \E j \in Tagged(eq, {t}) : eq.cmds[j].name = c.name

First(S) == IF S = {} THEN <<>> ELSE <<Min(S)>>
FirstOf(S, E(_)) == IF S = {} THEN <<>> ELSE <<E(Min(S))>>
EachOf(S, E(_)) == Mapped(Inc(S), E)

SensorMapper(eq) ==
  LET known   == {i \in Numeric(eq) : eq.cmds[i].gt \in SensorTypes}
      untyped == {i \in Numeric(eq) : eq.cmds[i].gt = "" /\ eq.cmds[i].unit # ""}
      own(i)  == CommandEntity("sensor", "sure", i, Measure(eq.cmds[i]))
  IN  IF MultiSensor(eq)
      THEN EachOf({i \in Numeric(eq) : ~ConsumedBySwitch(eq, i)}, own)
      ELSE IF known # {}
      THEN FirstOf(known, LAMBDA i :
             [Entity("sensor", "sure", Just(eq, <<i>>), {"state"})
                EXCEPT !.measure = Measure(eq.cmds[i])])
      ELSE FirstOf(untyped, own)

\* Mutant: a group is found by its name only.
SwitchReadbackByName(eq) ==
  {i \in Tagged(eq, {"ENERGY_STATE", "SWITCH_STATE"}) : ConsumedBySwitch(eq, i)}
\* The states the switches of the equipment show, as the binary sensors see it.
SwitchReadback(eq) ==
  LET energy == Tagged(eq, {"ENERGY_STATE"})
  IN  Range(Mapped(SwitchGroups(eq), LAMBDA group : group[1].id)) \cup
      (IF energy # {} /\ Bears(eq, {"ENERGY_ON"}) /\ Bears(eq, {"ENERGY_OFF"})
       THEN {Max(energy)} ELSE {})
MultiDomain(eq) ==
  /\ Bears(eq, OwnedTypes)
  /\ \/ \E i \in Ids(eq) : BinaryInfo(eq.cmds[i]) /\ eq.cmds[i].gt \notin OwnedTypes
     \/ Cardinality(Numeric(eq)) >= 2
     \/ Cardinality(Tagged(eq, {"SWITCH_STATE", "ENERGY_STATE", "FAN_STATE"})) >= 2

BinarySensorMapper(eq) ==
  LET binary == {i \in Ids(eq) : BinaryInfo(eq.cmds[i])}
  IN  IF MultiDomain(eq)
      THEN EachOf(binary \ SwitchReadback(eq),
                  LAMBDA i : CommandEntity("binary_sensor", "sure", i, ""))
      ELSE FirstOf({i \in binary : eq.cmds[i].gt \in BinaryTypes},
                   LAMBDA i : Entity("binary_sensor", "sure", Just(eq, <<i>>), {"state"}))
----------------------------------------------------------------------------
\* The other mappers

\* Mutant: a thermometer is enough for a thermostat.
ClimateMapperAnyway(eq) ==
  LET setpoint == Actions(eq, {"THERMOSTAT_SET_SETPOINT"})
      heat     == Infos(eq, {"THERMOSTAT_TEMPERATURE"})
  IN  <<Entity("climate", "sure", Just(eq, First(setpoint) \o First(heat)), {"setpoint"})>>
ClimateMapper(eq) ==
  LET setpoint == {i \in Actions(eq, {"THERMOSTAT_SET_SETPOINT"}) :
                     eq.cmds[i].sub \in {"", "slider"}}
      heat     == Infos(eq, {"THERMOSTAT_TEMPERATURE"})
  IN  IF setpoint = {} THEN <<>>
      ELSE <<Entity("climate", "sure", Just(eq, First(setpoint) \o First(heat)),
                    {"setpoint"})>>

AlarmMapper(eq) ==
  LET state  == {i \in Infos(eq, {"ALARM_STATE", "ALARM_ENABLE_STATE"}) :
                   eq.cmds[i].sub = "binary"}
      arm    == Actions(eq, {"ALARM_ENABLE", "ALARM_ARMED"})
      disarm == Actions(eq, {"ALARM_DISABLE", "ALARM_RELEASED"})
  IN  IF state = {} THEN <<>>
      ELSE <<Entity("alarm_control_panel", "sure",
                    Just(eq, First(state) \o First(arm) \o First(disarm)),
                    {"state"} \cup (IF arm \cup disarm = {} THEN {} ELSE {"command"}))>>

PresenceSwitchMapper(eq) ==
  LET read == {i \in Infos(eq, {"PRESENCE"}) : eq.cmds[i].sub = "binary"}
      on   == Actions(eq, {"SET_ON"})
      off  == Actions(eq, {"SET_OFF"})
  IN  IF {} \in {read, on, off} THEN <<>>
      ELSE <<Entity("switch", "sure", Just(eq, <<Max(read), Max(on), Max(off)>>),
                    {"onOff", "state"})>>

Button(eq, conf, i) ==
  Entity("button", conf, Just(eq, <<i>>), {"onOff"})
ButtonMapper(eq) ==
  FirstOf({i \in Ids(eq) : /\ ~eq.cmds[i].info /\ eq.cmds[i].gt # ""
                           /\ eq.cmds[i].sub = "other"},
          LAMBDA i : Button(eq, "sure", i))

FallbackMapper(eq) ==
  LET infos == {i \in Ids(eq) : eq.cmds[i].info}
  IN  IF infos # {}
      THEN <<Entity("sensor", "ambiguous", Just(eq, <<Min(infos)>>), {"state"})>>
      ELSE FirstOf(Ids(eq), LAMBDA i : Button(eq, "ambiguous", i))
----------------------------------------------------------------------------
\* The registry

Metered(entities) == \E n \in DOMAIN entities : entities[n].measure \in {"power", "energy"}

\* The light or the switches, then the sensors, then the binary sensors.
Primary(eq, switches, sensors) ==
  IF switches # <<>> THEN switches
  ELSE IF Metered(sensors)
  THEN Where(LightMapper(eq), LAMBDA e : e.conf \in {"sure", "probable"})
  ELSE <<>>
Together(primary, sensors, binaries) ==
  IF /\ primary # <<>>
     /\ \/ Len(primary) > 1
        \/ Len(sensors) + Len(binaries) > 1
        \/ Metered(sensors)
  THEN primary \o sensors \o binaries
  ELSE <<>>
StructuralEntities(eq) ==
  LET sensors == SensorMapper(eq)
  IN  Together(Primary(eq, SwitchMapper(eq), sensors), sensors, BinarySensorMapper(eq))

\* The first mapper with an answer.  The first entity is the principal one.
FirstAnswer(answers) ==
  LET given == Where(answers, LAMBDA r : r # <<>>)
  IN  IF given = <<>> THEN <<>> ELSE Head(given)
Richest(structural, single) == IF Len(structural) > 1 THEN structural ELSE single
MapAll(eq) ==
  Richest(StructuralEntities(eq),
          FirstAnswer(<<LightMapper(eq), CoverMapper(eq), SwitchMapper(eq),
                        ClimateMapper(eq), AlarmMapper(eq), PresenceSwitchMapper(eq),
                        BinarySensorMapper(eq), SensorMapper(eq), ButtonMapper(eq),
                        FallbackMapper(eq)>>))
=============================================================================
