------------------------------ MODULE MCRules -------------------------------
(***************************************************************************)
(* Instances of Rules for TLC: one family of equipments each, with the     *)
(* commands whose order or company changes what the mappers make of them.  *)
(***************************************************************************)
EXTENDS Rules

Info(gt, sub) == [gt |-> gt, info |-> TRUE, sub |-> sub, name |-> "a", unit |-> ""]
Action(gt, sub) == [gt |-> gt, info |-> FALSE, sub |-> sub, name |-> "a", unit |-> ""]
Other(cmd) == [cmd EXCEPT !.name = "b"]
Watts == [Info("", "numeric") EXCEPT !.unit = "power"]

Plain == [cmds |-> <<>>, generic |-> "", keywords |-> {}, solar |-> FALSE,
          excluded |-> "", homekit |-> FALSE, enabled |-> TRUE]
Family(menu) == [eq |-> Plain, menu |-> menu, maxTuned |-> 2]
StartWith(cmds, s) == [s EXCEPT !.eq.cmds = cmds, !.maxTuned = Len(cmds) + 1]
Solar(s) == [s EXCEPT !.eq.solar = TRUE]
Generic(s, g) == [s EXCEPT !.eq.generic = g]
Warned(s) == [s EXCEPT !.eq.keywords = {"light", "cover", "switch"}]
InRoom(s) == [s EXCEPT !.eq.excluded = "object", !.eq.homekit = TRUE]

Lights == Family(
  {Info("LIGHT_STATE", "binary"), Info("LIGHT_STATE", "numeric"),
   Action("LIGHT_ON", "other"), Action("LIGHT_OFF", "other"),
   Action("LIGHT_SLIDER", "slider"), Info("LIGHT_BRIGHTNESS", "numeric"),
   Info("POWER", "numeric")})
Lamps == Family(
  {Info("LIGHT_STATE", "numeric"), Action("LIGHT_ON", "other"),
   Info("POWER", "numeric"), Watts})
Covers == Family(
  {Info("FLAP_STATE", "binary"), Info("FLAP_STATE", "numeric"),
   Action("FLAP_UP", "other"), Action("FLAP_DOWN", "other"),
   Action("FLAP_SLIDER", "slider"), Action("FLAP_STOP", "other"),
   Action("FLAP_BSO_UP", "other"), Action("FLAP_BSO_DOWN", "other")})
Gates == Family(
  {Action("GB_TOGGLE", "other"), Action("GB_OPEN", "other"), Action("GB_CLOSE", "other"),
   Info("BARRIER_STATE", "numeric"), Info("GARAGE_STATE", "binary"),
   Info("ENERGY_STATE", "binary")})
Plugs == Family(
  {Info("ENERGY_STATE", "binary"), Action("ENERGY_ON", "other"),
   Action("ENERGY_OFF", "other"), Info("POWER", "numeric"), Info("VOLTAGE", "numeric"),
   Info("PRESENCE", "binary")})
Groups == Family(
  {Info("SWITCH_STATE", "binary"), Action("SWITCH_ON", "other"),
   Action("SWITCH_OFF", "other"), Info("PRESENCE", "binary"),
   Other(Info("SWITCH_STATE", "binary")), Other(Action("SWITCH_ON", "other")),
   Info("POWER", "numeric")})
\* A switch group of an equipment of several domains has topics of its own.
Pool == <<Info("SWITCH_STATE", "binary"), Action("SWITCH_ON", "other"),
          Action("SWITCH_OFF", "other")>>
GroupOfFour == StartWith(Pool, Family(
  {Pool[i] : i \in 1..3} \cup {Info("PRESENCE", "binary"), Info("POWER", "numeric")}))
Fans == Family(
  {Info("FAN_STATE", "binary"), Other(Action("FAN_ON", "other")),
   Action("FAN_OFF", "other"), Info("PRESENCE", "binary"), Info("HUMIDITY", "numeric")})
Others == Family(
  {Info("PRESENCE", "binary"), Action("SET_ON", "other"), Action("SET_OFF", "other"),
   Info("ALARM_STATE", "binary"), Action("ALARM_ENABLE", "other"),
   Action("THERMOSTAT_SET_SETPOINT", "slider"), Info("THERMOSTAT_TEMPERATURE", "numeric")})
Meters == Family({Watts, Info("", "numeric"), Info("HUMIDITY", "numeric"),
                  Info("", "binary")})

AllFamilies ==
  {Lights, Covers, Gates, Plugs, Groups, Fans, Others, Meters, Solar(Meters),
   Warned(Plugs), Lamps, GroupOfFour, Generic(Lamps, "other"), InRoom(Meters)}
=============================================================================
