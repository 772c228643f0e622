------------------------------ MODULE Channels ------------------------------
(***************************************************************************)
(* The MQTT topics of a published entity: those its discovery              *)
(* configuration declares (discovery/publisher.py), those its states are   *)
(* streamed to (sync/state.py, sync/readback.py) and those its orders are  *)
(* accepted on, with the command of Jeedom each order runs                 *)
(* (sync/command.py).  A topic is <<the id in its path or 0, its end>>.    *)
(***************************************************************************)
EXTENDS Evaluation

\* The topics the mapper put in the entity: those of a command, or of an alarm.
OwnState(e) ==
  CASE e.scope # 0 -> {<<e.scope, "state">>}
    [] e.scope = 0 /\ e.native = "alarm_control_panel" -> {<<0, "alarm/state">>}
    [] OTHER -> {}
OwnCommand(e) ==
  CASE e.native = "switch" /\ e.scope # 0 -> {<<e.scope, "set">>}
    [] e.native = "button" -> {<<0, "cmd">>}
    [] e.native = "alarm_control_panel" -> {<<0, "alarm/set">>}
    [] OTHER -> {}
OrElse(own, topic) == IF own = {} THEN topic ELSE CHOOSE t \in own : TRUE

----------------------------------------------------------------------------
\* Which info command feeds which channel (sync/readback.py)

StateKeys(type) ==
  CASE type = "switch" -> <<"ENERGY_STATE", "SWITCH_STATE", "PRESENCE">>
    [] type = "light" -> <<"LIGHT_STATE">>
    [] type = "cover" -> <<"FLAP_STATE", "FLAP_BSO_STATE">>
    [] OTHER -> <<>>
Actionable == {"switch", "light", "cover"}

InfoOf(eq, e, keys) ==
  LET k == Where(keys, LAMBDA t : t \in Keys(e.dict) /\ eq.cmds[IdOf(e.dict, t)].info)
  IN  IF k = <<>> THEN {} ELSE {IdOf(e.dict, Head(k))}
NumericOnly(eq, S) == {i \in S : eq.cmds[i].sub = "numeric"}

StateCommand(eq, e) ==
  LET state == InfoOf(eq, e, StateKeys(e.type))
  IN  IF state = {} /\ e.type = "cover"
      THEN NumericOnly(eq, InfoOf(eq, e, <<"BARRIER_STATE", "GARAGE_STATE">>))
      ELSE state
BrightnessCommand(eq, e) ==
  LET own == InfoOf(eq, e, <<"LIGHT_BRIGHTNESS">>)
  IN  IF e.type # "light" \/ "brightness" \notin e.caps THEN {}
      ELSE IF own # {} THEN own ELSE NumericOnly(eq, StateCommand(eq, e))
PositionCommand(eq, e) ==
  IF e.type # "cover" \/ "position" \notin e.caps THEN {}
  ELSE NumericOnly(eq, InfoOf(eq, e, <<"FLAP_STATE">>))
ReadbackCommands(eq, e) ==
  [channel : {"state"}, id : StateCommand(eq, e)]
    \cup [channel : {"brightness"}, id : BrightnessCommand(eq, e)]
    \cup [channel : {"position"}, id : PositionCommand(eq, e)]
Reliable(eq, e, channel) == \E r \in ReadbackCommands(eq, e) : r.channel = channel

----------------------------------------------------------------------------
\* What is streamed (sync/state.py)

Streamed == Actionable \cup {"sensor", "binary_sensor"}

\* The one command that feeds an entity of a command, a sensor or a binary sensor.
SingleFeed(eq, e) ==
  LET infos == {n \in DOMAIN e.dict : eq.cmds[e.dict[n].id].info}
  IN  IF e.scope # 0 THEN {e.scope}
      ELSE IF infos = {} THEN {Head(e.dict).id} ELSE {e.dict[Min(infos)].id}
StreamTopic(e, channel) ==
  LET state == OrElse(OwnState(e), <<0, "state">>)
  IN  IF channel = "state" THEN state ELSE <<state[1], channel>>
Bindings(eq, e) ==
  IF e.type \notin Streamed THEN {}
  ELSE IF e.type \in Actionable /\ e.scope = 0
  THEN {[id |-> r.id, topic |-> StreamTopic(e, r.channel)] : r \in ReadbackCommands(eq, e)}
  ELSE [id : SingleFeed(eq, e), topic : {StreamTopic(e, "state")}]

----------------------------------------------------------------------------
\* What Home Assistant is told (discovery/publisher.py)

\* Mutant: the brightness makes the whole light reliable.
OptimisticWithoutFeed(eq, e) ==
  e.type \in {"light", "cover"} /\ ReadbackCommands(eq, e) = {}
Optimistic(eq, e) == e.type \in {"light", "cover"} /\ ~Reliable(eq, e, "state")

\* The state topics of the configuration, by channel.
DeclaredStates(eq, e) ==
  CASE e.type \in {"light", "cover"} ->
         [channel : {"state"}, topic : {<<0, "state">>}]
           \cup [channel : {c \in {"brightness"} : e.type = "light" /\ Reliable(eq, e, c)},
                 topic : {<<0, "brightness">>}]
           \cup [channel : {c \in {"position"} : e.type = "cover" /\ c \in e.caps},
                 topic : {<<0, "position">>}]
    [] e.type \in {"switch", "sensor", "binary_sensor"} ->
         [channel : {"state"}, topic : {OrElse(OwnState(e), <<0, "state">>)}]
    [] e.type = "alarm_control_panel" -> {[channel |-> "state", topic |-> <<0, "alarm/state">>]}
    [] e.type = "climate" -> {[channel |-> "state", topic |-> <<0, "temperature/state">>]}
    [] OTHER -> {}

DeclaredCommands(e) ==
  CASE e.type = "light" ->
         {<<0, "set">>} \cup (IF "brightness" \in e.caps THEN {<<0, "brightness/set">>} ELSE {})
    [] e.type = "cover" ->
         {<<0, "set">>} \cup (IF "position" \in e.caps THEN {<<0, "position/set">>} ELSE {})
    [] e.type = "switch" -> {OrElse(OwnCommand(e), <<0, "set">>)}
    [] e.type = "button" -> {OrElse(OwnCommand(e), <<0, "cmd">>)}
    [] e.type = "climate" -> {<<0, "temperature/set">>}
    [] e.type = "alarm_control_panel" -> {<<0, "alarm/set">>}
    [] OTHER -> {}

----------------------------------------------------------------------------
\* Which command an order runs (sync/command.py)

\* Mutant: orders are only expected on the topics of the equipment.
ExpectedOfEquipment(e) == IF e.type \in Actionable THEN {<<0, "set">>} ELSE {}
\* The topics an entity accepts orders on, and those the daemon can read.
ExpectedCommands(e) ==
  IF e.type \notin Actionable THEN {}
  ELSE {OrElse(OwnCommand(e), <<0, "set">>)} \cup
       {t \in {<<0, "brightness/set">>} : e.type = "light" /\ "brightness" \in e.caps} \cup
       {t \in {<<0, "position/set">>} : e.type = "cover" /\ "position" \in e.caps}
Parsed(topic) ==
  \/ topic[2] = "set"
  \/ topic[1] = 0 /\ topic[2] \in {"brightness/set", "position/set"}

\* The entity an order is routed to: the first published one that expects its topic.  The
\* decisions are taken as published on a connected broker; that an entity whose publication
\* failed is passed over (active_or_alive), and that one that is locally offline refuses the
\* order (entity_unavailable, command.py:306-313), is left out.
Routed(decisions, topic) ==
  LET takers == {n \in DOMAIN decisions : /\ Parsed(topic) /\ decisions[n].publish
                                          /\ topic \in ExpectedCommands(decisions[n].entity)}
  IN  IF takers = {} THEN {} ELSE {decisions[Min(takers)].entity}

\* The keys of the commands that may run the order, the first present one does.
OrderKeys(e, topic, payload) ==
  CASE topic[2] = "brightness/set" -> <<"LIGHT_SLIDER">>
    [] topic[2] = "position/set" -> <<"FLAP_SLIDER">>
    [] topic[2] = "set" /\ e.type \in {"light", "switch"} ->
         (CASE payload = "ON" ->
                <<"LIGHT_ON", "ENERGY_ON", "SWITCH_ON", "FAN_ON", "SET_ON">>
            [] payload = "OFF" ->
                <<"LIGHT_OFF", "ENERGY_OFF", "SWITCH_OFF", "FAN_OFF", "SET_OFF">>
            [] OTHER -> <<>>)
    [] topic[2] = "set" /\ e.type = "cover" /\ e.mode = "toggle" ->
         IF payload \in {"OPEN", "CLOSE"} THEN <<"GB_TOGGLE">> ELSE <<>>
    [] topic[2] = "set" /\ e.type = "cover" /\ e.mode # "toggle" ->
         (CASE payload = "OPEN" -> IF e.mode = "direct" THEN <<"GB_OPEN">> ELSE <<"FLAP_UP">>
            [] payload = "CLOSE" ->
                IF e.mode = "direct" THEN <<"GB_CLOSE">> ELSE <<"FLAP_DOWN">>
            [] payload = "STOP" /\ e.mode = "none" -> <<"FLAP_STOP">>
            [] OTHER -> <<>>)
    [] OTHER -> <<>>
OrderCommand(e, topic, payload) ==
  LET present == Where(OrderKeys(e, topic, payload), LAMBDA k : k \in Keys(e.dict))
  IN  IF present = <<>> THEN {} ELSE {IdOf(e.dict, Head(present))}

\* The real state confirms an on or off order, else the daemon publishes the state
\* it asked for.
Confirmed(eq, e) == e.type \in Actionable /\ Reliable(eq, e, "state")
=============================================================================
