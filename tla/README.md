# Verification of jeedom2ha

jeedom2ha publishes the equipments of a Jeedom box in Home Assistant (HA) through an MQTT
broker. A Python daemon (`resources/daemon`, one asyncio loop plus the network thread of
paho-mqtt) does the work; PHP code in `core/` sends it the topology of Jeedom, its state
events and the clicks of the user over local HTTP requests.

This directory holds TLA+ models of the parts of the daemon whose correctness depends on
the order of events, the TLC runs that check them, and proofs checked by TLAPS.

## 1. Inventory

| Component | State | Operations | Hard behaviour |
|---|---|---|---|
| Barrier guard (`sync/command.py`, `sync/readback.py`) | `_barrier_in_flight_locks`, last event of the state command | an OPEN or CLOSE order: check of the lock, marker, fresh JSON-RPC read, send; release by an event | concurrent orders, RPC timeouts, late and reordered events, other actors on the door, restarts |
| Discovery lifecycle (`transport/http_server.py`, `discovery/*`) | `publications`, `mappings`, `pending_discovery_unpublish`, `published_scope`, `eligibility`, `boot_cache`, `action_lock` | sync, publier, supprimer, republication after a reconnection or a birth of HA | batches that sleep without a lock, broker unreachable, deferred removals, an entity that changes type |
| Publications cache (`cache/disk_cache.py`) | one JSON file | save after each sync and action, load at start | crash during or before the save, what the first sync compares with it |
| MQTT bridge (`transport/mqtt_client.py`) | client, `_state`, chain of command tasks, retained collector | start, stop, publish, callbacks of paho queued to the loop, dispatch of commands per entity | callbacks of a replaced client, messages accepted and never delivered, duplicates |
| State events (`sync/state.py`) | last event per command, registry of retained channels, dirty flag and timer | event, initial states, click states, purge, coalesced save | initial value older than an event, registry lost by a kill |
| Commands other than toggles (`sync/command.py`) | reason of the last RPC error | translate, execute, optimistic state | order of the commands of one entity |
| Equipment states cache (`transport/http_server.py` 3464-3700) | generation, entry, signatures | read, rebuild, invalidate | stale entry served |
| Overrides (`mapping/overrides.py`) | one JSON file | save, revert | a revert of several keys that fails half way |
| Evaluation, scope, mappers (`models/*`, `mapping/*`) | none | pure functions of the topology and the overrides | precedence of rules |
| Action pacing (`transport/action_pacing.py`) | none | pure arithmetic | bounds of the pauses |
| PHP side (`core/*`) | Jeedom configuration, listeners | daemon control, topology, relay of actions, realignment of listeners | retries and timeouts towards the daemon |
| Web interface (`desktop/*`), export and parity tools | none of their own | presentation, reports | none |

How they interact. HA publishes commands on MQTT; the bridge queues them to the loop and
chains them per entity; `CommandSynchronizer` translates each one and calls Jeedom over
JSON-RPC. Jeedom's listeners post state events to `/action/state_update`;
`StateSynchronizer` records them (the barrier guard reads the record) and publishes them
retained. PHP posts `/action/sync` with the whole topology and `/action/execute` for
publier and supprimer; both hold `action_lock`. The bridge calls back on a reconnection or
on the birth of HA, and the daemon republishes, without the lock, what it has in memory.

What makes each component correct:

- Barrier guard: never two toggles before the effect of the first is known; a toggle that is
  executed moves the door the way HA asked; an order is not refused for ever.
- Discovery lifecycle: no ghost (a configuration on the broker that the daemon no longer
  answers for), no missing entity, no removal of a live entity, the lock always released.
- Cache: a restart removes what disappeared, changed type or was refused while it was down.
- Bridge: the commands of an entity run one at a time in the order of their arrival, the
  state reported is that of the current client.
- State events: a retained state is never older than the last event received.
- Equipment states cache: an entry served as valid is what a rebuild would give.

The hazards of the code, each at its line, are listed in `PROJECT.json` with the properties
that cover them.

## 2. Modules

| Module | What it is |
|---|---|
| `BarrierToggle` | the orders HA sends to one toggle-driven door |
| `OneFlight` | the abstract promise of the barrier lock, which `BarrierToggle` implements |
| `Publications` | sync, actions, republications, deferred removals, cache and restarts |
| `Bridge` | the MQTT client and its replacement, the callbacks of its thread, the orders of each entity |
| `LiveStates` | the retained states of one entity: events, syncs, clicks, the registry of topics |
| `Listeners` | the PHP processes that realign the listeners of Jeedom |
| `Mappers` | what entities an equipment becomes (functions) |
| `Decision` | validation of an entity, overrides, decision to publish (functions) |
| `Evaluation` | eligibility and the evaluation of an equipment, EXTENDS the two before (functions) |
| `Channels` | the topics declared, streamed and ordered on, EXTENDS `Evaluation` (functions) |
| `Rules` | an equipment and its overrides as the user changes them, EXTENDS `Channels` |
| `MC...` | instances of these for TLC: model values, families, symmetry |
| `MappersProofs` | what the entities of an equipment have, whatever its commands |
| other `...Proofs` | theorems about the modules with state, see section 4 |

The modules with state are checked one by one and not composed into one machine: what one
needs of another is an input that takes every value the other can give it. `Publications`
takes any verdict for any equipment where `Rules` computes verdicts; `LiveStates` takes any
readback from `Wirings` where `Channels` derives it; `BarrierToggle` lets any number of orders
run together where `Bridge` chains them between two clients. `Rules` does compose the
evaluation with the three modules that read its result (discovery, state events, orders).

### BarrierToggle

A step is what one task of the event loop does between two awaits. `lock` is the entry of
`_barrier_in_flight_locks` of the equipment: absent (`NoLock`), the marker armed before the
first await (`sent_at is None`), or the in-flight lock. The code relates no two entries of
that dictionary, so one equipment is enough.

| Action | Code |
|---|---|
| `RefuseLocked`, `ArmMarker` | `_guard_barrier_toggle` up to its await: `_barrier_lock_refusal`, then the marker |
| `ServeRead` | Jeedom answers `_read_info_value`; the answer is on its way |
| `GuardRefuses` | `_refuse` and the `CancelledError` handler: the read failed or its value allows no toggle |
| `SendToggle` | the value allows the toggle: the marker becomes the lock, then `_execute_exec_cmd` posts |
| `SendReturns` | `_execute_exec_cmd` returns, by an answer, an error or its timeout |
| `StateEvent` | `/action/state_update`, then the record made first by `handle_state_message` |
| `Restart` | the memory is lost |
| `ExecuteToggle`, `LoseToggle`, `ReachEnd`, `MovedByOther`, `Report`, `Tick` | environment: Jeedom, the door, other actors, time |

The bridge chains the orders of one entity, but `stop()` forgets the chain and the guard is
written not to depend on it, so the model lets any number of orders run together. Time is
discrete: two instants of the code in the same tick are indistinguishable, which a strict
comparison of the code (`event > sent_at`) treats as "not after"; later ticks are. The value
of the state command is `barrier_state` of it (`unknown` for everything outside the table).

### Publications

A step is what a coroutine does between two awaits that really yield: `publish_message`
only hands a message to the paho client, so a sync yields at most once (the purge of the
scenario buttons waits for retained messages), actions yield at their pauses, batches sleep
after each publication.

| Variable | Code |
|---|---|
| `link` | the paho client: none, not connected, connected |
| `accepted`, `retained` | the configurations retained by the broker, now, and once what the client accepted is delivered |
| `publications`, `pending`, `boot` | `app["publications"]`, `app["pending_discovery_unpublish"]`, `app["boot_cache"]` |
| `disk` | the cache file |
| `known` | `app["eligibility"]` and `app["published_scope"]` |
| `job` | the holder of `action_lock` and how far it is |
| `batch`, `posted` | the topics running batches have still to publish; the callback of a reconnection is queued |

An equipment has one entity, named by its type, so a topic is a pair of an equipment and a
type. The verdict of the evaluation (`gone`, `out` of the scope, `accepted`, `refused`, with
a type) is an input of each sync. `app["mappings"]` always has the keys of
`app["publications"]` and the types of their decisions, and is not a variable.

| Action | Code |
|---|---|
| `MqttConnect`, `Connected`, `Disconnected` | `_handle_mqtt_connect`, `_on_connect`, `_on_disconnect` |
| `Sync`, `ResumeSync`, `CommitSync` | `_do_handle_action_sync_body` before and after the purge of the scenario buttons |
| `StartAction`, `Skip`, `PublishOne`, `SendRemoval`, `NoteRemoval`, `FinishAction` | `_handle_action_execute`, both intentions |
| `ReconnectBatch`, `BirthBatch`, `ContinueBatch` | `_republish_all_from_cache` |
| `Restart` | the process stops and `on_start` loads the cache |

`Feature` selects what may happen around the handlers: `offline` (the broker is lost, syncs
run without it), `refusal`, `birth`, `overlap` (batches and handlers interleave),
`reconfigure` (`mqtt_connect` on a running bridge, which drops what its client had not
delivered), `restart` (between two handlers), `crash` (inside one, also while the cache is
written). Without `overlap` a batch is one step and starts only while no handler runs.

### Bridge

| Variable | Code (`transport/mqtt_client.py`) |
|---|---|
| `starts`, `link`, `stop` | the paho client and its session, `stop()` between the publication of `offline` and `loop_stop()` |
| `state` | `_state`, written by the event loop only |
| `queue` | what `call_soon_threadsafe` has posted and the loop has not run |
| `pending`, `task` | `_pending_command_tasks` and the tasks, each one waiting for the previous one of its entity |
| `sent`, `target`, `copy` | the deliveries of the broker, each with its entity, its topic, the order it repeats, and whether a session heard it |
| `kept`, `owed` | environment: the order the broker retains, the copies of the last one it may still deliver |

| Action | Code |
|---|---|
| `FirstStart`, `StopBegin`, `StopEndStart` | `start()`; `stop()` then `start()`, as `_handle_mqtt_connect` calls them without giving the loop a turn |
| `LinkUp`, `LinkRefused`, `LinkLost` | `_on_connect` (accepted with its subscriptions, or refused), `_on_disconnect` |
| `Send`, `Repeat` | HA sends an order, retained or not; the broker delivers it, then may deliver it again for another filter of `COMMAND_SUBSCRIPTION_TOPICS` that matches; both run `_on_message` |
| `OnMessage` | `_on_message`: what carries the retain flag is dropped, the rest posted; `LinkUp` gives it the retained order back, with its flag |
| `SetState`, `Dispatch` | the loop runs `_set_state` or `_dispatch_command_message` |
| `Begin`, `End` | `_run_serialized_command` awaits the previous task, runs the handler, forgets itself |

The loop is blocked while `stop()` waits, so its actions require `stop = "no"`; paho's thread
is not, so its callbacks are still posted and meet the new client. The feature `late connect`
lets a session be accepted after `offline` could not be published.

Two filters match the topic of a brightness or of a position
(`jeedom2ha/+/+/set` with `jeedom2ha/+/brightness/set` or `jeedom2ha/+/position/set`,
`mqtt_client.py:26-33`). MQTT 3.1.1 lets a broker deliver such an order once for each, and
`_on_message` does not look for repetitions, so an order may be two deliveries, two tasks and two
runs. `RunsAsHeard` says that this is the only way an order runs more than once.

### LiveStates

One light or cover: a channel (`state`, `brightness`, `position`) is a retained topic, fed by
at most one command, its readback. `Channels` says which; here the readbacks change as the
user changes the generic types. A value is a version number, so that "older" has a meaning.

| Action | Code |
|---|---|
| `Change`, `Rewire` | environment: Jeedom; events reach the daemon in any order or never |
| `Event` | `/action/state_update` and `handle_state_message`: recorded first, then published |
| `SyncRead` | PHP builds the topology, with the current values |
| `SyncPublish`, `SyncCommit`, `SyncRefused` | the sync before and after its pauses (initial states, purge of the channels without readback, then `app["publications"]`), or its 409 |
| `ClickRead`, `ClickArrive`, `ClickPublish` | `publier`: the values PHP read, the arrival (`fresh_since`), `publish_click_states` |
| `Flush` | the timer of 2 s that runs `flush_retained_channels`, which clears the flag before it writes |
| `Connection`, `Restart` | the bridge; a shutdown (which flushes) or, with `kill`, none, then the load of the registry |

### Listeners

Each sync and each `publier` runs `jeedom2ha_realign_state_listeners`
(`core/php/jeedom2ha_state_listeners.php`) in its own PHP process, without a lock. A process
fetches the commands to listen to (`Fetch`), lists the listeners (`List`), creates one per
command (`Create`), then removes the listed ones (`Remove`); an exception may stop it after any
save or removal, which is a process that takes no further step. `Publish` changes what the
daemon would answer.

### Mappers, Decision, Evaluation, Channels

These are functions of an equipment. A command is `[gt, info, sub, name, unit]`: its generic
type, whether it is an info, its subtype, the key of the group its name puts it in, and the
measure its unit reliably names; its id is its position. An entity keeps the ordered
dictionary of its commands, since the order decides which one is kept, grouped or bound.

| Module | Code |
|---|---|
| `Mappers` | every mapper of `mapping/*.py` (light, cover with gates and garages, switch with its groups, sensor, binary sensor, climate, alarm, presence switch, button, fallback) and `MapperRegistry`: `MapAll` |
| `Decision` | `ha_component_registry.py` and `validate_projection` (`Valid`), `decide_publication`, the resolution of the overrides |
| `Evaluation` | `assess_eligibility` (`Eligible`), `evaluate_equipment` (`Evaluate`), what is told of each command (`Covering`) |
| `Channels` | `discovery/publisher.py` (declared topics), `sync/readback.py` and `sync/state.py` (streamed topics), `sync/command.py` (the entity a topic reaches, the command an order runs) |

### Rules

An equipment grows by one command of its family at a time (`AddCommand`), gets overrides of
its commands (`SaveOverride`) or of itself (`SaveEquipment`), and loses them (`Revert`); each
change is followed by the evaluation of a sync. The overrides a preview proposes are the argument
`proposed` of `Evaluate`; a sync has none.

## 3. Runs

| Run | Checks | Instance |
|---|---|---|
| `barrier_hostile` | `TypeOK`, `UnprovedIsLocked`, `GuardOwnsMarker`, refinement of `OneFlight` | 2 orders, delay 1, 3 instants, events lost in any order, other actors, restarts |
| `barrier_own` | `ToggleDoesWhatWasAsked` | 3 orders, delay 1, 5 instants, 3 events in flight, in order, the daemon alone moves the door |
| `barrier_masked` | violation of `LockEndsWithExpectedChange` | 2 orders, other actors, no restart |
| `pub_offline` | `TypeOK`, `NoGhost`, `NoLiveRemoval`, `LockReleased` | 2 equipments, 1 type, `offline refusal birth` |
| `pub_restart` | `NoGhost` | 2 equipments, 2 types, `restart birth` |
| `pub_hostile` | `NoMissing` | 2 equipments, 1 type, every feature |
| `pub_overlap` | violation of `NoGhost` | `overlap birth` |
| `pub_boot_refusal` | violation of `NoGhost` | `restart refusal`, 1 equipment |
| `live` | `TypeOK`, `RetainedKnown`, `SyncHeals`, `ClickKeepsHeard` | 2 channels, 2 commands, 3 values, 2 events in flight, 1 restart |
| `listeners` | `TypeOK`, `LastListenerKept` | 2 commands, 3 processes |
| `bridge` | `TypeOK`, `StateHonest`, `OneAtATime`, `RunsAsHeard`, `EveryOrderEnds` | a light ordered by its slider, a gate by its own topic, 3 deliveries, 2 clients, 1 lost session |
| `rules` | `TypeOK`, `ExclusionWins`, `CommandsToldRight`, `ReadbackNotDuplicated`, `ExemptionPays`, `StatesArrive`, `OrdersRouted`, `PreviewHonest` | 14 families of equipments, up to 4 commands (2 with overrides, 4 in a family that starts as a switch group), up to 2 overrides, 2 confidence policies |

What the passing runs show.

- Barrier: whatever the order of the events, with timeouts, lost answers, other actors and
  restarts, at most one toggle is without a known effect, the lock is the one of that toggle,
  and two orders are never both deciding. When only the daemon moves the door and the events
  keep their order, every toggle finds the door at the end position its order starts from,
  including one that is executed long after its RPC timed out.
- Publications: over losses of the broker, syncs and actions leave no configuration that the
  daemon has forgotten; over clean restarts the cache plays the same part; in all cases what
  the daemon says published is on the broker once it is connected and at rest.
- States: a topic with a retained value is always one that a later sync can empty; a sync that
  nothing disturbs repairs every topic, whatever was lost or reordered before it; a click never
  puts back a value older than an event the daemon received since the click arrived, even an
  event it could not publish.
- Listeners: overlapping realignments, stopped anywhere, never leave without a listener a
  command that all of them were told to listen to.
- Bridge: once the queue is empty the state read is the one of the current session, also after
  a replacement, unless a session is accepted late; the orders of an entity dispatched to one
  client run one at a time in their order, and each one ends; an order that no session heard
  never runs, though the broker retains it, and one that was heard runs once at most for each
  filter that matches its topic.
- Rules: an exclusion is a veto; the interface tells a command published exactly when a published
  entity covers it; in an equipment of several domains a state shown by a switch group is not a
  binary sensor as well; an equipment made eligible without generic types does give an entity; a
  preview tells what the sync will do. For lights, covers, switches, sensors and binary sensors,
  and only for these (see section 5), discovery and state events agree: HA waits for the state or
  the brightness of a light, a cover or a sensor exactly when one is streamed on the topic it was
  told, for the position of a cover always, fed or not, and for the state of a switch unless its
  orders are assumed to succeed; nothing is streamed on a topic that was not declared, except for
  a light or a cover with a topic of its own. An order on a declared topic of a light, a switch
  or a cover reaches that entity if a mapper of these types made it and an override changed its
  type at most when its topic is that of the equipment (`KeepsItsTopic`); what an order runs is
  always a command of the entity it reaches.

What the violations show (the code against its documentation, see `findings`):

- `barrier_masked`: the lock looks only at the last event, at the next order. A door that
  opens and closes again before the next order leaves OPEN refused until another state is
  reported.
- `pub_overlap`: a batch publishes again, from entries read before, an equipment that a sync
  or an action has just removed, and nothing removes it afterwards.
- `pub_boot_refusal`: an equipment published by the previous run and refused at the first sync
  is never unpublished.

Bounds. Two orders are the smallest number that can collide on a door; a third one lets a delayed
toggle meet both the release and the next order. A delay of one tick and two more instants reach
before, at and after the expiry. One or two events in flight are enough for an old event to
arrive after a send or after a newer one; more only delay it further. Two equipments let one be
handled while another waits in an action or a batch; no code relates more than two. A type that
changes needs two types. Two channels let one command feed both, move from one to the other, or
feed none; three values let a change fall between the read of a sync and that of a click. Three
processes let one realignment meet the leftovers of two others. Two clients and one lost session
give a callback posted before, during and after a replacement; three deliveries and two entities
give a chain, its neighbour, a repeated order, and an order after both. An entity that is asked
both by its slider and by its own topic adds states and no code, so each has one topic. Four
commands complete the largest structure of any mapper (a group of three and a measure or a second
claim on one of them); the interplay of overrides needs two commands and two overrides, and three
commands where a switch group has to exist before it is given another type. `MaxTime`,
`MaxEvents`, `MaxValue`, `MaxRestarts`, `MaxStarts`, `MaxDrops`, `MaxCommands`, `MaxSaved` and
the `maxTuned` of each setting name the bounds.

Deadlock. The barrier, live, listeners, bridge and rules runs bound time, values, processes,
clients, orders or commands, so they really stop and set `CHECK_DEADLOCK FALSE`. The
publication runs check deadlock.

Fairness. `LockReleased` assumes only that the event loop resumes the coroutine that holds
`action_lock` (`WF_vars(Handlers)`): its awaits are bounded sleeps and calls to the MQTT client
that do not wait for the broker. `EveryOrderEnds` assumes that the loop runs the callbacks
posted to it and the tasks that are ready, that a running order ends (its JSON-RPC requests have
a timeout) and that `stop()` returns (it waits at most 2 s). Nothing is assumed of the broker,
of PHP or of HA.

## 4. Proofs

Seven modules hold theorems, for any value of the constants. Every safety invariant and every
safety action property that a passing run checks is one of them.
`MappersProofs` holds what the theorems about `Rules` need of the mappers.

| Module | Theorem | Statement | Assumes besides the types of the constants |
|---|---|---|---|
| `BarrierToggleProofs` | `TypeCorrect` | `Spec => []TypeOK` | |
| | `UnprovedAlwaysLocked` | `Spec => []UnprovedIsLocked` | |
| | `GuardIsExclusive` | `Spec => []GuardOwnsMarker` | |
| | `ImplementsOneFlight` | `Spec => OneToggleAtATime` | |
| | `ToggleMovesAsAsked` | `Spec => ToggleDoesWhatWasAsked` | `OwnDoor`: no other actor, events in order, no restart |
| `PublicationsProofs` | `Typing` | `Spec => []TypeOK` | |
| | `NothingLiveIsRemoved` | `Spec => []NoLiveRemoval` | a running bridge is not replaced |
| | `RestartsLeaveNoGhost` | `Spec => []NoGhost` | `Feature \subseteq {"restart", "birth"}` |
| | `LossesLeaveNoGhost` | `Spec => []NoGhost` | `Feature \subseteq {"offline", "refusal", "birth"}`, and one type if `offline` is there |
| | `NothingGoesMissing` | `Spec => []NoMissing` | |
| `LiveStatesProofs` | `NoForgottenTopic` | `Spec => []RetainedKnown` | no kill, no full disk |
| | `Healing` | `Spec => SyncHeals` | no kill, no full disk |
| | `Typing` | `Spec => []TypeOK` | |
| | `ClicksKeepEvents` | `Spec => ClickKeepsHeard` | |
| `ListenersProofs` | `Typing` | `Spec => []TypeOK` | |
| | `NoCommandForgotten` | `Spec => LastListenerKept` | |
| `BridgeProofs` | `Typing` | `Spec => []TypeOK` | |
| | `OrdersAreSerial` | `Spec => []OneAtATime` | |
| | `OrdersRunAsHeard` | `Spec => []RunsAsHeard` | |
| | `StateIsHonest` | `Spec => []StateHonest` | no `late connect` |
| `MappersProofs` | `RegistryWellMade` | `WellMade(eq, MapAll(eq))` | `Len(eq.cmds) \in Nat` |
| `RulesProofs` | `Typing` | `Spec => []TypeOK` | |
| | `ExclusionIsVeto` | `Spec => []ExclusionWins` | |
| | `CommandsAreToldRight` | `Spec => []CommandsToldRight` | |
| | `ReadbackShownOnce` | `Spec => []ReadbackNotDuplicated` | |
| | `OrdersReachTheirEntity` | `Spec => []OrdersRouted` | |
| | `StatesDoArrive` | `Spec => []StatesArrive` | |
| | `ExemptionGivesASensor` | `Spec => []ExemptionPays` | |
| | `PreviewIsHonest` | `Spec => []PreviewHonest` | |

The assumptions on the constants are the named `ASSUME` of each module; TLC evaluates them on its
instances. That of `Rules` says that no type a user can choose is the empty string, which the
handlers refuse (`http_server.py:2968`, `3730`). The others say what the types of the constants
are. An assumption of the last column is the set of behaviours a theorem is about, and the
property fails outside it: another actor moves the door between a read and the toggle it allowed,
an event arrives after a newer one, or a restart forgets a toggle on its way; a replaced client
takes with it the removal of a running action; a kill or a full disk forgets a topic; a deferred
removal of one type is replaced by that of another; a session accepted late leaves a stale
"connected".

Barrier. The invariant is
`Inv == TypeOK /\ UnprovedIsLocked /\ GuardOwnsMarker /\ EventAgrees`. `EventAgrees` is what
makes it inductive: the lock is released by looking at the last event recorded, while a
toggle becomes proved when an event is received, so one must know that an event which frees
the lock has already proved its toggle, that no recorded event comes from the future (else a
new lock could be freed by an older event), and that the owner of the lock has been handled.
The refinement follows step by step: a refused order, a read, an answer and the whole
environment are stutters of `OneFlight`, `ArmMarker` is `Decide`, `GuardRefuses` is `Abandon`,
`SendToggle` is `Send`, an event that proves the effect is `Effect`, a restart is `Forget`.

`ToggleDoesWhatWasAsked` needs a summary of the history of the door, `DoorFollows`. Either no
toggle is without proven effect, and the door is moving or has ended the last movement, with
Jeedom and the events that are left at most late by the end of it (`Quiet`); or the only such
toggle has not reached the door, which is where its order starts from and so are all the events
(`Waiting`), or has moved it, and the first event that tells so is followed only by the end of
the movement (`Moved`). An event that frees the lock is thus one after which the door cannot be
anywhere else, so the next read is of the movement it sees.

Publications. `TypeOK` says that an equipment has at most one removal deferred and one type
cached; it needs `BootBeforeSync`, since a decision and a cached type of the previous run
together would defer two. `NoLiveRemoval` needs `Steady`: a client, once there is one, stays,
so the removal of a running action is always accepted, and a removal is only deferred together
with a decision that is not published. Replacing a running bridge breaks exactly that.
`NoGhost` needs `Exact`: each retained topic is in `Removable(e)`, what the step under way will
take away or the cache will name: the disk file between two handlers, the decisions of a sync
between its two halves, all but the topic being removed in an action.

With losses of the broker instead of restarts, `Answered` says what answers for each topic: the
decision of the equipment (of the sync between its halves) or a deferred removal. A deferred
removal has room for one type, that of the last known decision or the default one; this is where
one type is needed, and only if the broker can be lost. `NoMissing` needs `Complete`: a connected
client has delivered what it accepted, a suspended sync has seen accepted all it is about to say
published, and every other published entity was accepted, waits in a batch, or has just been
taken away by a removal that the action has still to note. It holds with every feature at once,
because each new session posts a republication.

States. `IInv == Types /\ RetainedKnown /\ DirtyOrSaved /\ CleanAccurate`: the registry in
memory covers the broker, what is not saved still has its timer (so a clean stop saves it), and
while nothing has disturbed a published sync, the broker shows what Jeedom has. `ClickKeepsHeard`
and the types rest on a smaller one, `HeardInv`, which holds with kills and a full disk: what
was heard since a click arrived is still what is recorded, and is dated after it (`fresh`), so
`publish_click_states` takes the record and not the value PHP read.

Listeners. `IInv == TypeOK /\ Ids /\ CreatedKept /\ NewestKept`. The identifiers order the
listings. A process only removes listeners that are not newer than its listing; among the
processes that reached their removals, the one that listed last has created, after its
listing, a listener that none of the others could have listed (`NewestKept`). `CreatedKept`
carries the creations of the processes that have not finished them.

Bridge. `IInv == TypeOK /\ Lifetimes /\ Lined /\ Copied /\ LastKept /\ Chained /\ Counted /\
OneAtATime`: what waits for the loop was heard by a session, and is queued and dispatched in the
order the broker delivered it (`Lined`), the entry of an entity is its last task unless all of
them are done (`LastKept`), so a new task waits for the greatest order before it (`Chained`),
which cannot be done before those before it. A delivery is an order or comes right after the one
it repeats, which has two filters (`Copied`), so the runs of an order are those of at most as
many tasks as it has filters, each of which runs once (`Counted`); one that no session heard is
not even queued. `StateHonest` adds `LastSaysLink`: the last state that waits in the queue, or
the one set if none waits, is that of the session, whichever client posted it; a replacement posts
"disconnected" last, and `UnsentStaysDown` keeps a session from being accepted after a farewell
that failed, which `late connect` allows.

Mappers. Each mapper keeps a promise about its entities (`Made`): they are of its type, cover
commands of the equipment, dim or have a position only as a light or a cover, and read no state
that is not theirs. The registry then chooses one answer or puts several domains together, and
`WellMade` is what is left of the promises: a switch, light or cover without a command of its own is
the first entity, two switches never have the same command of their own, and in an equipment of
several domains a binary sensor shows no readback of a switch. The folds of `Mappers` over the
commands are followed by the sets they compute: an ordered selection of ids is shown to be the
increasing sequence of a set (`Inc`), and the groups of switches the latest command of each
kind under one name.

Rules. `Evaluated` says that the last evaluation is made of what is saved, which a single action
that forgot to evaluate again would break; `Bounded` adds the bounds. Every property of `Rules`
is then a fact of one evaluation. `Veto` does not open the mappers: whatever entities they
answer, the override of an entity is an exclusion as soon as one covered command has one, and an
exclusion wins in the decision. The others rest on `RegistryWellMade`: two published entities
never listen to one topic, and one that `KeepsItsTopic` listens to those it declares
(`DeclaredIsExpected`), so an order has a single taker, which covers the command it runs
(`OrdersReach`); the readback of a channel is a command of the dictionary of the entity, whose
key the discovery, the events and the confirmation read alike (`StatesReach`); an equipment
without any tag is mapped by the sensor mapper or nobody, and the one that made it eligible is
shown (`Pays`); the layer of a preview merged over the saved overrides gives each decision the
same type and the same override as the save does, unless another command has a type (`Previews`).

Only model-checked: `LockReleased` and `EveryOrderEnds`, which are liveness under fairness and
out of the prover's reach. The theorems say nothing of the three properties the code violates.
The runs also check what the theorems leave open: that the states the properties speak of are
reached.

## 5. Not modelled

- Equipment states cache: keyed by a generation and by signatures of its inputs, read and built
  without an await; nothing can come between its steps.
- Action pacing: arithmetic on floating-point durations, without state.
- The override file (one write per key), its profile import and export: `Rules` takes a save and
  a revert as one step. Two writes of one handler are not separated by an await; what is left
  out is a failure of the disk between them.
- The collector of retained topics, used under the lock of the sync only, and the scenario
  buttons, whose topics come from the broker itself.
- Secondary entities of an equipment over time (`Publications` has one entity per equipment;
  `Rules` has all of them, but does not publish over time) and the local availability topics.
- Exceptions inside a sync or raised by paho on a connected client; a broker that loses its
  retained messages; an action that has read the topology before it waits for the lock.
- The resolution of the published scope (global, room, equipment): an input of `Publications`.
- The local availability of an entity: an order to one that is published and offline is refused
  (`entity_unavailable`, `command.py:306-313`) and one whose publication failed is passed over;
  `Routed` takes the published entities as present.
- The JSON-RPC calls to Jeedom, the numeric conversions of states and orders, the optimistic
  publication after an order.
- PHP control of the daemon, the web interface, the export and parity tools, the models that
  phrase an answer (causes, aggregation, taxonomy): presentation, no state of their own.
- Authentication, logging and formatting.

Known differences between the code and what one might expect, met while modelling and not the
subject of a run:

- Publications. A removal deferred by an offline sync does not survive a restart (the cache is
  saved without the equipment). `supprimer` may forget a deferred removal of another type
  (docstring of `_defer_discovery_unpublish`: "no residual ghost after a reconnect"). A
  reconnection with nothing published does not replay the deferred removals although the
  docstring of `_republish_all_from_cache_body` says they come first. A removal deferred by an
  action whose bridge was stopped is replayed, then undone by the republication. The comment of
  `create_app` says that the sync does not take `action_lock`; it does. An entity named by a
  command that changes node under a constant type leaves its old topic.
- States. A sync overwrites an event received since PHP read the topology; a click value may be
  older than an event received between the read and the request. An event routed by the old
  mapping between a sync's snapshot and its commit can refill an emptied channel until the next
  sync. A command whose value changes between the read of the topology and the creation of its
  listener posts no event; nor do those received without a broker survive: the next sync repairs
  all of these (`SyncHeals`). A kill or a full disk makes the registry forget a topic.
- Orders. `stop()` forgets the chain of orders, so two orders of an entity can run together
  across a replacement. A session accepted after `offline` could not be published leaves a stale
  "connected" (feature `late connect` of `Bridge`). Some declared orders reach no command: a
  light with a slider only, a cover with BSO orders only, buttons, climates and alarms. A
  brightness or a position may be set twice in a row by one order, where a broker delivers a copy
  for each filter that matches. An entity with a topic of its own that an override makes a light
  or a cover declares the topics of the equipment (`publisher.py:573`) while orders are expected
  on its own (`command.py:336-341`): they reach nobody, or another entity of the equipment, and
  its state is streamed on its own topic, which is not declared. `OrdersRouted`
  leaves these entities out, and `StatesArrive` does for what is streamed undeclared.
  `OrdersRouted` also leaves out, for the topic, an entity made a light, a switch or a cover from
  any other type.
- State topics. A climate and an alarm declare one (`publisher.py:799`, `832`), which nothing
  streams: `StatesArrive` is about the other types. The position of a cover is declared without a
  numeric feed.
- Mappers. The sensor mapper strips a suffix from a name (`sensor.py:179-184`) where the switch
  mapper takes a regular expression (`switch.py:375-381`); `Mappers` has one name key for both,
  so names that the two group differently are left out. A switch and the only measure of an
  equipment share a unique id and a state topic (`registry.py:137`, `sensor.py:122`). With a
  power measure, the state of a single switch is published as a binary sensor too, under the same
  unique id (`binary_sensor.py:140`, against its docstring, lines 8-9): `ReadbackNotDuplicated`
  holds in equipments of several domains. A numeric `SWITCH_STATE` of a group taken by the
  fallback is a switch and a sensor. The state of a group of `FAN` commands is streamed, but no
  order waits for it. The preview of an override differs from the sync when another command has a
  type of its own (excluded from `PreviewHonest`).
- Listeners. Two realignments told different lists may leave a published command without a
  listener until the next one (`LastListenerKept` says only that one of them was told so).

## 6. Plan

What is left, in the order of what it would show:

1. `Publications` with secondary entities: targeted removals, `_merge_deferred_candidate_unpublish`
   and the local availability topics.
2. The request handlers around the lock (409, wait of 7 s, topology and scope read before it, PHP
   retries), with the equipment states cache.
3. The override file with a failing disk: save, revert and import as sequences of writes.
4. The published scope as a function of its inputs, and the purge of the scenario buttons with
   the collector.
