----------------------------- MODULE LiveStates -----------------------------
(***************************************************************************)
(* The states that follow Jeedom to Home Assistant, for one light or cover *)
(* with several channels (resources/daemon/sync/state.py).  A channel is a *)
(* retained MQTT topic; the command that feeds it, if any, is its readback.*)
(* Three flows write the topics: the events relayed by the listeners, the  *)
(* snapshot of a sync and the values read when the user clicks "publier".  *)
(* A channel that lost its readback must not keep a retained value: the    *)
(* registry of the topics written so far, saved on disk, says what to      *)
(* empty.  A value is a version number; the handlers of state.py never     *)
(* await, so each is one step.                                             *)
(***************************************************************************)
EXTENDS Integers, FiniteSets

CONSTANTS
  Channel,      \* the channels of the entity
  Cmd,          \* its info commands
  None,         \* no command, or no value
  Wirings,      \* the readbacks it may have, [Channel -> Cmd \cup {None}]
  MaxValue,     \* bound: a change takes a number greater than every value so far
  MaxRestarts,  \* bound: restarts of the daemon
  MaxEvents,    \* bound: events in flight
  Features      \* subset of {"kill", "disk full"}

Value == 0..MaxValue

ASSUME LiveAssumption ==
  /\ MaxValue \in Nat /\ None \notin Cmd /\ None \notin Value
  /\ Wirings \subseteq [Channel -> Cmd \cup {None}]

VARIABLES
  wiring,     \* Jeedom: the readback of each channel
  value,      \* Jeedom: the value of each command
  events,     \* relayed events on their way to the daemon, [cmd, value]
  connected,  \* the MQTT bridge is connected
  bound,      \* the wiring that app["publications"] knows
  published,  \* and whether its discovery was published
  recorded,   \* the last event of each command (_pending_click_values)
  known,      \* the registry of the retained topics (_retained_channel_topics)
  dirty,      \* it waits for its timer
  disk,       \* what is saved of it
  sync,       \* the sync under way
  click,      \* the "publier" under way
  retained,   \* the broker: the value of each topic
  restarts

jeedom == <<wiring, value, events>>
registry == <<known, dirty, disk>>
vars == <<jeedom, connected, bound, published, recorded, registry, sync, click,
          retained, restarts>>

Unfed == [ch \in Channel |-> None]
NoEvent == [c \in Cmd |-> None]

\* A request: where it stands, and what PHP read for it.  clean: no change and no event
\* since the snapshot was published; heard: the last event since the request arrived,
\* fresh: those that the daemon dates after the request.
NoSync == [step |-> "idle", wiring |-> Unfed, values |-> NoEvent, clean |-> FALSE]
NoClick == [step |-> "idle", values |-> NoEvent, heard |-> NoEvent, fresh |-> {}]

Init ==
  /\ wiring \in Wirings /\ value = [c \in Cmd |-> 0] /\ events = {}
  /\ connected = FALSE /\ bound = Unfed /\ published = FALSE /\ recorded = NoEvent
  /\ known = {} /\ dirty = FALSE /\ disk = {}
  /\ sync = NoSync /\ click = NoClick /\ retained = Unfed /\ restarts = 0

----------------------------------------------------------------------------
(* The registry.                                                           *)

\* Mutant: the timer is not armed.
RegisteredUnarmed(T, D) ==
  /\ known' = (known \ D) \cup T
  /\ UNCHANGED <<dirty, disk>>
\* The topics of T were published: those the registry does not know are added and the
\* timer armed; those of D were emptied.
Registered(T, D) ==
  /\ known' = (known \ D) \cup T
  /\ dirty' = (dirty \/ known' # known)
  /\ UNCHANGED disk

\* The timer of 2 s: dirty is cleared before the write, which may fail.
Flush ==
  /\ dirty /\ dirty' = FALSE
  /\ \/ disk' = known
     \/ "disk full" \in Features /\ disk' = disk
  /\ UNCHANGED <<jeedom, connected, bound, published, recorded, known, sync, click,
                 retained, restarts>>

----------------------------------------------------------------------------
(* Jeedom.                                                                 *)

\* A command takes a new value; its event is relayed if it has a listener and the one
\* POST gets through.
Change(c) ==
  \E n \in Value :
    /\ \A d \in Cmd : value[d] < n
    /\ value' = [value EXCEPT ![c] = n]
    /\ \/ events' = events
       \/ Cardinality(events) < MaxEvents
          /\ events' = events \cup {[cmd |-> c, value |-> n]}
    /\ sync' = [sync EXCEPT !.clean = FALSE]
    /\ UNCHANGED <<wiring, connected, bound, published, recorded, registry, click,
                   retained, restarts>>

\* The user changes the generic types: a channel gains, loses or changes its readback.
Rewire ==
  /\ wiring' \in Wirings \ {wiring}
  /\ sync' = [sync EXCEPT !.clean = FALSE]
  /\ UNCHANGED <<value, events, connected, bound, published, recorded, registry, click,
                 retained, restarts>>

----------------------------------------------------------------------------
(* The daemon.                                                             *)

\* Mutant: an event that feeds no topic is not recorded.
RecordsFed(e, fed) == IF fed = {} THEN {} ELSE {e.cmd}
\* The commands whose record an event updates: its own, whatever becomes of the event.
Records(e, fed) == {e.cmd}

\* One event, in any order: recorded, then published on every topic that its command
\* feeds.
Event(e) ==
  LET fed == {ch \in Channel : connected /\ published /\ bound[ch] = e.cmd}
  IN /\ e \in events /\ events' = events \ {e}
     /\ recorded' = [c \in Cmd |-> IF c \in Records(e, fed) THEN e.value ELSE recorded[c]]
     /\ click' = IF click.step = "running"
                 THEN [click EXCEPT !.heard[e.cmd] = e.value, !.fresh = @ \cup Records(e, fed)]
                 ELSE click
     /\ retained' = [ch \in Channel |-> IF ch \in fed THEN e.value ELSE retained[ch]]
     /\ Registered(fed, {})
     /\ sync' = [sync EXCEPT !.clean = FALSE]
     /\ UNCHANGED <<wiring, value, connected, bound, published, restarts>>

\* Mutant: the channels that lost their readback are left alone.
SnapshotOnly(w, v) ==
  LET live == {ch \in Channel : w[ch] # None /\ v[w[ch]] # None}
  IN /\ retained' = [ch \in Channel |-> IF ch \in live THEN v[w[ch]] ELSE retained[ch]]
     /\ Registered(live, {})
\* The channels of wiring w without readback are emptied if the registry knows them,
\* the others take the value v gives their command, if any.
Snapshot(w, v) ==
  LET dead == {ch \in known : w[ch] = None}
      live == {ch \in Channel : w[ch] # None /\ v[w[ch]] # None}
  IN /\ retained' = [ch \in Channel |-> IF ch \in live THEN v[w[ch]]
                                        ELSE IF ch \in dead THEN None ELSE retained[ch]]
     /\ Registered(live, dead)

NoSnapshot == UNCHANGED <<retained, registry>>

\* PHP reads the topology, with the current values.
SyncRead ==
  /\ sync.step = "idle"
  /\ sync' = [NoSync EXCEPT !.step = "read", !.wiring = wiring, !.values = value]
  /\ UNCHANGED <<jeedom, connected, bound, published, recorded, registry, click,
                 retained, restarts>>

\* The daemon takes the lock and publishes the discovery, then the snapshot.  Without a
\* bridge, nothing; either way the new mapping is not yet the one events look up.
SyncPublish ==
  /\ sync.step = "read" /\ click.step # "running"
  /\ sync' = [sync EXCEPT !.step = IF connected \/ published THEN "published" ELSE "unpublished",
                          !.clean = connected /\ sync.wiring = wiring /\ sync.values = value]
  /\ IF connected THEN Snapshot(sync.wiring, sync.values) ELSE NoSnapshot
  /\ UNCHANGED <<jeedom, connected, bound, published, recorded, click, restarts>>

\* The action holds the lock for more than 7 s (409), or the caller is a rescan.
SyncRefused ==
  /\ sync.step = "read" /\ click.step = "running"
  /\ sync' = NoSync
  /\ UNCHANGED <<jeedom, connected, bound, published, recorded, registry, click,
                 retained, restarts>>

\* The other equipments, the scenarios and their purge (1.5 s) are over.
SyncCommit ==
  /\ sync.step \in {"published", "unpublished"}
  /\ bound' = sync.wiring /\ published' = (sync.step = "published")
  /\ sync' = NoSync
  /\ UNCHANGED <<jeedom, connected, recorded, registry, click, retained, restarts>>

\* "Publier": PHP reads the values of the selection, then posts the action.
ClickRead ==
  /\ click.step = "idle"
  /\ click' = [NoClick EXCEPT !.step = "read", !.values = value]
  /\ UNCHANGED <<jeedom, connected, bound, published, recorded, registry, sync,
                 retained, restarts>>

\* Mutant: an action is accepted before the first sync.
ClickArriveUnsynced ==
  /\ click.step = "read" /\ sync.step = "idle"
  /\ click' = [click EXCEPT !.step = "running"]
  /\ UNCHANGED <<jeedom, connected, bound, published, recorded, registry, sync,
                 retained, restarts>>
\* The request arrives (fresh_since) and takes the lock; it is refused before the first
\* sync, and while a sync holds the lock.
ClickArrive ==
  /\ click.step = "read"
  /\ click' = IF bound = Unfed \/ sync.step \in {"published", "unpublished"} THEN NoClick
              ELSE [click EXCEPT !.step = "running"]
  /\ UNCHANGED <<jeedom, connected, bound, published, recorded, registry, sync,
                 retained, restarts>>

\* An event received since the request arrived wins over the value read before.
ClickValue(c) == IF c \in click.fresh THEN recorded[c] ELSE click.values[c]

\* The equipment of the click is published (or was) with its states.
ClickPublish ==
  /\ click.step = "running"
  /\ published' = (published \/ connected)
  /\ IF connected THEN Snapshot(bound, [c \in Cmd |-> ClickValue(c)]) ELSE NoSnapshot
  /\ click' = NoClick
  /\ UNCHANGED <<jeedom, connected, bound, recorded, sync, restarts>>

Connection ==
  /\ connected' = ~connected
  /\ UNCHANGED <<jeedom, bound, published, recorded, registry, sync, click, retained,
                 restarts>>

\* The daemon stops, which saves the registry, or is killed; it starts again with what
\* is on disk and knows no publication until a sync.
Restart ==
  /\ restarts < MaxRestarts /\ restarts' = restarts + 1
  /\ \/ disk' = (IF dirty THEN known ELSE disk)
     \/ "kill" \in Features /\ disk' = disk
  /\ known' = disk' /\ dirty' = FALSE
  /\ connected' = FALSE /\ bound' = Unfed /\ published' = FALSE /\ recorded' = NoEvent
  /\ sync' = NoSync /\ click' = NoClick
  /\ UNCHANGED <<jeedom, retained>>

Next ==
  \/ \E c \in Cmd : Change(c)
  \/ \E e \in events : Event(e)
  \/ Rewire \/ SyncRead \/ SyncPublish \/ SyncRefused \/ SyncCommit
  \/ ClickRead \/ ClickArrive \/ ClickPublish
  \/ Flush \/ Connection \/ Restart

Spec == Init /\ [][Next]_vars

----------------------------------------------------------------------------
(* Properties.                                                             *)

\* The type of the state; only an equipment that a sync described is published.
TypeOK ==
  /\ wiring \in Wirings /\ value \in [Cmd -> Value]
  /\ events \subseteq [cmd : Cmd, value : Value]
  /\ connected \in BOOLEAN /\ published \in BOOLEAN /\ dirty \in BOOLEAN
  /\ bound \in Wirings \cup {Unfed} /\ (published => bound \in Wirings)
  /\ recorded \in [Cmd -> Value \cup {None}]
  /\ known \subseteq Channel /\ disk \subseteq Channel
  /\ sync.step \in {"idle", "read", "published", "unpublished"}
  /\ click.step \in {"idle", "read", "running"}
  /\ retained \in [Channel -> Value \cup {None}]

\* Every topic that holds a value is one that the next sync can empty: in the registry,
\* across the saves and the restarts ("persisted across restarts", state.py:484-485).
RetainedKnown == \A ch \in Channel : retained[ch] # None => ch \in known

\* A sync that nothing disturbed leaves on every topic the value of its readback in
\* Jeedom, and nothing on a channel without readback, whatever lost or reordered events,
\* disconnections, clicks and restarts came before.
SyncHeals ==
  [][sync.step = "published" /\ sync.clean /\ sync' = NoSync /\ restarts' = restarts
     => \A ch \in Channel :
          retained[ch] = IF wiring[ch] = None THEN None ELSE value[wiring[ch]]]_vars

\* An event received after the click arrived is not overwritten by the older value that
\* the click carries, even when the daemon could not publish that event (state.py:179-181,
\* "must still count as more recent than the click").
ClickKeepsHeard ==
  [][click.step = "running" /\ click' = NoClick /\ connected /\ restarts' = restarts
     => \A ch \in Channel :
          bound[ch] # None /\ click.heard[bound[ch]] # None
          => retained'[ch] = click.heard[bound[ch]]]_vars
=============================================================================
