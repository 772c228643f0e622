------------------------------ MODULE Listeners ------------------------------
(***************************************************************************)
(* The listeners of Jeedom that relay the info commands of the published   *)
(* entities to the daemon (core/php/jeedom2ha_state_listeners.php).  Every *)
(* sync and every "publier" of the console realigns them, each in its own  *)
(* PHP process and without any lock: fetch the targets from the daemon,    *)
(* list the listeners there are, create one per target, remove the listed  *)
(* ones.  Each save and each removal may be the last one of its process.   *)
(***************************************************************************)
EXTENDS Integers

CONSTANTS
  Cmd,      \* the info commands
  Process   \* the PHP processes that realign, one realignment each

VARIABLES
  published,  \* the commands the daemon names (list_state_targets)
  listeners,  \* the table of Jeedom: [id, cmd]
  lastId,     \* its AUTO_INCREMENT
  realign     \* the realignment of each process

vars == <<published, listeners, lastId, realign>>

Listener == [id : Nat, cmd : Cmd]
Listened == {l.cmd : l \in listeners}

\* targets: what the daemon answered; left: those without a new listener yet;
\* listed: the listeners to remove; top: the identifiers given out at that time.
Idle == [step |-> "idle", targets |-> {}, left |-> {}, listed |-> {}, top |-> 0]

\* The one listener per published command of a realignment that went well.
Init ==
  /\ published \in SUBSET Cmd
  /\ listeners \in {{[id |-> 0, cmd |-> c] : c \in C} : C \in SUBSET Cmd}
  /\ lastId = 0
  /\ realign = [p \in Process |-> Idle]

\* The daemon answers with its published commands.  A realignment without a usable
\* answer, or that cannot list the listeners, touches nothing: it is not a process.
Fetch(p) ==
  /\ realign[p].step = "idle"
  /\ realign' = [realign EXCEPT ![p].step = "fetched",
                                ![p].targets = published, ![p].left = published]
  /\ UNCHANGED <<published, listeners, lastId>>

List(p) ==
  /\ realign[p].step = "fetched"
  /\ realign' = [realign EXCEPT ![p].step = "listed",
                                ![p].listed = listeners, ![p].top = lastId]
  /\ UNCHANGED <<published, listeners, lastId>>

\* Mutant: an identifier is reused.
CreateReused(p) ==
  /\ realign[p].step = "listed"
  /\ \E c \in realign[p].left :
       /\ listeners' = listeners \cup {[id |-> lastId + 1, cmd |-> c]}
       /\ lastId' = realign[p].top + 1
       /\ realign' = [realign EXCEPT ![p].left = @ \ {c}]
       /\ UNCHANGED published
Create(p) ==
  /\ realign[p].step = "listed"
  /\ \E c \in realign[p].left :
       /\ listeners' = listeners \cup {[id |-> lastId + 1, cmd |-> c]}
       /\ lastId' = lastId + 1
       /\ realign' = [realign EXCEPT ![p].left = @ \ {c}]
       /\ UNCHANGED published

\* Mutant: the old listeners are removed before the new ones are created.
RemoveFirst(p) ==
  /\ realign[p].step = "listed"
  /\ \E l \in realign[p].listed :
       /\ listeners' = listeners \ {l}
       /\ realign' = [realign EXCEPT ![p].listed = @ \ {l}]
       /\ UNCHANGED <<published, lastId>>
Remove(p) ==
  /\ realign[p].step = "listed" /\ realign[p].left = {}
  /\ \E l \in realign[p].listed :
       /\ listeners' = listeners \ {l}
       /\ realign' = [realign EXCEPT ![p].listed = @ \ {l}]
       /\ UNCHANGED <<published, lastId>>

\* An exception ends the creation (the old listeners stay) or the removal (they are
\* doubled), or all is done: the process takes no further step.
Realign(p) == Fetch(p) \/ List(p) \/ Create(p) \/ Remove(p)

\* A publication of the daemon: a sync, or an action of the console.
Publish ==
  /\ published' \in SUBSET Cmd
  /\ UNCHANGED <<listeners, lastId, realign>>

Next == Publish \/ \E p \in Process : Realign(p)
Spec == Init /\ [][Next]_vars

----------------------------------------------------------------------------
\* The type of the state; no identifier is given out twice.
TypeOK ==
  /\ published \subseteq Cmd
  /\ listeners \subseteq Listener
  /\ lastId \in Nat
  /\ realign \in [Process -> [step : {"idle", "fetched", "listed"},
                              targets : SUBSET Cmd, left : SUBSET Cmd,
                              listed : SUBSET Listener, top : Nat]]
  /\ \A l, m \in listeners : l.id = m.id => l = m \/ l.id = 0

\* A command that every realignment so far was told to listen to keeps a listener,
\* whatever the overlaps of the realignments and wherever their exceptions stop them
\* ("Aucune commande ne se retrouve sans ecouteur",
\* jeedom2ha_state_listeners.php:63-66).
LastListenerKept ==
  [][\A c \in Listened \ Listened' :
       \E p \in Process : realign[p].step # "idle" /\ c \notin realign[p].targets
    ]_vars
=============================================================================
