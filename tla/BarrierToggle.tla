--------------------------- MODULE BarrierToggle ---------------------------
(***************************************************************************)
(* The orders sent by Home Assistant to one gate or garage door that       *)
(* Jeedom drives with a single toggle command (sync/command.py, story      *)
(* 24.7).  A toggle only has a direction when the door is at rest at an    *)
(* end position, so the daemon guards every order by                       *)
(*   - a per-equipment lock, armed as a marker before the first await and  *)
(*     kept after the send until an event proves the effect;               *)
(*   - a fresh read of the state, over JSON-RPC, right before the send.    *)
(* _barrier_in_flight_locks is keyed by equipment and no code relates two  *)
(* of its entries: the module follows one equipment.  Each order is one    *)
(* task of the event loop; a step of the module is what a task does        *)
(* between two awaits.  Jeedom, the door and the HTTP requests that carry  *)
(* the events are the environment.                                         *)
(***************************************************************************)
EXTENDS Naturals, Sequences

CONSTANTS
  Order,         \* the command messages HA sends to this equipment
  Timeout,       \* BARRIER_TOGGLE_IN_FLIGHT_TIMEOUT_S, in ticks
  MaxTime,       \* bound of the clock
  MaxEvents,     \* bound of the events on their way to the daemon
  Reordered,     \* events may overtake one another
  OtherActors,   \* remote control, automatic closing, unreadable values
  Restarts       \* the daemon may restart

ASSUME BarrierAssumption ==
  /\ Timeout \in Nat \ {0}
  /\ MaxTime \in Nat /\ MaxEvents \in Nat
  /\ Reordered \in BOOLEAN /\ OtherActors \in BOOLEAN /\ Restarts \in BOOLEAN

VARIABLES
  lock,      \* the entry of _barrier_in_flight_locks, or NoLock
  phase,     \* where the task of each order is
  answer,    \* the value the fresh read of each order was answered
  requested, \* the payload of each order
  lastEvent, \* last_event(eq, state_cmd): reception time and value
  now,       \* time.monotonic()
  door,      \* what the door does
  info,      \* the value of the state command in Jeedom
  events,    \* state events on their way to the daemon
  wire,      \* orders whose toggle is on its way to the door
  unproved   \* history: toggles sent whose effect no event has shown yet

vars == <<lock, phase, answer, requested, lastEvent, now, door, info, events,
          wire, unproved>>
tasks == <<phase, requested, answer>>
daemon == <<lock, lastEvent, unproved>>
environment == <<door, info, events>>

Request == {"OPEN", "CLOSE"}
DoorState == {"closed", "closing", "stopped", "opening", "open"}
BarrierState == DoorState \cup {"unknown"}   \* barrier_state(): unknown = None
Phase == {"new", "reading", "answered", "sending", "done", "refused", "locked",
          "lost"}

NoLock == [stage |-> "free"]
NoEvent == [state |-> "never"]

\* The marker armed before any await, then completed when the toggle leaves.
Marker(o) == [stage |-> "marker", owner |-> o]
\* Mutant: the payload is kept instead of the state that was read.
InFlightFromPayload(o) ==
  [stage |-> "sent", owner |-> o, sentState |-> requested[o], sentAt |-> now,
   expiresAt |-> now + Timeout]
InFlight(o) ==
  [stage |-> "sent", owner |-> o, sentState |-> answer[o], sentAt |-> now,
   expiresAt |-> now + Timeout]

ExpectedEffect(r) ==
  IF r = "OPEN" THEN {"opening", "open"} ELSE {"closing", "closed"}
ToggleAllowed(r) == IF r = "OPEN" THEN {"closed"} ELSE {"open"}

---------------------------------------------------------------------------
(* The lock. *)

\* The event e, received at e.at, proves the effect of toggle t or, past the
\* delay, that the door has left the state it was read in.
Releases(e, t) ==
  \/ e.at > t.sentAt /\ e.state \in ExpectedEffect(requested[t.owner])
  \/ e.at > t.expiresAt /\ e.state \notin {"unknown", t.sentState}

\* Mutants: the delay alone ends the lock; only a toggle that was sent locks.
LockFreeAfterDelay ==
  \/ lock.stage = "free"
  \/ lock.stage = "sent" /\ now > lock.expiresAt
  \/ lock.stage = "sent" /\ lastEvent.state # "never" /\ Releases(lastEvent, lock)
LockFreeWithoutMarker ==
  \/ lock.stage # "sent"
  \/ lastEvent.state # "never" /\ Releases(lastEvent, lock)

\* _barrier_lock_refusal: only the last event is looked at.
LockFree ==
  \/ lock.stage = "free"
  \/ lock.stage = "sent" /\ lastEvent.state # "never" /\ Releases(lastEvent, lock)

---------------------------------------------------------------------------
(* The task of an order. *)

\* The order meets a lock it cannot release.
RefuseLocked(o, r) ==
  /\ phase[o] = "new"
  /\ ~LockFree
  /\ requested' = [requested EXCEPT ![o] = r]
  /\ phase' = [phase EXCEPT ![o] = "locked"]
  /\ UNCHANGED <<daemon, answer, now, environment, wire>>

\* The check (and release) of the lock, the arming of the marker and the
\* request of the fresh read, with no await between them.
ArmMarker(o, r) ==
  /\ phase[o] = "new"
  /\ LockFree
  /\ requested' = [requested EXCEPT ![o] = r]
  /\ lock' = Marker(o)
  /\ phase' = [phase EXCEPT ![o] = "reading"]
  /\ UNCHANGED <<lastEvent, unproved, answer, now, environment, wire>>

\* _refuse and the CancelledError handler pop the marker only if it is theirs.
PopMarker(o) == lock' = IF lock = Marker(o) THEN NoLock ELSE lock

\* Jeedom serves the read; its answer is on its way back.
ServeRead(o) ==
  /\ phase[o] = "reading"
  /\ answer' = [answer EXCEPT ![o] = info]
  /\ phase' = [phase EXCEPT ![o] = "answered"]
  /\ UNCHANGED <<daemon, requested, now, environment, wire>>

\* The read fails or is cancelled, or answers a state no toggle may leave from.
GuardRefuses(o) ==
  /\ \/ phase[o] = "reading"
     \/ phase[o] = "answered" /\ answer[o] \notin ToggleAllowed(requested[o])
  /\ PopMarker(o)
  /\ phase' = [phase EXCEPT ![o] = "refused"]
  /\ UNCHANGED <<lastEvent, unproved, requested, answer, now, environment, wire>>

\* The read answers an allowed state: the marker becomes the in-flight lock
\* before the toggle leaves.
SendToggle(o) ==
  /\ phase[o] = "answered"
  /\ answer[o] \in ToggleAllowed(requested[o])
  /\ lock' = IF lock = Marker(o) THEN InFlight(o) ELSE lock
  /\ phase' = [phase EXCEPT ![o] = "sending"]
  /\ wire' = wire \cup {o}
  /\ unproved' = unproved \cup {InFlight(o)}
  /\ UNCHANGED <<lastEvent, requested, answer, now, environment>>

\* Mutant: the end of the RPC ends the lock.
SendReturnsUnlocking(o) ==
  /\ phase[o] = "sending"
  /\ phase' = [phase EXCEPT ![o] = "done"]
  /\ lock' = NoLock
  /\ UNCHANGED <<lastEvent, unproved, requested, answer, now, environment, wire>>

\* _execute_exec_cmd returns, on an answer, an error or its timeout: the lock
\* is left as it is, and the toggle may still be on its way.
SendReturns(o) ==
  /\ phase[o] = "sending"
  /\ phase' = [phase EXCEPT ![o] = "done"]
  /\ UNCHANGED <<daemon, requested, answer, now, environment, wire>>

---------------------------------------------------------------------------
(* The daemon receives a state event: handle_state_message records it before *)
(* any other guard.                                                         *)

Receive(s) ==
  LET e == [at |-> now, state |-> s] IN
  /\ lastEvent' = e
  /\ unproved' = {t \in unproved : ~Releases(e, t)}

Without(i) == SubSeq(events, 1, i - 1) \o SubSeq(events, i + 1, Len(events))

StateEvent ==
  \E i \in 1..Len(events) :
    /\ i = 1 \/ Reordered
    /\ Receive(events[i])
    /\ events' = Without(i)
    /\ UNCHANGED <<lock, tasks, now, door, info, wire>>

\* The locks and the events live in memory only: a restart forgets them.
Restart ==
  /\ Restarts
  /\ lock' = NoLock
  /\ lastEvent' = NoEvent
  /\ unproved' = {}
  /\ phase' = [o \in Order |-> IF phase[o] \in {"reading", "answered", "sending"}
                                 THEN "lost" ELSE phase[o]]
  /\ UNCHANGED <<requested, answer, now, environment, wire>>

---------------------------------------------------------------------------
(* Jeedom and the door. *)

\* A toggle starts a door at rest, stops a moving one, and restarts a stopped
\* one in a direction the state does not tell.
Toggled(d) ==
  IF d = "closed" THEN {"opening"}
  ELSE IF d = "open" THEN {"closing"}
  ELSE IF d = "stopped" THEN {"opening", "closing"}
  ELSE {"stopped"}

ExecuteToggle(o) ==
  /\ o \in wire
  /\ wire' = wire \ {o}
  /\ door' \in Toggled(door)
  /\ UNCHANGED <<daemon, tasks, now, info, events>>

LoseToggle(o) ==
  /\ o \in wire
  /\ wire' = wire \ {o}
  /\ UNCHANGED <<daemon, tasks, now, environment>>

ReachEnd ==
  /\ door \in {"opening", "closing"}
  /\ door' = IF door = "opening" THEN "open" ELSE "closed"
  /\ UNCHANGED <<daemon, tasks, now, info, events, wire>>

MovedByOther ==
  /\ OtherActors
  /\ door' \in Toggled(door)
  /\ UNCHANGED <<daemon, tasks, now, info, events, wire>>

\* Jeedom learns the state of the door and its listener posts the event.
Report ==
  /\ Len(events) < MaxEvents
  /\ info' \in {door} \cup (IF OtherActors THEN {"unknown"} ELSE {})
  /\ info' # info
  /\ events' = Append(events, info')
  /\ UNCHANGED <<daemon, tasks, now, door, wire>>

Tick ==
  /\ now < MaxTime
  /\ now' = now + 1
  /\ UNCHANGED <<daemon, tasks, environment, wire>>

---------------------------------------------------------------------------
Init ==
  /\ lock = NoLock
  /\ phase = [o \in Order |-> "new"]
  /\ answer = [o \in Order |-> "unknown"]
  /\ requested = [o \in Order |-> "OPEN"]
  /\ lastEvent = NoEvent
  /\ now = 0
  /\ door \in {"closed", "open"} /\ info = door
  /\ events = <<>>
  /\ wire = {}
  /\ unproved = {}

Next ==
  \/ \E o \in Order, r \in Request : RefuseLocked(o, r) \/ ArmMarker(o, r)
  \/ \E o \in Order :
       ServeRead(o) \/ GuardRefuses(o) \/ SendToggle(o) \/ SendReturns(o)
  \/ StateEvent \/ Restart
  \/ \E o \in wire : ExecuteToggle(o) \/ LoseToggle(o)
  \/ ReachEnd \/ MovedByOther \/ Report \/ Tick

Spec == Init /\ [][Next]_vars

---------------------------------------------------------------------------
(* Properties. *)

Sent == [stage : {"sent"}, owner : Order, sentState : BarrierState,
         sentAt : Nat, expiresAt : Nat]

TypeOK ==
  /\ lock \in {NoLock} \cup {Marker(o) : o \in Order} \cup Sent
  /\ lastEvent \in {NoEvent} \cup [at : Nat, state : BarrierState]
  /\ unproved \in SUBSET Sent
  /\ phase \in [Order -> Phase]
  /\ requested \in [Order -> Request]
  /\ answer \in [Order -> BarrierState]
  /\ now \in Nat
  /\ door \in DoorState /\ info \in BarrierState
  /\ events \in Seq(BarrierState)
  /\ wire \in SUBSET Order

\* A toggle whose effect no event has shown is the one the lock holds: neither
\* an RPC timeout, a refused or cancelled order nor an event that proves nothing
\* frees the door for a second toggle, so at most one is unproved.
UnprovedIsLocked == unproved \subseteq {lock}

\* An order whose guard is running owns the marker: two orders of one door are
\* never both between the check of the lock and the send, whatever delivers them.
GuardOwnsMarker ==
  \A o \in Order : phase[o] \in {"reading", "answered"} => lock = Marker(o)

\* As long as only the daemon moves the door, a toggle that reaches it finds it at
\* the end position its order starts from, and moves it the way HA asked.
ToggleDoesWhatWasAsked ==
  [][\A o \in wire : ExecuteToggle(o) =>
       /\ door \in ToggleAllowed(requested[o])
       /\ door' \in ExpectedEffect(requested[o])]_vars

\* "one toggle of an equipment, from its guard until the expected state change"
\* (docstring of _BarrierToggleInFlight): an order is only refused by the lock
\* while a guard runs or the effect of the last toggle has not been received.
LockEndsWithExpectedChange ==
  [][\A o \in Order, r \in Request : RefuseLocked(o, r) =>
       lock.stage = "marker" \/ lock \in unproved]_vars

\* The promise of the lock: one toggle at a time.
Flight == INSTANCE OneFlight WITH
  deciding <- {o \in Order : phase[o] \in {"reading", "answered"}},
  flying <- {t.owner : t \in unproved}
OneToggleAtATime == Flight!Spec
=============================================================================
