------------------------- MODULE BarrierToggleProofs -------------------------
(***************************************************************************)
(* Proofs about BarrierToggle, for any set of orders and any bounds: its   *)
(* types and its lock, the abstract specification it implements, and where *)
(* the door is when a toggle reaches it.                                   *)
(***************************************************************************)
EXTENDS BarrierToggle, SequenceTheorems, TLAPS

\* What the last event recorded knows about the lock: it never dates from the
\* future, it belongs to an order that has been handled, and if it frees the lock
\* then it has already proved the effect of the toggle.
EventAgrees ==
  /\ lastEvent.state # "never" => lastEvent.at <= now
  /\ lock.stage = "sent" => phase[lock.owner] # "new"
  /\ lock.stage = "sent" /\ lastEvent.state # "never" /\ Releases(lastEvent, lock)
       => lock \notin unproved

Inv == TypeOK /\ UnprovedIsLocked /\ GuardOwnsMarker /\ EventAgrees

---------------------------------------------------------------------------
\* The three shapes of a lock are told apart by their stage.
LEMMA LockShapes ==
  ASSUME TypeOK
  PROVE  /\ lock.stage = "free" => lock = NoLock
         /\ lock.stage = "marker" => \E o \in Order : lock = Marker(o)
         /\ lock.stage = "sent" => lock \in Sent
         /\ \A t \in unproved : t \in Sent /\ t.stage = "sent"
BY DEF TypeOK, NoLock, Marker, Sent

\* While the lock is free to be taken, no toggle is without proven effect.
LEMMA LockFreeMeansNoneUnproved ==
  ASSUME Inv, LockFree
  PROVE  unproved = {}
BY LockShapes DEF Inv, LockFree, UnprovedIsLocked, EventAgrees, NoLock

\* While a guard runs, no toggle is without proven effect.
LEMMA MarkerMeansNoneUnproved ==
  ASSUME Inv, NEW o \in Order, lock = Marker(o)
  PROVE  unproved = {}
BY LockShapes DEF Inv, UnprovedIsLocked, Marker

\* Taking one event out of the queue leaves a queue of states.
LEMMA WithoutType ==
  ASSUME events \in Seq(BarrierState), NEW i \in 1..Len(events)
  PROVE  /\ Without(i) \in Seq(BarrierState)
         /\ events[i] \in BarrierState
<1>1. Len(events) \in Nat /\ i \in Nat /\ 1 <= i /\ i <= Len(events)
  BY LenProperties
<1>2. events[i] \in BarrierState
  BY <1>1, ElementOfSeq
<1>3. \A k \in 1..Len(events) : events[k] \in BarrierState
  BY ElementOfSeq
<1>4. SubSeq(events, 1, i - 1) \in Seq(BarrierState)
  BY <1>1, <1>3, SubSeqProperties
<1>5. SubSeq(events, i + 1, Len(events)) \in Seq(BarrierState)
  BY <1>1, <1>3, SubSeqProperties
<1>6. QED
  BY <1>2, <1>4, <1>5, ConcatProperties DEF Without

---------------------------------------------------------------------------
\* The groups of variables the actions leave unchanged.
USE DEF tasks, daemon, environment

LEMMA InitInv == Init => Inv
BY DEF Init, Inv, TypeOK, UnprovedIsLocked, GuardOwnsMarker, EventAgrees, NoLock,
       NoEvent, Phase, Request, BarrierState, DoorState

LEMMA RefuseLockedInv ==
  ASSUME Inv, NEW o \in Order, NEW r \in Request, RefuseLocked(o, r)
  PROVE  Inv'
<1>1. TypeOK'
  BY DEF Inv, TypeOK, RefuseLocked, Phase
<1>2. UnprovedIsLocked' /\ GuardOwnsMarker'
  BY DEF Inv, TypeOK, UnprovedIsLocked, GuardOwnsMarker, RefuseLocked
<1>3. EventAgrees'
  <2>1. lock.stage = "sent" => lock.owner # o /\ lock.owner \in Order
    BY LockShapes DEF Inv, EventAgrees, RefuseLocked, Sent
  <2>2. lock.stage = "sent" => requested'[lock.owner] = requested[lock.owner]
                              /\ phase'[lock.owner] = phase[lock.owner]
    BY <2>1 DEF Inv, TypeOK, RefuseLocked
  <2>3. QED
    BY <2>2 DEF Inv, EventAgrees, RefuseLocked, Releases
<1>4. QED
  BY <1>1, <1>2, <1>3 DEF Inv

LEMMA ArmMarkerInv ==
  ASSUME Inv, NEW o \in Order, NEW r \in Request, ArmMarker(o, r)
  PROVE  Inv'
<1>1. TypeOK'
  BY DEF Inv, TypeOK, ArmMarker, Phase
<1>2. unproved = {} /\ unproved' = {}
  BY LockFreeMeansNoneUnproved DEF ArmMarker
<1>3. UnprovedIsLocked' /\ EventAgrees'
  BY <1>2 DEF UnprovedIsLocked, EventAgrees, Inv, ArmMarker, Marker
<1>4. GuardOwnsMarker'
  <2>1. \A p \in Order : phase[p] \notin {"reading", "answered"}
    BY DEF Inv, GuardOwnsMarker, ArmMarker, LockFree, Marker
  <2>2. QED
    BY <2>1 DEF Inv, TypeOK, GuardOwnsMarker, ArmMarker
<1>5. QED
  BY <1>1, <1>3, <1>4 DEF Inv

LEMMA ServeReadInv ==
  ASSUME Inv, NEW o \in Order, ServeRead(o)
  PROVE  Inv'
<1>1. TypeOK'
  BY DEF Inv, TypeOK, ServeRead, Phase
<1>2. UnprovedIsLocked' /\ GuardOwnsMarker'
  BY DEF Inv, TypeOK, UnprovedIsLocked, GuardOwnsMarker, ServeRead
<1>3. EventAgrees'
  BY LockShapes DEF Inv, TypeOK, EventAgrees, ServeRead, Releases, Sent
<1>4. QED
  BY <1>1, <1>2, <1>3 DEF Inv

LEMMA GuardRefusesInv ==
  ASSUME Inv, NEW o \in Order, GuardRefuses(o)
  PROVE  Inv'
<1>1. lock = Marker(o) /\ lock' = NoLock
  BY DEF Inv, GuardOwnsMarker, GuardRefuses, PopMarker
<1>2. unproved' = {}
  BY <1>1, MarkerMeansNoneUnproved DEF GuardRefuses
<1>3. TypeOK'
  BY <1>1 DEF Inv, TypeOK, GuardRefuses, Phase
<1>4. UnprovedIsLocked' /\ EventAgrees'
  BY <1>1, <1>2 DEF UnprovedIsLocked, EventAgrees, Inv, GuardRefuses, NoLock
<1>5. GuardOwnsMarker'
  BY <1>1 DEF Inv, TypeOK, GuardOwnsMarker, GuardRefuses, Marker
<1>6. QED
  BY <1>3, <1>4, <1>5 DEF Inv

LEMMA SendToggleInv ==
  ASSUME Inv, NEW o \in Order, SendToggle(o)
  PROVE  Inv'
<1>1. lock = Marker(o) /\ lock' = InFlight(o)
  BY DEF Inv, GuardOwnsMarker, SendToggle
<1>2. InFlight(o) \in Sent
  BY BarrierAssumption DEF InFlight, Sent, Inv, TypeOK
<1>3. unproved' = {InFlight(o)}
  BY <1>1, MarkerMeansNoneUnproved DEF SendToggle
<1>4. TypeOK'
  BY <1>1, <1>2, <1>3 DEF Inv, TypeOK, SendToggle, Phase
<1>5. UnprovedIsLocked'
  BY <1>1, <1>3 DEF UnprovedIsLocked
<1>6. GuardOwnsMarker'
  BY <1>1 DEF Inv, TypeOK, GuardOwnsMarker, SendToggle, Marker
<1>7. EventAgrees'
  <2>1. lock'.owner = o /\ lock'.sentAt = now /\ lock'.expiresAt = now + Timeout
    BY <1>1 DEF InFlight
  <2>2. lastEvent' = lastEvent /\ now' = now /\ now \in Nat
    BY DEF SendToggle, Inv, TypeOK
  <2>3. lastEvent.state # "never" => lastEvent.at \in Nat /\ lastEvent.at <= now
    BY DEF Inv, TypeOK, EventAgrees, NoEvent
  <2>4. lastEvent'.state # "never" => ~Releases(lastEvent, lock)'
    BY <2>1, <2>2, <2>3, BarrierAssumption DEF Releases
  <2>5. phase'[o] = "sending"
    BY DEF Inv, TypeOK, SendToggle
  <2>6. QED
    BY <2>1, <2>2, <2>3, <2>4, <2>5 DEF EventAgrees
<1>8. QED
  BY <1>4, <1>5, <1>6, <1>7 DEF Inv

LEMMA SendReturnsInv ==
  ASSUME Inv, NEW o \in Order, SendReturns(o)
  PROVE  Inv'
<1>1. TypeOK'
  BY DEF Inv, TypeOK, SendReturns, Phase
<1>2. UnprovedIsLocked' /\ GuardOwnsMarker'
  BY DEF Inv, TypeOK, UnprovedIsLocked, GuardOwnsMarker, SendReturns
<1>3. EventAgrees'
  BY LockShapes DEF Inv, TypeOK, EventAgrees, SendReturns, Releases, Sent
<1>4. QED
  BY <1>1, <1>2, <1>3 DEF Inv

LEMMA StateEventInv ==
  ASSUME Inv, StateEvent
  PROVE  Inv'
<1>1. PICK i \in 1..Len(events) : Receive(events[i]) /\ events' = Without(i)
  BY DEF StateEvent
<1>2. UNCHANGED <<lock, tasks, now, door, info, wire>>
  BY DEF StateEvent
<1>3. events' \in Seq(BarrierState) /\ events[i] \in BarrierState
  BY <1>1, WithoutType DEF Inv, TypeOK
<1>4. unproved' \subseteq unproved
  BY <1>1 DEF Receive
<1>5. lastEvent' = [at |-> now, state |-> events[i]]
  BY <1>1 DEF Receive
<1>6. TypeOK'
  BY <1>2, <1>3, <1>4, <1>5 DEF Inv, TypeOK
<1>7. UnprovedIsLocked' /\ GuardOwnsMarker'
  BY <1>2, <1>4 DEF Inv, UnprovedIsLocked, GuardOwnsMarker
<1>8. EventAgrees'
  <2>1. lastEvent'.at = now /\ now' = now /\ now \in Nat
    BY <1>2, <1>5 DEF Inv, TypeOK
  <2>2. lock' \in unproved' => ~Releases(lastEvent', lock')
    BY <1>1, <1>2, <1>5 DEF Receive
  <2>3. Releases(lastEvent, lock)' <=> Releases(lastEvent', lock')
    BY <1>2 DEF Releases
  <2>4. QED
    BY <1>2, <2>1, <2>2, <2>3 DEF Inv, EventAgrees
<1>9. QED
  BY <1>6, <1>7, <1>8 DEF Inv

LEMMA RestartInv ==
  ASSUME Inv, Restart
  PROVE  Inv'
<1>1. TypeOK'
  BY DEF Inv, TypeOK, Restart, Phase, NoLock, NoEvent
<1>2. UnprovedIsLocked' /\ EventAgrees'
  BY DEF Restart, UnprovedIsLocked, EventAgrees, NoLock, NoEvent
<1>3. GuardOwnsMarker'
  BY DEF Inv, TypeOK, GuardOwnsMarker, Restart
<1>4. QED
  BY <1>1, <1>2, <1>3 DEF Inv

\* The steps of Jeedom, of the door and of the clock leave the daemon alone.
LEMMA OutsideInv ==
  ASSUME Inv,
         \/ \E o \in wire : ExecuteToggle(o) \/ LoseToggle(o)
         \/ ReachEnd \/ MovedByOther \/ Report \/ Tick
  PROVE  Inv'
<1>1. UNCHANGED <<daemon, tasks>> /\ now' \in Nat /\ now <= now'
  BY DEF Inv, TypeOK, ExecuteToggle, LoseToggle, ReachEnd, MovedByOther, Report, Tick
<1>2. UNCHANGED <<lock, lastEvent, unproved, phase, requested, answer>>
  BY <1>1
<1>3. door' \in DoorState
  BY DEF Inv, TypeOK, ExecuteToggle, LoseToggle, ReachEnd, MovedByOther, Report, Tick,
         Toggled, DoorState
<1>4. info' \in BarrierState /\ events' \in Seq(BarrierState)
  <2>1. CASE Report
    <3>1. info' \in BarrierState
      BY <2>1 DEF Report, Inv, TypeOK, BarrierState
    <3>2. QED
      BY <2>1, <3>1, AppendProperties DEF Report, Inv, TypeOK
  <2>2. CASE UNCHANGED <<info, events>>
    BY <2>2 DEF Inv, TypeOK
  <2>3. QED
    BY <2>1, <2>2 DEF ExecuteToggle, LoseToggle, ReachEnd, MovedByOther, Tick
<1>5. wire' \in SUBSET Order
  BY DEF Inv, TypeOK, ExecuteToggle, LoseToggle, ReachEnd, MovedByOther, Report, Tick
<1>6. TypeOK'
  BY <1>1, <1>2, <1>3, <1>4, <1>5 DEF Inv, TypeOK
<1>7. UnprovedIsLocked' /\ GuardOwnsMarker'
  BY <1>2 DEF Inv, UnprovedIsLocked, GuardOwnsMarker
<1>8. EventAgrees'
  <2>1. lastEvent.state # "never" => lastEvent.at \in Nat
    BY DEF Inv, TypeOK, NoEvent
  <2>2. lastEvent.state # "never" => lastEvent.at <= now'
    BY <1>1, <2>1 DEF Inv, TypeOK, EventAgrees
  <2>3. QED
    BY <1>2, <2>2 DEF Inv, EventAgrees, Releases
<1>9. QED
  BY <1>6, <1>7, <1>8 DEF Inv

LEMMA NextInv == Inv /\ [Next]_vars => Inv'
<1> SUFFICES ASSUME Inv, [Next]_vars PROVE Inv'
  OBVIOUS
<1>1. CASE UNCHANGED vars
  BY <1>1 DEF vars, Inv, TypeOK, UnprovedIsLocked, GuardOwnsMarker, EventAgrees,
              Releases
<1>2. CASE Next
  BY <1>2, RefuseLockedInv, ArmMarkerInv, ServeReadInv, GuardRefusesInv,
     SendToggleInv, SendReturnsInv, StateEventInv, RestartInv, OutsideInv DEF Next
<1>3. QED
  BY <1>1, <1>2

\* Inv is an invariant of the guard: every safety theorem below follows from it.
LEMMA InvHolds == Spec => []Inv
BY InitInv, NextInv, PTL DEF Spec

\* Every variable keeps its type, for any set of orders and any delay.
THEOREM TypeCorrect == Spec => []TypeOK
BY InvHolds, PTL DEF Inv

\* The toggle without proven effect is always the one the lock holds, so a second
\* toggle is never sent before the first has shown an effect (B1, I-1, I-2).
THEOREM UnprovedAlwaysLocked == Spec => []UnprovedIsLocked
BY InvHolds, PTL DEF Inv

\* Two orders are never both between the check of the lock and the send (I-3).
THEOREM GuardIsExclusive == Spec => []GuardOwnsMarker
BY InvHolds, PTL DEF Inv

---------------------------------------------------------------------------
(* The guard implements OneFlight. *)

Deciding == {o \in Order : phase[o] \in {"reading", "answered"}}
Flying == {t.owner : t \in unproved}

LEMMA InitRefines == Init => Flight!Init
BY DEF Init, Flight!Init

\* No order is being decided while the lock may be taken.
LEMMA LockFreeMeansNoneDeciding ==
  ASSUME Inv, LockFree
  PROVE  Deciding = {}
BY DEF Inv, GuardOwnsMarker, LockFree, Marker, Deciding

\* The order that owns the marker is the only one being decided.
LEMMA MarkerMeansOneDeciding ==
  ASSUME Inv, NEW o \in Order, phase[o] \in {"reading", "answered"}
  PROVE  Deciding = {o} /\ lock = Marker(o) /\ unproved = {}
<1>1. lock = Marker(o)
  BY DEF Inv, GuardOwnsMarker
<1>2. \A p \in Order : phase[p] \in {"reading", "answered"} => p = o
  BY <1>1 DEF Inv, GuardOwnsMarker, Marker
<1>3. unproved = {}
  BY <1>1, MarkerMeansNoneUnproved
<1>4. QED
  BY <1>1, <1>2, <1>3 DEF Deciding

LEMMA ArmMarkerRefines ==
  ASSUME Inv, NEW o \in Order, NEW r \in Request, ArmMarker(o, r)
  PROVE  Flight!Decide(o)
<1>1. Deciding = {} /\ unproved = {} /\ unproved' = {}
  BY LockFreeMeansNoneDeciding, LockFreeMeansNoneUnproved DEF ArmMarker
<1>2. Deciding' = {o}
  BY <1>1 DEF Inv, TypeOK, ArmMarker, Deciding
<1>3. QED
  BY <1>1, <1>2 DEF Flight!Decide, Deciding

LEMMA GuardRefusesRefines ==
  ASSUME Inv, NEW o \in Order, GuardRefuses(o)
  PROVE  Flight!Abandon(o)
<1>1. Deciding = {o} /\ unproved = {} /\ unproved' = {}
  BY MarkerMeansOneDeciding DEF GuardRefuses
<1>2. Deciding' = {}
  BY <1>1 DEF Inv, TypeOK, GuardRefuses, Deciding
<1>3. QED
  BY <1>1, <1>2 DEF Flight!Abandon, Deciding

LEMMA SendToggleRefines ==
  ASSUME Inv, NEW o \in Order, SendToggle(o)
  PROVE  Flight!Send(o)
<1>1. Deciding = {o} /\ unproved = {}
  BY MarkerMeansOneDeciding DEF SendToggle
<1>2. Deciding' = {}
  BY <1>1 DEF Inv, TypeOK, SendToggle, Deciding
<1>3. unproved' = {InFlight(o)}
  BY <1>1 DEF SendToggle
<1>4. Flying' = {o}
  BY <1>3 DEF Flying, InFlight
<1>5. QED
  BY <1>1, <1>2, <1>4 DEF Flight!Send, Deciding, Flying

LEMMA StateEventRefines ==
  ASSUME Inv, StateEvent
  PROVE  (\E o \in Order : Flight!Effect(o)) \/ UNCHANGED <<Deciding, Flying>>
<1>1. Deciding' = Deciding /\ unproved' \subseteq unproved
  BY DEF StateEvent, Receive, Deciding
<1>2. CASE unproved' = unproved
  BY <1>1, <1>2 DEF Flying
<1>3. CASE unproved' # unproved
  <2>1. unproved = {lock} /\ unproved' = {}
    BY <1>1, <1>3 DEF Inv, UnprovedIsLocked
  <2>2. lock.owner \in Order /\ Flying = {lock.owner} /\ Flying' = {}
    BY <2>1 DEF Inv, TypeOK, Sent, Flying
  <2>3. QED
    BY <1>1, <2>2 DEF Flight!Effect, Deciding, Flying
<1>4. QED
  BY <1>2, <1>3

LEMMA RestartRefines ==
  ASSUME Inv, Restart
  PROVE  Flight!Forget
BY DEF Inv, TypeOK, Restart, Flight!Forget

\* The other steps do not show in OneFlight.
LEMMA StutterRefines ==
  ASSUME Inv,
         \/ \E o \in Order, r \in Request : RefuseLocked(o, r)
         \/ \E o \in Order : ServeRead(o) \/ SendReturns(o)
         \/ \E o \in wire : ExecuteToggle(o) \/ LoseToggle(o)
         \/ ReachEnd \/ MovedByOther \/ Report \/ Tick
         \/ UNCHANGED vars
  PROVE  UNCHANGED <<Deciding, Flying>>
<1>1. unproved' = unproved
  BY DEF RefuseLocked, ServeRead, SendReturns, ExecuteToggle, LoseToggle, ReachEnd,
         MovedByOther, Report, Tick, vars
<1>2. \A o \in Order : phase'[o] \in {"reading", "answered"}
                       <=> phase[o] \in {"reading", "answered"}
  BY DEF RefuseLocked, ServeRead, SendReturns, ExecuteToggle, LoseToggle, ReachEnd,
         MovedByOther, Report, Tick, vars, Inv, TypeOK
<1>3. QED
  BY <1>1, <1>2 DEF Deciding, Flying

LEMMA NextRefines ==
  Inv /\ [Next]_vars => [Flight!Next]_<<Deciding, Flying>>
<1> SUFFICES ASSUME Inv, [Next]_vars PROVE [Flight!Next]_<<Deciding, Flying>>
  OBVIOUS
<1>1. CASE \E o \in Order, r \in Request : ArmMarker(o, r)
  BY <1>1, ArmMarkerRefines DEF Flight!Next
<1>2. CASE \E o \in Order : GuardRefuses(o) \/ SendToggle(o)
  BY <1>2, GuardRefusesRefines, SendToggleRefines DEF Flight!Next
<1>3. CASE StateEvent
  BY <1>3, StateEventRefines DEF Flight!Next
<1>4. CASE Restart
  BY <1>4, RestartRefines DEF Flight!Next
<1>5. QED
  BY <1>1, <1>2, <1>3, <1>4, StutterRefines DEF Next

\* Whatever the events and the concurrent orders, the guard lets one toggle leave
\* at a time: it implements OneFlight.
THEOREM ImplementsOneFlight == Spec => OneToggleAtATime
<1>1. Inv /\ [Next]_vars
        => [Flight!Next]_<<{o \in Order : phase[o] \in {"reading", "answered"}},
                          {t.owner : t \in unproved}>>
  BY NextRefines DEF Deciding, Flying
<1>2. QED
  BY InitRefines, InvHolds, <1>1, PTL DEF Spec, OneToggleAtATime, Flight!Spec

---------------------------------------------------------------------------
(* What a toggle makes the door do, when only the daemon moves it. *)

\* Where an order starts from, what it makes the door do and where that ends.
Start(r) == IF r = "OPEN" THEN "closed" ELSE "open"
Moving(r) == IF r = "OPEN" THEN "opening" ELSE "closing"
End(r) == IF r = "OPEN" THEN "open" ELSE "closed"

\* No toggle is on its way: Jeedom is at most late by the end of the last movement, which
\* the events that are left tell, and a read that was answered has not aged.
Quiet ==
  /\ wire = {}
  /\ \E r \in Request :
       /\ \/ door = Moving(r) /\ info = Moving(r)
          \/ door = End(r) /\ info \in {Moving(r), End(r)}
       /\ \A i \in DOMAIN events : events[i] = info /\ info = End(r)
  /\ \A o \in Order :
       phase[o] = "answered" /\ answer[o] \in {"open", "closed"} => info = answer[o]

\* The toggle has not reached the door, which is known to be where the order starts from.
Waiting(o, r) ==
  /\ wire \subseteq {o} /\ door = Start(r) /\ info = Start(r)
  /\ \A i \in DOMAIN events : events[i] = Start(r)

\* The toggle has moved the door, and after the first event that tells it the others
\* only tell the end of the movement.
Moved(r) ==
  /\ wire = {}
  /\ door \in {Moving(r), End(r)} /\ info \in {Start(r), Moving(r), End(r)}
  /\ door = Moving(r) => info # End(r)
  /\ info = Start(r) => \A i \in DOMAIN events : events[i] = Start(r)
  /\ \A i \in DOMAIN events : events[i] \in {Start(r), Moving(r), End(r)}
  /\ \A i, j \in DOMAIN events :
       i < j /\ events[i] # Start(r) => events[j] = End(r) /\ info = End(r)

Underway(t) ==
  LET r == requested[t.owner]
  IN  t.sentState = Start(r) /\ (Waiting(t.owner, r) \/ Moved(r))

\* The door is where the daemon believes it may be.
DoorFollows == (unproved = {} => Quiet) /\ \A t \in unproved : Underway(t)

\* Only the daemon moves the door, it keeps running, and events keep their order.
OwnDoor == Reordered = FALSE /\ OtherActors = FALSE /\ Restarts = FALSE

LEMMA Ways ==
  /\ \A r \in Request : /\ ToggleAllowed(r) = {Start(r)} /\ ExpectedEffect(r) = {Moving(r), End(r)}
                        /\ Toggled(Start(r)) = {Moving(r)}
  /\ Start("OPEN") = "closed" /\ Moving("OPEN") = "opening" /\ End("OPEN") = "open"
  /\ Start("CLOSE") = "open" /\ Moving("CLOSE") = "closing" /\ End("CLOSE") = "closed"
BY DEF Request, ToggleAllowed, ExpectedEffect, Toggled, Start, Moving, End

LEMMA InitFollows == Init => DoorFollows
<1> SUFFICES ASSUME Init PROVE Quiet /\ unproved = {}
  BY DEF DoorFollows
<1>1. \E r \in Request : door = End(r) /\ info = End(r)
  BY Ways DEF Init, Request
<1>2. DOMAIN events = {}
  BY DEF Init
<1>3. QED
  BY <1>1, <1>2 DEF Init, Quiet

\* Nothing but the reception of an event proves a toggle, and an order that only
\* touches its own task leaves the toggle underway.
LEMMA TaskFollows ==
  ASSUME Inv, DoorFollows, UNCHANGED <<door, info, events, wire, unproved>>,
         \A t \in unproved : requested'[t.owner] = requested[t.owner],
         \A o \in Order : phase'[o] = "answered" =>
           \/ phase[o] = "answered" /\ answer'[o] = answer[o]
           \/ answer'[o] = info
  PROVE  DoorFollows'
<1>1. \A t \in unproved : Underway(t)'
  BY DEF DoorFollows, Underway, Waiting, Moved
<1>2. unproved = {} => Quiet'
  BY DEF DoorFollows, Quiet
<1>3. QED
  BY <1>1, <1>2 DEF DoorFollows

\* The toggle underway is the one the lock holds, of an order that has been handled.
LEMMA OwnersAreOld ==
  ASSUME Inv, NEW t \in unproved
  PROVE  t = lock /\ t \in Sent /\ t.owner \in Order /\ phase[t.owner] # "new"
BY LockShapes DEF Inv, UnprovedIsLocked, EventAgrees, Sent

LEMMA RefuseLockedFollows ==
  ASSUME Inv, DoorFollows, NEW o \in Order, NEW r \in Request, RefuseLocked(o, r)
  PROVE  DoorFollows'
<1>1. \A t \in unproved : requested'[t.owner] = requested[t.owner]
  BY OwnersAreOld DEF RefuseLocked, Inv, TypeOK
<1>2. \A p \in Order : phase'[p] = "answered" => phase[p] = "answered" /\ answer'[p] = answer[p]
  BY DEF RefuseLocked, Inv, TypeOK
<1>3. QED
  BY <1>1, <1>2, TaskFollows DEF RefuseLocked

LEMMA ArmMarkerFollows ==
  ASSUME Inv, DoorFollows, NEW o \in Order, NEW r \in Request, ArmMarker(o, r)
  PROVE  DoorFollows'
<1>1. unproved = {}
  BY LockFreeMeansNoneUnproved DEF ArmMarker
<1>2. \A p \in Order : phase'[p] = "answered" => phase[p] = "answered" /\ answer'[p] = answer[p]
  BY DEF ArmMarker, Inv, TypeOK
<1>3. QED
  BY <1>1, <1>2, TaskFollows DEF ArmMarker

LEMMA ServeReadFollows ==
  ASSUME Inv, DoorFollows, NEW o \in Order, ServeRead(o)
  PROVE  DoorFollows'
<1>1. \A p \in Order : phase'[p] = "answered" =>
        \/ phase[p] = "answered" /\ answer'[p] = answer[p]
        \/ answer'[p] = info
  BY DEF ServeRead, Inv, TypeOK
<1>2. QED
  BY <1>1, TaskFollows DEF ServeRead

LEMMA GuardRefusesFollows ==
  ASSUME Inv, DoorFollows, NEW o \in Order, GuardRefuses(o)
  PROVE  DoorFollows'
<1>1. \A p \in Order : phase'[p] = "answered" => phase[p] = "answered" /\ answer'[p] = answer[p]
  BY DEF GuardRefuses, Inv, TypeOK
<1>2. QED
  BY <1>1, TaskFollows DEF GuardRefuses

LEMMA SendReturnsFollows ==
  ASSUME Inv, DoorFollows, NEW o \in Order, SendReturns(o)
  PROVE  DoorFollows'
<1>1. \A p \in Order : phase'[p] = "answered" => phase[p] = "answered" /\ answer'[p] = answer[p]
  BY DEF SendReturns, Inv, TypeOK
<1>2. QED
  BY <1>1, TaskFollows DEF SendReturns

\* The read that allows the toggle is what Jeedom still says, and the door is there.
LEMMA SendToggleFollows ==
  ASSUME Inv, DoorFollows, NEW o \in Order, SendToggle(o)
  PROVE  DoorFollows'
<1>1. unproved = {}
  BY MarkerMeansOneDeciding DEF SendToggle
<1>. DEFINE r == requested[o]
<1>2. r \in Request /\ answer[o] = Start(r) /\ requested'[o] = r
  BY Ways DEF SendToggle, Inv, TypeOK
<1>3. Quiet /\ phase[o] = "answered"
  BY <1>1 DEF DoorFollows, SendToggle
<1>4. info = Start(r) /\ door = Start(r) /\ \A i \in DOMAIN events : events[i] = Start(r)
  BY <1>2, <1>3, Ways DEF Quiet, Request
<1>5. wire' = {o} /\ unproved' = {InFlight(o)} /\ InFlight(o).owner = o
      /\ InFlight(o).sentState = Start(r)
  BY <1>1, <1>2, <1>3 DEF SendToggle, InFlight, Quiet
<1>6. UNCHANGED <<door, info, events, requested>>
  BY DEF SendToggle
<1>7. PICK t : t = InFlight(o)
  OBVIOUS
<1>8. Underway(t)'
  BY <1>2, <1>4, <1>5, <1>6, <1>7 DEF Underway, Waiting
<1>9. QED
  BY <1>5, <1>7, <1>8 DEF DoorFollows

\* Nothing that is Moving or End is Start, and the four are states of the door.
LEMMA Distinct ==
  ASSUME NEW r \in Request
  PROVE  /\ Start(r) # Moving(r) /\ Start(r) # End(r) /\ Moving(r) # End(r)
         /\ Start(r) \in {"closed", "open"} /\ End(r) \in {"closed", "open"}
         /\ Moving(r) \in {"closing", "opening"}
         /\ \A s \in Request : End(s) = Start(r) => End(r) = Start(s) /\ s # r
BY DEF Request, Start, Moving, End

\* Taking the first event out of the queue shifts the others.
LEMMA FirstOut ==
  ASSUME events \in Seq(BarrierState), 1 \in 1..Len(events)
  PROVE  /\ Without(1) \in Seq(BarrierState)
         /\ \A k \in DOMAIN Without(1) :
              k \in DOMAIN events /\ k + 1 \in DOMAIN events /\ Without(1)[k] = events[k + 1]
<1>1. PICK n \in Nat : n = Len(events)
  BY LenProperties
<1>2. 1 <= n /\ DOMAIN events = 1..n /\ \A k \in 1..n : events[k] \in BarrierState
  BY <1>1, LenProperties, ElementOfSeq
<1>. DEFINE a == SubSeq(events, 1, 0)
            b == SubSeq(events, 2, n)
<1>3. a = <<>> /\ a \in Seq(BarrierState)
  BY <1>2, SubSeqProperties, EmptySeq
<1>4. /\ b \in Seq(BarrierState) /\ DOMAIN b = 1..n - 1
      /\ \A k \in 1..n - 1 : b[k] = events[k + 1]
  <2>1. /\ b \in Seq(BarrierState)
        /\ Len(b) = IF 2 <= n THEN n - 2 + 1 ELSE 0
        /\ \A k \in 1..n - 2 + 1 : b[k] = events[2 + k - 1]
    BY <1>2, SubSeqProperties
  <2>2. n - 2 + 1 = n - 1 /\ (IF 2 <= n THEN n - 2 + 1 ELSE 0) = n - 1
    BY <1>2
  <2>3. \A k \in 1..n - 1 : 2 + k - 1 = k + 1
    OBVIOUS
  <2>4. PICK s : s = b
    OBVIOUS
  <2>. HIDE DEF b
  <2>5. s \in Seq(BarrierState) /\ Len(s) = n - 1
    BY <2>1, <2>2, <2>4
  <2>6. DOMAIN s = 1..n - 1
    BY <2>5, LenProperties
  <2>7. \A k \in 1..n - 1 : s[k] = events[k + 1]
    BY <2>1, <2>2, <2>3, <2>4
  <2>8. QED
    BY <2>4, <2>5, <2>6, <2>7
<1>5. Without(1) = a \o b
  BY <1>1 DEF Without
<1>. HIDE DEF a, b
<1>6. Without(1) = b
  BY <1>3, <1>4, <1>5, ConcatSimplifications
<1>7. \A k \in 1..n - 1 : k \in 1..n /\ k + 1 \in 1..n
  BY <1>2
<1>8. QED
  BY <1>2, <1>4, <1>6, <1>7

\* The event that proves a toggle leaves behind it only the end of the movement, which
\* Jeedom knows as well; the others leave the toggle underway.
LEMMA StateEventFollows ==
  ASSUME Inv, DoorFollows, StateEvent, OwnDoor
  PROVE  DoorFollows'
<1>1. 1 \in 1..Len(events) /\ Receive(events[1]) /\ events' = Without(1)
  BY DEF StateEvent, OwnDoor
<1>2. /\ UNCHANGED <<door, info, wire, phase, requested, answer>>
      /\ \A t \in unproved' : t \in unproved /\ ~Releases([at |-> now, state |-> events[1]], t)
      /\ \A t \in unproved : t \in unproved' \/ Releases([at |-> now, state |-> events[1]], t)
  BY <1>1 DEF StateEvent, Receive
<1>3. \A k \in DOMAIN events' : k \in DOMAIN events /\ k + 1 \in DOMAIN events
                                /\ events'[k] = events[k + 1]
  BY <1>1, FirstOut DEF Inv, TypeOK
<1>4. 1 \in DOMAIN events /\ DOMAIN events \in SUBSET Nat /\ DOMAIN events' \in SUBSET Nat
  BY <1>1, <1>3, LenProperties DEF Inv, TypeOK
<1>5. CASE unproved = {}
  <2>1. unproved' = {}
    BY <1>2, <1>5
  <2>2. Quiet
    BY <1>5 DEF DoorFollows
  <2>3. Quiet'
    BY <1>2, <1>3, <2>2 DEF Quiet
  <2>4. QED
    BY <2>1, <2>3 DEF DoorFollows
<1>6. ASSUME NEW t \in unproved PROVE DoorFollows'
  <2>1. t = lock /\ t \in Sent /\ t.owner \in Order /\ \A u \in unproved : u = t
    BY <1>6, OwnersAreOld
  <2>2. PICK r \in Request : r = requested[t.owner]
    BY <2>1 DEF Inv, TypeOK
  <2>3. t.sentState = Start(r) /\ (Waiting(t.owner, r) \/ Moved(r))
    BY <1>6, <2>2 DEF DoorFollows, Underway
  <2>4. CASE t \in unproved'
    <3>1. Waiting(t.owner, r) => Waiting(t.owner, r)'
      BY <1>2, <1>3 DEF Waiting
    <3>2. Moved(r) => Moved(r)'
      <4>. SUFFICES ASSUME Moved(r) PROVE Moved(r)'
        OBVIOUS
      <4>1. ASSUME NEW i \in DOMAIN events', NEW j \in DOMAIN events', i < j,
                   events'[i] # Start(r)
            PROVE  events'[j] = End(r) /\ info' = End(r)
        <5>1. i + 1 \in DOMAIN events /\ j + 1 \in DOMAIN events /\ i + 1 < j + 1
              /\ events'[i] = events[i + 1] /\ events'[j] = events[j + 1]
          BY <1>3, <1>4, <4>1
        <5>2. QED
          BY <1>2, <4>1, <5>1 DEF Moved
      <4>2. QED
        BY <1>2, <1>3, <4>1 DEF Moved
    <3>3. Underway(t)'
      BY <1>2, <2>2, <2>3, <3>1, <3>2 DEF Underway
    <3>4. QED
      BY <1>2, <2>1, <2>4, <3>3 DEF DoorFollows
  <2>5. CASE t \notin unproved'
    <3>1. unproved' = {} /\ Releases([at |-> now, state |-> events[1]], t)
      BY <1>2, <2>1, <2>5
    <3>2. events[1] # Start(r)
      <4>1. \/ events[1] \in ExpectedEffect(r)
            \/ events[1] # t.sentState
        BY <2>2, <3>1 DEF Releases
      <4>2. QED
        BY <2>3, <4>1, Ways, Distinct
    <3>3. Moved(r)
      BY <1>4, <2>3, <3>2 DEF Waiting
    <3>4. /\ info \in {Moving(r), End(r)}
          /\ \A j \in DOMAIN events : 1 < j => events[j] = End(r) /\ info = End(r)
      BY <1>4, <3>2, <3>3 DEF Moved
    <3>5. \A k \in DOMAIN events' : events'[k] = info' /\ info' = End(r)
      <4>. SUFFICES ASSUME NEW k \in DOMAIN events'
                    PROVE  events'[k] = info' /\ info' = End(r)
        OBVIOUS
      <4>1. k \in DOMAIN events /\ k + 1 \in DOMAIN events /\ events'[k] = events[k + 1]
        BY <1>3
      <4>2. 1 < k + 1
        <5>1. k \in 1..Len(events)
          BY <4>1, LenProperties DEF Inv, TypeOK
        <5>2. QED
          BY <5>1
      <4>3. QED
        BY <1>2, <3>4, <4>1, <4>2
    <3>6. \A o \in Order : phase[o] # "answered"
      <4>1. \A o \in Order : Marker(o).stage = "marker"
        BY DEF Marker
      <4>2. lock.stage = "sent"
        BY <2>1 DEF Sent
      <4>3. QED
        BY <4>1, <4>2 DEF Inv, GuardOwnsMarker
    <3>7. wire' = {}
      BY <1>2, <3>3 DEF Moved
    <3>8. \/ door' = Moving(r) /\ info' = Moving(r)
          \/ door' = End(r) /\ info' \in {Moving(r), End(r)}
      BY <1>2, <3>3, <3>4 DEF Moved
    <3>9. Quiet'
      BY <1>2, <3>5, <3>6, <3>7, <3>8 DEF Quiet
    <3>10. QED
      BY <3>1, <3>9 DEF DoorFollows
  <2>6. QED
    BY <2>4, <2>5
<1>7. QED
  BY <1>5, <1>6

\* A toggle that reaches the door belongs to the order whose toggle is underway.
LEMMA ToggleIsUnderway ==
  ASSUME Inv, DoorFollows, NEW o \in wire
  PROVE  /\ requested[o] \in Request /\ Waiting(o, requested[o])
         /\ \E t \in unproved : unproved = {t} /\ t.owner = o /\ t.sentState = Start(requested[o])
<1>1. PICK t : t \in unproved
  BY DEF DoorFollows, Quiet
<1>2. unproved = {t} /\ t.owner \in Order
  BY <1>1, OwnersAreOld
<1>3. t.sentState = Start(requested[t.owner])
      /\ (Waiting(t.owner, requested[t.owner]) \/ Moved(requested[t.owner]))
  BY <1>1 DEF DoorFollows, Underway
<1>4. Waiting(t.owner, requested[t.owner]) /\ o = t.owner
  BY <1>3 DEF Waiting, Moved
<1>5. QED
  BY <1>2, <1>3, <1>4 DEF Inv, TypeOK

LEMMA ExecuteToggleFollows ==
  ASSUME Inv, DoorFollows, NEW o \in wire, ExecuteToggle(o)
  PROVE  DoorFollows'
<1>1. PICK r \in Request : r = requested[o] /\ Waiting(o, r)
  BY ToggleIsUnderway
<1>2. PICK t \in unproved : unproved = {t} /\ t.owner = o /\ t.sentState = Start(r)
  BY <1>1, ToggleIsUnderway
<1>3. /\ UNCHANGED <<info, events, requested, unproved>>
      /\ wire' = {} /\ door' = Moving(r)
  BY <1>1, Ways DEF ExecuteToggle, Waiting
<1>4. Moved(r)'
  BY <1>1, <1>3, Distinct DEF Moved, Waiting
<1>5. Underway(t)'
  BY <1>1, <1>2, <1>3, <1>4 DEF Underway
<1>6. QED
  BY <1>2, <1>3, <1>5 DEF DoorFollows

LEMMA LoseToggleFollows ==
  ASSUME Inv, DoorFollows, NEW o \in wire, LoseToggle(o)
  PROVE  DoorFollows'
<1>1. PICK r \in Request : r = requested[o] /\ Waiting(o, r)
  BY ToggleIsUnderway
<1>2. PICK t \in unproved : unproved = {t} /\ t.owner = o /\ t.sentState = Start(r)
  BY <1>1, ToggleIsUnderway
<1>3. UNCHANGED <<door, info, events, requested, unproved>> /\ wire' = wire \ {o}
  BY DEF LoseToggle
<1>4. Waiting(o, r)'
  BY <1>1, <1>3 DEF Waiting
<1>5. Underway(t)'
  BY <1>1, <1>2, <1>3, <1>4 DEF Underway
<1>6. QED
  BY <1>2, <1>3, <1>5 DEF DoorFollows

\* The door only reaches the end it moves to.
LEMMA ReachEndFollows ==
  ASSUME Inv, DoorFollows, ReachEnd
  PROVE  DoorFollows'
<1>1. /\ UNCHANGED <<info, events, wire, requested, unproved, phase, answer>>
      /\ door \in {"opening", "closing"}
      /\ \A r \in Request : /\ door = Moving(r) => door' = End(r)
                            /\ door # Start(r) /\ door # End(r)
  BY DEF ReachEnd, Request, Moving, End, Start
<1>2. unproved = {} => Quiet'
  <2>. SUFFICES ASSUME unproved = {} PROVE Quiet'
    OBVIOUS
  <2>1. Quiet
    BY DEF DoorFollows
  <2>2. PICK r \in Request : /\ \/ door = Moving(r) /\ info = Moving(r)
                                \/ door = End(r) /\ info \in {Moving(r), End(r)}
                             /\ \A i \in DOMAIN events : events[i] = info /\ info = End(r)
    BY <2>1 DEF Quiet
  <2>3. door' = End(r) /\ info' = Moving(r)
    BY <1>1, <2>2
  <2>4. \A i \in DOMAIN events' : events'[i] = info' /\ info' = End(r)
    BY <1>1, <2>2
  <2>5. wire' = {} /\ \A o \in Order : phase'[o] = "answered"
                        /\ answer'[o] \in {"open", "closed"} => info' = answer'[o]
    BY <1>1, <2>1 DEF Quiet
  <2>6. QED
    BY <2>3, <2>4, <2>5 DEF Quiet
<1>3. ASSUME NEW t \in unproved PROVE Underway(t)'
  <2>1. PICK r \in Request : r = requested[t.owner]
    BY OwnersAreOld DEF Inv, TypeOK
  <2>2. t.sentState = Start(r) /\ Moved(r)
    BY <1>1, <2>1 DEF DoorFollows, Underway, Waiting
  <2>3. Moved(r)'
    BY <1>1, <2>2, Distinct DEF Moved
  <2>4. QED
    BY <1>1, <2>1, <2>2, <2>3 DEF Underway
<1>4. QED
  BY <1>1, <1>2, <1>3 DEF DoorFollows

\* What Jeedom learns of the door is posted after what it knew.
LEMMA ReportFollows ==
  ASSUME Inv, DoorFollows, Report, OwnDoor
  PROVE  DoorFollows'
<1>1. /\ UNCHANGED <<door, wire, requested, unproved, phase, answer>>
      /\ info' = door /\ info' # info /\ events' = Append(events, info')
  BY DEF Report, OwnDoor
<1>2. /\ DOMAIN events \in SUBSET Nat
      /\ \A i \in DOMAIN events' : \/ i \in DOMAIN events /\ events'[i] = events[i]
                                   \/ i \notin DOMAIN events /\ events'[i] = door
      /\ \A i, j \in DOMAIN events' :
           i \in Nat /\ j \in Nat /\ (i < j => i \in DOMAIN events)
  <2>1. PICK n \in Nat : n = Len(events) /\ DOMAIN events = 1..n
    BY LenProperties DEF Inv, TypeOK
  <2>2. events \in Seq(BarrierState) /\ info' \in BarrierState
    BY <1>1 DEF Inv, TypeOK, BarrierState
  <2>3. PICK q : q = Append(events, info')
    OBVIOUS
  <2>4. /\ q \in Seq(BarrierState) /\ Len(q) = n + 1 /\ q[n + 1] = info'
        /\ \A i \in 1..n : q[i] = events[i]
    BY <2>1, <2>2, <2>3, AppendProperties
  <2>5. DOMAIN q = 1..n + 1
    BY <2>4, LenProperties
  <2>6. \A i \in 1..n + 1 : i \in 1..n \/ (i = n + 1 /\ i \notin 1..n)
    OBVIOUS
  <2>7. \A i, j \in 1..n + 1 : i \in Nat /\ j \in Nat /\ (i < j => i \in 1..n)
    OBVIOUS
  <2>8. QED
    BY <1>1, <2>1, <2>3, <2>4, <2>5, <2>6, <2>7
<1>3. unproved = {} => Quiet'
  <2>. SUFFICES ASSUME unproved = {} PROVE Quiet'
    OBVIOUS
  <2>1. Quiet
    BY DEF DoorFollows
  <2>2. PICK r \in Request : /\ \/ door = Moving(r) /\ info = Moving(r)
                                \/ door = End(r) /\ info \in {Moving(r), End(r)}
                             /\ \A i \in DOMAIN events : events[i] = info /\ info = End(r)
    BY <2>1 DEF Quiet
  <2>3. door = End(r) /\ info = Moving(r) /\ DOMAIN events = {}
    BY <1>1, <2>2, Distinct
  <2>4. \A i \in DOMAIN events' : events'[i] = info' /\ info' = End(r)
    BY <1>1, <1>2, <2>3
  <2>5. wire' = {} /\ \A o \in Order : phase'[o] = "answered"
                        /\ answer'[o] \in {"open", "closed"} => info' = answer'[o]
    BY <1>1, <2>1, <2>3, Distinct DEF Quiet
  <2>6. QED
    BY <1>1, <2>3, <2>4, <2>5 DEF Quiet
<1>4. ASSUME NEW t \in unproved PROVE Underway(t)'
  <2>1. PICK r \in Request : r = requested[t.owner]
    BY OwnersAreOld DEF Inv, TypeOK
  <2>2. t.sentState = Start(r) /\ Moved(r)
    BY <1>1, <2>1 DEF DoorFollows, Underway, Waiting
  <2>3. /\ wire' = {} /\ door' \in {Moving(r), End(r)} /\ info' = door' /\ info' # Start(r)
    BY <1>1, <2>2, Distinct DEF Moved
  <2>4. door' = Moving(r) => info' # End(r)
    BY <2>3, Distinct
  <2>5. \A i \in DOMAIN events' : events'[i] \in {Start(r), Moving(r), End(r)}
    BY <1>1, <1>2, <2>2 DEF Moved
  <2>6. ASSUME NEW i \in DOMAIN events', NEW j \in DOMAIN events', i < j, events'[i] # Start(r)
        PROVE  events'[j] = End(r) /\ info' = End(r)
    <3>1. i \in DOMAIN events /\ events'[i] = events[i]
      BY <1>2, <2>6
    <3>2. info # Start(r)
      BY <2>2, <2>6, <3>1 DEF Moved
    <3>3. info = Moving(r) /\ door = End(r)
      BY <1>1, <2>2, <3>2 DEF Moved
    <3>4. j \notin DOMAIN events
      BY <2>2, <2>6, <3>1, <3>3, Distinct DEF Moved
    <3>5. QED
      BY <1>1, <1>2, <3>3, <3>4
  <2>7. Moved(r)'
    BY <2>3, <2>4, <2>5, <2>6 DEF Moved
  <2>8. QED
    BY <1>1, <2>1, <2>2, <2>7 DEF Underway
<1>5. QED
  BY <1>1, <1>3, <1>4 DEF DoorFollows

LEMMA NextFollows ==
  ASSUME OwnDoor PROVE Inv /\ DoorFollows /\ [Next]_vars => DoorFollows'
<1> SUFFICES ASSUME Inv, DoorFollows, [Next]_vars PROVE DoorFollows'
  OBVIOUS
<1>1. CASE UNCHANGED vars \/ Tick
  <2>1. UNCHANGED <<door, info, events, wire, unproved, requested, phase, answer>>
    BY <1>1 DEF vars, Tick
  <2>2. QED
    BY <2>1, TaskFollows
<1>2. CASE \E o \in Order, r \in Request : RefuseLocked(o, r) \/ ArmMarker(o, r)
  BY <1>2, RefuseLockedFollows, ArmMarkerFollows
<1>3. CASE \E o \in Order :
             ServeRead(o) \/ GuardRefuses(o) \/ SendToggle(o) \/ SendReturns(o)
  BY <1>3, ServeReadFollows, GuardRefusesFollows, SendToggleFollows, SendReturnsFollows
<1>4. CASE StateEvent
  BY <1>4, StateEventFollows
<1>5. CASE \E o \in wire : ExecuteToggle(o) \/ LoseToggle(o)
  BY <1>5, ExecuteToggleFollows, LoseToggleFollows
<1>6. CASE ReachEnd \/ Report
  BY <1>6, ReachEndFollows, ReportFollows
<1>7. ~Restart /\ ~MovedByOther
  BY DEF Restart, MovedByOther, OwnDoor
<1>8. QED
  BY <1>1, <1>2, <1>3, <1>4, <1>5, <1>6, <1>7 DEF Next

\* As long as only the daemon moves the door, keeps running and receives the events in
\* their order, a toggle that reaches the door finds it at the end position its order
\* starts from, and moves it the way Home Assistant asked, for any orders and delays.
THEOREM ToggleMovesAsAsked ==
  ASSUME OwnDoor PROVE Spec => ToggleDoesWhatWasAsked
<1>. DEFINE Asked ==
       \A o \in wire : ExecuteToggle(o) =>
         /\ door \in ToggleAllowed(requested[o])
         /\ door' \in ExpectedEffect(requested[o])
<1>1. Inv /\ DoorFollows /\ [Next]_vars => [Asked]_vars
  <2>. SUFFICES ASSUME Inv, DoorFollows, NEW o \in wire, ExecuteToggle(o)
                PROVE  door \in ToggleAllowed(requested[o])
                       /\ door' \in ExpectedEffect(requested[o])
    OBVIOUS
  <2>1. requested[o] \in Request /\ door = Start(requested[o])
    BY ToggleIsUnderway DEF Waiting
  <2>2. door' \in Toggled(door)
    BY DEF ExecuteToggle
  <2>3. QED
    BY <2>1, <2>2, Ways
<1>2. Init => Inv /\ DoorFollows
  BY InitInv, InitFollows
<1>3. Inv /\ DoorFollows /\ [Next]_vars => Inv' /\ DoorFollows'
  BY NextInv, NextFollows
<1>. HIDE DEF Asked
<1>4. Spec => [][Asked]_vars
  BY <1>1, <1>2, <1>3, PTL DEF Spec
<1>5. QED
  BY <1>4 DEF ToggleDoesWhatWasAsked, Asked
=============================================================================
