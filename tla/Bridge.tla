------------------------------- MODULE Bridge -------------------------------
(***************************************************************************)
(* The MQTT bridge (resources/daemon/transport/mqtt_client.py) between two *)
(* threads: paho's network thread, whose callbacks post to the event loop, *)
(* and the loop, which alone writes the state of the bridge and runs the   *)
(* orders of Home Assistant, one at a time per entity.  A client replaces  *)
(* another when the user saves a configuration; the loop is blocked while  *)
(* the old one stops, its network thread is not.                           *)
(***************************************************************************)
EXTENDS Integers, Sequences, FiniteSets

CONSTANTS
  Entity,      \* the entities that receive orders
  Order,       \* the deliveries of orders, numbers in the order the broker makes them
  Asked,       \* the orders that may be sent: <<entity, topic>>
  None,        \* no order
  MaxStarts,   \* bound: clients started
  MaxDrops,    \* bound: sessions lost
  Features     \* subset of {"late connect"}

\* The topic of an order: "set", of an equipment or of a command, or "slider", of a
\* brightness or of a position.
Topic == {"set", "slider"}

ASSUME BridgeAssumption ==
  /\ Asked \subseteq Entity \X Topic
  /\ Order \subseteq Nat /\ None \notin Order \cup Entity
  /\ MaxStarts \in Nat \ {0} /\ MaxDrops \in Nat

VARIABLES
  starts,    \* clients started so far, the last one is the current one
  drops,
  link,      \* its session with the broker, "up" or "down"
  stop,      \* how far stop() is: "no", "sent" (offline published) or "unsent"
  state,     \* what is_connected reads
  queue,     \* callbacks posted to the loop: a state or an order
  sent,      \* the number of the last delivery, also of an order nobody hears
  kept,      \* the order that the broker retains, if its sender asked for it
  target,    \* the entity of each order
  copy,      \* of each delivery: the order it repeats, its topic, whether a session heard it
  owed,      \* the copies of the last order the broker may still deliver
  pending,   \* _pending_command_tasks: the last task of each entity
  task       \* the task of each order

session == <<starts, drops, link, stop>>
orders == <<sent, kept, target, copy, owed>>
vars == <<session, state, queue, orders, pending, task>>

State == {"disconnected", "connecting", "connected", "reconnecting"}

\* What the network thread posts to the loop: a state to set, an order to dispatch.
Posted == [state : State] \cup [order : Order]
\* Mutant: a state posted under another name than the one that is read.
SaysMisspelt(s) == [state |-> IF s = "reconnecting" THEN "reconnect" ELSE s]
Says(s) == [state |-> s]
Orders(o) == [order |-> o]
IsOrder(p) == DOMAIN p = {"order"}
NoCopy == [of |-> None, topic |-> "set", heard |-> FALSE]
NoTask == [step |-> "none", after |-> None, epoch |-> 0, runs |-> 0]

Init ==
  /\ starts = 0 /\ drops = 0 /\ link = "down" /\ stop = "no"
  /\ state = "disconnected" /\ queue = <<>>
  /\ sent = 0 /\ kept = None /\ target = [o \in Order |-> None]
  /\ copy = [o \in Order |-> NoCopy] /\ owed = 0
  /\ pending = [e \in Entity |-> None] /\ task = [o \in Order |-> NoTask]

----------------------------------------------------------------------------
(* paho's thread.  It runs at any time, also while the loop is blocked.    *)

\* The filters subscribed to that match a topic, two of them for a slider.
Filters(topic) ==
  IF topic = "slider" THEN {"jeedom2ha/+/+/set", "jeedom2ha/+/brightness/set"}
  ELSE {"jeedom2ha/+/set"}

\* What a message posts.  Those a subscription brings back carry the retain flag, and an
\* order that carries it is dropped.  Mutant: the flag is not looked at.
OnMessageAnyway(o, retain) == <<Orders(o)>>
OnMessage(o, retain) == IF retain THEN <<>> ELSE <<Orders(o)>>
Replayed == IF kept = None THEN <<>> ELSE OnMessage(kept, TRUE)

\* The session is accepted, the subscriptions made.
LinkUp ==
  /\ starts > 0 /\ link = "down" /\ (stop = "unsent" => "late connect" \in Features)
  /\ link' = "up" /\ owed' = 0
  /\ queue' = Append(queue, Says("connected")) \o Replayed
  /\ UNCHANGED <<starts, drops, stop, state, sent, kept, target, copy, pending, task>>

\* The broker answers but refuses the session.
LinkRefused ==
  /\ starts > 0 /\ link = "down" /\ stop = "no" /\ drops < MaxDrops
  /\ drops' = drops + 1 /\ queue' = Append(queue, Says("disconnected"))
  /\ UNCHANGED <<starts, link, stop, state, orders, pending, task>>

LinkLost ==
  /\ link = "up" /\ drops < MaxDrops
  /\ link' = "down" /\ drops' = drops + 1 /\ queue' = Append(queue, Says("reconnecting"))
  /\ UNCHANGED <<starts, stop, state, orders, pending, task>>

\* Home Assistant sends an order, retained or not; without a session it is lost
\* (clean_session).
Send(e, topic, retain) ==
  /\ sent + 1 \in Order
  /\ sent' = sent + 1 /\ target' = [target EXCEPT ![sent + 1] = e]
  /\ copy' = [copy EXCEPT ![sent + 1] =
                [of |-> sent + 1, topic |-> topic, heard |-> link = "up"]]
  /\ kept' = IF retain THEN sent + 1 ELSE kept
  /\ owed' = IF link = "up" THEN Cardinality(Filters(topic)) - 1 ELSE 0
  /\ queue' = IF link = "up" THEN queue \o OnMessage(sent + 1, FALSE) ELSE queue
  /\ UNCHANGED <<session, state, pending, task>>

\* A broker may deliver the order once more for each other filter that matches its topic.
Repeat ==
  /\ link = "up" /\ owed > 0 /\ sent + 1 \in Order
  /\ sent' = sent + 1 /\ owed' = owed - 1
  /\ target' = [target EXCEPT ![sent + 1] = target[sent]]
  /\ copy' = [copy EXCEPT ![sent + 1] = copy[sent]]
  /\ queue' = queue \o OnMessage(sent + 1, FALSE)
  /\ UNCHANGED <<session, kept, state, pending, task>>

----------------------------------------------------------------------------
(* The event loop.                                                         *)

\* A state posted by the network thread, of this client or of the one it replaced.
SetState ==
  /\ stop = "no" /\ queue # <<>> /\ ~IsOrder(Head(queue))
  /\ state' = Head(queue).state /\ queue' = Tail(queue)
  /\ UNCHANGED <<session, orders, pending, task>>

\* A task is created for the order; it waits for the last one of the entity.
\* Mutant: the entity is marked before its last task is read.
PreviousSelf(o) == o
Previous(o) == pending[target[o]]

Dispatch ==
  /\ stop = "no" /\ queue # <<>> /\ IsOrder(Head(queue))
  /\ queue' = Tail(queue)
  /\ LET o == Head(queue).order
     IN /\ task' = [task EXCEPT ![o] = [step |-> "waiting", after |-> Previous(o),
                                        epoch |-> starts, runs |-> @.runs]]
        /\ pending' = [pending EXCEPT ![target[o]] = o]
  /\ UNCHANGED <<session, state, orders>>

Begin(o) ==
  /\ stop = "no" /\ task[o].step = "waiting"
  /\ task[o].after # None => task[task[o].after].step = "done"
  /\ task' = [task EXCEPT ![o].step = "running", ![o].runs = @ + 1]
  /\ UNCHANGED <<session, state, queue, orders, pending>>

\* The task forgets itself, unless another one follows it.
\* Mutant: without looking whether another one follows.
ForgetLast(o) == [pending EXCEPT ![target[o]] = None]
Forget(o) == [pending EXCEPT ![target[o]] = IF @ = o THEN None ELSE @]

\* The order ends, with an answer, an error or a timeout.
End(o) ==
  /\ stop = "no" /\ task[o].step = "running"
  /\ task' = [task EXCEPT ![o].step = "done"]
  /\ pending' = Forget(o)
  /\ UNCHANGED <<session, state, queue, orders>>

\* The user saves a configuration: the old client is stopped.  Publishing "offline" and
\* waiting for it fails without a session, which also skips the disconnection.
StopBegin ==
  /\ stop = "no" /\ starts \in 1..(MaxStarts - 1)
  /\ stop' = IF link = "up" THEN "sent" ELSE "unsent"
  /\ UNCHANGED <<starts, drops, link, state, queue, orders, pending, task>>

\* What the disconnection of stop() posts: nothing if the session was already lost, or if
\* publishing failed.  Mutant: the callbacks are removed before the disconnection.
FarewellUnheard == <<>>
Farewell == IF stop = "sent" /\ link = "up" THEN <<Says("disconnected")>> ELSE <<>>

\* The network thread ends, after the disconnection if there was one; the pending tasks
\* are forgotten; a new client is started without giving the loop a turn.
StopEndStart ==
  /\ stop # "no"
  /\ queue' = queue \o Farewell
  /\ stop' = "no" /\ link' = "down" /\ starts' = starts + 1
  /\ state' = "connecting" /\ pending' = [e \in Entity |-> None]
  /\ UNCHANGED <<drops, orders, task>>

FirstStart ==
  /\ starts = 0
  /\ starts' = 1 /\ state' = "connecting"
  /\ UNCHANGED <<drops, link, stop, queue, orders, pending, task>>

Next ==
  \/ FirstStart \/ StopBegin \/ StopEndStart
  \/ LinkUp \/ LinkRefused \/ LinkLost
  \/ \E e \in Entity, topic \in Topic, retain \in BOOLEAN :
       <<e, topic>> \in Asked /\ Send(e, topic, retain)
  \/ Repeat
  \/ SetState \/ Dispatch
  \/ \E o \in Order : Begin(o) \/ End(o)

Spec == Init /\ [][Next]_vars

\* The loop runs what is ready; an order ends because its requests have a timeout; stop()
\* waits at most 2 s.
Fairness ==
  /\ WF_vars(SetState \/ Dispatch) /\ WF_vars(StopEndStart)
  /\ \A o \in Order : WF_vars(Begin(o)) /\ WF_vars(End(o))
FairSpec == Spec /\ Fairness

----------------------------------------------------------------------------
(* Properties.                                                             *)

\* The type of the state.
TypeOK ==
  /\ starts \in 0..MaxStarts /\ drops \in 0..MaxDrops
  /\ link \in {"up", "down"} /\ stop \in {"no", "sent", "unsent"}
  /\ state \in State /\ queue \in Seq(Posted)
  /\ sent \in Nat /\ kept \in Order \cup {None}
  /\ target \in [Order -> Entity \cup {None}] /\ owed \in Nat
  /\ copy \in [Order -> [of : Order \cup {None}, topic : Topic, heard : BOOLEAN]]
  /\ pending \in [Entity -> Order \cup {None}]
  /\ task \in [Order -> [step : {"none", "waiting", "running", "done"},
                         after : Order \cup {None}, epoch : 0..MaxStarts, runs : Nat]]

\* The state the daemon reads is late at most by the callbacks that wait for the loop,
\* whichever client posted them, unless the broker accepts a session after the farewell of
\* its client failed (feature "late connect": nothing then says that the session ends).
StateHonest ==
  stop = "no" /\ queue = <<>> => (state = "connected" <=> link = "up")

\* Orders to one entity run one at a time, in the order they arrived
\* (mqtt_client.py:271, "Run one command only after the previous command for the same entity
\* completes"), between two replacements of the client.
OneAtATime ==
  \A a, b \in Order :
    /\ a < b /\ target[a] = target[b] /\ task[a].epoch = task[b].epoch
    /\ task[a].step # "none" /\ task[b].step \in {"running", "done"}
    => task[a].step = "done"

\* Only what was heard live runs: an order sent without a session never does, though the
\* broker retains it and brings it back at each connection (mqtt_client.py:193-195), and
\* one that was heard runs at most once for each filter that matches its topic: at most
\* once, or twice if it sets a brightness or a position (mqtt_client.py:26-33).
Ran(a) == {o \in Order : copy[o].of = a /\ task[o].runs > 0}
RunsAsHeard ==
  \A o \in Order :
    /\ task[o].runs <= IF copy[o].heard THEN 1 ELSE 0
    /\ Cardinality(Ran(o)) <= Cardinality(Filters(copy[o].topic))

\* Every order that reached the loop ends.
EveryOrderEnds == \A o \in Order : task[o].step = "waiting" ~> task[o].step = "done"
=============================================================================
