---------------------------- MODULE BridgeProofs ----------------------------
(***************************************************************************)
(* For any entities, orders and number of clients: an order only runs when *)
(* a session heard it, and no more often than filters match its topic, the *)
(* orders of an entity run one at a time between two replacements of the   *)
(* client, and the state read is that of the session.                      *)
(***************************************************************************)
EXTENDS Bridge, SequenceTheorems, FiniteSetTheorems, TLAPS

Dispatched(o) == task[o].step # "none"
\* The tasks of an entity for the current client; those a task of the same client follows.
Ours(e, o) == Dispatched(o) /\ target[o] = e /\ task[o].epoch = starts
Before(a, b) ==
  /\ Dispatched(a) /\ a < b
  /\ target[a] = target[b] /\ task[a].epoch = task[b].epoch

\* A client is only replaced by one more, and nothing happens before the first one.
Lifetimes ==
  /\ stop # "no" => starts \in 1..(MaxStarts - 1)
  /\ starts = 0 => queue = <<>> /\ link = "down" /\ \A e \in Entity : pending[e] = None
  /\ \A o \in Order : task[o].epoch <= starts

\* An order that a session heard, for an entity.
Heard(o) == target[o] \in Entity /\ copy[o].heard

\* Orders wait for the loop in the order they were sent, after those it dispatched.
Lined ==
  /\ \A i \in 1..Len(queue) : IsOrder(queue[i]) =>
       /\ queue[i].order <= sent /\ Heard(queue[i].order)
       /\ \A d \in Order : Dispatched(d) => d < queue[i].order
  /\ \A i, j \in 1..Len(queue) :
       i < j /\ IsOrder(queue[i]) /\ IsOrder(queue[j]) => queue[i].order < queue[j].order
  /\ \A d \in Order : Dispatched(d) => d <= sent /\ Heard(d)

\* _pending_command_tasks is the last task of the entity for this client, unless all are done.
LastKept ==
  \A e \in Entity :
    /\ pending[e] = None => \A o \in Order : Ours(e, o) => task[o].step = "done"
    /\ \A p \in Order : pending[e] = p =>
         /\ Ours(e, p) /\ task[p].step # "done"
         /\ \A o \in Order : Ours(e, o) => o <= p

\* A task follows the one before it, or all those before it were done.
Chained ==
  \A b \in Order : Dispatched(b) =>
    /\ task[b].after = None => \A a \in Order : Before(a, b) => task[a].step = "done"
    /\ \A p \in Order : task[b].after = p =>
         Before(p, b) /\ \A a \in Order : Before(a, b) => a <= p

Counted ==
  \A o \in Order :
    task[o].runs = IF task[o].step \in {"running", "done"} THEN 1 ELSE 0

\* What the broker delivers: an order, and right after it at most one copy, of a slider.
Copied ==
  /\ owed \in {0, 1}
  /\ owed = 1 => sent \in Order /\ Heard(sent) /\ copy[sent].topic = "slider"
                 /\ copy[sent].of = sent
  /\ \A o \in Order :
       /\ copy[o].of # None => o <= sent
       /\ \A a \in Order : copy[o].of = a =>
            /\ copy[a].topic = copy[o].topic
            /\ o = a \/ (o = a + 1 /\ copy[o].topic = "slider")

IInv ==
  TypeOK /\ Lifetimes /\ Lined /\ LastKept /\ Chained /\ Counted /\ OneAtATime /\ Copied

----------------------------------------------------------------------------
(* The queue.                                                              *)

LEMMA PostedTypes ==
  /\ \A s \in State : Says(s) \in Posted /\ ~IsOrder(Says(s))
  /\ \A o \in Order : Orders(o) \in Posted /\ IsOrder(Orders(o)) /\ Orders(o).order = o
  /\ \A p \in Posted : IsOrder(p) => p.order \in Order
  /\ \A p \in Posted : ~IsOrder(p) => p.state \in State
  BY DEF Says, Orders, Posted, IsOrder

\* Posting a state leaves the orders in their line.
LEMMA SaidInLine ==
  ASSUME TypeOK, Lined, NEW s \in State, queue' = Append(queue, Says(s)),
         UNCHANGED <<sent, target, copy, task>>
  PROVE  queue' \in Seq(Posted) /\ Lined'
  <1>1. queue \in Seq(Posted) /\ Says(s) \in Posted /\ ~IsOrder(Says(s))
    BY PostedTypes DEF TypeOK
  <1>2. /\ queue' \in Seq(Posted) /\ Len(queue') = Len(queue) + 1
        /\ \A i \in 1..Len(queue) : queue'[i] = queue[i]
        /\ queue'[Len(queue) + 1] = Says(s)
    BY <1>1, AppendProperties
  <1>3. \A i \in 1..Len(queue') : IsOrder(queue'[i]) => i \in 1..Len(queue)
    BY <1>1, <1>2, LenProperties
  <1>4. \A i \in 1..Len(queue') : IsOrder(queue'[i]) =>
          queue'[i].order <= sent' /\ target'[queue'[i].order] \in Entity
          /\ copy'[queue'[i].order].heard
          /\ \A d \in Order : Dispatched(d)' => d < queue'[i].order
    BY <1>2, <1>3 DEF Lined, Dispatched, Heard
  <1>5. \A i, j \in 1..Len(queue') :
          i < j /\ IsOrder(queue'[i]) /\ IsOrder(queue'[j])
            => queue'[i].order < queue'[j].order
    BY <1>2, <1>3 DEF Lined
  <1>. QED  BY <1>2, <1>4, <1>5 DEF Lined, Dispatched, Heard

\* A new order, or a new copy, is behind all the others.
LEMMA SentInLine ==
  ASSUME TypeOK, Lined, NEW e \in Entity, NEW c, sent + 1 \in Order, sent' = sent + 1,
         target' = [target EXCEPT ![sent + 1] = e], task' = task,
         copy' = [copy EXCEPT ![sent + 1] = c],
         queue' = queue \/ (queue' = Append(queue, Orders(sent + 1)) /\ c.heard)
  PROVE  queue' \in Seq(Posted) /\ Lined'
  <1>1. queue \in Seq(Posted) /\ sent \in Nat /\ Order \subseteq Nat
    BY BridgeAssumption DEF TypeOK
  <1>2. \A o \in Order : o <= sent => (Heard(o)' <=> Heard(o))
    BY <1>1 DEF TypeOK, Heard
  <1>3. \A d \in Order : Dispatched(d)' => d <= sent' /\ Heard(d)'
    BY <1>1, <1>2 DEF Lined, Dispatched
  <1>4. ASSUME NEW i \in 1..Len(queue), IsOrder(queue[i])
        PROVE  /\ queue[i].order \in Nat /\ queue[i].order < sent + 1
               /\ target'[queue[i].order] \in Entity /\ copy'[queue[i].order].heard
    <2>1. queue[i].order \in Order
      BY <1>1, <1>4, PostedTypes, ElementOfSeq
    <2>2. queue[i].order <= sent /\ Heard(queue[i].order)
      BY <1>4 DEF Lined
    <2>3. queue[i].order \in Nat
      BY <1>1, <2>1
    <2>4. PICK o \in Order : o = queue[i].order
      BY <2>1
    <2>5. Heard(o)'
      BY <1>2, <2>2, <2>4
    <2>. QED  BY <1>1, <2>2, <2>3, <2>4, <2>5 DEF Heard
  <1>5. \A i \in 1..Len(queue) : IsOrder(queue[i]) =>
          queue[i].order <= sent' /\ target'[queue[i].order] \in Entity
          /\ copy'[queue[i].order].heard
          /\ \A d \in Order : Dispatched(d)' => d < queue[i].order
    <2>. TAKE i \in 1..Len(queue)
    <2>1. \A d \in Order : Dispatched(d)' <=> Dispatched(d)
      BY DEF Dispatched
    <2>. QED  BY <1>1, <1>4, <2>1 DEF Lined
  <1>6. CASE queue' = queue
    BY <1>1, <1>3, <1>5, <1>6 DEF Lined, Dispatched, Heard
  <1>7. CASE queue' = Append(queue, Orders(sent + 1)) /\ c.heard
    <2>. DEFINE n == Len(queue) + 1
    <2>1. /\ queue' \in Seq(Posted) /\ Len(queue') = n /\ Len(queue) \in Nat
          /\ \A i \in 1..Len(queue) : queue'[i] = queue[i]
          /\ queue'[n] = Orders(sent + 1) /\ queue'[n].order = sent + 1
      BY <1>1, <1>7, PostedTypes, AppendProperties, LenProperties
    <2>2. target'[sent + 1] = e /\ copy'[sent + 1].heard
          /\ \A d \in Order : Dispatched(d)' => d < sent + 1
      BY <1>1, <1>7 DEF Lined, Dispatched, TypeOK
    <2>3. \A i \in 1..Len(queue') : IsOrder(queue'[i]) =>
            queue'[i].order <= sent' /\ target'[queue'[i].order] \in Entity
            /\ copy'[queue'[i].order].heard
            /\ \A d \in Order : Dispatched(d)' => d < queue'[i].order
      <3>. TAKE i \in 1..Len(queue')
      <3>1. CASE i \in 1..Len(queue)
        BY <1>5, <2>1, <3>1
      <3>2. CASE i = n
        BY <1>1, <2>1, <2>2, <3>2
      <3>. QED  BY <2>1, <3>1, <3>2
    <2>4. \A i, j \in 1..Len(queue') :
            i < j /\ IsOrder(queue'[i]) /\ IsOrder(queue'[j])
              => queue'[i].order < queue'[j].order
      <3>1. \A i, j \in 1..n : i < j =>
              i \in 1..Len(queue) /\ (j \in 1..Len(queue) \/ j = n)
        BY <2>1
      <3>. QED  BY <1>4, <2>1, <3>1 DEF Lined
    <2>. QED  BY <1>3, <2>1, <2>3, <2>4 DEF Lined, Dispatched, Heard
  <1>. QED  BY <1>6, <1>7

\* What the loop takes from the queue.
LEMMA TailInLine ==
  ASSUME TypeOK, queue # <<>>
  PROVE  /\ Len(queue) \in Nat \ {0} /\ Len(Tail(queue)) = Len(queue) - 1
         /\ Head(queue) = queue[1] /\ Head(queue) \in Posted /\ Tail(queue) \in Seq(Posted)
         /\ \A i \in 1..Len(Tail(queue)) : Tail(queue)[i] = queue[i + 1]
  BY HeadTailProperties, EmptySeq DEF TypeOK

----------------------------------------------------------------------------
(* The network thread and the life of the clients.                         *)

\* What the tasks of one client relate is left alone.
LEMMA TasksUntouched ==
  ASSUME IInv, UNCHANGED <<starts, pending, task>>,
         \A o \in Order : Dispatched(o) => target'[o] = target[o]
  PROVE  LastKept' /\ Chained' /\ Counted' /\ OneAtATime'
  <1>. USE DEF IInv
  <1>1. \A o \in Order : Dispatched(o)' <=> Dispatched(o)
    BY DEF Dispatched
  <1>2. \A a, b \in Order : Dispatched(b) => (Before(a, b)' <=> Before(a, b))
    BY <1>1 DEF Before
  <1>3. \A e \in Entity, o \in Order : Ours(e, o)' <=> Ours(e, o)
    BY <1>1 DEF Ours
  <1>4. LastKept'
    BY <1>3 DEF LastKept
  <1>5. Chained'
    BY <1>1, <1>2 DEF Chained
  <1>6. Counted'
    BY DEF Counted
  <1>7. OneAtATime'
    BY <1>1 DEF OneAtATime, Dispatched
  <1>. QED  BY <1>4, <1>5, <1>6, <1>7

LEMMA NetworkStep ==
  ASSUME IInv, LinkUp \/ LinkRefused \/ LinkLost PROVE IInv'
  <1>. USE DEF IInv
  <1>1. PICK s \in State : queue' = Append(queue, Says(s))
    <2>1. queue \in Seq(Posted) /\ Says("connected") \in Posted
      BY PostedTypes DEF TypeOK, State
    <2>2. Append(queue, Says("connected")) \o <<>> = Append(queue, Says("connected"))
      BY <2>1, AppendProperties, ConcatEmptySeq
    <2>3. Replayed = <<>>
      BY DEF Replayed, OnMessage
    <2>. QED  BY <2>2, <2>3 DEF LinkUp, LinkRefused, LinkLost, State
  <1>2. UNCHANGED <<starts, stop, state, sent, kept, target, copy, pending, task>>
        /\ owed' \in {0, owed}
    BY DEF LinkUp, LinkRefused, LinkLost, orders
  <1>3. queue' \in Seq(Posted) /\ Lined'
    BY <1>1, <1>2, SaidInLine
  <1>4. starts # 0 /\ link' \in {"up", "down"} /\ drops' \in 0..MaxDrops
    <2>1. link \in {"up", "down"} /\ drops \in 0..MaxDrops /\ starts \in Nat
      BY BridgeAssumption DEF TypeOK
    <2>2. starts > 0 \/ link = "up"
      BY DEF LinkUp, LinkRefused, LinkLost
    <2>3. starts # 0
      BY <2>1, <2>2 DEF Lifetimes
    <2>4. link' \in {"up", "down"}
      BY <2>1 DEF LinkUp, LinkRefused, LinkLost
    <2>5. drops' = drops \/ (drops' = drops + 1 /\ drops < MaxDrops)
      BY DEF LinkUp, LinkRefused, LinkLost
    <2>. QED  BY <2>1, <2>3, <2>4, <2>5, BridgeAssumption
  <1>5. TypeOK' /\ Lifetimes'
    BY <1>2, <1>3, <1>4 DEF TypeOK, Lifetimes
  <1>6. LastKept' /\ Chained' /\ Counted' /\ OneAtATime'
    BY <1>2, TasksUntouched
  <1>7. Copied'
    BY <1>2 DEF Copied, Heard
  <1>. QED  BY <1>3, <1>5, <1>6, <1>7

LEMMA FilterCount ==
  \A t \in Topic : Cardinality(Filters(t)) = IF t = "slider" THEN 2 ELSE 1
  <1>1. \A f : Cardinality({f}) = 1
    BY FS_Singleton
  <1>2. ASSUME NEW f, NEW g, f # g PROVE Cardinality({f, g}) = 2
    <2>1. IsFiniteSet({f}) /\ Cardinality({f}) = 1 /\ g \notin {f}
      BY <1>2, FS_Singleton
    <2>2. Cardinality({f} \cup {g}) = 2
      BY <2>1, FS_AddElement
    <2>3. {f} \cup {g} = {f, g}
      OBVIOUS
    <2>. QED  BY <2>2, <2>3
  <1>. QED  BY <1>1, <1>2 DEF Filters, Topic

\* A message of an order that is delivered, or that no session hears.
LEMMA DeliveredStep ==
  ASSUME IInv, NEW e \in Entity, NEW topic \in Topic, NEW heard \in BOOLEAN,
         NEW a \in Order, sent + 1 \in Order, sent' = sent + 1,
         target' = [target EXCEPT ![sent + 1] = e],
         copy' = [copy EXCEPT ![sent + 1] = [of |-> a, topic |-> topic, heard |-> heard]],
         queue' = queue \/ (queue' = Append(queue, Orders(sent + 1)) /\ heard),
         a = sent + 1 \/ (a = sent /\ copy[a].topic = topic /\ topic = "slider"),
         owed' = 0 \/ (owed' = 1 /\ heard /\ topic = "slider" /\ a = sent + 1),
         kept' \in Order \cup {None}, heard => starts # 0,
         UNCHANGED <<starts, drops, link, stop, state, pending, task>>
  PROVE  IInv'
  <1>. USE DEF IInv
  <1>. DEFINE c == [of |-> a, topic |-> topic, heard |-> heard]
  <1>1. sent \in Nat /\ Order \subseteq Nat /\ None \notin Order
    BY BridgeAssumption DEF TypeOK
  <1>2. queue' \in Seq(Posted) /\ Lined'
    <2>1. c.heard = heard
      OBVIOUS
    <2>. HIDE DEF c
    <2>2. copy' = [copy EXCEPT ![sent + 1] = c]
      BY DEF c
    <2>. QED  BY <2>1, <2>2, SentInLine
  <1>3. TypeOK'
    <2>1. c \in [of : Order \cup {None}, topic : Topic, heard : BOOLEAN]
      OBVIOUS
    <2>. QED  BY <1>2, <2>1 DEF TypeOK
  <1>4. Lifetimes'
    <2>1. starts = 0 => queue' = queue
      OBVIOUS
    <2>. QED  BY <1>1, <2>1 DEF Lifetimes
  <1>5. \A o \in Order : Dispatched(o) => target'[o] = target[o]
    <2>1. \A o \in Order : Dispatched(o) => o # sent + 1
      BY <1>1 DEF Lined
    <2>. QED  BY <2>1 DEF TypeOK
  <1>6. LastKept' /\ Chained' /\ Counted' /\ OneAtATime'
    BY <1>5, TasksUntouched
  <1>7. /\ copy'[sent + 1] = c /\ target'[sent + 1] = e
        /\ \A o \in Order : o # sent + 1 => copy'[o] = copy[o]
    BY DEF TypeOK
  <1>8. \A o \in Order : copy[o].of # sent + 1
    BY <1>1 DEF Copied
  <1>9. Copied'
    <2>1. owed' \in {0, 1}
      OBVIOUS
    <2>2. owed' = 1 => sent' \in Order /\ Heard(sent)' /\ copy'[sent'].topic = "slider"
                       /\ copy'[sent'].of = sent'
      BY <1>7 DEF Heard
    <2>3. ASSUME NEW o \in Order
          PROVE  /\ copy'[o].of # None => o <= sent'
                 /\ \A b \in Order : copy'[o].of = b =>
                      /\ copy'[b].topic = copy'[o].topic
                      /\ o = b \/ (o = b + 1 /\ copy'[o].topic = "slider")
      <3>1. CASE o = sent + 1
        BY <1>1, <1>7, <3>1
      <3>2. CASE o # sent + 1
        BY <1>1, <1>7, <1>8, <3>2 DEF Copied
      <3>. QED  BY <3>1, <3>2
    <2>. QED  BY <2>1, <2>2, <2>3 DEF Copied
  <1>. QED  BY <1>2, <1>3, <1>4, <1>6, <1>9

LEMMA SendStep ==
  ASSUME IInv, NEW e \in Entity, NEW topic \in Topic, NEW retain \in BOOLEAN,
         Send(e, topic, retain)
  PROVE  IInv'
  <1>. DEFINE heard == link = "up"
  <1>1. heard \in BOOLEAN
    OBVIOUS
  <1>2. /\ sent + 1 \in Order /\ sent' = sent + 1
        /\ target' = [target EXCEPT ![sent + 1] = e]
        /\ copy' = [copy EXCEPT ![sent + 1] =
                      [of |-> sent + 1, topic |-> topic, heard |-> heard]]
        /\ kept' \in Order \cup {None}
        /\ UNCHANGED <<starts, drops, link, stop, state, pending, task>>
    BY DEF Send, session, IInv, TypeOK
  <1>3. queue' = queue \/ (queue' = Append(queue, Orders(sent + 1)) /\ heard)
    <2>1. queue \o <<Orders(sent + 1)>> = Append(queue, Orders(sent + 1))
      BY <1>2, PostedTypes, AppendIsConcat DEF IInv, TypeOK
    <2>. QED  BY <2>1 DEF Send, OnMessage
  <1>4. owed' = 0 \/ (owed' = 1 /\ heard /\ topic = "slider")
    BY FilterCount DEF Send
  <1>5. heard => starts # 0
    BY DEF IInv, Lifetimes
  <1>. HIDE DEF heard
  <1>. QED  BY <1>1, <1>2, <1>3, <1>4, <1>5, DeliveredStep

LEMMA RepeatStep ==
  ASSUME IInv, Repeat PROVE IInv'
  <1>1. /\ sent \in Order /\ Heard(sent) /\ copy[sent].topic = "slider"
        /\ copy[sent].of = sent /\ owed' = 0 /\ starts # 0
    BY DEF Repeat, IInv, Copied, Lifetimes
  <1>2. PICK e \in Entity : e = target[sent]
    BY <1>1 DEF Heard
  <1>3. copy[sent] = [of |-> sent, topic |-> "slider", heard |-> TRUE]
    <2>1. copy[sent] \in [of : Order \cup {None}, topic : Topic, heard : BOOLEAN]
      BY <1>1 DEF IInv, TypeOK
    <2>2. copy[sent].heard = TRUE
      BY <1>1, <2>1 DEF Heard
    <2>. QED  BY <1>1, <2>1, <2>2
  <1>4. queue' = Append(queue, Orders(sent + 1))
    <2>1. queue \o <<Orders(sent + 1)>> = Append(queue, Orders(sent + 1))
      BY PostedTypes, AppendIsConcat DEF Repeat, IInv, TypeOK
    <2>. QED  BY <2>1 DEF Repeat, OnMessage
  <1>5. /\ sent + 1 \in Order /\ sent' = sent + 1
        /\ target' = [target EXCEPT ![sent + 1] = e]
        /\ copy' = [copy EXCEPT ![sent + 1] =
                      [of |-> sent, topic |-> "slider", heard |-> TRUE]]
        /\ kept' \in Order \cup {None}
        /\ UNCHANGED <<starts, drops, link, stop, state, pending, task>>
    BY <1>2, <1>3 DEF Repeat, session, IInv, TypeOK
  <1>6. "slider" \in Topic /\ TRUE \in BOOLEAN
    BY DEF Topic
  <1>. QED  BY <1>1, <1>4, <1>5, <1>6, DeliveredStep

\* A client starts: no task is of its epoch yet.
LEMMA NewClient ==
  ASSUME IInv, UNCHANGED <<target, task>>, starts' = starts + 1,
         \A e \in Entity : pending'[e] = None
  PROVE  LastKept' /\ Chained' /\ Counted' /\ OneAtATime'
  <1>. USE BridgeAssumption DEF IInv
  <1>1. \A o \in Order : task[o].epoch # starts'
    BY DEF Lifetimes, TypeOK
  <1>2. LastKept'
    BY <1>1 DEF LastKept, Ours
  <1>3. Chained' /\ Counted' /\ OneAtATime'
    BY DEF Chained, Counted, OneAtATime, Dispatched, Before
  <1>. QED  BY <1>2, <1>3

LEMMA StartStep ==
  ASSUME IInv, FirstStart \/ StopEndStart PROVE IInv'
  <1>. USE DEF IInv
  <1>1. /\ starts' = starts + 1 /\ starts' \in 1..MaxStarts /\ stop' = "no"
        /\ UNCHANGED <<drops, sent, kept, target, copy, owed, task>>
    <2>1. CASE FirstStart
      <3>1. stop = "no"
        BY <2>1, BridgeAssumption DEF FirstStart, Lifetimes, TypeOK
      <3>. QED  BY <2>1, <3>1, BridgeAssumption DEF FirstStart, orders
    <2>2. CASE StopEndStart
      BY <2>2, BridgeAssumption DEF StopEndStart, Lifetimes, orders
    <2>. QED  BY <2>1, <2>2
  <1>2. pending' \in [Entity -> Order \cup {None}] /\ \A e \in Entity : pending'[e] = None
    BY DEF FirstStart, StopEndStart, Lifetimes, TypeOK
  <1>3. LastKept' /\ Chained' /\ Counted' /\ OneAtATime'
    BY <1>1, <1>2, NewClient
  <1>4. queue' = queue \/ queue' = Append(queue, Says("disconnected"))
    <2>1. queue \o <<>> = queue
      BY ConcatEmptySeq DEF TypeOK
    <2>2. queue \o <<Says("disconnected")>> = Append(queue, Says("disconnected"))
      BY PostedTypes, AppendIsConcat DEF TypeOK, State
    <2>. QED  BY <2>1, <2>2 DEF FirstStart, StopEndStart, Farewell
  <1>5. queue' \in Seq(Posted) /\ Lined'
    <2>1. CASE queue' = queue
      BY <1>1, <2>1 DEF TypeOK, Lined, Dispatched, Heard
    <2>2. CASE queue' = Append(queue, Says("disconnected"))
      BY <1>1, <2>2, SaidInLine DEF State
    <2>. QED  BY <1>4, <2>1, <2>2
  <1>6. TypeOK'
    <2>1. link' \in {"up", "down"} /\ state' \in State
      BY DEF FirstStart, StopEndStart, TypeOK, State
    <2>. QED  BY <1>1, <1>2, <1>5, <2>1, BridgeAssumption DEF TypeOK
  <1>7. Lifetimes'
    BY <1>1, BridgeAssumption DEF Lifetimes, TypeOK
  <1>8. Copied'
    BY <1>1 DEF Copied, Heard
  <1>. QED  BY <1>3, <1>5, <1>6, <1>7, <1>8

LEMMA StopStep ==
  ASSUME IInv, StopBegin PROVE IInv'
  <1>. USE DEF IInv
  <1>1. UNCHANGED <<starts, drops, link, state, queue, sent, kept, target, copy, owed,
                    pending, task>>
    BY DEF StopBegin, orders
  <1>2. TypeOK' /\ Lifetimes' /\ Lined' /\ Copied'
    BY <1>1 DEF StopBegin, TypeOK, Lifetimes, Lined, Dispatched, Heard, Copied
  <1>3. LastKept' /\ Chained' /\ Counted' /\ OneAtATime'
    BY <1>1, TasksUntouched
  <1>. QED  BY <1>2, <1>3

----------------------------------------------------------------------------
(* The event loop.                                                         *)

LEMMA SetStateStep ==
  ASSUME IInv, SetState PROVE IInv'
  <1>. USE DEF IInv
  <1>1. /\ queue # <<>> /\ ~IsOrder(Head(queue)) /\ state' = Head(queue).state
        /\ queue' = Tail(queue)
        /\ UNCHANGED <<starts, drops, link, stop, sent, kept, target, copy, owed,
                       pending, task>>
    BY DEF SetState, session, orders
  <1>2. /\ queue' \in Seq(Posted) /\ state' \in State /\ Len(queue) \in Nat
        /\ Len(queue') = Len(queue) - 1
        /\ \A i \in 1..Len(queue') : queue'[i] = queue[i + 1]
    BY <1>1, TailInLine, PostedTypes
  <1>3. Lined'
    BY <1>1, <1>2 DEF Lined, Dispatched, Heard
  <1>4. TypeOK' /\ Lifetimes' /\ Copied'
    BY <1>1, <1>2 DEF TypeOK, Lifetimes, Copied, Heard
  <1>5. LastKept' /\ Chained' /\ Counted' /\ OneAtATime'
    BY <1>1, TasksUntouched
  <1>. QED  BY <1>3, <1>4, <1>5

\* A new task is the last one of its entity, and follows the one that was.
LEMMA NewTask ==
  ASSUME IInv, NEW o \in Order, NEW e \in Entity, target[o] = e,
         \A d \in Order : Dispatched(d) => d < o,
         task' = [task EXCEPT ![o] = [step |-> "waiting", after |-> pending[e],
                                      epoch |-> starts, runs |-> task[o].runs]],
         pending' = [pending EXCEPT ![e] = o], UNCHANGED <<starts, target>>
  PROVE  LastKept' /\ Chained' /\ Counted' /\ OneAtATime'
  <1>. USE DEF IInv
  <1>1. Order \subseteq Nat /\ None \notin Order
    BY BridgeAssumption
  <1>2. ~Dispatched(o) /\ task[o].runs = 0
    BY <1>1 DEF Dispatched, Counted
  <1>3. /\ task'[o].step = "waiting" /\ task'[o].after = pending[e]
        /\ task'[o].epoch = starts /\ task'[o].runs = 0
        /\ \A d \in Order : d # o => task'[d] = task[d]
        /\ pending'[e] = o
        /\ \A x \in Entity : x # e => pending'[x] = pending[x]
    BY <1>2 DEF TypeOK
  <1>4. \A d \in Order : Dispatched(d)' <=> Dispatched(d) \/ d = o
    BY <1>3 DEF Dispatched
  <1>5. \A x \in Entity, d \in Order : Ours(x, d)' <=> Ours(x, d) \/ (x = e /\ d = o)
    BY <1>2, <1>3, <1>4 DEF Ours
  <1>6. LastKept'
    <2>1. ASSUME NEW x \in Entity, x # e
          PROVE  /\ pending'[x] = None =>
                      \A d \in Order : Ours(x, d)' => task'[d].step = "done"
                 /\ \A p \in Order : pending'[x] = p =>
                      /\ Ours(x, p)' /\ task'[p].step # "done"
                      /\ \A d \in Order : Ours(x, d)' => d <= p
      <3>1. pending'[x] = pending[x]
        BY <1>3, <2>1
      <3>2. \A d \in Order : Ours(x, d)' <=> Ours(x, d) /\ d # o
        BY <1>2, <1>5, <2>1 DEF Ours
      <3>3. \A d \in Order : Ours(x, d) => d # o
        BY <1>2 DEF Ours
      <3>. QED  BY <1>3, <3>1, <3>2, <3>3 DEF LastKept
    <2>2. \A d \in Order : Ours(e, d)' => d <= o
      BY <1>1, <1>5 DEF Ours
    <2>3. Ours(e, o)' /\ task'[o].step # "done" /\ pending'[e] # None
      BY <1>1, <1>3, <1>5
    <2>. QED  BY <1>3, <2>1, <2>2, <2>3 DEF LastKept
  <1>7. Chained'
    <2>1. ASSUME NEW b \in Order, b # o, Dispatched(b)
          PROVE  \A a \in Order : Before(a, b)' <=> Before(a, b) /\ a # o
      BY <1>1, <1>2, <1>3, <1>4, <2>1 DEF Before
    <2>2. ASSUME NEW b \in Order, b # o, Dispatched(b)
          PROVE  /\ task'[b].after = None =>
                      \A a \in Order : Before(a, b)' => task'[a].step = "done"
                 /\ \A p \in Order : task'[b].after = p =>
                      Before(p, b)' /\ \A a \in Order : Before(a, b)' => a <= p
      <3>1. \A a \in Order : Before(a, b) => a # o
        BY <1>2 DEF Before
      <3>. QED  BY <1>3, <2>1, <2>2, <3>1 DEF Chained
    <2>3. \A a \in Order : Before(a, o)' <=> Ours(e, a)
      BY <1>1, <1>2, <1>3, <1>4 DEF Before, Ours
    <2>4. /\ task'[o].after = None =>
               \A a \in Order : Before(a, o)' => task'[a].step = "done"
          /\ \A p \in Order : task'[o].after = p =>
               Before(p, o)' /\ \A a \in Order : Before(a, o)' => a <= p
      <3>1. \A a \in Order : Ours(e, a) => a # o
        BY <1>2 DEF Ours
      <3>. QED  BY <1>3, <2>3, <3>1 DEF LastKept
    <2>. QED  BY <1>4, <2>2, <2>4 DEF Chained
  <1>8. Counted'
    BY <1>3 DEF Counted
  <1>9. OneAtATime'
    <2>. SUFFICES ASSUME NEW a \in Order, NEW b \in Order, a < b, target[a] = target[b],
                         task'[a].epoch = task'[b].epoch, task'[a].step # "none",
                         task'[b].step \in {"running", "done"}
                  PROVE  task'[a].step = "done"
      BY DEF OneAtATime
    <2>1. b # o
      BY <1>3
    <2>2. Dispatched(b) /\ a # o
      BY <1>1, <1>3, <2>1 DEF Dispatched
    <2>. QED  BY <1>3, <2>1, <2>2 DEF OneAtATime
  <1>. QED  BY <1>6, <1>7, <1>8, <1>9

LEMMA DispatchStep ==
  ASSUME IInv, Dispatch PROVE IInv'
  <1>. USE DEF IInv
  <1>1. /\ queue # <<>> /\ IsOrder(Head(queue)) /\ queue' = Tail(queue)
        /\ UNCHANGED <<starts, drops, link, stop, state, sent, kept, target, copy, owed>>
    BY DEF Dispatch, session, orders
  <1>2. /\ Len(queue) \in Nat \ {0} /\ Len(queue') = Len(queue) - 1
        /\ queue' \in Seq(Posted) /\ Head(queue) = queue[1] /\ Head(queue).order \in Order
        /\ \A i \in 1..Len(queue') : queue'[i] = queue[i + 1]
    BY <1>1, TailInLine, PostedTypes
  <1>3. PICK o \in Order : o = Head(queue).order
    BY <1>2
  <1>4. /\ o <= sent /\ Heard(o)
        /\ \A d \in Order : Dispatched(d) => d < o
    BY <1>1, <1>2, <1>3 DEF Lined
  <1>5. PICK e \in Entity : target[o] = e
    BY <1>4 DEF Heard
  <1>6. /\ task' = [task EXCEPT ![o] = [step |-> "waiting", after |-> pending[e],
                                        epoch |-> starts, runs |-> task[o].runs]]
        /\ pending' = [pending EXCEPT ![e] = o]
    BY <1>3, <1>5 DEF Dispatch, Previous
  <1>7. /\ task'[o].step = "waiting" /\ task'[o].epoch = starts
        /\ \A d \in Order : d # o => task'[d] = task[d]
    BY <1>6 DEF TypeOK
  <1>8. \A d \in Order : Dispatched(d)' <=> Dispatched(d) \/ d = o
    BY <1>7 DEF Dispatched
  <1>9. TypeOK'
    BY <1>1, <1>2, <1>6 DEF TypeOK
  <1>10. Lifetimes'
    <2>1. starts # 0 /\ starts \in Nat
      BY <1>1, BridgeAssumption DEF Lifetimes, TypeOK
    <2>. QED  BY <1>1, <1>7, <2>1 DEF Lifetimes
  <1>11. Lined'
    <2>1. ASSUME NEW i \in 1..Len(queue'), IsOrder(queue'[i])
          PROVE  /\ queue'[i].order <= sent' /\ target'[queue'[i].order] \in Entity
                 /\ copy'[queue'[i].order].heard
                 /\ \A d \in Order : Dispatched(d)' => d < queue'[i].order
      <3>1. /\ i + 1 \in 1..Len(queue) /\ 1 \in 1..Len(queue) /\ 1 < i + 1
            /\ queue'[i] = queue[i + 1]
        BY <1>2
      <3>2. o < queue'[i].order
        BY <1>1, <1>2, <1>3, <2>1, <3>1 DEF Lined
      <3>. QED  BY <1>1, <1>8, <2>1, <3>1, <3>2 DEF Lined, Heard
    <2>2. \A i, j \in 1..Len(queue') :
            i < j /\ IsOrder(queue'[i]) /\ IsOrder(queue'[j])
              => queue'[i].order < queue'[j].order
      <3>1. \A i, j \in 1..Len(queue') : i < j =>
              i + 1 \in 1..Len(queue) /\ j + 1 \in 1..Len(queue) /\ i + 1 < j + 1
        BY <1>2
      <3>. QED  BY <1>2, <3>1 DEF Lined
    <2>3. \A d \in Order : Dispatched(d)' => d <= sent' /\ Heard(d)'
      BY <1>1, <1>4, <1>8 DEF Lined, Heard
    <2>. QED  BY <2>1, <2>2, <2>3 DEF Lined, Heard
  <1>12. LastKept' /\ Chained' /\ Counted' /\ OneAtATime'
    BY <1>1, <1>4, <1>5, <1>6, NewTask
  <1>13. Copied'
    BY <1>1 DEF Copied, Heard
  <1>. QED  BY <1>9, <1>10, <1>11, <1>12, <1>13

\* A dispatched task moves on: what it follows and what follows it stay.
LEMMA TaskMoves ==
  ASSUME IInv, NEW o \in Order, Dispatched(o), NEW s \in {"running", "done"}, NEW n \in Nat,
         task' = [task EXCEPT ![o].step = s, ![o].runs = n],
         UNCHANGED <<session, state, queue, orders>>,
         pending' \in [Entity -> Order \cup {None}],
         \A e \in Entity : pending'[e] # pending[e] => starts # 0
  PROVE  /\ TypeOK' /\ Lifetimes' /\ Lined' /\ Copied'
         /\ task'[o].step = s /\ task'[o].runs = n /\ task'[o].epoch = task[o].epoch
         /\ \A d \in Order : d # o => task'[d] = task[d]
         /\ \A d \in Order : Dispatched(d)' <=> Dispatched(d)
         /\ \A e \in Entity, d \in Order : Ours(e, d)' <=> Ours(e, d)
         /\ \A a, b \in Order : Before(a, b)' <=> Before(a, b)
         /\ \A d \in Order : task'[d].after = task[d].after /\ task'[d].epoch = task[d].epoch
  <1>. USE DEF IInv
  <1>1. UNCHANGED <<starts, drops, link, stop, state, queue, sent, kept, target, copy, owed>>
    BY DEF session, orders
  <1>2. /\ task'[o].step = s /\ task'[o].runs = n
        /\ \A d \in Order : d # o => task'[d] = task[d]
        /\ \A d \in Order : task'[d].after = task[d].after /\ task'[d].epoch = task[d].epoch
    BY DEF TypeOK
  <1>3. TypeOK'
    BY <1>1 DEF TypeOK
  <1>4. \A d \in Order : Dispatched(d)' <=> Dispatched(d)
    BY <1>2 DEF Dispatched
  <1>5. Lifetimes' /\ Lined' /\ Copied'
    BY <1>1, <1>2, <1>4 DEF Lifetimes, Lined, Heard, Copied
  <1>6. /\ \A e \in Entity, d \in Order : Ours(e, d)' <=> Ours(e, d)
        /\ \A a, b \in Order : Before(a, b)' <=> Before(a, b)
    BY <1>1, <1>2, <1>4 DEF Ours, Before
  <1>. QED  BY <1>2, <1>3, <1>4, <1>5, <1>6

LEMMA BeginStep ==
  ASSUME IInv, NEW o \in Order, Begin(o) PROVE IInv'
  <1>. USE DEF IInv
  <1>1. /\ task[o].step = "waiting" /\ task[o].runs = 0 /\ Dispatched(o)
        /\ task[o].after # None => task[task[o].after].step = "done"
        /\ UNCHANGED <<session, state, queue, orders, pending>>
    BY DEF Begin, Dispatched, Counted
  <1>2. task' = [task EXCEPT ![o].step = "running", ![o].runs = 1]
    BY <1>1 DEF Begin
  <1>3. /\ TypeOK' /\ Lifetimes' /\ Lined' /\ Copied'
        /\ task'[o].step = "running" /\ task'[o].runs = 1
        /\ \A d \in Order : d # o => task'[d] = task[d]
        /\ \A d \in Order : Dispatched(d)' <=> Dispatched(d)
        /\ \A e \in Entity, d \in Order : Ours(e, d)' <=> Ours(e, d)
        /\ \A a, b \in Order : Before(a, b)' <=> Before(a, b)
        /\ \A d \in Order : task'[d].after = task[d].after /\ task'[d].epoch = task[d].epoch
    BY <1>1, <1>2, TaskMoves DEF TypeOK
  <1>4. LastKept'
    BY <1>1, <1>3 DEF LastKept
  <1>5. Chained'
    BY <1>1, <1>3 DEF Chained
  <1>6. Counted'
    BY <1>3 DEF Counted
  <1>7. ASSUME NEW a \in Order, Before(a, o) PROVE task[a].step = "done"
    <2>1. CASE task[o].after = None
      BY <1>1, <1>7, <2>1 DEF Chained
    <2>2. CASE task[o].after # None
      <3>1. PICK p \in Order : p = task[o].after
        BY <2>2 DEF TypeOK
      <3>2. task[p].step = "done" /\ Before(p, o) /\ a <= p
        BY <1>1, <1>7, <2>2, <3>1 DEF Chained
      <3>3. a < p \/ a = p
        BY <3>2, BridgeAssumption
      <3>4. target[a] = target[p] /\ task[a].epoch = task[p].epoch /\ task[a].step # "none"
        BY <1>7, <3>2 DEF Before, Dispatched
      <3>. QED  BY <3>2, <3>3, <3>4 DEF OneAtATime
    <2>. QED  BY <2>1, <2>2
  <1>8. OneAtATime'
    <2>. SUFFICES ASSUME NEW a \in Order, NEW b \in Order, Before(a, b)',
                         task'[b].step \in {"running", "done"}
                  PROVE  task'[a].step = "done"
      BY DEF OneAtATime, Before, Dispatched
    <2>1. Before(a, b)
      BY <1>3
    <2>2. CASE b = o
      <3>1. task[a].step = "done" /\ a # o
        BY <1>1, <1>7, <2>1, <2>2
      <3>. QED  BY <1>3, <3>1
    <2>3. CASE b # o
      <3>1. task[a].step = "done"
        BY <1>3, <2>1, <2>3 DEF OneAtATime, Before, Dispatched
      <3>. QED  BY <1>1, <1>3, <3>1
    <2>. QED  BY <2>2, <2>3
  <1>. QED  BY <1>3, <1>4, <1>5, <1>6, <1>8

LEMMA EndStep ==
  ASSUME IInv, NEW o \in Order, End(o) PROVE IInv'
  <1>. USE DEF IInv
  <1>. DEFINE e == target[o]
  <1>1. /\ task[o].step = "running" /\ task[o].runs = 1 /\ Dispatched(o)
        /\ pending' = [pending EXCEPT ![e] = IF pending[e] = o THEN None ELSE pending[e]]
        /\ UNCHANGED <<session, state, queue, orders>>
    BY DEF End, Forget, Dispatched, Counted
  <1>2. task' = [task EXCEPT ![o].step = "done", ![o].runs = 1]
    <2>1. task[o].runs = 1
      BY <1>1
    <2>. QED  BY <2>1 DEF End, TypeOK
  <1>3. e \in Entity /\ pending' \in [Entity -> Order \cup {None}]
    BY <1>1 DEF Lined, TypeOK, Heard
  <1>4. /\ pending'[e] = IF pending[e] = o THEN None ELSE pending[e]
        /\ \A x \in Entity : x # e => pending'[x] = pending[x]
    BY <1>1, <1>3 DEF TypeOK
  <1>5. \A x \in Entity : pending'[x] # pending[x] => starts # 0
    BY <1>4, BridgeAssumption DEF Lifetimes
  <1>6. /\ TypeOK' /\ Lifetimes' /\ Lined' /\ Copied'
        /\ task'[o].step = "done" /\ task'[o].runs = 1
        /\ \A d \in Order : d # o => task'[d] = task[d]
        /\ \A d \in Order : Dispatched(d)' <=> Dispatched(d)
        /\ \A x \in Entity, d \in Order : Ours(x, d)' <=> Ours(x, d)
        /\ \A a, b \in Order : Before(a, b)' <=> Before(a, b)
        /\ \A d \in Order : task'[d].after = task[d].after /\ task'[d].epoch = task[d].epoch
    BY <1>1, <1>2, <1>3, <1>5, TaskMoves
  <1>7. \A d \in Order : task[d].step = "done" => task'[d].step = "done"
    BY <1>6
  <1>8. LastKept'
    <2>1. ASSUME NEW x \in Entity, pending[x] = None
          PROVE  pending'[x] = None /\ \A d \in Order : Ours(x, d)' => task'[d].step = "done"
      <3>1. pending'[x] = None
        BY <1>4, <2>1
      <3>. QED  BY <1>6, <1>7, <2>1, <3>1 DEF LastKept
    <2>2. ASSUME NEW x \in Entity, pending[x] = o
          PROVE  pending'[x] = None /\ \A d \in Order : Ours(x, d)' => task'[d].step = "done"
      <3>1. Ours(x, o) /\ \A d \in Order : Ours(x, d) => d <= o
        BY <2>2 DEF LastKept
      <3>2. x = e /\ pending'[x] = None
        BY <1>4, <2>2, <3>1, BridgeAssumption DEF Ours
      <3>3. ASSUME NEW d \in Order, Ours(x, d), d # o PROVE task[d].step = "done"
        <4>1. d < o
          BY <3>1, <3>3, BridgeAssumption
        <4>. QED  BY <1>1, <3>1, <3>3, <4>1 DEF OneAtATime, Ours, Dispatched
      <3>. QED  BY <1>6, <3>2, <3>3
    <2>3. ASSUME NEW x \in Entity, NEW p \in Order, pending[x] = p, p # o
          PROVE  /\ pending'[x] = p /\ Ours(x, p)' /\ task'[p].step # "done"
                 /\ \A d \in Order : Ours(x, d)' => d <= p
      BY <1>4, <1>6, <2>3 DEF LastKept
    <2>4. \A x \in Entity : pending[x] \in Order \cup {None}
      BY DEF TypeOK
    <2>. QED  BY <2>1, <2>2, <2>3, <2>4, BridgeAssumption DEF LastKept
  <1>9. Chained'
    BY <1>6, <1>7 DEF Chained
  <1>10. Counted'
    BY <1>6 DEF Counted
  <1>11. OneAtATime'
    <2>. SUFFICES ASSUME NEW a \in Order, NEW b \in Order, Before(a, b)',
                         task'[b].step \in {"running", "done"}
                  PROVE  task'[a].step = "done"
      BY DEF OneAtATime, Before, Dispatched
    <2>1. Before(a, b) /\ task[b].step \in {"running", "done"}
      BY <1>1, <1>6
    <2>. QED  BY <1>7, <2>1 DEF OneAtATime, Before, Dispatched
  <1>. QED  BY <1>6, <1>8, <1>9, <1>10, <1>11

----------------------------------------------------------------------------
LEMMA InitInvariant == Init => IInv
  <1>. SUFFICES ASSUME Init PROVE IInv
    OBVIOUS
  <1>. USE BridgeAssumption DEF Init, NoTask, NoCopy
  <1>1. TypeOK /\ Copied
    BY EmptySeq DEF TypeOK, State, Topic, Copied
  <1>2. Lifetimes /\ Lined
    BY EmptySeq DEF Lifetimes, Lined, Dispatched
  <1>3. LastKept /\ Chained
    BY DEF LastKept, Chained, Dispatched, Ours
  <1>4. Counted /\ OneAtATime
    BY DEF Counted, OneAtATime
  <1>. QED  BY <1>1, <1>2, <1>3, <1>4 DEF IInv

LEMMA NextInvariant == IInv /\ [Next]_vars => IInv'
  <1>. SUFFICES ASSUME IInv, [Next]_vars PROVE IInv'
    OBVIOUS
  <1>1. CASE FirstStart \/ StopEndStart
    BY <1>1, StartStep
  <1>2. CASE StopBegin
    BY <1>2, StopStep
  <1>3. CASE LinkUp \/ LinkRefused \/ LinkLost
    BY <1>3, NetworkStep
  <1>4. ASSUME NEW e \in Entity, NEW topic \in Topic, NEW retain \in BOOLEAN,
               Send(e, topic, retain)
        PROVE  IInv'
    BY <1>4, SendStep
  <1>5. CASE SetState
    BY <1>5, SetStateStep
  <1>6. CASE Dispatch
    BY <1>6, DispatchStep
  <1>7. ASSUME NEW o \in Order, Begin(o) \/ End(o) PROVE IInv'
    BY <1>7, BeginStep, EndStep
  <1>8. CASE UNCHANGED vars
    <2>1. UNCHANGED <<starts, drops, link, stop, state, queue, sent, kept, target, copy, owed,
                      pending, task>>
      BY <1>8 DEF vars, session, orders
    <2>2. TypeOK' /\ Lifetimes' /\ Lined' /\ Copied'
      BY <2>1 DEF IInv, TypeOK, Lifetimes, Lined, Dispatched, Heard, Copied
    <2>. QED  BY <2>1, <2>2, TasksUntouched DEF IInv
  <1>9. CASE Repeat
    BY <1>9, RepeatStep
  <1>. QED  BY <1>1, <1>2, <1>3, <1>4, <1>5, <1>6, <1>7, <1>8, <1>9 DEF Next

THEOREM Invariant == Spec => []IInv
  BY InitInvariant, NextInvariant, PTL DEF Spec

\* However clients are replaced and sessions lost, two orders of one entity dispatched to
\* the same client never run together nor out of order.
THEOREM OrdersAreSerial == Spec => []OneAtATime
  <1>1. IInv => OneAtATime
    BY DEF IInv
  <1>. QED  BY <1>1, Invariant, PTL

\* The messages of an order that ran are the order and, of a slider, the one after it.
LEMMA RanFew ==
  ASSUME IInv, NEW o \in Order
  PROVE  Cardinality(Ran(o)) <= Cardinality(Filters(copy[o].topic))
  <1>. DEFINE t == copy[o].topic
              all == IF t = "slider" THEN {o, o + 1} ELSE {o}
  <1>1. Ran(o) \subseteq all
    BY DEF IInv, Copied, Ran
  <1>2. t \in Topic
    BY DEF IInv, TypeOK
  <1>3. IsFiniteSet(all) /\ Cardinality(all) = IF t = "slider" THEN 2 ELSE 1
    <2>1. IsFiniteSet({o}) /\ Cardinality({o}) = 1
      BY FS_Singleton
    <2>2. o + 1 \notin {o}
      BY BridgeAssumption
    <2>3. {o, o + 1} = {o} \cup {o + 1}
      OBVIOUS
    <2>4. IsFiniteSet({o} \cup {o + 1}) /\ Cardinality({o} \cup {o + 1}) = 2
      BY <2>1, <2>2, FS_AddElement
    <2>. QED  BY <2>1, <2>3, <2>4
  <1>. HIDE DEF all, t
  <1>4. Cardinality(Ran(o)) <= Cardinality(all)
    BY <1>1, <1>3, FS_Subset
  <1>5. Cardinality(all) = Cardinality(Filters(t))
    BY <1>2, <1>3, FilterCount
  <1>. QED  BY <1>4, <1>5 DEF t

\* Whatever sessions are lost and whatever the broker retains or repeats: an order that no
\* session heard never runs, each delivery runs at most once, and an order as many times at
\* most as filters match its topic.
THEOREM OrdersRunAsHeard == Spec => []RunsAsHeard
  <1>1. ASSUME IInv PROVE RunsAsHeard
    <2>1. \A o \in Order : task[o].runs <= IF copy[o].heard THEN 1 ELSE 0
      <3>. TAKE o \in Order
      <3>1. CASE Dispatched(o)
        <4>1. copy[o].heard
          BY <1>1, <3>1 DEF IInv, Lined, Heard
        <4>. QED  BY <1>1, <4>1 DEF IInv, Counted
      <3>2. CASE ~Dispatched(o)
        BY <1>1, <3>2 DEF IInv, Counted, Dispatched
      <3>. QED  BY <3>1, <3>2
    <2>. QED  BY <1>1, <2>1, RanFew DEF RunsAsHeard
  <1>2. IInv => RunsAsHeard
    BY <1>1
  <1>. QED  BY <1>2, Invariant, PTL

\* The state of the bridge has its type.
THEOREM Typing == Spec => []TypeOK
  <1>1. IInv => TypeOK
    BY DEF IInv
  <1>. QED  BY <1>1, Invariant, PTL

----------------------------------------------------------------------------
(* The state the daemon reads, when a session is not accepted between the   *)
(* farewell that failed and the end of its client.                          *)

\* The last state that waits for the loop, or the one it has set if none waits, is that of
\* the session, whichever client it is of.
LastSaid(m) ==
  ~IsOrder(queue[m]) /\ \A j \in 1..Len(queue) : j > m => IsOrder(queue[j])
AllOrders == \A i \in 1..Len(queue) : IsOrder(queue[i])
LastSaysLink ==
  /\ AllOrders => (state = "connected" <=> link = "up")
  /\ \A m \in 1..Len(queue) : LastSaid(m) => (queue[m].state = "connected" <=> link = "up")
UnsentStaysDown == stop = "unsent" => link = "down"

HonestInv == IInv /\ LastSaysLink /\ UnsentStaysDown

\* Whatever was said before, a state that is posted is the last one.
LEMMA SaidLast ==
  ASSUME TypeOK, NEW s \in State, queue' = Append(queue, Says(s)),
         s = "connected" <=> link' = "up"
  PROVE  LastSaysLink'
  <1>. DEFINE n == Len(queue) + 1
  <1>1. queue \in Seq(Posted) /\ Says(s) \in Posted /\ ~IsOrder(Says(s)) /\ Says(s).state = s
    BY PostedTypes DEF TypeOK, Says
  <1>2. /\ Len(queue) \in Nat /\ Len(queue') = n
        /\ queue'[n] = Says(s)
    BY <1>1, AppendProperties, LenProperties
  <1>3. ~AllOrders'
    BY <1>1, <1>2 DEF AllOrders
  <1>4. ASSUME NEW m \in 1..Len(queue'), LastSaid(m)' PROVE m = n
    <2>1. ~(n > m)
      BY <1>1, <1>2, <1>4 DEF LastSaid
    <2>. QED  BY <1>2, <2>1
  <1>. QED  BY <1>1, <1>2, <1>3, <1>4 DEF LastSaysLink

\* An order that is posted says nothing of the session.
LEMMA OrderSaysNothing ==
  ASSUME TypeOK, LastSaysLink, NEW o \in Order, queue' = Append(queue, Orders(o)),
         UNCHANGED <<state, link>>
  PROVE  LastSaysLink'
  <1>. DEFINE n == Len(queue) + 1
  <1>1. queue \in Seq(Posted) /\ Orders(o) \in Posted /\ IsOrder(Orders(o))
    BY PostedTypes DEF TypeOK
  <1>2. /\ Len(queue) \in Nat /\ Len(queue') = n /\ queue'[n] = Orders(o)
        /\ \A i \in 1..Len(queue) : queue'[i] = queue[i]
    BY <1>1, AppendProperties, LenProperties
  <1>3. AllOrders' => AllOrders
    BY <1>2 DEF AllOrders
  <1>4. ASSUME NEW m \in 1..Len(queue'), LastSaid(m)'
        PROVE  m \in 1..Len(queue) /\ LastSaid(m) /\ queue'[m] = queue[m]
    <2>1. m \in 1..Len(queue)
      BY <1>1, <1>2, <1>4 DEF LastSaid
    <2>. QED  BY <1>2, <1>4, <2>1 DEF LastSaid
  <1>. QED  BY <1>3, <1>4 DEF LastSaysLink

\* What the loop takes is not the last state, or becomes the state it has set.
LEMMA TakenIsSet ==
  ASSUME TypeOK, LastSaysLink, queue # <<>>, queue' = Tail(queue), link' = link,
         state' = IF IsOrder(Head(queue)) THEN state ELSE Head(queue).state
  PROVE  LastSaysLink'
  <1>1. /\ Len(queue) \in Nat \ {0} /\ Len(queue') = Len(queue) - 1
        /\ Head(queue) = queue[1]
        /\ \A i \in 1..Len(queue') : queue'[i] = queue[i + 1]
    BY TailInLine
  <1>2. ASSUME AllOrders' PROVE state' = "connected" <=> link' = "up"
    <2>1. \A j \in 1..Len(queue) : j > 1 => IsOrder(queue[j])
      <3>. TAKE j \in 1..Len(queue)
      <3>1. j > 1 => j - 1 \in 1..Len(queue') /\ queue'[j - 1] = queue[j]
        BY <1>1
      <3>. QED  BY <1>2, <3>1 DEF AllOrders
    <2>2. CASE IsOrder(queue[1])
      <3>1. AllOrders
        BY <1>1, <2>1, <2>2 DEF AllOrders
      <3>. QED  BY <1>1, <2>2, <3>1 DEF LastSaysLink
    <2>3. CASE ~IsOrder(queue[1])
      <3>1. LastSaid(1) /\ 1 \in 1..Len(queue)
        BY <1>1, <2>1, <2>3 DEF LastSaid
      <3>. QED  BY <1>1, <2>3, <3>1 DEF LastSaysLink
    <2>. QED  BY <2>2, <2>3
  <1>3. ASSUME NEW m \in 1..Len(queue'), LastSaid(m)'
        PROVE  queue'[m].state = "connected" <=> link' = "up"
    <2>1. m + 1 \in 1..Len(queue) /\ queue'[m] = queue[m + 1]
      BY <1>1
    <2>2. \A j \in 1..Len(queue) : j > m + 1 => IsOrder(queue[j])
      <3>. TAKE j \in 1..Len(queue)
      <3>1. j > m + 1 => j - 1 \in 1..Len(queue') /\ j - 1 > m /\ queue'[j - 1] = queue[j]
        BY <1>1
      <3>. QED  BY <1>3, <3>1 DEF LastSaid
    <2>3. LastSaid(m + 1)
      BY <1>3, <2>1, <2>2 DEF LastSaid
    <2>. QED  BY <2>1, <2>3 DEF LastSaysLink
  <1>. QED  BY <1>2, <1>3 DEF LastSaysLink

\* An empty queue has no place.
LEMMA EmptyRange == \A n : n = 0 => 1..n = {}
  <1>1. 1..0 = {}
    OBVIOUS
  <1>. QED  BY <1>1

LEMMA InitHonest == Init => HonestInv
  <1>. SUFFICES ASSUME Init PROVE HonestInv
    OBVIOUS
  <1>1. Len(queue) = 0
    BY EmptySeq DEF Init
  <1>2. LastSaysLink /\ UnsentStaysDown
    BY <1>1 DEF Init, LastSaysLink, UnsentStaysDown
  <1>. QED  BY <1>2, InitInvariant DEF HonestInv

LEMMA HonestStep ==
  "late connect" \notin Features /\ HonestInv /\ [Next]_vars => HonestInv'
  <1>. SUFFICES ASSUME "late connect" \notin Features, HonestInv, [Next]_vars
                PROVE  LastSaysLink' /\ UnsentStaysDown'
    BY NextInvariant DEF HonestInv
  <1>. USE DEF HonestInv, IInv
  <1>1. CASE LinkUp
    <2>1. queue' = Append(queue, Says("connected")) /\ link' = "up" /\ stop # "unsent"
          /\ stop' = stop
      <3>1. queue \in Seq(Posted) /\ Says("connected") \in Posted
        BY PostedTypes DEF TypeOK, State
      <3>2. Append(queue, Says("connected")) \o <<>> = Append(queue, Says("connected"))
        BY <3>1, AppendProperties, ConcatEmptySeq
      <3>3. Replayed = <<>>
        BY DEF Replayed, OnMessage
      <3>. QED  BY <1>1, <3>2, <3>3 DEF LinkUp
    <2>2. "connected" \in State /\ ("connected" = "connected" <=> link' = "up")
      BY <2>1 DEF State
    <2>3. LastSaysLink'
      BY <2>1, <2>2, SaidLast
    <2>. QED  BY <2>1, <2>3 DEF UnsentStaysDown
  <1>2. CASE LinkRefused \/ LinkLost
    <2>1. /\ link' = "down" /\ stop' = stop
          /\ \/ queue' = Append(queue, Says("disconnected"))
             \/ queue' = Append(queue, Says("reconnecting"))
      BY <1>2 DEF LinkRefused, LinkLost
    <2>2. \A s \in {"disconnected", "reconnecting"} :
            s \in State /\ (s = "connected" <=> link' = "up")
      BY <2>1 DEF State
    <2>3. LastSaysLink'
      BY <2>1, <2>2, SaidLast
    <2>. QED  BY <2>1, <2>3 DEF UnsentStaysDown
  <1>3. ASSUME \/ Repeat
               \/ \E e \in Entity, topic \in Topic, retain \in BOOLEAN : Send(e, topic, retain)
        PROVE  LastSaysLink' /\ UnsentStaysDown'
    <2>1. /\ sent + 1 \in Order /\ UNCHANGED <<state, link, stop>>
          /\ queue' = queue \/ queue' = queue \o <<Orders(sent + 1)>>
      BY <1>3 DEF Send, Repeat, OnMessage, session
    <2>2. CASE queue' = queue
      BY <2>1, <2>2 DEF LastSaysLink, LastSaid, AllOrders, UnsentStaysDown
    <2>3. CASE queue' = queue \o <<Orders(sent + 1)>>
      <3>1. queue' = Append(queue, Orders(sent + 1))
        BY <2>1, <2>3, PostedTypes, AppendIsConcat DEF TypeOK
      <3>. QED  BY <2>1, <3>1, OrderSaysNothing DEF UnsentStaysDown
    <2>. QED  BY <2>1, <2>2, <2>3
  <1>4. CASE SetState \/ Dispatch
    <2>1. /\ queue # <<>> /\ queue' = Tail(queue) /\ link' = link /\ stop' = stop
          /\ state' = IF IsOrder(Head(queue)) THEN state ELSE Head(queue).state
      BY <1>4 DEF SetState, Dispatch, session
    <2>2. LastSaysLink'
      BY <2>1, TakenIsSet
    <2>. QED  BY <2>1, <2>2 DEF UnsentStaysDown
  <1>5. CASE StopBegin
    BY <1>5 DEF StopBegin, LastSaysLink, LastSaid, AllOrders, UnsentStaysDown, TypeOK
  <1>6. CASE FirstStart
    <2>1. /\ queue' = queue /\ link' = link /\ link = "down" /\ stop' = stop
          /\ state' = "connecting" /\ Len(queue) = 0
      BY <1>6, EmptySeq DEF FirstStart, Lifetimes
    <2>2. 1..Len(queue') = {}
      <3>1. Len(queue') = 0
        BY <2>1
      <3>. QED  BY <3>1, EmptyRange
    <2>. QED  BY <2>1, <2>2 DEF LastSaysLink, UnsentStaysDown
  <1>7. CASE StopEndStart
    <2>1. /\ stop # "no" /\ stop' = "no" /\ link' = "down" /\ state' = "connecting"
          /\ queue' = queue \o Farewell
      BY <1>7 DEF StopEndStart
    <2>2. CASE stop = "sent" /\ link = "up"
      <3>0. queue \in Seq(Posted) /\ Says("disconnected") \in Posted
        BY PostedTypes DEF TypeOK, State
      <3>1. queue \o <<Says("disconnected")>> = Append(queue, Says("disconnected"))
        BY <3>0, AppendIsConcat
      <3>2. queue' = Append(queue, Says("disconnected"))
        BY <2>1, <2>2, <3>1 DEF Farewell
      <3>3. "disconnected" \in State /\ ("disconnected" = "connected" <=> link' = "up")
        BY <2>1 DEF State
      <3>4. LastSaysLink'
        BY <3>2, <3>3, SaidLast
      <3>. QED  BY <2>1, <3>4 DEF UnsentStaysDown
    <2>3. CASE ~(stop = "sent" /\ link = "up")
      <3>1. link = "down"
        BY <2>1, <2>3 DEF UnsentStaysDown, TypeOK
      <3>2. queue' = queue
        BY <2>1, <2>3, ConcatEmptySeq DEF Farewell, TypeOK
      <3>. QED  BY <2>1, <3>1, <3>2 DEF LastSaysLink, LastSaid, AllOrders, UnsentStaysDown
    <2>. QED  BY <2>2, <2>3
  <1>8. ASSUME NEW o \in Order, Begin(o) \/ End(o) PROVE LastSaysLink' /\ UnsentStaysDown'
    BY <1>8 DEF Begin, End, session, LastSaysLink, LastSaid, AllOrders, UnsentStaysDown
  <1>9. CASE UNCHANGED vars
    BY <1>9 DEF vars, session, LastSaysLink, LastSaid, AllOrders, UnsentStaysDown
  <1>. QED  BY <1>1, <1>2, <1>3, <1>4, <1>5, <1>6, <1>7, <1>8, <1>9 DEF Next

\* Provided that no session is accepted after the farewell of its client failed: once the
\* loop has run what was posted to it, also by the clients that were replaced, the state
\* read is that of the session.
THEOREM StateIsHonest ==
  ASSUME "late connect" \notin Features PROVE Spec => []StateHonest
  <1>1. HonestInv /\ [Next]_vars => HonestInv'
    BY HonestStep
  <1>2. HonestInv => StateHonest
    <2>1. queue = <<>> => AllOrders
      <3>1. queue = <<>> => 1..Len(queue) = {}
        BY EmptySeq, EmptyRange
      <3>. QED  BY <3>1 DEF AllOrders
    <2>. QED  BY <2>1 DEF HonestInv, LastSaysLink, StateHonest
  <1>. QED  BY <1>1, <1>2, InitHonest, PTL DEF Spec
=============================================================================
