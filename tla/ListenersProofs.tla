-------------------------- MODULE ListenersProofs --------------------------
(***************************************************************************)
(* LastListenerKept for any number of commands and of overlapping          *)
(* realignments.  A realignment removes only what it listed, and it lists  *)
(* before it creates: of the realignments that reached their removals, the *)
(* last one to list cannot have its own listeners removed by the others.   *)
(***************************************************************************)
EXTENDS Listeners, TLAPS

Ready(p) == realign[p].step = "listed" /\ realign[p].left = {}

\* Every realignment so far was told that c is published.
Told(c) == \A p \in Process : realign[p].step # "idle" => c \in realign[p].targets

Newer(c, p) == \E l \in listeners : l.cmd = c /\ l.id > realign[p].top

\* The identifiers order the listings: what a process lists is not newer than its
\* listing, and it lists nothing before its own listing.
Ids ==
  /\ \A l \in listeners : l.id <= lastId
  /\ \A p \in Process :
       /\ realign[p].top <= lastId
       /\ \A l \in realign[p].listed : l.id <= realign[p].top
       /\ realign[p].step # "listed" => realign[p].left = realign[p].targets

\* What a process created stays, or was listed by another that listed later and
\* reached its removals.
CreatedKept ==
  \A p \in Process : \A c \in realign[p].targets \ realign[p].left :
    Newer(c, p) \/ \E r \in Process : Ready(r) /\ realign[r].top > realign[p].top

\* One listener of c is newer than everything that any process may still remove.
NewestKept ==
  \A c \in Cmd : Told(c) /\ (\E p \in Process : Ready(p)) =>
    \E l \in listeners : l.cmd = c /\ \A r \in Process : Ready(r) => l.id > realign[r].top

IInv == TypeOK /\ Ids /\ CreatedKept /\ NewestKept

----------------------------------------------------------------------------
\* The initial state: nothing is realigned yet.
LEMMA InitInvariant == Init => IInv
  <1>. SUFFICES ASSUME Init PROVE IInv
    OBVIOUS
  <1>. USE DEF Init, Idle
  <1>1. TypeOK
    <2>1. listeners \subseteq Listener /\ \A l \in listeners : l.id = 0
      BY DEF Listener
    <2>2. realign \in [Process -> [step : {"idle", "fetched", "listed"},
                                   targets : SUBSET Cmd, left : SUBSET Cmd,
                                   listed : SUBSET Listener, top : Nat]]
      OBVIOUS
    <2>. QED  BY <2>1, <2>2 DEF TypeOK
  <1>2. Ids
    BY DEF Ids
  <1>3. CreatedKept /\ NewestKept
    BY DEF CreatedKept, NewestKept, Ready
  <1>. QED  BY <1>1, <1>2, <1>3 DEF IInv

\* A fetch leaves the table, the identifiers and the listings alone and makes no
\* process ready.
LEMMA FetchStep ==
  ASSUME IInv, NEW p \in Process, Fetch(p) PROVE IInv'
  <1>. USE DEF IInv, Fetch
  <1>1. /\ published \subseteq Cmd
        /\ \A q \in Process : q # p => realign'[q] = realign[q]
        /\ realign'[p].step = "fetched" /\ realign'[p].targets = published
        /\ realign'[p].left = published /\ realign'[p].top = realign[p].top
        /\ realign'[p].listed = realign[p].listed
    BY DEF TypeOK
  <1>2. TypeOK'
    BY DEF TypeOK
  <1>3. Ids'
    BY <1>1 DEF Ids
  <1>4. \A q \in Process : (Ready(q))' <=> Ready(q)
    BY <1>1 DEF Ready
  <1>5. CreatedKept'
    <2>. SUFFICES ASSUME NEW q \in Process,
                         NEW c \in realign'[q].targets \ realign'[q].left
                  PROVE  \/ Newer(c, q)'
                         \/ \E r \in Process : (Ready(r))' /\ realign'[r].top > realign'[q].top
      BY DEF CreatedKept
    <2>1. q # p /\ c \in realign[q].targets \ realign[q].left
      BY <1>1
    <2>2. Newer(c, q) \/ \E r \in Process : Ready(r) /\ realign[r].top > realign[q].top
      BY <2>1 DEF CreatedKept
    <2>3. Newer(c, q) => Newer(c, q)'
      BY <1>1, <2>1 DEF Newer
    <2>4. \A r \in Process : realign'[r].top = realign[r].top
      BY <1>1
    <2>. QED  BY <1>4, <2>2, <2>3, <2>4
  <1>6. \A c \in Cmd : Told(c)' => Told(c)
    BY <1>1 DEF Told
  <1>7. NewestKept'
    <2>. SUFFICES ASSUME NEW c \in Cmd, Told(c)', NEW q \in Process, (Ready(q))'
                  PROVE  \E l \in listeners : /\ l.cmd = c
                            /\ \A r \in Process : (Ready(r))' => l.id > realign'[r].top
      BY DEF NewestKept
    <2>1. \A r \in Process : realign'[r].top = realign[r].top
      BY <1>1
    <2>. QED  BY <1>4, <1>6, <2>1 DEF NewestKept
  <1>. QED  BY <1>2, <1>3, <1>5, <1>7

\* A listing: a process with nothing to create is ready at once, and what it listed is
\* not newer than the identifiers given out so far.
LEMMA ListStep ==
  ASSUME IInv, NEW p \in Process, List(p) PROVE IInv'
  <1>. USE DEF IInv, List
  <1>1. /\ \A q \in Process : q # p => realign'[q] = realign[q]
        /\ realign'[p].step = "listed" /\ realign'[p].targets = realign[p].targets
        /\ realign'[p].left = realign[p].targets
        /\ realign'[p].top = lastId /\ realign'[p].listed = listeners
        /\ lastId \in Nat
    BY DEF TypeOK, Ids
  <1>2. TypeOK'
    BY DEF TypeOK
  <1>3. Ids'
    <2>1. \A l \in listeners : l.id <= lastId
      BY DEF Ids
    <2>2. \A q \in Process : realign'[q].top <= lastId
      <3>1. \A q \in Process : realign[q].top <= lastId
        BY DEF Ids
      <3>2. lastId <= lastId
        BY <1>1
      <3>. QED  BY <1>1, <3>1, <3>2
    <2>3. \A q \in Process : \A l \in realign'[q].listed : l.id <= realign'[q].top
      BY <1>1, <2>1 DEF Ids
    <2>4. \A q \in Process : realign'[q].step # "listed" => realign'[q].left = realign'[q].targets
      BY <1>1 DEF Ids
    <2>. QED  BY <2>1, <2>2, <2>3, <2>4 DEF Ids
  <1>4. \A q \in Process : Ready(q) => (Ready(q))'
    BY <1>1 DEF Ready
  <1>5. CreatedKept'
    <2>. SUFFICES ASSUME NEW q \in Process,
                         NEW c \in realign'[q].targets \ realign'[q].left
                  PROVE  \/ Newer(c, q)'
                         \/ \E r \in Process : (Ready(r))' /\ realign'[r].top > realign'[q].top
      BY DEF CreatedKept
    <2>1. q # p
      BY <1>1
    <2>2. Newer(c, q) \/ \E r \in Process : Ready(r) /\ realign[r].top > realign[q].top
      BY <1>1, <2>1 DEF CreatedKept
    <2>3. CASE Newer(c, q)
      BY <1>1, <2>1, <2>3 DEF Newer
    <2>4. CASE \E r \in Process : Ready(r) /\ realign[r].top > realign[q].top
      <3>1. PICK r \in Process : Ready(r) /\ realign[r].top > realign[q].top
        BY <2>4
      <3>2. r # p
        BY <3>1 DEF Ready
      <3>3. (Ready(r))' /\ realign'[r].top > realign'[q].top
        BY <1>1, <1>4, <2>1, <3>1, <3>2
      <3>. QED  BY <3>3
    <2>. QED  BY <2>2, <2>3, <2>4
  <1>6. NewestKept'
    <2>. SUFFICES ASSUME NEW c \in Cmd, Told(c)', NEW q \in Process, (Ready(q))'
                  PROVE  \E l \in listeners : /\ l.cmd = c
                            /\ \A r \in Process : (Ready(r))' => l.id > realign'[r].top
      BY DEF NewestKept
    <2>1. Told(c)
      BY <1>1 DEF Told
    <2>2. realign'[p].left # {}
      BY <1>1 DEF Told
    <2>3. \A r \in Process : (Ready(r))' => r # p /\ Ready(r) /\ realign'[r] = realign[r]
      BY <1>1, <2>2 DEF Ready
    <2>4. PICK l \in listeners :
            l.cmd = c /\ \A r \in Process : Ready(r) => l.id > realign[r].top
      BY <2>1, <2>3 DEF NewestKept
    <2>5. \A r \in Process : (Ready(r))' => l.id > realign'[r].top
      BY <2>3, <2>4
    <2>. QED  BY <2>4, <2>5
  <1>. QED  BY <1>2, <1>3, <1>5, <1>6

\* A creation: the new listener is newer than every listing.  If it makes its process
\* ready, the newest listener of a command is the older process's or its own.
LEMMA CreateStep ==
  ASSUME IInv, NEW p \in Process, Create(p) PROVE IInv'
  <1>. USE DEF IInv
  <1>1. PICK c \in realign[p].left :
          /\ realign[p].step = "listed"
          /\ listeners' = listeners \cup {[id |-> lastId + 1, cmd |-> c]}
          /\ lastId' = lastId + 1
          /\ realign' = [realign EXCEPT ![p].left = @ \ {c}]
          /\ published' = published
    BY DEF Create
  <1>2. /\ c \in Cmd /\ lastId \in Nat
        /\ \A q \in Process : /\ realign'[q].step = realign[q].step
                              /\ realign'[q].targets = realign[q].targets
                              /\ realign'[q].top = realign[q].top
                              /\ realign'[q].listed = realign[q].listed
                              /\ realign[q].top \in Nat
        /\ \A q \in Process : q # p => realign'[q].left = realign[q].left
        /\ realign'[p].left = realign[p].left \ {c}
    BY <1>1 DEF TypeOK
  <1>3. \A l \in listeners : l.id \in Nat /\ l.id <= lastId
    BY DEF TypeOK, Ids, Listener
  <1>4. TypeOK'
    <2>1. listeners' \subseteq Listener
      BY <1>1, <1>2 DEF TypeOK, Listener
    <2>2. \A l, m \in listeners' : l.id = m.id => l = m \/ l.id = 0
      BY <1>1, <1>2, <1>3 DEF TypeOK
    <2>3. realign' \in [Process -> [step : {"idle", "fetched", "listed"},
                                    targets : SUBSET Cmd, left : SUBSET Cmd,
                                    listed : SUBSET Listener, top : Nat]]
      BY <1>1 DEF TypeOK
    <2>. QED  BY <1>1, <1>2, <2>1, <2>2, <2>3 DEF TypeOK
  <1>5. Ids'
    <2>1. \A l \in listeners' : l.id <= lastId'
      BY <1>1, <1>2, <1>3
    <2>2. \A q \in Process : realign'[q].top <= lastId'
      BY <1>1, <1>2 DEF Ids
    <2>3. \A q \in Process : \A l \in realign'[q].listed : l.id <= realign'[q].top
      BY <1>2 DEF Ids
    <2>4. \A q \in Process : realign'[q].step # "listed" => realign'[q].left = realign'[q].targets
      BY <1>1, <1>2 DEF Ids
    <2>. QED  BY <2>1, <2>2, <2>3, <2>4 DEF Ids
  <1>6. \A q \in Process : Ready(q) => (Ready(q))'
    BY <1>2 DEF Ready
  <1>7. \A q \in Process, d \in Cmd : Newer(d, q) => Newer(d, q)'
    BY <1>1, <1>2 DEF Newer
  <1>8. Newer(c, p)'
    <2>1. [id |-> lastId + 1, cmd |-> c] \in listeners'
      BY <1>1
    <2>2. lastId + 1 > realign'[p].top
      BY <1>2 DEF Ids
    <2>. QED  BY <2>1, <2>2 DEF Newer
  <1>9. CreatedKept'
    <2>. SUFFICES ASSUME NEW q \in Process,
                         NEW d \in realign'[q].targets \ realign'[q].left
                  PROVE  \/ Newer(d, q)'
                         \/ \E r \in Process : (Ready(r))' /\ realign'[r].top > realign'[q].top
      BY DEF CreatedKept
    <2>1. CASE q = p /\ d = c
      BY <1>8, <2>1
    <2>2. CASE ~(q = p /\ d = c)
      <3>1. d \in realign[q].targets \ realign[q].left /\ d \in Cmd
        BY <1>2, <2>2 DEF TypeOK
      <3>. QED  BY <1>2, <1>6, <1>7, <3>1 DEF CreatedKept
    <2>. QED  BY <2>1, <2>2
  <1>10. NewestKept'
    <2>. SUFFICES ASSUME NEW d \in Cmd, Told(d)', NEW q \in Process, (Ready(q))'
                  PROVE  \E l \in listeners' : /\ l.cmd = d
                            /\ \A r \in Process : (Ready(r))' => l.id > realign'[r].top
      BY DEF NewestKept
    <2>1. Told(d)
      BY <1>2 DEF Told
    <2>2. \A r \in Process : (Ready(r))' /\ r # p => Ready(r)
      BY <1>2 DEF Ready
    <2>3. CASE \E r \in Process : Ready(r)
      <3>1. PICK l \in listeners :
              l.cmd = d /\ \A r \in Process : Ready(r) => l.id > realign[r].top
        BY <2>1, <2>3 DEF NewestKept
      <3>2. CASE ~(Ready(p))'
        BY <1>1, <1>2, <2>2, <3>1, <3>2
      <3>3. CASE (Ready(p))' /\ l.id > realign[p].top
        BY <1>1, <1>2, <2>2, <3>1, <3>3
      <3>4. CASE (Ready(p))' /\ ~(l.id > realign[p].top)
        <4>1. d \in realign'[p].targets \ realign'[p].left
          BY <1>1, <1>2, <2>1, <3>4 DEF Ready, Told
        <4>2. \A r \in Process : Ready(r) => realign[r].top < realign[p].top
          BY <1>2, <1>3, <3>1, <3>4
        <4>3. Newer(d, p)'
          <5>1. CASE d = c
            BY <1>8, <5>1
          <5>2. CASE d # c
            <6>1. d \in realign[p].targets \ realign[p].left
              BY <1>2, <4>1, <5>2
            <6>2. ~\E r \in Process : Ready(r) /\ realign[r].top > realign[p].top
              BY <1>2, <4>2
            <6>. QED  BY <1>7, <6>1, <6>2 DEF CreatedKept
          <5>. QED  BY <5>1, <5>2
        <4>4. PICK m \in listeners' : m.cmd = d /\ m.id > realign[p].top
          BY <1>2, <4>3 DEF Newer
        <4>5. m.id \in Nat
          BY <1>4 DEF TypeOK, Listener
        <4>6. \A r \in Process : (Ready(r))' => m.id > realign'[r].top
          BY <1>2, <2>2, <4>2, <4>4, <4>5
        <4>. QED  BY <4>4, <4>6
      <3>. QED  BY <3>2, <3>3, <3>4
    <2>4. CASE ~\E r \in Process : Ready(r)
      <3>1. q = p /\ \A r \in Process : (Ready(r))' => r = p
        BY <2>2, <2>4
      <3>2. d \in realign'[p].targets \ realign'[p].left
        BY <1>1, <1>2, <2>1, <3>1 DEF Ready, Told
      <3>3. Newer(d, p)'
        BY <1>6, <1>9, <3>1, <3>2, <1>2 DEF CreatedKept
      <3>. QED  BY <3>1, <3>3 DEF Newer
    <2>. QED  BY <2>3, <2>4
  <1>. QED  BY <1>4, <1>5, <1>9, <1>10

\* A removal: what is removed was listed by a ready process, so it is not newer than
\* that listing.
LEMMA RemoveStep ==
  ASSUME IInv, NEW p \in Process, Remove(p)
  PROVE  /\ IInv'
         /\ \A c \in Listened \ Listened' : ~Told(c)
  <1>. USE DEF IInv
  <1>1. PICK l \in realign[p].listed :
          /\ Ready(p)
          /\ listeners' = listeners \ {l}
          /\ realign' = [realign EXCEPT ![p].listed = @ \ {l}]
          /\ published' = published /\ lastId' = lastId
    BY DEF Remove, Ready
  <1>2. /\ \A q \in Process : /\ realign'[q].step = realign[q].step
                              /\ realign'[q].targets = realign[q].targets
                              /\ realign'[q].left = realign[q].left
                              /\ realign'[q].top = realign[q].top
                              /\ realign'[q].listed \subseteq realign[q].listed
                              /\ realign[q].top \in Nat
        /\ l \in Listener
        /\ l.id \in Nat /\ l.id <= realign[p].top
    BY <1>1 DEF TypeOK, Ids, Listener
  <1>3. TypeOK'
    BY <1>1 DEF TypeOK
  <1>4. Ids'
    BY <1>1, <1>2 DEF Ids
  <1>5. \A q \in Process : (Ready(q))' <=> Ready(q)
    BY <1>2 DEF Ready
  <1>6. CreatedKept'
    <2>. SUFFICES ASSUME NEW q \in Process,
                         NEW c \in realign[q].targets \ realign[q].left
                  PROVE  \/ Newer(c, q)'
                         \/ \E r \in Process : Ready(r) /\ realign[r].top > realign[q].top
      BY <1>2, <1>5 DEF CreatedKept
    <2>1. CASE \E r \in Process : Ready(r) /\ realign[r].top > realign[q].top
      BY <2>1
    <2>2. CASE Newer(c, q)
      <3>1. PICK m \in listeners : m.cmd = c /\ m.id > realign[q].top
        BY <2>2 DEF Newer
      <3>2. CASE m = l
        BY <1>1, <1>2, <3>1, <3>2
      <3>3. CASE m # l
        BY <1>1, <1>2, <3>1, <3>3 DEF Newer
      <3>. QED  BY <3>2, <3>3
    <2>. QED  BY <2>1, <2>2 DEF CreatedKept
  <1>7. \A c \in Cmd : Told(c) =>
          \E m \in listeners' : m.cmd = c /\ \A r \in Process : Ready(r) => m.id > realign[r].top
    <2>. SUFFICES ASSUME NEW c \in Cmd, Told(c)
                  PROVE  \E m \in listeners' : /\ m.cmd = c
                            /\ \A r \in Process : Ready(r) => m.id > realign[r].top
      OBVIOUS
    <2>1. PICK m \in listeners : m.cmd = c /\ \A r \in Process : Ready(r) => m.id > realign[r].top
      BY <1>1 DEF NewestKept
    <2>2. m # l
      BY <1>1, <1>2, <2>1
    <2>. QED  BY <1>1, <2>1, <2>2
  <1>8. \A c \in Cmd : Told(c)' <=> Told(c)
    BY <1>2 DEF Told
  <1>9. NewestKept'
    BY <1>2, <1>5, <1>7, <1>8 DEF NewestKept
  <1>10. \A c \in Listened \ Listened' : ~Told(c)
    <2>. SUFFICES ASSUME NEW c \in Listened, Told(c) PROVE c \in Listened'
      OBVIOUS
    <2>1. c \in Cmd
      BY DEF Listened, TypeOK, Listener
    <2>. QED  BY <1>7, <2>1 DEF Listened
  <1>. QED  BY <1>3, <1>4, <1>6, <1>9, <1>10

LEMMA StutterStep ==
  ASSUME IInv, listeners' = listeners, lastId' = lastId, realign' = realign,
         published' \subseteq Cmd
  PROVE  IInv'
  BY DEF IInv, TypeOK, Ids, CreatedKept, NewestKept, Newer, Ready, Told

----------------------------------------------------------------------------
\* The inductive invariant, and with it the type of the state.
THEOREM Invariant == Spec => []IInv
  <1>1. ASSUME IInv, [Next]_vars PROVE IInv'
    <2>1. CASE Publish
      BY <1>1, <2>1, StutterStep DEF Publish
    <2>2. CASE UNCHANGED vars
      BY <1>1, <2>2, StutterStep DEF vars, IInv, TypeOK
    <2>3. ASSUME NEW p \in Process, Realign(p) PROVE IInv'
      BY <1>1, <2>3, FetchStep, ListStep, CreateStep, RemoveStep DEF Realign
    <2>. QED  BY <1>1, <2>1, <2>2, <2>3 DEF Next
  <1>. QED  BY <1>1, InitInvariant, PTL DEF Spec

\* The table of listeners is well formed and no identifier is given out twice, for any
\* commands and processes.
THEOREM Typing == Spec => []TypeOK
  <1>1. IInv => TypeOK
    BY DEF IInv
  <1>. QED  BY <1>1, Invariant, PTL

\* No command that every realignment was told to listen to loses its last listener,
\* for any number of overlapping realignments.
THEOREM NoCommandForgotten == Spec => LastListenerKept
  <1>1. ASSUME IInv, [Next]_vars
        PROVE  [\A c \in Listened \ Listened' :
                  \E p \in Process : realign[p].step # "idle" /\ c \notin realign[p].targets]_vars
    <2>1. CASE listeners \subseteq listeners'
      BY <2>1 DEF Listened
    <2>2. ASSUME NEW p \in Process, Remove(p)
          PROVE  \A c \in Listened \ Listened' : ~Told(c)
      BY <1>1, <2>2, RemoveStep
    <2>3. listeners \subseteq listeners' \/ \E p \in Process : Remove(p)
      BY <1>1 DEF Next, Realign, Publish, Fetch, List, Create, vars
    <2>. QED  BY <2>1, <2>2, <2>3 DEF Told
  <1>2. Spec => [][\A c \in Listened \ Listened' :
                  \E p \in Process : realign[p].step # "idle" /\ c \notin realign[p].targets]_vars
    BY <1>1, Invariant, PTL DEF Spec
  <1>. QED  BY <1>2 DEF LastListenerKept
=============================================================================
