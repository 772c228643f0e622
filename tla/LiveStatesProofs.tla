-------------------------- MODULE LiveStatesProofs --------------------------
(***************************************************************************)
(* For any channels, commands, readbacks and bounds: no retained topic is  *)
(* forgotten when the registry is saved at every stop, and an undisturbed  *)
(* sync repairs every topic; with kills and a full disk too, a click keeps *)
(* the events heard since it arrived.                                      *)
(***************************************************************************)
EXTENDS LiveStates, TLAPS

Values == [Cmd -> Value \cup {None}]

\* The full types.
JeedomTypes ==
  /\ wiring \in Wirings
  /\ value \in [Cmd -> Value]
  /\ events \subseteq [cmd : Cmd, value : Value]

DaemonTypes ==
  /\ connected \in BOOLEAN /\ published \in BOOLEAN /\ dirty \in BOOLEAN
  /\ bound \in Wirings \cup {Unfed}
  /\ recorded \in Values
  /\ known \subseteq Channel /\ disk \subseteq Channel
  /\ retained \in [Channel -> Value \cup {None}]

RequestTypes ==
  /\ sync \in [step : {"idle", "read", "published", "unpublished"},
               wiring : Wirings \cup {Unfed}, values : Values, clean : BOOLEAN]
  /\ click \in [step : {"idle", "read", "running"}, values : Values, heard : Values,
                fresh : SUBSET Cmd]
  /\ sync.step # "idle" => sync.wiring \in Wirings
  /\ published => bound \in Wirings
  /\ click.step = "running" => bound \in Wirings

Types == JeedomTypes /\ DaemonTypes /\ RequestTypes

\* What is not saved yet waits for the timer or for the stop.
DirtyOrSaved == ~dirty => disk = known

\* While a sync is undisturbed, the broker shows Jeedom; no action runs meanwhile.
Accurate ==
  \A ch \in Channel :
    retained[ch] = IF wiring[ch] = None THEN None ELSE value[wiring[ch]]
CleanAccurate ==
  /\ sync.clean => sync.step = "published" /\ Accurate
  /\ sync.step \in {"published", "unpublished"} => click.step # "running"

IInv == Types /\ RetainedKnown /\ DirtyOrSaved /\ CleanAccurate

----------------------------------------------------------------------------
\* Publishing a snapshot keeps the types of the topics and the registry exact; with the
\* current readbacks and values, it makes the broker accurate.
LEMMA SnapshotFacts ==
  ASSUME DaemonTypes, RetainedKnown, DirtyOrSaved,
         NEW w \in Wirings, NEW v \in Values, Snapshot(w, v)
  PROVE  /\ retained' \in [Channel -> Value \cup {None}]
         /\ known' \subseteq Channel /\ disk' = disk /\ dirty' \in BOOLEAN
         /\ RetainedKnown' /\ DirtyOrSaved'
         /\ v \in [Cmd -> Value] =>
              \A ch \in Channel : retained'[ch] = IF w[ch] = None THEN None ELSE v[w[ch]]
  <1>. DEFINE dead == {ch \in known : w[ch] = None}
              live == {ch \in Channel : w[ch] # None /\ v[w[ch]] # None}
  <1>1. w \in [Channel -> Cmd \cup {None}] /\ None \notin Value
    BY LiveAssumption
  <1>2. /\ retained' = [ch \in Channel |-> IF ch \in live THEN v[w[ch]]
                                           ELSE IF ch \in dead THEN None ELSE retained[ch]]
        /\ known' = (known \ dead) \cup live
        /\ dirty' = (dirty \/ known' # known) /\ disk' = disk
    BY DEF Snapshot, Registered
  <1>3. retained' \in [Channel -> Value \cup {None}]
    BY <1>1, <1>2 DEF DaemonTypes, Values
  <1>4. known' \subseteq Channel /\ dirty' \in BOOLEAN
    BY <1>2 DEF DaemonTypes
  <1>5. RetainedKnown'
    BY <1>2 DEF RetainedKnown
  <1>6. DirtyOrSaved'
    BY <1>2 DEF DirtyOrSaved
  <1>7. ASSUME v \in [Cmd -> Value], NEW ch \in Channel
        PROVE  retained'[ch] = IF w[ch] = None THEN None ELSE v[w[ch]]
    <2>1. CASE w[ch] = None
      BY <1>2, <2>1 DEF RetainedKnown
    <2>2. CASE w[ch] # None
      BY <1>1, <1>2, <1>7, <2>2
    <2>. QED  BY <2>1, <2>2
  <1>. QED  BY <1>2, <1>3, <1>4, <1>5, <1>6, <1>7

LEMMA InitInvariant == Init => IInv
  <1>. SUFFICES ASSUME Init PROVE IInv
    OBVIOUS
  <1>. USE LiveAssumption DEF Init, Unfed, NoEvent, NoSync, NoClick
  <1>1. 0 \in Value
    BY DEF Value
  <1>2. JeedomTypes
    BY <1>1 DEF JeedomTypes
  <1>3. DaemonTypes
    BY DEF DaemonTypes, Values
  <1>4. RequestTypes
    BY DEF RequestTypes, Values
  <1>5. RetainedKnown /\ DirtyOrSaved /\ CleanAccurate
    BY DEF RetainedKnown, DirtyOrSaved, CleanAccurate
  <1>. QED  BY <1>2, <1>3, <1>4, <1>5 DEF IInv, Types

\* Jeedom changes: the sync under way is no longer undisturbed.
LEMMA JeedomStep ==
  ASSUME IInv, (\E c \in Cmd : Change(c)) \/ Rewire PROVE IInv'
  <1>. USE DEF IInv, Types
  <1>1. /\ UNCHANGED <<connected, bound, published, recorded, registry, click, retained>>
        /\ sync' = [sync EXCEPT !.clean = FALSE]
    BY DEF Change, Rewire
  <1>2. JeedomTypes'
    <2>1. CASE Rewire
      BY <2>1 DEF Rewire, JeedomTypes
    <2>2. ASSUME NEW c \in Cmd, Change(c) PROVE JeedomTypes'
      BY <2>2 DEF Change, JeedomTypes
    <2>. QED  BY <2>1, <2>2
  <1>3. DaemonTypes' /\ RetainedKnown' /\ DirtyOrSaved'
    BY <1>1 DEF registry, DaemonTypes, RetainedKnown, DirtyOrSaved
  <1>4. RequestTypes'
    BY <1>1 DEF RequestTypes
  <1>5. CleanAccurate'
    BY <1>1 DEF RequestTypes, CleanAccurate
  <1>. QED  BY <1>2, <1>3, <1>4, <1>5

LEMMA EventStep ==
  ASSUME IInv, NEW e \in events, Event(e) PROVE IInv'
  <1>. USE DEF IInv, Types
  <1>. DEFINE fed == {ch \in Channel : connected /\ published /\ bound[ch] = e.cmd}
  <1>1. e.cmd \in Cmd /\ e.value \in Value
    BY DEF JeedomTypes
  <1>2. /\ events' = events \ {e}
        /\ recorded' = [c \in Cmd |-> IF c \in Records(e, fed) THEN e.value ELSE recorded[c]]
        /\ retained' = [ch \in Channel |-> IF ch \in fed THEN e.value ELSE retained[ch]]
        /\ known' = (known \ {}) \cup fed
        /\ dirty' = (dirty \/ known' # known) /\ disk' = disk
        /\ sync' = [sync EXCEPT !.clean = FALSE]
        /\ UNCHANGED <<wiring, value, connected, bound, published>>
    BY DEF Event, Registered
  <1>3. JeedomTypes'
    BY <1>2 DEF JeedomTypes
  <1>4. DaemonTypes'
    BY <1>1, <1>2 DEF DaemonTypes, Values
  <1>5. /\ click' \in [step : {"idle", "read", "running"}, values : Values, heard : Values,
                       fresh : SUBSET Cmd]
        /\ click'.step = click.step
    <2>1. CASE click' = click
      BY <2>1 DEF RequestTypes
    <2>2. CASE click' = [click EXCEPT !.heard[e.cmd] = e.value,
                                      !.fresh = @ \cup Records(e, fed)]
      <3>1. Records(e, fed) \subseteq Cmd
        BY <1>1 DEF Records
      <3>. QED  BY <1>1, <2>2, <3>1 DEF RequestTypes, Values
    <2>. QED  BY <2>1, <2>2 DEF Event
  <1>6. RequestTypes'
    BY <1>2, <1>5 DEF RequestTypes
  <1>7. RetainedKnown' /\ DirtyOrSaved'
    BY <1>2 DEF RetainedKnown, DirtyOrSaved
  <1>8. CleanAccurate'
    BY <1>2, <1>5 DEF RequestTypes, CleanAccurate
  <1>. QED  BY <1>3, <1>4, <1>6, <1>7, <1>8

\* The daemon publishes the snapshot, or nothing without a bridge.
LEMMA SyncPublishStep ==
  ASSUME IInv, SyncPublish PROVE IInv'
  <1>. USE DEF IInv, Types
  <1>1. /\ sync.wiring \in Wirings /\ sync.values \in Values
        /\ sync.step = "read" /\ click.step # "running"
        /\ sync' = [sync EXCEPT !.step = IF connected \/ published THEN "published"
                                         ELSE "unpublished",
                                !.clean = connected /\ sync.wiring = wiring
                                          /\ sync.values = value]
        /\ IF connected THEN Snapshot(sync.wiring, sync.values) ELSE NoSnapshot
        /\ UNCHANGED <<wiring, value, events, connected, bound, published, recorded, click>>
    BY DEF SyncPublish, RequestTypes, jeedom
  <1>2. /\ sync'.wiring = sync.wiring
        /\ sync'.step = IF connected \/ published THEN "published" ELSE "unpublished"
        /\ sync'.clean = (connected /\ sync.wiring = wiring /\ sync.values = value)
        /\ sync' \in [step : {"idle", "read", "published", "unpublished"},
                      wiring : Wirings \cup {Unfed}, values : Values, clean : BOOLEAN]
    <2>1. (connected /\ sync.wiring = wiring /\ sync.values = value) \in BOOLEAN
      OBVIOUS
    <2>. QED  BY <1>1, <2>1 DEF RequestTypes
  <1>3. JeedomTypes'
    BY <1>1 DEF JeedomTypes
  <1>4. RequestTypes'
    BY <1>1, <1>2 DEF RequestTypes
  <1>5. CASE connected
    <2>1. Snapshot(sync.wiring, sync.values)
      BY <1>1, <1>5
    <2>2. /\ retained' \in [Channel -> Value \cup {None}]
          /\ known' \subseteq Channel /\ disk' = disk /\ dirty' \in BOOLEAN
          /\ RetainedKnown' /\ DirtyOrSaved'
          /\ sync.values \in [Cmd -> Value] =>
               \A ch \in Channel : retained'[ch] =
                 IF sync.wiring[ch] = None THEN None ELSE sync.values[sync.wiring[ch]]
      BY <1>1, <2>1, SnapshotFacts
    <2>3. DaemonTypes'
      BY <1>1, <2>2 DEF DaemonTypes
    <2>4. CleanAccurate'
      BY <1>1, <1>2, <1>5, <2>2 DEF CleanAccurate, Accurate, JeedomTypes
    <2>. QED  BY <1>3, <1>4, <2>2, <2>3, <2>4
  <1>6. CASE ~connected
    <2>1. UNCHANGED <<retained, known, dirty, disk>>
      BY <1>1, <1>6 DEF NoSnapshot, registry
    <2>2. DaemonTypes' /\ RetainedKnown' /\ DirtyOrSaved'
      BY <1>1, <2>1 DEF DaemonTypes, RetainedKnown, DirtyOrSaved
    <2>3. CleanAccurate'
      BY <1>1, <1>2, <1>6 DEF CleanAccurate
    <2>. QED  BY <1>3, <1>4, <2>2, <2>3
  <1>. QED  BY <1>5, <1>6

\* An action publishes what the sync bound; no sync is past its snapshot then.
LEMMA ClickPublishStep ==
  ASSUME IInv, ClickPublish PROVE IInv'
  <1>. USE DEF IInv, Types
  <1>1. /\ click.step = "running" /\ bound \in Wirings
        /\ published' = (published \/ connected) /\ click' = NoClick
        /\ IF connected THEN Snapshot(bound, [c \in Cmd |-> ClickValue(c)]) ELSE NoSnapshot
        /\ UNCHANGED <<wiring, value, events, connected, bound, recorded, sync>>
    BY DEF ClickPublish, RequestTypes, jeedom
  <1>2. [c \in Cmd |-> ClickValue(c)] \in Values
    BY DEF ClickValue, RequestTypes, DaemonTypes, Values
  <1>3. NoClick \in [step : {"idle", "read", "running"}, values : Values, heard : Values,
                     fresh : SUBSET Cmd]
    BY DEF NoClick, NoEvent, Values
  <1>4. JeedomTypes' /\ RequestTypes'
    BY <1>1, <1>3 DEF JeedomTypes, RequestTypes, NoClick
  <1>5. CleanAccurate'
    <2>1. ~sync.clean /\ sync.step \notin {"published", "unpublished"}
      BY <1>1 DEF CleanAccurate
    <2>. QED  BY <1>1, <2>1 DEF CleanAccurate
  <1>6. CASE connected
    <2>1. /\ retained' \in [Channel -> Value \cup {None}]
          /\ known' \subseteq Channel /\ disk' = disk /\ dirty' \in BOOLEAN
          /\ RetainedKnown' /\ DirtyOrSaved'
      BY <1>1, <1>2, <1>6, SnapshotFacts
    <2>2. DaemonTypes'
      BY <1>1, <2>1 DEF DaemonTypes
    <2>. QED  BY <1>4, <1>5, <2>1, <2>2
  <1>7. CASE ~connected
    <2>1. UNCHANGED <<retained, known, dirty, disk>>
      BY <1>1, <1>7 DEF NoSnapshot, registry
    <2>2. DaemonTypes' /\ RetainedKnown' /\ DirtyOrSaved'
      BY <1>1, <2>1 DEF DaemonTypes, RetainedKnown, DirtyOrSaved
    <2>. QED  BY <1>4, <1>5, <2>2
  <1>. QED  BY <1>6, <1>7

\* The steps of a request that publish nothing.
LEMMA RequestStep ==
  ASSUME IInv, SyncRead \/ SyncRefused \/ SyncCommit \/ ClickRead \/ ClickArrive
  PROVE  IInv'
  <1>. USE DEF IInv, Types
  <1>1. /\ UNCHANGED <<wiring, value, events, connected, recorded, known, dirty, disk,
                       retained>>
    BY DEF SyncRead, SyncRefused, SyncCommit, ClickRead, ClickArrive, jeedom, registry
  <1>2. JeedomTypes' /\ RetainedKnown' /\ DirtyOrSaved'
    BY <1>1 DEF JeedomTypes, RetainedKnown, DirtyOrSaved
  <1>3. /\ value \in Values /\ NoEvent \in Values
        /\ NoSync.step = "idle" /\ NoSync.clean = FALSE
        /\ NoSync.wiring \in Wirings \cup {Unfed}
        /\ NoSync \in [step : {"idle", "read", "published", "unpublished"},
                       wiring : Wirings \cup {Unfed}, values : Values, clean : BOOLEAN]
        /\ NoClick.step = "idle"
        /\ NoClick \in [step : {"idle", "read", "running"}, values : Values, heard : Values,
                        fresh : SUBSET Cmd]
    BY DEF NoSync, NoClick, NoEvent, Values, JeedomTypes
  <1>4. CASE SyncRead
    <2>1. /\ UNCHANGED <<bound, published, click>> /\ sync.step = "idle"
          /\ sync' = [NoSync EXCEPT !.step = "read", !.wiring = wiring, !.values = value]
      BY <1>4 DEF SyncRead
    <2>2. DaemonTypes' /\ RequestTypes'
      BY <1>1, <1>3, <2>1 DEF DaemonTypes, RequestTypes, JeedomTypes
    <2>3. CleanAccurate'
      BY <1>3, <2>1 DEF CleanAccurate
    <2>. QED  BY <1>2, <2>2, <2>3
  <1>5. CASE SyncRefused
    <2>1. UNCHANGED <<bound, published, click>> /\ sync' = NoSync
      BY <1>5 DEF SyncRefused
    <2>2. DaemonTypes' /\ RequestTypes'
      BY <1>1, <1>3, <2>1 DEF DaemonTypes, RequestTypes
    <2>3. CleanAccurate'
      BY <1>3, <2>1 DEF CleanAccurate
    <2>. QED  BY <1>2, <2>2, <2>3
  <1>6. CASE SyncCommit
    <2>1. /\ sync.step \in {"published", "unpublished"} /\ UNCHANGED click
          /\ bound' = sync.wiring /\ published' = (sync.step = "published") /\ sync' = NoSync
      BY <1>6 DEF SyncCommit
    <2>2. bound' \in Wirings /\ published' \in BOOLEAN
      BY <2>1 DEF RequestTypes
    <2>3. DaemonTypes'
      BY <1>1, <2>2 DEF DaemonTypes
    <2>4. RequestTypes'
      BY <1>3, <2>1, <2>2 DEF RequestTypes
    <2>5. CleanAccurate'
      BY <1>3, <2>1 DEF CleanAccurate
    <2>. QED  BY <1>2, <2>3, <2>4, <2>5
  <1>7. CASE ClickRead
    <2>1. /\ UNCHANGED <<bound, published, sync>> /\ click.step = "idle"
          /\ click' = [NoClick EXCEPT !.step = "read", !.values = value]
      BY <1>7 DEF ClickRead
    <2>2. DaemonTypes' /\ RequestTypes'
      BY <1>1, <1>3, <2>1 DEF DaemonTypes, RequestTypes
    <2>3. click'.step = "read"
      BY <1>3, <2>1
    <2>4. CleanAccurate'
      BY <1>1, <2>1, <2>3 DEF CleanAccurate, Accurate
    <2>. QED  BY <1>2, <2>2, <2>4
  <1>8. CASE ClickArrive
    <2>1. /\ UNCHANGED <<bound, published, sync>>
          /\ click' = IF bound = Unfed \/ sync.step \in {"published", "unpublished"}
                      THEN NoClick ELSE [click EXCEPT !.step = "running"]
      BY <1>8 DEF ClickArrive
    <2>2. DaemonTypes'
      BY <1>1, <2>1 DEF DaemonTypes
    <2>3. RequestTypes'
      BY <1>3, <2>1 DEF RequestTypes, DaemonTypes
    <2>4. CleanAccurate'
      BY <1>1, <1>3, <2>1 DEF CleanAccurate, Accurate
    <2>. QED  BY <1>2, <2>2, <2>3, <2>4
  <1>. QED  BY <1>4, <1>5, <1>6, <1>7, <1>8

\* The registry is saved, the connection comes and goes, the daemon starts again.
LEMMA DaemonStep ==
  ASSUME IInv, Features = {}, Flush \/ Connection \/ Restart PROVE IInv'
  <1>. USE DEF IInv, Types
  <1>1. JeedomTypes' /\ retained' = retained
    BY DEF Flush, Connection, Restart, jeedom, JeedomTypes
  <1>2. CASE Flush
    <2>1. /\ dirty' = FALSE /\ disk' = known /\ known' = known
          /\ UNCHANGED <<wiring, value, events, connected, bound, published, recorded,
                         sync, click>>
      BY <1>2 DEF Flush, jeedom
    <2>2. DaemonTypes' /\ RequestTypes' /\ RetainedKnown' /\ DirtyOrSaved'
      BY <1>1, <2>1 DEF DaemonTypes, RequestTypes, RetainedKnown, DirtyOrSaved
    <2>3. CleanAccurate'
      BY <1>1, <2>1 DEF CleanAccurate, Accurate
    <2>. QED  BY <1>1, <2>2, <2>3
  <1>3. CASE Connection
    <2>1. /\ connected' = ~connected
          /\ UNCHANGED <<wiring, value, events, bound, published, recorded, known, dirty,
                         disk, sync, click>>
      BY <1>3 DEF Connection, jeedom, registry
    <2>2. DaemonTypes' /\ RequestTypes' /\ RetainedKnown' /\ DirtyOrSaved'
      BY <1>1, <2>1 DEF DaemonTypes, RequestTypes, RetainedKnown, DirtyOrSaved
    <2>3. CleanAccurate'
      BY <1>1, <2>1 DEF CleanAccurate, Accurate
    <2>. QED  BY <1>1, <2>2, <2>3
  <1>4. CASE Restart
    <2>1. /\ disk' = (IF dirty THEN known ELSE disk)
          /\ known' = disk' /\ dirty' = FALSE
          /\ connected' = FALSE /\ bound' = Unfed /\ published' = FALSE
          /\ recorded' = NoEvent /\ sync' = NoSync /\ click' = NoClick
      BY <1>4 DEF Restart
    <2>2. known' = known
      BY <2>1 DEF DirtyOrSaved
    <2>3. NoEvent \in Values
      BY DEF NoEvent, Values
    <2>4. DaemonTypes'
      BY <1>1, <2>1, <2>2, <2>3 DEF DaemonTypes
    <2>5. RequestTypes'
      BY <2>1, <2>3 DEF RequestTypes, NoSync, NoClick
    <2>6. RetainedKnown' /\ DirtyOrSaved'
      BY <1>1, <2>1, <2>2 DEF RetainedKnown, DirtyOrSaved
    <2>7. CleanAccurate'
      BY <2>1 DEF CleanAccurate, NoSync
    <2>. QED  BY <1>1, <2>4, <2>5, <2>6, <2>7
  <1>. QED  BY <1>2, <1>3, <1>4

LEMMA Step == Features = {} /\ IInv /\ [Next]_vars => IInv'
  <1>. SUFFICES ASSUME Features = {}, IInv, [Next]_vars PROVE IInv'
    OBVIOUS
  <1>1. CASE UNCHANGED vars
    BY <1>1 DEF vars, jeedom, registry, IInv, Types, JeedomTypes, DaemonTypes,
                RequestTypes, RetainedKnown, DirtyOrSaved, CleanAccurate, Accurate
  <1>2. CASE Next
    BY <1>2, JeedomStep, EventStep, SyncPublishStep, ClickPublishStep, RequestStep,
       DaemonStep DEF Next
  <1>. QED  BY <1>1, <1>2

----------------------------------------------------------------------------
\* The inductive invariant, when the daemon saves its registry whenever it stops.
THEOREM Invariant == ASSUME Features = {} PROVE Spec => []IInv
  <1>1. IInv /\ [Next]_vars => IInv'
    BY Step
  <1>. QED  BY <1>1, InitInvariant, PTL DEF Spec

\* No topic that holds a value is unknown to the next sync, for any channels, commands
\* and readbacks: the registry survives every clean restart.
THEOREM NoForgottenTopic == ASSUME Features = {} PROVE Spec => []RetainedKnown
  <1>1. IInv => RetainedKnown
    BY DEF IInv
  <1>. QED  BY <1>1, Invariant, PTL

\* An undisturbed sync repairs every topic, whatever happened before it.
THEOREM Healing == ASSUME Features = {} PROVE Spec => SyncHeals
  <1>1. IInv =>
          [sync.step = "published" /\ sync.clean /\ sync' = NoSync /\ restarts' = restarts
           => \A ch \in Channel :
                retained[ch] = IF wiring[ch] = None THEN None ELSE value[wiring[ch]]]_vars
    BY DEF IInv, CleanAccurate, Accurate
  <1>2. Spec =>
          [][sync.step = "published" /\ sync.clean /\ sync' = NoSync /\ restarts' = restarts
             => \A ch \in Channel :
                  retained[ch] = IF wiring[ch] = None THEN None ELSE value[wiring[ch]]]_vars
    BY <1>1, Invariant, PTL
  <1>. QED  BY <1>2 DEF SyncHeals

----------------------------------------------------------------------------
(* Whatever happens to the registry, a kill or a full disk included: the    *)
(* types, and the events that a click must not overwrite.                   *)

\* What is heard during a click is recorded and dated after it.
HeardRecorded ==
  /\ click.step # "running" => click.heard = NoEvent
  /\ \A c \in Cmd : click.heard[c] # None => c \in click.fresh /\ recorded[c] = click.heard[c]

HeardInv == Types /\ restarts \in Nat /\ HeardRecorded

\* Publishing a snapshot gives each channel with a value the value of its readback.
LEMMA SnapshotTypes ==
  ASSUME DaemonTypes, NEW w \in Wirings, NEW v \in Values, Snapshot(w, v)
  PROVE  /\ retained' \in [Channel -> Value \cup {None}]
         /\ known' \subseteq Channel /\ disk' = disk /\ dirty' \in BOOLEAN
         /\ \A ch \in Channel : w[ch] # None /\ v[w[ch]] # None => retained'[ch] = v[w[ch]]
  <1>. DEFINE dead == {ch \in known : w[ch] = None}
              live == {ch \in Channel : w[ch] # None /\ v[w[ch]] # None}
  <1>1. w \in [Channel -> Cmd \cup {None}] /\ None \notin Value
    BY LiveAssumption
  <1>2. /\ retained' = [ch \in Channel |-> IF ch \in live THEN v[w[ch]]
                                           ELSE IF ch \in dead THEN None ELSE retained[ch]]
        /\ known' = (known \ dead) \cup live
        /\ dirty' = (dirty \/ known' # known) /\ disk' = disk
    BY DEF Snapshot, Registered
  <1>3. retained' \in [Channel -> Value \cup {None}]
    BY <1>1, <1>2 DEF DaemonTypes, Values
  <1>4. known' \subseteq Channel /\ dirty' \in BOOLEAN
    BY <1>2 DEF DaemonTypes
  <1>. QED  BY <1>2, <1>3, <1>4

LEMMA InitHeard == Init => HeardInv
  <1>. SUFFICES ASSUME Init PROVE HeardInv
    OBVIOUS
  <1>1. Types
    BY InitInvariant DEF IInv
  <1>2. HeardRecorded
    BY DEF Init, HeardRecorded, NoClick, NoEvent
  <1>. QED  BY <1>1, <1>2 DEF HeardInv, Init

\* Only an event is recorded, and the click hears it.
LEMMA EventHeard ==
  ASSUME HeardInv, NEW e \in events, Event(e) PROVE HeardInv'
  <1>. USE DEF HeardInv, Types
  <1>. DEFINE fed == {ch \in Channel : connected /\ published /\ bound[ch] = e.cmd}
  <1>1. e.cmd \in Cmd /\ e.value \in Value
    BY DEF JeedomTypes
  <1>2. /\ events' = events \ {e}
        /\ recorded' = [c \in Cmd |-> IF c = e.cmd THEN e.value ELSE recorded[c]]
        /\ retained' = [ch \in Channel |-> IF ch \in fed THEN e.value ELSE retained[ch]]
        /\ known' = (known \ {}) \cup fed
        /\ dirty' = (dirty \/ known' # known) /\ disk' = disk
        /\ click' = IF click.step = "running"
                    THEN [click EXCEPT !.heard[e.cmd] = e.value, !.fresh = @ \cup {e.cmd}]
                    ELSE click
        /\ sync' = [sync EXCEPT !.clean = FALSE]
        /\ UNCHANGED <<wiring, value, connected, bound, published, restarts>>
    BY DEF Event, Registered, Records
  <1>3. JeedomTypes' /\ DaemonTypes'
    <2>1. JeedomTypes'
      BY <1>2 DEF JeedomTypes
    <2>2. recorded' \in Values /\ retained' \in [Channel -> Value \cup {None}]
      BY <1>1, <1>2 DEF DaemonTypes, Values
    <2>3. known' \subseteq Channel /\ disk' \subseteq Channel /\ dirty' \in BOOLEAN
      BY <1>2 DEF DaemonTypes
    <2>. QED  BY <1>2, <2>1, <2>2, <2>3 DEF DaemonTypes
  <1>4. CASE click.step = "running"
    <2>1. click' = [click EXCEPT !.heard[e.cmd] = e.value, !.fresh = @ \cup {e.cmd}]
      BY <1>2, <1>4
    <2>2. /\ click' \in [step : {"idle", "read", "running"}, values : Values,
                         heard : Values, fresh : SUBSET Cmd]
          /\ click'.step = "running"
          /\ click'.heard = [click.heard EXCEPT ![e.cmd] = e.value]
          /\ click'.fresh = click.fresh \cup {e.cmd}
      BY <1>1, <1>4, <2>1 DEF RequestTypes, Values
    <2>3. RequestTypes'
      BY <1>2, <1>4, <2>2 DEF RequestTypes
    <2>4. HeardRecorded'
      BY <1>1, <1>2, <2>2 DEF HeardRecorded, RequestTypes, DaemonTypes, Values
    <2>. QED  BY <1>2, <1>3, <2>3, <2>4
  <1>5. CASE click.step # "running"
    <2>1. click' = click
      BY <1>2, <1>5
    <2>2. RequestTypes'
      BY <1>2, <2>1 DEF RequestTypes
    <2>3. HeardRecorded'
      BY <1>5, <2>1 DEF HeardRecorded, NoEvent
    <2>. QED  BY <1>2, <1>3, <2>2, <2>3
  <1>. QED  BY <1>4, <1>5

\* What Jeedom and the daemon do beside the requests.
LEMMA AroundHeard ==
  ASSUME HeardInv, (\E c \in Cmd : Change(c)) \/ Rewire \/ Flush \/ Connection
  PROVE  HeardInv'
  <1>. USE DEF HeardInv, Types
  <1>1. /\ UNCHANGED <<bound, published, recorded, known, click, retained, restarts>>
        /\ disk' \in {disk, known} /\ dirty' \in {dirty, FALSE}
        /\ connected' \in {connected, ~connected}
        /\ sync' \in {sync, [sync EXCEPT !.clean = FALSE]}
    BY DEF Change, Rewire, Flush, Connection, registry
  <1>2. JeedomTypes'
    <2>1. CASE \E c \in Cmd : Change(c)
      BY <2>1 DEF Change, JeedomTypes
    <2>2. CASE Rewire
      BY <2>2 DEF Rewire, JeedomTypes
    <2>3. CASE Flush \/ Connection
      BY <2>3 DEF Flush, Connection, jeedom, JeedomTypes
    <2>. QED  BY <2>1, <2>2, <2>3
  <1>3. DaemonTypes'
    BY <1>1 DEF DaemonTypes
  <1>4. RequestTypes' /\ HeardRecorded'
    BY <1>1 DEF RequestTypes, HeardRecorded
  <1>. QED  BY <1>1, <1>2, <1>3, <1>4

LEMMA SyncHeard ==
  ASSUME HeardInv, SyncRead \/ SyncPublish \/ SyncRefused \/ SyncCommit
  PROVE  HeardInv'
  <1>. USE DEF HeardInv, Types
  <1>1. UNCHANGED <<wiring, value, events, connected, recorded, click, restarts>>
    BY DEF SyncRead, SyncPublish, SyncRefused, SyncCommit, jeedom
  <1>2. JeedomTypes' /\ HeardRecorded'
    BY <1>1 DEF JeedomTypes, HeardRecorded
  <1>3. /\ NoSync.step = "idle"
        /\ NoSync \in [step : {"idle", "read", "published", "unpublished"},
                       wiring : Wirings \cup {Unfed}, values : Values, clean : BOOLEAN]
    BY DEF NoSync, NoEvent, Values
  <1>4. CASE SyncPublish
    <2>1. /\ sync.wiring \in Wirings /\ sync.values \in Values
          /\ IF connected THEN Snapshot(sync.wiring, sync.values) ELSE NoSnapshot
          /\ UNCHANGED <<bound, published>>
      BY <1>4 DEF SyncPublish, RequestTypes
    <2>2. DaemonTypes'
      <3>1. CASE connected
        BY <1>1, <2>1, <3>1, SnapshotTypes DEF DaemonTypes
      <3>2. CASE ~connected
        BY <1>1, <2>1, <3>2 DEF DaemonTypes, NoSnapshot, registry
      <3>. QED  BY <3>1, <3>2
    <2>3. (connected /\ sync.wiring = wiring /\ sync.values = value) \in BOOLEAN
      OBVIOUS
    <2>4. /\ sync' \in [step : {"idle", "read", "published", "unpublished"},
                        wiring : Wirings \cup {Unfed}, values : Values, clean : BOOLEAN]
          /\ sync'.wiring = sync.wiring
      BY <1>4, <2>3 DEF SyncPublish, RequestTypes
    <2>5. RequestTypes'
      BY <1>1, <2>1, <2>4 DEF RequestTypes
    <2>. QED  BY <1>1, <1>2, <2>2, <2>5
  <1>5. CASE SyncRead
    <2>1. /\ UNCHANGED <<bound, published, retained, known, dirty, disk>>
          /\ sync' = [NoSync EXCEPT !.step = "read", !.wiring = wiring, !.values = value]
      BY <1>5 DEF SyncRead, registry
    <2>2. value \in Values
      BY DEF JeedomTypes, Values
    <2>. QED  BY <1>1, <1>2, <1>3, <2>1, <2>2 DEF DaemonTypes, RequestTypes, JeedomTypes
  <1>6. CASE SyncRefused
    BY <1>1, <1>2, <1>3, <1>6 DEF SyncRefused, registry, DaemonTypes, RequestTypes
  <1>7. CASE SyncCommit
    <2>1. /\ UNCHANGED <<retained, known, dirty, disk>> /\ sync.step # "idle"
          /\ bound' = sync.wiring /\ published' = (sync.step = "published") /\ sync' = NoSync
      BY <1>7 DEF SyncCommit, registry
    <2>2. bound' \in Wirings /\ published' \in BOOLEAN
      BY <2>1 DEF RequestTypes
    <2>. QED  BY <1>1, <1>2, <1>3, <2>1, <2>2 DEF DaemonTypes, RequestTypes
  <1>. QED  BY <1>4, <1>5, <1>6, <1>7

LEMMA ClickHeard ==
  ASSUME HeardInv, ClickRead \/ ClickArrive \/ ClickPublish
  PROVE  HeardInv'
  <1>. USE DEF HeardInv, Types
  <1>1. UNCHANGED <<wiring, value, events, connected, bound, recorded, sync, restarts>>
    BY DEF ClickRead, ClickArrive, ClickPublish, jeedom
  <1>2. JeedomTypes'
    BY <1>1 DEF JeedomTypes
  <1>3. /\ NoClick.step = "idle" /\ NoClick.heard = NoEvent /\ NoClick.fresh = {}
        /\ NoClick \in [step : {"idle", "read", "running"}, values : Values,
                        heard : Values, fresh : SUBSET Cmd]
    BY DEF NoClick, NoEvent, Values
  <1>4. \A c \in Cmd : NoEvent[c] = None
    BY DEF NoEvent
  <1>5. CASE ClickRead
    <2>1. /\ UNCHANGED <<published, retained, known, dirty, disk>>
          /\ click' = [NoClick EXCEPT !.step = "read", !.values = value]
      BY <1>5 DEF ClickRead, registry
    <2>2. /\ click' \in [step : {"idle", "read", "running"}, values : Values,
                         heard : Values, fresh : SUBSET Cmd]
          /\ click'.step = "read" /\ click'.heard = NoEvent
      BY <1>3, <2>1 DEF JeedomTypes, Values
    <2>3. DaemonTypes' /\ RequestTypes'
      BY <1>1, <2>1, <2>2 DEF DaemonTypes, RequestTypes
    <2>4. HeardRecorded'
      BY <1>4, <2>2 DEF HeardRecorded
    <2>. QED  BY <1>1, <1>2, <2>3, <2>4
  <1>6. CASE ClickArrive
    <2>1. /\ UNCHANGED <<published, retained, known, dirty, disk>> /\ click.step = "read"
          /\ click' = IF bound = Unfed \/ sync.step \in {"published", "unpublished"}
                      THEN NoClick ELSE [click EXCEPT !.step = "running"]
      BY <1>6 DEF ClickArrive, registry
    <2>2. click'.heard = NoEvent
      BY <1>3, <2>1 DEF HeardRecorded, RequestTypes
    <2>3. DaemonTypes'
      BY <1>1, <2>1 DEF DaemonTypes
    <2>4. RequestTypes'
      BY <1>1, <1>3, <2>1 DEF RequestTypes, DaemonTypes
    <2>5. HeardRecorded'
      BY <1>4, <2>2 DEF HeardRecorded
    <2>. QED  BY <1>1, <1>2, <2>3, <2>4, <2>5
  <1>7. CASE ClickPublish
    <2>1. /\ click.step = "running" /\ bound \in Wirings
          /\ published' = (published \/ connected) /\ click' = NoClick
          /\ IF connected THEN Snapshot(bound, [c \in Cmd |-> ClickValue(c)]) ELSE NoSnapshot
      BY <1>7 DEF ClickPublish, RequestTypes
    <2>2. [c \in Cmd |-> ClickValue(c)] \in Values
      BY DEF ClickValue, RequestTypes, DaemonTypes, Values
    <2>3. DaemonTypes'
      <3>1. CASE connected
        BY <1>1, <2>1, <2>2, <3>1, SnapshotTypes DEF DaemonTypes
      <3>2. CASE ~connected
        BY <1>1, <2>1, <3>2 DEF DaemonTypes, NoSnapshot, registry
      <3>. QED  BY <3>1, <3>2
    <2>4. RequestTypes' /\ HeardRecorded'
      BY <1>1, <1>3, <1>4, <2>1 DEF RequestTypes, HeardRecorded
    <2>. QED  BY <1>1, <1>2, <2>3, <2>4
  <1>. QED  BY <1>5, <1>6, <1>7

LEMMA RestartHeard == ASSUME HeardInv, Restart PROVE HeardInv'
  <1>. USE DEF HeardInv, Types
  <1>1. /\ known' = disk' /\ disk' \in {known, disk} /\ dirty' = FALSE
        /\ connected' = FALSE /\ bound' = Unfed /\ published' = FALSE
        /\ recorded' = NoEvent /\ sync' = NoSync /\ click' = NoClick
        /\ restarts' = restarts + 1
        /\ UNCHANGED <<wiring, value, events, retained>>
    BY DEF Restart, jeedom
  <1>2. NoEvent \in Values /\ \A c \in Cmd : NoEvent[c] = None
    BY DEF NoEvent, Values
  <1>3. JeedomTypes' /\ DaemonTypes'
    BY <1>1, <1>2 DEF JeedomTypes, DaemonTypes
  <1>4. RequestTypes' /\ HeardRecorded'
    BY <1>1, <1>2 DEF RequestTypes, HeardRecorded, NoSync, NoClick
  <1>. QED  BY <1>1, <1>3, <1>4

THEOREM Hearing == Spec => []HeardInv
  <1>1. HeardInv /\ [Next]_vars => HeardInv'
    <2>. SUFFICES ASSUME HeardInv, [Next]_vars PROVE HeardInv'
      OBVIOUS
    <2>1. CASE Next
      BY <2>1, EventHeard, AroundHeard, SyncHeard, ClickHeard, RestartHeard DEF Next
    <2>2. CASE UNCHANGED vars
      BY <2>2 DEF vars, jeedom, registry, HeardInv, Types, JeedomTypes, DaemonTypes,
                  RequestTypes, HeardRecorded
    <2>. QED  BY <2>1, <2>2
  <1>. QED  BY <1>1, InitHeard, PTL DEF Spec

\* The types, with a kill of the daemon or a full disk at any time; only an equipment that
\* a sync described is published.
THEOREM Typing == Spec => []TypeOK
  <1>1. HeardInv => TypeOK
    BY DEF HeardInv, Types, JeedomTypes, DaemonTypes, RequestTypes, TypeOK, Values
  <1>. QED  BY <1>1, Hearing, PTL

\* A click never puts back a value older than an event heard since it arrived: the only
\* step that ends a running click publishes, for each such command, what is recorded.
THEOREM ClicksKeepEvents == Spec => ClickKeepsHeard
  <1>. DEFINE Kept ==
         click.step = "running" /\ click' = NoClick /\ connected /\ restarts' = restarts
         => \A ch \in Channel :
              bound[ch] # None /\ click.heard[bound[ch]] # None
              => retained'[ch] = click.heard[bound[ch]]
  <1>1. HeardInv /\ [Next]_vars => [Kept]_vars
    <2>. SUFFICES ASSUME HeardInv, Next, click.step = "running", click' = NoClick, connected,
                         restarts' = restarts,
                         NEW ch \in Channel, bound[ch] # None, click.heard[bound[ch]] # None
                  PROVE  retained'[ch] = click.heard[bound[ch]]
      BY DEF vars
    <2>. USE DEF HeardInv, Types
    <2>1. ClickPublish
      <3>1. click' # click /\ NoClick.step = "idle"
        BY DEF NoClick
      <3>2. ~ \E e \in events : Event(e)
        <4>. SUFFICES ASSUME NEW e \in events, Event(e) PROVE FALSE
          OBVIOUS
        <4>1. click' = [click EXCEPT !.heard[e.cmd] = e.value,
                               !.fresh = @ \cup Records(e, {x \in Channel : connected
                                               /\ published /\ bound[x] = e.cmd})]
          BY DEF Event
        <4>2. click'.step = "running"
          BY <4>1 DEF RequestTypes
        <4>. QED  BY <3>1, <4>2
      <3>3. ~Restart
        BY DEF Restart
      <3>. QED  BY <3>1, <3>2, <3>3 DEF Next, Change, Rewire, SyncRead, SyncPublish,
                  SyncRefused, SyncCommit, ClickRead, ClickArrive, Flush, Connection
    <2>2. bound \in Wirings /\ bound[ch] \in Cmd
      <3>1. bound \in Wirings
        BY DEF RequestTypes
      <3>. QED  BY <3>1, LiveAssumption
    <2>3. ClickValue(bound[ch]) = click.heard[bound[ch]]
      BY <2>2 DEF HeardRecorded, ClickValue
    <2>4. [c \in Cmd |-> ClickValue(c)] \in Values
      BY DEF ClickValue, RequestTypes, DaemonTypes, Values
    <2>5. Snapshot(bound, [c \in Cmd |-> ClickValue(c)])
      BY <2>1 DEF ClickPublish
    <2>. QED  BY <2>2, <2>3, <2>4, <2>5, SnapshotTypes
  <1>2. Spec => [][Kept]_vars
    BY <1>1, Hearing, PTL DEF Spec
  <1>. QED  BY <1>2 DEF ClickKeepsHeard
=============================================================================
