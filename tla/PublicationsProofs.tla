------------------------- MODULE PublicationsProofs -------------------------
(***************************************************************************)
(* For any equipments and types of entities: the state of the daemon has   *)
(* its type; no deferred removal aims at a published entity, unless        *)
(* mqtt_connect runs on a running bridge; clean restarts leave no ghost,   *)
(* nor do losses of the broker when no equipment changes type; and nothing *)
(* goes missing, whatever happens.                                         *)
(***************************************************************************)
EXTENDS Publications, TLAPS

Blank == [e \in Eq |-> NoDecision]
Acting == job.kind \in {"publier", "supprimer"}

\* The cache of the previous run is only there until the first sync, before which
\* nothing is published and no action starts.
BootBeforeSync ==
  \/ known \in [Eq -> Verdict] /\ boot = Nothing
  \/ known = Unsynced /\ publications = Blank /\ ~Acting

Typed == TypeOK /\ BootBeforeSync

----------------------------------------------------------------------------
(* One equipment.                                                          *)

LEMMA VerdictTypes ==
  ASSUME NEW v \in Verdict
  PROVE  /\ v.kind \in {"gone", "out", "accepted", "refused"}
         /\ v.kind # "gone" => v.type \in Type
         /\ v = Gone \/ v \in [kind : {"out"}, type : Type] \/ v \in Evaluation
  BY DEF Verdict, Gone, Evaluation

LEMMA EvaluationTypes == Evaluation \subseteq Verdict
  BY DEF Verdict

LEMMA LiveTypes ==
  ASSUME NEW d \in Decisions
  PROVE  /\ Live(d) \in AtMostOne
         /\ d.published \in BOOLEAN /\ d.should \in BOOLEAN
         /\ d # NoDecision => d.type \in Type
         /\ d.published => d # NoDecision
         /\ d.should => d # NoDecision
         /\ d.published <=> Live(d) # {}
  <1>1. CASE d = NoDecision
    BY <1>1 DEF NoDecision, Live, AtMostOne
  <1>2. CASE d \in [type : Type, should : BOOLEAN, published : BOOLEAN, active : BOOLEAN]
    <2>1. d # NoDecision
      <3>1. d = [type |-> d.type, should |-> d.should, published |-> d.published,
                 active |-> d.active]
        BY <1>2
      <3>2. DOMAIN d = {"type", "should", "published", "active"}
        BY <3>1
      <3>3. DOMAIN NoDecision = {"should", "published", "active"}
        BY DEF NoDecision
      <3>. QED  BY <3>2, <3>3
    <2>. QED  BY <1>2, <2>1 DEF Live, AtMostOne
  <1>. QED  BY <1>1, <1>2 DEF Decisions

LEMMA DecisionTypes ==
  ASSUME TypeOK, NEW e \in Eq, NEW v \in Verdict
  PROVE  /\ Decision(e, v) \in Decisions
         /\ Decision(e, v).published <=>
              v.kind = "accepted" /\ (IsConnected \/ publications[e].published)
         /\ Live(Decision(e, v)) =
              IF v.kind = "accepted" /\ (IsConnected \/ publications[e].published)
                THEN {v.type} ELSE {}
  <1>1. publications[e].published \in BOOLEAN
    BY LiveTypes DEF TypeOK
  <1>2. CASE v.kind = "gone"
    BY <1>2 DEF Decision, NoDecision, Decisions, Live
  <1>3. CASE v.kind \notin {"gone", "accepted"}
    BY <1>3, VerdictTypes DEF Decision, Refused, Decisions, Live
  <1>4. CASE v.kind = "accepted"
    <2>. DEFINE d == [type |-> v.type, should |-> TRUE, active |-> IsConnected,
                      published |-> IsConnected \/ publications[e].published]
    <2>1. Decision(e, v) = d
      BY <1>4 DEF Decision
    <2>2. IsConnected \in BOOLEAN /\ (IsConnected \/ publications[e].published) \in BOOLEAN
      BY <1>1 DEF IsConnected
    <2>3. d \in Decisions
      BY <1>4, <2>2, VerdictTypes DEF Decisions
    <2>4. d.published <=> IsConnected \/ publications[e].published
      BY <2>2
    <2>. QED  BY <1>4, <2>1, <2>3, <2>4 DEF Live
  <1>. QED  BY <1>2, <1>3, <1>4

\* What is published and what the cache says published are one type at most.
LEMMA OldTypes ==
  ASSUME Typed, NEW e \in Eq
  PROVE  Live(publications[e]) \cup boot[e] \in AtMostOne
  <1>1. Live(publications[e]) \in AtMostOne /\ boot[e] \in AtMostOne
    BY LiveTypes DEF Typed, TypeOK
  <1>2. CASE boot = Nothing
    BY <1>1, <1>2 DEF Nothing
  <1>3. CASE publications = Blank
    BY <1>1, <1>3 DEF Blank, Live, NoDecision
  <1>. QED  BY <1>2, <1>3 DEF Typed, BootBeforeSync

LEMMA RemovalTypes ==
  ASSUME Typed, NEW e \in Eq, NEW v \in Verdict
  PROVE  /\ Deferred(e, v) \in AtMostOne
         /\ Emptied(e, v) \subseteq Type /\ Published(v) \subseteq Type
  <1>1. pending[e] \in AtMostOne /\ publications[e] \in Decisions
    BY DEF Typed, TypeOK
  <1>2. Live(publications[e]) \cup boot[e] \in AtMostOne
    BY OldTypes
  <1>3. Retyped(e, v) \in AtMostOne
    BY <1>2 DEF Retyped, AtMostOne
  <1>4. Withdrawn(e, v) \in AtMostOne
    <2>1. publications[e].should => {publications[e].type} \in AtMostOne
      BY <1>1, LiveTypes DEF AtMostOne
    <2>. QED  BY <1>2, <2>1 DEF Withdrawn, AtMostOne
  <1>5. Deferred(e, v) \in AtMostOne
    BY <1>1, <1>3, <1>4 DEF Deferred, AtMostOne
  <1>6. Emptied(e, v) \subseteq Type
    BY <1>1, <1>3, <1>4 DEF Emptied, AtMostOne
  <1>7. Published(v) \subseteq Type
    BY VerdictTypes DEF Published
  <1>. QED  BY <1>5, <1>6, <1>7

LEMMA WriteTypes ==
  ASSUME TypeOK, NEW emptied, NEW published \in SUBSET Topic, Write(emptied, published)
  PROVE  accepted' \subseteq Topic /\ retained' \subseteq Topic /\ link' = link
  BY DEF Write, TypeOK

LEMMA SavedTypes ==
  ASSUME NEW d \in [Eq -> Decisions]
  PROVE  Saved(d) \in [Eq -> AtMostOne] /\ Entries(Saved(d)) \subseteq Topic
  <1>1. Saved(d) \in [Eq -> AtMostOne]
    BY LiveTypes DEF Saved
  <1>2. ASSUME NEW e \in Eq PROVE Topics(e, Saved(d)[e]) \subseteq Topic
    BY <1>1 DEF Topics, Topic, AtMostOne
  <1>. QED  BY <1>1, <1>2 DEF Entries

----------------------------------------------------------------------------
(* The type of the state.                                                  *)

LEMMA InitTyped == Init => Typed
  <1>. SUFFICES ASSUME Init PROVE Typed
    OBVIOUS
  <1>1. NoDecision \in Decisions /\ {} \in AtMostOne
    BY DEF Decisions, AtMostOne
  <1>2. TypeOK
    BY <1>1 DEF Init, TypeOK, Nothing, Jobs
  <1>. QED  BY <1>2 DEF Init, Typed, BootBeforeSync, Blank, Acting, Idle

LEMMA BridgeTyped ==
  ASSUME Typed, MqttConnect \/ Connected \/ Disconnected PROVE Typed'
  <1>1. TypeOK'
    BY DEF Typed, TypeOK, MqttConnect, Connected, Disconnected, republication
  <1>2. UNCHANGED <<known, boot, publications, job>>
    BY DEF MqttConnect, Connected, Disconnected
  <1>. QED  BY <1>1, <1>2 DEF Typed, BootBeforeSync, Acting

\* The daemon has seen a first sync: the cache of the previous run is dropped.
LEMMA CommitTyped ==
  ASSUME NEW d \in [Eq -> Decisions], NEW v \in [Eq -> Verdict], CommitSync(d, v)
  PROVE  /\ publications' \in [Eq -> Decisions] /\ known' \in [Eq -> Verdict]
         /\ boot' = Nothing /\ boot' \in [Eq -> AtMostOne]
         /\ disk' \in [Eq -> AtMostOne] /\ job' = Idle /\ job' \in Jobs
  <1>1. Nothing \in [Eq -> AtMostOne]
    BY DEF Nothing, AtMostOne
  <1>. QED  BY <1>1, SavedTypes DEF CommitSync, Jobs

LEMMA SyncTyped ==
  ASSUME Typed, NEW v \in [Eq -> Verdict], Sync(v) PROVE Typed'
  <1>. DEFINE decisions == [e \in Eq |-> Decision(e, v[e])]
              purged == {e \in Eq : v[e].kind \in {"gone", "out"}}
              emptied == UNION {Topics(e, Emptied(e, v[e])) : e \in Eq}
              published == UNION {Topics(e, Published(v[e])) : e \in Eq}
  <1>1. decisions \in [Eq -> Decisions]
    BY DecisionTypes DEF Typed
  <1>2. published \subseteq Topic
    <2>1. ASSUME NEW e \in Eq PROVE Topics(e, Published(v[e])) \subseteq Topic
      BY RemovalTypes DEF Topics, Topic
    <2>. QED  BY <2>1
  <1>3. accepted' \subseteq Topic /\ retained' \subseteq Topic /\ link' = link
    <2>1. Write(emptied, published)
      BY DEF Sync
    <2>2. published \in SUBSET Topic
      BY <1>2
    <2>. QED  BY <2>1, <2>2, WriteTypes DEF Typed
  <1>4. pending' \in [Eq -> AtMostOne]
    <2>1. pending' = [e \in Eq |-> Deferred(e, v[e])]
      BY DEF Sync
    <2>2. \A e \in Eq : Deferred(e, v[e]) \in AtMostOne
      BY RemovalTypes
    <2>. QED  BY <2>1, <2>2
  <1>5. UNCHANGED <<batch, posted>> /\ job = Idle
    BY DEF Sync, republication
  <1>6. CASE CommitSync(decisions, v)
    <2>1. /\ publications' \in [Eq -> Decisions] /\ known' \in [Eq -> Verdict]
          /\ boot' = Nothing /\ boot' \in [Eq -> AtMostOne]
          /\ disk' \in [Eq -> AtMostOne] /\ job' = Idle /\ job' \in Jobs
      BY <1>1, <1>6, CommitTyped
    <2>. QED  BY <1>3, <1>4, <1>5, <2>1 DEF Typed, TypeOK, BootBeforeSync
  <1>7. CASE /\ publications' = [e \in Eq |-> IF e \in purged THEN NoDecision
                                                         ELSE publications[e]]
             /\ job' = [kind |-> "sync", decisions |-> decisions, verdict |-> v]
             /\ UNCHANGED <<boot, disk, known>>
    <2>1. job' \in Jobs /\ job'.kind = "sync"
      BY <1>1, <1>7 DEF Jobs
    <2>2. publications' \in [Eq -> Decisions]
      BY <1>7 DEF Typed, TypeOK, Decisions
    <2>3. BootBeforeSync'
      <3>1. CASE known \in [Eq -> Verdict] /\ boot = Nothing
        BY <1>7, <3>1 DEF BootBeforeSync
      <3>2. CASE known = Unsynced /\ publications = Blank
        BY <1>7, <2>1, <3>2 DEF BootBeforeSync, Blank, Acting
      <3>. QED  BY <3>1, <3>2 DEF Typed, BootBeforeSync
    <2>. QED  BY <1>3, <1>4, <1>5, <1>7, <2>1, <2>2, <2>3 DEF Typed, TypeOK
  <1>. QED  BY <1>6, <1>7 DEF Sync

LEMMA ResumeTyped ==
  ASSUME Typed, ResumeSync PROVE Typed'
  <1>1. job \in [kind : {"sync"}, decisions : [Eq -> Decisions], verdict : [Eq -> Verdict]]
    BY DEF Typed, TypeOK, Jobs, Idle, ResumeSync
  <1>2. /\ publications' \in [Eq -> Decisions] /\ known' \in [Eq -> Verdict]
        /\ boot' = Nothing /\ boot' \in [Eq -> AtMostOne]
        /\ disk' \in [Eq -> AtMostOne] /\ job' \in Jobs
    BY <1>1, CommitTyped DEF ResumeSync
  <1>. QED  BY <1>2 DEF ResumeSync, Typed, TypeOK, BootBeforeSync, mqtt, republication

\* The record of a running action.
ActionJobs ==
  [kind : {"publier", "supprimer"}, todo : SUBSET Eq,
   removing : {NoRemoval} \cup [eq : Eq, type : Type, ok : BOOLEAN]]

LEMMA ActingType ==
  ASSUME Typed, Acting
  PROVE  /\ job \in ActionJobs /\ known \in [Eq -> Verdict] /\ boot = Nothing
         /\ job.removing # NoRemoval =>
              job.removing \in [eq : Eq, type : Type, ok : BOOLEAN]
  BY DEF Typed, TypeOK, Jobs, Idle, Acting, ActionJobs, BootBeforeSync

LEMMA HandledType ==
  ASSUME Typed, Acting, NEW e \in Eq, Handled(e)
  PROVE  job' \in ActionJobs /\ job'.kind = job.kind /\ job'.removing = NoRemoval
  BY ActingType DEF Handled, ActionJobs

\* A step of an action leaves what the first sync sets.
LEMMA ActionTyped ==
  ASSUME Typed, Acting, job' \in ActionJobs, UNCHANGED <<known, boot, disk, batch, posted>>,
         accepted' \subseteq Topic, retained' \subseteq Topic, link' = link,
         publications' \in [Eq -> Decisions], pending' \in [Eq -> AtMostOne]
  PROVE  Typed'
  <1>1. job' \in Jobs
    BY DEF Jobs, ActionJobs
  <1>. QED  BY <1>1, ActingType DEF Typed, TypeOK, BootBeforeSync

LEMMA StartTyped ==
  ASSUME Typed, NEW kind \in {"publier", "supprimer"}, NEW selection \in SUBSET Eq,
         StartAction(kind, selection)
  PROVE  Typed'
  <1>1. job' \in Jobs
    BY DEF StartAction, Jobs
  <1>2. known \in [Eq -> Verdict] /\ boot = Nothing
    BY DEF StartAction, Typed, BootBeforeSync
  <1>3. UNCHANGED <<mqtt, publications, pending, boot, disk, known, republication>>
    BY DEF StartAction
  <1>. QED  BY <1>1, <1>2, <1>3 DEF Typed, TypeOK, BootBeforeSync, mqtt, republication

LEMMA SkipTyped ==
  ASSUME Typed, NEW e \in Eq, Skip(e) PROVE Typed'
  <1>1. Acting /\ Handled(e)
    BY DEF Skip, AtEquipment, Acting
  <1>2. job' \in ActionJobs
    BY <1>1, HandledType
  <1>3. UNCHANGED <<mqtt, publications, pending, boot, disk, known, republication>>
    BY DEF Skip
  <1>. QED  BY <1>1, <1>2, <1>3, ActionTyped DEF Typed, TypeOK, mqtt, republication

LEMMA PublishTyped ==
  ASSUME Typed, NEW e \in Eq, NEW v \in Evaluation, PublishOne(e, v) PROVE Typed'
  <1>1. Acting /\ Handled(e) /\ v \in Verdict
    BY EvaluationTypes DEF PublishOne, AtEquipment, Acting
  <1>2. job' \in ActionJobs
    BY <1>1, HandledType
  <1>3. accepted' \subseteq Topic /\ retained' \subseteq Topic /\ link' = link
    <2>1. Write(Topics(e, Emptied(e, v)), Topics(e, Published(v)))
      BY DEF PublishOne
    <2>2. Topics(e, Published(v)) \in SUBSET Topic
      BY <1>1, RemovalTypes DEF Topics, Topic
    <2>. QED  BY <2>1, <2>2, WriteTypes DEF Typed
  <1>4. publications' \in [Eq -> Decisions]
    BY <1>1, DecisionTypes DEF PublishOne, Typed, TypeOK
  <1>5. pending' \in [Eq -> AtMostOne]
    BY <1>1, RemovalTypes DEF PublishOne, Typed, TypeOK
  <1>6. UNCHANGED <<boot, disk, known, batch, posted>>
    BY DEF PublishOne, republication
  <1>. QED  BY <1>1, <1>2, <1>3, <1>4, <1>5, <1>6, ActionTyped

LEMMA SendTyped ==
  ASSUME Typed, NEW e \in Eq, SendRemoval(e) PROVE Typed'
  <1>. DEFINE type == IF Known(e) THEN publications[e].type ELSE DefaultType
  <1>1. Acting
    BY DEF SendRemoval, AtEquipment, Acting
  <1>2. type \in Type
    BY LiveTypes, PublicationsAssumption DEF Known, Typed, TypeOK
  <1>3. job' \in ActionJobs
    <2>1. HasClient \in BOOLEAN
      BY DEF HasClient
    <2>2. [eq |-> e, type |-> type, ok |-> HasClient] \in
            [eq : Eq, type : Type, ok : BOOLEAN]
      BY <1>2, <2>1
    <2>3. job' = [job EXCEPT !.removing = [eq |-> e, type |-> type, ok |-> HasClient]]
      BY DEF SendRemoval
    <2>. QED  BY <1>1, <2>2, <2>3, ActingType DEF ActionJobs
  <1>4. accepted' \subseteq Topic /\ retained' \subseteq Topic /\ link' = link
    BY WriteTypes DEF SendRemoval, Typed
  <1>5. UNCHANGED <<publications, pending, boot, disk, known, batch, posted>>
    BY DEF SendRemoval, republication
  <1>. QED  BY <1>1, <1>3, <1>4, <1>5, ActionTyped DEF Typed, TypeOK

LEMMA NoteTyped ==
  ASSUME Typed, NoteRemoval PROVE Typed'
  <1>. DEFINE r == job.removing
  <1>1. Acting /\ Handled(r.eq)
    BY DEF NoteRemoval, Acting
  <1>2. r \in [eq : Eq, type : Type, ok : BOOLEAN]
    BY <1>1, ActingType DEF NoteRemoval
  <1>3. job' \in ActionJobs
    BY <1>1, <1>2, HandledType
  <1>4. publications' \in [Eq -> Decisions]
    <2>1. Refused(r.type) \in Decisions
      BY <1>2 DEF Refused, Decisions
    <2>. QED  BY <1>2, <2>1 DEF NoteRemoval, Typed, TypeOK
  <1>5. pending' \in [Eq -> AtMostOne]
    BY <1>2 DEF NoteRemoval, Typed, TypeOK, AtMostOne
  <1>6. UNCHANGED <<mqtt, boot, disk, known, republication>>
    BY DEF NoteRemoval
  <1>. QED  BY <1>1, <1>3, <1>4, <1>5, <1>6, ActionTyped
            DEF Typed, TypeOK, mqtt, republication

LEMMA FinishTyped ==
  ASSUME Typed, FinishAction PROVE Typed'
  <1>1. Acting
    BY DEF FinishAction, Acting
  <1>2. disk' \in [Eq -> AtMostOne]
    BY SavedTypes DEF FinishAction, Typed, TypeOK
  <1>3. job' = Idle /\ job' \in Jobs
    BY DEF FinishAction, Jobs
  <1>4. UNCHANGED <<mqtt, publications, pending, boot, known, republication>>
    BY DEF FinishAction
  <1>. QED  BY <1>1, <1>2, <1>3, <1>4, ActingType
            DEF Typed, TypeOK, BootBeforeSync, mqtt, republication

\* A batch publishes some of the topics the decisions say published, and keeps the others.
LEMMA RepublishTyped ==
  ASSUME Typed, NEW emptied, Republish(emptied)
  PROVE  /\ accepted' \subseteq Topic /\ retained' \subseteq Topic /\ link' = link
         /\ batch' \subseteq Topic
  <1>. DEFINE entries == Entries(Saved(publications))
  <1>1. entries \subseteq Topic
    BY SavedTypes DEF Typed, TypeOK
  <1>2. PICK first \in IF "overlap" \in Feature THEN {{x} : x \in entries} ELSE {entries} :
          Write(emptied, first) /\ batch' = (batch \cup entries) \ first
    BY DEF Republish
  <1>3. first \in SUBSET Topic
    BY <1>1, <1>2
  <1>. QED  BY <1>1, <1>2, <1>3, WriteTypes DEF Typed, TypeOK

LEMMA BatchTyped ==
  ASSUME Typed, ReconnectBatch \/ BirthBatch \/ (\E x \in batch : ContinueBatch(x))
  PROVE  Typed'
  <1>1. UNCHANGED <<publications, boot, disk, known, job>> /\ posted' \in BOOLEAN
    BY DEF ReconnectBatch, BirthBatch, ContinueBatch, Typed, TypeOK
  <1>2. /\ accepted' \subseteq Topic /\ retained' \subseteq Topic /\ link' = link
        /\ batch' \subseteq Topic
    <2>1. CASE ReconnectBatch
      BY <2>1, RepublishTyped DEF ReconnectBatch, Typed, TypeOK, mqtt
    <2>2. CASE BirthBatch
      BY <2>2, RepublishTyped DEF BirthBatch
    <2>3. ASSUME NEW x \in batch, ContinueBatch(x)
          PROVE  /\ accepted' \subseteq Topic /\ retained' \subseteq Topic /\ link' = link
                 /\ batch' \subseteq Topic
      <3>1. {x} \in SUBSET Topic
        BY DEF Typed, TypeOK
      <3>. QED  BY <2>3, <3>1, WriteTypes DEF ContinueBatch, Typed, TypeOK
    <2>. QED  BY <2>1, <2>2, <2>3
  <1>3. pending' \in [Eq -> AtMostOne]
    <2>1. Nothing \in [Eq -> AtMostOne]
      BY DEF Nothing, AtMostOne
    <2>. QED  BY <2>1 DEF ReconnectBatch, BirthBatch, ContinueBatch, Typed, TypeOK
  <1>. QED  BY <1>1, <1>2, <1>3 DEF Typed, TypeOK, BootBeforeSync, Acting

LEMMA RestartTyped ==
  ASSUME Typed, Restart PROVE Typed'
  <1>1. Nothing \in [Eq -> AtMostOne]
    BY DEF Nothing, AtMostOne
  <1>2. boot' \in [Eq -> AtMostOne] /\ disk' \in [Eq -> AtMostOne]
    BY <1>1 DEF Restart, Typed, TypeOK
  <1>3. publications' \in [Eq -> Decisions]
    BY DEF Restart, Decisions
  <1>4. job' \in Jobs
    BY DEF Restart, Jobs
  <1>5. BootBeforeSync'
    BY DEF Restart, BootBeforeSync, Blank, Acting, Idle
  <1>. QED  BY <1>1, <1>2, <1>3, <1>4, <1>5 DEF Restart, Typed, TypeOK

LEMMA NextTyped == Typed /\ [Next]_vars => Typed'
  <1>. SUFFICES ASSUME Typed, [Next]_vars PROVE Typed'
    OBVIOUS
  <1>1. CASE UNCHANGED vars
    BY <1>1 DEF vars, Typed, TypeOK, BootBeforeSync, Acting
  <1>2. CASE MqttConnect \/ Connected \/ Disconnected
    BY <1>2, BridgeTyped
  <1>3. ASSUME NEW v \in [Eq -> Verdict], Sync(v) PROVE Typed'
    BY <1>3, SyncTyped
  <1>4. CASE ResumeSync
    BY <1>4, ResumeTyped
  <1>5. ASSUME NEW kind \in {"publier", "supprimer"}, NEW selection \in (SUBSET Eq) \ {{}},
               StartAction(kind, selection)
        PROVE  Typed'
    BY <1>5, StartTyped
  <1>6. ASSUME NEW e \in Eq, Skip(e) \/ SendRemoval(e) PROVE Typed'
    BY <1>6, SkipTyped, SendTyped
  <1>7. ASSUME NEW e \in Eq, NEW v \in Evaluation, PublishOne(e, v) PROVE Typed'
    BY <1>7, PublishTyped
  <1>8. CASE NoteRemoval
    BY <1>8, NoteTyped
  <1>9. CASE FinishAction
    BY <1>9, FinishTyped
  <1>10. CASE ReconnectBatch \/ BirthBatch \/ \E x \in batch : ContinueBatch(x)
    BY <1>10, BatchTyped
  <1>11. CASE Restart
    BY <1>11, RestartTyped
  <1>. QED  BY <1>1, <1>2, <1>3, <1>4, <1>5, <1>6, <1>7, <1>8, <1>9, <1>10, <1>11 DEF Next

\* The cache of the previous run is dropped by the first sync and nothing is published
\* before, whatever the faults: that is why an equipment always has one removal to make.
THEOREM Remembering == Spec => [](TypeOK /\ BootBeforeSync)
  <1>1. Init => Typed
    BY InitTyped
  <1>2. Typed /\ [Next]_vars => Typed'
    BY NextTyped
  <1>. QED  BY <1>1, <1>2, PTL DEF Spec, Typed

\* A deferred removal and a cache entry each remember at most one type.
THEOREM Typing == Spec => []TypeOK
  <1>1. TypeOK /\ BootBeforeSync => TypeOK
    OBVIOUS
  <1>. QED  BY <1>1, Remembering, PTL

----------------------------------------------------------------------------
(* A client, once there is one, is kept: no removal is deferred while the   *)
(* decision stays published.                                                *)

Steady ==
  /\ link = "none" => job = Idle /\ \A e \in Eq : ~publications[e].published
  /\ job.kind = "sync" => pending = Nothing
  /\ Acting /\ job.removing # NoRemoval => job.removing.ok
  /\ \A e \in Eq : pending[e] # {} => ~publications[e].published

SteadyInv == Typed /\ Steady

LEMMA SteadyAims == SteadyInv => NoLiveRemoval
  <1>. SUFFICES ASSUME SteadyInv, NEW e \in Eq, pending[e] # {}
                PROVE  Live(publications[e]) = {}
    BY DEF NoLiveRemoval
  <1>. QED  BY DEF SteadyInv, Steady, Live

\* What a deferral and the decision that comes with it make of an equipment.
LEMMA DeferralFacts ==
  ASSUME SteadyInv, NEW e \in Eq, NEW v \in Verdict
  PROVE  /\ Deferred(e, v) # {} => ~Decision(e, v).published
         /\ IsConnected => Deferred(e, v) = {}
         /\ link = "none" => ~Decision(e, v).published
  <1>1. /\ Decision(e, v).published <=>
             v.kind = "accepted" /\ (IsConnected \/ publications[e].published)
    BY DecisionTypes DEF SteadyInv, Typed
  <1>2. IsConnected => Deferred(e, v) = {}
    BY DEF Deferred
  <1>3. link = "none" => ~IsConnected /\ ~publications[e].published
    BY DEF SteadyInv, Steady, IsConnected
  <1>4. CASE ~IsConnected /\ v.kind = "accepted" /\ publications[e].published
    <2>1. Withdrawn(e, v) = {} /\ HasClient /\ pending[e] = {}
      BY <1>3, <1>4 DEF Withdrawn, HasClient, SteadyInv, Steady
    <2>2. Deferred(e, v) = {}
      BY <1>4, <2>1 DEF Deferred
    <2>. QED  BY <1>3, <1>4, <2>2
  <1>. QED  BY <1>1, <1>2, <1>3, <1>4

LEMMA SteadySync ==
  ASSUME SteadyInv, NEW v \in [Eq -> Verdict], Sync(v) PROVE Steady'
  <1>. DEFINE decisions == [e \in Eq |-> Decision(e, v[e])]
  <1>1. /\ pending' = [e \in Eq |-> Deferred(e, v[e])]
        /\ link' = link
    BY DEF Sync, Write
  <1>2. \A e \in Eq : /\ Deferred(e, v[e]) # {} => ~decisions[e].published
                      /\ IsConnected => Deferred(e, v[e]) = {}
                      /\ link = "none" => ~decisions[e].published
    BY DeferralFacts
  <1>3. CASE CommitSync(decisions, v)
    BY <1>1, <1>2, <1>3 DEF CommitSync, Steady, Acting, Idle
  <1>4. CASE ~CommitSync(decisions, v)
    <2>1. /\ IsConnected /\ job'.kind = "sync"
          /\ publications' = [e \in Eq |-> IF v[e].kind \in {"gone", "out"}
                                             THEN NoDecision ELSE publications[e]]
      BY <1>4 DEF Sync
    <2>2. pending' = Nothing /\ link' # "none"
      BY <1>1, <1>2, <2>1 DEF Nothing, IsConnected
    <2>. QED  BY <2>1, <2>2 DEF Steady, Acting, Nothing
  <1>. QED  BY <1>3, <1>4

LEMMA SteadyAction ==
  ASSUME SteadyInv, NEW e \in Eq,
         Skip(e) \/ SendRemoval(e) \/ \E v \in Evaluation : PublishOne(e, v)
  PROVE  Steady'
  <1>1. Acting /\ job \in ActionJobs /\ link # "none" /\ link' = link
    <2>1. Acting /\ link' = link
      BY DEF Skip, SendRemoval, PublishOne, AtEquipment, Acting, Write, mqtt
    <2>. QED  BY <2>1, ActingType DEF SteadyInv, Steady, Acting, Idle
  <1>2. CASE Skip(e)
    <2>1. job'.kind = job.kind /\ job'.removing = NoRemoval
      BY <1>1, <1>2, HandledType DEF Skip, SteadyInv
    <2>. QED  BY <1>1, <1>2, <2>1 DEF Skip, SteadyInv, Steady, Acting
  <1>3. CASE SendRemoval(e)
    <2>1. job'.kind = job.kind /\ job'.removing.ok = HasClient
      BY <1>1, <1>3 DEF SendRemoval, ActionJobs
    <2>2. HasClient
      BY <1>1 DEF HasClient
    <2>. QED  BY <1>1, <1>3, <2>1, <2>2 DEF SendRemoval, SteadyInv, Steady, Acting
  <1>4. ASSUME NEW v \in Evaluation, PublishOne(e, v) PROVE Steady'
    <2>1. v \in Verdict
      BY EvaluationTypes
    <2>2. job'.kind = job.kind /\ job'.removing = NoRemoval
      BY <1>1, <1>4, HandledType DEF PublishOne, SteadyInv
    <2>3. Deferred(e, v) # {} => ~Decision(e, v).published
      BY <2>1, DeferralFacts
    <2>4. /\ pending' = [pending EXCEPT ![e] = Deferred(e, v)]
          /\ publications' = [publications EXCEPT ![e] = Decision(e, v)]
      BY <1>4 DEF PublishOne
    <2>. QED  BY <1>1, <2>2, <2>3, <2>4 DEF SteadyInv, Steady, Acting, Typed, TypeOK
  <1>. QED  BY <1>2, <1>3, <1>4

LEMMA SteadyNote ==
  ASSUME SteadyInv, NoteRemoval PROVE Steady'
  <1>. DEFINE r == job.removing
  <1>1. Acting /\ job \in ActionJobs /\ r \in [eq : Eq, type : Type, ok : BOOLEAN] /\ r.ok
    BY ActingType DEF NoteRemoval, Acting, SteadyInv, Steady
  <1>2. job'.kind = job.kind /\ job'.removing = NoRemoval
    BY <1>1, HandledType DEF NoteRemoval, SteadyInv
  <1>3. pending' = [pending EXCEPT ![r.eq] = {}]
    BY <1>1 DEF NoteRemoval
  <1>4. \A e \in Eq : e # r.eq => publications'[e] = publications[e]
    BY DEF NoteRemoval, SteadyInv, Typed, TypeOK
  <1>5. link # "none" /\ link' = link
    BY <1>1 DEF SteadyInv, Steady, Acting, Idle, NoteRemoval, mqtt
  <1>. QED  BY <1>1, <1>2, <1>3, <1>4, <1>5
            DEF SteadyInv, Steady, Acting, Typed, TypeOK

LEMMA SteadyNext ==
  ASSUME "reconfigure" \notin Feature, SteadyInv, [Next]_vars PROVE SteadyInv'
  <1>1. Typed'
    BY NextTyped DEF SteadyInv
  <1>2. Steady'
    <2>1. CASE UNCHANGED vars
      BY <2>1 DEF vars, SteadyInv, Steady, Acting
    <2>2. CASE MqttConnect \/ Connected \/ Disconnected
      BY <2>2 DEF MqttConnect, Connected, Disconnected, SteadyInv, Steady, Acting
    <2>3. ASSUME NEW v \in [Eq -> Verdict], Sync(v) PROVE Steady'
      BY <2>3, SteadySync
    <2>4. CASE ResumeSync
      <3>1. link # "none" /\ link' = link /\ pending = Nothing /\ pending' = Nothing
        BY <2>4 DEF ResumeSync, SteadyInv, Steady, Idle, mqtt
      <3>. QED  BY <2>4, <3>1 DEF ResumeSync, CommitSync, Steady, Acting, Idle, Nothing
    <2>5. ASSUME NEW kind \in {"publier", "supprimer"}, NEW selection,
                 StartAction(kind, selection)
          PROVE  Steady'
      BY <2>5 DEF StartAction, SteadyInv, Steady, Acting, IsConnected, mqtt
    <2>6. ASSUME NEW e \in Eq,
                 Skip(e) \/ SendRemoval(e) \/ \E v \in Evaluation : PublishOne(e, v)
          PROVE  Steady'
      BY <2>6, SteadyAction
    <2>7. CASE NoteRemoval
      BY <2>7, SteadyNote
    <2>8. CASE FinishAction
      BY <2>8 DEF FinishAction, SteadyInv, Steady, Acting, Idle, mqtt
    <2>9. CASE ReconnectBatch \/ BirthBatch \/ \E x \in batch : ContinueBatch(x)
      <3>1. link' = link /\ UNCHANGED <<publications, job>>
        BY <2>9 DEF ReconnectBatch, BirthBatch, ContinueBatch, Republish, Write, mqtt
      <3>2. pending' = pending \/ pending' = Nothing
        BY <2>9 DEF ReconnectBatch, BirthBatch, ContinueBatch
      <3>. QED  BY <3>1, <3>2 DEF SteadyInv, Steady, Acting, Nothing
    <2>10. CASE Restart
      BY <2>10 DEF Restart, Steady, Nothing, NoDecision, Acting, Idle
    <2>. QED  BY <2>1, <2>2, <2>3, <2>4, <2>5, <2>6, <2>7, <2>8, <2>9, <2>10
              DEF SteadyInv, Next
  <1>. QED  BY <1>1, <1>2 DEF SteadyInv

\* A deferred removal never aims at an entity the daemon says published, whatever is
\* lost, refused or restarted in whatever order, as long as mqtt_connect does not take
\* the client away from an action that is running.
THEOREM NothingLiveIsRemoved ==
  ASSUME "reconfigure" \notin Feature PROVE Spec => []NoLiveRemoval
  <1>1. Init => SteadyInv
    BY InitTyped DEF Init, SteadyInv, Steady, Nothing, NoDecision, Acting, Idle
  <1>2. SteadyInv /\ [Next]_vars => SteadyInv'
    BY SteadyNext
  <1>3. SteadyInv => NoLiveRemoval
    BY SteadyAims
  <1>. QED  BY <1>1, <1>2, <1>3, PTL DEF Spec

----------------------------------------------------------------------------
(* Clean restarts: what the broker retains is what the decisions, or the    *)
(* cache before the first sync, say published.                              *)

\* The types of an equipment that its next removal takes away.
Removable(e) ==
  IF job.kind = "sync" THEN Live(job.decisions[e])
  ELSE IF ~Acting THEN (Live(publications[e]) \cup boot[e]) \cap disk[e]
  ELSE IF job.removing # NoRemoval /\ job.removing.eq = e THEN {}
  ELSE Live(publications[e])

Exact ==
  /\ retained = accepted /\ batch = {} /\ pending = Nothing
  /\ link # "up" => job = Idle
  /\ \A e \in Eq : \A t \in Type : <<e, t>> \in accepted => t \in Removable(e)
  /\ job = Idle => \A e \in Eq : Live(publications[e]) \subseteq disk[e]

ExactInv == SteadyInv /\ Exact
Peaceful == Feature \subseteq {"restart", "birth"}

LEMMA PeacefulFacts ==
  ASSUME Peaceful
  PROVE  /\ "offline" \notin Feature /\ "refusal" \notin Feature /\ "overlap" \notin Feature
         /\ "reconfigure" \notin Feature /\ "crash" \notin Feature
  BY DEF Peaceful

LEMMA ExactIsAnswered == ExactInv => NoGhost
  <1>. SUFFICES ASSUME ExactInv, NEW x \in accepted
                PROVE  x \in UNION {Topics(e, Claimed(e)) : e \in Eq}
    BY DEF NoGhost
  <1>1. PICK e \in Eq, t \in Type : x = <<e, t>>
    BY DEF ExactInv, SteadyInv, Typed, TypeOK, Topic
  <1>2. t \in Removable(e)
    BY <1>1 DEF ExactInv, Exact
  <1>3. t \in Claimed(e)
    BY <1>2 DEF Removable, Claimed, Wanted, Live
  <1>. QED  BY <1>1, <1>3 DEF Topics

\* A connected evaluation of an equipment leaves the type it publishes, and no other.
LEMMA OneLeft ==
  ASSUME Peaceful, ExactInv, IsConnected, NEW e \in Eq, NEW v \in Verdict,
         NEW t \in Live(publications[e]) \cup boot[e]
  PROVE  t \in Emptied(e, v) \/ t \in Live(Decision(e, v))
  <1>1. v.kind \in {"gone", "out", "accepted"}
    BY PeacefulFacts DEF Verdict, Gone, Evaluation
  <1>2. CASE v.kind = "accepted"
    <2>1. Live(Decision(e, v)) = {v.type}
      BY <1>2, DecisionTypes DEF ExactInv, SteadyInv, Typed
    <2>. QED  BY <1>2, <2>1 DEF Emptied, Retyped
  <1>3. CASE v.kind # "accepted"
    BY <1>1, <1>3 DEF Emptied, Withdrawn
  <1>. QED  BY <1>2, <1>3

\* What a connected step publishes is what its decision says.
LEMMA PublishedIsLive ==
  ASSUME Typed, NEW e \in Eq, NEW v \in Verdict, NEW t \in Published(v)
  PROVE  t \in Live(Decision(e, v))
  BY DecisionTypes DEF Published, Typed

LEMMA ExactSync ==
  ASSUME Peaceful, ExactInv, NEW v \in [Eq -> Verdict], Sync(v) PROVE Exact'
  <1>. DEFINE decisions == [e \in Eq |-> Decision(e, v[e])]
              emptied == UNION {Topics(e, Emptied(e, v[e])) : e \in Eq}
              published == UNION {Topics(e, Published(v[e])) : e \in Eq}
  <1>1. IsConnected /\ link' = link /\ batch' = batch
    BY PeacefulFacts DEF Sync, Write, republication
  <1>2. accepted' = (accepted \ emptied) \cup published /\ retained' = accepted'
    BY <1>1 DEF Sync, Write, HasClient, IsConnected
  <1>3. pending' = Nothing
    BY <1>1 DEF Sync, Deferred, Nothing
  <1>4. ASSUME NEW e \in Eq, NEW t \in Type, <<e, t>> \in accepted'
        PROVE  t \in Live(decisions[e])
    <2>1. CASE <<e, t>> \in published
      <3>1. t \in Published(v[e])
        BY <2>1 DEF Topics
      <3>. QED  BY <3>1, PublishedIsLive DEF ExactInv, SteadyInv
    <2>2. CASE <<e, t>> \in accepted /\ <<e, t>> \notin emptied
      <3>1. t \in Live(publications[e]) \cup boot[e]
        BY <2>2 DEF ExactInv, Exact, Removable, Sync, Idle, Acting
      <3>2. t \notin Emptied(e, v[e])
        BY <2>2 DEF Topics
      <3>. QED  BY <1>1, <3>1, <3>2, OneLeft
    <2>. QED  BY <1>2, <1>4, <2>1, <2>2
  <1>5. CASE CommitSync(decisions, v)
    <2>1. /\ publications' = decisions /\ job' = Idle
          /\ \A e \in Eq : disk'[e] = Live(decisions[e])
      BY <1>5 DEF CommitSync, Saved
    <2>2. \A e \in Eq : Live(decisions[e]) \subseteq Removable(e)'
      BY <2>1 DEF Removable, Idle, Acting
    <2>. QED  BY <1>1, <1>2, <1>3, <1>4, <2>1, <2>2
              DEF Exact, ExactInv, IsConnected
  <1>6. CASE ~CommitSync(decisions, v)
    <2>1. job'.kind = "sync" /\ job'.decisions = decisions
      BY <1>6 DEF Sync
    <2>2. \A e \in Eq : Removable(e)' = Live(decisions[e])
      BY <2>1 DEF Removable
    <2>. QED  BY <1>1, <1>2, <1>3, <1>4, <2>1, <2>2
              DEF Exact, ExactInv, IsConnected, Idle
  <1>. QED  BY <1>5, <1>6

LEMMA ExactResume ==
  ASSUME ExactInv, ResumeSync PROVE Exact'
  <1>1. /\ publications' = job.decisions /\ job' = Idle
        /\ \A e \in Eq : disk'[e] = Live(job.decisions[e])
        /\ UNCHANGED <<mqtt, pending, republication>>
    BY DEF ResumeSync, CommitSync, Saved
  <1>2. \A e \in Eq : Removable(e) = Live(job.decisions[e])
    BY DEF ResumeSync, Removable
  <1>3. \A e \in Eq : Live(job.decisions[e]) \subseteq Removable(e)'
    BY <1>1 DEF Removable, Idle, Acting
  <1>. QED  BY <1>1, <1>2, <1>3 DEF ExactInv, Exact, mqtt, republication

LEMMA ExactStart ==
  ASSUME ExactInv, NEW kind \in {"publier", "supprimer"}, NEW selection,
         StartAction(kind, selection)
  PROVE  Exact'
  <1>1. /\ job = Idle /\ link = "up" /\ job'.kind = kind /\ job'.removing = NoRemoval
        /\ UNCHANGED <<mqtt, publications, pending, boot, disk, known, republication>>
    BY DEF StartAction, IsConnected
  <1>2. boot = Nothing
    BY DEF StartAction, ExactInv, SteadyInv, Typed, BootBeforeSync
  <1>3. \A e \in Eq : Removable(e) \subseteq Removable(e)'
    BY <1>1, <1>2 DEF Removable, Idle, Acting, Nothing
  <1>. QED  BY <1>1, <1>3 DEF ExactInv, Exact, Idle, mqtt, republication

LEMMA ExactPublish ==
  ASSUME Peaceful, ExactInv, NEW e \in Eq, NEW v \in Evaluation, PublishOne(e, v)
  PROVE  Exact'
  <1>1. Acting /\ job.removing = NoRemoval /\ v \in Verdict
    BY EvaluationTypes DEF PublishOne, AtEquipment, Acting
  <1>2. link = "up" /\ link' = link /\ boot = Nothing /\ job.kind # "sync"
    BY <1>1, ActingType
    DEF PublishOne, Write, ExactInv, SteadyInv, Exact, Acting, Idle
  <1>3. /\ accepted' = (accepted \ Topics(e, Emptied(e, v))) \cup Topics(e, Published(v))
        /\ retained' = accepted'
    BY <1>2 DEF PublishOne, Write, HasClient, IsConnected
  <1>4. /\ pending' = [pending EXCEPT ![e] = {}]
        /\ publications' = [publications EXCEPT ![e] = Decision(e, v)]
        /\ UNCHANGED <<boot, disk, known, batch, posted>>
    BY <1>2 DEF PublishOne, Deferred, IsConnected, republication
  <1>5. job'.kind = job.kind /\ job'.removing = NoRemoval /\ job'.kind # "idle"
    BY <1>1, HandledType DEF PublishOne, ExactInv, SteadyInv, Acting
  <1>6. /\ \A d \in Eq : Removable(d) = Live(publications[d])
        /\ \A d \in Eq : Removable(d)' = Live(publications'[d])
    BY <1>1, <1>2, <1>5 DEF Removable, Acting
  <1>7. ASSUME NEW d \in Eq, NEW t \in Type, <<d, t>> \in accepted'
        PROVE  t \in Live(publications'[d])
    <2>1. CASE d # e
      BY <1>3, <1>4, <1>6, <1>7, <2>1
      DEF Topics, ExactInv, Exact, SteadyInv, Typed, TypeOK
    <2>2. CASE d = e
      <3>1. publications'[e] = Decision(e, v)
        BY <1>4 DEF ExactInv, SteadyInv, Typed, TypeOK
      <3>2. t \in Published(v) => t \in Live(Decision(e, v))
        BY <1>1, PublishedIsLive DEF ExactInv, SteadyInv
      <3>3. t \in Live(publications[e]) /\ t \notin Emptied(e, v)
              => t \in Live(Decision(e, v))
        BY <1>1, <1>2, OneLeft DEF IsConnected
      <3>4. \/ t \in Published(v)
            \/ <<e, t>> \in accepted /\ t \notin Emptied(e, v)
        BY <1>3, <1>7, <2>2 DEF Topics
      <3>. QED  BY <1>6, <2>2, <3>1, <3>2, <3>3, <3>4 DEF ExactInv, Exact
    <2>. QED  BY <2>1, <2>2
  <1>8. pending' = Nothing
    BY <1>4 DEF ExactInv, Exact, Nothing
  <1>. QED  BY <1>2, <1>3, <1>4, <1>5, <1>6, <1>7, <1>8 DEF ExactInv, Exact, Idle

LEMMA ExactSkip ==
  ASSUME ExactInv, NEW e \in Eq, Skip(e) PROVE Exact'
  <1>1. Acting /\ job.removing = NoRemoval /\ Handled(e)
        /\ UNCHANGED <<mqtt, publications, pending, boot, disk, known, republication>>
    BY DEF Skip, AtEquipment, Acting
  <1>2. job'.kind = job.kind /\ job'.removing = NoRemoval
    BY <1>1, HandledType DEF ExactInv, SteadyInv
  <1>3. \A d \in Eq : Removable(d)' = Removable(d)
    BY <1>1, <1>2 DEF Removable, Acting
  <1>4. link = "up" /\ job'.kind # "idle"
    BY <1>1, <1>2 DEF ExactInv, Exact, Acting, Idle
  <1>. QED  BY <1>1, <1>3, <1>4 DEF ExactInv, Exact, Idle, mqtt, republication

\* The removal takes away all that is left of the equipment.
LEMMA ExactSend ==
  ASSUME ExactInv, NEW e \in Eq, SendRemoval(e) PROVE Exact'
  <1>. DEFINE type == IF Known(e) THEN publications[e].type ELSE DefaultType
  <1>1. Acting /\ job \in ActionJobs /\ job.removing = NoRemoval
    BY ActingType DEF SendRemoval, AtEquipment, Acting, ExactInv, SteadyInv
  <1>2. link = "up" /\ link' = link /\ job.kind \notin {"sync", "idle"}
    BY <1>1 DEF SendRemoval, Write, ExactInv, Exact, Acting, Idle
  <1>3. accepted' = accepted \ Topics(e, {type}) /\ retained' = accepted'
    BY <1>2 DEF SendRemoval, Write, HasClient, IsConnected
  <1>4. UNCHANGED <<publications, pending, boot, disk, known, batch, posted>>
    BY DEF SendRemoval, republication
  <1>5. /\ job'.kind = job.kind
        /\ job'.removing = [eq |-> e, type |-> type, ok |-> HasClient]
    BY <1>1 DEF SendRemoval, ActionJobs
  <1>6. job'.removing # NoRemoval /\ job'.removing.eq = e
    <2>1. "type" \in DOMAIN job'.removing /\ "type" \notin DOMAIN NoRemoval
      BY <1>5 DEF NoRemoval
    <2>. QED  BY <1>5, <2>1
  <1>7. /\ \A d \in Eq : Removable(d) = Live(publications[d])
        /\ \A d \in Eq : Removable(d)' = IF d = e THEN {} ELSE Live(publications[d])
    BY <1>1, <1>2, <1>4, <1>5, <1>6 DEF Removable, Acting
  <1>8. Live(publications[e]) \subseteq {type}
    BY DEF Live, Known, NoDecision
  <1>9. ASSUME NEW d \in Eq, NEW t \in Type, <<d, t>> \in accepted'
        PROVE  t \in Removable(d)'
    <2>1. t \in Live(publications[d])
      BY <1>3, <1>7, <1>9 DEF ExactInv, Exact
    <2>2. d # e
      BY <1>3, <1>8, <1>9, <2>1 DEF Topics
    <2>. QED  BY <1>7, <2>1, <2>2
  <1>. QED  BY <1>2, <1>3, <1>4, <1>5, <1>9 DEF ExactInv, Exact, Idle

LEMMA ExactNote ==
  ASSUME ExactInv, NoteRemoval PROVE Exact'
  <1>. DEFINE r == job.removing
  <1>1. Acting /\ r \in [eq : Eq, type : Type, ok : BOOLEAN] /\ r.ok /\ r # NoRemoval
    BY ActingType DEF NoteRemoval, Acting, ExactInv, SteadyInv, Steady
  <1>2. job'.kind = job.kind /\ job'.removing = NoRemoval
    BY <1>1, HandledType DEF NoteRemoval, ExactInv, SteadyInv
  <1>3. pending' = Nothing
    BY <1>1 DEF NoteRemoval, ExactInv, Exact, Nothing
  <1>4. \A e \in Eq : e # r.eq => publications'[e] = publications[e]
    BY DEF NoteRemoval, ExactInv, SteadyInv, Typed, TypeOK
  <1>5. \A e \in Eq : Removable(e) \subseteq Removable(e)'
    BY <1>1, <1>2, <1>4 DEF Removable, Acting
  <1>6. link = "up" /\ job'.kind # "idle"
    BY <1>1, <1>2 DEF ExactInv, Exact, Acting, Idle
  <1>7. UNCHANGED <<mqtt, boot, disk, known, republication>>
    BY DEF NoteRemoval
  <1>. QED  BY <1>3, <1>5, <1>6, <1>7 DEF ExactInv, Exact, Idle, mqtt, republication

LEMMA ExactFinish ==
  ASSUME ExactInv, FinishAction PROVE Exact'
  <1>1. Acting /\ job.kind # "sync" /\ job.removing \in {NoRemoval} \cup
          [eq : Eq, type : Type, ok : BOOLEAN]
    BY ActingType DEF FinishAction, Acting, ExactInv, SteadyInv, ActionJobs
  <1>2. /\ job' = Idle /\ \A e \in Eq : disk'[e] = Live(publications[e])
        /\ UNCHANGED <<mqtt, publications, pending, boot, known, republication>>
    BY DEF FinishAction, Saved
  <1>3. \A e \in Eq : Removable(e) \subseteq Removable(e)'
    BY <1>1, <1>2 DEF Removable, Acting, Idle
  <1>. QED  BY <1>2, <1>3 DEF ExactInv, Exact, mqtt, republication

\* Alone, a batch publishes again what is already there.
LEMMA ExactRepublish ==
  ASSUME Peaceful, ExactInv, IsConnected, NEW emptied, Republish(emptied),
         UNCHANGED <<publications, boot, disk, known, job>>, pending' = Nothing
  PROVE  Exact'
  <1>. DEFINE entries == Entries(Saved(publications))
  <1>1. /\ Write(emptied, entries) /\ batch' = (batch \cup entries) \ entries
        /\ job = Idle
    BY PeacefulFacts DEF Republish
  <1>2. /\ accepted' \subseteq accepted \cup entries /\ retained' = accepted'
        /\ batch' = {} /\ link' = link
    BY <1>1 DEF Write, HasClient, IsConnected, ExactInv, Exact
  <1>3. ASSUME NEW e \in Eq, NEW t \in Type, <<e, t>> \in entries
        PROVE  t \in Removable(e)
    <2>1. t \in Live(publications[e])
      BY <1>3 DEF Entries, Saved, Topics
    <2>. QED  BY <1>1, <2>1 DEF ExactInv, Exact, Removable, Idle, Acting
  <1>4. \A e \in Eq : Removable(e)' = Removable(e)
    BY DEF Removable, Acting
  <1>. QED  BY <1>1, <1>2, <1>3, <1>4 DEF ExactInv, Exact

LEMMA ExactBatch ==
  ASSUME Peaceful, ExactInv, ReconnectBatch \/ BirthBatch \/ \E x \in batch : ContinueBatch(x)
  PROVE  Exact'
  <1>1. UNCHANGED <<publications, boot, disk, known, job>> /\ batch = {}
    BY DEF ReconnectBatch, BirthBatch, ContinueBatch, ExactInv, Exact
  <1>2. pending' = Nothing
    BY DEF ReconnectBatch, BirthBatch, ContinueBatch, ExactInv, Exact
  <1>3. CASE \E emptied : IsConnected /\ Republish(emptied)
    BY <1>1, <1>2, <1>3, ExactRepublish
  <1>4. CASE UNCHANGED <<mqtt, batch>>
    <2>1. \A e \in Eq : Removable(e)' = Removable(e)
      BY <1>1 DEF Removable, Acting
    <2>. QED  BY <1>1, <1>2, <1>4, <2>1 DEF ExactInv, Exact, mqtt
  <1>. QED  BY <1>1, <1>3, <1>4 DEF ReconnectBatch, BirthBatch

LEMMA ExactRestart ==
  ASSUME Peaceful, ExactInv, Restart PROVE Exact'
  <1>1. job = Idle /\ disk' = disk /\ boot' = disk
    BY PeacefulFacts DEF Restart
  <1>2. /\ accepted' = retained /\ retained' = retained /\ pending' = Nothing /\ batch' = {}
        /\ job' = Idle /\ publications' = [e \in Eq |-> NoDecision]
    BY DEF Restart
  <1>3. \A e \in Eq : Live(publications'[e]) = {}
    BY <1>2 DEF Live, NoDecision
  <1>4. \A e \in Eq : Removable(e) \subseteq disk[e] /\ Removable(e)' = disk[e]
    BY <1>1, <1>2, <1>3 DEF Removable, Idle, Acting
  <1>. QED  BY <1>1, <1>2, <1>3, <1>4 DEF ExactInv, Exact

LEMMA ExactNext ==
  ASSUME Peaceful, ExactInv, [Next]_vars PROVE ExactInv'
  <1>1. SteadyInv'
    BY PeacefulFacts, SteadyNext DEF ExactInv
  <1>2. Exact'
    <2>1. CASE UNCHANGED vars
      <3>1. \A e \in Eq : Removable(e)' = Removable(e)
        BY <2>1 DEF vars, Removable, Acting
      <3>. QED  BY <2>1, <3>1 DEF vars, ExactInv, Exact
    <2>2. CASE MqttConnect \/ Connected \/ Disconnected
      <3>1. /\ UNCHANGED <<publications, pending, boot, disk, known, job, batch>>
            /\ accepted' = accepted /\ retained' = accepted /\ link # "up"
        BY <2>2, PeacefulFacts
        DEF MqttConnect, Connected, Disconnected, republication, ExactInv, Exact
      <3>2. \A e \in Eq : Removable(e)' = Removable(e)
        BY <3>1 DEF Removable, Acting
      <3>. QED  BY <3>1, <3>2 DEF ExactInv, Exact
    <2>3. ASSUME NEW v \in [Eq -> Verdict], Sync(v) PROVE Exact'
      BY <2>3, ExactSync
    <2>4. CASE ResumeSync
      BY <2>4, ExactResume
    <2>5. ASSUME NEW kind \in {"publier", "supprimer"}, NEW selection,
                 StartAction(kind, selection)
          PROVE  Exact'
      BY <2>5, ExactStart
    <2>6. ASSUME NEW e \in Eq, Skip(e) \/ SendRemoval(e) PROVE Exact'
      BY <2>6, ExactSkip, ExactSend
    <2>7. ASSUME NEW e \in Eq, NEW v \in Evaluation, PublishOne(e, v) PROVE Exact'
      BY <2>7, ExactPublish
    <2>8. CASE NoteRemoval
      BY <2>8, ExactNote
    <2>9. CASE FinishAction
      BY <2>9, ExactFinish
    <2>10. CASE ReconnectBatch \/ BirthBatch \/ \E x \in batch : ContinueBatch(x)
      BY <2>10, ExactBatch
    <2>11. CASE Restart
      BY <2>11, ExactRestart
    <2>. QED  BY <2>1, <2>2, <2>3, <2>4, <2>5, <2>6, <2>7, <2>8, <2>9, <2>10, <2>11
              DEF ExactInv, SteadyInv, Next
  <1>. QED  BY <1>1, <1>2 DEF ExactInv

\* Restarts between two handlers and births of Home Assistant leave no ghost, whatever
\* disappears, changes type or leaves the scope while the daemon is down: the cache of
\* the previous run says at least what the broker retains.
THEOREM RestartsLeaveNoGhost ==
  ASSUME Feature \subseteq {"restart", "birth"} PROVE Spec => []NoGhost
  <1>. Peaceful
    BY DEF Peaceful
  <1>1. Init => ExactInv
    <2>. SUFFICES ASSUME Init PROVE ExactInv
      OBVIOUS
    <2>1. SteadyInv
      BY InitTyped DEF Init, SteadyInv, Steady, Nothing, NoDecision, Acting, Idle
    <2>2. Exact
      BY DEF Init, Exact, Live, NoDecision
    <2>. QED  BY <2>1, <2>2 DEF ExactInv
  <1>2. ExactInv /\ [Next]_vars => ExactInv'
    BY ExactNext
  <1>3. ExactInv => NoGhost
    BY ExactIsAnswered
  <1>. QED  BY <1>1, <1>2, <1>3, PTL DEF Spec

----------------------------------------------------------------------------
(* Nothing goes missing, whatever may happen around the handlers.          *)

\* The entity of an equipment whose removal was sent and not noted yet.
Removing(e) == Acting /\ job.removing # NoRemoval /\ job.removing.eq = e
Taken(e) == Removing(e) /\ job.removing.ok

\* A connected client has delivered what it accepted.
Delivered == link = "up" => retained = accepted

\* What a suspended sync is about to say published has reached the broker, and no removal
\* is left to take it back; no republication is owed, even if the client is replaced.
SyncIsSure ==
  job.kind = "sync" =>
    /\ pending = Nothing
    /\ \A e \in Eq : \A t \in Live(job.decisions[e]) : <<e, t>> \in accepted \cap retained

\* An equipment stays to be handled until its removal is noted.
RemovalIsTodo == \A e \in Eq : Removing(e) => e \in job.todo

\* Connected, with no republication to start: what the decisions say published was accepted
\* by the client, or waits in a batch, or has just been taken away by a removal which the
\* action has still to note.
Awaited(e, t) == <<e, t>> \in accepted \cup batch \/ Taken(e)
AllAwaited ==
  link = "up" /\ ~posted /\ job.kind # "sync" =>
    \A e \in Eq : \A t \in Live(publications[e]) : Awaited(e, t)

Complete == Delivered /\ SyncIsSure /\ RemovalIsTodo /\ AllAwaited
CompleteInv == Typed /\ Complete

\* A connected client delivers at once what it accepts; otherwise nothing is owed.
LEMMA WriteConnected ==
  ASSUME NEW emptied, NEW published, Write(emptied, published)
  PROVE  /\ link' = link
         /\ link = "up" => /\ accepted' = (accepted \ emptied) \cup published
                           /\ retained' = accepted'
  BY DEF Write, HasClient, IsConnected

LEMMA AtRest ==
  ASSUME job' = Idle PROVE SyncIsSure' /\ RemovalIsTodo' /\ \A e : ~Taken(e)'
  BY DEF SyncIsSure, RemovalIsTodo, Taken, Removing, Acting, Idle

LEMMA ActingIsNoSync ==
  ASSUME Acting' PROVE SyncIsSure'
  BY DEF SyncIsSure, Acting

LEMMA CompleteBridge ==
  ASSUME CompleteInv, MqttConnect \/ Connected \/ Disconnected PROVE Complete'
  <1>1. UNCHANGED <<publications, pending, job, batch>>
    BY DEF MqttConnect, Connected, Disconnected, republication
  <1>2. RemovalIsTodo'
    BY <1>1 DEF CompleteInv, Complete, RemovalIsTodo, Removing, Acting
  <1>3. Delivered' /\ AllAwaited'
    BY DEF MqttConnect, Connected, Disconnected, Delivered, AllAwaited
  <1>4. SyncIsSure'
    <2>1. accepted \cap retained \subseteq accepted' \cap retained'
      BY DEF MqttConnect, Connected, Disconnected
    <2>. QED  BY <1>1, <2>1 DEF CompleteInv, Complete, SyncIsSure
  <1>. QED  BY <1>2, <1>3, <1>4 DEF Complete

LEMMA CompleteSync ==
  ASSUME CompleteInv, NEW v \in [Eq -> Verdict], Sync(v) PROVE Complete'
  <1>. DEFINE decisions == [e \in Eq |-> Decision(e, v[e])]
              emptied == UNION {Topics(e, Emptied(e, v[e])) : e \in Eq}
              published == UNION {Topics(e, Published(v[e])) : e \in Eq}
  <1>1. Write(emptied, published)
    BY DEF Sync
  <1>2. Delivered'
    BY <1>1, WriteConnected DEF Delivered
  <1>3. ASSUME link = "up", NEW e \in Eq, NEW t \in Live(decisions[e])
        PROVE  <<e, t>> \in accepted' /\ <<e, t>> \in retained'
    <2>1. v[e].kind = "accepted" /\ t = v[e].type
      BY DecisionTypes DEF CompleteInv, Typed
    <2>2. <<e, t>> \in Topics(e, Published(v[e]))
      BY <1>3, <2>1 DEF Published, IsConnected, Topics
    <2>. QED  BY <1>1, <1>3, <2>2, WriteConnected
  <1>4. CASE CommitSync(decisions, v)
    <2>1. publications' = decisions /\ job' = Idle
      BY <1>4 DEF CommitSync
    <2>2. AllAwaited'
      BY <1>1, <1>3, <2>1, WriteConnected DEF AllAwaited, Awaited
    <2>. QED  BY <1>2, <2>1, <2>2, AtRest DEF Complete
  <1>5. CASE ~CommitSync(decisions, v)
    <2>1. link = "up" /\ job' = [kind |-> "sync", decisions |-> decisions, verdict |-> v]
      BY <1>5 DEF Sync, IsConnected
    <2>2. pending' = Nothing
      BY <2>1 DEF Sync, Deferred, Nothing, IsConnected
    <2>3. job'.kind = "sync" /\ job'.decisions = decisions
      BY <2>1
    <2>4. SyncIsSure'
      BY <1>3, <2>1, <2>2, <2>3 DEF SyncIsSure
    <2>5. RemovalIsTodo' /\ AllAwaited'
      BY <2>3 DEF RemovalIsTodo, Removing, Acting, AllAwaited
    <2>. QED  BY <1>2, <2>4, <2>5 DEF Complete
  <1>. QED  BY <1>4, <1>5

LEMMA CompleteResume ==
  ASSUME CompleteInv, ResumeSync PROVE Complete'
  <1>1. /\ job.kind = "sync" /\ publications' = job.decisions /\ job' = Idle
        /\ UNCHANGED <<mqtt, pending, republication>>
    BY DEF ResumeSync, CommitSync
  <1>2. Delivered' /\ AllAwaited'
    BY <1>1 DEF CompleteInv, Complete, SyncIsSure, Delivered, AllAwaited, Awaited, mqtt
  <1>. QED  BY <1>1, <1>2, AtRest DEF Complete

\* A step of an action that takes nothing away and leaves no removal to note.
LEMMA CompleteHandled ==
  ASSUME CompleteInv, Acting \/ job = Idle, Acting', job'.removing = NoRemoval,
         UNCHANGED <<mqtt, republication>>,
         \A e \in Eq : \A t \in Live(publications'[e]) :
            t \in Live(publications[e]) /\ ~Taken(e)
  PROVE  Complete'
  <1>1. Delivered' /\ RemovalIsTodo' /\ SyncIsSure'
    BY ActingIsNoSync DEF CompleteInv, Complete, Delivered, RemovalIsTodo, Removing, mqtt
  <1>2. job.kind # "sync"
    BY DEF Acting, Idle
  <1>3. AllAwaited'
    BY <1>2 DEF CompleteInv, Complete, AllAwaited, Awaited, mqtt, republication
  <1>. QED  BY <1>1, <1>3 DEF Complete

LEMMA CompleteStart ==
  ASSUME CompleteInv, NEW kind \in {"publier", "supprimer"}, NEW selection,
         StartAction(kind, selection)
  PROVE  Complete'
  <1>1. /\ job = Idle /\ job'.kind = kind /\ job'.removing = NoRemoval
        /\ UNCHANGED <<mqtt, publications, republication>>
    BY DEF StartAction
  <1>2. \A e : ~Taken(e)
    BY <1>1 DEF Taken, Removing, Acting, Idle
  <1>. QED  BY <1>1, <1>2, CompleteHandled DEF Acting

LEMMA CompleteSkip ==
  ASSUME CompleteInv, NEW e \in Eq, Skip(e) PROVE Complete'
  <1>1. Acting /\ job.removing = NoRemoval /\ Handled(e)
        /\ UNCHANGED <<mqtt, publications, republication>>
    BY DEF Skip, AtEquipment, Acting
  <1>2. Acting' /\ job'.removing = NoRemoval
    BY <1>1, HandledType DEF CompleteInv, Acting
  <1>3. \A d : ~Taken(d)
    BY <1>1 DEF Taken, Removing
  <1>. QED  BY <1>1, <1>2, <1>3, CompleteHandled

LEMMA CompletePublish ==
  ASSUME CompleteInv, NEW e \in Eq, NEW v \in Evaluation, PublishOne(e, v) PROVE Complete'
  <1>1. /\ Acting /\ job.removing = NoRemoval /\ Handled(e) /\ v \in Verdict
        /\ Write(Topics(e, Emptied(e, v)), Topics(e, Published(v)))
        /\ publications' = [publications EXCEPT ![e] = Decision(e, v)]
        /\ UNCHANGED republication
    BY EvaluationTypes DEF PublishOne, AtEquipment, Acting
  <1>2. Acting' /\ job'.removing = NoRemoval /\ job.kind # "sync"
    BY <1>1, HandledType DEF CompleteInv, Acting
  <1>3. Delivered' /\ SyncIsSure' /\ RemovalIsTodo'
    BY <1>1, <1>2, WriteConnected, ActingIsNoSync DEF Delivered, RemovalIsTodo, Removing
  <1>4. AllAwaited'
    <2>. SUFFICES ASSUME link = "up", ~posted, NEW d \in Eq, NEW t \in Live(publications'[d])
                  PROVE  <<d, t>> \in accepted' \cup batch'
      BY <1>1, <1>2, WriteConnected DEF AllAwaited, Awaited, republication
    <2>1. accepted' = (accepted \ Topics(e, Emptied(e, v))) \cup Topics(e, Published(v))
          /\ batch' = batch
      BY <1>1, WriteConnected DEF republication
    <2>2. CASE d = e
      <3>1. t \in Live(Decision(e, v))
        BY <1>1, <2>2 DEF CompleteInv, Typed, TypeOK
      <3>2. v.kind = "accepted" /\ t = v.type
        BY <1>1, <3>1, DecisionTypes DEF CompleteInv, Typed
      <3>3. <<e, t>> \in Topics(e, Published(v))
        BY <3>2 DEF Published, IsConnected, Topics
      <3>. QED  BY <2>1, <2>2, <3>3
    <2>3. CASE d # e
      <3>1. t \in Live(publications[d]) /\ ~Taken(d)
        BY <1>1, <2>3 DEF CompleteInv, Typed, TypeOK, Taken, Removing
      <3>2. <<d, t>> \in accepted \cup batch
        BY <1>2, <3>1 DEF CompleteInv, Complete, AllAwaited, Awaited
      <3>. QED  BY <2>1, <2>3, <3>2 DEF Topics
    <2>. QED  BY <2>2, <2>3
  <1>. QED  BY <1>3, <1>4 DEF Complete

LEMMA CompleteSend ==
  ASSUME CompleteInv, NEW e \in Eq, SendRemoval(e) PROVE Complete'
  <1>. DEFINE type == IF Known(e) THEN publications[e].type ELSE DefaultType
  <1>1. /\ Acting /\ job \in ActionJobs /\ job.removing = NoRemoval /\ e \in job.todo
        /\ Write(Topics(e, {type}), {})
        /\ UNCHANGED <<publications, republication>>
    BY ActingType DEF SendRemoval, AtEquipment, Acting, CompleteInv
  <1>2. /\ job'.kind = job.kind /\ job'.todo = job.todo
        /\ job'.removing = [eq |-> e, type |-> type, ok |-> HasClient]
    BY <1>1 DEF SendRemoval, ActionJobs
  <1>3. Acting' /\ job'.removing.eq = e /\ (job'.removing.ok <=> HasClient)
        /\ job'.removing # NoRemoval
    <2>1. "type" \in DOMAIN job'.removing /\ "type" \notin DOMAIN NoRemoval
      BY <1>2 DEF NoRemoval
    <2>. QED  BY <1>1, <1>2, <2>1 DEF Acting
  <1>4. Delivered' /\ SyncIsSure' /\ RemovalIsTodo'
    BY <1>1, <1>2, <1>3, WriteConnected, ActingIsNoSync DEF Delivered, RemovalIsTodo, Removing
  <1>5. AllAwaited'
    <2>. SUFFICES ASSUME link = "up", ~posted, NEW d \in Eq, NEW t \in Live(publications[d])
                  PROVE  Awaited(d, t)'
      BY <1>1, WriteConnected DEF AllAwaited, republication
    <2>1. CASE d = e
      BY <1>3, <2>1 DEF Awaited, Taken, Removing, HasClient
    <2>2. CASE d # e
      <3>1. <<d, t>> \in accepted \cup batch
        BY <1>1 DEF CompleteInv, Complete, AllAwaited, Awaited, Taken, Removing, Acting
      <3>2. accepted' = accepted \ Topics(e, {type}) /\ batch' = batch
        BY <1>1, WriteConnected DEF republication
      <3>. QED  BY <2>2, <3>1, <3>2 DEF Awaited, Topics
    <2>. QED  BY <2>1, <2>2
  <1>. QED  BY <1>4, <1>5 DEF Complete

LEMMA CompleteNote ==
  ASSUME CompleteInv, NoteRemoval PROVE Complete'
  <1>. DEFINE r == job.removing
  <1>1. /\ Acting /\ Handled(r.eq) /\ r # NoRemoval
        /\ r \in [eq : Eq, type : Type, ok : BOOLEAN]
        /\ UNCHANGED <<mqtt, republication>>
        /\ publications' = [publications EXCEPT ![r.eq] =
                              IF r.ok /\ Known(r.eq) THEN Refused(r.type) ELSE @]
    BY ActingType DEF NoteRemoval, Acting, CompleteInv
  <1>2. Acting' /\ job'.removing = NoRemoval
    BY <1>1, HandledType DEF CompleteInv, Acting
  <1>3. ASSUME NEW e \in Eq, NEW t \in Live(publications'[e])
        PROVE  t \in Live(publications[e]) /\ ~Taken(e)
    <2>1. CASE e # r.eq
      BY <1>1, <1>3, <2>1 DEF CompleteInv, Typed, TypeOK, Taken, Removing
    <2>2. CASE e = r.eq
      <3>1. publications'[e] = IF r.ok /\ Known(e) THEN Refused(r.type) ELSE publications[e]
        BY <1>1, <2>2 DEF CompleteInv, Typed, TypeOK
      <3>2. CASE r.ok
        <4>1. publications'[e] \in {Refused(r.type), NoDecision}
          BY <3>1, <3>2 DEF Known
        <4>2. Live(publications'[e]) = {}
          BY <4>1 DEF Live, Refused, NoDecision
        <4>. QED  BY <1>3, <4>2
      <3>3. CASE ~r.ok
        BY <1>3, <3>1, <3>3 DEF Taken
      <3>. QED  BY <3>2, <3>3
    <2>. QED  BY <2>1, <2>2
  <1>. QED  BY <1>1, <1>2, <1>3, CompleteHandled

LEMMA CompleteFinish ==
  ASSUME CompleteInv, FinishAction PROVE Complete'
  <1>1. /\ job.kind # "sync" /\ job.todo = {} /\ job' = Idle
        /\ UNCHANGED <<mqtt, publications, republication>>
    BY DEF FinishAction
  <1>2. \A e \in Eq : ~Taken(e)
    BY <1>1 DEF CompleteInv, Complete, RemovalIsTodo, Taken
  <1>3. Delivered' /\ AllAwaited'
    BY <1>1, <1>2 DEF CompleteInv, Complete, Delivered, AllAwaited, Awaited, mqtt, republication
  <1>. QED  BY <1>1, <1>3, AtRest DEF Complete

\* A batch takes up every entity the decisions say published.
LEMMA CompleteRepublish ==
  ASSUME CompleteInv, IsConnected, NEW emptied, Republish(emptied),
         job.kind = "sync" => emptied = {} /\ pending' = pending,
         UNCHANGED <<publications, job>>
  PROVE  Complete'
  <1>. DEFINE entries == Entries(Saved(publications))
  <1>1. PICK first : Write(emptied, first) /\ batch' = (batch \cup entries) \ first
    BY DEF Republish
  <1>2. /\ link = "up" /\ link' = link /\ retained' = accepted' /\ retained = accepted
        /\ accepted' = (accepted \ emptied) \cup first
    BY <1>1, WriteConnected DEF IsConnected, CompleteInv, Complete, Delivered
  <1>3. RemovalIsTodo' /\ Delivered'
    BY <1>2 DEF CompleteInv, Complete, Delivered, RemovalIsTodo, Removing, Acting
  <1>4. SyncIsSure'
    BY <1>2 DEF CompleteInv, Complete, SyncIsSure
  <1>5. AllAwaited'
    <2>. SUFFICES ASSUME NEW e \in Eq, NEW t \in Live(publications[e])
                  PROVE  <<e, t>> \in accepted' \cup batch'
      BY DEF AllAwaited, Awaited
    <2>1. <<e, t>> \in entries
      BY DEF Entries, Saved, Topics
    <2>. QED  BY <1>1, <1>2, <2>1
  <1>. QED  BY <1>3, <1>4, <1>5 DEF Complete

LEMMA CompleteReconnect ==
  ASSUME CompleteInv, ReconnectBatch PROVE Complete'
  <1>1. UNCHANGED <<publications, job>>
    BY DEF ReconnectBatch
  <1>2. CASE IsConnected /\ ~NothingToRepublish
    <2>1. Republish(Entries(pending)) /\ pending' = Nothing
      BY <1>2 DEF ReconnectBatch
    <2>2. job.kind = "sync" => Entries(pending) = {} /\ pending' = pending
      BY <2>1 DEF CompleteInv, Complete, SyncIsSure, Entries, Topics, Nothing
    <2>. QED  BY <1>1, <1>2, <2>1, <2>2, CompleteRepublish
  <1>3. CASE ~(IsConnected /\ ~NothingToRepublish)
    <2>1. UNCHANGED <<mqtt, pending, batch>>
      BY <1>3 DEF ReconnectBatch
    <2>2. Delivered' /\ SyncIsSure' /\ RemovalIsTodo'
      BY <1>1, <2>1
      DEF CompleteInv, Complete, Delivered, SyncIsSure, RemovalIsTodo, Removing, Acting, mqtt
    <2>3. AllAwaited'
      <3>1. CASE link # "up"
        BY <2>1, <3>1 DEF AllAwaited, mqtt
      <3>2. CASE \A e \in Eq : Live(publications[e]) = {}
        BY <1>1, <3>2 DEF AllAwaited
      <3>3. NothingToRepublish => \A e \in Eq : Live(publications[e]) = {}
        <4>1. ASSUME NEW e \in Eq, NothingToRepublish PROVE Live(publications[e]) = {}
          <5>1. Saved(publications)[e] = {}
            BY <4>1 DEF NothingToRepublish, Nothing
          <5>. QED  BY <5>1 DEF Saved
        <4>. QED  BY <4>1
      <3>. QED  BY <1>3, <3>1, <3>2, <3>3 DEF IsConnected
    <2>. QED  BY <2>2, <2>3 DEF Complete
  <1>. QED  BY <1>2, <1>3

LEMMA CompleteContinue ==
  ASSUME CompleteInv, NEW x \in batch, ContinueBatch(x) PROVE Complete'
  <1>1. /\ Write({}, {x}) /\ batch' = batch \ {x}
        /\ UNCHANGED <<publications, pending, job, posted>>
    BY DEF ContinueBatch
  <1>2. Delivered' /\ RemovalIsTodo'
    BY <1>1, WriteConnected
    DEF CompleteInv, Complete, Delivered, RemovalIsTodo, Removing, Acting
  <1>3. accepted \subseteq accepted' /\ retained \cap accepted \subseteq retained'
        /\ (link = "up" => x \in accepted')
    BY <1>1 DEF Write, HasClient, IsConnected
  <1>4. SyncIsSure'
    BY <1>1, <1>3 DEF CompleteInv, Complete, SyncIsSure
  <1>5. AllAwaited'
    <2>1. link' = link /\ \A e : Taken(e)' <=> Taken(e)
      BY <1>1, WriteConnected DEF Taken, Removing, Acting
    <2>. QED  BY <1>1, <1>3, <2>1 DEF CompleteInv, Complete, AllAwaited, Awaited
  <1>. QED  BY <1>2, <1>4, <1>5 DEF Complete

LEMMA CompleteNext == CompleteInv /\ [Next]_vars => CompleteInv'
  <1>. SUFFICES ASSUME CompleteInv, [Next]_vars PROVE Complete'
    BY NextTyped DEF CompleteInv
  <1>1. CASE UNCHANGED vars
    <2>1. Delivered' /\ SyncIsSure' /\ RemovalIsTodo'
      BY <1>1 DEF vars, CompleteInv, Complete, Delivered, SyncIsSure, RemovalIsTodo, Removing,
                  Acting
    <2>2. AllAwaited'
      BY <1>1 DEF vars, CompleteInv, Complete, AllAwaited, Awaited, Taken, Removing, Acting
    <2>. QED  BY <2>1, <2>2 DEF Complete
  <1>2. CASE MqttConnect \/ Connected \/ Disconnected
    BY <1>2, CompleteBridge
  <1>3. ASSUME NEW v \in [Eq -> Verdict], Sync(v) PROVE Complete'
    BY <1>3, CompleteSync
  <1>4. CASE ResumeSync
    BY <1>4, CompleteResume
  <1>5. ASSUME NEW kind \in {"publier", "supprimer"}, NEW selection,
               StartAction(kind, selection)
        PROVE  Complete'
    BY <1>5, CompleteStart
  <1>6. ASSUME NEW e \in Eq, Skip(e) \/ SendRemoval(e) PROVE Complete'
    BY <1>6, CompleteSkip, CompleteSend
  <1>7. ASSUME NEW e \in Eq, NEW v \in Evaluation, PublishOne(e, v) PROVE Complete'
    BY <1>7, CompletePublish
  <1>8. CASE NoteRemoval \/ FinishAction
    BY <1>8, CompleteNote, CompleteFinish
  <1>9. CASE ReconnectBatch
    BY <1>9, CompleteReconnect
  <1>10. CASE BirthBatch
    BY <1>10, CompleteRepublish DEF BirthBatch
  <1>11. ASSUME NEW x \in batch, ContinueBatch(x) PROVE Complete'
    BY <1>11, CompleteContinue
  <1>12. CASE Restart
    <2>1. job' = Idle /\ link' = "none"
      BY <1>12 DEF Restart
    <2>. QED  BY <2>1, AtRest DEF Complete, Delivered, AllAwaited
  <1>. QED  BY <1>1, <1>2, <1>3, <1>4, <1>5, <1>6, <1>7, <1>8, <1>9, <1>10, <1>11, <1>12
            DEF Next

\* Whatever happens (losses, refusals, births, overlapping batches, mqtt_connect on a running
\* bridge, kills), at rest and connected every entity the daemon believes published is on the
\* broker.
THEOREM NothingGoesMissing == Spec => []NoMissing
  <1>1. Init => CompleteInv
    <2>. SUFFICES ASSUME Init PROVE CompleteInv
      OBVIOUS
    <2>1. Delivered /\ SyncIsSure /\ RemovalIsTodo /\ AllAwaited
      BY DEF Init, Delivered, SyncIsSure, RemovalIsTodo, AllAwaited, Removing, Acting, Idle
    <2>. QED  BY <2>1, InitTyped DEF CompleteInv, Complete
  <1>2. CompleteInv => NoMissing
    <2>. SUFFICES ASSUME CompleteInv, Settled, NEW x \in Entries(Saved(publications))
                  PROVE  x \in retained
      BY DEF NoMissing
    <2>1. PICK e \in Eq : x \in Topics(e, Live(publications[e]))
      BY DEF Entries, Saved
    <2>2. PICK t \in Live(publications[e]) : x = <<e, t>>
      BY <2>1 DEF Topics
    <2>3. Awaited(e, t) /\ ~Taken(e) /\ batch = {} /\ retained = accepted
      BY DEF CompleteInv, Complete, Delivered, AllAwaited, Settled, IsConnected, Taken,
             Removing, Acting, Idle
    <2>. QED  BY <2>2, <2>3 DEF Awaited
  <1>. QED  BY <1>1, <1>2, CompleteNext, PTL DEF Spec

----------------------------------------------------------------------------
(* Without a restart no ghost is left, as long as what is deferred fits in *)
(* the one type that is remembered.                                        *)

\* Losses of the broker when the equipments keep their type, which is the one assumed when
\* none is known; no loss otherwise.
Rememberable ==
  /\ Feature \subseteq {"offline", "refusal", "birth"}
  /\ "offline" \in Feature => Type = {DefaultType}

LEMMA RememberableFacts ==
  ASSUME Rememberable
  PROVE  /\ "overlap" \notin Feature /\ "reconfigure" \notin Feature
         /\ "restart" \notin Feature /\ "crash" \notin Feature
  BY DEF Rememberable

\* What the daemon answers for by its decision or by a deferred removal.
Answer(e) ==
  IF job.kind = "sync" THEN Live(job.decisions[e]) ELSE Live(publications[e]) \cup pending[e]
PublishedIsWanted(d) == d.published => d.should

Answered ==
  /\ boot = Nothing /\ batch = {}
  /\ \A e \in Eq : PublishedIsWanted(publications[e])
  /\ job.kind = "sync" => \A e \in Eq : PublishedIsWanted(job.decisions[e])
  /\ \A e \in Eq : \A t \in Type : <<e, t>> \in accepted => t \in Answer(e)
  /\ \A e \in Eq : Removing(e) => \A t \in Type : <<e, t>> \notin accepted

\* Nothing is deferred, and nothing runs without the broker, if it is never lost.
Online == "offline" \notin Feature => pending = Nothing /\ (link # "up" => job = Idle)

\* The first client finds nothing that the daemon has not published.
BeforeFirstClient == link = "none" => retained = accepted

AnsweredInv == SteadyInv /\ Answered /\ Online /\ BeforeFirstClient

LEMMA AnsweredIsClaimed == AnsweredInv => NoGhost
  <1>. SUFFICES ASSUME AnsweredInv, NEW x \in accepted
                PROVE  x \in UNION {Topics(e, Claimed(e)) : e \in Eq}
    BY DEF NoGhost
  <1>1. PICK e \in Eq, t \in Type : x = <<e, t>>
    BY DEF AnsweredInv, SteadyInv, Typed, TypeOK, Topic
  <1>2. t \in Answer(e)
    BY <1>1 DEF AnsweredInv, Answered
  <1>3. t \in Claimed(e)
    BY <1>2 DEF Answer, Claimed, Live, Wanted
  <1>. QED  BY <1>1, <1>3 DEF Topics

LEMMA WantedDecision ==
  ASSUME TypeOK, NEW e \in Eq, NEW v \in Verdict PROVE PublishedIsWanted(Decision(e, v))
  BY DEF PublishedIsWanted, Decision, NoDecision, Refused

\* What an equipment had on the broker is emptied, published or deferred.
LEMMA AnswerKept ==
  ASSUME Rememberable, AnsweredInv, IsConnected \/ "offline" \in Feature,
         NEW e \in Eq, NEW v \in Verdict,
         NEW t \in Type, t \in Live(publications[e]) \cup pending[e], t \notin Emptied(e, v)
  PROVE  t \in Live(Decision(e, v)) \cup Deferred(e, v)
  <1>1. v.kind \in {"gone", "out", "accepted", "refused"} /\ boot[e] = {}
    BY VerdictTypes DEF AnsweredInv, Answered, Nothing
  <1>2. /\ Live(Decision(e, v)) = IF v.kind = "accepted" /\
                                      (IsConnected \/ publications[e].published)
                                    THEN {v.type} ELSE {}
        /\ publications[e].should => publications[e].type \in Type
        /\ pending[e] \in AtMostOne
    BY DecisionTypes, LiveTypes DEF AnsweredInv, SteadyInv, Typed, TypeOK
  <1>3. t \in Live(publications[e]) =>
          publications[e].published /\ publications[e].should /\ publications[e].type = t
    BY DEF AnsweredInv, Answered, PublishedIsWanted, Live
  <1>4. CASE IsConnected
    <2>1. t \notin pending[e] /\ t \in Live(publications[e]) /\ t \notin Withdrawn(e, v)
          /\ t \notin Retyped(e, v)
      BY <1>4 DEF Emptied
    <2>2. v.kind = "accepted"
      BY <1>1, <1>3, <2>1 DEF Withdrawn
    <2>. QED  BY <1>2, <1>4, <2>1, <2>2 DEF Retyped
  <1>5. CASE ~IsConnected
    <2>1. Type = {t}
      BY <1>5 DEF Rememberable
    <2>2. v.kind # "gone" => v.type = t
      BY <2>1, VerdictTypes
    <2>3. Retyped(e, v) = {}
      <3>1. Live(publications[e]) \subseteq {t}
        BY <2>1, LiveTypes DEF AnsweredInv, SteadyInv, Typed, TypeOK, AtMostOne
      <3>. QED  BY <1>1, <2>2, <3>1 DEF Retyped
    <2>4. CASE v.kind = "accepted"
      <3>1. Deferred(e, v) = pending[e]
        BY <1>5, <2>3, <2>4 DEF Deferred, Withdrawn
      <3>. QED  BY <1>2, <1>3, <2>2, <2>4, <3>1
    <2>5. CASE v.kind # "accepted"
      <3>1. Withdrawn(e, v) \in {{}, {t}}
        BY <1>1, <1>2, <2>1, LiveTypes
        DEF Withdrawn, AnsweredInv, SteadyInv, Typed, TypeOK, AtMostOne
      <3>2. t \in Live(publications[e]) => t \in Withdrawn(e, v)
        BY <1>1, <1>3, <2>5 DEF Withdrawn
      <3>. QED  BY <1>5, <2>3, <3>1, <3>2 DEF Deferred
    <2>. QED  BY <2>4, <2>5
  <1>. QED  BY <1>4, <1>5

LEMMA AnsweredSync ==
  ASSUME Rememberable, AnsweredInv, NEW v \in [Eq -> Verdict], Sync(v)
  PROVE  Answered' /\ Online'
  <1>. DEFINE decisions == [e \in Eq |-> Decision(e, v[e])]
              emptied == UNION {Topics(e, Emptied(e, v[e])) : e \in Eq}
              published == UNION {Topics(e, Published(v[e])) : e \in Eq}
  <1>1. /\ job = Idle /\ (IsConnected \/ "offline" \in Feature) /\ batch' = batch
        /\ Write(emptied, published) /\ boot = Nothing
        /\ pending' = [e \in Eq |-> Deferred(e, v[e])]
    BY DEF Sync, republication, AnsweredInv, Answered
  <1>2. /\ link' = link /\ accepted' \subseteq accepted \cup published
        /\ (IsConnected => accepted' = (accepted \ emptied) \cup published)
    BY <1>1 DEF Write, HasClient, IsConnected
  <1>3. IsConnected => pending' = Nothing
    BY <1>1 DEF Deferred, Nothing
  <1>4. \A e \in Eq : PublishedIsWanted(decisions[e])
    BY WantedDecision DEF AnsweredInv, SteadyInv, Typed
  <1>5. ASSUME NEW e \in Eq, NEW t \in Type, <<e, t>> \in accepted'
        PROVE  t \in Live(decisions[e]) \cup pending'[e]
    <2>1. CASE <<e, t>> \in published
      <3>1. t \in Published(v[e])
        BY <2>1 DEF Topics
      <3>. QED  BY <3>1, PublishedIsLive DEF AnsweredInv, SteadyInv
    <2>2. CASE <<e, t>> \notin published
      <3>1. t \in Live(publications[e]) \cup pending[e]
        BY <1>1, <1>2, <1>5, <2>2 DEF AnsweredInv, Answered, Answer, Idle
      <3>2. CASE IsConnected
        <4>1. t \notin Emptied(e, v[e])
          BY <1>2, <1>5, <2>2, <3>2 DEF Topics
        <4>. QED  BY <1>1, <3>1, <4>1, AnswerKept
      <3>3. CASE ~IsConnected /\ t \notin Emptied(e, v[e])
        BY <1>1, <3>1, <3>3, AnswerKept
      <3>4. CASE ~IsConnected /\ t \in Emptied(e, v[e])
        <4>1. Type = {t} /\ t \in Retyped(e, v[e])
          BY <1>1, <3>4 DEF Rememberable, Emptied
        <4>2. v[e].type = t
          BY <4>1, VerdictTypes DEF Retyped
        <4>. QED  BY <4>1, <4>2 DEF Retyped
      <3>. QED  BY <3>2, <3>3, <3>4
    <2>. QED  BY <2>1, <2>2
  <1>6. Online'
    BY <1>1, <1>2, <1>3 DEF Online, IsConnected, Sync, CommitSync
  <1>7. CASE CommitSync(decisions, v)
    <2>1. publications' = decisions /\ job' = Idle /\ boot' = Nothing
      BY <1>7 DEF CommitSync
    <2>2. \A e \in Eq : Answer(e)' = Live(decisions[e]) \cup pending'[e]
      BY <2>1 DEF Answer, Idle
    <2>3. job'.kind # "sync" /\ \A e : ~Removing(e)'
      BY <2>1 DEF Idle, Removing, Acting
    <2>. QED  BY <1>1, <1>4, <1>5, <1>6, <2>1, <2>2, <2>3 DEF AnsweredInv, Answered
  <1>8. CASE ~CommitSync(decisions, v)
    <2>1. /\ IsConnected /\ boot' = boot
          /\ job' = [kind |-> "sync", decisions |-> decisions, verdict |-> v]
          /\ \A e \in Eq : publications'[e] \in {NoDecision, publications[e]}
      BY <1>8 DEF Sync
    <2>2. job'.kind = "sync" /\ job'.decisions = decisions
      BY <2>1
    <2>3. \A e \in Eq : Answer(e)' = Live(decisions[e]) \cup pending'[e]
      BY <1>3, <2>1, <2>2 DEF Answer, Nothing
    <2>4. \A e : ~Removing(e)'
      BY <2>2 DEF Removing, Acting
    <2>5. \A e \in Eq : PublishedIsWanted(publications'[e])
      BY <2>1 DEF PublishedIsWanted, NoDecision, AnsweredInv, Answered
    <2>. QED  BY <1>1, <1>4, <1>5, <1>6, <2>1, <2>2, <2>3, <2>4, <2>5 DEF AnsweredInv, Answered
  <1>. QED  BY <1>7, <1>8

LEMMA AnsweredResume ==
  ASSUME AnsweredInv, ResumeSync PROVE Answered' /\ Online'
  <1>1. /\ job.kind = "sync" /\ publications' = job.decisions /\ job' = Idle
        /\ boot' = Nothing
        /\ UNCHANGED <<mqtt, pending, republication>>
    BY DEF ResumeSync, CommitSync
  <1>2. \A e \in Eq : Answer(e) \subseteq Answer(e)'
    BY <1>1 DEF Answer, Idle
  <1>3. job'.kind # "sync" /\ \A e : ~Removing(e)'
    BY <1>1 DEF Idle, Removing, Acting
  <1>. QED  BY <1>1, <1>2, <1>3 DEF AnsweredInv, Answered, Online, mqtt, republication

\* A step of an action that leaves no removal to note, and what it answers for.
LEMMA AnsweredHandled ==
  ASSUME AnsweredInv, Acting \/ job = Idle, Acting', job'.removing = NoRemoval,
         UNCHANGED <<mqtt, boot, batch>>,
         \A e \in Eq : PublishedIsWanted(publications'[e]),
         \A e \in Eq : \A t \in Type :
            <<e, t>> \in accepted /\ t \in Answer(e) => t \in Answer(e)',
         Online'
  PROVE  Answered' /\ Online'
  <1>1. job'.kind # "sync" /\ \A e : ~Removing(e)'
    BY DEF Removing, Acting
  <1>. QED  BY <1>1 DEF AnsweredInv, Answered, mqtt

LEMMA AnsweredStart ==
  ASSUME AnsweredInv, NEW kind \in {"publier", "supprimer"}, NEW selection,
         StartAction(kind, selection)
  PROVE  Answered' /\ Online'
  <1>1. /\ job = Idle /\ link = "up" /\ job'.kind = kind /\ job'.removing = NoRemoval
        /\ UNCHANGED <<mqtt, publications, pending, boot, batch>>
    BY DEF StartAction, IsConnected, republication
  <1>2. \A e \in Eq : Answer(e)' = Answer(e)
    BY <1>1 DEF Answer, Idle
  <1>3. Online'
    BY <1>1 DEF AnsweredInv, Online, mqtt
  <1>4. Acting' /\ \A e \in Eq : PublishedIsWanted(publications'[e])
    BY <1>1 DEF AnsweredInv, Answered, Acting
  <1>. QED  BY <1>1, <1>2, <1>3, <1>4, AnsweredHandled

LEMMA AnsweredSkip ==
  ASSUME AnsweredInv, NEW e \in Eq, Skip(e) PROVE Answered' /\ Online'
  <1>1. /\ Acting /\ Handled(e)
        /\ UNCHANGED <<mqtt, publications, pending, boot, batch>>
    BY DEF Skip, AtEquipment, Acting, republication
  <1>2. Acting' /\ job'.removing = NoRemoval /\ job'.kind = job.kind
    BY <1>1, HandledType DEF AnsweredInv, SteadyInv, Acting
  <1>3. \A d \in Eq : Answer(d)' = Answer(d)
    BY <1>1, <1>2 DEF Answer, Acting
  <1>4. Online' /\ \A d \in Eq : PublishedIsWanted(publications'[d])
    BY <1>1 DEF AnsweredInv, Answered, Online, Acting, Idle, mqtt
  <1>. QED  BY <1>1, <1>2, <1>3, <1>4, AnsweredHandled

LEMMA AnsweredPublish ==
  ASSUME Rememberable, AnsweredInv, NEW e \in Eq, NEW v \in Evaluation, PublishOne(e, v)
  PROVE  Answered' /\ Online'
  <1>1. /\ Acting /\ Handled(e) /\ v \in Verdict
        /\ Write(Topics(e, Emptied(e, v)), Topics(e, Published(v)))
        /\ publications' = [publications EXCEPT ![e] = Decision(e, v)]
        /\ pending' = [pending EXCEPT ![e] = Deferred(e, v)]
        /\ UNCHANGED <<boot, batch>>
    BY EvaluationTypes DEF PublishOne, AtEquipment, Acting, republication
  <1>2. Acting' /\ job'.removing = NoRemoval /\ job.kind # "sync" /\ job'.kind # "sync"
    BY <1>1, HandledType DEF AnsweredInv, SteadyInv, Acting
  <1>3. IsConnected \/ "offline" \in Feature
    BY <1>1 DEF AnsweredInv, Online, IsConnected, Acting, Idle
  <1>4. link' = link /\ HasClient
        /\ accepted' = (accepted \ Topics(e, Emptied(e, v))) \cup Topics(e, Published(v))
    BY <1>1 DEF Write, HasClient, AnsweredInv, SteadyInv, Steady, Acting, Idle
  <1>5. \A d \in Eq : PublishedIsWanted(publications'[d])
    BY <1>1, WantedDecision DEF AnsweredInv, SteadyInv, Answered, Typed, TypeOK
  <1>6. ASSUME NEW d \in Eq, NEW t \in Type, <<d, t>> \in accepted'
        PROVE  t \in Live(publications'[d]) \cup pending'[d]
    <2>1. CASE d # e
      BY <1>1, <1>2, <1>4, <1>6, <2>1
      DEF Topics, AnsweredInv, SteadyInv, Answered, Answer, Typed, TypeOK
    <2>2. CASE d = e
      <3>1. publications'[e] = Decision(e, v) /\ pending'[e] = Deferred(e, v)
        BY <1>1 DEF AnsweredInv, SteadyInv, Typed, TypeOK
      <3>2. CASE t \in Published(v)
        BY <1>1, <2>2, <3>1, <3>2, PublishedIsLive DEF AnsweredInv, SteadyInv
      <3>3. CASE t \notin Published(v)
        <4>1. <<e, t>> \in accepted /\ t \notin Emptied(e, v)
          BY <1>4, <1>6, <2>2, <3>3 DEF Topics
        <4>2. t \in Live(publications[e]) \cup pending[e]
          BY <1>2, <4>1 DEF AnsweredInv, Answered, Answer
        <4>. QED  BY <1>1, <1>3, <2>2, <3>1, <4>1, <4>2, AnswerKept
      <3>. QED  BY <3>2, <3>3
    <2>. QED  BY <2>1, <2>2
  <1>7. \A d \in Eq : Answer(d)' = Live(publications'[d]) \cup pending'[d]
    BY <1>2 DEF Answer
  <1>8. Online'
    <2>1. "offline" \notin Feature => link = "up" /\ pending = Nothing /\ Deferred(e, v) = {}
      BY <1>1, <1>3 DEF AnsweredInv, Online, IsConnected, Deferred
    <2>2. "offline" \notin Feature => pending' = Nothing
      BY <1>1, <2>1 DEF Nothing
    <2>. QED  BY <1>4, <2>1, <2>2 DEF Online
  <1>9. \A d : ~Removing(d)'
    BY <1>2 DEF Removing
  <1>. QED  BY <1>1, <1>2, <1>5, <1>6, <1>7, <1>8, <1>9 DEF AnsweredInv, Answered

\* The removal takes away all that is left of the equipment.
LEMMA AnsweredSend ==
  ASSUME Rememberable, AnsweredInv, NEW e \in Eq, SendRemoval(e) PROVE Answered' /\ Online'
  <1>. DEFINE type == IF Known(e) THEN publications[e].type ELSE DefaultType
  <1>1. /\ Acting /\ job \in ActionJobs /\ Write(Topics(e, {type}), {})
        /\ UNCHANGED <<publications, pending, boot, batch>>
    BY ActingType DEF SendRemoval, AtEquipment, Acting, AnsweredInv, SteadyInv, republication
  <1>2. /\ job'.kind = job.kind /\ job.kind # "sync" /\ job'.removing.eq = e
    BY <1>1 DEF SendRemoval, ActionJobs, Acting
  <1>3. link' = link /\ accepted' = accepted \ Topics(e, {type})
    BY <1>1 DEF Write, HasClient, AnsweredInv, SteadyInv, Steady, Acting, Idle
  <1>4. \A d \in Eq : Answer(d)' = Answer(d)
    BY <1>1, <1>2 DEF Answer
  <1>5. \A t \in Type : <<e, t>> \notin accepted'
    <2>. SUFFICES ASSUME NEW t \in Type, <<e, t>> \in accepted PROVE t = type
      BY <1>3 DEF Topics
    <2>1. t \in Live(publications[e]) \cup pending[e]
      BY <1>2 DEF AnsweredInv, Answered, Answer
    <2>2. CASE t \in Live(publications[e])
      BY <2>2 DEF Live, Known, NoDecision
    <2>3. CASE t \in pending[e]
      <3>1. Type = {t}
        BY <2>3 DEF AnsweredInv, Online, Nothing, Rememberable
      <3>2. type \in Type
        BY LiveTypes, PublicationsAssumption
        DEF Known, AnsweredInv, SteadyInv, Typed, TypeOK
      <3>. QED  BY <3>1, <3>2
    <2>. QED  BY <2>1, <2>2, <2>3
  <1>6. \A d \in Eq : Removing(d)' => d = e
    BY <1>2 DEF Removing
  <1>7. Online'
    BY <1>1, <1>3 DEF AnsweredInv, Online, Acting, Idle
  <1>. QED  BY <1>1, <1>2, <1>3, <1>4, <1>5, <1>6, <1>7 DEF AnsweredInv, Answered

LEMMA AnsweredNote ==
  ASSUME AnsweredInv, NoteRemoval PROVE Answered' /\ Online'
  <1>. DEFINE r == job.removing
  <1>1. /\ Acting /\ Handled(r.eq) /\ r # NoRemoval /\ r.ok
        /\ r \in [eq : Eq, type : Type, ok : BOOLEAN]
        /\ UNCHANGED <<mqtt, boot, batch>>
        /\ pending' = [pending EXCEPT ![r.eq] = {}]
        /\ publications' = [publications EXCEPT ![r.eq] =
                              IF Known(r.eq) THEN Refused(r.type) ELSE @]
    BY ActingType
    DEF NoteRemoval, Acting, AnsweredInv, SteadyInv, Steady, republication
  <1>2. Acting' /\ job'.removing = NoRemoval /\ job'.kind = job.kind
    BY <1>1, HandledType DEF AnsweredInv, SteadyInv, Acting
  <1>3. Removing(r.eq) /\ \A t \in Type : <<r.eq, t>> \notin accepted
    BY <1>1 DEF Removing, AnsweredInv, Answered
  <1>4. ASSUME NEW e \in Eq, NEW t \in Type, <<e, t>> \in accepted, t \in Answer(e)
        PROVE  t \in Answer(e)'
    <2>1. e # r.eq
      BY <1>3, <1>4
    <2>2. publications'[e] = publications[e] /\ pending'[e] = pending[e]
      BY <1>1, <2>1 DEF AnsweredInv, SteadyInv, Typed, TypeOK
    <2>. QED  BY <1>1, <1>2, <1>4, <2>2 DEF Answer, Acting
  <1>5. \A e \in Eq : PublishedIsWanted(publications'[e])
    BY <1>1 DEF AnsweredInv, SteadyInv, Answered, Typed, TypeOK, PublishedIsWanted, Refused
  <1>6. Online'
    <2>1. pending = Nothing => pending' = Nothing
      BY <1>1 DEF Nothing
    <2>. QED  BY <1>1, <2>1 DEF AnsweredInv, Online, Acting, Idle, mqtt
  <1>. QED  BY <1>1, <1>2, <1>4, <1>5, <1>6, AnsweredHandled

LEMMA AnsweredFinish ==
  ASSUME AnsweredInv, FinishAction PROVE Answered' /\ Online'
  <1>1. /\ job.kind # "sync" /\ job' = Idle
        /\ UNCHANGED <<mqtt, publications, pending, boot, batch>>
    BY DEF FinishAction, republication
  <1>2. \A e \in Eq : Answer(e)' = Answer(e)
    BY <1>1 DEF Answer, Idle
  <1>3. job'.kind # "sync" /\ \A e : ~Removing(e)'
    BY <1>1 DEF Idle, Removing, Acting
  <1>. QED  BY <1>1, <1>2, <1>3 DEF AnsweredInv, Answered, Online, mqtt

\* Alone, a batch publishes again what the decisions say published, after the removals it
\* replays.
LEMMA AnsweredRepublish ==
  ASSUME Rememberable, AnsweredInv, IsConnected, NEW emptied, Republish(emptied),
         UNCHANGED <<publications, boot, job>>,
         \/ pending' = pending
         \/ pending' = Nothing /\ emptied = Entries(pending)
  PROVE  Answered' /\ Online'
  <1>. DEFINE entries == Entries(Saved(publications))
  <1>1. /\ Write(emptied, entries) /\ batch' = (batch \cup entries) \ entries
        /\ job = Idle
    BY RememberableFacts DEF Republish
  <1>2. /\ batch' = {} /\ link' = link /\ link = "up"
        /\ accepted' = (accepted \ emptied) \cup entries
    BY <1>1, WriteConnected DEF AnsweredInv, Answered, IsConnected
  <1>3. ASSUME NEW e \in Eq, NEW t \in Type, <<e, t>> \in accepted'
        PROVE  t \in Live(publications[e]) \cup pending'[e]
    <2>1. CASE <<e, t>> \in entries
      BY <2>1 DEF Entries, Saved, Topics
    <2>2. CASE <<e, t>> \in accepted /\ <<e, t>> \notin emptied
      <3>1. t \in Live(publications[e]) \cup pending[e]
        BY <1>1, <2>2 DEF AnsweredInv, Answered, Answer, Idle
      <3>2. emptied = Entries(pending) => t \notin pending[e]
        BY <2>2 DEF Entries, Topics
      <3>. QED  BY <3>1, <3>2
    <2>. QED  BY <1>2, <1>3, <2>1, <2>2
  <1>4. /\ \A e \in Eq : Answer(e)' = Live(publications[e]) \cup pending'[e]
        /\ \A e : ~Removing(e)' /\ job'.kind # "sync"
    BY <1>1 DEF Answer, Idle, Removing, Acting
  <1>5. Online'
    BY <1>2 DEF AnsweredInv, Online
  <1>. QED  BY <1>2, <1>3, <1>4, <1>5 DEF AnsweredInv, Answered

LEMMA AnsweredBatch ==
  ASSUME Rememberable, AnsweredInv, ReconnectBatch \/ BirthBatch
  PROVE  Answered' /\ Online'
  <1>1. UNCHANGED <<publications, boot, job>>
    BY DEF ReconnectBatch, BirthBatch
  <1>2. CASE \E emptied : /\ IsConnected /\ Republish(emptied)
                          /\ \/ pending' = pending
                             \/ pending' = Nothing /\ emptied = Entries(pending)
    BY <1>1, <1>2, AnsweredRepublish
  <1>3. CASE UNCHANGED <<mqtt, pending, batch>>
    <2>1. \A e : Answer(e)' = Answer(e) /\ (Removing(e)' <=> Removing(e))
      BY <1>1, <1>3 DEF Answer, Removing, Acting
    <2>. QED  BY <1>1, <1>3, <2>1 DEF AnsweredInv, Answered, Online, mqtt
  <1>. QED  BY <1>2, <1>3 DEF ReconnectBatch, BirthBatch

LEMMA AnsweredBridge ==
  ASSUME Rememberable, AnsweredInv, MqttConnect \/ Connected \/ Disconnected
  PROVE  Answered' /\ Online'
  <1>1. UNCHANGED <<publications, pending, boot, job, batch>> /\ accepted' \subseteq accepted
    BY RememberableFacts
    DEF MqttConnect, Connected, Disconnected, republication, AnsweredInv, BeforeFirstClient
  <1>2. \A e : Answer(e)' = Answer(e) /\ (Removing(e)' <=> Removing(e))
    BY <1>1 DEF Answer, Removing, Acting
  <1>3. Online'
    BY <1>1, RememberableFacts
    DEF AnsweredInv, Online, MqttConnect, Connected, Disconnected
  <1>. QED  BY <1>1, <1>2, <1>3 DEF AnsweredInv, Answered

LEMMA FirstClientNext ==
  ASSUME Rememberable, BeforeFirstClient, [Next]_vars PROVE BeforeFirstClient'
  <1>1. CASE UNCHANGED mqtt
    BY <1>1 DEF BeforeFirstClient, mqtt
  <1>2. CASE \E emptied, published : Write(emptied, published)
    BY <1>2 DEF Write, HasClient, IsConnected, BeforeFirstClient
  <1>3. CASE MqttConnect \/ Connected \/ Disconnected
    BY <1>3 DEF MqttConnect, Connected, Disconnected, BeforeFirstClient
  <1>4. CASE ReconnectBatch \/ BirthBatch
    BY <1>1, <1>2, <1>4 DEF ReconnectBatch, BirthBatch, Republish
  <1>5. CASE \E x \in batch : ContinueBatch(x)
    BY <1>2, <1>5 DEF ContinueBatch
  <1>6. CASE \E v \in [Eq -> Verdict] : Sync(v)
    BY <1>2, <1>6 DEF Sync
  <1>7. CASE \E e \in Eq : Skip(e) \/ SendRemoval(e) \/ \E v \in Evaluation : PublishOne(e, v)
    BY <1>1, <1>2, <1>7 DEF Skip, SendRemoval, PublishOne
  <1>8. CASE ResumeSync \/ NoteRemoval \/ FinishAction
    BY <1>1, <1>8 DEF ResumeSync, NoteRemoval, FinishAction
  <1>9. CASE \E kind \in {"publier", "supprimer"}, selection \in (SUBSET Eq) \ {{}} :
               StartAction(kind, selection)
    BY <1>1, <1>9 DEF StartAction
  <1>10. ~Restart
    BY RememberableFacts DEF Restart
  <1>11. UNCHANGED vars => UNCHANGED mqtt
    BY DEF vars, mqtt
  <1>. QED  BY <1>1, <1>3, <1>4, <1>5, <1>6, <1>7, <1>8, <1>9, <1>10, <1>11 DEF Next

LEMMA AnsweredNext ==
  ASSUME Rememberable, AnsweredInv, [Next]_vars PROVE AnsweredInv'
  <1>1. SteadyInv'
    BY RememberableFacts, SteadyNext DEF AnsweredInv
  <1>2. BeforeFirstClient'
    BY FirstClientNext DEF AnsweredInv
  <1>3. Answered' /\ Online'
    <2>1. CASE UNCHANGED vars
      <3>1. \A e : Answer(e)' = Answer(e) /\ (Removing(e)' <=> Removing(e))
        BY <2>1 DEF vars, Answer, Removing, Acting
      <3>. QED  BY <2>1, <3>1 DEF vars, AnsweredInv, Answered, Online
    <2>2. CASE MqttConnect \/ Connected \/ Disconnected
      BY <2>2, AnsweredBridge
    <2>3. ASSUME NEW v \in [Eq -> Verdict], Sync(v) PROVE Answered' /\ Online'
      BY <2>3, AnsweredSync
    <2>4. CASE ResumeSync
      BY <2>4, AnsweredResume
    <2>5. ASSUME NEW kind \in {"publier", "supprimer"}, NEW selection,
                 StartAction(kind, selection)
          PROVE  Answered' /\ Online'
      BY <2>5, AnsweredStart
    <2>6. ASSUME NEW e \in Eq, Skip(e) \/ SendRemoval(e) PROVE Answered' /\ Online'
      BY <2>6, AnsweredSkip, AnsweredSend
    <2>7. ASSUME NEW e \in Eq, NEW v \in Evaluation, PublishOne(e, v)
          PROVE  Answered' /\ Online'
      BY <2>7, AnsweredPublish
    <2>8. CASE NoteRemoval \/ FinishAction
      BY <2>8, AnsweredNote, AnsweredFinish
    <2>9. CASE ReconnectBatch \/ BirthBatch
      BY <2>9, AnsweredBatch
    <2>10. ~Restart /\ ~\E x \in batch : ContinueBatch(x)
      BY RememberableFacts DEF Restart, AnsweredInv, Answered
    <2>. QED  BY <2>1, <2>2, <2>3, <2>4, <2>5, <2>6, <2>7, <2>8, <2>9, <2>10 DEF Next
  <1>. QED  BY <1>1, <1>2, <1>3 DEF AnsweredInv

\* Losses of the broker in the middle of handlers, refusals and births of Home Assistant leave
\* no ghost as long as the daemon runs and no equipment changes type; without losses, they may
\* change type too.
THEOREM LossesLeaveNoGhost ==
  ASSUME Feature \subseteq {"offline", "refusal", "birth"},
         "offline" \in Feature => Type = {DefaultType}
  PROVE  Spec => []NoGhost
  <1>. Rememberable
    BY DEF Rememberable
  <1>1. Init => AnsweredInv
    <2>. SUFFICES ASSUME Init PROVE AnsweredInv
      OBVIOUS
    <2>1. SteadyInv
      BY InitTyped DEF Init, SteadyInv, Steady, Nothing, NoDecision, Acting, Idle
    <2>2. Answered /\ Online /\ BeforeFirstClient
      BY DEF Init, Answered, Online, BeforeFirstClient, PublishedIsWanted, NoDecision, Removing, Acting, Idle
    <2>. QED  BY <2>1, <2>2 DEF AnsweredInv
  <1>2. AnsweredInv /\ [Next]_vars => AnsweredInv'
    BY AnsweredNext
  <1>3. AnsweredInv => NoGhost
    BY AnsweredIsClaimed
  <1>. QED  BY <1>1, <1>2, <1>3, PTL DEF Spec
=============================================================================
