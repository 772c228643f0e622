---------------------------- MODULE Publications ----------------------------
(***************************************************************************)
(* The discovery configurations the daemon keeps retained on the broker,   *)
(* and what it remembers of them (transport/http_server.py,                *)
(* cache/disk_cache.py).  The sync, "publier", "supprimer" and the         *)
(* republication batches all publish and unpublish; the removals that      *)
(* could not be done are deferred; a restart only keeps the disk cache.    *)
(*                                                                         *)
(* A step is what a coroutine does between two awaits that really yield.   *)
(* The sync and the actions exclude one another (action_lock), a batch     *)
(* takes no lock.  An equipment has one entity here: its topic is named by *)
(* its type.  app["mappings"] has the keys of app["publications"] and the  *)
(* types of their decisions, so it is not a variable of its own.           *)
(***************************************************************************)
CONSTANTS
  Eq,            \* equipments
  Type,          \* types of HA entities
  DefaultType,   \* "light", the type assumed when none is known
  Feature        \* what may happen around the handlers

Features ==
  {"offline",      \* the broker is unreachable while the daemon works
   "refusal",      \* a mapped equipment may be refused
   "birth",        \* Home Assistant restarts
   "overlap",      \* batches and handlers run at the same time
   "reconfigure",  \* mqtt_connect is called on a running bridge
   "restart",      \* the daemon restarts between two handlers
   "crash"}        \* the daemon restarts inside a handler

ASSUME PublicationsAssumption == DefaultType \in Type /\ Feature \subseteq Features

VARIABLES
  link,          \* the MQTT client: "none", "down" or "up"
  accepted,      \* topics retained once what the client accepted is delivered
  retained,      \* topics retained by the broker
  publications,  \* app["publications"]
  pending,       \* app["pending_discovery_unpublish"]: at most one type each
  boot,          \* app["boot_cache"]: the types it says published
  disk,          \* the cache file: the types it says published
  known,         \* app["eligibility"] and app["published_scope"]
  job,           \* the holder of action_lock and how far it is
  batch,         \* topics the running republications have still to publish
  posted         \* the republication of a reconnection is scheduled

vars == <<link, accepted, retained, publications, pending, boot, disk, known,
          job, batch, posted>>
mqtt == <<link, accepted, retained>>
republication == <<batch, posted>>

Topic == Eq \X Type
Topics(e, types) == {e} \X types
Entries(f) == UNION {Topics(e, f[e]) : e \in Eq}
Nothing == [e \in Eq |-> {}]

\* What the evaluation of an equipment and the published scope answer.
Gone == [kind |-> "gone"]
Evaluation == [kind : IF "refusal" \in Feature THEN {"accepted", "refused"}
                                                ELSE {"accepted"}, type : Type]
Unsynced == [e \in Eq |-> [kind |-> "unsynced"]]
Verdict == {Gone} \cup [kind : {"out"}, type : Type] \cup Evaluation

\* Mutant: a refusal that forgets a field of the decision.
RefusedWithoutState(t) == [type |-> t, should |-> FALSE, published |-> FALSE]

\* app["publications"][eq]; active is active_or_alive.
NoDecision == [should |-> FALSE, published |-> FALSE, active |-> FALSE]
Refused(t) == [type |-> t, should |-> FALSE, published |-> FALSE, active |-> FALSE]
Known(e) == publications[e] # NoDecision

\* _needs_discovery_unpublish: the types the decisions say published.
Live(decision) == IF decision.published THEN {decision.type} ELSE {}

Idle == [kind |-> "idle"]
NoRemoval == [eq |-> "none"]

---------------------------------------------------------------------------
(* The MQTT client: publish_message accepts whatever a client exists, and   *)
(* delivers it once connected.                                              *)

HasClient == link # "none"
IsConnected == link = "up"

Write(emptied, published) ==
  /\ accepted' = IF HasClient THEN (accepted \ emptied) \cup published ELSE accepted
  /\ retained' = IF IsConnected THEN accepted' ELSE retained
  /\ UNCHANGED link

\* mqtt_connect: the old client and what it had not delivered are dropped; start
\* may raise on its parameters.
MqttConnect ==
  /\ link = "none" \/ "reconfigure" \in Feature
  /\ link' \in {"down"} \cup (IF "reconfigure" \in Feature THEN {"none"} ELSE {})
  /\ accepted' = retained
  /\ UNCHANGED <<retained, publications, pending, boot, disk, known, job, republication>>

Connected ==
  /\ link = "down"
  /\ link' = "up"
  /\ retained' = accepted
  /\ posted' = TRUE
  /\ UNCHANGED <<accepted, publications, pending, boot, disk, known, job, batch>>

Disconnected ==
  /\ "offline" \in Feature
  /\ link = "up"
  /\ link' = "down"
  /\ UNCHANGED <<accepted, retained, publications, pending, boot, disk, known, job,
                 republication>>

---------------------------------------------------------------------------
(* One equipment of a sync or of "publier". *)

\* _detect_lifecycle_changes: the type the equipment was published under.
Retyped(e, v) ==
  IF v.kind \in {"accepted", "refused"}
    THEN (Live(publications[e]) \cup boot[e]) \ {v.type} ELSE {}

\* Mutants: an equipment leaving the scope is forgotten, the cache of the previous
\* run is not compared with the first sync.
WithdrawnInScope(e, v) ==
  IF v.kind = "refused"
    THEN IF publications[e].should THEN {publications[e].type} ELSE {}
  ELSE IF v.kind = "gone" THEN Live(publications[e]) \cup boot[e]
  ELSE {}
WithdrawnOfThisRun(e, v) ==
  IF v.kind = "refused"
    THEN IF publications[e].should THEN {publications[e].type} ELSE {}
  ELSE IF v.kind \in {"gone", "out"} THEN Live(publications[e])
  ELSE {}

\* _unpublish_refused_candidates, and the purge of what is gone or out of scope.
Withdrawn(e, v) ==
  IF v.kind = "refused"
    THEN IF publications[e].should THEN {publications[e].type} ELSE {}
  ELSE IF v.kind \in {"gone", "out"} THEN Live(publications[e]) \cup boot[e]
  ELSE {}

Emptied(e, v) ==
  Retyped(e, v) \cup (IF IsConnected THEN pending[e] \cup Withdrawn(e, v) ELSE {})

Published(v) == IF IsConnected /\ v.kind = "accepted" THEN {v.type} ELSE {}

\* Mutant: the removal that was pending survives the publication.
DeferredForever(e, v) ==
  IF IsConnected THEN pending[e]
  ELSE IF Withdrawn(e, v) # {} THEN Withdrawn(e, v)
  ELSE IF ~HasClient /\ Retyped(e, v) # {} THEN Retyped(e, v)
  ELSE pending[e]

\* A deferred removal replaces the one that was pending.
Deferred(e, v) ==
  IF IsConnected THEN {}
  ELSE IF Withdrawn(e, v) # {} THEN Withdrawn(e, v)
  ELSE IF ~HasClient /\ Retyped(e, v) # {} THEN Retyped(e, v)
  ELSE pending[e]

\* apply_publication_decision: offline, what was published stays marked so.
Decision(e, v) ==
  IF v.kind = "gone" THEN NoDecision
  ELSE IF v.kind # "accepted" THEN Refused(v.type)
  ELSE [type |-> v.type, should |-> TRUE, active |-> IsConnected,
        published |-> IsConnected \/ publications[e].published]

---------------------------------------------------------------------------
(* The sync. *)

Saved(decisions) == [e \in Eq |-> Live(decisions[e])]

CommitSync(decisions, v) ==
  /\ publications' = decisions
  /\ known' = v
  /\ boot' = Nothing
  /\ disk' = Saved(decisions)
  /\ job' = Idle

\* The body, up to the purge of the scenario buttons: that purge yields, when it
\* runs, while app["publications"] only misses what has been purged.
Sync(v) ==
  LET decisions == [e \in Eq |-> Decision(e, v[e])]
      purged == {e \in Eq : v[e].kind \in {"gone", "out"}}
  IN
  /\ job = Idle
  /\ IsConnected \/ "offline" \in Feature
  /\ Write(UNION {Topics(e, Emptied(e, v[e])) : e \in Eq},
           UNION {Topics(e, Published(v[e])) : e \in Eq})
  /\ pending' = [e \in Eq |-> Deferred(e, v[e])]
  /\ \/ CommitSync(decisions, v)
     \/ /\ IsConnected
        /\ publications' = [e \in Eq |-> IF e \in purged THEN NoDecision
                                                         ELSE publications[e]]
        /\ job' = [kind |-> "sync", decisions |-> decisions, verdict |-> v]
        /\ UNCHANGED <<boot, disk, known>>
  /\ UNCHANGED republication

ResumeSync ==
  /\ job.kind = "sync"
  /\ CommitSync(job.decisions, job.verdict)
  /\ UNCHANGED <<mqtt, pending, republication>>

---------------------------------------------------------------------------
(* "publier" and "supprimer". *)

StartAction(kind, selection) ==
  /\ job = Idle
  /\ IsConnected
  /\ known # Unsynced
  /\ job' = [kind |-> kind, todo |-> selection, removing |-> NoRemoval]
  /\ UNCHANGED <<mqtt, publications, pending, boot, disk, known, republication>>

AtEquipment(e) ==
  /\ job.kind \in {"publier", "supprimer"}
  /\ job.removing = NoRemoval
  /\ e \in job.todo

Handled(e) == job' = [job EXCEPT !.todo = @ \ {e}, !.removing = NoRemoval]

\* _is_currently_published_in_ha
CurrentlyPublished(e) ==
  pending[e] # {} \/ publications[e].published \/ publications[e].active

\* _scope_entry_is_included: an equipment without mapping may be on either side.
MayBeExcluded(e) == known[e].kind \in {"out", "gone"}

\* "publier" on a mapped equipment of the scope, evaluated again.
PublishOne(e, v) ==
  /\ AtEquipment(e)
  /\ job.kind = "publier"
  /\ known[e].kind \in {"accepted", "refused"}
  /\ Write(Topics(e, Emptied(e, v)), Topics(e, Published(v)))
  /\ pending' = [pending EXCEPT ![e] = Deferred(e, v)]
  /\ publications' = [publications EXCEPT ![e] = Decision(e, v)]
  /\ Handled(e)
  /\ UNCHANGED <<boot, disk, known, republication>>

Skip(e) ==
  /\ AtEquipment(e)
  /\ \/ job.kind = "publier" /\ known[e].kind = "gone"
     \/ ~CurrentlyPublished(e) /\ (job.kind = "publier" => MayBeExcluded(e))
  /\ Handled(e)
  /\ UNCHANGED <<mqtt, publications, pending, boot, disk, known, republication>>

\* Mutant: the removal waits for the broker.
SendRemovalWhenConnected(e) ==
  LET type == IF Known(e) THEN publications[e].type ELSE DefaultType IN
  /\ AtEquipment(e)
  /\ job.kind = "publier" => MayBeExcluded(e)
  /\ CurrentlyPublished(e) /\ IsConnected
  /\ Write(Topics(e, {type}), {})
  /\ job' = [job EXCEPT !.removing = [eq |-> e, type |-> type, ok |-> HasClient]]
  /\ UNCHANGED <<publications, pending, boot, disk, known, republication>>

\* The removal is sent, then the action pauses before it notes the outcome.
SendRemoval(e) ==
  LET type == IF Known(e) THEN publications[e].type ELSE DefaultType IN
  /\ AtEquipment(e)
  /\ job.kind = "publier" => MayBeExcluded(e)
  /\ CurrentlyPublished(e)
  /\ Write(Topics(e, {type}), {})
  /\ job' = [job EXCEPT !.removing = [eq |-> e, type |-> type, ok |-> HasClient]]
  /\ UNCHANGED <<publications, pending, boot, disk, known, republication>>

\* Mutant: the decision stays published after the removal.
NoteOnlyPending ==
  LET r == job.removing IN
  /\ job.kind \in {"publier", "supprimer"}
  /\ r # NoRemoval
  /\ pending' = [pending EXCEPT ![r.eq] = IF r.ok THEN {} ELSE {r.type}]
  /\ Handled(r.eq)
  /\ UNCHANGED <<mqtt, publications, boot, disk, known, republication>>

NoteRemoval ==
  LET r == job.removing IN
  /\ job.kind \in {"publier", "supprimer"}
  /\ r # NoRemoval
  /\ pending' = [pending EXCEPT ![r.eq] = IF r.ok THEN {} ELSE {r.type}]
  /\ publications' = [publications EXCEPT ![r.eq] =
                        IF r.ok /\ Known(r.eq) THEN Refused(r.type) ELSE @]
  /\ Handled(r.eq)
  /\ UNCHANGED <<mqtt, boot, disk, known, republication>>

FinishAction ==
  /\ job.kind \in {"publier", "supprimer"}
  /\ job.todo = {}
  /\ disk' = Saved(publications)
  /\ job' = Idle
  /\ UNCHANGED <<mqtt, publications, pending, boot, known, republication>>

---------------------------------------------------------------------------
(* The republications: _republish_all_from_cache. *)

\* The batch works on the entries it read when it started; it publishes the first
\* one at once and sleeps after each.
Republish(emptied) ==
  LET entries == Entries(Saved(publications)) IN
  /\ job = Idle \/ "overlap" \in Feature
  /\ \E first \in IF "overlap" \in Feature THEN {{x} : x \in entries} ELSE {entries} :
       /\ Write(emptied, first)
       /\ batch' = (batch \cup entries) \ first

NothingToRepublish == Saved(publications) = Nothing

\* After a reconnection the deferred removals are replayed first, unless there is
\* nothing to republish.
ReconnectBatch ==
  /\ posted
  /\ posted' = FALSE
  /\ IF IsConnected /\ ~NothingToRepublish
       THEN Republish(Entries(pending)) /\ pending' = Nothing
       ELSE UNCHANGED <<mqtt, pending, batch>>
  /\ UNCHANGED <<publications, boot, disk, known, job>>

BirthBatch ==
  /\ "birth" \in Feature
  /\ IsConnected
  /\ ~NothingToRepublish
  /\ Republish({})
  /\ UNCHANGED <<publications, pending, boot, disk, known, job, posted>>

ContinueBatch(x) ==
  /\ x \in batch
  /\ Write({}, {x})
  /\ batch' = batch \ {x}
  /\ UNCHANGED <<publications, pending, boot, disk, known, job, posted>>

---------------------------------------------------------------------------
(* A restart only finds the cache file; a kill while it is written leaves a   *)
(* file load_publications_cache reads as empty.                               *)

Saving ==
  \/ job.kind = "sync"
  \/ job.kind \in {"publier", "supprimer"} /\ job.todo = {}

Restart ==
  /\ \/ "crash" \in Feature
     \/ "restart" \in Feature /\ job = Idle
  /\ disk' \in {disk} \cup (IF "crash" \in Feature /\ Saving THEN {Nothing} ELSE {})
  /\ boot' = disk'
  /\ link' = "none"
  /\ accepted' = retained
  /\ publications' = [e \in Eq |-> NoDecision]
  /\ pending' = Nothing
  /\ known' = Unsynced
  /\ job' = Idle
  /\ batch' = {}
  /\ posted' = FALSE
  /\ UNCHANGED retained

---------------------------------------------------------------------------
Init ==
  /\ link = "none" /\ accepted = {} /\ retained = {}
  /\ publications = [e \in Eq |-> NoDecision]
  /\ pending = Nothing /\ boot = Nothing /\ disk = Nothing /\ known = Unsynced
  /\ job = Idle
  /\ batch = {} /\ posted = FALSE

Next ==
  \/ MqttConnect \/ Connected \/ Disconnected
  \/ \E v \in [Eq -> Verdict] : Sync(v)
  \/ ResumeSync
  \/ \E kind \in {"publier", "supprimer"}, selection \in (SUBSET Eq) \ {{}} :
       StartAction(kind, selection)
  \/ \E e \in Eq : Skip(e) \/ SendRemoval(e) \/ \E v \in Evaluation : PublishOne(e, v)
  \/ NoteRemoval \/ FinishAction
  \/ ReconnectBatch \/ BirthBatch \/ \E x \in batch : ContinueBatch(x)
  \/ Restart

Spec == Init /\ [][Next]_vars

\* The event loop resumes the coroutine that holds the lock: its awaits are bounded
\* sleeps and calls to the client that do not wait for the broker.
Handlers ==
  \/ ResumeSync \/ NoteRemoval \/ FinishAction
  \/ \E e \in Eq : Skip(e) \/ SendRemoval(e) \/ \E v \in Evaluation : PublishOne(e, v)

FairSpec == Spec /\ WF_vars(Handlers)

---------------------------------------------------------------------------
(* Properties. *)

AtMostOne == {{}} \cup {{t} : t \in Type}
Decisions == {NoDecision} \cup
  [type : Type, should : BOOLEAN, published : BOOLEAN, active : BOOLEAN]
Jobs ==
  {Idle} \cup
  [kind : {"sync"}, decisions : [Eq -> Decisions], verdict : [Eq -> Verdict]] \cup
  [kind : {"publier", "supprimer"}, todo : SUBSET Eq,
   removing : {NoRemoval} \cup [eq : Eq, type : Type, ok : BOOLEAN]]

\* A deferred removal and a cache entry each remember at most one type.
TypeOK ==
  /\ link \in {"none", "down", "up"}
  /\ accepted \subseteq Topic /\ retained \subseteq Topic /\ batch \subseteq Topic
  /\ publications \in [Eq -> Decisions]
  /\ pending \in [Eq -> AtMostOne]
  /\ boot \in [Eq -> AtMostOne] /\ disk \in [Eq -> AtMostOne]
  /\ known \in [Eq -> Verdict] \cup {Unsynced}
  /\ job \in Jobs
  /\ posted \in BOOLEAN

\* What the daemon still answers for: the type it wants or has published, the
\* removal it has deferred, what the first sync will compare with.
Wanted(decision) ==
  IF decision.should \/ decision.published THEN {decision.type} ELSE {}
Claimed(e) ==
  Wanted(publications[e]) \cup pending[e] \cup boot[e]
    \cup (IF job.kind = "sync" THEN Wanted(job.decisions[e]) ELSE {})

\* No ghost: a configuration retained by the broker is one the daemon answers for,
\* so that some later step of its own removes it if Jeedom no longer has it.
NoGhost == accepted \subseteq UNION {Topics(e, Claimed(e)) : e \in Eq}

\* At rest and connected, every entity the daemon believes published is on the
\* broker: no replayed or targeted removal has taken it away.
Settled == job = Idle /\ batch = {} /\ ~posted /\ IsConnected
NoMissing == Settled => Entries(Saved(publications)) \subseteq retained

\* A deferred removal never aims at an entity the daemon says published: its replay,
\* whenever it comes, takes nothing away from Home Assistant.
NoLiveRemoval == \A e \in Eq : pending[e] \cap Live(publications[e]) = {}

\* A sync or an action always gives action_lock back: every equipment it has to
\* handle meets one of its branches, and none waits for the broker.
LockReleased == job # Idle ~> job = Idle
=============================================================================
