---------------------------- MODULE VectorIndex ----------------------------
(***************************************************************************)
(* The vector index: the generations of SqliteVectorRepository, the         *)
(* VectorIndexCoordinator, the vector runtime and the part of the controller *)
(* that asks for refreshes.                                                *)
(*                                                                         *)
(* A corpus is the set of its active documents; the identity of a document   *)
(* fixes its text.  An operation is a chain of tasks, each on the data       *)
(* thread, the vector thread or the main thread, which is how the callbacks  *)
(* of the code hand it on.  "reflection" stands for the two derived corpora, *)
(* which are activated one after the other before the other two.            *)
(*                                                                         *)
(* Not modelled: close() at exit, thresholds and scores, the batches of one  *)
(* embedding, the limit on the number of documents.                         *)
(***************************************************************************)
EXTENDS Naturals, Sequences, FiniteSets, SequencesExt

CONSTANTS Memories, Reflections, Knowledge, \* documents that ever exist
          MaxChanges,   \* bound on changes of the documents
          MaxRequests,  \* bound on what the user asks of the index
          MaxFaults,    \* bound on failed operations
          MaxCrashes    \* bound on restarts

VARIABLES
  docs,     \* durable: the active documents of each corpus
  active,   \* durable: generation, vectors and model of each active generation
  building, \* durable: the generation being built in each corpus, or None
  ix,       \* the coordinator: busy flags, pending flags, backend, tasks
  cache,    \* VectorCacheSet: a snapshot of each corpus
  notices,  \* statuses on their way to the controller
  ui,       \* the controller's _vector_index_available, and whether it refreshed
  changed,  \* the changes the controller was not told of yet
  lost,     \* history: a rebuild that is still needed was refused or given up
  changes, requests, faults, crashes

durable == <<docs, active, building>>
bounds  == <<changes, requests, faults, crashes>>
vars == <<durable, ix, cache, notices, ui, changed, lost, bounds>>

None == 0
Corpora == {"user", "reflection", "persona"}
Targets == [c \in Corpora |-> CASE c = "user" -> Memories [] c = "reflection" -> Reflections
                                [] c = "persona" -> Knowledge]
Works == {"load", "retry", "rebuild", "incremental"}
Empty == [c \in Corpora |-> [gen |-> None, has |-> {}, old |-> FALSE]]
\* What a task carries: nothing, documents, snapshots or the work that failed
Nothing == [nothing |-> None]
Work(work) == [work |-> work]
Task(k, at, d) == [k |-> k, at |-> at, d |-> d]

TypeOK ==
  /\ docs \in [Corpora -> SUBSET (Memories \cup Reflections \cup Knowledge)]
  /\ \A c \in Corpora : active[c].has \subseteq Targets[c] /\ docs[c] \subseteq Targets[c]
  /\ ix.busy \subseteq Works /\ Cardinality(ix.busy) <= 1
  /\ ix.backend \in {"none", "ready", "unavailable"}
  /\ {ix.incremental, ix.persona, ui.available, ui.refreshed, lost} \subseteq BOOLEAN
  /\ changed \subseteq {"memory", "persona"}

Fresh == [busy |-> {}, incremental |-> FALSE, persona |-> FALSE, backend |-> "none", tasks |-> {}]

\* A first start, a start on an index of this model, or of an older one
Init ==
  /\ docs = [c \in Corpora |-> {CHOOSE d \in Targets[c] : TRUE}]
  /\ active \in {Empty} \cup {[c \in Corpora |-> [gen |-> 1, has |-> docs[c], old |-> o]] : o \in BOOLEAN}
  /\ building = [c \in Corpora |-> None]
  /\ ix = Fresh /\ cache = Empty /\ notices = <<>>
  /\ ui = [started |-> FALSE, available |-> FALSE, refreshed |-> FALSE]
  /\ changed = {} /\ lost = FALSE
  /\ changes = 0 /\ requests = 0 /\ faults = 0 /\ crashes = 0
-----------------------------------------------------------------------------
(* What a request makes of the coordinator x, under its lock.              *)

Begin(x, work, k) == [x EXCEPT !.busy = @ \cup {work}, !.tasks = @ \cup {Task(k, "data", Nothing)}]

\* start()
StartIndex(x) == IF x.busy = {} THEN Begin(x, "load", "load") ELSE x

CanRebuild(x) == x.busy = {} /\ x.backend # "unavailable"
Rebuild(x) == IF CanRebuild(x) THEN Begin(x, "rebuild", "begin_rebuild") ELSE x

RebuildPersona(x) ==
  CASE x.backend = "unavailable" -> x
    [] x.backend # "unavailable" /\ x.busy # {} -> [x EXCEPT !.persona = TRUE]
    [] OTHER                     -> Begin(x, "rebuild", "begin_persona")

\* Mutant: a refresh does not wait for a rebuild.
RefreshDuringRebuild(x) ==
  IF x.backend = "unavailable" \/ x.busy \cap {"load", "retry", "incremental"} # {}
  THEN [x EXCEPT !.incremental = x.backend # "unavailable"] ELSE Begin(x, "incremental", "begin_incremental")
RefreshIncremental(x) ==
  CASE x.backend = "unavailable" -> x
    [] x.backend # "unavailable" /\ x.busy # {} -> [x EXCEPT !.incremental = TRUE]
    [] OTHER                     -> Begin(x, "incremental", "begin_incremental")

\* The end of a work: the flags are taken under the lock, and what was pending
\* is run after it, where another thread may come in between.
\* Mutant: a refresh asked for while an operation ran is forgotten.
ForgetPending(x, work, at) == [x EXCEPT !.busy = @ \ {work}, !.persona = FALSE, !.incremental = FALSE]
Finish(x, work, at) ==
  [x EXCEPT !.busy = @ \ {work}, !.persona = FALSE,
            !.incremental = @ /\ x.persona,
            !.tasks = @ \cup IF x.persona THEN {Task("run_persona", at, Nothing)}
                             ELSE IF x.incremental THEN {Task("run_incremental", at, Nothing)} ELSE {}]

Disabled(x) == [x EXCEPT !.backend = "unavailable"]

\* _publish_status: only a ready index, and an unavailable one, matter to the controller.
Published(x, ready) ==
  LET n == IF x.backend # "ready" THEN <<"down">> ELSE IF ready THEN <<"ready">> ELSE <<>>
  IN  IF notices # <<>> /\ n # <<>> /\ Last(notices) = n[1] THEN notices ELSE notices \o n

\* x with task t replaced by the next one of its chain
Next1(x, t, k, at, d) == [x EXCEPT !.tasks = (@ \ {t}) \cup {Task(k, at, d)}]
Done(x, t) == [x EXCEPT !.tasks = @ \ {t}]
-----------------------------------------------------------------------------
(* The controller and the user.                                            *)

StartUp ==
  /\ ~ui.started /\ ui' = [ui EXCEPT !.started = TRUE]
  /\ ix' = StartIndex(ix) /\ notices' = Published(ix', FALSE)
  /\ UNCHANGED <<durable, cache, changed, lost, bounds>>

\* _on_vector_index_status_changed: a refresh when the index becomes ready
OnStatus ==
  /\ notices # <<>> /\ notices' = Tail(notices)
  /\ IF Head(notices) = "down"
     THEN ui' = [ui EXCEPT !.available = FALSE] /\ UNCHANGED ix
     ELSE /\ ui' = [ui EXCEPT !.available = TRUE, !.refreshed = TRUE]
          /\ ix' = IF ui.refreshed /\ ui.available THEN ix ELSE RefreshIncremental(ix)
  /\ UNCHANGED <<durable, cache, changed, lost, bounds>>

\* A memory is added, replaced or removed, or a persona imported; the main thread
\* hears of it later.
Change(c) ==
  /\ ui.started /\ changes < MaxChanges /\ changes' = changes + 1
  /\ \E s \in SUBSET Targets[c] : s # docs[c] /\ docs' = [docs EXCEPT ![c] = s]
  /\ changed' = changed \cup {IF c = "persona" THEN "persona" ELSE "memory"}
  /\ UNCHANGED <<active, building, ix, cache, notices, ui, lost, requests, faults, crashes>>

\* _request_incremental_index_refresh, and _rebuild_persona_index after an import
OnChanged ==
  /\ \E what \in changed :
       /\ changed' = changed \ {what}
       /\ ix' = IF what = "memory" THEN RefreshIncremental(ix) ELSE RebuildPersona(ix)
  /\ UNCHANGED <<durable, cache, notices, ui, lost, bounds>>

Request ==
  /\ ui.started /\ requests < MaxRequests /\ requests' = requests + 1
  /\ \/ ix' = Rebuild(ix)
     \/ /\ ix.busy = {}                     \* retry_backend
        /\ ix' = [ix EXCEPT !.busy = {"retry"}, !.tasks = @ \cup {Task("retry", "vector", Nothing)}]
  /\ UNCHANGED <<durable, cache, notices, ui, changed, lost, changes, faults, crashes>>

\* What was pending is run; the rebuild after a change of the model as well.
RunPending(t) ==
  /\ t.k \in {"run_persona", "run_incremental", "run_rebuild"}
  /\ ix' = CASE t.k = "run_persona"     -> RebuildPersona(Done(ix, t))
             [] t.k = "run_incremental" -> RefreshIncremental(Done(ix, t))
             [] t.k = "run_rebuild"     -> Rebuild(Done(ix, t))
  /\ lost' = (lost \/ (t.k = "run_rebuild" /\ ~CanRebuild(ix)))
  /\ UNCHANGED <<durable, cache, notices, faults>>
-----------------------------------------------------------------------------
(* The data thread.                                                        *)

\* recover_interrupted_generations, and the vectors of active documents
Recovered == building' = [c \in Corpora |-> None]
View == [c \in Corpora |-> [active[c] EXCEPT !.has = @ \cap docs[c]]]

Load(t) ==
  /\ t.k = "load" /\ Recovered
  /\ ix' = Next1(ix, t, "loaded", "main", View)
  /\ UNCHANGED <<docs, active, cache, notices, lost, faults>>

New == [c \in Corpora |-> docs[c] \ active[c].has]

BeginIncremental(t) ==
  /\ t.k = "begin_incremental"
  /\ ix' = Next1(ix, t, "seeded", "main",
                 [gens |-> [c \in Corpora |-> active[c].gen], docs |-> New,
                  rebuild |-> \E c \in Corpora : active[c].gen = None])
  /\ UNCHANGED <<durable, cache, notices, lost, faults>>

\* upsert of each vector, in transactions of their own, then _load_persisted:
\* it stops at the first document that is not active any more.
Mine(c, t) == active[c].gen = t.d.gens[c]
StillActive(t) == \A c \in Corpora : t.d.docs[c] \subseteq docs[c] /\ (t.d.docs[c] # {} => Mine(c, t))
PersistIncremental(t) ==
  /\ t.k = "persist"
  /\ \/ /\ StillActive(t) /\ Recovered
        /\ active' = [c \in Corpora |-> [active[c] EXCEPT !.has = @ \cup t.d.docs[c]]]
        /\ ix' = Next1(ix, t, "refreshed", "main", [c \in Corpora |-> [active'[c] EXCEPT !.has = @ \cap docs[c]]])
     \/ /\ ~StillActive(t) /\ UNCHANGED building
        /\ \E s \in [Corpora -> SUBSET (Memories \cup Reflections \cup Knowledge)] :
             /\ \A c \in Corpora : s[c] \subseteq t.d.docs[c] \cap docs[c] /\ (s[c] # {} => Mine(c, t))
             /\ active' = [c \in Corpora |-> [active[c] EXCEPT !.has = @ \cup s[c]]]
        /\ ix' = Next1(ix, t, "failed", "main", Work("incremental"))
  /\ UNCHANGED <<docs, cache, notices, lost, faults>>

Reload(t) ==
  /\ t.k = "reload" /\ Recovered
  /\ ix' = Next1(ix, t, "refreshed", "main", View)
  /\ UNCHANGED <<docs, active, cache, notices, lost, faults>>

\* begin_..._generation, in each corpus of cs, with the documents of now
Newer == 1 + Max({active[c].gen : c \in Corpora} \cup {building[c] : c \in Corpora})
BeginGenerations(cs, t) ==
  /\ building' = [c \in Corpora |-> IF c \in cs THEN Newer ELSE building[c]]
  /\ ix' = Next1(ix, t, "embed", "vector", [gen |-> Newer, cs |-> cs, docs |-> docs])
  /\ UNCHANGED <<docs, active, cache, notices, lost, faults>>

BeginRebuild(t) == t.k = "begin_rebuild" /\ BeginGenerations(Corpora, t)
BeginPersona(t) == t.k = "begin_persona" /\ BeginGenerations({"persona"}, t)

\* activate(): refused when the documents are not those that were embedded.
DocumentsUnchanged(t) == \A c \in t.d.cs : docs[c] = t.d.docs[c]

Built(c, t) == [gen |-> t.d.gen, has |-> t.d.docs[c], old |-> FALSE]
Activated(cs, t) ==
  /\ active' = [c \in Corpora |-> IF c \in cs THEN Built(c, t) ELSE active[c]]
  /\ building' = [c \in Corpora |-> IF c \in cs THEN None ELSE building[c]]

StillBuilding(cs, t) == \A c \in cs : building[c] = t.d.gen

\* What is pending does not build all corpora again: a refresh cannot replace
\* generations of an older model, nor can the rebuild of an imported persona.
GivenUp(t) ==
  t.d.cs = Corpora /\ \E c \in Corpora : active[c].old \/ (active[c].gen = None /\ docs["persona"] # t.d.docs["persona"])

Activate(t) ==
  /\ t.k = "activate"
  /\ \/ /\ DocumentsUnchanged(t) /\ StillBuilding(t.d.cs, t)
        /\ Activated(t.d.cs, t)
        /\ ix' = Next1(ix, t, "rebuilt", "main", t.d)
        /\ lost' = (lost /\ t.d.cs # Corpora) /\ UNCHANGED faults
     \/ /\ ~(DocumentsUnchanged(t) /\ StillBuilding(t.d.cs, t))
        /\ ix' = Next1(ix, t, "mark_failed", "data", t.d)
        /\ lost' = (lost \/ GivenUp(t)) /\ UNCHANGED <<active, building, faults>>
     \/ /\ DocumentsUnchanged(t) /\ StillBuilding(t.d.cs, t)   \* fails after the first one
        /\ faults < MaxFaults /\ faults' = faults + 1
        /\ Activated(t.d.cs \cap {"reflection"}, t)
        /\ ix' = Next1(ix, t, "mark_failed", "data", t.d)
        /\ UNCHANGED lost
  /\ UNCHANGED <<docs, cache, notices>>

\* _mark_rebuild_failed
MarkFailed(t) ==
  /\ t.k = "mark_failed"
  /\ building' = [c \in Corpora |-> IF building[c] = t.d.gen THEN None ELSE building[c]]
  /\ ix' = Next1(ix, t, "failed", "main", Work("rebuild"))
  /\ UNCHANGED <<docs, active, cache, notices, lost, faults>>

WorkOf(t) == CASE t.k = "load" -> "load" [] t.k \in {"begin_incremental", "persist", "reload"} -> "incremental"
               [] OTHER -> "rebuild"

\* A data operation fails, or the data thread does not take it.
DataFails(t) ==
  /\ t.at = "data" /\ faults < MaxFaults /\ faults' = faults + 1
  /\ ix' = IF t.k = "activate" THEN Next1(ix, t, "mark_failed", "data", t.d)
           ELSE Next1(ix, t, "failed", "main", Work(WorkOf(t)))
  /\ UNCHANGED <<durable, cache, notices, lost>>
-----------------------------------------------------------------------------
(* The main thread: what the data thread answers.                          *)

Loaded(t) ==
  /\ t.k \in {"loaded", "refreshed"}
  /\ ix' = Next1(ix, t, IF t.k = "loaded" THEN "load_caches" ELSE "swap_caches", "vector", t.d)
  /\ UNCHANGED <<cache, notices>>

\* _on_incremental_seeded; the rebuild it may ask for is refused like any other.
Seeded(t) ==
  /\ t.k = "seeded"
  /\ ix' = CASE t.d.rebuild -> Rebuild([Done(ix, t) EXCEPT !.busy = @ \ {"incremental"}])
             [] ~t.d.rebuild /\ (\A c \in Corpora : t.d.docs[c] = {}) -> Next1(ix, t, "reload", "data", Nothing)
             [] OTHER -> Next1(ix, t, "embed_new", "vector", t.d)
  /\ UNCHANGED <<cache, notices>>

\* Mutant: the caches keep the vectors of the generation before.
NotSwapped(t) == cache
Swapped(t) == [c \in Corpora |-> IF c \in t.d.cs THEN Built(c, t) ELSE cache[c]]

\* _finish_rebuild_success, _finish_persona_rebuild_success
Rebuilt(t) ==
  /\ t.k = "rebuilt" /\ cache' = Swapped(t)
  /\ ix' = Finish(Done(ix, t), "rebuild", "main")
  /\ notices' = Published(ix, TRUE)

\* The _finish_..._failure functions
Failed(t) ==
  /\ t.k = "failed"
  /\ ix' = Finish(Done(ix, t), t.d.work, "main") /\ notices' = Published(ix, FALSE)
  /\ UNCHANGED cache

OnMain(t) ==
  /\ t.at = "main"
  /\ \/ (Loaded(t) \/ Seeded(t) \/ Rebuilt(t) \/ Failed(t)) /\ UNCHANGED <<durable, lost, faults>>
     \/ RunPending(t)
-----------------------------------------------------------------------------
(* The vector thread.                                                      *)

\* _require_backend: opens it when there is none.
Opened(x) == IF x.backend = "none" THEN [x EXCEPT !.backend = "ready"] ELSE x
Usable == ix.backend # "unavailable"

\* The snapshots of a load, unless they are of another model
LoadCaches(t) ==
  /\ t.k = "load_caches" /\ Usable
  /\ IF \E c \in Corpora : t.d[c].old
     THEN /\ ix' = [Opened(Done(ix, t)) EXCEPT !.busy = @ \ {"load"}, !.persona = FALSE,
                      !.incremental = @ /\ ix.persona, !.tasks = @ \cup {Task("run_rebuild", "main", Nothing)}]
          /\ notices' = Published(ix', FALSE) /\ UNCHANGED cache
     ELSE /\ ix' = Finish(Opened(Done(ix, t)), "load", "vector")
          /\ cache' = t.d /\ notices' = Published(ix', TRUE)
  /\ UNCHANGED faults

\* All batches of a rebuild, or of an incremental refresh
Embedded(t, k) == ix' = Next1(Opened(ix), t, k, "data", t.d) /\ UNCHANGED <<cache, notices, faults>>
Embed(t)    == t.k = "embed" /\ Usable /\ Embedded(t, "activate")
EmbedNew(t) == t.k = "embed_new" /\ Usable /\ Embedded(t, "persist")

\* The backend is unavailable, or fails now and is given up (_disable_backend).
BackendFails(t) ==
  /\ \/ ~Usable /\ UNCHANGED faults
     \/ Usable /\ faults < MaxFaults /\ faults' = faults + 1
  /\ LET x == Disabled(ix)
     IN  \/ t.k = "load_caches" /\ ix' = [Done(x, t) EXCEPT !.busy = @ \ {"load"}, !.persona = FALSE,
                                                         !.incremental = @ /\ x.persona]
         \/ t.k = "embed"       /\ ix' = Next1(x, t, "mark_failed", "data", t.d)
         \/ t.k = "embed_new"   /\ ix' = Finish(Done(x, t), "incremental", "vector")
  /\ notices' = (IF t.k = "embed" THEN notices ELSE Published(ix', FALSE)) /\ UNCHANGED cache

\* The snapshots after an incremental refresh
SwapCaches(t) ==
  /\ t.k = "swap_caches" /\ UNCHANGED faults
  /\ IF \E c \in Corpora : t.d[c].old
     THEN ix' = Finish(Done(ix, t), "incremental", "vector") /\ notices' = Published(ix, FALSE) /\ UNCHANGED cache
     ELSE /\ cache' = t.d
          /\ ix' = Finish(Done(ix, t), "incremental", "vector") /\ notices' = Published(ix, TRUE)

\* retry_backend: start() follows a success; flags that are pending stay so.
Retry(t) ==
  /\ t.k = "retry" /\ UNCHANGED cache
  /\ \/ /\ ix' = StartIndex([Done(ix, t) EXCEPT !.busy = @ \ {"retry"}, !.backend = "ready"])
        /\ UNCHANGED <<notices, faults>>
     \/ /\ faults < MaxFaults /\ faults' = faults + 1
        /\ ix' = [Disabled(Done(ix, t)) EXCEPT !.busy = @ \ {"retry"}]
        /\ notices' = Published(ix', FALSE)

OnVector(t) ==
  /\ t.at = "vector"
  /\ \/ (LoadCaches(t) \/ Embed(t) \/ EmbedNew(t) \/ BackendFails(t) \/ SwapCaches(t) \/ Retry(t)) /\ UNCHANGED <<durable, lost>>
     \/ RunPending(t)

\* A query of the chat opens the backend or finds it broken.
Query ==
  /\ Usable /\ UNCHANGED <<durable, cache, ui, changed, lost, changes, requests, crashes>>
  /\ \/ ix.backend = "none" /\ ix' = Opened(ix) /\ UNCHANGED <<notices, faults>>
     \/ /\ faults < MaxFaults /\ faults' = faults + 1
        /\ ix' = Disabled(ix) /\ notices' = Published(ix', FALSE)
-----------------------------------------------------------------------------
OnData(t) ==
  Load(t) \/ BeginIncremental(t) \/ PersistIncremental(t) \/ Reload(t) \/ BeginRebuild(t) \/ BeginPersona(t) \/ Activate(t)
  \/ MarkFailed(t) \/ DataFails(t)

\* A task of a running chain is done.
Step == /\ \E t \in ix.tasks : OnData(t) \/ OnMain(t) \/ OnVector(t)
        /\ UNCHANGED <<ui, changed, changes, requests, crashes>>

Crash ==
  /\ crashes < MaxCrashes /\ crashes' = crashes + 1
  /\ ix' = Fresh /\ cache' = Empty /\ notices' = <<>> /\ changed' = {} /\ lost' = FALSE
  /\ ui' = [started |-> FALSE, available |-> FALSE, refreshed |-> FALSE]
  /\ UNCHANGED <<durable, changes, requests, faults>>

Next ==
  \/ StartUp \/ OnStatus \/ (\E c \in Corpora : Change(c)) \/ OnChanged \/ Request
  \/ Step \/ Query \/ Crash

Spec == Init /\ [][Next]_vars

\* The threads run what they were given, and the process is started.
Fairness == WF_vars(StartUp) /\ WF_vars(OnStatus) /\ WF_vars(OnChanged) /\ WF_vars(Step)
FairSpec == Spec /\ Fairness
-----------------------------------------------------------------------------
(* A rebuild in flight is not failed by the recovery that another operation    *)
(* starts with: what is built stays building until its chain ends.            *)
BuildIsNotStolen ==
  \A t \in ix.tasks : t.k \in {"embed", "activate"} => \A c \in t.d.cs : building[c] = t.d.gen

(* What is searched is of an active generation of this model, unless the      *)
(* rebuild that activated another one is about to swap the caches, or failed. *)
CacheIsActive ==
  faults = 0 => \A c \in Corpora :
    cache[c].gen \in {None, active[c].gen} \/ \E t \in ix.tasks : t.k = "rebuilt"

(* Both. *)
IndexIsSound == BuildIsNotStolen /\ CacheIsActive

(* Without failures, however changes, imports, restarts and requests fall,    *)
(* the caches come to hold the vectors of exactly the active documents.       *)
(* (lost: the first rebuild, or the one a change of the model asks for, was    *)
(* refused because a refresh came before it, or failed because the documents  *)
(* changed under it, and what follows it does not build all corpora again.)   *)
Caught == \A c \in Corpora : cache[c].has = docs[c] /\ cache[c].gen # None
Excused == faults > 0 \/ lost
CatchesUp == <>[](Excused \/ Caught)

(* A change of the embedding model is followed by a rebuild (it starts by     *)
(* itself when the index is loaded), so in the end no generation of the older *)
(* model is active.                                                          *)
AnotherModelIsReplaced == <>[](faults > 0 \/ \A c \in Corpora : ~active[c].old)
=============================================================================
