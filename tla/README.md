# Formal model of the Amadeus desktop pet

Amadeus is a desktop pet for Windows: one PySide6 process that chats through an HTTP language-model
provider, keeps everything it knows in one SQLite database, and works on that knowledge in the
background. This directory holds TLA+ specifications of its core, the TLC models that check them, and
TLAPS proofs. Paths below are relative to `src/desktop/src/amadeus_desktop/` unless they begin with `src/`.

Tools: `tlc -config X.cfg M` checks a model `M`, `tlapm M.tla` the proofs of a module `M` (`QueueTheorems` and every
`*Proofs`).
`PROJECT.json` says which source lines each definition stands for, and lists runs, mutants and hazards.

## 1. The system

### Threads and how they talk

* The **Qt main thread** runs every slot, timer and `singleShot(0)` callback to its end, one at a time.
  All coordinators live on it. Their state needs no locks; what is hard is that each of them waits for
  answers that come in an order nobody fixed, and that a slot emits signals whose receivers run inside it.
* The **data thread** (`data_runtime.py`) owns SQLite. `submit` puts a closure into a priority queue;
  the answer is posted to the main thread. An operation may consist of several transactions, so it can be
  cut in the middle by a crash or by a failure.
* **Provider workers**: a `QThread` per request runs `asyncio` over HTTP and reports chunks and one
  outcome. Cancelling only asks it to end; its thread lives on for a while and may still report.
* An **embedding thread** (`vector_runtime.py`), **audio and capture threads** of Qt.
* The process may end at any point; the database, the settings file and the files of a restore survive.

### Components

| component | state it keeps | operations | talks to |
|---|---|---|---|
| restore transaction (`data_management.py`) | four live files, `.rollback`, `.new`, `.recover` copies, a marker file, attachment objects | `apply_validated_restore`, `recover_interrupted_restore`, in-process rollback, cleanup | application start (before anything is opened), the controller (services stopped) |
| data windows (`controller.py`) | `_data_change_state`, a staged restore, paused services | backup, restore, reset, clear memories, exit | everything that writes |
| chat provider (`chat_provider.py`) | a bound task with its cancellation token, the parser of events, the filter of thoughts | stream one reply, cancel | the worker threads, an HTTP service |
| conversation (`conversation.py`) | shown turns, state, the request being prepared / active / finalized, contexts with worker threads, an unsaved checkpoint, timers | send, retry, stop, shutdown, chunks and outcomes, timeouts | data service, provider worker, controller |
| durable turns (`local_data_service.py`, `conversation_store.py`) | message rows with status, attempt and text; pending prompt preparations; `_writable` | two-stage preparation, checkpoint, finalization, start-up recovery, settings of memory, history pages | data thread, vector index, conversation |
| memory jobs (`memory_job_coordinator.py`) | one execution, a claim in flight, a pending launch, pause / foreground / memory flags | poll, claim, prepare, generate, persist, retry, preempt, pause, shutdown | job table, shared runner, controller |
| deep memory jobs (`deep_memory_coordinator.py`) | the same for cycles of deep memory | claim, prepare (signals, then synthesis), persist, fail with delay | job table, the same runner |
| background runner (`background_generation.py`) | one generation with its thread, paused, shut down | start, cancel, pause, resume | its owners, the proactive greeting |
| job table (`BackgroundJobStore`) | rows with status, attempts, due time | enqueue, claim, mark, recover interrupted, retry failed | both coordinators |
| controller (`controller.py`) | the foreground lane with one pending action, data-change and provider-switch states | gives way to chat, opens exclusive windows, shuts everything down | everything |
| vector index (`vector_index.py`, `vector_store.py`, `vector_runtime.py`) | generations per corpus, caches, one rebuild or refresh | load, rebuild, incremental refresh, query | data thread, embedding thread |
| memories (`memory_store.py`, `deep_memory_store.py`) | facts with versions; reflections and impressions with evidence, sources and conflicts | upsert, edit, dispute, archive, delete, synthesize, promote, merge, suppress, re-evaluate | data thread operations, deep memory jobs |
| reminders (`reminder_scheduler.py`, `temporal_commitments.py`) | due scan in flight, deliveries in flight, nearest timer; commitments with versions | wake, scan, notify, mark surfaced, snooze, recur | data service, notifications |
| proactive greetings (`proactive_controller.py`) | one opportunity, one visible greeting, the AI lane | evaluate, generate, display, dismiss | data service, runner, controller |
| voice session (`voice_session.py`, `speech_runtime.py`, `audio_runtime.py`) | token of the epoch, state, queues of speech and playback | push to talk, hands-free, transcribe, speak, interrupt | conversation, audio |
| visual sources (`visual_runtime.py`) | one active source, latest frame | start, stop, capture | controller |
| providers (`provider_profiles.py`, `provider_router.py`, `credential_store.py`) | profiles, catalog, credentials | replace profiles, capture a request snapshot, switch | conversation, controller |
| attachments (`attachments.py`, `attachment_runtime.py`) | staged and stored objects | import, cancel, collect orphans | conversation, restore |
| single instance (`single_instance.py`) | the local server | acquire, notify, close | application start |

`PROJECT.json` lists these and the remaining parts (widgets, animation, persona files, logging, packaging).

### What is hard

* **Interleaving and stale answers.** Chat, a provider switch, the memory setting and shutdown interrupt a
  job between any two of claim, preparation, generation and persisting, and the answers of the interrupted
  steps still arrive. Each coordinator recognizes its own answers by a different means: a request id, a
  generation number, a flag.
* **Two coordinators, one runner.** Both wake when it becomes idle, both cancel what the other started.
* **Multi-transaction operations.** A finalization writes the row and then enqueues jobs, an extraction
  applies candidates, counts the turn, schedules a cycle and then marks the job.
* **Crashes.** Rows left pending or running are recovered at the next start; a restore is finished or undone.
* **Answers that open dialogs.** A question asked of the data thread is answered later, the answer opens a modal
  dialog, and what was checked before the question may no longer hold when the user says yes.
* **Two stores, one meaning.** A key lives in the credential store and its profile in a file, a message names a file
  on disk, a derived memory rests on facts that change in another transaction.
* **Liveness.** A request refused by a busy runner, a turn whose thread has not ended, a claim whose answer
  was dropped: each waits for one particular event, and somebody must emit it.

### What makes each part correct

* Restore: the live files are always one image, the old or the new, for whoever opens them; the report is
  true; the way back is durable before the first file changes; everything temporary is gone at the end.
* Jobs: one job in work, each row finished once and by its owner, no lost wake-up, chat stops generation,
  summaries cover the conversation without gap or overlap, a valid row fails only after its attempts.
* Conversation: one request at a time, its row durable before the provider is asked, what is shown as saved
  is saved, a completed reply never changes, the conversation becomes ready again after every turn.
* Chat provider: a completed reply is the whole one (but for the text section 5 tells of), no thought of the model is ever
  shown, a cancelled request ends.
* History: a message goes into the conversation that was shown when it was sent, or when the picture it takes along was
  there; deleted text does not come back; a change unlocks what it locked.
* Data windows: what is replaced or removed has drained and is in the backup, nothing replies in between.
* Memories: what is put in prompts rests on facts that are current, and nothing outlives a fact it was made from.
* Vector index: nothing built is stolen, what is searched is active, the caches catch up with every change.
* Reminders: a version is delivered once unless something failed, what is marked was shown, nothing due is forgotten.
* Greetings: one greeting for one consent, no more than the daily limit, and always an end.
* Voice: only sentences of the current reply are heard, and a reply ends whichever part of it ends last.
* Providers: keys and configurations belong together through every failure; "kept" means kept.
* Attachments and visual sources: a saved attachment has its file unless a deletion could not know of it, an archive is
  whole, a frame is of what is shown as shared.

## 2. Modules

```
AtomicRestore  <==(refinement)==  RestoreTransaction  <--  MCRestoreTransaction
                                                      <--  RestoreTransactionProofs
JobsWorld     <--  MemoryJobs  <--  MCMemoryJobs
                               <--  MemoryJobsProofs
              <--  DeepJobs    <--  MCDeepJobs
                               <--  DeepJobsProofs
Conversation  <--  MCConversation
              <--  ConversationProofs
MemoryStores  <--  MemoryStoresProofs

Components  ==(INSTANCE ... WITH)==>  MemoryJobs, MemoryStores, VectorIndex, ReplyStream, History, DataWindow,
                                      Reminders, Greetings, Voice, Providers, Attachments, VisualSources
Components  <--  MCComponents
            <--  CompanionProofs     (reminders, voice, greetings)
            <--  ComponentsProofs    (the others) ==(INSTANCE ... WITH)==> MemoryJobsProofs, MemoryStoresProofs
```

`<--` is EXTENDS. The proof modules but `RestoreTransactionProofs` and `MemoryStoresProofs` also extend
`QueueTheorems`, the lemmas about queues. The MC modules only name small constant values for TLC. In every module a
definition whose comment begins with *Mutant* is a wrong version of the definition below it; it is not part of the
specification and shows that a property can fail. Where a property is a conjunction of named parts, one of them is
the mutant `PROJECT.json` lists; the other mutants beside it in the module break the other parts.

### Components

Twelve components are checked by two runs and proved about in two modules. `Components` instantiates each of them over
the same 25 variables, with constants of its own that carry the component's name (`HistoryMaxSends`), and
`ComponentsAssumption` says what is assumed of them; the variable `part` says which component a behaviour is of and
never changes. In these modules the components share no state, so a product of them would only multiply independent
interleavings; the union has exactly the behaviours of each one. The fairness conditions of the components are
paired in the same way (`Fair1` to `Fair7`): since `part` is fixed, weak fairness of the disjunction is weak fairness
of the disjunct of that component. A property is the component's own, claimed of the behaviours of its part. Where
components do interact, the interaction is inside one module: `DataWindow` has the chat, the jobs and the greetings the
window holds off, `History` the chat that sends and retries, `DeepJobs` what the other coordinator does to the runner,
`Attachments` conversations, messages and backups.

### AtomicRestore and RestoreTransaction

`RestoreTransaction` models `apply_validated_restore`, `recover_interrupted_restore` and their helpers
(`data_management.py`), with the frame of `app.py` that calls recovery before settings and SQLite are opened.
State: `live`, `rollback`, `fresh`, `recovery` are the files (contents, `Absent`, or `Partial` for a copy that
was not completed); `marker` is the durable transaction marker with the checksums abstracted to contents; `pc`
is the next file operation; `caller` tells whose frame it runs in, because an exception goes to different
handlers in a start, at the entry of apply, inside the transaction and inside the in-process recovery. One
action is one durable file operation: `Build`, `Snapshot`, `StageNew`, `MarkPrepared`, `ReplaceDatabase`,
`DropWal`, `DropShm`, `ReplaceSettings`, `MarkCommitted`, `NoteCommitted`, `Sweep` for apply, `ReadMarker`,
`VerifyRollback`, `VerifyNew`, `VerifyOld`, `PutBack`, `Swap`, `MarkFinished`, `Clean`, `Unmark` for recovery.
Between any two of them `Crash` ends the process and `Fail` raises. `Vanish` lets something else remove a file
while the program is closed. `Work` is a session that rewrites the files.

`AtomicRestore` is what callers rely on: one image that a session changes at will and that a restore replaces
at once. The refinement mapping `Recovered` reads from the disk which image a start would end with: the live
files without a marker, the old image under `prepared` and `rolled_back`, the new one once `committed` is
durable. `ImplementsAtomicRestore` says that every step of the transaction, crashes included, is a step of
`AtomicRestore` or invisible to it; the instant of the restore is the renaming of the commit marker.

### JobsWorld, MemoryJobs, DeepJobs

`JobsWorld` holds what both coordinators use: the job rows with `StoreEnqueue`, `StoreClaim`, `StoreMark`,
`StoreRecover`, `StoreRetryFailed`; the data thread as a queue `dataQ` whose head may take several steps (one
per transaction of the closure); the answers as a queue `mainQ`; and the runner with one generation `gen`
(cancelled, terminal, thread state), whose worker reports one outcome and whose thread ends later.

`MemoryJobs` has one action per slot of `MemoryJobCoordinator`. `current` is `_current` with the flag that it is
being finalized, `pendingLaunch` is `_pending_launch`, the six flags carry their names. Where a slot ends with
`poll()`, the poll is part of the action (`PollAfter`). Chat (`SetForegroundActive`), provider switches and
data changes (`Pause`, `Resume`), the setting (`SetMemoryEnabled`), shutdown, crash and restart are actions of
the environment. `covered` and `latest` are the cursor of summaries; `noted` counts how often the turn of a
job was added to the completed-turn counter, which is a history the code cannot undo. `Malformed` are the jobs whose
payload `_validate_job_payload` refuses; `AfterClaim` gives such a row its failure at once.

`DeepJobs` does the same for `DeepMemoryJobCoordinator`. What the other coordinator does to the shared runner
(`OtherStarts`, the pause it issues for chat, the cancellation it causes) appears as environment; the order of
the two calls in `_set_foreground_lane_active` is kept, because the second call cancels what the first one's
coordinator generates and the callback runs between them.

### Conversation

`Conversation` models one visible chat from the request of the user to the durable reply:
`_begin_foreground_action`, `_dispatch_pending_foreground_action`, the lane timeout and `_stop_voice_chat` of
the controller (`Ask`, `Dispatch`, `LaneTimeout`, `StopVoice`), the whole `ConversationCoordinator`, the two
preparation stages, checkpoint and finalization of `LocalDataService` (`DoStageOne`, `OnSeed`, `RetrievalEnds`,
`DoStageTwo`, `DoCheckpoint`, `DoFinalize`) and the rows of `ConversationStore`. `prep`, `active` and `final` are
`_pending_preparation_turn_id`, `_active_request_id` and `_pending_finalization`; `contexts` are the requests with
their workers; `turns` is what is shown and `rows` what is stored. A request id is the pair of turn and attempt.
`mainQ` carries the signals of the data thread and the workers, `soon` the `singleShot(0)` callbacks the code
relays its answers through; the two queues are not ordered among each other, so a stop, a timeout or an outcome
can come between an answer and its callback. `SetState` includes what the controller does on `state_changed`.
A stage one that raises after its first transaction, a failing stage two that marks its row failed, and a
finalization that raises after the row is written are outcomes of `DataFault`.

### ReplyStream

One request of `chat_provider.py`, between `Conversation` (whose worker makes it) and the service. `pc` is where the
worker's coroutine stands: bound to its `CancellationToken`, preparing, sending, reading, closing, unbinding.
`flag` is the token's event, `canceller` the thread inside `cancel()`, `soon` the `call_soon_threadsafe` it leaves;
`Prepare`, `Respond`, `Interrupt` and `Finish` are the points at which a cancellation can strike. The service sends
`Script`, the events of the protocol with the text cut at any place (`SendText`), may leave events out (`Omit`), send
what it must not (`Misbehave`) or close. `parser` is the reader of one protocol with its length limit, `filter` the
three modes of `ThinkingSafeProvider`, or `overflow` for a thought that never closes within `_MAX_SSE_EVENT_CHARS`. A
reply is a sequence of tokens. `"<th"` and `"ink>"` are the halves of a tag, `"sharp"` is a part of a thought that
`casefold()` makes longer: the closing tag is found in the folded text and the text itself is cut there (`Behind`).

### History

Which conversation is shown, written to and deleted. `cursor` is `_current_conversation_id` of `LocalDataService`, which
every answer of the data thread may move; `change` is the pending switch, creation, deletion or clear of the
controller; `question` and `dialog` are the reminder count asked before a deletion and the modal dialog that its answer
opens; `chat` waits for the lane, is active, or idle. `urgent` and `normal` are the two priorities of the data thread.
`saved` is where each message is stored, `typed` the conversation that was shown when it was sent. With live vision on
the latest picture is imported first (`SendWithPicture`); until it is there (`OnPicture`) the message is in `framing`
and nowhere else, no action is pending, and the history may change. `fixed` is the conversation shown when it was
queued again.

### DataWindow

`_data_change_state` (`window`) and the steps of backup, restore, reset and clearing: dialog, pre-restore backup,
quieting the services, draining the data thread, replacing or removing files. `chat`, `work` and `greeter` are what it
must hold off. The data thread has its three priorities. `live` are the pieces of user data, `agreed` those on disk
when the user agreed to a restore, `backup` those in the archive made before it, `lost` those the replacement removed.

### MemoryStores

The tables of facts, reflections and impressions. An action is an operation of `MemoryStore` or `DeepMemoryStore` as
`LocalDataService` or a job calls it: upsert, edit, confirm, rebut, dispute, resolve, archive, restore, delete,
decay; writing a synthesis, promotion, merge, conflict and its resolution; clearing. `second` is the second
transaction (suppress, re-evaluate or cascade) that some operations need after their first one; it may be lost. `offer`
and `asked` are what a job was given when it was prepared, so its answer is written over whatever came in between.
The key of a write names the offered facts, but for an answer whose structure was repaired, which has lost its
`batch_key` and falls back to the job (`NoKey` in `Persist`). `vouched`, `untold` and `knows` are histories for the
properties; `vouched` are facts somebody restored or confirmed, and a confirmation may be one that the evidence job
reads out of a message.

### VectorIndex

Each corpus has its active documents (`docs`), an active generation (`active`), perhaps one being built (`building`),
and a cache. An operation of `VectorIndexCoordinator` is the chain of callbacks of the code, one `Step` per task:
recover and load, begin generations, embed, activate, mark failed; begin, embed, persist and reload of a refresh.
`ix` holds the coordinator's flags (`busy`, the pending ones). `StartUp`, `OnStatus` and `OnChanged` are the controller's
share; `Change` is a memory, reflection or persona import that changes the documents; `Crash` restarts the process.

### Reminders

The commitments with status, version and due time; the foreground and the interactive operations of the data thread;
`ReminderScheduler` (`running`, `scanPending`, `inFlight`) and the controller's bubble. A scan makes due what is due
and answers what it found; a delivery shows it and submits the mark; user operations, edits in the chat, failures,
session lock and crashes come in between. `shown` counts the deliveries of the current version.

### Greetings

`ProactiveInteractionController` with its request to count, to select a cue, to generate and to store the display; the
ledger (`events`); the cues with consent, confirmation and revocation; the runner it shares. The trigger that
revokes a cue and the check of its table are part of the action that changes a memory. A proposal is numbered by the
opportunity it was made for and by its cue, as its `cue_id` is drawn. `late` records that an opportunity began while
something of an earlier one could still answer; the daily limit is claimed of the behaviours without it, since the
code takes such an answer for one to the present opportunity (section 5).

### Voice

`VoiceSessionController` (`s`: state, token, flags), the transcription and synthesis lanes with their signals through
`mainQ`, the playback queue, and as much of the chat as the session sees: it starts or refuses, sends sentences,
completes or fails. A token is the number of its utterance.

### Providers

The provider page, its connection test, `_save_model_provider_settings` and `_save_voice_configuration` step by step
with the rollback of each, the settings file, the credential store and the requests of `ProviderRouter`. The keys of
failed and crashed saves are in the model; `paired` remembers the key a profile was enabled with.

### Attachments

Content-addressed objects (`files`), message rows and drafts that name them, the import worker for the panel or for the
picture of a message, the cleanup that runs after a deletion with the paths protected when it was confirmed, and a
backup that snapshots the rows, writes the archive and compares it before it is kept. A message waits for the lane
(`Send`, `Dispatch`, `Drop`). A deletion is asked for while the chat is idle (`AskDelete`, `asked` from the count to the
dialog) and queued when the user agrees (`Yes`), with nothing looked at again. `current` is the conversation of the
panel, `cursor` the one the service writes to.

### VisualSources

Screen, window and camera with their encoder threads, the capture thread of the window, the permission dialog of the
camera, and `VisualSourceManager` with the latest frame. Pictures are numbered; `began` is the number at which
sharing last started.

Texts, prompts, memory contents, JSON validation and widgets are left out everywhere: no property speaks of them.

## 3. Runs

| run | model and configuration | checks |
|---|---|---|
| `restore_safety` | MCRestoreTransaction, MCRestoreSafety.cfg | types; the outcome is sound (nothing temporary is left, every object the database names is on disk, the report is true); a session never meets a transaction; live files change only under a prepared marker; refinement of AtomicRestore |
| `restore_live` | MCRestoreTransaction, MCRestoreLive.cfg | recovery never fails closed when nobody else removes files; every transaction is finished by this process or a later start |
| `memory_live` | MCMemoryJobs, MCMemoryLive.cfg | two summary jobs of one conversation: summaries are contiguous; every job ends |
| `deep_one_job` | MCDeepJobs, MCDeepOne.cfg | with a single job: its running row is always in work, finalized by its owner, cancelled by chat, failed only after its attempts; its result is applied again only after a fault |
| `conversation` | MCConversation, MCConversation.cfg | one request runs, idle is quiet and the lane free; an open request has an open row, what is shown as completed is saved, at rest what is shown is what is stored; a completed reply is final; the conversation returns to idle |
| `components_safety` | MCComponents, MCComponentsSafety.cfg | the safety properties of the twelve components, below |
| `components_live` | MCComponents, MCComponentsLive.cfg | the liveness properties of seven of them, below |
| `deep_overlap`, `conversation_lane`, `cue_change`, `visual_permission`, `history_during_reply` | MCDeepSerial.cfg, MCConversationLane.cfg, MCChangeRevokes.cfg, MCOneLiveSource.cfg, MCHistoryDuringReply.cfg | violations, see section 5 |

| part | properties |
|---|---|
| jobs (an extraction, and a summary with an invalid payload) | `SchedulingIsSound`: one known job runs, an execution is driven by a pending event, yielding cancels, the runner is released. `ResultsAreOwned`: one finalization per running row, a result belongs to its attempt, failure only after all attempts or for an invalid payload, a turn is counted again only by faults |
| memories | `SupportIsCurrent`, `DeletedLeavesNothing` |
| vectors | `IndexIsSound`: a build is not stolen, caches are of active generations. `CatchesUp` |
| stream | `CompletedIsWhole` (but for as many tokens after a thought as `casefold()` makes it longer), `ThoughtsStayHidden`, `RepliesEnd` (a cancelled request ends though the service is silent) |
| history | `HistoryIsKept`: messages are saved where they were typed, or shown when their picture was there, and the deleted stays deleted, unless the cursor `strayed`. `ChangesEnd` |
| window | `WindowIsSafe`: agreed data is backed up before it is replaced, the window is quiet, files go only when the data thread has drained. `ChangesEnd` |
| reminders | `DeliveriesAreTrue`: shown once, marked only what was shown. `DueIsDelivered` |
| greetings | `CueIsSpentOnce`, `DailyLimit`, `GreetingEnds` |
| voice | `PlaysTheReply`, `RepliesEnd` |
| providers | `KeysArePaired`: enabled profiles have their key on disk, requests read the key of what they captured, what runs was tested unless something failed. `KeptIsTrue` |
| attachments | `AttachmentsAreKept`: saved attachments have their file unless it is `loose` (a deletion could not know of it) or the deletion `strayed` (confirmed where it would be refused); archives are whole |
| sources | `FrameIsOfTheSharedSource` |

### Bounds, and why they are enough

* Restore: two contents, so that an old and a new image differ in every file and a mixture is visible; three
  attachment objects, of which the contents need overlapping sets; two faults, because the second one may hit
  the recovery of the first: at the start, or in-process and then again at the start. `MCRestoreLive` uses one
  content, as its properties do not compare images, and no vanishing files, which is their hypothesis.
* Memory jobs: two jobs, so that one is claimed while the other is being finished; two attempts, so that a retry and
  a final failure exist; two outside events (chat, a switch, the setting) and one fault. `memory_live` has two
  summaries of one conversation, which is what contiguity is about; the part `jobs` has one job of each kind, of which
  the summary has an invalid payload. The other failures that are not tried again (`memory_job_coordinator.py:401`,
  454, 522) are left out, because nothing reaches them: `_prepare_job` returns a `_PreparedJob` or raises, and the
  purposes are exactly the three that are told apart.
* Deep jobs: one job in the passing run, three outside events, one fault. With two jobs serialization fails
  (section 5), and the other invariants fail with it, since a finalization then acts on the other job.
* Conversation: two turns and three requests in all, so that a turn can be retried before or after another one
  was sent; replies of at most one chunk, so that an empty reply, a reply and an overlong reply exist; one crash
  or failed operation, which can fall on every step of every data operation. Two faults add crashes of runs
  whose durable state is one of those a single crash leaves.
* Reply stream: replies with no tag, half a tag, a whole one, one that never closes and one that does so beyond
  `MaxHidden`, a thought that `casefold()` makes longer, and a text beyond the limit; texts cut into events of up to two
  tokens; one event left out. A tag has two halves, so every cut of it exists.
* History: three conversations (the one shown, another, and the one that is created when all are gone), two
  changes, one message, with or without a picture, and its retry, one reminder, one failure.
* Data windows: two pieces of data, one from before and one from after the user agreed; two messages, three windows, so
  that a window can fail and another follow; one failure or timeout.
* Memories: two facts under two reflections and an impression, two versions of each, four operations of which one may
  lose its second transaction: support, promotion and the change below it need three.
* Vectors: two memories, a reflection and two persona documents; one change, one request, one failure, one restart.
* Reminders: an alarm and a follow-up, two steps of time, one operation of the user, one failure, one stop.
* Greetings: a cue of each kind, limit one, two days, two opportunities, two greetings shown, one change, one rare event.
* Voice: two utterances, three sentences (one more than the lanes hold), one failure.
* Providers: two profiles, two URLs, two keys; three edits before one save; two failures, so that a rollback can
  fail as well; one crash.
* Attachments: one content, which the panel, a draft, a row and a picture can all name, three conversations, two messages,
  imports and changes, one backup, one failure. The proof is for any number.
* Visual sources: three kinds, two starts, three pictures, one failure.
* `components_live` uses smaller bounds where a property under fairness needs fewer events (MCComponentsLive.cfg).
* New turns and reflections take the least free identity. The code draws a fresh random one; they are only compared.

CHECK_DEADLOCK FALSE is set where a model may rest: a scheduler with no job left, a conversation in which
nobody types, or a finished request waits for outside events, and those are bounded. The restore models never rest,
because a closed program can always be started, and check deadlock.

### Fairness

* Restore: the process takes its next file operation unless it is killed, and a closed program is started again.
  Faults are bounded by `MaxFaults`; no fairness is asked of them, of sessions or of `BeginApply`.
* Everywhere else: the main thread's event loop handles what is posted; the data thread executes what is
  queued; a provider request ends, because `chat_provider.py` has time limits and a cancellation ends it; threads
  that were told to quit end; timers fire; a vector retrieval ends at `_vector_timeout_ms`; an audio item is played to
  its end. Nothing is asked of the user, of chat, of switches or of crashes, and in `ReplyStream` nothing of the
  service or of its deadlines. Liveness of jobs is therefore conditional: if from some time on
  nothing holds the scheduler back, every job ends. `DueIsDelivered` likewise supposes that the scheduler runs, the
  session is unlocked, the user is free and no scan was lost; `CatchesUp` that no operation failed, and excepts two
  orders of events of section 5 (`lost`); `ChangesEnd` that no dialog waits for the user.

## 4. Proofs

Every theorem holds for all values of the constants that meet the named assumptions of the modules
(`ContentAssumption`, `RefsAssumption`, `FaultAssumption`, `JobsAssumption`, `MemoryJobsAssumption`,
`DeepJobsAssumption`, `ConversationAssumption`, `ComponentsAssumption`) and nothing else: bounds are naturals, `NoJob`
is no job, a job has a kind. `MemoryStoresProofs` and the providers carry their part of them in the invariant
(`Parameters`, `ProvidersParameters`), which the initial state has by `ComponentsAssumption`. So where the runs have
two jobs, two turns or one fault, the proofs have any number.

All proofs have one form. The inductive invariant `IInv` is a conjunction of named parts; a lemma per action shows
which parts the action keeps, and an action of several cases has lemmas for the helpers it calls; a lemma
collects the actions, and the temporal theorem follows.
Queues are never indexed: `QueueTheorems` says what `Append` and `Tail` do to what is in a queue (`Elements`), to
there being one element of a kind (`Single`), to what precedes or follows what (`Before`, `Paired`, `Follows`) and to
how many there are (`Count`).

### The restore (`RestoreTransactionProofs`)

`TypeCorrect` (in particular a live file is never a partial copy), `SessionSafe`, `LiveChangesSafe`, the
refinement `ImplementsAtomic`, `EvidenceIsThere` (if nothing else removes files, recovery never fails closed),
`ArtifactsAreRemoved`, `AttachmentsStay`, and `OutcomeSound`, which has the hypothesis that the directory fsync
cannot raise after the rename, as on Windows; on the other branch it is false (section 5).

`TypeOK` is not inductive: that a rename puts a complete file in place depends on where the control is. `Control` ties
the marker's state to the program counter and the caller. `Installing` says what the copies, `old_metadata` and the
marker's contents are while apply has reached a certain point, `PuttingBack` that the copy about to be swapped in by
recovery is complete, `Settled` that under a decided marker the new files are the ones it names. `Evidence` adds that
under a `prepared` marker every recorded file has its rollback copy, that under a decided marker the installed files
match, and that under `rolled_back` the old ones do; it is separate, since vanishing files falsify it. `SInv` adds
what outlives the transaction: which frame is running (`Frames`), which targets are cleaned (`Cleaning`), and that the
objects of a database are installed before the marker that may decide for it and swept only when it is gone
(`Referenced`). `Reporting` says of every point on the way what the report will be. The refinement maps each action
to a step of `AtomicRestore` or to stuttering (`StepRefines`); `RecoveredCases` computes the mapping for each state of
the marker.

### The job coordinators (`MemoryJobsProofs`, `DeepJobsProofs`)

Of `MemoryJobs`: `TypeCorrect`, `SchedulingSound`, `ResultsOwned`, and the action property `SummariesContiguous`. None of
the properties is inductive, because they speak of the execution and the rows, and what decides is in the queues. `Tokens`
says that every operation and answer under way belongs to what the coordinator is doing, `Ordered` that there is
one of each kind and in which order, `Rows` that the row of what is under way is running, `Attempts` that the
execution counts the attempt of its row, `Driven` that somebody will answer, `Generates` that the runner works for
the execution, `Reports` that the outcome of a generation precedes its end and its end the next claim, `Writing` that
a counted result completes its row unless a fault comes between, `Cursor` that a summary under way starts where the
coverage ends.

Of `DeepJobs`: for any jobs `TypeCorrect`, `FailsAfterAttempts` and `ChatCancels`; with a single job (`OneJob`) `JobsOwned` and
`AppliedAgainByFaults`. With two jobs these two are false, which is the finding `deep_overlap`; the hypothesis
is what the class says of itself. `Counted` is the part about all jobs; `Alone`, `Kept`, `Rows`, `Latest`, `Written` and
`Held` say that the one job is in exactly one place, and in which state its row is there.

### The conversation (`ConversationProofs`)

`TypeCorrect`, `RequestsExclusive`, `TurnsDurable` and the action property `CompletedFinal`, for any number of turns,
requests, chunks, crashes and failures. An attempt is in one place of three queues and two lists (`Lined`, `Preparing`,
`Attempting`, `Finalizing`), no attempt is ahead of its turn (`Numbered`), nothing happens before the snapshot is loaded
(`Loading`), what is being prepared has not been asked (`NotAsked`). `Stepping`, `Beginning`, `Finishing`, `Staging` and `Asking` follow
the row from the two preparation stages to the provider and to the finalization; `Showing` and `Saving` relate it to what
is shown; `Faultless` says that without a fault they differ only under way.

### The components (`MemoryStoresProofs`, `ComponentsProofs`, `CompanionProofs`)

The memory jobs and the memory stores are proved in modules of their own; `ComponentsProofs` instantiates these at the
variables of `Components`. The others have their invariants over these variables directly; a comment at the head
of each section says what they are called in the component.

| theorem | invariant, and why the property alone is not inductive |
|---|---|
| `JobsScheduled`, `JobsResults` | those of `MemoryJobsProofs` |
| `SupportCurrent`, `NothingLeft` | between two transactions support is missing: a source is `Held` if it is current or the second transaction is about to act on it (`Supported`); sources and knowledge stay linked (`Linked`, `Sourced`), clearing is done from the top (`Clearing`) |
| `IndexSound` | one operation runs and the coordinator knows which (`OneRuns`); what is built stays building (`Builds`), snapshots on their way are of active generations (`Current`, `Swaps`), a cache behind has its swap under way (`Cached`) |
| `HistoryKept` | one request of the chat is under way (`Lane`); unless the cursor `strayed`, a change and a turn exclude each other (`Locked`), the panel shows where it writes (`Facing`), what waits names where it was typed or its picture was there (`Awaited`) |
| `WindowSafe` | whose answer the backup is (`OneBackup`), that what was agreed is in it where it is relied on (`Backed`), the locks of the open window (`Quiet`), nothing asked once the files are gone (`Closed`) |
| `AttachmentsStayKept` | one start, one turn and one change are asked at a time (`Lanes`); what a row, a turn or the import names is on disk or known to be lost (`Kept`), and so is what drafts name, but for a change whose answer is on its way (`AttachmentsPanels`); all of it unless a deletion `strayed`, while the archive depends on nothing of it (`Complete`) |
| `KeysPaired`, `KeptTrue` | what each step of a save and of its rollback has done to file, router and keys (`Saving`, `Writing`, `Voicing`); a request keeps saves out (`Asks`); without faults what runs was tested (`Proven`) |
| `FrameShared` | every picture in flight is dated by stops and starts of its source (`InFlight`, `Recent`) |
| `DeliveriesTrue` | answers stay true of their version and come in its order (`Past`, `Following`, `Delivered`); every delivery of a version but the first is paid for by a fault the scheduler heard of (`Budget`); without a stop one scan is under way, behind the marks (`Lone`, `Marking`) |
| `ReplyPlayed` | unless `mixed`, an utterance moves forward only from lane to lane (`Forward`), switches and turn agree with the token (`Tuned`), a token not given is nowhere (`Known`) |
| `SpentOnce`, `LimitKept` | a cue that was counted can no longer be shown (`Spending`); unless `late`, one question, generation or display is under way (`Lone`), so what the controller knows of the ledger still holds (`Wanting`, `Agreed`) |

### What only TLC checks

* Liveness under fairness, and ENABLED with it, is out of the prover's reach: `TransactionEnds`, `JobsEnd`,
  `ReturnsToIdle` and the properties of `components_live`.
* `CompletedIsWhole` and `ThoughtsStayHidden` of the reply stream: what the filter makes of a text is computed token by
  token, and a proof for every reply is an induction over data.
* `Components!TypeOK`: the parts of the type invariant the other proofs need are in their invariants.

## 5. Where the code and its own words differ

Each of these is a run that TLC ends with a counterexample. `PROJECT.json` quotes the lines.

* `deep_overlap`: from the answer to a claim to the answer to its preparation no field records the job; a poll then
  claims a second one, and the first is left running until the next start. The class says that it serializes.
* `conversation_lane`: a spoken message refused during a reply gives the lane of that reply to the background.
* `cue_change`: a memory with a follow-up that is kept until it is resolved cannot be edited, archived or disputed: the
  trigger that revokes the follow-up sets an expiry which a CHECK of the same table forbids, and the change fails.
* `visual_permission`: the answer of the permission dialog starts the camera although the user has stopped sharing, or
  shares something else, in the meantime. The manager says that it allows exactly one live source.
* `history_during_reply`: the check that no reply is running is made before the data thread is asked and the dialog is
  shown, not when the user confirms; the deletion then runs during a reply, which a test says must not happen.

### Other behaviours met while modelling

These are in the models. Some are stated as formulas beside the properties, which no run checks because the code
refutes them; none is counted above.

* Restore: on the POSIX branch the commit marker may be in place when the directory fsync raises
  (`data_management.py:1309`), so `ReportIsTrue` fails with `DirSyncCanFail`. The product ships the Windows branch.
* Jobs: a row whose payload is invalid fails on its first attempt. A crash between the counted turn and
  `mark_completed` makes the recovered job count the turn again (`RecoveredIdempotently`,
  `memory_job_coordinator.py:577`, against the comment at 636). Memory switched off between the data thread's check and
  its write still gets the memory (`NoLateMemory`, 560 against 556). A deep job whose preparation answers during chat
  waits for an idle signal that the end of the chat does not emit (`DeepJobsEnd`). A deep job preempted by chat spends
  an attempt.
* Conversation: a stop during the vector retrieval can be overwritten by a failing second stage, because
  `finalize_assistant` compares the attempt only; a stop before a failing first stage, or a finalization of a deleted
  message, closes the service for writing until the next start.
* Reply stream: the first-chunk and idle deadlines count visible text only, so long thinking times out; whether a
  line break after a thought is shown depends on where the text was cut. `</think>` is looked for in
  `buffer.casefold()` and the buffer is cut at that index (`chat_provider.py:1025`, 1030): each sharp s or ligature of
  the thought that folding makes longer costs a character of the reply after it (`Lost`).
* History: a reminder written while another page is shown takes the panel back. A message sent with live vision on goes to
  the conversation shown when its picture has been imported (`fixed`), which a switch in between makes another one than
  the user typed it in; if a reply was started or a change is pending by then it is dropped.
* Data windows: saving providers and releasing the greeting's lane do not look at the window; an aborted window resumes
  services twice; what is written between the backup and the replacement is in neither (`ReplacedDataIsBackedUp`).
* Memories: a failure between a fact's change and the second transaction leaves what is derived from it recalled
  (`untold`); facts archived by decay never suppress it. A decision of a job (keep, accept) written after the user's
  edit undoes it. A repaired answer loses `batch_key` and `synthesize_after` (`deep_memory_coordinator.py:286`), so 824
  keys its rows by the job: a batch that two overlapping jobs answer (`deep_overlap`) is then written twice. (The
  follow-up synthesis it does not queue either is outside the model.) `ConflictBlocksBothSides`, `OfferedMayBeCited` and
  `RestoreGivesBack` do not hold.
* Vectors: a change of the embedding model followed by a memory change during the automatic rebuild leaves the index
  unusable until a restart (`AnotherModelIsReplaced`); a persona import during the first rebuild fails it.
* Reminders: after two stops a version can be delivered twice, after one a mark can reach a version that was not shown;
  a failed scan keeps the scheduler waiting until the next stop and start.
* Greetings: the signals of a cancelled generation can release the lane of the owner after it. `_on_count_loaded`,
  `_on_ai_success`, `_on_ai_failure` and the failure of `proactive_display` take the late answer of an earlier
  opportunity of the day for one to the present opportunity; the daily limit can then be exceeded (`late`).
* Voice: a stale count of zero from the playback queue ends a reply early (`NoSentenceIsCut`); push-to-talk while the
  detector holds a sentence submits that sentence again under the new token (`mixed`).
* Providers: after a fault an enabled profile may run a configuration that was never tested (`EnabledWasTested`); a voice
  save can report that the old configuration is kept when it is not (`VoiceKeptIsTrue`).
* Attachments: deleting from the history page ignores a running import; a turn not yet saved protects its files by
  nothing (`loose`, `EverySavedHasItsFile`). A deletion confirmed while a message waits for the lane, or while another
  change is pending, takes the objects of that message with it: the race of `history_during_reply` (`strayed`). A
  missing object makes every later backup fail.
* Visual sources: if the first screen grab fails inside `start()` the manager stays active with a dead source; a late
  failure of the encoder stops the source that was started after it.

The `hazards` of `PROJECT.json` name the lines.

## 6. Not modelled, and the plan

Modelled, checked and proved as far as sections 3 and 4 say: the restore, both job coordinators, the conversation and
the twelve components of `Components`. Next, in this order:

1. **Abstract specifications** for the jobs (a table of jobs, each finished once) and for the history (a map from
   messages to conversations), with the refinements; the invariants they need are those of section 4.
2. **One runner**: `MemoryJobs` and `DeepJobs` composed, replacing the environment actions of `DeepJobs`. The product
   is beyond TLC at the present bounds; a proof is the way, from the two invariants.

Not modelled, and why:

* Retrieval, ranking and prompt budgets, temporal expressions, recurrence arithmetic, similarity of texts: functions
  without state over strings and floating-point numbers, which the tests compare with whole results.
* Migrations: SQL run once under a lock, with the schema as their only state.
* The embedding model: numeric code; that it may fail is in `VectorIndex`.
* Single instance and installer mutex: one socket and one named object of the operating system, which settles races.
* HTTP, audio devices, image and document decoding: outside libraries, whose outcomes are choices of the models.
* Widgets, animation and geometry, persona files, logging, packaging, the uninstaller's deletion of directories: they
  keep no state whose order of changes matters, or belong to the operating system.
* A message typed before the data is loaded is kept and sent when it is; `History` and `Attachments` start behind that.
