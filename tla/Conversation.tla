---------------------------- MODULE Conversation ----------------------------
(***************************************************************************)
(* One visible chat: the foreground lane of the controller, the            *)
(* ConversationCoordinator with its provider worker, the two-stage prompt  *)
(* preparation and the finalization of LocalDataService, and the message   *)
(* rows of ConversationStore, with crashes and failed data operations.     *)
(*                                                                         *)
(* Signals of the data thread and of the worker reach the main thread in   *)
(* the order of mainQ; callbacks queued with singleShot(0) in the order of *)
(* soon.  Nothing orders the two queues among each other.                  *)
(*                                                                         *)
(* An attempt is <<turn, attempt number>>: it stands for the request id,   *)
(* for the vector token, and for the preparation generation of a closure.  *)
(* A reply is the number of its chunks.  A new turn has a fresh identity:   *)
(* the least one nothing is known of.  One of which a crash left no row may *)
(* be taken again.                                                          *)
(***************************************************************************)
EXTENDS Naturals, Sequences, FiniteSets, Functions

CONSTANTS MaxTurns,     \* bound on the turns of the conversation
          MaxRequests,  \* bound on the attempts of all turns together
          MaxChunks,    \* MAX_VISIBLE_RESPONSE_CHARS, in chunks
          MaxFaults     \* bound on crashes and failed data operations

ASSUME ConversationAssumption ==
  MaxTurns \in Nat /\ MaxRequests \in Nat /\ MaxChunks \in Nat /\ MaxFaults \in Nat

VARIABLES
  rows,       \* durable: the assistant message of each turn
  dataQ,      \* operations of this service on the data thread (all FOREGROUND)
  opStep,     \* how far the first one has come
  dataUp,     \* the data thread accepts operations
  mainQ,      \* signals for the main thread
  soon,       \* singleShot(0) callbacks
  up,         \* the process runs
  loaded,     \* the startup snapshot has arrived
  writable,   \* LocalDataService._writable
  shutting,   \* _shutting_down; prompt preparations are no longer accepted
  turns,      \* ConversationCoordinator._turns
  state,      \* ConversationCoordinator.state
  prep,       \* the attempt being prepared, or None
  active,     \* _active_request_id, or None
  contexts,   \* _contexts and the worker threads behind them
  final,      \* _pending_finalization, or None
  unsaved,    \* _pending_checkpoint_turn: an attempt and its reply, or None
  retrievals, \* _pending_prompt_preparations
  lane,       \* the background coordinators are told that chat is in front
  ask,        \* _pending_foreground_action, or None
  background, \* a background generation is running
  failedOp,   \* history: an operation failed in this process
  faults

durable  == <<rows>>
queues   == <<dataQ, opStep, dataUp, mainQ, soon>>
process  == <<up, loaded, shutting, failedOp, faults>>
coord    == <<turns, state, prep, active, contexts, final, unsaved>>
control  == <<lane, ask, background>>
vars == <<rows, queues, process, writable, coord, retrievals, control>>

None == <<>>
Turns == 1..MaxTurns
Attempts == Turns \X (1..MaxRequests)
Terminal == {"completed", "stopped", "failed"}
Statuses == {"absent", "pending", "streaming"} \cup Terminal
Visible  == {"sending", "waiting", "streaming"}
States   == {"idle"} \cup Visible \cup Terminal
Messages == [status : Statuses, attempt : 0..MaxRequests, reply : 0..MaxChunks]
Absent   == [status |-> "absent", attempt |-> 0, reply |-> 0]
Message(status, attempt, reply) == [status |-> status, attempt |-> attempt, reply |-> reply]

Op(op, a, status, reply) == [op |-> op, a |-> a, status |-> status, reply |-> reply]
Event(ev, a) == [ev |-> ev, a |-> a]
Context(a) == [a |-> a, terminal |-> FALSE, cancelled |-> FALSE, sent |-> 0, thread |-> "running"]

TypeOK ==
  /\ rows \in [Turns -> Messages] /\ turns \in [Turns -> Messages]
  /\ \A i \in DOMAIN dataQ : dataQ[i].a \in Attempts \cup {None}
  /\ \A i \in DOMAIN mainQ : mainQ[i].a \in Attempts \cup {None}
  /\ \A i \in DOMAIN soon : soon[i].a \in Attempts \cup {None}
  /\ opStep \in {"start", "written"}
  /\ {dataUp, up, loaded, writable, shutting, lane, background, failedOp} \subseteq BOOLEAN
  /\ state \in States
  /\ prep \in Attempts \cup {None} /\ active \in Attempts \cup {None}
  /\ final \in Attempts \cup {None}
  /\ contexts \subseteq [a : Attempts, terminal : BOOLEAN, cancelled : BOOLEAN,
                         sent : 0..MaxChunks + 1, thread : {"running", "ending", "stopped"}]
  /\ unsaved \in Attempts \cup {None}
  /\ retrievals \subseteq Attempts
  /\ ask = None \/ ask \in {"send", "retry"} \X Turns
  /\ faults \in 0..MaxFaults

Init ==
  /\ rows = [t \in Turns |-> Absent] /\ turns = rows
  /\ dataQ = <<>> /\ opStep = "start" /\ dataUp = FALSE /\ mainQ = <<>> /\ soon = <<>>
  /\ up = FALSE /\ loaded = FALSE /\ writable = FALSE /\ shutting = FALSE
  /\ state = "idle" /\ prep = None /\ active = None /\ contexts = {} /\ final = None
  /\ unsaved = None /\ retrievals = {}
  /\ lane = FALSE /\ ask = None /\ background = FALSE
  /\ failedOp = FALSE /\ faults = 0
-----------------------------------------------------------------------------
(* Helpers of the slots.                                                   *)

\* _set_state: the controller gives the lane to chat in every state but idle.
SetState(next) ==
  /\ state' = next
  /\ lane' = IF next = state THEN lane ELSE next # "idle"

Soon(ev, a) == soon' = Append(soon, Event(ev, a))

Show(a, status) ==
  turns' = [turns EXCEPT ![a[1]] = Message(status, a[2], @.reply)]

\* What send_message, retry and set_provider wait for.
Busy == active # None \/ prep # None \/ final # None

\* _flush_checkpoint
Flushed ==
  IF unsaved # None /\ writable /\ dataUp
  THEN Append(dataQ, Op("checkpoint", unsaved, "streaming", turns[unsaved[1]].reply))
  ELSE dataQ

\* _persist_terminal_result, after a flush: a refused finalization fails.
Persist(a, status, reply) ==
  /\ final' = a
  /\ unsaved' = None
  /\ writable' = (writable /\ dataUp)
  /\ IF writable /\ dataUp
     THEN dataQ' = Append(Flushed, Op("finalize", a, status, reply)) /\ UNCHANGED soon
     ELSE dataQ' = Flushed /\ Soon("final_failed", a)

\* _terminalize of the context of attempt a
Terminalize(a, status) ==
  /\ Show(a, status)
  /\ SetState(status)
  /\ Persist(a, status, turns[a[1]].reply)

\* The context of a, when it is active and has no outcome yet
Awaiting(a) ==
  ~shutting /\ active = a /\ \E c \in contexts : c.a = a /\ ~c.terminal

\* The context of a gets its outcome, and is cancelled if asked to.
Ended(a, cancel) ==
  contexts' = {IF c.a = a THEN [c EXCEPT !.terminal = TRUE, !.cancelled = @ \/ cancel] ELSE c
                : c \in contexts}
-----------------------------------------------------------------------------
(* The foreground lane of the controller.                                  *)

CanSend(t) ==
  turns[t].status = "absent" /\ \A u \in Turns : u < t => turns[u].status # "absent"
CanRetry(t) == turns[t].status = "failed"
WithinBound == FoldFunction(+, 0, [t \in Turns |-> turns[t].attempt]) < MaxRequests
\* The bound on all attempts is one on those of t.
Wanted(kind, t) ==
  /\ WithinBound /\ turns[t].attempt < MaxRequests
  /\ IF kind = "send" THEN CanSend(t) ELSE CanRetry(t)

\* _prepare_attempt: the turn is shown as pending and stage one is submitted.
Prepare(kind, t) ==
  LET a == <<t, IF kind = "send" THEN 1 ELSE turns[t].attempt + 1>> IN
  /\ turns' = [turns EXCEPT ![t] = Message("pending", a[2], 0)]
  /\ prep' = a /\ active' = a
  /\ SetState("sending")
  /\ IF dataUp
     THEN dataQ' = Append(dataQ, Op(kind, a, "pending", 0)) /\ UNCHANGED soon
     ELSE Soon("prepare_failed", a) /\ UNCHANGED dataQ

\* _dispatch_pending_foreground_action, with send_message and retry
Dispatch(kind, t) ==
  /\ ask' = None
  /\ IF ~shutting /\ writable /\ state = "idle" /\ ~Busy /\ Wanted(kind, t)
     THEN Prepare(kind, t)
     ELSE lane' = FALSE /\ UNCHANGED <<turns, prep, active, state, dataQ, soon>>

InController == UNCHANGED <<durable, opStep, dataUp, mainQ, process, writable, contexts,
                            final, unsaved, retrievals>>

\* _begin_foreground_action.  The panel locks typed input while a reply is on its
\* way; a transcript of the voice session comes at any time.
Ask(kind, t) ==
  /\ up /\ loaded /\ writable /\ ~shutting /\ ask = None
  /\ Wanted(kind, t)
  /\ kind = "retry" => state \notin Visible
  /\ IF background
     THEN /\ ask' = <<kind, t>> /\ lane' = TRUE
          /\ UNCHANGED <<turns, prep, active, state, dataQ, soon>>
     ELSE Dispatch(kind, t)
  /\ UNCHANGED background
  /\ InController

\* The coordinators start a generation when chat does not hold the lane.
BackgroundStarts ==
  /\ up /\ ~shutting /\ ~lane /\ ~background
  /\ background' = TRUE
  /\ UNCHANGED <<lane, ask, turns, prep, active, state, dataQ, soon>>
  /\ InController

BackgroundEnds ==
  /\ background
  /\ background' = FALSE
  /\ IF ask = None
     THEN UNCHANGED <<lane, ask, turns, prep, active, state, dataQ, soon>>
     ELSE Dispatch(ask[1], ask[2])
  /\ InController

\* Mutant: the action is given up, the lane is not.
LaneTimeoutKeepsLane ==
  /\ ask # None
  /\ ask' = None
  /\ UNCHANGED <<lane, background, turns, prep, active, state, dataQ, soon>>
  /\ InController

\* _on_foreground_lane_timeout
LaneTimeout ==
  /\ ask # None
  /\ ask' = None /\ lane' = FALSE
  /\ UNCHANGED <<background, turns, prep, active, state, dataQ, soon>>
  /\ InController
-----------------------------------------------------------------------------
(* Stopping and shutting down.                                             *)

\* Mutant: an attempt that is being prepared is stopped on the screen only.
StopForgetsRow ==
  \/ /\ prep # None
     /\ prep' = None /\ active' = None
     /\ Show(prep, "stopped") /\ SetState("stopped") /\ Soon("idle", None)
     /\ UNCHANGED <<contexts, final, unsaved, writable, dataQ>>
  \/ /\ active # None /\ Awaiting(active)
     /\ Terminalize(active, "stopped") /\ Ended(active, TRUE)
     /\ UNCHANGED <<prep, active>>

\* stop(): an attempt that is being prepared has no context yet.
StopAttempt ==
  \/ /\ prep # None
     /\ prep' = None /\ active' = None
     /\ Show(prep, "stopped") /\ SetState("stopped") /\ Persist(prep, "stopped", 0)
     /\ UNCHANGED contexts
  \/ /\ active # None /\ Awaiting(active)
     /\ Terminalize(active, "stopped") /\ Ended(active, TRUE)
     /\ UNCHANGED <<prep, active>>

Stoppable == ~shutting /\ (prep # None \/ (active # None /\ Awaiting(active)))

Stop ==
  /\ up /\ Stoppable
  /\ StopAttempt
  /\ UNCHANGED <<durable, opStep, dataUp, mainQ, process, retrievals, ask, background>>

\* _stop_voice_chat drops a spoken action that still waits for the lane.
StopVoice ==
  /\ up /\ ~shutting
  /\ ask # None /\ ask[1] = "send"
  /\ ask' = None
  /\ \/ Stoppable /\ StopAttempt
     \/ /\ ~Stoppable /\ lane' = FALSE
        /\ UNCHANGED <<turns, state, prep, active, contexts, final, unsaved, writable, dataQ, soon>>
  /\ UNCHANGED <<durable, opStep, dataUp, mainQ, process, retrievals, background>>

\* _shutdown_background_tasks: stop_prompt_preparations, the coordinator's
\* shutdown, which waits for its workers, and the data service, which drains.
Shutdown ==
  /\ up /\ ~shutting
  /\ shutting' = TRUE /\ dataUp' = FALSE
  /\ ask' = None /\ retrievals' = {}
  /\ IF Stoppable
     THEN LET a == IF prep # None THEN prep ELSE active IN
          Show(a, "stopped") /\ Persist(a, "stopped", turns[a[1]].reply)
     ELSE UNCHANGED <<turns, final, unsaved, writable, dataQ, soon>>
  /\ prep' = None /\ active' = None
  /\ \E waited \in BOOLEAN :
       contexts' = IF waited THEN {}
                   ELSE {[c EXCEPT !.terminal = TRUE, !.cancelled = TRUE] : c \in contexts}
  /\ state' = "idle" /\ lane' = FALSE
  /\ UNCHANGED <<durable, opStep, mainQ, up, loaded, failedOp, faults, background>>

ProcessEnds ==
  /\ up' = FALSE /\ loaded' = FALSE /\ shutting' = FALSE /\ failedOp' = FALSE
  /\ writable' = FALSE
  /\ dataQ' = <<>> /\ opStep' = "start" /\ dataUp' = FALSE /\ mainQ' = <<>> /\ soon' = <<>>
  /\ turns' = [t \in Turns |-> Absent]
  /\ state' = "idle" /\ prep' = None /\ active' = None /\ contexts' = {} /\ final' = None
  /\ unsaved' = None /\ retrievals' = {}
  /\ lane' = FALSE /\ ask' = None /\ background' = FALSE
  /\ UNCHANGED durable

Exit == up /\ shutting /\ dataQ = <<>> /\ ProcessEnds /\ UNCHANGED faults

Crash == up /\ faults < MaxFaults /\ faults' = faults + 1 /\ ProcessEnds

Start ==
  /\ ~up
  /\ up' = TRUE /\ dataUp' = TRUE
  /\ dataQ' = <<Op("init", None, "absent", 0)>>
  /\ UNCHANGED <<durable, opStep, mainQ, soon, loaded, shutting, failedOp, faults, writable,
                 coord, retrievals, control>>
-----------------------------------------------------------------------------
(* The data thread executes the first operation.                           *)

Executing(op) == dataQ # <<>> /\ Head(dataQ).op = op
A == Head(dataQ).a
Row == rows[A[1]]
Answer(ev) ==
  /\ dataQ' = Tail(dataQ) /\ opStep' = "start"
  /\ mainQ' = Append(mainQ, Event(ev, A))
Wrote == opStep' = "written" /\ UNCHANGED <<dataQ, mainQ>>
WriteRow(message) == rows' = [rows EXCEPT ![A[1]] = message]
InOperation == UNCHANGED <<dataUp, soon, up, loaded, shutting, writable, coord, retrievals, control>>

\* recover_interrupted_messages, then the snapshot
DoInit ==
  /\ Executing("init")
  /\ rows' = [t \in Turns |-> IF rows[t].status \in {"pending", "streaming"}
                              THEN [rows[t] EXCEPT !.status = "stopped"] ELSE rows[t]]
  /\ Answer("loaded")
  /\ UNCHANGED <<failedOp, faults>>
  /\ InOperation

\* Mutant: the retry keeps the row of the last attempt.
BeginAttemptKeepsRow ==
  /\ opStep = "start"
  /\ Row.attempt < A[2]
  /\ Wrote /\ WriteRow(IF Row.status = "absent" THEN Message("pending", A[2], 0) ELSE Row)

\* save_turn, begin_assistant_attempt or create_assistant_placeholder
BeginAttempt ==
  /\ opStep = "start"
  /\ Row.attempt < A[2]
  /\ Wrote /\ WriteRow(Message("pending", A[2], 0))

\* Stage one: the row, then the retrieval seed
DoStageOne ==
  /\ Executing("send") \/ Executing("retry")
  /\ \/ BeginAttempt
     \/ opStep = "start" /\ Row.attempt >= A[2] /\ Answer("not_prepared") /\ UNCHANGED rows
     \/ opStep = "written" /\ Answer("seed") /\ UNCHANGED rows
  /\ UNCHANGED <<failedOp, faults>>
  /\ InOperation

\* Stage two: finalize_prepared_prompt
DoStageTwo ==
  /\ Executing("assemble")
  /\ Answer("assembled")
  /\ UNCHANGED <<rows, failedOp, faults>>
  /\ InOperation

\* checkpoint_assistant reports nothing to the coordinator.
DoCheckpoint ==
  /\ Executing("checkpoint")
  /\ dataQ' = Tail(dataQ) /\ opStep' = "start"
  /\ IF Row.attempt = A[2] /\ Row.status \in {"pending", "streaming"}
     THEN WriteRow(Message("streaming", A[2], Head(dataQ).reply))
     ELSE UNCHANGED rows
  /\ UNCHANGED <<mainQ, failedOp, faults>>
  /\ InOperation

\* finalize_assistant, then the jobs of the turn
DoFinalize ==
  /\ Executing("finalize")
  /\ \/ /\ opStep = "start" /\ Row.attempt = A[2]
        /\ Wrote /\ WriteRow(Message(Head(dataQ).status, A[2], Head(dataQ).reply))
     \/ opStep = "start" /\ Row.attempt # A[2] /\ Answer("not_finalized") /\ UNCHANGED rows
     \/ opStep = "written" /\ Answer("finalized") /\ UNCHANGED rows
  /\ UNCHANGED <<failedOp, faults>>
  /\ InOperation

FailureOf == [init |-> "not_loaded", send |-> "not_prepared", retry |-> "not_prepared",
              assemble |-> "not_prepared", finalize |-> "not_finalized", checkpoint |-> "none"]

\* The operation raises.  A prompt that cannot be assembled marks its row failed,
\* if the storage still takes it.
DataFault ==
  /\ dataQ # <<>>
  /\ faults < MaxFaults
  /\ faults' = faults + 1 /\ failedOp' = TRUE
  /\ IF Executing("checkpoint")
     THEN dataQ' = Tail(dataQ) /\ opStep' = "start" /\ UNCHANGED mainQ
     ELSE Answer(FailureOf[Head(dataQ).op])
  /\ \/ UNCHANGED rows
     \/ Executing("assemble") /\ Row.attempt = A[2] /\ WriteRow(Message("failed", A[2], 0))
  /\ InOperation
-----------------------------------------------------------------------------
(* The provider worker and its thread.                                     *)

InWorker == UNCHANGED <<durable, dataQ, opStep, dataUp, soon, process, writable, turns, state,
                        prep, active, final, unsaved, retrievals, control>>

WorkerDoes(c, next, ev) ==
  /\ contexts' = (contexts \ {c}) \cup {next}
  /\ mainQ' = Append(mainQ, Event(ev, c.a))
  /\ InWorker

WorkerChunk(c) ==
  /\ c.thread = "running" /\ c.sent <= MaxChunks
  /\ WorkerDoes(c, [c EXCEPT !.sent = @ + 1], "chunk")

\* A request cancelled too late may still complete.
WorkerReports(c) ==
  /\ c.thread = "running"
  /\ \E outcome \in {"completed", "failed", "cancelled"} :
       /\ outcome = "cancelled" => c.cancelled
       /\ WorkerDoes(c, [c EXCEPT !.thread = "ending"], outcome)

\* Nothing but an Exception is reported: the thread may end without a word.
WorkerDies(c) ==
  /\ c.thread = "running"
  /\ contexts' = (contexts \ {c}) \cup {[c EXCEPT !.thread = "ending"]}
  /\ UNCHANGED mainQ
  /\ InWorker

ThreadStops(c) ==
  /\ c.thread = "ending"
  /\ WorkerDoes(c, [c EXCEPT !.thread = "stopped"], "finished")
-----------------------------------------------------------------------------
(* The main thread receives what the data thread answered.                 *)

Receive(ev) == up /\ mainQ # <<>> /\ Head(mainQ).ev = ev /\ mainQ' = Tail(mainQ)
E == Head(mainQ).a
InMain == UNCHANGED <<durable, opStep, dataUp, up, shutting, failedOp, faults, ask, background>>
Slots == <<state, prep, active, contexts, final, unsaved>>

\* _on_startup_loaded and restore_turns
OnLoaded ==
  /\ Receive("loaded")
  /\ loaded' = TRUE /\ writable' = TRUE
  /\ turns' = IF shutting THEN turns ELSE rows
  /\ UNCHANGED <<dataQ, soon, Slots, retrievals, lane>>
  /\ InMain

\* _on_startup_failed
OnNotLoaded ==
  /\ Receive("not_loaded")
  /\ UNCHANGED <<dataQ, soon, loaded, writable, turns, Slots, retrievals, lane>>
  /\ InMain

\* _start_prompt_retrieval
OnSeed ==
  /\ Receive("seed")
  /\ retrievals' = IF shutting THEN retrievals ELSE retrievals \cup {E}
  /\ UNCHANGED <<dataQ, soon, loaded, writable, turns, Slots, lane>>
  /\ InMain

\* _finish_prompt_retrieval: the vectors are found, or their time is over.
RetrievalEnds(a) ==
  /\ up /\ a \in retrievals
  /\ retrievals' = retrievals \ {a}
  /\ IF dataUp
     THEN dataQ' = Append(dataQ, Op("assemble", a, "pending", 0)) /\ UNCHANGED soon
     ELSE Soon("prepare_failed", a) /\ UNCHANGED dataQ
  /\ UNCHANGED <<mainQ, loaded, writable, turns, Slots, lane>>
  /\ InMain

\* queue_prepared, queue_failed and the callbacks of finalize_turn: the outcome
\* reaches the coordinator through singleShot(0).
Relayed == [assembled |-> "prepared", not_prepared |-> "prepare_failed",
            finalized |-> "final_ok", not_finalized |-> "final_failed"]

\* Mutant: a failed finalization leaves the service writable.
RelayKeepsWritable ==
  \E ev \in DOMAIN Relayed :
    /\ Receive(ev)
    /\ Soon(Relayed[ev], E)
    /\ UNCHANGED <<dataQ, loaded, writable, turns, Slots, retrievals, lane>>
    /\ InMain

\* Mutant: a failed finalization is reported as a success.
RelayAlwaysOk ==
  \E ev \in DOMAIN Relayed :
    /\ Receive(ev)
    /\ Soon(IF ev = "not_finalized" THEN "final_ok" ELSE Relayed[ev], E)
    /\ UNCHANGED <<dataQ, loaded, writable, turns, Slots, retrievals, lane>>
    /\ InMain

\* _on_finalize_failed closes the service for writing.
Relay ==
  \E ev \in DOMAIN Relayed :
    /\ Receive(ev)
    /\ Soon(Relayed[ev], E)
    /\ writable' = (writable /\ ev # "not_finalized")
    /\ UNCHANGED <<dataQ, loaded, turns, Slots, retrievals, lane>>
    /\ InMain
-----------------------------------------------------------------------------
(* The callbacks of singleShot(0).                                         *)

Called(ev) == up /\ soon # <<>> /\ Head(soon).ev = ev
C == Head(soon).a
InCallback == UNCHANGED <<dataQ, mainQ, loaded, writable, unsaved, retrievals>> /\ InMain
ThenIdle == soon' = Append(Tail(soon), Event("idle", None))
NothingElse == soon' = Tail(soon)
CallbackIgnored == NothingElse /\ UNCHANGED <<turns, state, prep, active, contexts, final, lane>>

\* prepared and _start_attempt
OnPrepared ==
  /\ Called("prepared")
  /\ IF ~shutting /\ prep = C
     THEN /\ prep' = None /\ active' = C
          /\ contexts' = contexts \cup {Context(C)}
          /\ SetState("waiting")
          /\ NothingElse
          /\ UNCHANGED <<turns, final>>
     ELSE CallbackIgnored
  /\ InCallback

OnPrepareFailed ==
  /\ Called("prepare_failed")
  /\ IF ~shutting /\ prep = C
     THEN /\ prep' = None /\ active' = None
          /\ Show(C, "failed") /\ SetState("failed")
          /\ ThenIdle
          /\ UNCHANGED <<contexts, final>>
     ELSE CallbackIgnored
  /\ InCallback

\* Mutant: the finalization gives the slot free before the thread has ended.
FinalizationReleasesRequest ==
  /\ Called("final_ok")
  /\ IF final = C
     THEN /\ final' = None /\ active' = None
          /\ IF shutting THEN NothingElse ELSE ThenIdle
          /\ UNCHANGED <<turns, state, prep, contexts, lane>>
     ELSE CallbackIgnored
  /\ InCallback

\* _on_finalization_succeeded
OnFinalizationSucceeded ==
  /\ Called("final_ok")
  /\ IF final = C
     THEN /\ final' = None
          /\ IF shutting THEN NothingElse ELSE ThenIdle
          /\ UNCHANGED <<turns, state, prep, active, contexts, lane>>
     ELSE CallbackIgnored
  /\ InCallback

\* _on_finalization_failed
OnFinalizationFailed ==
  /\ Called("final_failed")
  /\ IF final = C
     THEN /\ final' = None
          /\ IF shutting
             THEN NothingElse /\ UNCHANGED <<turns, state, lane>>
             ELSE Show(C, "failed") /\ SetState("failed") /\ ThenIdle
          /\ UNCHANGED <<prep, active, contexts>>
     ELSE CallbackIgnored
  /\ InCallback

\* Mutant: the state returns to idle while the thread of the request runs.
ReturnToIdleEarly ==
  /\ Called("idle")
  /\ IF prep = None /\ final = None THEN SetState("idle") ELSE UNCHANGED <<state, lane>>
  /\ NothingElse
  /\ UNCHANGED <<turns, prep, active, contexts, final>>
  /\ InCallback

ReturnToIdleIfInactive ==
  /\ Called("idle")
  /\ IF ~Busy THEN SetState("idle") ELSE UNCHANGED <<state, lane>>
  /\ NothingElse
  /\ UNCHANGED <<turns, prep, active, contexts, final>>
  /\ InCallback
-----------------------------------------------------------------------------
(* The main thread receives what the worker reported.                      *)

Outcome(status, cancel) == Terminalize(E, status) /\ Ended(E, cancel)
SignalIgnored == UNCHANGED <<turns, state, lane, contexts, final, unsaved, writable, dataQ, soon>>
InSignal == UNCHANGED <<loaded, retrievals, prep>> /\ InMain

\* Mutant: the length of the reply is not bounded.
OnChunkUnlimited ==
  /\ Receive("chunk")
  /\ IF ~Awaiting(E) THEN SignalIgnored
     ELSE /\ turns' = [turns EXCEPT ![E[1]] = Message("streaming", E[2], @.reply + 1)]
          /\ SetState("streaming")
          /\ unsaved' = E
          /\ UNCHANGED <<contexts, final, writable, dataQ, soon>>
  /\ UNCHANGED active
  /\ InSignal

OnChunk ==
  /\ Receive("chunk")
  /\ IF ~Awaiting(E) THEN SignalIgnored
     ELSE IF turns[E[1]].reply = MaxChunks THEN Outcome("failed", TRUE)
     ELSE /\ turns' = [turns EXCEPT ![E[1]] = Message("streaming", E[2], @.reply + 1)]
          /\ SetState("streaming")
          /\ unsaved' = E
          /\ UNCHANGED <<contexts, final, writable, dataQ, soon>>
  /\ UNCHANGED active
  /\ InSignal

OnCompleted ==
  /\ Receive("completed")
  /\ IF ~Awaiting(E) THEN SignalIgnored
     ELSE Outcome(IF turns[E[1]].reply = 0 THEN "failed" ELSE "completed", FALSE)
  /\ UNCHANGED active
  /\ InSignal

OnCancelled ==
  /\ Receive("cancelled")
  /\ IF Awaiting(E) THEN Outcome("stopped", FALSE) ELSE SignalIgnored
  /\ UNCHANGED active
  /\ InSignal

OnFailed ==
  /\ Receive("failed")
  /\ IF Awaiting(E) THEN Outcome("failed", FALSE) ELSE SignalIgnored
  /\ UNCHANGED active
  /\ InSignal

Forgotten == contexts' = {c \in contexts : c.a # E}

\* Mutant: the end of the last thread does not return the state to idle.
ThreadFinishedKeepsState ==
  /\ Receive("finished")
  /\ Forgotten
  /\ active' = IF active = E THEN None ELSE active
  /\ UNCHANGED <<turns, state, lane, final, unsaved, writable, dataQ, soon>>
  /\ InSignal

\* _on_thread_finished: a thread that ended without a word is a failure.
OnThreadFinished ==
  /\ Receive("finished")
  /\ Forgotten
  /\ active' = IF active = E THEN None ELSE active
  /\ IF active = E /\ Awaiting(E)
     THEN Terminalize(E, "failed")
     ELSE /\ IF active = E /\ final = None THEN SetState("idle") ELSE UNCHANGED <<state, lane>>
          /\ UNCHANGED <<turns, final, unsaved, writable, dataQ, soon>>
  /\ InSignal

\* _on_first_chunk_timeout, _on_stream_idle_timeout
Timeout ==
  /\ up /\ active # None /\ Awaiting(active)
  /\ Terminalize(active, "failed") /\ Ended(active, TRUE)
  /\ UNCHANGED <<mainQ, active>>
  /\ InSignal

\* _flush_checkpoint by its timer; checkpoint_assistant closes the service for
\* writing when the data thread refuses it.
CheckpointTimer ==
  /\ up /\ unsaved # None
  /\ dataQ' = Flushed
  /\ writable' = (writable /\ dataUp)
  /\ unsaved' = None
  /\ UNCHANGED <<mainQ, soon, turns, state, active, contexts, final, lane>>
  /\ InSignal
-----------------------------------------------------------------------------
Signals ==
  \/ OnLoaded \/ OnNotLoaded \/ OnSeed \/ Relay
  \/ OnChunk \/ OnCompleted \/ OnCancelled \/ OnFailed \/ OnThreadFinished
Callbacks ==
  \/ OnPrepared \/ OnPrepareFailed
  \/ OnFinalizationSucceeded \/ OnFinalizationFailed \/ ReturnToIdleIfInactive
DataThread == DoInit \/ DoStageOne \/ DoStageTwo \/ DoCheckpoint \/ DoFinalize
Timers == Timeout \/ CheckpointTimer \/ LaneTimeout

Next ==
  \/ Start \/ Shutdown \/ Exit \/ Crash
  \/ \E kind \in {"send", "retry"}, t \in Turns : Ask(kind, t)
  \/ BackgroundStarts \/ BackgroundEnds
  \/ Stop \/ StopVoice
  \/ Signals \/ Callbacks \/ DataThread \/ DataFault \/ Timers
  \/ \E a \in Attempts : RetrievalEnds(a)
  \/ \E c \in contexts : WorkerChunk(c) \/ WorkerReports(c) \/ WorkerDies(c) \/ ThreadStops(c)

Spec == Init /\ [][Next]_vars

(* The event loop and the data thread run; a vector retrieval and a request end *)
(* by their time limits, a cancelled request by its cancellation.  Nothing is   *)
(* asked of users, of the background generation, of crashes and of faults.      *)
Fairness ==
  /\ WF_vars(Signals) /\ WF_vars(Callbacks) /\ WF_vars(DataThread) /\ WF_vars(Timers)
  /\ \A a \in Attempts : WF_vars(RetrievalEnds(a))
  /\ \A a \in Attempts :
       WF_vars(\E c \in contexts : c.a = a /\ (WorkerReports(c) \/ WorkerDies(c) \/ ThreadStops(c)))

FairSpec == Spec /\ Fairness
-----------------------------------------------------------------------------
(* At most one worker asks the provider.  The old thread of a stopped or        *)
(* timed-out request still runs when its outcome is saved; _active_request_id   *)
(* keeps the next request out until it has ended.                               *)
OneRequestRuns ==
  ~shutting => Cardinality({c \in contexts : c.thread = "running"}) <= 1

(* A request without an outcome has its row: the attempt is durable and open    *)
(* before the provider is asked, so that a crash leaves a turn to recover.      *)
RequestIsDurable ==
  \A c \in contexts : ~c.terminal =>
    LET row == rows[c.a[1]] IN
    row.attempt = c.a[2] /\ row.status \in {"pending", "streaming"}

(* The coordinator is idle only when no preparation, request or finalization    *)
(* is left: set_provider and restore_turns rely on the state alone.             *)
IdleIsQuiet == state = "idle" /\ ~shutting => ~Busy

(* A reply shown as completed is in the store as it is shown, unless it is      *)
(* being finalized: a failed finalization takes the word back.                  *)
CompletedIsSaved ==
  up /\ ~shutting =>
    \A t \in Turns :
      turns[t].status = "completed" /\ final # <<t, turns[t].attempt>> => rows[t] = turns[t]

(* When everything has come to rest and no data operation failed, what is shown *)
(* is what is stored: status, attempt and text of every turn.                   *)
ReplyIsDurable ==
  /\ up /\ loaded /\ ~shutting /\ ~failedOp /\ state = "idle"
  /\ dataQ = <<>> /\ mainQ = <<>> /\ soon = <<>> /\ retrievals = {}
  => turns = rows

(* A reply that was stored as completed is never changed again, neither by a    *)
(* late checkpoint nor by a retry of a turn whose finalization seemed to fail.  *)
CompletedIsFinal ==
  [][\A t \in Turns : rows[t].status = "completed" => rows'[t] = rows[t]]_vars

(* An idle conversation does not keep the lane from the background              *)
(* coordinators, unless an action waits for it.                                 *)
LaneIsReleased == up /\ state = "idle" /\ ask = None => ~lane

(* One visible request runs, and when the conversation is idle nothing of it      *)
(* is left, nor the lane taken.                                                 *)
RequestsAreExclusive == OneRequestRuns /\ IdleIsQuiet /\ LaneIsReleased

(* A turn is in the store before it is asked, when it is shown as completed, and  *)
(* as it is shown when everything has come to rest.                             *)
TurnsAreDurable == RequestIsDurable /\ CompletedIsSaved /\ ReplyIsDurable

(* Whatever the provider, the data thread and the user do, the conversation     *)
(* becomes ready for the next message.                                          *)
ReturnsToIdle == state # "idle" ~> state = "idle"

(* _begin_foreground_action: "Give visible chat exclusive provider priority":   *)
(* while a reply is on its way the background coordinators do not generate.     *)
VisibleChatHoldsTheLane == state \in Visible => lane
=============================================================================
