------------------------------ MODULE JobsWorld ------------------------------
(***************************************************************************)
(* What the background-job coordinators share: the background_jobs table   *)
(* (conversation_store.BackgroundJobStore), the serialized data thread that*)
(* owns SQLite (data_runtime.SerialDataThread), the event queue of the Qt  *)
(* main thread, and the single background generation                       *)
(* (background_generation.BackgroundGenerationRunner).                     *)
(*                                                                         *)
(* The main thread runs one event at a time; the data thread and the worker*)
(* of a generation run concurrently and reach it only through queued       *)
(* signals, in the order they were emitted.  A zero-delay singleShot(poll) *)
(* is one of the moments at which a coordinator's Poll may happen.         *)
(***************************************************************************)
EXTENDS Naturals, Sequences

CONSTANTS Jobs,        \* rows of background_jobs
          NoJob,       \* "no job"
          MaxFaults    \* bound on crashes and failed data operations

ASSUME JobsAssumption == NoJob \notin Jobs /\ MaxFaults \in Nat

VARIABLES
  status,       \* durable: status of each row ("absent" before it is enqueued)
  attempts,     \* durable: attempt_count
  due,          \* durable: run_after is not in the future
  dataQ,        \* operations submitted to the data thread, first one executing
  opStep,       \* how far the first operation has come
  dataUp,       \* the data thread accepts operations
  mainQ,        \* events posted to the main thread
  gen,          \* the context of the generation runner
  runnerPaused, \* BackgroundGenerationRunner._paused
  runnerShut,   \* BackgroundGenerationRunner._shutting_down
  faults        \* crashes and failed operations so far

store   == <<status, attempts, due>>
queues  == <<dataQ, opStep, dataUp, mainQ>>
runner  == <<gen, runnerPaused, runnerShut>>
world   == <<status, attempts, due, dataQ, opStep, dataUp, mainQ, gen,
             runnerPaused, runnerShut, faults>>

Statuses == {"absent", "pending", "running", "retry", "completed", "failed"}
Phases == {"none", "summary", "extraction", "repair", "signals", "synthesis"}
Outcomes == {"completed", "cancelled", "failed"}

\* Arguments are records; NoArg is the empty one.
NoArg == [none |-> TRUE]
Op(op, job, arg) == [op |-> op, job |-> job, arg |-> arg]
Event(ev, job, arg) == [ev |-> ev, job |-> job, arg |-> arg]

\* ids stand for request ids; one is reused only when nothing refers to it.
NoGen == [id |-> 0, job |-> NoJob, attempt |-> 0, phase |-> "none",
          thread |-> "stopped", cancelled |-> FALSE, terminal |-> TRUE]

WorldTypeOK ==
  /\ status \in [Jobs -> Statuses]
  /\ attempts \in [Jobs -> Nat]
  /\ due \in [Jobs -> BOOLEAN]
  /\ \A i \in DOMAIN dataQ : dataQ[i].job \in Jobs \cup {NoJob}
  /\ opStep \in {"start", "checked", "written"}
  /\ dataUp \in BOOLEAN
  /\ \A i \in DOMAIN mainQ : mainQ[i].job \in Jobs \cup {NoJob}
  /\ gen \in [id : Nat, job : Jobs \cup {NoJob}, attempt : Nat, phase : Phases,
              thread : {"running", "ending", "stopped"},
              cancelled : BOOLEAN, terminal : BOOLEAN]
  /\ runnerPaused \in BOOLEAN
  /\ runnerShut \in BOOLEAN
  /\ faults \in 0..MaxFaults

WorldInit ==
  /\ status = [j \in Jobs |-> "absent"]
  /\ attempts = [j \in Jobs |-> 0]
  /\ due = [j \in Jobs |-> TRUE]
  /\ dataQ = <<>>
  /\ opStep = "start"
  /\ dataUp = FALSE
  /\ mainQ = <<>>
  /\ gen = NoGen
  /\ runnerPaused = FALSE
  /\ runnerShut = FALSE
  /\ faults = 0
-----------------------------------------------------------------------------
(* background_jobs: each operation is one SQLite transaction.              *)

Ready(j) == status[j] \in {"pending", "retry"} /\ due[j]

StoreEnqueue(j) ==
  /\ status' = [status EXCEPT ![j] = IF @ = "absent" THEN "pending" ELSE @]
  /\ UNCHANGED <<attempts, due>>

\* Mutant: the claim reads the row and forgets to update its status.
StoreClaimPeeks(j) ==
  /\ Ready(j)
  /\ attempts' = [attempts EXCEPT ![j] = @ + 1]
  /\ UNCHANGED <<status, due>>

StoreClaim(j) ==
  /\ Ready(j)
  /\ status' = [status EXCEPT ![j] = "running"]
  /\ attempts' = [attempts EXCEPT ![j] = @ + 1]
  /\ UNCHANGED due

\* mark_retry, mark_completed and mark_failed refuse a row that is not running.
StoreMark(j, to, ready) ==
  /\ status[j] = "running"
  /\ status' = [status EXCEPT ![j] = to]
  /\ due' = [due EXCEPT ![j] = ready]
  /\ UNCHANGED attempts

StoreRecover ==
  /\ status' = [j \in Jobs |-> IF status[j] = "running" THEN "retry" ELSE status[j]]
  /\ due' = [j \in Jobs |-> due[j] \/ status[j] = "running"]
  /\ UNCHANGED attempts

StoreRetryFailed(j) ==
  /\ status[j] = "failed"
  /\ status' = [status EXCEPT ![j] = "retry"]
  /\ attempts' = [attempts EXCEPT ![j] = 0]
  /\ due' = [due EXCEPT ![j] = TRUE]
-----------------------------------------------------------------------------
(* SerialDataThread: one operation at a time, in submission order (every   *)
(* operation here has BACKGROUND priority); its result is posted to the    *)
(* main thread.                                                            *)

\* The queue after submit; a stopped thread takes nothing.
Submitted(op) == IF dataUp THEN Append(dataQ, op) ELSE dataQ

Executing(op) == dataQ # <<>> /\ Head(dataQ).op = op
Job == Head(dataQ).job
Arg == Head(dataQ).arg

Answer(event) ==
  /\ dataQ' = Tail(dataQ)
  /\ opStep' = "start"
  /\ mainQ' = Append(mainQ, event)

\* The signal an operation reports its failure with
FailureOf(op) ==
  CASE op = "recover" -> "failed:recover"   [] op = "claim" -> "failed:claim"
    [] op = "prepare" -> "failed:prepare"   [] op = "persist" -> "failed:persist"
    [] op = "complete" -> "failed:complete" [] op = "retry" -> "failed:retry"
    [] op = "fail" -> "failed:fail"

\* The operation raises; whatever it committed before stays.
OperationFails ==
  /\ dataQ # <<>>
  /\ faults < MaxFaults
  /\ faults' = faults + 1
  /\ Answer(Event(FailureOf(Head(dataQ).op), Job, Arg))
  /\ UNCHANGED <<store, dataUp, runner>>
-----------------------------------------------------------------------------
(* BackgroundGenerationRunner and its worker thread.                       *)

IsRunning == gen.id # 0 /\ gen.thread # "stopped"
CanStart == ~runnerPaused /\ ~runnerShut /\ gen.id = 0

FreshId ==
  LET used == {mainQ[i].arg.id : i \in {k \in DOMAIN mainQ : mainQ[k].ev \in Outcomes \cup {"finished"}}}
  IN CHOOSE n \in 1..(Len(mainQ) + 1) : n \notin used

StartGeneration(j, attempt, phase) ==
  gen' = [id |-> FreshId, job |-> j, attempt |-> attempt, phase |-> phase,
          thread |-> "running", cancelled |-> FALSE, terminal |-> FALSE]

\* The worker reports how the request ended, then its thread stops.  A request
\* cancelled too late may still complete.
WorkerReports ==
  /\ gen.thread = "running"
  /\ \E outcome \in Outcomes :
       /\ outcome = "cancelled" => gen.cancelled
       /\ mainQ' = Append(mainQ, Event(outcome, gen.job, [id |-> gen.id]))
  /\ gen' = [gen EXCEPT !.thread = "ending"]
  /\ UNCHANGED <<store, dataQ, opStep, dataUp, runnerPaused, runnerShut, faults>>

ThreadStops ==
  /\ gen.thread = "ending"
  /\ gen' = [gen EXCEPT !.thread = "stopped"]
  /\ mainQ' = Append(mainQ, Event("finished", gen.job, [id |-> gen.id]))
  /\ UNCHANGED <<store, dataQ, opStep, dataUp, runnerPaused, runnerShut, faults>>

\* _cancel_and_wait: only when the thread has stopped (by itself, or within the
\* wait) is the context cleared here; otherwise the queued signals do it.
Cancelled(wait) ==
  \/ /\ gen.id # 0 /\ (gen.thread = "stopped" \/ wait)
     /\ gen' = NoGen
  \/ /\ gen.id = 0 \/ gen.thread # "stopped"
     /\ gen' = [gen EXCEPT !.cancelled = (gen.id # 0)]
=============================================================================
