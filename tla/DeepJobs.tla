------------------------------- MODULE DeepJobs -------------------------------
(***************************************************************************)
(* DeepMemoryJobCoordinator: evidence, reflection and promotion jobs on the*)
(* runner that MemoryJobCoordinator owns.  This coordinator never pauses or*)
(* cancels the runner itself; what the other one does to it (chat, provider*)
(* switches, its own generations) appears here as outside events.          *)
(*                                                                         *)
(* Unlike MemoryJobs, _current is set only when the preparation answers,   *)
(* and most finalizations give it up before their operation has run.       *)
(***************************************************************************)
EXTENDS JobsWorld

CONSTANTS MaxJobAttempts,   \* MAX_JOB_ATTEMPTS
          MaxSwitches       \* bound on outside events

ASSUME DeepJobsAssumption == MaxJobAttempts \in Nat \ {0} /\ MaxSwitches \in Nat

VARIABLES
  up, accepting, claimInFlight, paused, foreground,
  enabled,        \* memory and deep memory are both enabled
  current,        \* _current, or NoExec
  pendingLaunch,  \* _pending_launch: the request to start when idle, or NoRequest
  applied,        \* durable: how often the results of a job were written
  switches        \* outside events so far

flags == <<accepting, claimInFlight, paused, foreground, enabled>>
vars  == <<world, up, flags, current, pendingLaunch, applied, switches>>

\* A request is known by its id; the job, its attempt and whether it asks for a
\* repair determine it.
Request(j, attempt, phase) == [job |-> j, attempt |-> attempt, phase |-> phase]
NoRequest == Request(NoJob, 0, "none")
NoExec == [request |-> NoRequest, finishing |-> FALSE]
Requests == [job : Jobs \cup {NoJob}, attempt : Nat, phase : Phases]

TypeOK ==
  /\ WorldTypeOK
  /\ \A f \in {up, accepting, claimInFlight, paused, foreground, enabled} : f \in BOOLEAN
  /\ current \in [request : Requests, finishing : BOOLEAN]
  /\ pendingLaunch \in Requests
  /\ applied \in [Jobs -> Nat]
  /\ switches \in 0..MaxSwitches

Init ==
  /\ WorldInit
  /\ up = FALSE
  /\ accepting = FALSE /\ claimInFlight = FALSE /\ paused = FALSE /\ foreground = FALSE
  /\ enabled \in BOOLEAN
  /\ current = NoExec /\ pendingLaunch = NoRequest
  /\ applied = [j \in Jobs |-> 0]
  /\ switches = 0
-----------------------------------------------------------------------------
CanClaim ==
  /\ up /\ accepting /\ ~paused /\ ~foreground /\ enabled
  /\ current = NoExec /\ ~IsRunning /\ ~runnerPaused

\* poll() at the end of a slot that leaves _claim_in_flight = inFlight
PollAfter(inFlight) ==
  IF CanClaim' /\ ~inFlight /\ dataUp
  THEN claimInFlight' = TRUE /\ dataQ' = Append(dataQ, Op("claim", NoJob, NoArg))
  ELSE claimInFlight' = inFlight /\ UNCHANGED dataQ

\* Mutant: an execution that is being finalized is retried as well.
RunningOrFinishing == current # NoExec

Running == current # NoExec /\ ~current.finishing
Now(attempt) == [ready |-> TRUE, attempt |-> attempt]
Later(attempt) == [ready |-> FALSE, attempt |-> attempt]

\* Mutant: gives up one attempt early.
FailOpEarly(j, attempt) ==
  IF attempt + 1 < MaxJobAttempts THEN Op("retry", j, Later(attempt)) ELSE Op("fail", j, NoArg)

\* _fail_job
FailOp(j, attempt) ==
  IF attempt < MaxJobAttempts THEN Op("retry", j, Later(attempt)) ELSE Op("fail", j, NoArg)

\* The coordinator lets go of the current job.
Release == current' = NoExec /\ pendingLaunch' = NoRequest

\* Mutant: the execution is gone before its retry is submitted.
RetryCurrentForgets ==
  IF Running THEN Release /\ UNCHANGED dataQ ELSE UNCHANGED <<dataQ, current, pendingLaunch>>

\* _retry_current_immediately and _fail_current; the latter does not ask whether
\* the execution is finishing already.
RetryCurrent ==
  IF Running
  THEN /\ dataQ' = Submitted(Op("retry", current.request.job, Now(current.request.attempt)))
       /\ Release
  ELSE UNCHANGED <<dataQ, current, pendingLaunch>>

FailCurrent ==
  IF current # NoExec
  THEN /\ dataQ' = Submitted(FailOp(current.request.job, current.request.attempt))
       /\ Release
  ELSE UNCHANGED <<dataQ, current, pendingLaunch>>

\* _persist_current and _complete_current keep the execution, finishing; without
\* a data thread _fail_current lets go of it.
Finalize(op, execution) ==
  IF dataUp
  THEN /\ dataQ' = Append(dataQ, Op(op, execution.request.job, NoArg))
       /\ current' = [execution EXCEPT !.finishing = TRUE]
       /\ UNCHANGED pendingLaunch
  ELSE Release /\ UNCHANGED dataQ

\* _launch
Launch(request) ==
  IF CanStart
  THEN /\ StartGeneration(request.job, request.attempt, request.phase)
       /\ pendingLaunch' = NoRequest
  ELSE UNCHANGED gen /\ pendingLaunch' = request

\* The context of the runner was started for the request of the execution.
Ours ==
  /\ current # NoExec
  /\ current.request = Request(gen.job, gen.attempt, gen.phase)

\* MemoryJobCoordinator pauses the runner.  Clearing the context calls the failure
\* callback and emits idle, and each of the two fails the current job.
Interrupt(wait) ==
  /\ Cancelled(wait)
  /\ IF gen'.id = gen.id
     THEN UNCHANGED <<dataQ, current, pendingLaunch>>
     ELSE IF (~gen.terminal /\ Ours) \/ (pendingLaunch # NoRequest /\ Running)
     THEN FailCurrent
     ELSE pendingLaunch' = NoRequest /\ UNCHANGED <<dataQ, current>>
-----------------------------------------------------------------------------
(* The process and outside events.                                         *)

\* The stores recover interrupted rows when they open; start() polls.
Start ==
  /\ ~up
  /\ up' = TRUE /\ accepting' = TRUE /\ dataUp' = TRUE
  /\ StoreRecover
  /\ claimInFlight' = enabled
  /\ dataQ' = IF enabled THEN <<Op("claim", NoJob, NoArg)>> ELSE <<>>
  /\ UNCHANGED <<opStep, mainQ, runner, faults, paused, foreground, enabled, current,
                 pendingLaunch, applied, switches>>

ProcessEnds ==
  /\ up' = FALSE /\ dataUp' = FALSE /\ dataQ' = <<>> /\ opStep' = "start" /\ mainQ' = <<>>
  /\ gen' = NoGen /\ runnerPaused' = FALSE /\ runnerShut' = FALSE
  /\ accepting' = FALSE /\ claimInFlight' = FALSE /\ paused' = FALSE /\ foreground' = FALSE
  /\ Release
  /\ UNCHANGED <<store, enabled, applied, switches>>

Crash == up /\ faults < MaxFaults /\ faults' = faults + 1 /\ ProcessEnds

Exit == up /\ ~dataUp /\ dataQ = <<>> /\ ProcessEnds /\ UNCHANGED faults

StopDataThread ==
  /\ up /\ ~accepting /\ dataUp
  /\ dataUp' = FALSE
  /\ UNCHANGED <<store, dataQ, opStep, mainQ, runner, faults, up, flags, current,
                 pendingLaunch, applied, switches>>

Outside ==
  /\ up
  /\ switches < MaxSwitches
  /\ switches' = switches + 1
  /\ UNCHANGED <<store, opStep, dataUp, mainQ, faults, up, applied>>

\* A retry of the current job, and the idle signal of a context cleared after it
RetryThenIdle ==
  IF Running
  THEN RetryCurrent
  ELSE /\ pendingLaunch' = IF gen'.id = gen.id THEN pendingLaunch ELSE NoRequest
       /\ UNCHANGED <<dataQ, current>>

\* _shutdown_background_tasks: this coordinator, then the runner
Shutdown ==
  /\ Outside
  /\ accepting
  /\ accepting' = FALSE /\ paused' = TRUE
  /\ runnerPaused' = TRUE /\ runnerShut' = TRUE
  /\ \E wait \in BOOLEAN : Cancelled(wait)
  /\ RetryThenIdle
  /\ UNCHANGED <<claimInFlight, foreground, enabled>>

\* Mutant: the runner takes nothing new, but its generation goes on.
SetForegroundOnlyPauses(active) ==
  /\ Outside
  /\ foreground # active
  /\ foreground' = active
  /\ runnerPaused' = IF active THEN TRUE ELSE runnerPaused /\ (paused \/ ~accepting)
  /\ UNCHANGED <<accepting, claimInFlight, paused, enabled, runnerShut, gen, dataQ, current,
                 pendingLaunch>>

\* _set_foreground_lane_active: the flag is set here before the runner is paused,
\* and cleared here, with a poll() that is refused, before it is resumed.
SetForegroundActive(active) ==
  /\ Outside
  /\ foreground # active
  /\ foreground' = active
  /\ IF active
     THEN runnerPaused' = TRUE /\ Interrupt(FALSE)
     ELSE /\ runnerPaused' = (runnerPaused /\ (paused \/ ~accepting))
          /\ UNCHANGED <<gen, dataQ, current, pendingLaunch>>
  /\ UNCHANGED <<accepting, claimInFlight, paused, enabled, runnerShut>>

\* pause() and resume() of both coordinators, around a provider switch
Pause ==
  /\ Outside
  /\ paused' = TRUE
  /\ runnerPaused' = TRUE
  /\ \E wait \in BOOLEAN : Cancelled(wait)
  /\ RetryThenIdle
  /\ UNCHANGED <<accepting, claimInFlight, foreground, enabled, runnerShut>>

Resume ==
  /\ Outside
  /\ paused /\ accepting
  /\ paused' = FALSE
  /\ runnerPaused' = FALSE
  /\ UNCHANGED <<accepting, claimInFlight, foreground, enabled, runnerShut, gen, dataQ,
                 current, pendingLaunch>>

\* Either setting changes.  Switching memory off may first cancel whatever runs,
\* when the other coordinator has an extraction.
SetEnabled(value) ==
  /\ Outside
  /\ enabled # value
  /\ enabled' = value
  /\ UNCHANGED <<accepting, paused, foreground, runnerPaused, runnerShut>>
  /\ \/ value /\ UNCHANGED <<gen, current, pendingLaunch>> /\ PollAfter(claimInFlight)
     \/ ~value /\ RetryCurrent /\ UNCHANGED <<gen, claimInFlight>>
     \/ ~value /\ Interrupt(FALSE) /\ gen' # gen /\ UNCHANGED claimInFlight

\* The other coordinator starts a generation of its own.
OtherStarts ==
  /\ Outside
  /\ accepting /\ ~paused /\ ~foreground /\ CanStart
  /\ StartGeneration(NoJob, 0, "extraction")
  /\ UNCHANGED <<flags, runnerPaused, runnerShut, dataQ, current, pendingLaunch>>

Enqueue(j) ==
  /\ up /\ dataUp
  /\ status[j] = "absent"
  /\ StoreEnqueue(j)
  /\ UNCHANGED <<queues, runner, faults, up, flags, current, pendingLaunch, applied, switches>>

BecomesDue(j) ==
  /\ ~due[j]
  /\ due' = [due EXCEPT ![j] = TRUE]
  /\ UNCHANGED <<status, attempts, queues, runner, faults, up, flags, current,
                 pendingLaunch, applied, switches>>
-----------------------------------------------------------------------------
(* The data thread executes the first operation.                           *)

InOperation ==
  UNCHANGED <<dataUp, runner, faults, up, flags, current, pendingLaunch, switches>>

DoClaim ==
  /\ Executing("claim")
  /\ \/ \E j \in Jobs : StoreClaim(j) /\ Answer(Event("claimed", j, [attempt |-> attempts'[j]]))
     \/ /\ \A j \in Jobs : ~Ready(j)
        /\ UNCHANGED store
        /\ Answer(Event("claimed", NoJob, NoArg))
  /\ UNCHANGED applied
  /\ InOperation

\* _prepare: a request, nothing to do, or a record that is gone
DoPrepare ==
  /\ Executing("prepare")
  /\ \E answer \in {"prepared", "nothing", "failed:prepare"} : Answer(Event(answer, Job, Arg))
  /\ UNCHANGED <<store, applied>>
  /\ InOperation

\* _persist, whose transactions come before mark_completed
ApplyResult ==
  /\ Executing("persist") /\ opStep = "start"
  /\ opStep' = "written"
  /\ applied' = [applied EXCEPT ![Job] = @ + 1]
  /\ UNCHANGED <<store, dataQ, mainQ>>
  /\ InOperation

\* Each finalization has a success callback of its own.
MarkOf(op) ==
  CASE op = "persist" -> "marked:persist" [] op = "complete" -> "marked:complete"
    [] op = "retry" -> "marked:retry"     [] op = "fail" -> "marked:fail"

DoMark ==
  /\ \/ Executing("persist") /\ opStep = "written"
     \/ Executing("complete") \/ Executing("retry") \/ Executing("fail")
  /\ IF status[Job] = "running"
     THEN /\ CASE Executing("retry") -> StoreMark(Job, "retry", Arg.ready)
              [] Executing("fail")  -> StoreMark(Job, "failed", TRUE)
              [] OTHER              -> StoreMark(Job, "completed", TRUE)
          /\ Answer(Event(MarkOf(Head(dataQ).op), Job, NoArg))
     ELSE Answer(Event(FailureOf(Head(dataQ).op), Job, NoArg)) /\ UNCHANGED store
  /\ UNCHANGED applied
  /\ InOperation

DataFault == OperationFails /\ UNCHANGED <<up, flags, current, pendingLaunch, applied, switches>>
-----------------------------------------------------------------------------
(* The main thread handles the first event.                                *)

Handling(event) ==
  /\ up
  /\ mainQ # <<>>
  /\ Head(mainQ).ev = event
  /\ mainQ' = Tail(mainQ)
  /\ UNCHANGED <<store, opStep, dataUp, runnerPaused, runnerShut, faults, up, accepting,
                 paused, foreground, enabled, applied, switches>>

EventJob == Head(mainQ).job
EventArg == Head(mainQ).arg

OnNothingClaimed ==
  /\ Handling("failed:claim") \/ (Handling("claimed") /\ EventJob = NoJob)
  /\ claimInFlight' = FALSE
  /\ UNCHANGED <<dataQ, gen, current, pendingLaunch>>

\* The claim is over as soon as it is reported; nothing records the job yet.
OnClaimed ==
  /\ Handling("claimed")
  /\ EventJob # NoJob
  /\ claimInFlight' = FALSE
  /\ dataQ' = Submitted(IF ~enabled \/ paused \/ foreground
                        THEN Op("retry", EventJob, Later(EventArg.attempt))
                        ELSE Op("prepare", EventJob, EventArg))
  /\ UNCHANGED <<gen, current, pendingLaunch>>

\* _on_prepared replaces _current, and does not look at visible chat.
OnPrepared ==
  /\ Handling("prepared") \/ Handling("nothing")
  /\ UNCHANGED claimInFlight
  /\ LET request == Request(EventJob, EventArg.attempt, "synthesis")
         execution == [request |-> request, finishing |-> FALSE]
     IN IF ~enabled \/ paused \/ ~accepting
        THEN /\ dataQ' = Submitted(Op("retry", EventJob, Now(EventArg.attempt)))
             /\ Release
             /\ UNCHANGED gen
        ELSE IF Head(mainQ).ev = "nothing"
        THEN Finalize("complete", execution) /\ UNCHANGED gen
        ELSE current' = execution /\ Launch(request) /\ UNCHANGED dataQ

OnPrepareFailed ==
  /\ Handling("failed:prepare")
  /\ dataQ' = Submitted(FailOp(EventJob, EventArg.attempt))
  /\ UNCHANGED <<claimInFlight, gen, current, pendingLaunch>>

\* The runner passes on the terminal signal of its context, once.
GenerationEnds(outcome) ==
  /\ Handling(outcome)
  /\ gen.id = EventArg.id /\ ~gen.terminal
  /\ gen' = [gen EXCEPT !.terminal = TRUE]
  /\ UNCHANGED claimInFlight

\* Mutant: the members of the pending repair request are swapped.
OnCompletedSwapped ==
  /\ GenerationEnds("completed")
  /\ Ours
  /\ \/ ~current.finishing /\ Finalize("persist", current)
     \/ /\ gen.phase = "synthesis"
        /\ pendingLaunch' = [current.request EXCEPT !.phase = gen.job, !.job = gen.phase]
        /\ current' = [current EXCEPT !.request.phase = "repair"]
        /\ UNCHANGED dataQ
     \/ gen.phase = "repair" /\ FailCurrent

\* The repair request is launched at once, is refused, and waits for idle.
OnCompleted ==
  /\ GenerationEnds("completed")
  /\ Ours
  /\ \/ ~current.finishing /\ Finalize("persist", current)
     \/ /\ gen.phase = "synthesis"
        /\ pendingLaunch' = [current.request EXCEPT !.phase = "repair"]
        /\ current' = [current EXCEPT !.request.phase = "repair"]
        /\ UNCHANGED dataQ
     \/ gen.phase = "repair" /\ FailCurrent

OnFailed ==
  /\ GenerationEnds("failed") \/ GenerationEnds("cancelled")
  /\ Ours
  /\ FailCurrent

OnLateOutcome ==
  /\ \/ (\E outcome \in Outcomes : GenerationEnds(outcome)) /\ ~Ours
     \/ /\ \E outcome \in Outcomes : Handling(outcome)
        /\ gen.id # EventArg.id \/ gen.terminal
        /\ UNCHANGED <<gen, claimInFlight>>
  /\ UNCHANGED <<dataQ, current, pendingLaunch>>

\* _on_thread_finished, then _on_runner_idle
OnRunnerIdle ==
  /\ Handling("finished")
  /\ IF gen.id # EventArg.id
     THEN UNCHANGED <<gen, claimInFlight, dataQ, current, pendingLaunch>>
     ELSE IF pendingLaunch = NoRequest \/ ~Running
     THEN gen' = NoGen /\ pendingLaunch' = NoRequest /\ UNCHANGED current /\ PollAfter(claimInFlight)
     ELSE IF accepting /\ ~paused /\ ~foreground /\ enabled
     THEN /\ IF runnerPaused \/ runnerShut
             THEN gen' = NoGen /\ UNCHANGED pendingLaunch
             ELSE /\ StartGeneration(pendingLaunch.job, pendingLaunch.attempt, pendingLaunch.phase)
                  /\ pendingLaunch' = NoRequest
          /\ UNCHANGED <<claimInFlight, dataQ, current>>
     ELSE gen' = NoGen /\ FailCurrent /\ UNCHANGED claimInFlight

\* _finish_current and _fail_current act on whatever is current by now.
OnFinalized ==
  \/ /\ Handling("marked:persist") \/ Handling("marked:complete")
     /\ UNCHANGED gen
     /\ Release
     /\ PollAfter(claimInFlight)
  \/ /\ Handling("failed:persist") \/ Handling("failed:complete")
     /\ FailCurrent
     /\ UNCHANGED <<gen, claimInFlight>>

\* _finish_retry and _on_failed_persisted poll; a refused one is only reported.
OnReleased ==
  /\ UNCHANGED <<gen, current, pendingLaunch>>
  /\ \/ (Handling("marked:retry") \/ Handling("marked:fail")) /\ PollAfter(claimInFlight)
     \/ /\ Handling("failed:retry") \/ Handling("failed:fail")
        /\ UNCHANGED <<claimInFlight, dataQ>>

\* The timer, or jobs_enqueued
Poll ==
  /\ CanClaim /\ ~claimInFlight /\ dataUp
  /\ claimInFlight' = TRUE
  /\ dataQ' = Append(dataQ, Op("claim", NoJob, NoArg))
  /\ UNCHANGED <<store, opStep, dataUp, mainQ, runner, faults, up, accepting, paused,
                 foreground, enabled, current, pendingLaunch, applied, switches>>
-----------------------------------------------------------------------------
Worker ==
  /\ WorkerReports \/ ThreadStops
  /\ UNCHANGED <<up, flags, current, pendingLaunch, applied, switches>>

DataThread == DoClaim \/ DoPrepare \/ ApplyResult \/ DoMark

MainThread == \/ OnNothingClaimed \/ OnClaimed \/ OnPrepared \/ OnPrepareFailed
              \/ OnCompleted \/ OnFailed \/ OnLateOutcome \/ OnRunnerIdle
              \/ OnFinalized \/ OnReleased

World ==
  \/ Start \/ Crash \/ Shutdown \/ StopDataThread \/ Exit
  \/ \E b \in BOOLEAN : SetForegroundActive(b) \/ SetEnabled(b)
  \/ Pause \/ Resume \/ OtherStarts
  \/ \E j \in Jobs : Enqueue(j)
  \/ DataFault

Next == MainThread \/ Poll \/ DataThread \/ Worker \/ (\E j \in Jobs : BecomesDue(j)) \/ World

Spec == Init /\ [][Next]_vars

\* As in MemoryJobs: threads, timers and time limits, and nothing users do.
Fairness ==
  /\ WF_vars(MainThread) /\ WF_vars(Poll) /\ WF_vars(DataThread) /\ WF_vars(Worker)
  /\ \A j \in Jobs : WF_vars(BecomesDue(j))

FairSpec == Spec /\ Fairness
-----------------------------------------------------------------------------
(* Properties.                                                             *)

Finals == {"persist", "complete", "retry", "fail"}
QueuedFor(j, ops) == \E i \in DOMAIN dataQ : dataQ[i].job = j /\ dataQ[i].op \in ops
PostedFor(j, evs) == \E i \in DOMAIN mainQ : mainQ[i].job = j /\ mainQ[i].ev \in evs

\* A finalization is queued at most once for a row, and the row is running.
FinalizersOwnTheirRow ==
  \A i \in DOMAIN dataQ : dataQ[i].op \in Finals =>
     /\ status[dataQ[i].job] = "running"
     /\ \A k \in DOMAIN dataQ : k # i /\ dataQ[k].op \in Finals =>
           dataQ[k].job # dataQ[i].job

\* A job writes its result again only for a crash or failed data operation.
AppliedAgainOnlyByFaults == \A j \in Jobs : applied[j] <= 1 + faults

\* A failed row has used its attempts.
FailedAfterAttempts ==
  \A j \in Jobs : status[j] = "failed" => attempts[j] >= MaxJobAttempts

\* Visible chat stops a deep-memory generation: as long as nobody resumes the runner
\* during the chat, one that still runs has been cancelled.
ChatCancelsGeneration ==
  foreground /\ runnerPaused /\ gen.thread = "running" => gen.cancelled

\* "Serialize deep-memory LLM work": one job is claimed at a time, and a second
\* one only when the first has been finalized.
InWork(j) ==
  \/ PostedFor(j, {"claimed", "prepared", "nothing", "failed:prepare"})
  \/ QueuedFor(j, {"prepare"})
  \/ current.request.job = j
DeepWorkIsSerialized == \A j, k \in Jobs : InWork(j) /\ InWork(k) => j = k

\* Every running row of a session is in work, or about to be finalized, or was
\* hit by a failed operation or by shutdown.
NoJobIsOrphaned ==
  up /\ accepting /\ faults = 0 =>
    \A j \in Jobs : status[j] = "running" => InWork(j) \/ QueuedFor(j, Finals)

\* Rows, generations and results belong to one job at a time.
JobsAreOwned ==
  FinalizersOwnTheirRow /\ FailedAfterAttempts /\ ChatCancelsGeneration /\ NoJobIsOrphaned

\* "resume when it ends": once chat, switches and settings leave the scheduler
\* alone, every job ends.
Unhindered == up /\ accepting /\ ~paused /\ ~foreground /\ enabled
DeepJobsEnd ==
  <>[]Unhindered =>
    \A j \in Jobs : [](status[j] # "absent" => <>(status[j] \in {"completed", "failed"}))
=============================================================================
