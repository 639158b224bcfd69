------------------------------ MODULE MemoryJobs ------------------------------
(***************************************************************************)
(* MemoryJobCoordinator: claim one ready job, prepare it on the data       *)
(* thread, generate on the background runner, persist the result, and give *)
(* way to visible chat, provider switches, the memory setting, shutdown and*)
(* crashes.                                                                *)
(*                                                                         *)
(* Every slot runs on the main thread and is one action.  The trailing     *)
(* poll() of a slot is part of its action (PollAfter); the polls the code  *)
(* queues with singleShot(0, poll), and the _claim_refresh_pending flag    *)
(* that only decides whether to queue one, are covered by the timer's Poll,*)
(* which may happen between any two events.                                *)
(***************************************************************************)
EXTENDS JobsWorld

CONSTANTS Kind,             \* [Jobs -> {"summary", "extraction"}]
          Malformed,        \* the jobs whose payload _validate_job_payload refuses
          MaxJobAttempts,   \* MAX_JOB_ATTEMPTS
          MaxSwitches       \* bound on what users and other components do

ASSUME MemoryJobsAssumption ==
  /\ Kind \in [Jobs -> {"summary", "extraction"}]
  /\ Malformed \subseteq Jobs
  /\ MaxJobAttempts \in Nat \ {0}
  /\ MaxSwitches \in Nat

VARIABLES
  up,             \* the process runs and start() has been called
  accepting, recovering, claimInFlight, paused, foreground, memoryEnabled,
  current,        \* _current: the execution, or NoExec
  pendingLaunch,  \* _pending_launch: the phase of current to start when idle
  latest,         \* durable: spans of messages of the conversation, a span
                  \* being what makes a summary due
  covered,        \* durable: covers_through_sequence of the latest summary
  noted,          \* durable: how often the turn of a job was counted in
                  \* completed_turn_count
  abandoned,      \* history: executions given up while their row is running
  switches        \* outside events so far

flags   == <<accepting, recovering, claimInFlight, paused, foreground, memoryEnabled>>
results == <<latest, covered, noted>>
vars    == <<world, up, flags, current, pendingLaunch, results, abandoned, switches>>

NoPlan == [base |-> 0, through |-> 0]
NoExec == [job |-> NoJob, attempt |-> 0, plan |-> NoPlan, finishing |-> FALSE]

TypeOK ==
  /\ WorldTypeOK
  /\ up \in BOOLEAN
  /\ \A f \in {accepting, recovering, claimInFlight, paused, foreground, memoryEnabled} :
       f \in BOOLEAN
  /\ current \in [job : Jobs \cup {NoJob}, attempt : Nat,
                  plan : [base : Nat, through : Nat], finishing : BOOLEAN]
  /\ pendingLaunch \in Phases
  /\ latest \in Nat /\ covered \in Nat
  /\ noted \in [Jobs -> Nat]
  /\ abandoned \subseteq Jobs
  /\ switches \in 0..MaxSwitches

Init ==
  /\ WorldInit
  /\ up = FALSE
  /\ accepting = FALSE /\ recovering = FALSE /\ claimInFlight = FALSE
  /\ paused = FALSE /\ foreground = FALSE /\ memoryEnabled \in BOOLEAN
  /\ current = NoExec
  /\ pendingLaunch = "none"
  /\ latest = 0 /\ covered = 0 /\ noted = [j \in Jobs |-> 0]
  /\ abandoned = {}
  /\ switches = 0
-----------------------------------------------------------------------------
(* Helpers of the slots.                                                   *)

Extraction(j) == j \in Jobs /\ Kind[j] = "extraction"
Allowed(j) == Extraction(j) => memoryEnabled      \* the setting allows the kind
\* Mutant: a second terminal path finalizes the execution again.
RunningOrFinishing == current # NoExec

Running == current # NoExec /\ ~current.finishing

\* Mutants: poll() does not wait for the execution, or for the cancelled worker.
CanClaimAlways ==
  up /\ accepting /\ ~recovering /\ ~paused /\ ~foreground /\ ~IsRunning
CanClaimEarly ==
  /\ up /\ accepting /\ ~recovering /\ ~paused /\ ~foreground
  /\ current = NoExec /\ pendingLaunch = "none"

\* _can_claim, but for _claim_in_flight
CanClaim ==
  /\ up /\ accepting /\ ~recovering /\ ~paused /\ ~foreground
  /\ current = NoExec /\ pendingLaunch = "none" /\ ~IsRunning

\* poll() at the end of a slot that leaves _claim_in_flight = inFlight.  The
\* claim asks for the kinds that are allowed at this moment.
PollAfter(inFlight) ==
  IF CanClaim' /\ ~inFlight /\ dataUp
  THEN claimInFlight' = TRUE /\ dataQ' = Append(dataQ, Op("claim", NoJob, [extraction |-> memoryEnabled']))
  ELSE claimInFlight' = inFlight /\ UNCHANGED dataQ

\* Hand the current job over to one last data operation.  A data thread that
\* takes nothing leaves the job running (_abandon_current).
Finish(op, arg) ==
  /\ dataQ' = Submitted(Op(op, current.job, arg))
  /\ pendingLaunch' = "none"
  /\ IF dataUp
     THEN current' = [current EXCEPT !.finishing = TRUE] /\ UNCHANGED abandoned
     ELSE current' = NoExec /\ abandoned' = abandoned \cup {current.job}

Now == [ready |-> TRUE]
Later == [ready |-> FALSE]   \* RETRY_DELAYS_SECONDS

\* Mutant: gives up one attempt early.
FinishFailureEarly ==
  IF current.attempt + 1 < MaxJobAttempts THEN Finish("retry", Later) ELSE Finish("fail", NoArg)

\* _finish_failure
FinishFailure ==
  IF current.attempt < MaxJobAttempts THEN Finish("retry", Later) ELSE Finish("fail", NoArg)

\* _retry_current_immediately
RetryCurrent ==
  IF Running THEN Finish("retry", Now)
             ELSE UNCHANGED <<dataQ, current, pendingLaunch, abandoned>>

\* _launch: the runner may refuse, then the request waits for its idle signal.
Launch(j, attempt, phase) ==
  IF CanStart
  THEN StartGeneration(j, attempt, phase) /\ pendingLaunch' = "none"
  ELSE UNCHANGED gen /\ pendingLaunch' = phase
-----------------------------------------------------------------------------
(* The process.                                                            *)

\* The stores open, recover_interrupted() runs, start() queues it once more.
Start ==
  /\ ~up
  /\ up' = TRUE /\ accepting' = TRUE /\ recovering' = TRUE
  /\ StoreRecover
  /\ dataUp' = TRUE /\ dataQ' = <<Op("recover", NoJob, NoArg)>>
  /\ abandoned' = {}
  /\ UNCHANGED <<opStep, mainQ, runner, faults, claimInFlight, paused, foreground,
                 memoryEnabled, current, pendingLaunch, results, switches>>

\* All that is not durable is gone.
ProcessEnds ==
  /\ up' = FALSE /\ dataUp' = FALSE /\ dataQ' = <<>> /\ opStep' = "start" /\ mainQ' = <<>>
  /\ gen' = NoGen /\ runnerPaused' = FALSE /\ runnerShut' = FALSE
  /\ accepting' = FALSE /\ recovering' = FALSE /\ claimInFlight' = FALSE
  /\ paused' = FALSE /\ foreground' = FALSE
  /\ current' = NoExec /\ pendingLaunch' = "none"
  /\ UNCHANGED <<store, memoryEnabled, results, abandoned, switches>>

Crash == up /\ faults < MaxFaults /\ faults' = faults + 1 /\ ProcessEnds

\* shutdown(): at exit, or because the database stopped being writable.
Shutdown ==
  /\ up /\ accepting /\ switches < MaxSwitches
  /\ accepting' = FALSE /\ paused' = TRUE
  /\ runnerShut' = TRUE /\ runnerPaused' = TRUE
  /\ \E wait \in BOOLEAN : Cancelled(wait)
  /\ RetryCurrent
  /\ switches' = switches + 1
  /\ UNCHANGED <<store, opStep, dataUp, mainQ, faults, up, recovering, claimInFlight,
                 foreground, memoryEnabled, results>>

\* The data thread stops accepting and drains; then the process may exit.
StopDataThread ==
  /\ up /\ ~accepting /\ dataUp
  /\ dataUp' = FALSE
  /\ UNCHANGED <<store, dataQ, opStep, mainQ, runner, faults, up, flags, current,
                 pendingLaunch, results, abandoned, switches>>

Exit == up /\ ~dataUp /\ dataQ = <<>> /\ ProcessEnds /\ UNCHANGED faults
-----------------------------------------------------------------------------
(* Outside events, in the main thread.                                     *)

Outside ==
  /\ up
  /\ switches < MaxSwitches
  /\ switches' = switches + 1
  /\ UNCHANGED <<store, opStep, dataUp, mainQ, runnerShut, faults, up, accepting,
                 recovering, results>>

\* Mutant: relies on the worker's cancelled signal, which a cleared context drops.
PreemptCancelsOnly == Cancelled(FALSE) /\ UNCHANGED <<dataQ, current, pendingLaunch,
                                                     abandoned, claimInFlight>>

\* runner.pause(0) and what its callbacks do to the current job
Preempt ==
  /\ Cancelled(FALSE)
  /\ RetryCurrent
  /\ UNCHANGED claimInFlight

\* Mutant: the end of a chat turn polls without releasing the runner.
SetForegroundKeepsRunner(active) ==
  /\ Outside
  /\ foreground # active
  /\ foreground' = active
  /\ UNCHANGED <<paused, memoryEnabled>>
  /\ IF active
     THEN runnerPaused' = TRUE /\ Preempt
     ELSE /\ UNCHANGED <<gen, runnerPaused, current, pendingLaunch, abandoned>>
          /\ PollAfter(claimInFlight)

SetForegroundActive(active) ==
  /\ Outside
  /\ foreground # active
  /\ foreground' = active
  /\ UNCHANGED <<paused, memoryEnabled>>
  /\ IF active
     THEN runnerPaused' = TRUE /\ Preempt
     ELSE /\ UNCHANGED <<gen, current, pendingLaunch, abandoned>>
          /\ runnerPaused' = (runnerPaused /\ (paused \/ ~accepting))
          /\ PollAfter(claimInFlight)

\* Mutant: switching memory off only stops new claims.
SetMemoryOnlyClaims(enabled) ==
  /\ Outside
  /\ memoryEnabled # enabled
  /\ memoryEnabled' = enabled
  /\ UNCHANGED <<paused, foreground, gen, runnerPaused, current, pendingLaunch, abandoned>>
  /\ PollAfter(claimInFlight)

\* Mutant: the runner paused to cancel an extraction is not released.
SetMemoryKeepsPause(enabled) ==
  /\ Outside
  /\ memoryEnabled # enabled
  /\ memoryEnabled' = enabled
  /\ UNCHANGED <<paused, foreground>>
  /\ IF ~enabled /\ Extraction(current.job)
     THEN runnerPaused' = TRUE /\ Preempt
     ELSE /\ UNCHANGED <<gen, runnerPaused, current, pendingLaunch, abandoned>>
          /\ PollAfter(claimInFlight)

SetMemoryEnabled(enabled) ==
  /\ Outside
  /\ memoryEnabled # enabled
  /\ memoryEnabled' = enabled
  /\ UNCHANGED <<paused, foreground>>
  /\ IF ~enabled /\ Extraction(current.job)
     THEN /\ runnerPaused' = (paused \/ foreground \/ ~accepting)
          /\ Preempt
     ELSE /\ UNCHANGED <<gen, runnerPaused, current, pendingLaunch, abandoned>>
          /\ PollAfter(claimInFlight)

\* pause(): before a provider switch or exclusive work on the data.
Pause ==
  /\ Outside
  /\ paused' = TRUE
  /\ runnerPaused' = TRUE
  /\ \E wait \in BOOLEAN : Cancelled(wait)
  /\ RetryCurrent
  /\ UNCHANGED <<claimInFlight, foreground, memoryEnabled>>

Resume ==
  /\ Outside
  /\ paused /\ ~runnerShut
  /\ paused' = FALSE
  /\ runnerPaused' = FALSE
  /\ UNCHANGED <<gen, current, pendingLaunch, abandoned, foreground, memoryEnabled>>
  /\ PollAfter(claimInFlight)

\* The end of a chat turn enqueues: a summary when one more span of messages is
\* there, an extraction when memory is on.
Enqueue(j) ==
  /\ up /\ dataUp
  /\ status[j] = "absent"
  /\ Allowed(j)
  /\ StoreEnqueue(j)
  /\ latest' = IF Extraction(j) THEN latest ELSE latest + 1
  /\ UNCHANGED <<queues, runner, faults, up, flags, current, pendingLaunch,
                 covered, noted, abandoned, switches>>

RetryFailed(j) ==
  /\ up /\ dataUp
  /\ switches < MaxSwitches
  /\ switches' = switches + 1
  /\ StoreRetryFailed(j)
  /\ UNCHANGED <<queues, runner, faults, up, flags, current, pendingLaunch, results,
                 abandoned>>

\* The retry delay passes.
BecomesDue(j) ==
  /\ ~due[j]
  /\ due' = [due EXCEPT ![j] = TRUE]
  /\ UNCHANGED <<status, attempts, queues, runner, faults, up, flags, current,
                 pendingLaunch, results, abandoned, switches>>
-----------------------------------------------------------------------------
(* The data thread executes the first operation.                           *)

InOperation ==
  UNCHANGED <<dataUp, runner, faults, up, flags, current, pendingLaunch, abandoned,
              switches>>

DoRecover ==
  /\ Executing("recover")
  /\ StoreRecover
  /\ Answer(Event("recovered", NoJob, NoArg))
  /\ UNCHANGED results
  /\ InOperation

\* claim_ready(limit=1): the argument says whether extraction was asked for.
DoClaim ==
  /\ Executing("claim")
  /\ LET claimable == {j \in Jobs : Ready(j) /\ (Arg.extraction \/ ~Extraction(j))}
     IN \/ \E j \in claimable :
             StoreClaim(j) /\ Answer(Event("claimed", j, [attempt |-> attempts'[j]]))
        \/ claimable = {} /\ UNCHANGED store /\ Answer(Event("claimed", NoJob, NoArg))
  /\ UNCHANGED results
  /\ InOperation

\* Mutant: summarizes from the cursor of the payload, not from the latest one.
PrepareFromPayload ==
  /\ Executing("prepare")
  /\ Answer(Event("prepared", Job, [base |-> 0, through |-> latest]))
  /\ UNCHANGED <<store, results>>
  /\ InOperation

\* A span of messages to summarize, or one that is covered already.
PrepareSummary ==
  IF covered < latest
  THEN Answer(Event("prepared", Job, [base |-> covered, through |-> latest]))
  ELSE Answer(Event("nothing", Job, NoArg))

\* A text to learn from, one that must not be remembered or is known, or a
\* source message that is gone or no longer eligible.
PrepareExtraction ==
  \/ Answer(Event("prepared", Job, NoPlan))
  \/ Answer(Event("nothing", Job, NoArg))
  \/ Answer(Event("failed:prepare", Job, NoArg))

\* _prepare_job
DoPrepare ==
  /\ Executing("prepare")
  /\ IF Extraction(Job) THEN PrepareExtraction ELSE PrepareSummary
  /\ UNCHANGED <<store, results>>
  /\ InOperation

\* The persist closures: the check, the writes and mark_completed are
\* transactions of their own.
CheckBeforeWrite ==
  /\ Executing("persist") /\ opStep = "start"
  /\ opStep' = IF IF Extraction(Job) THEN memoryEnabled ELSE covered < Arg.through
               THEN "checked" ELSE "written"
  /\ UNCHANGED <<store, results, dataQ, mainQ>>
  /\ InOperation

SaveSummary == covered' = Arg.through /\ UNCHANGED noted

\* _apply_candidates, _apply_companion_cues, then note_completed_turn and the
\* deep-memory cycle it makes due
ApplyCandidates == noted' = [noted EXCEPT ![Job] = @ + 1] /\ UNCHANGED covered

WriteResult ==
  /\ Executing("persist") /\ opStep = "checked"
  /\ IF Extraction(Job) THEN ApplyCandidates ELSE SaveSummary
  /\ opStep' = "written"
  /\ UNCHANGED <<store, latest, dataQ, mainQ>>
  /\ InOperation

\* mark_completed, mark_retry or mark_failed, each refused unless the row runs.
DoMark ==
  /\ \/ Executing("persist") /\ opStep = "written"
     \/ Executing("complete") \/ Executing("retry") \/ Executing("fail")
  /\ IF status[Job] = "running"
     THEN /\ CASE Executing("retry") -> StoreMark(Job, "retry", Arg.ready)
              [] Executing("fail")  -> StoreMark(Job, "failed", TRUE)
              [] OTHER              -> StoreMark(Job, "completed", TRUE)
          /\ Answer(Event("marked", Job, NoArg))
     ELSE Answer(Event(FailureOf(Head(dataQ).op), Job, NoArg)) /\ UNCHANGED store
  /\ UNCHANGED results
  /\ InOperation

DataFault == OperationFails /\ UNCHANGED <<up, flags, current, pendingLaunch, results,
                                           abandoned, switches>>
-----------------------------------------------------------------------------
(* The main thread handles the first event.                                *)

Handling(event) ==
  /\ up
  /\ mainQ # <<>>
  /\ Head(mainQ).ev = event
  /\ mainQ' = Tail(mainQ)
  /\ UNCHANGED <<store, opStep, dataUp, runnerPaused, runnerShut, faults, up, accepting,
                 paused, foreground, memoryEnabled, results, switches>>

EventJob == Head(mainQ).job
EventArg == Head(mainQ).arg
Yielding == paused \/ foreground \/ ~accepting

\* _on_recovered; a failed recovery only ends the wait for it.
OnRecovered ==
  /\ recovering' = FALSE
  /\ UNCHANGED <<gen, current, pendingLaunch, abandoned>>
  /\ \/ Handling("recovered") /\ PollAfter(claimInFlight)
     \/ Handling("failed:recover") /\ UNCHANGED <<claimInFlight, dataQ>>

\* An empty claim, or one that failed
OnNothingClaimed ==
  /\ Handling("failed:claim") \/ (Handling("claimed") /\ EventJob = NoJob)
  /\ claimInFlight' = FALSE
  /\ UNCHANGED <<recovering, dataQ, gen, current, pendingLaunch, abandoned>>

\* What a claim is answered with: the row is put back while the scheduler
\* yields, fails for good when its payload is invalid, or is prepared.
AfterClaim(j) ==
  IF Yielding \/ ~Allowed(j) THEN Op("retry", j, Now)
  ELSE IF j \in Malformed THEN Op("fail", j, NoArg)
  ELSE Op("prepare", j, NoArg)

OnClaimed ==
  /\ Handling("claimed")
  /\ EventJob # NoJob
  /\ claimInFlight' = FALSE
  /\ LET execution == [NoExec EXCEPT !.job = EventJob, !.attempt = EventArg.attempt]
         op == AfterClaim(EventJob)
     IN /\ dataQ' = Submitted(op)
        /\ IF dataUp
           THEN /\ current' = [execution EXCEPT !.finishing = (op.op # "prepare")]
                /\ UNCHANGED abandoned
           ELSE current' = NoExec /\ abandoned' = abandoned \cup {EventJob}
  /\ UNCHANGED <<recovering, gen, pendingLaunch>>

\* _on_prepared and _on_prepare_failed, whose execution still waits for them.  Their
\* exits for what _prepare_job never returns are left out.
Awaited == current.job = EventJob /\ Running

OnPrepared ==
  /\ Handling("prepared")
  /\ Awaited
  /\ IF Yielding \/ ~Allowed(EventJob)
     THEN Finish("retry", Now) /\ UNCHANGED gen
     ELSE /\ current' = [current EXCEPT !.plan = EventArg]
          /\ Launch(EventJob, current.attempt,
                    IF Extraction(EventJob) THEN "extraction" ELSE "summary")
          /\ UNCHANGED <<dataQ, abandoned>>
  /\ UNCHANGED <<recovering, claimInFlight>>

OnNothingToDo ==
  /\ Handling("nothing")
  /\ Awaited
  /\ IF Yielding \/ ~Allowed(EventJob) THEN Finish("retry", Now) ELSE Finish("complete", NoArg)
  /\ UNCHANGED <<recovering, claimInFlight, gen>>

OnPrepareFailed ==
  /\ Handling("failed:prepare")
  /\ Awaited
  /\ FinishFailure
  /\ UNCHANGED <<recovering, claimInFlight, gen>>

OnLatePrepare ==
  /\ Handling("prepared") \/ Handling("nothing") \/ Handling("failed:prepare")
  /\ ~Awaited
  /\ UNCHANGED <<recovering, claimInFlight, dataQ, gen, current, pendingLaunch, abandoned>>

\* The runner passes on the terminal signal of its context, once; the
\* coordinator then compares the job.
GenerationEnds(outcome) ==
  /\ Handling(outcome)
  /\ gen.id = EventArg.id /\ ~gen.terminal
  /\ gen' = [gen EXCEPT !.terminal = TRUE]
  /\ UNCHANGED <<recovering, claimInFlight>>

\* Mutant: a late result counts although the execution is being finalized.
OursByJob == current # NoExec /\ current.job = gen.job

Ours == current.job = gen.job /\ Running

\* Mutant: the members of _pending_launch are swapped.
OnCompletedSwapped ==
  /\ GenerationEnds("completed")
  /\ Ours
  /\ \/ Finish("persist", current.plan)
     \/ /\ gen.phase = "extraction"
        /\ pendingLaunch' = current.job
        /\ UNCHANGED <<dataQ, current, abandoned>>
     \/ gen.phase = "repair" /\ FinishFailure

\* An extraction that is not valid JSON gets one repair request, which waits
\* for the runner.
Repair ==
  /\ gen.phase = "extraction"
  /\ pendingLaunch' = "repair"
  /\ UNCHANGED <<dataQ, current, abandoned>>

OnCompleted ==
  /\ GenerationEnds("completed")
  /\ Ours
  /\ \/ Finish("persist", current.plan)
     \/ Repair
     \/ gen.phase = "repair" /\ FinishFailure

\* A request cancelled for chat, a switch or the setting is not a failure; their
\* handlers have queued the retry themselves when the signal arrives.
OnFailed ==
  \E outcome \in {"cancelled", "failed"} :
    /\ GenerationEnds(outcome)
    /\ Ours
    /\ IF outcome = "cancelled" /\ (Yielding \/ ~memoryEnabled)
       THEN Finish("retry", Now)
       ELSE FinishFailure

OnLateOutcome ==
  /\ \/ (\E outcome \in Outcomes : GenerationEnds(outcome)) /\ ~Ours
     \/ /\ \E outcome \in Outcomes : Handling(outcome)
        /\ gen.id # EventArg.id \/ gen.terminal
        /\ UNCHANGED <<gen, recovering, claimInFlight>>
  /\ UNCHANGED <<dataQ, current, pendingLaunch, abandoned>>

\* _on_thread_finished, then _on_runner_idle
OnRunnerIdle ==
  /\ Handling("finished")
  /\ UNCHANGED recovering
  /\ IF gen.id # EventArg.id
     THEN UNCHANGED <<gen, claimInFlight, dataQ, current, pendingLaunch, abandoned>>
     ELSE IF pendingLaunch = "none" \/ ~Running
     THEN /\ gen' = NoGen
          /\ pendingLaunch' = "none"
          /\ UNCHANGED <<current, abandoned>>
          /\ PollAfter(claimInFlight)
     ELSE /\ UNCHANGED claimInFlight
          /\ IF Yielding \/ ~Allowed(current.job)
             THEN gen' = NoGen /\ Finish("retry", Now)
             ELSE /\ StartGeneration(current.job, current.attempt, pendingLaunch)
                  /\ pendingLaunch' = "none"
                  /\ UNCHANGED <<dataQ, current, abandoned>>

\* _on_job_completed, _on_failure_persisted; _on_finalization_failed leaves the
\* row running (_abandon_current).  _clear_current queues the poll.
OnFinished ==
  /\ \/ Handling("marked") /\ UNCHANGED abandoned
     \/ /\ \E op \in {"persist", "complete", "retry", "fail"} : Handling(FailureOf(op))
        /\ abandoned' = abandoned \cup {EventJob}
  /\ IF current.job = EventJob
     THEN current' = NoExec /\ pendingLaunch' = "none"
     ELSE UNCHANGED <<current, pendingLaunch>>
  /\ UNCHANGED <<recovering, claimInFlight, dataQ, gen>>

\* The timer, or a queued poll()
Poll ==
  /\ CanClaim /\ ~claimInFlight /\ dataUp
  /\ claimInFlight' = TRUE
  /\ dataQ' = Append(dataQ, Op("claim", NoJob, [extraction |-> memoryEnabled]))
  /\ UNCHANGED <<store, opStep, dataUp, mainQ, runner, faults, up, accepting, recovering,
                 paused, foreground, memoryEnabled, current, pendingLaunch, results,
                 abandoned, switches>>
-----------------------------------------------------------------------------
Others == UNCHANGED <<up, flags, current, pendingLaunch, results, abandoned, switches>>
Worker == (WorkerReports \/ ThreadStops) /\ Others

DataThread == \/ DoRecover \/ DoClaim \/ DoPrepare \/ CheckBeforeWrite \/ WriteResult
              \/ DoMark

MainThread == \/ OnRecovered \/ OnNothingClaimed \/ OnClaimed \/ OnPrepared
              \/ OnNothingToDo \/ OnPrepareFailed \/ OnLatePrepare \/ OnCompleted
              \/ OnFailed \/ OnLateOutcome \/ OnRunnerIdle \/ OnFinished

Time == \E j \in Jobs : BecomesDue(j)

World ==
  \/ Start \/ Crash \/ Shutdown \/ StopDataThread \/ Exit
  \/ \E b \in BOOLEAN : SetForegroundActive(b) \/ SetMemoryEnabled(b)
  \/ Pause \/ Resume
  \/ \E j \in Jobs : Enqueue(j) \/ RetryFailed(j)
  \/ DataFault

Next == MainThread \/ Poll \/ DataThread \/ Worker \/ Time \/ World

Spec == Init /\ [][Next]_vars

\* The threads and the timers run; a request ends by its time limits.  Nobody
\* has to press a button, and nothing has to go wrong.
Fairness ==
  /\ WF_vars(MainThread) /\ WF_vars(Poll) /\ WF_vars(DataThread) /\ WF_vars(Worker)
  /\ \A j \in Jobs : WF_vars(BecomesDue(j))

FairSpec == Spec /\ Fairness
-----------------------------------------------------------------------------
(* Properties.                                                             *)

Finals == {"persist", "complete", "retry", "fail"}
QueuedFor(j, ops) == \E i \in DOMAIN dataQ : dataQ[i].job = j /\ dataQ[i].op \in ops
PostedFor(j, evs) == \E i \in DOMAIN mainQ : mainQ[i].job = j /\ mainQ[i].ev \in evs
PrepareAnswers == {"prepared", "nothing", "failed:prepare"}
FinalAnswers == {"marked", "failed:persist", "failed:complete", "failed:retry", "failed:fail"}

\* At most one row is running in a session, and the coordinator knows it: it is
\* the current execution or the claim about to be reported, unless a failed
\* finalization gave it up until the next start.
OneKnownJobRuns ==
  up => \A j \in Jobs : status[j] = "running" /\ j \notin abandoned =>
          /\ current.job = j \/ (current = NoExec /\ PostedFor(j, {"claimed"}))
          /\ \A k \in Jobs \ {j} : status[k] = "running" => k \in abandoned

\* No lost wake-up: whatever the coordinator waits for is on its way.  A claim in
\* flight has its operation or its answer queued; an execution is being prepared,
\* generated or finalized, or its request waits for a runner that will be idle.
ExecutionIsDriven ==
  /\ claimInFlight => QueuedFor(NoJob, {"claim"}) \/ \E i \in DOMAIN mainQ :
                         mainQ[i].ev \in {"claimed", "failed:claim"}
  /\ current # NoExec =>
       IF current.finishing
       THEN QueuedFor(current.job, Finals) \/ PostedFor(current.job, FinalAnswers)
       ELSE \/ QueuedFor(current.job, {"prepare"}) \/ PostedFor(current.job, PrepareAnswers)
            \/ gen.job = current.job /\ ~gen.terminal
            \/ pendingLaunch # "none" /\ gen.id # 0

\* mark_completed, mark_retry and mark_failed are refused for a row that is not
\* running: every finalization still queued is for a running row, and it is the
\* only one for it.
FinalizersOwnTheirRow ==
  \A i \in DOMAIN dataQ : dataQ[i].op \in Finals =>
     /\ status[dataQ[i].job] = "running"
     /\ \A k \in DOMAIN dataQ : k # i /\ dataQ[k].op \in Finals =>
           dataQ[k].job # dataQ[i].job

\* Visible chat, a provider switch and shutdown stop background generation, and
\* so does switching memory off for extraction: a request that still runs then
\* has been cancelled.
YieldingCancelsGeneration ==
  gen.thread = "running" /\ (Yielding \/ ~Allowed(gen.job)) => gen.cancelled

\* When nothing holds it back, the runner is left able to start.
RunnerIsReleased == up /\ ~Yielding => ~runnerPaused

\* A result reaches only the execution that asked for it: what the runner still
\* has to report for the current job is of the current attempt.
ResultIsOfThisAttempt ==
  Running /\ gen.job = current.job /\ ~gen.terminal => gen.attempt = current.attempt

\* A summary is saved only on top of the cursor it was prepared from, so saved
\* summaries neither overlap nor leave messages out, whatever was preempted,
\* retried or recovered in between.
Contiguous == covered' # covered => Arg.base = covered /\ covered < Arg.through
SummariesAreContiguous == [][Contiguous]_vars

\* A failed row has used its attempts, or its payload is invalid and no attempt
\* could have helped.
FailedAfterAttempts ==
  \A j \in Jobs : status[j] = "failed" => attempts[j] >= MaxJobAttempts \/ j \in Malformed

\* The turn of a job is counted once more only for each crash or failed data
\* operation, never by preemption, retry or a late result.
CountedAgainOnlyByFaults == \A j \in Jobs : noted[j] <= 1 + faults

\* How the scheduler runs, and who owns a row and a result.
SchedulingIsSound ==
  OneKnownJobRuns /\ ExecutionIsDriven /\ YieldingCancelsGeneration /\ RunnerIsReleased
ResultsAreOwned ==
  FinalizersOwnTheirRow /\ ResultIsOfThisAttempt /\ FailedAfterAttempts /\ CountedAgainOnlyByFaults

\* "will be recovered idempotently next start": a recovered job does not count
\* its turn again.
RecoveredIdempotently == \A j \in Jobs : noted[j] <= 1

\* "a disabled extractor cannot add a late memory": nothing is written while
\* memory is disabled.
NoLateMemory == [][noted' # noted => memoryEnabled]_vars

\* Once chat, switches and settings leave the scheduler alone, every job is
\* completed or failed, or was given up for this session.
Unhindered == up /\ ~Yielding /\ memoryEnabled
Enqueued(j) == status[j] # "absent"
HasEnded(j) == status[j] \in {"completed", "failed"} \/ j \in abandoned
JobsEnd == <>[]Unhindered => \A j \in Jobs : Enqueued(j) ~> HasEnded(j)
=============================================================================
