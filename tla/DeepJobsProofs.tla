---------------------------- MODULE DeepJobsProofs ----------------------------
(***************************************************************************)
(* Theorems of DeepJobs: its types, for any number of jobs what a failed   *)
(* row and a visible chat promise, and for one job who owns its row and its*)
(* result.  They all follow from one inductive invariant, IInv.            *)
(*                                                                         *)
(* Its first part holds for any number of jobs: the types, what is left    *)
(* when the process is down, the modes of the runner, and the attempts that*)
(* are known of (Typed, Down, Modes, Counted).  The second part, OneInv, is*)
(* about a coordinator with a single job, where nothing can overtake it:   *)
(* one operation or answer at most has the job in its hands (Alone) and    *)
(* knows whether the coordinator keeps the execution (Kept); the row agrees*)
(* with it (Rows), the attempt is the last one (Latest), and somebody has  *)
(* every running row (Held).  Written carries that to the results.  With   *)
(* two jobs OneInv is false, as the code claims a second job before the    *)
(* first one is finalized.                                                 *)
(*                                                                         *)
(* The proof that a step preserves IInv has one lemma for each action, and *)
(* one step in it for each conjunct.                                       *)
(***************************************************************************)
EXTENDS DeepJobs, TLAPS, QueueTheorems

(* The types of the queues, the runner and the execution. *)

Delays == [ready : BOOLEAN, attempt : Nat]
OpRecs ==
  [op : {"claim"}, job : {NoJob}, arg : {NoArg}]
    \cup [op : {"prepare"}, job : Jobs, arg : [attempt : Nat]]
    \cup [op : {"persist", "complete", "fail"}, job : Jobs, arg : {NoArg}]
    \cup [op : {"retry"}, job : Jobs, arg : Delays]

Preparations == {"prepared", "nothing", "failed:prepare"}
KeptAnswers == {"marked:persist", "marked:complete", "failed:persist", "failed:complete"}
LooseAnswers == {"marked:retry", "marked:fail", "failed:retry", "failed:fail"}
EventRecs ==
  [ev : {"claimed", "failed:claim"}, job : {NoJob}, arg : {NoArg}]
    \cup [ev : {"claimed"} \cup Preparations, job : Jobs, arg : [attempt : Nat]]
    \cup [ev : KeptAnswers \cup LooseAnswers, job : Jobs, arg : {NoArg} \cup Delays]
    \cup [ev : Outcomes \cup {"finished"}, job : Jobs \cup {NoJob}, arg : [id : Nat \ {0}]]

Gens == [id : Nat, job : Jobs \cup {NoJob}, attempt : Nat, phase : Phases,
         thread : {"running", "ending", "stopped"}, cancelled : BOOLEAN, terminal : BOOLEAN]
Execs == [request : Requests, finishing : BOOLEAN]

Typed ==
  /\ status \in [Jobs -> Statuses] /\ attempts \in [Jobs -> Nat] /\ due \in [Jobs -> BOOLEAN]
  /\ dataQ \in Seq(OpRecs) /\ mainQ \in Seq(EventRecs)
  /\ opStep \in {"start", "written"}
  /\ gen \in Gens
  /\ up \in BOOLEAN /\ dataUp \in BOOLEAN /\ accepting \in BOOLEAN /\ claimInFlight \in BOOLEAN
  /\ paused \in BOOLEAN /\ foreground \in BOOLEAN /\ enabled \in BOOLEAN
  /\ runnerPaused \in BOOLEAN /\ runnerShut \in BOOLEAN
  /\ current \in Execs /\ pendingLaunch \in Requests
  /\ applied \in [Jobs -> Nat]
  /\ faults \in 0..MaxFaults /\ switches \in 0..MaxSwitches

Queued == Elements(dataQ)
Posted == Elements(mainQ)

\* A process that has ended leaves only its rows.
Down ==
  ~up => mainQ = <<>> /\ dataQ = <<>> /\ gen = NoGen /\ opStep = "start" /\ current = NoExec

\* An execution has a job, a runner without a context is idle, and shutdown comes
\* before the end of the data thread.
Modes ==
  /\ current # NoExec => current.request.job \in Jobs
  /\ gen.id = 0 => gen = NoGen
  /\ up /\ accepting => dataUp
  /\ ChatCancelsGeneration

\* An event that carries a job which has been claimed
Holds(e) == e.ev \in Preparations \/ (e.ev = "claimed" /\ e.job # NoJob)

\* No attempt is known before its row counts it, and a row fails after the last.
Counted ==
  /\ \A o \in Queued : o.op = "prepare" => o.arg.attempt <= attempts[o.job]
  /\ \A o \in Queued : o.op = "fail" => attempts[o.job] >= MaxJobAttempts
  /\ \A e \in Posted : Holds(e) => e.arg.attempt <= attempts[e.job]
  /\ current # NoExec => current.request.attempt <= attempts[current.request.job]
  /\ FailedAfterAttempts

----------------------------------------
(* With a single job nothing overtakes it. *)

OneJob == \A j, k \in Jobs : j = k

\* What has the job in its hands, besides the execution
Handles(o) == o.op \in {"prepare"} \cup Finals
Holders == {o \in OpRecs : Handles(o)}
Carries(e) == Holds(e) \/ e.ev \in KeptAnswers
Carriers == {e \in EventRecs : Carries(e)}

\* One operation or answer at most has it,
Alone ==
  /\ Single(dataQ, Holders)
  /\ Single(mainQ, Carriers)
  /\ \A o \in Queued, e \in Posted : ~(Handles(o) /\ Carries(e))

\* which knows whether the coordinator keeps the execution.
Kept ==
  /\ \A o \in Queued : o.op \in {"prepare", "retry", "fail"} => current = NoExec
  /\ \A o \in Queued : o.op \in {"persist", "complete"} => current # NoExec /\ current.finishing
  /\ \A e \in Posted : Holds(e) => current = NoExec
  /\ \A e \in Posted : e.ev \in KeptAnswers => current # NoExec /\ current.finishing

\* The row agrees with them.
Rows ==
  /\ \A o \in Queued : Handles(o) => status[o.job] = "running"
  /\ \A e \in Posted : Holds(e) \/ e.ev \in {"failed:persist", "failed:complete"} =>
       status[e.job] = "running"
  /\ \A e \in Posted : e.ev \in {"marked:persist", "marked:complete"} =>
       status[e.job] = "completed"
  /\ Running => status[current.request.job] = "running"
  /\ current # NoExec => status[current.request.job] \in {"running", "completed"}

\* The attempt at work is the last one the row counted; a generation of it exists
\* only once its preparation has answered, and has ended when its result is written.
Latest ==
  /\ \A o \in Queued : o.op = "prepare" => o.arg.attempt = attempts[o.job]
  /\ \A e \in Posted : Holds(e) => e.arg.attempt = attempts[e.job]
  /\ current # NoExec => current.request.attempt = attempts[current.request.job]
  /\ gen.job \in Jobs => gen.attempt <= attempts[gen.job]
  /\ pendingLaunch.job \in Jobs => pendingLaunch.attempt <= attempts[pendingLaunch.job]
  /\ gen.job \in Jobs /\ ((\E o \in Queued : o.op = "prepare") \/ \E e \in Posted : Holds(e)) =>
       gen.attempt < attempts[gen.job]
  /\ gen.job \in Jobs /\ current # NoExec /\ current.finishing =>
       gen.terminal \/ gen.attempt < attempts[gen.job]

\* A result that is written completes its row, unless a fault comes in between.
Written ==
  /\ opStep # "start" => Executing("persist")
  /\ \A j \in Jobs :
       \/ applied[j] <= faults
       \/ /\ applied[j] <= 1 + faults
          /\ status[j] = "completed" \/ (opStep = "written" /\ Job = j)

\* A running row is in somebody's hands.
InHands(j) ==
  \/ \E e \in Posted : Holds(e) /\ e.job = j
  \/ \E o \in Queued : Handles(o) /\ o.job = j
  \/ current.request.job = j
Held == up /\ accepting /\ faults = 0 => \A j \in Jobs : status[j] = "running" => InHands(j)

OneInv == Alone /\ Kept /\ Rows /\ Latest /\ Written /\ Held

IInv == Typed /\ Down /\ Modes /\ Counted /\ (OneJob => OneInv)
----------------------------------------
(* Lemmas about the operations, the events and the two queues. *)

OpTyped(o) ==
  /\ o.op \in {"claim", "prepare"} \cup Finals
  /\ o.op = "claim" => o.job = NoJob
  /\ o.op # "claim" => o.job \in Jobs
  /\ o.op = "prepare" => o.arg.attempt \in Nat /\ o.arg \in [attempt : Nat]
  /\ o.op = "retry" => o.arg \in Delays /\ o.arg.ready \in BOOLEAN
  /\ o.op \in {"persist", "complete", "fail"} => o.arg = NoArg

EventTyped(e) ==
  /\ e.ev \in {"claimed", "failed:claim"} \cup Preparations \cup KeptAnswers \cup LooseAnswers
                \cup Outcomes \cup {"finished"}
  /\ e.job \in Jobs \cup {NoJob}
  /\ Holds(e) => e.job \in Jobs /\ e.arg.attempt \in Nat /\ e.arg \in [attempt : Nat]
  /\ e.ev \in KeptAnswers \cup LooseAnswers => e.job \in Jobs
  /\ e.ev \in Outcomes \cup {"finished"} => e.arg.id \in Nat \ {0}

\* What the record sets say of an operation and of an event.
LEMMA AnyOpTyped == \A o \in OpRecs : OpTyped(o)
  BY DEF OpRecs, Finals, Delays, NoArg, OpTyped

LEMMA AnyEventTyped == \A e \in EventRecs : EventTyped(e)
  BY JobsAssumption
     DEF EventRecs, Preparations, KeptAnswers, LooseAnswers, Outcomes, Holds, Delays,
         EventTyped

\* The types of what is queued and posted
LEMMA AllTyped ==
  ASSUME IInv
  PROVE  /\ \A o \in Queued : OpTyped(o) /\ o \in OpRecs
         /\ \A e \in Posted : EventTyped(e) /\ e \in EventRecs
  BY AnyOpTyped, AnyEventTyped, NotEmpty DEF IInv, Typed, Queued, Posted

\* The types of the model follow from the finer ones.
LEMMA TypedIsTypeOK == IInv => TypeOK
  <1>1. ASSUME IInv
        PROVE  /\ \A i \in DOMAIN dataQ : dataQ[i].job \in Jobs \cup {NoJob}
               /\ \A i \in DOMAIN mainQ : mainQ[i].job \in Jobs \cup {NoJob}
    <2>1. /\ \A i \in DOMAIN dataQ : dataQ[i] \in Queued
          /\ \A i \in DOMAIN mainQ : mainQ[i] \in Posted
      BY DEF Queued, Posted, Elements
    <2> QED  BY <1>1, <2>1, AllTyped DEF OpTyped, EventTyped, Finals
  <1> QED  BY <1>1 DEF IInv, Typed, TypeOK, WorldTypeOK, Gens, Execs

\* The main thread takes the first event.
EventTaken ==
  /\ mainQ' \in Seq(EventRecs)
  /\ Head(mainQ) \in EventRecs /\ EventTyped(Head(mainQ)) /\ Head(mainQ) \in Posted
  /\ Posted = {Head(mainQ)} \cup Posted'
  /\ OneJob => Single(mainQ', Carriers)
  /\ OneJob /\ Carries(Head(mainQ)) => \A d \in Posted' : ~Carries(d)

\* The queue without its first event.
LEMMA TakesEvent ==
  ASSUME IInv, mainQ # <<>>, mainQ' = Tail(mainQ)
  PROVE  EventTaken
  <1>1. mainQ \in Seq(EventRecs) /\ (OneJob => Single(mainQ, Carriers))
    BY DEF IInv, Typed, OneInv, Alone
  <1>2. /\ mainQ' \in Seq(EventRecs) /\ Head(mainQ) \in EventRecs
        /\ Posted = {Head(mainQ)} \cup Posted'
    BY <1>1, Taking DEF Posted
  <1>3. EventTyped(Head(mainQ)) /\ \A d \in Posted' : d \in EventRecs
    BY <1>2, AllTyped
  <1>4. OneJob => /\ Single(mainQ', Carriers)
                  /\ Head(mainQ) \in Carriers => \A d \in Posted' : d \notin Carriers
    BY <1>1, SingleTail DEF Posted
  <1> QED  BY <1>2, <1>3, <1>4 DEF EventTaken, Carriers

\* An event is posted to the main thread.
EventPosted(e) ==
  /\ mainQ' \in Seq(EventRecs)
  /\ e \in EventRecs /\ EventTyped(e)
  /\ Posted' = Posted \cup {e}
  /\ OneJob /\ (Carries(e) => \A d \in Posted : ~Carries(d)) => Single(mainQ', Carriers)

\* The queue with one event more.
LEMMA PostsEvent ==
  ASSUME IInv, NEW e \in EventRecs, mainQ' = Append(mainQ, e)
  PROVE  EventPosted(e)
  <1>1. mainQ \in Seq(EventRecs) /\ (OneJob => Single(mainQ, Carriers))
    BY DEF IInv, Typed, OneInv, Alone
  <1>2. mainQ' \in Seq(EventRecs) /\ Posted' = Posted \cup {e}
    BY <1>1, Appending DEF Posted
  <1>3. OneJob /\ (e \in Carriers => \A d \in Posted : d \notin Carriers)
          => Single(mainQ', Carriers)
    BY <1>1, SingleAppend DEF Posted
  <1>4. EventTyped(e)
    BY AnyEventTyped
  <1> QED  BY <1>2, <1>3, <1>4 DEF EventPosted, Carriers

\* The data thread is done with its first operation.
OpTaken ==
  /\ dataQ' \in Seq(OpRecs)
  /\ Head(dataQ) \in OpRecs /\ OpTyped(Head(dataQ)) /\ Head(dataQ) \in Queued
  /\ Queued = {Head(dataQ)} \cup Queued'
  /\ OneJob => Single(dataQ', Holders)
  /\ OneJob /\ Handles(Head(dataQ)) => \A d \in Queued' : ~Handles(d)

\* The queue without its first operation.
LEMMA TakesOp ==
  ASSUME IInv, dataQ # <<>>, dataQ' = Tail(dataQ)
  PROVE  OpTaken
  <1>1. dataQ \in Seq(OpRecs) /\ (OneJob => Single(dataQ, Holders))
    BY DEF IInv, Typed, OneInv, Alone
  <1>2. /\ dataQ' \in Seq(OpRecs) /\ Head(dataQ) \in OpRecs
        /\ Queued = {Head(dataQ)} \cup Queued'
    BY <1>1, Taking DEF Queued
  <1>3. OpTyped(Head(dataQ)) /\ \A d \in Queued' : d \in OpRecs
    BY <1>2, AllTyped
  <1>4. OneJob => /\ Single(dataQ', Holders)
                  /\ Head(dataQ) \in Holders => \A d \in Queued' : d \notin Holders
    BY <1>1, SingleTail DEF Queued
  <1> QED  BY <1>2, <1>3, <1>4 DEF OpTaken, Holders

\* An operation is submitted to the data thread.
OpSubmitted(o) ==
  /\ dataQ' \in Seq(OpRecs) /\ dataQ' # <<>>
  /\ o \in OpRecs /\ OpTyped(o)
  /\ Queued' = Queued \cup {o}
  /\ dataQ # <<>> => Head(dataQ') = Head(dataQ)
  /\ OneJob /\ (Handles(o) => \A d \in Queued : ~Handles(d)) => Single(dataQ', Holders)

\* The queue with one operation more.
LEMMA SubmitsOp ==
  ASSUME IInv, NEW o \in OpRecs, dataQ' = Append(dataQ, o)
  PROVE  OpSubmitted(o)
  <1>1. dataQ \in Seq(OpRecs) /\ (OneJob => Single(dataQ, Holders))
    BY DEF IInv, Typed, OneInv, Alone
  <1>2. /\ dataQ' \in Seq(OpRecs) /\ dataQ' # <<>>
        /\ Queued' = Queued \cup {o}
        /\ dataQ # <<>> => Head(dataQ') = Head(dataQ)
    BY <1>1, Appending DEF Queued
  <1>3. OneJob /\ (o \in Holders => \A d \in Queued : d \notin Holders)
          => Single(dataQ', Holders)
    BY <1>1, SingleAppend DEF Queued
  <1>4. OpTyped(o)
    BY AnyOpTyped
  <1> QED  BY <1>2, <1>3, <1>4 DEF OpSubmitted, Holders

\* submit() may come after the end of the data thread.
Offered(o) == OpSubmitted(o) \/ (~dataUp /\ UNCHANGED dataQ)

LEMMA OffersOp ==
  ASSUME IInv, NEW o \in OpRecs, dataQ' = Submitted(o)
  PROVE  (dataUp /\ OpSubmitted(o)) \/ (~dataUp /\ UNCHANGED dataQ)
  BY SubmitsOp DEF Submitted

\* The first operation, and an empty queue
LEMMA FirstOp ==
  ASSUME IInv
  PROVE  /\ dataQ # <<>> => Head(dataQ) \in Queued
         /\ dataQ = <<>> => Queued = {}
         /\ mainQ = <<>> => Posted = {}
  <1>1. dataQ \in Seq(OpRecs)
    BY DEF IInv, Typed
  <1>2. dataQ # <<>> => Head(dataQ) \in Queued
    BY <1>1, Taking DEF Queued
  <1>3. dataQ = <<>> => Queued = {}
    BY EmptyQueue DEF Queued
  <1>4. mainQ = <<>> => Posted = {}
    BY EmptyQueue DEF Posted
  <1> QED  BY <1>2, <1>3, <1>4

\* StartGeneration takes an id nothing posted refers to.
LEMMA FreshIdIsTyped ==
  ASSUME IInv
  PROVE  FreshId \in Nat \ {0}
  <1> DEFINE D == {k \in DOMAIN mainQ : mainQ[k].ev \in Outcomes \cup {"finished"}}
             f == [i \in D |-> mainQ[i].arg.id]
             used == {mainQ[i].arg.id : i \in D}
  <1>1. mainQ \in Seq(EventRecs)
    BY DEF IInv, Typed
  <1>2. \A i \in DOMAIN mainQ : mainQ[i] \in Posted
    BY DEF Posted, Elements
  <1>3. f \in [D -> Nat]
    BY <1>2, AllTyped DEF EventTyped
  <1>4. \E n \in 1..(Len(mainQ) + 1) : n \notin {f[i] : i \in D}
    <2>1. D \in SUBSET DOMAIN mainQ
      OBVIOUS
    <2> HIDE DEF f, D
    <2> QED  BY <1>1, <1>3, <2>1, UnusedNumber
  <1>5. {f[i] : i \in D} = used
    OBVIOUS
  <1>6. FreshId \in 1..(Len(mainQ) + 1) /\ FreshId \notin used
    BY <1>4, <1>5 DEF FreshId
  <1>7. Len(mainQ) \in Nat
    BY <1>1
  <1> QED  BY <1>6, <1>7

----------------------------------------
(* What the helpers of the slots do in a state of the invariant. *)

\* The empty runner, the empty request and the empty execution have their types.
LEMMA NothingIsTyped == NoGen \in Gens /\ NoExec \in Execs /\ NoRequest \in Requests
  BY DEF NoGen, Gens, NoExec, Execs, NoRequest, Request, Requests, Phases

\* The fields of what is empty
LEMMA NothingIsEmpty ==
  /\ NoGen.id = 0 /\ NoGen.job = NoJob /\ NoGen.thread = "stopped" /\ ~NoGen.cancelled
  /\ NoGen.terminal
  /\ NoExec.request.job = NoJob /\ ~NoExec.finishing
  /\ NoRequest.job = NoJob /\ NoJob \notin Jobs
  BY JobsAssumption DEF NoGen, NoExec, NoRequest, Request

\* An execution is let go of, and its job is retried or failed.
Handed(o) ==
  /\ current # NoExec /\ current.request.job \in Jobs
  /\ current' = NoExec /\ pendingLaunch' = NoRequest
  /\ o.op \in {"retry", "fail"} /\ o.job = current.request.job
  /\ o.op = "fail" => attempts[o.job] >= MaxJobAttempts
  /\ (dataUp /\ OpSubmitted(o)) \/ (~dataUp /\ UNCHANGED dataQ)

\* _fail_job retries the job, or fails it after the last attempt.
LEMMA FailOpIs ==
  ASSUME IInv, NEW j \in Jobs, NEW attempt \in Nat, attempt <= attempts[j],
         dataQ' = Submitted(FailOp(j, attempt))
  PROVE  \E o : /\ o.op \in {"retry", "fail"} /\ o.job = j
                /\ o.op = "fail" => attempts[o.job] >= MaxJobAttempts
                /\ (dataUp /\ OpSubmitted(o)) \/ (~dataUp /\ UNCHANGED dataQ)
  <1>1. Op("retry", j, Later(attempt)) \in OpRecs /\ Op("fail", j, NoArg) \in OpRecs
    BY DEF OpRecs, Op, Later, Delays
  <1>2. CASE attempt < MaxJobAttempts
    BY <1>1, <1>2, OffersOp DEF FailOp, Op
  <1>3. CASE ~(attempt < MaxJobAttempts)
    <2>1. attempts[j] >= MaxJobAttempts
      BY <1>3, DeepJobsAssumption DEF IInv, Typed
    <2> QED  BY <1>1, <1>3, <2>1, OffersOp DEF FailOp, Op
  <1> QED  BY <1>2, <1>3

\* _fail_current does so with the execution.
LEMMA FailCurrentIs ==
  ASSUME IInv, FailCurrent
  PROVE  \/ \E o : Handed(o)
         \/ current = NoExec /\ UNCHANGED <<dataQ, current, pendingLaunch>>
  <1>1. CASE current # NoExec
    <2>1. current.request.job \in Jobs /\ current.request.attempt \in Nat
          /\ current.request.attempt <= attempts[current.request.job]
      BY <1>1 DEF IInv, Typed, Modes, Counted, Execs, Requests
    <2> QED  BY <1>1, <2>1, FailOpIs DEF FailCurrent, Release, Handed
  <1> QED  BY <1>1 DEF FailCurrent

\* _retry_current_immediately retries it at once.
LEMMA RetryCurrentIs ==
  ASSUME IInv, RetryCurrent
  PROVE  \/ Running /\ \E o : Handed(o)
         \/ ~Running /\ UNCHANGED <<dataQ, current, pendingLaunch>>
  <1>1. CASE Running
    <2>1. current # NoExec /\ current.request.job \in Jobs /\ current.request.attempt \in Nat
      BY <1>1 DEF IInv, Typed, Modes, Running, Execs, Requests
    <2>2. Op("retry", current.request.job, Now(current.request.attempt)) \in OpRecs
      BY <2>1 DEF OpRecs, Op, Now, Delays
    <2> QED  BY <1>1, <2>1, <2>2, OffersOp DEF RetryCurrent, Release, Handed, Op
  <1> QED  BY <1>1 DEF RetryCurrent

\* An execution is finalized and kept until the answer comes.
Finalized(op, request) ==
  \/ /\ dataUp
     /\ OpSubmitted(Op(op, request.job, NoArg))
     /\ current' \in Execs /\ current'.request = request /\ current'.finishing
     /\ current' # NoExec
     /\ pendingLaunch' = pendingLaunch
  \/ ~dataUp /\ current' = NoExec /\ pendingLaunch' = NoRequest /\ UNCHANGED dataQ

LEMMA FinalizeIs ==
  ASSUME IInv, NEW op \in {"persist", "complete"}, NEW x \in Execs, x.request.job \in Jobs,
         Finalize(op, x)
  PROVE  Finalized(op, x.request)
  <1>1. Op(op, x.request.job, NoArg) \in OpRecs
    BY DEF OpRecs, Op
  <1>2. CASE dataUp
    <2>1. current' = [x EXCEPT !.finishing = TRUE]
      BY <1>2 DEF Finalize
    <2>2. current' \in Execs /\ current'.request = x.request /\ current'.finishing
      BY <2>1 DEF Execs
    <2>3. current' # NoExec
      BY <2>2, NothingIsEmpty
    <2> QED  BY <1>1, <1>2, <2>2, <2>3, SubmitsOp DEF Finalize, Finalized
  <1> QED  BY <1>2 DEF Finalize, Finalized, Release

\* poll() claims only when nothing is under way.
Polled ==
  \/ /\ dataUp /\ claimInFlight' = TRUE
     /\ OpSubmitted(Op("claim", NoJob, NoArg))
  \/ UNCHANGED dataQ

LEMMA ClaimIsTyped == Op("claim", NoJob, NoArg) \in OpRecs
  BY DEF OpRecs, Op

LEMMA PollAfterIs ==
  ASSUME IInv, NEW inFlight \in BOOLEAN, PollAfter(inFlight)
  PROVE  Polled /\ claimInFlight' \in BOOLEAN
  BY ClaimIsTyped, SubmitsOp DEF PollAfter, Polled

----------------------------------------
(* What the slots and operations leave alone. *)

SlotFrame ==
  UNCHANGED <<status, attempts, due, opStep, dataUp, runnerPaused, runnerShut, faults, up,
              accepting, paused, foreground, enabled, applied, switches>>

OperationFrame ==
  UNCHANGED <<dataUp, gen, runnerPaused, runnerShut, faults, up, accepting, claimInFlight,
              paused, foreground, enabled, current, pendingLaunch, switches>>

\* The main thread handles the first of its events.
LEMMA HandlingIs ==
  ASSUME IInv, NEW event, Handling(event)
  PROVE  EventTaken /\ SlotFrame /\ up /\ Head(mainQ).ev = event
  BY TakesEvent DEF Handling, SlotFrame, store

\* The data thread executes the first of its operations.
LEMMA OperationIs ==
  ASSUME InOperation
  PROVE  OperationFrame
  BY DEF InOperation, OperationFrame, runner, flags

\* An answer ends the operation it belongs to.
LEMMA AnswerIs ==
  ASSUME IInv, dataQ # <<>>, NEW e \in EventRecs, Answer(e)
  PROVE  OpTaken /\ EventPosted(e) /\ opStep' = "start"
  BY TakesOp, PostsEvent DEF Answer

\* The generation is told to stop, or is gone.
CancelOnly ==
  /\ gen' \in Gens /\ gen.id # 0 /\ gen.thread # "stopped"
  /\ gen'.id = gen.id /\ gen'.job = gen.job /\ gen'.attempt = gen.attempt
  /\ gen'.thread = gen.thread /\ gen'.terminal = gen.terminal /\ gen'.cancelled

\* The cancellation of the runner only marks its generation.
LEMMA CancelledIs ==
  ASSUME IInv, NEW wait, Cancelled(wait)
  PROVE  gen' = NoGen \/ CancelOnly
  <1>1. gen \in Gens /\ (gen.id = 0 => gen = NoGen)
    BY DEF IInv, Typed, Modes
  <1>2. CASE gen.id = 0
    <2>1. gen' = [NoGen EXCEPT !.cancelled = FALSE]
      BY <1>1, <1>2 DEF Cancelled
    <2> QED  BY <2>1 DEF NoGen
  <1>3. CASE gen.id # 0 /\ gen' # NoGen
    <2>1. gen' = [gen EXCEPT !.cancelled = TRUE] /\ gen.thread # "stopped"
      BY <1>3 DEF Cancelled
    <2> QED  BY <1>1, <1>3, <2>1 DEF CancelOnly, Gens
  <1> QED  BY <1>2, <1>3

\* A generation starts.
Started(job, attempt) ==
  /\ gen' \in Gens /\ gen'.id # 0
  /\ gen'.job = job /\ gen'.attempt = attempt
  /\ gen'.thread = "running" /\ ~gen'.cancelled /\ ~gen'.terminal

LEMMA StartIs ==
  ASSUME IInv, NEW j \in Jobs \cup {NoJob}, NEW n \in Nat, NEW phase \in Phases,
         StartGeneration(j, n, phase)
  PROVE  Started(j, n)
  <1>1. FreshId \in Nat \ {0}
    BY FreshIdIsTyped
  <1> QED  BY <1>1 DEF StartGeneration, Started, Gens

\* The outcome of the generation is noted.
Ended ==
  /\ gen' \in Gens
  /\ gen'.id = gen.id /\ gen'.id # 0 /\ gen'.job = gen.job /\ gen'.attempt = gen.attempt
  /\ gen'.thread = gen.thread /\ gen'.cancelled = gen.cancelled /\ gen'.terminal

\* The runner passes on one outcome of its context.
LEMMA GenerationEndsIs ==
  ASSUME IInv, NEW outcome \in Outcomes, GenerationEnds(outcome)
  PROVE  /\ EventTaken /\ SlotFrame /\ up /\ Head(mainQ).ev = outcome
         /\ ~gen.terminal /\ Ended /\ UNCHANGED claimInFlight
  <1>1. EventTaken /\ SlotFrame /\ up /\ Head(mainQ).ev = outcome
    BY HandlingIs DEF GenerationEnds
  <1>2. Head(mainQ).arg.id \in Nat \ {0}
    BY <1>1 DEF EventTaken, EventTyped
  <1>3. gen.id = Head(mainQ).arg.id
    BY DEF GenerationEnds, EventArg
  <1>4. Ended
    BY <1>2, <1>3 DEF GenerationEnds, IInv, Typed, Ended, Gens
  <1> QED  BY <1>1, <1>4 DEF GenerationEnds

\* With one job, the outcome of the generation of the execution comes before the
\* execution is finalized.
LEMMA OursIsRunning ==
  ASSUME IInv, OneJob, Ours, ~gen.terminal
  PROVE  Running
  <1>1. current # NoExec /\ current.request.job \in Jobs
        /\ current.request.job = gen.job /\ current.request.attempt = gen.attempt
    BY DEF Ours, Request, IInv, Modes
  <1>2. gen.attempt = attempts[gen.job] /\ attempts[gen.job] \in Nat
    BY <1>1 DEF IInv, OneInv, Latest, Typed
  <1>3. ~current.finishing
    BY <1>1, <1>2 DEF IInv, OneInv, Latest
  <1> QED  BY <1>1, <1>3 DEF Running

\* With one job, nothing else has it while its execution runs.
LEMMA WhileRunning ==
  ASSUME IInv, OneJob, Running
  PROVE  /\ \A o \in Queued : ~Handles(o)
         /\ \A e \in Posted : ~Carries(e)
  BY DEF IInv, OneInv, Kept, Running, Handles, Carries, Finals

----------------------------------------
(* The steps. *)

\* A crash or an exit leaves the rows.
LEMMA ProcessEndsStep ==
  ASSUME IInv, ProcessEnds, faults' \in 0..MaxFaults,
         faults' = faults + 1 \/ (faults' = faults /\ dataQ = <<>>)
  PROVE  IInv'
  <1>1. /\ Queued' = {} /\ Posted' = {} /\ dataQ' = <<>> /\ mainQ' = <<>>
        /\ Single(dataQ', Holders) /\ Single(mainQ', Carriers)
    BY EmptyQueue DEF ProcessEnds, Queued, Posted
  <1>2. dataQ' \in Seq(OpRecs) /\ mainQ' \in Seq(EventRecs)
    BY DEF ProcessEnds
  <1>3. /\ \A x \in Queued : OpTyped(x) /\ x \in OpRecs
        /\ \A y \in Posted : EventTyped(y) /\ y \in EventRecs
    BY AllTyped
  <1>4. Typed'
    BY <1>1, <1>2, <1>3, NothingIsEmpty, NothingIsTyped
       DEF IInv, Typed, ProcessEnds, Release, store
  <1>5. Down'
    BY <1>1, <1>2, <1>3, NothingIsEmpty, SMT
       DEF IInv, Down, ProcessEnds, Release, store
  <1>6. Modes'
    BY <1>1, <1>2, <1>3, NothingIsEmpty, SMT
       DEF IInv, Modes, ChatCancelsGeneration, ProcessEnds, Release, store
  <1>7. Counted'
    BY <1>1, <1>2, <1>3, NothingIsEmpty, DeepJobsAssumption, SMT
       DEF IInv, Counted, Holds, FailedAfterAttempts, Preparations, ProcessEnds,
           Release, store
  <1>8. OneJob => Alone'
    BY <1>1, <1>2, <1>3, NothingIsEmpty, JobsAssumption, SMT
       DEF IInv, OneInv, Alone, Handles, Carries, Holds, Finals, Preparations,
           KeptAnswers, ProcessEnds, Release, store
  <1>9. OneJob => Kept'
    BY <1>1, <1>2, <1>3, NothingIsEmpty, JobsAssumption, SMT
       DEF IInv, OneInv, Kept, Handles, Carries, Holds, Finals, Preparations,
           KeptAnswers, ProcessEnds, Release, store
  <1>10. OneJob => Rows'
    BY <1>1, <1>2, <1>3, NothingIsEmpty, JobsAssumption, SMT
       DEF IInv, OneInv, Rows, Running, Handles, Carries, Holds, Finals, Preparations,
           KeptAnswers, ProcessEnds, Release, store
  <1>11. OneJob => Latest'
    BY <1>1, <1>2, <1>3, NothingIsEmpty, JobsAssumption, SMT
       DEF IInv, OneInv, Latest, Handles, Carries, Holds, Finals, Preparations,
           KeptAnswers, ProcessEnds, Release, store
  <1>12. OneJob => Written'
    BY <1>1, <1>2, <1>3, NothingIsEmpty, JobsAssumption, SMT
       DEF IInv, OneInv, Written, Executing, Job, ProcessEnds, Release, store,
           OpTyped, EventTyped, Typed, Modes
  <1>13. OneJob => Held'
    BY <1>1, <1>2, <1>3, NothingIsEmpty, JobsAssumption, SMT
       DEF IInv, OneInv, Held, InHands, Handles, Carries, Holds, Finals, Preparations,
           KeptAnswers, Running, ProcessEnds, Release, store
  <1> QED  BY <1>4, <1>5, <1>6, <1>7, <1>8, <1>9, <1>10, <1>11, <1>12, <1>13
              DEF IInv, OneInv, OneJob

\* The stores recover their rows; the coordinator claims when it is enabled.
LEMMA StartStep ==
  ASSUME IInv, Start
  PROVE  IInv'
  <1>1. Posted = {} /\ mainQ = <<>> /\ gen = NoGen /\ opStep = "start" /\ current = NoExec
    BY FirstOp DEF Start, IInv, Down
  <1>2. /\ dataQ' \in Seq(OpRecs)
        /\ \A o \in Queued' : o.op = "claim"
        /\ Single(dataQ', Holders)
    <2> DEFINE c == Op("claim", NoJob, NoArg)
    <2>1. c \in OpRecs /\ c.op = "claim"
      BY ClaimIsTyped DEF Op
    <2>2. dataQ' = Append(<<>>, c) \/ dataQ' = <<>>
      BY DEF Start
    <2>3. <<>> \in Seq(OpRecs) /\ Single(<<>>, Holders) /\ Elements(<<>>) = {}
      BY EmptyQueue
    <2>4. c \notin Holders
      BY <2>1 DEF Holders, Handles, Finals
    <2> HIDE DEF c
    <2>5. CASE dataQ' = Append(<<>>, c)
      <3>1. dataQ' \in Seq(OpRecs) /\ Elements(dataQ') = {} \cup {c}
        BY <2>1, <2>3, <2>5, Appending
      <3>2. Single(dataQ', Holders)
        BY <2>1, <2>3, <2>4, <2>5, SingleAppend
      <3> QED  BY <2>1, <3>1, <3>2 DEF Queued
    <2>6. CASE dataQ' = <<>>
      BY <2>3, <2>6 DEF Queued
    <2> QED  BY <2>2, <2>5, <2>6
  <1>3. /\ status' \in [Jobs -> Statuses] /\ due' \in [Jobs -> BOOLEAN] /\ attempts' = attempts
        /\ \A j \in Jobs : status'[j] = IF status[j] = "running" THEN "retry" ELSE status[j]
    BY DEF Start, StoreRecover, IInv, Typed, Statuses
  <1>4. /\ UNCHANGED dataQ => UNCHANGED Queued
        /\ UNCHANGED mainQ => UNCHANGED Posted
    BY DEF Queued, Posted
  <1>5. /\ \A x \in Queued : OpTyped(x) /\ x \in OpRecs
        /\ \A y \in Posted : EventTyped(y) /\ y \in EventRecs
    BY AllTyped
  <1>6. Typed'
    BY <1>1, <1>2, <1>3, <1>4, <1>5, NothingIsEmpty, NothingIsTyped
       DEF IInv, Typed, Start, runner
  <1>7. Down'
    BY <1>1, <1>2, <1>3, <1>4, <1>5, NothingIsEmpty, SMT DEF IInv, Down, Start, runner
  <1>8. Modes'
    BY <1>1, <1>2, <1>3, <1>4, <1>5, NothingIsEmpty, SMT
       DEF IInv, Modes, ChatCancelsGeneration, Start, runner
  <1>9. Counted'
    BY <1>1, <1>2, <1>3, <1>4, <1>5, NothingIsEmpty, DeepJobsAssumption, SMT
       DEF IInv, Counted, Holds, FailedAfterAttempts, Preparations, Start, runner
  <1>10. OneJob => Alone'
    BY <1>1, <1>2, <1>3, <1>4, <1>5, NothingIsEmpty, JobsAssumption, SMT
       DEF IInv, OneInv, Alone, Handles, Carries, Holds, Finals, Preparations,
           KeptAnswers, Start, runner
  <1>11. OneJob => Kept'
    BY <1>1, <1>2, <1>3, <1>4, <1>5, NothingIsEmpty, JobsAssumption, SMT
       DEF IInv, OneInv, Kept, Handles, Carries, Holds, Finals, Preparations,
           KeptAnswers, Start, runner
  <1>12. OneJob => Rows'
    BY <1>1, <1>2, <1>3, <1>4, <1>5, NothingIsEmpty, JobsAssumption, SMT
       DEF IInv, OneInv, Rows, Running, Handles, Carries, Holds, Finals, Preparations,
           KeptAnswers, Start, runner
  <1>13. OneJob => Latest'
    BY <1>1, <1>2, <1>3, <1>4, <1>5, NothingIsEmpty, JobsAssumption, SMT
       DEF IInv, OneInv, Latest, Handles, Carries, Holds, Finals, Preparations,
           KeptAnswers, Start, runner
  <1>14. OneJob => Written'
    BY <1>1, <1>2, <1>3, <1>4, <1>5, NothingIsEmpty, JobsAssumption, SMT
       DEF IInv, OneInv, Written, Executing, Job, Start, runner
  <1>15. OneJob => Held'
    BY <1>1, <1>2, <1>3, <1>4, <1>5, NothingIsEmpty, JobsAssumption, SMT
       DEF IInv, OneInv, Held, InHands, Handles, Carries, Holds, Finals, Preparations,
           KeptAnswers, Running, Start, runner
  <1> QED  BY <1>6, <1>7, <1>8, <1>9, <1>10, <1>11, <1>12, <1>13, <1>14, <1>15
              DEF IInv, OneInv, OneJob

\* The runner may be cancelled, and the execution that runs may be handed over.
LEMMA GivesUpStep ==
  ASSUME IInv, up, UNCHANGED <<status, attempts, due, opStep, dataUp, mainQ, faults, up, applied>>,
         switches' \in 0..MaxSwitches, claimInFlight' = claimInFlight,
         accepting' \in BOOLEAN, accepting' => accepting, paused' \in BOOLEAN,
         foreground' \in BOOLEAN, enabled' \in BOOLEAN,
         runnerPaused' \in BOOLEAN, runnerShut' \in BOOLEAN,
         \/ gen' = NoGen \/ CancelOnly
         \/ gen' = gen /\ (foreground' /\ runnerPaused' => foreground /\ runnerPaused),
         \/ \E o : Handed(o) /\ (OneJob => Running)
         \/ dataQ' = dataQ /\ current' = current /\ pendingLaunch' \in {pendingLaunch, NoRequest}
  PROVE  IInv'
  <1>1. OneJob /\ Running => /\ \A o \in Queued : ~Handles(o)
                             /\ \A e \in Posted : ~Carries(e)
    BY WhileRunning
  <1>2. gen' \in Gens
    BY NothingIsTyped DEF IInv, Typed, CancelOnly
  <1>3. /\ UNCHANGED dataQ => UNCHANGED Queued
        /\ UNCHANGED mainQ => UNCHANGED Posted
    BY DEF Queued, Posted
  <1>4. /\ \A x \in Queued : OpTyped(x) /\ x \in OpRecs
        /\ \A y \in Posted : EventTyped(y) /\ y \in EventRecs
    BY AllTyped
  <1>5. Typed'
    BY <1>1, <1>2, <1>3, <1>4, NothingIsEmpty, NothingIsTyped
       DEF IInv, Typed, Handed, OpSubmitted, CancelOnly
  <1>6. Down'
    BY <1>1, <1>2, <1>3, <1>4, NothingIsEmpty, SMT
       DEF IInv, Down, Handed, OpSubmitted, CancelOnly
  <1>7. Modes'
    BY <1>1, <1>2, <1>3, <1>4, NothingIsEmpty, SMT
       DEF IInv, Modes, ChatCancelsGeneration, Handed, OpSubmitted, CancelOnly
  <1>8. Counted'
    BY <1>1, <1>2, <1>3, <1>4, NothingIsEmpty, DeepJobsAssumption, SMT
       DEF IInv, Counted, Holds, FailedAfterAttempts, Preparations, Handed,
           OpSubmitted, CancelOnly
  <1>9. OneJob => Alone'
    BY <1>1, <1>2, <1>3, <1>4, NothingIsEmpty, JobsAssumption, SMT
       DEF IInv, OneInv, Alone, Handles, Carries, Holds, Finals, Preparations,
           KeptAnswers, Handed, OpSubmitted, CancelOnly
  <1>10. OneJob => Kept'
    BY <1>1, <1>2, <1>3, <1>4, NothingIsEmpty, JobsAssumption, SMT
       DEF IInv, OneInv, Kept, Handles, Carries, Holds, Finals, Preparations,
           KeptAnswers, Handed, OpSubmitted, CancelOnly
  <1>11. OneJob => Rows'
    BY <1>1, <1>2, <1>3, <1>4, NothingIsEmpty, JobsAssumption, SMT
       DEF IInv, OneInv, Rows, Running, Handles, Carries, Holds, Finals, Preparations,
           KeptAnswers, Handed, OpSubmitted, CancelOnly
  <1>12. OneJob => Latest'
    BY <1>1, <1>2, <1>3, <1>4, NothingIsEmpty, JobsAssumption, SMT
       DEF IInv, OneInv, Latest, Handles, Carries, Holds, Finals, Preparations,
           KeptAnswers, Handed, OpSubmitted, CancelOnly
  <1>13. OneJob => Written'
    BY <1>1, <1>2, <1>3, <1>4, NothingIsEmpty, JobsAssumption, SMT
       DEF IInv, OneInv, Written, Executing, Job, Handed, OpSubmitted, CancelOnly
  <1>14. OneJob => Held'
    BY <1>1, <1>2, <1>3, <1>4, NothingIsEmpty, JobsAssumption, SMTT(60)
       DEF IInv, OneInv, Held, InHands, Handles, Carries, Holds, Finals, Preparations,
           KeptAnswers, Running, Handed, OpSubmitted, CancelOnly, OpTyped, EventTyped,
           Typed, Modes, Alone, Kept, Rows, Latest
  <1> QED  BY <1>5, <1>6, <1>7, <1>8, <1>9, <1>10, <1>11, <1>12, <1>13, <1>14
              DEF IInv, OneInv, OneJob

\* The data thread is stopped after the shutdown.
LEMMA StopDataThreadStep ==
  ASSUME IInv, StopDataThread
  PROVE  IInv'
  <1>1. /\ UNCHANGED dataQ => UNCHANGED Queued
        /\ UNCHANGED mainQ => UNCHANGED Posted
    BY DEF Queued, Posted
  <1>2. /\ \A x \in Queued : OpTyped(x) /\ x \in OpRecs
        /\ \A y \in Posted : EventTyped(y) /\ y \in EventRecs
    BY AllTyped
  <1>3. Typed'
    BY <1>1, <1>2, NothingIsEmpty, NothingIsTyped
       DEF IInv, Typed, StopDataThread, store, runner, flags
  <1>4. Down'
    BY <1>1, <1>2, NothingIsEmpty, SMT
       DEF IInv, Down, StopDataThread, store, runner, flags
  <1>5. Modes'
    BY <1>1, <1>2, NothingIsEmpty, SMT
       DEF IInv, Modes, ChatCancelsGeneration, StopDataThread, store, runner, flags
  <1>6. Counted'
    BY <1>1, <1>2, NothingIsEmpty, DeepJobsAssumption, SMT
       DEF IInv, Counted, Holds, FailedAfterAttempts, Preparations, StopDataThread,
           store, runner, flags
  <1>7. OneJob => Alone'
    BY <1>1, <1>2, NothingIsEmpty, JobsAssumption, SMT
       DEF IInv, OneInv, Alone, Handles, Carries, Holds, Finals, Preparations,
           KeptAnswers, StopDataThread, store, runner, flags
  <1>8. OneJob => Kept'
    BY <1>1, <1>2, NothingIsEmpty, JobsAssumption, SMT
       DEF IInv, OneInv, Kept, Handles, Carries, Holds, Finals, Preparations,
           KeptAnswers, StopDataThread, store, runner, flags
  <1>9. OneJob => Rows'
    BY <1>1, <1>2, NothingIsEmpty, JobsAssumption, SMT
       DEF IInv, OneInv, Rows, Running, Handles, Carries, Holds, Finals, Preparations,
           KeptAnswers, StopDataThread, store, runner, flags
  <1>10. OneJob => Latest'
    BY <1>1, <1>2, NothingIsEmpty, JobsAssumption, SMT
       DEF IInv, OneInv, Latest, Handles, Carries, Holds, Finals, Preparations,
           KeptAnswers, StopDataThread, store, runner, flags
  <1>11. OneJob => Written'
    BY <1>1, <1>2, NothingIsEmpty, JobsAssumption, SMT
       DEF IInv, OneInv, Written, Executing, Job, StopDataThread, store, runner, flags
  <1>12. OneJob => Held'
    BY <1>1, <1>2, NothingIsEmpty, JobsAssumption, SMT
       DEF IInv, OneInv, Held, InHands, Handles, Carries, Holds, Finals, Preparations,
           KeptAnswers, Running, StopDataThread, store, runner, flags
  <1> QED  BY <1>3, <1>4, <1>5, <1>6, <1>7, <1>8, <1>9, <1>10, <1>11, <1>12
              DEF IInv, OneInv, OneJob

\* A job is enqueued.
LEMMA EnqueueStep ==
  ASSUME IInv, NEW j \in Jobs, Enqueue(j)
  PROVE  IInv'
  <1>1. /\ status' \in [Jobs -> Statuses] /\ attempts' = attempts /\ due' = due
        /\ status[j] = "absent" /\ status'[j] = "pending"
        /\ \A k \in Jobs : k # j => status'[k] = status[k]
    BY DEF Enqueue, StoreEnqueue, IInv, Typed, Statuses
  <1>2. UNCHANGED <<dataQ, opStep, dataUp, mainQ, gen, runnerPaused, runnerShut, faults, up,
                    accepting, claimInFlight, paused, foreground, enabled, current,
                    pendingLaunch, applied, switches>>
    BY DEF Enqueue, queues, runner, flags
  <1>3. /\ UNCHANGED dataQ => UNCHANGED Queued
        /\ UNCHANGED mainQ => UNCHANGED Posted
    BY DEF Queued, Posted
  <1>4. /\ \A x \in Queued : OpTyped(x) /\ x \in OpRecs
        /\ \A y \in Posted : EventTyped(y) /\ y \in EventRecs
    BY AllTyped
  <1>5. Typed'
    BY <1>1, <1>2, <1>3, <1>4, NothingIsEmpty, NothingIsTyped DEF IInv, Typed
  <1>6. Down'
    BY <1>1, <1>2, <1>3, <1>4, NothingIsEmpty, SMT DEF IInv, Down
  <1>7. Modes'
    BY <1>1, <1>2, <1>3, <1>4, NothingIsEmpty, SMT
       DEF IInv, Modes, ChatCancelsGeneration
  <1>8. Counted'
    BY <1>1, <1>2, <1>3, <1>4, NothingIsEmpty, DeepJobsAssumption, SMT
       DEF IInv, Counted, Holds, FailedAfterAttempts, Preparations
  <1>9. OneJob => Alone'
    BY <1>1, <1>2, <1>3, <1>4, NothingIsEmpty, JobsAssumption, SMT
       DEF IInv, OneInv, Alone, Handles, Carries, Holds, Finals, Preparations,
           KeptAnswers
  <1>10. OneJob => Kept'
    BY <1>1, <1>2, <1>3, <1>4, NothingIsEmpty, JobsAssumption, SMT
       DEF IInv, OneInv, Kept, Handles, Carries, Holds, Finals, Preparations,
           KeptAnswers
  <1>11. OneJob => Rows'
    BY <1>1, <1>2, <1>3, <1>4, NothingIsEmpty, JobsAssumption, SMT
       DEF IInv, OneInv, Rows, Running, Handles, Carries, Holds, Finals, Preparations,
           KeptAnswers, OpTyped, EventTyped, Typed, Modes
  <1>12. OneJob => Latest'
    BY <1>1, <1>2, <1>3, <1>4, NothingIsEmpty, JobsAssumption, SMT
       DEF IInv, OneInv, Latest, Handles, Carries, Holds, Finals, Preparations,
           KeptAnswers
  <1>13. OneJob => Written'
    BY <1>1, <1>2, <1>3, <1>4, NothingIsEmpty, JobsAssumption, SMT
       DEF IInv, OneInv, Written, Executing, Job
  <1>14. OneJob => Held'
    BY <1>1, <1>2, <1>3, <1>4, NothingIsEmpty, JobsAssumption, SMT
       DEF IInv, OneInv, Held, InHands, Handles, Carries, Holds, Finals, Preparations,
           KeptAnswers, Running
  <1> QED  BY <1>5, <1>6, <1>7, <1>8, <1>9, <1>10, <1>11, <1>12, <1>13, <1>14
              DEF IInv, OneInv, OneJob

\* A row becomes due.
LEMMA BecomesDueStep ==
  ASSUME IInv, NEW j \in Jobs, BecomesDue(j)
  PROVE  IInv'
  <1>1. due' \in [Jobs -> BOOLEAN]
    BY DEF BecomesDue, IInv, Typed
  <1>2. UNCHANGED <<status, attempts, dataQ, opStep, dataUp, mainQ, gen, runnerPaused, runnerShut,
                    faults, up, accepting, claimInFlight, paused, foreground, enabled, current,
                    pendingLaunch, applied, switches>>
    BY DEF BecomesDue, queues, runner, flags
  <1>3. /\ UNCHANGED dataQ => UNCHANGED Queued
        /\ UNCHANGED mainQ => UNCHANGED Posted
    BY DEF Queued, Posted
  <1>4. /\ \A x \in Queued : OpTyped(x) /\ x \in OpRecs
        /\ \A y \in Posted : EventTyped(y) /\ y \in EventRecs
    BY AllTyped
  <1>5. Typed'
    BY <1>1, <1>2, <1>3, <1>4, NothingIsEmpty, NothingIsTyped DEF IInv, Typed
  <1>6. Down'
    BY <1>1, <1>2, <1>3, <1>4, NothingIsEmpty, SMT DEF IInv, Down
  <1>7. Modes'
    BY <1>1, <1>2, <1>3, <1>4, NothingIsEmpty, SMT
       DEF IInv, Modes, ChatCancelsGeneration
  <1>8. Counted'
    BY <1>1, <1>2, <1>3, <1>4, NothingIsEmpty, DeepJobsAssumption, SMT
       DEF IInv, Counted, Holds, FailedAfterAttempts, Preparations
  <1>9. OneJob => Alone'
    BY <1>1, <1>2, <1>3, <1>4, NothingIsEmpty, JobsAssumption, SMT
       DEF IInv, OneInv, Alone, Handles, Carries, Holds, Finals, Preparations,
           KeptAnswers
  <1>10. OneJob => Kept'
    BY <1>1, <1>2, <1>3, <1>4, NothingIsEmpty, JobsAssumption, SMT
       DEF IInv, OneInv, Kept, Handles, Carries, Holds, Finals, Preparations,
           KeptAnswers
  <1>11. OneJob => Rows'
    BY <1>1, <1>2, <1>3, <1>4, NothingIsEmpty, JobsAssumption, SMT
       DEF IInv, OneInv, Rows, Running, Handles, Carries, Holds, Finals, Preparations,
           KeptAnswers
  <1>12. OneJob => Latest'
    BY <1>1, <1>2, <1>3, <1>4, NothingIsEmpty, JobsAssumption, SMT
       DEF IInv, OneInv, Latest, Handles, Carries, Holds, Finals, Preparations,
           KeptAnswers
  <1>13. OneJob => Written'
    BY <1>1, <1>2, <1>3, <1>4, NothingIsEmpty, JobsAssumption, SMT
       DEF IInv, OneInv, Written, Executing, Job
  <1>14. OneJob => Held'
    BY <1>1, <1>2, <1>3, <1>4, NothingIsEmpty, JobsAssumption, SMT
       DEF IInv, OneInv, Held, InHands, Handles, Carries, Holds, Finals, Preparations,
           KeptAnswers, Running
  <1> QED  BY <1>5, <1>6, <1>7, <1>8, <1>9, <1>10, <1>11, <1>12, <1>13, <1>14
              DEF IInv, OneInv, OneJob

\* Nothing happens.
LEMMA StutterStep ==
  ASSUME IInv, UNCHANGED vars
  PROVE  IInv'
  <1>1. UNCHANGED <<status, attempts, due, dataQ, opStep, dataUp, mainQ, gen, runnerPaused, runnerShut,
                    faults, up, accepting, claimInFlight, paused, foreground, enabled, current,
                    pendingLaunch, applied, switches>>
    BY DEF vars, world, flags
  <1>2. /\ UNCHANGED dataQ => UNCHANGED Queued
        /\ UNCHANGED mainQ => UNCHANGED Posted
    BY DEF Queued, Posted
  <1>3. /\ \A x \in Queued : OpTyped(x) /\ x \in OpRecs
        /\ \A y \in Posted : EventTyped(y) /\ y \in EventRecs
    BY AllTyped
  <1>4. Typed'
    BY <1>1, <1>2, <1>3, NothingIsEmpty, NothingIsTyped DEF IInv, Typed
  <1>5. Down'
    BY <1>1, <1>2, <1>3, NothingIsEmpty, SMT DEF IInv, Down
  <1>6. Modes'
    BY <1>1, <1>2, <1>3, NothingIsEmpty, SMT DEF IInv, Modes, ChatCancelsGeneration
  <1>7. Counted'
    BY <1>1, <1>2, <1>3, NothingIsEmpty, DeepJobsAssumption, SMT
       DEF IInv, Counted, Holds, FailedAfterAttempts, Preparations
  <1>8. OneJob => Alone'
    BY <1>1, <1>2, <1>3, NothingIsEmpty, JobsAssumption, SMT
       DEF IInv, OneInv, Alone, Handles, Carries, Holds, Finals, Preparations,
           KeptAnswers
  <1>9. OneJob => Kept'
    BY <1>1, <1>2, <1>3, NothingIsEmpty, JobsAssumption, SMT
       DEF IInv, OneInv, Kept, Handles, Carries, Holds, Finals, Preparations,
           KeptAnswers
  <1>10. OneJob => Rows'
    BY <1>1, <1>2, <1>3, NothingIsEmpty, JobsAssumption, SMT
       DEF IInv, OneInv, Rows, Running, Handles, Carries, Holds, Finals, Preparations,
           KeptAnswers
  <1>11. OneJob => Latest'
    BY <1>1, <1>2, <1>3, NothingIsEmpty, JobsAssumption, SMT
       DEF IInv, OneInv, Latest, Handles, Carries, Holds, Finals, Preparations,
           KeptAnswers
  <1>12. OneJob => Written'
    BY <1>1, <1>2, <1>3, NothingIsEmpty, JobsAssumption, SMT
       DEF IInv, OneInv, Written, Executing, Job
  <1>13. OneJob => Held'
    BY <1>1, <1>2, <1>3, NothingIsEmpty, JobsAssumption, SMT
       DEF IInv, OneInv, Held, InHands, Handles, Carries, Holds, Finals, Preparations,
           KeptAnswers, Running
  <1> QED  BY <1>4, <1>5, <1>6, <1>7, <1>8, <1>9, <1>10, <1>11, <1>12, <1>13
              DEF IInv, OneInv, OneJob

\* A claim is submitted, or nothing; the mode may change.
LEMMA PollsStep ==
  ASSUME IInv, up,
         UNCHANGED <<status, attempts, due, opStep, dataUp, mainQ, faults, up, applied>>,
         UNCHANGED <<gen, current, pendingLaunch>>, switches' \in 0..MaxSwitches,
         claimInFlight' \in BOOLEAN, accepting' = accepting, paused' \in BOOLEAN,
         enabled' \in BOOLEAN, foreground' \in BOOLEAN, runnerPaused' \in BOOLEAN,
         runnerShut' = runnerShut, foreground' /\ runnerPaused' => foreground /\ runnerPaused,
         Polled
  PROVE  IInv'
  <1>1. /\ UNCHANGED dataQ => UNCHANGED Queued
        /\ UNCHANGED mainQ => UNCHANGED Posted
    BY DEF Queued, Posted
  <1>2. /\ \A x \in Queued : OpTyped(x) /\ x \in OpRecs
        /\ \A y \in Posted : EventTyped(y) /\ y \in EventRecs
    BY AllTyped
  <1>3. Typed'
    BY <1>1, <1>2, NothingIsEmpty, NothingIsTyped
       DEF IInv, Typed, Polled, OpSubmitted, Op
  <1>4. Down'
    BY <1>1, <1>2, NothingIsEmpty, SMT DEF IInv, Down, Polled, OpSubmitted, Op
  <1>5. Modes'
    BY <1>1, <1>2, NothingIsEmpty, SMT
       DEF IInv, Modes, ChatCancelsGeneration, Polled, OpSubmitted, Op
  <1>6. Counted'
    BY <1>1, <1>2, NothingIsEmpty, DeepJobsAssumption, SMT
       DEF IInv, Counted, Holds, FailedAfterAttempts, Preparations, Polled,
           OpSubmitted, Op
  <1>7. OneJob => Alone'
    BY <1>1, <1>2, NothingIsEmpty, JobsAssumption, SMT
       DEF IInv, OneInv, Alone, Handles, Carries, Holds, Finals, Preparations,
           KeptAnswers, Polled, OpSubmitted, Op
  <1>8. OneJob => Kept'
    BY <1>1, <1>2, NothingIsEmpty, JobsAssumption, SMT
       DEF IInv, OneInv, Kept, Handles, Carries, Holds, Finals, Preparations,
           KeptAnswers, Polled, OpSubmitted, Op
  <1>9. OneJob => Rows'
    BY <1>1, <1>2, NothingIsEmpty, JobsAssumption, SMT
       DEF IInv, OneInv, Rows, Running, Handles, Carries, Holds, Finals, Preparations,
           KeptAnswers, Polled, OpSubmitted, Op
  <1>10. OneJob => Latest'
    BY <1>1, <1>2, NothingIsEmpty, JobsAssumption, SMT
       DEF IInv, OneInv, Latest, Handles, Carries, Holds, Finals, Preparations,
           KeptAnswers, Polled, OpSubmitted, Op
  <1>11. OneJob => Written'
    BY <1>1, <1>2, NothingIsEmpty, JobsAssumption, SMT
       DEF IInv, OneInv, Written, Executing, Job, Polled, OpSubmitted, Op
  <1>12. OneJob => Held'
    BY <1>1, <1>2, NothingIsEmpty, JobsAssumption, SMT
       DEF IInv, OneInv, Held, InHands, Handles, Carries, Holds, Finals, Preparations,
           KeptAnswers, Running, Polled, OpSubmitted, Op
  <1> QED  BY <1>3, <1>4, <1>5, <1>6, <1>7, <1>8, <1>9, <1>10, <1>11, <1>12
              DEF IInv, OneInv, OneJob

\* The other coordinator starts a generation of its own.
LEMMA OtherStartsStep ==
  ASSUME IInv, OtherStarts
  PROVE  IInv'
  <1>1. Started(NoJob, 0)
    BY StartIs DEF OtherStarts, Phases
  <1>2. UNCHANGED <<status, attempts, due, dataQ, opStep, dataUp, mainQ, runnerPaused, runnerShut,
                    faults, up, accepting, claimInFlight, paused, foreground, enabled, current,
                    pendingLaunch, applied>>
    BY DEF OtherStarts, Outside, store, flags
  <1>3. ~runnerPaused /\ up
    BY DEF OtherStarts, Outside, CanStart
  <1>4. switches' \in 0..MaxSwitches
    BY DeepJobsAssumption DEF OtherStarts, Outside, IInv, Typed
  <1>5. /\ UNCHANGED dataQ => UNCHANGED Queued
        /\ UNCHANGED mainQ => UNCHANGED Posted
    BY DEF Queued, Posted
  <1>6. /\ \A x \in Queued : OpTyped(x) /\ x \in OpRecs
        /\ \A y \in Posted : EventTyped(y) /\ y \in EventRecs
    BY AllTyped
  <1>7. Typed'
    BY <1>1, <1>2, <1>3, <1>4, <1>5, <1>6, NothingIsEmpty, NothingIsTyped
       DEF IInv, Typed, Started
  <1>8. Down'
    BY <1>1, <1>2, <1>3, <1>4, <1>5, <1>6, NothingIsEmpty, SMT DEF IInv, Down, Started
  <1>9. Modes'
    BY <1>1, <1>2, <1>3, <1>4, <1>5, <1>6, NothingIsEmpty, SMT
       DEF IInv, Modes, ChatCancelsGeneration, Started
  <1>10. Counted'
    BY <1>1, <1>2, <1>3, <1>4, <1>5, <1>6, NothingIsEmpty, DeepJobsAssumption, SMT
       DEF IInv, Counted, Holds, FailedAfterAttempts, Preparations, Started
  <1>11. OneJob => Alone'
    BY <1>1, <1>2, <1>3, <1>4, <1>5, <1>6, NothingIsEmpty, JobsAssumption, SMT
       DEF IInv, OneInv, Alone, Handles, Carries, Holds, Finals, Preparations,
           KeptAnswers, Started
  <1>12. OneJob => Kept'
    BY <1>1, <1>2, <1>3, <1>4, <1>5, <1>6, NothingIsEmpty, JobsAssumption, SMT
       DEF IInv, OneInv, Kept, Handles, Carries, Holds, Finals, Preparations,
           KeptAnswers, Started
  <1>13. OneJob => Rows'
    BY <1>1, <1>2, <1>3, <1>4, <1>5, <1>6, NothingIsEmpty, JobsAssumption, SMT
       DEF IInv, OneInv, Rows, Running, Handles, Carries, Holds, Finals, Preparations,
           KeptAnswers, Started
  <1>14. OneJob => Latest'
    BY <1>1, <1>2, <1>3, <1>4, <1>5, <1>6, NothingIsEmpty, JobsAssumption, SMT
       DEF IInv, OneInv, Latest, Handles, Carries, Holds, Finals, Preparations,
           KeptAnswers, Started
  <1>15. OneJob => Written'
    BY <1>1, <1>2, <1>3, <1>4, <1>5, <1>6, NothingIsEmpty, JobsAssumption, SMT
       DEF IInv, OneInv, Written, Executing, Job, Started
  <1>16. OneJob => Held'
    BY <1>1, <1>2, <1>3, <1>4, <1>5, <1>6, NothingIsEmpty, JobsAssumption, SMT
       DEF IInv, OneInv, Held, InHands, Handles, Carries, Holds, Finals, Preparations,
           KeptAnswers, Running, Started
  <1> QED  BY <1>7, <1>8, <1>9, <1>10, <1>11, <1>12, <1>13, <1>14, <1>15, <1>16
              DEF IInv, OneInv, OneJob

\* A row that is ready is claimed.
LEMMA ClaimsRowStep ==
  ASSUME IInv, OperationFrame, Executing("claim"), applied' = applied, NEW j \in Jobs,
         StoreClaim(j), NEW e \in EventRecs, e.ev = "claimed", e.job = j,
         e.arg.attempt = attempts'[j], Answer(e)
  PROVE  IInv'
  <1>1. dataQ # <<>> /\ Head(dataQ) \in Queued
    BY FirstOp DEF Executing
  <1>2. /\ status' \in [Jobs -> Statuses] /\ attempts' \in [Jobs -> Nat] /\ due' = due
        /\ status[j] \in {"pending", "retry"} /\ status'[j] = "running"
        /\ attempts'[j] = attempts[j] + 1 /\ attempts'[j] \in Nat
        /\ \A k \in Jobs : k # j => status'[k] = status[k] /\ attempts'[k] = attempts[k]
        /\ \A k \in Jobs : attempts[k] <= attempts'[k] /\ attempts[k] \in Nat /\ attempts'[k] \in Nat
    BY DEF StoreClaim, Ready, IInv, Typed, Statuses
  <1>3. OpTaken /\ EventPosted(e) /\ opStep' = "start"
    BY <1>1, AnswerIs
  <1>4. OneJob => /\ \A d \in Queued : ~Handles(d)
                  /\ \A y \in Posted : ~Carries(y)
                  /\ current = NoExec
    <2>1. ASSUME OneJob
          PROVE  /\ \A d \in Queued : ~Handles(d)
                 /\ \A y \in Posted : ~Carries(y)
                 /\ current = NoExec
      <3>1. /\ \A d \in Queued : Handles(d) => d.job = j
            /\ \A y \in Posted : Carries(y) => y.job = j
            /\ current # NoExec => current.request.job = j
        BY <2>1, AllTyped
           DEF OneJob, OpTyped, EventTyped, Handles, Carries, Finals, IInv, Modes
      <3> QED  BY <2>1, <3>1, <1>2 DEF IInv, OneInv, Rows, Carries, KeptAnswers
    <2> QED  BY <2>1
  <1>5. Holds(e) /\ Carries(e)
    BY JobsAssumption DEF Holds, Carries
  <1>6. \A o \in Queued' : o \in Queued
    BY <1>3 DEF OpTaken
  <1>7. /\ current.request.attempt \in Nat /\ gen.attempt \in Nat /\ pendingLaunch.attempt \in Nat
        /\ current # NoExec => current.request.job \in Jobs
    BY DEF IInv, Typed, Modes, Execs, Requests, Gens
  <1>8. /\ UNCHANGED dataQ => UNCHANGED Queued
        /\ UNCHANGED mainQ => UNCHANGED Posted
    BY DEF Queued, Posted
  <1>9. /\ \A x \in Queued : OpTyped(x) /\ x \in OpRecs
        /\ \A y \in Posted : EventTyped(y) /\ y \in EventRecs
    BY AllTyped
  <1>10. Typed'
    BY <1>1, <1>2, <1>3, <1>4, <1>5, <1>6, <1>7, <1>8, <1>9, NothingIsEmpty,
       NothingIsTyped
       DEF IInv, Typed, OpTaken, EventPosted, OperationFrame, Executing, Job
  <1>11. Down'
    BY <1>1, <1>2, <1>3, <1>4, <1>5, <1>6, <1>7, <1>8, <1>9, NothingIsEmpty, SMT
       DEF IInv, Down, OpTaken, EventPosted, OperationFrame, Executing, Job
  <1>12. Modes'
    BY <1>1, <1>2, <1>3, <1>4, <1>5, <1>6, <1>7, <1>8, <1>9, NothingIsEmpty, SMT
       DEF IInv, Modes, ChatCancelsGeneration, OpTaken, EventPosted, OperationFrame,
           Executing, Job
  <1>13. Counted'
    <2>1. ASSUME NEW o \in Queued', o.op = "prepare"
          PROVE  o.arg.attempt <= attempts'[o.job]
      <3>1. o \in Queued /\ o.job \in Jobs /\ o.arg.attempt \in Nat
        BY <2>1, <1>6, <1>9 DEF OpTyped
      <3>2. o.arg.attempt <= attempts[o.job]
        BY <2>1, <3>1 DEF IInv, Counted
      <3> QED  BY <3>1, <3>2, <1>2
    <2>2. ASSUME NEW o \in Queued', o.op = "fail"
          PROVE  attempts'[o.job] >= MaxJobAttempts
      <3>1. o \in Queued /\ o.job \in Jobs
        BY <2>2, <1>6, <1>9 DEF OpTyped
      <3>2. attempts[o.job] >= MaxJobAttempts
        BY <2>2, <3>1 DEF IInv, Counted
      <3> QED  BY <3>1, <3>2, <1>2, DeepJobsAssumption
    <2>3. ASSUME NEW y \in Posted', Holds(y)
          PROVE  y.arg.attempt <= attempts'[y.job]
      <3>1. CASE y = e
        BY <3>1, <1>2
      <3>2. CASE y \in Posted
        <4>1. y.job \in Jobs /\ y.arg.attempt \in Nat
          BY <2>3, <3>2, <1>9 DEF EventTyped
        <4>2. y.arg.attempt <= attempts[y.job]
          BY <2>3, <3>2 DEF IInv, Counted
        <4> QED  BY <4>1, <4>2, <1>2
      <3> QED  BY <1>3, <3>1, <3>2 DEF EventPosted
    <2>4. current' # NoExec => current'.request.attempt <= attempts'[current'.request.job]
      <3>1. UNCHANGED current
        BY DEF OperationFrame
      <3>2. current # NoExec => current.request.attempt <= attempts[current.request.job]
        BY DEF IInv, Counted
      <3> QED  BY <3>1, <3>2, <1>2, <1>7
    <2>5. FailedAfterAttempts'
      <3>1. ASSUME NEW k \in Jobs, status'[k] = "failed"
            PROVE  attempts'[k] >= MaxJobAttempts
        <4>1. status[k] = "failed" /\ attempts'[k] = attempts[k]
          BY <3>1, <1>2
        <4> QED  BY <4>1 DEF IInv, Counted, FailedAfterAttempts
      <3> QED  BY <3>1 DEF FailedAfterAttempts
    <2> QED  BY <2>1, <2>2, <2>3, <2>4, <2>5 DEF Counted
  <1>14. OneJob => Alone'
    BY <1>1, <1>2, <1>3, <1>4, <1>5, <1>6, <1>7, <1>8, <1>9, NothingIsEmpty,
       JobsAssumption, SMT
       DEF IInv, OneInv, Alone, Handles, Carries, Holds, Finals, Preparations,
           KeptAnswers, OpTaken, EventPosted, OperationFrame, Executing, Job
  <1>15. OneJob => Kept'
    BY <1>1, <1>2, <1>3, <1>4, <1>5, <1>6, <1>7, <1>8, <1>9, NothingIsEmpty,
       JobsAssumption, SMT
       DEF IInv, OneInv, Kept, Handles, Carries, Holds, Finals, Preparations,
           KeptAnswers, OpTaken, EventPosted, OperationFrame, Executing, Job
  <1>16. OneJob => Rows'
    BY <1>1, <1>2, <1>3, <1>4, <1>5, <1>6, <1>7, <1>8, <1>9, NothingIsEmpty,
       JobsAssumption, SMT
       DEF IInv, OneInv, Rows, Running, Handles, Carries, Holds, Finals, Preparations,
           KeptAnswers, OpTaken, EventPosted, OperationFrame, Executing, Job
  <1>17. OneJob => Latest'
    BY <1>1, <1>2, <1>3, <1>4, <1>5, <1>6, <1>7, <1>8, <1>9, NothingIsEmpty,
       JobsAssumption, SMT
       DEF IInv, OneInv, OneJob, Latest, Handles, Carries, Holds, Finals,
           Preparations, KeptAnswers, OpTaken, EventPosted, OperationFrame, Executing,
           Job
  <1>18. OneJob => Written'
    BY <1>1, <1>2, <1>3, <1>4, <1>5, <1>6, <1>7, <1>8, <1>9, NothingIsEmpty,
       JobsAssumption, SMT
       DEF IInv, OneInv, Written, Executing, Job, OpTaken, EventPosted, OperationFrame
  <1>19. OneJob => Held'
    BY <1>1, <1>2, <1>3, <1>4, <1>5, <1>6, <1>7, <1>8, <1>9, NothingIsEmpty,
       JobsAssumption, SMT
       DEF IInv, OneInv, Held, InHands, Handles, Carries, Holds, Finals, Preparations,
           KeptAnswers, Running, OpTaken, EventPosted, OperationFrame, Executing, Job
  <1> QED  BY <1>10, <1>11, <1>12, <1>13, <1>14, <1>15, <1>16, <1>17, <1>18, <1>19
              DEF IInv, OneInv, OneJob

\* No row is ready.
LEMMA ClaimsNothingStep ==
  ASSUME IInv, OperationFrame, Executing("claim"), applied' = applied,
         UNCHANGED <<status, attempts, due>>, Answer(Event("claimed", NoJob, NoArg))
  PROVE  IInv'
  <1>1. dataQ # <<>> /\ Head(dataQ) \in Queued
    BY FirstOp DEF Executing
  <1>2. Event("claimed", NoJob, NoArg) \in EventRecs
    BY DEF Event, EventRecs
  <1>3. OpTaken /\ EventPosted(Event("claimed", NoJob, NoArg)) /\ opStep' = "start"
    BY <1>1, <1>2, AnswerIs
  <1>4. /\ UNCHANGED dataQ => UNCHANGED Queued
        /\ UNCHANGED mainQ => UNCHANGED Posted
    BY DEF Queued, Posted
  <1>5. /\ \A x \in Queued : OpTyped(x) /\ x \in OpRecs
        /\ \A y \in Posted : EventTyped(y) /\ y \in EventRecs
    BY AllTyped
  <1>6. Typed'
    BY <1>1, <1>2, <1>3, <1>4, <1>5, NothingIsEmpty, NothingIsTyped
       DEF IInv, Typed, OpTaken, EventPosted, OperationFrame, Event, Executing, Job,
           Arg
  <1>7. Down'
    BY <1>1, <1>2, <1>3, <1>4, <1>5, NothingIsEmpty, SMT
       DEF IInv, Down, OpTaken, EventPosted, OperationFrame, Event, Executing, Job,
           Arg
  <1>8. Modes'
    BY <1>1, <1>2, <1>3, <1>4, <1>5, NothingIsEmpty, SMT
       DEF IInv, Modes, ChatCancelsGeneration, OpTaken, EventPosted, OperationFrame,
           Event, Executing, Job, Arg
  <1>9. Counted'
    BY <1>1, <1>2, <1>3, <1>4, <1>5, NothingIsEmpty, DeepJobsAssumption, SMT
       DEF IInv, Counted, Holds, FailedAfterAttempts, Preparations, OpTaken,
           EventPosted, OperationFrame, Event, Executing, Job, Arg
  <1>10. OneJob => Alone'
    BY <1>1, <1>2, <1>3, <1>4, <1>5, NothingIsEmpty, JobsAssumption, SMT
       DEF IInv, OneInv, Alone, Handles, Carries, Holds, Finals, Preparations,
           KeptAnswers, OpTaken, EventPosted, OperationFrame, Event, Executing, Job,
           Arg
  <1>11. OneJob => Kept'
    BY <1>1, <1>2, <1>3, <1>4, <1>5, NothingIsEmpty, JobsAssumption, SMT
       DEF IInv, OneInv, Kept, Handles, Carries, Holds, Finals, Preparations,
           KeptAnswers, OpTaken, EventPosted, OperationFrame, Event, Executing, Job,
           Arg
  <1>12. OneJob => Rows'
    BY <1>1, <1>2, <1>3, <1>4, <1>5, NothingIsEmpty, JobsAssumption, SMT
       DEF IInv, OneInv, Rows, Running, Handles, Carries, Holds, Finals, Preparations,
           KeptAnswers, OpTaken, EventPosted, OperationFrame, Event, Executing, Job,
           Arg
  <1>13. OneJob => Latest'
    BY <1>1, <1>2, <1>3, <1>4, <1>5, NothingIsEmpty, JobsAssumption, SMT
       DEF IInv, OneInv, Latest, Handles, Carries, Holds, Finals, Preparations,
           KeptAnswers, OpTaken, EventPosted, OperationFrame, Event, Executing, Job,
           Arg
  <1>14. OneJob => Written'
    BY <1>1, <1>2, <1>3, <1>4, <1>5, NothingIsEmpty, JobsAssumption, SMT
       DEF IInv, OneInv, Written, Executing, Job, OpTaken, EventPosted,
           OperationFrame, Event, Arg
  <1>15. OneJob => Held'
    BY <1>1, <1>2, <1>3, <1>4, <1>5, NothingIsEmpty, JobsAssumption, SMT
       DEF IInv, OneInv, Held, InHands, Handles, Carries, Holds, Finals, Preparations,
           KeptAnswers, Running, OpTaken, EventPosted, OperationFrame, Event,
           Executing, Job, Arg
  <1> QED  BY <1>6, <1>7, <1>8, <1>9, <1>10, <1>11, <1>12, <1>13, <1>14, <1>15
              DEF IInv, OneInv, OneJob

\* The data thread claims a row, or reports that there is none.
LEMMA DoClaimStep ==
  ASSUME IInv, DoClaim
  PROVE  IInv'
  <1>1. OperationFrame /\ applied' = applied /\ Executing("claim")
    BY OperationIs DEF DoClaim
  <1>2. ASSUME NEW j \in Jobs, StoreClaim(j), Answer(Event("claimed", j, [attempt |-> attempts'[j]]))
        PROVE  IInv'
    <2>1. attempts'[j] \in Nat
      BY <1>2 DEF StoreClaim, IInv, Typed
    <2>2. Event("claimed", j, [attempt |-> attempts'[j]]) \in EventRecs
      BY <2>1 DEF Event, EventRecs
    <2> DEFINE e == Event("claimed", j, [attempt |-> attempts'[j]])
    <2>3. e.ev = "claimed" /\ e.job = j /\ e.arg.attempt = attempts'[j]
      BY DEF Event
    <2>4. e \in EventRecs /\ Answer(e)
      BY <1>2, <2>2
    <2> HIDE DEF e
    <2> QED  BY <1>1, <1>2, <2>3, <2>4, ClaimsRowStep
  <1>3. ASSUME UNCHANGED <<status, attempts, due>>, Answer(Event("claimed", NoJob, NoArg))
        PROVE  IInv'
    BY <1>1, <1>3, ClaimsNothingStep
  <1> QED  BY <1>2, <1>3 DEF DoClaim, store

\* A preparation is answered.
LEMMA PreparesStep ==
  ASSUME IInv, OperationFrame, Executing("prepare"), UNCHANGED <<status, attempts, due, applied>>,
         NEW answer \in Preparations, Answer(Event(answer, Job, Arg))
  PROVE  IInv'
  <1>1. dataQ # <<>> /\ Head(dataQ) \in Queued
    BY FirstOp DEF Executing
  <1>2. OpTyped(Head(dataQ)) /\ Head(dataQ).op = "prepare"
    BY <1>1, AllTyped DEF Executing
  <1>3. Event(answer, Job, Arg) \in EventRecs
    BY <1>2 DEF Event, EventRecs, OpTyped, Job, Arg, Preparations
  <1>4. OpTaken /\ EventPosted(Event(answer, Job, Arg)) /\ opStep' = "start"
    BY <1>1, <1>3, AnswerIs
  <1>5. /\ UNCHANGED dataQ => UNCHANGED Queued
        /\ UNCHANGED mainQ => UNCHANGED Posted
    BY DEF Queued, Posted
  <1>6. /\ \A x \in Queued : OpTyped(x) /\ x \in OpRecs
        /\ \A y \in Posted : EventTyped(y) /\ y \in EventRecs
    BY AllTyped
  <1>7. Typed'
    BY <1>1, <1>2, <1>3, <1>4, <1>5, <1>6, NothingIsEmpty, NothingIsTyped
       DEF IInv, Typed, OpTaken, EventPosted, OperationFrame, Event, Executing, Job,
           Arg, OpTyped
  <1>8. Down'
    BY <1>1, <1>2, <1>3, <1>4, <1>5, <1>6, NothingIsEmpty, SMT
       DEF IInv, Down, OpTaken, EventPosted, OperationFrame, Event, Executing, Job,
           Arg, OpTyped
  <1>9. Modes'
    BY <1>1, <1>2, <1>3, <1>4, <1>5, <1>6, NothingIsEmpty, SMT
       DEF IInv, Modes, ChatCancelsGeneration, OpTaken, EventPosted, OperationFrame,
           Event, Executing, Job, Arg, OpTyped
  <1>10. Counted'
    BY <1>1, <1>2, <1>3, <1>4, <1>5, <1>6, NothingIsEmpty, DeepJobsAssumption, SMT
       DEF IInv, Counted, Holds, FailedAfterAttempts, Preparations, OpTaken,
           EventPosted, OperationFrame, Event, Executing, Job, Arg, OpTyped
  <1>11. OneJob => Alone'
    BY <1>1, <1>2, <1>3, <1>4, <1>5, <1>6, NothingIsEmpty, JobsAssumption, SMT
       DEF IInv, OneInv, Alone, Handles, Carries, Holds, Finals, Preparations,
           KeptAnswers, OpTaken, EventPosted, OperationFrame, Event, Executing, Job,
           Arg, OpTyped
  <1>12. OneJob => Kept'
    BY <1>1, <1>2, <1>3, <1>4, <1>5, <1>6, NothingIsEmpty, JobsAssumption, SMT
       DEF IInv, OneInv, Kept, Handles, Carries, Holds, Finals, Preparations,
           KeptAnswers, OpTaken, EventPosted, OperationFrame, Event, Executing, Job,
           Arg, OpTyped
  <1>13. OneJob => Rows'
    BY <1>1, <1>2, <1>3, <1>4, <1>5, <1>6, NothingIsEmpty, JobsAssumption, SMT
       DEF IInv, OneInv, Rows, Running, Handles, Carries, Holds, Finals, Preparations,
           KeptAnswers, OpTaken, EventPosted, OperationFrame, Event, Executing, Job,
           Arg, OpTyped
  <1>14. OneJob => Latest'
    BY <1>1, <1>2, <1>3, <1>4, <1>5, <1>6, NothingIsEmpty, JobsAssumption, SMT
       DEF IInv, OneInv, Latest, Handles, Carries, Holds, Finals, Preparations,
           KeptAnswers, OpTaken, EventPosted, OperationFrame, Event, Executing, Job,
           Arg, OpTyped
  <1>15. OneJob => Written'
    BY <1>1, <1>2, <1>3, <1>4, <1>5, <1>6, NothingIsEmpty, JobsAssumption, SMT
       DEF IInv, OneInv, Written, Executing, Job, OpTaken, EventPosted,
           OperationFrame, Event, Arg, OpTyped
  <1>16. OneJob => Held'
    BY <1>1, <1>2, <1>3, <1>4, <1>5, <1>6, NothingIsEmpty, JobsAssumption, SMT
       DEF IInv, OneInv, Held, InHands, Handles, Carries, Holds, Finals, Preparations,
           KeptAnswers, Running, OpTaken, EventPosted, OperationFrame, Event,
           Executing, Job, Arg, OpTyped
  <1> QED  BY <1>7, <1>8, <1>9, <1>10, <1>11, <1>12, <1>13, <1>14, <1>15, <1>16
              DEF IInv, OneInv, OneJob

\* The data thread prepares a request, or finds nothing to do, or no record.
LEMMA DoPrepareStep ==
  ASSUME IInv, DoPrepare
  PROVE  IInv'
  BY OperationIs, PreparesStep DEF DoPrepare, store, Preparations

\* A result is written before its row is marked.
LEMMA ApplyResultStep ==
  ASSUME IInv, ApplyResult
  PROVE  IInv'
  <1>1. /\ Executing("persist") /\ dataQ # <<>> /\ Job \in Jobs
        /\ Head(dataQ) \in Queued /\ Head(dataQ).op = "persist"
    BY FirstOp, AllTyped DEF ApplyResult, Executing, Job, OpTyped, Finals
  <1>2. /\ applied' \in [Jobs -> Nat] /\ applied'[Job] = applied[Job] + 1
        /\ \A k \in Jobs : k # Job => applied'[k] = applied[k]
    BY <1>1 DEF ApplyResult, IInv, Typed
  <1>3. /\ opStep = "start" /\ opStep' = "written"
        /\ UNCHANGED <<status, attempts, due, dataQ, mainQ>> /\ OperationFrame
    BY OperationIs DEF ApplyResult, store
  <1>4. OneJob => status[Job] = "running"
    BY <1>1 DEF IInv, OneInv, Rows, Handles, Finals, Job
  <1>5. /\ UNCHANGED dataQ => UNCHANGED Queued
        /\ UNCHANGED mainQ => UNCHANGED Posted
    BY DEF Queued, Posted
  <1>6. /\ \A x \in Queued : OpTyped(x) /\ x \in OpRecs
        /\ \A y \in Posted : EventTyped(y) /\ y \in EventRecs
    BY AllTyped
  <1>7. Typed'
    BY <1>1, <1>2, <1>3, <1>4, <1>5, <1>6, NothingIsEmpty, NothingIsTyped
       DEF IInv, Typed, OperationFrame
  <1>8. Down'
    BY <1>1, <1>2, <1>3, <1>4, <1>5, <1>6, NothingIsEmpty, SMT
       DEF IInv, Down, OperationFrame
  <1>9. Modes'
    BY <1>1, <1>2, <1>3, <1>4, <1>5, <1>6, NothingIsEmpty, SMT
       DEF IInv, Modes, ChatCancelsGeneration, OperationFrame
  <1>10. Counted'
    BY <1>1, <1>2, <1>3, <1>4, <1>5, <1>6, NothingIsEmpty, DeepJobsAssumption, SMT
       DEF IInv, Counted, Holds, FailedAfterAttempts, Preparations, OperationFrame
  <1>11. OneJob => Alone'
    BY <1>1, <1>2, <1>3, <1>4, <1>5, <1>6, NothingIsEmpty, JobsAssumption, SMT
       DEF IInv, OneInv, Alone, Handles, Carries, Holds, Finals, Preparations,
           KeptAnswers, OperationFrame
  <1>12. OneJob => Kept'
    BY <1>1, <1>2, <1>3, <1>4, <1>5, <1>6, NothingIsEmpty, JobsAssumption, SMT
       DEF IInv, OneInv, Kept, Handles, Carries, Holds, Finals, Preparations,
           KeptAnswers, OperationFrame
  <1>13. OneJob => Rows'
    BY <1>1, <1>2, <1>3, <1>4, <1>5, <1>6, NothingIsEmpty, JobsAssumption, SMT
       DEF IInv, OneInv, Rows, Running, Handles, Carries, Holds, Finals, Preparations,
           KeptAnswers, OperationFrame
  <1>14. OneJob => Latest'
    BY <1>1, <1>2, <1>3, <1>4, <1>5, <1>6, NothingIsEmpty, JobsAssumption, SMT
       DEF IInv, OneInv, Latest, Handles, Carries, Holds, Finals, Preparations,
           KeptAnswers, OperationFrame
  <1>15. OneJob => Written'
    BY <1>1, <1>2, <1>3, <1>4, <1>5, <1>6, NothingIsEmpty, JobsAssumption, SMT
       DEF IInv, OneInv, Written, Executing, Job, OperationFrame, OpTyped, EventTyped,
           Typed, Modes
  <1>16. OneJob => Held'
    BY <1>1, <1>2, <1>3, <1>4, <1>5, <1>6, NothingIsEmpty, JobsAssumption, SMT
       DEF IInv, OneInv, Held, InHands, Handles, Carries, Holds, Finals, Preparations,
           KeptAnswers, Running, OperationFrame
  <1> QED  BY <1>7, <1>8, <1>9, <1>10, <1>11, <1>12, <1>13, <1>14, <1>15, <1>16
              DEF IInv, OneInv, OneJob

\* A finalization marks its row.
LEMMA MarksStep ==
  ASSUME IInv, OperationFrame, applied' = applied, NEW op \in Finals, Executing(op), NEW to,
         NEW ready \in BOOLEAN, op = "persist" => opStep = "written",
         to = IF op = "retry" THEN "retry" ELSE IF op = "fail" THEN "failed" ELSE "completed",
         StoreMark(Job, to, ready), Answer(Event(MarkOf(op), Job, NoArg))
  PROVE  IInv'
  <1>1. dataQ # <<>> /\ Head(dataQ) \in Queued
    BY FirstOp DEF Executing
  <1>2. Job \in Jobs /\ Head(dataQ).op = op /\ Handles(Head(dataQ)) /\ Job = Head(dataQ).job
    BY <1>1, AllTyped DEF Executing, Job, OpTyped, Finals, Handles
  <1>3. /\ status[Job] = "running" /\ status' \in [Jobs -> Statuses] /\ due' \in [Jobs -> BOOLEAN]
        /\ attempts' = attempts /\ status'[Job] = to
        /\ \A k \in Jobs : k # Job => status'[k] = status[k]
    BY <1>2 DEF StoreMark, IInv, Typed, Statuses
  <1>4. MarkOf(op) = IF op = "persist" THEN "marked:persist" ELSE IF op = "complete" THEN "marked:complete"
                     ELSE IF op = "retry" THEN "marked:retry" ELSE "marked:fail"
    BY DEF MarkOf, Finals
  <1>5. Event(MarkOf(op), Job, NoArg) \in EventRecs
    BY <1>2, <1>4 DEF Event, EventRecs, KeptAnswers, LooseAnswers, Finals
  <1>6. OpTaken /\ EventPosted(Event(MarkOf(op), Job, NoArg)) /\ opStep' = "start"
    BY <1>1, <1>5, AnswerIs
  <1>7. OneJob => /\ \A k \in Jobs : k = Job
                  /\ \A o \in Queued' : ~Handles(o)
                  /\ \A e \in Posted : ~Carries(e)
    BY <1>1, <1>2, <1>6 DEF OneJob, OpTaken, IInv, OneInv, Alone
  <1>8. /\ UNCHANGED dataQ => UNCHANGED Queued
        /\ UNCHANGED mainQ => UNCHANGED Posted
    BY DEF Queued, Posted
  <1>9. /\ \A x \in Queued : OpTyped(x) /\ x \in OpRecs
        /\ \A y \in Posted : EventTyped(y) /\ y \in EventRecs
    BY AllTyped
  <1>10. Typed'
    BY <1>1, <1>2, <1>3, <1>4, <1>5, <1>6, <1>7, <1>8, <1>9, NothingIsEmpty,
       NothingIsTyped
       DEF IInv, Typed, OpTaken, EventPosted, OperationFrame, Event, Executing, Job,
           Arg
  <1>11. Down'
    BY <1>1, <1>2, <1>3, <1>4, <1>5, <1>6, <1>7, <1>8, <1>9, NothingIsEmpty, SMT
       DEF IInv, Down, OpTaken, EventPosted, OperationFrame, Event, Executing, Job,
           Arg
  <1>12. Modes'
    BY <1>1, <1>2, <1>3, <1>4, <1>5, <1>6, <1>7, <1>8, <1>9, NothingIsEmpty, SMT
       DEF IInv, Modes, ChatCancelsGeneration, OpTaken, EventPosted, OperationFrame,
           Event, Executing, Job, Arg
  <1>13. Counted'
    BY <1>1, <1>2, <1>3, <1>4, <1>5, <1>6, <1>7, <1>8, <1>9, NothingIsEmpty,
       DeepJobsAssumption, SMT
       DEF IInv, Counted, Holds, FailedAfterAttempts, Preparations, OpTaken,
           EventPosted, OperationFrame, Event, Executing, Job, Arg
  <1>14. OneJob => Alone'
    BY <1>1, <1>2, <1>3, <1>4, <1>5, <1>6, <1>7, <1>8, <1>9, NothingIsEmpty,
       JobsAssumption, SMT
       DEF IInv, OneInv, Alone, Handles, Carries, Holds, Finals, Preparations,
           KeptAnswers, OpTaken, EventPosted, OperationFrame, Event, Executing, Job,
           Arg
  <1>15. OneJob => Kept'
    BY <1>1, <1>2, <1>3, <1>4, <1>5, <1>6, <1>7, <1>8, <1>9, NothingIsEmpty,
       JobsAssumption, SMT
       DEF IInv, OneInv, Kept, Handles, Carries, Holds, Finals, Preparations,
           KeptAnswers, OpTaken, EventPosted, OperationFrame, Event, Executing, Job,
           Arg
  <1>16. OneJob => Rows'
    BY <1>1, <1>2, <1>3, <1>4, <1>5, <1>6, <1>7, <1>8, <1>9, NothingIsEmpty,
       JobsAssumption, SMT
       DEF IInv, OneInv, Rows, Running, Handles, Carries, Holds, Finals, Preparations,
           KeptAnswers, OpTaken, EventPosted, OperationFrame, Event, Executing, Job,
           Arg, OpTyped, EventTyped, Typed, Modes, Alone, Kept
  <1>17. OneJob => Latest'
    BY <1>1, <1>2, <1>3, <1>4, <1>5, <1>6, <1>7, <1>8, <1>9, NothingIsEmpty,
       JobsAssumption, SMT
       DEF IInv, OneInv, Latest, Handles, Carries, Holds, Finals, Preparations,
           KeptAnswers, OpTaken, EventPosted, OperationFrame, Event, Executing, Job,
           Arg
  <1>18. OneJob => Written'
    BY <1>1, <1>2, <1>3, <1>4, <1>5, <1>6, <1>7, <1>8, <1>9, NothingIsEmpty,
       JobsAssumption, SMT
       DEF IInv, OneInv, Written, Executing, Job, OpTaken, EventPosted,
           OperationFrame, Event, Arg
  <1>19. OneJob => Held'
    BY <1>1, <1>2, <1>3, <1>4, <1>5, <1>6, <1>7, <1>8, <1>9, NothingIsEmpty,
       JobsAssumption, SMT
       DEF IInv, OneInv, Held, InHands, Handles, Carries, Holds, Finals, Preparations,
           KeptAnswers, Running, OpTaken, EventPosted, OperationFrame, Event,
           Executing, Job, Arg
  <1> QED  BY <1>10, <1>11, <1>12, <1>13, <1>14, <1>15, <1>16, <1>17, <1>18, <1>19
              DEF IInv, OneInv, OneJob

\* A finalization finds that its row does not run: never with one job.
LEMMA MarkRefusedStep ==
  ASSUME IInv, OperationFrame, UNCHANGED <<applied, status, attempts, due>>, NEW op \in Finals,
         Executing(op), status[Job] # "running", Answer(Event(FailureOf(op), Job, NoArg))
  PROVE  IInv'
  <1>1. dataQ # <<>> /\ Head(dataQ) \in Queued
    BY FirstOp DEF Executing
  <1>2. Job \in Jobs /\ Head(dataQ).op = op /\ Handles(Head(dataQ)) /\ Job = Head(dataQ).job
    BY <1>1, AllTyped DEF Executing, Job, OpTyped, Finals, Handles
  <1>3. ~OneJob
    BY <1>1, <1>2 DEF IInv, OneInv, Rows, Job
  <1>4. FailureOf(op) \in {"failed:persist", "failed:complete", "failed:retry", "failed:fail"}
    BY DEF FailureOf, Finals
  <1>5. Event(FailureOf(op), Job, NoArg) \in EventRecs
    BY <1>2, <1>4 DEF Event, EventRecs, KeptAnswers, LooseAnswers
  <1>6. OpTaken /\ EventPosted(Event(FailureOf(op), Job, NoArg)) /\ opStep' = "start"
    BY <1>1, <1>5, AnswerIs
  <1>7. /\ UNCHANGED dataQ => UNCHANGED Queued
        /\ UNCHANGED mainQ => UNCHANGED Posted
    BY DEF Queued, Posted
  <1>8. /\ \A x \in Queued : OpTyped(x) /\ x \in OpRecs
        /\ \A y \in Posted : EventTyped(y) /\ y \in EventRecs
    BY AllTyped
  <1>9. Typed'
    BY <1>1, <1>2, <1>3, <1>4, <1>5, <1>6, <1>7, <1>8, NothingIsEmpty, NothingIsTyped
       DEF IInv, Typed, OpTaken, EventPosted, OperationFrame, Event, Executing, Job,
           Arg
  <1>10. Down'
    BY <1>1, <1>2, <1>3, <1>4, <1>5, <1>6, <1>7, <1>8, NothingIsEmpty, SMT
       DEF IInv, Down, OpTaken, EventPosted, OperationFrame, Event, Executing, Job,
           Arg
  <1>11. Modes'
    BY <1>1, <1>2, <1>3, <1>4, <1>5, <1>6, <1>7, <1>8, NothingIsEmpty, SMT
       DEF IInv, Modes, ChatCancelsGeneration, OpTaken, EventPosted, OperationFrame,
           Event, Executing, Job, Arg
  <1>12. Counted'
    BY <1>1, <1>2, <1>3, <1>4, <1>5, <1>6, <1>7, <1>8, NothingIsEmpty,
       DeepJobsAssumption, SMT
       DEF IInv, Counted, Holds, FailedAfterAttempts, Preparations, OpTaken,
           EventPosted, OperationFrame, Event, Executing, Job, Arg
  <1>13. OneJob => Alone'
    BY <1>1, <1>2, <1>3, <1>4, <1>5, <1>6, <1>7, <1>8, NothingIsEmpty, JobsAssumption,
       SMT
       DEF IInv, OneInv, Alone, Handles, Carries, Holds, Finals, Preparations,
           KeptAnswers, OpTaken, EventPosted, OperationFrame, Event, Executing, Job,
           Arg
  <1>14. OneJob => Kept'
    BY <1>1, <1>2, <1>3, <1>4, <1>5, <1>6, <1>7, <1>8, NothingIsEmpty, JobsAssumption,
       SMT
       DEF IInv, OneInv, Kept, Handles, Carries, Holds, Finals, Preparations,
           KeptAnswers, OpTaken, EventPosted, OperationFrame, Event, Executing, Job,
           Arg
  <1>15. OneJob => Rows'
    BY <1>1, <1>2, <1>3, <1>4, <1>5, <1>6, <1>7, <1>8, NothingIsEmpty, JobsAssumption,
       SMT
       DEF IInv, OneInv, Rows, Running, Handles, Carries, Holds, Finals, Preparations,
           KeptAnswers, OpTaken, EventPosted, OperationFrame, Event, Executing, Job,
           Arg
  <1>16. OneJob => Latest'
    BY <1>1, <1>2, <1>3, <1>4, <1>5, <1>6, <1>7, <1>8, NothingIsEmpty, JobsAssumption,
       SMT
       DEF IInv, OneInv, Latest, Handles, Carries, Holds, Finals, Preparations,
           KeptAnswers, OpTaken, EventPosted, OperationFrame, Event, Executing, Job,
           Arg
  <1>17. OneJob => Written'
    BY <1>1, <1>2, <1>3, <1>4, <1>5, <1>6, <1>7, <1>8, NothingIsEmpty, JobsAssumption,
       SMT
       DEF IInv, OneInv, Written, Executing, Job, OpTaken, EventPosted,
           OperationFrame, Event, Arg
  <1>18. OneJob => Held'
    BY <1>1, <1>2, <1>3, <1>4, <1>5, <1>6, <1>7, <1>8, NothingIsEmpty, JobsAssumption,
       SMT
       DEF IInv, OneInv, Held, InHands, Handles, Carries, Holds, Finals, Preparations,
           KeptAnswers, Running, OpTaken, EventPosted, OperationFrame, Event,
           Executing, Job, Arg
  <1> QED  BY <1>9, <1>10, <1>11, <1>12, <1>13, <1>14, <1>15, <1>16, <1>17, <1>18
              DEF IInv, OneInv, OneJob

\* A finalization marks its row, or is refused.
LEMMA DoMarkStep ==
  ASSUME IInv, DoMark
  PROVE  IInv'
  <1> DEFINE op == Head(dataQ).op
  <1>1. OperationFrame /\ applied' = applied
    BY OperationIs DEF DoMark
  <1>2. op \in Finals /\ Executing(op) /\ (op = "persist" => opStep = "written")
    BY DEF DoMark, Executing, Finals
  <1>3. Head(dataQ).op = op
    OBVIOUS
  <1>4. op = "retry" => Arg.ready \in BOOLEAN
    BY FirstOp, AllTyped, <1>2 DEF OpTyped, Arg, Executing
  <1> HIDE DEF op
  <1>5. CASE status[Job] = "running"
    <2>1. /\ Answer(Event(MarkOf(op), Job, NoArg))
          /\ CASE Executing("retry") -> StoreMark(Job, "retry", Arg.ready)
               [] Executing("fail")  -> StoreMark(Job, "failed", TRUE)
               [] OTHER              -> StoreMark(Job, "completed", TRUE)
      BY <1>3, <1>5 DEF DoMark
    <2>2. \E to, ready :
            /\ ready \in BOOLEAN
            /\ to = IF op = "retry" THEN "retry" ELSE IF op = "fail" THEN "failed" ELSE "completed"
            /\ StoreMark(Job, to, ready)
      <3>1. CASE op = "retry"
        BY <1>2, <1>3, <1>4, <2>1, <3>1 DEF Executing
      <3>2. CASE op = "fail"
        BY <1>2, <1>3, <2>1, <3>2 DEF Executing
      <3>3. CASE op \notin {"retry", "fail"}
        BY <1>2, <1>3, <2>1, <3>3 DEF Executing
      <3> QED  BY <3>1, <3>2, <3>3
    <2> QED  BY <1>1, <1>2, <2>1, <2>2, MarksStep
  <1>6. CASE status[Job] # "running"
    <2>1. Answer(Event(FailureOf(op), Job, NoArg)) /\ UNCHANGED <<status, attempts, due>>
      BY <1>3, <1>6 DEF DoMark, store
    <2> QED  BY <1>1, <1>2, <1>6, <2>1, MarkRefusedStep
  <1> QED  BY <1>5, <1>6

\* An operation raises; what it committed before stays.
LEMMA DataFaultStep ==
  ASSUME IInv, DataFault
  PROVE  IInv'
  <1>1. dataQ # <<>> /\ Head(dataQ) \in Queued /\ OpTyped(Head(dataQ))
    BY FirstOp, AllTyped DEF DataFault, OperationFails
  <1>2. FailureOf(Head(dataQ).op) =
          IF Head(dataQ).op = "claim" THEN "failed:claim"
          ELSE IF Head(dataQ).op = "prepare" THEN "failed:prepare"
          ELSE IF Head(dataQ).op = "persist" THEN "failed:persist"
          ELSE IF Head(dataQ).op = "complete" THEN "failed:complete"
          ELSE IF Head(dataQ).op = "retry" THEN "failed:retry"
          ELSE "failed:fail"
    BY <1>1 DEF FailureOf, OpTyped, Finals
  <1>3. Event(FailureOf(Head(dataQ).op), Job, Arg) \in EventRecs
    BY <1>1, <1>2, AllTyped
       DEF Event, EventRecs, OpTyped, OpRecs, Job, Arg, Preparations, KeptAnswers,
           LooseAnswers, Finals
  <1>4. OpTaken /\ EventPosted(Event(FailureOf(Head(dataQ).op), Job, Arg)) /\ opStep' = "start"
    BY <1>1, <1>3, AnswerIs DEF DataFault, OperationFails
  <1>5. /\ UNCHANGED <<status, attempts, due, dataUp, gen, runnerPaused, runnerShut, up, accepting,
                       claimInFlight, paused, foreground, enabled, current, pendingLaunch, applied, switches>>
        /\ faults' = faults + 1
    BY DEF DataFault, OperationFails, store, runner, flags
  <1>6. faults' \in 0..MaxFaults
    BY JobsAssumption DEF DataFault, OperationFails, IInv, Typed
  <1>7. /\ UNCHANGED dataQ => UNCHANGED Queued
        /\ UNCHANGED mainQ => UNCHANGED Posted
    BY DEF Queued, Posted
  <1>8. /\ \A x \in Queued : OpTyped(x) /\ x \in OpRecs
        /\ \A y \in Posted : EventTyped(y) /\ y \in EventRecs
    BY AllTyped
  <1>9. Typed'
    BY <1>1, <1>2, <1>3, <1>4, <1>5, <1>6, <1>7, <1>8, NothingIsEmpty, NothingIsTyped
       DEF IInv, Typed, OpTaken, EventPosted, Event, Job, Arg
  <1>10. Down'
    BY <1>1, <1>2, <1>3, <1>4, <1>5, <1>6, <1>7, <1>8, NothingIsEmpty, SMT
       DEF IInv, Down, OpTaken, EventPosted, Event, Job, Arg
  <1>11. Modes'
    BY <1>1, <1>2, <1>3, <1>4, <1>5, <1>6, <1>7, <1>8, NothingIsEmpty, SMT
       DEF IInv, Modes, ChatCancelsGeneration, OpTaken, EventPosted, Event, Job, Arg
  <1>12. Counted'
    BY <1>1, <1>2, <1>3, <1>4, <1>5, <1>6, <1>7, <1>8, NothingIsEmpty,
       DeepJobsAssumption, SMT
       DEF IInv, Counted, Holds, FailedAfterAttempts, Preparations, OpTaken,
           EventPosted, Event, Job, Arg
  <1>13. OneJob => Alone'
    BY <1>1, <1>2, <1>3, <1>4, <1>5, <1>6, <1>7, <1>8, NothingIsEmpty, JobsAssumption,
       SMT
       DEF IInv, OneInv, Alone, Handles, Carries, Holds, Finals, Preparations,
           KeptAnswers, OpTaken, EventPosted, Event, Job, Arg
  <1>14. OneJob => Kept'
    BY <1>1, <1>2, <1>3, <1>4, <1>5, <1>6, <1>7, <1>8, NothingIsEmpty, JobsAssumption,
       SMT
       DEF IInv, OneInv, Kept, Handles, Carries, Holds, Finals, Preparations,
           KeptAnswers, OpTaken, EventPosted, Event, Job, Arg
  <1>15. OneJob => Rows'
    BY <1>1, <1>2, <1>3, <1>4, <1>5, <1>6, <1>7, <1>8, NothingIsEmpty, JobsAssumption,
       SMT
       DEF IInv, OneInv, Rows, Running, Handles, Carries, Holds, Finals, Preparations,
           KeptAnswers, OpTaken, EventPosted, Event, Job, Arg
  <1>16. OneJob => Latest'
    BY <1>1, <1>2, <1>3, <1>4, <1>5, <1>6, <1>7, <1>8, NothingIsEmpty, JobsAssumption,
       SMT
       DEF IInv, OneInv, Latest, Handles, Carries, Holds, Finals, Preparations,
           KeptAnswers, OpTaken, EventPosted, Event, Job, Arg
  <1>17. OneJob => Written'
    BY <1>1, <1>2, <1>3, <1>4, <1>5, <1>6, <1>7, <1>8, NothingIsEmpty, JobsAssumption,
       SMT
       DEF IInv, OneInv, Written, Executing, Job, OpTaken, EventPosted, Event, Arg,
           OpTyped, EventTyped, Typed, Modes
  <1>18. OneJob => Held'
    BY <1>1, <1>2, <1>3, <1>4, <1>5, <1>6, <1>7, <1>8, NothingIsEmpty, JobsAssumption,
       SMT
       DEF IInv, OneInv, Held, InHands, Handles, Carries, Holds, Finals, Preparations,
           KeptAnswers, Running, OpTaken, EventPosted, Event, Job, Arg, OpTyped,
           EventTyped, Typed, Modes
  <1> QED  BY <1>9, <1>10, <1>11, <1>12, <1>13, <1>14, <1>15, <1>16, <1>17, <1>18
              DEF IInv, OneInv, OneJob

\* The worker reports how the request ended.
LEMMA WorkerReportsStep ==
  ASSUME IInv, Worker, WorkerReports
  PROVE  IInv'
  <1>1. up /\ gen.thread = "running" /\ gen \in Gens /\ gen.id # 0
    BY NothingIsEmpty DEF WorkerReports, IInv, Typed, Modes, Down
  <1>2. PICK outcome \in Outcomes : mainQ' = Append(mainQ, Event(outcome, gen.job, [id |-> gen.id]))
    BY DEF WorkerReports
  <1>3. Event(outcome, gen.job, [id |-> gen.id]) \in EventRecs
    BY <1>1 DEF Event, EventRecs, Gens
  <1>4. EventPosted(Event(outcome, gen.job, [id |-> gen.id]))
    BY <1>2, <1>3, PostsEvent
  <1>5. /\ gen' \in Gens /\ gen'.id = gen.id /\ gen'.job = gen.job /\ gen'.attempt = gen.attempt
        /\ gen'.thread = "ending" /\ gen'.cancelled = gen.cancelled /\ gen'.terminal = gen.terminal
    BY <1>1 DEF WorkerReports, Gens
  <1>6. UNCHANGED <<status, attempts, due, dataQ, opStep, dataUp, runnerPaused, runnerShut, faults, up,
                    accepting, claimInFlight, paused, foreground, enabled, current, pendingLaunch,
                    applied, switches>>
    BY DEF Worker, WorkerReports, store, flags
  <1>7. /\ UNCHANGED dataQ => UNCHANGED Queued
        /\ UNCHANGED mainQ => UNCHANGED Posted
    BY DEF Queued, Posted
  <1>8. /\ \A x \in Queued : OpTyped(x) /\ x \in OpRecs
        /\ \A y \in Posted : EventTyped(y) /\ y \in EventRecs
    BY AllTyped
  <1>9. Typed'
    BY <1>1, <1>2, <1>3, <1>4, <1>5, <1>6, <1>7, <1>8, NothingIsEmpty, NothingIsTyped
       DEF IInv, Typed, EventPosted, Event, Outcomes
  <1>10. Down'
    BY <1>1, <1>2, <1>3, <1>4, <1>5, <1>6, <1>7, <1>8, NothingIsEmpty, SMT
       DEF IInv, Down, EventPosted, Event, Outcomes
  <1>11. Modes'
    BY <1>1, <1>2, <1>3, <1>4, <1>5, <1>6, <1>7, <1>8, NothingIsEmpty, SMT
       DEF IInv, Modes, ChatCancelsGeneration, EventPosted, Event, Outcomes
  <1>12. Counted'
    BY <1>1, <1>2, <1>3, <1>4, <1>5, <1>6, <1>7, <1>8, NothingIsEmpty,
       DeepJobsAssumption, SMT
       DEF IInv, Counted, Holds, FailedAfterAttempts, Preparations, EventPosted,
           Event, Outcomes
  <1>13. OneJob => Alone'
    BY <1>1, <1>2, <1>3, <1>4, <1>5, <1>6, <1>7, <1>8, NothingIsEmpty, JobsAssumption,
       SMT
       DEF IInv, OneInv, Alone, Handles, Carries, Holds, Finals, Preparations,
           KeptAnswers, EventPosted, Event, Outcomes
  <1>14. OneJob => Kept'
    BY <1>1, <1>2, <1>3, <1>4, <1>5, <1>6, <1>7, <1>8, NothingIsEmpty, JobsAssumption,
       SMT
       DEF IInv, OneInv, Kept, Handles, Carries, Holds, Finals, Preparations,
           KeptAnswers, EventPosted, Event, Outcomes
  <1>15. OneJob => Rows'
    BY <1>1, <1>2, <1>3, <1>4, <1>5, <1>6, <1>7, <1>8, NothingIsEmpty, JobsAssumption,
       SMT
       DEF IInv, OneInv, Rows, Running, Handles, Carries, Holds, Finals, Preparations,
           KeptAnswers, EventPosted, Event, Outcomes
  <1>16. OneJob => Latest'
    BY <1>1, <1>2, <1>3, <1>4, <1>5, <1>6, <1>7, <1>8, NothingIsEmpty, JobsAssumption,
       SMT
       DEF IInv, OneInv, Latest, Handles, Carries, Holds, Finals, Preparations,
           KeptAnswers, EventPosted, Event, Outcomes
  <1>17. OneJob => Written'
    BY <1>1, <1>2, <1>3, <1>4, <1>5, <1>6, <1>7, <1>8, NothingIsEmpty, JobsAssumption,
       SMT
       DEF IInv, OneInv, Written, Executing, Job, EventPosted, Event, Outcomes
  <1>18. OneJob => Held'
    BY <1>1, <1>2, <1>3, <1>4, <1>5, <1>6, <1>7, <1>8, NothingIsEmpty, JobsAssumption,
       SMT
       DEF IInv, OneInv, Held, InHands, Handles, Carries, Holds, Finals, Preparations,
           KeptAnswers, Running, EventPosted, Event, Outcomes
  <1> QED  BY <1>9, <1>10, <1>11, <1>12, <1>13, <1>14, <1>15, <1>16, <1>17, <1>18
              DEF IInv, OneInv, OneJob

\* The thread of the generation ends.
LEMMA ThreadStopsStep ==
  ASSUME IInv, Worker, ThreadStops
  PROVE  IInv'
  <1>1. up /\ gen.thread = "ending" /\ gen \in Gens /\ gen.id # 0
    BY NothingIsEmpty DEF ThreadStops, IInv, Typed, Modes, Down
  <1>2. Event("finished", gen.job, [id |-> gen.id]) \in EventRecs
    BY <1>1 DEF Event, EventRecs, Gens
  <1>3. EventPosted(Event("finished", gen.job, [id |-> gen.id]))
    BY <1>2, PostsEvent DEF ThreadStops
  <1>4. /\ gen' \in Gens /\ gen'.id = gen.id /\ gen'.job = gen.job /\ gen'.attempt = gen.attempt
        /\ gen'.thread = "stopped" /\ gen'.cancelled = gen.cancelled /\ gen'.terminal = gen.terminal
    BY <1>1 DEF ThreadStops, Gens
  <1>5. UNCHANGED <<status, attempts, due, dataQ, opStep, dataUp, runnerPaused, runnerShut, faults, up,
                    accepting, claimInFlight, paused, foreground, enabled, current, pendingLaunch,
                    applied, switches>>
    BY DEF Worker, ThreadStops, store, flags
  <1>6. /\ UNCHANGED dataQ => UNCHANGED Queued
        /\ UNCHANGED mainQ => UNCHANGED Posted
    BY DEF Queued, Posted
  <1>7. /\ \A x \in Queued : OpTyped(x) /\ x \in OpRecs
        /\ \A y \in Posted : EventTyped(y) /\ y \in EventRecs
    BY AllTyped
  <1>8. Typed'
    BY <1>1, <1>2, <1>3, <1>4, <1>5, <1>6, <1>7, NothingIsEmpty, NothingIsTyped
       DEF IInv, Typed, EventPosted, Event, Outcomes
  <1>9. Down'
    BY <1>1, <1>2, <1>3, <1>4, <1>5, <1>6, <1>7, NothingIsEmpty, SMT
       DEF IInv, Down, EventPosted, Event, Outcomes
  <1>10. Modes'
    BY <1>1, <1>2, <1>3, <1>4, <1>5, <1>6, <1>7, NothingIsEmpty, SMT
       DEF IInv, Modes, ChatCancelsGeneration, EventPosted, Event, Outcomes
  <1>11. Counted'
    BY <1>1, <1>2, <1>3, <1>4, <1>5, <1>6, <1>7, NothingIsEmpty, DeepJobsAssumption,
       SMT
       DEF IInv, Counted, Holds, FailedAfterAttempts, Preparations, EventPosted,
           Event, Outcomes
  <1>12. OneJob => Alone'
    BY <1>1, <1>2, <1>3, <1>4, <1>5, <1>6, <1>7, NothingIsEmpty, JobsAssumption, SMT
       DEF IInv, OneInv, Alone, Handles, Carries, Holds, Finals, Preparations,
           KeptAnswers, EventPosted, Event, Outcomes
  <1>13. OneJob => Kept'
    BY <1>1, <1>2, <1>3, <1>4, <1>5, <1>6, <1>7, NothingIsEmpty, JobsAssumption, SMT
       DEF IInv, OneInv, Kept, Handles, Carries, Holds, Finals, Preparations,
           KeptAnswers, EventPosted, Event, Outcomes
  <1>14. OneJob => Rows'
    BY <1>1, <1>2, <1>3, <1>4, <1>5, <1>6, <1>7, NothingIsEmpty, JobsAssumption, SMT
       DEF IInv, OneInv, Rows, Running, Handles, Carries, Holds, Finals, Preparations,
           KeptAnswers, EventPosted, Event, Outcomes
  <1>15. OneJob => Latest'
    BY <1>1, <1>2, <1>3, <1>4, <1>5, <1>6, <1>7, NothingIsEmpty, JobsAssumption, SMT
       DEF IInv, OneInv, Latest, Handles, Carries, Holds, Finals, Preparations,
           KeptAnswers, EventPosted, Event, Outcomes
  <1>16. OneJob => Written'
    BY <1>1, <1>2, <1>3, <1>4, <1>5, <1>6, <1>7, NothingIsEmpty, JobsAssumption, SMT
       DEF IInv, OneInv, Written, Executing, Job, EventPosted, Event, Outcomes
  <1>17. OneJob => Held'
    BY <1>1, <1>2, <1>3, <1>4, <1>5, <1>6, <1>7, NothingIsEmpty, JobsAssumption, SMT
       DEF IInv, OneInv, Held, InHands, Handles, Carries, Holds, Finals, Preparations,
           KeptAnswers, Running, EventPosted, Event, Outcomes
  <1> QED  BY <1>8, <1>9, <1>10, <1>11, <1>12, <1>13, <1>14, <1>15, <1>16, <1>17
              DEF IInv, OneInv, OneJob

\* An event is taken that changes nothing but the claim.
LEMMA IgnoresStep ==
  ASSUME IInv, EventTaken, SlotFrame, up, OneJob => ~Carries(Head(mainQ)),
         claimInFlight' \in BOOLEAN, UNCHANGED <<current, pendingLaunch>>, gen' = gen \/ Ended,
         UNCHANGED dataQ \/ Polled
  PROVE  IInv'
  <1>1. gen' \in Gens
    BY DEF IInv, Typed, Ended
  <1>2. /\ UNCHANGED dataQ => UNCHANGED Queued
        /\ UNCHANGED mainQ => UNCHANGED Posted
    BY DEF Queued, Posted
  <1>3. /\ \A x \in Queued : OpTyped(x) /\ x \in OpRecs
        /\ \A y \in Posted : EventTyped(y) /\ y \in EventRecs
    BY AllTyped
  <1>4. Typed'
    BY <1>1, <1>2, <1>3, NothingIsEmpty, NothingIsTyped
       DEF IInv, Typed, EventTaken, SlotFrame, Ended, Polled, OpSubmitted, Op
  <1>5. Down'
    BY <1>1, <1>2, <1>3, NothingIsEmpty, SMT
       DEF IInv, Down, EventTaken, SlotFrame, Ended, Polled, OpSubmitted, Op
  <1>6. Modes'
    BY <1>1, <1>2, <1>3, NothingIsEmpty, SMT
       DEF IInv, Modes, ChatCancelsGeneration, EventTaken, SlotFrame, Ended, Polled,
           OpSubmitted, Op
  <1>7. Counted'
    BY <1>1, <1>2, <1>3, NothingIsEmpty, DeepJobsAssumption, SMT
       DEF IInv, Counted, Holds, FailedAfterAttempts, Preparations, EventTaken,
           SlotFrame, Ended, Polled, OpSubmitted, Op
  <1>8. OneJob => Alone'
    BY <1>1, <1>2, <1>3, NothingIsEmpty, JobsAssumption, SMT
       DEF IInv, OneInv, Alone, Handles, Carries, Holds, Finals, Preparations,
           KeptAnswers, EventTaken, SlotFrame, Ended, Polled, OpSubmitted, Op
  <1>9. OneJob => Kept'
    BY <1>1, <1>2, <1>3, NothingIsEmpty, JobsAssumption, SMT
       DEF IInv, OneInv, Kept, Handles, Carries, Holds, Finals, Preparations,
           KeptAnswers, EventTaken, SlotFrame, Ended, Polled, OpSubmitted, Op
  <1>10. OneJob => Rows'
    BY <1>1, <1>2, <1>3, NothingIsEmpty, JobsAssumption, SMT
       DEF IInv, OneInv, Rows, Running, Handles, Carries, Holds, Finals, Preparations,
           KeptAnswers, EventTaken, SlotFrame, Ended, Polled, OpSubmitted, Op
  <1>11. OneJob => Latest'
    BY <1>1, <1>2, <1>3, NothingIsEmpty, JobsAssumption, SMT
       DEF IInv, OneInv, Latest, Handles, Carries, Holds, Finals, Preparations,
           KeptAnswers, EventTaken, SlotFrame, Ended, Polled, OpSubmitted, Op
  <1>12. OneJob => Written'
    BY <1>1, <1>2, <1>3, NothingIsEmpty, JobsAssumption, SMT
       DEF IInv, OneInv, Written, Executing, Job, EventTaken, SlotFrame, Ended,
           Polled, OpSubmitted, Op
  <1>13. OneJob => Held'
    BY <1>1, <1>2, <1>3, NothingIsEmpty, JobsAssumption, SMT
       DEF IInv, OneInv, Held, InHands, Handles, Carries, Holds, Finals, Preparations,
           KeptAnswers, Running, EventTaken, SlotFrame, Ended, Polled, OpSubmitted, Op
  <1> QED  BY <1>4, <1>5, <1>6, <1>7, <1>8, <1>9, <1>10, <1>11, <1>12, <1>13
              DEF IInv, OneInv, OneJob

\* The claimed row is prepared, or put off.
LEMMA OnClaimedStep ==
  ASSUME IInv, OnClaimed
  PROVE  IInv'
  <1>1. EventTaken /\ SlotFrame /\ up /\ Head(mainQ).ev = "claimed" /\ Holds(Head(mainQ))
    BY HandlingIs DEF OnClaimed, EventJob, Holds
  <1>2. Head(mainQ).job \in Jobs /\ Head(mainQ).arg.attempt \in Nat /\ Head(mainQ).arg \in [attempt : Nat]
    BY <1>1 DEF EventTaken, EventTyped
  <1>3. /\ Op("retry", EventJob, Later(EventArg.attempt)) \in OpRecs
        /\ Op("prepare", EventJob, EventArg) \in OpRecs
    BY <1>2 DEF Op, Later, OpRecs, Delays, EventJob, EventArg
  <1>4. \/ dataQ' = Submitted(Op("retry", EventJob, Later(EventArg.attempt)))
        \/ dataQ' = Submitted(Op("prepare", EventJob, EventArg))
    BY DEF OnClaimed
  <1>5. PICK o \in OpRecs : /\ dataQ' = Submitted(o) /\ o.job = Head(mainQ).job
                             /\ (o.op = "retry" \/ (o.op = "prepare" /\ o.arg = Head(mainQ).arg))
    BY <1>3, <1>4 DEF Op, EventJob, EventArg
  <1>6. (dataUp /\ OpSubmitted(o)) \/ (~dataUp /\ UNCHANGED dataQ)
    BY <1>5, OffersOp
  <1>7. claimInFlight' = FALSE /\ UNCHANGED <<gen, current, pendingLaunch>>
    BY DEF OnClaimed
  <1>8. /\ UNCHANGED dataQ => UNCHANGED Queued
        /\ UNCHANGED mainQ => UNCHANGED Posted
    BY DEF Queued, Posted
  <1>9. /\ \A x \in Queued : OpTyped(x) /\ x \in OpRecs
        /\ \A y \in Posted : EventTyped(y) /\ y \in EventRecs
    BY AllTyped
  <1>10. Typed'
    BY <1>1, <1>2, <1>3, <1>4, <1>5, <1>6, <1>7, <1>8, <1>9, NothingIsEmpty,
       NothingIsTyped
       DEF IInv, Typed, EventTaken, SlotFrame, OpSubmitted
  <1>11. Down'
    BY <1>1, <1>2, <1>3, <1>4, <1>5, <1>6, <1>7, <1>8, <1>9, NothingIsEmpty, SMT
       DEF IInv, Down, EventTaken, SlotFrame, OpSubmitted
  <1>12. Modes'
    BY <1>1, <1>2, <1>3, <1>4, <1>5, <1>6, <1>7, <1>8, <1>9, NothingIsEmpty, SMT
       DEF IInv, Modes, ChatCancelsGeneration, EventTaken, SlotFrame, OpSubmitted
  <1>13. Counted'
    BY <1>1, <1>2, <1>3, <1>4, <1>5, <1>6, <1>7, <1>8, <1>9, NothingIsEmpty,
       DeepJobsAssumption, SMT
       DEF IInv, Counted, Holds, FailedAfterAttempts, Preparations, EventTaken,
           SlotFrame, OpSubmitted
  <1>14. OneJob => Alone'
    BY <1>1, <1>2, <1>3, <1>4, <1>5, <1>6, <1>7, <1>8, <1>9, NothingIsEmpty,
       JobsAssumption, SMT
       DEF IInv, OneInv, Alone, Handles, Carries, Holds, Finals, Preparations,
           KeptAnswers, EventTaken, SlotFrame, OpSubmitted
  <1>15. OneJob => Kept'
    BY <1>1, <1>2, <1>3, <1>4, <1>5, <1>6, <1>7, <1>8, <1>9, NothingIsEmpty,
       JobsAssumption, SMT
       DEF IInv, OneInv, Kept, Handles, Carries, Holds, Finals, Preparations,
           KeptAnswers, EventTaken, SlotFrame, OpSubmitted
  <1>16. OneJob => Rows'
    BY <1>1, <1>2, <1>3, <1>4, <1>5, <1>6, <1>7, <1>8, <1>9, NothingIsEmpty,
       JobsAssumption, SMT
       DEF IInv, OneInv, Rows, Running, Handles, Carries, Holds, Finals, Preparations,
           KeptAnswers, EventTaken, SlotFrame, OpSubmitted
  <1>17. OneJob => Latest'
    BY <1>1, <1>2, <1>3, <1>4, <1>5, <1>6, <1>7, <1>8, <1>9, NothingIsEmpty,
       JobsAssumption, SMT
       DEF IInv, OneInv, Latest, Handles, Carries, Holds, Finals, Preparations,
           KeptAnswers, EventTaken, SlotFrame, OpSubmitted
  <1>18. OneJob => Written'
    BY <1>1, <1>2, <1>3, <1>4, <1>5, <1>6, <1>7, <1>8, <1>9, NothingIsEmpty,
       JobsAssumption, SMT
       DEF IInv, OneInv, Written, Executing, Job, EventTaken, SlotFrame, OpSubmitted
  <1>19. OneJob => Held'
    BY <1>1, <1>2, <1>3, <1>4, <1>5, <1>6, <1>7, <1>8, <1>9, NothingIsEmpty,
       JobsAssumption, SMTT(60)
       DEF IInv, OneInv, Held, InHands, Handles, Carries, Holds, Finals, Preparations,
           KeptAnswers, Running, EventTaken, SlotFrame, OpSubmitted, OpTyped,
           EventTyped, Typed, Modes, Alone, Kept, Rows, Latest
  <1> QED  BY <1>10, <1>11, <1>12, <1>13, <1>14, <1>15, <1>16, <1>17, <1>18, <1>19
              DEF IInv, OneInv, OneJob

\* The job is handed back: the coordinator may not run it any more.
LEMMA PreparedLateStep ==
  ASSUME IInv, Holds(Head(mainQ)), EventTaken, SlotFrame, up, UNCHANGED <<gen, claimInFlight>>,
         current' \in {NoExec, current}, pendingLaunch' \in {NoRequest, pendingLaunch}, NEW o,
         o.op \in {"retry", "fail"}, o.job = Head(mainQ).job,
         o.op = "fail" => attempts[o.job] >= MaxJobAttempts,
         (dataUp /\ OpSubmitted(o)) \/ (~dataUp /\ UNCHANGED dataQ)
  PROVE  IInv'
  <1>1. /\ UNCHANGED dataQ => UNCHANGED Queued
        /\ UNCHANGED mainQ => UNCHANGED Posted
    BY DEF Queued, Posted
  <1>2. /\ \A x \in Queued : OpTyped(x) /\ x \in OpRecs
        /\ \A y \in Posted : EventTyped(y) /\ y \in EventRecs
    BY AllTyped
  <1>3. Typed'
    BY <1>1, <1>2, NothingIsEmpty, NothingIsTyped
       DEF IInv, Typed, EventTaken, SlotFrame, OpSubmitted
  <1>4. Down'
    BY <1>1, <1>2, NothingIsEmpty, SMT
       DEF IInv, Down, EventTaken, SlotFrame, OpSubmitted
  <1>5. Modes'
    BY <1>1, <1>2, NothingIsEmpty, SMT
       DEF IInv, Modes, ChatCancelsGeneration, EventTaken, SlotFrame, OpSubmitted
  <1>6. Counted'
    BY <1>1, <1>2, NothingIsEmpty, DeepJobsAssumption, SMT
       DEF IInv, Counted, Holds, FailedAfterAttempts, Preparations, EventTaken,
           SlotFrame, OpSubmitted
  <1>7. OneJob => Alone'
    BY <1>1, <1>2, NothingIsEmpty, JobsAssumption, SMT
       DEF IInv, OneInv, Alone, Handles, Carries, Holds, Finals, Preparations,
           KeptAnswers, EventTaken, SlotFrame, OpSubmitted
  <1>8. OneJob => Kept'
    BY <1>1, <1>2, NothingIsEmpty, JobsAssumption, SMT
       DEF IInv, OneInv, Kept, Handles, Carries, Holds, Finals, Preparations,
           KeptAnswers, EventTaken, SlotFrame, OpSubmitted
  <1>9. OneJob => Rows'
    BY <1>1, <1>2, NothingIsEmpty, JobsAssumption, SMT
       DEF IInv, OneInv, Rows, Running, Handles, Carries, Holds, Finals, Preparations,
           KeptAnswers, EventTaken, SlotFrame, OpSubmitted
  <1>10. OneJob => Latest'
    BY <1>1, <1>2, NothingIsEmpty, JobsAssumption, SMT
       DEF IInv, OneInv, Latest, Handles, Carries, Holds, Finals, Preparations,
           KeptAnswers, EventTaken, SlotFrame, OpSubmitted
  <1>11. OneJob => Written'
    BY <1>1, <1>2, NothingIsEmpty, JobsAssumption, SMT
       DEF IInv, OneInv, Written, Executing, Job, EventTaken, SlotFrame, OpSubmitted
  <1>12. OneJob => Held'
    BY <1>1, <1>2, NothingIsEmpty, JobsAssumption, SMTT(60)
       DEF IInv, OneInv, Held, InHands, Handles, Carries, Holds, Finals, Preparations,
           KeptAnswers, Running, EventTaken, SlotFrame, OpSubmitted, OpTyped,
           EventTyped, Typed, Modes, Alone, Kept, Rows, Latest
  <1> QED  BY <1>3, <1>4, <1>5, <1>6, <1>7, <1>8, <1>9, <1>10, <1>11, <1>12
              DEF IInv, OneInv, OneJob

\* There is nothing to do: the row is completed.
LEMMA CompletesStep ==
  ASSUME IInv, Holds(Head(mainQ)), EventTaken, SlotFrame, up, UNCHANGED <<gen, claimInFlight>>,
         NEW request \in Requests, request.job = Head(mainQ).job,
         request.attempt = Head(mainQ).arg.attempt, Finalized("complete", request)
  PROVE  IInv'
  <1>1. Head(mainQ).job \in Jobs /\ Head(mainQ).arg.attempt \in Nat
    BY DEF EventTaken, EventTyped
  <1>2. /\ UNCHANGED dataQ => UNCHANGED Queued
        /\ UNCHANGED mainQ => UNCHANGED Posted
    BY DEF Queued, Posted
  <1>3. /\ \A x \in Queued : OpTyped(x) /\ x \in OpRecs
        /\ \A y \in Posted : EventTyped(y) /\ y \in EventRecs
    BY AllTyped
  <1>4. Typed'
    BY <1>1, <1>2, <1>3, NothingIsEmpty, NothingIsTyped
       DEF IInv, Typed, EventTaken, SlotFrame, OpSubmitted, Finalized, Op
  <1>5. Down'
    BY <1>1, <1>2, <1>3, NothingIsEmpty, SMT
       DEF IInv, Down, EventTaken, SlotFrame, OpSubmitted, Finalized, Op
  <1>6. Modes'
    BY <1>1, <1>2, <1>3, NothingIsEmpty, SMT
       DEF IInv, Modes, ChatCancelsGeneration, EventTaken, SlotFrame, OpSubmitted,
           Finalized, Op
  <1>7. Counted'
    BY <1>1, <1>2, <1>3, NothingIsEmpty, DeepJobsAssumption, SMT
       DEF IInv, Counted, Holds, FailedAfterAttempts, Preparations, EventTaken,
           SlotFrame, OpSubmitted, Finalized, Op
  <1>8. OneJob => Alone'
    BY <1>1, <1>2, <1>3, NothingIsEmpty, JobsAssumption, SMT
       DEF IInv, OneInv, Alone, Handles, Carries, Holds, Finals, Preparations,
           KeptAnswers, EventTaken, SlotFrame, OpSubmitted, Finalized, Op
  <1>9. OneJob => Kept'
    BY <1>1, <1>2, <1>3, NothingIsEmpty, JobsAssumption, SMT
       DEF IInv, OneInv, OneJob, Kept, Handles, Carries, Holds, Finals, Preparations,
           KeptAnswers, EventTaken, SlotFrame, OpSubmitted, Finalized, Op, OpTyped,
           EventTyped, Typed, Modes, Alone, Rows, Latest
  <1>10. OneJob => Rows'
    BY <1>1, <1>2, <1>3, NothingIsEmpty, JobsAssumption, SMT
       DEF IInv, OneInv, Rows, Running, Handles, Carries, Holds, Finals, Preparations,
           KeptAnswers, EventTaken, SlotFrame, OpSubmitted, Finalized, Op
  <1>11. OneJob => Latest'
    BY <1>1, <1>2, <1>3, NothingIsEmpty, JobsAssumption, SMT
       DEF IInv, OneInv, Latest, Handles, Carries, Holds, Finals, Preparations,
           KeptAnswers, EventTaken, SlotFrame, OpSubmitted, Finalized, Op
  <1>12. OneJob => Written'
    BY <1>1, <1>2, <1>3, NothingIsEmpty, JobsAssumption, SMT
       DEF IInv, OneInv, Written, Executing, Job, EventTaken, SlotFrame, OpSubmitted,
           Finalized, Op
  <1>13. OneJob => Held'
    BY <1>1, <1>2, <1>3, NothingIsEmpty, JobsAssumption, SMTT(60)
       DEF IInv, OneInv, Held, InHands, Handles, Carries, Holds, Finals, Preparations,
           KeptAnswers, Running, EventTaken, SlotFrame, OpSubmitted, Finalized, Op,
           OpTyped, EventTyped, Typed, Modes, Alone, Kept, Rows, Latest
  <1> QED  BY <1>4, <1>5, <1>6, <1>7, <1>8, <1>9, <1>10, <1>11, <1>12, <1>13
              DEF IInv, OneInv, OneJob

\* The execution is launched, at once or when the runner is idle.
LEMMA LaunchesStep ==
  ASSUME IInv, Holds(Head(mainQ)), EventTaken, SlotFrame, up, UNCHANGED <<claimInFlight, dataQ>>,
         NEW request \in Requests, request.job = Head(mainQ).job, request.attempt = Head(mainQ).arg.attempt,
         current' \in Execs, current'.request = request, ~current'.finishing,
         \/ ~runnerPaused /\ Started(request.job, request.attempt) /\ pendingLaunch' = NoRequest
         \/ gen' = gen /\ pendingLaunch' = request
  PROVE  IInv'
  <1>1. Head(mainQ).job \in Jobs /\ Head(mainQ).arg.attempt \in Nat
    BY DEF EventTaken, EventTyped
  <1>2. current' # NoExec /\ gen' \in Gens
    BY <1>1, NothingIsEmpty DEF Started, IInv, Typed
  <1>3. /\ UNCHANGED dataQ => UNCHANGED Queued
        /\ UNCHANGED mainQ => UNCHANGED Posted
    BY DEF Queued, Posted
  <1>4. /\ \A x \in Queued : OpTyped(x) /\ x \in OpRecs
        /\ \A y \in Posted : EventTyped(y) /\ y \in EventRecs
    BY AllTyped
  <1>5. Typed'
    BY <1>1, <1>2, <1>3, <1>4, NothingIsEmpty, NothingIsTyped
       DEF IInv, Typed, EventTaken, SlotFrame, Started
  <1>6. Down'
    BY <1>1, <1>2, <1>3, <1>4, NothingIsEmpty, SMT
       DEF IInv, Down, EventTaken, SlotFrame, Started
  <1>7. Modes'
    BY <1>1, <1>2, <1>3, <1>4, NothingIsEmpty, SMT
       DEF IInv, Modes, ChatCancelsGeneration, EventTaken, SlotFrame, Started
  <1>8. Counted'
    BY <1>1, <1>2, <1>3, <1>4, NothingIsEmpty, DeepJobsAssumption, SMT
       DEF IInv, Counted, Holds, FailedAfterAttempts, Preparations, EventTaken,
           SlotFrame, Started
  <1>9. OneJob => Alone'
    BY <1>1, <1>2, <1>3, <1>4, NothingIsEmpty, JobsAssumption, SMT
       DEF IInv, OneInv, Alone, Handles, Carries, Holds, Finals, Preparations,
           KeptAnswers, EventTaken, SlotFrame, Started
  <1>10. OneJob => Kept'
    BY <1>1, <1>2, <1>3, <1>4, NothingIsEmpty, JobsAssumption, SMT
       DEF IInv, OneInv, Kept, Handles, Carries, Holds, Finals, Preparations,
           KeptAnswers, EventTaken, SlotFrame, Started, OpTyped, EventTyped, Typed,
           Modes, Alone
  <1>11. OneJob => Rows'
    BY <1>1, <1>2, <1>3, <1>4, NothingIsEmpty, JobsAssumption, SMT
       DEF IInv, OneInv, Rows, Running, Handles, Carries, Holds, Finals, Preparations,
           KeptAnswers, EventTaken, SlotFrame, Started
  <1>12. OneJob => Latest'
    BY <1>1, <1>2, <1>3, <1>4, NothingIsEmpty, JobsAssumption, SMT
       DEF IInv, OneInv, Latest, Handles, Carries, Holds, Finals, Preparations,
           KeptAnswers, EventTaken, SlotFrame, Started, OpTyped, EventTyped, Typed,
           Modes, Alone, Kept
  <1>13. OneJob => Written'
    BY <1>1, <1>2, <1>3, <1>4, NothingIsEmpty, JobsAssumption, SMT
       DEF IInv, OneInv, Written, Executing, Job, EventTaken, SlotFrame, Started
  <1>14. OneJob => Held'
    BY <1>1, <1>2, <1>3, <1>4, NothingIsEmpty, JobsAssumption, SMTT(60)
       DEF IInv, OneInv, Held, InHands, Handles, Carries, Holds, Finals, Preparations,
           KeptAnswers, Running, EventTaken, SlotFrame, Started, OpTyped, EventTyped,
           Typed, Modes, Alone, Kept, Rows, Latest
  <1> QED  BY <1>5, <1>6, <1>7, <1>8, <1>9, <1>10, <1>11, <1>12, <1>13, <1>14
              DEF IInv, OneInv, OneJob

\* The preparation is answered.
LEMMA OnPreparedStep ==
  ASSUME IInv, OnPrepared
  PROVE  IInv'
  <1> DEFINE request == Request(EventJob, EventArg.attempt, "synthesis")
             execution == [request |-> request, finishing |-> FALSE]
  <1>1. EventTaken /\ SlotFrame /\ up /\ Holds(Head(mainQ)) /\ UNCHANGED claimInFlight
    BY HandlingIs DEF OnPrepared, Holds, Preparations
  <1>2. EventJob \in Jobs /\ EventArg.attempt \in Nat
        /\ EventJob = Head(mainQ).job /\ EventArg = Head(mainQ).arg
    BY <1>1 DEF EventTaken, EventTyped, EventJob, EventArg
  <1>3. /\ request \in Requests /\ request.job = EventJob /\ request.attempt = EventArg.attempt
        /\ request.phase = "synthesis"
        /\ execution \in Execs /\ execution.request = request /\ ~execution.finishing
    BY <1>2 DEF Request, Requests, Phases, Execs
  <1>4. \/ /\ dataQ' = Submitted(Op("retry", EventJob, Now(EventArg.attempt)))
           /\ Release
           /\ UNCHANGED gen
        \/ Finalize("complete", execution) /\ UNCHANGED gen
        \/ current' = execution /\ Launch(request) /\ UNCHANGED dataQ
    BY DEF OnPrepared
  <1> HIDE DEF request, execution
  <1>5. CASE /\ dataQ' = Submitted(Op("retry", EventJob, Now(EventArg.attempt)))
             /\ Release
             /\ UNCHANGED gen
    <2>1. Op("retry", EventJob, Now(EventArg.attempt)) \in OpRecs
      BY <1>2 DEF Op, Now, OpRecs, Delays
    <2> DEFINE o == Op("retry", EventJob, Now(EventArg.attempt))
    <2>2. o.op = "retry" /\ o.job = Head(mainQ).job
      BY <1>2 DEF Op
    <2>3. (dataUp /\ OpSubmitted(o)) \/ (~dataUp /\ UNCHANGED dataQ)
      BY <1>5, <2>1, OffersOp
    <2> HIDE DEF o
    <2> QED  BY <1>1, <1>5, <2>2, <2>3, PreparedLateStep DEF Release
  <1>6. CASE Finalize("complete", execution) /\ UNCHANGED gen
    <2>1. Finalized("complete", request)
      BY <1>2, <1>3, <1>6, FinalizeIs
    <2> QED  BY <1>1, <1>2, <1>3, <1>6, <2>1, CompletesStep
  <1>7. CASE current' = execution /\ Launch(request) /\ UNCHANGED dataQ
    <2>1. \/ ~runnerPaused /\ Started(request.job, request.attempt) /\ pendingLaunch' = NoRequest
          \/ gen' = gen /\ pendingLaunch' = request
      <3>1. CASE CanStart
        BY <1>2, <1>3, <1>7, <3>1, StartIs DEF Launch, CanStart, Phases
      <3> QED  BY <1>7, <3>1 DEF Launch
    <2> QED  BY <1>1, <1>2, <1>3, <1>7, <2>1, LaunchesStep
  <1> QED  BY <1>4, <1>5, <1>6, <1>7

\* The preparation failed: the job is retried, or failed after its last attempt.
LEMMA OnPrepareFailedStep ==
  ASSUME IInv, OnPrepareFailed
  PROVE  IInv'
  <1>1. EventTaken /\ SlotFrame /\ up /\ Holds(Head(mainQ))
    BY HandlingIs DEF OnPrepareFailed, Holds, Preparations
  <1>2. Head(mainQ).job \in Jobs /\ Head(mainQ).arg.attempt \in Nat
        /\ Head(mainQ).arg.attempt <= attempts[Head(mainQ).job]
    BY <1>1 DEF EventTaken, EventTyped, IInv, Counted
  <1>3. \E o : /\ o.op \in {"retry", "fail"} /\ o.job = Head(mainQ).job
               /\ o.op = "fail" => attempts[o.job] >= MaxJobAttempts
               /\ (dataUp /\ OpSubmitted(o)) \/ (~dataUp /\ UNCHANGED dataQ)
    BY <1>2, FailOpIs DEF OnPrepareFailed, EventJob, EventArg
  <1> QED  BY <1>1, <1>3, PreparedLateStep DEF OnPrepareFailed

\* Nothing was claimed, or the claim failed.
LEMMA OnNothingClaimedStep ==
  ASSUME IInv, OnNothingClaimed
  PROVE  IInv'
  <1>1. EventTaken /\ SlotFrame /\ up /\ ~Carries(Head(mainQ))
    BY HandlingIs DEF OnNothingClaimed, Carries, Holds, Preparations, KeptAnswers, EventJob
  <1> QED  BY <1>1, IgnoresStep DEF OnNothingClaimed

\* A retry or a failure of the job is recorded, or was refused.
LEMMA OnReleasedStep ==
  ASSUME IInv, OnReleased
  PROVE  IInv'
  <1>1. EventTaken /\ SlotFrame /\ up /\ ~Carries(Head(mainQ))
    BY HandlingIs DEF OnReleased, Carries, Holds, Preparations, KeptAnswers
  <1>2. claimInFlight' \in BOOLEAN /\ (UNCHANGED dataQ \/ Polled)
    <2>1. claimInFlight \in BOOLEAN
      BY DEF IInv, Typed
    <2> QED  BY <2>1, PollAfterIs DEF OnReleased
  <1> QED  BY <1>1, <1>2, IgnoresStep DEF OnReleased

\* The outcome of another generation, or a second one, changes nothing here.
LEMMA OnLateOutcomeStep ==
  ASSUME IInv, OnLateOutcome
  PROVE  IInv'
  <1>1. EventTaken /\ SlotFrame /\ up /\ Head(mainQ).ev \in Outcomes
    BY HandlingIs DEF OnLateOutcome, GenerationEnds
  <1>2. ~Carries(Head(mainQ))
    BY <1>1 DEF Carries, Holds, Preparations, KeptAnswers, Outcomes
  <1>3. gen' = gen \/ Ended
    BY GenerationEndsIs DEF OnLateOutcome
  <1>4. claimInFlight' \in BOOLEAN
    BY DEF OnLateOutcome, GenerationEnds, IInv, Typed
  <1> QED  BY <1>1, <1>2, <1>3, <1>4, IgnoresStep DEF OnLateOutcome

\* An event ends the execution, which is handed over.
LEMMA HandsOverStep ==
  ASSUME IInv, EventTaken, SlotFrame, up, claimInFlight' = claimInFlight, NEW o, Handed(o),
         OneJob => \/ Running /\ ~Carries(Head(mainQ))
                   \/ Head(mainQ).ev \in {"failed:persist", "failed:complete"},
         gen' = gen \/ Ended \/ gen' = NoGen
  PROVE  IInv'
  <1>1. gen' \in Gens
    BY NothingIsTyped DEF IInv, Typed, Ended
  <1>2. OneJob /\ Running => /\ \A d \in Queued : ~Handles(d)
                             /\ \A e \in Posted : ~Carries(e)
    BY WhileRunning
  <1>3. OneJob => /\ \A d \in Queued : ~Handles(d)
                  /\ \A e \in Posted' : ~Carries(e)
                  /\ status[o.job] = "running"
    BY <1>1, <1>2, SMT
       DEF IInv, OneInv, OneJob, Alone, Rows, Running, Handed, EventTaken, EventTyped,
           Carries, KeptAnswers
  <1>4. /\ UNCHANGED dataQ => UNCHANGED Queued
        /\ UNCHANGED mainQ => UNCHANGED Posted
    BY DEF Queued, Posted
  <1>5. /\ \A x \in Queued : OpTyped(x) /\ x \in OpRecs
        /\ \A y \in Posted : EventTyped(y) /\ y \in EventRecs
    BY AllTyped
  <1>6. Typed'
    BY <1>1, <1>2, <1>3, <1>4, <1>5, NothingIsEmpty, NothingIsTyped
       DEF IInv, Typed, EventTaken, SlotFrame, Handed, OpSubmitted, Ended
  <1>7. Down'
    BY <1>1, <1>2, <1>3, <1>4, <1>5, NothingIsEmpty, SMT
       DEF IInv, Down, EventTaken, SlotFrame, Handed, OpSubmitted, Ended
  <1>8. Modes'
    BY <1>1, <1>2, <1>3, <1>4, <1>5, NothingIsEmpty, SMT
       DEF IInv, Modes, ChatCancelsGeneration, EventTaken, SlotFrame, Handed,
           OpSubmitted, Ended
  <1>9. Counted'
    BY <1>1, <1>2, <1>3, <1>4, <1>5, NothingIsEmpty, DeepJobsAssumption, SMT
       DEF IInv, Counted, Holds, FailedAfterAttempts, Preparations, EventTaken,
           SlotFrame, Handed, OpSubmitted, Ended
  <1>10. OneJob => Alone'
    BY <1>1, <1>2, <1>3, <1>4, <1>5, NothingIsEmpty, JobsAssumption, SMT
       DEF IInv, OneInv, Alone, Handles, Carries, Holds, Finals, Preparations,
           KeptAnswers, EventTaken, SlotFrame, Handed, OpSubmitted, Ended
  <1>11. OneJob => Kept'
    BY <1>1, <1>2, <1>3, <1>4, <1>5, NothingIsEmpty, JobsAssumption, SMT
       DEF IInv, OneInv, Kept, Handles, Carries, Holds, Finals, Preparations,
           KeptAnswers, EventTaken, SlotFrame, Handed, OpSubmitted, Ended
  <1>12. OneJob => Rows'
    BY <1>1, <1>2, <1>3, <1>4, <1>5, NothingIsEmpty, JobsAssumption, SMT
       DEF IInv, OneInv, Rows, Running, Handles, Carries, Holds, Finals, Preparations,
           KeptAnswers, EventTaken, SlotFrame, Handed, OpSubmitted, Ended
  <1>13. OneJob => Latest'
    BY <1>1, <1>2, <1>3, <1>4, <1>5, NothingIsEmpty, JobsAssumption, SMT
       DEF IInv, OneInv, Latest, Handles, Carries, Holds, Finals, Preparations,
           KeptAnswers, EventTaken, SlotFrame, Handed, OpSubmitted, Ended
  <1>14. OneJob => Written'
    BY <1>1, <1>2, <1>3, <1>4, <1>5, NothingIsEmpty, JobsAssumption, SMT
       DEF IInv, OneInv, Written, Executing, Job, EventTaken, SlotFrame, Handed,
           OpSubmitted, Ended
  <1>15. OneJob => Held'
    BY <1>1, <1>2, <1>3, <1>4, <1>5, NothingIsEmpty, JobsAssumption, SMT
       DEF IInv, OneInv, Held, InHands, Handles, Carries, Holds, Finals, Preparations,
           KeptAnswers, Running, EventTaken, SlotFrame, Handed, OpSubmitted, Ended,
           OpTyped, EventTyped, Typed, Modes
  <1> QED  BY <1>6, <1>7, <1>8, <1>9, <1>10, <1>11, <1>12, <1>13, <1>14, <1>15
              DEF IInv, OneInv, OneJob

\* An event leaves the queue of the data thread; the request to start may be dropped.
LEMMA SettlesStep ==
  ASSUME IInv, EventTaken, SlotFrame, up, UNCHANGED <<claimInFlight, current>>,
         ~Carries(Head(mainQ)), UNCHANGED dataQ, gen' = gen \/ Ended \/ gen' = NoGen,
         pendingLaunch' \in {pendingLaunch, NoRequest}
  PROVE  IInv'
  <1>1. gen' \in Gens
    BY NothingIsTyped DEF IInv, Typed, Ended
  <1>2. /\ UNCHANGED dataQ => UNCHANGED Queued
        /\ UNCHANGED mainQ => UNCHANGED Posted
    BY DEF Queued, Posted
  <1>3. /\ \A x \in Queued : OpTyped(x) /\ x \in OpRecs
        /\ \A y \in Posted : EventTyped(y) /\ y \in EventRecs
    BY AllTyped
  <1>4. Typed'
    BY <1>1, <1>2, <1>3, NothingIsEmpty, NothingIsTyped
       DEF IInv, Typed, EventTaken, SlotFrame, Ended
  <1>5. Down'
    BY <1>1, <1>2, <1>3, NothingIsEmpty, SMT
       DEF IInv, Down, EventTaken, SlotFrame, Ended
  <1>6. Modes'
    BY <1>1, <1>2, <1>3, NothingIsEmpty, SMT
       DEF IInv, Modes, ChatCancelsGeneration, EventTaken, SlotFrame, Ended
  <1>7. Counted'
    BY <1>1, <1>2, <1>3, NothingIsEmpty, DeepJobsAssumption, SMT
       DEF IInv, Counted, Holds, FailedAfterAttempts, Preparations, EventTaken,
           SlotFrame, Ended
  <1>8. OneJob => Alone'
    BY <1>1, <1>2, <1>3, NothingIsEmpty, JobsAssumption, SMT
       DEF IInv, OneInv, Alone, Handles, Carries, Holds, Finals, Preparations,
           KeptAnswers, EventTaken, SlotFrame, Ended
  <1>9. OneJob => Kept'
    BY <1>1, <1>2, <1>3, NothingIsEmpty, JobsAssumption, SMT
       DEF IInv, OneInv, Kept, Handles, Carries, Holds, Finals, Preparations,
           KeptAnswers, EventTaken, SlotFrame, Ended
  <1>10. OneJob => Rows'
    BY <1>1, <1>2, <1>3, NothingIsEmpty, JobsAssumption, SMT
       DEF IInv, OneInv, Rows, Running, Handles, Carries, Holds, Finals, Preparations,
           KeptAnswers, EventTaken, SlotFrame, Ended
  <1>11. OneJob => Latest'
    BY <1>1, <1>2, <1>3, NothingIsEmpty, JobsAssumption, SMT
       DEF IInv, OneInv, Latest, Handles, Carries, Holds, Finals, Preparations,
           KeptAnswers, EventTaken, SlotFrame, Ended
  <1>12. OneJob => Written'
    BY <1>1, <1>2, <1>3, NothingIsEmpty, JobsAssumption, SMT
       DEF IInv, OneInv, Written, Executing, Job, EventTaken, SlotFrame, Ended
  <1>13. OneJob => Held'
    BY <1>1, <1>2, <1>3, NothingIsEmpty, JobsAssumption, SMT
       DEF IInv, OneInv, Held, InHands, Handles, Carries, Holds, Finals, Preparations,
           KeptAnswers, Running, EventTaken, SlotFrame, Ended
  <1> QED  BY <1>4, <1>5, <1>6, <1>7, <1>8, <1>9, <1>10, <1>11, <1>12, <1>13
              DEF IInv, OneInv, OneJob

\* The result of the execution is written next.
LEMMA PersistsStep ==
  ASSUME IInv, EventTaken, SlotFrame, up, UNCHANGED <<claimInFlight, pendingLaunch>>,
         ~Carries(Head(mainQ)), Running, Ended, NEW o, OpSubmitted(o), o.op = "persist",
         o.job = current.request.job, current' \in Execs, current'.request = current.request,
         current'.finishing, current' # NoExec
  PROVE  IInv'
  <1>1. OneJob => /\ \A d \in Queued : ~Handles(d)
                  /\ \A e \in Posted : ~Carries(e)
    BY WhileRunning
  <1>2. current # NoExec /\ current.request.job \in Jobs
    BY DEF Running, IInv, Modes
  <1>3. /\ UNCHANGED dataQ => UNCHANGED Queued
        /\ UNCHANGED mainQ => UNCHANGED Posted
    BY DEF Queued, Posted
  <1>4. /\ \A x \in Queued : OpTyped(x) /\ x \in OpRecs
        /\ \A y \in Posted : EventTyped(y) /\ y \in EventRecs
    BY AllTyped
  <1>5. Typed'
    BY <1>1, <1>2, <1>3, <1>4, NothingIsEmpty, NothingIsTyped
       DEF IInv, Typed, EventTaken, SlotFrame, Ended, OpSubmitted
  <1>6. Down'
    BY <1>1, <1>2, <1>3, <1>4, NothingIsEmpty, SMT
       DEF IInv, Down, EventTaken, SlotFrame, Ended, OpSubmitted
  <1>7. Modes'
    BY <1>1, <1>2, <1>3, <1>4, NothingIsEmpty, SMT
       DEF IInv, Modes, ChatCancelsGeneration, EventTaken, SlotFrame, Ended,
           OpSubmitted
  <1>8. Counted'
    BY <1>1, <1>2, <1>3, <1>4, NothingIsEmpty, DeepJobsAssumption, SMT
       DEF IInv, Counted, Holds, FailedAfterAttempts, Preparations, EventTaken,
           SlotFrame, Ended, OpSubmitted
  <1>9. OneJob => Alone'
    BY <1>1, <1>2, <1>3, <1>4, NothingIsEmpty, JobsAssumption, SMT
       DEF IInv, OneInv, Alone, Handles, Carries, Holds, Finals, Preparations,
           KeptAnswers, EventTaken, SlotFrame, Ended, OpSubmitted
  <1>10. OneJob => Kept'
    BY <1>1, <1>2, <1>3, <1>4, NothingIsEmpty, JobsAssumption, SMT
       DEF IInv, OneInv, Kept, Handles, Carries, Holds, Finals, Preparations,
           KeptAnswers, EventTaken, SlotFrame, Ended, OpSubmitted
  <1>11. OneJob => Rows'
    BY <1>1, <1>2, <1>3, <1>4, NothingIsEmpty, JobsAssumption, SMT
       DEF IInv, OneInv, Rows, Running, Handles, Carries, Holds, Finals, Preparations,
           KeptAnswers, EventTaken, SlotFrame, Ended, OpSubmitted
  <1>12. OneJob => Latest'
    BY <1>1, <1>2, <1>3, <1>4, NothingIsEmpty, JobsAssumption, SMT
       DEF IInv, OneInv, Latest, Handles, Carries, Holds, Finals, Preparations,
           KeptAnswers, EventTaken, SlotFrame, Ended, OpSubmitted
  <1>13. OneJob => Written'
    BY <1>1, <1>2, <1>3, <1>4, NothingIsEmpty, JobsAssumption, SMT
       DEF IInv, OneInv, Written, Executing, Job, EventTaken, SlotFrame, Ended,
           OpSubmitted
  <1>14. OneJob => Held'
    BY <1>1, <1>2, <1>3, <1>4, NothingIsEmpty, JobsAssumption, SMT
       DEF IInv, OneInv, Held, InHands, Handles, Carries, Holds, Finals, Preparations,
           KeptAnswers, Running, EventTaken, SlotFrame, Ended, OpSubmitted
  <1> QED  BY <1>5, <1>6, <1>7, <1>8, <1>9, <1>10, <1>11, <1>12, <1>13, <1>14
              DEF IInv, OneInv, OneJob

\* The data thread has ended, and the execution is let go of.
LEMMA DropsStep ==
  ASSUME IInv, EventTaken, SlotFrame, up, UNCHANGED <<claimInFlight, dataQ>>,
         ~Carries(Head(mainQ)), Running, Ended, ~dataUp, current' = NoExec,
         pendingLaunch' = NoRequest
  PROVE  IInv'
  <1>1. OneJob => /\ \A d \in Queued : ~Handles(d)
                  /\ \A e \in Posted : ~Carries(e)
    BY WhileRunning
  <1>2. /\ UNCHANGED dataQ => UNCHANGED Queued
        /\ UNCHANGED mainQ => UNCHANGED Posted
    BY DEF Queued, Posted
  <1>3. /\ \A x \in Queued : OpTyped(x) /\ x \in OpRecs
        /\ \A y \in Posted : EventTyped(y) /\ y \in EventRecs
    BY AllTyped
  <1>4. Typed'
    BY <1>1, <1>2, <1>3, NothingIsEmpty, NothingIsTyped
       DEF IInv, Typed, EventTaken, SlotFrame, Ended
  <1>5. Down'
    BY <1>1, <1>2, <1>3, NothingIsEmpty, SMT
       DEF IInv, Down, EventTaken, SlotFrame, Ended
  <1>6. Modes'
    BY <1>1, <1>2, <1>3, NothingIsEmpty, SMT
       DEF IInv, Modes, ChatCancelsGeneration, EventTaken, SlotFrame, Ended
  <1>7. Counted'
    BY <1>1, <1>2, <1>3, NothingIsEmpty, DeepJobsAssumption, SMT
       DEF IInv, Counted, Holds, FailedAfterAttempts, Preparations, EventTaken,
           SlotFrame, Ended
  <1>8. OneJob => Alone'
    BY <1>1, <1>2, <1>3, NothingIsEmpty, JobsAssumption, SMT
       DEF IInv, OneInv, Alone, Handles, Carries, Holds, Finals, Preparations,
           KeptAnswers, EventTaken, SlotFrame, Ended
  <1>9. OneJob => Kept'
    BY <1>1, <1>2, <1>3, NothingIsEmpty, JobsAssumption, SMT
       DEF IInv, OneInv, Kept, Handles, Carries, Holds, Finals, Preparations,
           KeptAnswers, EventTaken, SlotFrame, Ended
  <1>10. OneJob => Rows'
    BY <1>1, <1>2, <1>3, NothingIsEmpty, JobsAssumption, SMT
       DEF IInv, OneInv, Rows, Running, Handles, Carries, Holds, Finals, Preparations,
           KeptAnswers, EventTaken, SlotFrame, Ended
  <1>11. OneJob => Latest'
    BY <1>1, <1>2, <1>3, NothingIsEmpty, JobsAssumption, SMT
       DEF IInv, OneInv, Latest, Handles, Carries, Holds, Finals, Preparations,
           KeptAnswers, EventTaken, SlotFrame, Ended
  <1>12. OneJob => Written'
    BY <1>1, <1>2, <1>3, NothingIsEmpty, JobsAssumption, SMT
       DEF IInv, OneInv, Written, Executing, Job, EventTaken, SlotFrame, Ended
  <1>13. OneJob => Held'
    BY <1>1, <1>2, <1>3, NothingIsEmpty, JobsAssumption, SMT
       DEF IInv, OneInv, Held, InHands, Handles, Carries, Holds, Finals, Preparations,
           KeptAnswers, Running, EventTaken, SlotFrame, Ended, OpTyped, EventTyped,
           Typed, Modes
  <1> QED  BY <1>4, <1>5, <1>6, <1>7, <1>8, <1>9, <1>10, <1>11, <1>12, <1>13
              DEF IInv, OneInv, OneJob

\* The repair of the execution waits for the runner.
LEMMA RepairsStep ==
  ASSUME IInv, EventTaken, SlotFrame, up, UNCHANGED <<claimInFlight, dataQ>>,
         ~Carries(Head(mainQ)), Ended, current # NoExec, OneJob => Running, current' \in Execs,
         current' # NoExec, current'.request.job = current.request.job,
         current'.request.attempt = current.request.attempt,
         current'.finishing = current.finishing, pendingLaunch' \in Requests,
         pendingLaunch'.job = current.request.job,
         pendingLaunch'.attempt = current.request.attempt
  PROVE  IInv'
  <1>1. OneJob => /\ \A d \in Queued : ~Handles(d)
                  /\ \A e \in Posted : ~Carries(e)
    BY WhileRunning
  <1>2. /\ UNCHANGED dataQ => UNCHANGED Queued
        /\ UNCHANGED mainQ => UNCHANGED Posted
    BY DEF Queued, Posted
  <1>3. /\ \A x \in Queued : OpTyped(x) /\ x \in OpRecs
        /\ \A y \in Posted : EventTyped(y) /\ y \in EventRecs
    BY AllTyped
  <1>4. Typed'
    BY <1>1, <1>2, <1>3, NothingIsEmpty, NothingIsTyped
       DEF IInv, Typed, EventTaken, SlotFrame, Ended, Running
  <1>5. Down'
    BY <1>1, <1>2, <1>3, NothingIsEmpty, SMT
       DEF IInv, Down, EventTaken, SlotFrame, Ended, Running
  <1>6. Modes'
    BY <1>1, <1>2, <1>3, NothingIsEmpty, SMT
       DEF IInv, Modes, ChatCancelsGeneration, EventTaken, SlotFrame, Ended, Running
  <1>7. Counted'
    BY <1>1, <1>2, <1>3, NothingIsEmpty, DeepJobsAssumption, SMT
       DEF IInv, Counted, Holds, FailedAfterAttempts, Preparations, EventTaken,
           SlotFrame, Ended, Running
  <1>8. OneJob => Alone'
    BY <1>1, <1>2, <1>3, NothingIsEmpty, JobsAssumption, SMT
       DEF IInv, OneInv, Alone, Handles, Carries, Holds, Finals, Preparations,
           KeptAnswers, EventTaken, SlotFrame, Ended, Running
  <1>9. OneJob => Kept'
    BY <1>1, <1>2, <1>3, NothingIsEmpty, JobsAssumption, SMT
       DEF IInv, OneInv, Kept, Handles, Carries, Holds, Finals, Preparations,
           KeptAnswers, EventTaken, SlotFrame, Ended, Running
  <1>10. OneJob => Rows'
    BY <1>1, <1>2, <1>3, NothingIsEmpty, JobsAssumption, SMT
       DEF IInv, OneInv, Rows, Running, Handles, Carries, Holds, Finals, Preparations,
           KeptAnswers, EventTaken, SlotFrame, Ended
  <1>11. OneJob => Latest'
    BY <1>1, <1>2, <1>3, NothingIsEmpty, JobsAssumption, SMT
       DEF IInv, OneInv, Latest, Handles, Carries, Holds, Finals, Preparations,
           KeptAnswers, EventTaken, SlotFrame, Ended, Running, OpTyped, EventTyped,
           Typed, Modes
  <1>12. OneJob => Written'
    BY <1>1, <1>2, <1>3, NothingIsEmpty, JobsAssumption, SMT
       DEF IInv, OneInv, Written, Executing, Job, EventTaken, SlotFrame, Ended,
           Running
  <1>13. OneJob => Held'
    BY <1>1, <1>2, <1>3, NothingIsEmpty, JobsAssumption, SMT
       DEF IInv, OneInv, Held, InHands, Handles, Carries, Holds, Finals, Preparations,
           KeptAnswers, Running, EventTaken, SlotFrame, Ended
  <1> QED  BY <1>4, <1>5, <1>6, <1>7, <1>8, <1>9, <1>10, <1>11, <1>12, <1>13
              DEF IInv, OneInv, OneJob

\* The request that waited is started.
LEMMA RestartsStep ==
  ASSUME IInv, EventTaken, SlotFrame, up, UNCHANGED <<claimInFlight, dataQ, current>>,
         ~Carries(Head(mainQ)), Running, ~runnerPaused, pendingLaunch' = NoRequest,
         Started(pendingLaunch.job, pendingLaunch.attempt)
  PROVE  IInv'
  <1>1. OneJob => /\ \A d \in Queued : ~Handles(d)
                  /\ \A e \in Posted : ~Carries(e)
    BY WhileRunning
  <1>2. /\ UNCHANGED dataQ => UNCHANGED Queued
        /\ UNCHANGED mainQ => UNCHANGED Posted
    BY DEF Queued, Posted
  <1>3. /\ \A x \in Queued : OpTyped(x) /\ x \in OpRecs
        /\ \A y \in Posted : EventTyped(y) /\ y \in EventRecs
    BY AllTyped
  <1>4. Typed'
    BY <1>1, <1>2, <1>3, NothingIsEmpty, NothingIsTyped
       DEF IInv, Typed, EventTaken, SlotFrame, Started, Running
  <1>5. Down'
    BY <1>1, <1>2, <1>3, NothingIsEmpty, SMT
       DEF IInv, Down, EventTaken, SlotFrame, Started, Running
  <1>6. Modes'
    BY <1>1, <1>2, <1>3, NothingIsEmpty, SMT
       DEF IInv, Modes, ChatCancelsGeneration, EventTaken, SlotFrame, Started, Running
  <1>7. Counted'
    BY <1>1, <1>2, <1>3, NothingIsEmpty, DeepJobsAssumption, SMT
       DEF IInv, Counted, Holds, FailedAfterAttempts, Preparations, EventTaken,
           SlotFrame, Started, Running
  <1>8. OneJob => Alone'
    BY <1>1, <1>2, <1>3, NothingIsEmpty, JobsAssumption, SMT
       DEF IInv, OneInv, Alone, Handles, Carries, Holds, Finals, Preparations,
           KeptAnswers, EventTaken, SlotFrame, Started, Running
  <1>9. OneJob => Kept'
    BY <1>1, <1>2, <1>3, NothingIsEmpty, JobsAssumption, SMT
       DEF IInv, OneInv, Kept, Handles, Carries, Holds, Finals, Preparations,
           KeptAnswers, EventTaken, SlotFrame, Started, Running
  <1>10. OneJob => Rows'
    BY <1>1, <1>2, <1>3, NothingIsEmpty, JobsAssumption, SMT
       DEF IInv, OneInv, Rows, Running, Handles, Carries, Holds, Finals, Preparations,
           KeptAnswers, EventTaken, SlotFrame, Started
  <1>11. OneJob => Latest'
    BY <1>1, <1>2, <1>3, NothingIsEmpty, JobsAssumption, SMT
       DEF IInv, OneInv, Latest, Handles, Carries, Holds, Finals, Preparations,
           KeptAnswers, EventTaken, SlotFrame, Started, Running
  <1>12. OneJob => Written'
    BY <1>1, <1>2, <1>3, NothingIsEmpty, JobsAssumption, SMT
       DEF IInv, OneInv, Written, Executing, Job, EventTaken, SlotFrame, Started,
           Running
  <1>13. OneJob => Held'
    BY <1>1, <1>2, <1>3, NothingIsEmpty, JobsAssumption, SMT
       DEF IInv, OneInv, Held, InHands, Handles, Carries, Holds, Finals, Preparations,
           KeptAnswers, Running, EventTaken, SlotFrame, Started
  <1> QED  BY <1>4, <1>5, <1>6, <1>7, <1>8, <1>9, <1>10, <1>11, <1>12, <1>13
              DEF IInv, OneInv, OneJob

\* The runner is idle, and the coordinator may claim.
LEMMA IdlePollsStep ==
  ASSUME IInv, EventTaken, SlotFrame, up, UNCHANGED current, ~Carries(Head(mainQ)), gen' = NoGen,
         pendingLaunch' = NoRequest, claimInFlight' \in BOOLEAN, Polled
  PROVE  IInv'
  <1>1. /\ UNCHANGED dataQ => UNCHANGED Queued
        /\ UNCHANGED mainQ => UNCHANGED Posted
    BY DEF Queued, Posted
  <1>2. /\ \A x \in Queued : OpTyped(x) /\ x \in OpRecs
        /\ \A y \in Posted : EventTyped(y) /\ y \in EventRecs
    BY AllTyped
  <1>3. Typed'
    BY <1>1, <1>2, NothingIsEmpty, NothingIsTyped
       DEF IInv, Typed, EventTaken, SlotFrame, Polled, OpSubmitted, Op
  <1>4. Down'
    BY <1>1, <1>2, NothingIsEmpty, SMT
       DEF IInv, Down, EventTaken, SlotFrame, Polled, OpSubmitted, Op
  <1>5. Modes'
    BY <1>1, <1>2, NothingIsEmpty, SMT
       DEF IInv, Modes, ChatCancelsGeneration, EventTaken, SlotFrame, Polled,
           OpSubmitted, Op
  <1>6. Counted'
    BY <1>1, <1>2, NothingIsEmpty, DeepJobsAssumption, SMT
       DEF IInv, Counted, Holds, FailedAfterAttempts, Preparations, EventTaken,
           SlotFrame, Polled, OpSubmitted, Op
  <1>7. OneJob => Alone'
    BY <1>1, <1>2, NothingIsEmpty, JobsAssumption, SMT
       DEF IInv, OneInv, Alone, Handles, Carries, Holds, Finals, Preparations,
           KeptAnswers, EventTaken, SlotFrame, Polled, OpSubmitted, Op
  <1>8. OneJob => Kept'
    BY <1>1, <1>2, NothingIsEmpty, JobsAssumption, SMT
       DEF IInv, OneInv, Kept, Handles, Carries, Holds, Finals, Preparations,
           KeptAnswers, EventTaken, SlotFrame, Polled, OpSubmitted, Op
  <1>9. OneJob => Rows'
    BY <1>1, <1>2, NothingIsEmpty, JobsAssumption, SMT
       DEF IInv, OneInv, Rows, Running, Handles, Carries, Holds, Finals, Preparations,
           KeptAnswers, EventTaken, SlotFrame, Polled, OpSubmitted, Op
  <1>10. OneJob => Latest'
    BY <1>1, <1>2, NothingIsEmpty, JobsAssumption, SMT
       DEF IInv, OneInv, Latest, Handles, Carries, Holds, Finals, Preparations,
           KeptAnswers, EventTaken, SlotFrame, Polled, OpSubmitted, Op
  <1>11. OneJob => Written'
    BY <1>1, <1>2, NothingIsEmpty, JobsAssumption, SMT
       DEF IInv, OneInv, Written, Executing, Job, EventTaken, SlotFrame, Polled,
           OpSubmitted, Op
  <1>12. OneJob => Held'
    BY <1>1, <1>2, NothingIsEmpty, JobsAssumption, SMT
       DEF IInv, OneInv, Held, InHands, Handles, Carries, Holds, Finals, Preparations,
           KeptAnswers, Running, EventTaken, SlotFrame, Polled, OpSubmitted, Op
  <1> QED  BY <1>3, <1>4, <1>5, <1>6, <1>7, <1>8, <1>9, <1>10, <1>11, <1>12
              DEF IInv, OneInv, OneJob

\* The row is completed and the execution released.
LEMMA FinishesStep ==
  ASSUME IInv, EventTaken, SlotFrame, up,
         Head(mainQ).ev \in {"marked:persist", "marked:complete"}, UNCHANGED gen,
         current' = NoExec, pendingLaunch' = NoRequest, claimInFlight' \in BOOLEAN, Polled
  PROVE  IInv'
  <1>1. /\ UNCHANGED dataQ => UNCHANGED Queued
        /\ UNCHANGED mainQ => UNCHANGED Posted
    BY DEF Queued, Posted
  <1>2. /\ \A x \in Queued : OpTyped(x) /\ x \in OpRecs
        /\ \A y \in Posted : EventTyped(y) /\ y \in EventRecs
    BY AllTyped
  <1>3. Typed'
    BY <1>1, <1>2, NothingIsEmpty, NothingIsTyped
       DEF IInv, Typed, EventTaken, SlotFrame, Polled, OpSubmitted, Op
  <1>4. Down'
    BY <1>1, <1>2, NothingIsEmpty, SMT
       DEF IInv, Down, EventTaken, SlotFrame, Polled, OpSubmitted, Op
  <1>5. Modes'
    BY <1>1, <1>2, NothingIsEmpty, SMT
       DEF IInv, Modes, ChatCancelsGeneration, EventTaken, SlotFrame, Polled,
           OpSubmitted, Op
  <1>6. Counted'
    BY <1>1, <1>2, NothingIsEmpty, DeepJobsAssumption, SMT
       DEF IInv, Counted, Holds, FailedAfterAttempts, Preparations, EventTaken,
           SlotFrame, Polled, OpSubmitted, Op
  <1>7. OneJob => Alone'
    BY <1>1, <1>2, NothingIsEmpty, JobsAssumption, SMT
       DEF IInv, OneInv, Alone, Handles, Carries, Holds, Finals, Preparations,
           KeptAnswers, EventTaken, SlotFrame, Polled, OpSubmitted, Op
  <1>8. OneJob => Kept'
    BY <1>1, <1>2, NothingIsEmpty, JobsAssumption, SMT
       DEF IInv, OneInv, Kept, Handles, Carries, Holds, Finals, Preparations,
           KeptAnswers, EventTaken, SlotFrame, Polled, OpSubmitted, Op, OpTyped,
           EventTyped, Typed, Modes, Alone, Rows, Latest
  <1>9. OneJob => Rows'
    BY <1>1, <1>2, NothingIsEmpty, JobsAssumption, SMT
       DEF IInv, OneInv, Rows, Running, Handles, Carries, Holds, Finals, Preparations,
           KeptAnswers, EventTaken, SlotFrame, Polled, OpSubmitted, Op
  <1>10. OneJob => Latest'
    BY <1>1, <1>2, NothingIsEmpty, JobsAssumption, SMT
       DEF IInv, OneInv, Latest, Handles, Carries, Holds, Finals, Preparations,
           KeptAnswers, EventTaken, SlotFrame, Polled, OpSubmitted, Op
  <1>11. OneJob => Written'
    BY <1>1, <1>2, NothingIsEmpty, JobsAssumption, SMT
       DEF IInv, OneInv, Written, Executing, Job, EventTaken, SlotFrame, Polled,
           OpSubmitted, Op
  <1>12. OneJob => Held'
    BY <1>1, <1>2, NothingIsEmpty, JobsAssumption, SMT
       DEF IInv, OneInv, OneJob, Held, InHands, Handles, Carries, Holds, Finals,
           Preparations, KeptAnswers, Running, EventTaken, SlotFrame, Polled,
           OpSubmitted, Op, OpTyped, EventTyped, Typed, Modes, Alone, Kept, Rows,
           Latest
  <1> QED  BY <1>3, <1>4, <1>5, <1>6, <1>7, <1>8, <1>9, <1>10, <1>11, <1>12
              DEF IInv, OneInv, OneJob

\* The generation of the execution answers: its result is written, or repaired, or
\* there is no second repair.
LEMMA OnCompletedStep ==
  ASSUME IInv, OnCompleted
  PROVE  IInv'
  <1>1. /\ EventTaken /\ SlotFrame /\ up /\ Head(mainQ).ev = "completed"
        /\ ~gen.terminal /\ Ended /\ UNCHANGED claimInFlight
    BY GenerationEndsIs DEF OnCompleted, Outcomes
  <1>2. ~Carries(Head(mainQ))
    BY <1>1 DEF Carries, Holds, Preparations, KeptAnswers
  <1>3. OneJob => Running
    BY <1>1, OursIsRunning DEF OnCompleted
  <1>4. current # NoExec /\ current \in Execs /\ current.request \in Requests
        /\ current.request.job \in Jobs
    BY DEF OnCompleted, Ours, IInv, Typed, Modes, Execs
  <1>5. CASE ~current.finishing /\ Finalize("persist", current)
    <2>1. Finalized("persist", current.request) /\ Running
      BY <1>4, <1>5, FinalizeIs DEF Running
    <2>2. CASE dataUp
      <3> DEFINE p == Op("persist", current.request.job, NoArg)
      <3>1. p.op = "persist" /\ p.job = current.request.job
        BY DEF Op
      <3>2. /\ OpSubmitted(p) /\ current' \in Execs /\ current'.request = current.request
            /\ current'.finishing /\ current' # NoExec /\ pendingLaunch' = pendingLaunch
        BY <2>1, <2>2 DEF Finalized
      <3> HIDE DEF p
      <3> QED  BY <1>1, <1>2, <2>1, <3>1, <3>2, PersistsStep
    <2>3. CASE ~dataUp
      BY <1>1, <1>2, <2>1, <2>3, DropsStep DEF Finalized
    <2> QED  BY <2>2, <2>3
  <1>6. CASE /\ pendingLaunch' = [current.request EXCEPT !.phase = "repair"]
             /\ current' = [current EXCEPT !.request.phase = "repair"]
             /\ UNCHANGED dataQ
    <2>1. /\ pendingLaunch' \in Requests /\ pendingLaunch'.job = current.request.job
          /\ pendingLaunch'.attempt = current.request.attempt
      BY <1>4, <1>6 DEF Requests, Phases
    <2>2. current' = [request |-> pendingLaunch', finishing |-> current.finishing]
      BY <1>4, <1>6 DEF Execs
    <2>3. /\ current' \in Execs /\ current'.request.job = current.request.job
          /\ current'.request.attempt = current.request.attempt
          /\ current'.finishing = current.finishing
      BY <1>4, <2>1, <2>2 DEF Execs
    <2>4. current' # NoExec
      BY <1>4, <2>3, NothingIsEmpty
    <2> QED  BY <1>1, <1>2, <1>3, <1>4, <1>6, <2>1, <2>3, <2>4, RepairsStep
  <1>7. CASE FailCurrent
    <2>1. \E o : Handed(o)
      BY <1>4, <1>7, FailCurrentIs
    <2> QED  BY <1>1, <1>2, <1>3, <2>1, HandsOverStep
  <1> QED  BY <1>5, <1>6, <1>7 DEF OnCompleted

\* The generation of the execution failed or was cancelled.
LEMMA OnFailedStep ==
  ASSUME IInv, OnFailed
  PROVE  IInv'
  <1>1. /\ EventTaken /\ SlotFrame /\ up /\ Head(mainQ).ev \in {"failed", "cancelled"}
        /\ ~gen.terminal /\ Ended /\ UNCHANGED claimInFlight
    BY GenerationEndsIs DEF OnFailed, Outcomes
  <1>2. ~Carries(Head(mainQ))
    BY <1>1 DEF Carries, Holds, Preparations, KeptAnswers
  <1>3. (OneJob => Running) /\ current # NoExec
    BY <1>1, OursIsRunning DEF OnFailed, Ours
  <1>4. \E o : Handed(o)
    BY <1>3, FailCurrentIs DEF OnFailed
  <1> QED  BY <1>1, <1>2, <1>3, <1>4, HandsOverStep

\* The thread of the generation has ended.
LEMMA OnRunnerIdleStep ==
  ASSUME IInv, OnRunnerIdle
  PROVE  IInv'
  <1>1. EventTaken /\ SlotFrame /\ up /\ Head(mainQ).ev = "finished"
    BY HandlingIs DEF OnRunnerIdle
  <1>2. ~Carries(Head(mainQ))
    BY <1>1 DEF Carries, Holds, Preparations, KeptAnswers
  <1>3. CASE UNCHANGED <<gen, claimInFlight, dataQ, current, pendingLaunch>>
    BY <1>1, <1>2, <1>3, SettlesStep
  <1>4. CASE gen' = NoGen /\ pendingLaunch' = NoRequest /\ UNCHANGED current /\ PollAfter(claimInFlight)
    <2>1. claimInFlight \in BOOLEAN
      BY DEF IInv, Typed
    <2> QED  BY <1>1, <1>2, <1>4, <2>1, PollAfterIs, IdlePollsStep
  <1>5. CASE gen' = NoGen /\ UNCHANGED <<pendingLaunch, claimInFlight, dataQ, current>>
    BY <1>1, <1>2, <1>5, SettlesStep
  <1>6. CASE /\ Running /\ ~runnerPaused
             /\ StartGeneration(pendingLaunch.job, pendingLaunch.attempt, pendingLaunch.phase)
             /\ pendingLaunch' = NoRequest /\ UNCHANGED <<claimInFlight, dataQ, current>>
    <2>1. /\ pendingLaunch.job \in Jobs \cup {NoJob} /\ pendingLaunch.attempt \in Nat
          /\ pendingLaunch.phase \in Phases
      BY DEF IInv, Typed, Requests
    <2>2. Started(pendingLaunch.job, pendingLaunch.attempt)
      BY <1>6, <2>1, StartIs
    <2> QED  BY <1>1, <1>2, <1>6, <2>2, RestartsStep
  <1>7. CASE Running /\ gen' = NoGen /\ FailCurrent /\ UNCHANGED claimInFlight
    <2>1. \E o : Handed(o)
      BY <1>7, FailCurrentIs DEF Running
    <2> QED  BY <1>1, <1>2, <1>7, <2>1, HandsOverStep
  <1> QED  BY <1>3, <1>4, <1>5, <1>6, <1>7 DEF OnRunnerIdle

\* The finalization of the execution is answered.
LEMMA OnFinalizedStep ==
  ASSUME IInv, OnFinalized
  PROVE  IInv'
  <1>1. CASE /\ Handling("marked:persist") \/ Handling("marked:complete")
             /\ UNCHANGED gen /\ Release /\ PollAfter(claimInFlight)
    <2>1. EventTaken /\ SlotFrame /\ up /\ Head(mainQ).ev \in {"marked:persist", "marked:complete"}
      BY <1>1, HandlingIs
    <2>2. claimInFlight \in BOOLEAN
      BY DEF IInv, Typed
    <2> QED  BY <1>1, <2>1, <2>2, PollAfterIs, FinishesStep DEF Release
  <1>2. CASE /\ Handling("failed:persist") \/ Handling("failed:complete")
             /\ FailCurrent /\ UNCHANGED <<gen, claimInFlight>>
    <2>1. EventTaken /\ SlotFrame /\ up /\ Head(mainQ).ev \in {"failed:persist", "failed:complete"}
      BY <1>2, HandlingIs
    <2>2. CASE \E o : Handed(o)
      BY <1>2, <2>1, <2>2, HandsOverStep
    <2>3. CASE current = NoExec /\ UNCHANGED <<dataQ, current, pendingLaunch>>
      <3>1. Head(mainQ) \in Posted /\ Head(mainQ).ev \in KeptAnswers
        BY <2>1 DEF EventTaken, KeptAnswers
      <3>2. ~OneJob
        BY <2>3, <3>1 DEF IInv, OneInv, Kept
      <3>3. claimInFlight' \in BOOLEAN
        BY <1>2 DEF IInv, Typed
      <3> QED  BY <1>2, <2>1, <2>3, <3>2, <3>3, IgnoresStep
    <2> QED  BY <1>2, <2>2, <2>3, FailCurrentIs
  <1> QED  BY <1>1, <1>2 DEF OnFinalized

\* The timer polls.
LEMMA PollStep ==
  ASSUME IInv, Poll
  PROVE  IInv'
  <1>1. Polled
    BY ClaimIsTyped, SubmitsOp DEF Poll, Polled
  <1>2. up /\ UNCHANGED <<status, attempts, due, opStep, dataUp, mainQ, gen, runnerPaused, runnerShut,
                    faults, up, accepting, paused, foreground, enabled, current, pendingLaunch,
                    applied, switches>>
    BY DEF Poll, CanClaim, store, runner
  <1>3. /\ claimInFlight' = TRUE /\ switches' \in 0..MaxSwitches /\ paused' \in BOOLEAN
        /\ enabled' \in BOOLEAN /\ foreground' \in BOOLEAN /\ runnerPaused' \in BOOLEAN
    BY <1>2 DEF Poll, IInv, Typed
  <1> QED  BY <1>1, <1>2, <1>3, PollsStep

\* The execution that runs is retried, or the request to start is dropped.
LEMMA RetryThenIdleIs ==
  ASSUME IInv, RetryThenIdle
  PROVE  \/ \E o : Handed(o) /\ (OneJob => Running)
         \/ dataQ' = dataQ /\ current' = current /\ pendingLaunch' \in {pendingLaunch, NoRequest}
  BY RetryCurrentIs DEF RetryThenIdle

\* What an outside event leaves
LEMMA OutsideIs ==
  ASSUME IInv, Outside
  PROVE  /\ up /\ UNCHANGED <<status, attempts, due, opStep, dataUp, mainQ, faults, up, applied>>
         /\ switches' \in 0..MaxSwitches
         /\ claimInFlight \in BOOLEAN /\ accepting \in BOOLEAN /\ paused \in BOOLEAN
         /\ foreground \in BOOLEAN /\ enabled \in BOOLEAN
         /\ runnerPaused \in BOOLEAN /\ runnerShut \in BOOLEAN
  BY DeepJobsAssumption DEF Outside, store, IInv, Typed

\* The shutdown of the background tasks.
LEMMA ShutdownStep ==
  ASSUME IInv, Shutdown
  PROVE  IInv'
  <1>1. gen' = NoGen \/ CancelOnly
    BY CancelledIs DEF Shutdown
  <1> QED  BY <1>1, OutsideIs, RetryThenIdleIs, GivesUpStep DEF Shutdown

\* The pause of both coordinators.
LEMMA PauseStep ==
  ASSUME IInv, Pause
  PROVE  IInv'
  <1>1. gen' = NoGen \/ CancelOnly
    BY CancelledIs DEF Pause
  <1> QED  BY <1>1, OutsideIs, RetryThenIdleIs, GivesUpStep DEF Pause

\* Both coordinators are resumed after a provider switch.
LEMMA ResumeStep ==
  ASSUME IInv, Resume
  PROVE  IInv'
  <1>1. Polled
    BY DEF Resume, Polled
  <1>2. paused' = FALSE /\ runnerPaused' = FALSE
        /\ UNCHANGED <<accepting, claimInFlight, foreground, enabled, runnerShut, gen, current,
                       pendingLaunch>>
    BY DEF Resume
  <1> QED  BY <1>1, <1>2, OutsideIs, PollsStep DEF Resume

\* The runner is interrupted by the other coordinator.
LEMMA InterruptIs ==
  ASSUME IInv, NEW wait, Interrupt(wait)
  PROVE  /\ gen' = NoGen \/ CancelOnly
         /\ \/ \E o : Handed(o) /\ (OneJob => Running)
            \/ dataQ' = dataQ /\ current' = current /\ pendingLaunch' \in {pendingLaunch, NoRequest}
  <1>1. gen' = NoGen \/ CancelOnly
    BY CancelledIs DEF Interrupt
  <1>2. CASE FailCurrent /\ ((~gen.terminal /\ Ours) \/ Running)
    <2>1. OneJob => Running
      BY <1>2, OursIsRunning
    <2> QED  BY <1>1, <1>2, <2>1, FailCurrentIs
  <1> QED  BY <1>1, <1>2 DEF Interrupt

\* A visible chat begins or ends.
LEMMA SetForegroundActiveStep ==
  ASSUME IInv, NEW active \in BOOLEAN, SetForegroundActive(active)
  PROVE  IInv'
  <1>1. Outside /\ foreground' = active
        /\ UNCHANGED <<accepting, claimInFlight, paused, enabled, runnerShut>>
    BY DEF SetForegroundActive
  <1>2. CASE active
    <2>1. runnerPaused' = TRUE /\ Interrupt(FALSE)
      BY <1>2 DEF SetForegroundActive
    <2> QED  BY <1>1, <2>1, InterruptIs, OutsideIs, GivesUpStep
  <1>3. CASE ~active
    <2>1. /\ foreground' = FALSE /\ runnerPaused' \in BOOLEAN
          /\ UNCHANGED <<gen, dataQ, current, pendingLaunch>>
      BY <1>3, OutsideIs DEF SetForegroundActive
    <2>2. Polled
      BY <2>1 DEF Polled
    <2> QED  BY <1>1, <2>1, <2>2, OutsideIs, PollsStep
  <1> QED  BY <1>2, <1>3

\* A setting that enables the memory changes.
LEMMA SetEnabledStep ==
  ASSUME IInv, NEW value \in BOOLEAN, SetEnabled(value)
  PROVE  IInv'
  <1>1. Outside /\ enabled' = value
        /\ UNCHANGED <<accepting, paused, foreground, runnerPaused, runnerShut>>
    BY DEF SetEnabled
  <1>2. CASE UNCHANGED <<gen, current, pendingLaunch>> /\ PollAfter(claimInFlight)
    <2>1. Polled /\ claimInFlight' \in BOOLEAN
      BY <1>1, <1>2, OutsideIs, PollAfterIs
    <2> QED  BY <1>1, <1>2, <2>1, OutsideIs, PollsStep
  <1>3. CASE RetryCurrent /\ UNCHANGED <<gen, claimInFlight>>
    <2>1. \/ \E o : Handed(o) /\ (OneJob => Running)
          \/ dataQ' = dataQ /\ current' = current /\ pendingLaunch' \in {pendingLaunch, NoRequest}
      BY <1>3, RetryCurrentIs
    <2> QED  BY <1>1, <1>3, <2>1, OutsideIs, GivesUpStep
  <1>4. CASE Interrupt(FALSE) /\ UNCHANGED claimInFlight
    BY <1>1, <1>4, InterruptIs, OutsideIs, GivesUpStep
  <1> QED  BY <1>2, <1>3, <1>4 DEF SetEnabled

----------------------------------------
(* The theorems. *)

\* Nothing has happened yet.
LEMMA InitiallyIInv == Init => IInv
  <1> SUFFICES ASSUME Init
               PROVE  IInv
    OBVIOUS
  <1> USE DEF Init, WorldInit
  <1>1. Queued = {} /\ Posted = {} /\ Single(dataQ, Holders) /\ Single(mainQ, Carriers)
    BY EmptyQueue DEF Queued, Posted
  <1>2. Typed
    <2>1. /\ status \in [Jobs -> Statuses] /\ attempts \in [Jobs -> Nat]
          /\ due \in [Jobs -> BOOLEAN] /\ applied \in [Jobs -> Nat]
      BY DEF Statuses
    <2>2. dataQ \in Seq(OpRecs) /\ mainQ \in Seq(EventRecs)
      OBVIOUS
    <2>3. gen \in Gens /\ current \in Execs /\ pendingLaunch \in Requests
      BY NothingIsTyped
    <2>4. faults \in 0..MaxFaults /\ switches \in 0..MaxSwitches
      BY JobsAssumption, DeepJobsAssumption
    <2>5. /\ up \in BOOLEAN /\ dataUp \in BOOLEAN /\ accepting \in BOOLEAN
          /\ claimInFlight \in BOOLEAN /\ paused \in BOOLEAN /\ foreground \in BOOLEAN
          /\ enabled \in BOOLEAN /\ runnerPaused \in BOOLEAN /\ runnerShut \in BOOLEAN
      OBVIOUS
    <2> QED  BY <2>1, <2>2, <2>3, <2>4, <2>5 DEF Typed
  <1>3. Down /\ Modes
    BY DEF Down, Modes, ChatCancelsGeneration
  <1>4. Counted
    BY <1>1 DEF Counted, FailedAfterAttempts
  <1>5. Alone /\ Kept
    BY <1>1 DEF Alone, Kept
  <1>6. Rows /\ Latest
    BY <1>1, NothingIsEmpty DEF Rows, Latest, Running
  <1>7. Written /\ Held
    BY <1>1 DEF Written, Held
  <1> QED  BY <1>2, <1>3, <1>4, <1>5, <1>6, <1>7 DEF IInv, OneInv

\* Every step preserves the invariant.
LEMMA IInvStep == IInv /\ [Next]_vars => IInv'
  <1> SUFFICES ASSUME IInv, [Next]_vars
               PROVE  IInv'
    OBVIOUS
  <1>1. CASE MainThread
    BY <1>1, OnNothingClaimedStep, OnClaimedStep, OnPreparedStep, OnPrepareFailedStep,
       OnCompletedStep, OnFailedStep, OnLateOutcomeStep, OnRunnerIdleStep, OnFinalizedStep,
       OnReleasedStep DEF MainThread
  <1>2. CASE Poll
    BY <1>2, PollStep
  <1>3. CASE DataThread
    BY <1>3, DoClaimStep, DoPrepareStep, ApplyResultStep, DoMarkStep DEF DataThread
  <1>4. CASE Worker
    BY <1>4, WorkerReportsStep, ThreadStopsStep DEF Worker
  <1>5. CASE \E j \in Jobs : BecomesDue(j)
    BY <1>5, BecomesDueStep
  <1>6. CASE World
    <2>1. ASSUME Crash \/ Exit
          PROVE  IInv'
      <3>1. ProcessEnds /\ (faults' = faults + 1 \/ (faults' = faults /\ dataQ = <<>>))
        BY <2>1 DEF Crash, Exit
      <3>2. faults' \in 0..MaxFaults
        BY <2>1, JobsAssumption DEF Crash, Exit, IInv, Typed
      <3> QED  BY <3>1, <3>2, ProcessEndsStep
    <2> QED  BY <1>6, <2>1, StartStep, ShutdownStep, StopDataThreadStep,
                SetForegroundActiveStep, SetEnabledStep, PauseStep, ResumeStep, OtherStartsStep,
                EnqueueStep, DataFaultStep DEF World
  <1>7. CASE UNCHANGED vars
    BY <1>7, StutterStep
  <1> QED  BY <1>1, <1>2, <1>3, <1>4, <1>5, <1>6, <1>7 DEF Next

\* Every state of the deep-memory coordinator, whatever its jobs and the bounds are,
\* satisfies the inductive invariant.
THEOREM Invariance == Spec => []IInv
  BY InitiallyIInv, IInvStep, PTL DEF Spec

\* The table, the two queues, the runner and the flags of the coordinator keep their
\* types.
THEOREM TypeCorrect == Spec => []TypeOK
  <1>1. IInv => TypeOK
    BY TypedIsTypeOK
  <1> QED  BY <1>1, Invariance, PTL

\* Whatever the number of jobs, _fail_job fails a row only after its last attempt.
THEOREM FailsAfterAttempts == Spec => []FailedAfterAttempts
  <1>1. IInv => FailedAfterAttempts
    BY DEF IInv, Counted
  <1> QED  BY <1>1, Invariance, PTL

\* Whatever the number of jobs, a deep-memory generation that still runs during a
\* visible chat has been cancelled, as long as nobody resumed the runner.
THEOREM ChatCancels == Spec => []ChatCancelsGeneration
  <1>1. IInv => ChatCancelsGeneration
    BY DEF IInv, Modes
  <1> QED  BY <1>1, Invariance, PTL

\* With one job, at most one finalization is queued for a row, and the row runs.
LEMMA FinalizersAreAlone ==
  ASSUME IInv, OneJob
  PROVE  FinalizersOwnTheirRow
  <1>1. \A i \in DOMAIN dataQ : dataQ[i] \in Queued
    BY DEF Queued, Elements
  <1>2. \A i \in DOMAIN dataQ : dataQ[i].op \in Finals => dataQ[i] \in Holders
    BY <1>1, AllTyped DEF Holders, Handles
  <1>3. \A i, k \in DOMAIN dataQ : i < k => ~(dataQ[i] \in Holders /\ dataQ[k] \in Holders)
    BY DEF IInv, OneInv, Alone, Single, Paired
  <1>4. \A i, k \in DOMAIN dataQ : i \in Nat /\ k \in Nat /\ (i # k => i < k \/ k < i)
    BY DEF IInv, Typed
  <1>5. ASSUME NEW i \in DOMAIN dataQ, dataQ[i].op \in Finals
        PROVE  status[dataQ[i].job] = "running"
    BY <1>1, <1>5 DEF IInv, OneInv, Rows, Handles
  <1>6. ASSUME NEW i \in DOMAIN dataQ, dataQ[i].op \in Finals, NEW k \in DOMAIN dataQ, k # i,
               dataQ[k].op \in Finals
        PROVE  FALSE
    BY <1>2, <1>3, <1>4, <1>6
  <1> QED  BY <1>5, <1>6 DEF FinalizersOwnTheirRow

\* With one job, a running row of a session without faults is in work or finalized.
LEMMA NothingIsOrphaned ==
  ASSUME IInv, OneJob
  PROVE  NoJobIsOrphaned
  <1> SUFFICES ASSUME up, accepting, faults = 0, NEW j \in Jobs, status[j] = "running"
               PROVE  InWork(j) \/ QueuedFor(j, Finals)
    BY DEF NoJobIsOrphaned
  <1>1. InHands(j)
    BY DEF IInv, OneInv, Held
  <1>2. CASE \E e \in Posted : Holds(e) /\ e.job = j
    <2>1. PICK i \in DOMAIN mainQ : Holds(mainQ[i]) /\ mainQ[i].job = j
      BY <1>2 DEF Posted, Elements
    <2> QED  BY <2>1 DEF Holds, Preparations, InWork, PostedFor
  <1>3. CASE \E o \in Queued : Handles(o) /\ o.job = j
    <2>1. PICK i \in DOMAIN dataQ : Handles(dataQ[i]) /\ dataQ[i].job = j
      BY <1>3 DEF Queued, Elements
    <2> QED  BY <2>1 DEF Handles, InWork, QueuedFor
  <1> QED  BY <1>1, <1>2, <1>3 DEF InHands, InWork

\* A coordinator with one job: its row is finalized once, by somebody who has it, and
\* no running row is forgotten unless an operation failed or the application quits.
THEOREM JobsOwned ==
  ASSUME OneJob
  PROVE  Spec => []JobsAreOwned
  <1>1. IInv => JobsAreOwned
    BY FinalizersAreAlone, NothingIsOrphaned DEF JobsAreOwned, IInv, Counted, Modes
  <1> QED  BY <1>1, Invariance, PTL

\* A coordinator with one job writes a result again only after a crash or a failed
\* operation of the data thread.
THEOREM AppliedAgainByFaults ==
  ASSUME OneJob
  PROVE  Spec => []AppliedAgainOnlyByFaults
  <1>1. IInv => AppliedAgainOnlyByFaults
    <2> SUFFICES ASSUME IInv, NEW j \in Jobs
                 PROVE  applied[j] <= 1 + faults
      BY DEF AppliedAgainOnlyByFaults
    <2>1. applied[j] \in Nat /\ faults \in Nat
      BY JobsAssumption DEF IInv, Typed
    <2>2. applied[j] <= faults \/ applied[j] <= 1 + faults
      BY DEF IInv, OneInv, Written
    <2> QED  BY <2>1, <2>2
  <1> QED  BY <1>1, Invariance, PTL
=============================================================================
