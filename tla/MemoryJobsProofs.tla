--------------------------- MODULE MemoryJobsProofs ---------------------------
(***************************************************************************)
(* Theorems of MemoryJobs: its types, the scheduling of the jobs, who owns *)
(* the result of an attempt, and the contiguous coverage of the summaries. *)
(* They all follow from one inductive invariant, IInv.                     *)
(*                                                                         *)
(* Its core is that the coordinator waits for one answer.  The data        *)
(* thread's queue and the answers on their way to the main thread hold one *)
(* operation of its own (Ordered); only the preparation of an execution    *)
(* that was given up may still be in front of the finalization.  Whatever  *)
(* they hold belongs to what the coordinator is doing now (Tokens), the    *)
(* rows agree with it (Rows, Attempts), there is always somebody who       *)
(* drives it on (Driven), and the runner's signals come in their order     *)
(* (Generates, Reports).  Writing and Cursor carry that to the results     *)
(* that are written.                                                       *)
(*                                                                         *)
(* The proof that a step preserves IInv has one lemma for each action, and *)
(* one step in it for each conjunct.  Actions with the same effect share a *)
(* lemma (ProcessEnds, Retires, Polls, HandsOver, Repair).                 *)
(***************************************************************************)
EXTENDS MemoryJobs, TLAPS, QueueTheorems

(* The types of the queues, the runner and the execution. *)

Plans == [base : Nat, through : Nat]
OpRecs ==
  [op : {"recover"}, job : {NoJob}, arg : {NoArg}]
    \cup [op : {"claim"}, job : {NoJob}, arg : [extraction : BOOLEAN]]
    \cup [op : {"prepare", "complete", "fail"}, job : Jobs, arg : {NoArg}]
    \cup [op : {"retry"}, job : Jobs, arg : [ready : BOOLEAN]]
    \cup [op : {"persist"}, job : Jobs, arg : Plans]
FinalArgs == {NoArg} \cup [ready : BOOLEAN] \cup Plans
EventRecs ==
  [ev : {"recovered", "failed:recover", "claimed"}, job : {NoJob}, arg : {NoArg}]
    \cup [ev : {"failed:claim"}, job : {NoJob}, arg : [extraction : BOOLEAN]]
    \cup [ev : {"claimed"}, job : Jobs, arg : [attempt : Nat]]
    \cup [ev : {"prepared"}, job : Jobs, arg : Plans]
    \cup [ev : {"nothing", "failed:prepare"}, job : Jobs, arg : {NoArg}]
    \cup [ev : FinalAnswers, job : Jobs, arg : FinalArgs]
    \cup [ev : Outcomes \cup {"finished"}, job : Jobs, arg : [id : Nat \ {0}]]

Gens == [id : Nat, job : Jobs \cup {NoJob}, attempt : Nat, phase : Phases,
         thread : {"running", "ending", "stopped"}, cancelled : BOOLEAN, terminal : BOOLEAN]
Execs == [job : Jobs \cup {NoJob}, attempt : Nat, plan : Plans, finishing : BOOLEAN]

Typed ==
  /\ status \in [Jobs -> Statuses] /\ attempts \in [Jobs -> Nat] /\ due \in [Jobs -> BOOLEAN]
  /\ dataQ \in Seq(OpRecs) /\ mainQ \in Seq(EventRecs)
  /\ opStep \in {"start", "checked", "written"}
  /\ gen \in Gens
  /\ up \in BOOLEAN /\ dataUp \in BOOLEAN /\ accepting \in BOOLEAN /\ recovering \in BOOLEAN
  /\ claimInFlight \in BOOLEAN /\ paused \in BOOLEAN /\ foreground \in BOOLEAN
  /\ memoryEnabled \in BOOLEAN /\ runnerPaused \in BOOLEAN /\ runnerShut \in BOOLEAN
  /\ current \in Execs
  /\ pendingLaunch \in Phases
  /\ latest \in Nat /\ covered \in Nat /\ noted \in [Jobs -> Nat]
  /\ abandoned \subseteq Jobs
  /\ faults \in 0..MaxFaults /\ switches \in 0..MaxSwitches

\* A process that has ended leaves only its rows.
Down ==
  ~up => /\ dataQ = <<>> /\ mainQ = <<>> /\ gen = NoGen /\ opStep = "start"
         /\ current = NoExec /\ pendingLaunch = "none"
         /\ ~accepting /\ ~recovering /\ ~claimInFlight /\ ~paused /\ ~foreground
         /\ ~runnerPaused /\ ~runnerShut /\ ~dataUp

\* The flags of the coordinator agree on the one thing it is doing.
Modes ==
  /\ recovering => ~claimInFlight /\ current = NoExec
  /\ claimInFlight => current = NoExec
  /\ runnerShut => ~accepting
  /\ accepting => dataUp
  /\ current.job = NoJob => current = NoExec
  /\ Running => ~Yielding /\ Allowed(current.job)
  /\ RunnerIsReleased

\* What the two queues hold, and how it is grouped.
Queued == Elements(dataQ)
Posted == Elements(mainQ)

Preparing == {o \in OpRecs : o.op = "prepare"}
Finalizing == {o \in OpRecs : o.op \in Finals}

DataEvents ==
  {"recovered", "failed:recover", "claimed", "failed:claim"} \cup PrepareAnswers \cup FinalAnswers
Answers == {e \in EventRecs : e.ev \in DataEvents}
Prepared == {e \in EventRecs : e.ev \in PrepareAnswers}
Finalized == {e \in EventRecs : e.ev \in FinalAnswers}

\* The data thread has at most one operation to do or to be answered, but for a
\* preparation that an execution given up in between left behind.
Ordered ==
  /\ Paired(dataQ, OpRecs, Preparing, Finalizing)
  /\ Paired(mainQ, Answers, Prepared, Finalized)
  /\ \A e \in Posted, o \in Queued : e \in Answers => e \in Prepared /\ o \in Finalizing

\* Every operation and answer belongs to what the coordinator is doing.
Tokens ==
  /\ \A o \in Queued :
       /\ o.op = "recover" => recovering
       /\ o.op = "claim" => claimInFlight
       /\ o.op = "prepare" => current.job = o.job
       /\ o.op \in Finals => current.job = o.job /\ current.finishing
  /\ \A e \in Posted :
       /\ e.ev \in {"recovered", "failed:recover"} => recovering
       /\ e.ev \in {"claimed", "failed:claim"} => claimInFlight
       /\ e.ev \in PrepareAnswers => current.job = e.job
       /\ e.ev \in FinalAnswers => current.job = e.job /\ current.finishing

\* The row of what is under way is running.
Rows ==
  /\ Running => status[current.job] = "running"
  /\ \A o \in Queued : o.op \in Finals => status[o.job] = "running"
  /\ \A e \in Posted : e.ev = "claimed" /\ e.job # NoJob =>
       status[e.job] = "running" /\ attempts[e.job] = e.arg.attempt
  /\ \A e \in Posted : e.ev = "marked" => status[e.job] # "running"
  /\ recovering => \A j \in Jobs : status[j] # "running"
  /\ up => \A j \in Jobs : status[j] = "running" /\ j \notin abandoned =>
       current.job = j \/ \E e \in Posted : e.ev = "claimed" /\ e.job = j

\* The execution counts the attempt of its row, and a row fails for good after the last.
Attempts ==
  /\ current # NoExec /\ status[current.job] = "running" =>
       attempts[current.job] = current.attempt
  /\ \A o \in Queued : o.op = "fail" => attempts[o.job] >= MaxJobAttempts \/ o.job \in Malformed
  /\ FailedAfterAttempts

\* The answer to the preparation is still to come.
PreparePending ==
  (\E o \in Queued : o.op = "prepare") \/ \E e \in Posted : e.ev \in PrepareAnswers

\* Somebody will answer what the coordinator waits for.
Driven ==
  /\ claimInFlight =>
       (\E o \in Queued : o.op = "claim") \/ \E e \in Posted : e.ev \in {"claimed", "failed:claim"}
  /\ current # NoExec /\ current.finishing =>
       (\E o \in Queued : o.op \in Finals) \/ \E e \in Posted : e.ev \in FinalAnswers
  /\ Running => PreparePending \/ (gen.id # 0 /\ (~gen.terminal \/ pendingLaunch # "none"))

\* The runner works for the execution.
Generates ==
  /\ gen.id = 0 => gen = NoGen
  /\ gen.id # 0 => gen.job \in Jobs
  /\ current # NoExec /\ gen.id # 0 => gen.job = current.job /\ gen.attempt = current.attempt
  /\ gen.thread = "running" /\ ~gen.cancelled => Running
  /\ pendingLaunch # "none" => Running /\ gen.id # 0
  /\ claimInFlight /\ gen.id # 0 => gen.thread = "stopped"
  /\ Running /\ gen.id # 0 => ~PreparePending

\* The signals of one generation.
OutcomesOf(id) == {e \in EventRecs : e.ev \in Outcomes /\ e.arg.id = id}
EndsOf(id) == {e \in EventRecs : e.ev = "finished" /\ e.arg.id = id}
Claims == {e \in EventRecs : e.ev = "claimed"}

\* The outcome of a generation precedes its end, and its end the next claim.
Reports ==
  gen.id # 0 =>
    /\ (\E e \in Posted : e \in OutcomesOf(gen.id)) => gen.thread # "running"
    /\ (\E e \in Posted : e \in EndsOf(gen.id)) => gen.thread = "stopped"
    /\ gen.thread # "running" /\ ~gen.terminal => \E e \in Posted : e \in OutcomesOf(gen.id)
    /\ gen.thread = "stopped" => \E e \in Posted : e \in EndsOf(gen.id)
    /\ ~gen.terminal => Before(mainQ, OutcomesOf(gen.id), EndsOf(gen.id))
    /\ Before(mainQ, EndsOf(gen.id), Claims)

\* A result that is counted completes its row, unless a fault comes in between.
Writing ==
  /\ opStep # "start" => Executing("persist")
  /\ \A j \in Jobs :
       \/ noted[j] <= faults
       \/ /\ noted[j] <= 1 + faults
          /\ status[j] = "completed" \/ (opStep = "written" /\ Job = j)

\* A summary in preparation or in the queue starts where the coverage ends.
Cursor ==
  /\ opStep = "checked" /\ ~Extraction(Job) => covered < Arg.through
  /\ \A o \in Queued : o.op = "persist" =>
       /\ ~Extraction(o.job) => o.arg.base = covered \/ opStep = "written"
       /\ ~PreparePending
  /\ \A e \in Posted : e.ev = "prepared" /\ ~Extraction(e.job) => e.arg.base = covered
  /\ Running /\ gen.id # 0 /\ ~Extraction(current.job) => current.plan.base = covered

\* The inductive invariant.
IInv == /\ Typed /\ Down /\ Modes /\ Ordered /\ Tokens /\ Rows /\ Attempts /\ Driven
        /\ Generates /\ Reports /\ Writing /\ Cursor
----------------------------------------
(* The types of what is in the queues. *)

Ops == {"recover", "claim", "prepare"} \cup Finals
Events == DataEvents \cup Outcomes \cup {"finished"}

OpTyped(o) ==
  /\ o.op \in Ops
  /\ o.op \in {"recover", "claim"} => o.job = NoJob
  /\ o.op \in {"prepare"} \cup Finals => o.job \in Jobs
  /\ o.op = "claim" => o.arg.extraction \in BOOLEAN
  /\ o.op = "retry" => o.arg.ready \in BOOLEAN
  /\ o.op = "persist" => o.arg \in Plans
  /\ o.op \in Finals => o.arg \in FinalArgs
  /\ o.op \in {"recover", "prepare"} => o.arg = NoArg

EventTyped(e) ==
  /\ e.ev \in Events
  /\ e.ev = "claimed" => e.job \in Jobs \cup {NoJob}
  /\ e.ev \in {"recovered", "failed:recover", "failed:claim"} => e.job = NoJob
  /\ e.ev \in PrepareAnswers \cup FinalAnswers \cup Outcomes \cup {"finished"} => e.job \in Jobs
  /\ e.ev = "claimed" /\ e.job # NoJob => e.arg.attempt \in Nat
  /\ e.ev = "prepared" => e.arg \in Plans
  /\ e.ev \in Outcomes \cup {"finished"} => e.arg.id \in Nat \ {0}

\* What the record sets say of an operation and of an event.
LEMMA AnyOpTyped == \A o \in OpRecs : OpTyped(o)
  BY DEF OpRecs, Ops, Finals, Plans, FinalArgs, NoArg, OpTyped

LEMMA AnyEventTyped == \A e \in EventRecs : EventTyped(e)
  BY JobsAssumption DEF EventRecs, Events, DataEvents, PrepareAnswers, FinalAnswers,
                        Outcomes, Plans, EventTyped

\* The types of what is queued and posted
LEMMA AllTyped ==
  ASSUME IInv
  PROVE  /\ \A o \in Queued : OpTyped(o) /\ o \in OpRecs
         /\ \A e \in Posted : EventTyped(e) /\ e \in EventRecs
  BY AnyOpTyped, AnyEventTyped, NotEmpty DEF IInv, Typed, Queued, Posted

\* The types of the model follow from the finer ones.
LEMMA TypedIsTypeOK == IInv => TypeOK
  <1>1. ASSUME IInv
        PROVE  /\ \A i \in DOMAIN dataQ : dataQ[i].job \in Jobs \cup {NoJob}
               /\ \A i \in DOMAIN mainQ : mainQ[i].job \in Jobs \cup {NoJob}
    <2>1. /\ \A i \in DOMAIN dataQ : dataQ[i] \in Queued
          /\ \A i \in DOMAIN mainQ : mainQ[i] \in Posted
      BY DEF Queued, Posted, Elements
    <2> QED  BY <1>1, <2>1, AllTyped DEF OpTyped, EventTyped, Ops, Events, DataEvents
  <1> QED  BY <1>1 DEF IInv, Typed, TypeOK, WorldTypeOK, Plans, Gens, Execs

\* The main thread takes the first event.
EventTaken ==
  /\ mainQ' \in Seq(EventRecs)
  /\ Head(mainQ) \in EventRecs /\ EventTyped(Head(mainQ))
  /\ Posted = {Head(mainQ)} \cup Posted'

TakenInOrder ==
  /\ Paired(mainQ', Answers, Prepared, Finalized)
  /\ Head(mainQ) \in Answers =>
       \A d \in Posted' : d \in Answers => Head(mainQ) \in Prepared /\ d \in Finalized
  /\ \A X, Y : Before(mainQ, X, Y) => Head(mainQ) \notin Y
  /\ \A X, Y : Before(mainQ, X, Y) /\ Head(mainQ) \notin X => Before(mainQ', X, Y)

\* The queue without its first event.
LEMMA TakesEvent ==
  ASSUME IInv, mainQ # <<>>, mainQ' = Tail(mainQ)
  PROVE  EventTaken /\ TakenInOrder
  <1>1. mainQ \in Seq(EventRecs) /\ Paired(mainQ, Answers, Prepared, Finalized)
    BY DEF IInv, Typed, Ordered
  <1>2. /\ mainQ' \in Seq(EventRecs) /\ Head(mainQ) \in EventRecs
        /\ Posted = {Head(mainQ)} \cup Posted'
    BY <1>1, Taking DEF Posted
  <1>3. EventTyped(Head(mainQ))
    BY <1>2, AllTyped
  <1>4. /\ Paired(mainQ', Answers, Prepared, Finalized)
        /\ Head(mainQ) \in Answers =>
             \A d \in Posted' : d \in Answers => Head(mainQ) \in Prepared /\ d \in Finalized
    BY <1>1, PairedTail DEF Posted
  <1>5. \A X, Y : Before(mainQ, X, Y) => Head(mainQ) \notin Y
    BY <1>1, BeforeHead
  <1>6. \A X, Y : Before(mainQ, X, Y) /\ Head(mainQ) \notin X => Before(mainQ', X, Y)
    BY <1>1, BeforeTail
  <1> QED  BY <1>2, <1>3, <1>4, <1>5, <1>6 DEF EventTaken, TakenInOrder

\* An event is posted to the main thread.
EventPosted(e) ==
  /\ mainQ' \in Seq(EventRecs)
  /\ e \in EventRecs /\ EventTyped(e)
  /\ Posted' = Posted \cup {e}

PostedInOrder(e) ==
  /\ (e \in Answers => \A d \in Posted : d \in Answers => d \in Prepared /\ e \in Finalized)
       => Paired(mainQ', Answers, Prepared, Finalized)
  /\ \A X, Y : Before(mainQ, X, Y) /\ (e \in Y => \E d \in Posted : d \in X)
                 => Before(mainQ', X, Y)

\* The queue with one event more.
LEMMA PostsEvent ==
  ASSUME IInv, NEW e \in EventRecs, mainQ' = Append(mainQ, e)
  PROVE  EventPosted(e) /\ PostedInOrder(e)
  <1>1. mainQ \in Seq(EventRecs) /\ Paired(mainQ, Answers, Prepared, Finalized)
    BY DEF IInv, Typed, Ordered
  <1>2. mainQ' \in Seq(EventRecs) /\ Posted' = Posted \cup {e}
    BY <1>1, Appending DEF Posted
  <1>3. (e \in Answers => \A d \in Posted : d \in Answers => d \in Prepared /\ e \in Finalized)
          => Paired(mainQ', Answers, Prepared, Finalized)
    BY <1>1, PairedAppend DEF Posted
  <1>4. ASSUME NEW X, NEW Y, Before(mainQ, X, Y), e \in Y => \E d \in Posted : d \in X
        PROVE  Before(mainQ', X, Y)
    <2>1. e \notin Y \/ Elements(mainQ) \cap X # {}
      BY <1>4 DEF Posted
    <2> QED  BY <1>1, <1>4, <2>1, BeforeAppend
  <1>5. EventTyped(e)
    BY AnyEventTyped
  <1> QED  BY <1>2, <1>3, <1>4, <1>5 DEF EventPosted, PostedInOrder

\* The data thread is done with its first operation.
OpTaken ==
  /\ dataQ' \in Seq(OpRecs)
  /\ Head(dataQ) \in OpRecs /\ OpTyped(Head(dataQ))
  /\ Queued = {Head(dataQ)} \cup Queued'

TakenInTurn ==
  /\ Paired(dataQ', OpRecs, Preparing, Finalizing)
  /\ \A d \in Queued' : Head(dataQ) \in Preparing /\ d \in Finalizing

\* The queue without its first operation.
LEMMA TakesOp ==
  ASSUME IInv, dataQ # <<>>, dataQ' = Tail(dataQ)
  PROVE  OpTaken /\ TakenInTurn
  <1>1. dataQ \in Seq(OpRecs) /\ Paired(dataQ, OpRecs, Preparing, Finalizing)
    BY DEF IInv, Typed, Ordered
  <1>2. /\ dataQ' \in Seq(OpRecs) /\ Head(dataQ) \in OpRecs
        /\ Queued = {Head(dataQ)} \cup Queued'
    BY <1>1, Taking DEF Queued
  <1>3. OpTyped(Head(dataQ)) /\ \A d \in Queued' : d \in OpRecs
    BY <1>2, AllTyped
  <1>4. /\ Paired(dataQ', OpRecs, Preparing, Finalizing)
        /\ Head(dataQ) \in OpRecs =>
             \A d \in Queued' : d \in OpRecs => Head(dataQ) \in Preparing /\ d \in Finalizing
    BY <1>1, PairedTail DEF Queued
  <1> QED  BY <1>2, <1>3, <1>4 DEF OpTaken, TakenInTurn

\* An operation is submitted to the data thread.
OpSubmitted(o) ==
  /\ dataQ' \in Seq(OpRecs) /\ dataQ' # <<>>
  /\ o \in OpRecs /\ OpTyped(o)
  /\ Queued' = Queued \cup {o}
  /\ dataQ # <<>> => Head(dataQ') = Head(dataQ)
  /\ dataQ = <<>> => Head(dataQ') = o

QueuedInTurn(o) ==
  (\A d \in Queued : d \in Preparing /\ o \in Finalizing)
    => Paired(dataQ', OpRecs, Preparing, Finalizing)

\* The queue with one operation more.
LEMMA SubmitsOp ==
  ASSUME IInv, NEW o \in OpRecs, dataQ' = Append(dataQ, o)
  PROVE  OpSubmitted(o) /\ QueuedInTurn(o)
  <1>1. dataQ \in Seq(OpRecs) /\ Paired(dataQ, OpRecs, Preparing, Finalizing)
    BY DEF IInv, Typed, Ordered
  <1>2. /\ dataQ' \in Seq(OpRecs) /\ dataQ' # <<>>
        /\ Queued' = Queued \cup {o}
        /\ dataQ # <<>> => Head(dataQ') = Head(dataQ)
        /\ dataQ = <<>> => Head(dataQ') = o
    BY <1>1, Appending DEF Queued
  <1>3. (\A d \in Queued : d \in Preparing /\ o \in Finalizing)
          => Paired(dataQ', OpRecs, Preparing, Finalizing)
    BY <1>1, PairedAppend DEF Queued
  <1>4. OpTyped(o)
    BY AnyOpTyped
  <1> QED  BY <1>2, <1>3, <1>4 DEF OpSubmitted, QueuedInTurn

\* The first operation, and an empty queue
LEMMA FirstOp ==
  ASSUME IInv
  PROVE  /\ dataQ # <<>> => Head(dataQ) \in Queued
         /\ dataQ = <<>> => Queued = {}
         /\ mainQ = <<>> => Posted = {}
  <1>1. dataQ \in Seq(OpRecs)
    BY DEF IInv, Typed
  <1>2. dataQ # <<>> => Head(dataQ) \in Queued
    BY <1>1, Taking DEF Queued
  <1>3. dataQ = <<>> => Queued = {}
    BY EmptyQueue DEF Queued
  <1>4. mainQ = <<>> => Posted = {}
    BY EmptyQueue DEF Posted
  <1> QED  BY <1>2, <1>3, <1>4

\* StartGeneration takes an id nothing posted refers to.
LEMMA FreshIdIsFresh ==
  ASSUME IInv
  PROVE  /\ FreshId \in Nat \ {0}
         /\ \A e \in Posted : e.ev \in Outcomes \cup {"finished"} => e.arg.id # FreshId
  <1> DEFINE D == {k \in DOMAIN mainQ : mainQ[k].ev \in Outcomes \cup {"finished"}}
             f == [i \in D |-> mainQ[i].arg.id]
             used == {mainQ[i].arg.id : i \in D}
  <1>1. mainQ \in Seq(EventRecs)
    BY DEF IInv, Typed
  <1>2. \A i \in DOMAIN mainQ : mainQ[i] \in Posted
    BY DEF Posted, Elements
  <1>3. f \in [D -> Nat]
    BY <1>2, AllTyped DEF EventTyped
  <1>4. \E n \in 1..(Len(mainQ) + 1) : n \notin {f[i] : i \in D}
    <2>1. D \in SUBSET DOMAIN mainQ
      OBVIOUS
    <2> HIDE DEF f, D
    <2> QED  BY <1>1, <1>3, <2>1, UnusedNumber
  <1>5. {f[i] : i \in D} = used
    OBVIOUS
  <1>6. FreshId \in 1..(Len(mainQ) + 1) /\ FreshId \notin used
    BY <1>4, <1>5 DEF FreshId
  <1>7. Len(mainQ) \in Nat
    BY <1>1
  <1>8. ASSUME NEW e \in Posted, e.ev \in Outcomes \cup {"finished"}
        PROVE  e.arg.id \in used
    BY <1>8 DEF Posted, Elements
  <1> QED  BY <1>6, <1>7, <1>8

----------------------------------------
(* What the helpers of the slots do in a state of the invariant. *)

\* An execution under way always finds the data thread taking operations, so it
\* is handed over and never abandoned.
FinishedBy(o) ==
  /\ o.op \in Finals /\ o.job = current.job
  /\ OpSubmitted(o) /\ QueuedInTurn(o)
  /\ current' \in Execs /\ current' # NoExec /\ current'.finishing
  /\ current'.job = current.job /\ current'.attempt = current.attempt
  /\ pendingLaunch' = "none"
  /\ abandoned' = abandoned

\* _finish queues one operation for the execution and marks it as finishing.
LEMMA FinishIs ==
  ASSUME IInv, Running, NEW op, NEW arg, Op(op, current.job, arg) \in OpRecs, op \in Finals,
         Finish(op, arg)
  PROVE  FinishedBy(Op(op, current.job, arg))
  <1>1. dataUp
    BY DEF IInv, Modes, Running, Yielding
  <1>2. dataQ' = Append(dataQ, Op(op, current.job, arg))
    BY <1>1 DEF Finish, Submitted
  <1>3. current' = [current EXCEPT !.finishing = TRUE] /\ current \in Execs
    BY <1>1 DEF Finish, IInv, Typed
  <1>4. current' \in Execs /\ current' # NoExec /\ current'.finishing
        /\ current'.job = current.job /\ current'.attempt = current.attempt
    BY <1>3 DEF Execs, NoExec
  <1> QED  BY <1>1, <1>2, <1>4, SubmitsOp DEF Finish, FinishedBy, Op

\* The execution under way has a job.
LEMMA RunningJob ==
  ASSUME IInv, Running
  PROVE  current.job \in Jobs
  BY DEF IInv, Modes, Typed, Running, Execs

\* _finish_failure retries the job, or fails it after the last attempt.
LEMMA FinishFailureIs ==
  ASSUME IInv, Running, FinishFailure
  PROVE  \E o : FinishedBy(o) /\ o.op \in {"retry", "fail"}
                /\ (o.op = "fail" => current.attempt >= MaxJobAttempts)
  <1>1. current.job \in Jobs
    BY RunningJob
  <1>2. Op("retry", current.job, Later) \in OpRecs /\ Op("fail", current.job, NoArg) \in OpRecs
    BY <1>1 DEF OpRecs, Op, Later
  <1>3. CASE current.attempt < MaxJobAttempts
    BY <1>2, <1>3, FinishIs DEF FinishFailure, Finals, Op
  <1>4. CASE ~(current.attempt < MaxJobAttempts)
    <2>1. current.attempt >= MaxJobAttempts
      BY <1>4, MemoryJobsAssumption DEF IInv, Typed, Execs
    <2> QED  BY <1>2, <1>4, <2>1, FinishIs DEF FinishFailure, Finals, Op
  <1> QED  BY <1>3, <1>4

\* _retry hands the job back.
LEMMA RetryIs ==
  ASSUME IInv, Running, Finish("retry", Now)
  PROVE  \E o : FinishedBy(o) /\ o.op = "retry"
  <1>1. Op("retry", current.job, Now) \in OpRecs
    BY RunningJob DEF OpRecs, Op, Now
  <1> QED  BY <1>1, FinishIs DEF Finals, Op

\* _retry_current_job does so when there is a job.
LEMMA RetryCurrentIs ==
  ASSUME IInv, RetryCurrent
  PROVE  \/ Running /\ \E o : FinishedBy(o) /\ o.op = "retry"
         \/ ~Running /\ UNCHANGED <<dataQ, current, pendingLaunch, abandoned>>
  BY RetryIs DEF RetryCurrent

\* poll() claims only when nothing is under way.
Polled(inFlight) ==
  \/ /\ CanClaim' /\ ~inFlight /\ dataUp
     /\ claimInFlight' = TRUE
     /\ LET o == Op("claim", NoJob, [extraction |-> memoryEnabled'])
        IN  OpSubmitted(o) /\ QueuedInTurn(o)
  \/ claimInFlight' = inFlight /\ UNCHANGED dataQ

\* A poll claims at most one job.
LEMMA PollAfterIs ==
  ASSUME IInv, NEW inFlight, memoryEnabled' \in BOOLEAN, PollAfter(inFlight)
  PROVE  Polled(inFlight)
  <1>1. Op("claim", NoJob, [extraction |-> memoryEnabled']) \in OpRecs
    BY DEF OpRecs, Op
  <1> QED  BY <1>1, SubmitsOp DEF PollAfter, Polled

----------------------------------------
(* What the slots and operations leave alone. *)

SlotFrame ==
  UNCHANGED <<status, attempts, due, opStep, dataUp, runnerPaused, runnerShut, faults, up,
              accepting, paused, foreground, memoryEnabled, latest, covered, noted, switches>>

OperationFrame ==
  UNCHANGED <<dataUp, gen, runnerPaused, runnerShut, faults, up, accepting, recovering,
              claimInFlight, paused, foreground, memoryEnabled, current, pendingLaunch,
              abandoned, switches>>

\* The main thread handles the first of its events.
LEMMA HandlingIs ==
  ASSUME IInv, NEW event, Handling(event)
  PROVE  /\ EventTaken /\ TakenInOrder /\ SlotFrame /\ up
         /\ Head(mainQ) \in Posted /\ Head(mainQ).ev = event
  BY TakesEvent DEF Handling, SlotFrame, store, results, EventTaken

\* The data thread executes the first of its operations.
LEMMA OperationIs ==
  ASSUME IInv, InOperation
  PROVE  OperationFrame
  BY DEF InOperation, OperationFrame, runner, flags

\* An answer ends the operation it belongs to.
LEMMA AnswerIs ==
  ASSUME IInv, NEW op, Executing(op), NEW e \in EventRecs, Answer(e)
  PROVE  /\ OpTaken /\ TakenInTurn /\ EventPosted(e) /\ PostedInOrder(e)
         /\ Head(dataQ) \in Queued /\ Head(dataQ).op = op /\ opStep' = "start"
  BY TakesOp, PostsEvent, FirstOp DEF Executing, Answer

\* The generation is told to stop, or is gone.
CancelOnly ==
  /\ gen' \in Gens /\ gen.id # 0 /\ gen.thread # "stopped"
  /\ gen'.id = gen.id /\ gen'.job = gen.job /\ gen'.attempt = gen.attempt
  /\ gen'.thread = gen.thread /\ gen'.terminal = gen.terminal /\ gen'.cancelled

\* The cancellation of the runner only marks its generation.
LEMMA CancelledIs ==
  ASSUME IInv, NEW wait, Cancelled(wait)
  PROVE  gen' = NoGen \/ CancelOnly
  <1>1. gen \in Gens /\ (gen.id = 0 => gen = NoGen)
    BY DEF IInv, Typed, Generates
  <1>2. CASE gen.id = 0
    <2>1. gen' = [NoGen EXCEPT !.cancelled = FALSE]
      BY <1>1, <1>2 DEF Cancelled
    <2> QED  BY <2>1 DEF NoGen
  <1>3. CASE gen.id # 0 /\ gen' # NoGen
    <2>1. gen' = [gen EXCEPT !.cancelled = TRUE] /\ gen.thread # "stopped"
      BY <1>3 DEF Cancelled
    <2> QED  BY <1>1, <1>3, <2>1 DEF CancelOnly, Gens
  <1> QED  BY <1>2, <1>3

\* A generation starts.
Started(job, attempt) ==
  /\ gen' \in Gens /\ gen'.id # 0
  /\ gen'.job = job /\ gen'.attempt = attempt
  /\ gen'.thread = "running" /\ ~gen'.cancelled /\ ~gen'.terminal
  /\ \A e \in Posted : e.ev \in Outcomes \cup {"finished"} => e.arg.id # gen'.id

\* A start of the runner replaces the generation, or gives the execution up.
LEMMA StartIs ==
  ASSUME IInv, NEW j \in Jobs, NEW n \in Nat, NEW phase \in Phases, StartGeneration(j, n, phase)
  PROVE  Started(j, n)
  <1>1. /\ FreshId \in Nat \ {0}
        /\ \A e \in Posted : e.ev \in Outcomes \cup {"finished"} => e.arg.id # FreshId
    BY FreshIdIsFresh
  <1> QED  BY <1>1 DEF StartGeneration, Started, Gens

\* The outcome of the generation is noted.
Ended ==
  /\ gen' \in Gens
  /\ gen'.id = gen.id /\ gen'.job = gen.job /\ gen'.attempt = gen.attempt
  /\ gen'.thread = gen.thread /\ gen'.cancelled = gen.cancelled /\ gen'.terminal

\* The end of a generation belongs to the execution that runs.
LEMMA GenerationEndsIs ==
  ASSUME IInv, NEW outcome \in Outcomes, GenerationEnds(outcome)
  PROVE  /\ EventTaken /\ TakenInOrder /\ SlotFrame /\ up
         /\ Head(mainQ) \in Posted /\ Head(mainQ).ev = outcome
         /\ gen.id # 0 /\ Head(mainQ).arg.id = gen.id /\ ~gen.terminal
         /\ Ended /\ UNCHANGED <<recovering, claimInFlight>>
  <1>1. /\ EventTaken /\ TakenInOrder /\ SlotFrame /\ up
        /\ Head(mainQ) \in Posted /\ Head(mainQ).ev = outcome
    BY HandlingIs DEF GenerationEnds
  <1>2. Head(mainQ).arg.id \in Nat \ {0}
    BY <1>1 DEF EventTaken, EventTyped
  <1>3. Ended
    BY DEF GenerationEnds, IInv, Typed, Ended, Gens
  <1> QED  BY <1>1, <1>2, <1>3 DEF GenerationEnds, EventArg

\* The empty runner and the empty execution have their types.
LEMMA NothingIsTyped == NoGen \in Gens /\ NoExec \in Execs
  BY DEF NoGen, Gens, NoExec, Execs, NoPlan, Plans, Phases

\* What may be queued and posted while an execution is under way
LEMMA WhileRunning ==
  ASSUME IInv, Running
  PROVE  /\ ~claimInFlight /\ ~recovering
         /\ \A o \in Queued : o \in Preparing /\ o.op = "prepare"
         /\ \A e \in Posted : e \in Answers => e \in Prepared /\ e.ev \in PrepareAnswers
  <1>1. current # NoExec /\ ~current.finishing /\ ~claimInFlight /\ ~recovering
    BY DEF Running, IInv, Modes
  <1>2. ASSUME NEW o \in Queued
        PROVE  o \in Preparing /\ o.op = "prepare"
    <2>1. o.op \notin {"recover", "claim"} \cup Finals
      BY <1>1 DEF IInv, Tokens
    <2> QED  BY <2>1, AllTyped DEF OpTyped, Ops, Preparing
  <1>3. ASSUME NEW e \in Posted, e \in Answers
        PROVE  e \in Prepared /\ e.ev \in PrepareAnswers
    <2>1. e.ev \notin {"recovered", "failed:recover", "claimed", "failed:claim"} \cup FinalAnswers
      BY <1>1 DEF IInv, Tokens
    <2> QED  BY <1>3, <2>1 DEF Answers, DataEvents, Prepared
  <1> QED  BY <1>1, <1>2, <1>3

\* No operation is on its way while the execution generates.
LEMMA WhileGenerating ==
  ASSUME IInv, Running, gen.id # 0
  PROVE  Queued = {} /\ \A e \in Posted : e \notin Answers
  BY WhileRunning DEF IInv, Generates, PreparePending, Answers

\* No operation is on its way while there is neither an execution nor a claim.
LEMMA WhileIdle ==
  ASSUME IInv, current = NoExec, ~claimInFlight, ~recovering
  PROVE  Queued = {} /\ \A e \in Posted : e \notin Answers
  <1>1. current.job = NoJob /\ ~current.finishing /\ NoJob \notin Jobs
    BY JobsAssumption DEF NoExec
  <1>2. ASSUME NEW o \in Queued
        PROVE  FALSE
    <2>1. o.op \notin {"recover", "claim"} \cup Finals
      BY <1>1 DEF IInv, Tokens
    <2>2. o.op = "prepare" /\ o.job \in Jobs
      BY <2>1, AllTyped DEF OpTyped, Ops
    <2> QED  BY <1>1, <2>2 DEF IInv, Tokens
  <1>3. ASSUME NEW e \in Posted, e \in Answers
        PROVE  FALSE
    <2>1. e.ev \notin {"recovered", "failed:recover", "claimed", "failed:claim"} \cup FinalAnswers
      BY <1>1 DEF IInv, Tokens
    <2>2. e.ev \in PrepareAnswers /\ e.job \in Jobs
      BY <1>3, <2>1, AllTyped DEF Answers, DataEvents, EventTyped
    <2> QED  BY <1>1, <2>2 DEF IInv, Tokens
  <1> QED  BY <1>2, <1>3

\* A claim is the only operation on its way.
LEMMA WhileClaiming ==
  ASSUME IInv, claimInFlight
  PROVE  /\ current = NoExec /\ ~recovering
         /\ \A o \in Queued : o.op = "claim" /\ o \notin Preparing /\ o \notin Finalizing
         /\ \A e \in Posted : e \in Answers => e.ev \in {"claimed", "failed:claim"}
  <1>1. /\ current = NoExec /\ ~recovering
        /\ current.job = NoJob /\ ~current.finishing /\ NoJob \notin Jobs
    BY JobsAssumption DEF NoExec, IInv, Modes
  <1>2. ASSUME NEW o \in Queued
        PROVE  o.op = "claim" /\ o \notin Preparing /\ o \notin Finalizing
    <2>1. o.op \notin {"recover"} \cup Finals
      BY <1>1 DEF IInv, Tokens
    <2>2. o.op # "prepare"
      BY <1>1, AllTyped DEF IInv, Tokens, OpTyped
    <2> QED  BY <2>1, <2>2, AllTyped DEF OpTyped, Ops, Preparing, Finalizing, Finals
  <1>3. ASSUME NEW e \in Posted, e \in Answers
        PROVE  e.ev \in {"claimed", "failed:claim"}
    <2>1. e.ev \notin {"recovered", "failed:recover"} \cup FinalAnswers
      BY <1>1 DEF IInv, Tokens
    <2>2. e.ev \notin PrepareAnswers
      BY <1>1, AllTyped DEF IInv, Tokens, EventTyped
    <2> QED  BY <1>3, <2>1, <2>2 DEF Answers, DataEvents
  <1> QED  BY <1>1, <1>2, <1>3

\* Recovery is the only operation on its way.
LEMMA WhileRecovering ==
  ASSUME IInv, recovering
  PROVE  /\ current = NoExec /\ ~claimInFlight
         /\ \A o \in Queued : o.op = "recover" /\ o \notin Preparing /\ o \notin Finalizing
         /\ \A e \in Posted : e \in Answers => e.ev \in {"recovered", "failed:recover"}
  <1>1. /\ current = NoExec /\ ~claimInFlight
        /\ current.job = NoJob /\ ~current.finishing /\ NoJob \notin Jobs
    BY JobsAssumption DEF NoExec, IInv, Modes
  <1>2. ASSUME NEW o \in Queued
        PROVE  o.op = "recover" /\ o \notin Preparing /\ o \notin Finalizing
    <2>1. o.op \notin {"claim"} \cup Finals
      BY <1>1 DEF IInv, Tokens
    <2>2. o.op # "prepare"
      BY <1>1, AllTyped DEF IInv, Tokens, OpTyped
    <2> QED  BY <2>1, <2>2, AllTyped DEF OpTyped, Ops, Preparing, Finalizing, Finals
  <1>3. ASSUME NEW e \in Posted, e \in Answers
        PROVE  e.ev \in {"recovered", "failed:recover"}
    <2>1. e.ev \notin {"claimed", "failed:claim"} \cup FinalAnswers
      BY <1>1 DEF IInv, Tokens
    <2>2. e.ev \notin PrepareAnswers
      BY <1>1, AllTyped DEF IInv, Tokens, EventTyped
    <2> QED  BY <1>3, <2>1, <2>2 DEF Answers, DataEvents
  <1> QED  BY <1>1, <1>2, <1>3

\* A crash or an exit leaves the rows.
LEMMA ProcessEndsStep ==
  ASSUME IInv, ProcessEnds, faults' \in 0..MaxFaults,
         faults' = faults + 1 \/ (faults' = faults /\ dataQ = <<>>)
  PROVE  IInv'
  <1>1. /\ Queued' = {} /\ Posted' = {} /\ dataQ' = <<>> /\ mainQ' = <<>>
        /\ \A X, Y, Z : Before(mainQ', X, Y) /\ Paired(mainQ', X, Y, Z) /\ Paired(dataQ', X, Y, Z)
    BY EmptyQueue DEF ProcessEnds, Queued, Posted
  <1>2. dataQ' \in Seq(OpRecs) /\ mainQ' \in Seq(EventRecs)
    BY DEF ProcessEnds
  <1>3. /\ UNCHANGED dataQ => UNCHANGED Queued
        /\ UNCHANGED mainQ => UNCHANGED Posted
    BY DEF Queued, Posted
  <1>4. /\ \A o \in Queued : OpTyped(o) /\ o \in OpRecs
        /\ \A e \in Posted : EventTyped(e) /\ e \in EventRecs
    BY AllTyped
  <1>5. Typed'
    BY <1>1, <1>2, NothingIsTyped DEF IInv, Typed, Phases, ProcessEnds, store, results
  <1>6. Down'
    BY <1>1, <1>2, <1>3, <1>4, SMT
       DEF IInv, Down, NoExec, NoGen, ProcessEnds, store, results
  <1>7. Modes'
    BY <1>1, <1>2, <1>3, <1>4, SMT
       DEF IInv, Modes, Typed, Down, Running, Yielding, Allowed, Extraction,
           RunnerIsReleased, NoExec, NoPlan, ProcessEnds, store, results
  <1>8. Ordered'
    BY <1>1, <1>2, <1>3, <1>4, SMT
       DEF IInv, Ordered, Answers, Preparing, Finalizing, Prepared, Finalized,
           ProcessEnds, store, results
  <1>9. Tokens'
    BY <1>1, <1>2, <1>3, <1>4, SMT
       DEF IInv, Tokens, PrepareAnswers, FinalAnswers, Finals, Outcomes, NoExec,
           Running, ProcessEnds, store, results
  <1>10. Rows'
    BY <1>1, <1>2, <1>3, <1>4, SMT
       DEF IInv, Rows, PrepareAnswers, FinalAnswers, Outcomes, Finals, Running,
           EventTyped, ProcessEnds, store, results
  <1>11. Attempts'
    BY <1>1, <1>2, <1>3, <1>4, SMT
       DEF IInv, Attempts, Running, Finals, NoExec, FailedAfterAttempts, ProcessEnds,
           store, results
  <1>12. Driven'
    BY <1>1, <1>2, <1>3, <1>4, SMT
       DEF IInv, Driven, PreparePending, Running, NoExec, PrepareAnswers,
           FinalAnswers, Finals, Outcomes, ProcessEnds, store, results
  <1>13. Generates'
    BY <1>1, <1>2, <1>3, <1>4, SMT
       DEF IInv, Generates, PreparePending, Running, NoExec, NoGen, PrepareAnswers,
           FinalAnswers, Finals, Outcomes, ProcessEnds, store, results
  <1>14. Reports'
    BY <1>1, <1>2, <1>3, <1>4, SMT
       DEF IInv, Reports, OutcomesOf, EndsOf, Claims, Outcomes, NoGen, ProcessEnds,
           store, results
  <1>15. Writing'
    BY <1>1, <1>2, <1>3, <1>4, SMT
       DEF IInv, Writing, Executing, Job, Arg, Typed, ProcessEnds, store, results
  <1>16. Cursor'
    BY <1>1, <1>2, <1>3, <1>4, SMT
       DEF IInv, Cursor, Writing, Typed, Executing, Job, Arg, Extraction, Running,
           PreparePending, PrepareAnswers, FinalAnswers, Outcomes, Finals,
           ProcessEnds, store, results
  <1> QED  BY <1>5, <1>6, <1>7, <1>8, <1>9, <1>10, <1>11, <1>12, <1>13, <1>14, <1>15, <1>16 DEF IInv

\* The coordinator starts and submits the recovery.
LEMMA StartStep ==
  ASSUME IInv, Start
  PROVE  IInv'
  <1>1. dataQ' = Append(dataQ, Op("recover", NoJob, NoArg))
           /\ Op("recover", NoJob, NoArg) \in OpRecs
    BY DEF Start, IInv, Down, OpRecs, Op
  <1>2. /\ OpSubmitted(Op("recover", NoJob, NoArg)) /\ QueuedInTurn(Op("recover", NoJob, NoArg))
        /\ Queued = {} /\ Posted = {}
    BY <1>1, SubmitsOp, FirstOp DEF Start, IInv, Down
  <1>3. /\ status' \in [Jobs -> Statuses] /\ due' \in [Jobs -> BOOLEAN] /\ attempts' = attempts
        /\ \A j \in Jobs : status'[j] = IF status[j] = "running" THEN "retry" ELSE status[j]
    BY DEF Start, StoreRecover, IInv, Typed, Statuses
  <1>4. /\ UNCHANGED dataQ => UNCHANGED Queued
        /\ UNCHANGED mainQ => UNCHANGED Posted
    BY DEF Queued, Posted
  <1>5. /\ \A o \in Queued : OpTyped(o) /\ o \in OpRecs
        /\ \A e \in Posted : EventTyped(e) /\ e \in EventRecs
    BY AllTyped
  <1>6. Typed'
    BY <1>1, <1>2, <1>3, NothingIsTyped
       DEF IInv, Typed, OpSubmitted, Phases, Start, Op, results, runner
  <1>7. Down'
    BY <1>1, <1>2, <1>3, <1>4, <1>5, SMT
       DEF IInv, Down, OpSubmitted, NoExec, NoGen, Start, Op, results, runner
  <1>8. Modes'
    BY <1>1, <1>2, <1>3, <1>4, <1>5, SMT
       DEF IInv, Modes, OpSubmitted, Typed, Down, Running, Yielding, Allowed,
           Extraction, RunnerIsReleased, NoExec, NoPlan, Start, Op, results, runner
  <1>9. Ordered'
    BY <1>1, <1>2, <1>3, <1>4, <1>5, SMT
       DEF IInv, Ordered, OpSubmitted, QueuedInTurn, Answers, Preparing, Finalizing,
           Prepared, Finalized, Start, Op, results, runner
  <1>10. Tokens'
    BY <1>1, <1>2, <1>3, <1>4, <1>5, SMT
       DEF IInv, Tokens, OpSubmitted, PrepareAnswers, FinalAnswers, Finals, Outcomes,
           NoExec, Running, Start, Op, results, runner
  <1>11. Rows'
    BY <1>1, <1>2, <1>3, <1>4, <1>5, SMT
       DEF IInv, Rows, OpSubmitted, PrepareAnswers, FinalAnswers, Outcomes, Finals,
           Running, EventTyped, Start, Op, results, runner, Down
  <1>12. Attempts'
    BY <1>1, <1>2, <1>3, <1>4, <1>5, SMT
       DEF IInv, Attempts, OpSubmitted, Running, Finals, NoExec, FailedAfterAttempts,
           Start, Op, results, runner, Down
  <1>13. Driven'
    BY <1>1, <1>2, <1>3, <1>4, <1>5, SMT
       DEF IInv, Driven, OpSubmitted, PreparePending, Running, NoExec, PrepareAnswers,
           FinalAnswers, Finals, Outcomes, Start, Op, results, runner
  <1>14. Generates'
    BY <1>1, <1>2, <1>3, <1>4, <1>5, SMT
       DEF IInv, Generates, OpSubmitted, PreparePending, Running, NoExec, NoGen,
           PrepareAnswers, FinalAnswers, Finals, Outcomes, Start, Op, results, runner
  <1>15. Reports'
    BY <1>1, <1>2, <1>3, <1>4, <1>5, SMT
       DEF IInv, Reports, OpSubmitted, QueuedInTurn, OutcomesOf, EndsOf, Claims,
           Outcomes, NoGen, Start, Op, results, runner
  <1>16. Writing'
    BY <1>1, <1>2, <1>3, <1>4, <1>5, SMT
       DEF IInv, Writing, OpSubmitted, Executing, Job, Arg, Typed, Start, Op, results,
           runner
  <1>17. Cursor'
    BY <1>1, <1>2, <1>3, <1>4, <1>5, SMT
       DEF IInv, Cursor, OpSubmitted, Writing, Typed, Executing, Job, Arg, Extraction,
           Running, PreparePending, PrepareAnswers, FinalAnswers, Outcomes, Finals,
           Start, Op, results, runner
  <1> QED  BY <1>6, <1>7, <1>8, <1>9, <1>10, <1>11, <1>12, <1>13, <1>14, <1>15, <1>16,
              <1>17 DEF IInv

\* The coordinator gives way: it cancels its generation and hands its job back.
RetiresFrame ==
  /\ UNCHANGED <<status, attempts, due, opStep, dataUp, mainQ, faults, up, recovering,
                 claimInFlight, latest, covered, noted>>
  /\ up /\ RunnerIsReleased'
  /\ accepting' => accepting
  /\ runnerShut' => runnerShut \/ ~accepting'
  /\ accepting' \in BOOLEAN /\ paused' \in BOOLEAN /\ foreground' \in BOOLEAN
  /\ memoryEnabled' \in BOOLEAN /\ runnerPaused' \in BOOLEAN /\ runnerShut' \in BOOLEAN
  /\ switches' \in 0..MaxSwitches

Retires ==
  /\ RetiresFrame
  /\ gen' = NoGen \/ CancelOnly
  /\ \/ Running /\ \E o : FinishedBy(o) /\ o.op = "retry"
     \/ ~Running /\ UNCHANGED <<dataQ, current, pendingLaunch, abandoned>>

\* To give way preserves the invariant, whatever made it.
LEMMA RetiresStep ==
  ASSUME IInv, Retires
  PROVE  IInv'
  <1>1. RetiresFrame /\ pendingLaunch' = "none" /\ ~Running'
    BY DEF Retires, IInv, Generates, FinishedBy, Running
  <1>2. /\ UNCHANGED dataQ => UNCHANGED Queued
        /\ UNCHANGED mainQ => UNCHANGED Posted
    BY DEF Queued, Posted
  <1>3. /\ \A o \in Queued : OpTyped(o) /\ o \in OpRecs
        /\ \A e \in Posted : EventTyped(e) /\ e \in EventRecs
    BY AllTyped
  <1>4. ASSUME gen' = NoGen, NEW final, Running, FinishedBy(final), final.op = "retry"
       PROVE  IInv'
    <2>1. /\ \A o \in Queued : o \in Preparing /\ o.op = "prepare"
          /\ \A e \in Posted : e \in Answers => e \in Prepared
      BY <1>4, WhileRunning
    <2>2. Typed'
      BY <1>1, <1>4, <2>1, NothingIsTyped
         DEF IInv, Typed, OpSubmitted, FinishedBy, Phases, RetiresFrame
    <2>3. Down'
      BY <1>1, <1>2, <1>3, <1>4, <2>1, SMT
         DEF IInv, Down, OpSubmitted, FinishedBy, NoExec, NoGen, RetiresFrame
    <2>4. Modes'
      BY <1>1, <1>2, <1>3, <1>4, <2>1, SMT
         DEF IInv, Modes, OpSubmitted, FinishedBy, Typed, Down, Running, Yielding,
             Allowed, Extraction, RunnerIsReleased, NoExec, NoPlan, RetiresFrame
    <2>5. Ordered'
      BY <1>1, <1>2, <1>3, <1>4, <2>1, SMT
         DEF IInv, Ordered, OpSubmitted, FinishedBy, QueuedInTurn, Answers, Preparing,
             Finalizing, Prepared, Finalized, RetiresFrame
    <2>6. Tokens'
      BY <1>1, <1>2, <1>3, <1>4, <2>1, SMT
         DEF IInv, Tokens, OpSubmitted, FinishedBy, PrepareAnswers, FinalAnswers,
             Finals, Outcomes, NoExec, Running, Answers, DataEvents, RetiresFrame
    <2>7. Rows'
      BY <1>1, <1>2, <1>3, <1>4, <2>1, SMT
         DEF IInv, Rows, OpSubmitted, FinishedBy, PrepareAnswers, FinalAnswers,
             Outcomes, Finals, Running, EventTyped, Answers, DataEvents, RetiresFrame
    <2>8. Attempts'
      BY <1>1, <1>2, <1>3, <1>4, <2>1, SMT
         DEF IInv, Attempts, OpSubmitted, FinishedBy, Running, Finals, NoExec,
             FailedAfterAttempts, Answers, DataEvents, RetiresFrame
    <2>9. Driven'
      BY <1>1, <1>2, <1>3, <1>4, <2>1, SMT
         DEF IInv, Driven, OpSubmitted, FinishedBy, PreparePending, Running, NoExec,
             PrepareAnswers, FinalAnswers, Finals, Outcomes, Answers, DataEvents,
             RetiresFrame
    <2>10. Generates'
      BY <1>1, <1>2, <1>3, <1>4, <2>1, SMT
         DEF IInv, Generates, OpSubmitted, FinishedBy, PreparePending, Running,
             NoExec, NoGen, PrepareAnswers, FinalAnswers, Finals, Outcomes, Answers,
             DataEvents, RetiresFrame
    <2>11. Reports'
      BY <1>1, <1>2, <1>3, <1>4, <2>1, SMT
         DEF IInv, Reports, OpSubmitted, FinishedBy, QueuedInTurn, OutcomesOf, EndsOf,
             Claims, Outcomes, NoGen, RetiresFrame
    <2>12. Writing'
      BY <1>1, <1>2, <1>3, <1>4, <2>1, SMT
         DEF IInv, Writing, OpSubmitted, FinishedBy, Executing, Job, Arg, Typed,
             RetiresFrame
    <2>13. Cursor'
      BY <1>1, <1>2, <1>3, <1>4, <2>1, SMT
         DEF IInv, Cursor, OpSubmitted, FinishedBy, Writing, Typed, Executing, Job,
             Arg, Extraction, Running, PreparePending, PrepareAnswers, FinalAnswers,
             Outcomes, Finals, Answers, DataEvents, RetiresFrame
    <2> QED  BY <2>2, <2>3, <2>4, <2>5, <2>6, <2>7, <2>8, <2>9, <2>10, <2>11, <2>12, <2>13 DEF IInv
  <1>5. ASSUME gen' = NoGen, ~Running, UNCHANGED <<dataQ, current, pendingLaunch, abandoned>>
       PROVE  IInv'
    <2>1. Typed'
      BY <1>1, <1>5, NothingIsTyped
         DEF IInv, Typed, OpSubmitted, FinishedBy, Phases, RetiresFrame
    <2>2. Down'
      BY <1>1, <1>2, <1>3, <1>5, SMT
         DEF IInv, Down, OpSubmitted, FinishedBy, NoExec, NoGen, RetiresFrame
    <2>3. Modes'
      BY <1>1, <1>2, <1>3, <1>5, SMT
         DEF IInv, Modes, OpSubmitted, FinishedBy, Typed, Down, Running, Yielding,
             Allowed, Extraction, RunnerIsReleased, NoExec, NoPlan, RetiresFrame
    <2>4. Ordered'
      BY <1>1, <1>2, <1>3, <1>5, SMT
         DEF IInv, Ordered, OpSubmitted, FinishedBy, QueuedInTurn, Answers, Preparing,
             Finalizing, Prepared, Finalized, RetiresFrame
    <2>5. Tokens'
      BY <1>1, <1>2, <1>3, <1>5, SMT
         DEF IInv, Tokens, OpSubmitted, FinishedBy, PrepareAnswers, FinalAnswers,
             Finals, Outcomes, NoExec, Running, RetiresFrame
    <2>6. Rows'
      BY <1>1, <1>2, <1>3, <1>5, SMT
         DEF IInv, Rows, OpSubmitted, FinishedBy, PrepareAnswers, FinalAnswers,
             Outcomes, Finals, Running, EventTyped, RetiresFrame
    <2>7. Attempts'
      BY <1>1, <1>2, <1>3, <1>5, SMT
         DEF IInv, Attempts, OpSubmitted, FinishedBy, Running, Finals, NoExec,
             FailedAfterAttempts, RetiresFrame
    <2>8. Driven'
      BY <1>1, <1>2, <1>3, <1>5, SMT
         DEF IInv, Driven, OpSubmitted, FinishedBy, PreparePending, Running, NoExec,
             PrepareAnswers, FinalAnswers, Finals, Outcomes, RetiresFrame
    <2>9. Generates'
      BY <1>1, <1>2, <1>3, <1>5, SMT
         DEF IInv, Generates, OpSubmitted, FinishedBy, PreparePending, Running,
             NoExec, NoGen, PrepareAnswers, FinalAnswers, Finals, Outcomes,
             RetiresFrame
    <2>10. Reports'
      BY <1>1, <1>2, <1>3, <1>5, SMT
         DEF IInv, Reports, OpSubmitted, FinishedBy, QueuedInTurn, OutcomesOf, EndsOf,
             Claims, Outcomes, NoGen, RetiresFrame
    <2>11. Writing'
      BY <1>1, <1>2, <1>3, <1>5, SMT
         DEF IInv, Writing, OpSubmitted, FinishedBy, Executing, Job, Arg, Typed,
             RetiresFrame
    <2>12. Cursor'
      BY <1>1, <1>2, <1>3, <1>5, SMT
         DEF IInv, Cursor, OpSubmitted, FinishedBy, Writing, Typed, Executing, Job,
             Arg, Extraction, Running, PreparePending, PrepareAnswers, FinalAnswers,
             Outcomes, Finals, RetiresFrame
    <2> QED  BY <2>1, <2>2, <2>3, <2>4, <2>5, <2>6, <2>7, <2>8, <2>9, <2>10, <2>11, <2>12 DEF IInv
  <1>6. ASSUME CancelOnly, NEW final, Running, FinishedBy(final), final.op = "retry"
       PROVE  IInv'
    <2>1. /\ \A o \in Queued : o \in Preparing /\ o.op = "prepare"
          /\ \A e \in Posted : e \in Answers => e \in Prepared
      BY <1>6, WhileRunning
    <2>2. Typed'
      BY <1>1, <1>6, <2>1, NothingIsTyped
         DEF IInv, Typed, OpSubmitted, FinishedBy, CancelOnly, Phases, RetiresFrame
    <2>3. Down'
      BY <1>1, <1>2, <1>3, <1>6, <2>1, SMT
         DEF IInv, Down, OpSubmitted, FinishedBy, CancelOnly, NoExec, NoGen,
             RetiresFrame
    <2>4. Modes'
      BY <1>1, <1>2, <1>3, <1>6, <2>1, SMT
         DEF IInv, Modes, OpSubmitted, FinishedBy, CancelOnly, Typed, Down, Running,
             Yielding, Allowed, Extraction, RunnerIsReleased, NoExec, NoPlan,
             RetiresFrame
    <2>5. Ordered'
      BY <1>1, <1>2, <1>3, <1>6, <2>1, SMT
         DEF IInv, Ordered, OpSubmitted, FinishedBy, CancelOnly, QueuedInTurn,
             Answers, Preparing, Finalizing, Prepared, Finalized, RetiresFrame
    <2>6. Tokens'
      BY <1>1, <1>2, <1>3, <1>6, <2>1, SMT
         DEF IInv, Tokens, OpSubmitted, FinishedBy, CancelOnly, PrepareAnswers,
             FinalAnswers, Finals, Outcomes, NoExec, Running, Answers, DataEvents,
             RetiresFrame
    <2>7. Rows'
      BY <1>1, <1>2, <1>3, <1>6, <2>1, SMT
         DEF IInv, Rows, OpSubmitted, FinishedBy, CancelOnly, PrepareAnswers,
             FinalAnswers, Outcomes, Finals, Running, EventTyped, Answers, DataEvents,
             RetiresFrame
    <2>8. Attempts'
      BY <1>1, <1>2, <1>3, <1>6, <2>1, SMT
         DEF IInv, Attempts, OpSubmitted, FinishedBy, CancelOnly, Running, Finals,
             NoExec, FailedAfterAttempts, Answers, DataEvents, RetiresFrame
    <2>9. Driven'
      BY <1>1, <1>2, <1>3, <1>6, <2>1, SMT
         DEF IInv, Driven, OpSubmitted, FinishedBy, CancelOnly, PreparePending,
             Running, NoExec, PrepareAnswers, FinalAnswers, Finals, Outcomes, Answers,
             DataEvents, RetiresFrame
    <2>10. Generates'
      BY <1>1, <1>2, <1>3, <1>6, <2>1, SMT
         DEF IInv, Generates, OpSubmitted, FinishedBy, CancelOnly, PreparePending,
             Running, NoExec, NoGen, PrepareAnswers, FinalAnswers, Finals, Outcomes,
             Answers, DataEvents, RetiresFrame
    <2>11. Reports'
      BY <1>1, <1>2, <1>3, <1>6, <2>1, SMT
         DEF IInv, Reports, OpSubmitted, FinishedBy, CancelOnly, QueuedInTurn,
             OutcomesOf, EndsOf, Claims, Outcomes, NoGen, RetiresFrame
    <2>12. Writing'
      BY <1>1, <1>2, <1>3, <1>6, <2>1, SMT
         DEF IInv, Writing, OpSubmitted, FinishedBy, CancelOnly, Executing, Job, Arg,
             Typed, RetiresFrame
    <2>13. Cursor'
      BY <1>1, <1>2, <1>3, <1>6, <2>1, SMT
         DEF IInv, Cursor, OpSubmitted, FinishedBy, CancelOnly, Writing, Typed,
             Executing, Job, Arg, Extraction, Running, PreparePending, PrepareAnswers,
             FinalAnswers, Outcomes, Finals, Answers, DataEvents, RetiresFrame
    <2> QED  BY <2>2, <2>3, <2>4, <2>5, <2>6, <2>7, <2>8, <2>9, <2>10, <2>11, <2>12, <2>13 DEF IInv
  <1>7. ASSUME CancelOnly, ~Running, UNCHANGED <<dataQ, current, pendingLaunch, abandoned>>
       PROVE  IInv'
    <2>1. Typed'
      BY <1>1, <1>7, NothingIsTyped
         DEF IInv, Typed, OpSubmitted, FinishedBy, CancelOnly, Phases, RetiresFrame
    <2>2. Down'
      BY <1>1, <1>2, <1>3, <1>7, SMT
         DEF IInv, Down, OpSubmitted, FinishedBy, CancelOnly, NoExec, NoGen,
             RetiresFrame
    <2>3. Modes'
      BY <1>1, <1>2, <1>3, <1>7, SMT
         DEF IInv, Modes, OpSubmitted, FinishedBy, CancelOnly, Typed, Down, Running,
             Yielding, Allowed, Extraction, RunnerIsReleased, NoExec, NoPlan,
             RetiresFrame
    <2>4. Ordered'
      BY <1>1, <1>2, <1>3, <1>7, SMT
         DEF IInv, Ordered, OpSubmitted, FinishedBy, CancelOnly, QueuedInTurn,
             Answers, Preparing, Finalizing, Prepared, Finalized, RetiresFrame
    <2>5. Tokens'
      BY <1>1, <1>2, <1>3, <1>7, SMT
         DEF IInv, Tokens, OpSubmitted, FinishedBy, CancelOnly, PrepareAnswers,
             FinalAnswers, Finals, Outcomes, NoExec, Running, RetiresFrame
    <2>6. Rows'
      BY <1>1, <1>2, <1>3, <1>7, SMT
         DEF IInv, Rows, OpSubmitted, FinishedBy, CancelOnly, PrepareAnswers,
             FinalAnswers, Outcomes, Finals, Running, EventTyped, RetiresFrame
    <2>7. Attempts'
      BY <1>1, <1>2, <1>3, <1>7, SMT
         DEF IInv, Attempts, OpSubmitted, FinishedBy, CancelOnly, Running, Finals,
             NoExec, FailedAfterAttempts, RetiresFrame
    <2>8. Driven'
      BY <1>1, <1>2, <1>3, <1>7, SMT
         DEF IInv, Driven, OpSubmitted, FinishedBy, CancelOnly, PreparePending,
             Running, NoExec, PrepareAnswers, FinalAnswers, Finals, Outcomes,
             RetiresFrame
    <2>9. Generates'
      BY <1>1, <1>2, <1>3, <1>7, SMT
         DEF IInv, Generates, OpSubmitted, FinishedBy, CancelOnly, PreparePending,
             Running, NoExec, NoGen, PrepareAnswers, FinalAnswers, Finals, Outcomes,
             RetiresFrame
    <2>10. Reports'
      BY <1>1, <1>2, <1>3, <1>7, SMT
         DEF IInv, Reports, OpSubmitted, FinishedBy, CancelOnly, QueuedInTurn,
             OutcomesOf, EndsOf, Claims, Outcomes, NoGen, RetiresFrame
    <2>11. Writing'
      BY <1>1, <1>2, <1>3, <1>7, SMT
         DEF IInv, Writing, OpSubmitted, FinishedBy, CancelOnly, Executing, Job, Arg,
             Typed, RetiresFrame
    <2>12. Cursor'
      BY <1>1, <1>2, <1>3, <1>7, SMT
         DEF IInv, Cursor, OpSubmitted, FinishedBy, CancelOnly, Writing, Typed,
             Executing, Job, Arg, Extraction, Running, PreparePending, PrepareAnswers,
             FinalAnswers, Outcomes, Finals, RetiresFrame
    <2> QED  BY <2>1, <2>2, <2>3, <2>4, <2>5, <2>6, <2>7, <2>8, <2>9, <2>10, <2>11, <2>12 DEF IInv
  <1> QED  BY <1>1, <1>2, <1>3, <1>4, <1>5, <1>6, <1>7 DEF Retires

\* shutdown gives way for good.
LEMMA ShutdownStep ==
  ASSUME IInv, Shutdown
  PROVE  IInv'
  <1>1. gen' = NoGen \/ CancelOnly
    BY CancelledIs DEF Shutdown
  <1>2. \/ Running /\ \E o : FinishedBy(o) /\ o.op = "retry"
        \/ ~Running /\ UNCHANGED <<dataQ, current, pendingLaunch, abandoned>>
    BY RetryCurrentIs DEF Shutdown
  <1>3. /\ UNCHANGED <<status, attempts, due, opStep, dataUp, mainQ, faults, up, recovering,
                       claimInFlight, latest, covered, noted>>
        /\ up /\ (accepting' => accepting) /\ (runnerShut' => runnerShut \/ ~accepting')
    BY DEF Shutdown, Outside, store, results
  <1>4. RunnerIsReleased'
    BY DEF Shutdown, RunnerIsReleased, Yielding
  <1>5. /\ accepting' \in BOOLEAN /\ paused' \in BOOLEAN /\ foreground' \in BOOLEAN
        /\ memoryEnabled' \in BOOLEAN /\ runnerPaused' \in BOOLEAN /\ runnerShut' \in BOOLEAN
    BY DEF Shutdown, Outside, IInv, Typed
  <1>6. switches' \in 0..MaxSwitches
    BY MemoryJobsAssumption DEF Shutdown, Outside, IInv, Typed
  <1> QED  BY <1>1, <1>2, <1>3, <1>4, <1>5, <1>6, RetiresStep
              DEF Retires, RetiresFrame

\* pause gives way.
LEMMA PauseStep ==
  ASSUME IInv, Pause
  PROVE  IInv'
  <1>1. gen' = NoGen \/ CancelOnly
    BY CancelledIs DEF Pause
  <1>2. \/ Running /\ \E o : FinishedBy(o) /\ o.op = "retry"
        \/ ~Running /\ UNCHANGED <<dataQ, current, pendingLaunch, abandoned>>
    BY RetryCurrentIs DEF Pause
  <1>3. /\ UNCHANGED <<status, attempts, due, opStep, dataUp, mainQ, faults, up, recovering,
                       claimInFlight, latest, covered, noted>>
        /\ up /\ (accepting' => accepting) /\ (runnerShut' => runnerShut \/ ~accepting')
    BY DEF Pause, Outside, store, results
  <1>4. RunnerIsReleased'
    BY DEF Pause, RunnerIsReleased, Yielding
  <1>5. /\ accepting' \in BOOLEAN /\ paused' \in BOOLEAN /\ foreground' \in BOOLEAN
        /\ memoryEnabled' \in BOOLEAN /\ runnerPaused' \in BOOLEAN /\ runnerShut' \in BOOLEAN
    BY DEF Pause, Outside, IInv, Typed
  <1>6. switches' \in 0..MaxSwitches
    BY MemoryJobsAssumption DEF Pause, Outside, IInv, Typed
  <1> QED  BY <1>1, <1>2, <1>3, <1>4, <1>5, <1>6, RetiresStep
              DEF Retires, RetiresFrame

\* A switch that ends with a poll.
PollsFrame ==
  /\ UNCHANGED <<status, attempts, due, opStep, dataUp, mainQ, gen, runnerShut, faults, up,
                 accepting,
                 recovering, current, pendingLaunch, latest, covered, noted, abandoned>>
  /\ up /\ RunnerIsReleased'
  /\ Running => ~Yielding' /\ Allowed(current.job)'
  /\ paused' \in BOOLEAN /\ foreground' \in BOOLEAN
  /\ memoryEnabled' \in BOOLEAN /\ runnerPaused' \in BOOLEAN
  /\ switches' \in 0..MaxSwitches

\* To poll preserves the invariant, whatever made it.
LEMMA PollsStep ==
  ASSUME IInv, PollsFrame, Polled(claimInFlight)
  PROVE  IInv'
  <1>1. /\ UNCHANGED dataQ => UNCHANGED Queued
        /\ UNCHANGED mainQ => UNCHANGED Posted
    BY DEF Queued, Posted
  <1>2. /\ \A o \in Queued : OpTyped(o) /\ o \in OpRecs
        /\ \A e \in Posted : EventTyped(e) /\ e \in EventRecs
    BY AllTyped
  <1>3. ASSUME CanClaim', ~claimInFlight, claimInFlight' = TRUE,
               OpSubmitted(Op("claim", NoJob, [extraction |-> memoryEnabled'])),
               QueuedInTurn(Op("claim", NoJob, [extraction |-> memoryEnabled'])), dataUp
       PROVE  IInv'
    <2>1. Queued = {} /\ \A e \in Posted : e \notin Answers
      BY <1>3, WhileIdle DEF CanClaim, PollsFrame
    <2>2. Typed'
      BY <1>3, <2>1, NothingIsTyped
         DEF IInv, Typed, OpSubmitted, Phases, PollsFrame, CanClaim, IsRunning, Op
    <2>3. Down'
      BY <1>1, <1>2, <1>3, <2>1, SMT
         DEF IInv, Down, OpSubmitted, NoExec, NoGen, PollsFrame, CanClaim, IsRunning,
             Op
    <2>4. Modes'
      BY <1>1, <1>2, <1>3, <2>1, SMT
         DEF IInv, Modes, OpSubmitted, Typed, Down, Running, Yielding, Allowed,
             Extraction, RunnerIsReleased, NoExec, NoPlan, PollsFrame, CanClaim,
             IsRunning, Op
    <2>5. Ordered'
      BY <1>1, <1>2, <1>3, <2>1, SMT
         DEF IInv, Ordered, OpSubmitted, QueuedInTurn, Answers, Preparing, Finalizing,
             Prepared, Finalized, PollsFrame, CanClaim, IsRunning, Op
    <2>6. Tokens'
      BY <1>1, <1>2, <1>3, <2>1, SMT
         DEF IInv, Tokens, OpSubmitted, PrepareAnswers, FinalAnswers, Finals,
             Outcomes, NoExec, Running, Answers, DataEvents, PollsFrame, CanClaim,
             IsRunning, Op
    <2>7. Rows'
      BY <1>1, <1>2, <1>3, <2>1, SMT
         DEF IInv, Rows, OpSubmitted, PrepareAnswers, FinalAnswers, Outcomes, Finals,
             Running, EventTyped, Answers, DataEvents, PollsFrame, CanClaim,
             IsRunning, Op
    <2>8. Attempts'
      BY <1>1, <1>2, <1>3, <2>1, SMT
         DEF IInv, Attempts, OpSubmitted, Running, Finals, NoExec,
             FailedAfterAttempts, Answers, DataEvents, PollsFrame, CanClaim,
             IsRunning, Op
    <2>9. Driven'
      BY <1>1, <1>2, <1>3, <2>1, SMT
         DEF IInv, Driven, OpSubmitted, PreparePending, Running, NoExec,
             PrepareAnswers, FinalAnswers, Finals, Outcomes, Answers, DataEvents,
             PollsFrame, CanClaim, IsRunning, Op
    <2>10. Generates'
      BY <1>1, <1>2, <1>3, <2>1, SMT
         DEF IInv, Generates, OpSubmitted, PreparePending, Running, NoExec, NoGen,
             PrepareAnswers, FinalAnswers, Finals, Outcomes, Answers, DataEvents,
             PollsFrame, CanClaim, IsRunning, Op
    <2>11. Reports'
      BY <1>1, <1>2, <1>3, <2>1, SMT
         DEF IInv, Reports, OpSubmitted, QueuedInTurn, OutcomesOf, EndsOf, Claims,
             Outcomes, NoGen, PollsFrame, CanClaim, IsRunning, Op
    <2>12. Writing'
      BY <1>1, <1>2, <1>3, <2>1, SMT
         DEF IInv, Writing, OpSubmitted, Executing, Job, Arg, Typed, PollsFrame,
             CanClaim, IsRunning, Op
    <2>13. Cursor'
      BY <1>1, <1>2, <1>3, <2>1, SMT
         DEF IInv, Cursor, OpSubmitted, Writing, Typed, Executing, Job, Arg,
             Extraction, Running, PreparePending, PrepareAnswers, FinalAnswers,
             Outcomes, Finals, Answers, DataEvents, PollsFrame, CanClaim, IsRunning,
             Op
    <2> QED  BY <2>2, <2>3, <2>4, <2>5, <2>6, <2>7, <2>8, <2>9, <2>10, <2>11, <2>12, <2>13 DEF IInv
  <1>4. ASSUME UNCHANGED <<claimInFlight, dataQ>>
       PROVE  IInv'
    <2>1. Typed'
      BY <1>4, NothingIsTyped DEF IInv, Typed, Phases, PollsFrame
    <2>2. Down'
      BY <1>1, <1>2, <1>4, SMT DEF IInv, Down, NoExec, NoGen, PollsFrame
    <2>3. Modes'
      BY <1>1, <1>2, <1>4, SMT
         DEF IInv, Modes, Typed, Down, Running, Yielding, Allowed, Extraction,
             RunnerIsReleased, NoExec, NoPlan, PollsFrame
    <2>4. Ordered'
      BY <1>1, <1>2, <1>4, SMT
         DEF IInv, Ordered, Answers, Preparing, Finalizing, Prepared, Finalized,
             PollsFrame
    <2>5. Tokens'
      BY <1>1, <1>2, <1>4, SMT
         DEF IInv, Tokens, PrepareAnswers, FinalAnswers, Finals, Outcomes, NoExec,
             Running, PollsFrame
    <2>6. Rows'
      BY <1>1, <1>2, <1>4, SMT
         DEF IInv, Rows, PrepareAnswers, FinalAnswers, Outcomes, Finals, Running,
             EventTyped, PollsFrame
    <2>7. Attempts'
      BY <1>1, <1>2, <1>4, SMT
         DEF IInv, Attempts, Running, Finals, NoExec, FailedAfterAttempts, PollsFrame
    <2>8. Driven'
      BY <1>1, <1>2, <1>4, SMT
         DEF IInv, Driven, PreparePending, Running, NoExec, PrepareAnswers,
             FinalAnswers, Finals, Outcomes, PollsFrame
    <2>9. Generates'
      BY <1>1, <1>2, <1>4, SMT
         DEF IInv, Generates, PreparePending, Running, NoExec, NoGen, PrepareAnswers,
             FinalAnswers, Finals, Outcomes, PollsFrame
    <2>10. Reports'
      BY <1>1, <1>2, <1>4, SMT
         DEF IInv, Reports, OutcomesOf, EndsOf, Claims, Outcomes, NoGen, PollsFrame
    <2>11. Writing'
      BY <1>1, <1>2, <1>4, SMT
         DEF IInv, Writing, Executing, Job, Arg, Typed, PollsFrame
    <2>12. Cursor'
      BY <1>1, <1>2, <1>4, SMT
         DEF IInv, Cursor, Writing, Typed, Executing, Job, Arg, Extraction, Running,
             PreparePending, PrepareAnswers, FinalAnswers, Outcomes, Finals,
             PollsFrame
    <2> QED  BY <2>1, <2>2, <2>3, <2>4, <2>5, <2>6, <2>7, <2>8, <2>9, <2>10, <2>11, <2>12 DEF IInv
  <1> QED  BY <1>1, <1>2, <1>3, <1>4 DEF Polled

\* resume polls.
LEMMA ResumeStep ==
  ASSUME IInv, Resume
  PROVE  IInv'
  <1>1. /\ UNCHANGED <<status, attempts, due, opStep, dataUp, mainQ, gen, runnerShut, faults, up,
                       accepting,
                      recovering, current, pendingLaunch, latest, covered, noted, abandoned>>
        /\ up
    BY DEF Resume, Outside, CanClaim, store, results, runner
  <1>2. RunnerIsReleased'
    BY DEF Resume, Outside, runner, IInv, Modes, Typed, RunnerIsReleased, Yielding
  <1>3. Running => ~Yielding' /\ Allowed(current.job)'
    BY DEF Resume, Outside, IInv, Modes, Typed, Running, Yielding, Allowed, Extraction
  <1>4. /\ paused' \in BOOLEAN /\ foreground' \in BOOLEAN
        /\ memoryEnabled' \in BOOLEAN /\ runnerPaused' \in BOOLEAN
    BY DEF Resume, Outside, runner, IInv, Typed
  <1>5. switches' \in 0..MaxSwitches
    BY MemoryJobsAssumption DEF Resume, Outside, IInv, Typed
  <1>6. Polled(claimInFlight)
    BY <1>4, PollAfterIs DEF Resume
  <1> QED  BY <1>1, <1>2, <1>3, <1>4, <1>5, <1>6, PollsStep DEF PollsFrame

\* The timer polls.
LEMMA PollStep ==
  ASSUME IInv, Poll
  PROVE  IInv'
  <1>1. /\ UNCHANGED <<status, attempts, due, opStep, dataUp, mainQ, gen, runnerShut, faults, up,
                       accepting,
                      recovering, current, pendingLaunch, latest, covered, noted, abandoned>>
        /\ up
    BY DEF Poll, Outside, CanClaim, store, results, runner
  <1>2. RunnerIsReleased'
    BY DEF Poll, Outside, runner, IInv, Modes, Typed, RunnerIsReleased, Yielding
  <1>3. Running => ~Yielding' /\ Allowed(current.job)'
    BY DEF Poll, Outside, IInv, Modes, Typed, Running, Yielding, Allowed, Extraction
  <1>4. /\ paused' \in BOOLEAN /\ foreground' \in BOOLEAN
        /\ memoryEnabled' \in BOOLEAN /\ runnerPaused' \in BOOLEAN
    BY DEF Poll, Outside, runner, IInv, Typed
  <1>5. switches' \in 0..MaxSwitches
    BY MemoryJobsAssumption DEF Poll, Outside, IInv, Typed
  <1>6. Op("claim", NoJob, [extraction |-> memoryEnabled']) \in OpRecs
           /\ memoryEnabled' = memoryEnabled
    BY DEF Poll, OpRecs, Op, IInv, Typed
  <1>7. CanClaim'
    BY DEF Poll, CanClaim, IsRunning, runner
  <1>8. Polled(claimInFlight)
    BY <1>6, <1>7, SubmitsOp DEF Poll, Polled
  <1> QED  BY <1>1, <1>2, <1>3, <1>4, <1>5, <1>6, <1>7, <1>8, PollsStep DEF PollsFrame

\* A request in front makes the coordinator give way, its end polls.
LEMMA SetForegroundActiveStep ==
  ASSUME IInv, NEW b \in BOOLEAN, SetForegroundActive(b)
  PROVE  IInv'
  <1>1. CASE b
    <2>1. gen' = NoGen \/ CancelOnly
      BY <1>1, CancelledIs DEF SetForegroundActive, Preempt
    <2>2. \/ Running /\ \E o : FinishedBy(o) /\ o.op = "retry"
          \/ ~Running /\ UNCHANGED <<dataQ, current, pendingLaunch, abandoned>>
      BY <1>1, RetryCurrentIs DEF SetForegroundActive, Preempt
    <2>3. RetiresFrame
      BY <1>1, MemoryJobsAssumption
         DEF SetForegroundActive, Preempt, RetiresFrame, IInv, Typed, Modes,
             RunnerIsReleased, Yielding, Running, Allowed, Extraction, Outside, store,
             results
    <2> QED  BY <2>1, <2>2, <2>3, RetiresStep DEF Retires
  <1>2. CASE ~(b)
    <2>1. PollsFrame
      BY <1>2, MemoryJobsAssumption
         DEF SetForegroundActive, PollsFrame, IInv, Typed, Modes, RunnerIsReleased,
             Yielding, Running, Allowed, Extraction, Outside, store, results
    <2>2. Polled(claimInFlight)
      BY <1>2, <2>1, PollAfterIs DEF SetForegroundActive, PollsFrame
    <2> QED  BY <2>1, <2>2, PollsStep
  <1> QED  BY <1>1, <1>2

\* Memory switched off makes the coordinator give way; switched on, poll.
LEMMA SetMemoryEnabledStep ==
  ASSUME IInv, NEW b \in BOOLEAN, SetMemoryEnabled(b)
  PROVE  IInv'
  <1>1. CASE ~b /\ Extraction(current.job)
    <2>1. gen' = NoGen \/ CancelOnly
      BY <1>1, CancelledIs DEF SetMemoryEnabled, Preempt
    <2>2. \/ Running /\ \E o : FinishedBy(o) /\ o.op = "retry"
          \/ ~Running /\ UNCHANGED <<dataQ, current, pendingLaunch, abandoned>>
      BY <1>1, RetryCurrentIs DEF SetMemoryEnabled, Preempt
    <2>3. RetiresFrame
      BY <1>1, MemoryJobsAssumption
         DEF SetMemoryEnabled, Preempt, RetiresFrame, IInv, Typed, Modes,
             RunnerIsReleased, Yielding, Running, Allowed, Extraction, Outside, store,
             results
    <2> QED  BY <2>1, <2>2, <2>3, RetiresStep DEF Retires
  <1>2. CASE ~(~b /\ Extraction(current.job))
    <2>1. PollsFrame
      BY <1>2, MemoryJobsAssumption
         DEF SetMemoryEnabled, PollsFrame, IInv, Typed, Modes, RunnerIsReleased,
             Yielding, Running, Allowed, Extraction, Outside, store, results
    <2>2. Polled(claimInFlight)
      BY <1>2, <2>1, PollAfterIs DEF SetMemoryEnabled, PollsFrame
    <2> QED  BY <2>1, <2>2, PollsStep
  <1> QED  BY <1>1, <1>2

\* The data thread stops.
LEMMA StopDataThreadStep ==
  ASSUME IInv, StopDataThread
  PROVE  IInv'
  <1>1. /\ UNCHANGED dataQ => UNCHANGED Queued
        /\ UNCHANGED mainQ => UNCHANGED Posted
    BY DEF Queued, Posted
  <1>2. /\ \A o \in Queued : OpTyped(o) /\ o \in OpRecs
        /\ \A e \in Posted : EventTyped(e) /\ e \in EventRecs
    BY AllTyped
  <1>3. Typed'
    BY NothingIsTyped
       DEF IInv, Typed, Phases, StopDataThread, flags, results, runner, store
  <1>4. Down'
    BY <1>1, <1>2, SMT
       DEF IInv, Down, NoExec, NoGen, StopDataThread, flags, results, runner, store
  <1>5. Modes'
    BY <1>1, <1>2, SMT
       DEF IInv, Modes, Typed, Down, Running, Yielding, Allowed, Extraction,
           RunnerIsReleased, NoExec, NoPlan, StopDataThread, flags, results, runner,
           store
  <1>6. Ordered'
    BY <1>1, <1>2, SMT
       DEF IInv, Ordered, Answers, Preparing, Finalizing, Prepared, Finalized,
           StopDataThread, flags, results, runner, store
  <1>7. Tokens'
    BY <1>1, <1>2, SMT
       DEF IInv, Tokens, PrepareAnswers, FinalAnswers, Finals, Outcomes, NoExec,
           Running, StopDataThread, flags, results, runner, store
  <1>8. Rows'
    BY <1>1, <1>2, SMT
       DEF IInv, Rows, PrepareAnswers, FinalAnswers, Outcomes, Finals, Running,
           EventTyped, StopDataThread, flags, results, runner, store
  <1>9. Attempts'
    BY <1>1, <1>2, SMT
       DEF IInv, Attempts, Running, Finals, NoExec, FailedAfterAttempts,
           StopDataThread, flags, results, runner, store
  <1>10. Driven'
    BY <1>1, <1>2, SMT
       DEF IInv, Driven, PreparePending, Running, NoExec, PrepareAnswers,
           FinalAnswers, Finals, Outcomes, StopDataThread, flags, results, runner,
           store
  <1>11. Generates'
    BY <1>1, <1>2, SMT
       DEF IInv, Generates, PreparePending, Running, NoExec, NoGen, PrepareAnswers,
           FinalAnswers, Finals, Outcomes, StopDataThread, flags, results, runner,
           store
  <1>12. Reports'
    BY <1>1, <1>2, SMT
       DEF IInv, Reports, OutcomesOf, EndsOf, Claims, Outcomes, NoGen, StopDataThread,
           flags, results, runner, store
  <1>13. Writing'
    BY <1>1, <1>2, SMT
       DEF IInv, Writing, Executing, Job, Arg, Typed, StopDataThread, flags, results,
           runner, store
  <1>14. Cursor'
    BY <1>1, <1>2, SMT
       DEF IInv, Cursor, Writing, Typed, Executing, Job, Arg, Extraction, Running,
           PreparePending, PrepareAnswers, FinalAnswers, Outcomes, Finals,
           StopDataThread, flags, results, runner, store
  <1> QED  BY <1>3, <1>4, <1>5, <1>6, <1>7, <1>8, <1>9, <1>10, <1>11, <1>12, <1>13, <1>14 DEF IInv

\* A turn queues a job.
LEMMA EnqueueStep ==
  ASSUME IInv, NEW j \in Jobs, Enqueue(j)
  PROVE  IInv'
  <1>1. /\ UNCHANGED <<attempts, due, dataQ, opStep, dataUp, mainQ, gen, runnerPaused, runnerShut,
                       faults, up, accepting, recovering, claimInFlight, paused, foreground,
                       memoryEnabled, current, pendingLaunch, covered, noted, abandoned, switches>>
        /\ latest' \in Nat /\ status' = [status EXCEPT ![j] = "pending"] /\ status[j] = "absent"
    BY DEF Enqueue, StoreEnqueue, flags, queues, runner, IInv, Typed
  <1>2. /\ UNCHANGED dataQ => UNCHANGED Queued
        /\ UNCHANGED mainQ => UNCHANGED Posted
    BY DEF Queued, Posted
  <1>3. /\ \A o \in Queued : OpTyped(o) /\ o \in OpRecs
        /\ \A e \in Posted : EventTyped(e) /\ e \in EventRecs
    BY AllTyped
  <1>4. Typed'
    BY <1>1, NothingIsTyped DEF IInv, Typed, Phases, Statuses
  <1>5. Down'
    BY <1>1, <1>2, <1>3, SMT DEF IInv, Down, NoExec, NoGen, Statuses
  <1>6. Modes'
    BY <1>1, <1>2, <1>3, SMT
       DEF IInv, Modes, Typed, Down, Running, Yielding, Allowed, Extraction,
           RunnerIsReleased, NoExec, NoPlan, Statuses
  <1>7. Ordered'
    BY <1>1, <1>2, <1>3, SMT
       DEF IInv, Ordered, Answers, Preparing, Finalizing, Prepared, Finalized,
           Statuses
  <1>8. Tokens'
    BY <1>1, <1>2, <1>3, SMT
       DEF IInv, Tokens, PrepareAnswers, FinalAnswers, Finals, Outcomes, NoExec,
           Running, Statuses
  <1>9. Rows'
    BY <1>1, <1>2, <1>3, SMT
       DEF IInv, Rows, PrepareAnswers, FinalAnswers, Outcomes, Finals, Running,
           EventTyped, Statuses
  <1>10. Attempts'
    BY <1>1, <1>2, <1>3, SMT
       DEF IInv, Attempts, Running, Finals, NoExec, FailedAfterAttempts, Statuses
  <1>11. Driven'
    BY <1>1, <1>2, <1>3, SMT
       DEF IInv, Driven, PreparePending, Running, NoExec, PrepareAnswers,
           FinalAnswers, Finals, Outcomes, Statuses
  <1>12. Generates'
    BY <1>1, <1>2, <1>3, SMT
       DEF IInv, Generates, PreparePending, Running, NoExec, NoGen, PrepareAnswers,
           FinalAnswers, Finals, Outcomes, Statuses
  <1>13. Reports'
    BY <1>1, <1>2, <1>3, SMT
       DEF IInv, Reports, OutcomesOf, EndsOf, Claims, Outcomes, NoGen, Statuses
  <1>14. Writing'
    BY <1>1, <1>2, <1>3, SMT DEF IInv, Writing, Executing, Job, Arg, Typed, Statuses
  <1>15. Cursor'
    BY <1>1, <1>2, <1>3, SMT
       DEF IInv, Cursor, Writing, Typed, Executing, Job, Arg, Extraction, Running,
           PreparePending, PrepareAnswers, FinalAnswers, Outcomes, Finals, Statuses
  <1> QED  BY <1>4, <1>5, <1>6, <1>7, <1>8, <1>9, <1>10, <1>11, <1>12, <1>13, <1>14, <1>15 DEF IInv

\* The user retries a failed job.
LEMMA RetryFailedStep ==
  ASSUME IInv, NEW j \in Jobs, RetryFailed(j)
  PROVE  IInv'
  <1>1. /\ UNCHANGED <<dataQ, opStep, dataUp, mainQ, gen, runnerPaused, runnerShut, faults, up,
                       accepting, recovering, claimInFlight, paused, foreground, memoryEnabled,
                       current, pendingLaunch, latest, covered, noted, abandoned>>
        /\ status' = [status EXCEPT ![j] = "retry"] /\ status[j] = "failed"
        /\ attempts' = [attempts EXCEPT ![j] = 0] /\ due' = [due EXCEPT ![j] = TRUE]
        /\ switches' \in 0..MaxSwitches
    BY MemoryJobsAssumption
       DEF RetryFailed, StoreRetryFailed, flags, queues, runner, results, IInv, Typed
  <1>2. /\ UNCHANGED dataQ => UNCHANGED Queued
        /\ UNCHANGED mainQ => UNCHANGED Posted
    BY DEF Queued, Posted
  <1>3. /\ \A o \in Queued : OpTyped(o) /\ o \in OpRecs
        /\ \A e \in Posted : EventTyped(e) /\ e \in EventRecs
    BY AllTyped
  <1>4. Typed'
    BY <1>1, NothingIsTyped DEF IInv, Typed, Phases, Statuses
  <1>5. Down'
    BY <1>1, <1>2, <1>3, SMT DEF IInv, Down, NoExec, NoGen, Statuses
  <1>6. Modes'
    BY <1>1, <1>2, <1>3, SMT
       DEF IInv, Modes, Typed, Down, Running, Yielding, Allowed, Extraction,
           RunnerIsReleased, NoExec, NoPlan, Statuses
  <1>7. Ordered'
    BY <1>1, <1>2, <1>3, SMT
       DEF IInv, Ordered, Answers, Preparing, Finalizing, Prepared, Finalized,
           Statuses
  <1>8. Tokens'
    BY <1>1, <1>2, <1>3, SMT
       DEF IInv, Tokens, PrepareAnswers, FinalAnswers, Finals, Outcomes, NoExec,
           Running, Statuses
  <1>9. Rows'
    BY <1>1, <1>2, <1>3, SMT
       DEF IInv, Rows, PrepareAnswers, FinalAnswers, Outcomes, Finals, Running,
           EventTyped, Statuses
  <1>10. Attempts'
    BY <1>1, <1>2, <1>3, SMT
       DEF IInv, Attempts, Running, Finals, NoExec, FailedAfterAttempts, Statuses,
           Rows, Typed, OpTyped, Modes, Execs, Tokens
  <1>11. Driven'
    BY <1>1, <1>2, <1>3, SMT
       DEF IInv, Driven, PreparePending, Running, NoExec, PrepareAnswers,
           FinalAnswers, Finals, Outcomes, Statuses
  <1>12. Generates'
    BY <1>1, <1>2, <1>3, SMT
       DEF IInv, Generates, PreparePending, Running, NoExec, NoGen, PrepareAnswers,
           FinalAnswers, Finals, Outcomes, Statuses
  <1>13. Reports'
    BY <1>1, <1>2, <1>3, SMT
       DEF IInv, Reports, OutcomesOf, EndsOf, Claims, Outcomes, NoGen, Statuses
  <1>14. Writing'
    BY <1>1, <1>2, <1>3, SMT DEF IInv, Writing, Executing, Job, Arg, Typed, Statuses
  <1>15. Cursor'
    BY <1>1, <1>2, <1>3, SMT
       DEF IInv, Cursor, Writing, Typed, Executing, Job, Arg, Extraction, Running,
           PreparePending, PrepareAnswers, FinalAnswers, Outcomes, Finals, Statuses
  <1> QED  BY <1>4, <1>5, <1>6, <1>7, <1>8, <1>9, <1>10, <1>11, <1>12, <1>13, <1>14, <1>15 DEF IInv

\* The delay of a job passes.
LEMMA BecomesDueStep ==
  ASSUME IInv, NEW j \in Jobs, BecomesDue(j)
  PROVE  IInv'
  <1>1. /\ UNCHANGED dataQ => UNCHANGED Queued
        /\ UNCHANGED mainQ => UNCHANGED Posted
    BY DEF Queued, Posted
  <1>2. /\ \A o \in Queued : OpTyped(o) /\ o \in OpRecs
        /\ \A e \in Posted : EventTyped(e) /\ e \in EventRecs
    BY AllTyped
  <1>3. Typed'
    BY NothingIsTyped
       DEF IInv, Typed, Phases, BecomesDue, flags, queues, runner, results
  <1>4. Down'
    BY <1>1, <1>2, SMT
       DEF IInv, Down, NoExec, NoGen, BecomesDue, flags, queues, runner, results
  <1>5. Modes'
    BY <1>1, <1>2, SMT
       DEF IInv, Modes, Typed, Down, Running, Yielding, Allowed, Extraction,
           RunnerIsReleased, NoExec, NoPlan, BecomesDue, flags, queues, runner,
           results
  <1>6. Ordered'
    BY <1>1, <1>2, SMT
       DEF IInv, Ordered, Answers, Preparing, Finalizing, Prepared, Finalized,
           BecomesDue, flags, queues, runner, results
  <1>7. Tokens'
    BY <1>1, <1>2, SMT
       DEF IInv, Tokens, PrepareAnswers, FinalAnswers, Finals, Outcomes, NoExec,
           Running, BecomesDue, flags, queues, runner, results
  <1>8. Rows'
    BY <1>1, <1>2, SMT
       DEF IInv, Rows, PrepareAnswers, FinalAnswers, Outcomes, Finals, Running,
           EventTyped, BecomesDue, flags, queues, runner, results
  <1>9. Attempts'
    BY <1>1, <1>2, SMT
       DEF IInv, Attempts, Running, Finals, NoExec, FailedAfterAttempts, BecomesDue,
           flags, queues, runner, results
  <1>10. Driven'
    BY <1>1, <1>2, SMT
       DEF IInv, Driven, PreparePending, Running, NoExec, PrepareAnswers,
           FinalAnswers, Finals, Outcomes, BecomesDue, flags, queues, runner, results
  <1>11. Generates'
    BY <1>1, <1>2, SMT
       DEF IInv, Generates, PreparePending, Running, NoExec, NoGen, PrepareAnswers,
           FinalAnswers, Finals, Outcomes, BecomesDue, flags, queues, runner, results
  <1>12. Reports'
    BY <1>1, <1>2, SMT
       DEF IInv, Reports, OutcomesOf, EndsOf, Claims, Outcomes, NoGen, BecomesDue,
           flags, queues, runner, results
  <1>13. Writing'
    BY <1>1, <1>2, SMT
       DEF IInv, Writing, Executing, Job, Arg, Typed, BecomesDue, flags, queues,
           runner, results
  <1>14. Cursor'
    BY <1>1, <1>2, SMT
       DEF IInv, Cursor, Writing, Typed, Executing, Job, Arg, Extraction, Running,
           PreparePending, PrepareAnswers, FinalAnswers, Outcomes, Finals, BecomesDue,
           flags, queues, runner, results
  <1> QED  BY <1>3, <1>4, <1>5, <1>6, <1>7, <1>8, <1>9, <1>10, <1>11, <1>12, <1>13, <1>14 DEF IInv

\* Nothing happens.
LEMMA StutterStep ==
  ASSUME IInv, UNCHANGED vars
  PROVE  IInv'
  <1>1. /\ UNCHANGED dataQ => UNCHANGED Queued
        /\ UNCHANGED mainQ => UNCHANGED Posted
    BY DEF Queued, Posted
  <1>2. /\ \A o \in Queued : OpTyped(o) /\ o \in OpRecs
        /\ \A e \in Posted : EventTyped(e) /\ e \in EventRecs
    BY AllTyped
  <1>3. Typed'
    BY NothingIsTyped DEF IInv, Typed, Phases, vars, world, flags, results
  <1>4. Down'
    BY <1>1, <1>2, SMT DEF IInv, Down, NoExec, NoGen, vars, world, flags, results
  <1>5. Modes'
    BY <1>1, <1>2, SMT
       DEF IInv, Modes, Typed, Down, Running, Yielding, Allowed, Extraction,
           RunnerIsReleased, NoExec, NoPlan, vars, world, flags, results
  <1>6. Ordered'
    BY <1>1, <1>2, SMT
       DEF IInv, Ordered, Answers, Preparing, Finalizing, Prepared, Finalized, vars,
           world, flags, results
  <1>7. Tokens'
    BY <1>1, <1>2, SMT
       DEF IInv, Tokens, PrepareAnswers, FinalAnswers, Finals, Outcomes, NoExec,
           Running, vars, world, flags, results
  <1>8. Rows'
    BY <1>1, <1>2, SMT
       DEF IInv, Rows, PrepareAnswers, FinalAnswers, Outcomes, Finals, Running,
           EventTyped, vars, world, flags, results
  <1>9. Attempts'
    BY <1>1, <1>2, SMT
       DEF IInv, Attempts, Running, Finals, NoExec, FailedAfterAttempts, vars, world,
           flags, results
  <1>10. Driven'
    BY <1>1, <1>2, SMT
       DEF IInv, Driven, PreparePending, Running, NoExec, PrepareAnswers,
           FinalAnswers, Finals, Outcomes, vars, world, flags, results
  <1>11. Generates'
    BY <1>1, <1>2, SMT
       DEF IInv, Generates, PreparePending, Running, NoExec, NoGen, PrepareAnswers,
           FinalAnswers, Finals, Outcomes, vars, world, flags, results
  <1>12. Reports'
    BY <1>1, <1>2, SMT
       DEF IInv, Reports, OutcomesOf, EndsOf, Claims, Outcomes, NoGen, vars, world,
           flags, results
  <1>13. Writing'
    BY <1>1, <1>2, SMT
       DEF IInv, Writing, Executing, Job, Arg, Typed, vars, world, flags, results
  <1>14. Cursor'
    BY <1>1, <1>2, SMT
       DEF IInv, Cursor, Writing, Typed, Executing, Job, Arg, Extraction, Running,
           PreparePending, PrepareAnswers, FinalAnswers, Outcomes, Finals, vars,
           world, flags, results
  <1> QED  BY <1>3, <1>4, <1>5, <1>6, <1>7, <1>8, <1>9, <1>10, <1>11, <1>12, <1>13, <1>14 DEF IInv

\* recover_jobs puts the running rows back.
LEMMA DoRecoverStep ==
  ASSUME IInv, DoRecover
  PROVE  IInv'
  <1>1. Event("recovered", NoJob, NoArg) \in EventRecs
    BY DEF EventRecs, Event
  <1>2. /\ OpTaken /\ TakenInTurn /\ EventPosted(Event("recovered", NoJob, NoArg))
        /\ PostedInOrder(Event("recovered", NoJob, NoArg))
        /\ Head(dataQ) \in Queued /\ Head(dataQ).op = "recover" /\ opStep' = "start"
    BY <1>1, AnswerIs DEF DoRecover
  <1>3. OperationFrame /\ UNCHANGED <<latest, covered, noted>>
    BY OperationIs DEF DoRecover, results
  <1>4. Queued' = {} /\ recovering /\ \A e \in Posted : e \notin Answers
    BY <1>2, WhileRecovering, AllTyped DEF IInv, Ordered, Tokens, TakenInTurn, OpTaken
  <1>5. UNCHANGED <<status, attempts, due>>
    BY <1>4 DEF DoRecover, StoreRecover, IInv, Rows, Typed
  <1>6. /\ UNCHANGED dataQ => UNCHANGED Queued
        /\ UNCHANGED mainQ => UNCHANGED Posted
    BY DEF Queued, Posted
  <1>7. /\ \A o \in Queued : OpTyped(o) /\ o \in OpRecs
        /\ \A e \in Posted : EventTyped(e) /\ e \in EventRecs
    BY AllTyped
  <1>8. Typed'
    BY <1>1, <1>2, <1>3, <1>4, <1>5, NothingIsTyped
       DEF IInv, Typed, EventPosted, OpTaken, OperationFrame, Phases, Event
  <1>9. Down'
    BY <1>1, <1>2, <1>3, <1>4, <1>5, <1>6, <1>7, SMT
       DEF IInv, Down, EventPosted, OpTaken, OperationFrame, NoExec, NoGen, Event
  <1>10. Modes'
    BY <1>1, <1>2, <1>3, <1>4, <1>5, <1>6, <1>7, SMT
       DEF IInv, Modes, EventPosted, OpTaken, OperationFrame, Typed, Down, Running,
           Yielding, Allowed, Extraction, RunnerIsReleased, NoExec, NoPlan, Event
  <1>11. Ordered'
    BY <1>1, <1>2, <1>3, <1>4, <1>5, <1>6, <1>7, SMT
       DEF IInv, Ordered, EventPosted, OpTaken, OperationFrame, PostedInOrder,
           TakenInTurn, Answers, Preparing, Finalizing, Prepared, Finalized, Event
  <1>12. Tokens'
    BY <1>1, <1>2, <1>3, <1>4, <1>5, <1>6, <1>7, SMT
       DEF IInv, Tokens, EventPosted, OpTaken, OperationFrame, PrepareAnswers,
           FinalAnswers, Finals, Outcomes, NoExec, Running, Answers, DataEvents, Event
  <1>13. Rows'
    BY <1>1, <1>2, <1>3, <1>4, <1>5, <1>6, <1>7, SMT
       DEF IInv, Rows, EventPosted, OpTaken, OperationFrame, PrepareAnswers,
           FinalAnswers, Outcomes, Finals, Running, EventTyped, Answers, DataEvents,
           Event
  <1>14. Attempts'
    BY <1>1, <1>2, <1>3, <1>4, <1>5, <1>6, <1>7, SMT
       DEF IInv, Attempts, EventPosted, OpTaken, OperationFrame, Running, Finals,
           NoExec, FailedAfterAttempts, Answers, DataEvents, Event
  <1>15. Driven'
    BY <1>1, <1>2, <1>3, <1>4, <1>5, <1>6, <1>7, SMT
       DEF IInv, Driven, EventPosted, OpTaken, OperationFrame, PreparePending,
           Running, NoExec, PrepareAnswers, FinalAnswers, Finals, Outcomes, Answers,
           DataEvents, Event
  <1>16. Generates'
    BY <1>1, <1>2, <1>3, <1>4, <1>5, <1>6, <1>7, SMT
       DEF IInv, Generates, EventPosted, OpTaken, OperationFrame, PreparePending,
           Running, NoExec, NoGen, PrepareAnswers, FinalAnswers, Finals, Outcomes,
           Answers, DataEvents, Event
  <1>17. Reports'
    BY <1>1, <1>2, <1>3, <1>4, <1>5, <1>6, <1>7, SMT
       DEF IInv, Reports, EventPosted, OpTaken, OperationFrame, PostedInOrder,
           TakenInTurn, OutcomesOf, EndsOf, Claims, Outcomes, NoGen, Event
  <1>18. Writing'
    BY <1>1, <1>2, <1>3, <1>4, <1>5, <1>6, <1>7, SMT
       DEF IInv, Writing, EventPosted, OpTaken, OperationFrame, Executing, Job, Arg,
           Typed, Event
  <1>19. Cursor'
    BY <1>1, <1>2, <1>3, <1>4, <1>5, <1>6, <1>7, SMT
       DEF IInv, Cursor, EventPosted, OpTaken, OperationFrame, Writing, Typed,
           Executing, Job, Arg, Extraction, Running, PreparePending, PrepareAnswers,
           FinalAnswers, Outcomes, Finals, Answers, DataEvents, Event
  <1> QED  BY <1>8, <1>9, <1>10, <1>11, <1>12, <1>13, <1>14, <1>15, <1>16, <1>17, <1>18,
              <1>19 DEF IInv

\* claim_next takes a queued row, or finds none.
LEMMA DoClaimStep ==
  ASSUME IInv, DoClaim
  PROVE  IInv'
  <1>1. Event("claimed", NoJob, NoArg) \in EventRecs /\ \A j \in Jobs,
        n \in Nat : Event("claimed", j, [attempt |-> n]) \in EventRecs
    BY DEF EventRecs, Event
  <1>2. OperationFrame /\ UNCHANGED <<latest, covered, noted>>
    BY OperationIs DEF DoClaim, results
  <1>3. Head(dataQ) \in Queued /\ Head(dataQ).op = "claim"
    BY FirstOp DEF DoClaim, Executing
  <1>4. claimInFlight /\ ~recovering /\ current = NoExec /\ \A o \in Queued : o.op = "claim"
    BY <1>3, WhileClaiming DEF IInv, Tokens
  <1>5. \A e \in Posted : e \notin Answers
    BY <1>3, <1>4, WhileClaiming DEF IInv, Ordered
  <1>6. /\ UNCHANGED dataQ => UNCHANGED Queued
        /\ UNCHANGED mainQ => UNCHANGED Posted
    BY DEF Queued, Posted
  <1>7. /\ \A o \in Queued : OpTyped(o) /\ o \in OpRecs
        /\ \A e \in Posted : EventTyped(e) /\ e \in EventRecs
    BY AllTyped
  <1>8. ASSUME NEW j \in Jobs, Ready(j), StoreClaim(j),
               Answer(Event("claimed", j, [attempt |-> attempts'[j]]))
       PROVE  IInv'
    <2>1. /\ status' = [status EXCEPT ![j] = "running"] /\ status[j] \in {"pending", "retry"}
          /\ attempts' = [attempts EXCEPT ![j] = attempts[j] + 1] /\ due' = due
                /\ attempts'[j] \in Nat
      BY <1>8 DEF Ready, StoreClaim, IInv, Typed
    <2>2. /\ OpTaken /\ TakenInTurn /\ EventPosted(Event("claimed", j, [attempt |-> attempts'[j]]))
          /\ PostedInOrder(Event("claimed", j, [attempt |-> attempts'[j]])) /\ opStep' = "start"
      BY <1>8, <1>1, <1>3, <2>1, AnswerIs DEF DoClaim
    <2>3. Queued' = {}
      BY <1>4, <2>2, WhileClaiming DEF OpTaken, TakenInTurn
    <2>4. Typed'
      BY <1>1, <1>2, <1>3, <1>4, <1>5, <1>8, <2>1, <2>2, <2>3, NothingIsTyped
         DEF IInv, Typed, EventPosted, OpTaken, OperationFrame, Phases, Event,
             Statuses
    <2>5. Down'
      BY <1>1, <1>2, <1>3, <1>4, <1>5, <1>6, <1>7, <1>8, <2>1, <2>2, <2>3, SMT
         DEF IInv, Down, EventPosted, OpTaken, OperationFrame, NoExec, NoGen, Event,
             Statuses
    <2>6. Modes'
      BY <1>1, <1>2, <1>3, <1>4, <1>5, <1>6, <1>7, <1>8, <2>1, <2>2, <2>3, SMT
         DEF IInv, Modes, EventPosted, OpTaken, OperationFrame, Typed, Down, Running,
             Yielding, Allowed, Extraction, RunnerIsReleased, NoExec, NoPlan, Event,
             Statuses
    <2>7. Ordered'
      BY <1>1, <1>2, <1>3, <1>4, <1>5, <1>6, <1>7, <1>8, <2>1, <2>2, <2>3, SMT
         DEF IInv, Ordered, EventPosted, OpTaken, OperationFrame, PostedInOrder,
             TakenInTurn, Answers, Preparing, Finalizing, Prepared, Finalized, Event,
             Statuses
    <2>8. Tokens'
      BY <1>1, <1>2, <1>3, <1>4, <1>5, <1>6, <1>7, <1>8, <2>1, <2>2, <2>3, SMT
         DEF IInv, Tokens, EventPosted, OpTaken, OperationFrame, PrepareAnswers,
             FinalAnswers, Finals, Outcomes, NoExec, Running, Answers, DataEvents,
             Event, Statuses
    <2>9. Rows'
      BY <1>1, <1>2, <1>3, <1>4, <1>5, <1>6, <1>7, <1>8, <2>1, <2>2, <2>3, SMT
         DEF IInv, Rows, EventPosted, OpTaken, OperationFrame, PrepareAnswers,
             FinalAnswers, Outcomes, Finals, Running, EventTyped, Answers, DataEvents,
             Event, Statuses, Typed, NoExec
    <2>10. Attempts'
      BY <1>1, <1>2, <1>3, <1>4, <1>5, <1>6, <1>7, <1>8, <2>1, <2>2, <2>3, SMT
         DEF IInv, Attempts, EventPosted, OpTaken, OperationFrame, Running, Finals,
             NoExec, FailedAfterAttempts, Answers, DataEvents, Event, Statuses, Typed
    <2>11. Driven'
      BY <1>1, <1>2, <1>3, <1>4, <1>5, <1>6, <1>7, <1>8, <2>1, <2>2, <2>3, SMT
         DEF IInv, Driven, EventPosted, OpTaken, OperationFrame, PreparePending,
             Running, NoExec, PrepareAnswers, FinalAnswers, Finals, Outcomes, Answers,
             DataEvents, Event, Statuses
    <2>12. Generates'
      BY <1>1, <1>2, <1>3, <1>4, <1>5, <1>6, <1>7, <1>8, <2>1, <2>2, <2>3, SMT
         DEF IInv, Generates, EventPosted, OpTaken, OperationFrame, PreparePending,
             Running, NoExec, NoGen, PrepareAnswers, FinalAnswers, Finals, Outcomes,
             Answers, DataEvents, Event, Statuses
    <2>13. Reports'
      BY <1>1, <1>2, <1>3, <1>4, <1>5, <1>6, <1>7, <1>8, <2>1, <2>2, <2>3, SMT
         DEF IInv, Reports, EventPosted, OpTaken, OperationFrame, PostedInOrder,
             TakenInTurn, OutcomesOf, EndsOf, Claims, Outcomes, NoGen, Event,
             Statuses, Generates
    <2>14. Writing'
      BY <1>1, <1>2, <1>3, <1>4, <1>5, <1>6, <1>7, <1>8, <2>1, <2>2, <2>3, SMT
         DEF IInv, Writing, EventPosted, OpTaken, OperationFrame, Executing, Job, Arg,
             Typed, Event, Statuses
    <2>15. Cursor'
      BY <1>1, <1>2, <1>3, <1>4, <1>5, <1>6, <1>7, <1>8, <2>1, <2>2, <2>3, SMT
         DEF IInv, Cursor, EventPosted, OpTaken, OperationFrame, Writing, Typed,
             Executing, Job, Arg, Extraction, Running, PreparePending, PrepareAnswers,
             FinalAnswers, Outcomes, Finals, Answers, DataEvents, Event, Statuses
    <2> QED  BY <2>4, <2>5, <2>6, <2>7, <2>8, <2>9, <2>10, <2>11, <2>12, <2>13, <2>14,
                <2>15 DEF IInv
  <1>9. ASSUME UNCHANGED <<status, attempts, due>>, Answer(Event("claimed", NoJob, NoArg))
       PROVE  IInv'
    <2>1. /\ OpTaken /\ TakenInTurn /\ EventPosted(Event("claimed", NoJob, NoArg))
          /\ PostedInOrder(Event("claimed", NoJob, NoArg)) /\ opStep' = "start"
      BY <1>9, <1>1, <1>3, AnswerIs DEF DoClaim
    <2>2. Queued' = {}
      BY <1>4, <2>1, WhileClaiming DEF OpTaken, TakenInTurn
    <2>3. Typed'
      BY <1>1, <1>2, <1>3, <1>4, <1>5, <1>9, <2>1, <2>2, NothingIsTyped
         DEF IInv, Typed, EventPosted, OpTaken, OperationFrame, Phases, Event
    <2>4. Down'
      BY <1>1, <1>2, <1>3, <1>4, <1>5, <1>6, <1>7, <1>9, <2>1, <2>2, SMT
         DEF IInv, Down, EventPosted, OpTaken, OperationFrame, NoExec, NoGen, Event
    <2>5. Modes'
      BY <1>1, <1>2, <1>3, <1>4, <1>5, <1>6, <1>7, <1>9, <2>1, <2>2, SMT
         DEF IInv, Modes, EventPosted, OpTaken, OperationFrame, Typed, Down, Running,
             Yielding, Allowed, Extraction, RunnerIsReleased, NoExec, NoPlan, Event
    <2>6. Ordered'
      BY <1>1, <1>2, <1>3, <1>4, <1>5, <1>6, <1>7, <1>9, <2>1, <2>2, SMT
         DEF IInv, Ordered, EventPosted, OpTaken, OperationFrame, PostedInOrder,
             TakenInTurn, Answers, Preparing, Finalizing, Prepared, Finalized, Event
    <2>7. Tokens'
      BY <1>1, <1>2, <1>3, <1>4, <1>5, <1>6, <1>7, <1>9, <2>1, <2>2, SMT
         DEF IInv, Tokens, EventPosted, OpTaken, OperationFrame, PrepareAnswers,
             FinalAnswers, Finals, Outcomes, NoExec, Running, Answers, DataEvents,
             Event
    <2>8. Rows'
      BY <1>1, <1>2, <1>3, <1>4, <1>5, <1>6, <1>7, <1>9, <2>1, <2>2, SMT
         DEF IInv, Rows, EventPosted, OpTaken, OperationFrame, PrepareAnswers,
             FinalAnswers, Outcomes, Finals, Running, EventTyped, Answers, DataEvents,
             Event, Typed, NoExec
    <2>9. Attempts'
      BY <1>1, <1>2, <1>3, <1>4, <1>5, <1>6, <1>7, <1>9, <2>1, <2>2, SMT
         DEF IInv, Attempts, EventPosted, OpTaken, OperationFrame, Running, Finals,
             NoExec, FailedAfterAttempts, Answers, DataEvents, Event, Typed
    <2>10. Driven'
      BY <1>1, <1>2, <1>3, <1>4, <1>5, <1>6, <1>7, <1>9, <2>1, <2>2, SMT
         DEF IInv, Driven, EventPosted, OpTaken, OperationFrame, PreparePending,
             Running, NoExec, PrepareAnswers, FinalAnswers, Finals, Outcomes, Answers,
             DataEvents, Event
    <2>11. Generates'
      BY <1>1, <1>2, <1>3, <1>4, <1>5, <1>6, <1>7, <1>9, <2>1, <2>2, SMT
         DEF IInv, Generates, EventPosted, OpTaken, OperationFrame, PreparePending,
             Running, NoExec, NoGen, PrepareAnswers, FinalAnswers, Finals, Outcomes,
             Answers, DataEvents, Event
    <2>12. Reports'
      BY <1>1, <1>2, <1>3, <1>4, <1>5, <1>6, <1>7, <1>9, <2>1, <2>2, SMT
         DEF IInv, Reports, EventPosted, OpTaken, OperationFrame, PostedInOrder,
             TakenInTurn, OutcomesOf, EndsOf, Claims, Outcomes, NoGen, Event,
             Generates
    <2>13. Writing'
      BY <1>1, <1>2, <1>3, <1>4, <1>5, <1>6, <1>7, <1>9, <2>1, <2>2, SMT
         DEF IInv, Writing, EventPosted, OpTaken, OperationFrame, Executing, Job, Arg,
             Typed, Event
    <2>14. Cursor'
      BY <1>1, <1>2, <1>3, <1>4, <1>5, <1>6, <1>7, <1>9, <2>1, <2>2, SMT
         DEF IInv, Cursor, EventPosted, OpTaken, OperationFrame, Writing, Typed,
             Executing, Job, Arg, Extraction, Running, PreparePending, PrepareAnswers,
             FinalAnswers, Outcomes, Finals, Answers, DataEvents, Event
    <2> QED  BY <2>3, <2>4, <2>5, <2>6, <2>7, <2>8, <2>9, <2>10, <2>11, <2>12, <2>13, <2>14 DEF IInv
  <1> QED  BY <1>1, <1>2, <1>3, <1>4, <1>5, <1>6, <1>7, <1>8, <1>9 DEF DoClaim, store

\* The input of a job is loaded, or there is nothing to do.
LEMMA DoPrepareStep ==
  ASSUME IInv, DoPrepare
  PROVE  IInv'
  <1>1. /\ Head(dataQ) \in Queued /\ Head(dataQ).op = "prepare" /\ Job \in Jobs
              /\ Job = Head(dataQ).job
        /\ up
    BY FirstOp, AllTyped DEF DoPrepare, Executing, OpTyped, Job, IInv, Down
  <1>2. \E e \in EventRecs : /\ Answer(e) /\ e.ev \in PrepareAnswers /\ e.job = Job
                                /\ (e.ev = "prepared" /\ ~Extraction(Job) => e.arg.base = covered)
    <2>1. /\ Event("nothing", Job, NoArg) \in EventRecs
          /\ Event("failed:prepare", Job, NoArg) \in EventRecs
          /\ \A plan \in Plans : Event("prepared", Job, plan) \in EventRecs
      BY <1>1 DEF EventRecs, Event
    <2>2. NoPlan \in Plans /\ [base |-> covered, through |-> latest] \in Plans
      BY DEF NoPlan, Plans, IInv, Typed
    <2>3. CASE Extraction(Job)
      BY <2>1, <2>2, <2>3 DEF DoPrepare, PrepareExtraction, Event, PrepareAnswers
    <2>4. CASE ~Extraction(Job)
      <3> DEFINE plan == [base |-> covered, through |-> latest]
      <3>1. CASE Answer(Event("prepared", Job, plan))
        BY <2>1, <2>2, <3>1 DEF Event, PrepareAnswers
      <3>2. CASE Answer(Event("nothing", Job, NoArg))
        BY <2>1, <3>2 DEF Event, PrepareAnswers
      <3> QED  BY <2>4, <3>1, <3>2 DEF DoPrepare, PrepareSummary
    <2> QED  BY <2>3, <2>4
  <1>3. OperationFrame /\ UNCHANGED <<status, attempts, due, latest, covered, noted>>
    BY OperationIs DEF DoPrepare, results, store
  <1>4. \A e \in Posted : e \notin Answers
    BY <1>1, AllTyped DEF IInv, Ordered, Finalizing, Finals
  <1>5. /\ UNCHANGED dataQ => UNCHANGED Queued
        /\ UNCHANGED mainQ => UNCHANGED Posted
    BY DEF Queued, Posted
  <1>6. /\ \A o \in Queued : OpTyped(o) /\ o \in OpRecs
        /\ \A e \in Posted : EventTyped(e) /\ e \in EventRecs
    BY AllTyped
  <1>7. ASSUME NEW e \in EventRecs, Answer(e), e.ev \in PrepareAnswers, e.job = Job,
               e.ev = "prepared" /\ ~Extraction(Job) => e.arg.base = covered
       PROVE  IInv'
    <2>1. /\ OpTaken /\ TakenInTurn /\ EventPosted(e) /\ PostedInOrder(e) /\ opStep' = "start"
      BY <1>7, AnswerIs DEF DoPrepare
    <2>2. Typed'
      BY <1>1, <1>2, <1>3, <1>4, <1>7, <2>1, NothingIsTyped
         DEF IInv, Typed, EventPosted, OpTaken, OperationFrame, Phases
    <2>3. Down'
      BY <1>1, <1>2, <1>3, <1>4, <1>5, <1>6, <1>7, <2>1, SMT
         DEF IInv, Down, EventPosted, OpTaken, OperationFrame, NoExec, NoGen
    <2>4. Modes'
      BY <1>1, <1>2, <1>3, <1>4, <1>5, <1>6, <1>7, <2>1, SMT
         DEF IInv, Modes, EventPosted, OpTaken, OperationFrame, Typed, Down, Running,
             Yielding, Allowed, Extraction, RunnerIsReleased, NoExec, NoPlan
    <2>5. Ordered'
      BY <1>1, <1>2, <1>3, <1>4, <1>5, <1>6, <1>7, <2>1, SMT
         DEF IInv, Ordered, EventPosted, OpTaken, OperationFrame, PostedInOrder,
             TakenInTurn, Answers, Preparing, Finalizing, Prepared, Finalized
    <2>6. Tokens'
      BY <1>1, <1>2, <1>3, <1>4, <1>5, <1>6, <1>7, <2>1, SMT
         DEF IInv, Tokens, EventPosted, OpTaken, OperationFrame, PrepareAnswers,
             FinalAnswers, Finals, Outcomes, NoExec, Running, Answers, DataEvents
    <2>7. Rows'
      BY <1>1, <1>2, <1>3, <1>4, <1>5, <1>6, <1>7, <2>1, SMT
         DEF IInv, Rows, EventPosted, OpTaken, OperationFrame, PrepareAnswers,
             FinalAnswers, Outcomes, Finals, Running, EventTyped, Answers, DataEvents
    <2>8. Attempts'
      BY <1>1, <1>2, <1>3, <1>4, <1>5, <1>6, <1>7, <2>1, SMT
         DEF IInv, Attempts, EventPosted, OpTaken, OperationFrame, Running, Finals,
             NoExec, FailedAfterAttempts, Answers, DataEvents
    <2>9. Driven'
      BY <1>1, <1>2, <1>3, <1>4, <1>5, <1>6, <1>7, <2>1, SMT
         DEF IInv, Driven, EventPosted, OpTaken, OperationFrame, PreparePending,
             Running, NoExec, PrepareAnswers, FinalAnswers, Finals, Outcomes, Answers,
             DataEvents
    <2>10. Generates'
      BY <1>1, <1>2, <1>3, <1>4, <1>5, <1>6, <1>7, <2>1, SMT
         DEF IInv, Generates, EventPosted, OpTaken, OperationFrame, PreparePending,
             Running, NoExec, NoGen, PrepareAnswers, FinalAnswers, Finals, Outcomes,
             Answers, DataEvents
    <2>11. Reports'
      BY <1>1, <1>2, <1>3, <1>4, <1>5, <1>6, <1>7, <2>1, SMT
         DEF IInv, Reports, EventPosted, OpTaken, OperationFrame, PostedInOrder,
             TakenInTurn, OutcomesOf, EndsOf, Claims, Outcomes, NoGen, PrepareAnswers,
             FinalAnswers
    <2>12. Writing'
      BY <1>1, <1>2, <1>3, <1>4, <1>5, <1>6, <1>7, <2>1, SMT
         DEF IInv, Writing, EventPosted, OpTaken, OperationFrame, Executing, Job, Arg,
             Typed
    <2>13. Cursor'
      BY <1>1, <1>2, <1>3, <1>4, <1>5, <1>6, <1>7, <2>1, SMT
         DEF IInv, Cursor, EventPosted, OpTaken, OperationFrame, Writing, Typed,
             Executing, Job, Arg, Extraction, Running, PreparePending, PrepareAnswers,
             FinalAnswers, Outcomes, Finals, Answers, DataEvents
    <2> QED  BY <2>2, <2>3, <2>4, <2>5, <2>6, <2>7, <2>8, <2>9, <2>10, <2>11, <2>12, <2>13 DEF IInv
  <1> QED  BY <1>2, <1>7

\* The result is checked against the coverage.
LEMMA CheckBeforeWriteStep ==
  ASSUME IInv, CheckBeforeWrite
  PROVE  IInv'
  <1>1. /\ OperationFrame /\ UNCHANGED <<status, attempts, due, latest, covered, noted, dataQ,
                                         mainQ>>
        /\ Executing("persist") /\ opStep = "start" /\ opStep' \in {"checked", "written"}
        /\ opStep' = "checked" /\ ~Extraction(Job) => covered < Arg.through
    BY OperationIs DEF CheckBeforeWrite, results, store
  <1>2. Head(dataQ) \in Queued /\ up
    BY <1>1, FirstOp DEF Executing, IInv, Down
  <1>3. /\ UNCHANGED dataQ => UNCHANGED Queued
        /\ UNCHANGED mainQ => UNCHANGED Posted
    BY DEF Queued, Posted
  <1>4. /\ \A o \in Queued : OpTyped(o) /\ o \in OpRecs
        /\ \A e \in Posted : EventTyped(e) /\ e \in EventRecs
    BY AllTyped
  <1>5. Typed'
    BY <1>1, <1>2, NothingIsTyped DEF IInv, Typed, OperationFrame, Phases
  <1>6. Down'
    BY <1>1, <1>2, <1>3, <1>4, SMT DEF IInv, Down, OperationFrame, NoExec, NoGen
  <1>7. Modes'
    BY <1>1, <1>2, <1>3, <1>4, SMT
       DEF IInv, Modes, OperationFrame, Typed, Down, Running, Yielding, Allowed,
           Extraction, RunnerIsReleased, NoExec, NoPlan
  <1>8. Ordered'
    BY <1>1, <1>2, <1>3, <1>4, SMT
       DEF IInv, Ordered, OperationFrame, Answers, Preparing, Finalizing, Prepared,
           Finalized
  <1>9. Tokens'
    BY <1>1, <1>2, <1>3, <1>4, SMT
       DEF IInv, Tokens, OperationFrame, PrepareAnswers, FinalAnswers, Finals,
           Outcomes, NoExec, Running
  <1>10. Rows'
    BY <1>1, <1>2, <1>3, <1>4, SMT
       DEF IInv, Rows, OperationFrame, PrepareAnswers, FinalAnswers, Outcomes, Finals,
           Running, EventTyped
  <1>11. Attempts'
    BY <1>1, <1>2, <1>3, <1>4, SMT
       DEF IInv, Attempts, OperationFrame, Running, Finals, NoExec,
           FailedAfterAttempts
  <1>12. Driven'
    BY <1>1, <1>2, <1>3, <1>4, SMT
       DEF IInv, Driven, OperationFrame, PreparePending, Running, NoExec,
           PrepareAnswers, FinalAnswers, Finals, Outcomes
  <1>13. Generates'
    BY <1>1, <1>2, <1>3, <1>4, SMT
       DEF IInv, Generates, OperationFrame, PreparePending, Running, NoExec, NoGen,
           PrepareAnswers, FinalAnswers, Finals, Outcomes
  <1>14. Reports'
    BY <1>1, <1>2, <1>3, <1>4, SMT
       DEF IInv, Reports, OperationFrame, OutcomesOf, EndsOf, Claims, Outcomes, NoGen
  <1>15. Writing'
    BY <1>1, <1>2, <1>3, <1>4, SMT
       DEF IInv, Writing, OperationFrame, Executing, Job, Arg, Typed
  <1>16. Cursor'
    BY <1>1, <1>2, <1>3, <1>4, SMT
       DEF IInv, Cursor, OperationFrame, Writing, Typed, Executing, Job, Arg,
           Extraction, Running, PreparePending, PrepareAnswers, FinalAnswers,
           Outcomes, Finals
  <1> QED  BY <1>5, <1>6, <1>7, <1>8, <1>9, <1>10, <1>11, <1>12, <1>13, <1>14, <1>15, <1>16 DEF IInv

\* The result is written.
LEMMA WriteResultStep ==
  ASSUME IInv, WriteResult
  PROVE  IInv'
  <1>1. /\ OperationFrame /\ UNCHANGED <<status, attempts, due, latest, dataQ, mainQ>>
        /\ Executing("persist") /\ opStep = "checked" /\ opStep' = "written"
    BY OperationIs DEF WriteResult, results, store
  <1>2. /\ Head(dataQ) \in Queued /\ Job \in Jobs /\ Arg \in Plans /\ Head(dataQ).op = "persist"
        /\ Job = Head(dataQ).job /\ Arg = Head(dataQ).arg
    BY <1>1, FirstOp, AllTyped DEF Executing, OpTyped, Job, Arg, Finals
  <1>3. status[Job] = "running"
    BY <1>2 DEF IInv, Rows, Finals
  <1>4. /\ UNCHANGED dataQ => UNCHANGED Queued
        /\ UNCHANGED mainQ => UNCHANGED Posted
    BY DEF Queued, Posted
  <1>5. /\ \A o \in Queued : OpTyped(o) /\ o \in OpRecs
        /\ \A e \in Posted : EventTyped(e) /\ e \in EventRecs
    BY AllTyped
  <1>6. ASSUME Extraction(Job), covered' = covered, noted' = [noted EXCEPT ![Job] = noted[Job] + 1]
       PROVE  IInv'
    <2>1. Typed'
      BY <1>1, <1>2, <1>3, <1>6, NothingIsTyped
         DEF IInv, Typed, OperationFrame, Phases, Plans
    <2>2. Down'
      BY <1>1, <1>2, <1>3, <1>4, <1>5, <1>6, SMT
         DEF IInv, Down, OperationFrame, NoExec, NoGen
    <2>3. Modes'
      BY <1>1, <1>2, <1>3, <1>4, <1>5, <1>6, SMT
         DEF IInv, Modes, OperationFrame, Typed, Down, Running, Yielding, Allowed,
             Extraction, RunnerIsReleased, NoExec, NoPlan
    <2>4. Ordered'
      BY <1>1, <1>2, <1>3, <1>4, <1>5, <1>6, SMT
         DEF IInv, Ordered, OperationFrame, Answers, Preparing, Finalizing, Prepared,
             Finalized
    <2>5. Tokens'
      BY <1>1, <1>2, <1>3, <1>4, <1>5, <1>6, SMT
         DEF IInv, Tokens, OperationFrame, PrepareAnswers, FinalAnswers, Finals,
             Outcomes, NoExec, Running
    <2>6. Rows'
      BY <1>1, <1>2, <1>3, <1>4, <1>5, <1>6, SMT
         DEF IInv, Rows, OperationFrame, PrepareAnswers, FinalAnswers, Outcomes,
             Finals, Running, EventTyped
    <2>7. Attempts'
      BY <1>1, <1>2, <1>3, <1>4, <1>5, <1>6, SMT
         DEF IInv, Attempts, OperationFrame, Running, Finals, NoExec,
             FailedAfterAttempts
    <2>8. Driven'
      BY <1>1, <1>2, <1>3, <1>4, <1>5, <1>6, SMT
         DEF IInv, Driven, OperationFrame, PreparePending, Running, NoExec,
             PrepareAnswers, FinalAnswers, Finals, Outcomes
    <2>9. Generates'
      BY <1>1, <1>2, <1>3, <1>4, <1>5, <1>6, SMT
         DEF IInv, Generates, OperationFrame, PreparePending, Running, NoExec, NoGen,
             PrepareAnswers, FinalAnswers, Finals, Outcomes
    <2>10. Reports'
      BY <1>1, <1>2, <1>3, <1>4, <1>5, <1>6, SMT
         DEF IInv, Reports, OperationFrame, OutcomesOf, EndsOf, Claims, Outcomes,
             NoGen
    <2>11. Writing'
      BY <1>1, <1>2, <1>3, <1>4, <1>5, <1>6, SMT
         DEF IInv, Writing, OperationFrame, Executing, Job, Arg, Typed
    <2>12. Cursor'
      BY <1>1, <1>2, <1>3, <1>4, <1>5, <1>6, SMT
         DEF IInv, Cursor, OperationFrame, Writing, Typed, Executing, Job, Arg,
             Extraction, Running, PreparePending, PrepareAnswers, FinalAnswers,
             Outcomes, Finals, Tokens
    <2> QED  BY <2>1, <2>2, <2>3, <2>4, <2>5, <2>6, <2>7, <2>8, <2>9, <2>10, <2>11, <2>12 DEF IInv
  <1>7. ASSUME ~Extraction(Job), noted' = noted, covered' = Arg.through
       PROVE  IInv'
    <2>1. Typed'
      BY <1>1, <1>2, <1>3, <1>7, NothingIsTyped
         DEF IInv, Typed, OperationFrame, Phases, Plans
    <2>2. Down'
      BY <1>1, <1>2, <1>3, <1>4, <1>5, <1>7, SMT
         DEF IInv, Down, OperationFrame, NoExec, NoGen
    <2>3. Modes'
      BY <1>1, <1>2, <1>3, <1>4, <1>5, <1>7, SMT
         DEF IInv, Modes, OperationFrame, Typed, Down, Running, Yielding, Allowed,
             Extraction, RunnerIsReleased, NoExec, NoPlan
    <2>4. Ordered'
      BY <1>1, <1>2, <1>3, <1>4, <1>5, <1>7, SMT
         DEF IInv, Ordered, OperationFrame, Answers, Preparing, Finalizing, Prepared,
             Finalized
    <2>5. Tokens'
      BY <1>1, <1>2, <1>3, <1>4, <1>5, <1>7, SMT
         DEF IInv, Tokens, OperationFrame, PrepareAnswers, FinalAnswers, Finals,
             Outcomes, NoExec, Running
    <2>6. Rows'
      BY <1>1, <1>2, <1>3, <1>4, <1>5, <1>7, SMT
         DEF IInv, Rows, OperationFrame, PrepareAnswers, FinalAnswers, Outcomes,
             Finals, Running, EventTyped
    <2>7. Attempts'
      BY <1>1, <1>2, <1>3, <1>4, <1>5, <1>7, SMT
         DEF IInv, Attempts, OperationFrame, Running, Finals, NoExec,
             FailedAfterAttempts
    <2>8. Driven'
      BY <1>1, <1>2, <1>3, <1>4, <1>5, <1>7, SMT
         DEF IInv, Driven, OperationFrame, PreparePending, Running, NoExec,
             PrepareAnswers, FinalAnswers, Finals, Outcomes
    <2>9. Generates'
      BY <1>1, <1>2, <1>3, <1>4, <1>5, <1>7, SMT
         DEF IInv, Generates, OperationFrame, PreparePending, Running, NoExec, NoGen,
             PrepareAnswers, FinalAnswers, Finals, Outcomes
    <2>10. Reports'
      BY <1>1, <1>2, <1>3, <1>4, <1>5, <1>7, SMT
         DEF IInv, Reports, OperationFrame, OutcomesOf, EndsOf, Claims, Outcomes,
             NoGen
    <2>11. Writing'
      BY <1>1, <1>2, <1>3, <1>4, <1>5, <1>7, SMT
         DEF IInv, Writing, OperationFrame, Executing, Job, Arg, Typed
    <2>12. Cursor'
      BY <1>1, <1>2, <1>3, <1>4, <1>5, <1>7, SMT
         DEF IInv, Cursor, OperationFrame, Writing, Typed, Executing, Job, Arg,
             Extraction, Running, PreparePending, PrepareAnswers, FinalAnswers,
             Outcomes, Finals, Tokens
    <2> QED  BY <2>1, <2>2, <2>3, <2>4, <2>5, <2>6, <2>7, <2>8, <2>9, <2>10, <2>11, <2>12 DEF IInv
  <1> QED  BY <1>1, <1>2, <1>3, <1>4, <1>5, <1>6, <1>7
              DEF WriteResult, ApplyCandidates, SaveSummary

\* The row of the finished job is marked.
LEMMA DoMarkStep ==
  ASSUME IInv, DoMark
  PROVE  IInv'
  <1>1. /\ Head(dataQ) \in Queued /\ Head(dataQ).op \in Finals /\ Job \in Jobs
              /\ Job = Head(dataQ).job
        /\ status[Job] = "running" /\ Executing(Head(dataQ).op) /\ Arg = Head(dataQ).arg
    BY FirstOp, AllTyped DEF DoMark, Executing, OpTyped, Job, Arg, Finals, IInv, Rows
  <1>2. Event("marked", Job, NoArg) \in EventRecs
    BY <1>1 DEF EventRecs, Event, FinalArgs, FinalAnswers
  <1>3. Answer(Event("marked", Job, NoArg))
    BY <1>1 DEF DoMark
  <1>4. /\ OpTaken /\ TakenInTurn /\ EventPosted(Event("marked", Job, NoArg))
        /\ PostedInOrder(Event("marked", Job, NoArg)) /\ opStep' = "start"
    BY <1>1, <1>2, <1>3, AnswerIs
  <1>5. OperationFrame /\ UNCHANGED <<attempts, latest, covered, noted>>
    BY <1>1, OperationIs DEF DoMark, StoreMark, results, store
  <1>6. Queued' = {} /\ \A o \in Queued : o = Head(dataQ)
    BY <1>1, <1>4 DEF TakenInTurn, OpTaken, Preparing, Finals
  <1>7. /\ current.job = Job /\ current.finishing
        /\ \A e \in Posted : e.ev # "claimed" /\ (e \in Answers => e \in Prepared)
    BY <1>1, JobsAssumption DEF IInv, Tokens, Ordered, Modes, NoExec
  <1>8. /\ UNCHANGED dataQ => UNCHANGED Queued
        /\ UNCHANGED mainQ => UNCHANGED Posted
    BY DEF Queued, Posted
  <1>9. /\ \A o \in Queued : OpTyped(o) /\ o \in OpRecs
        /\ \A e \in Posted : EventTyped(e) /\ e \in EventRecs
    BY AllTyped
  <1>10. ASSUME Head(dataQ).op = "retry"
        PROVE  IInv'
    <2>1. status' = [status EXCEPT ![Job] = "retry"] /\ due' = [due EXCEPT ![Job] = Arg.ready]
      BY <1>1, <1>10 DEF DoMark, Executing, StoreMark, Finals
    <2>2. Arg.ready \in BOOLEAN
      BY <1>1, <1>10, AllTyped DEF OpTyped
    <2>3. Typed'
      BY <1>1, <1>2, <1>3, <1>4, <1>5, <1>6, <1>7, <1>10, <2>1, <2>2, NothingIsTyped
         DEF IInv, Typed, EventPosted, OpTaken, OperationFrame, Phases, Event,
             Statuses
    <2>4. Down'
      BY <1>1, <1>2, <1>3, <1>4, <1>5, <1>6, <1>7, <1>8, <1>9, <1>10, <2>1, <2>2, SMT
         DEF IInv, Down, EventPosted, OpTaken, OperationFrame, NoExec, NoGen, Event,
             Statuses
    <2>5. Modes'
      BY <1>1, <1>2, <1>3, <1>4, <1>5, <1>6, <1>7, <1>8, <1>9, <1>10, <2>1, <2>2, SMT
         DEF IInv, Modes, EventPosted, OpTaken, OperationFrame, Typed, Down, Running,
             Yielding, Allowed, Extraction, RunnerIsReleased, NoExec, NoPlan, Event,
             Statuses
    <2>6. Ordered'
      BY <1>1, <1>2, <1>3, <1>4, <1>5, <1>6, <1>7, <1>8, <1>9, <1>10, <2>1, <2>2, SMT
         DEF IInv, Ordered, EventPosted, OpTaken, OperationFrame, PostedInOrder,
             TakenInTurn, Answers, Preparing, Finalizing, Prepared, Finalized, Event,
             Statuses, FinalAnswers
    <2>7. Tokens'
      BY <1>1, <1>2, <1>3, <1>4, <1>5, <1>6, <1>7, <1>8, <1>9, <1>10, <2>1, <2>2, SMT
         DEF IInv, Tokens, EventPosted, OpTaken, OperationFrame, PrepareAnswers,
             FinalAnswers, Finals, Outcomes, NoExec, Running, Answers, DataEvents,
             Event, Statuses
    <2>8. Rows'
      BY <1>1, <1>2, <1>3, <1>4, <1>5, <1>6, <1>7, <1>8, <1>9, <1>10, <2>1, <2>2, SMT
         DEF IInv, Rows, EventPosted, OpTaken, OperationFrame, PrepareAnswers,
             FinalAnswers, Outcomes, Finals, Running, EventTyped, Answers, DataEvents,
             Event, Statuses, Typed, Prepared
    <2>9. Attempts'
      BY <1>1, <1>2, <1>3, <1>4, <1>5, <1>6, <1>7, <1>8, <1>9, <1>10, <2>1, <2>2, SMT
         DEF IInv, Attempts, EventPosted, OpTaken, OperationFrame, Running, Finals,
             NoExec, FailedAfterAttempts, Answers, DataEvents, Event, Statuses
    <2>10. Driven'
      BY <1>1, <1>2, <1>3, <1>4, <1>5, <1>6, <1>7, <1>8, <1>9, <1>10, <2>1, <2>2, SMT
         DEF IInv, Driven, EventPosted, OpTaken, OperationFrame, PreparePending,
             Running, NoExec, PrepareAnswers, FinalAnswers, Finals, Outcomes, Answers,
             DataEvents, Event, Statuses
    <2>11. Generates'
      BY <1>1, <1>2, <1>3, <1>4, <1>5, <1>6, <1>7, <1>8, <1>9, <1>10, <2>1, <2>2, SMT
         DEF IInv, Generates, EventPosted, OpTaken, OperationFrame, PreparePending,
             Running, NoExec, NoGen, PrepareAnswers, FinalAnswers, Finals, Outcomes,
             Answers, DataEvents, Event, Statuses
    <2>12. Reports'
      BY <1>1, <1>2, <1>3, <1>4, <1>5, <1>6, <1>7, <1>8, <1>9, <1>10, <2>1, <2>2, SMT
         DEF IInv, Reports, EventPosted, OpTaken, OperationFrame, PostedInOrder,
             TakenInTurn, OutcomesOf, EndsOf, Claims, Outcomes, NoGen, PrepareAnswers,
             FinalAnswers, Event, Statuses
    <2>13. Writing'
      BY <1>1, <1>2, <1>3, <1>4, <1>5, <1>6, <1>7, <1>8, <1>9, <1>10, <2>1, <2>2, SMT
         DEF IInv, Writing, EventPosted, OpTaken, OperationFrame, Executing, Job, Arg,
             Typed, Event, Statuses
    <2>14. Cursor'
      BY <1>1, <1>2, <1>3, <1>4, <1>5, <1>6, <1>7, <1>8, <1>9, <1>10, <2>1, <2>2, SMT
         DEF IInv, Cursor, EventPosted, OpTaken, OperationFrame, Writing, Typed,
             Executing, Job, Arg, Extraction, Running, PreparePending, PrepareAnswers,
             FinalAnswers, Outcomes, Finals, Answers, DataEvents, Event, Statuses
    <2> QED  BY <2>3, <2>4, <2>5, <2>6, <2>7, <2>8, <2>9, <2>10, <2>11, <2>12, <2>13, <2>14 DEF IInv
  <1>11. ASSUME Head(dataQ).op = "fail"
        PROVE  IInv'
    <2>1. status' = [status EXCEPT ![Job] = "failed"] /\ due' = [due EXCEPT ![Job] = TRUE]
      BY <1>1, <1>11 DEF DoMark, Executing, StoreMark, Finals
    <2>2. Typed'
      BY <1>1, <1>2, <1>3, <1>4, <1>5, <1>6, <1>7, <1>11, <2>1, NothingIsTyped
         DEF IInv, Typed, EventPosted, OpTaken, OperationFrame, Phases, Event,
             Statuses
    <2>3. Down'
      BY <1>1, <1>2, <1>3, <1>4, <1>5, <1>6, <1>7, <1>8, <1>9, <1>11, <2>1, SMT
         DEF IInv, Down, EventPosted, OpTaken, OperationFrame, NoExec, NoGen, Event,
             Statuses
    <2>4. Modes'
      BY <1>1, <1>2, <1>3, <1>4, <1>5, <1>6, <1>7, <1>8, <1>9, <1>11, <2>1, SMT
         DEF IInv, Modes, EventPosted, OpTaken, OperationFrame, Typed, Down, Running,
             Yielding, Allowed, Extraction, RunnerIsReleased, NoExec, NoPlan, Event,
             Statuses
    <2>5. Ordered'
      BY <1>1, <1>2, <1>3, <1>4, <1>5, <1>6, <1>7, <1>8, <1>9, <1>11, <2>1, SMT
         DEF IInv, Ordered, EventPosted, OpTaken, OperationFrame, PostedInOrder,
             TakenInTurn, Answers, Preparing, Finalizing, Prepared, Finalized, Event,
             Statuses, FinalAnswers
    <2>6. Tokens'
      BY <1>1, <1>2, <1>3, <1>4, <1>5, <1>6, <1>7, <1>8, <1>9, <1>11, <2>1, SMT
         DEF IInv, Tokens, EventPosted, OpTaken, OperationFrame, PrepareAnswers,
             FinalAnswers, Finals, Outcomes, NoExec, Running, Answers, DataEvents,
             Event, Statuses
    <2>7. Rows'
      BY <1>1, <1>2, <1>3, <1>4, <1>5, <1>6, <1>7, <1>8, <1>9, <1>11, <2>1, SMT
         DEF IInv, Rows, EventPosted, OpTaken, OperationFrame, PrepareAnswers,
             FinalAnswers, Outcomes, Finals, Running, EventTyped, Answers, DataEvents,
             Event, Statuses, Typed, Prepared
    <2>8. Attempts'
      BY <1>1, <1>2, <1>3, <1>4, <1>5, <1>6, <1>7, <1>8, <1>9, <1>11, <2>1, SMT
         DEF IInv, Attempts, EventPosted, OpTaken, OperationFrame, Running, Finals,
             NoExec, FailedAfterAttempts, Answers, DataEvents, Event, Statuses
    <2>9. Driven'
      BY <1>1, <1>2, <1>3, <1>4, <1>5, <1>6, <1>7, <1>8, <1>9, <1>11, <2>1, SMT
         DEF IInv, Driven, EventPosted, OpTaken, OperationFrame, PreparePending,
             Running, NoExec, PrepareAnswers, FinalAnswers, Finals, Outcomes, Answers,
             DataEvents, Event, Statuses
    <2>10. Generates'
      BY <1>1, <1>2, <1>3, <1>4, <1>5, <1>6, <1>7, <1>8, <1>9, <1>11, <2>1, SMT
         DEF IInv, Generates, EventPosted, OpTaken, OperationFrame, PreparePending,
             Running, NoExec, NoGen, PrepareAnswers, FinalAnswers, Finals, Outcomes,
             Answers, DataEvents, Event, Statuses
    <2>11. Reports'
      BY <1>1, <1>2, <1>3, <1>4, <1>5, <1>6, <1>7, <1>8, <1>9, <1>11, <2>1, SMT
         DEF IInv, Reports, EventPosted, OpTaken, OperationFrame, PostedInOrder,
             TakenInTurn, OutcomesOf, EndsOf, Claims, Outcomes, NoGen, PrepareAnswers,
             FinalAnswers, Event, Statuses
    <2>12. Writing'
      BY <1>1, <1>2, <1>3, <1>4, <1>5, <1>6, <1>7, <1>8, <1>9, <1>11, <2>1, SMT
         DEF IInv, Writing, EventPosted, OpTaken, OperationFrame, Executing, Job, Arg,
             Typed, Event, Statuses
    <2>13. Cursor'
      BY <1>1, <1>2, <1>3, <1>4, <1>5, <1>6, <1>7, <1>8, <1>9, <1>11, <2>1, SMT
         DEF IInv, Cursor, EventPosted, OpTaken, OperationFrame, Writing, Typed,
             Executing, Job, Arg, Extraction, Running, PreparePending, PrepareAnswers,
             FinalAnswers, Outcomes, Finals, Answers, DataEvents, Event, Statuses
    <2> QED  BY <2>2, <2>3, <2>4, <2>5, <2>6, <2>7, <2>8, <2>9, <2>10, <2>11, <2>12, <2>13 DEF IInv
  <1>12. ASSUME Head(dataQ).op \in {"persist", "complete"}
        PROVE  IInv'
    <2>1. status' = [status EXCEPT ![Job] = "completed"] /\ due' = [due EXCEPT ![Job] = TRUE]
      BY <1>1, <1>12 DEF DoMark, Executing, StoreMark, Finals
    <2>2. opStep = "written" => Head(dataQ).op = "persist"
      BY DEF IInv, Writing, Executing
    <2>3. Typed'
      BY <1>1, <1>2, <1>3, <1>4, <1>5, <1>6, <1>7, <1>12, <2>1, <2>2, NothingIsTyped
         DEF IInv, Typed, EventPosted, OpTaken, OperationFrame, Phases, Event,
             Statuses
    <2>4. Down'
      BY <1>1, <1>2, <1>3, <1>4, <1>5, <1>6, <1>7, <1>8, <1>9, <1>12, <2>1, <2>2, SMT
         DEF IInv, Down, EventPosted, OpTaken, OperationFrame, NoExec, NoGen, Event,
             Statuses
    <2>5. Modes'
      BY <1>1, <1>2, <1>3, <1>4, <1>5, <1>6, <1>7, <1>8, <1>9, <1>12, <2>1, <2>2, SMT
         DEF IInv, Modes, EventPosted, OpTaken, OperationFrame, Typed, Down, Running,
             Yielding, Allowed, Extraction, RunnerIsReleased, NoExec, NoPlan, Event,
             Statuses
    <2>6. Ordered'
      BY <1>1, <1>2, <1>3, <1>4, <1>5, <1>6, <1>7, <1>8, <1>9, <1>12, <2>1, <2>2, SMT
         DEF IInv, Ordered, EventPosted, OpTaken, OperationFrame, PostedInOrder,
             TakenInTurn, Answers, Preparing, Finalizing, Prepared, Finalized, Event,
             Statuses, FinalAnswers
    <2>7. Tokens'
      BY <1>1, <1>2, <1>3, <1>4, <1>5, <1>6, <1>7, <1>8, <1>9, <1>12, <2>1, <2>2, SMT
         DEF IInv, Tokens, EventPosted, OpTaken, OperationFrame, PrepareAnswers,
             FinalAnswers, Finals, Outcomes, NoExec, Running, Answers, DataEvents,
             Event, Statuses
    <2>8. Rows'
      BY <1>1, <1>2, <1>3, <1>4, <1>5, <1>6, <1>7, <1>8, <1>9, <1>12, <2>1, <2>2, SMT
         DEF IInv, Rows, EventPosted, OpTaken, OperationFrame, PrepareAnswers,
             FinalAnswers, Outcomes, Finals, Running, EventTyped, Answers, DataEvents,
             Event, Statuses, Typed, Prepared
    <2>9. Attempts'
      BY <1>1, <1>2, <1>3, <1>4, <1>5, <1>6, <1>7, <1>8, <1>9, <1>12, <2>1, <2>2, SMT
         DEF IInv, Attempts, EventPosted, OpTaken, OperationFrame, Running, Finals,
             NoExec, FailedAfterAttempts, Answers, DataEvents, Event, Statuses
    <2>10. Driven'
      BY <1>1, <1>2, <1>3, <1>4, <1>5, <1>6, <1>7, <1>8, <1>9, <1>12, <2>1, <2>2, SMT
         DEF IInv, Driven, EventPosted, OpTaken, OperationFrame, PreparePending,
             Running, NoExec, PrepareAnswers, FinalAnswers, Finals, Outcomes, Answers,
             DataEvents, Event, Statuses
    <2>11. Generates'
      BY <1>1, <1>2, <1>3, <1>4, <1>5, <1>6, <1>7, <1>8, <1>9, <1>12, <2>1, <2>2, SMT
         DEF IInv, Generates, EventPosted, OpTaken, OperationFrame, PreparePending,
             Running, NoExec, NoGen, PrepareAnswers, FinalAnswers, Finals, Outcomes,
             Answers, DataEvents, Event, Statuses
    <2>12. Reports'
      BY <1>1, <1>2, <1>3, <1>4, <1>5, <1>6, <1>7, <1>8, <1>9, <1>12, <2>1, <2>2, SMT
         DEF IInv, Reports, EventPosted, OpTaken, OperationFrame, PostedInOrder,
             TakenInTurn, OutcomesOf, EndsOf, Claims, Outcomes, NoGen, PrepareAnswers,
             FinalAnswers, Event, Statuses
    <2>13. Writing'
      BY <1>1, <1>2, <1>3, <1>4, <1>5, <1>6, <1>7, <1>8, <1>9, <1>12, <2>1, <2>2, SMT
         DEF IInv, Writing, EventPosted, OpTaken, OperationFrame, Executing, Job, Arg,
             Typed, Event, Statuses
    <2>14. Cursor'
      BY <1>1, <1>2, <1>3, <1>4, <1>5, <1>6, <1>7, <1>8, <1>9, <1>12, <2>1, <2>2, SMT
         DEF IInv, Cursor, EventPosted, OpTaken, OperationFrame, Writing, Typed,
             Executing, Job, Arg, Extraction, Running, PreparePending, PrepareAnswers,
             FinalAnswers, Outcomes, Finals, Answers, DataEvents, Event, Statuses
    <2> QED  BY <2>3, <2>4, <2>5, <2>6, <2>7, <2>8, <2>9, <2>10, <2>11, <2>12, <2>13, <2>14 DEF IInv
  <1> QED  BY <1>1, <1>2, <1>3, <1>4, <1>5, <1>6, <1>7, <1>8, <1>9, <1>10, <1>11,
              <1>12
              DEF Finals

\* An operation fails.
LEMMA DataFaultStep ==
  ASSUME IInv, DataFault
  PROVE  IInv'
  <1>1. /\ Head(dataQ) \in Queued /\ dataQ # <<>> /\ Executing(Head(dataQ).op)
              /\ OpTyped(Head(dataQ))
        /\ Head(dataQ) \in OpRecs /\ Job = Head(dataQ).job /\ Arg = Head(dataQ).arg
    BY FirstOp, AllTyped DEF DataFault, OperationFails, Executing, Job, Arg
  <1>2. /\ UNCHANGED <<status, attempts, due, dataUp, gen, runnerPaused, runnerShut, up,
                       accepting, recovering, claimInFlight, paused, foreground, memoryEnabled,
                       current, pendingLaunch, latest, covered, noted, abandoned, switches>>
        /\ faults' \in 0..MaxFaults /\ faults' = faults + 1
    BY JobsAssumption
       DEF DataFault, OperationFails, store, runner, flags, results, IInv, Typed
  <1>3. Answer(Event(FailureOf(Head(dataQ).op), Job, Arg))
    BY DEF DataFault, OperationFails
  <1>4. /\ UNCHANGED dataQ => UNCHANGED Queued
        /\ UNCHANGED mainQ => UNCHANGED Posted
    BY DEF Queued, Posted
  <1>5. /\ \A o \in Queued : OpTyped(o) /\ o \in OpRecs
        /\ \A e \in Posted : EventTyped(e) /\ e \in EventRecs
    BY AllTyped
  <1>6. ASSUME Head(dataQ).op = "recover"
       PROVE  IInv'
    <2>1. Event("failed:recover", Job, Arg) \in EventRecs
      BY <1>1, <1>6
         DEF OpRecs, EventRecs, Event, FinalArgs, FinalAnswers, Plans, Finals, Job,
             Arg, NoArg
    <2>2. Answer(Event("failed:recover", Job, Arg))
      BY <1>3, <1>6 DEF FailureOf
    <2>3. /\ OpTaken /\ TakenInTurn /\ EventPosted(Event("failed:recover", Job, Arg))
          /\ PostedInOrder(Event("failed:recover", Job, Arg)) /\ opStep' = "start"
      BY <1>1, <2>1, <2>2, AnswerIs
    <2>4. /\ Queued' = {} /\ \A o \in Queued : o = Head(dataQ)
          /\ \A e \in Posted : e \notin Answers
      BY <1>1, <1>6, <2>3
         DEF TakenInTurn, OpTaken, Preparing, Finalizing, Finals, IInv, Ordered
    <2>5. Typed'
      BY <1>1, <1>2, <1>3, <1>6, <2>1, <2>2, <2>3, <2>4, NothingIsTyped
         DEF IInv, Typed, EventPosted, OpTaken, Phases, Event
    <2>6. Down'
      BY <1>1, <1>2, <1>3, <1>4, <1>5, <1>6, <2>1, <2>2, <2>3, <2>4, SMT
         DEF IInv, Down, EventPosted, OpTaken, NoExec, NoGen, Event
    <2>7. Modes'
      BY <1>1, <1>2, <1>3, <1>4, <1>5, <1>6, <2>1, <2>2, <2>3, <2>4, SMT
         DEF IInv, Modes, EventPosted, OpTaken, Typed, Down, Running, Yielding,
             Allowed, Extraction, RunnerIsReleased, NoExec, NoPlan, Event
    <2>8. Ordered'
      BY <1>1, <1>2, <1>3, <1>4, <1>5, <1>6, <2>1, <2>2, <2>3, <2>4, SMT
         DEF IInv, Ordered, EventPosted, OpTaken, PostedInOrder, TakenInTurn, Answers,
             Preparing, Finalizing, Prepared, Finalized, Event, FinalAnswers,
             PrepareAnswers
    <2>9. Tokens'
      BY <1>1, <1>2, <1>3, <1>4, <1>5, <1>6, <2>1, <2>2, <2>3, <2>4, SMT
         DEF IInv, Tokens, EventPosted, OpTaken, PrepareAnswers, FinalAnswers, Finals,
             Outcomes, NoExec, Running, Answers, DataEvents, Event
    <2>10. Rows'
      BY <1>1, <1>2, <1>3, <1>4, <1>5, <1>6, <2>1, <2>2, <2>3, <2>4, SMT
         DEF IInv, Rows, EventPosted, OpTaken, PrepareAnswers, FinalAnswers, Outcomes,
             Finals, Running, EventTyped, Answers, DataEvents, Event
    <2>11. Attempts'
      BY <1>1, <1>2, <1>3, <1>4, <1>5, <1>6, <2>1, <2>2, <2>3, <2>4, SMT
         DEF IInv, Attempts, EventPosted, OpTaken, Running, Finals, NoExec,
             FailedAfterAttempts, Answers, DataEvents, Event
    <2>12. Driven'
      BY <1>1, <1>2, <1>3, <1>4, <1>5, <1>6, <2>1, <2>2, <2>3, <2>4, SMT
         DEF IInv, Driven, EventPosted, OpTaken, PreparePending, Running, NoExec,
             PrepareAnswers, FinalAnswers, Finals, Outcomes, Answers, DataEvents,
             Event
    <2>13. Generates'
      BY <1>1, <1>2, <1>3, <1>4, <1>5, <1>6, <2>1, <2>2, <2>3, <2>4, SMT
         DEF IInv, Generates, EventPosted, OpTaken, PreparePending, Running, NoExec,
             NoGen, PrepareAnswers, FinalAnswers, Finals, Outcomes, Answers,
             DataEvents, Event
    <2>14. Reports'
      BY <1>1, <1>2, <1>3, <1>4, <1>5, <1>6, <2>1, <2>2, <2>3, <2>4, SMT
         DEF IInv, Reports, EventPosted, OpTaken, PostedInOrder, TakenInTurn,
             OutcomesOf, EndsOf, Claims, Outcomes, NoGen, PrepareAnswers,
             FinalAnswers, Event
    <2>15. Writing'
      BY <1>1, <1>2, <1>3, <1>4, <1>5, <1>6, <2>1, <2>2, <2>3, <2>4, SMT
         DEF IInv, Writing, EventPosted, OpTaken, Executing, Job, Arg, Typed, Event
    <2>16. Cursor'
      BY <1>1, <1>2, <1>3, <1>4, <1>5, <1>6, <2>1, <2>2, <2>3, <2>4, SMT
         DEF IInv, Cursor, EventPosted, OpTaken, Writing, Typed, Executing, Job, Arg,
             Extraction, Running, PreparePending, PrepareAnswers, FinalAnswers,
             Outcomes, Finals, Answers, DataEvents, Event
    <2> QED  BY <2>5, <2>6, <2>7, <2>8, <2>9, <2>10, <2>11, <2>12, <2>13, <2>14, <2>15,
                <2>16 DEF IInv
  <1>7. ASSUME Head(dataQ).op = "claim"
       PROVE  IInv'
    <2>1. Event("failed:claim", Job, Arg) \in EventRecs
      BY <1>1, <1>7
         DEF OpRecs, EventRecs, Event, FinalArgs, FinalAnswers, Plans, Finals, Job,
             Arg, NoArg
    <2>2. Answer(Event("failed:claim", Job, Arg))
      BY <1>3, <1>7 DEF FailureOf
    <2>3. /\ OpTaken /\ TakenInTurn /\ EventPosted(Event("failed:claim", Job, Arg))
          /\ PostedInOrder(Event("failed:claim", Job, Arg)) /\ opStep' = "start"
      BY <1>1, <2>1, <2>2, AnswerIs
    <2>4. /\ Queued' = {} /\ \A o \in Queued : o = Head(dataQ)
          /\ \A e \in Posted : e \notin Answers
      BY <1>1, <1>7, <2>3
         DEF TakenInTurn, OpTaken, Preparing, Finalizing, Finals, IInv, Ordered
    <2>5. Typed'
      BY <1>1, <1>2, <1>3, <1>7, <2>1, <2>2, <2>3, <2>4, NothingIsTyped
         DEF IInv, Typed, EventPosted, OpTaken, Phases, Event
    <2>6. Down'
      BY <1>1, <1>2, <1>3, <1>4, <1>5, <1>7, <2>1, <2>2, <2>3, <2>4, SMT
         DEF IInv, Down, EventPosted, OpTaken, NoExec, NoGen, Event
    <2>7. Modes'
      BY <1>1, <1>2, <1>3, <1>4, <1>5, <1>7, <2>1, <2>2, <2>3, <2>4, SMT
         DEF IInv, Modes, EventPosted, OpTaken, Typed, Down, Running, Yielding,
             Allowed, Extraction, RunnerIsReleased, NoExec, NoPlan, Event
    <2>8. Ordered'
      BY <1>1, <1>2, <1>3, <1>4, <1>5, <1>7, <2>1, <2>2, <2>3, <2>4, SMT
         DEF IInv, Ordered, EventPosted, OpTaken, PostedInOrder, TakenInTurn, Answers,
             Preparing, Finalizing, Prepared, Finalized, Event, FinalAnswers,
             PrepareAnswers
    <2>9. Tokens'
      BY <1>1, <1>2, <1>3, <1>4, <1>5, <1>7, <2>1, <2>2, <2>3, <2>4, SMT
         DEF IInv, Tokens, EventPosted, OpTaken, PrepareAnswers, FinalAnswers, Finals,
             Outcomes, NoExec, Running, Answers, DataEvents, Event
    <2>10. Rows'
      BY <1>1, <1>2, <1>3, <1>4, <1>5, <1>7, <2>1, <2>2, <2>3, <2>4, SMT
         DEF IInv, Rows, EventPosted, OpTaken, PrepareAnswers, FinalAnswers, Outcomes,
             Finals, Running, EventTyped, Answers, DataEvents, Event
    <2>11. Attempts'
      BY <1>1, <1>2, <1>3, <1>4, <1>5, <1>7, <2>1, <2>2, <2>3, <2>4, SMT
         DEF IInv, Attempts, EventPosted, OpTaken, Running, Finals, NoExec,
             FailedAfterAttempts, Answers, DataEvents, Event
    <2>12. Driven'
      BY <1>1, <1>2, <1>3, <1>4, <1>5, <1>7, <2>1, <2>2, <2>3, <2>4, SMT
         DEF IInv, Driven, EventPosted, OpTaken, PreparePending, Running, NoExec,
             PrepareAnswers, FinalAnswers, Finals, Outcomes, Answers, DataEvents,
             Event
    <2>13. Generates'
      BY <1>1, <1>2, <1>3, <1>4, <1>5, <1>7, <2>1, <2>2, <2>3, <2>4, SMT
         DEF IInv, Generates, EventPosted, OpTaken, PreparePending, Running, NoExec,
             NoGen, PrepareAnswers, FinalAnswers, Finals, Outcomes, Answers,
             DataEvents, Event
    <2>14. Reports'
      BY <1>1, <1>2, <1>3, <1>4, <1>5, <1>7, <2>1, <2>2, <2>3, <2>4, SMT
         DEF IInv, Reports, EventPosted, OpTaken, PostedInOrder, TakenInTurn,
             OutcomesOf, EndsOf, Claims, Outcomes, NoGen, PrepareAnswers,
             FinalAnswers, Event
    <2>15. Writing'
      BY <1>1, <1>2, <1>3, <1>4, <1>5, <1>7, <2>1, <2>2, <2>3, <2>4, SMT
         DEF IInv, Writing, EventPosted, OpTaken, Executing, Job, Arg, Typed, Event
    <2>16. Cursor'
      BY <1>1, <1>2, <1>3, <1>4, <1>5, <1>7, <2>1, <2>2, <2>3, <2>4, SMT
         DEF IInv, Cursor, EventPosted, OpTaken, Writing, Typed, Executing, Job, Arg,
             Extraction, Running, PreparePending, PrepareAnswers, FinalAnswers,
             Outcomes, Finals, Answers, DataEvents, Event
    <2> QED  BY <2>5, <2>6, <2>7, <2>8, <2>9, <2>10, <2>11, <2>12, <2>13, <2>14, <2>15,
                <2>16 DEF IInv
  <1>8. ASSUME Head(dataQ).op = "prepare"
       PROVE  IInv'
    <2>1. Event("failed:prepare", Job, Arg) \in EventRecs
      BY <1>1, <1>8
         DEF OpRecs, EventRecs, Event, FinalArgs, FinalAnswers, Plans, Finals, Job,
             Arg, NoArg
    <2>2. Answer(Event("failed:prepare", Job, Arg))
      BY <1>3, <1>8 DEF FailureOf
    <2>3. /\ OpTaken /\ TakenInTurn /\ EventPosted(Event("failed:prepare", Job, Arg))
          /\ PostedInOrder(Event("failed:prepare", Job, Arg)) /\ opStep' = "start"
      BY <1>1, <2>1, <2>2, AnswerIs
    <2>4. \A e \in Posted : e \notin Answers
      BY <1>1, <1>8, <2>3
         DEF TakenInTurn, OpTaken, Preparing, Finalizing, Finals, IInv, Ordered
    <2>5. Typed'
      BY <1>1, <1>2, <1>3, <1>8, <2>1, <2>2, <2>3, <2>4, NothingIsTyped
         DEF IInv, Typed, EventPosted, OpTaken, Phases, Event
    <2>6. Down'
      BY <1>1, <1>2, <1>3, <1>4, <1>5, <1>8, <2>1, <2>2, <2>3, <2>4, SMT
         DEF IInv, Down, EventPosted, OpTaken, NoExec, NoGen, Event
    <2>7. Modes'
      BY <1>1, <1>2, <1>3, <1>4, <1>5, <1>8, <2>1, <2>2, <2>3, <2>4, SMT
         DEF IInv, Modes, EventPosted, OpTaken, Typed, Down, Running, Yielding,
             Allowed, Extraction, RunnerIsReleased, NoExec, NoPlan, Event
    <2>8. Ordered'
      BY <1>1, <1>2, <1>3, <1>4, <1>5, <1>8, <2>1, <2>2, <2>3, <2>4, SMT
         DEF IInv, Ordered, EventPosted, OpTaken, PostedInOrder, TakenInTurn, Answers,
             Preparing, Finalizing, Prepared, Finalized, Event, FinalAnswers,
             PrepareAnswers
    <2>9. Tokens'
      BY <1>1, <1>2, <1>3, <1>4, <1>5, <1>8, <2>1, <2>2, <2>3, <2>4, SMT
         DEF IInv, Tokens, EventPosted, OpTaken, PrepareAnswers, FinalAnswers, Finals,
             Outcomes, NoExec, Running, Answers, DataEvents, Event
    <2>10. Rows'
      BY <1>1, <1>2, <1>3, <1>4, <1>5, <1>8, <2>1, <2>2, <2>3, <2>4, SMT
         DEF IInv, Rows, EventPosted, OpTaken, PrepareAnswers, FinalAnswers, Outcomes,
             Finals, Running, EventTyped, Answers, DataEvents, Event
    <2>11. Attempts'
      BY <1>1, <1>2, <1>3, <1>4, <1>5, <1>8, <2>1, <2>2, <2>3, <2>4, SMT
         DEF IInv, Attempts, EventPosted, OpTaken, Running, Finals, NoExec,
             FailedAfterAttempts, Answers, DataEvents, Event
    <2>12. Driven'
      BY <1>1, <1>2, <1>3, <1>4, <1>5, <1>8, <2>1, <2>2, <2>3, <2>4, SMT
         DEF IInv, Driven, EventPosted, OpTaken, PreparePending, Running, NoExec,
             PrepareAnswers, FinalAnswers, Finals, Outcomes, Answers, DataEvents,
             Event
    <2>13. Generates'
      BY <1>1, <1>2, <1>3, <1>4, <1>5, <1>8, <2>1, <2>2, <2>3, <2>4, SMT
         DEF IInv, Generates, EventPosted, OpTaken, PreparePending, Running, NoExec,
             NoGen, PrepareAnswers, FinalAnswers, Finals, Outcomes, Answers,
             DataEvents, Event
    <2>14. Reports'
      BY <1>1, <1>2, <1>3, <1>4, <1>5, <1>8, <2>1, <2>2, <2>3, <2>4, SMT
         DEF IInv, Reports, EventPosted, OpTaken, PostedInOrder, TakenInTurn,
             OutcomesOf, EndsOf, Claims, Outcomes, NoGen, PrepareAnswers,
             FinalAnswers, Event
    <2>15. Writing'
      BY <1>1, <1>2, <1>3, <1>4, <1>5, <1>8, <2>1, <2>2, <2>3, <2>4, SMT
         DEF IInv, Writing, EventPosted, OpTaken, Executing, Job, Arg, Typed, Event
    <2>16. Cursor'
      BY <1>1, <1>2, <1>3, <1>4, <1>5, <1>8, <2>1, <2>2, <2>3, <2>4, SMT
         DEF IInv, Cursor, EventPosted, OpTaken, Writing, Typed, Executing, Job, Arg,
             Extraction, Running, PreparePending, PrepareAnswers, FinalAnswers,
             Outcomes, Finals, Answers, DataEvents, Event
    <2> QED  BY <2>5, <2>6, <2>7, <2>8, <2>9, <2>10, <2>11, <2>12, <2>13, <2>14, <2>15,
                <2>16 DEF IInv
  <1>9. ASSUME Head(dataQ).op = "persist"
       PROVE  IInv'
    <2>1. Event("failed:persist", Job, Arg) \in EventRecs
      BY <1>1, <1>9
         DEF OpRecs, EventRecs, Event, FinalArgs, FinalAnswers, Plans, Finals, Job,
             Arg, NoArg
    <2>2. Answer(Event("failed:persist", Job, Arg))
      BY <1>3, <1>9 DEF FailureOf
    <2>3. /\ OpTaken /\ TakenInTurn /\ EventPosted(Event("failed:persist", Job, Arg))
          /\ PostedInOrder(Event("failed:persist", Job, Arg)) /\ opStep' = "start"
      BY <1>1, <2>1, <2>2, AnswerIs
    <2>4. /\ Queued' = {} /\ \A o \in Queued : o = Head(dataQ)
          /\ \A e \in Posted : e \notin Answers \/ e \in Prepared
      BY <1>1, <1>9, <2>3
         DEF TakenInTurn, OpTaken, Preparing, Finalizing, Finals, IInv, Ordered
    <2>5. Typed'
      BY <1>1, <1>2, <1>3, <1>9, <2>1, <2>2, <2>3, <2>4, NothingIsTyped
         DEF IInv, Typed, EventPosted, OpTaken, Phases, Event
    <2>6. Down'
      BY <1>1, <1>2, <1>3, <1>4, <1>5, <1>9, <2>1, <2>2, <2>3, <2>4, SMT
         DEF IInv, Down, EventPosted, OpTaken, NoExec, NoGen, Event
    <2>7. Modes'
      BY <1>1, <1>2, <1>3, <1>4, <1>5, <1>9, <2>1, <2>2, <2>3, <2>4, SMT
         DEF IInv, Modes, EventPosted, OpTaken, Typed, Down, Running, Yielding,
             Allowed, Extraction, RunnerIsReleased, NoExec, NoPlan, Event
    <2>8. Ordered'
      BY <1>1, <1>2, <1>3, <1>4, <1>5, <1>9, <2>1, <2>2, <2>3, <2>4, SMT
         DEF IInv, Ordered, EventPosted, OpTaken, PostedInOrder, TakenInTurn, Answers,
             Preparing, Finalizing, Prepared, Finalized, Event, FinalAnswers,
             PrepareAnswers
    <2>9. Tokens'
      BY <1>1, <1>2, <1>3, <1>4, <1>5, <1>9, <2>1, <2>2, <2>3, <2>4, SMT
         DEF IInv, Tokens, EventPosted, OpTaken, PrepareAnswers, FinalAnswers, Finals,
             Outcomes, NoExec, Running, Answers, DataEvents, Event
    <2>10. Rows'
      BY <1>1, <1>2, <1>3, <1>4, <1>5, <1>9, <2>1, <2>2, <2>3, <2>4, SMT
         DEF IInv, Rows, EventPosted, OpTaken, PrepareAnswers, FinalAnswers, Outcomes,
             Finals, Running, EventTyped, Answers, DataEvents, Event
    <2>11. Attempts'
      BY <1>1, <1>2, <1>3, <1>4, <1>5, <1>9, <2>1, <2>2, <2>3, <2>4, SMT
         DEF IInv, Attempts, EventPosted, OpTaken, Running, Finals, NoExec,
             FailedAfterAttempts, Answers, DataEvents, Event
    <2>12. Driven'
      BY <1>1, <1>2, <1>3, <1>4, <1>5, <1>9, <2>1, <2>2, <2>3, <2>4, SMT
         DEF IInv, Driven, EventPosted, OpTaken, PreparePending, Running, NoExec,
             PrepareAnswers, FinalAnswers, Finals, Outcomes, Answers, DataEvents,
             Event
    <2>13. Generates'
      BY <1>1, <1>2, <1>3, <1>4, <1>5, <1>9, <2>1, <2>2, <2>3, <2>4, SMT
         DEF IInv, Generates, EventPosted, OpTaken, PreparePending, Running, NoExec,
             NoGen, PrepareAnswers, FinalAnswers, Finals, Outcomes, Answers,
             DataEvents, Event
    <2>14. Reports'
      BY <1>1, <1>2, <1>3, <1>4, <1>5, <1>9, <2>1, <2>2, <2>3, <2>4, SMT
         DEF IInv, Reports, EventPosted, OpTaken, PostedInOrder, TakenInTurn,
             OutcomesOf, EndsOf, Claims, Outcomes, NoGen, PrepareAnswers,
             FinalAnswers, Event
    <2>15. Writing'
      BY <1>1, <1>2, <1>3, <1>4, <1>5, <1>9, <2>1, <2>2, <2>3, <2>4, SMT
         DEF IInv, Writing, EventPosted, OpTaken, Executing, Job, Arg, Typed, Event
    <2>16. Cursor'
      BY <1>1, <1>2, <1>3, <1>4, <1>5, <1>9, <2>1, <2>2, <2>3, <2>4, SMT
         DEF IInv, Cursor, EventPosted, OpTaken, Writing, Typed, Executing, Job, Arg,
             Extraction, Running, PreparePending, PrepareAnswers, FinalAnswers,
             Outcomes, Finals, Answers, DataEvents, Event
    <2> QED  BY <2>5, <2>6, <2>7, <2>8, <2>9, <2>10, <2>11, <2>12, <2>13, <2>14, <2>15,
                <2>16 DEF IInv
  <1>10. ASSUME Head(dataQ).op = "complete"
        PROVE  IInv'
    <2>1. Event("failed:complete", Job, Arg) \in EventRecs
      BY <1>1, <1>10
         DEF OpRecs, EventRecs, Event, FinalArgs, FinalAnswers, Plans, Finals, Job,
             Arg, NoArg
    <2>2. Answer(Event("failed:complete", Job, Arg))
      BY <1>3, <1>10 DEF FailureOf
    <2>3. /\ OpTaken /\ TakenInTurn /\ EventPosted(Event("failed:complete", Job, Arg))
          /\ PostedInOrder(Event("failed:complete", Job, Arg)) /\ opStep' = "start"
      BY <1>1, <2>1, <2>2, AnswerIs
    <2>4. /\ Queued' = {} /\ \A o \in Queued : o = Head(dataQ)
          /\ \A e \in Posted : e \notin Answers \/ e \in Prepared
      BY <1>1, <1>10, <2>3
         DEF TakenInTurn, OpTaken, Preparing, Finalizing, Finals, IInv, Ordered
    <2>5. Typed'
      BY <1>1, <1>2, <1>3, <1>10, <2>1, <2>2, <2>3, <2>4, NothingIsTyped
         DEF IInv, Typed, EventPosted, OpTaken, Phases, Event
    <2>6. Down'
      BY <1>1, <1>2, <1>3, <1>4, <1>5, <1>10, <2>1, <2>2, <2>3, <2>4, SMT
         DEF IInv, Down, EventPosted, OpTaken, NoExec, NoGen, Event
    <2>7. Modes'
      BY <1>1, <1>2, <1>3, <1>4, <1>5, <1>10, <2>1, <2>2, <2>3, <2>4, SMT
         DEF IInv, Modes, EventPosted, OpTaken, Typed, Down, Running, Yielding,
             Allowed, Extraction, RunnerIsReleased, NoExec, NoPlan, Event
    <2>8. Ordered'
      BY <1>1, <1>2, <1>3, <1>4, <1>5, <1>10, <2>1, <2>2, <2>3, <2>4, SMT
         DEF IInv, Ordered, EventPosted, OpTaken, PostedInOrder, TakenInTurn, Answers,
             Preparing, Finalizing, Prepared, Finalized, Event, FinalAnswers,
             PrepareAnswers
    <2>9. Tokens'
      BY <1>1, <1>2, <1>3, <1>4, <1>5, <1>10, <2>1, <2>2, <2>3, <2>4, SMT
         DEF IInv, Tokens, EventPosted, OpTaken, PrepareAnswers, FinalAnswers, Finals,
             Outcomes, NoExec, Running, Answers, DataEvents, Event
    <2>10. Rows'
      BY <1>1, <1>2, <1>3, <1>4, <1>5, <1>10, <2>1, <2>2, <2>3, <2>4, SMT
         DEF IInv, Rows, EventPosted, OpTaken, PrepareAnswers, FinalAnswers, Outcomes,
             Finals, Running, EventTyped, Answers, DataEvents, Event
    <2>11. Attempts'
      BY <1>1, <1>2, <1>3, <1>4, <1>5, <1>10, <2>1, <2>2, <2>3, <2>4, SMT
         DEF IInv, Attempts, EventPosted, OpTaken, Running, Finals, NoExec,
             FailedAfterAttempts, Answers, DataEvents, Event
    <2>12. Driven'
      BY <1>1, <1>2, <1>3, <1>4, <1>5, <1>10, <2>1, <2>2, <2>3, <2>4, SMT
         DEF IInv, Driven, EventPosted, OpTaken, PreparePending, Running, NoExec,
             PrepareAnswers, FinalAnswers, Finals, Outcomes, Answers, DataEvents,
             Event
    <2>13. Generates'
      BY <1>1, <1>2, <1>3, <1>4, <1>5, <1>10, <2>1, <2>2, <2>3, <2>4, SMT
         DEF IInv, Generates, EventPosted, OpTaken, PreparePending, Running, NoExec,
             NoGen, PrepareAnswers, FinalAnswers, Finals, Outcomes, Answers,
             DataEvents, Event
    <2>14. Reports'
      BY <1>1, <1>2, <1>3, <1>4, <1>5, <1>10, <2>1, <2>2, <2>3, <2>4, SMT
         DEF IInv, Reports, EventPosted, OpTaken, PostedInOrder, TakenInTurn,
             OutcomesOf, EndsOf, Claims, Outcomes, NoGen, PrepareAnswers,
             FinalAnswers, Event
    <2>15. Writing'
      BY <1>1, <1>2, <1>3, <1>4, <1>5, <1>10, <2>1, <2>2, <2>3, <2>4, SMT
         DEF IInv, Writing, EventPosted, OpTaken, Executing, Job, Arg, Typed, Event
    <2>16. Cursor'
      BY <1>1, <1>2, <1>3, <1>4, <1>5, <1>10, <2>1, <2>2, <2>3, <2>4, SMT
         DEF IInv, Cursor, EventPosted, OpTaken, Writing, Typed, Executing, Job, Arg,
             Extraction, Running, PreparePending, PrepareAnswers, FinalAnswers,
             Outcomes, Finals, Answers, DataEvents, Event
    <2> QED  BY <2>5, <2>6, <2>7, <2>8, <2>9, <2>10, <2>11, <2>12, <2>13, <2>14, <2>15,
                <2>16 DEF IInv
  <1>11. ASSUME Head(dataQ).op = "retry"
        PROVE  IInv'
    <2>1. Event("failed:retry", Job, Arg) \in EventRecs
      BY <1>1, <1>11
         DEF OpRecs, EventRecs, Event, FinalArgs, FinalAnswers, Plans, Finals, Job,
             Arg, NoArg
    <2>2. Answer(Event("failed:retry", Job, Arg))
      BY <1>3, <1>11 DEF FailureOf
    <2>3. /\ OpTaken /\ TakenInTurn /\ EventPosted(Event("failed:retry", Job, Arg))
          /\ PostedInOrder(Event("failed:retry", Job, Arg)) /\ opStep' = "start"
      BY <1>1, <2>1, <2>2, AnswerIs
    <2>4. /\ Queued' = {} /\ \A o \in Queued : o = Head(dataQ)
          /\ \A e \in Posted : e \notin Answers \/ e \in Prepared
      BY <1>1, <1>11, <2>3
         DEF TakenInTurn, OpTaken, Preparing, Finalizing, Finals, IInv, Ordered
    <2>5. Typed'
      BY <1>1, <1>2, <1>3, <1>11, <2>1, <2>2, <2>3, <2>4, NothingIsTyped
         DEF IInv, Typed, EventPosted, OpTaken, Phases, Event
    <2>6. Down'
      BY <1>1, <1>2, <1>3, <1>4, <1>5, <1>11, <2>1, <2>2, <2>3, <2>4, SMT
         DEF IInv, Down, EventPosted, OpTaken, NoExec, NoGen, Event
    <2>7. Modes'
      BY <1>1, <1>2, <1>3, <1>4, <1>5, <1>11, <2>1, <2>2, <2>3, <2>4, SMT
         DEF IInv, Modes, EventPosted, OpTaken, Typed, Down, Running, Yielding,
             Allowed, Extraction, RunnerIsReleased, NoExec, NoPlan, Event
    <2>8. Ordered'
      BY <1>1, <1>2, <1>3, <1>4, <1>5, <1>11, <2>1, <2>2, <2>3, <2>4, SMT
         DEF IInv, Ordered, EventPosted, OpTaken, PostedInOrder, TakenInTurn, Answers,
             Preparing, Finalizing, Prepared, Finalized, Event, FinalAnswers,
             PrepareAnswers
    <2>9. Tokens'
      BY <1>1, <1>2, <1>3, <1>4, <1>5, <1>11, <2>1, <2>2, <2>3, <2>4, SMT
         DEF IInv, Tokens, EventPosted, OpTaken, PrepareAnswers, FinalAnswers, Finals,
             Outcomes, NoExec, Running, Answers, DataEvents, Event
    <2>10. Rows'
      BY <1>1, <1>2, <1>3, <1>4, <1>5, <1>11, <2>1, <2>2, <2>3, <2>4, SMT
         DEF IInv, Rows, EventPosted, OpTaken, PrepareAnswers, FinalAnswers, Outcomes,
             Finals, Running, EventTyped, Answers, DataEvents, Event
    <2>11. Attempts'
      BY <1>1, <1>2, <1>3, <1>4, <1>5, <1>11, <2>1, <2>2, <2>3, <2>4, SMT
         DEF IInv, Attempts, EventPosted, OpTaken, Running, Finals, NoExec,
             FailedAfterAttempts, Answers, DataEvents, Event
    <2>12. Driven'
      BY <1>1, <1>2, <1>3, <1>4, <1>5, <1>11, <2>1, <2>2, <2>3, <2>4, SMT
         DEF IInv, Driven, EventPosted, OpTaken, PreparePending, Running, NoExec,
             PrepareAnswers, FinalAnswers, Finals, Outcomes, Answers, DataEvents,
             Event
    <2>13. Generates'
      BY <1>1, <1>2, <1>3, <1>4, <1>5, <1>11, <2>1, <2>2, <2>3, <2>4, SMT
         DEF IInv, Generates, EventPosted, OpTaken, PreparePending, Running, NoExec,
             NoGen, PrepareAnswers, FinalAnswers, Finals, Outcomes, Answers,
             DataEvents, Event
    <2>14. Reports'
      BY <1>1, <1>2, <1>3, <1>4, <1>5, <1>11, <2>1, <2>2, <2>3, <2>4, SMT
         DEF IInv, Reports, EventPosted, OpTaken, PostedInOrder, TakenInTurn,
             OutcomesOf, EndsOf, Claims, Outcomes, NoGen, PrepareAnswers,
             FinalAnswers, Event
    <2>15. Writing'
      BY <1>1, <1>2, <1>3, <1>4, <1>5, <1>11, <2>1, <2>2, <2>3, <2>4, SMT
         DEF IInv, Writing, EventPosted, OpTaken, Executing, Job, Arg, Typed, Event
    <2>16. Cursor'
      BY <1>1, <1>2, <1>3, <1>4, <1>5, <1>11, <2>1, <2>2, <2>3, <2>4, SMT
         DEF IInv, Cursor, EventPosted, OpTaken, Writing, Typed, Executing, Job, Arg,
             Extraction, Running, PreparePending, PrepareAnswers, FinalAnswers,
             Outcomes, Finals, Answers, DataEvents, Event
    <2> QED  BY <2>5, <2>6, <2>7, <2>8, <2>9, <2>10, <2>11, <2>12, <2>13, <2>14, <2>15,
                <2>16 DEF IInv
  <1>12. ASSUME Head(dataQ).op = "fail"
        PROVE  IInv'
    <2>1. Event("failed:fail", Job, Arg) \in EventRecs
      BY <1>1, <1>12
         DEF OpRecs, EventRecs, Event, FinalArgs, FinalAnswers, Plans, Finals, Job,
             Arg, NoArg
    <2>2. Answer(Event("failed:fail", Job, Arg))
      BY <1>3, <1>12 DEF FailureOf
    <2>3. /\ OpTaken /\ TakenInTurn /\ EventPosted(Event("failed:fail", Job, Arg))
          /\ PostedInOrder(Event("failed:fail", Job, Arg)) /\ opStep' = "start"
      BY <1>1, <2>1, <2>2, AnswerIs
    <2>4. /\ Queued' = {} /\ \A o \in Queued : o = Head(dataQ)
          /\ \A e \in Posted : e \notin Answers \/ e \in Prepared
      BY <1>1, <1>12, <2>3
         DEF TakenInTurn, OpTaken, Preparing, Finalizing, Finals, IInv, Ordered
    <2>5. Typed'
      BY <1>1, <1>2, <1>3, <1>12, <2>1, <2>2, <2>3, <2>4, NothingIsTyped
         DEF IInv, Typed, EventPosted, OpTaken, Phases, Event
    <2>6. Down'
      BY <1>1, <1>2, <1>3, <1>4, <1>5, <1>12, <2>1, <2>2, <2>3, <2>4, SMT
         DEF IInv, Down, EventPosted, OpTaken, NoExec, NoGen, Event
    <2>7. Modes'
      BY <1>1, <1>2, <1>3, <1>4, <1>5, <1>12, <2>1, <2>2, <2>3, <2>4, SMT
         DEF IInv, Modes, EventPosted, OpTaken, Typed, Down, Running, Yielding,
             Allowed, Extraction, RunnerIsReleased, NoExec, NoPlan, Event
    <2>8. Ordered'
      BY <1>1, <1>2, <1>3, <1>4, <1>5, <1>12, <2>1, <2>2, <2>3, <2>4, SMT
         DEF IInv, Ordered, EventPosted, OpTaken, PostedInOrder, TakenInTurn, Answers,
             Preparing, Finalizing, Prepared, Finalized, Event, FinalAnswers,
             PrepareAnswers
    <2>9. Tokens'
      BY <1>1, <1>2, <1>3, <1>4, <1>5, <1>12, <2>1, <2>2, <2>3, <2>4, SMT
         DEF IInv, Tokens, EventPosted, OpTaken, PrepareAnswers, FinalAnswers, Finals,
             Outcomes, NoExec, Running, Answers, DataEvents, Event
    <2>10. Rows'
      BY <1>1, <1>2, <1>3, <1>4, <1>5, <1>12, <2>1, <2>2, <2>3, <2>4, SMT
         DEF IInv, Rows, EventPosted, OpTaken, PrepareAnswers, FinalAnswers, Outcomes,
             Finals, Running, EventTyped, Answers, DataEvents, Event
    <2>11. Attempts'
      BY <1>1, <1>2, <1>3, <1>4, <1>5, <1>12, <2>1, <2>2, <2>3, <2>4, SMT
         DEF IInv, Attempts, EventPosted, OpTaken, Running, Finals, NoExec,
             FailedAfterAttempts, Answers, DataEvents, Event
    <2>12. Driven'
      BY <1>1, <1>2, <1>3, <1>4, <1>5, <1>12, <2>1, <2>2, <2>3, <2>4, SMT
         DEF IInv, Driven, EventPosted, OpTaken, PreparePending, Running, NoExec,
             PrepareAnswers, FinalAnswers, Finals, Outcomes, Answers, DataEvents,
             Event
    <2>13. Generates'
      BY <1>1, <1>2, <1>3, <1>4, <1>5, <1>12, <2>1, <2>2, <2>3, <2>4, SMT
         DEF IInv, Generates, EventPosted, OpTaken, PreparePending, Running, NoExec,
             NoGen, PrepareAnswers, FinalAnswers, Finals, Outcomes, Answers,
             DataEvents, Event
    <2>14. Reports'
      BY <1>1, <1>2, <1>3, <1>4, <1>5, <1>12, <2>1, <2>2, <2>3, <2>4, SMT
         DEF IInv, Reports, EventPosted, OpTaken, PostedInOrder, TakenInTurn,
             OutcomesOf, EndsOf, Claims, Outcomes, NoGen, PrepareAnswers,
             FinalAnswers, Event
    <2>15. Writing'
      BY <1>1, <1>2, <1>3, <1>4, <1>5, <1>12, <2>1, <2>2, <2>3, <2>4, SMT
         DEF IInv, Writing, EventPosted, OpTaken, Executing, Job, Arg, Typed, Event
    <2>16. Cursor'
      BY <1>1, <1>2, <1>3, <1>4, <1>5, <1>12, <2>1, <2>2, <2>3, <2>4, SMT
         DEF IInv, Cursor, EventPosted, OpTaken, Writing, Typed, Executing, Job, Arg,
             Extraction, Running, PreparePending, PrepareAnswers, FinalAnswers,
             Outcomes, Finals, Answers, DataEvents, Event
    <2> QED  BY <2>5, <2>6, <2>7, <2>8, <2>9, <2>10, <2>11, <2>12, <2>13, <2>14, <2>15,
                <2>16 DEF IInv
  <1> QED  BY <1>1, <1>2, <1>3, <1>4, <1>5, <1>6, <1>7, <1>8, <1>9, <1>10, <1>11,
              <1>12
              DEF OpTyped, Ops, Finals

\* No row was claimed.
LEMMA OnNothingClaimedStep ==
  ASSUME IInv, OnNothingClaimed
  PROVE  IInv'
  <1>1. /\ EventTaken /\ TakenInOrder /\ SlotFrame /\ up /\ Head(mainQ) \in Posted
        /\ Head(mainQ).ev \in {"claimed", "failed:claim"} /\ Head(mainQ).job = NoJob
    BY HandlingIs, AllTyped DEF OnNothingClaimed, EventTyped, EventJob
  <1>2. claimInFlight' = FALSE /\ UNCHANGED <<recovering, dataQ, gen, current, pendingLaunch,
                                              abandoned>>
    BY DEF OnNothingClaimed
  <1>3. /\ claimInFlight /\ ~recovering /\ current = NoExec
        /\ Queued = {} /\ \A e \in Posted' : e \notin Answers
    BY <1>1, WhileClaiming, AllTyped
       DEF IInv, Tokens, Ordered, TakenInOrder, EventTaken, Answers, DataEvents,
           Prepared, PrepareAnswers
  <1>4. /\ UNCHANGED dataQ => UNCHANGED Queued
        /\ UNCHANGED mainQ => UNCHANGED Posted
    BY DEF Queued, Posted
  <1>5. /\ \A o \in Queued : OpTyped(o) /\ o \in OpRecs
        /\ \A e \in Posted : EventTyped(e) /\ e \in EventRecs
    BY AllTyped
  <1>6. Typed'
    BY <1>1, <1>2, <1>3, NothingIsTyped DEF IInv, Typed, EventTaken, SlotFrame, Phases
  <1>7. Down'
    BY <1>1, <1>2, <1>3, <1>4, <1>5, SMT
       DEF IInv, Down, EventTaken, SlotFrame, NoExec, NoGen
  <1>8. Modes'
    BY <1>1, <1>2, <1>3, <1>4, <1>5, SMT
       DEF IInv, Modes, EventTaken, SlotFrame, Typed, Down, Running, Yielding,
           Allowed, Extraction, RunnerIsReleased, NoExec, NoPlan
  <1>9. Ordered'
    BY <1>1, <1>2, <1>3, <1>4, <1>5, SMT
       DEF IInv, Ordered, EventTaken, SlotFrame, TakenInOrder, Answers, Preparing,
           Finalizing, Prepared, Finalized
  <1>10. Tokens'
    BY <1>1, <1>2, <1>3, <1>4, <1>5, SMT
       DEF IInv, Tokens, EventTaken, SlotFrame, PrepareAnswers, FinalAnswers, Finals,
           Outcomes, NoExec, Running, Answers, DataEvents
  <1>11. Rows'
    BY <1>1, <1>2, <1>3, <1>4, <1>5, JobsAssumption, SMT
       DEF IInv, Rows, EventTaken, SlotFrame, PrepareAnswers, FinalAnswers, Outcomes,
           Finals, Running, EventTyped, Answers, DataEvents
  <1>12. Attempts'
    BY <1>1, <1>2, <1>3, <1>4, <1>5, SMT
       DEF IInv, Attempts, EventTaken, SlotFrame, Running, Finals, NoExec,
           FailedAfterAttempts, Answers, DataEvents
  <1>13. Driven'
    BY <1>1, <1>2, <1>3, <1>4, <1>5, SMT
       DEF IInv, Driven, EventTaken, SlotFrame, PreparePending, Running, NoExec,
           PrepareAnswers, FinalAnswers, Finals, Outcomes, Answers, DataEvents
  <1>14. Generates'
    BY <1>1, <1>2, <1>3, <1>4, <1>5, SMT
       DEF IInv, Generates, EventTaken, SlotFrame, PreparePending, Running, NoExec,
           NoGen, PrepareAnswers, FinalAnswers, Finals, Outcomes, Answers, DataEvents
  <1>15. Reports'
    BY <1>1, <1>2, <1>3, <1>4, <1>5, SMT
       DEF IInv, Reports, EventTaken, SlotFrame, TakenInOrder, OutcomesOf, EndsOf,
           Claims, Outcomes, NoGen, PrepareAnswers, FinalAnswers
  <1>16. Writing'
    BY <1>1, <1>2, <1>3, <1>4, <1>5, SMT
       DEF IInv, Writing, EventTaken, SlotFrame, Executing, Job, Arg, Typed
  <1>17. Cursor'
    BY <1>1, <1>2, <1>3, <1>4, <1>5, SMT
       DEF IInv, Cursor, EventTaken, SlotFrame, Writing, Typed, Executing, Job, Arg,
           Extraction, Running, PreparePending, PrepareAnswers, FinalAnswers,
           Outcomes, Finals, Answers, DataEvents
  <1> QED  BY <1>6, <1>7, <1>8, <1>9, <1>10, <1>11, <1>12, <1>13, <1>14, <1>15, <1>16,
              <1>17 DEF IInv

\* The preparation of an execution that was given up is dropped.
LEMMA OnLatePrepareStep ==
  ASSUME IInv, OnLatePrepare
  PROVE  IInv'
  <1>1. /\ EventTaken /\ TakenInOrder /\ SlotFrame /\ up /\ Head(mainQ) \in Posted
        /\ Head(mainQ).ev \in PrepareAnswers
    BY HandlingIs DEF OnLatePrepare, PrepareAnswers
  <1>2. ~(current.job = Head(mainQ).job /\ Running) /\ UNCHANGED <<recovering, claimInFlight,
                                                                   dataQ, gen, current, pendingLaunch, abandoned>>
    BY DEF OnLatePrepare, Awaited, EventJob
  <1>3. /\ UNCHANGED dataQ => UNCHANGED Queued
        /\ UNCHANGED mainQ => UNCHANGED Posted
    BY DEF Queued, Posted
  <1>4. /\ \A o \in Queued : OpTyped(o) /\ o \in OpRecs
        /\ \A e \in Posted : EventTyped(e) /\ e \in EventRecs
    BY AllTyped
  <1>5. Typed'
    BY <1>1, <1>2, NothingIsTyped DEF IInv, Typed, EventTaken, SlotFrame, Phases
  <1>6. Down'
    BY <1>1, <1>2, <1>3, <1>4, SMT
       DEF IInv, Down, EventTaken, SlotFrame, NoExec, NoGen
  <1>7. Modes'
    BY <1>1, <1>2, <1>3, <1>4, SMT
       DEF IInv, Modes, EventTaken, SlotFrame, Typed, Down, Running, Yielding,
           Allowed, Extraction, RunnerIsReleased, NoExec, NoPlan
  <1>8. Ordered'
    BY <1>1, <1>2, <1>3, <1>4, SMT
       DEF IInv, Ordered, EventTaken, SlotFrame, TakenInOrder, Answers, Preparing,
           Finalizing, Prepared, Finalized
  <1>9. Tokens'
    BY <1>1, <1>2, <1>3, <1>4, SMT
       DEF IInv, Tokens, EventTaken, SlotFrame, PrepareAnswers, FinalAnswers, Finals,
           Outcomes, NoExec, Running
  <1>10. Rows'
    BY <1>1, <1>2, <1>3, <1>4, SMT
       DEF IInv, Rows, EventTaken, SlotFrame, PrepareAnswers, FinalAnswers, Outcomes,
           Finals, Running, EventTyped
  <1>11. Attempts'
    BY <1>1, <1>2, <1>3, <1>4, SMT
       DEF IInv, Attempts, EventTaken, SlotFrame, Running, Finals, NoExec,
           FailedAfterAttempts
  <1>12. Driven'
    BY <1>1, <1>2, <1>3, <1>4, SMT
       DEF IInv, Driven, EventTaken, SlotFrame, PreparePending, Running, NoExec,
           PrepareAnswers, FinalAnswers, Finals, Outcomes, Tokens
  <1>13. Generates'
    BY <1>1, <1>2, <1>3, <1>4, SMT
       DEF IInv, Generates, EventTaken, SlotFrame, PreparePending, Running, NoExec,
           NoGen, PrepareAnswers, FinalAnswers, Finals, Outcomes
  <1>14. Reports'
    BY <1>1, <1>2, <1>3, <1>4, SMT
       DEF IInv, Reports, EventTaken, SlotFrame, TakenInOrder, OutcomesOf, EndsOf,
           Claims, Outcomes, NoGen, PrepareAnswers, FinalAnswers
  <1>15. Writing'
    BY <1>1, <1>2, <1>3, <1>4, SMT
       DEF IInv, Writing, EventTaken, SlotFrame, Executing, Job, Arg, Typed
  <1>16. Cursor'
    BY <1>1, <1>2, <1>3, <1>4, SMT
       DEF IInv, Cursor, EventTaken, SlotFrame, Writing, Typed, Executing, Job, Arg,
           Extraction, Running, PreparePending, PrepareAnswers, FinalAnswers,
           Outcomes, Finals
  <1> QED  BY <1>5, <1>6, <1>7, <1>8, <1>9, <1>10, <1>11, <1>12, <1>13, <1>14, <1>15, <1>16 DEF IInv

\* The outcome of another generation is dropped.
LEMMA OnLateOutcomeStep ==
  ASSUME IInv, OnLateOutcome
  PROVE  IInv'
  <1>1. /\ EventTaken /\ TakenInOrder /\ SlotFrame /\ up /\ Head(mainQ) \in Posted
        /\ Head(mainQ).ev \in Outcomes
    BY HandlingIs DEF OnLateOutcome, GenerationEnds
  <1>2. UNCHANGED <<recovering, claimInFlight, dataQ, current, pendingLaunch, abandoned>>
    BY DEF OnLateOutcome, GenerationEnds
  <1>3. /\ UNCHANGED dataQ => UNCHANGED Queued
        /\ UNCHANGED mainQ => UNCHANGED Posted
    BY DEF Queued, Posted
  <1>4. /\ \A o \in Queued : OpTyped(o) /\ o \in OpRecs
        /\ \A e \in Posted : EventTyped(e) /\ e \in EventRecs
    BY AllTyped
  <1>5. ASSUME Ended, ~(current.job = gen.job /\ Running), gen.id # 0, Head(mainQ).arg.id = gen.id
       PROVE  IInv'
    <2>1. Typed'
      BY <1>1, <1>2, <1>5, NothingIsTyped
         DEF IInv, Typed, EventTaken, Ended, SlotFrame, Phases
    <2>2. Down'
      BY <1>1, <1>2, <1>3, <1>4, <1>5, SMT
         DEF IInv, Down, EventTaken, Ended, SlotFrame, NoExec, NoGen
    <2>3. Modes'
      BY <1>1, <1>2, <1>3, <1>4, <1>5, SMT
         DEF IInv, Modes, EventTaken, Ended, SlotFrame, Typed, Down, Running,
             Yielding, Allowed, Extraction, RunnerIsReleased, NoExec, NoPlan
    <2>4. Ordered'
      BY <1>1, <1>2, <1>3, <1>4, <1>5, SMT
         DEF IInv, Ordered, EventTaken, Ended, SlotFrame, TakenInOrder, Answers,
             Preparing, Finalizing, Prepared, Finalized
    <2>5. Tokens'
      BY <1>1, <1>2, <1>3, <1>4, <1>5, SMT
         DEF IInv, Tokens, EventTaken, Ended, SlotFrame, PrepareAnswers, FinalAnswers,
             Finals, Outcomes, NoExec, Running
    <2>6. Rows'
      BY <1>1, <1>2, <1>3, <1>4, <1>5, SMT
         DEF IInv, Rows, EventTaken, Ended, SlotFrame, PrepareAnswers, FinalAnswers,
             Outcomes, Finals, Running, EventTyped
    <2>7. Attempts'
      BY <1>1, <1>2, <1>3, <1>4, <1>5, SMT
         DEF IInv, Attempts, EventTaken, Ended, SlotFrame, Running, Finals, NoExec,
             FailedAfterAttempts
    <2>8. Driven'
      BY <1>1, <1>2, <1>3, <1>4, <1>5, SMT
         DEF IInv, Driven, EventTaken, Ended, SlotFrame, PreparePending, Running,
             NoExec, PrepareAnswers, FinalAnswers, Finals, Outcomes, Generates
    <2>9. Generates'
      BY <1>1, <1>2, <1>3, <1>4, <1>5, SMT
         DEF IInv, Generates, EventTaken, Ended, SlotFrame, PreparePending, Running,
             NoExec, NoGen, PrepareAnswers, FinalAnswers, Finals, Outcomes
    <2>10. Reports'
      BY <1>1, <1>2, <1>3, <1>4, <1>5, SMT
         DEF IInv, Reports, EventTaken, Ended, SlotFrame, TakenInOrder, OutcomesOf,
             EndsOf, Claims, Outcomes, NoGen
    <2>11. Writing'
      BY <1>1, <1>2, <1>3, <1>4, <1>5, SMT
         DEF IInv, Writing, EventTaken, Ended, SlotFrame, Executing, Job, Arg, Typed
    <2>12. Cursor'
      BY <1>1, <1>2, <1>3, <1>4, <1>5, SMT
         DEF IInv, Cursor, EventTaken, Ended, SlotFrame, Writing, Typed, Executing,
             Job, Arg, Extraction, Running, PreparePending, PrepareAnswers,
             FinalAnswers, Outcomes, Finals
    <2> QED  BY <2>1, <2>2, <2>3, <2>4, <2>5, <2>6, <2>7, <2>8, <2>9, <2>10, <2>11, <2>12 DEF IInv
  <1>6. ASSUME gen' = gen, gen.id # Head(mainQ).arg.id \/ gen.terminal
       PROVE  IInv'
    <2>1. Typed'
      BY <1>1, <1>2, <1>6, NothingIsTyped
         DEF IInv, Typed, EventTaken, SlotFrame, Phases
    <2>2. Down'
      BY <1>1, <1>2, <1>3, <1>4, <1>6, SMT
         DEF IInv, Down, EventTaken, SlotFrame, NoExec, NoGen
    <2>3. Modes'
      BY <1>1, <1>2, <1>3, <1>4, <1>6, SMT
         DEF IInv, Modes, EventTaken, SlotFrame, Typed, Down, Running, Yielding,
             Allowed, Extraction, RunnerIsReleased, NoExec, NoPlan
    <2>4. Ordered'
      BY <1>1, <1>2, <1>3, <1>4, <1>6, SMT
         DEF IInv, Ordered, EventTaken, SlotFrame, TakenInOrder, Answers, Preparing,
             Finalizing, Prepared, Finalized
    <2>5. Tokens'
      BY <1>1, <1>2, <1>3, <1>4, <1>6, SMT
         DEF IInv, Tokens, EventTaken, SlotFrame, PrepareAnswers, FinalAnswers,
             Finals, Outcomes, NoExec, Running
    <2>6. Rows'
      BY <1>1, <1>2, <1>3, <1>4, <1>6, SMT
         DEF IInv, Rows, EventTaken, SlotFrame, PrepareAnswers, FinalAnswers,
             Outcomes, Finals, Running, EventTyped
    <2>7. Attempts'
      BY <1>1, <1>2, <1>3, <1>4, <1>6, SMT
         DEF IInv, Attempts, EventTaken, SlotFrame, Running, Finals, NoExec,
             FailedAfterAttempts
    <2>8. Driven'
      BY <1>1, <1>2, <1>3, <1>4, <1>6, SMT
         DEF IInv, Driven, EventTaken, SlotFrame, PreparePending, Running, NoExec,
             PrepareAnswers, FinalAnswers, Finals, Outcomes, Generates
    <2>9. Generates'
      BY <1>1, <1>2, <1>3, <1>4, <1>6, SMT
         DEF IInv, Generates, EventTaken, SlotFrame, PreparePending, Running, NoExec,
             NoGen, PrepareAnswers, FinalAnswers, Finals, Outcomes
    <2>10. Reports'
      BY <1>1, <1>2, <1>3, <1>4, <1>6, SMT
         DEF IInv, Reports, EventTaken, SlotFrame, TakenInOrder, OutcomesOf, EndsOf,
             Claims, Outcomes, NoGen
    <2>11. Writing'
      BY <1>1, <1>2, <1>3, <1>4, <1>6, SMT
         DEF IInv, Writing, EventTaken, SlotFrame, Executing, Job, Arg, Typed
    <2>12. Cursor'
      BY <1>1, <1>2, <1>3, <1>4, <1>6, SMT
         DEF IInv, Cursor, EventTaken, SlotFrame, Writing, Typed, Executing, Job, Arg,
             Extraction, Running, PreparePending, PrepareAnswers, FinalAnswers,
             Outcomes, Finals
    <2> QED  BY <2>1, <2>2, <2>3, <2>4, <2>5, <2>6, <2>7, <2>8, <2>9, <2>10, <2>11, <2>12 DEF IInv
  <1> QED  BY <1>1, <1>2, <1>3, <1>4, <1>5, <1>6, GenerationEndsIs
              DEF OnLateOutcome, Ours, EventArg

\* The recovery is answered: the coordinator accepts jobs and polls.
LEMMA OnRecoveredStep ==
  ASSUME IInv, OnRecovered
  PROVE  IInv'
  <1>1. /\ EventTaken /\ TakenInOrder /\ SlotFrame /\ up /\ Head(mainQ) \in Posted
        /\ Head(mainQ).ev \in {"recovered", "failed:recover"}
    BY HandlingIs DEF OnRecovered
  <1>2. recovering' = FALSE /\ UNCHANGED <<gen, current, pendingLaunch, abandoned>>
    BY DEF OnRecovered
  <1>3. Polled(claimInFlight) \/ UNCHANGED <<claimInFlight, dataQ>>
    BY <1>1, PollAfterIs DEF OnRecovered, IInv, Typed, SlotFrame
  <1>4. /\ ~claimInFlight /\ recovering /\ current = NoExec
        /\ Queued = {} /\ \A e \in Posted' : e \notin Answers
    BY <1>1, WhileRecovering, AllTyped
       DEF IInv, Tokens, Ordered, TakenInOrder, EventTaken, Answers, DataEvents,
           Prepared, PrepareAnswers
  <1>5. /\ UNCHANGED dataQ => UNCHANGED Queued
        /\ UNCHANGED mainQ => UNCHANGED Posted
    BY DEF Queued, Posted
  <1>6. /\ \A o \in Queued : OpTyped(o) /\ o \in OpRecs
        /\ \A e \in Posted : EventTyped(e) /\ e \in EventRecs
    BY AllTyped
  <1>7. ASSUME CanClaim', claimInFlight' = TRUE,
               OpSubmitted(Op("claim", NoJob, [extraction |-> memoryEnabled'])),
               QueuedInTurn(Op("claim", NoJob, [extraction |-> memoryEnabled'])), dataUp
       PROVE  IInv'
    <2>1. Typed'
      BY <1>1, <1>2, <1>3, <1>4, <1>7, NothingIsTyped
         DEF IInv, Typed, EventTaken, OpSubmitted, SlotFrame, Phases, CanClaim,
             IsRunning, Op
    <2>2. Down'
      BY <1>1, <1>2, <1>3, <1>4, <1>5, <1>6, <1>7, SMT
         DEF IInv, Down, EventTaken, OpSubmitted, SlotFrame, NoExec, NoGen, CanClaim,
             IsRunning, Op
    <2>3. Modes'
      BY <1>1, <1>2, <1>3, <1>4, <1>5, <1>6, <1>7, SMT
         DEF IInv, Modes, EventTaken, OpSubmitted, SlotFrame, Typed, Down, Running,
             Yielding, Allowed, Extraction, RunnerIsReleased, NoExec, NoPlan,
             CanClaim, IsRunning, Op
    <2>4. Ordered'
      BY <1>1, <1>2, <1>3, <1>4, <1>5, <1>6, <1>7, SMT
         DEF IInv, Ordered, EventTaken, OpSubmitted, SlotFrame, TakenInOrder,
             QueuedInTurn, Answers, Preparing, Finalizing, Prepared, Finalized,
             CanClaim, IsRunning, Op
    <2>5. Tokens'
      BY <1>1, <1>2, <1>3, <1>4, <1>5, <1>6, <1>7, SMT
         DEF IInv, Tokens, EventTaken, OpSubmitted, SlotFrame, PrepareAnswers,
             FinalAnswers, Finals, Outcomes, NoExec, Running, Answers, DataEvents,
             CanClaim, IsRunning, Op
    <2>6. Rows'
      BY <1>1, <1>2, <1>3, <1>4, <1>5, <1>6, <1>7, SMT
         DEF IInv, Rows, EventTaken, OpSubmitted, SlotFrame, PrepareAnswers,
             FinalAnswers, Outcomes, Finals, Running, EventTyped, Answers, DataEvents,
             CanClaim, IsRunning, Op
    <2>7. Attempts'
      BY <1>1, <1>2, <1>3, <1>4, <1>5, <1>6, <1>7, SMT
         DEF IInv, Attempts, EventTaken, OpSubmitted, SlotFrame, Running, Finals,
             NoExec, FailedAfterAttempts, Answers, DataEvents, CanClaim, IsRunning, Op
    <2>8. Driven'
      BY <1>1, <1>2, <1>3, <1>4, <1>5, <1>6, <1>7, SMT
         DEF IInv, Driven, EventTaken, OpSubmitted, SlotFrame, PreparePending,
             Running, NoExec, PrepareAnswers, FinalAnswers, Finals, Outcomes, Answers,
             DataEvents, CanClaim, IsRunning, Op
    <2>9. Generates'
      BY <1>1, <1>2, <1>3, <1>4, <1>5, <1>6, <1>7, SMT
         DEF IInv, Generates, EventTaken, OpSubmitted, SlotFrame, PreparePending,
             Running, NoExec, NoGen, PrepareAnswers, FinalAnswers, Finals, Outcomes,
             Answers, DataEvents, CanClaim, IsRunning, Op
    <2>10. Reports'
      BY <1>1, <1>2, <1>3, <1>4, <1>5, <1>6, <1>7, SMT
         DEF IInv, Reports, EventTaken, OpSubmitted, SlotFrame, TakenInOrder,
             QueuedInTurn, OutcomesOf, EndsOf, Claims, Outcomes, NoGen,
             PrepareAnswers, FinalAnswers, CanClaim, IsRunning, Op
    <2>11. Writing'
      BY <1>1, <1>2, <1>3, <1>4, <1>5, <1>6, <1>7, SMT
         DEF IInv, Writing, EventTaken, OpSubmitted, SlotFrame, Executing, Job, Arg,
             Typed, CanClaim, IsRunning, Op
    <2>12. Cursor'
      BY <1>1, <1>2, <1>3, <1>4, <1>5, <1>6, <1>7, SMT
         DEF IInv, Cursor, EventTaken, OpSubmitted, SlotFrame, Writing, Typed,
             Executing, Job, Arg, Extraction, Running, PreparePending, PrepareAnswers,
             FinalAnswers, Outcomes, Finals, Answers, DataEvents, CanClaim, IsRunning,
             Op
    <2> QED  BY <2>1, <2>2, <2>3, <2>4, <2>5, <2>6, <2>7, <2>8, <2>9, <2>10, <2>11, <2>12 DEF IInv
  <1>8. ASSUME UNCHANGED <<claimInFlight, dataQ>>
       PROVE  IInv'
    <2>1. Typed'
      BY <1>1, <1>2, <1>3, <1>4, <1>8, NothingIsTyped
         DEF IInv, Typed, EventTaken, SlotFrame, Phases
    <2>2. Down'
      BY <1>1, <1>2, <1>3, <1>4, <1>5, <1>6, <1>8, SMT
         DEF IInv, Down, EventTaken, SlotFrame, NoExec, NoGen
    <2>3. Modes'
      BY <1>1, <1>2, <1>3, <1>4, <1>5, <1>6, <1>8, SMT
         DEF IInv, Modes, EventTaken, SlotFrame, Typed, Down, Running, Yielding,
             Allowed, Extraction, RunnerIsReleased, NoExec, NoPlan
    <2>4. Ordered'
      BY <1>1, <1>2, <1>3, <1>4, <1>5, <1>6, <1>8, SMT
         DEF IInv, Ordered, EventTaken, SlotFrame, TakenInOrder, Answers, Preparing,
             Finalizing, Prepared, Finalized
    <2>5. Tokens'
      BY <1>1, <1>2, <1>3, <1>4, <1>5, <1>6, <1>8, SMT
         DEF IInv, Tokens, EventTaken, SlotFrame, PrepareAnswers, FinalAnswers,
             Finals, Outcomes, NoExec, Running, Answers, DataEvents
    <2>6. Rows'
      BY <1>1, <1>2, <1>3, <1>4, <1>5, <1>6, <1>8, SMT
         DEF IInv, Rows, EventTaken, SlotFrame, PrepareAnswers, FinalAnswers,
             Outcomes, Finals, Running, EventTyped, Answers, DataEvents
    <2>7. Attempts'
      BY <1>1, <1>2, <1>3, <1>4, <1>5, <1>6, <1>8, SMT
         DEF IInv, Attempts, EventTaken, SlotFrame, Running, Finals, NoExec,
             FailedAfterAttempts, Answers, DataEvents
    <2>8. Driven'
      BY <1>1, <1>2, <1>3, <1>4, <1>5, <1>6, <1>8, SMT
         DEF IInv, Driven, EventTaken, SlotFrame, PreparePending, Running, NoExec,
             PrepareAnswers, FinalAnswers, Finals, Outcomes, Answers, DataEvents
    <2>9. Generates'
      BY <1>1, <1>2, <1>3, <1>4, <1>5, <1>6, <1>8, SMT
         DEF IInv, Generates, EventTaken, SlotFrame, PreparePending, Running, NoExec,
             NoGen, PrepareAnswers, FinalAnswers, Finals, Outcomes, Answers,
             DataEvents
    <2>10. Reports'
      BY <1>1, <1>2, <1>3, <1>4, <1>5, <1>6, <1>8, SMT
         DEF IInv, Reports, EventTaken, SlotFrame, TakenInOrder, OutcomesOf, EndsOf,
             Claims, Outcomes, NoGen, PrepareAnswers, FinalAnswers
    <2>11. Writing'
      BY <1>1, <1>2, <1>3, <1>4, <1>5, <1>6, <1>8, SMT
         DEF IInv, Writing, EventTaken, SlotFrame, Executing, Job, Arg, Typed
    <2>12. Cursor'
      BY <1>1, <1>2, <1>3, <1>4, <1>5, <1>6, <1>8, SMT
         DEF IInv, Cursor, EventTaken, SlotFrame, Writing, Typed, Executing, Job, Arg,
             Extraction, Running, PreparePending, PrepareAnswers, FinalAnswers,
             Outcomes, Finals, Answers, DataEvents
    <2> QED  BY <2>1, <2>2, <2>3, <2>4, <2>5, <2>6, <2>7, <2>8, <2>9, <2>10, <2>11, <2>12 DEF IInv
  <1> QED  BY <1>1, <1>2, <1>3, <1>4, <1>5, <1>6, <1>7, <1>8 DEF Polled

\* A claimed job becomes the execution, is handed back, or fails for its payload.
LEMMA OnClaimedStep ==
  ASSUME IInv, OnClaimed
  PROVE  IInv'
  <1>1. /\ EventTaken /\ TakenInOrder /\ SlotFrame /\ up /\ Head(mainQ) \in Posted
        /\ Head(mainQ).ev = "claimed" /\ Head(mainQ).job \in Jobs /\ Head(mainQ).job # NoJob
              /\ Head(mainQ).arg.attempt \in Nat
    BY HandlingIs, AllTyped, JobsAssumption DEF OnClaimed, EventTyped, EventJob
  <1>2. /\ claimInFlight /\ ~recovering /\ current = NoExec
        /\ Queued = {} /\ \A e \in Posted' : e \notin Answers
    BY <1>1, WhileClaiming, AllTyped
       DEF IInv, Tokens, Ordered, TakenInOrder, EventTaken, Answers, DataEvents,
           Prepared, PrepareAnswers
  <1>3. status[Head(mainQ).job] = "running" /\ claimInFlight' = FALSE /\ UNCHANGED <<recovering,
                                                                                     gen, pendingLaunch>>
    BY <1>1 DEF OnClaimed, IInv, Rows
  <1>4. gen = NoGen /\ gen.id = 0 /\ opStep = "start"
    BY <1>1, <1>2, FirstOp
       DEF IInv, Reports, Generates, Writing, Executing, TakenInOrder, EventTaken,
           Claims, NoGen
  <1>5. \A j \in Jobs : status[j] = "running" /\ j \notin abandoned => Head(mainQ).job = j
    BY <1>1, <1>2, AllTyped, JobsAssumption
       DEF IInv, Rows, EventTaken, NoExec, Answers, DataEvents
  <1>6. Op("retry", Head(mainQ).job, Now) \in OpRecs
           /\ Op("prepare", Head(mainQ).job, NoArg) \in OpRecs
           /\ Op("fail", Head(mainQ).job, NoArg) \in OpRecs
    BY <1>1 DEF OpRecs, Op, Now
  <1>7. /\ UNCHANGED dataQ => UNCHANGED Queued
        /\ UNCHANGED mainQ => UNCHANGED Posted
    BY DEF Queued, Posted
  <1>8. /\ \A o \in Queued : OpTyped(o) /\ o \in OpRecs
        /\ \A e \in Posted : EventTyped(e) /\ e \in EventRecs
    BY AllTyped
  <1>9. ASSUME NEW o \in OpRecs, o.op \in {"retry", "fail"}, o.job = Head(mainQ).job,
               o.op = "fail" => o.job \in Malformed, dataUp, dataQ' = Append(dataQ, o),
               current' = [NoExec EXCEPT !.job = Head(mainQ).job, !.attempt = Head(mainQ).arg.attempt, !.finishing = TRUE],
               UNCHANGED abandoned
       PROVE  IInv'
    <2>1. OpSubmitted(o) /\ QueuedInTurn(o)
      BY <1>9, SubmitsOp
    <2>2. /\ current' \in Execs /\ current'.job = Head(mainQ).job
                /\ current'.attempt = Head(mainQ).arg.attempt /\ current' # NoExec
                /\ current'.finishing
      BY <1>1, <1>9, JobsAssumption DEF NoExec, Execs, NoPlan, Plans
    <2>3. Typed'
      BY <1>1, <1>2, <1>3, <1>4, <1>5, <1>6, <1>9, <2>1, <2>2, NothingIsTyped
         DEF IInv, Typed, EventTaken, OpSubmitted, SlotFrame, Phases
    <2>4. Down'
      BY <1>1, <1>2, <1>3, <1>4, <1>5, <1>6, <1>7, <1>8, <1>9, <2>1, <2>2, SMT
         DEF IInv, Down, EventTaken, OpSubmitted, SlotFrame, NoExec, NoGen
    <2>5. Modes'
      BY <1>1, <1>2, <1>3, <1>4, <1>5, <1>6, <1>7, <1>8, <1>9, <2>1, <2>2, SMT
         DEF IInv, Modes, EventTaken, OpSubmitted, SlotFrame, Typed, Down, Running,
             Yielding, Allowed, Extraction, RunnerIsReleased, NoExec, NoPlan
    <2>6. Ordered'
      BY <1>1, <1>2, <1>3, <1>4, <1>5, <1>6, <1>7, <1>8, <1>9, <2>1, <2>2, SMT
         DEF IInv, Ordered, EventTaken, OpSubmitted, SlotFrame, TakenInOrder,
             QueuedInTurn, Answers, Preparing, Finalizing, Prepared, Finalized
    <2>7. Tokens'
      BY <1>1, <1>2, <1>3, <1>4, <1>5, <1>6, <1>7, <1>8, <1>9, <2>1, <2>2, SMT
         DEF IInv, Tokens, EventTaken, OpSubmitted, SlotFrame, PrepareAnswers,
             FinalAnswers, Finals, Outcomes, NoExec, Running, Answers, DataEvents
    <2>8. Rows'
      BY <1>1, <1>2, <1>3, <1>4, <1>5, <1>6, <1>7, <1>8, <1>9, <2>1, <2>2,
         JobsAssumption, SMT
         DEF IInv, Rows, EventTaken, OpSubmitted, SlotFrame, PrepareAnswers,
             FinalAnswers, Outcomes, Finals, Running, EventTyped, Answers, DataEvents, NoExec
    <2>9. Attempts'
      BY <1>1, <1>2, <1>3, <1>4, <1>5, <1>6, <1>7, <1>8, <1>9, <2>1, <2>2, SMT
         DEF IInv, Attempts, EventTaken, OpSubmitted, SlotFrame, Running, Finals,
             NoExec, FailedAfterAttempts, Answers, DataEvents, Rows
    <2>10. Driven'
      BY <1>1, <1>2, <1>3, <1>4, <1>5, <1>6, <1>7, <1>8, <1>9, <2>1, <2>2, SMT
         DEF IInv, Driven, EventTaken, OpSubmitted, SlotFrame, PreparePending,
             Running, NoExec, PrepareAnswers, FinalAnswers, Finals, Outcomes, Answers,
             DataEvents
    <2>11. Generates'
      BY <1>1, <1>2, <1>3, <1>4, <1>5, <1>6, <1>7, <1>8, <1>9, <2>1, <2>2, SMT
         DEF IInv, Generates, EventTaken, OpSubmitted, SlotFrame, PreparePending,
             Running, NoExec, NoGen, PrepareAnswers, FinalAnswers, Finals, Outcomes,
             Answers, DataEvents
    <2>12. Reports'
      BY <1>1, <1>2, <1>3, <1>4, <1>5, <1>6, <1>7, <1>8, <1>9, <2>1, <2>2, SMT
         DEF IInv, Reports, EventTaken, OpSubmitted, SlotFrame, TakenInOrder,
             QueuedInTurn, OutcomesOf, EndsOf, Claims, Outcomes, NoGen,
             PrepareAnswers, FinalAnswers
    <2>13. Writing'
      BY <1>1, <1>2, <1>3, <1>4, <1>5, <1>6, <1>7, <1>8, <1>9, <2>1, <2>2, SMT
         DEF IInv, Writing, EventTaken, OpSubmitted, SlotFrame, Executing, Job, Arg,
             Typed
    <2>14. Cursor'
      BY <1>1, <1>2, <1>3, <1>4, <1>5, <1>6, <1>7, <1>8, <1>9, <2>1, <2>2, SMT
         DEF IInv, Cursor, EventTaken, OpSubmitted, SlotFrame, Writing, Typed,
             Executing, Job, Arg, Extraction, Running, PreparePending, PrepareAnswers,
             FinalAnswers, Outcomes, Finals, Answers, DataEvents
    <2> QED  BY <2>3, <2>4, <2>5, <2>6, <2>7, <2>8, <2>9, <2>10, <2>11, <2>12, <2>13, <2>14 DEF IInv
  <1>10. ASSUME ~Yielding, Allowed(Head(mainQ).job), dataUp,
                dataQ' = Append(dataQ, Op("prepare", Head(mainQ).job, NoArg)),
                current' = [NoExec EXCEPT !.job = Head(mainQ).job, !.attempt = Head(mainQ).arg.attempt, !.finishing = FALSE],
                UNCHANGED abandoned
        PROVE  IInv'
    <2>1. OpSubmitted(Op("prepare", Head(mainQ).job, NoArg))
             /\ QueuedInTurn(Op("prepare", Head(mainQ).job, NoArg))
      BY <1>6, <1>10, SubmitsOp
    <2>2. /\ current' \in Execs /\ current'.job = Head(mainQ).job
                /\ current'.attempt = Head(mainQ).arg.attempt /\ current' # NoExec
                /\ ~current'.finishing
      BY <1>1, <1>10, JobsAssumption DEF NoExec, Execs, NoPlan, Plans
    <2>3. Typed'
      BY <1>1, <1>2, <1>3, <1>4, <1>5, <1>6, <1>10, <2>1, <2>2, NothingIsTyped
         DEF IInv, Typed, EventTaken, OpSubmitted, SlotFrame, Phases, Op, Yielding,
             Allowed, Extraction
    <2>4. Down'
      BY <1>1, <1>2, <1>3, <1>4, <1>5, <1>6, <1>7, <1>8, <1>10, <2>1, <2>2, SMT
         DEF IInv, Down, EventTaken, OpSubmitted, SlotFrame, NoExec, NoGen, Op,
             Yielding, Allowed, Extraction
    <2>5. Modes'
      BY <1>1, <1>2, <1>3, <1>4, <1>5, <1>6, <1>7, <1>8, <1>10, <2>1, <2>2, SMT
         DEF IInv, Modes, EventTaken, OpSubmitted, SlotFrame, Typed, Down, Running,
             Yielding, Allowed, Extraction, RunnerIsReleased, NoExec, NoPlan, Op
    <2>6. Ordered'
      BY <1>1, <1>2, <1>3, <1>4, <1>5, <1>6, <1>7, <1>8, <1>10, <2>1, <2>2, SMT
         DEF IInv, Ordered, EventTaken, OpSubmitted, SlotFrame, TakenInOrder,
             QueuedInTurn, Answers, Preparing, Finalizing, Prepared, Finalized, Op,
             Yielding, Allowed, Extraction
    <2>7. Tokens'
      BY <1>1, <1>2, <1>3, <1>4, <1>5, <1>6, <1>7, <1>8, <1>10, <2>1, <2>2, SMT
         DEF IInv, Tokens, EventTaken, OpSubmitted, SlotFrame, PrepareAnswers,
             FinalAnswers, Finals, Outcomes, NoExec, Running, Answers, DataEvents, Op,
             Yielding, Allowed, Extraction
    <2>8. Rows'
      BY <1>1, <1>2, <1>3, <1>4, <1>5, <1>6, <1>7, <1>8, <1>10, <2>1, <2>2,
         JobsAssumption, SMT
         DEF IInv, Rows, EventTaken, OpSubmitted, SlotFrame, PrepareAnswers,
             FinalAnswers, Outcomes, Finals, Running, EventTyped, Answers, DataEvents,
             Op, Yielding, Allowed, Extraction, NoExec
    <2>9. Attempts'
      BY <1>1, <1>2, <1>3, <1>4, <1>5, <1>6, <1>7, <1>8, <1>10, <2>1, <2>2, SMT
         DEF IInv, Attempts, EventTaken, OpSubmitted, SlotFrame, Running, Finals,
             NoExec, FailedAfterAttempts, Answers, DataEvents, Op, Yielding, Allowed,
             Extraction, Rows
    <2>10. Driven'
      BY <1>1, <1>2, <1>3, <1>4, <1>5, <1>6, <1>7, <1>8, <1>10, <2>1, <2>2, SMT
         DEF IInv, Driven, EventTaken, OpSubmitted, SlotFrame, PreparePending,
             Running, NoExec, PrepareAnswers, FinalAnswers, Finals, Outcomes, Answers,
             DataEvents, Op, Yielding, Allowed, Extraction
    <2>11. Generates'
      BY <1>1, <1>2, <1>3, <1>4, <1>5, <1>6, <1>7, <1>8, <1>10, <2>1, <2>2, SMT
         DEF IInv, Generates, EventTaken, OpSubmitted, SlotFrame, PreparePending,
             Running, NoExec, NoGen, PrepareAnswers, FinalAnswers, Finals, Outcomes,
             Answers, DataEvents, Op, Yielding, Allowed, Extraction
    <2>12. Reports'
      BY <1>1, <1>2, <1>3, <1>4, <1>5, <1>6, <1>7, <1>8, <1>10, <2>1, <2>2, SMT
         DEF IInv, Reports, EventTaken, OpSubmitted, SlotFrame, TakenInOrder,
             QueuedInTurn, OutcomesOf, EndsOf, Claims, Outcomes, NoGen,
             PrepareAnswers, FinalAnswers, Op, Yielding, Allowed, Extraction
    <2>13. Writing'
      BY <1>1, <1>2, <1>3, <1>4, <1>5, <1>6, <1>7, <1>8, <1>10, <2>1, <2>2, SMT
         DEF IInv, Writing, EventTaken, OpSubmitted, SlotFrame, Executing, Job, Arg,
             Typed, Op, Yielding, Allowed, Extraction
    <2>14. Cursor'
      BY <1>1, <1>2, <1>3, <1>4, <1>5, <1>6, <1>7, <1>8, <1>10, <2>1, <2>2, SMT
         DEF IInv, Cursor, EventTaken, OpSubmitted, SlotFrame, Writing, Typed,
             Executing, Job, Arg, Extraction, Running, PreparePending, PrepareAnswers,
             FinalAnswers, Outcomes, Finals, Answers, DataEvents, Op, Yielding,
             Allowed
    <2> QED  BY <2>3, <2>4, <2>5, <2>6, <2>7, <2>8, <2>9, <2>10, <2>11, <2>12, <2>13, <2>14 DEF IInv
  <1>11. ASSUME ~dataUp, UNCHANGED <<dataQ, current>>, abandoned' = abandoned \cup {Head(mainQ).job}
        PROVE  IInv'
    <2>1. Typed'
      BY <1>1, <1>2, <1>3, <1>4, <1>5, <1>6, <1>11, NothingIsTyped
         DEF IInv, Typed, EventTaken, SlotFrame, Phases
    <2>2. Down'
      BY <1>1, <1>2, <1>3, <1>4, <1>5, <1>6, <1>7, <1>8, <1>11, SMT
         DEF IInv, Down, EventTaken, SlotFrame, NoExec, NoGen
    <2>3. Modes'
      BY <1>1, <1>2, <1>3, <1>4, <1>5, <1>6, <1>7, <1>8, <1>11, SMT
         DEF IInv, Modes, EventTaken, SlotFrame, Typed, Down, Running, Yielding,
             Allowed, Extraction, RunnerIsReleased, NoExec, NoPlan
    <2>4. Ordered'
      BY <1>1, <1>2, <1>3, <1>4, <1>5, <1>6, <1>7, <1>8, <1>11, SMT
         DEF IInv, Ordered, EventTaken, SlotFrame, TakenInOrder, Answers, Preparing,
             Finalizing, Prepared, Finalized
    <2>5. Tokens'
      BY <1>1, <1>2, <1>3, <1>4, <1>5, <1>6, <1>7, <1>8, <1>11, SMT
         DEF IInv, Tokens, EventTaken, SlotFrame, PrepareAnswers, FinalAnswers,
             Finals, Outcomes, NoExec, Running, Answers, DataEvents
    <2>6. Rows'
      BY <1>1, <1>2, <1>3, <1>4, <1>5, <1>6, <1>7, <1>8, <1>11, JobsAssumption, SMT
         DEF IInv, Rows, EventTaken, SlotFrame, PrepareAnswers, FinalAnswers,
             Outcomes, Finals, Running, EventTyped, Answers, DataEvents, NoExec
    <2>7. Attempts'
      BY <1>1, <1>2, <1>3, <1>4, <1>5, <1>6, <1>7, <1>8, <1>11, SMT
         DEF IInv, Attempts, EventTaken, SlotFrame, Running, Finals, NoExec,
             FailedAfterAttempts, Answers, DataEvents, Rows
    <2>8. Driven'
      BY <1>1, <1>2, <1>3, <1>4, <1>5, <1>6, <1>7, <1>8, <1>11, SMT
         DEF IInv, Driven, EventTaken, SlotFrame, PreparePending, Running, NoExec,
             PrepareAnswers, FinalAnswers, Finals, Outcomes, Answers, DataEvents
    <2>9. Generates'
      BY <1>1, <1>2, <1>3, <1>4, <1>5, <1>6, <1>7, <1>8, <1>11, SMT
         DEF IInv, Generates, EventTaken, SlotFrame, PreparePending, Running, NoExec,
             NoGen, PrepareAnswers, FinalAnswers, Finals, Outcomes, Answers,
             DataEvents
    <2>10. Reports'
      BY <1>1, <1>2, <1>3, <1>4, <1>5, <1>6, <1>7, <1>8, <1>11, SMT
         DEF IInv, Reports, EventTaken, SlotFrame, TakenInOrder, OutcomesOf, EndsOf,
             Claims, Outcomes, NoGen, PrepareAnswers, FinalAnswers
    <2>11. Writing'
      BY <1>1, <1>2, <1>3, <1>4, <1>5, <1>6, <1>7, <1>8, <1>11, SMT
         DEF IInv, Writing, EventTaken, SlotFrame, Executing, Job, Arg, Typed
    <2>12. Cursor'
      BY <1>1, <1>2, <1>3, <1>4, <1>5, <1>6, <1>7, <1>8, <1>11, SMT
         DEF IInv, Cursor, EventTaken, SlotFrame, Writing, Typed, Executing, Job, Arg,
             Extraction, Running, PreparePending, PrepareAnswers, FinalAnswers,
             Outcomes, Finals, Answers, DataEvents
    <2> QED  BY <2>1, <2>2, <2>3, <2>4, <2>5, <2>6, <2>7, <2>8, <2>9, <2>10, <2>11, <2>12 DEF IInv
  <1>12. CASE ~dataUp
    BY <1>1, <1>2, <1>11, <1>12 DEF OnClaimed, Submitted, EventJob
  <1>13. CASE dataUp /\ AfterClaim(EventJob).op = "prepare"
    BY <1>1, <1>2, <1>10, <1>13 DEF OnClaimed, AfterClaim, Submitted, EventJob, EventArg, Op
  <1>14. CASE dataUp /\ AfterClaim(EventJob).op # "prepare"
    <2>1. /\ AfterClaim(EventJob) \in OpRecs /\ AfterClaim(EventJob).op \in {"retry", "fail"}
          /\ AfterClaim(EventJob).job = Head(mainQ).job
          /\ AfterClaim(EventJob).op = "fail" => AfterClaim(EventJob).job \in Malformed
      BY <1>6, <1>14 DEF AfterClaim, EventJob, Op
    <2> QED  BY <1>9, <1>14, <2>1 DEF OnClaimed, Submitted, EventJob, EventArg
  <1> QED  BY <1>12, <1>13, <1>14

\* The input of the execution is there and its generation starts.
LEMMA OnPreparedStep ==
  ASSUME IInv, OnPrepared
  PROVE  IInv'
  <1>1. /\ EventTaken /\ TakenInOrder /\ SlotFrame /\ up /\ Head(mainQ) \in Posted
        /\ Head(mainQ).ev = "prepared" /\ Head(mainQ).job \in Jobs /\ Head(mainQ).arg \in Plans
    BY HandlingIs, AllTyped DEF OnPrepared, EventTyped, PrepareAnswers
  <1>2. /\ Running /\ current.job = Head(mainQ).job /\ ~Yielding /\ Allowed(EventJob)
        /\ gen.id = 0 /\ CanStart
    BY <1>1
       DEF OnPrepared, Awaited, EventJob, IInv, Modes, Generates, PreparePending,
           PrepareAnswers, CanStart, RunnerIsReleased, Yielding
  <1>3. current.attempt \in Nat /\ current \in Execs
    BY DEF IInv, Typed, Execs
  <1>4. /\ current' = [current EXCEPT !.plan = Head(mainQ).arg]
        /\ pendingLaunch' = "none" /\ UNCHANGED <<dataQ, abandoned, recovering, claimInFlight>>
    BY <1>2 DEF OnPrepared, Launch, EventArg
  <1>5. Started(current.job, current.attempt)
    BY <1>1, <1>2, <1>3, StartIs DEF OnPrepared, Launch, EventJob, Phases
  <1>6. /\ current' \in Execs /\ current'.job = current.job /\ current'.attempt = current.attempt
        /\ current'.plan = Head(mainQ).arg /\ current' # NoExec /\ ~current'.finishing /\ Running'
    BY <1>1, <1>2, <1>3, <1>4, JobsAssumption DEF Execs, NoExec, Running
  <1>7. Queued = {} /\ ~claimInFlight /\ \A e \in Posted' : e \notin Answers
    BY <1>1, <1>2, WhileRunning, AllTyped
       DEF IInv, Ordered, TakenInOrder, EventTaken, Answers, DataEvents,
           PrepareAnswers, Preparing, Finalizing, Finals, Finalized, FinalAnswers
  <1>8. /\ Before(mainQ', OutcomesOf(gen'.id), EndsOf(gen'.id))
              /\ Before(mainQ', EndsOf(gen'.id), Claims)
        /\ \A e \in Posted' : e \notin OutcomesOf(gen'.id) /\ e \notin EndsOf(gen'.id)
    BY <1>1, <1>5, <1>7, BeforeNone
       DEF EventTaken, Started, OutcomesOf, EndsOf, Claims, Answers, DataEvents,
           Posted
  <1>9. /\ UNCHANGED dataQ => UNCHANGED Queued
        /\ UNCHANGED mainQ => UNCHANGED Posted
    BY DEF Queued, Posted
  <1>10. /\ \A o \in Queued : OpTyped(o) /\ o \in OpRecs
         /\ \A e \in Posted : EventTyped(e) /\ e \in EventRecs
    BY AllTyped
  <1>11. Typed'
    BY <1>1, <1>2, <1>3, <1>4, <1>5, <1>6, <1>7, <1>8, NothingIsTyped
       DEF IInv, Typed, EventTaken, Started, SlotFrame, Phases
  <1>12. Down'
    BY <1>1, <1>2, <1>3, <1>4, <1>5, <1>6, <1>7, <1>8, <1>9, <1>10, SMT
       DEF IInv, Down, EventTaken, Started, SlotFrame, NoExec, NoGen
  <1>13. Modes'
    BY <1>1, <1>2, <1>3, <1>4, <1>5, <1>6, <1>7, <1>8, <1>9, <1>10, SMT
       DEF IInv, Modes, EventTaken, Started, SlotFrame, Typed, Down, Running,
           Yielding, Allowed, Extraction, RunnerIsReleased, NoExec, NoPlan
  <1>14. Ordered'
    BY <1>1, <1>2, <1>3, <1>4, <1>5, <1>6, <1>7, <1>8, <1>9, <1>10, SMT
       DEF IInv, Ordered, EventTaken, Started, SlotFrame, TakenInOrder, Answers,
           Preparing, Finalizing, Prepared, Finalized
  <1>15. Tokens'
    BY <1>1, <1>2, <1>3, <1>4, <1>5, <1>6, <1>7, <1>8, <1>9, <1>10, SMT
       DEF IInv, Tokens, EventTaken, Started, SlotFrame, PrepareAnswers, FinalAnswers,
           Finals, Outcomes, NoExec, Running, Answers, DataEvents
  <1>16. Rows'
    BY <1>1, <1>2, <1>3, <1>4, <1>5, <1>6, <1>7, <1>8, <1>9, <1>10, SMT
       DEF IInv, Rows, EventTaken, Started, SlotFrame, PrepareAnswers, FinalAnswers,
           Outcomes, Finals, Running, EventTyped, Answers, DataEvents
  <1>17. Attempts'
    BY <1>1, <1>2, <1>3, <1>4, <1>5, <1>6, <1>7, <1>8, <1>9, <1>10, SMT
       DEF IInv, Attempts, EventTaken, Started, SlotFrame, Running, Finals, NoExec,
           FailedAfterAttempts, Answers, DataEvents
  <1>18. Driven'
    BY <1>1, <1>2, <1>3, <1>4, <1>5, <1>6, <1>7, <1>8, <1>9, <1>10, SMT
       DEF IInv, Driven, EventTaken, Started, SlotFrame, PreparePending, Running,
           NoExec, PrepareAnswers, FinalAnswers, Finals, Outcomes, Answers, DataEvents
  <1>19. Generates'
    BY <1>1, <1>2, <1>3, <1>4, <1>5, <1>6, <1>7, <1>8, <1>9, <1>10, SMT
       DEF IInv, Generates, EventTaken, Started, SlotFrame, PreparePending, Running,
           NoExec, NoGen, PrepareAnswers, FinalAnswers, Finals, Outcomes, Answers,
           DataEvents
  <1>20. Reports'
    BY <1>5, <1>8 DEF Started, Reports
  <1>21. Writing'
    BY <1>1, <1>2, <1>3, <1>4, <1>5, <1>6, <1>7, <1>8, <1>9, <1>10, SMT
       DEF IInv, Writing, EventTaken, Started, SlotFrame, Executing, Job, Arg, Typed
  <1>22. Cursor'
    BY <1>1, <1>2, <1>3, <1>4, <1>5, <1>6, <1>7, <1>8, <1>9, <1>10, SMT
       DEF IInv, Cursor, EventTaken, Started, SlotFrame, Writing, Typed, Executing,
           Job, Arg, Extraction, Running, PreparePending, PrepareAnswers,
           FinalAnswers, Outcomes, Finals, Answers, DataEvents
  <1> QED  BY <1>11, <1>12, <1>13, <1>14, <1>15, <1>16, <1>17, <1>18, <1>19, <1>20, <1>21,
              <1>22 DEF IInv

\* The execution hands its job to the data thread.
HandsOver(o) ==
  /\ EventTaken /\ TakenInOrder /\ SlotFrame /\ up /\ Head(mainQ) \in Posted
  /\ Running /\ FinishedBy(o) /\ UNCHANGED <<recovering, claimInFlight>>
  /\ o.op = "fail" => current.attempt >= MaxJobAttempts
  /\ o.op = "persist" => o.arg = current.plan

\* To hand the job over preserves the invariant, whatever made it.
LEMMA HandsOverStep ==
  ASSUME IInv, NEW final, HandsOver(final), final.op = "persist" => gen.id # 0,
         (Head(mainQ).ev \in PrepareAnswers /\ UNCHANGED gen)
            \/ (Head(mainQ).ev \in Outcomes /\ gen.id # 0 /\ Head(mainQ).arg.id = gen.id /\ Ended)
  PROVE  IInv'
  <1>1. /\ UNCHANGED dataQ => UNCHANGED Queued
        /\ UNCHANGED mainQ => UNCHANGED Posted
    BY DEF Queued, Posted
  <1>2. /\ \A o \in Queued : OpTyped(o) /\ o \in OpRecs
        /\ \A e \in Posted : EventTyped(e) /\ e \in EventRecs
    BY AllTyped
  <1>3. ASSUME Head(mainQ).ev \in PrepareAnswers, UNCHANGED gen, gen.id = 0, final.op # "persist"
       PROVE  IInv'
    <2>1. Queued = {} /\ \A e \in Posted' : e \notin Answers
      BY <1>3, WhileRunning, AllTyped
         DEF HandsOver, IInv, Ordered, TakenInOrder, EventTaken, Answers, DataEvents,
             PrepareAnswers, Preparing, Finalizing, Finals, Finalized, FinalAnswers
    <2>2. Typed'
      BY <1>3, <2>1, NothingIsTyped
         DEF IInv, Typed, EventTaken, OpSubmitted, FinishedBy, Ended, SlotFrame,
             Phases, HandsOver
    <2>3. Down'
      BY <1>1, <1>2, <1>3, <2>1, SMT
         DEF IInv, Down, EventTaken, OpSubmitted, FinishedBy, Ended, SlotFrame,
             NoExec, NoGen, HandsOver
    <2>4. Modes'
      BY <1>1, <1>2, <1>3, <2>1, SMT
         DEF IInv, Modes, EventTaken, OpSubmitted, FinishedBy, Ended, SlotFrame,
             Typed, Down, Running, Yielding, Allowed, Extraction, RunnerIsReleased,
             NoExec, NoPlan, HandsOver
    <2>5. Ordered'
      BY <1>1, <1>2, <1>3, <2>1, SMT
         DEF IInv, Ordered, EventTaken, OpSubmitted, FinishedBy, Ended, SlotFrame,
             TakenInOrder, QueuedInTurn, Answers, Preparing, Finalizing, Prepared,
             Finalized, HandsOver
    <2>6. Tokens'
      BY <1>1, <1>2, <1>3, <2>1, SMT
         DEF IInv, Tokens, EventTaken, OpSubmitted, FinishedBy, Ended, SlotFrame,
             PrepareAnswers, FinalAnswers, Finals, Outcomes, NoExec, Running, Answers,
             DataEvents, HandsOver
    <2>7. Rows'
      BY <1>1, <1>2, <1>3, <2>1, SMT
         DEF IInv, Rows, EventTaken, OpSubmitted, FinishedBy, Ended, SlotFrame,
             PrepareAnswers, FinalAnswers, Outcomes, Finals, Running, EventTyped,
             Answers, DataEvents, HandsOver
    <2>8. Attempts'
      BY <1>1, <1>2, <1>3, <2>1, SMT
         DEF IInv, Attempts, EventTaken, OpSubmitted, FinishedBy, Ended, SlotFrame,
             Running, Finals, NoExec, FailedAfterAttempts, Answers, DataEvents,
             HandsOver, Rows
    <2>9. Driven'
      BY <1>1, <1>2, <1>3, <2>1, SMT
         DEF IInv, Driven, EventTaken, OpSubmitted, FinishedBy, Ended, SlotFrame,
             PreparePending, Running, NoExec, PrepareAnswers, FinalAnswers, Finals,
             Outcomes, Answers, DataEvents, HandsOver
    <2>10. Generates'
      BY <1>1, <1>2, <1>3, <2>1, SMT
         DEF IInv, Generates, EventTaken, OpSubmitted, FinishedBy, Ended, SlotFrame,
             PreparePending, Running, NoExec, NoGen, PrepareAnswers, FinalAnswers,
             Finals, Outcomes, Answers, DataEvents, HandsOver, Reports, OutcomesOf
    <2>11. Reports'
      BY <1>1, <1>2, <1>3, <2>1, SMT
         DEF IInv, Reports, EventTaken, OpSubmitted, FinishedBy, Ended, SlotFrame,
             TakenInOrder, QueuedInTurn, OutcomesOf, EndsOf, Claims, Outcomes, NoGen,
             PrepareAnswers, FinalAnswers, HandsOver
    <2>12. Writing'
      BY <1>1, <1>2, <1>3, <2>1, SMT
         DEF IInv, Writing, EventTaken, OpSubmitted, FinishedBy, Ended, SlotFrame,
             Executing, Job, Arg, Typed, HandsOver
    <2>13. Cursor'
      BY <1>1, <1>2, <1>3, <2>1, SMT
         DEF IInv, Cursor, EventTaken, OpSubmitted, FinishedBy, Ended, SlotFrame,
             Writing, Typed, Executing, Job, Arg, Extraction, Running, PreparePending,
             PrepareAnswers, FinalAnswers, Outcomes, Finals, Answers, DataEvents,
             HandsOver
    <2> QED  BY <2>2, <2>3, <2>4, <2>5, <2>6, <2>7, <2>8, <2>9, <2>10, <2>11, <2>12, <2>13 DEF IInv
  <1>4. ASSUME Head(mainQ).ev \in Outcomes, gen.id # 0, Head(mainQ).arg.id = gen.id, Ended
       PROVE  IInv'
    <2>1. Queued = {} /\ \A e \in Posted : e \notin Answers
      BY <1>4, WhileGenerating DEF HandsOver
    <2>2. Typed'
      BY <1>4, <2>1, NothingIsTyped
         DEF IInv, Typed, EventTaken, OpSubmitted, FinishedBy, Ended, SlotFrame,
             Phases, HandsOver
    <2>3. Down'
      BY <1>1, <1>2, <1>4, <2>1, SMT
         DEF IInv, Down, EventTaken, OpSubmitted, FinishedBy, Ended, SlotFrame,
             NoExec, NoGen, HandsOver
    <2>4. Modes'
      BY <1>1, <1>2, <1>4, <2>1, SMT
         DEF IInv, Modes, EventTaken, OpSubmitted, FinishedBy, Ended, SlotFrame,
             Typed, Down, Running, Yielding, Allowed, Extraction, RunnerIsReleased,
             NoExec, NoPlan, HandsOver
    <2>5. Ordered'
      BY <1>1, <1>2, <1>4, <2>1, SMT
         DEF IInv, Ordered, EventTaken, OpSubmitted, FinishedBy, Ended, SlotFrame,
             TakenInOrder, QueuedInTurn, Answers, Preparing, Finalizing, Prepared,
             Finalized, HandsOver
    <2>6. Tokens'
      BY <1>1, <1>2, <1>4, <2>1, SMT
         DEF IInv, Tokens, EventTaken, OpSubmitted, FinishedBy, Ended, SlotFrame,
             PrepareAnswers, FinalAnswers, Finals, Outcomes, NoExec, Running, Answers,
             DataEvents, HandsOver
    <2>7. Rows'
      BY <1>1, <1>2, <1>4, <2>1, SMT
         DEF IInv, Rows, EventTaken, OpSubmitted, FinishedBy, Ended, SlotFrame,
             PrepareAnswers, FinalAnswers, Outcomes, Finals, Running, EventTyped,
             Answers, DataEvents, HandsOver
    <2>8. Attempts'
      BY <1>1, <1>2, <1>4, <2>1, SMT
         DEF IInv, Attempts, EventTaken, OpSubmitted, FinishedBy, Ended, SlotFrame,
             Running, Finals, NoExec, FailedAfterAttempts, Answers, DataEvents,
             HandsOver, Rows
    <2>9. Driven'
      BY <1>1, <1>2, <1>4, <2>1, SMT
         DEF IInv, Driven, EventTaken, OpSubmitted, FinishedBy, Ended, SlotFrame,
             PreparePending, Running, NoExec, PrepareAnswers, FinalAnswers, Finals,
             Outcomes, Answers, DataEvents, HandsOver
    <2>10. Generates'
      BY <1>1, <1>2, <1>4, <2>1, SMT
         DEF IInv, Generates, EventTaken, OpSubmitted, FinishedBy, Ended, SlotFrame,
             PreparePending, Running, NoExec, NoGen, PrepareAnswers, FinalAnswers,
             Finals, Outcomes, Answers, DataEvents, HandsOver, Reports, OutcomesOf
    <2>11. Reports'
      BY <1>1, <1>2, <1>4, <2>1, SMT
         DEF IInv, Reports, EventTaken, OpSubmitted, FinishedBy, Ended, SlotFrame,
             TakenInOrder, QueuedInTurn, OutcomesOf, EndsOf, Claims, Outcomes, NoGen,
             PrepareAnswers, FinalAnswers, HandsOver
    <2>12. Writing'
      BY <1>1, <1>2, <1>4, <2>1, SMT
         DEF IInv, Writing, EventTaken, OpSubmitted, FinishedBy, Ended, SlotFrame,
             Executing, Job, Arg, Typed, HandsOver
    <2>13. Cursor'
      BY <1>1, <1>2, <1>4, <2>1, SMT
         DEF IInv, Cursor, EventTaken, OpSubmitted, FinishedBy, Ended, SlotFrame,
             Writing, Typed, Executing, Job, Arg, Extraction, Running, PreparePending,
             PrepareAnswers, FinalAnswers, Outcomes, Finals, Answers, DataEvents,
             HandsOver
    <2> QED  BY <2>2, <2>3, <2>4, <2>5, <2>6, <2>7, <2>8, <2>9, <2>10, <2>11, <2>12, <2>13 DEF IInv
  <1> QED  BY <1>1, <1>2, <1>3, <1>4 DEF HandsOver, IInv, Generates, PreparePending

\* A job with nothing to do is completed.
LEMMA OnNothingToDoStep ==
  ASSUME IInv, OnNothingToDo
  PROVE  IInv'
  <1>1. /\ EventTaken /\ TakenInOrder /\ SlotFrame /\ up /\ Head(mainQ) \in Posted
              /\ Head(mainQ).ev \in PrepareAnswers
        /\ Running /\ current.job = Head(mainQ).job /\ UNCHANGED <<recovering, claimInFlight, gen>>
    BY HandlingIs DEF OnNothingToDo, Awaited, EventJob, PrepareAnswers
  <1>2. Op("complete", current.job, NoArg) \in OpRecs
    BY <1>1, RunningJob DEF OpRecs, Op
  <1>3. \E o : FinishedBy(o) /\ o.op \in {"retry", "complete"}
    BY <1>1, <1>2, RetryIs, FinishIs DEF OnNothingToDo, Finals, Op
  <1> QED  BY <1>1, <1>2, <1>3, HandsOverStep DEF HandsOver

\* A job whose input cannot be loaded is handed back.
LEMMA OnPrepareFailedStep ==
  ASSUME IInv, OnPrepareFailed
  PROVE  IInv'
  <1>1. /\ EventTaken /\ TakenInOrder /\ SlotFrame /\ up /\ Head(mainQ) \in Posted
              /\ Head(mainQ).ev \in PrepareAnswers
        /\ Running /\ current.job = Head(mainQ).job /\ UNCHANGED <<recovering, claimInFlight, gen>>
    BY HandlingIs DEF OnPrepareFailed, Awaited, EventJob, PrepareAnswers
  <1>2. \E o : FinishedBy(o) /\ o.op \in {"retry", "fail"}
           /\ (o.op = "fail" => current.attempt >= MaxJobAttempts)
    BY <1>1, FinishFailureIs DEF OnPrepareFailed
  <1> QED  BY <1>1, <1>2, HandsOverStep DEF HandsOver

\* A failed generation ends its job.
LEMMA OnFailedStep ==
  ASSUME IInv, OnFailed
  PROVE  IInv'
  <1>1. /\ EventTaken /\ TakenInOrder /\ SlotFrame /\ up /\ Head(mainQ) \in Posted
              /\ Head(mainQ).ev \in Outcomes
        /\ gen.id # 0 /\ Head(mainQ).arg.id = gen.id /\ Ended /\ UNCHANGED <<recovering,
                                                                             claimInFlight>>
        /\ Running /\ current.job = gen.job
    BY GenerationEndsIs DEF OnFailed, Ours, Outcomes
  <1>2. \E o : FinishedBy(o) /\ o.op \in {"retry", "fail"}
           /\ (o.op = "fail" => current.attempt >= MaxJobAttempts)
    BY <1>1, RetryIs, FinishFailureIs DEF OnFailed
  <1> QED  BY <1>1, <1>2, HandsOverStep DEF HandsOver

\* An answer that cannot be used is repaired once the runner is idle.
LEMMA RepairStep ==
  ASSUME IInv, EventTaken, TakenInOrder, SlotFrame, up, Head(mainQ) \in Posted,
         Head(mainQ).ev \in Outcomes, gen.id # 0, Head(mainQ).arg.id = gen.id, Ended,
         UNCHANGED <<recovering, claimInFlight>>, Running, Repair
  PROVE  IInv'
  <1>1. pendingLaunch' = "repair" /\ UNCHANGED <<dataQ, current, abandoned>>
    BY DEF Repair
  <1>2. Queued = {} /\ \A e \in Posted : e \notin Answers
    BY WhileGenerating
  <1>3. /\ UNCHANGED dataQ => UNCHANGED Queued
        /\ UNCHANGED mainQ => UNCHANGED Posted
    BY DEF Queued, Posted
  <1>4. /\ \A o \in Queued : OpTyped(o) /\ o \in OpRecs
        /\ \A e \in Posted : EventTyped(e) /\ e \in EventRecs
    BY AllTyped
  <1>5. Typed'
    BY <1>1, <1>2, NothingIsTyped
       DEF IInv, Typed, EventTaken, Ended, SlotFrame, Phases
  <1>6. Down'
    BY <1>1, <1>2, <1>3, <1>4, SMT
       DEF IInv, Down, EventTaken, Ended, SlotFrame, NoExec, NoGen, Phases
  <1>7. Modes'
    BY <1>1, <1>2, <1>3, <1>4, SMT
       DEF IInv, Modes, EventTaken, Ended, SlotFrame, Typed, Down, Running, Yielding,
           Allowed, Extraction, RunnerIsReleased, NoExec, NoPlan, Phases
  <1>8. Ordered'
    BY <1>1, <1>2, <1>3, <1>4, SMT
       DEF IInv, Ordered, EventTaken, Ended, SlotFrame, TakenInOrder, Answers,
           Preparing, Finalizing, Prepared, Finalized, Phases
  <1>9. Tokens'
    BY <1>1, <1>2, <1>3, <1>4, SMT
       DEF IInv, Tokens, EventTaken, Ended, SlotFrame, PrepareAnswers, FinalAnswers,
           Finals, Outcomes, NoExec, Running, Answers, DataEvents, Phases
  <1>10. Rows'
    BY <1>1, <1>2, <1>3, <1>4, SMT
       DEF IInv, Rows, EventTaken, Ended, SlotFrame, PrepareAnswers, FinalAnswers,
           Outcomes, Finals, Running, EventTyped, Answers, DataEvents, Phases
  <1>11. Attempts'
    BY <1>1, <1>2, <1>3, <1>4, SMT
       DEF IInv, Attempts, EventTaken, Ended, SlotFrame, Running, Finals, NoExec,
           FailedAfterAttempts, Answers, DataEvents, Phases
  <1>12. Driven'
    BY <1>1, <1>2, <1>3, <1>4, SMT
       DEF IInv, Driven, EventTaken, Ended, SlotFrame, PreparePending, Running,
           NoExec, PrepareAnswers, FinalAnswers, Finals, Outcomes, Answers,
           DataEvents, Phases
  <1>13. Generates'
    BY <1>1, <1>2, <1>3, <1>4, SMT
       DEF IInv, Generates, EventTaken, Ended, SlotFrame, PreparePending, Running,
           NoExec, NoGen, PrepareAnswers, FinalAnswers, Finals, Outcomes, Answers,
           DataEvents, Phases
  <1>14. Reports'
    BY <1>1, <1>2, <1>3, <1>4, SMT
       DEF IInv, Reports, EventTaken, Ended, SlotFrame, TakenInOrder, OutcomesOf,
           EndsOf, Claims, Outcomes, NoGen, Phases
  <1>15. Writing'
    BY <1>1, <1>2, <1>3, <1>4, SMT
       DEF IInv, Writing, EventTaken, Ended, SlotFrame, Executing, Job, Arg, Typed,
           Phases
  <1>16. Cursor'
    BY <1>1, <1>2, <1>3, <1>4, SMT
       DEF IInv, Cursor, EventTaken, Ended, SlotFrame, Writing, Typed, Executing, Job,
           Arg, Extraction, Running, PreparePending, PrepareAnswers, FinalAnswers,
           Outcomes, Finals, Answers, DataEvents, Phases
  <1> QED  BY <1>5, <1>6, <1>7, <1>8, <1>9, <1>10, <1>11, <1>12, <1>13, <1>14, <1>15, <1>16 DEF IInv

\* The generation has an answer.
LEMMA OnCompletedStep ==
  ASSUME IInv, OnCompleted
  PROVE  IInv'
  <1>1. /\ EventTaken /\ TakenInOrder /\ SlotFrame /\ up /\ Head(mainQ) \in Posted
              /\ Head(mainQ).ev \in Outcomes
        /\ gen.id # 0 /\ Head(mainQ).arg.id = gen.id /\ Ended /\ UNCHANGED <<recovering,
                                                                             claimInFlight>>
        /\ Running /\ current.job = gen.job
    BY GenerationEndsIs DEF OnCompleted, Ours, Outcomes
  <1>2. Op("persist", current.job, current.plan) \in OpRecs
    BY <1>1, RunningJob DEF OpRecs, Op, Plans, IInv, Typed, Execs
  <1>3. \/ FinishedBy(Op("persist", current.job, current.plan))
        \/ Repair
        \/ \E o : FinishedBy(o) /\ o.op \in {"retry", "fail"}
              /\ (o.op = "fail" => current.attempt >= MaxJobAttempts)
    BY <1>1, <1>2, FinishIs, FinishFailureIs DEF OnCompleted, Finals
  <1>4. CASE Repair
    BY <1>1, <1>4, RepairStep
  <1>5. CASE FinishedBy(Op("persist", current.job, current.plan))
    BY <1>1, <1>5, HandsOverStep DEF HandsOver, Op
  <1>6. CASE \E o : FinishedBy(o) /\ o.op \in {"retry", "fail"}
                /\ (o.op = "fail" => current.attempt >= MaxJobAttempts)
    BY <1>1, <1>6, HandsOverStep DEF HandsOver
  <1> QED  BY <1>1, <1>2, <1>3, <1>4, <1>5, <1>6

\* The runner is idle and the repair starts.
LEMMA OnRunnerIdleStep ==
  ASSUME IInv, OnRunnerIdle
  PROVE  IInv'
  <1>1. /\ EventTaken /\ TakenInOrder /\ SlotFrame /\ up /\ Head(mainQ) \in Posted
        /\ Head(mainQ).ev = "finished" /\ Head(mainQ).arg.id \in Nat \ {0} /\ UNCHANGED recovering
    BY HandlingIs, AllTyped DEF OnRunnerIdle, EventTyped
  <1>2. /\ pendingLaunch # "none" => Running /\ ~Yielding /\ Allowed(current.job)
              /\ current.job \in Jobs
        /\ current.attempt \in Nat /\ pendingLaunch \in Phases
    BY RunningJob DEF IInv, Modes, Generates, Typed, Execs
  <1>3. gen.id = Head(mainQ).arg.id => gen.thread = "stopped" /\ gen.terminal
    BY <1>1 DEF IInv, Reports, EndsOf, TakenInOrder, EventTaken
  <1>4. /\ UNCHANGED dataQ => UNCHANGED Queued
        /\ UNCHANGED mainQ => UNCHANGED Posted
    BY DEF Queued, Posted
  <1>5. /\ \A o \in Queued : OpTyped(o) /\ o \in OpRecs
        /\ \A e \in Posted : EventTyped(e) /\ e \in EventRecs
    BY AllTyped
  <1>6. ASSUME gen.id # Head(mainQ).arg.id,
               UNCHANGED <<gen, claimInFlight, dataQ, current, pendingLaunch, abandoned>>
       PROVE  IInv'
    <2>1. Typed'
      BY <1>1, <1>2, <1>3, <1>6, NothingIsTyped
         DEF IInv, Typed, EventTaken, SlotFrame, Phases
    <2>2. Down'
      BY <1>1, <1>2, <1>3, <1>4, <1>5, <1>6, SMT
         DEF IInv, Down, EventTaken, SlotFrame, NoExec, NoGen
    <2>3. Modes'
      BY <1>1, <1>2, <1>3, <1>4, <1>5, <1>6, SMT
         DEF IInv, Modes, EventTaken, SlotFrame, Typed, Down, Running, Yielding,
             Allowed, Extraction, RunnerIsReleased, NoExec, NoPlan
    <2>4. Ordered'
      BY <1>1, <1>2, <1>3, <1>4, <1>5, <1>6, SMT
         DEF IInv, Ordered, EventTaken, SlotFrame, TakenInOrder, Answers, Preparing,
             Finalizing, Prepared, Finalized
    <2>5. Tokens'
      BY <1>1, <1>2, <1>3, <1>4, <1>5, <1>6, SMT
         DEF IInv, Tokens, EventTaken, SlotFrame, PrepareAnswers, FinalAnswers,
             Finals, Outcomes, NoExec, Running
    <2>6. Rows'
      BY <1>1, <1>2, <1>3, <1>4, <1>5, <1>6, SMT
         DEF IInv, Rows, EventTaken, SlotFrame, PrepareAnswers, FinalAnswers,
             Outcomes, Finals, Running, EventTyped
    <2>7. Attempts'
      BY <1>1, <1>2, <1>3, <1>4, <1>5, <1>6, SMT
         DEF IInv, Attempts, EventTaken, SlotFrame, Running, Finals, NoExec,
             FailedAfterAttempts
    <2>8. Driven'
      BY <1>1, <1>2, <1>3, <1>4, <1>5, <1>6, SMT
         DEF IInv, Driven, EventTaken, SlotFrame, PreparePending, Running, NoExec,
             PrepareAnswers, FinalAnswers, Finals, Outcomes
    <2>9. Generates'
      BY <1>1, <1>2, <1>3, <1>4, <1>5, <1>6, SMT
         DEF IInv, Generates, EventTaken, SlotFrame, PreparePending, Running, NoExec,
             NoGen, PrepareAnswers, FinalAnswers, Finals, Outcomes
    <2>10. Reports'
      BY <1>1, <1>2, <1>3, <1>4, <1>5, <1>6, SMT
         DEF IInv, Reports, EventTaken, SlotFrame, TakenInOrder, OutcomesOf, EndsOf,
             Claims, Outcomes, NoGen
    <2>11. Writing'
      BY <1>1, <1>2, <1>3, <1>4, <1>5, <1>6, SMT
         DEF IInv, Writing, EventTaken, SlotFrame, Executing, Job, Arg, Typed
    <2>12. Cursor'
      BY <1>1, <1>2, <1>3, <1>4, <1>5, <1>6, SMT
         DEF IInv, Cursor, EventTaken, SlotFrame, Writing, Typed, Executing, Job, Arg,
             Extraction, Running, PreparePending, PrepareAnswers, FinalAnswers,
             Outcomes, Finals
    <2> QED  BY <2>1, <2>2, <2>3, <2>4, <2>5, <2>6, <2>7, <2>8, <2>9, <2>10, <2>11, <2>12 DEF IInv
  <1>7. ASSUME gen.id = Head(mainQ).arg.id, pendingLaunch = "none", gen' = NoGen,
               pendingLaunch' = "none", UNCHANGED <<current, abandoned>>, CanClaim',
               claimInFlight' = TRUE, ~claimInFlight,
               OpSubmitted(Op("claim", NoJob, [extraction |-> memoryEnabled'])),
               QueuedInTurn(Op("claim", NoJob, [extraction |-> memoryEnabled'])), dataUp
       PROVE  IInv'
    <2>1. Queued = {} /\ \A e \in Posted : e \notin Answers
      BY <1>1, <1>7, WhileIdle DEF CanClaim, SlotFrame
    <2>2. Typed'
      BY <1>1, <1>2, <1>3, <1>7, <2>1, NothingIsTyped
         DEF IInv, Typed, EventTaken, OpSubmitted, SlotFrame, Phases, CanClaim, Op
    <2>3. Down'
      BY <1>1, <1>2, <1>3, <1>4, <1>5, <1>7, <2>1, SMT
         DEF IInv, Down, EventTaken, OpSubmitted, SlotFrame, NoExec, NoGen, CanClaim,
             Op
    <2>4. Modes'
      BY <1>1, <1>2, <1>3, <1>4, <1>5, <1>7, <2>1, SMT
         DEF IInv, Modes, EventTaken, OpSubmitted, SlotFrame, Typed, Down, Running,
             Yielding, Allowed, Extraction, RunnerIsReleased, NoExec, NoPlan,
             CanClaim, Op
    <2>5. Ordered'
      BY <1>1, <1>2, <1>3, <1>4, <1>5, <1>7, <2>1, SMT
         DEF IInv, Ordered, EventTaken, OpSubmitted, SlotFrame, TakenInOrder,
             QueuedInTurn, Answers, Preparing, Finalizing, Prepared, Finalized,
             CanClaim, Op
    <2>6. Tokens'
      BY <1>1, <1>2, <1>3, <1>4, <1>5, <1>7, <2>1, SMT
         DEF IInv, Tokens, EventTaken, OpSubmitted, SlotFrame, PrepareAnswers,
             FinalAnswers, Finals, Outcomes, NoExec, Running, Answers, DataEvents,
             CanClaim, Op
    <2>7. Rows'
      BY <1>1, <1>2, <1>3, <1>4, <1>5, <1>7, <2>1, SMT
         DEF IInv, Rows, EventTaken, OpSubmitted, SlotFrame, PrepareAnswers,
             FinalAnswers, Outcomes, Finals, Running, EventTyped, Answers, DataEvents,
             CanClaim, Op
    <2>8. Attempts'
      BY <1>1, <1>2, <1>3, <1>4, <1>5, <1>7, <2>1, SMT
         DEF IInv, Attempts, EventTaken, OpSubmitted, SlotFrame, Running, Finals,
             NoExec, FailedAfterAttempts, Answers, DataEvents, CanClaim, Op
    <2>9. Driven'
      BY <1>1, <1>2, <1>3, <1>4, <1>5, <1>7, <2>1, SMT
         DEF IInv, Driven, EventTaken, OpSubmitted, SlotFrame, PreparePending,
             Running, NoExec, PrepareAnswers, FinalAnswers, Finals, Outcomes, Answers,
             DataEvents, CanClaim, Op
    <2>10. Generates'
      BY <1>1, <1>2, <1>3, <1>4, <1>5, <1>7, <2>1, SMT
         DEF IInv, Generates, EventTaken, OpSubmitted, SlotFrame, PreparePending,
             Running, NoExec, NoGen, PrepareAnswers, FinalAnswers, Finals, Outcomes,
             Answers, DataEvents, CanClaim, Op
    <2>11. Reports'
      BY <1>1, <1>2, <1>3, <1>4, <1>5, <1>7, <2>1, SMT
         DEF IInv, Reports, EventTaken, OpSubmitted, SlotFrame, TakenInOrder,
             QueuedInTurn, OutcomesOf, EndsOf, Claims, Outcomes, NoGen, CanClaim, Op
    <2>12. Writing'
      BY <1>1, <1>2, <1>3, <1>4, <1>5, <1>7, <2>1, SMT
         DEF IInv, Writing, EventTaken, OpSubmitted, SlotFrame, Executing, Job, Arg,
             Typed, CanClaim, Op
    <2>13. Cursor'
      BY <1>1, <1>2, <1>3, <1>4, <1>5, <1>7, <2>1, SMT
         DEF IInv, Cursor, EventTaken, OpSubmitted, SlotFrame, Writing, Typed,
             Executing, Job, Arg, Extraction, Running, PreparePending, PrepareAnswers,
             FinalAnswers, Outcomes, Finals, Answers, DataEvents, CanClaim, Op
    <2> QED  BY <2>2, <2>3, <2>4, <2>5, <2>6, <2>7, <2>8, <2>9, <2>10, <2>11, <2>12, <2>13 DEF IInv
  <1>8. ASSUME gen.id = Head(mainQ).arg.id, pendingLaunch = "none", gen' = NoGen,
               pendingLaunch' = "none", UNCHANGED <<current, abandoned, claimInFlight, dataQ>>
       PROVE  IInv'
    <2>1. Typed'
      BY <1>1, <1>2, <1>3, <1>8, NothingIsTyped
         DEF IInv, Typed, EventTaken, SlotFrame, Phases
    <2>2. Down'
      BY <1>1, <1>2, <1>3, <1>4, <1>5, <1>8, SMT
         DEF IInv, Down, EventTaken, SlotFrame, NoExec, NoGen
    <2>3. Modes'
      BY <1>1, <1>2, <1>3, <1>4, <1>5, <1>8, SMT
         DEF IInv, Modes, EventTaken, SlotFrame, Typed, Down, Running, Yielding,
             Allowed, Extraction, RunnerIsReleased, NoExec, NoPlan
    <2>4. Ordered'
      BY <1>1, <1>2, <1>3, <1>4, <1>5, <1>8, SMT
         DEF IInv, Ordered, EventTaken, SlotFrame, TakenInOrder, Answers, Preparing,
             Finalizing, Prepared, Finalized
    <2>5. Tokens'
      BY <1>1, <1>2, <1>3, <1>4, <1>5, <1>8, SMT
         DEF IInv, Tokens, EventTaken, SlotFrame, PrepareAnswers, FinalAnswers,
             Finals, Outcomes, NoExec, Running
    <2>6. Rows'
      BY <1>1, <1>2, <1>3, <1>4, <1>5, <1>8, SMT
         DEF IInv, Rows, EventTaken, SlotFrame, PrepareAnswers, FinalAnswers,
             Outcomes, Finals, Running, EventTyped
    <2>7. Attempts'
      BY <1>1, <1>2, <1>3, <1>4, <1>5, <1>8, SMT
         DEF IInv, Attempts, EventTaken, SlotFrame, Running, Finals, NoExec,
             FailedAfterAttempts
    <2>8. Driven'
      BY <1>1, <1>2, <1>3, <1>4, <1>5, <1>8, SMT
         DEF IInv, Driven, EventTaken, SlotFrame, PreparePending, Running, NoExec,
             PrepareAnswers, FinalAnswers, Finals, Outcomes
    <2>9. Generates'
      BY <1>1, <1>2, <1>3, <1>4, <1>5, <1>8, SMT
         DEF IInv, Generates, EventTaken, SlotFrame, PreparePending, Running, NoExec,
             NoGen, PrepareAnswers, FinalAnswers, Finals, Outcomes
    <2>10. Reports'
      BY <1>1, <1>2, <1>3, <1>4, <1>5, <1>8, SMT
         DEF IInv, Reports, EventTaken, SlotFrame, TakenInOrder, OutcomesOf, EndsOf,
             Claims, Outcomes, NoGen
    <2>11. Writing'
      BY <1>1, <1>2, <1>3, <1>4, <1>5, <1>8, SMT
         DEF IInv, Writing, EventTaken, SlotFrame, Executing, Job, Arg, Typed
    <2>12. Cursor'
      BY <1>1, <1>2, <1>3, <1>4, <1>5, <1>8, SMT
         DEF IInv, Cursor, EventTaken, SlotFrame, Writing, Typed, Executing, Job, Arg,
             Extraction, Running, PreparePending, PrepareAnswers, FinalAnswers,
             Outcomes, Finals
    <2> QED  BY <2>1, <2>2, <2>3, <2>4, <2>5, <2>6, <2>7, <2>8, <2>9, <2>10, <2>11, <2>12 DEF IInv
  <1>9. ASSUME gen.id = Head(mainQ).arg.id, pendingLaunch # "none",
               Started(current.job, current.attempt), pendingLaunch' = "none",
               UNCHANGED <<claimInFlight, dataQ, current, abandoned>>
       PROVE  IInv'
    <2>1. /\ gen.thread = "stopped" /\ ~claimInFlight /\ ~recovering /\ Running /\ Queued = {}
                /\ \A e \in Posted : e \notin Answers
      BY <1>1, <1>2, <1>9, WhileRunning, WhileGenerating
         DEF IInv, Reports, EndsOf, EventTaken
    <2>2. /\ Before(mainQ', OutcomesOf(gen'.id), EndsOf(gen'.id))
                /\ Before(mainQ', EndsOf(gen'.id), Claims)
          /\ \A e \in Posted' : e \notin OutcomesOf(gen'.id) /\ e \notin EndsOf(gen'.id)
      BY <1>1, <1>9, <2>1, BeforeNone
         DEF EventTaken, Started, OutcomesOf, EndsOf, Claims, Answers, DataEvents,
             Posted
    <2>3. Typed'
      BY <1>1, <1>2, <1>3, <1>9, <2>1, <2>2, NothingIsTyped
         DEF IInv, Typed, EventTaken, Started, SlotFrame, Phases
    <2>4. Down'
      BY <1>1, <1>2, <1>3, <1>4, <1>5, <1>9, <2>1, <2>2, SMT
         DEF IInv, Down, EventTaken, Started, SlotFrame, NoExec, NoGen
    <2>5. Modes'
      BY <1>1, <1>2, <1>3, <1>4, <1>5, <1>9, <2>1, <2>2, SMT
         DEF IInv, Modes, EventTaken, Started, SlotFrame, Typed, Down, Running,
             Yielding, Allowed, Extraction, RunnerIsReleased, NoExec, NoPlan
    <2>6. Ordered'
      BY <1>1, <1>2, <1>3, <1>4, <1>5, <1>9, <2>1, <2>2, SMT
         DEF IInv, Ordered, EventTaken, Started, SlotFrame, TakenInOrder, Answers,
             Preparing, Finalizing, Prepared, Finalized
    <2>7. Tokens'
      BY <1>1, <1>2, <1>3, <1>4, <1>5, <1>9, <2>1, <2>2, SMT
         DEF IInv, Tokens, EventTaken, Started, SlotFrame, PrepareAnswers,
             FinalAnswers, Finals, Outcomes, NoExec, Running, Answers, DataEvents
    <2>8. Rows'
      BY <1>1, <1>2, <1>3, <1>4, <1>5, <1>9, <2>1, <2>2, SMT
         DEF IInv, Rows, EventTaken, Started, SlotFrame, PrepareAnswers, FinalAnswers,
             Outcomes, Finals, Running, EventTyped, Answers, DataEvents
    <2>9. Attempts'
      BY <1>1, <1>2, <1>3, <1>4, <1>5, <1>9, <2>1, <2>2, SMT
         DEF IInv, Attempts, EventTaken, Started, SlotFrame, Running, Finals, NoExec,
             FailedAfterAttempts, Answers, DataEvents
    <2>10. Driven'
      BY <1>1, <1>2, <1>3, <1>4, <1>5, <1>9, <2>1, <2>2, SMT
         DEF IInv, Driven, EventTaken, Started, SlotFrame, PreparePending, Running,
             NoExec, PrepareAnswers, FinalAnswers, Finals, Outcomes, Answers,
             DataEvents
    <2>11. Generates'
      BY <1>1, <1>2, <1>3, <1>4, <1>5, <1>9, <2>1, <2>2, SMT
         DEF IInv, Generates, EventTaken, Started, SlotFrame, PreparePending, Running,
             NoExec, NoGen, PrepareAnswers, FinalAnswers, Finals, Outcomes, Answers,
             DataEvents
    <2>12. Reports'
      BY <1>9, <2>2 DEF Started, Reports
    <2>13. Writing'
      BY <1>1, <1>2, <1>3, <1>4, <1>5, <1>9, <2>1, <2>2, SMT
         DEF IInv, Writing, EventTaken, Started, SlotFrame, Executing, Job, Arg, Typed
    <2>14. Cursor'
      BY <1>1, <1>2, <1>3, <1>4, <1>5, <1>9, <2>1, <2>2, SMT
         DEF IInv, Cursor, EventTaken, Started, SlotFrame, Writing, Typed, Executing,
             Job, Arg, Extraction, Running, PreparePending, PrepareAnswers,
             FinalAnswers, Outcomes, Finals, Answers, DataEvents
    <2> QED  BY <2>3, <2>4, <2>5, <2>6, <2>7, <2>8, <2>9, <2>10, <2>11, <2>12, <2>13, <2>14 DEF IInv
  <1> QED  BY <1>1, <1>2, <1>3, <1>4, <1>5, <1>6, <1>7, <1>8, <1>9, PollAfterIs,
              StartIs
              DEF OnRunnerIdle, EventArg, Polled, IInv, Typed, SlotFrame

\* The data thread has finished a job.
LEMMA OnFinishedStep ==
  ASSUME IInv, OnFinished
  PROVE  IInv'
  <1>1. /\ EventTaken /\ TakenInOrder /\ SlotFrame /\ up /\ Head(mainQ) \in Posted
        /\ Head(mainQ).ev \in FinalAnswers
    BY HandlingIs DEF OnFinished, FailureOf, FinalAnswers
  <1>2. Head(mainQ).job \in Jobs /\ current.job = Head(mainQ).job /\ current.finishing
    BY <1>1, AllTyped DEF IInv, Tokens, EventTyped
  <1>3. /\ current' = NoExec /\ pendingLaunch' = "none" /\ UNCHANGED <<recovering, claimInFlight,
                                                                       dataQ, gen>>
        /\ Queued = {} /\ \A e \in Posted' : e \notin Answers
    BY <1>1, <1>2, AllTyped
       DEF OnFinished, EventJob, IInv, Ordered, Answers, Prepared, DataEvents,
           PrepareAnswers, FinalAnswers, TakenInOrder, EventTaken
  <1>4. /\ UNCHANGED dataQ => UNCHANGED Queued
        /\ UNCHANGED mainQ => UNCHANGED Posted
    BY DEF Queued, Posted
  <1>5. /\ \A o \in Queued : OpTyped(o) /\ o \in OpRecs
        /\ \A e \in Posted : EventTyped(e) /\ e \in EventRecs
    BY AllTyped
  <1>6. ASSUME Head(mainQ).ev = "marked", UNCHANGED abandoned
       PROVE  IInv'
    <2>1. Typed'
      BY <1>1, <1>2, <1>3, <1>6, NothingIsTyped
         DEF IInv, Typed, EventTaken, SlotFrame, Phases
    <2>2. Down'
      BY <1>1, <1>2, <1>3, <1>4, <1>5, <1>6, SMT
         DEF IInv, Down, EventTaken, SlotFrame, NoExec, NoGen
    <2>3. Modes'
      BY <1>1, <1>2, <1>3, <1>4, <1>5, <1>6, SMT
         DEF IInv, Modes, EventTaken, SlotFrame, Typed, Down, Running, Yielding,
             Allowed, Extraction, RunnerIsReleased, NoExec, NoPlan
    <2>4. Ordered'
      BY <1>1, <1>2, <1>3, <1>4, <1>5, <1>6, SMT
         DEF IInv, Ordered, EventTaken, SlotFrame, TakenInOrder, Answers, Preparing,
             Finalizing, Prepared, Finalized
    <2>5. Tokens'
      BY <1>1, <1>2, <1>3, <1>4, <1>5, <1>6, SMT
         DEF IInv, Tokens, EventTaken, SlotFrame, PrepareAnswers, FinalAnswers,
             Finals, Outcomes, NoExec, Running, Answers, DataEvents
    <2>6. Rows'
      BY <1>1, <1>2, <1>3, <1>4, <1>5, <1>6, SMT
         DEF IInv, Rows, EventTaken, SlotFrame, PrepareAnswers, FinalAnswers,
             Outcomes, Finals, Running, EventTyped, Answers, DataEvents
    <2>7. Attempts'
      BY <1>1, <1>2, <1>3, <1>4, <1>5, <1>6, SMT
         DEF IInv, Attempts, EventTaken, SlotFrame, Running, Finals, NoExec,
             FailedAfterAttempts, Answers, DataEvents
    <2>8. Driven'
      BY <1>1, <1>2, <1>3, <1>4, <1>5, <1>6, SMT
         DEF IInv, Driven, EventTaken, SlotFrame, PreparePending, Running, NoExec,
             PrepareAnswers, FinalAnswers, Finals, Outcomes, Answers, DataEvents
    <2>9. Generates'
      BY <1>1, <1>2, <1>3, <1>4, <1>5, <1>6, SMT
         DEF IInv, Generates, EventTaken, SlotFrame, PreparePending, Running, NoExec,
             NoGen, PrepareAnswers, FinalAnswers, Finals, Outcomes, Answers,
             DataEvents
    <2>10. Reports'
      BY <1>1, <1>2, <1>3, <1>4, <1>5, <1>6, SMT
         DEF IInv, Reports, EventTaken, SlotFrame, TakenInOrder, OutcomesOf, EndsOf,
             Claims, Outcomes, NoGen, PrepareAnswers, FinalAnswers
    <2>11. Writing'
      BY <1>1, <1>2, <1>3, <1>4, <1>5, <1>6, SMT
         DEF IInv, Writing, EventTaken, SlotFrame, Executing, Job, Arg, Typed
    <2>12. Cursor'
      BY <1>1, <1>2, <1>3, <1>4, <1>5, <1>6, SMT
         DEF IInv, Cursor, EventTaken, SlotFrame, Writing, Typed, Executing, Job, Arg,
             Extraction, Running, PreparePending, PrepareAnswers, FinalAnswers,
             Outcomes, Finals, Answers, DataEvents
    <2> QED  BY <2>1, <2>2, <2>3, <2>4, <2>5, <2>6, <2>7, <2>8, <2>9, <2>10, <2>11, <2>12 DEF IInv
  <1>7. ASSUME abandoned' = abandoned \cup {Head(mainQ).job}
       PROVE  IInv'
    <2>1. Typed'
      BY <1>1, <1>2, <1>3, <1>7, NothingIsTyped
         DEF IInv, Typed, EventTaken, SlotFrame, Phases
    <2>2. Down'
      BY <1>1, <1>2, <1>3, <1>4, <1>5, <1>7, SMT
         DEF IInv, Down, EventTaken, SlotFrame, NoExec, NoGen
    <2>3. Modes'
      BY <1>1, <1>2, <1>3, <1>4, <1>5, <1>7, SMT
         DEF IInv, Modes, EventTaken, SlotFrame, Typed, Down, Running, Yielding,
             Allowed, Extraction, RunnerIsReleased, NoExec, NoPlan
    <2>4. Ordered'
      BY <1>1, <1>2, <1>3, <1>4, <1>5, <1>7, SMT
         DEF IInv, Ordered, EventTaken, SlotFrame, TakenInOrder, Answers, Preparing,
             Finalizing, Prepared, Finalized
    <2>5. Tokens'
      BY <1>1, <1>2, <1>3, <1>4, <1>5, <1>7, SMT
         DEF IInv, Tokens, EventTaken, SlotFrame, PrepareAnswers, FinalAnswers,
             Finals, Outcomes, NoExec, Running, Answers, DataEvents
    <2>6. Rows'
      BY <1>1, <1>2, <1>3, <1>4, <1>5, <1>7, SMT
         DEF IInv, Rows, EventTaken, SlotFrame, PrepareAnswers, FinalAnswers,
             Outcomes, Finals, Running, EventTyped, Answers, DataEvents
    <2>7. Attempts'
      BY <1>1, <1>2, <1>3, <1>4, <1>5, <1>7, SMT
         DEF IInv, Attempts, EventTaken, SlotFrame, Running, Finals, NoExec,
             FailedAfterAttempts, Answers, DataEvents
    <2>8. Driven'
      BY <1>1, <1>2, <1>3, <1>4, <1>5, <1>7, SMT
         DEF IInv, Driven, EventTaken, SlotFrame, PreparePending, Running, NoExec,
             PrepareAnswers, FinalAnswers, Finals, Outcomes, Answers, DataEvents
    <2>9. Generates'
      BY <1>1, <1>2, <1>3, <1>4, <1>5, <1>7, SMT
         DEF IInv, Generates, EventTaken, SlotFrame, PreparePending, Running, NoExec,
             NoGen, PrepareAnswers, FinalAnswers, Finals, Outcomes, Answers,
             DataEvents
    <2>10. Reports'
      BY <1>1, <1>2, <1>3, <1>4, <1>5, <1>7, SMT
         DEF IInv, Reports, EventTaken, SlotFrame, TakenInOrder, OutcomesOf, EndsOf,
             Claims, Outcomes, NoGen, PrepareAnswers, FinalAnswers
    <2>11. Writing'
      BY <1>1, <1>2, <1>3, <1>4, <1>5, <1>7, SMT
         DEF IInv, Writing, EventTaken, SlotFrame, Executing, Job, Arg, Typed
    <2>12. Cursor'
      BY <1>1, <1>2, <1>3, <1>4, <1>5, <1>7, SMT
         DEF IInv, Cursor, EventTaken, SlotFrame, Writing, Typed, Executing, Job, Arg,
             Extraction, Running, PreparePending, PrepareAnswers, FinalAnswers,
             Outcomes, Finals, Answers, DataEvents
    <2> QED  BY <2>1, <2>2, <2>3, <2>4, <2>5, <2>6, <2>7, <2>8, <2>9, <2>10, <2>11, <2>12 DEF IInv
  <1> QED  BY <1>1, <1>2, <1>3, <1>4, <1>5, <1>6, <1>7
              DEF OnFinished, Handling, EventJob

\* The generation reports its outcome.
LEMMA WorkerReportsStep ==
  ASSUME IInv, WorkerReports, Others
  PROVE  IInv'
  <1>1. /\ UNCHANGED <<status, attempts, due, dataQ, opStep, dataUp, runnerPaused, runnerShut,
                       faults, up, accepting, recovering, claimInFlight, paused, foreground,
                       memoryEnabled, current, pendingLaunch, latest, covered, noted, abandoned,
                       switches>>
    BY DEF WorkerReports, Others, store, flags, results
  <1>2. gen.thread = "running" /\ gen.id # 0 /\ gen.job \in Jobs /\ gen.id \in Nat
    BY DEF WorkerReports, IInv, Generates, NoGen, Typed, Gens
  <1>3. /\ gen' \in Gens /\ gen'.id = gen.id /\ gen'.job = gen.job /\ gen'.attempt = gen.attempt
        /\ gen'.cancelled = gen.cancelled /\ gen'.terminal = gen.terminal /\ gen'.thread = "ending"
    BY DEF WorkerReports, IInv, Typed, Gens
  <1>4. \E e \in EventRecs : mainQ' = Append(mainQ, e) /\ e.ev \in Outcomes
           /\ e.arg.id = gen.id /\ e.job = gen.job
    BY <1>2 DEF WorkerReports, EventRecs, Event
  <1>5. /\ UNCHANGED dataQ => UNCHANGED Queued
        /\ UNCHANGED mainQ => UNCHANGED Posted
    BY DEF Queued, Posted
  <1>6. /\ \A o \in Queued : OpTyped(o) /\ o \in OpRecs
        /\ \A e \in Posted : EventTyped(e) /\ e \in EventRecs
    BY AllTyped
  <1>7. ASSUME NEW e \in EventRecs, EventPosted(e), PostedInOrder(e), e.ev \in Outcomes,
               e.arg.id = gen.id, e.job = gen.job
       PROVE  IInv'
    <2>1. Typed'
      BY <1>1, <1>2, <1>3, <1>4, <1>7, NothingIsTyped
         DEF IInv, Typed, EventPosted, Phases
    <2>2. Down'
      BY <1>1, <1>2, <1>3, <1>4, <1>5, <1>6, <1>7, SMT
         DEF IInv, Down, EventPosted, NoExec, NoGen
    <2>3. Modes'
      BY <1>1, <1>2, <1>3, <1>4, <1>5, <1>6, <1>7, SMT
         DEF IInv, Modes, EventPosted, Typed, Down, Running, Yielding, Allowed,
             Extraction, RunnerIsReleased, NoExec, NoPlan
    <2>4. Ordered'
      BY <1>1, <1>2, <1>3, <1>4, <1>5, <1>6, <1>7, SMT
         DEF IInv, Ordered, EventPosted, PostedInOrder, Answers, Preparing,
             Finalizing, Prepared, Finalized, DataEvents, PrepareAnswers,
             FinalAnswers, Outcomes
    <2>5. Tokens'
      BY <1>1, <1>2, <1>3, <1>4, <1>5, <1>6, <1>7, SMT
         DEF IInv, Tokens, EventPosted, PrepareAnswers, FinalAnswers, Finals,
             Outcomes, NoExec, Running
    <2>6. Rows'
      BY <1>1, <1>2, <1>3, <1>4, <1>5, <1>6, <1>7, SMT
         DEF IInv, Rows, EventPosted, PrepareAnswers, FinalAnswers, Outcomes, Finals,
             Running, EventTyped
    <2>7. Attempts'
      BY <1>1, <1>2, <1>3, <1>4, <1>5, <1>6, <1>7, SMT
         DEF IInv, Attempts, EventPosted, Running, Finals, NoExec, FailedAfterAttempts
    <2>8. Driven'
      BY <1>1, <1>2, <1>3, <1>4, <1>5, <1>6, <1>7, SMT
         DEF IInv, Driven, EventPosted, PreparePending, Running, NoExec,
             PrepareAnswers, FinalAnswers, Finals, Outcomes
    <2>9. Generates'
      BY <1>1, <1>2, <1>3, <1>4, <1>5, <1>6, <1>7, SMT
         DEF IInv, Generates, EventPosted, PreparePending, Running, NoExec, NoGen,
             PrepareAnswers, FinalAnswers, Finals, Outcomes
    <2>10. Reports'
      BY <1>1, <1>2, <1>3, <1>4, <1>5, <1>6, <1>7, SMT
         DEF IInv, Reports, EventPosted, PostedInOrder, OutcomesOf, EndsOf, Claims,
             Outcomes, NoGen
    <2>11. Writing'
      BY <1>1, <1>2, <1>3, <1>4, <1>5, <1>6, <1>7, SMT
         DEF IInv, Writing, EventPosted, Executing, Job, Arg, Typed
    <2>12. Cursor'
      BY <1>1, <1>2, <1>3, <1>4, <1>5, <1>6, <1>7, SMT
         DEF IInv, Cursor, EventPosted, Writing, Typed, Executing, Job, Arg,
             Extraction, Running, PreparePending, PrepareAnswers, FinalAnswers,
             Outcomes, Finals
    <2> QED  BY <2>1, <2>2, <2>3, <2>4, <2>5, <2>6, <2>7, <2>8, <2>9, <2>10, <2>11, <2>12 DEF IInv
  <1> QED  BY <1>1, <1>2, <1>3, <1>4, <1>5, <1>6, <1>7, PostsEvent

\* The thread of the generation stops.
LEMMA ThreadStopsStep ==
  ASSUME IInv, ThreadStops, Others
  PROVE  IInv'
  <1>1. /\ UNCHANGED <<status, attempts, due, dataQ, opStep, dataUp, runnerPaused, runnerShut,
                       faults, up, accepting, recovering, claimInFlight, paused, foreground,
                       memoryEnabled, current, pendingLaunch, latest, covered, noted, abandoned,
                       switches>>
    BY DEF ThreadStops, Others, store, flags, results
  <1>2. gen.thread = "ending" /\ gen.id # 0 /\ gen.job \in Jobs /\ gen.id \in Nat
    BY DEF ThreadStops, IInv, Generates, NoGen, Typed, Gens
  <1>3. /\ gen' \in Gens /\ gen'.id = gen.id /\ gen'.job = gen.job /\ gen'.attempt = gen.attempt
        /\ gen'.cancelled = gen.cancelled /\ gen'.terminal = gen.terminal /\ gen'.thread = "stopped"
    BY DEF ThreadStops, IInv, Typed, Gens
  <1>4. \E e \in EventRecs : mainQ' = Append(mainQ, e) /\ e.ev = "finished"
           /\ e.arg.id = gen.id /\ e.job = gen.job
    BY <1>2 DEF ThreadStops, EventRecs, Event
  <1>5. /\ UNCHANGED dataQ => UNCHANGED Queued
        /\ UNCHANGED mainQ => UNCHANGED Posted
    BY DEF Queued, Posted
  <1>6. /\ \A o \in Queued : OpTyped(o) /\ o \in OpRecs
        /\ \A e \in Posted : EventTyped(e) /\ e \in EventRecs
    BY AllTyped
  <1>7. ASSUME NEW e \in EventRecs, EventPosted(e), PostedInOrder(e), e.ev = "finished",
               e.arg.id = gen.id, e.job = gen.job
       PROVE  IInv'
    <2>1. Typed'
      BY <1>1, <1>2, <1>3, <1>4, <1>7, NothingIsTyped
         DEF IInv, Typed, EventPosted, Phases
    <2>2. Down'
      BY <1>1, <1>2, <1>3, <1>4, <1>5, <1>6, <1>7, SMT
         DEF IInv, Down, EventPosted, NoExec, NoGen
    <2>3. Modes'
      BY <1>1, <1>2, <1>3, <1>4, <1>5, <1>6, <1>7, SMT
         DEF IInv, Modes, EventPosted, Typed, Down, Running, Yielding, Allowed,
             Extraction, RunnerIsReleased, NoExec, NoPlan
    <2>4. Ordered'
      BY <1>1, <1>2, <1>3, <1>4, <1>5, <1>6, <1>7, SMT
         DEF IInv, Ordered, EventPosted, PostedInOrder, Answers, Preparing,
             Finalizing, Prepared, Finalized, DataEvents, PrepareAnswers,
             FinalAnswers, Outcomes
    <2>5. Tokens'
      BY <1>1, <1>2, <1>3, <1>4, <1>5, <1>6, <1>7, SMT
         DEF IInv, Tokens, EventPosted, PrepareAnswers, FinalAnswers, Finals,
             Outcomes, NoExec, Running
    <2>6. Rows'
      BY <1>1, <1>2, <1>3, <1>4, <1>5, <1>6, <1>7, SMT
         DEF IInv, Rows, EventPosted, PrepareAnswers, FinalAnswers, Outcomes, Finals,
             Running, EventTyped
    <2>7. Attempts'
      BY <1>1, <1>2, <1>3, <1>4, <1>5, <1>6, <1>7, SMT
         DEF IInv, Attempts, EventPosted, Running, Finals, NoExec, FailedAfterAttempts
    <2>8. Driven'
      BY <1>1, <1>2, <1>3, <1>4, <1>5, <1>6, <1>7, SMT
         DEF IInv, Driven, EventPosted, PreparePending, Running, NoExec,
             PrepareAnswers, FinalAnswers, Finals, Outcomes
    <2>9. Generates'
      BY <1>1, <1>2, <1>3, <1>4, <1>5, <1>6, <1>7, SMT
         DEF IInv, Generates, EventPosted, PreparePending, Running, NoExec, NoGen,
             PrepareAnswers, FinalAnswers, Finals, Outcomes
    <2>10. Reports'
      BY <1>1, <1>2, <1>3, <1>4, <1>5, <1>6, <1>7, SMT
         DEF IInv, Reports, EventPosted, PostedInOrder, OutcomesOf, EndsOf, Claims,
             Outcomes, NoGen
    <2>11. Writing'
      BY <1>1, <1>2, <1>3, <1>4, <1>5, <1>6, <1>7, SMT
         DEF IInv, Writing, EventPosted, Executing, Job, Arg, Typed
    <2>12. Cursor'
      BY <1>1, <1>2, <1>3, <1>4, <1>5, <1>6, <1>7, SMT
         DEF IInv, Cursor, EventPosted, Writing, Typed, Executing, Job, Arg,
             Extraction, Running, PreparePending, PrepareAnswers, FinalAnswers,
             Outcomes, Finals
    <2> QED  BY <2>1, <2>2, <2>3, <2>4, <2>5, <2>6, <2>7, <2>8, <2>9, <2>10, <2>11, <2>12 DEF IInv
  <1> QED  BY <1>1, <1>2, <1>3, <1>4, <1>5, <1>6, <1>7, PostsEvent

----------------------------------------
(* The invariant. *)

\* The invariant holds at the start.
LEMMA InitiallyIInv == Init => IInv
  <1> SUFFICES ASSUME Init
               PROVE  IInv
    OBVIOUS
  <1> USE DEF Init, WorldInit
  <1>1. Queued = {} /\ Posted = {}
    BY EmptyQueue DEF Queued, Posted
  <1>2. Typed
    <2>1. status \in [Jobs -> Statuses] /\ attempts \in [Jobs -> Nat]
            /\ due \in [Jobs -> BOOLEAN] /\ noted \in [Jobs -> Nat]
      BY DEF Statuses
    <2>2. dataQ \in Seq(OpRecs) /\ mainQ \in Seq(EventRecs)
      OBVIOUS
    <2>3. gen \in Gens /\ current \in Execs /\ pendingLaunch \in Phases
      BY NothingIsTyped DEF Phases
    <2>4. opStep \in {"start", "checked", "written"} /\ abandoned \subseteq Jobs
            /\ latest \in Nat /\ covered \in Nat
      OBVIOUS
    <2>5. faults \in 0..MaxFaults /\ switches \in 0..MaxSwitches
      BY JobsAssumption, MemoryJobsAssumption
    <2>6. /\ up \in BOOLEAN /\ dataUp \in BOOLEAN /\ accepting \in BOOLEAN
          /\ recovering \in BOOLEAN /\ claimInFlight \in BOOLEAN /\ paused \in BOOLEAN
          /\ foreground \in BOOLEAN /\ memoryEnabled \in BOOLEAN
          /\ runnerPaused \in BOOLEAN /\ runnerShut \in BOOLEAN
      OBVIOUS
    <2> QED  BY <2>1, <2>2, <2>3, <2>4, <2>5, <2>6 DEF Typed
  <1>3. Down /\ Modes
    BY DEF Down, Modes, Running, RunnerIsReleased
  <1>4. Ordered
    BY <1>1, EmptyQueue DEF Ordered
  <1>5. Tokens /\ Rows
    BY <1>1 DEF Tokens, Rows, Running
  <1>6. Attempts /\ Driven
    BY <1>1 DEF Attempts, Driven, FailedAfterAttempts, Running
  <1>7. Generates /\ Reports
    BY DEF Generates, Reports, NoGen, Running
  <1>8. Writing /\ Cursor
    BY <1>1, JobsAssumption DEF Writing, Cursor, Running
  <1> QED  BY <1>2, <1>3, <1>4, <1>5, <1>6, <1>7, <1>8 DEF IInv

\* Every step preserves the invariant.
LEMMA IInvStep == IInv /\ [Next]_vars => IInv'
  <1> SUFFICES ASSUME IInv, [Next]_vars
               PROVE  IInv'
    OBVIOUS
  <1>1. CASE MainThread
    BY <1>1, OnRecoveredStep, OnNothingClaimedStep, OnClaimedStep, OnPreparedStep,
       OnNothingToDoStep, OnPrepareFailedStep, OnLatePrepareStep, OnCompletedStep,
       OnFailedStep, OnLateOutcomeStep, OnRunnerIdleStep, OnFinishedStep
       DEF MainThread
  <1>2. CASE Poll
    BY <1>2, PollStep
  <1>3. CASE DataThread
    BY <1>3, DoRecoverStep, DoClaimStep, DoPrepareStep, CheckBeforeWriteStep,
       WriteResultStep, DoMarkStep DEF DataThread
  <1>4. CASE Worker
    BY <1>4, WorkerReportsStep, ThreadStopsStep DEF Worker
  <1>5. CASE Time
    BY <1>5, BecomesDueStep DEF Time
  <1>6. CASE World
    <2>1. ASSUME Crash \/ Exit
          PROVE  IInv'
      <3>1. ProcessEnds /\ (faults' = faults + 1 \/ (faults' = faults /\ dataQ = <<>>))
        BY <2>1 DEF Crash, Exit
      <3>2. faults' \in 0..MaxFaults
        BY <2>1, JobsAssumption DEF Crash, Exit, IInv, Typed
      <3> QED  BY <3>1, <3>2, ProcessEndsStep
    <2> QED  BY <1>6, <2>1, StartStep, ShutdownStep, StopDataThreadStep,
                SetForegroundActiveStep, SetMemoryEnabledStep, PauseStep, ResumeStep,
                EnqueueStep, RetryFailedStep, DataFaultStep DEF World
  <1>7. CASE UNCHANGED vars
    BY <1>7, StutterStep
  <1> QED  BY <1>1, <1>2, <1>3, <1>4, <1>5, <1>6, <1>7 DEF Next

\* Every state of a coordinator, whatever its jobs, their kinds and the bounds are,
\* satisfies the inductive invariant.
THEOREM Invariance == Spec => []IInv
  BY InitiallyIInv, IInvStep, PTL DEF Spec

\* The table, the two queues, the runner and the flags of the coordinator keep their
\* types.
THEOREM TypeCorrect == Spec => []TypeOK
  <1>1. IInv => TypeOK
    BY TypedIsTypeOK
  <1> QED  BY <1>1, Invariance, PTL

----------------------------------------
(* What the invariant says of the jobs. *)

\* Of two answers of the data thread that are not the answer to a preparation there
\* is only one.
LEMMA OneAnswer ==
  ASSUME IInv, NEW d \in Posted, NEW e \in Posted, d \in Answers, e \in Answers,
         d \notin Prepared, e \notin Prepared
  PROVE  d = e
  <1>1. PICK i \in DOMAIN mainQ, k \in DOMAIN mainQ : mainQ[i] = d /\ mainQ[k] = e
    BY DEF Posted, Elements
  <1>2. i \in Nat /\ k \in Nat
    BY DEF IInv, Typed
  <1>3. ~(i < k) /\ ~(k < i)
    BY <1>1 DEF IInv, Ordered, Paired
  <1> QED  BY <1>1, <1>2, <1>3

\* The one row that runs is that of the execution or of the claim on its way.
LEMMA OnlyTheKnownJobRuns == IInv => OneKnownJobRuns
  <1> SUFFICES ASSUME IInv, up
               PROVE  \A j \in Jobs : status[j] = "running" /\ j \notin abandoned =>
                        /\ current.job = j \/ (current = NoExec /\ PostedFor(j, {"claimed"}))
                        /\ \A k \in Jobs \ {j} : status[k] = "running" => k \in abandoned
    BY DEF OneKnownJobRuns
  <1>1. \A j \in Jobs : status[j] = "running" /\ j \notin abandoned =>
           current.job = j \/ \E e \in Posted : e.ev = "claimed" /\ e.job = j
    BY DEF IInv, Rows
  <1>2. \A e \in Posted : e.ev = "claimed" =>
           current = NoExec /\ e \in Answers /\ e \notin Prepared
    BY AllTyped DEF IInv, Tokens, Modes, Answers, DataEvents, Prepared, PrepareAnswers
  <1>3. ASSUME NEW e \in Posted, e.ev = "claimed"
        PROVE  PostedFor(e.job, {"claimed"})
    BY <1>3 DEF PostedFor, Posted, Elements
  <1>4. current = NoExec => current.job \notin Jobs
    BY JobsAssumption DEF NoExec
  <1>5. ASSUME NEW j \in Jobs, NEW k \in Jobs, status[j] = "running", j \notin abandoned,
               status[k] = "running", k \notin abandoned
        PROVE  j = k
    <2>1. CASE current = NoExec
      <3>1. PICK d \in Posted : d.ev = "claimed" /\ d.job = j
        BY <1>1, <1>4, <1>5, <2>1
      <3>2. PICK e \in Posted : e.ev = "claimed" /\ e.job = k
        BY <1>1, <1>4, <1>5, <2>1
      <3> QED  BY <1>2, <3>1, <3>2, OneAnswer
    <2>2. CASE current # NoExec
      BY <1>1, <1>2, <1>5, <2>2
    <2> QED  BY <2>1, <2>2
  <1> QED  BY <1>1, <1>2, <1>3, <1>5

\* The execution has somebody whose answer it waits for.
LEMMA TheExecutionIsDriven == IInv => ExecutionIsDriven
  <1> SUFFICES ASSUME IInv
               PROVE  ExecutionIsDriven
    OBVIOUS
  <1>1. ASSUME NEW o \in Queued, NEW ops, o.op \in ops
        PROVE  QueuedFor(o.job, ops)
    BY <1>1 DEF QueuedFor, Queued, Elements
  <1>2. ASSUME NEW e \in Posted, NEW evs, e.ev \in evs
        PROVE  PostedFor(e.job, evs)
    BY <1>2 DEF PostedFor, Posted, Elements
  <1>3. ASSUME claimInFlight
        PROVE  QueuedFor(NoJob, {"claim"})
                 \/ \E i \in DOMAIN mainQ : mainQ[i].ev \in {"claimed", "failed:claim"}
    <2>1. CASE \E o \in Queued : o.op = "claim"
      BY <1>1, <2>1, AllTyped DEF OpTyped
    <2>2. CASE \E e \in Posted : e.ev \in {"claimed", "failed:claim"}
      BY <2>2 DEF Posted, Elements
    <2> QED  BY <1>3, <2>1, <2>2 DEF IInv, Driven
  <1>4. ASSUME current # NoExec, current.finishing
        PROVE  QueuedFor(current.job, Finals) \/ PostedFor(current.job, FinalAnswers)
    <2>1. CASE \E o \in Queued : o.op \in Finals
      BY <1>1, <2>1 DEF IInv, Tokens
    <2>2. CASE \E e \in Posted : e.ev \in FinalAnswers
      BY <1>2, <2>2 DEF IInv, Tokens
    <2> QED  BY <1>4, <2>1, <2>2 DEF IInv, Driven
  <1>5. ASSUME current # NoExec, ~current.finishing
        PROVE  \/ QueuedFor(current.job, {"prepare"}) \/ PostedFor(current.job, PrepareAnswers)
               \/ gen.job = current.job /\ ~gen.terminal
               \/ pendingLaunch # "none" /\ gen.id # 0
    <2>1. CASE \E o \in Queued : o.op = "prepare"
      BY <1>1, <2>1 DEF IInv, Tokens
    <2>2. CASE \E e \in Posted : e.ev \in PrepareAnswers
      BY <1>2, <2>2 DEF IInv, Tokens
    <2>3. CASE gen.id # 0 /\ (~gen.terminal \/ pendingLaunch # "none")
      BY <1>5, <2>3 DEF IInv, Generates
    <2> QED  BY <1>5, <2>1, <2>2, <2>3 DEF IInv, Driven, PreparePending, Running
  <1> QED  BY <1>3, <1>4, <1>5 DEF ExecutionIsDriven

\* A generation that must give way is cancelled.
LEMMA YieldingIsHeeded == IInv => YieldingCancelsGeneration
  <1> SUFFICES ASSUME IInv, gen.thread = "running", ~gen.cancelled
               PROVE  ~Yielding /\ Allowed(gen.job)
    BY DEF YieldingCancelsGeneration
  <1>1. Running /\ gen.id # 0
    BY DEF IInv, Generates, NoGen
  <1>2. gen.job = current.job
    BY <1>1 DEF IInv, Generates, Running
  <1> QED  BY <1>1, <1>2 DEF IInv, Modes

LEMMA IsScheduled == IInv => SchedulingIsSound
  BY OnlyTheKnownJobRuns, TheExecutionIsDriven, YieldingIsHeeded
     DEF SchedulingIsSound, IInv, Modes

\* _current, _claim_in_flight and the data thread always agree on the one row that is
\* running; the execution always has someone whose answer it waits for; a generation
\* that must give way is cancelled; and the runner is never left paused.
THEOREM SchedulingSound == Spec => []SchedulingIsSound
  BY Invariance, IsScheduled, PTL

\* A queued finalization owns its row and is alone.
LEMMA FinalizersAreAlone == IInv => FinalizersOwnTheirRow
  <1> SUFFICES ASSUME IInv, NEW i \in DOMAIN dataQ, dataQ[i].op \in Finals
               PROVE  /\ status[dataQ[i].job] = "running"
                      /\ \A k \in DOMAIN dataQ : k # i /\ dataQ[k].op \in Finals =>
                           dataQ[k].job # dataQ[i].job
    BY DEF FinalizersOwnTheirRow
  <1>1. \A k \in DOMAIN dataQ : dataQ[k] \in Queued /\ dataQ[k] \in OpRecs /\ k \in Nat
    BY AllTyped DEF Queued, Elements, IInv, Typed
  <1>2. status[dataQ[i].job] = "running"
    BY <1>1 DEF IInv, Rows
  <1>3. ASSUME NEW k \in DOMAIN dataQ, k # i, dataQ[k].op \in Finals
        PROVE  FALSE
    <2>1. i < k \/ k < i
      BY <1>1, <1>3
    <2>2. dataQ[i] \in Preparing \/ dataQ[k] \in Preparing
      BY <1>1, <2>1 DEF IInv, Ordered, Paired
    <2> QED  BY <1>3, <2>2 DEF Preparing, Finals
  <1> QED  BY <1>2, <1>3

\* An outcome is taken for the attempt that generates.
LEMMA TheResultIsOfThisAttempt == IInv => ResultIsOfThisAttempt
  BY DEF IInv, Generates, ResultIsOfThisAttempt, Running, NoGen

\* A turn is counted once more for each fault at most.
LEMMA OnlyFaultsCountAgain == IInv => CountedAgainOnlyByFaults
  <1> SUFFICES ASSUME IInv, NEW j \in Jobs
               PROVE  noted[j] <= 1 + faults
    BY DEF CountedAgainOnlyByFaults
  <1>1. noted[j] \in Nat /\ faults \in Nat
    BY JobsAssumption DEF IInv, Typed
  <1>2. noted[j] <= faults \/ noted[j] <= 1 + faults
    BY DEF IInv, Writing
  <1> QED  BY <1>1, <1>2

LEMMA AreOwned == IInv => ResultsAreOwned
  BY FinalizersAreAlone, TheResultIsOfThisAttempt, OnlyFaultsCountAgain
     DEF ResultsAreOwned, IInv, Attempts

\* A queued finalization still owns its row and is alone; an outcome is taken only for
\* the attempt that generates; a job fails for good only after MAX_JOB_ATTEMPTS; and a
\* turn is counted again only when a fault came between the write and the mark.
THEOREM ResultsOwned == Spec => []ResultsAreOwned
  BY Invariance, AreOwned, PTL

----------------------------------------
(* The coverage of the summaries. *)

\* Only save_memory_summary moves the coverage.
LEMMA OnlySavingCovers ==
  ASSUME [Next]_vars, ~WriteResult
  PROVE  covered' = covered
  <1>1. CASE MainThread
    <2>1. ASSUME NEW event, Handling(event)
          PROVE  covered' = covered
      BY <2>1 DEF Handling, results
    <2> QED  BY <1>1, <2>1
             DEF MainThread, OnRecovered, OnNothingClaimed, OnClaimed, OnPrepared,
                 OnNothingToDo, OnPrepareFailed, OnLatePrepare, OnCompleted, OnFailed,
                 OnLateOutcome, OnRunnerIdle, OnFinished, GenerationEnds
  <1>2. CASE Poll
    BY <1>2 DEF Poll, results
  <1>3. CASE DataThread
    BY <1>3 DEF DataThread, DoRecover, DoClaim, DoPrepare, CheckBeforeWrite, DoMark, results
  <1>4. CASE Worker \/ Time
    BY <1>4 DEF Worker, Others, Time, BecomesDue, results
  <1>5. CASE World
    BY <1>5 DEF World, Start, Crash, Exit, ProcessEnds, Shutdown, StopDataThread,
                SetForegroundActive, SetMemoryEnabled, Pause, Resume, Outside, Enqueue,
                RetryFailed, DataFault, results
  <1>6. CASE UNCHANGED vars
    BY <1>6 DEF vars, results
  <1> QED  BY <1>1, <1>2, <1>3, <1>4, <1>5, <1>6 DEF Next

\* save_memory_summary continues exactly where the coverage ends, and goes on: no span
\* of messages is left out and none is summarised twice.
THEOREM SummariesContiguous == Spec => SummariesAreContiguous
  <1>1. IInv /\ [Next]_vars => [Contiguous]_vars
    <2> SUFFICES ASSUME IInv, [Next]_vars, covered' # covered
                 PROVE  Arg.base = covered /\ covered < Arg.through
      BY DEF Contiguous
    <2>1. WriteResult
      BY OnlySavingCovers
    <2>2. ~Extraction(Job) /\ Executing("persist") /\ opStep = "checked"
      BY <2>1 DEF WriteResult, ApplyCandidates
    <2>3. Head(dataQ) \in Queued /\ Head(dataQ).op = "persist"
      BY <2>2, FirstOp DEF Executing
    <2> QED  BY <2>2, <2>3 DEF IInv, Cursor, Job, Arg
  <1> QED  BY <1>1, Invariance, PTL DEF Spec, SummariesAreContiguous
=============================================================================
