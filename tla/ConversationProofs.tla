------------------------- MODULE ConversationProofs -------------------------
(***************************************************************************)
(* Theorems of Conversation: its types, the exclusiveness of the visible   *)
(* request, the durability of the turns, and that a stored completed reply *)
(* is final.  They all follow from one inductive invariant, IInv.          *)
(*                                                                         *)
(* IInv says where an attempt may be.  Its preparation is in one place of  *)
(* the data thread's queue, the main thread's queue, the retrievals or the *)
(* callbacks (Lined, Preparing); so is the one finalization (Finalizing).  *)
(* It relates the slots of the coordinator to each other (Attempting), the *)
(* queued operations to the rows they will meet (Beginning, Stepping,      *)
(* Finishing, Staging), and the rows to what is shown (Asking, Showing,    *)
(* Saving, Faultless).                                                     *)
(*                                                                         *)
(* The proof that a step preserves IInv is in three layers: what a queue   *)
(* holds after it gained or lost an element; one lemma for each kind of    *)
(* step, which states its effect on the variables and proves each conjunct *)
(* of IInv; and the actions of the model, each of which is one of those    *)
(* steps in each of its cases.                                             *)
(***************************************************************************)
EXTENDS Conversation, QueueTheorems, TLAPS

(* The types of the queues. *)

Begin == {"send", "retry"}
OpRecs ==
  [op : {"init"}, a : {None}, status : Statuses, reply : 0..MaxChunks]
    \cup [op : Begin \cup {"assemble", "checkpoint", "finalize"}, a : Attempts,
          status : Statuses, reply : 0..MaxChunks]
Startup == {"loaded", "not_loaded"}
WorkerSignals == {"chunk", "completed", "failed", "cancelled", "finished"}
Signal == {"seed", "assembled", "not_prepared", "finalized", "not_finalized"} \cup WorkerSignals
EventRecs == [ev : Startup, a : {None}] \cup [ev : Signal, a : Attempts]
CallRecs == [ev : {"idle"}, a : {None}]
              \cup [ev : {"prepared", "prepare_failed", "final_ok", "final_failed"}, a : Attempts]
ContextRecs == [a : Attempts, terminal : BOOLEAN, cancelled : BOOLEAN, sent : 0..(MaxChunks + 1),
                thread : {"running", "ending", "stopped"}]

Queued == Elements(dataQ)
Posted == Elements(mainQ)
Deferred == Elements(soon)

----------------------------------------
(* The inductive invariant. *)

Typed ==
  /\ rows \in [Turns -> Messages] /\ turns \in [Turns -> Messages]
  /\ dataQ \in Seq(OpRecs) /\ mainQ \in Seq(EventRecs) /\ soon \in Seq(CallRecs)
  /\ opStep \in {"start", "written"}
  /\ dataUp \in BOOLEAN /\ up \in BOOLEAN /\ loaded \in BOOLEAN /\ writable \in BOOLEAN
  /\ shutting \in BOOLEAN /\ lane \in BOOLEAN /\ background \in BOOLEAN /\ failedOp \in BOOLEAN
  /\ state \in States
  /\ prep \in Attempts \cup {None} /\ active \in Attempts \cup {None}
  /\ final \in Attempts \cup {None} /\ unsaved \in Attempts \cup {None}
  /\ contexts \subseteq ContextRecs
  /\ retrievals \subseteq Attempts
  /\ ask = None \/ ask \in Begin \X Turns
  /\ faults \in 0..MaxFaults

\* Nothing is under way before the snapshot has arrived, and it arrives once.
InitOp == Op("init", None, "absent", 0)
Loading ==
  /\ ~up => ~loaded /\ ~shutting /\ dataQ = <<>> /\ mainQ = <<>>
  /\ up /\ ~shutting => dataUp
  /\ writable => loaded
  /\ loaded => (\A o \in Queued : o.op # "init") /\ \A e \in Posted : e.ev \notin Startup
  /\ ~loaded =>
       /\ prep = None /\ active = None /\ final = None /\ unsaved = None /\ ask = None
       /\ contexts = {} /\ retrievals = {} /\ soon = <<>> /\ state = "idle" /\ opStep = "start"
       /\ ~lane
       /\ turns = [t \in Turns |-> Absent]
       /\ dataQ = <<>> \/ (dataQ = <<InitOp>> /\ mainQ = <<>>)
       /\ mainQ = <<>> \/ \E ev \in Startup : mainQ = <<Event(ev, None)>>

\* No attempt is ahead of its turn; one that is under way is the last of its turn.
Known(a) == a # None => a[2] <= turns[a[1]].attempt
Latest(a) == a # None => a[2] = turns[a[1]].attempt
Numbered ==
  /\ \A t \in Turns : /\ turns[t].status = "absent" => turns[t].attempt = 0
                      /\ rows[t].status = "absent" => rows[t].attempt = 0
  /\ \A o \in Queued : Known(o.a)
  /\ \A e \in Posted : Known(e.a)
  /\ \A e \in Deferred : Known(e.a)
  /\ \A a \in retrievals : Known(a)
  /\ \A c \in contexts : Known(c.a)
  /\ Latest(prep) /\ Latest(active) /\ Latest(final)

\* The preparation of an attempt and the one finalization are in one place of each
\* queue, and the row is finalized after the attempt has begun.
PrepOps(a) == {o \in OpRecs : o.op \in Begin \cup {"assemble"} /\ o.a = a}
PrepEvents(a) == {e \in EventRecs : e.ev \in {"seed", "assembled", "not_prepared"} /\ e.a = a}
PrepCalls(a) == {e \in CallRecs : e.ev \in {"prepared", "prepare_failed"} /\ e.a = a}
Begins == {o \in OpRecs : o.op \in Begin}
Finalizes == {o \in OpRecs : o.op = "finalize"}
FinalEvents == {e \in EventRecs : e.ev \in {"finalized", "not_finalized"}}
FinalCalls == {e \in CallRecs : e.ev \in {"final_ok", "final_failed"}}
LinedOps(q) ==
  /\ \A a \in Attempts : Single(q, PrepOps(a))
  /\ Paired(q, Begins \cup Finalizes, Begins, Finalizes)
LinedEvents(q) == (\A a \in Attempts : Single(q, PrepEvents(a))) /\ Single(q, FinalEvents)
LinedCalls(q) == (\A a \in Attempts : Single(q, PrepCalls(a))) /\ Single(q, FinalCalls)
Lined == LinedOps(dataQ) /\ LinedEvents(mainQ) /\ LinedCalls(soon)

\* The preparation of an attempt is in one queue only.
Preparing ==
  \A a \in Attempts :
    /\ \A o \in Queued : o \in PrepOps(a) =>
         /\ \A e \in Posted : e \notin PrepEvents(a)
         /\ a \notin retrievals
         /\ \A e \in Deferred : e \notin PrepCalls(a)
    /\ \A e \in Posted : e \in PrepEvents(a) =>
         a \notin retrievals /\ \A d \in Deferred : d \notin PrepCalls(a)
    /\ a \in retrievals => \A e \in Deferred : e \notin PrepCalls(a)

\* The slots of the coordinator agree on the attempt that is under way.
Attempting ==
  /\ prep # None => active = prep /\ contexts = {} /\ final = None /\ ~shutting /\ writable
  /\ \A c \in contexts : ~shutting => c.a = active
  /\ \A c, d \in contexts : c = d
  /\ \A c \in contexts : ~c.terminal => final = None /\ ~shutting /\ writable
  /\ unsaved # None => \E c \in contexts : c.a = unsaved /\ ~c.terminal
  /\ shutting => prep = None /\ active = None /\ retrievals = {}
  /\ IdleIsQuiet /\ LaneIsReleased
  /\ \A e \in Posted : e.ev = "finished" => e.a # prep

\* One finalization is under way, of the attempt that waits for it.
Finalizing ==
  /\ \A o \in Queued : o \in Begins => o.a = prep \/ o.a = final
  /\ \A o \in Queued : o \in Finalizes => o.a = final
  /\ \A e \in Posted : e \in FinalEvents =>
       /\ e.a = final
       /\ \A o \in Queued : o \notin Begins /\ o \notin Finalizes
       /\ \A d \in Deferred : d \notin FinalCalls
  /\ \A e \in Deferred : e \in FinalCalls =>
       /\ e.a = final
       /\ \A o \in Queued : o \notin Begins /\ o \notin Finalizes
       /\ e.ev = "final_failed" => ~writable

\* What is still being prepared has not been asked.
InPreparation(a) ==
  \/ \E o \in Queued : o \in PrepOps(a)
  \/ \E e \in Posted : e \in PrepEvents(a)
  \/ a \in retrievals
  \/ \E e \in Deferred : e \in PrepCalls(a)
NotAsked ==
  \A a \in Attempts : InPreparation(a) =>
    /\ \A c \in contexts : c.a # a
    /\ \A o \in Queued : o \in Finalizes /\ o.a = a => o.status # "completed"
    /\ rows[a[1]].attempt = a[2] => rows[a[1]].status # "completed"

\* Between the write of an operation and its answer the row is as it was written.
Written(o) == opStep = "written" /\ Head(dataQ) = o
Stepping ==
  opStep = "written" =>
    /\ dataQ # <<>> /\ Head(dataQ).op \in Begin \cup {"finalize"}
    /\ Row = IF Head(dataQ).op = "finalize"
             THEN Message(Head(dataQ).status, A[2], Head(dataQ).reply)
             ELSE Message("pending", A[2], 0)

\* An attempt begins on a row that is older and not completed.
Beginning ==
  \A o \in Queued : o.op \in Begin =>
    Written(o) \/ (rows[o.a[1]].attempt < o.a[2] /\ rows[o.a[1]].status # "completed")

\* A row is finalized once, with what is shown.
Finishing ==
  /\ final # None => turns[final[1]].status \in Terminal
  /\ \A o \in Queued : o.op = "finalize" =>
       /\ o.status \in Terminal
       /\ turns[o.a[1]] = Message(o.status, o.a[2], o.reply)
       /\ Written(o) \/ rows[o.a[1]].status # "completed"

\* The row of the attempt being prepared, once it has begun, is pending.
Staged ==
  \/ \E o \in Queued : o.op = "assemble" /\ o.a = prep
  \/ \E e \in Posted : e.ev \in {"seed", "assembled"} /\ e.a = prep
  \/ prep \in retrievals
  \/ \E e \in Deferred : e.ev = "prepared" /\ e.a = prep
Staging ==
  /\ \A o \in Queued : o.op = "checkpoint" => o.a # prep
  /\ prep # None => /\ turns[prep[1]] = Message("pending", prep[2], 0)
                    /\ rows[prep[1]].status # "completed"
                    /\ Staged => rows[prep[1]] = Message("pending", prep[2], 0)

Open == {"pending", "streaming"}
Asking ==
  \A c \in contexts : ~c.terminal =>
    rows[c.a[1]].attempt = c.a[2] /\ rows[c.a[1]].status \in Open

\* The rows are not ahead of what is shown.
InFlight(t) ==
  \/ prep # None /\ prep[1] = t
  \/ \E c \in contexts : ~c.terminal /\ c.a[1] = t
Showing ==
  /\ \A e \in Posted : e.ev = "loaded" => \A t \in Turns : rows[t].status \notin Open
  /\ loaded /\ ~shutting => \A t \in Turns :
       /\ rows[t].attempt <= turns[t].attempt
       /\ turns[t].status \in Open => InFlight(t)
       /\ writable /\ rows[t].status = "completed" => turns[t].status = "completed"

\* A finalization that succeeded left the row as the turn is shown, unless a fault
\* of the preparation came after it.
Saving ==
  /\ (\E e \in Posted : e.ev = "finalized") \/ (\E e \in Deferred : e.ev = "final_ok") =>
       rows[final[1]] = turns[final[1]] \/ (failedOp /\ turns[final[1]].status # "completed")
  /\ CompletedIsSaved

\* Without a fault nothing fails, and only a turn under way differs from its row.
Faultless ==
  up /\ ~failedOp /\ ~shutting =>
    /\ \A e \in Posted : e.ev \notin {"not_prepared", "not_finalized"}
    /\ \A e \in Deferred : e.ev \notin {"prepare_failed", "final_failed"}
    /\ prep # None => rows[prep[1]].attempt = prep[2]
                        \/ \E o \in Queued : o.op \in Begin /\ o.a = prep
    /\ \A o \in Queued : o.op = "finalize" =>
         rows[o.a[1]].attempt = o.a[2] \/ \E b \in Queued : b.op \in Begin /\ b.a = o.a
    /\ loaded => \A t \in Turns :
         turns[t] = rows[t] \/ InFlight(t) \/ (final # None /\ final[1] = t)

IInv == /\ Typed /\ Loading /\ Numbered /\ Lined /\ Preparing /\ Attempting /\ Finalizing
        /\ NotAsked /\ Stepping /\ Beginning /\ Finishing /\ Staging /\ Asking /\ Showing
        /\ Saving /\ Faultless
----------------------------------------
(* What is in the queues. *)

OpTyped(o) ==
  /\ o \in OpRecs
  /\ o.op \in Begin \cup {"init", "assemble", "checkpoint", "finalize"}
  /\ o.op = "init" => o.a = None
  /\ o.op # "init" => o.a \in Attempts
  /\ o.a \in Attempts \cup {None} /\ o.status \in Statuses /\ o.reply \in 0..MaxChunks

EventTyped(e) ==
  /\ e \in EventRecs
  /\ e.ev \in Startup \cup Signal
  /\ e.ev \in Startup => e.a = None
  /\ e.ev \notin Startup => e.a \in Attempts

CallTyped(e) ==
  /\ e \in CallRecs
  /\ e.ev \in {"idle", "prepared", "prepare_failed", "final_ok", "final_failed"}
  /\ e.ev = "idle" => e.a = None
  /\ e.ev # "idle" => e.a \in Attempts

LEMMA AttemptParts ==
  /\ \A a \in Attempts : a # None /\ a[1] \in Turns /\ a[2] \in 1..MaxRequests
                           /\ a = <<a[1], a[2]>>
  /\ \A a, b \in Attempts : a[1] = b[1] /\ a[2] = b[2] => a = b
  /\ \A t \in Turns, n \in 1..MaxRequests : <<t, n>> \in Attempts
  BY DEF Attempts, None

LEMMA AnyTyped ==
  /\ \A o \in OpRecs : OpTyped(o)
  /\ \A e \in EventRecs : EventTyped(e)
  /\ \A e \in CallRecs : CallTyped(e)
  <1>1. \A o \in OpRecs : OpTyped(o)
    BY AttemptParts DEF OpRecs, Begin, OpTyped
  <1>2. \A e \in EventRecs : EventTyped(e)
    BY AttemptParts DEF EventRecs, Startup, Signal, WorkerSignals, EventTyped
  <1>3. \A e \in CallRecs : CallTyped(e)
    BY AttemptParts DEF CallRecs, CallTyped
  <1> QED  BY <1>1, <1>2, <1>3

\* The types of what is queued, posted and deferred
LEMMA AllTyped ==
  ASSUME IInv
  PROVE  /\ \A o \in Queued : OpTyped(o)
         /\ \A e \in Posted : EventTyped(e)
         /\ \A e \in Deferred : CallTyped(e)
  BY AnyTyped, NotEmpty DEF IInv, Typed, Queued, Posted, Deferred

\* A queue that did not change holds what it held.
LEMMA SameQueues ==
  /\ UNCHANGED dataQ => UNCHANGED Queued
  /\ UNCHANGED mainQ => UNCHANGED Posted
  /\ UNCHANGED soon => UNCHANGED Deferred
  BY DEF Queued, Posted, Deferred

\* Records of the queues
LEMMA NewOp ==
  ASSUME NEW op \in Begin \cup {"assemble", "checkpoint", "finalize"}, NEW a \in Attempts,
         NEW status \in Statuses, NEW reply \in 0..MaxChunks
  PROVE  /\ Op(op, a, status, reply) \in OpRecs /\ OpTyped(Op(op, a, status, reply))
         /\ Op(op, a, status, reply).op = op /\ Op(op, a, status, reply).a = a
         /\ Op(op, a, status, reply).status = status /\ Op(op, a, status, reply).reply = reply
  <1>1. Op(op, a, status, reply) \in OpRecs
    BY DEF OpRecs, Op
  <1> QED  BY <1>1, AnyTyped DEF Op

LEMMA NewEvent ==
  ASSUME NEW ev, NEW a, (ev \in Startup /\ a = None) \/ (ev \in Signal /\ a \in Attempts)
  PROVE  /\ Event(ev, a) \in EventRecs /\ EventTyped(Event(ev, a))
         /\ Event(ev, a).ev = ev /\ Event(ev, a).a = a
  <1>1. Event(ev, a) \in EventRecs
    BY DEF EventRecs, Event
  <1> QED  BY <1>1, AnyTyped DEF Event

LEMMA NewCall ==
  ASSUME NEW ev, NEW a,
         \/ ev = "idle" /\ a = None
         \/ ev \in {"prepared", "prepare_failed", "final_ok", "final_failed"} /\ a \in Attempts
  PROVE  /\ Event(ev, a) \in CallRecs /\ CallTyped(Event(ev, a))
         /\ Event(ev, a).ev = ev /\ Event(ev, a).a = a
  <1>1. Event(ev, a) \in CallRecs
    BY DEF CallRecs, Event
  <1> QED  BY <1>1, AnyTyped DEF Event

----------------------------------------
(* What the steps do to the queues. *)

\* The data thread is done with its first operation.
OpTaken ==
  /\ dataQ' \in Seq(OpRecs) /\ LinedOps(dataQ')
  /\ OpTyped(Head(dataQ)) /\ Head(dataQ) \in Queued
  /\ Queued = Queued' \cup {Head(dataQ)}
  /\ \A a \in Attempts : Head(dataQ) \in PrepOps(a) => \A o \in Queued' : o \notin PrepOps(a)
  /\ Head(dataQ) \in Begins => \A o \in Queued' : o \notin Begins
  /\ Head(dataQ) \in Finalizes => \A o \in Queued' : o \notin Begins /\ o \notin Finalizes

LEMMA TakesOp ==
  ASSUME IInv, dataQ # <<>>, dataQ' = Tail(dataQ)
  PROVE  OpTaken
  <1>1. dataQ \in Seq(OpRecs) /\ LinedOps(dataQ)
    BY DEF IInv, Typed, Lined
  <1>2. /\ dataQ' \in Seq(OpRecs) /\ Head(dataQ) \in OpRecs
        /\ Queued = {Head(dataQ)} \cup Queued'
    BY <1>1, Taking DEF Queued
  <1>3. \A a \in Attempts :
          /\ Single(dataQ', PrepOps(a))
          /\ Head(dataQ) \in PrepOps(a) => \A o \in Queued' : o \notin PrepOps(a)
    BY <1>1, SingleTail DEF LinedOps, Queued
  <1>4. /\ Paired(dataQ', Begins \cup Finalizes, Begins, Finalizes)
        /\ Head(dataQ) \in Begins \cup Finalizes =>
             \A o \in Queued' : o \in Begins \cup Finalizes => Head(dataQ) \in Begins /\ o \in Finalizes
    BY <1>1, PairedTail DEF LinedOps, Queued
  <1>5. \A o : ~(o \in Begins /\ o \in Finalizes)
    BY DEF Begins, Finalizes, Begin
  <1> QED  BY <1>2, <1>3, <1>4, <1>5, AnyTyped DEF OpTaken, LinedOps

\* The first operation is the only one of its kind, and a finalization begins nothing.
OpFirst ==
  /\ OpTyped(Head(dataQ)) /\ Head(dataQ) \in Queued
  /\ \A a \in Attempts : Head(dataQ) \in PrepOps(a) =>
       \A o \in Queued : o \in PrepOps(a) => o = Head(dataQ)
  /\ Head(dataQ) \in Begins => \A o \in Queued : o \in Begins => o = Head(dataQ)
  /\ Head(dataQ) \in Finalizes =>
       \A o \in Queued : o \notin Begins /\ (o \in Finalizes => o = Head(dataQ))

LEMMA FirstOp ==
  ASSUME IInv, dataQ # <<>>
  PROVE  OpFirst
  <1>1. dataQ \in Seq(OpRecs) /\ LinedOps(dataQ)
    BY DEF IInv, Typed, Lined
  <1>2. Head(dataQ) \in OpRecs /\ Queued = {Head(dataQ)} \cup Elements(Tail(dataQ))
    BY <1>1, Taking DEF Queued
  <1>3. \A a \in Attempts :
          Head(dataQ) \in PrepOps(a) => \A o \in Elements(Tail(dataQ)) : o \notin PrepOps(a)
    BY <1>1, SingleTail DEF LinedOps
  <1>4. Head(dataQ) \in Begins \cup Finalizes =>
          \A o \in Elements(Tail(dataQ)) :
            o \in Begins \cup Finalizes => Head(dataQ) \in Begins /\ o \in Finalizes
    BY <1>1, PairedTail DEF LinedOps
  <1>5. \A o : ~(o \in Begins /\ o \in Finalizes)
    BY DEF Begins, Finalizes, Begin
  <1> QED  BY <1>2, <1>3, <1>4, <1>5, AnyTyped DEF OpFirst

\* An operation is queued that does not break the lines.
Fits(o, ops) ==
  /\ \A a \in Attempts : o \in PrepOps(a) => \A p \in ops : p \notin PrepOps(a)
  /\ o \in Begins => \A p \in ops : p \notin Begins /\ p \notin Finalizes
  /\ o \in Finalizes => \A p \in ops : p \notin Finalizes

LEMMA FitsIn ==
  ASSUME NEW q \in Seq(OpRecs), LinedOps(q), NEW o \in OpRecs, Fits(o, Elements(q))
  PROVE  LinedOps(Append(q, o))
  <1>1. \A a \in Attempts : Single(Append(q, o), PrepOps(a))
    BY SingleAppend DEF LinedOps, Fits
  <1>2. /\ o \in Begins => \A p \in Elements(q) : p \notin Begins /\ p \notin Finalizes
        /\ o \in Finalizes => \A p \in Elements(q) : p \notin Finalizes
    BY DEF Fits
  <1>3. o \notin Begins \cup Finalizes
          \/ \A p \in Elements(q) : p \in Begins \cup Finalizes => p \in Begins /\ o \in Finalizes
    BY <1>2
  <1>4. Paired(q, Begins \cup Finalizes, Begins, Finalizes)
    BY DEF LinedOps
  <1>5. Paired(Append(q, o), Begins \cup Finalizes, Begins, Finalizes)
    BY <1>3, <1>4, PairedAppend
  <1> QED  BY <1>1, <1>5 DEF LinedOps

OpAdded(o) ==
  /\ dataQ' \in Seq(OpRecs)
  /\ Queued' = Queued \cup {o}
  /\ dataQ' # <<>> /\ (dataQ # <<>> => Head(dataQ') = Head(dataQ))
  /\ Fits(o, Queued) => LinedOps(dataQ')

LEMMA AddsOp ==
  ASSUME IInv, NEW o \in OpRecs, dataQ' = Append(dataQ, o)
  PROVE  OpAdded(o)
  <1>1. dataQ \in Seq(OpRecs) /\ LinedOps(dataQ)
    BY DEF IInv, Typed, Lined
  <1> QED  BY <1>1, Appending, FitsIn DEF OpAdded, Queued

\* The main thread takes the first event.
EventTaken ==
  /\ mainQ' \in Seq(EventRecs) /\ LinedEvents(mainQ')
  /\ EventTyped(Head(mainQ)) /\ Head(mainQ) \in Posted
  /\ Posted = Posted' \cup {Head(mainQ)}
  /\ \A a \in Attempts : Head(mainQ) \in PrepEvents(a) => \A e \in Posted' : e \notin PrepEvents(a)
  /\ Head(mainQ) \in FinalEvents => \A e \in Posted' : e \notin FinalEvents

LEMMA TakesEvent ==
  ASSUME IInv, mainQ # <<>>, mainQ' = Tail(mainQ)
  PROVE  EventTaken
  <1>1. mainQ \in Seq(EventRecs) /\ LinedEvents(mainQ)
    BY DEF IInv, Typed, Lined
  <1>2. /\ mainQ' \in Seq(EventRecs) /\ Head(mainQ) \in EventRecs
        /\ Posted = {Head(mainQ)} \cup Posted'
    BY <1>1, Taking DEF Posted
  <1>3. \A a \in Attempts :
          /\ Single(mainQ', PrepEvents(a))
          /\ Head(mainQ) \in PrepEvents(a) => \A e \in Posted' : e \notin PrepEvents(a)
    BY <1>1, SingleTail DEF LinedEvents, Posted
  <1>4. /\ Single(mainQ', FinalEvents)
        /\ Head(mainQ) \in FinalEvents => \A e \in Posted' : e \notin FinalEvents
    BY <1>1, SingleTail DEF LinedEvents, Posted
  <1> QED  BY <1>2, <1>3, <1>4, AnyTyped DEF EventTaken, LinedEvents

\* An event is posted to the main thread.
EventAdded(e) ==
  /\ mainQ' \in Seq(EventRecs)
  /\ Posted' = Posted \cup {e}
  /\ /\ \A a \in Attempts : e \in PrepEvents(a) => \A d \in Posted : d \notin PrepEvents(a)
     /\ e \in FinalEvents => \A d \in Posted : d \notin FinalEvents
     => LinedEvents(mainQ')

LEMMA AddsEvent ==
  ASSUME IInv, NEW e \in EventRecs, mainQ' = Append(mainQ, e)
  PROVE  EventAdded(e)
  <1>1. mainQ \in Seq(EventRecs) /\ LinedEvents(mainQ)
    BY DEF IInv, Typed, Lined
  <1>2. mainQ' \in Seq(EventRecs) /\ Posted' = Posted \cup {e}
    BY <1>1, Appending DEF Posted
  <1>3. ASSUME \A a \in Attempts : e \in PrepEvents(a) => \A d \in Posted : d \notin PrepEvents(a),
               e \in FinalEvents => \A d \in Posted : d \notin FinalEvents
        PROVE  LinedEvents(mainQ')
    <2>1. \A a \in Attempts : Single(mainQ', PrepEvents(a))
      BY <1>1, <1>3, SingleAppend DEF LinedEvents, Posted
    <2>2. Single(mainQ', FinalEvents)
      BY <1>1, <1>3, SingleAppend DEF LinedEvents, Posted
    <2> QED  BY <2>1, <2>2 DEF LinedEvents
  <1> QED  BY <1>2, <1>3 DEF EventAdded

\* The event loop calls the first callback.
CallTaken ==
  /\ Tail(soon) \in Seq(CallRecs) /\ LinedCalls(Tail(soon))
  /\ CallTyped(Head(soon)) /\ Head(soon) \in Deferred
  /\ Deferred = Elements(Tail(soon)) \cup {Head(soon)}
  /\ \A a \in Attempts :
       Head(soon) \in PrepCalls(a) => \A e \in Elements(Tail(soon)) : e \notin PrepCalls(a)
  /\ Head(soon) \in FinalCalls => \A e \in Elements(Tail(soon)) : e \notin FinalCalls

LEMMA TakesCall ==
  ASSUME IInv, soon # <<>>
  PROVE  CallTaken
  <1>1. soon \in Seq(CallRecs) /\ LinedCalls(soon)
    BY DEF IInv, Typed, Lined
  <1>2. /\ Tail(soon) \in Seq(CallRecs) /\ Head(soon) \in CallRecs
        /\ Deferred = {Head(soon)} \cup Elements(Tail(soon))
    BY <1>1, Taking DEF Deferred
  <1>3. \A a \in Attempts :
          /\ Single(Tail(soon), PrepCalls(a))
          /\ Head(soon) \in PrepCalls(a) => \A e \in Elements(Tail(soon)) : e \notin PrepCalls(a)
    BY <1>1, SingleTail DEF LinedCalls
  <1>4. /\ Single(Tail(soon), FinalCalls)
        /\ Head(soon) \in FinalCalls => \A e \in Elements(Tail(soon)) : e \notin FinalCalls
    BY <1>1, SingleTail DEF LinedCalls
  <1> QED  BY <1>2, <1>3, <1>4, AnyTyped DEF CallTaken, LinedCalls

\* A callback is queued with singleShot(0).
CallAdded(e) ==
  /\ soon' \in Seq(CallRecs)
  /\ Deferred' = Deferred \cup {e}
  /\ /\ \A a \in Attempts : e \in PrepCalls(a) => \A d \in Deferred : d \notin PrepCalls(a)
     /\ e \in FinalCalls => \A d \in Deferred : d \notin FinalCalls
     => LinedCalls(soon')

LEMMA AddsCall ==
  ASSUME IInv, NEW e \in CallRecs, soon' = Append(soon, e)
  PROVE  CallAdded(e)
  <1>1. soon \in Seq(CallRecs) /\ LinedCalls(soon)
    BY DEF IInv, Typed, Lined
  <1>2. soon' \in Seq(CallRecs) /\ Deferred' = Deferred \cup {e}
    BY <1>1, Appending DEF Deferred
  <1>3. ASSUME \A a \in Attempts : e \in PrepCalls(a) => \A d \in Deferred : d \notin PrepCalls(a),
               e \in FinalCalls => \A d \in Deferred : d \notin FinalCalls
        PROVE  LinedCalls(soon')
    <2>1. \A a \in Attempts : Single(soon', PrepCalls(a))
      BY <1>1, <1>3, SingleAppend DEF LinedCalls, Deferred
    <2>2. Single(soon', FinalCalls)
      BY <1>1, <1>3, SingleAppend DEF LinedCalls, Deferred
    <2> QED  BY <2>1, <2>2 DEF LinedCalls
  <1> QED  BY <1>2, <1>3 DEF CallAdded

\* A callback is done, and the return to idle may be queued.
CallDone ==
  /\ soon' \in Seq(CallRecs) /\ LinedCalls(soon')
  /\ \A e \in Deferred' : e \in Elements(Tail(soon)) \/ (CallTyped(e) /\ e.ev = "idle" /\ e.a = None)
  /\ Elements(Tail(soon)) \subseteq Deferred'

LEMMA DoesCall ==
  ASSUME IInv, soon # <<>>, NothingElse \/ ThenIdle
  PROVE  CallDone
  <1>1. CallTaken
    BY TakesCall
  <1>2. CASE NothingElse
    BY <1>1, <1>2 DEF CallTaken, CallDone, NothingElse, Deferred
  <1>3. CASE ThenIdle
    <2>1. /\ Event("idle", None) \in CallRecs /\ CallTyped(Event("idle", None))
          /\ Event("idle", None).ev = "idle" /\ Event("idle", None).a = None
      BY NewCall
    <2>2. /\ \A a \in Attempts : Event("idle", None) \notin PrepCalls(a)
          /\ Event("idle", None) \notin FinalCalls
      BY <2>1 DEF PrepCalls, FinalCalls
    <2>3. soon' \in Seq(CallRecs) /\ Deferred' = Elements(Tail(soon)) \cup {Event("idle", None)}
      <3>1. Tail(soon) \in Seq(CallRecs)
        BY <1>1 DEF CallTaken
      <3>2. soon' = Append(Tail(soon), Event("idle", None))
        BY <1>3 DEF ThenIdle
      <3> QED  BY <2>1, <3>1, <3>2, Appending DEF Deferred
    <2>4. LinedCalls(soon')
      BY <1>1, <1>3, <2>1, <2>2, SingleAppend DEF CallTaken, ThenIdle, LinedCalls
    <2> QED  BY <2>1, <2>3, <2>4 DEF CallDone
  <1> QED  BY <1>2, <1>3

----------------------------------------
(* The kinds of steps. *)

\* The lane, an action that waits for it and the background generation change.
LEMMA LaneStep ==
  ASSUME IInv,
         lane' \in BOOLEAN, background' \in BOOLEAN, ask' = None \/ ask' \in Begin \X Turns,
         up /\ state = "idle" /\ ask' = None => ~lane',
         ~loaded => ask' = None /\ ~lane',
         UNCHANGED <<rows, dataQ, opStep, dataUp, mainQ, soon, up, loaded, shutting>>,
         UNCHANGED <<failedOp, faults, writable, turns, state, prep, active, contexts, final>>,
         UNCHANGED <<unsaved, retrievals>>
  PROVE  IInv'
  <1>1. /\ UNCHANGED dataQ => UNCHANGED Queued
        /\ UNCHANGED mainQ => UNCHANGED Posted
        /\ UNCHANGED soon => UNCHANGED Deferred
    BY SameQueues
  <1>2. /\ \A o \in Queued : OpTyped(o)
        /\ \A e \in Posted : EventTyped(e)
        /\ \A e \in Deferred : CallTyped(e)
    BY AllTyped
  <1>3. Typed'
    BY <1>1, <1>2 DEF IInv, Typed
  <1>4. Loading'
    BY <1>1, <1>2, SMTT(10) DEF IInv, Loading, Typed
  <1>5. Numbered'
    BY <1>1, <1>2, SMTT(10) DEF IInv, Numbered, Typed, Loading, Known, Latest
  <1>6. Lined'
    BY <1>1, <1>2, SMTT(10) DEF IInv, Lined, Fits
  <1>7. Preparing'
    BY <1>1, <1>2, SMTT(10) DEF IInv, Preparing, PrepOps, PrepEvents, PrepCalls
  <1>8. Attempting'
    BY <1>1, <1>2, AttemptParts, SMTT(10)
       DEF IInv, Attempting, Loading, Finalizing, IdleIsQuiet, LaneIsReleased, Busy,
           EventTyped, Startup
  <1>9. Finalizing'
    BY <1>1, <1>2, SMTT(10)
       DEF IInv, Finalizing, Attempting, Preparing, Begins, Finalizes, FinalEvents,
           FinalCalls, Begin
  <1>10. NotAsked'
    BY <1>1, <1>2, SMTT(10)
       DEF IInv, NotAsked, Preparing, Attempting, Finalizing, InPreparation, PrepOps,
           PrepEvents, PrepCalls, Finalizes
  <1>11. Stepping'
    BY <1>1, <1>2, SMTT(10) DEF IInv, Stepping, Typed, Row, A
  <1>12. Beginning'
    BY <1>1, <1>2, SMTT(10) DEF IInv, Beginning, Stepping, Typed, Written, Begin
  <1>13. Finishing'
    BY <1>1, <1>2, SMTT(10)
       DEF IInv, Finishing, Stepping, Attempting, Finalizing, Written, Terminal
  <1>14. Staging'
    BY <1>1, <1>2, SMTT(10) DEF IInv, Staging, Attempting, Preparing, Staged
  <1>15. Asking'
    BY <1>1, <1>2, SMTT(10) DEF IInv, Asking, Attempting, Open
  <1>16. Showing'
    BY <1>1, <1>2, SMTT(10)
       DEF IInv, Showing, Attempting, Asking, Typed, Open, InFlight
  <1>17. Saving'
    BY <1>1, <1>2, AttemptParts, SMTT(10)
       DEF IInv, Saving, Finishing, Stepping, Finalizing, Attempting, CompletedIsSaved
  <1>18. Faultless'
    BY <1>1, <1>2, SMTT(10)
       DEF IInv, Faultless, Loading, Attempting, Finalizing, Stepping, Beginning,
           InFlight, Begin
  <1> QED  BY <1>3, <1>4, <1>5, <1>6, <1>7, <1>8, <1>9, <1>10, <1>11, <1>12, <1>13, <1>14, <1>15, <1>16, <1>17, <1>18 DEF IInv

\* What is left of a process is its rows.
LEMMA ProcessEndsStep ==
  ASSUME IInv,
         ProcessEnds, faults' \in 0..MaxFaults
  PROVE  IInv'
  <1>1. /\ Queued' = {} /\ Posted' = {} /\ Deferred' = {}
        /\ LinedOps(dataQ') /\ LinedEvents(mainQ') /\ LinedCalls(soon')
    BY EmptyQueue
       DEF ProcessEnds, Queued, Posted, Deferred, LinedOps, LinedEvents, LinedCalls
  <1>2. dataQ' \in Seq(OpRecs) /\ mainQ' \in Seq(EventRecs) /\ soon' \in Seq(CallRecs)
    BY DEF ProcessEnds
  <1>3. /\ turns' = [t \in Turns |-> Absent] /\ turns' \in [Turns -> Messages] /\ rows' = rows
        /\ \A t \in Turns : turns'[t].status = "absent" /\ turns'[t].attempt = 0
    BY ConversationAssumption DEF ProcessEnds, durable, Absent, Messages, Statuses
  <1>4. /\ UNCHANGED dataQ => UNCHANGED Queued
        /\ UNCHANGED mainQ => UNCHANGED Posted
        /\ UNCHANGED soon => UNCHANGED Deferred
    BY SameQueues
  <1>5. /\ \A o \in Queued : OpTyped(o)
        /\ \A e \in Posted : EventTyped(e)
        /\ \A e \in Deferred : CallTyped(e)
    BY AllTyped
  <1>6. Typed'
    BY <1>1, <1>2, <1>3, <1>4, <1>5
       DEF IInv, Typed, ProcessEnds, States, Visible, Terminal
  <1>7. Loading'
    BY <1>1, <1>2, <1>3, <1>4, <1>5, SMTT(10) DEF IInv, Loading, Typed, ProcessEnds
  <1>8. Numbered'
    BY <1>1, <1>2, <1>3, <1>4, <1>5, SMTT(10)
       DEF IInv, Numbered, Typed, Loading, Known, Latest, ProcessEnds
  <1>9. Lined'
    BY <1>1, <1>2, <1>3, <1>4, <1>5, SMTT(10) DEF IInv, Lined, Fits, ProcessEnds
  <1>10. Preparing'
    BY <1>1, <1>2, <1>3, <1>4, <1>5, SMTT(10)
       DEF IInv, Preparing, PrepOps, PrepEvents, PrepCalls, ProcessEnds
  <1>11. Attempting'
    BY <1>1, <1>2, <1>3, <1>4, <1>5, AttemptParts, SMTT(10)
       DEF IInv, Attempting, Loading, Finalizing, IdleIsQuiet, LaneIsReleased, Busy,
           EventTyped, Startup, ProcessEnds
  <1>12. Finalizing'
    BY <1>1, <1>2, <1>3, <1>4, <1>5, SMTT(10)
       DEF IInv, Finalizing, Attempting, Preparing, Begins, Finalizes, FinalEvents,
           FinalCalls, Begin, ProcessEnds
  <1>13. NotAsked'
    BY <1>1, <1>2, <1>3, <1>4, <1>5, SMTT(10)
       DEF IInv, NotAsked, Preparing, Attempting, Finalizing, InPreparation, PrepOps,
           PrepEvents, PrepCalls, Finalizes, ProcessEnds
  <1>14. Stepping'
    BY <1>1, <1>2, <1>3, <1>4, <1>5, SMTT(10)
       DEF IInv, Stepping, Typed, Row, A, ProcessEnds
  <1>15. Beginning'
    BY <1>1, <1>2, <1>3, <1>4, <1>5, SMTT(10)
       DEF IInv, Beginning, Stepping, Typed, Written, Begin, ProcessEnds
  <1>16. Finishing'
    BY <1>1, <1>2, <1>3, <1>4, <1>5, SMTT(10)
       DEF IInv, Finishing, Stepping, Attempting, Finalizing, Written, Terminal,
           ProcessEnds
  <1>17. Staging'
    BY <1>1, <1>2, <1>3, <1>4, <1>5, SMTT(10)
       DEF IInv, Staging, Attempting, Preparing, Staged, ProcessEnds
  <1>18. Asking'
    BY <1>1, <1>2, <1>3, <1>4, <1>5, SMTT(10)
       DEF IInv, Asking, Attempting, Open, ProcessEnds
  <1>19. Showing'
    BY <1>1, <1>2, <1>3, <1>4, <1>5, SMTT(10)
       DEF IInv, Showing, Attempting, Asking, Typed, Open, InFlight, ProcessEnds
  <1>20. Saving'
    BY <1>1, <1>2, <1>3, <1>4, <1>5, AttemptParts, SMTT(10)
       DEF IInv, Saving, Finishing, Stepping, Finalizing, Attempting,
           CompletedIsSaved, ProcessEnds
  <1>21. Faultless'
    BY <1>1, <1>2, <1>3, <1>4, <1>5, SMTT(10)
       DEF IInv, Faultless, Loading, Attempting, Finalizing, Stepping, Beginning,
           InFlight, Begin, ProcessEnds
  <1> QED  BY <1>6, <1>7, <1>8, <1>9, <1>10, <1>11, <1>12, <1>13, <1>14, <1>15, <1>16, <1>17, <1>18, <1>19, <1>20, <1>21 DEF IInv

\* The process starts with the recovery of its rows.
LEMMA StartStep ==
  ASSUME IInv,
         Start
  PROVE  IInv'
  <1>1. dataQ = <<>> /\ mainQ = <<>> /\ ~loaded /\ soon = <<>>
    BY DEF Start, IInv, Loading
  <1>2. /\ dataQ' = <<InitOp>> /\ InitOp \in OpRecs /\ OpTyped(InitOp) /\ InitOp.op = "init" /\ InitOp.a = None
        /\ dataQ' \in Seq(OpRecs)
    BY ConversationAssumption, AnyTyped DEF Start, InitOp, Op, OpRecs, Statuses
  <1>3. /\ dataQ' = Append(dataQ, InitOp) /\ OpAdded(InitOp) /\ Fits(InitOp, Queued)
    BY <1>1, <1>2, AddsOp DEF Fits, PrepOps, Begins, Finalizes, Begin
  <1>4. Queued = {} /\ Posted = {} /\ Deferred = {}
    BY <1>1, EmptyQueue DEF Queued, Posted, Deferred
  <1>5. \A t \in Turns : turns[t].status = "absent" /\ turns[t].attempt = 0
    BY <1>1 DEF IInv, Loading, Absent
  <1>6. /\ UNCHANGED dataQ => UNCHANGED Queued
        /\ UNCHANGED mainQ => UNCHANGED Posted
        /\ UNCHANGED soon => UNCHANGED Deferred
    BY SameQueues
  <1>7. /\ \A o \in Queued : OpTyped(o)
        /\ \A e \in Posted : EventTyped(e)
        /\ \A e \in Deferred : CallTyped(e)
    BY AllTyped
  <1>8. Typed'
    BY <1>1, <1>2, <1>3, <1>4, <1>5, <1>6, <1>7
       DEF IInv, Typed, OpAdded, Start, coord, control, durable
  <1>9. Loading'
    BY <1>1, <1>2, <1>3, <1>4, <1>5, <1>6, <1>7, SMTT(10)
       DEF IInv, Loading, Typed, OpAdded, Start, coord, control, durable
  <1>10. Numbered'
    BY <1>1, <1>2, <1>3, <1>4, <1>5, <1>6, <1>7, SMTT(10)
       DEF IInv, Numbered, Typed, Loading, Known, Latest, OpAdded, Start, coord,
           control, durable
  <1>11. Lined'
    BY <1>1, <1>2, <1>3, <1>4, <1>5, <1>6, <1>7, SMTT(10)
       DEF IInv, Lined, Fits, OpAdded, Start, coord, control, durable
  <1>12. Preparing'
    BY <1>4, <1>6 DEF IInv, Loading, Preparing, Start
  <1>13. Attempting'
    BY <1>1, <1>2, <1>3, <1>4, <1>5, <1>6, <1>7, AttemptParts, SMTT(10)
       DEF IInv, Attempting, Loading, Finalizing, IdleIsQuiet, LaneIsReleased, Busy,
           EventTyped, Startup, OpAdded, Start, coord, control, durable
  <1>14. Finalizing'
    BY <1>1, <1>2, <1>3, <1>4, <1>5, <1>6, <1>7, SMTT(10)
       DEF IInv, Finalizing, Attempting, Preparing, Begins, Finalizes, FinalEvents,
           FinalCalls, Begin, OpAdded, Start, coord, control, durable
  <1>15. NotAsked'
    BY <1>2, <1>3, <1>4, <1>6, AttemptParts
       DEF IInv, Loading, NotAsked, OpAdded, PrepOps, InPreparation, Start
  <1>16. Stepping'
    BY <1>1, <1>2, <1>3, <1>4, <1>5, <1>6, <1>7, SMTT(10)
       DEF IInv, Stepping, Typed, Row, A, OpAdded, Start, coord, control, durable
  <1>17. Beginning'
    BY <1>1, <1>2, <1>3, <1>4, <1>5, <1>6, <1>7, SMTT(10)
       DEF IInv, Beginning, Stepping, Typed, Written, Begin, OpAdded, Start, coord,
           control, durable
  <1>18. Finishing'
    BY <1>1, <1>2, <1>3, <1>4, <1>5, <1>6, <1>7, SMTT(10)
       DEF IInv, Finishing, Stepping, Attempting, Finalizing, Written, Terminal,
           OpAdded, Start, coord, control, durable
  <1>19. Staging'
    BY <1>1, <1>2, <1>3, <1>4, <1>5, <1>6, <1>7, SMTT(10)
       DEF IInv, Staging, Attempting, Preparing, Staged, OpAdded, Start, coord,
           control, durable
  <1>20. Asking'
    BY <1>1, <1>2, <1>3, <1>4, <1>5, <1>6, <1>7, SMTT(10)
       DEF IInv, Asking, Attempting, Open, OpAdded, Start, coord, control, durable
  <1>21. Showing'
    BY <1>1, <1>2, <1>3, <1>4, <1>5, <1>6, <1>7, SMTT(10)
       DEF IInv, Showing, Attempting, Asking, Typed, Open, InFlight, OpAdded, Start,
           coord, control, durable
  <1>22. Saving'
    BY <1>1, <1>2, <1>3, <1>4, <1>5, <1>6, <1>7, AttemptParts, SMTT(10)
       DEF IInv, Saving, Finishing, Stepping, Finalizing, Attempting,
           CompletedIsSaved, OpAdded, Start, coord, control, durable
  <1>23. Faultless'
    BY <1>1, <1>2, <1>3, <1>4, <1>5, <1>6, <1>7, SMTT(10)
       DEF IInv, Faultless, Loading, Attempting, Finalizing, Stepping, Beginning,
           InFlight, Begin, OpAdded, Start, coord, control, durable
  <1> QED  BY <1>8, <1>9, <1>10, <1>11, <1>12, <1>13, <1>14, <1>15, <1>16, <1>17, <1>18, <1>19, <1>20, <1>21, <1>22, <1>23 DEF IInv

\* A terminal result is queued behind the text that is not saved yet.
Persisted(a, status, reply) ==
  /\ dataQ' \in Seq(OpRecs) /\ LinedOps(dataQ')
  /\ dataQ' # <<>> /\ (dataQ # <<>> => Head(dataQ') = Head(dataQ))
  /\ Queued \subseteq Queued'
  /\ \A o \in Queued' :
       \/ o \in Queued
       \/ OpTyped(o) /\ o.op = "checkpoint" /\ o.a = unsaved /\ unsaved # None
       \/ OpTyped(o) /\ o.op = "finalize" /\ o.a = a /\ o.status = status /\ o.reply = reply
  /\ final' = a /\ unsaved' = None
  /\ UNCHANGED <<soon, writable>>

LEMMA Persists ==
  ASSUME IInv, NEW a \in Attempts, NEW status \in Terminal, NEW reply \in 0..MaxChunks,
         final = None, writable, dataUp, Persist(a, status, reply)
  PROVE  Persisted(a, status, reply)
  <1>1. /\ dataQ' = Append(Flushed, Op("finalize", a, status, reply))
        /\ final' = a /\ unsaved' = None /\ UNCHANGED <<soon, writable>>
    BY DEF Persist, IInv, Typed
  <1>2. dataQ \in Seq(OpRecs) /\ LinedOps(dataQ) /\ \A o \in Queued : o \notin Finalizes
    <2>1. dataQ \in Seq(OpRecs) /\ LinedOps(dataQ)
      BY DEF IInv, Typed, Lined
    <2>2. \A o \in Queued : o \in Finalizes => o.a = None
      BY DEF IInv, Finalizing
    <2>3. \A o \in Queued : o.op = "finalize" => o.a \in Attempts
      BY AllTyped DEF OpTyped, Begin
    <2>4. \A o \in Finalizes : o.op = "finalize"
      BY DEF Finalizes
    <2>5. None \notin Attempts
      BY AttemptParts
    <2> QED  BY <2>1, <2>2, <2>3, <2>4, <2>5
  <1> DEFINE fin == Op("finalize", a, status, reply)
             saved == Op("checkpoint", unsaved, "streaming", turns[unsaved[1]].reply)
  <1>3. /\ fin \in OpRecs /\ OpTyped(fin) /\ fin.op = "finalize" /\ fin.a = a
        /\ fin.status = status /\ fin.reply = reply
    BY NewOp DEF Statuses, Terminal
  <1>4. unsaved # None =>
          saved \in OpRecs /\ OpTyped(saved) /\ saved.op = "checkpoint" /\ saved.a = unsaved
    <2> SUFFICES ASSUME unsaved # None
                 PROVE  saved \in OpRecs /\ OpTyped(saved) /\ saved.op = "checkpoint"
                          /\ saved.a = unsaved
      OBVIOUS
    <2>1. unsaved \in Attempts /\ unsaved[1] \in Turns
      BY AttemptParts DEF IInv, Typed
    <2>2. turns[unsaved[1]].reply \in 0..MaxChunks
      BY <2>1 DEF IInv, Typed, Messages
    <2>3. "streaming" \in Statuses
      BY DEF Statuses
    <2>4. ASSUME NEW b \in Attempts, NEW r \in 0..MaxChunks,
                 NEW op \in Begin \cup {"assemble", "checkpoint", "finalize"}
          PROVE  LET o == Op(op, b, "streaming", r)
                 IN  o \in OpRecs /\ OpTyped(o) /\ o.op = op /\ o.a = b
      BY <2>3, NewOp
    <2>5. "checkpoint" \in Begin \cup {"assemble", "checkpoint", "finalize"}
      OBVIOUS
    <2> HIDE DEF saved
    <2>6. saved = Op("checkpoint", unsaved, "streaming", turns[unsaved[1]].reply)
      BY DEF saved
    <2> QED  BY <2>1, <2>2, <2>4, <2>5, <2>6
  <1> HIDE DEF fin, saved
  <1>5. \/ Flushed = dataQ
        \/ unsaved # None /\ Flushed = Append(dataQ, saved)
    BY DEF Flushed, saved
  <1>6. /\ Flushed \in Seq(OpRecs) /\ LinedOps(Flushed)
        /\ dataQ # <<>> => Flushed # <<>> /\ Head(Flushed) = Head(dataQ)
        /\ Queued \subseteq Elements(Flushed)
        /\ \A o \in Elements(Flushed) : o \in Queued \/ (unsaved # None /\ o = saved)
    <2>1. CASE Flushed = dataQ
      BY <1>2, <2>1 DEF Queued
    <2>2. CASE unsaved # None /\ Flushed = Append(dataQ, saved)
      <3>1. Fits(saved, Queued)
        BY <1>4, <2>2 DEF Fits, PrepOps, Begins, Finalizes, Begin
      <3>2. LinedOps(Flushed)
        BY <1>2, <1>4, <2>2, <3>1, FitsIn DEF Queued
      <3>3. /\ Flushed \in Seq(OpRecs) /\ Elements(Flushed) = Queued \cup {saved}
            /\ dataQ # <<>> => Flushed # <<>> /\ Head(Flushed) = Head(dataQ)
        BY <1>2, <1>4, <2>2, Appending DEF Queued
      <3> QED  BY <2>2, <3>2, <3>3
    <2> QED  BY <1>5, <2>1, <2>2
  <1>7. \A o \in Elements(Flushed) : o \notin Finalizes
    BY <1>2, <1>4, <1>6 DEF Finalizes
  <1>8. dataQ' = Append(Flushed, fin)
    BY <1>1 DEF fin
  <1>9. Fits(fin, Elements(Flushed))
    BY <1>3, <1>7 DEF Fits, PrepOps, Begins, Begin
  <1>10. LinedOps(dataQ')
    BY <1>3, <1>6, <1>8, <1>9, FitsIn
  <1>11. /\ dataQ' \in Seq(OpRecs) /\ dataQ' # <<>> /\ Queued' = Elements(Flushed) \cup {fin}
         /\ Flushed # <<>> => Head(dataQ') = Head(Flushed)
    BY <1>3, <1>6, <1>8, Appending DEF Queued
  <1> QED  BY <1>1, <1>3, <1>4, <1>6, <1>10, <1>11 DEF Persisted

\* An attempt is shown and its stage one queued.
LEMMA PrepareStep ==
  ASSUME IInv, NEW kind \in Begin, NEW a \in Attempts, NEW o,
         a[2] = turns[a[1]].attempt + 1, turns[a[1]].status \in {"absent", "failed"},
         writable, ~shutting, active = None, prep = None, final = None,
         o = Op(kind, a, "pending", 0), dataQ' = Append(dataQ, o),
         turns' = [turns EXCEPT ![a[1]] = Message("pending", a[2], 0)],
         prep' = a, active' = a, state' = "sending", lane' = TRUE, ask' = None, background' \in BOOLEAN,
         UNCHANGED <<rows, opStep, dataUp, mainQ, soon, up, loaded, shutting, failedOp>>,
         UNCHANGED <<faults, writable, contexts, final, unsaved, retrievals>>
  PROVE  IInv'
  <1>1. /\ o \in OpRecs /\ OpTyped(o) /\ o.op = kind /\ o.a = a /\ o.op \in Begin
        /\ o.op \notin {"init", "assemble", "checkpoint", "finalize"}
    BY NewOp, ConversationAssumption, SMTT(20) DEF Statuses, Begin, Op
  <1>2. OpAdded(o) /\ loaded /\ up
    BY <1>1, AddsOp DEF IInv, Loading
  <1>3. /\ a[1] \in Turns /\ a[2] \in 1..MaxRequests /\ a # None
        /\ turns[a[1]].attempt < a[2] /\ turns[a[1]].attempt \in Nat
    BY AttemptParts DEF IInv, Typed, Messages
  <1>4. /\ turns' \in [Turns -> Messages] /\ turns'[a[1]].status = "pending"
        /\ turns'[a[1]] = Message("pending", a[2], 0) /\ turns'[a[1]].attempt = a[2]
        /\ \A t \in Turns : t # a[1] => turns'[t] = turns[t]
    BY <1>3, ConversationAssumption DEF IInv, Typed, Messages, Message, Statuses
  <1>5. contexts = {} /\ unsaved = None
    BY AttemptParts DEF IInv, Typed, Attempting, ContextRecs
  <1>6. \A b \in Attempts \cup {None} : Known(b) => b # a
    BY <1>3 DEF Known
  <1>7. /\ \A p \in Queued : p.a # a
        /\ \A e \in Posted : e.a # a
        /\ \A e \in Deferred : e.a # a
        /\ a \notin retrievals
    BY <1>6, AllTyped DEF IInv, Typed, Numbered, OpTyped, EventTyped, CallTyped
  <1>8. \A p \in Queued : p \notin Begins /\ p \notin Finalizes
    BY AllTyped, AttemptParts DEF IInv, Finalizing, OpTyped, Begins, Finalizes, Begin
  <1>9. /\ \A e \in Posted : e \notin FinalEvents
        /\ \A e \in Deferred : e \notin FinalCalls
    BY AllTyped, AttemptParts
       DEF IInv, Finalizing, EventTyped, CallTyped, FinalEvents, FinalCalls, Startup
  <1>10. \A b \in Attempts \cup {None} : Known(b) => Known(b)'
        <2> SUFFICES ASSUME NEW b \in Attempts, b[2] <= turns[b[1]].attempt
                 PROVE  b[2] <= turns'[b[1]].attempt
      BY AttemptParts DEF Known
    <2>1. b[1] \in Turns /\ b[2] \in Nat
      BY AttemptParts
    <2>2. turns[b[1]].attempt \in Nat /\ turns'[b[1]].attempt \in Nat
      BY <2>1, <1>3, <1>4 DEF IInv, Typed, Messages
    <2>3. CASE b[1] = a[1]
      BY <2>1, <2>2, <2>3, <1>3, <1>4 DEF Message
    <2>4. CASE b[1] # a[1]
      BY <2>1, <2>2, <2>4, <1>3, <1>4
    <2> QED  BY <2>3, <2>4

  <1>11. Fits(o, Queued)
    BY <1>1, <1>7, <1>8 DEF Fits, PrepOps, Finalizes
  <1>12. rows[a[1]].attempt < a[2] /\ rows[a[1]].status # "completed"
    BY <1>2, <1>3 DEF IInv, Showing, Typed, Messages
  <1>13. /\ UNCHANGED dataQ => UNCHANGED Queued
         /\ UNCHANGED mainQ => UNCHANGED Posted
         /\ UNCHANGED soon => UNCHANGED Deferred
    BY SameQueues
  <1>14. /\ \A x \in Queued : OpTyped(x)
         /\ \A e \in Posted : EventTyped(e)
         /\ \A e \in Deferred : CallTyped(e)
    BY AllTyped
  <1>15. Typed'
    BY <1>1, <1>4 DEF IInv, Typed, Visible, States
  <1>16. Loading'
    BY <1>1, <1>2, <1>3, <1>4, <1>5, <1>6, <1>7, <1>8, <1>9, <1>10, <1>11, <1>12,
       <1>13, <1>14, SMTT(10)
       DEF IInv, Loading, Typed, OpAdded
  <1>17. Numbered'
    <2>1. (\A b \in Attempts \cup {None} : Known(b) => Known(b)') /\ turns' \in [Turns -> Messages]
      BY <1>1, <1>2, <1>3, <1>4, <1>5, <1>6, <1>7, <1>8, <1>9, <1>10, <1>11, <1>12,
         <1>13, <1>14
    <2>2. \A x \in Queued' : Known(x.a)'
      BY <1>1, <1>2, <1>3, <1>4, <1>10, <1>14 DEF IInv, Numbered, OpTyped, OpAdded, Known
    <2>3. /\ \A e \in Posted' : Known(e.a)'
          /\ \A e \in Deferred' : Known(e.a)'
      BY <1>1, <1>2, <1>3, <1>4, <1>5, <1>6, <1>7, <1>8, <1>9, <1>10, <1>11, <1>12,
         <1>13, <1>14
         DEF IInv, Numbered, EventTyped, CallTyped, Persisted, Known
    <2>4. /\ \A b \in retrievals' : Known(b)'
          /\ \A c \in contexts' : Known(c.a)'
      BY <1>1, <1>2, <1>3, <1>4, <1>5, <1>6, <1>7, <1>8, <1>9, <1>10, <1>11, <1>12,
         <1>13, <1>14
         DEF IInv, Typed, Numbered, ContextRecs, Known
    <2>5. Latest(prep)' /\ Latest(active)' /\ Latest(final)'
      BY <1>1, <1>2, <1>3, <1>4, <1>5, <1>6, <1>7, <1>8, <1>9, <1>10, <1>11, <1>12,
         <1>13, <1>14
         DEF IInv, Numbered, Latest, Persisted
    <2>6. \A t \in Turns : /\ turns'[t].status = "absent" => turns'[t].attempt = 0
                           /\ rows'[t].status = "absent" => rows'[t].attempt = 0
      BY <1>1, <1>2, <1>3, <1>4, <1>5, <1>6, <1>7, <1>8, <1>9, <1>10, <1>11, <1>12,
         <1>13, <1>14
         DEF IInv, Numbered, Terminal
    <2> QED  BY <2>2, <2>3, <2>4, <2>5, <2>6 DEF Numbered
  <1>18. Lined'
    BY <1>1, <1>2, <1>3, <1>4, <1>5, <1>6, <1>7, <1>8, <1>9, <1>10, <1>11, <1>12,
       <1>13, <1>14, SMTT(10)
       DEF IInv, Lined, Fits, OpAdded
  <1>19. Preparing'
    BY <1>1, <1>2, <1>3, <1>4, <1>5, <1>6, <1>7, <1>8, <1>9, <1>10, <1>11, <1>12,
       <1>13, <1>14, SMTT(10)
       DEF IInv, Preparing, PrepOps, PrepEvents, PrepCalls, OpAdded
  <1>20. Attempting'
    BY <1>1, <1>2, <1>3, <1>4, <1>5, <1>6, <1>7, <1>8, <1>9, <1>10, <1>11, <1>12,
       <1>13, <1>14, AttemptParts, SMTT(10)
       DEF IInv, Attempting, Loading, Finalizing, IdleIsQuiet, LaneIsReleased, Busy,
           EventTyped, Startup, OpAdded
  <1>21. Finalizing'
    BY <1>1, <1>2, <1>3, <1>4, <1>5, <1>6, <1>7, <1>8, <1>9, <1>10, <1>11, <1>12,
       <1>13, <1>14, SMTT(10)
       DEF IInv, Finalizing, Attempting, Preparing, Begins, Finalizes, FinalEvents,
           FinalCalls, Begin, OpAdded
  <1>22. NotAsked'
    BY <1>1, <1>2, <1>3, <1>4, <1>5, <1>6, <1>7, <1>8, <1>9, <1>10, <1>11, <1>12,
       <1>13, <1>14, SMTT(10)
       DEF IInv, NotAsked, Preparing, Attempting, Finalizing, InPreparation, PrepOps,
           PrepEvents, PrepCalls, Finalizes, OpAdded
  <1>23. Stepping'
    BY <1>1, <1>2, <1>3, <1>4, <1>5, <1>6, <1>7, <1>8, <1>9, <1>10, <1>11, <1>12,
       <1>13, <1>14, SMTT(10)
       DEF IInv, Stepping, Typed, Row, A, OpAdded
  <1>24. Beginning'
    BY <1>1, <1>2, <1>3, <1>4, <1>5, <1>6, <1>7, <1>8, <1>9, <1>10, <1>11, <1>12,
       <1>13, <1>14, SMTT(10)
       DEF IInv, Beginning, Stepping, Typed, Written, Begin, OpAdded
  <1>25. Finishing'
    BY <1>1, <1>2, <1>14, AttemptParts
       DEF IInv, Finalizing, Finishing, OpTyped, OpAdded, Finalizes
  <1>26. Staging'
    BY <1>1, <1>2, <1>3, <1>4, <1>5, <1>6, <1>7, <1>8, <1>9, <1>10, <1>11, <1>12,
       <1>13, <1>14, SMTT(10)
       DEF IInv, Staging, Attempting, Preparing, Staged, OpAdded
  <1>27. Asking'
    BY <1>1, <1>2, <1>3, <1>4, <1>5, <1>6, <1>7, <1>8, <1>9, <1>10, <1>11, <1>12,
       <1>13, <1>14, SMTT(10)
       DEF IInv, Asking, Attempting, Open, OpAdded
  <1>28. Showing'
    BY <1>13, AttemptParts DEF IInv, Typed, Showing, InFlight, Message, Messages
  <1>29. Saving'
    BY <1>9, <1>13, <1>14
       DEF IInv, Saving, EventTyped, CallTyped, FinalEvents, FinalCalls,
           CompletedIsSaved, Message
  <1>30. Faultless'
    BY <1>1, <1>2, <1>3, <1>13 DEF IInv, Faultless, InFlight, OpAdded
  <1> QED  BY <1>15, <1>16, <1>17, <1>18, <1>19, <1>20, <1>21, <1>22, <1>23, <1>24, <1>25, <1>26, <1>27, <1>28, <1>29, <1>30 DEF IInv

\* The active request gets its outcome and its finalization is queued.
LEMMA FinishStep ==
  ASSUME IInv, NEW a \in Attempts, NEW status \in Terminal,
         ~shutting, active = a, \E c \in contexts : c.a = a /\ ~c.terminal,
         Show(a, status), Persist(a, status, turns[a[1]].reply), state' \in States, lane' \in BOOLEAN,
         shutting' => dataUp' \in BOOLEAN /\ state' = "idle" /\ ~lane' /\ retrievals' = {} /\ active' = None,
         ~shutting' => dataUp' = dataUp /\ state' = status /\ retrievals' = retrievals,
         shutting' \in BOOLEAN,
         contexts' \subseteq ContextRecs, \A c \in contexts' : c.terminal /\ c.a = a,
         \A c, d \in contexts' : c = d,
         active' = a \/ (active' = None /\ (contexts' = {} \/ shutting')),
         Posted' \subseteq Posted, mainQ' \in Seq(EventRecs), LinedEvents(mainQ'),
         \A e \in Posted : e \in Posted' \/ e.ev \in WorkerSignals,
         ask' = ask \/ ask' = None,
         UNCHANGED <<rows, opStep, up, loaded, failedOp, faults, prep, background>>
  PROVE  IInv'
  <1>1. /\ a[1] \in Turns /\ a[2] \in 1..MaxRequests /\ a # None
        /\ turns[a[1]].reply \in 0..MaxChunks /\ turns[a[1]].attempt = a[2]
    BY AttemptParts DEF IInv, Typed, Messages, Numbered, Latest
  <1>2. final = None /\ writable /\ up /\ dataUp /\ loaded /\ prep = None /\ unsaved \in {None, a}
    BY AttemptParts DEF IInv, Attempting, Loading
  <1>3. Persisted(a, status, turns[a[1]].reply)
    BY <1>1, <1>2, Persists
  <1>4. /\ turns' \in [Turns -> Messages] /\ status \in Terminal
        /\ turns'[a[1]] = Message(status, a[2], turns[a[1]].reply)
        /\ turns'[a[1]].status = status /\ turns'[a[1]].attempt = a[2]
        /\ \A t \in Turns : t # a[1] => turns'[t] = turns[t]
    BY <1>1 DEF Show, IInv, Typed, Messages, Message, Statuses
  <1>5. /\ retrievals' \subseteq retrievals /\ dataUp' \in BOOLEAN
        /\ ~shutting' => state' # "idle"
    BY DEF IInv, Typed, Terminal
  <1>6. rows[a[1]].attempt = a[2] /\ rows[a[1]].status \in Open
    BY DEF IInv, Asking
  <1>7. /\ \A o \in Queued : o.op \notin Begin /\ o.op # "finalize" /\ o \notin Begins /\ o \notin Finalizes
        /\ \A e \in Posted : e \notin FinalEvents /\ e.ev # "finalized"
        /\ \A e \in Deferred : e \notin FinalCalls /\ e.ev # "final_ok"
    BY AllTyped, AttemptParts, <1>2
       DEF IInv, Finalizing, OpTyped, EventTyped, CallTyped, Begins, Finalizes,
           FinalEvents, FinalCalls, Begin, Startup
  <1>8. \A b \in Attempts \cup {None} : Known(b) => Known(b)'
        <2> SUFFICES ASSUME NEW b \in Attempts, b[2] <= turns[b[1]].attempt
                 PROVE  b[2] <= turns'[b[1]].attempt
      BY AttemptParts DEF Known
    <2>1. b[1] \in Turns /\ b[2] \in Nat
      BY AttemptParts
    <2>2. turns[b[1]].attempt \in Nat /\ turns'[b[1]].attempt \in Nat
      BY <2>1, <1>1, <1>4 DEF IInv, Typed, Messages
    <2>3. CASE b[1] = a[1]
      BY <2>1, <2>2, <2>3, <1>1, <1>4 DEF Message
    <2>4. CASE b[1] # a[1]
      BY <2>1, <2>2, <2>4, <1>1, <1>4
    <2> QED  BY <2>3, <2>4

  <1>9. /\ \A b \in Attempts, o \in Queued' : o \in PrepOps(b) => o \in Queued
        /\ \A o \in Queued' : o \in Begins => o \in Queued
        /\ \A o \in Queued' : o.op = "init" => o \in Queued
        /\ UNCHANGED Deferred
    BY <1>3, SameQueues DEF Persisted, PrepOps, Begins, Begin
  <1>10. \A b \in Attempts : InPreparation(b)' => InPreparation(b)
    BY <1>9, SameQueues DEF InPreparation, PrepOps, PrepEvents, PrepCalls
  <1>11. ~InPreparation(a)
    BY DEF IInv, NotAsked
  <1>12. /\ \A t \in Turns : InFlight(t) => t = a[1]
         /\ \A t \in Turns : ~InFlight(t)'
    BY <1>2 DEF IInv, Attempting, InFlight
  <1>13. \A t, n : final # <<t, n>>
    BY <1>2 DEF None
  <1>14. /\ \A t \in Turns : turns'[t].attempt = turns[t].attempt
         /\ \A t \in Turns : turns'[t].status \in Open => t # a[1] /\ turns[t].status \in Open
         /\ \A t \in Turns : rows[t].status = "completed" => t # a[1]
    BY <1>1, <1>4, <1>6 DEF Open, Terminal
  <1>15. /\ UNCHANGED dataQ => UNCHANGED Queued
         /\ UNCHANGED mainQ => UNCHANGED Posted
         /\ UNCHANGED soon => UNCHANGED Deferred
    BY SameQueues
  <1>16. /\ \A o \in Queued : OpTyped(o)
         /\ \A e \in Posted : EventTyped(e)
         /\ \A e \in Deferred : CallTyped(e)
    BY AllTyped
  <1>17. Typed'
    BY <1>1, <1>2, <1>3, <1>4, <1>5, <1>6, <1>7, <1>8, <1>9, <1>10, <1>11, <1>12,
       <1>13, <1>14, <1>15, <1>16
       DEF IInv, Typed, Persisted
  <1>18. Loading'
    <2>1. ~up' => ~loaded' /\ ~shutting' /\ dataQ' = <<>> /\ mainQ' = <<>>
      BY <1>1, <1>2, <1>3, <1>4, <1>5, <1>6, <1>7, <1>8, <1>9, <1>10, <1>11, <1>12,
         <1>13, <1>14, <1>15, <1>16, SMTT(10)
         DEF Typed, Persisted
    <2>2. up' /\ ~shutting' => dataUp'
      BY <1>1, <1>2, <1>3, <1>4, <1>5, <1>6, <1>7, <1>8, <1>9, <1>10, <1>11, <1>12,
         <1>13, <1>14, <1>15, <1>16, SMTT(10)
         DEF Typed, Persisted
    <2>3. writable' => loaded'
      BY <1>1, <1>2, <1>3, <1>4, <1>5, <1>6, <1>7, <1>8, <1>9, <1>10, <1>11, <1>12,
         <1>13, <1>14, <1>15, <1>16, SMTT(10)
         DEF Typed, Persisted
    <2>4. loaded' => (\A o \in Queued' : o.op # "init") /\ \A e \in Posted' :
         e.ev \notin Startup
      BY <1>1, <1>2, <1>3, <1>4, <1>5, <1>6, <1>7, <1>8, <1>9, <1>10, <1>11, <1>12,
         <1>13, <1>14, <1>15, <1>16, SMTT(10)
         DEF IInv, Loading, Typed, Persisted
    <2>5. ~loaded' => FALSE
      BY <1>1, <1>2, <1>3, <1>4, <1>5, <1>6, <1>7, <1>8, <1>9, <1>10, <1>11, <1>12,
         <1>13, <1>14, <1>15, <1>16, SMTT(10)
         DEF Typed, Persisted
    <2> QED  BY <2>1, <2>2, <2>3, <2>4, <2>5 DEF Loading
  <1>19. Numbered'
    <2>1. (\A b \in Attempts \cup {None} : Known(b) => Known(b)') /\ turns' \in [Turns -> Messages]
      BY <1>1, <1>2, <1>3, <1>4, <1>5, <1>6, <1>7, <1>8, <1>9, <1>10, <1>11, <1>12,
         <1>13, <1>14, <1>15, <1>16
    <2>2. \A o \in Queued' : Known(o.a)'
      BY <1>1, <1>2, <1>3, <1>4, <1>5, <1>6, <1>7, <1>8, <1>9, <1>10, <1>11, <1>12,
         <1>13, <1>14, <1>15, <1>16
         DEF IInv, Numbered, OpTyped, OpAdded, Persisted
    <2>3. /\ \A e \in Posted' : Known(e.a)'
          /\ \A e \in Deferred' : Known(e.a)'
      BY <1>8, <1>9, <1>16 DEF IInv, Numbered, EventTyped, CallTyped
    <2>4. /\ \A b \in retrievals' : Known(b)'
          /\ \A c \in contexts' : Known(c.a)'
      BY <1>1, <1>2, <1>3, <1>4, <1>5, <1>6, <1>7, <1>8, <1>9, <1>10, <1>11, <1>12,
         <1>13, <1>14, <1>15, <1>16
         DEF IInv, Typed, Numbered, ContextRecs, Known
    <2>5. Latest(prep)' /\ Latest(active)' /\ Latest(final)'
      BY <1>1, <1>2, <1>3, <1>4, <1>5, <1>6, <1>7, <1>8, <1>9, <1>10, <1>11, <1>12,
         <1>13, <1>14, <1>15, <1>16
         DEF IInv, Numbered, Latest, Persisted
    <2>6. \A t \in Turns : /\ turns'[t].status = "absent" => turns'[t].attempt = 0
                           /\ rows'[t].status = "absent" => rows'[t].attempt = 0
      BY <1>1, <1>2, <1>3, <1>4, <1>5, <1>6, <1>7, <1>8, <1>9, <1>10, <1>11, <1>12,
         <1>13, <1>14, <1>15, <1>16
         DEF IInv, Numbered, Terminal
    <2> QED  BY <2>2, <2>3, <2>4, <2>5, <2>6 DEF Numbered
  <1>20. Lined'
    BY <1>1, <1>2, <1>3, <1>4, <1>5, <1>6, <1>7, <1>8, <1>9, <1>10, <1>11, <1>12,
       <1>13, <1>14, <1>15, <1>16, SMTT(10)
       DEF IInv, Lined, Fits, Persisted
  <1>21. Preparing'
    BY <1>1, <1>2, <1>3, <1>4, <1>5, <1>6, <1>7, <1>8, <1>9, <1>10, <1>11, <1>12,
       <1>13, <1>14, <1>15, <1>16, SMTT(10)
       DEF IInv, Preparing, PrepOps, PrepEvents, PrepCalls, Persisted
  <1>22. Attempting'
    BY <1>1, <1>2, <1>3, <1>4, <1>5, <1>6, <1>7, <1>8, <1>9, <1>10, <1>11, <1>12,
       <1>13, <1>14, <1>15, <1>16, AttemptParts, SMTT(10)
       DEF IInv, Attempting, Loading, Finalizing, IdleIsQuiet, LaneIsReleased, Busy,
           EventTyped, Startup, Persisted
  <1>23. Finalizing'
    BY <1>1, <1>2, <1>3, <1>4, <1>5, <1>6, <1>7, <1>8, <1>9, <1>10, <1>11, <1>12,
       <1>13, <1>14, <1>15, <1>16, SMTT(10)
       DEF IInv, Finalizing, Attempting, Preparing, Begins, Finalizes, FinalEvents,
           FinalCalls, Begin, Persisted
  <1>24. NotAsked'
    BY <1>1, <1>2, <1>3, <1>4, <1>5, <1>6, <1>7, <1>8, <1>9, <1>10, <1>11, <1>12,
       <1>13, <1>14, <1>15, <1>16, SMTT(10)
       DEF IInv, NotAsked, Preparing, Attempting, Finalizing, InPreparation, PrepOps,
           PrepEvents, PrepCalls, Finalizes, Persisted
  <1>25. Stepping'
    BY <1>1, <1>2, <1>3, <1>4, <1>5, <1>6, <1>7, <1>8, <1>9, <1>10, <1>11, <1>12,
       <1>13, <1>14, <1>15, <1>16, SMTT(10)
       DEF IInv, Stepping, Typed, Row, A, Persisted
  <1>26. Beginning'
    BY <1>1, <1>2, <1>3, <1>4, <1>5, <1>6, <1>7, <1>8, <1>9, <1>10, <1>11, <1>12,
       <1>13, <1>14, <1>15, <1>16, SMTT(10)
       DEF IInv, Beginning, Stepping, Typed, Written, Begin, Persisted
  <1>27. Finishing'
    BY <1>1, <1>2, <1>3, <1>4, <1>5, <1>6, <1>7, <1>8, <1>9, <1>10, <1>11, <1>12,
       <1>13, <1>14, <1>15, <1>16, SMTT(10)
       DEF IInv, Finishing, Stepping, Attempting, Finalizing, Written, Terminal,
           Persisted
  <1>28. Staging'
    BY <1>1, <1>2, <1>3, <1>4, <1>5, <1>6, <1>7, <1>8, <1>9, <1>10, <1>11, <1>12,
       <1>13, <1>14, <1>15, <1>16, SMTT(10)
       DEF IInv, Staging, Attempting, Preparing, Staged, Persisted
  <1>29. Asking'
    BY <1>1, <1>2, <1>3, <1>4, <1>5, <1>6, <1>7, <1>8, <1>9, <1>10, <1>11, <1>12,
       <1>13, <1>14, <1>15, <1>16, SMTT(10)
       DEF IInv, Asking, Attempting, Open, Persisted
  <1>30. Showing'
    <2>1. \A e \in Posted' : e.ev = "loaded" => \A t \in Turns :
         rows'[t].status \notin Open
      BY <1>1, <1>2, <1>3, <1>4, <1>5, <1>6, <1>7, <1>8, <1>9, <1>10, <1>11, <1>12,
         <1>13, <1>14, <1>15, <1>16, SMTT(10)
         DEF IInv, Showing, Attempting, Asking, Typed, Open, InFlight, Persisted,
             Terminal
    <2>2. loaded' /\ ~shutting' => \A t \in Turns : rows'[t].attempt <=
         turns'[t].attempt
      BY <1>1, <1>2, <1>3, <1>4, <1>5, <1>6, <1>7, <1>8, <1>9, <1>10, <1>11, <1>12,
         <1>13, <1>14, <1>15, <1>16, SMTT(10)
         DEF IInv, Showing, Attempting, Asking, Typed, Open, InFlight, Persisted,
             Terminal
    <2>3. loaded' /\ ~shutting' => \A t \in Turns : turns'[t].status \in Open
         => InFlight(t)'
      BY <1>1, <1>2, <1>3, <1>4, <1>5, <1>6, <1>7, <1>8, <1>9, <1>10, <1>11, <1>12,
         <1>13, <1>14, <1>15, <1>16, SMTT(10)
         DEF IInv, Showing, Attempting, Asking, Typed, Open, InFlight, Persisted,
             Terminal
    <2>4. loaded' /\ ~shutting' /\ writable' => \A t \in Turns :
         rows'[t].status = "completed" => turns'[t].status = "completed"
      BY <1>1, <1>2, <1>3, <1>4, <1>5, <1>6, <1>7, <1>8, <1>9, <1>10, <1>11, <1>12,
         <1>13, <1>14, <1>15, <1>16, SMTT(10)
         DEF IInv, Showing, Attempting, Asking, Typed, Open, InFlight, Persisted,
             Terminal
    <2> QED  BY <2>1, <2>2, <2>3, <2>4 DEF Showing, Open
  <1>31. Saving'
    BY <1>3, <1>4, <1>7, <1>13, <1>14, <1>15, AttemptParts
       DEF IInv, Saving, Finalizing, CompletedIsSaved, Persisted
  <1>32. Faultless'
    BY <1>1, <1>3, <1>4, <1>5, <1>6, <1>15
       DEF IInv, Faultless, Attempting, InFlight, Persisted
  <1> QED  BY <1>17, <1>18, <1>19, <1>20, <1>21, <1>22, <1>23, <1>24, <1>25, <1>26, <1>27, <1>28, <1>29, <1>30, <1>31, <1>32 DEF IInv

\* The attempt that is being prepared is stopped and finalized as such.
LEMMA StopPreparingStep ==
  ASSUME IInv, NEW a \in Attempts,
         prep = a, prep' = None, active' = None,
         Show(a, "stopped"), Persist(a, "stopped", 0), state' \in States, lane' \in BOOLEAN,
         shutting' => dataUp' \in BOOLEAN /\ state' = "idle" /\ ~lane' /\ retrievals' = {},
         ~shutting' => dataUp' = dataUp /\ state' = "stopped" /\ retrievals' = retrievals,
         shutting' \in BOOLEAN, ask' = ask \/ ask' = None,
         UNCHANGED <<rows, opStep, mainQ, up, loaded, failedOp, faults, contexts, background>>
  PROVE  IInv'
  <1>1. /\ a[1] \in Turns /\ a[2] \in 1..MaxRequests /\ a # None
        /\ turns[a[1]].attempt = a[2] /\ turns[a[1]].reply = 0
    BY AttemptParts DEF IInv, Staging, Message, Numbered, Latest
  <1>2. final = None /\ writable /\ up /\ dataUp /\ loaded /\ contexts = {} /\ ~shutting /\ unsaved = None
    BY <1>1 DEF IInv, Attempting, Loading
  <1>3. Persisted(a, "stopped", 0)
    BY <1>1, <1>2, Persists, ConversationAssumption DEF Terminal
  <1>4. /\ turns' \in [Turns -> Messages] /\ "stopped" \in Terminal
        /\ turns'[a[1]] = Message("stopped", a[2], 0)
        /\ turns'[a[1]].status = "stopped" /\ turns'[a[1]].attempt = a[2]
        /\ \A t \in Turns : t # a[1] => turns'[t] = turns[t]
    BY <1>1 DEF Show, IInv, Typed, Messages, Message, Statuses, Terminal
  <1>5. rows[a[1]].status # "completed"
    BY <1>1 DEF IInv, Staging
  <1>6. /\ \A o \in Queued : o.op # "finalize" /\ o \notin Finalizes
        /\ \A e \in Posted : e \notin FinalEvents /\ e.ev # "finalized"
        /\ \A e \in Deferred : e \notin FinalCalls /\ e.ev # "final_ok"
    BY AllTyped, AttemptParts, <1>2
       DEF IInv, Finalizing, OpTyped, EventTyped, CallTyped, Finalizes, FinalEvents,
           FinalCalls, Startup
  <1>7. \A b \in Attempts \cup {None} : Known(b) => Known(b)'
        <2> SUFFICES ASSUME NEW b \in Attempts, b[2] <= turns[b[1]].attempt
                 PROVE  b[2] <= turns'[b[1]].attempt
      BY AttemptParts DEF Known
    <2>1. b[1] \in Turns /\ b[2] \in Nat
      BY AttemptParts
    <2>2. turns[b[1]].attempt \in Nat /\ turns'[b[1]].attempt \in Nat
      BY <2>1, <1>1, <1>4 DEF IInv, Typed, Messages
    <2>3. CASE b[1] = a[1]
      BY <2>1, <2>2, <2>3, <1>1, <1>4 DEF Message
    <2>4. CASE b[1] # a[1]
      BY <2>1, <2>2, <2>4, <1>1, <1>4
    <2> QED  BY <2>3, <2>4

  <1>8. /\ \A b \in Attempts, o \in Queued' : o \in PrepOps(b) => o \in Queued
        /\ \A o \in Queued' : o \in Begins => o \in Queued
        /\ \A o \in Queued' : o.op = "init" => o \in Queued
        /\ UNCHANGED Deferred
    BY <1>3, SameQueues DEF Persisted, PrepOps, Begins, Begin
  <1>9. \A b \in Attempts : InPreparation(b)' => InPreparation(b)
    BY <1>8, SameQueues DEF InPreparation, PrepOps, PrepEvents, PrepCalls
  <1>10. /\ \A t \in Turns : InFlight(t) => t = a[1]
         /\ \A t \in Turns : ~InFlight(t)'
    BY <1>2 DEF IInv, Attempting, InFlight
  <1>11. \A t, n : final # <<t, n>>
    BY <1>2 DEF None
  <1>12. retrievals' \subseteq retrievals /\ dataUp' \in BOOLEAN
    BY DEF IInv, Typed
  <1>13. /\ UNCHANGED dataQ => UNCHANGED Queued
         /\ UNCHANGED mainQ => UNCHANGED Posted
         /\ UNCHANGED soon => UNCHANGED Deferred
    BY SameQueues
  <1>14. /\ \A o \in Queued : OpTyped(o)
         /\ \A e \in Posted : EventTyped(e)
         /\ \A e \in Deferred : CallTyped(e)
    BY AllTyped
  <1>15. Typed'
    BY <1>1, <1>2, <1>3, <1>4, <1>5, <1>6, <1>7, <1>8, <1>9, <1>10, <1>11, <1>12,
       <1>13, <1>14
       DEF IInv, Typed, Persisted
  <1>16. Loading'
    <2>1. ~up' => ~loaded' /\ ~shutting' /\ dataQ' = <<>> /\ mainQ' = <<>>
      BY <1>1, <1>2, <1>3, <1>4, <1>5, <1>6, <1>7, <1>8, <1>9, <1>10, <1>11, <1>12,
         <1>13, <1>14, SMTT(10)
         DEF Typed, Persisted
    <2>2. up' /\ ~shutting' => dataUp'
      BY <1>1, <1>2, <1>3, <1>4, <1>5, <1>6, <1>7, <1>8, <1>9, <1>10, <1>11, <1>12,
         <1>13, <1>14, SMTT(10)
         DEF Typed, Persisted
    <2>3. writable' => loaded'
      BY <1>1, <1>2, <1>3, <1>4, <1>5, <1>6, <1>7, <1>8, <1>9, <1>10, <1>11, <1>12,
         <1>13, <1>14, SMTT(10)
         DEF Typed, Persisted
    <2>4. loaded' => (\A o \in Queued' : o.op # "init") /\ \A e \in Posted' :
         e.ev \notin Startup
      BY <1>1, <1>2, <1>3, <1>4, <1>5, <1>6, <1>7, <1>8, <1>9, <1>10, <1>11, <1>12,
         <1>13, <1>14, SMTT(10)
         DEF IInv, Loading, Typed, Persisted
    <2>5. ~loaded' => FALSE
      BY <1>1, <1>2, <1>3, <1>4, <1>5, <1>6, <1>7, <1>8, <1>9, <1>10, <1>11, <1>12,
         <1>13, <1>14, SMTT(10)
         DEF Typed, Persisted
    <2> QED  BY <2>1, <2>2, <2>3, <2>4, <2>5 DEF Loading
  <1>17. Numbered'
    <2>1. (\A b \in Attempts \cup {None} : Known(b) => Known(b)') /\ turns' \in [Turns -> Messages]
      BY <1>1, <1>2, <1>3, <1>4, <1>5, <1>6, <1>7, <1>8, <1>9, <1>10, <1>11, <1>12,
         <1>13, <1>14
    <2>2. \A o \in Queued' : Known(o.a)'
      BY <1>1, <1>2, <1>3, <1>4, <1>5, <1>6, <1>7, <1>8, <1>9, <1>10, <1>11, <1>12,
         <1>13, <1>14
         DEF IInv, Numbered, OpTyped, OpAdded, Persisted, Known
    <2>3. /\ \A e \in Posted' : Known(e.a)'
          /\ \A e \in Deferred' : Known(e.a)'
      BY <1>1, <1>2, <1>3, <1>4, <1>5, <1>6, <1>7, <1>8, <1>9, <1>10, <1>11, <1>12,
         <1>13, <1>14
         DEF IInv, Numbered, EventTyped, CallTyped, Persisted, Known
    <2>4. /\ \A b \in retrievals' : Known(b)'
          /\ \A c \in contexts' : Known(c.a)'
      BY <1>1, <1>2, <1>3, <1>4, <1>5, <1>6, <1>7, <1>8, <1>9, <1>10, <1>11, <1>12,
         <1>13, <1>14
         DEF IInv, Typed, Numbered, ContextRecs, Known
    <2>5. Latest(prep)' /\ Latest(active)' /\ Latest(final)'
      BY <1>1, <1>2, <1>3, <1>4, <1>5, <1>6, <1>7, <1>8, <1>9, <1>10, <1>11, <1>12,
         <1>13, <1>14
         DEF IInv, Numbered, Latest, Persisted
    <2>6. \A t \in Turns : /\ turns'[t].status = "absent" => turns'[t].attempt = 0
                           /\ rows'[t].status = "absent" => rows'[t].attempt = 0
      BY <1>1, <1>2, <1>3, <1>4, <1>5, <1>6, <1>7, <1>8, <1>9, <1>10, <1>11, <1>12,
         <1>13, <1>14
         DEF IInv, Numbered, Terminal
    <2> QED  BY <2>2, <2>3, <2>4, <2>5, <2>6 DEF Numbered
  <1>18. Lined'
    BY <1>1, <1>2, <1>3, <1>4, <1>5, <1>6, <1>7, <1>8, <1>9, <1>10, <1>11, <1>12,
       <1>13, <1>14, SMTT(10)
       DEF IInv, Lined, Fits, Persisted
  <1>19. Preparing'
    BY <1>1, <1>2, <1>3, <1>4, <1>5, <1>6, <1>7, <1>8, <1>9, <1>10, <1>11, <1>12,
       <1>13, <1>14, SMTT(10)
       DEF IInv, Preparing, PrepOps, PrepEvents, PrepCalls, Persisted
  <1>20. Attempting'
    <2>1. prep' # None => active' = prep' /\ contexts' = {} /\ final' = None
         /\ ~shutting' /\ writable'
      BY <1>1, <1>2, <1>3, <1>4, <1>5, <1>6, <1>7, <1>8, <1>9, <1>10, <1>11, <1>12,
         <1>13, <1>14, SMTT(10)
         DEF Loading, Finalizing, IdleIsQuiet, LaneIsReleased, Busy, EventTyped,
             Startup, Persisted
    <2>2. \A c \in contexts' : ~shutting' => c.a = active'
      BY <1>1, <1>2, <1>3, <1>4, <1>5, <1>6, <1>7, <1>8, <1>9, <1>10, <1>11, <1>12,
         <1>13, <1>14, SMTT(10)
         DEF Loading, Finalizing, IdleIsQuiet, LaneIsReleased, Busy, EventTyped,
             Startup, Persisted
    <2>3. \A c, d \in contexts' : c = d
      BY <1>1, <1>2, <1>3, <1>4, <1>5, <1>6, <1>7, <1>8, <1>9, <1>10, <1>11, <1>12,
         <1>13, <1>14, SMTT(10)
         DEF Loading, Finalizing, IdleIsQuiet, LaneIsReleased, Busy, EventTyped,
             Startup, Persisted
    <2>4. \A c \in contexts' : ~c.terminal => final' = None /\ ~shutting' /\
         writable'
      BY <1>1, <1>2, <1>3, <1>4, <1>5, <1>6, <1>7, <1>8, <1>9, <1>10, <1>11, <1>12,
         <1>13, <1>14, SMTT(10)
         DEF Loading, Finalizing, IdleIsQuiet, LaneIsReleased, Busy, EventTyped,
             Startup, Persisted
    <2>5. unsaved' # None => \E c \in contexts' : c.a = unsaved' /\
         ~c.terminal
      BY <1>1, <1>2, <1>3, <1>4, <1>5, <1>6, <1>7, <1>8, <1>9, <1>10, <1>11, <1>12,
         <1>13, <1>14, SMTT(10)
         DEF Loading, Finalizing, IdleIsQuiet, LaneIsReleased, Busy, EventTyped,
             Startup, Persisted
    <2>6. shutting' => prep' = None /\ active' = None /\ retrievals' = {}
      BY <1>1, <1>2, <1>3, <1>4, <1>5, <1>6, <1>7, <1>8, <1>9, <1>10, <1>11, <1>12,
         <1>13, <1>14, SMTT(10)
         DEF Loading, Finalizing, IdleIsQuiet, LaneIsReleased, Busy, EventTyped,
             Startup, Persisted
    <2>7. IdleIsQuiet'
      BY <1>1, <1>2, <1>3, <1>4, <1>5, <1>6, <1>7, <1>8, <1>9, <1>10, <1>11, <1>12,
         <1>13, <1>14, SMTT(10)
         DEF Loading, Finalizing, IdleIsQuiet, LaneIsReleased, Busy, EventTyped,
             Startup, Persisted
    <2>8. LaneIsReleased'
      BY <1>1, <1>2, <1>3, <1>4, <1>5, <1>6, <1>7, <1>8, <1>9, <1>10, <1>11, <1>12,
         <1>13, <1>14, SMTT(10)
         DEF Loading, Finalizing, IdleIsQuiet, LaneIsReleased, Busy, EventTyped,
             Startup, Persisted
    <2>9. \A e \in Posted' : e.ev = "finished" => e.a # prep'
      BY <1>1, <1>2, <1>3, <1>4, <1>5, <1>6, <1>7, <1>8, <1>9, <1>10, <1>11, <1>12,
         <1>13, <1>14, AttemptParts, SMTT(20)
         DEF IInv, Attempting, Loading, Finalizing, IdleIsQuiet, LaneIsReleased, Busy,
             EventTyped, Startup, Persisted, Message, Statuses, Terminal, OpTyped,
             CallTyped, Typed, Messages
    <2> QED  BY <2>1, <2>2, <2>3, <2>4, <2>5, <2>6, <2>7, <2>8, <2>9 DEF Attempting
  <1>21. Finalizing'
    BY <1>1, <1>2, <1>3, <1>4, <1>5, <1>6, <1>7, <1>8, <1>9, <1>10, <1>11, <1>12,
       <1>13, <1>14, SMTT(10)
       DEF IInv, Finalizing, Attempting, Preparing, Begins, Finalizes, FinalEvents,
           FinalCalls, Begin, Persisted
  <1>22. NotAsked'
    BY <1>1, <1>2, <1>3, <1>4, <1>5, <1>6, <1>7, <1>8, <1>9, <1>10, <1>11, <1>12,
       <1>13, <1>14, SMTT(10)
       DEF IInv, NotAsked, Preparing, Attempting, Finalizing, InPreparation, PrepOps,
           PrepEvents, PrepCalls, Finalizes, Persisted
  <1>23. Stepping'
    BY <1>1, <1>2, <1>3, <1>4, <1>5, <1>6, <1>7, <1>8, <1>9, <1>10, <1>11, <1>12,
       <1>13, <1>14, SMTT(10)
       DEF IInv, Stepping, Typed, Row, A, Persisted
  <1>24. Beginning'
    BY <1>1, <1>2, <1>3, <1>4, <1>5, <1>6, <1>7, <1>8, <1>9, <1>10, <1>11, <1>12,
       <1>13, <1>14, SMTT(10)
       DEF IInv, Beginning, Stepping, Typed, Written, Begin, Persisted
  <1>25. Finishing'
    BY <1>1, <1>2, <1>3, <1>4, <1>5, <1>6, <1>7, <1>8, <1>9, <1>10, <1>11, <1>12,
       <1>13, <1>14, SMTT(10)
       DEF IInv, Finishing, Stepping, Attempting, Finalizing, Written, Terminal,
           Persisted
  <1>26. Staging'
    BY <1>3, <1>14, AttemptParts DEF Staging, OpTyped, Persisted
  <1>27. Asking'
    BY <1>1, <1>2, <1>3, <1>4, <1>5, <1>6, <1>7, <1>8, <1>9, <1>10, <1>11, <1>12,
       <1>13, <1>14, SMTT(10)
       DEF IInv, Asking, Attempting, Open, Persisted
  <1>28. Showing'
    BY <1>1, <1>4, <1>5, <1>13 DEF IInv, Showing, Attempting, Open, InFlight
  <1>29. Saving'
    BY <1>1, <1>2, <1>3, <1>4, <1>5, <1>6, <1>7, <1>8, <1>9, <1>10, <1>11, <1>12,
       <1>13, <1>14, AttemptParts, SMTT(10)
       DEF IInv, Saving, Finishing, Stepping, Finalizing, Attempting,
           CompletedIsSaved, Persisted
  <1>30. Faultless'
    BY <1>1, <1>2, <1>3, <1>4, <1>5, <1>6, <1>7, <1>8, <1>9, <1>10, <1>11, <1>12,
       <1>13, <1>14, SMTT(10)
       DEF IInv, Faultless, Loading, Attempting, Finalizing, Stepping, Beginning,
           InFlight, Begin, Persisted
  <1> QED  BY <1>15, <1>16, <1>17, <1>18, <1>19, <1>20, <1>21, <1>22, <1>23, <1>24, <1>25, <1>26, <1>27, <1>28, <1>29, <1>30 DEF IInv

\* The service shuts down with no attempt to stop.
LEMMA ShutdownIdleStep ==
  ASSUME IInv,
         ~shutting, up, shutting' = TRUE, dataUp' = FALSE, ask' = None, retrievals' = {},
         prep = None, \A c \in contexts : c.terminal, prep' = None, active' = None,
         contexts' \subseteq ContextRecs, \A c \in contexts' : c.terminal /\ \E d \in contexts : c.a = d.a,
         \A c, d \in contexts' : c = d,
         state' = "idle", lane' = FALSE,
         UNCHANGED <<rows, dataQ, opStep, mainQ, soon, up, loaded, failedOp, faults>>,
         UNCHANGED <<writable, turns, final, unsaved, background>>
  PROVE  IInv'
  <1>1. \A b \in Attempts : InPreparation(b)' => InPreparation(b)
    BY SameQueues DEF InPreparation, PrepOps, PrepEvents, PrepCalls
  <1>2. /\ UNCHANGED dataQ => UNCHANGED Queued
        /\ UNCHANGED mainQ => UNCHANGED Posted
        /\ UNCHANGED soon => UNCHANGED Deferred
    BY SameQueues
  <1>3. /\ \A o \in Queued : OpTyped(o)
        /\ \A e \in Posted : EventTyped(e)
        /\ \A e \in Deferred : CallTyped(e)
    BY AllTyped
  <1>4. Typed'
    BY <1>1, <1>2, <1>3 DEF IInv, Typed, States
  <1>5. Loading'
    BY <1>1, <1>2, <1>3, SMTT(10) DEF IInv, Loading, Typed
  <1>6. Numbered'
    BY <1>1, <1>2, <1>3, SMTT(10) DEF IInv, Numbered, Typed, Loading, Known, Latest
  <1>7. Lined'
    BY <1>1, <1>2, <1>3, SMTT(10) DEF IInv, Lined, Fits
  <1>8. Preparing'
    BY <1>1, <1>2, <1>3, SMTT(10) DEF IInv, Preparing, PrepOps, PrepEvents, PrepCalls
  <1>9. Attempting'
    BY <1>1, <1>2, <1>3, AttemptParts, SMTT(10)
       DEF IInv, Attempting, Loading, Finalizing, IdleIsQuiet, LaneIsReleased, Busy,
           EventTyped, Startup
  <1>10. Finalizing'
    BY <1>1, <1>2, <1>3, SMTT(10)
       DEF IInv, Finalizing, Attempting, Preparing, Begins, Finalizes, FinalEvents,
           FinalCalls, Begin
  <1>11. NotAsked'
    BY <1>1, <1>2, <1>3, SMTT(10)
       DEF IInv, NotAsked, Preparing, Attempting, Finalizing, InPreparation, PrepOps,
           PrepEvents, PrepCalls, Finalizes
  <1>12. Stepping'
    BY <1>1, <1>2, <1>3, SMTT(10) DEF IInv, Stepping, Typed, Row, A
  <1>13. Beginning'
    BY <1>1, <1>2, <1>3, SMTT(10) DEF IInv, Beginning, Stepping, Typed, Written, Begin
  <1>14. Finishing'
    BY <1>1, <1>2, <1>3, SMTT(10)
       DEF IInv, Finishing, Stepping, Attempting, Finalizing, Written, Terminal
  <1>15. Staging'
    BY <1>1, <1>2, <1>3, SMTT(10) DEF IInv, Staging, Attempting, Preparing, Staged
  <1>16. Asking'
    BY <1>1, <1>2, <1>3, SMTT(10) DEF IInv, Asking, Attempting, Open
  <1>17. Showing'
    BY <1>1, <1>2, <1>3, SMTT(10)
       DEF IInv, Showing, Attempting, Asking, Typed, Open, InFlight
  <1>18. Saving'
    BY <1>1, <1>2, <1>3, AttemptParts, SMTT(10)
       DEF IInv, Saving, Finishing, Stepping, Finalizing, Attempting, CompletedIsSaved
  <1>19. Faultless'
    BY <1>1, <1>2, <1>3, SMTT(10)
       DEF IInv, Faultless, Loading, Attempting, Finalizing, Stepping, Beginning,
           InFlight, Begin
  <1> QED  BY <1>4, <1>5, <1>6, <1>7, <1>8, <1>9, <1>10, <1>11, <1>12, <1>13, <1>14, <1>15, <1>16, <1>17, <1>18, <1>19 DEF IInv

\* The snapshot replaces what is shown.
LEMMA LoadedStep ==
  ASSUME IInv,
         mainQ # <<>>, mainQ' = Tail(mainQ), Head(mainQ).ev = "loaded",
         loaded' = TRUE, writable' = TRUE,
         turns' = IF shutting THEN turns ELSE rows,
         UNCHANGED <<rows, dataQ, opStep, dataUp, soon, up, shutting, failedOp, faults>>,
         UNCHANGED <<state, prep, active, contexts, final, unsaved, retrievals, lane, ask>>,
         UNCHANGED <<background>>
  PROVE  IInv'
  <1>1. EventTaken
    BY TakesEvent
  <1>2. ~loaded /\ Head(mainQ) \in Posted
    BY <1>1 DEF EventTaken, IInv, Loading, Startup
  <1>3. /\ dataQ = <<>> /\ soon = <<>> /\ up
        /\ prep = None /\ active = None /\ final = None /\ contexts = {} /\ retrievals = {} /\ unsaved = None
    BY <1>2 DEF IInv, Loading
  <1>4. mainQ' = <<>>
        <2>1. PICK ev : mainQ = <<Event(ev, None)>>
      BY <1>2 DEF IInv, Loading
    <2> QED  BY <2>1

  <1>5. Queued = {} /\ Posted' = {} /\ Deferred = {}
    BY <1>3, <1>4, EmptyQueue DEF Queued, Posted, Deferred
  <1>6. \A t \in Turns : rows[t].status \notin Open
    BY <1>2 DEF IInv, Showing
  <1>7. rows \in [Turns -> Messages] /\ \A t \in Turns : rows[t].attempt \in Nat
    BY DEF IInv, Typed, Messages
  <1>8. /\ UNCHANGED dataQ => UNCHANGED Queued
        /\ UNCHANGED mainQ => UNCHANGED Posted
        /\ UNCHANGED soon => UNCHANGED Deferred
    BY SameQueues
  <1>9. /\ \A o \in Queued : OpTyped(o)
        /\ \A e \in Posted : EventTyped(e)
        /\ \A e \in Deferred : CallTyped(e)
    BY AllTyped
  <1>10. Typed'
    BY <1>1, <1>2, <1>3, <1>4, <1>5, <1>6, <1>7, <1>8, <1>9
       DEF IInv, Typed, EventTaken
  <1>11. Loading'
    BY <1>1, <1>2, <1>3, <1>4, <1>5, <1>6, <1>7, <1>8, <1>9, SMTT(10)
       DEF IInv, Loading, Typed, EventTaken
  <1>12. Numbered'
    BY <1>1, <1>2, <1>3, <1>4, <1>5, <1>6, <1>7, <1>8, <1>9, SMTT(10)
       DEF IInv, Numbered, Typed, Loading, Known, Latest, EventTaken
  <1>13. Lined'
    BY <1>1, <1>2, <1>3, <1>4, <1>5, <1>6, <1>7, <1>8, <1>9, SMTT(10)
       DEF IInv, Lined, Fits, EventTaken
  <1>14. Preparing'
    BY <1>1, <1>2, <1>3, <1>4, <1>5, <1>6, <1>7, <1>8, <1>9, SMTT(10)
       DEF IInv, Preparing, PrepOps, PrepEvents, PrepCalls, EventTaken
  <1>15. Attempting'
    BY <1>1, <1>2, <1>3, <1>4, <1>5, <1>6, <1>7, <1>8, <1>9, AttemptParts, SMTT(10)
       DEF IInv, Attempting, Loading, Finalizing, IdleIsQuiet, LaneIsReleased, Busy,
           EventTyped, Startup, EventTaken
  <1>16. Finalizing'
    BY <1>1, <1>2, <1>3, <1>4, <1>5, <1>6, <1>7, <1>8, <1>9, SMTT(10)
       DEF IInv, Finalizing, Attempting, Preparing, Begins, Finalizes, FinalEvents,
           FinalCalls, Begin, EventTaken
  <1>17. NotAsked'
    BY <1>1, <1>2, <1>3, <1>4, <1>5, <1>6, <1>7, <1>8, <1>9, SMTT(10)
       DEF IInv, NotAsked, Preparing, Attempting, Finalizing, InPreparation, PrepOps,
           PrepEvents, PrepCalls, Finalizes, EventTaken
  <1>18. Stepping'
    BY <1>1, <1>2, <1>3, <1>4, <1>5, <1>6, <1>7, <1>8, <1>9, SMTT(10)
       DEF IInv, Stepping, Typed, Row, A, EventTaken
  <1>19. Beginning'
    BY <1>1, <1>2, <1>3, <1>4, <1>5, <1>6, <1>7, <1>8, <1>9, SMTT(10)
       DEF IInv, Beginning, Stepping, Typed, Written, Begin, EventTaken
  <1>20. Finishing'
    BY <1>1, <1>2, <1>3, <1>4, <1>5, <1>6, <1>7, <1>8, <1>9, SMTT(10)
       DEF IInv, Finishing, Stepping, Attempting, Finalizing, Written, Terminal,
           EventTaken
  <1>21. Staging'
    BY <1>1, <1>2, <1>3, <1>4, <1>5, <1>6, <1>7, <1>8, <1>9, SMTT(10)
       DEF IInv, Staging, Attempting, Preparing, Staged, EventTaken
  <1>22. Asking'
    BY <1>1, <1>2, <1>3, <1>4, <1>5, <1>6, <1>7, <1>8, <1>9, SMTT(10)
       DEF IInv, Asking, Attempting, Open, EventTaken
  <1>23. Showing'
    BY <1>1, <1>2, <1>3, <1>4, <1>5, <1>6, <1>7, <1>8, <1>9, SMTT(10)
       DEF IInv, Showing, Attempting, Asking, Typed, Open, InFlight, EventTaken
  <1>24. Saving'
    BY <1>1, <1>2, <1>3, <1>4, <1>5, <1>6, <1>7, <1>8, <1>9, AttemptParts, SMTT(10)
       DEF IInv, Saving, Finishing, Stepping, Finalizing, Attempting,
           CompletedIsSaved, EventTaken
  <1>25. Faultless'
    BY <1>1, <1>2, <1>3, <1>4, <1>5, <1>6, <1>7, <1>8, <1>9, SMTT(10)
       DEF IInv, Faultless, Loading, Attempting, Finalizing, Stepping, Beginning,
           InFlight, Begin, EventTaken
  <1> QED  BY <1>10, <1>11, <1>12, <1>13, <1>14, <1>15, <1>16, <1>17, <1>18, <1>19, <1>20, <1>21, <1>22, <1>23, <1>24, <1>25 DEF IInv

\* A signal that means nothing any more is dropped.
LEMMA DropEventStep ==
  ASSUME IInv,
         mainQ # <<>>, mainQ' = Tail(mainQ),
         UNCHANGED <<rows, dataQ, opStep, dataUp, soon, up, loaded, shutting, failedOp>>,
         UNCHANGED <<faults, writable, turns, state, prep, active, contexts, final, unsaved>>,
         UNCHANGED <<retrievals, lane, ask, background>>
  PROVE  IInv'
  <1>1. EventTaken
    BY TakesEvent
  <1>2. \A ev : mainQ = <<Event(ev, None)>> => mainQ' = <<>>
    OBVIOUS
  <1>3. \A b \in Attempts : InPreparation(b)' => InPreparation(b)
    BY <1>1, SameQueues DEF EventTaken, InPreparation, PrepOps, PrepEvents, PrepCalls
  <1>4. /\ UNCHANGED dataQ => UNCHANGED Queued
        /\ UNCHANGED mainQ => UNCHANGED Posted
        /\ UNCHANGED soon => UNCHANGED Deferred
    BY SameQueues
  <1>5. /\ \A o \in Queued : OpTyped(o)
        /\ \A e \in Posted : EventTyped(e)
        /\ \A e \in Deferred : CallTyped(e)
    BY AllTyped
  <1>6. Typed'
    BY <1>1, <1>2, <1>3, <1>4, <1>5 DEF IInv, Typed, EventTaken
  <1>7. Loading'
    BY <1>1, <1>2, <1>3, <1>4, <1>5, SMTT(10) DEF IInv, Loading, Typed, EventTaken
  <1>8. Numbered'
    BY <1>1, <1>2, <1>3, <1>4, <1>5, SMTT(10)
       DEF IInv, Numbered, Typed, Loading, Known, Latest, EventTaken
  <1>9. Lined'
    BY <1>1, <1>2, <1>3, <1>4, <1>5, SMTT(10) DEF IInv, Lined, Fits, EventTaken
  <1>10. Preparing'
    BY <1>1, <1>2, <1>3, <1>4, <1>5, SMTT(10)
       DEF IInv, Preparing, PrepOps, PrepEvents, PrepCalls, EventTaken
  <1>11. Attempting'
    BY <1>1, <1>2, <1>3, <1>4, <1>5, AttemptParts, SMTT(10)
       DEF IInv, Attempting, Loading, Finalizing, IdleIsQuiet, LaneIsReleased, Busy,
           EventTyped, Startup, EventTaken
  <1>12. Finalizing'
    BY <1>1, <1>2, <1>3, <1>4, <1>5, SMTT(10)
       DEF IInv, Finalizing, Attempting, Preparing, Begins, Finalizes, FinalEvents,
           FinalCalls, Begin, EventTaken
  <1>13. NotAsked'
    BY <1>1, <1>2, <1>3, <1>4, <1>5, SMTT(10)
       DEF IInv, NotAsked, Preparing, Attempting, Finalizing, InPreparation, PrepOps,
           PrepEvents, PrepCalls, Finalizes, EventTaken
  <1>14. Stepping'
    BY <1>1, <1>2, <1>3, <1>4, <1>5, SMTT(10)
       DEF IInv, Stepping, Typed, Row, A, EventTaken
  <1>15. Beginning'
    BY <1>1, <1>2, <1>3, <1>4, <1>5, SMTT(10)
       DEF IInv, Beginning, Stepping, Typed, Written, Begin, EventTaken
  <1>16. Finishing'
    BY <1>1, <1>2, <1>3, <1>4, <1>5, SMTT(10)
       DEF IInv, Finishing, Stepping, Attempting, Finalizing, Written, Terminal,
           EventTaken
  <1>17. Staging'
    BY <1>1, <1>2, <1>3, <1>4, <1>5, SMTT(10)
       DEF IInv, Staging, Attempting, Preparing, Staged, EventTaken
  <1>18. Asking'
    BY <1>1, <1>2, <1>3, <1>4, <1>5, SMTT(10)
       DEF IInv, Asking, Attempting, Open, EventTaken
  <1>19. Showing'
    BY <1>1, <1>2, <1>3, <1>4, <1>5, SMTT(10)
       DEF IInv, Showing, Attempting, Asking, Typed, Open, InFlight, EventTaken
  <1>20. Saving'
    BY <1>1, <1>2, <1>3, <1>4, <1>5, AttemptParts, SMTT(10)
       DEF IInv, Saving, Finishing, Stepping, Finalizing, Attempting,
           CompletedIsSaved, EventTaken
  <1>21. Faultless'
    BY <1>1, <1>2, <1>3, <1>4, <1>5, SMTT(10)
       DEF IInv, Faultless, Loading, Attempting, Finalizing, Stepping, Beginning,
           InFlight, Begin, EventTaken
  <1> QED  BY <1>6, <1>7, <1>8, <1>9, <1>10, <1>11, <1>12, <1>13, <1>14, <1>15, <1>16, <1>17, <1>18, <1>19, <1>20, <1>21 DEF IInv

\* The retrieval of an attempt starts.
LEMMA SeedStep ==
  ASSUME IInv, NEW h,
         mainQ # <<>>, mainQ' = Tail(mainQ),
         h = Head(mainQ), h.ev = "seed", ~shutting, retrievals' = retrievals \cup {h.a},
         UNCHANGED <<rows, dataQ, opStep, dataUp, soon, up, loaded, shutting, failedOp>>,
         UNCHANGED <<faults, writable, turns, state, prep, active, contexts, final, unsaved>>,
         UNCHANGED <<lane, ask, background>>
  PROVE  IInv'
  <1>1. EventTaken
    BY TakesEvent
  <1>2. /\ h.a \in Attempts /\ h \in Posted /\ h \in PrepEvents(h.a) /\ Known(h.a)
        /\ \A b \in Attempts : h \in PrepEvents(b) => b = h.a
    BY <1>1 DEF EventTaken, EventTyped, PrepEvents, Startup, IInv, Numbered
  <1>3. loaded
    BY <1>2, EmptyQueue DEF IInv, Loading, Posted, Elements, Event, Startup
  <1>4. \A b \in Attempts : InPreparation(b)' => InPreparation(b)
    BY <1>1, <1>2, SameQueues
       DEF EventTaken, InPreparation, PrepOps, PrepEvents, PrepCalls
  <1>5. /\ UNCHANGED dataQ => UNCHANGED Queued
        /\ UNCHANGED mainQ => UNCHANGED Posted
        /\ UNCHANGED soon => UNCHANGED Deferred
    BY SameQueues
  <1>6. /\ \A o \in Queued : OpTyped(o)
        /\ \A e \in Posted : EventTyped(e)
        /\ \A e \in Deferred : CallTyped(e)
    BY AllTyped
  <1>7. Typed'
    BY <1>1, <1>2, <1>3, <1>4, <1>5, <1>6 DEF IInv, Typed, EventTaken
  <1>8. Loading'
    BY <1>1, <1>2, <1>3, <1>4, <1>5, <1>6, SMTT(10)
       DEF IInv, Loading, Typed, EventTaken
  <1>9. Numbered'
    BY <1>1, <1>2, <1>3, <1>4, <1>5, <1>6, SMTT(10)
       DEF IInv, Numbered, Typed, Loading, Known, Latest, EventTaken
  <1>10. Lined'
    BY <1>1, <1>2, <1>3, <1>4, <1>5, <1>6, SMTT(10) DEF IInv, Lined, Fits, EventTaken
  <1>11. Preparing'
    BY <1>1, <1>2, <1>3, <1>4, <1>5, <1>6, SMTT(10)
       DEF IInv, Preparing, PrepOps, PrepEvents, PrepCalls, EventTaken
  <1>12. Attempting'
    BY <1>1, <1>2, <1>3, <1>4, <1>5, <1>6, AttemptParts, SMTT(10)
       DEF IInv, Attempting, Loading, Finalizing, IdleIsQuiet, LaneIsReleased, Busy,
           EventTyped, Startup, EventTaken
  <1>13. Finalizing'
    BY <1>1, <1>2, <1>3, <1>4, <1>5, <1>6, SMTT(10)
       DEF IInv, Finalizing, Attempting, Preparing, Begins, Finalizes, FinalEvents,
           FinalCalls, Begin, EventTaken
  <1>14. NotAsked'
    BY <1>1, <1>2, <1>3, <1>4, <1>5, <1>6, SMTT(10)
       DEF IInv, NotAsked, Preparing, Attempting, Finalizing, InPreparation, PrepOps,
           PrepEvents, PrepCalls, Finalizes, EventTaken
  <1>15. Stepping'
    BY <1>1, <1>2, <1>3, <1>4, <1>5, <1>6, SMTT(10)
       DEF IInv, Stepping, Typed, Row, A, EventTaken
  <1>16. Beginning'
    BY <1>1, <1>2, <1>3, <1>4, <1>5, <1>6, SMTT(10)
       DEF IInv, Beginning, Stepping, Typed, Written, Begin, EventTaken
  <1>17. Finishing'
    BY <1>1, <1>2, <1>3, <1>4, <1>5, <1>6, SMTT(10)
       DEF IInv, Finishing, Stepping, Attempting, Finalizing, Written, Terminal,
           EventTaken
  <1>18. Staging'
    BY <1>1, <1>2, <1>3, <1>4, <1>5, <1>6, SMTT(10)
       DEF IInv, Staging, Attempting, Preparing, Staged, EventTaken
  <1>19. Asking'
    BY <1>1, <1>2, <1>3, <1>4, <1>5, <1>6, SMTT(10)
       DEF IInv, Asking, Attempting, Open, EventTaken
  <1>20. Showing'
    BY <1>1, <1>2, <1>3, <1>4, <1>5, <1>6, SMTT(10)
       DEF IInv, Showing, Attempting, Asking, Typed, Open, InFlight, EventTaken
  <1>21. Saving'
    BY <1>1, <1>2, <1>3, <1>4, <1>5, <1>6, AttemptParts, SMTT(10)
       DEF IInv, Saving, Finishing, Stepping, Finalizing, Attempting,
           CompletedIsSaved, EventTaken
  <1>22. Faultless'
    BY <1>1, <1>2, <1>3, <1>4, <1>5, <1>6, SMTT(10)
       DEF IInv, Faultless, Loading, Attempting, Finalizing, Stepping, Beginning,
           InFlight, Begin, EventTaken
  <1> QED  BY <1>7, <1>8, <1>9, <1>10, <1>11, <1>12, <1>13, <1>14, <1>15, <1>16, <1>17, <1>18, <1>19, <1>20, <1>21, <1>22 DEF IInv

\* The end of a preparation is handed to the coordinator.
LEMMA RelayPrepStep ==
  ASSUME IInv, NEW h, NEW ev, NEW e,
         mainQ # <<>>, mainQ' = Tail(mainQ),
         h = Head(mainQ), (h.ev = "assembled" /\ ev = "prepared") \/ (h.ev = "not_prepared" /\ ev = "prepare_failed"),
         e = Event(ev, h.a), soon' = Append(soon, e),
         UNCHANGED <<rows, dataQ, opStep, dataUp, up, loaded, shutting, failedOp, faults>>,
         UNCHANGED <<writable, turns, state, prep, active, contexts, final, unsaved, retrievals>>,
         UNCHANGED <<lane, ask, background>>
  PROVE  IInv'
  <1>1. EventTaken
    BY TakesEvent
  <1>2. h.a \in Attempts /\ h \in Posted /\ Known(h.a) /\ h.a # None
    BY <1>1, AttemptParts DEF EventTaken, EventTyped, Startup, IInv, Numbered
  <1>3. e \in CallRecs /\ CallTyped(e) /\ e.ev = ev /\ e.a = h.a
    BY <1>2, NewCall
  <1>4. CallAdded(e)
    BY <1>3, AddsCall
  <1>5. loaded
    BY <1>2, EmptyQueue DEF IInv, Loading, Posted, Elements, Event, Startup
  <1>6. /\ h \in PrepEvents(h.a) /\ e \in PrepCalls(h.a) /\ e \notin FinalCalls
        /\ \A b \in Attempts : h \in PrepEvents(b) \/ e \in PrepCalls(b) => b = h.a
    BY <1>1, <1>3 DEF EventTaken, EventTyped, PrepEvents, PrepCalls, FinalCalls
  <1>7. \A b \in Attempts : InPreparation(b)' => InPreparation(b)
    BY <1>1, <1>2, <1>4, <1>6, SameQueues
       DEF EventTaken, CallAdded, InPreparation, PrepOps, PrepEvents, PrepCalls
  <1>8. LinedCalls(soon')
    BY <1>1, <1>2, <1>4, <1>6 DEF CallAdded, EventTaken, IInv, Preparing
  <1>9. /\ UNCHANGED dataQ => UNCHANGED Queued
        /\ UNCHANGED mainQ => UNCHANGED Posted
        /\ UNCHANGED soon => UNCHANGED Deferred
    BY SameQueues
  <1>10. /\ \A o \in Queued : OpTyped(o)
         /\ \A y \in Posted : EventTyped(y)
         /\ \A y \in Deferred : CallTyped(y)
    BY AllTyped
  <1>11. Typed'
    BY <1>1, <1>2, <1>3, <1>4, <1>5, <1>6, <1>7, <1>8, <1>9, <1>10
       DEF IInv, Typed, EventTaken, CallAdded
  <1>12. Loading'
    BY <1>1, <1>2, <1>3, <1>4, <1>5, <1>6, <1>7, <1>8, <1>9, <1>10, SMTT(10)
       DEF IInv, Loading, Typed, EventTaken, CallAdded
  <1>13. Numbered'
    BY <1>1, <1>2, <1>3, <1>4, <1>5, <1>6, <1>7, <1>8, <1>9, <1>10, SMTT(10)
       DEF IInv, Numbered, Typed, Loading, Known, Latest, EventTaken, CallAdded
  <1>14. Lined'
    BY <1>1, <1>2, <1>3, <1>4, <1>5, <1>6, <1>7, <1>8, <1>9, <1>10, SMTT(10)
       DEF IInv, Lined, Fits, EventTaken, CallAdded
  <1>15. Preparing'
    BY <1>1, <1>2, <1>3, <1>4, <1>5, <1>6, <1>7, <1>8, <1>9, <1>10, SMTT(10)
       DEF IInv, Preparing, PrepOps, PrepEvents, PrepCalls, EventTaken, CallAdded
  <1>16. Attempting'
    BY <1>1, <1>2, <1>3, <1>4, <1>5, <1>6, <1>7, <1>8, <1>9, <1>10, AttemptParts,
       SMTT(10)
       DEF IInv, Attempting, Loading, Finalizing, IdleIsQuiet, LaneIsReleased, Busy,
           EventTyped, Startup, EventTaken, CallAdded
  <1>17. Finalizing'
    BY <1>1, <1>2, <1>3, <1>4, <1>5, <1>6, <1>7, <1>8, <1>9, <1>10, SMTT(10)
       DEF IInv, Finalizing, Attempting, Preparing, Begins, Finalizes, FinalEvents,
           FinalCalls, Begin, EventTaken, CallAdded
  <1>18. NotAsked'
    BY <1>1, <1>2, <1>3, <1>4, <1>5, <1>6, <1>7, <1>8, <1>9, <1>10, SMTT(10)
       DEF IInv, NotAsked, Preparing, Attempting, Finalizing, InPreparation, PrepOps,
           PrepEvents, PrepCalls, Finalizes, EventTaken, CallAdded
  <1>19. Stepping'
    BY <1>1, <1>2, <1>3, <1>4, <1>5, <1>6, <1>7, <1>8, <1>9, <1>10, SMTT(10)
       DEF IInv, Stepping, Typed, Row, A, EventTaken, CallAdded
  <1>20. Beginning'
    BY <1>1, <1>2, <1>3, <1>4, <1>5, <1>6, <1>7, <1>8, <1>9, <1>10, SMTT(10)
       DEF IInv, Beginning, Stepping, Typed, Written, Begin, EventTaken, CallAdded
  <1>21. Finishing'
    BY <1>1, <1>2, <1>3, <1>4, <1>5, <1>6, <1>7, <1>8, <1>9, <1>10, SMTT(10)
       DEF IInv, Finishing, Stepping, Attempting, Finalizing, Written, Terminal,
           EventTaken, CallAdded
  <1>22. Staging'
    BY <1>1, <1>2, <1>3, <1>4, <1>5, <1>6, <1>7, <1>8, <1>9, <1>10, SMTT(10)
       DEF IInv, Staging, Attempting, Preparing, Staged, EventTaken, CallAdded
  <1>23. Asking'
    BY <1>1, <1>2, <1>3, <1>4, <1>5, <1>6, <1>7, <1>8, <1>9, <1>10, SMTT(10)
       DEF IInv, Asking, Attempting, Open, EventTaken, CallAdded
  <1>24. Showing'
    BY <1>1, <1>2, <1>3, <1>4, <1>5, <1>6, <1>7, <1>8, <1>9, <1>10, SMTT(10)
       DEF IInv, Showing, Attempting, Asking, Typed, Open, InFlight, EventTaken,
           CallAdded
  <1>25. Saving'
    BY <1>1, <1>2, <1>3, <1>4, <1>5, <1>6, <1>7, <1>8, <1>9, <1>10, AttemptParts,
       SMTT(10)
       DEF IInv, Saving, Finishing, Stepping, Finalizing, Attempting,
           CompletedIsSaved, EventTaken, CallAdded
  <1>26. Faultless'
    BY <1>1, <1>2, <1>3, <1>4, <1>5, <1>6, <1>7, <1>8, <1>9, <1>10, SMTT(10)
       DEF IInv, Faultless, Loading, Attempting, Finalizing, Stepping, Beginning,
           InFlight, Begin, EventTaken, CallAdded
  <1> QED  BY <1>11, <1>12, <1>13, <1>14, <1>15, <1>16, <1>17, <1>18, <1>19, <1>20, <1>21, <1>22, <1>23, <1>24, <1>25, <1>26 DEF IInv

\* The end of a finalization is handed to the coordinator.
LEMMA RelayFinalStep ==
  ASSUME IInv, NEW h, NEW ev, NEW e,
         mainQ # <<>>, mainQ' = Tail(mainQ),
         h = Head(mainQ), (h.ev = "finalized" /\ ev = "final_ok") \/ (h.ev = "not_finalized" /\ ev = "final_failed"),
         e = Event(ev, h.a), soon' = Append(soon, e),
         writable' = (writable /\ h.ev # "not_finalized"),
         UNCHANGED <<rows, dataQ, opStep, dataUp, up, loaded, shutting, failedOp, faults>>,
         UNCHANGED <<turns, state, prep, active, contexts, final, unsaved, retrievals, lane>>,
         UNCHANGED <<ask, background>>
  PROVE  IInv'
  <1>1. EventTaken
    BY TakesEvent
  <1>2. h.a \in Attempts /\ h \in Posted /\ Known(h.a) /\ h.a # None
    BY <1>1, AttemptParts DEF EventTaken, EventTyped, Startup, IInv, Numbered
  <1>3. e \in CallRecs /\ CallTyped(e) /\ e.ev = ev /\ e.a = h.a
    BY <1>2, NewCall
  <1>4. CallAdded(e)
    BY <1>3, AddsCall
  <1>5. loaded
    BY <1>2, EmptyQueue DEF IInv, Loading, Posted, Elements, Event, Startup
  <1>6. /\ h \in FinalEvents /\ e \in FinalCalls
        /\ \A b \in Attempts : e \notin PrepCalls(b)
    BY <1>1, <1>3 DEF EventTaken, EventTyped, PrepCalls, FinalEvents, FinalCalls
  <1>7. \A b \in Attempts : InPreparation(b)' => InPreparation(b)
    BY <1>1, <1>2, <1>4, <1>6, SameQueues
       DEF EventTaken, CallAdded, InPreparation, PrepOps, PrepEvents, PrepCalls
  <1>8. LinedCalls(soon')
    BY <1>1, <1>2, <1>4, <1>6 DEF CallAdded, EventTaken, IInv, Finalizing
  <1>9. /\ final = h.a /\ prep = None /\ \A c \in contexts : c.terminal
        /\ writable' \in BOOLEAN /\ (writable' => writable)
    BY <1>1, <1>2, <1>6 DEF IInv, Typed, Finalizing, Attempting
  <1>10. /\ \A o \in Queued : o \notin Begins /\ o \notin Finalizes
         /\ \A d \in Deferred : d \notin FinalCalls
    BY <1>2, <1>6 DEF IInv, Finalizing
  <1>11. \A d \in Posted' : d \notin FinalEvents
    BY <1>1, <1>6 DEF EventTaken
  <1>12. /\ Deferred' = Deferred \cup {e}
         /\ e.ev = "final_failed" => ~writable'
    BY <1>3, <1>4 DEF CallAdded
  <1>13. /\ UNCHANGED dataQ => UNCHANGED Queued
         /\ UNCHANGED mainQ => UNCHANGED Posted
         /\ UNCHANGED soon => UNCHANGED Deferred
    BY SameQueues
  <1>14. /\ \A o \in Queued : OpTyped(o)
         /\ \A y \in Posted : EventTyped(y)
         /\ \A y \in Deferred : CallTyped(y)
    BY AllTyped
  <1>15. Typed'
    BY <1>1, <1>2, <1>3, <1>4, <1>5, <1>6, <1>7, <1>8, <1>9, <1>10, <1>11, <1>12,
       <1>13, <1>14
       DEF IInv, Typed, EventTaken, CallAdded
  <1>16. Loading'
    BY <1>1, <1>2, <1>3, <1>4, <1>5, <1>6, <1>7, <1>8, <1>9, <1>10, <1>11, <1>12,
       <1>13, <1>14, SMTT(10)
       DEF IInv, Loading, Typed, EventTaken, CallAdded
  <1>17. Numbered'
    BY <1>1, <1>2, <1>3, <1>4, <1>5, <1>6, <1>7, <1>8, <1>9, <1>10, <1>11, <1>12,
       <1>13, <1>14, SMTT(10)
       DEF IInv, Numbered, Typed, Loading, Known, Latest, EventTaken, CallAdded
  <1>18. Lined'
    BY <1>1, <1>2, <1>3, <1>4, <1>5, <1>6, <1>7, <1>8, <1>9, <1>10, <1>11, <1>12,
       <1>13, <1>14, SMTT(10)
       DEF IInv, Lined, Fits, EventTaken, CallAdded
  <1>19. Preparing'
    BY <1>1, <1>2, <1>3, <1>4, <1>5, <1>6, <1>7, <1>8, <1>9, <1>10, <1>11, <1>12,
       <1>13, <1>14, SMTT(10)
       DEF IInv, Preparing, PrepOps, PrepEvents, PrepCalls, EventTaken, CallAdded
  <1>20. Attempting'
    BY <1>1, <1>2, <1>3, <1>4, <1>5, <1>6, <1>7, <1>8, <1>9, <1>10, <1>11, <1>12,
       <1>13, <1>14, AttemptParts, SMTT(10)
       DEF IInv, Attempting, Loading, Finalizing, IdleIsQuiet, LaneIsReleased, Busy,
           EventTyped, Startup, EventTaken, CallAdded
  <1>21. Finalizing'
    BY <1>1, <1>2, <1>3, <1>4, <1>5, <1>6, <1>7, <1>8, <1>9, <1>10, <1>11, <1>12,
       <1>13, <1>14, SMTT(10)
       DEF IInv, Finalizing, Attempting, Preparing, Begins, Finalizes, FinalEvents,
           FinalCalls, Begin, EventTaken, CallAdded
  <1>22. NotAsked'
    BY <1>1, <1>2, <1>3, <1>4, <1>5, <1>6, <1>7, <1>8, <1>9, <1>10, <1>11, <1>12,
       <1>13, <1>14, SMTT(10)
       DEF IInv, NotAsked, Preparing, Attempting, Finalizing, InPreparation, PrepOps,
           PrepEvents, PrepCalls, Finalizes, EventTaken, CallAdded
  <1>23. Stepping'
    BY <1>1, <1>2, <1>3, <1>4, <1>5, <1>6, <1>7, <1>8, <1>9, <1>10, <1>11, <1>12,
       <1>13, <1>14, SMTT(10)
       DEF IInv, Stepping, Typed, Row, A, EventTaken, CallAdded
  <1>24. Beginning'
    BY <1>1, <1>2, <1>3, <1>4, <1>5, <1>6, <1>7, <1>8, <1>9, <1>10, <1>11, <1>12,
       <1>13, <1>14, SMTT(10)
       DEF IInv, Beginning, Stepping, Typed, Written, Begin, EventTaken, CallAdded
  <1>25. Finishing'
    BY <1>1, <1>2, <1>3, <1>4, <1>5, <1>6, <1>7, <1>8, <1>9, <1>10, <1>11, <1>12,
       <1>13, <1>14, SMTT(10)
       DEF IInv, Finishing, Stepping, Attempting, Finalizing, Written, Terminal,
           EventTaken, CallAdded
  <1>26. Staging'
    BY <1>1, <1>2, <1>3, <1>4, <1>5, <1>6, <1>7, <1>8, <1>9, <1>10, <1>11, <1>12,
       <1>13, <1>14, SMTT(10)
       DEF IInv, Staging, Attempting, Preparing, Staged, EventTaken, CallAdded
  <1>27. Asking'
    BY <1>1, <1>2, <1>3, <1>4, <1>5, <1>6, <1>7, <1>8, <1>9, <1>10, <1>11, <1>12,
       <1>13, <1>14, SMTT(10)
       DEF IInv, Asking, Attempting, Open, EventTaken, CallAdded
  <1>28. Showing'
    BY <1>1, <1>2, <1>3, <1>4, <1>5, <1>6, <1>7, <1>8, <1>9, <1>10, <1>11, <1>12,
       <1>13, <1>14, SMTT(10)
       DEF IInv, Showing, Attempting, Asking, Typed, Open, InFlight, EventTaken,
           CallAdded
  <1>29. Saving'
    BY <1>1, <1>2, <1>3, <1>4, <1>5, <1>6, <1>7, <1>8, <1>9, <1>10, <1>11, <1>12,
       <1>13, <1>14, AttemptParts, SMTT(10)
       DEF IInv, Saving, Finishing, Stepping, Finalizing, Attempting,
           CompletedIsSaved, EventTaken, CallAdded
  <1>30. Faultless'
    BY <1>1, <1>2, <1>3, <1>4, <1>5, <1>6, <1>7, <1>8, <1>9, <1>10, <1>11, <1>12,
       <1>13, <1>14, SMTT(10)
       DEF IInv, Faultless, Loading, Attempting, Finalizing, Stepping, Beginning,
           InFlight, Begin, EventTaken, CallAdded
  <1> QED  BY <1>15, <1>16, <1>17, <1>18, <1>19, <1>20, <1>21, <1>22, <1>23, <1>24, <1>25, <1>26, <1>27, <1>28, <1>29, <1>30 DEF IInv

\* The retrieval ends and stage two is queued.
LEMMA RetrievalStep ==
  ASSUME IInv, NEW a \in Attempts, NEW o,
         o = Op("assemble", a, "pending", 0), dataQ' = Append(dataQ, o),
         a \in retrievals, retrievals' = retrievals \ {a},
         UNCHANGED <<rows, opStep, dataUp, mainQ, soon, up, loaded, shutting, failedOp>>,
         UNCHANGED <<faults, writable, turns, state, prep, active, contexts, final, unsaved>>,
         UNCHANGED <<lane, ask, background>>
  PROVE  IInv'
  <1>1. /\ o \in OpRecs /\ OpTyped(o) /\ o.op = "assemble" /\ o.a = a
    BY NewOp, ConversationAssumption DEF Statuses, Begin
  <1>2. OpAdded(o)
    BY <1>1, AddsOp
  <1>3. loaded /\ Known(a) /\ a # None
    BY AttemptParts DEF IInv, Loading, Numbered
  <1>4. /\ o \in PrepOps(a) /\ o \notin Begins /\ o \notin Finalizes /\ o.op \notin Begin
        /\ \A b \in Attempts : o \in PrepOps(b) => b = a
    BY <1>1 DEF PrepOps, Begins, Finalizes, Begin
  <1>5. /\ \A p \in Queued : p \notin PrepOps(a)
        /\ \A e \in Posted : e \notin PrepEvents(a)
        /\ \A e \in Deferred : e \notin PrepCalls(a)
    BY DEF IInv, Preparing
  <1>6. Fits(o, Queued)
    BY <1>4, <1>5 DEF Fits
  <1>7. \A b \in Attempts : InPreparation(b)' => InPreparation(b)
    BY <1>1, <1>2, SameQueues
       DEF InPreparation, PrepOps, PrepEvents, PrepCalls, OpAdded
  <1>8. /\ UNCHANGED dataQ => UNCHANGED Queued
        /\ UNCHANGED mainQ => UNCHANGED Posted
        /\ UNCHANGED soon => UNCHANGED Deferred
    BY SameQueues
  <1>9. /\ \A x \in Queued : OpTyped(x)
        /\ \A e \in Posted : EventTyped(e)
        /\ \A e \in Deferred : CallTyped(e)
    BY AllTyped
  <1>10. Typed'
    BY <1>1, <1>2, <1>3, <1>4, <1>5, <1>6, <1>7, <1>8, <1>9 DEF IInv, Typed, OpAdded
  <1>11. Loading'
    BY <1>1, <1>2, <1>3, <1>4, <1>5, <1>6, <1>7, <1>8, <1>9, SMTT(10)
       DEF IInv, Loading, Typed, OpAdded
  <1>12. Numbered'
    BY <1>1, <1>2, <1>3, <1>4, <1>5, <1>6, <1>7, <1>8, <1>9, SMTT(10)
       DEF IInv, Numbered, Typed, Loading, Known, Latest, OpAdded
  <1>13. Lined'
    BY <1>1, <1>2, <1>3, <1>4, <1>5, <1>6, <1>7, <1>8, <1>9, SMTT(10)
       DEF IInv, Lined, Fits, OpAdded
  <1>14. Preparing'
    <2>1. \A b \in Attempts, x \in Queued' : x \in PrepOps(b) => (\A e \in
         Posted' : e \notin PrepEvents(b)) /\ b \notin retrievals' /\ \A e
         \in Deferred' : e \notin PrepCalls(b)
      BY <1>1, <1>2, <1>3, <1>4, <1>5, <1>6, <1>7, <1>8, <1>9, SMTT(10)
         DEF IInv, Preparing, PrepOps, PrepEvents, PrepCalls, OpAdded
    <2>2. \A b \in Attempts, e \in Posted' : e \in PrepEvents(b) => b \notin
         retrievals' /\ \A d \in Deferred' : d \notin PrepCalls(b)
      BY <1>1, <1>2, <1>3, <1>4, <1>5, <1>6, <1>7, <1>8, <1>9, SMTT(10)
         DEF IInv, Preparing, PrepOps, PrepEvents, PrepCalls, OpAdded
    <2>3. \A b \in Attempts : b \in retrievals' => \A e \in Deferred' : e
         \notin PrepCalls(b)
      BY <1>1, <1>2, <1>3, <1>4, <1>5, <1>6, <1>7, <1>8, <1>9, SMTT(10)
         DEF IInv, Preparing, PrepOps, PrepEvents, PrepCalls, OpAdded
    <2> QED  BY <2>1, <2>2, <2>3 DEF Preparing, PrepOps, PrepEvents, PrepCalls
  <1>15. Attempting'
    BY <1>1, <1>2, <1>3, <1>4, <1>5, <1>6, <1>7, <1>8, <1>9, AttemptParts, SMTT(10)
       DEF IInv, Attempting, Loading, Finalizing, IdleIsQuiet, LaneIsReleased, Busy,
           EventTyped, Startup, OpAdded
  <1>16. Finalizing'
    BY <1>1, <1>2, <1>3, <1>4, <1>5, <1>6, <1>7, <1>8, <1>9, SMTT(10)
       DEF IInv, Finalizing, Attempting, Preparing, Begins, Finalizes, FinalEvents,
           FinalCalls, Begin, OpAdded
  <1>17. NotAsked'
    BY <1>1, <1>2, <1>3, <1>4, <1>5, <1>6, <1>7, <1>8, <1>9, SMTT(10)
       DEF IInv, NotAsked, Preparing, Attempting, Finalizing, InPreparation, PrepOps,
           PrepEvents, PrepCalls, Finalizes, OpAdded
  <1>18. Stepping'
    BY <1>1, <1>2, <1>3, <1>4, <1>5, <1>6, <1>7, <1>8, <1>9, SMTT(10)
       DEF IInv, Stepping, Typed, Row, A, OpAdded
  <1>19. Beginning'
    BY <1>1, <1>2, <1>3, <1>4, <1>5, <1>6, <1>7, <1>8, <1>9, SMTT(10)
       DEF IInv, Beginning, Stepping, Typed, Written, Begin, OpAdded
  <1>20. Finishing'
    BY <1>1, <1>2, <1>3, <1>4, <1>5, <1>6, <1>7, <1>8, <1>9, SMTT(10)
       DEF IInv, Finishing, Stepping, Attempting, Finalizing, Written, Terminal,
           OpAdded
  <1>21. Staging'
    BY <1>1, <1>2, <1>3, <1>4, <1>5, <1>6, <1>7, <1>8, <1>9, SMTT(10)
       DEF IInv, Staging, Attempting, Preparing, Staged, OpAdded
  <1>22. Asking'
    BY <1>1, <1>2, <1>3, <1>4, <1>5, <1>6, <1>7, <1>8, <1>9, SMTT(10)
       DEF IInv, Asking, Attempting, Open, OpAdded
  <1>23. Showing'
    BY <1>1, <1>2, <1>3, <1>4, <1>5, <1>6, <1>7, <1>8, <1>9, SMTT(10)
       DEF IInv, Showing, Attempting, Asking, Typed, Open, InFlight, OpAdded
  <1>24. Saving'
    BY <1>1, <1>2, <1>3, <1>4, <1>5, <1>6, <1>7, <1>8, <1>9, AttemptParts, SMTT(10)
       DEF IInv, Saving, Finishing, Stepping, Finalizing, Attempting,
           CompletedIsSaved, OpAdded
  <1>25. Faultless'
    BY <1>1, <1>2, <1>3, <1>4, <1>5, <1>6, <1>7, <1>8, <1>9, SMTT(10)
       DEF IInv, Faultless, Loading, Attempting, Finalizing, Stepping, Beginning,
           InFlight, Begin, OpAdded
  <1> QED  BY <1>10, <1>11, <1>12, <1>13, <1>14, <1>15, <1>16, <1>17, <1>18, <1>19, <1>20, <1>21, <1>22, <1>23, <1>24, <1>25 DEF IInv

\* The reply grows by a chunk.
LEMMA ChunkStep ==
  ASSUME IInv, NEW a \in Attempts,
         mainQ # <<>>, mainQ' = Tail(mainQ),
         active = a, ~shutting, \E c \in contexts : c.a = a /\ ~c.terminal,
         turns[a[1]].reply # MaxChunks, turns' = [turns EXCEPT ![a[1]] = Message("streaming", a[2], @.reply + 1)],
         state' = "streaming", lane' \in BOOLEAN, unsaved' = a,
         UNCHANGED <<rows, dataQ, opStep, dataUp, soon, up, loaded, shutting, failedOp>>,
         UNCHANGED <<faults, writable, prep, active, contexts, final, retrievals, ask, background>>
  PROVE  IInv'
  <1>1. EventTaken
    BY TakesEvent
  <1>2. /\ a[1] \in Turns /\ a[2] \in 1..MaxRequests /\ a # None /\ turns[a[1]].attempt = a[2]
        /\ turns[a[1]].reply + 1 \in 0..MaxChunks
    BY AttemptParts, ConversationAssumption DEF IInv, Typed, Messages, Numbered, Latest
  <1>3. final = None /\ writable /\ up /\ loaded /\ prep = None /\ \A c \in contexts : ~c.terminal /\ c.a = a
    BY AttemptParts DEF IInv, Attempting, Loading
  <1>4. /\ turns' \in [Turns -> Messages]
        /\ turns'[a[1]].status = "streaming" /\ turns'[a[1]].attempt = a[2]
        /\ \A t \in Turns : t # a[1] => turns'[t] = turns[t]
    BY <1>2 DEF IInv, Typed, Messages, Message, Statuses
  <1>5. /\ rows[a[1]].attempt = a[2] /\ rows[a[1]].status \in Open /\ rows[a[1]].status # "completed"
    BY DEF IInv, Asking, Open
  <1>6. \A b \in Attempts \cup {None} : Known(b) => Known(b)'
        <2> SUFFICES ASSUME NEW b \in Attempts, b[2] <= turns[b[1]].attempt
                 PROVE  b[2] <= turns'[b[1]].attempt
      BY AttemptParts DEF Known
    <2>1. b[1] \in Turns /\ b[2] \in Nat
      BY AttemptParts
    <2>2. turns[b[1]].attempt \in Nat /\ turns'[b[1]].attempt \in Nat
      BY <2>1, <1>2, <1>4 DEF IInv, Typed, Messages
    <2>3. CASE b[1] = a[1]
      BY <2>1, <2>2, <2>3, <1>2, <1>4 DEF Message
    <2>4. CASE b[1] # a[1]
      BY <2>1, <2>2, <2>4, <1>2, <1>4
    <2> QED  BY <2>3, <2>4

  <1>7. \A b \in Attempts : InPreparation(b)' => InPreparation(b)
    BY <1>1, SameQueues DEF InPreparation, PrepOps, PrepEvents, PrepCalls, EventTaken
  <1>8. /\ \A o \in Queued : o.op # "finalize" /\ o \notin Finalizes
        /\ \A e \in Posted : e \notin FinalEvents /\ e.ev # "finalized"
        /\ \A e \in Deferred : e \notin FinalCalls /\ e.ev # "final_ok"
    BY AllTyped, AttemptParts, <1>3
       DEF IInv, Finalizing, OpTyped, EventTyped, CallTyped, Finalizes, FinalEvents,
           FinalCalls, Startup
  <1>9. \A t \in Turns : InFlight(t) = (t = a[1]) /\ InFlight(t)' = (t = a[1])
    BY <1>2, <1>3 DEF InFlight
  <1>10. \A t, n : final # <<t, n>>
    BY <1>3 DEF None
  <1>11. Posted' \subseteq Posted
    BY <1>1 DEF EventTaken
  <1>12. /\ UNCHANGED dataQ => UNCHANGED Queued
         /\ UNCHANGED mainQ => UNCHANGED Posted
         /\ UNCHANGED soon => UNCHANGED Deferred
    BY SameQueues
  <1>13. /\ \A o \in Queued : OpTyped(o)
         /\ \A e \in Posted : EventTyped(e)
         /\ \A e \in Deferred : CallTyped(e)
    BY AllTyped
  <1>14. Typed'
    BY <1>1, <1>2, <1>3, <1>4, <1>5, <1>6, <1>7, <1>8, <1>9, <1>10, <1>11, <1>12,
       <1>13
       DEF IInv, Typed, EventTaken, States, Visible
  <1>15. Loading'
    BY <1>1, <1>2, <1>3, <1>4, <1>5, <1>6, <1>7, <1>8, <1>9, <1>10, <1>11, <1>12,
       <1>13, SMTT(10)
       DEF IInv, Loading, Typed, EventTaken
  <1>16. Numbered'
    <2>1. (\A b \in Attempts \cup {None} : Known(b) => Known(b)') /\ turns' \in [Turns -> Messages]
      BY <1>1, <1>2, <1>3, <1>4, <1>5, <1>6, <1>7, <1>8, <1>9, <1>10, <1>11, <1>12,
         <1>13
    <2>2. \A o \in Queued' : Known(o.a)'
      BY <1>1, <1>2, <1>3, <1>4, <1>5, <1>6, <1>7, <1>8, <1>9, <1>10, <1>11, <1>12,
         <1>13
         DEF IInv, Numbered, OpTyped, OpAdded, Persisted
    <2>3. /\ \A e \in Posted' : Known(e.a)'
          /\ \A e \in Deferred' : Known(e.a)'
      BY <1>1, <1>2, <1>3, <1>4, <1>5, <1>6, <1>7, <1>8, <1>9, <1>10, <1>11, <1>12,
         <1>13
         DEF IInv, Numbered, EventTyped, CallTyped, Persisted, Known
    <2>4. /\ \A b \in retrievals' : Known(b)'
          /\ \A c \in contexts' : Known(c.a)'
      BY <1>1, <1>2, <1>3, <1>4, <1>5, <1>6, <1>7, <1>8, <1>9, <1>10, <1>11, <1>12,
         <1>13
         DEF IInv, Typed, Numbered, ContextRecs, Known
    <2>5. Latest(prep)' /\ Latest(active)' /\ Latest(final)'
      BY <1>1, <1>2, <1>3, <1>4, <1>5, <1>6, <1>7, <1>8, <1>9, <1>10, <1>11, <1>12,
         <1>13
         DEF IInv, Numbered, Latest, Persisted
    <2>6. \A t \in Turns : /\ turns'[t].status = "absent" => turns'[t].attempt = 0
                           /\ rows'[t].status = "absent" => rows'[t].attempt = 0
      BY <1>1, <1>2, <1>3, <1>4, <1>5, <1>6, <1>7, <1>8, <1>9, <1>10, <1>11, <1>12,
         <1>13
         DEF IInv, Numbered, Terminal
    <2> QED  BY <2>2, <2>3, <2>4, <2>5, <2>6 DEF Numbered
  <1>17. Lined'
    BY <1>1, <1>2, <1>3, <1>4, <1>5, <1>6, <1>7, <1>8, <1>9, <1>10, <1>11, <1>12,
       <1>13, SMTT(10)
       DEF IInv, Lined, Fits, EventTaken
  <1>18. Preparing'
    BY <1>1, <1>2, <1>3, <1>4, <1>5, <1>6, <1>7, <1>8, <1>9, <1>10, <1>11, <1>12,
       <1>13, SMTT(10)
       DEF IInv, Preparing, PrepOps, PrepEvents, PrepCalls, EventTaken
  <1>19. Attempting'
    <2>1. prep' # None => active' = prep' /\ contexts' = {} /\ final' = None
         /\ ~shutting' /\ writable'
      BY <1>1, <1>2, <1>3, <1>4, <1>5, <1>6, <1>7, <1>8, <1>9, <1>10, <1>11, <1>12,
         <1>13, SMTT(10)
         DEF Loading, Finalizing, IdleIsQuiet, LaneIsReleased, Busy, EventTyped,
             Startup
    <2>2. \A c \in contexts' : ~shutting' => c.a = active'
      BY <1>1, <1>2, <1>3, <1>4, <1>5, <1>6, <1>7, <1>8, <1>9, <1>10, <1>11, <1>12,
         <1>13, SMTT(10)
         DEF Loading, Finalizing, IdleIsQuiet, LaneIsReleased, Busy, EventTyped,
             Startup
    <2>3. \A c, d \in contexts' : c = d
      BY <1>1, <1>2, <1>3, <1>4, <1>5, <1>6, <1>7, <1>8, <1>9, <1>10, <1>11, <1>12,
         <1>13, SMTT(10)
         DEF IInv, Attempting, Loading, Finalizing, IdleIsQuiet, LaneIsReleased, Busy,
             EventTyped, Startup
    <2>4. \A c \in contexts' : ~c.terminal => final' = None /\ ~shutting' /\
         writable'
      BY <1>1, <1>2, <1>3, <1>4, <1>5, <1>6, <1>7, <1>8, <1>9, <1>10, <1>11, <1>12,
         <1>13, SMTT(10)
         DEF Loading, Finalizing, IdleIsQuiet, LaneIsReleased, Busy, EventTyped,
             Startup
    <2>5. unsaved' # None => \E c \in contexts' : c.a = unsaved' /\
         ~c.terminal
      BY <1>1, <1>2, <1>3, <1>4, <1>5, <1>6, <1>7, <1>8, <1>9, <1>10, <1>11, <1>12,
         <1>13, SMTT(10)
         DEF Loading, Finalizing, IdleIsQuiet, LaneIsReleased, Busy, EventTyped,
             Startup
    <2>6. shutting' => prep' = None /\ active' = None /\ retrievals' = {}
      BY <1>1, <1>2, <1>3, <1>4, <1>5, <1>6, <1>7, <1>8, <1>9, <1>10, <1>11, <1>12,
         <1>13, SMTT(10)
         DEF Loading, Finalizing, IdleIsQuiet, LaneIsReleased, Busy, EventTyped,
             Startup
    <2>7. IdleIsQuiet'
      BY <1>1, <1>2, <1>3, <1>4, <1>5, <1>6, <1>7, <1>8, <1>9, <1>10, <1>11, <1>12,
         <1>13, SMTT(10)
         DEF Loading, Finalizing, IdleIsQuiet, LaneIsReleased, Busy, EventTyped,
             Startup
    <2>8. LaneIsReleased'
      BY <1>1, <1>2, <1>3, <1>4, <1>5, <1>6, <1>7, <1>8, <1>9, <1>10, <1>11, <1>12,
         <1>13, SMTT(10)
         DEF Loading, Finalizing, IdleIsQuiet, LaneIsReleased, Busy, EventTyped,
             Startup
    <2>9. \A e \in Posted' : e.ev = "finished" => e.a # prep'
      BY <1>1, <1>2, <1>3, <1>4, <1>5, <1>6, <1>7, <1>8, <1>9, <1>10, <1>11, <1>12,
         <1>13, SMTT(10)
         DEF IInv, Attempting, Loading, Finalizing, IdleIsQuiet, LaneIsReleased, Busy,
             EventTyped, Startup
    <2> QED  BY <2>1, <2>2, <2>3, <2>4, <2>5, <2>6, <2>7, <2>8, <2>9 DEF Attempting
  <1>20. Finalizing'
    BY <1>1, <1>2, <1>3, <1>4, <1>5, <1>6, <1>7, <1>8, <1>9, <1>10, <1>11, <1>12,
       <1>13, SMTT(10)
       DEF IInv, Finalizing, Attempting, Preparing, Begins, Finalizes, FinalEvents,
           FinalCalls, Begin, EventTaken
  <1>21. NotAsked'
    BY <1>1, <1>2, <1>3, <1>4, <1>5, <1>6, <1>7, <1>8, <1>9, <1>10, <1>11, <1>12,
       <1>13, SMTT(10)
       DEF IInv, NotAsked, Preparing, Attempting, Finalizing, InPreparation, PrepOps,
           PrepEvents, PrepCalls, Finalizes, EventTaken
  <1>22. Stepping'
    BY <1>1, <1>2, <1>3, <1>4, <1>5, <1>6, <1>7, <1>8, <1>9, <1>10, <1>11, <1>12,
       <1>13, SMTT(10)
       DEF IInv, Stepping, Typed, Row, A, EventTaken
  <1>23. Beginning'
    BY <1>1, <1>2, <1>3, <1>4, <1>5, <1>6, <1>7, <1>8, <1>9, <1>10, <1>11, <1>12,
       <1>13, SMTT(10)
       DEF IInv, Beginning, Stepping, Typed, Written, Begin, EventTaken
  <1>24. Finishing'
    BY <1>1, <1>2, <1>3, <1>4, <1>5, <1>6, <1>7, <1>8, <1>9, <1>10, <1>11, <1>12,
       <1>13, SMTT(10)
       DEF IInv, Finishing, Stepping, Attempting, Finalizing, Written, Terminal,
           EventTaken
  <1>25. Staging'
    BY <1>1, <1>2, <1>3, <1>4, <1>5, <1>6, <1>7, <1>8, <1>9, <1>10, <1>11, <1>12,
       <1>13, SMTT(10)
       DEF IInv, Staging, Attempting, Preparing, Staged, EventTaken
  <1>26. Asking'
    BY <1>1, <1>2, <1>3, <1>4, <1>5, <1>6, <1>7, <1>8, <1>9, <1>10, <1>11, <1>12,
       <1>13, SMTT(10)
       DEF IInv, Asking, Attempting, Open, EventTaken
  <1>27. Showing'
    <2>1. \A e \in Posted' : e.ev = "loaded" => \A t \in Turns :
         rows'[t].status \notin Open
      BY <1>1, <1>2, <1>3, <1>4, <1>5, <1>6, <1>7, <1>8, <1>9, <1>10, <1>11, <1>12,
         <1>13, SMTT(10)
         DEF IInv, Showing, Attempting, Asking, Typed, Open, InFlight
    <2>2. loaded' /\ ~shutting' => \A t \in Turns : rows'[t].attempt <=
         turns'[t].attempt
      BY <1>1, <1>2, <1>3, <1>4, <1>5, <1>6, <1>7, <1>8, <1>9, <1>10, <1>11, <1>12,
         <1>13, SMTT(10)
         DEF IInv, Showing, Attempting, Asking, Typed, Open, InFlight
    <2>3. loaded' /\ ~shutting' => \A t \in Turns : turns'[t].status \in Open
         => InFlight(t)'
      BY <1>1, <1>2, <1>3, <1>4, <1>5, <1>6, <1>7, <1>8, <1>9, <1>10, <1>11, <1>12,
         <1>13, SMTT(10)
         DEF IInv, Showing, Attempting, Asking, Typed, Open, InFlight
    <2>4. loaded' /\ ~shutting' /\ writable' => \A t \in Turns :
         rows'[t].status = "completed" => turns'[t].status = "completed"
      BY <1>1, <1>2, <1>3, <1>4, <1>5, <1>6, <1>7, <1>8, <1>9, <1>10, <1>11, <1>12,
         <1>13, SMTT(10)
         DEF IInv, Showing, Attempting, Asking, Typed, Open, InFlight
    <2> QED  BY <2>1, <2>2, <2>3, <2>4 DEF Showing, Open
  <1>28. Saving'
    BY <1>1, <1>2, <1>3, <1>4, <1>5, <1>6, <1>7, <1>8, <1>9, <1>10, <1>11, <1>12,
       <1>13, AttemptParts, SMTT(10)
       DEF IInv, Saving, Finishing, Stepping, Finalizing, Attempting,
           CompletedIsSaved, EventTaken
  <1>29. Faultless'
    BY <1>1, <1>2, <1>3, <1>4, <1>5, <1>6, <1>7, <1>8, <1>9, <1>10, <1>11, <1>12,
       <1>13, SMTT(10)
       DEF IInv, Faultless, Loading, Attempting, Finalizing, Stepping, Beginning,
           InFlight, Begin, EventTaken
  <1> QED  BY <1>14, <1>15, <1>16, <1>17, <1>18, <1>19, <1>20, <1>21, <1>22, <1>23, <1>24, <1>25, <1>26, <1>27, <1>28, <1>29 DEF IInv

\* The thread of a request with an outcome has ended.
LEMMA ForgetStep ==
  ASSUME IInv, NEW a \in Attempts, NEW h,
         mainQ # <<>>, mainQ' = Tail(mainQ), h = Head(mainQ), h.ev = "finished", h.a = a,
         contexts' = {c \in contexts : c.a # a}, active' = IF active = a THEN None ELSE active,
         ~(~shutting /\ active = a /\ \E c \in contexts : c.a = a /\ ~c.terminal),
         active = a /\ final = None => state' = "idle", lane' \in BOOLEAN,
         active = a /\ final = None => (state = "idle" => lane' = lane) /\ (state # "idle" => lane' = FALSE),
         ~(active = a /\ final = None) => UNCHANGED <<state, lane>>,
         UNCHANGED <<rows, dataQ, opStep, dataUp, soon, up, loaded, shutting, failedOp>>,
         UNCHANGED <<faults, writable, turns, prep, final, unsaved, retrievals, ask, background>>
  PROVE  IInv'
  <1>1. EventTaken
    BY TakesEvent
  <1>2. h \in Posted /\ a # None /\ Posted' \subseteq Posted /\ a # prep
    BY <1>1, AttemptParts DEF EventTaken, IInv, Attempting
  <1>3. \A c \in contexts : c.a = a => c.terminal
    BY DEF IInv, Attempting
  <1>4. /\ contexts' \subseteq contexts
        /\ \A c \in contexts : ~c.terminal => c \in contexts'
    BY <1>3
  <1>5. \A t \in Turns : InFlight(t)' = InFlight(t)
    BY <1>4 DEF InFlight
  <1>6. /\ active = a => prep = None /\ (~shutting => contexts' = {})
        /\ active # a => active' = active
    BY <1>2 DEF IInv, Attempting
  <1>7. lane' \in BOOLEAN /\ state' \in States
    BY DEF IInv, Typed, States
  <1>8. \A b \in Attempts : InPreparation(b)' => InPreparation(b)
    BY <1>1, SameQueues DEF InPreparation, PrepOps, PrepEvents, PrepCalls, EventTaken
  <1>9. /\ UNCHANGED dataQ => UNCHANGED Queued
        /\ UNCHANGED mainQ => UNCHANGED Posted
        /\ UNCHANGED soon => UNCHANGED Deferred
    BY SameQueues
  <1>10. /\ \A o \in Queued : OpTyped(o)
         /\ \A e \in Posted : EventTyped(e)
         /\ \A e \in Deferred : CallTyped(e)
    BY AllTyped
  <1>11. Typed'
    BY <1>1, <1>2, <1>3, <1>4, <1>5, <1>6, <1>7, <1>8, <1>9, <1>10
       DEF IInv, Typed, EventTaken
  <1>12. Loading'
    BY <1>1, <1>2, <1>3, <1>4, <1>5, <1>6, <1>7, <1>8, <1>9, <1>10, SMTT(10)
       DEF IInv, Loading, Typed, EventTaken
  <1>13. Numbered'
    BY <1>1, <1>2, <1>3, <1>4, <1>5, <1>6, <1>7, <1>8, <1>9, <1>10, SMTT(10)
       DEF IInv, Numbered, Typed, Loading, Known, Latest, EventTaken
  <1>14. Lined'
    BY <1>1, <1>2, <1>3, <1>4, <1>5, <1>6, <1>7, <1>8, <1>9, <1>10, SMTT(10)
       DEF IInv, Lined, Fits, EventTaken
  <1>15. Preparing'
    BY <1>1, <1>2, <1>3, <1>4, <1>5, <1>6, <1>7, <1>8, <1>9, <1>10, SMTT(10)
       DEF IInv, Preparing, PrepOps, PrepEvents, PrepCalls, EventTaken
  <1>16. Attempting'
    <2>1. prep' # None => active' = prep' /\ contexts' = {} /\ final' = None
         /\ ~shutting' /\ writable'
      BY <1>1, <1>2, <1>3, <1>4, <1>5, <1>6, <1>7, <1>8, <1>9, <1>10, SMTT(10)
         DEF IInv, Attempting, Loading, Finalizing, IdleIsQuiet, LaneIsReleased, Busy,
             EventTyped, Startup
    <2>2. \A c \in contexts' : ~shutting' => c.a = active'
      BY <1>1, <1>2, <1>3, <1>4, <1>5, <1>6, <1>7, <1>8, <1>9, <1>10, SMTT(10)
         DEF IInv, Attempting, Loading, Finalizing, IdleIsQuiet, LaneIsReleased, Busy,
             EventTyped, Startup
    <2>3. \A c, d \in contexts' : c = d
      BY <1>1, <1>2, <1>3, <1>4, <1>5, <1>6, <1>7, <1>8, <1>9, <1>10, SMTT(10)
         DEF IInv, Attempting, Loading, Finalizing, IdleIsQuiet, LaneIsReleased, Busy,
             EventTyped, Startup
    <2>4. \A c \in contexts' : ~c.terminal => final' = None /\ ~shutting' /\
         writable'
      BY <1>1, <1>2, <1>3, <1>4, <1>5, <1>6, <1>7, <1>8, <1>9, <1>10, SMTT(10)
         DEF IInv, Attempting, Loading, Finalizing, IdleIsQuiet, LaneIsReleased, Busy,
             EventTyped, Startup
    <2>5. unsaved' # None => \E c \in contexts' : c.a = unsaved' /\
         ~c.terminal
      BY <1>1, <1>2, <1>3, <1>4, <1>5, <1>6, <1>7, <1>8, <1>9, <1>10, SMTT(10)
         DEF IInv, Attempting, Loading, Finalizing, IdleIsQuiet, LaneIsReleased, Busy,
             EventTyped, Startup
    <2>6. shutting' => prep' = None /\ active' = None /\ retrievals' = {}
      BY <1>1, <1>2, <1>3, <1>4, <1>5, <1>6, <1>7, <1>8, <1>9, <1>10, SMTT(10)
         DEF IInv, Attempting, Loading, Finalizing, IdleIsQuiet, LaneIsReleased, Busy,
             EventTyped, Startup
    <2>7. IdleIsQuiet'
      BY <1>1, <1>2, <1>3, <1>4, <1>5, <1>6, <1>7, <1>8, <1>9, <1>10, SMTT(10)
         DEF IInv, Attempting, Loading, Finalizing, IdleIsQuiet, LaneIsReleased, Busy,
             EventTyped, Startup
    <2>8. LaneIsReleased'
      BY <1>1, <1>2, <1>3, <1>4, <1>5, <1>6, <1>7, <1>8, <1>9, <1>10, SMTT(10)
         DEF IInv, Attempting, Loading, Finalizing, IdleIsQuiet, LaneIsReleased, Busy,
             EventTyped, Startup
    <2>9. \A e \in Posted' : e.ev = "finished" => e.a # prep'
      BY <1>1, <1>2, <1>3, <1>4, <1>5, <1>6, <1>7, <1>8, <1>9, <1>10, SMTT(10)
         DEF IInv, Attempting, Loading, Finalizing, IdleIsQuiet, LaneIsReleased, Busy,
             EventTyped, Startup
    <2> QED  BY <2>1, <2>2, <2>3, <2>4, <2>5, <2>6, <2>7, <2>8, <2>9 DEF Attempting
  <1>17. Finalizing'
    BY <1>1, <1>2, <1>3, <1>4, <1>5, <1>6, <1>7, <1>8, <1>9, <1>10, SMTT(10)
       DEF IInv, Finalizing, Attempting, Preparing, Begins, Finalizes, FinalEvents,
           FinalCalls, Begin, EventTaken
  <1>18. NotAsked'
    BY <1>1, <1>2, <1>3, <1>4, <1>5, <1>6, <1>7, <1>8, <1>9, <1>10, SMTT(10)
       DEF IInv, NotAsked, Preparing, Attempting, Finalizing, InPreparation, PrepOps,
           PrepEvents, PrepCalls, Finalizes, EventTaken
  <1>19. Stepping'
    BY <1>1, <1>2, <1>3, <1>4, <1>5, <1>6, <1>7, <1>8, <1>9, <1>10, SMTT(10)
       DEF IInv, Stepping, Typed, Row, A, EventTaken
  <1>20. Beginning'
    BY <1>1, <1>2, <1>3, <1>4, <1>5, <1>6, <1>7, <1>8, <1>9, <1>10, SMTT(10)
       DEF IInv, Beginning, Stepping, Typed, Written, Begin, EventTaken
  <1>21. Finishing'
    BY <1>1, <1>2, <1>3, <1>4, <1>5, <1>6, <1>7, <1>8, <1>9, <1>10, SMTT(10)
       DEF IInv, Finishing, Stepping, Attempting, Finalizing, Written, Terminal,
           EventTaken
  <1>22. Staging'
    BY <1>1, <1>2, <1>3, <1>4, <1>5, <1>6, <1>7, <1>8, <1>9, <1>10, SMTT(10)
       DEF IInv, Staging, Attempting, Preparing, Staged, EventTaken
  <1>23. Asking'
    BY <1>1, <1>2, <1>3, <1>4, <1>5, <1>6, <1>7, <1>8, <1>9, <1>10, SMTT(10)
       DEF IInv, Asking, Attempting, Open, EventTaken
  <1>24. Showing'
    BY <1>1, <1>2, <1>3, <1>4, <1>5, <1>6, <1>7, <1>8, <1>9, <1>10, SMTT(10)
       DEF IInv, Showing, Attempting, Asking, Typed, Open, InFlight, EventTaken
  <1>25. Saving'
    BY <1>1, <1>2, <1>3, <1>4, <1>5, <1>6, <1>7, <1>8, <1>9, <1>10, AttemptParts,
       SMTT(10)
       DEF IInv, Saving, Finishing, Stepping, Finalizing, Attempting,
           CompletedIsSaved, EventTaken
  <1>26. Faultless'
    <2>1. up' /\ ~failedOp' /\ ~shutting' => \A e \in Posted' : e.ev \notin
         {"not_prepared", "not_finalized"}
      BY <1>1, <1>2, <1>3, <1>4, <1>5, <1>6, <1>7, <1>8, <1>9, <1>10, SMTT(10)
         DEF IInv, Faultless, Loading, Attempting, Finalizing, Stepping, Beginning,
             InFlight, Begin
    <2>2. up' /\ ~failedOp' /\ ~shutting' => \A e \in Deferred' : e.ev \notin
         {"prepare_failed", "final_failed"}
      BY <1>1, <1>2, <1>3, <1>4, <1>5, <1>6, <1>7, <1>8, <1>9, <1>10, SMTT(10)
         DEF IInv, Faultless, Loading, Attempting, Finalizing, Stepping, Beginning,
             InFlight, Begin
    <2>3. up' /\ ~failedOp' /\ ~shutting' /\ prep' # None =>
         rows'[prep'[1]].attempt = prep'[2] \/ \E o \in Queued' : o.op \in
         Begin /\ o.a = prep'
      BY <1>1, <1>2, <1>3, <1>4, <1>5, <1>6, <1>7, <1>8, <1>9, <1>10, SMTT(10)
         DEF IInv, Faultless, Loading, Attempting, Finalizing, Stepping, Beginning,
             InFlight, Begin
    <2>4. up' /\ ~failedOp' /\ ~shutting' => \A o \in Queued' : o.op =
         "finalize" => rows'[o.a[1]].attempt = o.a[2] \/ \E b \in Queued' :
         b.op \in Begin /\ b.a = o.a
      BY <1>1, <1>2, <1>3, <1>4, <1>5, <1>6, <1>7, <1>8, <1>9, <1>10, SMTT(10)
         DEF IInv, Faultless, Loading, Attempting, Finalizing, Stepping, Beginning,
             InFlight, Begin
    <2>5. up' /\ ~failedOp' /\ ~shutting' /\ loaded' => \A t \in Turns :
         turns'[t] = rows'[t] \/ InFlight(t)' \/ (final' # None /\ final'[1]
         = t)
      BY <1>1, <1>2, <1>3, <1>4, <1>5, <1>6, <1>7, <1>8, <1>9, <1>10, SMTT(10)
         DEF IInv, Faultless, Loading, Attempting, Finalizing, Stepping, Beginning,
             InFlight, Begin
    <2> QED  BY <2>1, <2>2, <2>3, <2>4, <2>5 DEF Faultless, Begin
  <1> QED  BY <1>11, <1>12, <1>13, <1>14, <1>15, <1>16, <1>17, <1>18, <1>19, <1>20, <1>21, <1>22, <1>23, <1>24, <1>25, <1>26 DEF IInv

\* The text that is not saved yet is queued.
LEMMA FlushStep ==
  ASSUME IInv, NEW a \in Attempts, NEW o,
         unsaved = a, unsaved' = None, o = Op("checkpoint", a, "streaming", turns[a[1]].reply), dataQ' = Append(dataQ, o),
         UNCHANGED <<rows, opStep, dataUp, mainQ, soon, up, loaded, shutting, failedOp>>,
         UNCHANGED <<faults, writable, turns, state, prep, active, contexts, final, retrievals>>,
         UNCHANGED <<lane, ask, background>>
  PROVE  IInv'
  <1>1. a # None /\ turns[a[1]].reply \in 0..MaxChunks /\ "streaming" \in Statuses
    BY AttemptParts DEF IInv, Typed, Messages, Statuses
  <1>2. /\ o \in OpRecs /\ OpTyped(o)
        /\ o.op = "checkpoint" /\ o.a = a
        <2>1. o \in OpRecs
      BY <1>1 DEF OpRecs, Op
    <2> QED  BY <2>1, AnyTyped DEF Op

  <1>3. OpAdded(o)
    BY <1>2, AddsOp
  <1>4. loaded /\ Known(a)
        <2>1. PICK c \in contexts : c.a = a
      BY <1>1 DEF IInv, Attempting
    <2> QED  BY <1>1, <2>1 DEF IInv, Numbered, Loading

  <1>5. /\ o \notin Begins /\ o \notin Finalizes /\ o.op \notin Begin
        /\ \A b \in Attempts : o \notin PrepOps(b)
    BY <1>2 DEF PrepOps, Begins, Finalizes, Begin
  <1>6. prep = None
    BY <1>1 DEF IInv, Attempting
  <1>7. Fits(o, Queued)
    BY <1>5 DEF Fits
  <1>8. \A b \in Attempts : InPreparation(b)' => InPreparation(b)
    BY <1>3, <1>5, SameQueues
       DEF InPreparation, PrepOps, PrepEvents, PrepCalls, OpAdded
  <1>9. /\ UNCHANGED dataQ => UNCHANGED Queued
        /\ UNCHANGED mainQ => UNCHANGED Posted
        /\ UNCHANGED soon => UNCHANGED Deferred
    BY SameQueues
  <1>10. /\ \A x \in Queued : OpTyped(x)
         /\ \A e \in Posted : EventTyped(e)
         /\ \A e \in Deferred : CallTyped(e)
    BY AllTyped
  <1>11. Typed'
    BY <1>1, <1>2, <1>3, <1>4, <1>5, <1>6, <1>7, <1>8, <1>9, <1>10
       DEF IInv, Typed, OpAdded
  <1>12. Loading'
    BY <1>1, <1>2, <1>3, <1>4, <1>5, <1>6, <1>7, <1>8, <1>9, <1>10, SMTT(10)
       DEF IInv, Loading, Typed, OpAdded
  <1>13. Numbered'
    BY <1>1, <1>2, <1>3, <1>4, <1>5, <1>6, <1>7, <1>8, <1>9, <1>10, SMTT(10)
       DEF IInv, Numbered, Typed, Loading, Known, Latest, OpAdded
  <1>14. Lined'
    BY <1>1, <1>2, <1>3, <1>4, <1>5, <1>6, <1>7, <1>8, <1>9, <1>10, SMTT(10)
       DEF IInv, Lined, Fits, OpAdded
  <1>15. Preparing'
    BY <1>1, <1>2, <1>3, <1>4, <1>5, <1>6, <1>7, <1>8, <1>9, <1>10, SMTT(10)
       DEF IInv, Preparing, PrepOps, PrepEvents, PrepCalls, OpAdded
  <1>16. Attempting'
    BY <1>1, <1>2, <1>3, <1>4, <1>5, <1>6, <1>7, <1>8, <1>9, <1>10, AttemptParts,
       SMTT(10)
       DEF IInv, Attempting, Loading, Finalizing, IdleIsQuiet, LaneIsReleased, Busy,
           EventTyped, Startup, OpAdded
  <1>17. Finalizing'
    BY <1>1, <1>2, <1>3, <1>4, <1>5, <1>6, <1>7, <1>8, <1>9, <1>10, SMTT(10)
       DEF IInv, Finalizing, Attempting, Preparing, Begins, Finalizes, FinalEvents,
           FinalCalls, Begin, OpAdded
  <1>18. NotAsked'
    BY <1>1, <1>2, <1>3, <1>4, <1>5, <1>6, <1>7, <1>8, <1>9, <1>10, SMTT(10)
       DEF IInv, NotAsked, Preparing, Attempting, Finalizing, InPreparation, PrepOps,
           PrepEvents, PrepCalls, Finalizes, OpAdded
  <1>19. Stepping'
    BY <1>1, <1>2, <1>3, <1>4, <1>5, <1>6, <1>7, <1>8, <1>9, <1>10, SMTT(10)
       DEF IInv, Stepping, Typed, Row, A, OpAdded
  <1>20. Beginning'
    BY <1>1, <1>2, <1>3, <1>4, <1>5, <1>6, <1>7, <1>8, <1>9, <1>10, SMTT(10)
       DEF IInv, Beginning, Stepping, Typed, Written, Begin, OpAdded
  <1>21. Finishing'
    BY <1>1, <1>2, <1>3, <1>4, <1>5, <1>6, <1>7, <1>8, <1>9, <1>10, SMTT(10)
       DEF IInv, Finishing, Stepping, Attempting, Finalizing, Written, Terminal,
           OpAdded
  <1>22. Staging'
    BY <1>1, <1>2, <1>3, <1>4, <1>5, <1>6, <1>7, <1>8, <1>9, <1>10, SMTT(10)
       DEF IInv, Staging, Attempting, Preparing, Staged, OpAdded
  <1>23. Asking'
    BY <1>1, <1>2, <1>3, <1>4, <1>5, <1>6, <1>7, <1>8, <1>9, <1>10, SMTT(10)
       DEF IInv, Asking, Attempting, Open, OpAdded
  <1>24. Showing'
    BY <1>1, <1>2, <1>3, <1>4, <1>5, <1>6, <1>7, <1>8, <1>9, <1>10, SMTT(10)
       DEF IInv, Showing, Attempting, Asking, Typed, Open, InFlight, OpAdded
  <1>25. Saving'
    BY <1>1, <1>2, <1>3, <1>4, <1>5, <1>6, <1>7, <1>8, <1>9, <1>10, AttemptParts,
       SMTT(10)
       DEF IInv, Saving, Finishing, Stepping, Finalizing, Attempting,
           CompletedIsSaved, OpAdded
  <1>26. Faultless'
    BY <1>1, <1>2, <1>3, <1>4, <1>5, <1>6, <1>7, <1>8, <1>9, <1>10, SMTT(10)
       DEF IInv, Faultless, Loading, Attempting, Finalizing, Stepping, Beginning,
           InFlight, Begin, OpAdded
  <1> QED  BY <1>11, <1>12, <1>13, <1>14, <1>15, <1>16, <1>17, <1>18, <1>19, <1>20, <1>21, <1>22, <1>23, <1>24, <1>25, <1>26 DEF IInv

\* A callback that means nothing any more is dropped.
LEMMA IgnoreCallStep ==
  ASSUME IInv,
         soon # <<>>, soon' = Tail(soon),
         UNCHANGED <<rows, dataQ, opStep, dataUp, mainQ, up, loaded, shutting, failedOp>>,
         UNCHANGED <<faults, writable, turns, state, prep, active, contexts, final, unsaved>>,
         UNCHANGED <<retrievals, lane, ask, background>>
  PROVE  IInv'
  <1>1. CallTaken
    BY TakesCall
  <1>2. Deferred' \subseteq Deferred /\ soon' \in Seq(CallRecs) /\ LinedCalls(soon')
    BY <1>1 DEF CallTaken, Deferred
  <1>3. \A b \in Attempts : InPreparation(b)' => InPreparation(b)
    BY <1>2, SameQueues DEF InPreparation, PrepOps, PrepEvents, PrepCalls
  <1>4. /\ UNCHANGED dataQ => UNCHANGED Queued
        /\ UNCHANGED mainQ => UNCHANGED Posted
        /\ UNCHANGED soon => UNCHANGED Deferred
    BY SameQueues
  <1>5. /\ \A o \in Queued : OpTyped(o)
        /\ \A e \in Posted : EventTyped(e)
        /\ \A e \in Deferred : CallTyped(e)
    BY AllTyped
  <1>6. Typed'
    BY <1>1, <1>2, <1>3, <1>4, <1>5 DEF IInv, Typed, CallTaken
  <1>7. Loading'
    BY <1>1, <1>2, <1>3, <1>4, <1>5, SMTT(10) DEF IInv, Loading, Typed, CallTaken
  <1>8. Numbered'
    BY <1>1, <1>2, <1>3, <1>4, <1>5, SMTT(10)
       DEF IInv, Numbered, Typed, Loading, Known, Latest, CallTaken
  <1>9. Lined'
    BY <1>1, <1>2, <1>3, <1>4, <1>5, SMTT(10) DEF IInv, Lined, Fits, CallTaken
  <1>10. Preparing'
    BY <1>1, <1>2, <1>3, <1>4, <1>5, SMTT(10)
       DEF IInv, Preparing, PrepOps, PrepEvents, PrepCalls, CallTaken
  <1>11. Attempting'
    BY <1>1, <1>2, <1>3, <1>4, <1>5, AttemptParts, SMTT(10)
       DEF IInv, Attempting, Loading, Finalizing, IdleIsQuiet, LaneIsReleased, Busy,
           EventTyped, Startup, CallTaken
  <1>12. Finalizing'
    BY <1>1, <1>2, <1>3, <1>4, <1>5, SMTT(10)
       DEF IInv, Finalizing, Attempting, Preparing, Begins, Finalizes, FinalEvents,
           FinalCalls, Begin, CallTaken
  <1>13. NotAsked'
    BY <1>1, <1>2, <1>3, <1>4, <1>5, SMTT(10)
       DEF IInv, NotAsked, Preparing, Attempting, Finalizing, InPreparation, PrepOps,
           PrepEvents, PrepCalls, Finalizes, CallTaken
  <1>14. Stepping'
    BY <1>1, <1>2, <1>3, <1>4, <1>5, SMTT(10)
       DEF IInv, Stepping, Typed, Row, A, CallTaken
  <1>15. Beginning'
    BY <1>1, <1>2, <1>3, <1>4, <1>5, SMTT(10)
       DEF IInv, Beginning, Stepping, Typed, Written, Begin, CallTaken
  <1>16. Finishing'
    BY <1>1, <1>2, <1>3, <1>4, <1>5, SMTT(10)
       DEF IInv, Finishing, Stepping, Attempting, Finalizing, Written, Terminal,
           CallTaken
  <1>17. Staging'
    BY <1>1, <1>2, <1>3, <1>4, <1>5, SMTT(10)
       DEF IInv, Staging, Attempting, Preparing, Staged, CallTaken
  <1>18. Asking'
    BY <1>1, <1>2, <1>3, <1>4, <1>5, SMTT(10)
       DEF IInv, Asking, Attempting, Open, CallTaken
  <1>19. Showing'
    BY <1>1, <1>2, <1>3, <1>4, <1>5, SMTT(10)
       DEF IInv, Showing, Attempting, Asking, Typed, Open, InFlight, CallTaken
  <1>20. Saving'
    BY <1>1, <1>2, <1>3, <1>4, <1>5, AttemptParts, SMTT(10)
       DEF IInv, Saving, Finishing, Stepping, Finalizing, Attempting,
           CompletedIsSaved, CallTaken
  <1>21. Faultless'
    BY <1>1, <1>2, <1>3, <1>4, <1>5, SMTT(10)
       DEF IInv, Faultless, Loading, Attempting, Finalizing, Stepping, Beginning,
           InFlight, Begin, CallTaken
  <1> QED  BY <1>6, <1>7, <1>8, <1>9, <1>10, <1>11, <1>12, <1>13, <1>14, <1>15, <1>16, <1>17, <1>18, <1>19, <1>20, <1>21 DEF IInv

\* The coordinator returns to idle.
LEMMA IdleCallStep ==
  ASSUME IInv,
         soon # <<>>, soon' = Tail(soon),
         ~Busy, state' = "idle", lane' \in BOOLEAN,
         state = "idle" => lane' = lane, state # "idle" => lane' = FALSE,
         UNCHANGED <<rows, dataQ, opStep, dataUp, mainQ, up, loaded, shutting, failedOp>>,
         UNCHANGED <<faults, writable, turns, prep, active, contexts, final, unsaved, retrievals>>,
         UNCHANGED <<ask, background>>
  PROVE  IInv'
  <1>1. CallTaken
    BY TakesCall
  <1>2. Deferred' \subseteq Deferred /\ soon' \in Seq(CallRecs) /\ LinedCalls(soon')
    BY <1>1 DEF CallTaken, Deferred
  <1>3. \A b \in Attempts : InPreparation(b)' => InPreparation(b)
    BY <1>2, SameQueues DEF InPreparation, PrepOps, PrepEvents, PrepCalls
  <1>4. state' \in States /\ lane' \in BOOLEAN
    BY DEF IInv, Typed, States
  <1>5. /\ UNCHANGED dataQ => UNCHANGED Queued
        /\ UNCHANGED mainQ => UNCHANGED Posted
        /\ UNCHANGED soon => UNCHANGED Deferred
    BY SameQueues
  <1>6. /\ \A o \in Queued : OpTyped(o)
        /\ \A e \in Posted : EventTyped(e)
        /\ \A e \in Deferred : CallTyped(e)
    BY AllTyped
  <1>7. Typed'
    BY <1>1, <1>2, <1>3, <1>4, <1>5, <1>6 DEF IInv, Typed, CallTaken
  <1>8. Loading'
    BY <1>1, <1>2, <1>3, <1>4, <1>5, <1>6, SMTT(10)
       DEF IInv, Loading, Typed, CallTaken
  <1>9. Numbered'
    BY <1>2, <1>5 DEF IInv, Numbered, Known, Latest
  <1>10. Lined'
    BY <1>1, <1>2, <1>3, <1>4, <1>5, <1>6, SMTT(10) DEF IInv, Lined, Fits, CallTaken
  <1>11. Preparing'
    BY <1>1, <1>2, <1>3, <1>4, <1>5, <1>6, SMTT(10)
       DEF IInv, Preparing, PrepOps, PrepEvents, PrepCalls, CallTaken
  <1>12. Attempting'
    BY <1>1, <1>2, <1>3, <1>4, <1>5, <1>6, AttemptParts, SMTT(10)
       DEF IInv, Attempting, Loading, Finalizing, IdleIsQuiet, LaneIsReleased, Busy,
           EventTyped, Startup, CallTaken
  <1>13. Finalizing'
    BY <1>1, <1>2, <1>3, <1>4, <1>5, <1>6, SMTT(10)
       DEF IInv, Finalizing, Attempting, Preparing, Begins, Finalizes, FinalEvents,
           FinalCalls, Begin, CallTaken
  <1>14. NotAsked'
    BY <1>1, <1>2, <1>3, <1>4, <1>5, <1>6, SMTT(10)
       DEF IInv, NotAsked, Preparing, Attempting, Finalizing, InPreparation, PrepOps,
           PrepEvents, PrepCalls, Finalizes, CallTaken
  <1>15. Stepping'
    BY <1>1, <1>2, <1>3, <1>4, <1>5, <1>6, SMTT(10)
       DEF IInv, Stepping, Typed, Row, A, CallTaken
  <1>16. Beginning'
    BY <1>1, <1>2, <1>3, <1>4, <1>5, <1>6, SMTT(10)
       DEF IInv, Beginning, Stepping, Typed, Written, Begin, CallTaken
  <1>17. Finishing'
    BY <1>1, <1>2, <1>3, <1>4, <1>5, <1>6, SMTT(10)
       DEF IInv, Finishing, Stepping, Attempting, Finalizing, Written, Terminal,
           CallTaken
  <1>18. Staging'
    BY <1>1, <1>2, <1>3, <1>4, <1>5, <1>6, SMTT(10)
       DEF IInv, Staging, Attempting, Preparing, Staged, CallTaken
  <1>19. Asking'
    BY <1>1, <1>2, <1>3, <1>4, <1>5, <1>6, SMTT(10)
       DEF IInv, Asking, Attempting, Open, CallTaken
  <1>20. Showing'
    BY <1>1, <1>2, <1>3, <1>4, <1>5, <1>6, SMTT(10)
       DEF IInv, Showing, Attempting, Asking, Typed, Open, InFlight, CallTaken
  <1>21. Saving'
    BY <1>1, <1>2, <1>3, <1>4, <1>5, <1>6, AttemptParts, SMTT(10)
       DEF IInv, Saving, Finishing, Stepping, Finalizing, Attempting,
           CompletedIsSaved, CallTaken
  <1>22. Faultless'
    BY <1>1, <1>2, <1>3, <1>4, <1>5, <1>6, SMTT(10)
       DEF IInv, Faultless, Loading, Attempting, Finalizing, Stepping, Beginning,
           InFlight, Begin, CallTaken
  <1> QED  BY <1>7, <1>8, <1>9, <1>10, <1>11, <1>12, <1>13, <1>14, <1>15, <1>16, <1>17, <1>18, <1>19, <1>20, <1>21, <1>22 DEF IInv

\* The request of a prepared attempt starts.
LEMMA PreparedStep ==
  ASSUME IInv, NEW a \in Attempts, NEW h,
         soon # <<>>, soon' = Tail(soon),
         h = Head(soon), h.ev = "prepared", h.a = a,
         ~shutting, prep = a, prep' = None, active' = a,
         contexts' = contexts \cup {Context(a)}, state' = "waiting", lane' \in BOOLEAN,
         UNCHANGED <<rows, dataQ, opStep, dataUp, mainQ, up, loaded, shutting, failedOp>>,
         UNCHANGED <<faults, writable, turns, final, unsaved, retrievals, ask, background>>
  PROVE  IInv'
  <1>1. CallTaken
    BY TakesCall
  <1>2. Deferred' \subseteq Deferred /\ soon' \in Seq(CallRecs) /\ LinedCalls(soon')
    BY <1>1 DEF CallTaken, Deferred
  <1>3. /\ a[1] \in Turns /\ a[2] \in 1..MaxRequests /\ a # None
    BY AttemptParts
  <1>4. contexts = {} /\ final = None /\ writable /\ unsaved = None /\ loaded /\ up
    BY <1>3 DEF IInv, Attempting, Loading
  <1>5. /\ contexts' = {Context(a)} /\ Context(a) \in ContextRecs /\ Context(a).a = a
        /\ ~Context(a).terminal
    BY <1>4, ConversationAssumption DEF Context, ContextRecs
  <1>6. h \in Deferred /\ h \in PrepCalls(a)
    BY <1>1 DEF CallTaken, CallTyped, PrepCalls
  <1>7. rows[a[1]] = Message("pending", a[2], 0)
    BY <1>3, <1>6 DEF IInv, Staging, Staged
  <1>8. rows[a[1]].attempt = a[2] /\ rows[a[1]].status \in Open
    BY <1>7 DEF Message, Open
  <1>9. \A b \in Attempts : InPreparation(b)' => InPreparation(b)
    BY <1>2, SameQueues DEF InPreparation, PrepOps, PrepEvents, PrepCalls
  <1>10. ~InPreparation(a)'
    BY <1>1, <1>2, <1>6, SameQueues
       DEF InPreparation, IInv, Preparing, CallTaken, Deferred
  <1>11. /\ \A o \in Queued : o.op # "finalize" /\ o \notin Finalizes
         /\ \A e \in Posted : e \notin FinalEvents /\ e.ev # "finalized"
         /\ \A e \in Deferred : e \notin FinalCalls /\ e.ev # "final_ok"
    BY AllTyped, AttemptParts, <1>4
       DEF IInv, Finalizing, OpTyped, EventTyped, CallTyped, Finalizes, FinalEvents,
           FinalCalls, Startup
  <1>12. /\ \A t \in Turns : t # a[1] => ~InFlight(t) /\ ~InFlight(t)'
         /\ InFlight(a[1])'
    BY <1>3, <1>4, <1>5 DEF InFlight
  <1>13. \A o \in Queued : o \notin Begins
        <2> SUFFICES ASSUME NEW o \in Queued, o \in Begins
                 PROVE  FALSE
      OBVIOUS
    <2>1. o.a = a
      BY <1>4, AllTyped, AttemptParts DEF IInv, Finalizing, OpTyped, Begins, Begin
    <2>2. o \in PrepOps(a)
      BY <2>1 DEF Begins, PrepOps
    <2> QED  BY <1>6, <2>2 DEF IInv, Preparing

  <1>14. \A o \in Queued : o.op \notin Begin
    BY <1>13, AllTyped DEF Begins, OpTyped
  <1>15. /\ UNCHANGED dataQ => UNCHANGED Queued
         /\ UNCHANGED mainQ => UNCHANGED Posted
         /\ UNCHANGED soon => UNCHANGED Deferred
    BY SameQueues
  <1>16. /\ \A o \in Queued : OpTyped(o)
         /\ \A e \in Posted : EventTyped(e)
         /\ \A e \in Deferred : CallTyped(e)
    BY AllTyped
  <1>17. Typed'
    BY <1>1, <1>2, <1>3, <1>4, <1>5, <1>6, <1>7, <1>8, <1>9, <1>10, <1>11, <1>12,
       <1>13, <1>14, <1>15, <1>16
       DEF IInv, Typed, CallTaken, States, Visible
  <1>18. Loading'
    BY <1>1, <1>2, <1>3, <1>4, <1>5, <1>6, <1>7, <1>8, <1>9, <1>10, <1>11, <1>12,
       <1>13, <1>14, <1>15, <1>16, SMTT(10)
       DEF IInv, Loading, Typed, CallTaken
  <1>19. Numbered'
    BY <1>2, <1>3, <1>5, <1>15 DEF IInv, Numbered, Known, Latest
  <1>20. Lined'
    BY <1>1, <1>2, <1>3, <1>4, <1>5, <1>6, <1>7, <1>8, <1>9, <1>10, <1>11, <1>12,
       <1>13, <1>14, <1>15, <1>16, SMTT(10)
       DEF IInv, Lined, Fits, CallTaken
  <1>21. Preparing'
    BY <1>1, <1>2, <1>3, <1>4, <1>5, <1>6, <1>7, <1>8, <1>9, <1>10, <1>11, <1>12,
       <1>13, <1>14, <1>15, <1>16, SMTT(10)
       DEF IInv, Preparing, PrepOps, PrepEvents, PrepCalls, CallTaken
  <1>22. Attempting'
    BY <1>1, <1>2, <1>3, <1>4, <1>5, <1>6, <1>7, <1>8, <1>9, <1>10, <1>11, <1>12,
       <1>13, <1>14, <1>15, <1>16, AttemptParts, SMTT(10)
       DEF IInv, Attempting, Loading, Finalizing, IdleIsQuiet, LaneIsReleased, Busy,
           EventTyped, Startup, CallTaken
  <1>23. Finalizing'
    BY <1>1, <1>2, <1>3, <1>4, <1>5, <1>6, <1>7, <1>8, <1>9, <1>10, <1>11, <1>12,
       <1>13, <1>14, <1>15, <1>16, SMTT(10)
       DEF IInv, Finalizing, Attempting, Preparing, Begins, Finalizes, FinalEvents,
           FinalCalls, Begin, CallTaken
  <1>24. NotAsked'
    BY <1>1, <1>2, <1>3, <1>4, <1>5, <1>6, <1>7, <1>8, <1>9, <1>10, <1>11, <1>12,
       <1>13, <1>14, <1>15, <1>16, SMTT(10)
       DEF IInv, NotAsked, Preparing, Attempting, Finalizing, InPreparation, PrepOps,
           PrepEvents, PrepCalls, Finalizes, CallTaken
  <1>25. Stepping'
    BY <1>1, <1>2, <1>3, <1>4, <1>5, <1>6, <1>7, <1>8, <1>9, <1>10, <1>11, <1>12,
       <1>13, <1>14, <1>15, <1>16, SMTT(10)
       DEF IInv, Stepping, Typed, Row, A, CallTaken
  <1>26. Beginning'
    BY <1>1, <1>2, <1>3, <1>4, <1>5, <1>6, <1>7, <1>8, <1>9, <1>10, <1>11, <1>12,
       <1>13, <1>14, <1>15, <1>16, SMTT(10)
       DEF IInv, Beginning, Stepping, Typed, Written, Begin, CallTaken
  <1>27. Finishing'
    BY <1>1, <1>2, <1>3, <1>4, <1>5, <1>6, <1>7, <1>8, <1>9, <1>10, <1>11, <1>12,
       <1>13, <1>14, <1>15, <1>16, SMTT(10)
       DEF IInv, Finishing, Stepping, Attempting, Finalizing, Written, Terminal,
           CallTaken
  <1>28. Staging'
    BY <1>15, <1>16, AttemptParts DEF Staging, OpTyped
  <1>29. Asking'
    BY <1>1, <1>2, <1>3, <1>4, <1>5, <1>6, <1>7, <1>8, <1>9, <1>10, <1>11, <1>12,
       <1>13, <1>14, <1>15, <1>16, SMTT(10)
       DEF IInv, Asking, Attempting, Open, CallTaken
  <1>30. Showing'
    <2>1. \A e \in Posted' : e.ev = "loaded" => \A t \in Turns :
         rows'[t].status \notin Open
      BY <1>1, <1>2, <1>3, <1>4, <1>5, <1>6, <1>7, <1>8, <1>9, <1>10, <1>11, <1>12,
         <1>13, <1>14, <1>15, <1>16, SMTT(10)
         DEF IInv, Showing, Attempting, Asking, Typed, Open, InFlight
    <2>2. loaded' /\ ~shutting' => \A t \in Turns : rows'[t].attempt <=
         turns'[t].attempt
      BY <1>1, <1>2, <1>3, <1>4, <1>5, <1>6, <1>7, <1>8, <1>9, <1>10, <1>11, <1>12,
         <1>13, <1>14, <1>15, <1>16, SMTT(10)
         DEF IInv, Showing, Attempting, Asking, Typed, Open, InFlight
    <2>3. loaded' /\ ~shutting' => \A t \in Turns : turns'[t].status \in Open
         => InFlight(t)'
      BY <1>1, <1>2, <1>3, <1>4, <1>5, <1>6, <1>7, <1>8, <1>9, <1>10, <1>11, <1>12,
         <1>13, <1>14, <1>15, <1>16, SMTT(10)
         DEF IInv, Showing, Attempting, Asking, Typed, Open, InFlight
    <2>4. loaded' /\ ~shutting' /\ writable' => \A t \in Turns :
         rows'[t].status = "completed" => turns'[t].status = "completed"
      BY <1>1, <1>2, <1>3, <1>4, <1>5, <1>6, <1>7, <1>8, <1>9, <1>10, <1>11, <1>12,
         <1>13, <1>14, <1>15, <1>16, SMTT(10)
         DEF IInv, Showing, Attempting, Asking, Typed, Open, InFlight
    <2> QED  BY <2>1, <2>2, <2>3, <2>4 DEF Showing, Open
  <1>31. Saving'
    BY <1>1, <1>2, <1>3, <1>4, <1>5, <1>6, <1>7, <1>8, <1>9, <1>10, <1>11, <1>12,
       <1>13, <1>14, <1>15, <1>16, AttemptParts, SMTT(10)
       DEF IInv, Saving, Finishing, Stepping, Finalizing, Attempting,
           CompletedIsSaved, CallTaken
  <1>32. Faultless'
    <2>1. up' /\ ~failedOp' /\ ~shutting' => \A e \in Posted' : e.ev \notin
         {"not_prepared", "not_finalized"}
      BY <1>1, <1>2, <1>3, <1>4, <1>5, <1>6, <1>7, <1>8, <1>9, <1>10, <1>11, <1>12,
         <1>13, <1>14, <1>15, <1>16, SMTT(10)
         DEF IInv, Faultless, Loading, Attempting, Finalizing, Stepping, Beginning,
             InFlight, Begin
    <2>2. up' /\ ~failedOp' /\ ~shutting' => \A e \in Deferred' : e.ev \notin
         {"prepare_failed", "final_failed"}
      BY <1>1, <1>2, <1>3, <1>4, <1>5, <1>6, <1>7, <1>8, <1>9, <1>10, <1>11, <1>12,
         <1>13, <1>14, <1>15, <1>16, SMTT(10)
         DEF IInv, Faultless, Loading, Attempting, Finalizing, Stepping, Beginning,
             InFlight, Begin
    <2>3. up' /\ ~failedOp' /\ ~shutting' /\ prep' # None =>
         rows'[prep'[1]].attempt = prep'[2] \/ \E o \in Queued' : o.op \in
         Begin /\ o.a = prep'
      BY <1>1, <1>2, <1>3, <1>4, <1>5, <1>6, <1>7, <1>8, <1>9, <1>10, <1>11, <1>12,
         <1>13, <1>14, <1>15, <1>16, SMTT(10)
         DEF Loading, Attempting, Finalizing, Stepping, Beginning, InFlight, Begin
    <2>4. up' /\ ~failedOp' /\ ~shutting' => \A o \in Queued' : o.op =
         "finalize" => rows'[o.a[1]].attempt = o.a[2] \/ \E b \in Queued' :
         b.op \in Begin /\ b.a = o.a
      BY <1>1, <1>2, <1>3, <1>4, <1>5, <1>6, <1>7, <1>8, <1>9, <1>10, <1>11, <1>12,
         <1>13, <1>14, <1>15, <1>16, SMTT(10)
         DEF Loading, Attempting, Finalizing, Stepping, Beginning, InFlight, Begin
    <2>5. up' /\ ~failedOp' /\ ~shutting' /\ loaded' => \A t \in Turns :
         turns'[t] = rows'[t] \/ InFlight(t)' \/ (final' # None /\ final'[1]
         = t)
      BY <1>1, <1>2, <1>3, <1>4, <1>5, <1>6, <1>7, <1>8, <1>9, <1>10, <1>11, <1>12,
         <1>13, <1>14, <1>15, <1>16, SMTT(10)
         DEF IInv, Faultless, Loading, Attempting, Finalizing, Stepping, Beginning,
             InFlight, Begin
    <2> QED  BY <2>1, <2>2, <2>3, <2>4, <2>5 DEF Faultless, Begin
  <1> QED  BY <1>17, <1>18, <1>19, <1>20, <1>21, <1>22, <1>23, <1>24, <1>25, <1>26, <1>27, <1>28, <1>29, <1>30, <1>31, <1>32 DEF IInv

\* The attempt whose preparation failed is given up.
LEMMA PrepareFailedStep ==
  ASSUME IInv, NEW a \in Attempts, NEW h,
         soon # <<>>, NothingElse \/ ThenIdle,
         h = Head(soon), h.ev = "prepare_failed", h.a = a,
         ~shutting, prep = a, prep' = None, active' = None,
         Show(a, "failed"), state' = "failed", lane' \in BOOLEAN,
         UNCHANGED <<rows, dataQ, opStep, dataUp, mainQ, up, loaded, shutting, failedOp>>,
         UNCHANGED <<faults, writable, contexts, final, unsaved, retrievals, ask, background>>
  PROVE  IInv'
  <1>1. CallTaken
    BY TakesCall
  <1>2. CallDone
    BY DoesCall
  <1>3. /\ a[1] \in Turns /\ a[2] \in 1..MaxRequests /\ a # None /\ turns[a[1]].attempt = a[2]
    BY AttemptParts DEF IInv, Numbered, Latest
  <1>4. contexts = {} /\ final = None /\ writable /\ unsaved = None /\ loaded /\ up
    BY <1>3 DEF IInv, Attempting, Loading
  <1>5. /\ turns' \in [Turns -> Messages]
        /\ turns'[a[1]].status = "failed" /\ turns'[a[1]].attempt = a[2]
        /\ \A t \in Turns : t # a[1] => turns'[t] = turns[t]
    BY <1>3 DEF Show, IInv, Typed, Messages, Message, Statuses, Terminal
  <1>6. h \in Deferred /\ h \in PrepCalls(a)
    BY <1>1 DEF CallTaken, CallTyped, PrepCalls
  <1>7. rows[a[1]].status # "completed"
    BY <1>3 DEF IInv, Staging
  <1>8. failedOp
    BY <1>4, <1>6 DEF IInv, Faultless, Typed
  <1>9. \A b \in Attempts \cup {None} : Known(b) => Known(b)'
        <2> SUFFICES ASSUME NEW b \in Attempts, b[2] <= turns[b[1]].attempt
                 PROVE  b[2] <= turns'[b[1]].attempt
      BY AttemptParts DEF Known
    <2>1. b[1] \in Turns /\ b[2] \in Nat
      BY AttemptParts
    <2>2. turns[b[1]].attempt \in Nat /\ turns'[b[1]].attempt \in Nat
      BY <2>1, <1>3, <1>5 DEF IInv, Typed, Messages
    <2>3. CASE b[1] = a[1]
      BY <2>1, <2>2, <2>3, <1>3, <1>5 DEF Message
    <2>4. CASE b[1] # a[1]
      BY <2>1, <2>2, <2>4, <1>3, <1>5
    <2> QED  BY <2>3, <2>4

  <1>10. \A b \in Attempts : InPreparation(b)' => InPreparation(b)
    BY <1>1, <1>2, SameQueues
       DEF InPreparation, PrepOps, PrepEvents, PrepCalls, CallTaken, CallDone,
           CallTyped
  <1>11. /\ \A o \in Queued : o.op # "finalize" /\ o \notin Finalizes
         /\ \A e \in Posted : e \notin FinalEvents /\ e.ev # "finalized"
         /\ \A e \in Deferred : e \notin FinalCalls /\ e.ev # "final_ok"
    BY AllTyped, AttemptParts, <1>4
       DEF IInv, Finalizing, OpTyped, EventTyped, CallTyped, Finalizes, FinalEvents,
           FinalCalls, Startup
  <1>12. \A t \in Turns : InFlight(t) = (t = a[1]) /\ ~InFlight(t)'
    BY <1>3, <1>4 DEF InFlight
  <1>13. \A o \in Queued : o \notin Begins
        <2> SUFFICES ASSUME NEW o \in Queued, o \in Begins
                 PROVE  FALSE
      OBVIOUS
    <2>1. o.a = a
      BY <1>4, AllTyped, AttemptParts DEF IInv, Finalizing, OpTyped, Begins, Begin
    <2>2. o \in PrepOps(a)
      BY <2>1 DEF Begins, PrepOps
    <2> QED  BY <1>6, <2>2 DEF IInv, Preparing

  <1>14. /\ \A e \in Deferred' : e \in Deferred \/ (CallTyped(e) /\ e.ev = "idle" /\ e.a = None)
         /\ LinedCalls(soon') /\ soon' \in Seq(CallRecs)
         /\ \A e \in Deferred' : CallTyped(e) /\ e.ev # "final_ok" /\ e \notin FinalCalls
    BY <1>1, <1>2, <1>11, AllTyped DEF CallTaken, CallDone, FinalCalls
  <1>15. \A t, n : final # <<t, n>>
    BY <1>4 DEF None
  <1>16. /\ \A t \in Turns : turns'[t].attempt = turns[t].attempt
         /\ \A t \in Turns : turns'[t].status \in Open => t # a[1] /\ turns[t].status \in Open
    BY <1>3, <1>5 DEF Open
  <1>17. /\ UNCHANGED dataQ => UNCHANGED Queued
         /\ UNCHANGED mainQ => UNCHANGED Posted
         /\ UNCHANGED soon => UNCHANGED Deferred
    BY SameQueues
  <1>18. /\ \A o \in Queued : OpTyped(o)
         /\ \A e \in Posted : EventTyped(e)
         /\ \A e \in Deferred : CallTyped(e)
    BY AllTyped
  <1>19. Typed'
    BY <1>1, <1>2, <1>3, <1>4, <1>5, <1>6, <1>7, <1>8, <1>9, <1>10, <1>11, <1>12,
       <1>13, <1>14, <1>15, <1>16, <1>17, <1>18
       DEF IInv, Typed, CallTaken, CallDone, States, Visible, Terminal
  <1>20. Loading'
    BY <1>1, <1>2, <1>3, <1>4, <1>5, <1>6, <1>7, <1>8, <1>9, <1>10, <1>11, <1>12,
       <1>13, <1>14, <1>15, <1>16, <1>17, <1>18, SMTT(10)
       DEF IInv, Loading, Typed, CallTaken, CallDone
  <1>21. Numbered'
    <2>1. (\A b \in Attempts \cup {None} : Known(b) => Known(b)') /\ turns' \in [Turns -> Messages]
      BY <1>1, <1>2, <1>3, <1>4, <1>5, <1>6, <1>7, <1>8, <1>9, <1>10, <1>11, <1>12,
         <1>13, <1>14, <1>15, <1>16, <1>17, <1>18
    <2>2. \A o \in Queued' : Known(o.a)'
      BY <1>1, <1>2, <1>3, <1>4, <1>5, <1>6, <1>7, <1>8, <1>9, <1>10, <1>11, <1>12,
         <1>13, <1>14, <1>15, <1>16, <1>17, <1>18
         DEF IInv, Numbered, OpTyped, OpAdded, Persisted
    <2>3. /\ \A e \in Posted' : Known(e.a)'
          /\ \A e \in Deferred' : Known(e.a)'
      BY <1>1, <1>2, <1>3, <1>4, <1>5, <1>6, <1>7, <1>8, <1>9, <1>10, <1>11, <1>12,
         <1>13, <1>14, <1>15, <1>16, <1>17, <1>18
         DEF IInv, Numbered, EventTyped, CallTyped, Persisted, Known
    <2>4. /\ \A b \in retrievals' : Known(b)'
          /\ \A c \in contexts' : Known(c.a)'
      BY <1>1, <1>2, <1>3, <1>4, <1>5, <1>6, <1>7, <1>8, <1>9, <1>10, <1>11, <1>12,
         <1>13, <1>14, <1>15, <1>16, <1>17, <1>18
         DEF IInv, Typed, Numbered, ContextRecs, Known
    <2>5. Latest(prep)' /\ Latest(active)' /\ Latest(final)'
      BY <1>1, <1>2, <1>3, <1>4, <1>5, <1>6, <1>7, <1>8, <1>9, <1>10, <1>11, <1>12,
         <1>13, <1>14, <1>15, <1>16, <1>17, <1>18
         DEF IInv, Numbered, Latest, Persisted
    <2>6. \A t \in Turns : /\ turns'[t].status = "absent" => turns'[t].attempt = 0
                           /\ rows'[t].status = "absent" => rows'[t].attempt = 0
      BY <1>1, <1>2, <1>3, <1>4, <1>5, <1>6, <1>7, <1>8, <1>9, <1>10, <1>11, <1>12,
         <1>13, <1>14, <1>15, <1>16, <1>17, <1>18
         DEF IInv, Numbered, Terminal
    <2> QED  BY <2>2, <2>3, <2>4, <2>5, <2>6 DEF Numbered
  <1>22. Lined'
    BY <1>1, <1>2, <1>3, <1>4, <1>5, <1>6, <1>7, <1>8, <1>9, <1>10, <1>11, <1>12,
       <1>13, <1>14, <1>15, <1>16, <1>17, <1>18, SMTT(10)
       DEF IInv, Lined, Fits, CallTaken, CallDone
  <1>23. Preparing'
    BY <1>1, <1>2, <1>3, <1>4, <1>5, <1>6, <1>7, <1>8, <1>9, <1>10, <1>11, <1>12,
       <1>13, <1>14, <1>15, <1>16, <1>17, <1>18, SMTT(10)
       DEF IInv, Preparing, PrepOps, PrepEvents, PrepCalls, CallTaken, CallDone
  <1>24. Attempting'
    BY <1>1, <1>2, <1>3, <1>4, <1>5, <1>6, <1>7, <1>8, <1>9, <1>10, <1>11, <1>12,
       <1>13, <1>14, <1>15, <1>16, <1>17, <1>18, AttemptParts, SMTT(10)
       DEF IInv, Attempting, Loading, Finalizing, IdleIsQuiet, LaneIsReleased, Busy,
           EventTyped, Startup, CallTaken, CallDone
  <1>25. Finalizing'
    BY <1>1, <1>2, <1>3, <1>4, <1>5, <1>6, <1>7, <1>8, <1>9, <1>10, <1>11, <1>12,
       <1>13, <1>14, <1>15, <1>16, <1>17, <1>18, SMTT(10)
       DEF IInv, Finalizing, Attempting, Preparing, Begins, Finalizes, FinalEvents,
           FinalCalls, Begin, CallTaken, CallDone
  <1>26. NotAsked'
    BY <1>1, <1>2, <1>3, <1>4, <1>5, <1>6, <1>7, <1>8, <1>9, <1>10, <1>11, <1>12,
       <1>13, <1>14, <1>15, <1>16, <1>17, <1>18, SMTT(10)
       DEF IInv, NotAsked, Preparing, Attempting, Finalizing, InPreparation, PrepOps,
           PrepEvents, PrepCalls, Finalizes, CallTaken, CallDone
  <1>27. Stepping'
    BY <1>1, <1>2, <1>3, <1>4, <1>5, <1>6, <1>7, <1>8, <1>9, <1>10, <1>11, <1>12,
       <1>13, <1>14, <1>15, <1>16, <1>17, <1>18, SMTT(10)
       DEF IInv, Stepping, Typed, Row, A, CallTaken, CallDone
  <1>28. Beginning'
    BY <1>1, <1>2, <1>3, <1>4, <1>5, <1>6, <1>7, <1>8, <1>9, <1>10, <1>11, <1>12,
       <1>13, <1>14, <1>15, <1>16, <1>17, <1>18, SMTT(10)
       DEF IInv, Beginning, Stepping, Typed, Written, Begin, CallTaken, CallDone
  <1>29. Finishing'
    BY <1>1, <1>2, <1>3, <1>4, <1>5, <1>6, <1>7, <1>8, <1>9, <1>10, <1>11, <1>12,
       <1>13, <1>14, <1>15, <1>16, <1>17, <1>18, SMTT(10)
       DEF IInv, Finishing, Stepping, Attempting, Finalizing, Written, Terminal,
           CallTaken, CallDone
  <1>30. Staging'
    BY <1>17, <1>18, AttemptParts DEF Staging, OpTyped
  <1>31. Asking'
    BY <1>1, <1>2, <1>3, <1>4, <1>5, <1>6, <1>7, <1>8, <1>9, <1>10, <1>11, <1>12,
       <1>13, <1>14, <1>15, <1>16, <1>17, <1>18, SMTT(10)
       DEF IInv, Asking, Attempting, Open, CallTaken, CallDone
  <1>32. Showing'
    <2>1. \A e \in Posted' : e.ev = "loaded" => \A t \in Turns :
         rows'[t].status \notin Open
      BY <1>1, <1>2, <1>3, <1>4, <1>5, <1>6, <1>7, <1>8, <1>9, <1>10, <1>11, <1>12,
         <1>13, <1>14, <1>15, <1>16, <1>17, <1>18, SMTT(10)
         DEF IInv, Showing, Attempting, Asking, Typed, Open, InFlight
    <2>2. loaded' /\ ~shutting' => \A t \in Turns : rows'[t].attempt <=
         turns'[t].attempt
      BY <1>1, <1>2, <1>3, <1>4, <1>5, <1>6, <1>7, <1>8, <1>9, <1>10, <1>11, <1>12,
         <1>13, <1>14, <1>15, <1>16, <1>17, <1>18, SMTT(10)
         DEF IInv, Showing, Attempting, Asking, Typed, Open, InFlight
    <2>3. loaded' /\ ~shutting' => \A t \in Turns : turns'[t].status \in Open
         => InFlight(t)'
      BY <1>1, <1>2, <1>3, <1>4, <1>5, <1>6, <1>7, <1>8, <1>9, <1>10, <1>11, <1>12,
         <1>13, <1>14, <1>15, <1>16, <1>17, <1>18, SMTT(10)
         DEF IInv, Showing, Attempting, Asking, Typed, Open, InFlight
    <2>4. loaded' /\ ~shutting' /\ writable' => \A t \in Turns :
         rows'[t].status = "completed" => turns'[t].status = "completed"
      BY <1>5, <1>7 DEF IInv, Showing
    <2> QED  BY <2>1, <2>2, <2>3, <2>4 DEF Showing, Open
  <1>33. Saving'
    BY <1>1, <1>2, <1>3, <1>4, <1>5, <1>6, <1>7, <1>8, <1>9, <1>10, <1>11, <1>12,
       <1>13, <1>14, <1>15, <1>16, <1>17, <1>18, AttemptParts, SMTT(10)
       DEF IInv, Saving, Finishing, Stepping, Finalizing, Attempting,
           CompletedIsSaved, CallTaken, CallDone
  <1>34. Faultless'
    BY <1>1, <1>2, <1>3, <1>4, <1>5, <1>6, <1>7, <1>8, <1>9, <1>10, <1>11, <1>12,
       <1>13, <1>14, <1>15, <1>16, <1>17, <1>18, SMTT(10)
       DEF IInv, Faultless, Loading, Attempting, Finalizing, Stepping, Beginning,
           InFlight, Begin, CallTaken, CallDone
  <1> QED  BY <1>19, <1>20, <1>21, <1>22, <1>23, <1>24, <1>25, <1>26, <1>27, <1>28, <1>29, <1>30, <1>31, <1>32, <1>33, <1>34 DEF IInv

\* The finalization succeeded.
LEMMA FinOKStep ==
  ASSUME IInv, NEW a \in Attempts, NEW h,
         soon # <<>>, NothingElse \/ ThenIdle,
         h = Head(soon), h.ev = "final_ok", h.a = a,
         final = a, final' = None,
         UNCHANGED <<rows, dataQ, opStep, dataUp, mainQ, up, loaded, shutting, failedOp>>,
         UNCHANGED <<faults, writable, turns, state, prep, active, contexts, unsaved, retrievals>>,
         UNCHANGED <<lane, ask, background>>
  PROVE  IInv'
  <1>1. CallTaken
    BY TakesCall
  <1>2. CallDone
    BY DoesCall
  <1>3. /\ a[1] \in Turns /\ a[2] \in 1..MaxRequests /\ a # None /\ turns[a[1]].attempt = a[2]
        /\ a = <<a[1], turns[a[1]].attempt>>
    BY AttemptParts DEF IInv, Numbered, Latest
  <1>4. prep = None /\ (\A c \in contexts : c.terminal) /\ unsaved = None /\ loaded /\ up
    BY <1>3 DEF IInv, Attempting, Loading
  <1>5. h \in Deferred /\ h \in FinalCalls
    BY <1>1 DEF CallTaken, CallTyped, FinalCalls
  <1>6. /\ \A o \in Queued : o \notin Begins /\ o \notin Finalizes
        /\ \A e \in Posted : e \notin FinalEvents
    BY <1>5 DEF IInv, Finalizing
  <1>7. \A o \in Queued : o.op \notin Begin /\ o.op # "finalize"
    BY <1>6, AllTyped DEF Begins, Finalizes, OpTyped
  <1>8. \A e \in Posted : e.ev # "finalized"
    BY <1>6, AllTyped DEF FinalEvents, EventTyped
  <1>9. \A e \in Deferred' : CallTyped(e) /\ e \notin FinalCalls /\ (e \in Deferred \/ (e.ev = "idle" /\ e.a = None))
    BY <1>1, <1>2, <1>5, AllTyped DEF CallTaken, CallDone, FinalCalls
  <1>10. \A e \in Deferred' : e.ev # "final_ok"
    BY <1>9 DEF FinalCalls, CallTyped
  <1>11. LinedCalls(soon') /\ soon' \in Seq(CallRecs)
    BY <1>2 DEF CallDone
  <1>12. \A b \in Attempts : InPreparation(b)' => InPreparation(b)
    BY <1>1, <1>2, SameQueues
       DEF InPreparation, PrepOps, PrepEvents, PrepCalls, CallTaken, CallDone,
           CallTyped
  <1>13. rows[a[1]] = turns[a[1]] \/ (failedOp /\ turns[a[1]].status # "completed")
    BY <1>5 DEF IInv, Saving
  <1>14. \A t \in Turns : InFlight(t)' = InFlight(t)
    BY DEF InFlight
  <1>15. /\ UNCHANGED dataQ => UNCHANGED Queued
         /\ UNCHANGED mainQ => UNCHANGED Posted
         /\ UNCHANGED soon => UNCHANGED Deferred
    BY SameQueues
  <1>16. /\ \A o \in Queued : OpTyped(o)
         /\ \A e \in Posted : EventTyped(e)
         /\ \A e \in Deferred : CallTyped(e)
    BY AllTyped
  <1>17. Typed'
    BY <1>1, <1>2, <1>3, <1>4, <1>5, <1>6, <1>7, <1>8, <1>9, <1>10, <1>11, <1>12,
       <1>13, <1>14, <1>15, <1>16
       DEF IInv, Typed, CallTaken, CallDone
  <1>18. Loading'
    BY <1>1, <1>2, <1>3, <1>4, <1>5, <1>6, <1>7, <1>8, <1>9, <1>10, <1>11, <1>12,
       <1>13, <1>14, <1>15, <1>16, SMTT(10)
       DEF IInv, Loading, Typed, CallTaken, CallDone
  <1>19. Numbered'
    BY <1>1, <1>2, <1>3, <1>4, <1>5, <1>6, <1>7, <1>8, <1>9, <1>10, <1>11, <1>12,
       <1>13, <1>14, <1>15, <1>16, SMTT(10)
       DEF IInv, Numbered, Typed, Loading, Known, Latest, CallTaken, CallDone
  <1>20. Lined'
    BY <1>1, <1>2, <1>3, <1>4, <1>5, <1>6, <1>7, <1>8, <1>9, <1>10, <1>11, <1>12,
       <1>13, <1>14, <1>15, <1>16, SMTT(10)
       DEF IInv, Lined, Fits, CallTaken, CallDone
  <1>21. Preparing'
    BY <1>1, <1>2, <1>3, <1>4, <1>5, <1>6, <1>7, <1>8, <1>9, <1>10, <1>11, <1>12,
       <1>13, <1>14, <1>15, <1>16, SMTT(10)
       DEF IInv, Preparing, PrepOps, PrepEvents, PrepCalls, CallTaken, CallDone
  <1>22. Attempting'
    BY <1>1, <1>2, <1>3, <1>4, <1>5, <1>6, <1>7, <1>8, <1>9, <1>10, <1>11, <1>12,
       <1>13, <1>14, <1>15, <1>16, AttemptParts, SMTT(10)
       DEF IInv, Attempting, Loading, Finalizing, IdleIsQuiet, LaneIsReleased, Busy,
           EventTyped, Startup, CallTaken, CallDone
  <1>23. Finalizing'
    BY <1>1, <1>2, <1>3, <1>4, <1>5, <1>6, <1>7, <1>8, <1>9, <1>10, <1>11, <1>12,
       <1>13, <1>14, <1>15, <1>16, SMTT(10)
       DEF IInv, Finalizing, Attempting, Preparing, Begins, Finalizes, FinalEvents,
           FinalCalls, Begin, CallTaken, CallDone
  <1>24. NotAsked'
    BY <1>1, <1>2, <1>3, <1>4, <1>5, <1>6, <1>7, <1>8, <1>9, <1>10, <1>11, <1>12,
       <1>13, <1>14, <1>15, <1>16, SMTT(10)
       DEF IInv, NotAsked, Preparing, Attempting, Finalizing, InPreparation, PrepOps,
           PrepEvents, PrepCalls, Finalizes, CallTaken, CallDone
  <1>25. Stepping'
    BY <1>1, <1>2, <1>3, <1>4, <1>5, <1>6, <1>7, <1>8, <1>9, <1>10, <1>11, <1>12,
       <1>13, <1>14, <1>15, <1>16, SMTT(10)
       DEF IInv, Stepping, Typed, Row, A, CallTaken, CallDone
  <1>26. Beginning'
    BY <1>1, <1>2, <1>3, <1>4, <1>5, <1>6, <1>7, <1>8, <1>9, <1>10, <1>11, <1>12,
       <1>13, <1>14, <1>15, <1>16, SMTT(10)
       DEF IInv, Beginning, Stepping, Typed, Written, Begin, CallTaken, CallDone
  <1>27. Finishing'
    BY <1>1, <1>2, <1>3, <1>4, <1>5, <1>6, <1>7, <1>8, <1>9, <1>10, <1>11, <1>12,
       <1>13, <1>14, <1>15, <1>16, SMTT(10)
       DEF IInv, Finishing, Stepping, Attempting, Finalizing, Written, Terminal,
           CallTaken, CallDone
  <1>28. Staging'
    BY <1>1, <1>2, <1>3, <1>4, <1>5, <1>6, <1>7, <1>8, <1>9, <1>10, <1>11, <1>12,
       <1>13, <1>14, <1>15, <1>16, SMTT(10)
       DEF IInv, Staging, Attempting, Preparing, Staged, CallTaken, CallDone
  <1>29. Asking'
    BY <1>1, <1>2, <1>3, <1>4, <1>5, <1>6, <1>7, <1>8, <1>9, <1>10, <1>11, <1>12,
       <1>13, <1>14, <1>15, <1>16, SMTT(10)
       DEF IInv, Asking, Attempting, Open, CallTaken, CallDone
  <1>30. Showing'
    BY <1>1, <1>2, <1>3, <1>4, <1>5, <1>6, <1>7, <1>8, <1>9, <1>10, <1>11, <1>12,
       <1>13, <1>14, <1>15, <1>16, SMTT(10)
       DEF IInv, Showing, Attempting, Asking, Typed, Open, InFlight, CallTaken,
           CallDone
  <1>31. Saving'
    BY <1>1, <1>2, <1>3, <1>4, <1>5, <1>6, <1>7, <1>8, <1>9, <1>10, <1>11, <1>12,
       <1>13, <1>14, <1>15, <1>16, AttemptParts, SMTT(10)
       DEF IInv, Saving, Finishing, Stepping, Finalizing, Attempting,
           CompletedIsSaved, CallTaken, CallDone
  <1>32. Faultless'
    <2>1. up' /\ ~failedOp' /\ ~shutting' => \A e \in Posted' : e.ev \notin
         {"not_prepared", "not_finalized"}
      BY <1>1, <1>2, <1>3, <1>4, <1>5, <1>6, <1>7, <1>8, <1>9, <1>10, <1>11, <1>12,
         <1>13, <1>14, <1>15, <1>16, SMTT(10)
         DEF IInv, Faultless, Loading, Attempting, Finalizing, Stepping, Beginning,
             InFlight, Begin
    <2>2. up' /\ ~failedOp' /\ ~shutting' => \A e \in Deferred' : e.ev \notin
         {"prepare_failed", "final_failed"}
      BY <1>1, <1>2, <1>3, <1>4, <1>5, <1>6, <1>7, <1>8, <1>9, <1>10, <1>11, <1>12,
         <1>13, <1>14, <1>15, <1>16, SMTT(10)
         DEF IInv, Faultless, Loading, Attempting, Finalizing, Stepping, Beginning,
             InFlight, Begin
    <2>3. up' /\ ~failedOp' /\ ~shutting' /\ prep' # None =>
         rows'[prep'[1]].attempt = prep'[2] \/ \E o \in Queued' : o.op \in
         Begin /\ o.a = prep'
      BY <1>1, <1>2, <1>3, <1>4, <1>5, <1>6, <1>7, <1>8, <1>9, <1>10, <1>11, <1>12,
         <1>13, <1>14, <1>15, <1>16, SMTT(10)
         DEF Loading, Attempting, Finalizing, Stepping, Beginning, InFlight, Begin
    <2>4. up' /\ ~failedOp' /\ ~shutting' => \A o \in Queued' : o.op =
         "finalize" => rows'[o.a[1]].attempt = o.a[2] \/ \E b \in Queued' :
         b.op \in Begin /\ b.a = o.a
      BY <1>1, <1>2, <1>3, <1>4, <1>5, <1>6, <1>7, <1>8, <1>9, <1>10, <1>11, <1>12,
         <1>13, <1>14, <1>15, <1>16, SMTT(10)
         DEF Loading, Attempting, Finalizing, Stepping, Beginning, InFlight, Begin
    <2>5. up' /\ ~failedOp' /\ ~shutting' /\ loaded' => \A t \in Turns :
         turns'[t] = rows'[t] \/ InFlight(t)' \/ (final' # None /\ final'[1]
         = t)
      BY <1>1, <1>2, <1>3, <1>4, <1>5, <1>6, <1>7, <1>8, <1>9, <1>10, <1>11, <1>12,
         <1>13, <1>14, <1>15, <1>16, SMTT(10)
         DEF IInv, Faultless, Loading, Attempting, Finalizing, Stepping, Beginning,
             InFlight, Begin
    <2> QED  BY <2>1, <2>2, <2>3, <2>4, <2>5 DEF Faultless, Begin
  <1> QED  BY <1>17, <1>18, <1>19, <1>20, <1>21, <1>22, <1>23, <1>24, <1>25, <1>26, <1>27, <1>28, <1>29, <1>30, <1>31, <1>32 DEF IInv

\* The finalization failed: the turn is shown as failed.
LEMMA FinFailedStep ==
  ASSUME IInv, NEW a \in Attempts, NEW h,
         soon # <<>>, NothingElse \/ ThenIdle,
         h = Head(soon), h.ev = "final_failed", h.a = a,
         final = a, final' = None,
         turns' = IF shutting THEN turns ELSE [turns EXCEPT ![a[1]] = Message("failed", a[2], @.reply)],
         shutting => UNCHANGED <<state, lane>>, ~shutting => state' = "failed" /\ lane' \in BOOLEAN,
         UNCHANGED <<rows, dataQ, opStep, dataUp, mainQ, up, loaded, shutting, failedOp>>,
         UNCHANGED <<faults, writable, prep, active, contexts, unsaved, retrievals, ask, background>>
  PROVE  IInv'
  <1>1. CallTaken
    BY TakesCall
  <1>2. CallDone
    BY DoesCall
  <1>3. /\ a[1] \in Turns /\ a[2] \in 1..MaxRequests /\ a # None /\ turns[a[1]].attempt = a[2]
        /\ a = <<a[1], turns[a[1]].attempt>>
    BY AttemptParts DEF IInv, Numbered, Latest
  <1>4. prep = None /\ (\A c \in contexts : c.terminal) /\ unsaved = None /\ loaded /\ up
    BY <1>3 DEF IInv, Attempting, Loading
  <1>5. h \in Deferred /\ h \in FinalCalls
    BY <1>1 DEF CallTaken, CallTyped, FinalCalls
  <1>6. /\ \A o \in Queued : o \notin Begins /\ o \notin Finalizes
        /\ \A e \in Posted : e \notin FinalEvents
    BY <1>5 DEF IInv, Finalizing
  <1>7. \A o \in Queued : o.op \notin Begin /\ o.op # "finalize"
    BY <1>6, AllTyped DEF Begins, Finalizes, OpTyped
  <1>8. \A e \in Posted : e.ev # "finalized"
    BY <1>6, AllTyped DEF FinalEvents, EventTyped
  <1>9. \A e \in Deferred' : CallTyped(e) /\ e \notin FinalCalls /\ (e \in Deferred \/ (e.ev = "idle" /\ e.a = None))
    BY <1>1, <1>2, <1>5, AllTyped DEF CallTaken, CallDone, FinalCalls
  <1>10. \A e \in Deferred' : e.ev # "final_ok"
    BY <1>9 DEF FinalCalls, CallTyped
  <1>11. LinedCalls(soon') /\ soon' \in Seq(CallRecs)
    BY <1>2 DEF CallDone
  <1>12. \A b \in Attempts : InPreparation(b)' => InPreparation(b)
    BY <1>1, <1>2, SameQueues
       DEF InPreparation, PrepOps, PrepEvents, PrepCalls, CallTaken, CallDone,
           CallTyped
  <1>13. ~writable
    BY <1>5 DEF IInv, Finalizing
  <1>14. ~shutting => failedOp
    BY <1>4, <1>5 DEF IInv, Faultless, Typed
  <1>15. /\ turns' \in [Turns -> Messages] /\ turns'[a[1]].attempt = a[2]
         /\ turns'[a[1]].status \in Terminal /\ (~shutting => turns'[a[1]].status = "failed")
         /\ \A t \in Turns : t # a[1] => turns'[t] = turns[t]
         /\ state' \in States /\ lane' \in BOOLEAN
    BY <1>3 DEF IInv, Typed, Finishing, Messages, Message, Statuses, Terminal, States
  <1>16. \A t \in Turns : InFlight(t)' = InFlight(t)
    BY DEF InFlight
  <1>17. \A b \in Attempts \cup {None} : Known(b) => Known(b)'
        <2> SUFFICES ASSUME NEW b \in Attempts, b[2] <= turns[b[1]].attempt
                 PROVE  b[2] <= turns'[b[1]].attempt
      BY AttemptParts DEF Known
    <2>1. b[1] \in Turns /\ b[2] \in Nat
      BY AttemptParts
    <2>2. turns[b[1]].attempt \in Nat /\ turns'[b[1]].attempt \in Nat
      BY <2>1, <1>3, <1>15 DEF IInv, Typed, Messages
    <2>3. CASE b[1] = a[1]
      BY <2>1, <2>2, <2>3, <1>3, <1>15 DEF Message
    <2>4. CASE b[1] # a[1]
      BY <2>1, <2>2, <2>4, <1>3, <1>15
    <2> QED  BY <2>3, <2>4

  <1>18. /\ UNCHANGED dataQ => UNCHANGED Queued
         /\ UNCHANGED mainQ => UNCHANGED Posted
         /\ UNCHANGED soon => UNCHANGED Deferred
    BY SameQueues
  <1>19. /\ \A o \in Queued : OpTyped(o)
         /\ \A e \in Posted : EventTyped(e)
         /\ \A e \in Deferred : CallTyped(e)
    BY AllTyped
  <1>20. Typed'
    BY <1>1, <1>2, <1>3, <1>4, <1>5, <1>6, <1>7, <1>8, <1>9, <1>10, <1>11, <1>12,
       <1>13, <1>14, <1>15, <1>16, <1>17, <1>18, <1>19
       DEF IInv, Typed, CallTaken, CallDone
  <1>21. Loading'
    BY <1>1, <1>2, <1>3, <1>4, <1>5, <1>6, <1>7, <1>8, <1>9, <1>10, <1>11, <1>12,
       <1>13, <1>14, <1>15, <1>16, <1>17, <1>18, <1>19, SMTT(10)
       DEF IInv, Loading, Typed, CallTaken, CallDone
  <1>22. Numbered'
    <2>1. (\A b \in Attempts \cup {None} : Known(b) => Known(b)') /\ turns' \in [Turns -> Messages]
      BY <1>1, <1>2, <1>3, <1>4, <1>5, <1>6, <1>7, <1>8, <1>9, <1>10, <1>11, <1>12,
         <1>13, <1>14, <1>15, <1>16, <1>17, <1>18, <1>19
    <2>2. \A o \in Queued' : Known(o.a)'
      BY <1>1, <1>2, <1>3, <1>4, <1>5, <1>6, <1>7, <1>8, <1>9, <1>10, <1>11, <1>12,
         <1>13, <1>14, <1>15, <1>16, <1>17, <1>18, <1>19
         DEF IInv, Numbered, OpTyped, OpAdded, Persisted
    <2>3. /\ \A e \in Posted' : Known(e.a)'
          /\ \A e \in Deferred' : Known(e.a)'
      BY <1>1, <1>2, <1>3, <1>4, <1>5, <1>6, <1>7, <1>8, <1>9, <1>10, <1>11, <1>12,
         <1>13, <1>14, <1>15, <1>16, <1>17, <1>18, <1>19
         DEF IInv, Numbered, EventTyped, CallTyped, Persisted, Known
    <2>4. /\ \A b \in retrievals' : Known(b)'
          /\ \A c \in contexts' : Known(c.a)'
      BY <1>1, <1>2, <1>3, <1>4, <1>5, <1>6, <1>7, <1>8, <1>9, <1>10, <1>11, <1>12,
         <1>13, <1>14, <1>15, <1>16, <1>17, <1>18, <1>19
         DEF IInv, Typed, Numbered, ContextRecs, Known
    <2>5. Latest(prep)' /\ Latest(active)' /\ Latest(final)'
      BY <1>1, <1>2, <1>3, <1>4, <1>5, <1>6, <1>7, <1>8, <1>9, <1>10, <1>11, <1>12,
         <1>13, <1>14, <1>15, <1>16, <1>17, <1>18, <1>19
         DEF IInv, Numbered, Latest, Persisted
    <2>6. \A t \in Turns : /\ turns'[t].status = "absent" => turns'[t].attempt = 0
                           /\ rows'[t].status = "absent" => rows'[t].attempt = 0
      BY <1>1, <1>2, <1>3, <1>4, <1>5, <1>6, <1>7, <1>8, <1>9, <1>10, <1>11, <1>12,
         <1>13, <1>14, <1>15, <1>16, <1>17, <1>18, <1>19
         DEF IInv, Numbered, Terminal
    <2> QED  BY <2>2, <2>3, <2>4, <2>5, <2>6 DEF Numbered
  <1>23. Lined'
    BY <1>1, <1>2, <1>3, <1>4, <1>5, <1>6, <1>7, <1>8, <1>9, <1>10, <1>11, <1>12,
       <1>13, <1>14, <1>15, <1>16, <1>17, <1>18, <1>19, SMTT(10)
       DEF IInv, Lined, Fits, CallTaken, CallDone
  <1>24. Preparing'
    BY <1>1, <1>2, <1>3, <1>4, <1>5, <1>6, <1>7, <1>8, <1>9, <1>10, <1>11, <1>12,
       <1>13, <1>14, <1>15, <1>16, <1>17, <1>18, <1>19, SMTT(10)
       DEF IInv, Preparing, PrepOps, PrepEvents, PrepCalls, CallTaken, CallDone
  <1>25. Attempting'
    BY <1>1, <1>2, <1>3, <1>4, <1>5, <1>6, <1>7, <1>8, <1>9, <1>10, <1>11, <1>12,
       <1>13, <1>14, <1>15, <1>16, <1>17, <1>18, <1>19, AttemptParts, SMTT(10)
       DEF IInv, Attempting, Loading, Finalizing, IdleIsQuiet, LaneIsReleased, Busy,
           EventTyped, Startup, CallTaken, CallDone
  <1>26. Finalizing'
    BY <1>1, <1>2, <1>3, <1>4, <1>5, <1>6, <1>7, <1>8, <1>9, <1>10, <1>11, <1>12,
       <1>13, <1>14, <1>15, <1>16, <1>17, <1>18, <1>19, SMTT(10)
       DEF IInv, Finalizing, Attempting, Preparing, Begins, Finalizes, FinalEvents,
           FinalCalls, Begin, CallTaken, CallDone
  <1>27. NotAsked'
    BY <1>1, <1>2, <1>3, <1>4, <1>5, <1>6, <1>7, <1>8, <1>9, <1>10, <1>11, <1>12,
       <1>13, <1>14, <1>15, <1>16, <1>17, <1>18, <1>19, SMTT(10)
       DEF IInv, NotAsked, Preparing, Attempting, Finalizing, InPreparation, PrepOps,
           PrepEvents, PrepCalls, Finalizes, CallTaken, CallDone
  <1>28. Stepping'
    BY <1>1, <1>2, <1>3, <1>4, <1>5, <1>6, <1>7, <1>8, <1>9, <1>10, <1>11, <1>12,
       <1>13, <1>14, <1>15, <1>16, <1>17, <1>18, <1>19, SMTT(10)
       DEF IInv, Stepping, Typed, Row, A, CallTaken, CallDone
  <1>29. Beginning'
    BY <1>1, <1>2, <1>3, <1>4, <1>5, <1>6, <1>7, <1>8, <1>9, <1>10, <1>11, <1>12,
       <1>13, <1>14, <1>15, <1>16, <1>17, <1>18, <1>19, SMTT(10)
       DEF IInv, Beginning, Stepping, Typed, Written, Begin, CallTaken, CallDone
  <1>30. Finishing'
    BY <1>1, <1>2, <1>3, <1>4, <1>5, <1>6, <1>7, <1>8, <1>9, <1>10, <1>11, <1>12,
       <1>13, <1>14, <1>15, <1>16, <1>17, <1>18, <1>19, SMTT(10)
       DEF IInv, Finishing, Stepping, Attempting, Finalizing, Written, Terminal,
           CallTaken, CallDone
  <1>31. Staging'
    BY <1>1, <1>2, <1>3, <1>4, <1>5, <1>6, <1>7, <1>8, <1>9, <1>10, <1>11, <1>12,
       <1>13, <1>14, <1>15, <1>16, <1>17, <1>18, <1>19, SMTT(10)
       DEF IInv, Staging, Attempting, Preparing, Staged, CallTaken, CallDone
  <1>32. Asking'
    BY <1>1, <1>2, <1>3, <1>4, <1>5, <1>6, <1>7, <1>8, <1>9, <1>10, <1>11, <1>12,
       <1>13, <1>14, <1>15, <1>16, <1>17, <1>18, <1>19, SMTT(10)
       DEF IInv, Asking, Attempting, Open, CallTaken, CallDone
  <1>33. Showing'
    <2>1. \A e \in Posted' : e.ev = "loaded" => \A t \in Turns :
         rows'[t].status \notin Open
      BY <1>1, <1>2, <1>3, <1>4, <1>5, <1>6, <1>7, <1>8, <1>9, <1>10, <1>11, <1>12,
         <1>13, <1>14, <1>15, <1>16, <1>17, <1>18, <1>19, SMTT(10)
         DEF IInv, Showing, Attempting, Asking, Typed, Open, InFlight, Terminal
    <2>2. loaded' /\ ~shutting' => \A t \in Turns : rows'[t].attempt <=
         turns'[t].attempt
      BY <1>1, <1>2, <1>3, <1>4, <1>5, <1>6, <1>7, <1>8, <1>9, <1>10, <1>11, <1>12,
         <1>13, <1>14, <1>15, <1>16, <1>17, <1>18, <1>19, SMTT(10)
         DEF IInv, Showing, Attempting, Asking, Typed, Open, InFlight, Terminal
    <2>3. loaded' /\ ~shutting' => \A t \in Turns : turns'[t].status \in Open
         => InFlight(t)'
      BY <1>1, <1>2, <1>3, <1>4, <1>5, <1>6, <1>7, <1>8, <1>9, <1>10, <1>11, <1>12,
         <1>13, <1>14, <1>15, <1>16, <1>17, <1>18, <1>19, SMTT(10)
         DEF IInv, Showing, Attempting, Asking, Typed, Open, InFlight, Terminal
    <2>4. loaded' /\ ~shutting' /\ writable' => \A t \in Turns :
         rows'[t].status = "completed" => turns'[t].status = "completed"
      BY <1>1, <1>2, <1>3, <1>4, <1>5, <1>6, <1>7, <1>8, <1>9, <1>10, <1>11, <1>12,
         <1>13, <1>14, <1>15, <1>16, <1>17, <1>18, <1>19, SMTT(10)
         DEF Attempting, Asking, Typed, Open, InFlight, Terminal
    <2> QED  BY <2>1, <2>2, <2>3, <2>4 DEF Showing, Open
  <1>34. Saving'
    BY <1>1, <1>2, <1>3, <1>4, <1>5, <1>6, <1>7, <1>8, <1>9, <1>10, <1>11, <1>12,
       <1>13, <1>14, <1>15, <1>16, <1>17, <1>18, <1>19, AttemptParts, SMTT(10)
       DEF IInv, Saving, Finishing, Stepping, Finalizing, Attempting,
           CompletedIsSaved, CallTaken, CallDone
  <1>35. Faultless'
    BY <1>1, <1>2, <1>3, <1>4, <1>5, <1>6, <1>7, <1>8, <1>9, <1>10, <1>11, <1>12,
       <1>13, <1>14, <1>15, <1>16, <1>17, <1>18, <1>19, SMTT(10)
       DEF IInv, Faultless, Loading, Attempting, Finalizing, Stepping, Beginning,
           InFlight, Begin, CallTaken, CallDone
  <1> QED  BY <1>20, <1>21, <1>22, <1>23, <1>24, <1>25, <1>26, <1>27, <1>28, <1>29, <1>30, <1>31, <1>32, <1>33, <1>34, <1>35 DEF IInv

\* The rows are recovered, or are not.
LEMMA DoInitStep ==
  ASSUME IInv, NEW ev, NEW e,
         dataQ # <<>>, Head(dataQ).op = "init",
         dataQ' = Tail(dataQ), opStep' = "start",
         ev \in Startup, e = Event(ev, None), mainQ' = Append(mainQ, e),
         failedOp' \in BOOLEAN, failedOp => failedOp', faults' \in 0..MaxFaults,
         \/ ev # "loaded" /\ rows' = rows
         \/ rows' = [t \in Turns |-> IF rows[t].status \in {"pending", "streaming"}
                                   THEN [rows[t] EXCEPT !.status = "stopped"] ELSE rows[t]],
         UNCHANGED <<dataUp, soon, up, loaded, shutting, writable, turns, state, prep>>,
         UNCHANGED <<active, contexts, final, unsaved, retrievals, lane, ask, background>>
  PROVE  IInv'
  <1>1. Head(dataQ) \in Queued /\ ~loaded
    BY FirstOp DEF OpFirst, IInv, Loading
  <1>2. /\ dataQ = <<InitOp>> /\ mainQ = <<>> /\ soon = <<>> /\ opStep = "start"
        /\ prep = None /\ active = None /\ final = None /\ contexts = {} /\ retrievals = {} /\ unsaved = None
        /\ turns = [t \in Turns |-> Absent] /\ up
    BY <1>1 DEF IInv, Loading
  <1>3. /\ dataQ' = <<>> /\ mainQ' = <<e>> /\ e \in EventRecs /\ EventTyped(e) /\ e.ev = ev /\ e.a = None
        /\ mainQ' \in Seq(EventRecs)
    BY <1>2, NewEvent
  <1>4. /\ Queued' = {} /\ Deferred' = {} /\ LinedOps(dataQ') /\ LinedCalls(soon')
    BY <1>2, <1>3, EmptyQueue DEF Queued, Deferred, LinedOps, LinedCalls
  <1>5. EventAdded(e)
    BY <1>3, AddsEvent
  <1>6. /\ Posted = {} /\ Posted' = {e}
        /\ \A b \in Attempts : e \notin PrepEvents(b)
        /\ e \notin FinalEvents /\ e.ev # "finished" /\ e.ev # "finalized"
    BY <1>2, <1>3, <1>5, EmptyQueue
       DEF EventAdded, Posted, PrepEvents, FinalEvents, Startup
  <1>7. rows' \in [Turns -> Messages] /\ \A t \in Turns : rows'[t].attempt = rows[t].attempt
        <2>1. rows \in [Turns -> Messages]
      BY DEF IInv, Typed
    <2>2. CASE rows' = rows
      BY <2>1, <2>2
    <2>3. CASE rows' = [t \in Turns |-> IF rows[t].status \in {"pending", "streaming"}
                                       THEN [rows[t] EXCEPT !.status = "stopped"] ELSE rows[t]]
      <3>1. \A m \in Messages : /\ [m EXCEPT !.status = "stopped"] \in Messages
                                 /\ [m EXCEPT !.status = "stopped"].attempt = m.attempt
        BY DEF Messages, Statuses, Terminal
      <3> QED  BY <2>1, <2>3, <3>1
    <2> QED  BY <2>2, <2>3

  <1>8. \A t \in Turns : rows'[t].status = "absent" => rows[t].status = "absent"
    BY DEF IInv, Typed, Messages
  <1>9. e.ev = "loaded" => \A t \in Turns : rows'[t].status \notin Open
    BY <1>3 DEF IInv, Typed, Messages, Open
  <1>10. \A t \in Turns : turns[t].status = "absent" /\ turns[t].attempt = 0
    BY <1>2 DEF Absent
  <1>11. e.ev \in Startup /\ LinedEvents(mainQ')
    BY <1>3, <1>5, <1>6 DEF EventAdded
  <1>12. /\ UNCHANGED dataQ => UNCHANGED Queued
         /\ UNCHANGED mainQ => UNCHANGED Posted
         /\ UNCHANGED soon => UNCHANGED Deferred
    BY SameQueues
  <1>13. /\ \A o \in Queued : OpTyped(o)
         /\ \A y \in Posted : EventTyped(y)
         /\ \A y \in Deferred : CallTyped(y)
    BY AllTyped
  <1>14. Typed'
    BY <1>1, <1>2, <1>3, <1>4, <1>5, <1>6, <1>7, <1>8, <1>9, <1>10, <1>11, <1>12,
       <1>13
       DEF IInv, Typed, OpFirst, EventAdded
  <1>15. Loading'
    BY <1>1, <1>2, <1>3, <1>4, <1>5, <1>6, <1>7, <1>8, <1>9, <1>10, <1>11, <1>12,
       <1>13, SMTT(10)
       DEF IInv, Loading, Typed, OpFirst, EventAdded
  <1>16. Numbered'
    BY <1>1, <1>2, <1>3, <1>4, <1>5, <1>6, <1>7, <1>8, <1>9, <1>10, <1>11, <1>12,
       <1>13, SMTT(10)
       DEF IInv, Numbered, Typed, Loading, Known, Latest, OpFirst, EventAdded
  <1>17. Lined'
    BY <1>1, <1>2, <1>3, <1>4, <1>5, <1>6, <1>7, <1>8, <1>9, <1>10, <1>11, <1>12,
       <1>13, SMTT(10)
       DEF IInv, Lined, Fits, OpFirst, EventAdded
  <1>18. Preparing'
    BY <1>1, <1>2, <1>3, <1>4, <1>5, <1>6, <1>7, <1>8, <1>9, <1>10, <1>11, <1>12,
       <1>13, SMTT(10)
       DEF IInv, Preparing, PrepOps, PrepEvents, PrepCalls, OpFirst, EventAdded
  <1>19. Attempting'
    BY <1>1, <1>2, <1>3, <1>4, <1>5, <1>6, <1>7, <1>8, <1>9, <1>10, <1>11, <1>12,
       <1>13, AttemptParts, SMTT(10)
       DEF IInv, Attempting, Loading, Finalizing, IdleIsQuiet, LaneIsReleased, Busy,
           EventTyped, Startup, OpFirst, EventAdded
  <1>20. Finalizing'
    BY <1>1, <1>2, <1>3, <1>4, <1>5, <1>6, <1>7, <1>8, <1>9, <1>10, <1>11, <1>12,
       <1>13, SMTT(10)
       DEF IInv, Finalizing, Attempting, Preparing, Begins, Finalizes, FinalEvents,
           FinalCalls, Begin, OpFirst, EventAdded
  <1>21. NotAsked'
    BY <1>1, <1>2, <1>3, <1>4, <1>5, <1>6, <1>7, <1>8, <1>9, <1>10, <1>11, <1>12,
       <1>13, SMTT(10)
       DEF IInv, NotAsked, Preparing, Attempting, Finalizing, InPreparation, PrepOps,
           PrepEvents, PrepCalls, Finalizes, OpFirst, EventAdded
  <1>22. Stepping'
    BY <1>1, <1>2, <1>3, <1>4, <1>5, <1>6, <1>7, <1>8, <1>9, <1>10, <1>11, <1>12,
       <1>13, SMTT(10)
       DEF IInv, Stepping, Typed, Row, A, OpFirst, EventAdded
  <1>23. Beginning'
    BY <1>1, <1>2, <1>3, <1>4, <1>5, <1>6, <1>7, <1>8, <1>9, <1>10, <1>11, <1>12,
       <1>13, SMTT(10)
       DEF IInv, Beginning, Stepping, Typed, Written, Begin, OpFirst, EventAdded
  <1>24. Finishing'
    BY <1>1, <1>2, <1>3, <1>4, <1>5, <1>6, <1>7, <1>8, <1>9, <1>10, <1>11, <1>12,
       <1>13, SMTT(10)
       DEF IInv, Finishing, Stepping, Attempting, Finalizing, Written, Terminal,
           OpFirst, EventAdded
  <1>25. Staging'
    BY <1>1, <1>2, <1>3, <1>4, <1>5, <1>6, <1>7, <1>8, <1>9, <1>10, <1>11, <1>12,
       <1>13, SMTT(10)
       DEF IInv, Staging, Attempting, Preparing, Staged, OpFirst, EventAdded
  <1>26. Asking'
    BY <1>1, <1>2, <1>3, <1>4, <1>5, <1>6, <1>7, <1>8, <1>9, <1>10, <1>11, <1>12,
       <1>13, SMTT(10)
       DEF IInv, Asking, Attempting, Open, OpFirst, EventAdded
  <1>27. Showing'
    BY <1>1, <1>2, <1>3, <1>4, <1>5, <1>6, <1>7, <1>8, <1>9, <1>10, <1>11, <1>12,
       <1>13, SMTT(10)
       DEF IInv, Showing, Attempting, Asking, Typed, Open, InFlight, OpFirst,
           EventAdded
  <1>28. Saving'
    BY <1>1, <1>2, <1>3, <1>4, <1>5, <1>6, <1>7, <1>8, <1>9, <1>10, <1>11, <1>12,
       <1>13, AttemptParts, SMTT(10)
       DEF IInv, Saving, Finishing, Stepping, Finalizing, Attempting,
           CompletedIsSaved, OpFirst, EventAdded
  <1>29. Faultless'
    BY <1>1, <1>2, <1>3, <1>4, <1>6 DEF Faultless, Startup
  <1> QED  BY <1>14, <1>15, <1>16, <1>17, <1>18, <1>19, <1>20, <1>21, <1>22, <1>23, <1>24, <1>25, <1>26, <1>27, <1>28, <1>29 DEF IInv

\* Stage one writes the row of the attempt.
LEMMA BeginWriteStep ==
  ASSUME IInv, NEW a \in Attempts, NEW o,
         dataQ # <<>>, o = Head(dataQ), o.a = a, o.op \in Begin,
         opStep = "start", opStep' = "written", rows' = [rows EXCEPT ![a[1]] = Message("pending", a[2], 0)],
         UNCHANGED <<dataQ, dataUp, mainQ, soon, up, loaded, shutting, failedOp, faults>>,
         UNCHANGED <<writable, turns, state, prep, active, contexts, final, unsaved, retrievals>>,
         UNCHANGED <<lane, ask, background>>
  PROVE  IInv'
  <1>1. /\ a[1] \in Turns /\ a[2] \in 1..MaxRequests /\ a # None
    BY AttemptParts
  <1>2. OpFirst
    BY FirstOp
  <1>3. /\ OpTyped(o) /\ o \in Queued /\ o \in Begins /\ o \in PrepOps(a)
        /\ o.op \notin {"init", "assemble", "checkpoint", "finalize"}
    BY <1>2 DEF OpFirst, OpTaken, OpTyped, Begins, PrepOps, Begin
  <1>4. loaded /\ up
        <2> SUFFICES ASSUME ~loaded
                 PROVE  FALSE
      BY DEF IInv, Loading
    <2>1. dataQ = <<InitOp>>
      BY DEF IInv, Loading
    <2>2. Head(dataQ) = InitOp
      BY <2>1
    <2> QED  BY <2>2 DEF InitOp, Op, Begin

  <1>5. /\ rows' \in [Turns -> Messages]
        /\ rows'[a[1]] = Message("pending", a[2], 0)
        /\ \A t \in Turns : t # a[1] => rows'[t] = rows[t]
        <2>1. Message("pending", a[2], 0) \in Messages
      BY <1>1, ConversationAssumption DEF Messages, Message, Statuses, Terminal
    <2> QED  BY <1>1, <2>1 DEF IInv, Typed

  <1>6. rows'[a[1]].status = "pending" /\ rows'[a[1]].attempt = a[2] /\ rows[a[1]].status # "completed"
    BY <1>3, <1>5 DEF Message, IInv, Beginning, Written
  <1>7. a = prep \/ a = final
    BY <1>3 DEF IInv, Finalizing
  <1>8. \A p \in Queued : p.op \in Begin => p = o
    BY <1>2, <1>3, AllTyped DEF OpFirst, Begins, OpTyped
  <1>9. /\ (a = prep => turns[a[1]].status = "pending" /\ final = None)
        /\ \A c \in contexts : c.terminal
    BY <1>1, <1>7 DEF IInv, Staging, Attempting, Message
  <1>10. /\ turns[a[1]].attempt = a[2] /\ a = <<a[1], turns[a[1]].attempt>>
    BY <1>1, <1>7, AttemptParts DEF IInv, Numbered, Latest
  <1>11. /\ \A e \in Posted : e \notin FinalEvents /\ e.ev # "finalized"
         /\ \A e \in Deferred : e \notin FinalCalls /\ e.ev # "final_ok"
    BY <1>1, <1>3, AllTyped
       DEF IInv, Finalizing, EventTyped, CallTyped, FinalEvents, FinalCalls, Startup
  <1>12. \A t \in Turns : InFlight(t)' = InFlight(t)
    BY DEF InFlight
  <1>13. /\ \A p \in Queued : p.op = "finalize" => p.a = a
         /\ \A e \in Posted : e.ev # "loaded"
    BY <1>1, <1>4, <1>7, <1>9, AllTyped, AttemptParts
       DEF IInv, Finalizing, Finalizes, OpTyped, Loading, Startup
  <1>14. /\ UNCHANGED dataQ => UNCHANGED Queued
         /\ UNCHANGED mainQ => UNCHANGED Posted
         /\ UNCHANGED soon => UNCHANGED Deferred
    BY SameQueues
  <1>15. /\ \A x \in Queued : OpTyped(x)
         /\ \A e \in Posted : EventTyped(e)
         /\ \A e \in Deferred : CallTyped(e)
    BY AllTyped
  <1>16. Typed'
    BY <1>1, <1>2, <1>3, <1>4, <1>5, <1>6, <1>7, <1>8, <1>9, <1>10, <1>11, <1>12,
       <1>13, <1>14, <1>15
       DEF IInv, Typed, OpFirst, OpTaken
  <1>17. Loading'
    BY <1>1, <1>2, <1>3, <1>4, <1>5, <1>6, <1>7, <1>8, <1>9, <1>10, <1>11, <1>12,
       <1>13, <1>14, <1>15, SMTT(10)
       DEF IInv, Loading, Typed, OpFirst, OpTaken
  <1>18. Numbered'
    BY <1>1, <1>2, <1>3, <1>4, <1>5, <1>6, <1>7, <1>8, <1>9, <1>10, <1>11, <1>12,
       <1>13, <1>14, <1>15, SMTT(10)
       DEF IInv, Numbered, Typed, Loading, Known, Latest, OpFirst, OpTaken
  <1>19. Lined'
    BY <1>1, <1>2, <1>3, <1>4, <1>5, <1>6, <1>7, <1>8, <1>9, <1>10, <1>11, <1>12,
       <1>13, <1>14, <1>15, SMTT(10)
       DEF IInv, Lined, Fits, OpFirst, OpTaken
  <1>20. Preparing'
    BY <1>1, <1>2, <1>3, <1>4, <1>5, <1>6, <1>7, <1>8, <1>9, <1>10, <1>11, <1>12,
       <1>13, <1>14, <1>15, SMTT(10)
       DEF IInv, Preparing, PrepOps, PrepEvents, PrepCalls, OpFirst, OpTaken
  <1>21. Attempting'
    BY <1>1, <1>2, <1>3, <1>4, <1>5, <1>6, <1>7, <1>8, <1>9, <1>10, <1>11, <1>12,
       <1>13, <1>14, <1>15, AttemptParts, SMTT(10)
       DEF IInv, Attempting, Loading, Finalizing, IdleIsQuiet, LaneIsReleased, Busy,
           EventTyped, Startup, OpFirst, OpTaken
  <1>22. Finalizing'
    BY <1>1, <1>2, <1>3, <1>4, <1>5, <1>6, <1>7, <1>8, <1>9, <1>10, <1>11, <1>12,
       <1>13, <1>14, <1>15, SMTT(10)
       DEF IInv, Finalizing, Attempting, Preparing, Begins, Finalizes, FinalEvents,
           FinalCalls, Begin, OpFirst, OpTaken
  <1>23. NotAsked'
    BY <1>1, <1>2, <1>3, <1>4, <1>5, <1>6, <1>7, <1>8, <1>9, <1>10, <1>11, <1>12,
       <1>13, <1>14, <1>15, SMTT(10)
       DEF IInv, NotAsked, Preparing, Attempting, Finalizing, InPreparation, PrepOps,
           PrepEvents, PrepCalls, Finalizes, OpFirst, OpTaken
  <1>24. Stepping'
    BY <1>1, <1>2, <1>3, <1>4, <1>5, <1>6, <1>7, <1>8, <1>9, <1>10, <1>11, <1>12,
       <1>13, <1>14, <1>15, SMTT(10)
       DEF IInv, Stepping, Typed, Row, A, OpFirst, OpTaken
  <1>25. Beginning'
    BY <1>1, <1>2, <1>3, <1>4, <1>5, <1>6, <1>7, <1>8, <1>9, <1>10, <1>11, <1>12,
       <1>13, <1>14, <1>15, SMTT(10)
       DEF IInv, Beginning, Stepping, Typed, Written, Begin, OpFirst, OpTaken
  <1>26. Finishing'
    BY <1>1, <1>2, <1>3, <1>4, <1>5, <1>6, <1>7, <1>8, <1>9, <1>10, <1>11, <1>12,
       <1>13, <1>14, <1>15, SMTT(10)
       DEF IInv, Finishing, Stepping, Attempting, Finalizing, Written, Terminal,
           OpFirst, OpTaken
  <1>27. Staging'
    BY <1>1, <1>2, <1>3, <1>4, <1>5, <1>6, <1>7, <1>8, <1>9, <1>10, <1>11, <1>12,
       <1>13, <1>14, <1>15, SMTT(10)
       DEF IInv, Staging, Attempting, Preparing, Staged, OpFirst, OpTaken
  <1>28. Asking'
    BY <1>1, <1>2, <1>3, <1>4, <1>5, <1>6, <1>7, <1>8, <1>9, <1>10, <1>11, <1>12,
       <1>13, <1>14, <1>15, SMTT(10)
       DEF IInv, Asking, Attempting, Open, OpFirst, OpTaken
  <1>29. Showing'
    <2>1. \A e \in Posted' : e.ev = "loaded" => \A t \in Turns :
         rows'[t].status \notin Open
      BY <1>1, <1>2, <1>3, <1>4, <1>5, <1>6, <1>7, <1>8, <1>9, <1>10, <1>11, <1>12,
         <1>13, <1>14, <1>15, SMTT(10)
         DEF Attempting, Asking, Typed, Open, InFlight
    <2>2. loaded' /\ ~shutting' => \A t \in Turns : rows'[t].attempt <=
         turns'[t].attempt
      BY <1>1, <1>2, <1>3, <1>4, <1>5, <1>6, <1>7, <1>8, <1>9, <1>10, <1>11, <1>12,
         <1>13, <1>14, <1>15, SMTT(10)
         DEF IInv, Showing, Attempting, Asking, Typed, Open, InFlight
    <2>3. loaded' /\ ~shutting' => \A t \in Turns : turns'[t].status \in Open
         => InFlight(t)'
      BY <1>1, <1>2, <1>3, <1>4, <1>5, <1>6, <1>7, <1>8, <1>9, <1>10, <1>11, <1>12,
         <1>13, <1>14, <1>15, SMTT(10)
         DEF IInv, Showing, Attempting, Asking, Typed, Open, InFlight
    <2>4. loaded' /\ ~shutting' /\ writable' => \A t \in Turns :
         rows'[t].status = "completed" => turns'[t].status = "completed"
      BY <1>1, <1>2, <1>3, <1>4, <1>5, <1>6, <1>7, <1>8, <1>9, <1>10, <1>11, <1>12,
         <1>13, <1>14, <1>15, SMTT(10)
         DEF IInv, Showing, Attempting, Asking, Typed, Open, InFlight
    <2> QED  BY <2>1, <2>2, <2>3, <2>4 DEF Showing, Open
  <1>30. Saving'
    BY <1>1, <1>2, <1>3, <1>4, <1>5, <1>6, <1>7, <1>8, <1>9, <1>10, <1>11, <1>12,
       <1>13, <1>14, <1>15, AttemptParts, SMTT(10)
       DEF IInv, Saving, Finishing, Stepping, Finalizing, Attempting,
           CompletedIsSaved, OpFirst, OpTaken
  <1>31. Faultless'
    <2>1. up' /\ ~failedOp' /\ ~shutting' => \A e \in Posted' : e.ev \notin
         {"not_prepared", "not_finalized"}
      BY <1>1, <1>2, <1>3, <1>4, <1>5, <1>6, <1>7, <1>8, <1>9, <1>10, <1>11, <1>12,
         <1>13, <1>14, <1>15, SMTT(10)
         DEF IInv, Faultless, Loading, Attempting, Finalizing, Stepping, Beginning,
             InFlight, Begin
    <2>2. up' /\ ~failedOp' /\ ~shutting' => \A e \in Deferred' : e.ev \notin
         {"prepare_failed", "final_failed"}
      BY <1>1, <1>2, <1>3, <1>4, <1>5, <1>6, <1>7, <1>8, <1>9, <1>10, <1>11, <1>12,
         <1>13, <1>14, <1>15, SMTT(10)
         DEF IInv, Faultless, Loading, Attempting, Finalizing, Stepping, Beginning,
             InFlight, Begin
    <2>3. up' /\ ~failedOp' /\ ~shutting' /\ prep' # None =>
         rows'[prep'[1]].attempt = prep'[2] \/ \E x \in Queued' : x.op \in
         Begin /\ x.a = prep'
      BY <1>1, <1>2, <1>3, <1>4, <1>5, <1>6, <1>7, <1>8, <1>9, <1>10, <1>11, <1>12,
         <1>13, <1>14, <1>15, SMTT(10)
         DEF IInv, Faultless, Loading, Attempting, Finalizing, Stepping, Beginning,
             InFlight, Begin
    <2>4. up' /\ ~failedOp' /\ ~shutting' => \A x \in Queued' : x.op =
         "finalize" => rows'[x.a[1]].attempt = x.a[2] \/ \E b \in Queued' :
         b.op \in Begin /\ b.a = x.a
      BY <1>1, <1>2, <1>3, <1>4, <1>5, <1>6, <1>7, <1>8, <1>9, <1>10, <1>11, <1>12,
         <1>13, <1>14, <1>15, SMTT(10)
         DEF Loading, Attempting, Finalizing, Stepping, Beginning, InFlight, Begin
    <2>5. up' /\ ~failedOp' /\ ~shutting' /\ loaded' => \A t \in Turns :
         turns'[t] = rows'[t] \/ InFlight(t)' \/ (final' # None /\ final'[1]
         = t)
      BY <1>1, <1>2, <1>3, <1>4, <1>5, <1>6, <1>7, <1>8, <1>9, <1>10, <1>11, <1>12,
         <1>13, <1>14, <1>15, SMTT(10)
         DEF IInv, Faultless, Loading, Attempting, Finalizing, Stepping, Beginning,
             InFlight, Begin
    <2> QED  BY <2>1, <2>2, <2>3, <2>4, <2>5 DEF Faultless, Begin
  <1> QED  BY <1>16, <1>17, <1>18, <1>19, <1>20, <1>21, <1>22, <1>23, <1>24, <1>25, <1>26, <1>27, <1>28, <1>29, <1>30, <1>31 DEF IInv

\* Stage one answers.
LEMMA BeginAnswerStep ==
  ASSUME IInv, NEW a \in Attempts, NEW o, NEW e,
         dataQ # <<>>, o = Head(dataQ), o.a = a, o.op \in Begin,
         opStep = "written",
         dataQ' = Tail(dataQ), opStep' = "start",
         e = Event("seed", a), mainQ' = Append(mainQ, e),
         UNCHANGED <<rows, dataUp, soon, up, loaded, shutting, failedOp, faults, writable>>,
         UNCHANGED <<turns, state, prep, active, contexts, final, unsaved, retrievals, lane>>,
         UNCHANGED <<ask, background>>
  PROVE  IInv'
  <1>1. /\ a[1] \in Turns /\ a[2] \in 1..MaxRequests /\ a # None
    BY AttemptParts
  <1>2. OpTaken
    BY TakesOp
  <1>3. /\ OpTyped(o) /\ o \in Queued /\ o \in Begins /\ o \in PrepOps(a)
        /\ o.op \notin {"init", "assemble", "checkpoint", "finalize"}
    BY <1>2 DEF OpFirst, OpTaken, OpTyped, Begins, PrepOps, Begin
  <1>4. loaded /\ up
        <2> SUFFICES ASSUME ~loaded
                 PROVE  FALSE
      BY DEF IInv, Loading
    <2>1. dataQ = <<InitOp>>
      BY DEF IInv, Loading
    <2>2. Head(dataQ) = InitOp
      BY <2>1
    <2> QED  BY <2>2 DEF InitOp, Op, Begin

  <1>5. /\ e \in EventRecs /\ EventTyped(e) /\ e.ev = "seed" /\ e.a = a
    BY NewEvent DEF Signal
  <1>6. EventAdded(e)
    BY <1>5, AddsEvent
  <1>7. /\ e \notin FinalEvents /\ e \in PrepEvents(a) /\ e.ev \notin Startup
        /\ \A b \in Attempts : e \in PrepEvents(b) => b = a
    BY <1>5 DEF FinalEvents, PrepEvents, Startup
  <1>8. /\ \A d \in Posted : d \notin PrepEvents(a)
        /\ \A d \in Deferred : d \notin PrepCalls(a)
        /\ a \notin retrievals
    BY <1>3 DEF IInv, Preparing
  <1>9. LinedEvents(mainQ')
    BY <1>6, <1>7, <1>8 DEF EventAdded
  <1>10. /\ Queued' \subseteq Queued /\ \A p \in Queued' : p.op \notin Begin
    BY <1>2, <1>3, AllTyped DEF OpTaken, Begins, OpTyped
  <1>11. \A p \in Queued' : p \notin PrepOps(a)
    BY <1>2, <1>3 DEF OpTaken
  <1>12. rows[a[1]] = Message("pending", a[2], 0) /\ rows[a[1]].attempt = a[2]
    BY <1>3 DEF IInv, Stepping, Row, A, Message
  <1>13. \A b \in Attempts : InPreparation(b)' => InPreparation(b)
    BY <1>2, <1>3, <1>5, <1>6, <1>7, SameQueues
       DEF InPreparation, PrepOps, PrepEvents, PrepCalls, OpTaken, EventAdded
  <1>14. /\ \A p \in Queued : p.op \in Begin => p = o
         /\ \A p \in Queued' : p.op = "finalize" => p # o
    BY <1>2, <1>3, <1>10, AllTyped DEF OpTaken, OpTyped
  <1>15. /\ UNCHANGED dataQ => UNCHANGED Queued
         /\ UNCHANGED mainQ => UNCHANGED Posted
         /\ UNCHANGED soon => UNCHANGED Deferred
    BY SameQueues
  <1>16. /\ \A x \in Queued : OpTyped(x)
         /\ \A y \in Posted : EventTyped(y)
         /\ \A y \in Deferred : CallTyped(y)
    BY AllTyped
  <1>17. Typed'
    BY <1>1, <1>2, <1>3, <1>4, <1>5, <1>6, <1>7, <1>8, <1>9, <1>10, <1>11, <1>12,
       <1>13, <1>14, <1>15, <1>16
       DEF IInv, Typed, OpFirst, OpTaken, EventAdded
  <1>18. Loading'
    BY <1>1, <1>2, <1>3, <1>4, <1>5, <1>6, <1>7, <1>8, <1>9, <1>10, <1>11, <1>12,
       <1>13, <1>14, <1>15, <1>16, SMTT(10)
       DEF IInv, Loading, Typed, OpFirst, OpTaken, EventAdded
  <1>19. Numbered'
    BY <1>1, <1>2, <1>3, <1>4, <1>5, <1>6, <1>7, <1>8, <1>9, <1>10, <1>11, <1>12,
       <1>13, <1>14, <1>15, <1>16, SMTT(10)
       DEF IInv, Numbered, Typed, Loading, Known, Latest, OpFirst, OpTaken, EventAdded
  <1>20. Lined'
    BY <1>1, <1>2, <1>3, <1>4, <1>5, <1>6, <1>7, <1>8, <1>9, <1>10, <1>11, <1>12,
       <1>13, <1>14, <1>15, <1>16, SMTT(10)
       DEF IInv, Lined, Fits, OpFirst, OpTaken, EventAdded
  <1>21. Preparing'
    <2>1. \A b \in Attempts, x \in Queued' : x \in PrepOps(b) => (\A y \in
         Posted' : y \notin PrepEvents(b)) /\ b \notin retrievals' /\ \A y
         \in Deferred' : y \notin PrepCalls(b)
      BY <1>1, <1>2, <1>3, <1>4, <1>5, <1>6, <1>7, <1>8, <1>9, <1>10, <1>11, <1>12,
         <1>13, <1>14, <1>15, <1>16, SMTT(10)
         DEF IInv, Preparing, PrepOps, PrepEvents, PrepCalls, OpTaken, EventAdded
    <2>2. \A b \in Attempts, y \in Posted' : y \in PrepEvents(b) => b \notin
         retrievals' /\ \A d \in Deferred' : d \notin PrepCalls(b)
      BY <1>1, <1>2, <1>3, <1>4, <1>5, <1>6, <1>7, <1>8, <1>9, <1>10, <1>11, <1>12,
         <1>13, <1>14, <1>15, <1>16, SMTT(10)
         DEF IInv, Preparing, PrepOps, PrepEvents, PrepCalls, OpTaken, EventAdded
    <2>3. \A b \in Attempts : b \in retrievals' => \A y \in Deferred' : y
         \notin PrepCalls(b)
      BY <1>1, <1>2, <1>3, <1>4, <1>5, <1>6, <1>7, <1>8, <1>9, <1>10, <1>11, <1>12,
         <1>13, <1>14, <1>15, <1>16, SMTT(10)
         DEF IInv, Preparing, PrepOps, PrepEvents, PrepCalls, OpTaken, EventAdded
    <2> QED  BY <2>1, <2>2, <2>3 DEF Preparing, PrepOps, PrepEvents, PrepCalls
  <1>22. Attempting'
    BY <1>1, <1>2, <1>3, <1>4, <1>5, <1>6, <1>7, <1>8, <1>9, <1>10, <1>11, <1>12,
       <1>13, <1>14, <1>15, <1>16, AttemptParts, SMTT(10)
       DEF IInv, Attempting, Loading, Finalizing, IdleIsQuiet, LaneIsReleased, Busy,
           EventTyped, Startup, OpFirst, OpTaken, EventAdded
  <1>23. Finalizing'
    BY <1>1, <1>2, <1>3, <1>4, <1>5, <1>6, <1>7, <1>8, <1>9, <1>10, <1>11, <1>12,
       <1>13, <1>14, <1>15, <1>16, SMTT(10)
       DEF IInv, Finalizing, Attempting, Preparing, Begins, Finalizes, FinalEvents,
           FinalCalls, Begin, OpFirst, OpTaken, EventAdded
  <1>24. NotAsked'
    BY <1>1, <1>2, <1>3, <1>4, <1>5, <1>6, <1>7, <1>8, <1>9, <1>10, <1>11, <1>12,
       <1>13, <1>14, <1>15, <1>16, SMTT(10)
       DEF IInv, NotAsked, Preparing, Attempting, Finalizing, InPreparation, PrepOps,
           PrepEvents, PrepCalls, Finalizes, OpFirst, OpTaken, EventAdded
  <1>25. Stepping'
    BY <1>1, <1>2, <1>3, <1>4, <1>5, <1>6, <1>7, <1>8, <1>9, <1>10, <1>11, <1>12,
       <1>13, <1>14, <1>15, <1>16, SMTT(10)
       DEF IInv, Stepping, Typed, Row, A, OpFirst, OpTaken, EventAdded
  <1>26. Beginning'
    BY <1>1, <1>2, <1>3, <1>4, <1>5, <1>6, <1>7, <1>8, <1>9, <1>10, <1>11, <1>12,
       <1>13, <1>14, <1>15, <1>16, SMTT(10)
       DEF IInv, Beginning, Stepping, Typed, Written, Begin, OpFirst, OpTaken,
           EventAdded
  <1>27. Finishing'
    BY <1>1, <1>2, <1>3, <1>4, <1>5, <1>6, <1>7, <1>8, <1>9, <1>10, <1>11, <1>12,
       <1>13, <1>14, <1>15, <1>16, SMTT(10)
       DEF IInv, Finishing, Stepping, Attempting, Finalizing, Written, Terminal,
           OpFirst, OpTaken, EventAdded
  <1>28. Staging'
    BY <1>1, <1>2, <1>3, <1>4, <1>5, <1>6, <1>7, <1>8, <1>9, <1>10, <1>11, <1>12,
       <1>13, <1>14, <1>15, <1>16, SMTT(10)
       DEF IInv, Staging, Attempting, Preparing, Staged, OpFirst, OpTaken, EventAdded
  <1>29. Asking'
    BY <1>1, <1>2, <1>3, <1>4, <1>5, <1>6, <1>7, <1>8, <1>9, <1>10, <1>11, <1>12,
       <1>13, <1>14, <1>15, <1>16, SMTT(10)
       DEF IInv, Asking, Attempting, Open, OpFirst, OpTaken, EventAdded
  <1>30. Showing'
    BY <1>1, <1>2, <1>3, <1>4, <1>5, <1>6, <1>7, <1>8, <1>9, <1>10, <1>11, <1>12,
       <1>13, <1>14, <1>15, <1>16, SMTT(10)
       DEF IInv, Showing, Attempting, Asking, Typed, Open, InFlight, OpFirst, OpTaken,
           EventAdded
  <1>31. Saving'
    BY <1>1, <1>2, <1>3, <1>4, <1>5, <1>6, <1>7, <1>8, <1>9, <1>10, <1>11, <1>12,
       <1>13, <1>14, <1>15, <1>16, AttemptParts, SMTT(10)
       DEF IInv, Saving, Finishing, Stepping, Finalizing, Attempting,
           CompletedIsSaved, OpFirst, OpTaken, EventAdded
  <1>32. Faultless'
    <2>1. up' /\ ~failedOp' /\ ~shutting' => \A y \in Posted' : y.ev \notin
         {"not_prepared", "not_finalized"}
      BY <1>1, <1>2, <1>3, <1>4, <1>5, <1>6, <1>7, <1>8, <1>9, <1>10, <1>11, <1>12,
         <1>13, <1>14, <1>15, <1>16, SMTT(10)
         DEF IInv, Faultless, Loading, Attempting, Finalizing, Stepping, Beginning,
             InFlight, Begin, OpTaken, EventAdded
    <2>2. up' /\ ~failedOp' /\ ~shutting' => \A y \in Deferred' : y.ev \notin
         {"prepare_failed", "final_failed"}
      BY <1>1, <1>2, <1>3, <1>4, <1>5, <1>6, <1>7, <1>8, <1>9, <1>10, <1>11, <1>12,
         <1>13, <1>14, <1>15, <1>16, SMTT(10)
         DEF IInv, Faultless, Loading, Attempting, Finalizing, Stepping, Beginning,
             InFlight, Begin, OpTaken, EventAdded
    <2>3. up' /\ ~failedOp' /\ ~shutting' /\ prep' # None =>
         rows'[prep'[1]].attempt = prep'[2] \/ \E x \in Queued' : x.op \in
         Begin /\ x.a = prep'
      BY <1>1, <1>2, <1>3, <1>4, <1>5, <1>6, <1>7, <1>8, <1>9, <1>10, <1>11, <1>12,
         <1>13, <1>14, <1>15, <1>16, SMTT(10)
         DEF IInv, Faultless, Loading, Attempting, Finalizing, Stepping, Beginning,
             InFlight, Begin, OpTaken, EventAdded
    <2>4. up' /\ ~failedOp' /\ ~shutting' => \A x \in Queued' : x.op =
         "finalize" => rows'[x.a[1]].attempt = x.a[2] \/ \E b \in Queued' :
         b.op \in Begin /\ b.a = x.a
      BY <1>10, <1>12, <1>14 DEF IInv, Faultless
    <2>5. up' /\ ~failedOp' /\ ~shutting' /\ loaded' => \A t \in Turns :
         turns'[t] = rows'[t] \/ InFlight(t)' \/ (final' # None /\ final'[1]
         = t)
      BY DEF IInv, Faultless, InFlight
    <2> QED  BY <2>1, <2>2, <2>3, <2>4, <2>5 DEF Faultless, Begin
  <1> QED  BY <1>17, <1>18, <1>19, <1>20, <1>21, <1>22, <1>23, <1>24, <1>25, <1>26, <1>27, <1>28, <1>29, <1>30, <1>31, <1>32 DEF IInv

\* Stage one fails.
LEMMA BeginFaultStep ==
  ASSUME IInv, NEW a \in Attempts, NEW o, NEW e,
         dataQ # <<>>, o = Head(dataQ), o.a = a, o.op \in Begin,
         dataQ' = Tail(dataQ), opStep' = "start",
         e = Event("not_prepared", a), mainQ' = Append(mainQ, e),
         failedOp' = TRUE, faults' \in 0..MaxFaults,
         UNCHANGED <<rows, dataUp, soon, up, loaded, shutting, writable, turns, state>>,
         UNCHANGED <<prep, active, contexts, final, unsaved, retrievals, lane, ask, background>>
  PROVE  IInv'
  <1>1. /\ a[1] \in Turns /\ a[2] \in 1..MaxRequests /\ a # None
    BY AttemptParts
  <1>2. OpTaken
    BY TakesOp
  <1>3. /\ OpTyped(o) /\ o \in Queued /\ o \in Begins /\ o \in PrepOps(a)
        /\ o.op \notin {"init", "assemble", "checkpoint", "finalize"}
    BY <1>2 DEF OpFirst, OpTaken, OpTyped, Begins, PrepOps, Begin
  <1>4. loaded /\ up
        <2> SUFFICES ASSUME ~loaded
                 PROVE  FALSE
      BY DEF IInv, Loading
    <2>1. dataQ = <<InitOp>>
      BY DEF IInv, Loading
    <2>2. Head(dataQ) = InitOp
      BY <2>1
    <2> QED  BY <2>2 DEF InitOp, Op, Begin

  <1>5. /\ e \in EventRecs /\ EventTyped(e) /\ e.ev = "not_prepared" /\ e.a = a
    BY NewEvent DEF Signal
  <1>6. EventAdded(e)
    BY <1>5, AddsEvent
  <1>7. /\ e \notin FinalEvents /\ e \in PrepEvents(a) /\ e.ev \notin Startup
        /\ \A b \in Attempts : e \in PrepEvents(b) => b = a
    BY <1>5 DEF FinalEvents, PrepEvents, Startup
  <1>8. /\ \A d \in Posted : d \notin PrepEvents(a)
        /\ \A d \in Deferred : d \notin PrepCalls(a)
        /\ a \notin retrievals
    BY <1>3 DEF IInv, Preparing
  <1>9. LinedEvents(mainQ')
    BY <1>6, <1>7, <1>8 DEF EventAdded
  <1>10. /\ Queued' \subseteq Queued /\ \A p \in Queued' : p.op \notin Begin
    BY <1>2, <1>3, AllTyped DEF OpTaken, Begins, OpTyped
  <1>11. \A p \in Queued' : p \notin PrepOps(a)
    BY <1>2, <1>3 DEF OpTaken
  <1>12. \A b \in Attempts : InPreparation(b)' => InPreparation(b)
    BY <1>2, <1>3, <1>5, <1>6, <1>7, SameQueues
       DEF InPreparation, PrepOps, PrepEvents, PrepCalls, OpTaken, EventAdded
  <1>13. /\ \A p \in Queued' : p.op = "finalize" => p # o
    BY <1>2, <1>3, <1>10, AllTyped DEF OpTaken, OpTyped
  <1>14. /\ UNCHANGED dataQ => UNCHANGED Queued
         /\ UNCHANGED mainQ => UNCHANGED Posted
         /\ UNCHANGED soon => UNCHANGED Deferred
    BY SameQueues
  <1>15. /\ \A x \in Queued : OpTyped(x)
         /\ \A y \in Posted : EventTyped(y)
         /\ \A y \in Deferred : CallTyped(y)
    BY AllTyped
  <1>16. Typed'
    BY <1>1, <1>2, <1>3, <1>4, <1>5, <1>6, <1>7, <1>8, <1>9, <1>10, <1>11, <1>12,
       <1>13, <1>14, <1>15
       DEF IInv, Typed, OpFirst, OpTaken, EventAdded
  <1>17. Loading'
    BY <1>1, <1>2, <1>3, <1>4, <1>5, <1>6, <1>7, <1>8, <1>9, <1>10, <1>11, <1>12,
       <1>13, <1>14, <1>15, SMTT(10)
       DEF IInv, Loading, Typed, OpFirst, OpTaken, EventAdded
  <1>18. Numbered'
    BY <1>1, <1>2, <1>3, <1>4, <1>5, <1>6, <1>7, <1>8, <1>9, <1>10, <1>11, <1>12,
       <1>13, <1>14, <1>15, SMTT(10)
       DEF IInv, Numbered, Typed, Loading, Known, Latest, OpFirst, OpTaken, EventAdded
  <1>19. Lined'
    BY <1>1, <1>2, <1>3, <1>4, <1>5, <1>6, <1>7, <1>8, <1>9, <1>10, <1>11, <1>12,
       <1>13, <1>14, <1>15, SMTT(10)
       DEF IInv, Lined, Fits, OpFirst, OpTaken, EventAdded
  <1>20. Preparing'
    <2>1. \A b \in Attempts, x \in Queued' : x \in PrepOps(b) => (\A y \in
         Posted' : y \notin PrepEvents(b)) /\ b \notin retrievals' /\ \A y
         \in Deferred' : y \notin PrepCalls(b)
      BY <1>1, <1>2, <1>3, <1>4, <1>5, <1>6, <1>7, <1>8, <1>9, <1>10, <1>11, <1>12,
         <1>13, <1>14, <1>15, SMTT(10)
         DEF IInv, Preparing, PrepOps, PrepEvents, PrepCalls, OpTaken, EventAdded
    <2>2. \A b \in Attempts, y \in Posted' : y \in PrepEvents(b) => b \notin
         retrievals' /\ \A d \in Deferred' : d \notin PrepCalls(b)
      BY <1>1, <1>2, <1>3, <1>4, <1>5, <1>6, <1>7, <1>8, <1>9, <1>10, <1>11, <1>12,
         <1>13, <1>14, <1>15, SMTT(10)
         DEF IInv, Preparing, PrepOps, PrepEvents, PrepCalls, OpTaken, EventAdded
    <2>3. \A b \in Attempts : b \in retrievals' => \A y \in Deferred' : y
         \notin PrepCalls(b)
      BY <1>1, <1>2, <1>3, <1>4, <1>5, <1>6, <1>7, <1>8, <1>9, <1>10, <1>11, <1>12,
         <1>13, <1>14, <1>15, SMTT(10)
         DEF IInv, Preparing, PrepOps, PrepEvents, PrepCalls, OpTaken, EventAdded
    <2> QED  BY <2>1, <2>2, <2>3 DEF Preparing, PrepOps, PrepEvents, PrepCalls
  <1>21. Attempting'
    BY <1>1, <1>2, <1>3, <1>4, <1>5, <1>6, <1>7, <1>8, <1>9, <1>10, <1>11, <1>12,
       <1>13, <1>14, <1>15, AttemptParts, SMTT(10)
       DEF IInv, Attempting, Loading, Finalizing, IdleIsQuiet, LaneIsReleased, Busy,
           EventTyped, Startup, OpFirst, OpTaken, EventAdded
  <1>22. Finalizing'
    BY <1>1, <1>2, <1>3, <1>4, <1>5, <1>6, <1>7, <1>8, <1>9, <1>10, <1>11, <1>12,
       <1>13, <1>14, <1>15, SMTT(10)
       DEF IInv, Finalizing, Attempting, Preparing, Begins, Finalizes, FinalEvents,
           FinalCalls, Begin, OpFirst, OpTaken, EventAdded
  <1>23. NotAsked'
    BY <1>1, <1>2, <1>3, <1>4, <1>5, <1>6, <1>7, <1>8, <1>9, <1>10, <1>11, <1>12,
       <1>13, <1>14, <1>15, SMTT(10)
       DEF IInv, NotAsked, Preparing, Attempting, Finalizing, InPreparation, PrepOps,
           PrepEvents, PrepCalls, Finalizes, OpFirst, OpTaken, EventAdded
  <1>24. Stepping'
    BY <1>1, <1>2, <1>3, <1>4, <1>5, <1>6, <1>7, <1>8, <1>9, <1>10, <1>11, <1>12,
       <1>13, <1>14, <1>15, SMTT(10)
       DEF IInv, Stepping, Typed, Row, A, OpFirst, OpTaken, EventAdded
  <1>25. Beginning'
    BY <1>1, <1>2, <1>3, <1>4, <1>5, <1>6, <1>7, <1>8, <1>9, <1>10, <1>11, <1>12,
       <1>13, <1>14, <1>15, SMTT(10)
       DEF IInv, Beginning, Stepping, Typed, Written, Begin, OpFirst, OpTaken,
           EventAdded
  <1>26. Finishing'
    BY <1>1, <1>2, <1>3, <1>4, <1>5, <1>6, <1>7, <1>8, <1>9, <1>10, <1>11, <1>12,
       <1>13, <1>14, <1>15, SMTT(10)
       DEF IInv, Finishing, Stepping, Attempting, Finalizing, Written, Terminal,
           OpFirst, OpTaken, EventAdded
  <1>27. Staging'
    BY <1>1, <1>2, <1>3, <1>4, <1>5, <1>6, <1>7, <1>8, <1>9, <1>10, <1>11, <1>12,
       <1>13, <1>14, <1>15, SMTT(10)
       DEF IInv, Staging, Attempting, Preparing, Staged, OpFirst, OpTaken, EventAdded
  <1>28. Asking'
    BY <1>1, <1>2, <1>3, <1>4, <1>5, <1>6, <1>7, <1>8, <1>9, <1>10, <1>11, <1>12,
       <1>13, <1>14, <1>15, SMTT(10)
       DEF IInv, Asking, Attempting, Open, OpFirst, OpTaken, EventAdded
  <1>29. Showing'
    BY <1>1, <1>2, <1>3, <1>4, <1>5, <1>6, <1>7, <1>8, <1>9, <1>10, <1>11, <1>12,
       <1>13, <1>14, <1>15, SMTT(10)
       DEF IInv, Showing, Attempting, Asking, Typed, Open, InFlight, OpFirst, OpTaken,
           EventAdded
  <1>30. Saving'
    BY <1>1, <1>2, <1>3, <1>4, <1>5, <1>6, <1>7, <1>8, <1>9, <1>10, <1>11, <1>12,
       <1>13, <1>14, <1>15, AttemptParts, SMTT(10)
       DEF IInv, Saving, Finishing, Stepping, Finalizing, Attempting,
           CompletedIsSaved, OpFirst, OpTaken, EventAdded
  <1>31. Faultless'
    BY <1>1, <1>2, <1>3, <1>4, <1>5, <1>6, <1>7, <1>8, <1>9, <1>10, <1>11, <1>12,
       <1>13, <1>14, <1>15, SMTT(10)
       DEF IInv, Faultless, Loading, Attempting, Finalizing, Stepping, Beginning,
           InFlight, Begin, OpFirst, OpTaken, EventAdded
  <1> QED  BY <1>16, <1>17, <1>18, <1>19, <1>20, <1>21, <1>22, <1>23, <1>24, <1>25, <1>26, <1>27, <1>28, <1>29, <1>30, <1>31 DEF IInv

\* Stage two answers.
LEMMA AssembleAnswerStep ==
  ASSUME IInv, NEW a \in Attempts, NEW o, NEW e,
         dataQ # <<>>, o = Head(dataQ), o.a = a, o.op = "assemble",
         dataQ' = Tail(dataQ), opStep' = "start",
         e = Event("assembled", a), mainQ' = Append(mainQ, e),
         UNCHANGED <<rows, dataUp, soon, up, loaded, shutting, failedOp, faults, writable>>,
         UNCHANGED <<turns, state, prep, active, contexts, final, unsaved, retrievals, lane>>,
         UNCHANGED <<ask, background>>
  PROVE  IInv'
  <1>1. /\ a[1] \in Turns /\ a[2] \in 1..MaxRequests /\ a # None
    BY AttemptParts
  <1>2. OpTaken
    BY TakesOp
  <1>3. /\ OpTyped(o) /\ o \in Queued /\ o \in PrepOps(a) /\ o \notin Begins /\ o \notin Finalizes
        /\ o.op \notin Begin /\ opStep = "start"
    BY <1>2
       DEF OpTaken, OpTyped, Begins, Finalizes, PrepOps, Begin, IInv, Typed, Stepping
  <1>4. loaded /\ up
        <2> SUFFICES ASSUME ~loaded
                 PROVE  FALSE
      BY DEF IInv, Loading
    <2>1. dataQ = <<InitOp>>
      BY DEF IInv, Loading
    <2>2. Head(dataQ) = InitOp
      BY <2>1
    <2> QED  BY <2>2 DEF InitOp, Op, Begin

  <1>5. /\ e \in EventRecs /\ EventTyped(e) /\ e.ev = "assembled" /\ e.a = a
    BY NewEvent DEF Signal
  <1>6. EventAdded(e)
    BY <1>5, AddsEvent
  <1>7. /\ e \notin FinalEvents /\ e \in PrepEvents(a) /\ e.ev \notin Startup
        /\ \A b \in Attempts : e \in PrepEvents(b) => b = a
    BY <1>5 DEF FinalEvents, PrepEvents, Startup
  <1>8. /\ \A d \in Posted : d \notin PrepEvents(a)
        /\ \A d \in Deferred : d \notin PrepCalls(a)
        /\ a \notin retrievals
    BY <1>3 DEF IInv, Preparing
  <1>9. LinedEvents(mainQ')
    BY <1>6, <1>7, <1>8 DEF EventAdded
  <1>10. Queued' \subseteq Queued /\ \A p \in Queued : p.op # "assemble" => p \in Queued'
    BY <1>2 DEF OpTaken
  <1>11. \A p \in Queued' : p \notin PrepOps(a)
    BY <1>2, <1>3 DEF OpTaken
  <1>12. \A b \in Attempts : InPreparation(b)' => InPreparation(b)
    BY <1>2, <1>3, <1>5, <1>6, <1>7, SameQueues
       DEF InPreparation, PrepOps, PrepEvents, PrepCalls, OpTaken, EventAdded
  <1>13. \A t \in Turns : InFlight(t)' = InFlight(t)
    BY DEF InFlight
  <1>14. /\ UNCHANGED dataQ => UNCHANGED Queued
         /\ UNCHANGED mainQ => UNCHANGED Posted
         /\ UNCHANGED soon => UNCHANGED Deferred
    BY SameQueues
  <1>15. /\ \A x \in Queued : OpTyped(x)
         /\ \A y \in Posted : EventTyped(y)
         /\ \A y \in Deferred : CallTyped(y)
    BY AllTyped
  <1>16. Typed'
    BY <1>1, <1>2, <1>3, <1>4, <1>5, <1>6, <1>7, <1>8, <1>9, <1>10, <1>11, <1>12,
       <1>13, <1>14, <1>15
       DEF IInv, Typed, OpTaken, EventAdded
  <1>17. Loading'
    BY <1>1, <1>2, <1>3, <1>4, <1>5, <1>6, <1>7, <1>8, <1>9, <1>10, <1>11, <1>12,
       <1>13, <1>14, <1>15, SMTT(10)
       DEF IInv, Loading, Typed, OpTaken, EventAdded
  <1>18. Numbered'
    BY <1>1, <1>2, <1>3, <1>4, <1>5, <1>6, <1>7, <1>8, <1>9, <1>10, <1>11, <1>12,
       <1>13, <1>14, <1>15, SMTT(10)
       DEF IInv, Numbered, Typed, Loading, Known, Latest, OpTaken, EventAdded
  <1>19. Lined'
    BY <1>1, <1>2, <1>3, <1>4, <1>5, <1>6, <1>7, <1>8, <1>9, <1>10, <1>11, <1>12,
       <1>13, <1>14, <1>15, SMTT(10)
       DEF IInv, Lined, Fits, OpTaken, EventAdded
  <1>20. Preparing'
    <2>1. \A b \in Attempts, x \in Queued' : x \in PrepOps(b) => (\A y \in
         Posted' : y \notin PrepEvents(b)) /\ b \notin retrievals' /\ \A y
         \in Deferred' : y \notin PrepCalls(b)
      BY <1>1, <1>2, <1>3, <1>4, <1>5, <1>6, <1>7, <1>8, <1>9, <1>10, <1>11, <1>12,
         <1>13, <1>14, <1>15, SMTT(10)
         DEF IInv, Preparing, PrepOps, PrepEvents, PrepCalls, OpTaken, EventAdded
    <2>2. \A b \in Attempts, y \in Posted' : y \in PrepEvents(b) => b \notin
         retrievals' /\ \A d \in Deferred' : d \notin PrepCalls(b)
      BY <1>1, <1>2, <1>3, <1>4, <1>5, <1>6, <1>7, <1>8, <1>9, <1>10, <1>11, <1>12,
         <1>13, <1>14, <1>15, SMTT(10)
         DEF IInv, Preparing, PrepOps, PrepEvents, PrepCalls, OpTaken, EventAdded
    <2>3. \A b \in Attempts : b \in retrievals' => \A y \in Deferred' : y
         \notin PrepCalls(b)
      BY <1>1, <1>2, <1>3, <1>4, <1>5, <1>6, <1>7, <1>8, <1>9, <1>10, <1>11, <1>12,
         <1>13, <1>14, <1>15, SMTT(10)
         DEF IInv, Preparing, PrepOps, PrepEvents, PrepCalls, OpTaken, EventAdded
    <2> QED  BY <2>1, <2>2, <2>3 DEF Preparing, PrepOps, PrepEvents, PrepCalls
  <1>21. Attempting'
    BY <1>1, <1>2, <1>3, <1>4, <1>5, <1>6, <1>7, <1>8, <1>9, <1>10, <1>11, <1>12,
       <1>13, <1>14, <1>15, AttemptParts, SMTT(10)
       DEF IInv, Attempting, Loading, Finalizing, IdleIsQuiet, LaneIsReleased, Busy,
           EventTyped, Startup, OpTaken, EventAdded
  <1>22. Finalizing'
    BY <1>1, <1>2, <1>3, <1>4, <1>5, <1>6, <1>7, <1>8, <1>9, <1>10, <1>11, <1>12,
       <1>13, <1>14, <1>15, SMTT(10)
       DEF IInv, Finalizing, Attempting, Preparing, Begins, Finalizes, FinalEvents,
           FinalCalls, Begin, OpTaken, EventAdded
  <1>23. NotAsked'
    BY <1>1, <1>2, <1>3, <1>4, <1>5, <1>6, <1>7, <1>8, <1>9, <1>10, <1>11, <1>12,
       <1>13, <1>14, <1>15, SMTT(10)
       DEF IInv, NotAsked, Preparing, Attempting, Finalizing, InPreparation, PrepOps,
           PrepEvents, PrepCalls, Finalizes, OpTaken, EventAdded
  <1>24. Stepping'
    BY <1>1, <1>2, <1>3, <1>4, <1>5, <1>6, <1>7, <1>8, <1>9, <1>10, <1>11, <1>12,
       <1>13, <1>14, <1>15, SMTT(10)
       DEF IInv, Stepping, Typed, Row, A, OpTaken, EventAdded
  <1>25. Beginning'
    BY <1>1, <1>2, <1>3, <1>4, <1>5, <1>6, <1>7, <1>8, <1>9, <1>10, <1>11, <1>12,
       <1>13, <1>14, <1>15, SMTT(10)
       DEF IInv, Beginning, Stepping, Typed, Written, Begin, OpTaken, EventAdded
  <1>26. Finishing'
    BY <1>1, <1>2, <1>3, <1>4, <1>5, <1>6, <1>7, <1>8, <1>9, <1>10, <1>11, <1>12,
       <1>13, <1>14, <1>15, SMTT(10)
       DEF IInv, Finishing, Stepping, Attempting, Finalizing, Written, Terminal,
           OpTaken, EventAdded
  <1>27. Staging'
    BY <1>1, <1>2, <1>3, <1>4, <1>5, <1>6, <1>7, <1>8, <1>9, <1>10, <1>11, <1>12,
       <1>13, <1>14, <1>15, SMTT(10)
       DEF IInv, Staging, Attempting, Preparing, Staged, OpTaken, EventAdded
  <1>28. Asking'
    BY <1>1, <1>2, <1>3, <1>4, <1>5, <1>6, <1>7, <1>8, <1>9, <1>10, <1>11, <1>12,
       <1>13, <1>14, <1>15, SMTT(10)
       DEF IInv, Asking, Attempting, Open, OpTaken, EventAdded
  <1>29. Showing'
    BY <1>1, <1>2, <1>3, <1>4, <1>5, <1>6, <1>7, <1>8, <1>9, <1>10, <1>11, <1>12,
       <1>13, <1>14, <1>15, SMTT(10)
       DEF IInv, Showing, Attempting, Asking, Typed, Open, InFlight, OpTaken,
           EventAdded
  <1>30. Saving'
    BY <1>1, <1>2, <1>3, <1>4, <1>5, <1>6, <1>7, <1>8, <1>9, <1>10, <1>11, <1>12,
       <1>13, <1>14, <1>15, AttemptParts, SMTT(10)
       DEF IInv, Saving, Finishing, Stepping, Finalizing, Attempting,
           CompletedIsSaved, OpTaken, EventAdded
  <1>31. Faultless'
    <2>1. up' /\ ~failedOp' /\ ~shutting' => \A y \in Posted' : y.ev \notin
         {"not_prepared", "not_finalized"}
      BY <1>1, <1>2, <1>3, <1>4, <1>5, <1>6, <1>7, <1>8, <1>9, <1>10, <1>11, <1>12,
         <1>13, <1>14, <1>15, SMTT(10)
         DEF IInv, Faultless, Loading, Attempting, Finalizing, Stepping, Beginning,
             InFlight, Begin, OpTaken, EventAdded
    <2>2. up' /\ ~failedOp' /\ ~shutting' => \A y \in Deferred' : y.ev \notin
         {"prepare_failed", "final_failed"}
      BY <1>1, <1>2, <1>3, <1>4, <1>5, <1>6, <1>7, <1>8, <1>9, <1>10, <1>11, <1>12,
         <1>13, <1>14, <1>15, SMTT(10)
         DEF IInv, Faultless, Loading, Attempting, Finalizing, Stepping, Beginning,
             InFlight, Begin, OpTaken, EventAdded
    <2>3. up' /\ ~failedOp' /\ ~shutting' /\ prep' # None =>
         rows'[prep'[1]].attempt = prep'[2] \/ \E x \in Queued' : x.op \in
         Begin /\ x.a = prep'
      BY <1>1, <1>2, <1>3, <1>4, <1>5, <1>6, <1>7, <1>8, <1>9, <1>10, <1>11, <1>12,
         <1>13, <1>14, <1>15, SMTT(10)
         DEF IInv, Faultless, Loading, Attempting, Finalizing, Stepping, Beginning,
             InFlight, Begin, OpTaken, EventAdded
    <2>4. up' /\ ~failedOp' /\ ~shutting' => \A x \in Queued' : x.op =
         "finalize" => rows'[x.a[1]].attempt = x.a[2] \/ \E b \in Queued' :
         b.op \in Begin /\ b.a = x.a
      BY <1>1, <1>2, <1>3, <1>4, <1>5, <1>6, <1>7, <1>8, <1>9, <1>10, <1>11, <1>12,
         <1>13, <1>14, <1>15, SMTT(10)
         DEF IInv, Faultless, Loading, Attempting, Finalizing, Stepping, Beginning,
             InFlight, Begin, OpTaken, EventAdded
    <2>5. up' /\ ~failedOp' /\ ~shutting' /\ loaded' => \A t \in Turns :
         turns'[t] = rows'[t] \/ InFlight(t)' \/ (final' # None /\ final'[1]
         = t)
      BY <1>1, <1>2, <1>3, <1>4, <1>5, <1>6, <1>7, <1>8, <1>9, <1>10, <1>11, <1>12,
         <1>13, <1>14, <1>15, SMTT(10)
         DEF IInv, Faultless, Loading, Attempting, Finalizing, Stepping, Beginning,
             InFlight, Begin, OpTaken, EventAdded
    <2> QED  BY <2>1, <2>2, <2>3, <2>4, <2>5 DEF Faultless, Begin
  <1> QED  BY <1>16, <1>17, <1>18, <1>19, <1>20, <1>21, <1>22, <1>23, <1>24, <1>25, <1>26, <1>27, <1>28, <1>29, <1>30, <1>31 DEF IInv

\* Stage two fails.
LEMMA AssembleFaultStep ==
  ASSUME IInv, NEW a \in Attempts, NEW o, NEW e,
         dataQ # <<>>, o = Head(dataQ), o.a = a, o.op = "assemble",
         dataQ' = Tail(dataQ), opStep' = "start",
         e = Event("not_prepared", a), mainQ' = Append(mainQ, e),
         failedOp' = TRUE, faults' \in 0..MaxFaults,
         UNCHANGED <<rows, dataUp, soon, up, loaded, shutting, writable, turns, state>>,
         UNCHANGED <<prep, active, contexts, final, unsaved, retrievals, lane, ask, background>>
  PROVE  IInv'
  <1>1. /\ a[1] \in Turns /\ a[2] \in 1..MaxRequests /\ a # None
    BY AttemptParts
  <1>2. OpTaken
    BY TakesOp
  <1>3. /\ OpTyped(o) /\ o \in Queued /\ o \in PrepOps(a) /\ o \notin Begins /\ o \notin Finalizes
        /\ o.op \notin Begin /\ opStep = "start"
    BY <1>2
       DEF OpTaken, OpTyped, Begins, Finalizes, PrepOps, Begin, IInv, Typed, Stepping
  <1>4. loaded /\ up
        <2> SUFFICES ASSUME ~loaded
                 PROVE  FALSE
      BY DEF IInv, Loading
    <2>1. dataQ = <<InitOp>>
      BY DEF IInv, Loading
    <2>2. Head(dataQ) = InitOp
      BY <2>1
    <2> QED  BY <2>2 DEF InitOp, Op, Begin

  <1>5. /\ e \in EventRecs /\ EventTyped(e) /\ e.ev = "not_prepared" /\ e.a = a
    BY NewEvent DEF Signal
  <1>6. EventAdded(e)
    BY <1>5, AddsEvent
  <1>7. /\ e \notin FinalEvents /\ e \in PrepEvents(a) /\ e.ev \notin Startup
        /\ \A b \in Attempts : e \in PrepEvents(b) => b = a
    BY <1>5 DEF FinalEvents, PrepEvents, Startup
  <1>8. /\ \A d \in Posted : d \notin PrepEvents(a)
        /\ \A d \in Deferred : d \notin PrepCalls(a)
        /\ a \notin retrievals
    BY <1>3 DEF IInv, Preparing
  <1>9. LinedEvents(mainQ')
    BY <1>6, <1>7, <1>8 DEF EventAdded
  <1>10. Queued' \subseteq Queued /\ \A p \in Queued : p.op # "assemble" => p \in Queued'
    BY <1>2 DEF OpTaken
  <1>11. \A p \in Queued' : p \notin PrepOps(a)
    BY <1>2, <1>3 DEF OpTaken
  <1>12. \A b \in Attempts : InPreparation(b)' => InPreparation(b)
    BY <1>2, <1>3, <1>5, <1>6, <1>7, SameQueues
       DEF InPreparation, PrepOps, PrepEvents, PrepCalls, OpTaken, EventAdded
  <1>13. /\ UNCHANGED dataQ => UNCHANGED Queued
         /\ UNCHANGED mainQ => UNCHANGED Posted
         /\ UNCHANGED soon => UNCHANGED Deferred
    BY SameQueues
  <1>14. /\ \A x \in Queued : OpTyped(x)
         /\ \A y \in Posted : EventTyped(y)
         /\ \A y \in Deferred : CallTyped(y)
    BY AllTyped
  <1>15. Typed'
    BY <1>1, <1>2, <1>3, <1>4, <1>5, <1>6, <1>7, <1>8, <1>9, <1>10, <1>11, <1>12,
       <1>13, <1>14
       DEF IInv, Typed, OpTaken, EventAdded
  <1>16. Loading'
    BY <1>1, <1>2, <1>3, <1>4, <1>5, <1>6, <1>7, <1>8, <1>9, <1>10, <1>11, <1>12,
       <1>13, <1>14, SMTT(10)
       DEF IInv, Loading, Typed, OpTaken, EventAdded
  <1>17. Numbered'
    BY <1>3, <1>5, <1>6, <1>10, <1>13 DEF IInv, Numbered, Known, Latest, EventAdded
  <1>18. Lined'
    BY <1>1, <1>2, <1>3, <1>4, <1>5, <1>6, <1>7, <1>8, <1>9, <1>10, <1>11, <1>12,
       <1>13, <1>14, SMTT(10)
       DEF IInv, Lined, Fits, OpTaken, EventAdded
  <1>19. Preparing'
    <2>1. \A b \in Attempts, x \in Queued' : x \in PrepOps(b) => (\A y \in
         Posted' : y \notin PrepEvents(b)) /\ b \notin retrievals' /\ \A y
         \in Deferred' : y \notin PrepCalls(b)
      BY <1>1, <1>2, <1>3, <1>4, <1>5, <1>6, <1>7, <1>8, <1>9, <1>10, <1>11, <1>12,
         <1>13, <1>14, SMTT(10)
         DEF IInv, Preparing, PrepOps, PrepEvents, PrepCalls, OpTaken, EventAdded
    <2>2. \A b \in Attempts, y \in Posted' : y \in PrepEvents(b) => b \notin
         retrievals' /\ \A d \in Deferred' : d \notin PrepCalls(b)
      BY <1>1, <1>2, <1>3, <1>4, <1>5, <1>6, <1>7, <1>8, <1>9, <1>10, <1>11, <1>12,
         <1>13, <1>14, SMTT(10)
         DEF IInv, Preparing, PrepOps, PrepEvents, PrepCalls, OpTaken, EventAdded
    <2>3. \A b \in Attempts : b \in retrievals' => \A y \in Deferred' : y
         \notin PrepCalls(b)
      BY <1>1, <1>2, <1>3, <1>4, <1>5, <1>6, <1>7, <1>8, <1>9, <1>10, <1>11, <1>12,
         <1>13, <1>14, SMTT(10)
         DEF IInv, Preparing, PrepOps, PrepEvents, PrepCalls, OpTaken, EventAdded
    <2> QED  BY <2>1, <2>2, <2>3 DEF Preparing, PrepOps, PrepEvents, PrepCalls
  <1>20. Attempting'
    BY <1>1, <1>2, <1>3, <1>4, <1>5, <1>6, <1>7, <1>8, <1>9, <1>10, <1>11, <1>12,
       <1>13, <1>14, AttemptParts, SMTT(10)
       DEF IInv, Attempting, Loading, Finalizing, IdleIsQuiet, LaneIsReleased, Busy,
           EventTyped, Startup, OpTaken, EventAdded
  <1>21. Finalizing'
    BY <1>1, <1>2, <1>3, <1>4, <1>5, <1>6, <1>7, <1>8, <1>9, <1>10, <1>11, <1>12,
       <1>13, <1>14, SMTT(10)
       DEF IInv, Finalizing, Attempting, Preparing, Begins, Finalizes, FinalEvents,
           FinalCalls, Begin, OpTaken, EventAdded
  <1>22. NotAsked'
    BY <1>1, <1>2, <1>3, <1>4, <1>5, <1>6, <1>7, <1>8, <1>9, <1>10, <1>11, <1>12,
       <1>13, <1>14, SMTT(10)
       DEF IInv, NotAsked, Preparing, Attempting, Finalizing, InPreparation, PrepOps,
           PrepEvents, PrepCalls, Finalizes, OpTaken, EventAdded
  <1>23. Stepping'
    BY <1>1, <1>2, <1>3, <1>4, <1>5, <1>6, <1>7, <1>8, <1>9, <1>10, <1>11, <1>12,
       <1>13, <1>14, SMTT(10)
       DEF IInv, Stepping, Typed, Row, A, OpTaken, EventAdded
  <1>24. Beginning'
    BY <1>1, <1>2, <1>3, <1>4, <1>5, <1>6, <1>7, <1>8, <1>9, <1>10, <1>11, <1>12,
       <1>13, <1>14, SMTT(10)
       DEF IInv, Beginning, Stepping, Typed, Written, Begin, OpTaken, EventAdded
  <1>25. Finishing'
    BY <1>1, <1>2, <1>3, <1>4, <1>5, <1>6, <1>7, <1>8, <1>9, <1>10, <1>11, <1>12,
       <1>13, <1>14, SMTT(10)
       DEF IInv, Finishing, Stepping, Attempting, Finalizing, Written, Terminal,
           OpTaken, EventAdded
  <1>26. Staging'
    BY <1>1, <1>2, <1>3, <1>4, <1>5, <1>6, <1>7, <1>8, <1>9, <1>10, <1>11, <1>12,
       <1>13, <1>14, SMTT(10)
       DEF IInv, Staging, Attempting, Preparing, Staged, OpTaken, EventAdded
  <1>27. Asking'
    BY <1>1, <1>2, <1>3, <1>4, <1>5, <1>6, <1>7, <1>8, <1>9, <1>10, <1>11, <1>12,
       <1>13, <1>14, SMTT(10)
       DEF IInv, Asking, Attempting, Open, OpTaken, EventAdded
  <1>28. Showing'
    BY <1>1, <1>2, <1>3, <1>4, <1>5, <1>6, <1>7, <1>8, <1>9, <1>10, <1>11, <1>12,
       <1>13, <1>14, SMTT(10)
       DEF IInv, Showing, Attempting, Asking, Typed, Open, InFlight, OpTaken,
           EventAdded
  <1>29. Saving'
    BY <1>1, <1>2, <1>3, <1>4, <1>5, <1>6, <1>7, <1>8, <1>9, <1>10, <1>11, <1>12,
       <1>13, <1>14, AttemptParts, SMTT(10)
       DEF IInv, Saving, Finishing, Stepping, Finalizing, Attempting,
           CompletedIsSaved, OpTaken, EventAdded
  <1>30. Faultless'
    BY <1>1, <1>2, <1>3, <1>4, <1>5, <1>6, <1>7, <1>8, <1>9, <1>10, <1>11, <1>12,
       <1>13, <1>14, SMTT(10)
       DEF IInv, Faultless, Loading, Attempting, Finalizing, Stepping, Beginning,
           InFlight, Begin, OpTaken, EventAdded
  <1> QED  BY <1>15, <1>16, <1>17, <1>18, <1>19, <1>20, <1>21, <1>22, <1>23, <1>24, <1>25, <1>26, <1>27, <1>28, <1>29, <1>30 DEF IInv

\* Stage two fails and marks the row of its attempt.
LEMMA AssembleMarksStep ==
  ASSUME IInv, NEW a \in Attempts, NEW o, NEW e,
         dataQ # <<>>, o = Head(dataQ), o.a = a, o.op = "assemble",
         dataQ' = Tail(dataQ), opStep' = "start",
         e = Event("not_prepared", a), mainQ' = Append(mainQ, e),
         failedOp' = TRUE, faults' \in 0..MaxFaults,
         rows[a[1]].attempt = a[2], rows' = [rows EXCEPT ![a[1]] = Message("failed", a[2], 0)],
         UNCHANGED <<dataUp, soon, up, loaded, shutting, writable, turns, state, prep>>,
         UNCHANGED <<active, contexts, final, unsaved, retrievals, lane, ask, background>>
  PROVE  IInv'
  <1>1. /\ a[1] \in Turns /\ a[2] \in 1..MaxRequests /\ a # None
    BY AttemptParts
  <1>2. OpTaken
    BY TakesOp
  <1>3. /\ OpTyped(o) /\ o \in Queued /\ o \in PrepOps(a) /\ o \notin Begins /\ o \notin Finalizes
        /\ o.op \notin Begin /\ opStep = "start"
    BY <1>2
       DEF OpTaken, OpTyped, Begins, Finalizes, PrepOps, Begin, IInv, Typed, Stepping
  <1>4. loaded /\ up
        <2> SUFFICES ASSUME ~loaded
                 PROVE  FALSE
      BY DEF IInv, Loading
    <2>1. dataQ = <<InitOp>>
      BY DEF IInv, Loading
    <2>2. Head(dataQ) = InitOp
      BY <2>1
    <2> QED  BY <2>2 DEF InitOp, Op, Begin

  <1>5. /\ e \in EventRecs /\ EventTyped(e) /\ e.ev = "not_prepared" /\ e.a = a
    BY NewEvent DEF Signal
  <1>6. EventAdded(e)
    BY <1>5, AddsEvent
  <1>7. /\ e \notin FinalEvents /\ e \in PrepEvents(a) /\ e.ev \notin Startup
        /\ \A b \in Attempts : e \in PrepEvents(b) => b = a
    BY <1>5 DEF FinalEvents, PrepEvents, Startup
  <1>8. /\ \A d \in Posted : d \notin PrepEvents(a)
        /\ \A d \in Deferred : d \notin PrepCalls(a)
        /\ a \notin retrievals
    BY <1>3 DEF IInv, Preparing
  <1>9. LinedEvents(mainQ')
    BY <1>6, <1>7, <1>8 DEF EventAdded
  <1>10. Queued' \subseteq Queued /\ \A p \in Queued : p.op # "assemble" => p \in Queued'
    BY <1>2 DEF OpTaken
  <1>11. \A p \in Queued' : p \notin PrepOps(a)
    BY <1>2, <1>3 DEF OpTaken
  <1>12. \A b \in Attempts : InPreparation(b)' => InPreparation(b)
    BY <1>2, <1>3, <1>5, <1>6, <1>7, SameQueues
       DEF InPreparation, PrepOps, PrepEvents, PrepCalls, OpTaken, EventAdded
  <1>13. /\ rows' \in [Turns -> Messages]
         /\ rows'[a[1]] = Message("failed", a[2], 0)
         /\ \A t \in Turns : t # a[1] => rows'[t] = rows[t]
        <2>1. Message("failed", a[2], 0) \in Messages
      BY <1>1, ConversationAssumption DEF Messages, Message, Statuses, Terminal
    <2> QED  BY <1>1, <2>1 DEF IInv, Typed

  <1>14. /\ rows'[a[1]].status = "failed" /\ \A t \in Turns : rows'[t].attempt = rows[t].attempt
    BY <1>1, <1>13 DEF Message
  <1>15. rows[a[1]].status # "completed" /\ \A c \in contexts : c.a # a
    BY <1>3 DEF IInv, NotAsked, InPreparation
  <1>16. \A c \in contexts : ~c.terminal => c.a[1] # a[1]
    BY <1>15, AttemptParts DEF IInv, Typed, ContextRecs, Asking
  <1>17. \A b \in Attempts : b # a /\ b[1] = a[1] => rows[b[1]] # Message("pending", b[2], 0)
    BY AttemptParts DEF Message
  <1>18. prep = a => ~Staged'
        <2> SUFFICES ASSUME prep = a
                 PROVE  ~Staged'
      OBVIOUS
    <2>1. \A p \in Queued' : p.op # "assemble" \/ p.a # a
      BY <1>2, <1>10, <1>11, AllTyped DEF PrepOps, OpTyped
    <2>2. \A d \in Posted' : d.ev \notin {"seed", "assembled"} \/ d.a # a
      BY <1>5, <1>6, <1>8, AllTyped DEF EventAdded, PrepEvents, EventTyped
    <2>3. \A d \in Deferred' : d.ev # "prepared" \/ d.a # a
      BY <1>8, AllTyped, SameQueues DEF PrepCalls, CallTyped
    <2> QED  BY <1>8, <2>1, <2>2, <2>3 DEF Staged

  <1>19. prep # a /\ Staged' => Staged
    BY <1>2, <1>5, <1>6, SameQueues DEF Staged, OpTaken, EventAdded
  <1>20. /\ UNCHANGED dataQ => UNCHANGED Queued
         /\ UNCHANGED mainQ => UNCHANGED Posted
         /\ UNCHANGED soon => UNCHANGED Deferred
    BY SameQueues
  <1>21. /\ \A x \in Queued : OpTyped(x)
         /\ \A y \in Posted : EventTyped(y)
         /\ \A y \in Deferred : CallTyped(y)
    BY AllTyped
  <1>22. Typed'
    BY <1>1, <1>2, <1>3, <1>4, <1>5, <1>6, <1>7, <1>8, <1>9, <1>10, <1>11, <1>12,
       <1>13, <1>14, <1>15, <1>16, <1>17, <1>18, <1>19, <1>20, <1>21
       DEF IInv, Typed, OpTaken, EventAdded
  <1>23. Loading'
    BY <1>1, <1>2, <1>3, <1>4, <1>5, <1>6, <1>7, <1>8, <1>9, <1>10, <1>11, <1>12,
       <1>13, <1>14, <1>15, <1>16, <1>17, <1>18, <1>19, <1>20, <1>21, SMTT(10)
       DEF IInv, Loading, Typed, OpTaken, EventAdded
  <1>24. Numbered'
    BY <1>1, <1>2, <1>3, <1>4, <1>5, <1>6, <1>7, <1>8, <1>9, <1>10, <1>11, <1>12,
       <1>13, <1>14, <1>15, <1>16, <1>17, <1>18, <1>19, <1>20, <1>21, SMTT(10)
       DEF IInv, Numbered, Typed, Loading, Known, Latest, OpTaken, EventAdded
  <1>25. Lined'
    BY <1>1, <1>2, <1>3, <1>4, <1>5, <1>6, <1>7, <1>8, <1>9, <1>10, <1>11, <1>12,
       <1>13, <1>14, <1>15, <1>16, <1>17, <1>18, <1>19, <1>20, <1>21, SMTT(10)
       DEF IInv, Lined, Fits, OpTaken, EventAdded
  <1>26. Preparing'
    <2>1. \A b \in Attempts, x \in Queued' : x \in PrepOps(b) => (\A y \in
         Posted' : y \notin PrepEvents(b)) /\ b \notin retrievals' /\ \A y
         \in Deferred' : y \notin PrepCalls(b)
      BY <1>1, <1>2, <1>3, <1>4, <1>5, <1>6, <1>7, <1>8, <1>9, <1>10, <1>11, <1>12,
         <1>13, <1>14, <1>15, <1>16, <1>17, <1>18, <1>19, <1>20, <1>21, SMTT(10)
         DEF IInv, Preparing, PrepOps, PrepEvents, PrepCalls, OpTaken, EventAdded
    <2>2. \A b \in Attempts, y \in Posted' : y \in PrepEvents(b) => b \notin
         retrievals' /\ \A d \in Deferred' : d \notin PrepCalls(b)
      BY <1>1, <1>2, <1>3, <1>4, <1>5, <1>6, <1>7, <1>8, <1>9, <1>10, <1>11, <1>12,
         <1>13, <1>14, <1>15, <1>16, <1>17, <1>18, <1>19, <1>20, <1>21, SMTT(10)
         DEF IInv, Preparing, PrepOps, PrepEvents, PrepCalls, OpTaken, EventAdded
    <2>3. \A b \in Attempts : b \in retrievals' => \A y \in Deferred' : y
         \notin PrepCalls(b)
      BY <1>1, <1>2, <1>3, <1>4, <1>5, <1>6, <1>7, <1>8, <1>9, <1>10, <1>11, <1>12,
         <1>13, <1>14, <1>15, <1>16, <1>17, <1>18, <1>19, <1>20, <1>21, SMTT(10)
         DEF IInv, Preparing, PrepOps, PrepEvents, PrepCalls, OpTaken, EventAdded
    <2> QED  BY <2>1, <2>2, <2>3 DEF Preparing, PrepOps, PrepEvents, PrepCalls
  <1>27. Attempting'
    BY <1>1, <1>2, <1>3, <1>4, <1>5, <1>6, <1>7, <1>8, <1>9, <1>10, <1>11, <1>12,
       <1>13, <1>14, <1>15, <1>16, <1>17, <1>18, <1>19, <1>20, <1>21, AttemptParts,
       SMTT(10)
       DEF IInv, Attempting, Loading, Finalizing, IdleIsQuiet, LaneIsReleased, Busy,
           EventTyped, Startup, OpTaken, EventAdded
  <1>28. Finalizing'
    BY <1>1, <1>2, <1>3, <1>4, <1>5, <1>6, <1>7, <1>8, <1>9, <1>10, <1>11, <1>12,
       <1>13, <1>14, <1>15, <1>16, <1>17, <1>18, <1>19, <1>20, <1>21, SMTT(10)
       DEF IInv, Finalizing, Attempting, Preparing, Begins, Finalizes, FinalEvents,
           FinalCalls, Begin, OpTaken, EventAdded
  <1>29. NotAsked'
    BY <1>1, <1>2, <1>3, <1>4, <1>5, <1>6, <1>7, <1>8, <1>9, <1>10, <1>11, <1>12,
       <1>13, <1>14, <1>15, <1>16, <1>17, <1>18, <1>19, <1>20, <1>21, SMTT(10)
       DEF IInv, NotAsked, Preparing, Attempting, Finalizing, InPreparation, PrepOps,
           PrepEvents, PrepCalls, Finalizes, OpTaken, EventAdded
  <1>30. Stepping'
    BY <1>1, <1>2, <1>3, <1>4, <1>5, <1>6, <1>7, <1>8, <1>9, <1>10, <1>11, <1>12,
       <1>13, <1>14, <1>15, <1>16, <1>17, <1>18, <1>19, <1>20, <1>21, SMTT(10)
       DEF IInv, Stepping, Typed, Row, A, OpTaken, EventAdded
  <1>31. Beginning'
    BY <1>1, <1>2, <1>3, <1>4, <1>5, <1>6, <1>7, <1>8, <1>9, <1>10, <1>11, <1>12,
       <1>13, <1>14, <1>15, <1>16, <1>17, <1>18, <1>19, <1>20, <1>21, SMTT(10)
       DEF IInv, Beginning, Stepping, Typed, Written, Begin, OpTaken, EventAdded
  <1>32. Finishing'
    BY <1>1, <1>2, <1>3, <1>4, <1>5, <1>6, <1>7, <1>8, <1>9, <1>10, <1>11, <1>12,
       <1>13, <1>14, <1>15, <1>16, <1>17, <1>18, <1>19, <1>20, <1>21, SMTT(10)
       DEF IInv, Finishing, Stepping, Attempting, Finalizing, Written, Terminal,
           OpTaken, EventAdded
  <1>33. Staging'
    BY <1>10, <1>14, <1>17, <1>18, <1>19 DEF IInv, Typed, Staging
  <1>34. Asking'
    BY <1>1, <1>2, <1>3, <1>4, <1>5, <1>6, <1>7, <1>8, <1>9, <1>10, <1>11, <1>12,
       <1>13, <1>14, <1>15, <1>16, <1>17, <1>18, <1>19, <1>20, <1>21, SMTT(10)
       DEF IInv, Asking, Attempting, Open, OpTaken, EventAdded
  <1>35. Showing'
    <2>1. \A y \in Posted' : y.ev = "loaded" => \A t \in Turns :
         rows'[t].status \notin Open
      BY <1>1, <1>2, <1>3, <1>4, <1>5, <1>6, <1>7, <1>8, <1>9, <1>10, <1>11, <1>12,
         <1>13, <1>14, <1>15, <1>16, <1>17, <1>18, <1>19, <1>20, <1>21, SMTT(10)
         DEF IInv, Showing, Attempting, Asking, Typed, Open, InFlight, EventAdded
    <2>2. loaded' /\ ~shutting' => \A t \in Turns : rows'[t].attempt <=
         turns'[t].attempt
      BY <1>1, <1>2, <1>3, <1>4, <1>5, <1>6, <1>7, <1>8, <1>9, <1>10, <1>11, <1>12,
         <1>13, <1>14, <1>15, <1>16, <1>17, <1>18, <1>19, <1>20, <1>21, SMTT(10)
         DEF IInv, Showing, Attempting, Asking, Typed, Open, InFlight, EventAdded
    <2>3. loaded' /\ ~shutting' => \A t \in Turns : turns'[t].status \in Open
         => InFlight(t)'
      BY <1>1, <1>2, <1>3, <1>4, <1>5, <1>6, <1>7, <1>8, <1>9, <1>10, <1>11, <1>12,
         <1>13, <1>14, <1>15, <1>16, <1>17, <1>18, <1>19, <1>20, <1>21, SMTT(10)
         DEF IInv, Showing, Attempting, Asking, Typed, Open, InFlight, EventAdded
    <2>4. loaded' /\ ~shutting' /\ writable' => \A t \in Turns :
         rows'[t].status = "completed" => turns'[t].status = "completed"
      BY <1>1, <1>2, <1>3, <1>4, <1>5, <1>6, <1>7, <1>8, <1>9, <1>10, <1>11, <1>12,
         <1>13, <1>14, <1>15, <1>16, <1>17, <1>18, <1>19, <1>20, <1>21, SMTT(10)
         DEF IInv, Showing, Attempting, Asking, Typed, Open, InFlight, EventAdded
    <2> QED  BY <2>1, <2>2, <2>3, <2>4 DEF Showing, Open
  <1>36. Saving'
    BY <1>1, <1>2, <1>3, <1>4, <1>5, <1>6, <1>7, <1>8, <1>9, <1>10, <1>11, <1>12,
       <1>13, <1>14, <1>15, <1>16, <1>17, <1>18, <1>19, <1>20, <1>21, AttemptParts,
       SMTT(10)
       DEF IInv, Saving, Finishing, Stepping, Finalizing, Attempting,
           CompletedIsSaved, OpTaken, EventAdded
  <1>37. Faultless'
    BY <1>1, <1>2, <1>3, <1>4, <1>5, <1>6, <1>7, <1>8, <1>9, <1>10, <1>11, <1>12,
       <1>13, <1>14, <1>15, <1>16, <1>17, <1>18, <1>19, <1>20, <1>21, SMTT(10)
       DEF IInv, Faultless, Loading, Attempting, Finalizing, Stepping, Beginning,
           InFlight, Begin, OpTaken, EventAdded
  <1> QED  BY <1>22, <1>23, <1>24, <1>25, <1>26, <1>27, <1>28, <1>29, <1>30, <1>31, <1>32, <1>33, <1>34, <1>35, <1>36, <1>37 DEF IInv

\* A checkpoint comes too late, or fails.
LEMMA CheckpointStep ==
  ASSUME IInv, NEW a \in Attempts, NEW o,
         dataQ # <<>>, o = Head(dataQ), o.a = a, o.op = "checkpoint",
         dataQ' = Tail(dataQ), opStep' = "start",
         failedOp' \in BOOLEAN, failedOp => failedOp', faults' \in 0..MaxFaults,
         UNCHANGED <<rows, dataUp, mainQ, soon, up, loaded, shutting, writable, turns>>,
         UNCHANGED <<state, prep, active, contexts, final, unsaved, retrievals, lane, ask>>,
         UNCHANGED <<background>>
  PROVE  IInv'
  <1>1. /\ a[1] \in Turns /\ a[2] \in 1..MaxRequests /\ a # None
    BY AttemptParts
  <1>2. OpTaken
    BY TakesOp
  <1>3. /\ OpTyped(o) /\ o \in Queued /\ o \notin Begins /\ o \notin Finalizes /\ \A b \in Attempts : o \notin PrepOps(b)
        /\ o.op \notin Begin /\ opStep = "start"
    BY <1>2
       DEF OpTaken, OpTyped, Begins, Finalizes, PrepOps, Begin, IInv, Typed, Stepping
  <1>4. loaded /\ up
        <2> SUFFICES ASSUME ~loaded
                 PROVE  FALSE
      BY DEF IInv, Loading
    <2>1. dataQ = <<InitOp>>
      BY DEF IInv, Loading
    <2>2. Head(dataQ) = InitOp
      BY <2>1
    <2> QED  BY <2>2 DEF InitOp, Op, Begin

  <1>5. Queued' \subseteq Queued /\ \A p \in Queued : p.op # "checkpoint" => p \in Queued'
    BY <1>2 DEF OpTaken
  <1>6. \A b \in Attempts : InPreparation(b)' => InPreparation(b)
    BY <1>5, SameQueues DEF InPreparation, PrepOps, PrepEvents, PrepCalls
  <1>7. \A t \in Turns : InFlight(t)' = InFlight(t)
    BY DEF InFlight
  <1>8. /\ UNCHANGED dataQ => UNCHANGED Queued
        /\ UNCHANGED mainQ => UNCHANGED Posted
        /\ UNCHANGED soon => UNCHANGED Deferred
    BY SameQueues
  <1>9. /\ \A x \in Queued : OpTyped(x)
        /\ \A e \in Posted : EventTyped(e)
        /\ \A e \in Deferred : CallTyped(e)
    BY AllTyped
  <1>10. Typed'
    BY <1>1, <1>2, <1>3, <1>4, <1>5, <1>6, <1>7, <1>8, <1>9 DEF IInv, Typed, OpTaken
  <1>11. Loading'
    BY <1>1, <1>2, <1>3, <1>4, <1>5, <1>6, <1>7, <1>8, <1>9, SMTT(10)
       DEF IInv, Loading, Typed, OpTaken
  <1>12. Numbered'
    BY <1>1, <1>2, <1>3, <1>4, <1>5, <1>6, <1>7, <1>8, <1>9, SMTT(10)
       DEF IInv, Numbered, Typed, Loading, Known, Latest, OpTaken
  <1>13. Lined'
    BY <1>1, <1>2, <1>3, <1>4, <1>5, <1>6, <1>7, <1>8, <1>9, SMTT(10)
       DEF IInv, Lined, Fits, OpTaken
  <1>14. Preparing'
    BY <1>1, <1>2, <1>3, <1>4, <1>5, <1>6, <1>7, <1>8, <1>9, SMTT(10)
       DEF IInv, Preparing, PrepOps, PrepEvents, PrepCalls, OpTaken
  <1>15. Attempting'
    BY <1>1, <1>2, <1>3, <1>4, <1>5, <1>6, <1>7, <1>8, <1>9, AttemptParts, SMTT(10)
       DEF IInv, Attempting, Loading, Finalizing, IdleIsQuiet, LaneIsReleased, Busy,
           EventTyped, Startup, OpTaken
  <1>16. Finalizing'
    BY <1>1, <1>2, <1>3, <1>4, <1>5, <1>6, <1>7, <1>8, <1>9, SMTT(10)
       DEF IInv, Finalizing, Attempting, Preparing, Begins, Finalizes, FinalEvents,
           FinalCalls, Begin, OpTaken
  <1>17. NotAsked'
    BY <1>1, <1>2, <1>3, <1>4, <1>5, <1>6, <1>7, <1>8, <1>9, SMTT(10)
       DEF IInv, NotAsked, Preparing, Attempting, Finalizing, InPreparation, PrepOps,
           PrepEvents, PrepCalls, Finalizes, OpTaken
  <1>18. Stepping'
    BY <1>1, <1>2, <1>3, <1>4, <1>5, <1>6, <1>7, <1>8, <1>9, SMTT(10)
       DEF IInv, Stepping, Typed, Row, A, OpTaken
  <1>19. Beginning'
    BY <1>1, <1>2, <1>3, <1>4, <1>5, <1>6, <1>7, <1>8, <1>9, SMTT(10)
       DEF IInv, Beginning, Stepping, Typed, Written, Begin, OpTaken
  <1>20. Finishing'
    BY <1>1, <1>2, <1>3, <1>4, <1>5, <1>6, <1>7, <1>8, <1>9, SMTT(10)
       DEF IInv, Finishing, Stepping, Attempting, Finalizing, Written, Terminal,
           OpTaken
  <1>21. Staging'
    BY <1>1, <1>2, <1>3, <1>4, <1>5, <1>6, <1>7, <1>8, <1>9, SMTT(10)
       DEF IInv, Staging, Attempting, Preparing, Staged, OpTaken
  <1>22. Asking'
    BY <1>1, <1>2, <1>3, <1>4, <1>5, <1>6, <1>7, <1>8, <1>9, SMTT(10)
       DEF IInv, Asking, Attempting, Open, OpTaken
  <1>23. Showing'
    BY <1>1, <1>2, <1>3, <1>4, <1>5, <1>6, <1>7, <1>8, <1>9, SMTT(10)
       DEF IInv, Showing, Attempting, Asking, Typed, Open, InFlight, OpTaken
  <1>24. Saving'
    BY <1>1, <1>2, <1>3, <1>4, <1>5, <1>6, <1>7, <1>8, <1>9, AttemptParts, SMTT(10)
       DEF IInv, Saving, Finishing, Stepping, Finalizing, Attempting,
           CompletedIsSaved, OpTaken
  <1>25. Faultless'
    <2>1. up' /\ ~failedOp' /\ ~shutting' => \A e \in Posted' : e.ev \notin
         {"not_prepared", "not_finalized"}
      BY <1>1, <1>2, <1>3, <1>4, <1>5, <1>6, <1>7, <1>8, <1>9, SMTT(10)
         DEF IInv, Faultless, Loading, Attempting, Finalizing, Stepping, Beginning,
             InFlight, Begin, OpTaken
    <2>2. up' /\ ~failedOp' /\ ~shutting' => \A e \in Deferred' : e.ev \notin
         {"prepare_failed", "final_failed"}
      BY <1>1, <1>2, <1>3, <1>4, <1>5, <1>6, <1>7, <1>8, <1>9, SMTT(10)
         DEF IInv, Faultless, Loading, Attempting, Finalizing, Stepping, Beginning,
             InFlight, Begin, OpTaken
    <2>3. up' /\ ~failedOp' /\ ~shutting' /\ prep' # None =>
         rows'[prep'[1]].attempt = prep'[2] \/ \E x \in Queued' : x.op \in
         Begin /\ x.a = prep'
      BY <1>1, <1>2, <1>3, <1>4, <1>5, <1>6, <1>7, <1>8, <1>9, SMTT(10)
         DEF IInv, Faultless, Loading, Attempting, Finalizing, Stepping, Beginning,
             InFlight, Begin, OpTaken
    <2>4. up' /\ ~failedOp' /\ ~shutting' => \A x \in Queued' : x.op =
         "finalize" => rows'[x.a[1]].attempt = x.a[2] \/ \E b \in Queued' :
         b.op \in Begin /\ b.a = x.a
      BY <1>1, <1>2, <1>3, <1>4, <1>5, <1>6, <1>7, <1>8, <1>9, SMTT(10)
         DEF IInv, Faultless, Loading, Attempting, Finalizing, Stepping, Beginning,
             InFlight, Begin, OpTaken
    <2>5. up' /\ ~failedOp' /\ ~shutting' /\ loaded' => \A t \in Turns :
         turns'[t] = rows'[t] \/ InFlight(t)' \/ (final' # None /\ final'[1]
         = t)
      BY <1>1, <1>2, <1>3, <1>4, <1>5, <1>6, <1>7, <1>8, <1>9, SMTT(10)
         DEF IInv, Faultless, Loading, Attempting, Finalizing, Stepping, Beginning,
             InFlight, Begin, OpTaken
    <2> QED  BY <2>1, <2>2, <2>3, <2>4, <2>5 DEF Faultless, Begin
  <1> QED  BY <1>10, <1>11, <1>12, <1>13, <1>14, <1>15, <1>16, <1>17, <1>18, <1>19, <1>20, <1>21, <1>22, <1>23, <1>24, <1>25 DEF IInv

\* A checkpoint is written.
LEMMA CheckpointWritesStep ==
  ASSUME IInv, NEW a \in Attempts, NEW o,
         dataQ # <<>>, o = Head(dataQ), o.a = a, o.op = "checkpoint",
         dataQ' = Tail(dataQ), opStep' = "start",
         rows[a[1]].attempt = a[2], rows[a[1]].status \in Open, rows' = [rows EXCEPT ![a[1]] = Message("streaming", a[2], o.reply)],
         UNCHANGED <<dataUp, mainQ, soon, up, loaded, shutting, failedOp, faults, writable>>,
         UNCHANGED <<turns, state, prep, active, contexts, final, unsaved, retrievals, lane>>,
         UNCHANGED <<ask, background>>
  PROVE  IInv'
  <1>1. /\ a[1] \in Turns /\ a[2] \in 1..MaxRequests /\ a # None
    BY AttemptParts
  <1>2. OpTaken
    BY TakesOp
  <1>3. /\ OpTyped(o) /\ o \in Queued /\ o \notin Begins /\ o \notin Finalizes /\ \A b \in Attempts : o \notin PrepOps(b)
        /\ o.op \notin Begin /\ opStep = "start"
    BY <1>2
       DEF OpTaken, OpTyped, Begins, Finalizes, PrepOps, Begin, IInv, Typed, Stepping
  <1>4. loaded /\ up
        <2> SUFFICES ASSUME ~loaded
                 PROVE  FALSE
      BY DEF IInv, Loading
    <2>1. dataQ = <<InitOp>>
      BY DEF IInv, Loading
    <2>2. Head(dataQ) = InitOp
      BY <2>1
    <2> QED  BY <2>2 DEF InitOp, Op, Begin

  <1>5. Queued' \subseteq Queued /\ \A p \in Queued : p.op # "checkpoint" => p \in Queued'
    BY <1>2 DEF OpTaken
  <1>6. \A b \in Attempts : InPreparation(b)' => InPreparation(b)
    BY <1>5, SameQueues DEF InPreparation, PrepOps, PrepEvents, PrepCalls
  <1>7. o.reply \in 0..MaxChunks
    BY <1>3 DEF OpTyped
  <1>8. /\ rows' \in [Turns -> Messages]
        /\ rows'[a[1]] = Message("streaming", a[2], o.reply)
        /\ \A t \in Turns : t # a[1] => rows'[t] = rows[t]
    BY <1>1, <1>7 DEF IInv, Typed, Messages, Message, Statuses
  <1>9. /\ rows'[a[1]].status = "streaming" /\ \A t \in Turns : rows'[t].attempt = rows[t].attempt
    BY <1>1, <1>8 DEF Message
  <1>10. rows[a[1]].status # "completed" /\ prep # a
    BY <1>3 DEF Open, IInv, Staging
  <1>11. prep # None /\ prep[1] = a[1] => ~Staged
    BY <1>1, <1>10, AttemptParts DEF IInv, Typed, Staging, Message
  <1>12. Staged' => Staged
    BY <1>5, SameQueues DEF Staged
  <1>13. \A t \in Turns : InFlight(t)' = InFlight(t)
    BY DEF InFlight
  <1>14. final # None /\ final[1] = a[1] => rows[a[1]] # turns[a[1]]
    BY DEF IInv, Finishing, Terminal, Open
  <1>15. up /\ ~shutting /\ turns[a[1]].status = "completed" => final = <<a[1], turns[a[1]].attempt>>
    BY <1>1, <1>10 DEF IInv, Saving, CompletedIsSaved
  <1>16. (\E e \in Posted : e.ev = "finalized") \/ (\E e \in Deferred : e.ev = "final_ok") => final # None
    BY AllTyped, AttemptParts
       DEF IInv, Finalizing, FinalEvents, FinalCalls, EventTyped, CallTyped, Startup
  <1>17. loaded /\ ~shutting /\ turns[a[1]] = rows[a[1]] => InFlight(a[1])
    BY <1>1 DEF IInv, Showing, Open
  <1>18. /\ UNCHANGED dataQ => UNCHANGED Queued
         /\ UNCHANGED mainQ => UNCHANGED Posted
         /\ UNCHANGED soon => UNCHANGED Deferred
    BY SameQueues
  <1>19. /\ \A x \in Queued : OpTyped(x)
         /\ \A e \in Posted : EventTyped(e)
         /\ \A e \in Deferred : CallTyped(e)
    BY AllTyped
  <1>20. Typed'
    BY <1>1, <1>2, <1>3, <1>4, <1>5, <1>6, <1>7, <1>8, <1>9, <1>10, <1>11, <1>12,
       <1>13, <1>14, <1>15, <1>16, <1>17, <1>18, <1>19
       DEF IInv, Typed, OpTaken
  <1>21. Loading'
    BY <1>1, <1>2, <1>3, <1>4, <1>5, <1>6, <1>7, <1>8, <1>9, <1>10, <1>11, <1>12,
       <1>13, <1>14, <1>15, <1>16, <1>17, <1>18, <1>19, SMTT(10)
       DEF IInv, Loading, Typed, OpTaken
  <1>22. Numbered'
    BY <1>1, <1>2, <1>3, <1>4, <1>5, <1>6, <1>7, <1>8, <1>9, <1>10, <1>11, <1>12,
       <1>13, <1>14, <1>15, <1>16, <1>17, <1>18, <1>19, SMTT(10)
       DEF IInv, Numbered, Typed, Loading, Known, Latest, OpTaken
  <1>23. Lined'
    BY <1>1, <1>2, <1>3, <1>4, <1>5, <1>6, <1>7, <1>8, <1>9, <1>10, <1>11, <1>12,
       <1>13, <1>14, <1>15, <1>16, <1>17, <1>18, <1>19, SMTT(10)
       DEF IInv, Lined, Fits, OpTaken
  <1>24. Preparing'
    BY <1>1, <1>2, <1>3, <1>4, <1>5, <1>6, <1>7, <1>8, <1>9, <1>10, <1>11, <1>12,
       <1>13, <1>14, <1>15, <1>16, <1>17, <1>18, <1>19, SMTT(10)
       DEF IInv, Preparing, PrepOps, PrepEvents, PrepCalls, OpTaken
  <1>25. Attempting'
    BY <1>1, <1>2, <1>3, <1>4, <1>5, <1>6, <1>7, <1>8, <1>9, <1>10, <1>11, <1>12,
       <1>13, <1>14, <1>15, <1>16, <1>17, <1>18, <1>19, AttemptParts, SMTT(10)
       DEF IInv, Attempting, Loading, Finalizing, IdleIsQuiet, LaneIsReleased, Busy,
           EventTyped, Startup, OpTaken
  <1>26. Finalizing'
    BY <1>1, <1>2, <1>3, <1>4, <1>5, <1>6, <1>7, <1>8, <1>9, <1>10, <1>11, <1>12,
       <1>13, <1>14, <1>15, <1>16, <1>17, <1>18, <1>19, SMTT(10)
       DEF IInv, Finalizing, Attempting, Preparing, Begins, Finalizes, FinalEvents,
           FinalCalls, Begin, OpTaken
  <1>27. NotAsked'
    BY <1>1, <1>2, <1>3, <1>4, <1>5, <1>6, <1>7, <1>8, <1>9, <1>10, <1>11, <1>12,
       <1>13, <1>14, <1>15, <1>16, <1>17, <1>18, <1>19, SMTT(10)
       DEF IInv, NotAsked, Preparing, Attempting, Finalizing, InPreparation, PrepOps,
           PrepEvents, PrepCalls, Finalizes, OpTaken
  <1>28. Stepping'
    BY <1>1, <1>2, <1>3, <1>4, <1>5, <1>6, <1>7, <1>8, <1>9, <1>10, <1>11, <1>12,
       <1>13, <1>14, <1>15, <1>16, <1>17, <1>18, <1>19, SMTT(10)
       DEF IInv, Stepping, Typed, Row, A, OpTaken
  <1>29. Beginning'
    BY <1>1, <1>2, <1>3, <1>4, <1>5, <1>6, <1>7, <1>8, <1>9, <1>10, <1>11, <1>12,
       <1>13, <1>14, <1>15, <1>16, <1>17, <1>18, <1>19, SMTT(10)
       DEF IInv, Beginning, Stepping, Typed, Written, Begin, OpTaken
  <1>30. Finishing'
    BY <1>1, <1>2, <1>3, <1>4, <1>5, <1>6, <1>7, <1>8, <1>9, <1>10, <1>11, <1>12,
       <1>13, <1>14, <1>15, <1>16, <1>17, <1>18, <1>19, SMTT(10)
       DEF IInv, Finishing, Stepping, Attempting, Finalizing, Written, Terminal,
           OpTaken
  <1>31. Staging'
    BY <1>1, <1>2, <1>3, <1>4, <1>5, <1>6, <1>7, <1>8, <1>9, <1>10, <1>11, <1>12,
       <1>13, <1>14, <1>15, <1>16, <1>17, <1>18, <1>19, SMTT(10)
       DEF IInv, Staging, Attempting, Preparing, Staged, OpTaken
  <1>32. Asking'
    BY <1>1, <1>2, <1>3, <1>4, <1>5, <1>6, <1>7, <1>8, <1>9, <1>10, <1>11, <1>12,
       <1>13, <1>14, <1>15, <1>16, <1>17, <1>18, <1>19, SMTT(10)
       DEF IInv, Asking, Attempting, Open, OpTaken
  <1>33. Showing'
    <2>1. \A e \in Posted' : e.ev = "loaded" => \A t \in Turns :
         rows'[t].status \notin Open
      BY <1>1, <1>2, <1>3, <1>4, <1>5, <1>6, <1>7, <1>8, <1>9, <1>10, <1>11, <1>12,
         <1>13, <1>14, <1>15, <1>16, <1>17, <1>18, <1>19, SMTT(10)
         DEF IInv, Showing, Attempting, Asking, Typed, Open, InFlight
    <2>2. loaded' /\ ~shutting' => \A t \in Turns : rows'[t].attempt <=
         turns'[t].attempt
      BY <1>1, <1>2, <1>3, <1>4, <1>5, <1>6, <1>7, <1>8, <1>9, <1>10, <1>11, <1>12,
         <1>13, <1>14, <1>15, <1>16, <1>17, <1>18, <1>19, SMTT(10)
         DEF IInv, Showing, Attempting, Asking, Typed, Open, InFlight
    <2>3. loaded' /\ ~shutting' => \A t \in Turns : turns'[t].status \in Open
         => InFlight(t)'
      BY <1>1, <1>2, <1>3, <1>4, <1>5, <1>6, <1>7, <1>8, <1>9, <1>10, <1>11, <1>12,
         <1>13, <1>14, <1>15, <1>16, <1>17, <1>18, <1>19, SMTT(10)
         DEF IInv, Showing, Attempting, Asking, Typed, Open, InFlight
    <2>4. loaded' /\ ~shutting' /\ writable' => \A t \in Turns :
         rows'[t].status = "completed" => turns'[t].status = "completed"
      BY <1>1, <1>2, <1>3, <1>4, <1>5, <1>6, <1>7, <1>8, <1>9, <1>10, <1>11, <1>12,
         <1>13, <1>14, <1>15, <1>16, <1>17, <1>18, <1>19, SMTT(10)
         DEF IInv, Showing, Attempting, Asking, Typed, Open, InFlight
    <2> QED  BY <2>1, <2>2, <2>3, <2>4 DEF Showing, Open
  <1>34. Saving'
    BY <1>1, <1>2, <1>3, <1>4, <1>5, <1>6, <1>7, <1>8, <1>9, <1>10, <1>11, <1>12,
       <1>13, <1>14, <1>15, <1>16, <1>17, <1>18, <1>19, AttemptParts, SMTT(10)
       DEF IInv, Saving, Finishing, Stepping, Finalizing, Attempting,
           CompletedIsSaved, OpTaken
  <1>35. Faultless'
    <2>1. up' /\ ~failedOp' /\ ~shutting' => \A e \in Posted' : e.ev \notin
         {"not_prepared", "not_finalized"}
      BY <1>1, <1>2, <1>3, <1>4, <1>5, <1>6, <1>7, <1>8, <1>9, <1>10, <1>11, <1>12,
         <1>13, <1>14, <1>15, <1>16, <1>17, <1>18, <1>19, SMTT(10)
         DEF IInv, Faultless, Loading, Attempting, Finalizing, Stepping, Beginning,
             InFlight, Begin, OpTaken
    <2>2. up' /\ ~failedOp' /\ ~shutting' => \A e \in Deferred' : e.ev \notin
         {"prepare_failed", "final_failed"}
      BY <1>1, <1>2, <1>3, <1>4, <1>5, <1>6, <1>7, <1>8, <1>9, <1>10, <1>11, <1>12,
         <1>13, <1>14, <1>15, <1>16, <1>17, <1>18, <1>19, SMTT(10)
         DEF IInv, Faultless, Loading, Attempting, Finalizing, Stepping, Beginning,
             InFlight, Begin, OpTaken
    <2>3. up' /\ ~failedOp' /\ ~shutting' /\ prep' # None =>
         rows'[prep'[1]].attempt = prep'[2] \/ \E x \in Queued' : x.op \in
         Begin /\ x.a = prep'
      BY <1>1, <1>2, <1>3, <1>4, <1>5, <1>6, <1>7, <1>8, <1>9, <1>10, <1>11, <1>12,
         <1>13, <1>14, <1>15, <1>16, <1>17, <1>18, <1>19, SMTT(10)
         DEF IInv, Faultless, Loading, Attempting, Finalizing, Stepping, Beginning,
             InFlight, Begin, OpTaken
    <2>4. up' /\ ~failedOp' /\ ~shutting' => \A x \in Queued' : x.op =
         "finalize" => rows'[x.a[1]].attempt = x.a[2] \/ \E b \in Queued' :
         b.op \in Begin /\ b.a = x.a
      BY <1>1, <1>2, <1>3, <1>4, <1>5, <1>6, <1>7, <1>8, <1>9, <1>10, <1>11, <1>12,
         <1>13, <1>14, <1>15, <1>16, <1>17, <1>18, <1>19, SMTT(10)
         DEF IInv, Faultless, Loading, Attempting, Finalizing, Stepping, Beginning,
             InFlight, Begin, OpTaken
    <2>5. up' /\ ~failedOp' /\ ~shutting' /\ loaded' => \A t \in Turns :
         turns'[t] = rows'[t] \/ InFlight(t)' \/ (final' # None /\ final'[1]
         = t)
      BY <1>1, <1>2, <1>3, <1>4, <1>5, <1>6, <1>7, <1>8, <1>9, <1>10, <1>11, <1>12,
         <1>13, <1>14, <1>15, <1>16, <1>17, <1>18, <1>19, SMTT(10)
         DEF IInv, Faultless, Loading, Attempting, Finalizing, Stepping, Beginning,
             InFlight, Begin, OpTaken
    <2> QED  BY <2>1, <2>2, <2>3, <2>4, <2>5 DEF Faultless, Begin
  <1> QED  BY <1>20, <1>21, <1>22, <1>23, <1>24, <1>25, <1>26, <1>27, <1>28, <1>29, <1>30, <1>31, <1>32, <1>33, <1>34, <1>35 DEF IInv

\* A finalization writes its row.
LEMMA FinalWriteStep ==
  ASSUME IInv, NEW a \in Attempts, NEW o,
         dataQ # <<>>, o = Head(dataQ), o.a = a, o.op = "finalize",
         opStep' = "written", rows[a[1]].attempt = a[2], rows' = [rows EXCEPT ![a[1]] = Message(o.status, a[2], o.reply)],
         UNCHANGED <<dataQ, dataUp, mainQ, soon, up, loaded, shutting, failedOp, faults>>,
         UNCHANGED <<writable, turns, state, prep, active, contexts, final, unsaved, retrievals>>,
         UNCHANGED <<lane, ask, background>>
  PROVE  IInv'
  <1>1. /\ a[1] \in Turns /\ a[2] \in 1..MaxRequests /\ a # None
    BY AttemptParts
  <1>2. OpFirst
    BY FirstOp
  <1>3. /\ OpTyped(o) /\ o \in Queued /\ o \in Finalizes /\ o.op \notin Begin
        /\ \A b \in Attempts : o \notin PrepOps(b)
    BY <1>2 DEF OpFirst, OpTyped, Finalizes, PrepOps, Begin
  <1>4. loaded /\ up
        <2> SUFFICES ASSUME ~loaded
                 PROVE  FALSE
      BY DEF IInv, Loading
    <2>1. dataQ = <<InitOp>>
      BY DEF IInv, Loading
    <2>2. Head(dataQ) = InitOp
      BY <2>1
    <2> QED  BY <2>2 DEF InitOp, Op, Begin

  <1>5. /\ final = a /\ o.status \in Terminal /\ turns[a[1]] = Message(o.status, a[2], o.reply)
        /\ turns[a[1]].status = o.status /\ turns[a[1]].attempt = a[2]
        <2>1. final = a
      BY <1>3 DEF IInv, Finalizing
    <2>2. o.status \in Terminal /\ turns[a[1]] = Message(o.status, a[2], o.reply)
      BY <1>3 DEF IInv, Finishing
    <2> QED  BY <2>1, <2>2 DEF Message

  <1>6. /\ \A d \in Posted : d \notin FinalEvents /\ d.ev # "finalized"
        /\ \A d \in Deferred : d \notin FinalCalls /\ d.ev # "final_ok"
    BY <1>3, AllTyped
       DEF IInv, Finalizing, EventTyped, CallTyped, FinalEvents, FinalCalls, Startup
  <1>7. prep = None /\ \A c \in contexts : c.terminal
    BY <1>1, <1>5 DEF IInv, Attempting
  <1>8. \A p \in Queued : p.op \notin Begin /\ (p.op = "finalize" => p = o)
    BY <1>2, <1>3, AllTyped DEF OpFirst, Begins, Finalizes, OpTyped
  <1>9. o.reply \in 0..MaxChunks /\ o.status \in Statuses
    BY <1>3 DEF OpTyped
  <1>10. /\ rows' \in [Turns -> Messages]
         /\ rows'[a[1]] = turns[a[1]]
         /\ \A t \in Turns : t # a[1] => rows'[t] = rows[t]
    BY <1>1, <1>5, <1>9 DEF IInv, Typed, Messages, Message
  <1>11. /\ rows'[a[1]].status = o.status /\ \A t \in Turns : rows'[t].attempt = rows[t].attempt
    BY <1>1, <1>5, <1>10 DEF Message
  <1>12. InPreparation(a) => o.status # "completed"
    BY <1>3 DEF IInv, NotAsked
  <1>13. \A t \in Turns : InFlight(t)' = InFlight(t)
    BY DEF InFlight
  <1>14. /\ UNCHANGED dataQ => UNCHANGED Queued
         /\ UNCHANGED mainQ => UNCHANGED Posted
         /\ UNCHANGED soon => UNCHANGED Deferred
    BY SameQueues
  <1>15. /\ \A x \in Queued : OpTyped(x)
         /\ \A e \in Posted : EventTyped(e)
         /\ \A e \in Deferred : CallTyped(e)
    BY AllTyped
  <1>16. Typed'
    BY <1>1, <1>2, <1>3, <1>4, <1>5, <1>6, <1>7, <1>8, <1>9, <1>10, <1>11, <1>12,
       <1>13, <1>14, <1>15
       DEF IInv, Typed, OpFirst
  <1>17. Loading'
    BY <1>1, <1>2, <1>3, <1>4, <1>5, <1>6, <1>7, <1>8, <1>9, <1>10, <1>11, <1>12,
       <1>13, <1>14, <1>15, SMTT(10)
       DEF IInv, Loading, Typed, OpFirst
  <1>18. Numbered'
    BY <1>1, <1>2, <1>3, <1>4, <1>5, <1>6, <1>7, <1>8, <1>9, <1>10, <1>11, <1>12,
       <1>13, <1>14, <1>15, SMTT(10)
       DEF IInv, Numbered, Typed, Loading, Known, Latest, OpFirst
  <1>19. Lined'
    BY <1>1, <1>2, <1>3, <1>4, <1>5, <1>6, <1>7, <1>8, <1>9, <1>10, <1>11, <1>12,
       <1>13, <1>14, <1>15, SMTT(10)
       DEF IInv, Lined, Fits, OpFirst
  <1>20. Preparing'
    BY <1>1, <1>2, <1>3, <1>4, <1>5, <1>6, <1>7, <1>8, <1>9, <1>10, <1>11, <1>12,
       <1>13, <1>14, <1>15, SMTT(10)
       DEF IInv, Preparing, PrepOps, PrepEvents, PrepCalls, OpFirst
  <1>21. Attempting'
    BY <1>1, <1>2, <1>3, <1>4, <1>5, <1>6, <1>7, <1>8, <1>9, <1>10, <1>11, <1>12,
       <1>13, <1>14, <1>15, AttemptParts, SMTT(10)
       DEF IInv, Attempting, Loading, Finalizing, IdleIsQuiet, LaneIsReleased, Busy,
           EventTyped, Startup, OpFirst
  <1>22. Finalizing'
    BY <1>1, <1>2, <1>3, <1>4, <1>5, <1>6, <1>7, <1>8, <1>9, <1>10, <1>11, <1>12,
       <1>13, <1>14, <1>15, SMTT(10)
       DEF IInv, Finalizing, Attempting, Preparing, Begins, Finalizes, FinalEvents,
           FinalCalls, Begin, OpFirst
  <1>23. NotAsked'
    BY <1>11, <1>12, <1>14, AttemptParts DEF IInv, NotAsked, InPreparation
  <1>24. Stepping'
    BY <1>1, <1>2, <1>3, <1>4, <1>5, <1>6, <1>7, <1>8, <1>9, <1>10, <1>11, <1>12,
       <1>13, <1>14, <1>15, SMTT(10)
       DEF IInv, Stepping, Typed, Row, A, OpFirst
  <1>25. Beginning'
    BY <1>1, <1>2, <1>3, <1>4, <1>5, <1>6, <1>7, <1>8, <1>9, <1>10, <1>11, <1>12,
       <1>13, <1>14, <1>15, SMTT(10)
       DEF IInv, Beginning, Stepping, Typed, Written, Begin, OpFirst
  <1>26. Finishing'
    BY <1>1, <1>2, <1>3, <1>4, <1>5, <1>6, <1>7, <1>8, <1>9, <1>10, <1>11, <1>12,
       <1>13, <1>14, <1>15, SMTT(10)
       DEF IInv, Finishing, Stepping, Attempting, Finalizing, Written, Terminal,
           OpFirst
  <1>27. Staging'
    BY <1>1, <1>2, <1>3, <1>4, <1>5, <1>6, <1>7, <1>8, <1>9, <1>10, <1>11, <1>12,
       <1>13, <1>14, <1>15, SMTT(10)
       DEF IInv, Staging, Attempting, Preparing, Staged, OpFirst
  <1>28. Asking'
    BY <1>1, <1>2, <1>3, <1>4, <1>5, <1>6, <1>7, <1>8, <1>9, <1>10, <1>11, <1>12,
       <1>13, <1>14, <1>15, SMTT(10)
       DEF IInv, Asking, Attempting, Open, OpFirst
  <1>29. Showing'
    <2>1. \A e \in Posted' : e.ev = "loaded" => \A t \in Turns :
         rows'[t].status \notin Open
      BY <1>1, <1>2, <1>3, <1>4, <1>5, <1>6, <1>7, <1>8, <1>9, <1>10, <1>11, <1>12,
         <1>13, <1>14, <1>15, AttemptParts, SMTT(20)
         DEF IInv, Showing, Attempting, Asking, Typed, Open, InFlight, Message,
             Statuses, Terminal, OpTyped, EventTyped, CallTyped, Messages
    <2>2. loaded' /\ ~shutting' => \A t \in Turns : rows'[t].attempt <=
         turns'[t].attempt
      BY <1>1, <1>2, <1>3, <1>4, <1>5, <1>6, <1>7, <1>8, <1>9, <1>10, <1>11, <1>12,
         <1>13, <1>14, <1>15, SMTT(10)
         DEF IInv, Showing, Attempting, Asking, Typed, Open, InFlight
    <2>3. loaded' /\ ~shutting' => \A t \in Turns : turns'[t].status \in Open
         => InFlight(t)'
      BY <1>1, <1>2, <1>3, <1>4, <1>5, <1>6, <1>7, <1>8, <1>9, <1>10, <1>11, <1>12,
         <1>13, <1>14, <1>15, SMTT(10)
         DEF IInv, Showing, Attempting, Asking, Typed, Open, InFlight
    <2>4. loaded' /\ ~shutting' /\ writable' => \A t \in Turns :
         rows'[t].status = "completed" => turns'[t].status = "completed"
      BY <1>1, <1>2, <1>3, <1>4, <1>5, <1>6, <1>7, <1>8, <1>9, <1>10, <1>11, <1>12,
         <1>13, <1>14, <1>15, SMTT(10)
         DEF IInv, Showing, Attempting, Asking, Typed, Open, InFlight
    <2> QED  BY <2>1, <2>2, <2>3, <2>4 DEF Showing, Open
  <1>30. Saving'
    BY <1>1, <1>2, <1>3, <1>4, <1>5, <1>6, <1>7, <1>8, <1>9, <1>10, <1>11, <1>12,
       <1>13, <1>14, <1>15, AttemptParts, SMTT(10)
       DEF IInv, Saving, Finishing, Stepping, Finalizing, Attempting,
           CompletedIsSaved, OpFirst
  <1>31. Faultless'
    <2>1. up' /\ ~failedOp' /\ ~shutting' => \A e \in Posted' : e.ev \notin
         {"not_prepared", "not_finalized"}
      BY <1>1, <1>2, <1>3, <1>4, <1>5, <1>6, <1>7, <1>8, <1>9, <1>10, <1>11, <1>12,
         <1>13, <1>14, <1>15, SMTT(10)
         DEF IInv, Faultless, Loading, Attempting, Finalizing, Stepping, Beginning,
             InFlight, Begin, OpFirst
    <2>2. up' /\ ~failedOp' /\ ~shutting' => \A e \in Deferred' : e.ev \notin
         {"prepare_failed", "final_failed"}
      BY <1>1, <1>2, <1>3, <1>4, <1>5, <1>6, <1>7, <1>8, <1>9, <1>10, <1>11, <1>12,
         <1>13, <1>14, <1>15, SMTT(10)
         DEF IInv, Faultless, Loading, Attempting, Finalizing, Stepping, Beginning,
             InFlight, Begin, OpFirst
    <2>3. up' /\ ~failedOp' /\ ~shutting' /\ prep' # None =>
         rows'[prep'[1]].attempt = prep'[2] \/ \E x \in Queued' : x.op \in
         Begin /\ x.a = prep'
      BY <1>1, <1>2, <1>3, <1>4, <1>5, <1>6, <1>7, <1>8, <1>9, <1>10, <1>11, <1>12,
         <1>13, <1>14, <1>15, SMTT(10)
         DEF Loading, Attempting, Finalizing, Stepping, Beginning, InFlight, Begin,
             OpFirst
    <2>4. up' /\ ~failedOp' /\ ~shutting' => \A x \in Queued' : x.op =
         "finalize" => rows'[x.a[1]].attempt = x.a[2] \/ \E b \in Queued' :
         b.op \in Begin /\ b.a = x.a
      BY <1>1, <1>2, <1>3, <1>4, <1>5, <1>6, <1>7, <1>8, <1>9, <1>10, <1>11, <1>12,
         <1>13, <1>14, <1>15, SMTT(10)
         DEF Loading, Attempting, Finalizing, Stepping, Beginning, InFlight, Begin,
             OpFirst
    <2>5. up' /\ ~failedOp' /\ ~shutting' /\ loaded' => \A t \in Turns :
         turns'[t] = rows'[t] \/ InFlight(t)' \/ (final' # None /\ final'[1]
         = t)
      BY <1>1, <1>2, <1>3, <1>4, <1>5, <1>6, <1>7, <1>8, <1>9, <1>10, <1>11, <1>12,
         <1>13, <1>14, <1>15, SMTT(10)
         DEF IInv, Faultless, Loading, Attempting, Finalizing, Stepping, Beginning,
             InFlight, Begin, OpFirst
    <2> QED  BY <2>1, <2>2, <2>3, <2>4, <2>5 DEF Faultless, Begin
  <1> QED  BY <1>16, <1>17, <1>18, <1>19, <1>20, <1>21, <1>22, <1>23, <1>24, <1>25, <1>26, <1>27, <1>28, <1>29, <1>30, <1>31 DEF IInv

\* A finalization answers.
LEMMA FinalAnswerStep ==
  ASSUME IInv, NEW a \in Attempts, NEW o, NEW e,
         dataQ # <<>>, o = Head(dataQ), o.a = a, o.op = "finalize",
         opStep = "written",
         dataQ' = Tail(dataQ), opStep' = "start",
         e = Event("finalized", a), mainQ' = Append(mainQ, e),
         UNCHANGED <<rows, dataUp, soon, up, loaded, shutting, failedOp, faults, writable>>,
         UNCHANGED <<turns, state, prep, active, contexts, final, unsaved, retrievals, lane>>,
         UNCHANGED <<ask, background>>
  PROVE  IInv'
  <1>1. /\ a[1] \in Turns /\ a[2] \in 1..MaxRequests /\ a # None
    BY AttemptParts
  <1>2. OpTaken
    BY TakesOp
  <1>3. /\ OpTyped(o) /\ o \in Queued /\ o \in Finalizes /\ o.op \notin Begin
        /\ \A b \in Attempts : o \notin PrepOps(b)
    BY <1>2 DEF OpTaken, OpTyped, Finalizes, PrepOps, Begin
  <1>4. loaded /\ up
        <2> SUFFICES ASSUME ~loaded
                 PROVE  FALSE
      BY DEF IInv, Loading
    <2>1. dataQ = <<InitOp>>
      BY DEF IInv, Loading
    <2>2. Head(dataQ) = InitOp
      BY <2>1
    <2> QED  BY <2>2 DEF InitOp, Op, Begin

  <1>5. /\ final = a /\ o.status \in Terminal /\ turns[a[1]] = Message(o.status, a[2], o.reply)
        /\ turns[a[1]].status = o.status /\ turns[a[1]].attempt = a[2]
        <2>1. final = a
      BY <1>3 DEF IInv, Finalizing
    <2>2. o.status \in Terminal /\ turns[a[1]] = Message(o.status, a[2], o.reply)
      BY <1>3 DEF IInv, Finishing
    <2> QED  BY <2>1, <2>2 DEF Message

  <1>6. /\ \A d \in Posted : d \notin FinalEvents /\ d.ev # "finalized"
        /\ \A d \in Deferred : d \notin FinalCalls /\ d.ev # "final_ok"
    BY <1>3, AllTyped
       DEF IInv, Finalizing, EventTyped, CallTyped, FinalEvents, FinalCalls, Startup
  <1>7. prep = None /\ \A c \in contexts : c.terminal
    BY <1>1, <1>5 DEF IInv, Attempting
  <1>8. \A p \in Queued' : p \in Queued /\ p \notin Begins /\ p \notin Finalizes /\ p.op \notin Begin /\ p.op # "finalize"
    BY <1>2, <1>3, AllTyped DEF OpTaken, Begins, Finalizes, OpTyped
  <1>9. \A p \in Queued : p.op \notin Begin
    BY <1>2, <1>3, <1>8 DEF OpTaken
  <1>10. /\ e \in EventRecs /\ EventTyped(e) /\ e.ev = "finalized" /\ e.a = a
    BY NewEvent DEF Signal
  <1>11. EventAdded(e)
    BY <1>10, AddsEvent
  <1>12. /\ e \in FinalEvents /\ e.ev \notin Startup /\ e.ev # "finished"
         /\ \A b \in Attempts : e \notin PrepEvents(b)
    BY <1>10 DEF FinalEvents, PrepEvents, Startup
  <1>13. LinedEvents(mainQ')
    BY <1>6, <1>11, <1>12 DEF EventAdded
  <1>14. \A b \in Attempts : InPreparation(b)' => InPreparation(b)
    BY <1>2, <1>11, <1>12, SameQueues
       DEF InPreparation, PrepOps, PrepEvents, PrepCalls, OpTaken, EventAdded
  <1>15. \A t \in Turns : InFlight(t)' = InFlight(t)
    BY DEF InFlight
  <1>16. rows[a[1]] = turns[a[1]]
    BY <1>5 DEF IInv, Stepping, Row, A
  <1>17. /\ UNCHANGED dataQ => UNCHANGED Queued
         /\ UNCHANGED mainQ => UNCHANGED Posted
         /\ UNCHANGED soon => UNCHANGED Deferred
    BY SameQueues
  <1>18. /\ \A x \in Queued : OpTyped(x)
         /\ \A y \in Posted : EventTyped(y)
         /\ \A y \in Deferred : CallTyped(y)
    BY AllTyped
  <1>19. Typed'
    BY <1>1, <1>2, <1>3, <1>4, <1>5, <1>6, <1>7, <1>8, <1>9, <1>10, <1>11, <1>12,
       <1>13, <1>14, <1>15, <1>16, <1>17, <1>18
       DEF IInv, Typed, OpTaken, EventAdded
  <1>20. Loading'
    BY <1>1, <1>2, <1>3, <1>4, <1>5, <1>6, <1>7, <1>8, <1>9, <1>10, <1>11, <1>12,
       <1>13, <1>14, <1>15, <1>16, <1>17, <1>18, SMTT(10)
       DEF IInv, Loading, Typed, OpTaken, EventAdded
  <1>21. Numbered'
    BY <1>1, <1>2, <1>3, <1>4, <1>5, <1>6, <1>7, <1>8, <1>9, <1>10, <1>11, <1>12,
       <1>13, <1>14, <1>15, <1>16, <1>17, <1>18, SMTT(10)
       DEF IInv, Numbered, Typed, Loading, Known, Latest, OpTaken, EventAdded
  <1>22. Lined'
    BY <1>1, <1>2, <1>3, <1>4, <1>5, <1>6, <1>7, <1>8, <1>9, <1>10, <1>11, <1>12,
       <1>13, <1>14, <1>15, <1>16, <1>17, <1>18, SMTT(10)
       DEF IInv, Lined, Fits, OpTaken, EventAdded
  <1>23. Preparing'
    <2>1. \A b \in Attempts, x \in Queued' : x \in PrepOps(b) => (\A y \in
         Posted' : y \notin PrepEvents(b)) /\ b \notin retrievals' /\ \A y
         \in Deferred' : y \notin PrepCalls(b)
      BY <1>1, <1>2, <1>3, <1>4, <1>5, <1>6, <1>7, <1>8, <1>9, <1>10, <1>11, <1>12,
         <1>13, <1>14, <1>15, <1>16, <1>17, <1>18, SMTT(10)
         DEF IInv, Preparing, PrepOps, PrepEvents, PrepCalls, OpTaken, EventAdded
    <2>2. \A b \in Attempts, y \in Posted' : y \in PrepEvents(b) => b \notin
         retrievals' /\ \A d \in Deferred' : d \notin PrepCalls(b)
      BY <1>1, <1>2, <1>3, <1>4, <1>5, <1>6, <1>7, <1>8, <1>9, <1>10, <1>11, <1>12,
         <1>13, <1>14, <1>15, <1>16, <1>17, <1>18, SMTT(10)
         DEF IInv, Preparing, PrepOps, PrepEvents, PrepCalls, OpTaken, EventAdded
    <2>3. \A b \in Attempts : b \in retrievals' => \A y \in Deferred' : y
         \notin PrepCalls(b)
      BY <1>1, <1>2, <1>3, <1>4, <1>5, <1>6, <1>7, <1>8, <1>9, <1>10, <1>11, <1>12,
         <1>13, <1>14, <1>15, <1>16, <1>17, <1>18, SMTT(10)
         DEF IInv, Preparing, PrepOps, PrepEvents, PrepCalls, OpTaken, EventAdded
    <2> QED  BY <2>1, <2>2, <2>3 DEF Preparing, PrepOps, PrepEvents, PrepCalls
  <1>24. Attempting'
    BY <1>1, <1>2, <1>3, <1>4, <1>5, <1>6, <1>7, <1>8, <1>9, <1>10, <1>11, <1>12,
       <1>13, <1>14, <1>15, <1>16, <1>17, <1>18, AttemptParts, SMTT(10)
       DEF IInv, Attempting, Loading, Finalizing, IdleIsQuiet, LaneIsReleased, Busy,
           EventTyped, Startup, OpTaken, EventAdded
  <1>25. Finalizing'
    BY <1>1, <1>2, <1>3, <1>4, <1>5, <1>6, <1>7, <1>8, <1>9, <1>10, <1>11, <1>12,
       <1>13, <1>14, <1>15, <1>16, <1>17, <1>18, SMTT(10)
       DEF IInv, Finalizing, Attempting, Preparing, Begins, Finalizes, FinalEvents,
           FinalCalls, Begin, OpTaken, EventAdded
  <1>26. NotAsked'
    BY <1>1, <1>2, <1>3, <1>4, <1>5, <1>6, <1>7, <1>8, <1>9, <1>10, <1>11, <1>12,
       <1>13, <1>14, <1>15, <1>16, <1>17, <1>18, SMTT(10)
       DEF IInv, NotAsked, Preparing, Attempting, Finalizing, InPreparation, PrepOps,
           PrepEvents, PrepCalls, Finalizes, OpTaken, EventAdded
  <1>27. Stepping'
    BY <1>1, <1>2, <1>3, <1>4, <1>5, <1>6, <1>7, <1>8, <1>9, <1>10, <1>11, <1>12,
       <1>13, <1>14, <1>15, <1>16, <1>17, <1>18, SMTT(10)
       DEF IInv, Stepping, Typed, Row, A, OpTaken, EventAdded
  <1>28. Beginning'
    BY <1>1, <1>2, <1>3, <1>4, <1>5, <1>6, <1>7, <1>8, <1>9, <1>10, <1>11, <1>12,
       <1>13, <1>14, <1>15, <1>16, <1>17, <1>18, SMTT(10)
       DEF IInv, Beginning, Stepping, Typed, Written, Begin, OpTaken, EventAdded
  <1>29. Finishing'
    BY <1>1, <1>2, <1>3, <1>4, <1>5, <1>6, <1>7, <1>8, <1>9, <1>10, <1>11, <1>12,
       <1>13, <1>14, <1>15, <1>16, <1>17, <1>18, SMTT(10)
       DEF IInv, Finishing, Stepping, Attempting, Finalizing, Written, Terminal,
           OpTaken, EventAdded
  <1>30. Staging'
    BY <1>1, <1>2, <1>3, <1>4, <1>5, <1>6, <1>7, <1>8, <1>9, <1>10, <1>11, <1>12,
       <1>13, <1>14, <1>15, <1>16, <1>17, <1>18, SMTT(10)
       DEF IInv, Staging, Attempting, Preparing, Staged, OpTaken, EventAdded
  <1>31. Asking'
    BY <1>1, <1>2, <1>3, <1>4, <1>5, <1>6, <1>7, <1>8, <1>9, <1>10, <1>11, <1>12,
       <1>13, <1>14, <1>15, <1>16, <1>17, <1>18, SMTT(10)
       DEF IInv, Asking, Attempting, Open, OpTaken, EventAdded
  <1>32. Showing'
    BY <1>1, <1>2, <1>3, <1>4, <1>5, <1>6, <1>7, <1>8, <1>9, <1>10, <1>11, <1>12,
       <1>13, <1>14, <1>15, <1>16, <1>17, <1>18, SMTT(10)
       DEF IInv, Showing, Attempting, Asking, Typed, Open, InFlight, OpTaken,
           EventAdded
  <1>33. Saving'
    BY <1>1, <1>2, <1>3, <1>4, <1>5, <1>6, <1>7, <1>8, <1>9, <1>10, <1>11, <1>12,
       <1>13, <1>14, <1>15, <1>16, <1>17, <1>18, AttemptParts, SMTT(10)
       DEF IInv, Saving, Finishing, Stepping, Finalizing, Attempting,
           CompletedIsSaved, OpTaken, EventAdded
  <1>34. Faultless'
    <2>1. up' /\ ~failedOp' /\ ~shutting' => \A y \in Posted' : y.ev \notin
         {"not_prepared", "not_finalized"}
      BY <1>1, <1>2, <1>3, <1>4, <1>5, <1>6, <1>7, <1>8, <1>9, <1>10, <1>11, <1>12,
         <1>13, <1>14, <1>15, <1>16, <1>17, <1>18, SMTT(10)
         DEF IInv, Faultless, Loading, Attempting, Finalizing, Stepping, Beginning,
             InFlight, Begin, OpTaken, EventAdded
    <2>2. up' /\ ~failedOp' /\ ~shutting' => \A y \in Deferred' : y.ev \notin
         {"prepare_failed", "final_failed"}
      BY <1>1, <1>2, <1>3, <1>4, <1>5, <1>6, <1>7, <1>8, <1>9, <1>10, <1>11, <1>12,
         <1>13, <1>14, <1>15, <1>16, <1>17, <1>18, SMTT(10)
         DEF IInv, Faultless, Loading, Attempting, Finalizing, Stepping, Beginning,
             InFlight, Begin, OpTaken, EventAdded
    <2>3. up' /\ ~failedOp' /\ ~shutting' /\ prep' # None =>
         rows'[prep'[1]].attempt = prep'[2] \/ \E x \in Queued' : x.op \in
         Begin /\ x.a = prep'
      BY <1>1, <1>2, <1>3, <1>4, <1>5, <1>6, <1>7, <1>8, <1>9, <1>10, <1>11, <1>12,
         <1>13, <1>14, <1>15, <1>16, <1>17, <1>18, SMTT(10)
         DEF Loading, Attempting, Finalizing, Stepping, Beginning, InFlight, Begin,
             OpTaken, EventAdded
    <2>4. up' /\ ~failedOp' /\ ~shutting' => \A x \in Queued' : x.op =
         "finalize" => rows'[x.a[1]].attempt = x.a[2] \/ \E b \in Queued' :
         b.op \in Begin /\ b.a = x.a
      BY <1>1, <1>2, <1>3, <1>4, <1>5, <1>6, <1>7, <1>8, <1>9, <1>10, <1>11, <1>12,
         <1>13, <1>14, <1>15, <1>16, <1>17, <1>18, SMTT(10)
         DEF Loading, Attempting, Finalizing, Stepping, Beginning, InFlight, Begin,
             OpTaken, EventAdded
    <2>5. up' /\ ~failedOp' /\ ~shutting' /\ loaded' => \A t \in Turns :
         turns'[t] = rows'[t] \/ InFlight(t)' \/ (final' # None /\ final'[1]
         = t)
      BY <1>15 DEF IInv, Faultless
    <2> QED  BY <2>1, <2>2, <2>3, <2>4, <2>5 DEF Faultless, Begin
  <1> QED  BY <1>19, <1>20, <1>21, <1>22, <1>23, <1>24, <1>25, <1>26, <1>27, <1>28, <1>29, <1>30, <1>31, <1>32, <1>33, <1>34 DEF IInv

\* A finalization finds another attempt in its row, or fails.
LEMMA FinalRefusedStep ==
  ASSUME IInv, NEW a \in Attempts, NEW o, NEW e,
         dataQ # <<>>, o = Head(dataQ), o.a = a, o.op = "finalize",
         dataQ' = Tail(dataQ), opStep' = "start",
         e = Event("not_finalized", a), mainQ' = Append(mainQ, e),
         failedOp' \in BOOLEAN, failedOp => failedOp', faults' \in 0..MaxFaults,
         failedOp' \/ rows[a[1]].attempt # a[2],
         UNCHANGED <<rows, dataUp, soon, up, loaded, shutting, writable, turns, state>>,
         UNCHANGED <<prep, active, contexts, final, unsaved, retrievals, lane, ask, background>>
  PROVE  IInv'
  <1>1. /\ a[1] \in Turns /\ a[2] \in 1..MaxRequests /\ a # None
    BY AttemptParts
  <1>2. OpTaken
    BY TakesOp
  <1>3. /\ OpTyped(o) /\ o \in Queued /\ o \in Finalizes /\ o.op \notin Begin
        /\ \A b \in Attempts : o \notin PrepOps(b)
    BY <1>2 DEF OpTaken, OpTyped, Finalizes, PrepOps, Begin
  <1>4. loaded /\ up
        <2> SUFFICES ASSUME ~loaded
                 PROVE  FALSE
      BY DEF IInv, Loading
    <2>1. dataQ = <<InitOp>>
      BY DEF IInv, Loading
    <2>2. Head(dataQ) = InitOp
      BY <2>1
    <2> QED  BY <2>2 DEF InitOp, Op, Begin

  <1>5. /\ final = a /\ o.status \in Terminal /\ turns[a[1]] = Message(o.status, a[2], o.reply)
        /\ turns[a[1]].status = o.status /\ turns[a[1]].attempt = a[2]
        <2>1. final = a
      BY <1>3 DEF IInv, Finalizing
    <2>2. o.status \in Terminal /\ turns[a[1]] = Message(o.status, a[2], o.reply)
      BY <1>3 DEF IInv, Finishing
    <2> QED  BY <2>1, <2>2 DEF Message

  <1>6. /\ \A d \in Posted : d \notin FinalEvents /\ d.ev # "finalized"
        /\ \A d \in Deferred : d \notin FinalCalls /\ d.ev # "final_ok"
    BY <1>3, AllTyped
       DEF IInv, Finalizing, EventTyped, CallTyped, FinalEvents, FinalCalls, Startup
  <1>7. prep = None /\ \A c \in contexts : c.terminal
    BY <1>1, <1>5 DEF IInv, Attempting
  <1>8. \A p \in Queued' : p \in Queued /\ p \notin Begins /\ p \notin Finalizes /\ p.op \notin Begin /\ p.op # "finalize"
    BY <1>2, <1>3, AllTyped DEF OpTaken, Begins, Finalizes, OpTyped
  <1>9. \A p \in Queued : p.op \notin Begin
    BY <1>2, <1>3, <1>8 DEF OpTaken
  <1>10. /\ e \in EventRecs /\ EventTyped(e) /\ e.ev = "not_finalized" /\ e.a = a
    BY NewEvent DEF Signal
  <1>11. EventAdded(e)
    BY <1>10, AddsEvent
  <1>12. /\ e \in FinalEvents /\ e.ev \notin Startup /\ e.ev # "finished"
         /\ \A b \in Attempts : e \notin PrepEvents(b)
    BY <1>10 DEF FinalEvents, PrepEvents, Startup
  <1>13. LinedEvents(mainQ')
    BY <1>6, <1>11, <1>12 DEF EventAdded
  <1>14. \A b \in Attempts : InPreparation(b)' => InPreparation(b)
    BY <1>2, <1>11, <1>12, SameQueues
       DEF InPreparation, PrepOps, PrepEvents, PrepCalls, OpTaken, EventAdded
  <1>15. \A t \in Turns : InFlight(t)' = InFlight(t)
    BY DEF InFlight
  <1>16. failedOp' \/ ~up \/ shutting
    BY <1>3, <1>4, <1>9 DEF IInv, Faultless
  <1>17. /\ UNCHANGED dataQ => UNCHANGED Queued
         /\ UNCHANGED mainQ => UNCHANGED Posted
         /\ UNCHANGED soon => UNCHANGED Deferred
    BY SameQueues
  <1>18. /\ \A x \in Queued : OpTyped(x)
         /\ \A y \in Posted : EventTyped(y)
         /\ \A y \in Deferred : CallTyped(y)
    BY AllTyped
  <1>19. Typed'
    BY <1>1, <1>2, <1>3, <1>4, <1>5, <1>6, <1>7, <1>8, <1>9, <1>10, <1>11, <1>12,
       <1>13, <1>14, <1>15, <1>16, <1>17, <1>18
       DEF IInv, Typed, OpTaken, EventAdded
  <1>20. Loading'
    BY <1>1, <1>2, <1>3, <1>4, <1>5, <1>6, <1>7, <1>8, <1>9, <1>10, <1>11, <1>12,
       <1>13, <1>14, <1>15, <1>16, <1>17, <1>18, SMTT(10)
       DEF IInv, Loading, Typed, OpTaken, EventAdded
  <1>21. Numbered'
    BY <1>1, <1>2, <1>3, <1>4, <1>5, <1>6, <1>7, <1>8, <1>9, <1>10, <1>11, <1>12,
       <1>13, <1>14, <1>15, <1>16, <1>17, <1>18, SMTT(10)
       DEF IInv, Numbered, Typed, Loading, Known, Latest, OpTaken, EventAdded
  <1>22. Lined'
    BY <1>1, <1>2, <1>3, <1>4, <1>5, <1>6, <1>7, <1>8, <1>9, <1>10, <1>11, <1>12,
       <1>13, <1>14, <1>15, <1>16, <1>17, <1>18, SMTT(10)
       DEF IInv, Lined, Fits, OpTaken, EventAdded
  <1>23. Preparing'
    <2>1. \A b \in Attempts, x \in Queued' : x \in PrepOps(b) => (\A y \in
         Posted' : y \notin PrepEvents(b)) /\ b \notin retrievals' /\ \A y
         \in Deferred' : y \notin PrepCalls(b)
      BY <1>1, <1>2, <1>3, <1>4, <1>5, <1>6, <1>7, <1>8, <1>9, <1>10, <1>11, <1>12,
         <1>13, <1>14, <1>15, <1>16, <1>17, <1>18, SMTT(10)
         DEF IInv, Preparing, PrepOps, PrepEvents, PrepCalls, OpTaken, EventAdded
    <2>2. \A b \in Attempts, y \in Posted' : y \in PrepEvents(b) => b \notin
         retrievals' /\ \A d \in Deferred' : d \notin PrepCalls(b)
      BY <1>1, <1>2, <1>3, <1>4, <1>5, <1>6, <1>7, <1>8, <1>9, <1>10, <1>11, <1>12,
         <1>13, <1>14, <1>15, <1>16, <1>17, <1>18, SMTT(10)
         DEF IInv, Preparing, PrepOps, PrepEvents, PrepCalls, OpTaken, EventAdded
    <2>3. \A b \in Attempts : b \in retrievals' => \A y \in Deferred' : y
         \notin PrepCalls(b)
      BY <1>1, <1>2, <1>3, <1>4, <1>5, <1>6, <1>7, <1>8, <1>9, <1>10, <1>11, <1>12,
         <1>13, <1>14, <1>15, <1>16, <1>17, <1>18, SMTT(10)
         DEF IInv, Preparing, PrepOps, PrepEvents, PrepCalls, OpTaken, EventAdded
    <2> QED  BY <2>1, <2>2, <2>3 DEF Preparing, PrepOps, PrepEvents, PrepCalls
  <1>24. Attempting'
    BY <1>1, <1>2, <1>3, <1>4, <1>5, <1>6, <1>7, <1>8, <1>9, <1>10, <1>11, <1>12,
       <1>13, <1>14, <1>15, <1>16, <1>17, <1>18, AttemptParts, SMTT(10)
       DEF IInv, Attempting, Loading, Finalizing, IdleIsQuiet, LaneIsReleased, Busy,
           EventTyped, Startup, OpTaken, EventAdded
  <1>25. Finalizing'
    BY <1>1, <1>2, <1>3, <1>4, <1>5, <1>6, <1>7, <1>8, <1>9, <1>10, <1>11, <1>12,
       <1>13, <1>14, <1>15, <1>16, <1>17, <1>18, SMTT(10)
       DEF IInv, Finalizing, Attempting, Preparing, Begins, Finalizes, FinalEvents,
           FinalCalls, Begin, OpTaken, EventAdded
  <1>26. NotAsked'
    BY <1>1, <1>2, <1>3, <1>4, <1>5, <1>6, <1>7, <1>8, <1>9, <1>10, <1>11, <1>12,
       <1>13, <1>14, <1>15, <1>16, <1>17, <1>18, SMTT(10)
       DEF IInv, NotAsked, Preparing, Attempting, Finalizing, InPreparation, PrepOps,
           PrepEvents, PrepCalls, Finalizes, OpTaken, EventAdded
  <1>27. Stepping'
    BY <1>1, <1>2, <1>3, <1>4, <1>5, <1>6, <1>7, <1>8, <1>9, <1>10, <1>11, <1>12,
       <1>13, <1>14, <1>15, <1>16, <1>17, <1>18, SMTT(10)
       DEF IInv, Stepping, Typed, Row, A, OpTaken, EventAdded
  <1>28. Beginning'
    BY <1>1, <1>2, <1>3, <1>4, <1>5, <1>6, <1>7, <1>8, <1>9, <1>10, <1>11, <1>12,
       <1>13, <1>14, <1>15, <1>16, <1>17, <1>18, SMTT(10)
       DEF IInv, Beginning, Stepping, Typed, Written, Begin, OpTaken, EventAdded
  <1>29. Finishing'
    BY <1>1, <1>2, <1>3, <1>4, <1>5, <1>6, <1>7, <1>8, <1>9, <1>10, <1>11, <1>12,
       <1>13, <1>14, <1>15, <1>16, <1>17, <1>18, SMTT(10)
       DEF IInv, Finishing, Stepping, Attempting, Finalizing, Written, Terminal,
           OpTaken, EventAdded
  <1>30. Staging'
    BY <1>1, <1>2, <1>3, <1>4, <1>5, <1>6, <1>7, <1>8, <1>9, <1>10, <1>11, <1>12,
       <1>13, <1>14, <1>15, <1>16, <1>17, <1>18, SMTT(10)
       DEF IInv, Staging, Attempting, Preparing, Staged, OpTaken, EventAdded
  <1>31. Asking'
    BY <1>1, <1>2, <1>3, <1>4, <1>5, <1>6, <1>7, <1>8, <1>9, <1>10, <1>11, <1>12,
       <1>13, <1>14, <1>15, <1>16, <1>17, <1>18, SMTT(10)
       DEF IInv, Asking, Attempting, Open, OpTaken, EventAdded
  <1>32. Showing'
    BY <1>1, <1>2, <1>3, <1>4, <1>5, <1>6, <1>7, <1>8, <1>9, <1>10, <1>11, <1>12,
       <1>13, <1>14, <1>15, <1>16, <1>17, <1>18, SMTT(10)
       DEF IInv, Showing, Attempting, Asking, Typed, Open, InFlight, OpTaken,
           EventAdded
  <1>33. Saving'
    BY <1>1, <1>2, <1>3, <1>4, <1>5, <1>6, <1>7, <1>8, <1>9, <1>10, <1>11, <1>12,
       <1>13, <1>14, <1>15, <1>16, <1>17, <1>18, AttemptParts, SMTT(10)
       DEF IInv, Saving, Finishing, Stepping, Finalizing, Attempting,
           CompletedIsSaved, OpTaken, EventAdded
  <1>34. Faultless'
    BY <1>1, <1>2, <1>3, <1>4, <1>5, <1>6, <1>7, <1>8, <1>9, <1>10, <1>11, <1>12,
       <1>13, <1>14, <1>15, <1>16, <1>17, <1>18, SMTT(10)
       DEF IInv, Faultless, Loading, Attempting, Finalizing, Stepping, Beginning,
           InFlight, Begin, OpTaken, EventAdded
  <1> QED  BY <1>19, <1>20, <1>21, <1>22, <1>23, <1>24, <1>25, <1>26, <1>27, <1>28, <1>29, <1>30, <1>31, <1>32, <1>33, <1>34 DEF IInv

\* The thread of the request ends without a word.
LEMMA WorkerStep ==
  ASSUME IInv, NEW c \in contexts, NEW next,
         contexts' = (contexts \ {c}) \cup {next},
         next \in ContextRecs, next.a = c.a, next.terminal = c.terminal,
         UNCHANGED <<rows, dataQ, opStep, dataUp, mainQ, soon, up, loaded, shutting>>,
         UNCHANGED <<failedOp, faults, writable, turns, state, prep, active, final, unsaved>>,
         UNCHANGED <<retrievals, lane, ask, background>>
  PROVE  IInv'
  <1>1. /\ contexts' = {next} /\ contexts = {c} /\ prep = None /\ loaded /\ Known(c.a)
        /\ c.a \in Attempts
    BY AttemptParts DEF IInv, Typed, ContextRecs, Attempting, Numbered, Loading
  <1>2. \A t \in Turns : InFlight(t)' = InFlight(t)
    BY <1>1 DEF InFlight
  <1>3. /\ UNCHANGED dataQ => UNCHANGED Queued
        /\ UNCHANGED mainQ => UNCHANGED Posted
        /\ UNCHANGED soon => UNCHANGED Deferred
    BY SameQueues
  <1>4. /\ \A o \in Queued : OpTyped(o)
        /\ \A e \in Posted : EventTyped(e)
        /\ \A e \in Deferred : CallTyped(e)
    BY AllTyped
  <1>5. Typed'
    BY <1>1, <1>2, <1>3, <1>4 DEF IInv, Typed
  <1>6. Loading'
    BY <1>1, <1>2, <1>3, <1>4, SMTT(10) DEF IInv, Loading, Typed
  <1>7. Numbered'
    BY <1>1, <1>2, <1>3, <1>4, SMTT(10)
       DEF IInv, Numbered, Typed, Loading, Known, Latest
  <1>8. Lined'
    BY <1>1, <1>2, <1>3, <1>4, SMTT(10) DEF IInv, Lined, Fits
  <1>9. Preparing'
    BY <1>1, <1>2, <1>3, <1>4, SMTT(10)
       DEF IInv, Preparing, PrepOps, PrepEvents, PrepCalls
  <1>10. Attempting'
    BY <1>1, <1>2, <1>3, <1>4, AttemptParts, SMTT(10)
       DEF IInv, Attempting, Loading, Finalizing, IdleIsQuiet, LaneIsReleased, Busy,
           EventTyped, Startup
  <1>11. Finalizing'
    BY <1>1, <1>2, <1>3, <1>4, SMTT(10)
       DEF IInv, Finalizing, Attempting, Preparing, Begins, Finalizes, FinalEvents,
           FinalCalls, Begin
  <1>12. NotAsked'
    BY <1>1, <1>2, <1>3, <1>4, SMTT(10)
       DEF IInv, NotAsked, Preparing, Attempting, Finalizing, InPreparation, PrepOps,
           PrepEvents, PrepCalls, Finalizes
  <1>13. Stepping'
    BY <1>1, <1>2, <1>3, <1>4, SMTT(10) DEF IInv, Stepping, Typed, Row, A
  <1>14. Beginning'
    BY <1>1, <1>2, <1>3, <1>4, SMTT(10)
       DEF IInv, Beginning, Stepping, Typed, Written, Begin
  <1>15. Finishing'
    BY <1>1, <1>2, <1>3, <1>4, SMTT(10)
       DEF IInv, Finishing, Stepping, Attempting, Finalizing, Written, Terminal
  <1>16. Staging'
    BY <1>1, <1>2, <1>3, <1>4, SMTT(10)
       DEF IInv, Staging, Attempting, Preparing, Staged
  <1>17. Asking'
    BY <1>1, <1>2, <1>3, <1>4, SMTT(10) DEF IInv, Asking, Attempting, Open
  <1>18. Showing'
    BY <1>1, <1>2, <1>3, <1>4, SMTT(10)
       DEF IInv, Showing, Attempting, Asking, Typed, Open, InFlight
  <1>19. Saving'
    BY <1>1, <1>2, <1>3, <1>4, AttemptParts, SMTT(10)
       DEF IInv, Saving, Finishing, Stepping, Finalizing, Attempting, CompletedIsSaved
  <1>20. Faultless'
    <2>1. up' /\ ~failedOp' /\ ~shutting' => \A e \in Posted' : e.ev \notin
         {"not_prepared", "not_finalized"}
      BY <1>1, <1>2, <1>3, <1>4, SMTT(10)
         DEF IInv, Faultless, Loading, Attempting, Finalizing, Stepping, Beginning,
             InFlight, Begin
    <2>2. up' /\ ~failedOp' /\ ~shutting' => \A e \in Deferred' : e.ev \notin
         {"prepare_failed", "final_failed"}
      BY <1>1, <1>2, <1>3, <1>4, SMTT(10)
         DEF IInv, Faultless, Loading, Attempting, Finalizing, Stepping, Beginning,
             InFlight, Begin
    <2>3. up' /\ ~failedOp' /\ ~shutting' /\ prep' # None =>
         rows'[prep'[1]].attempt = prep'[2] \/ \E o \in Queued' : o.op \in
         Begin /\ o.a = prep'
      BY <1>1, <1>2, <1>3, <1>4, SMTT(10)
         DEF Loading, Attempting, Finalizing, Stepping, Beginning, InFlight, Begin
    <2>4. up' /\ ~failedOp' /\ ~shutting' => \A o \in Queued' : o.op =
         "finalize" => rows'[o.a[1]].attempt = o.a[2] \/ \E b \in Queued' :
         b.op \in Begin /\ b.a = o.a
      BY <1>1, <1>2, <1>3, <1>4, SMTT(10)
         DEF IInv, Faultless, Loading, Attempting, Finalizing, Stepping, Beginning,
             InFlight, Begin
    <2>5. up' /\ ~failedOp' /\ ~shutting' /\ loaded' => \A t \in Turns :
         turns'[t] = rows'[t] \/ InFlight(t)' \/ (final' # None /\ final'[1]
         = t)
      BY <1>1, <1>2, <1>3, <1>4, SMTT(10)
         DEF IInv, Faultless, Loading, Attempting, Finalizing, Stepping, Beginning,
             InFlight, Begin
    <2> QED  BY <2>1, <2>2, <2>3, <2>4, <2>5 DEF Faultless, Begin
  <1> QED  BY <1>5, <1>6, <1>7, <1>8, <1>9, <1>10, <1>11, <1>12, <1>13, <1>14, <1>15, <1>16, <1>17, <1>18, <1>19, <1>20 DEF IInv

\* The thread of the request reports.
LEMMA ReportsStep ==
  ASSUME IInv, NEW c \in contexts, NEW next, NEW ev \in WorkerSignals, NEW e,
         contexts' = (contexts \ {c}) \cup {next},
         next \in ContextRecs, next.a = c.a, next.terminal = c.terminal,
         e = Event(ev, c.a), mainQ' = Append(mainQ, e),
         UNCHANGED <<rows, dataQ, opStep, dataUp, soon, up, loaded, shutting, failedOp>>,
         UNCHANGED <<faults, writable, turns, state, prep, active, final, unsaved, retrievals>>,
         UNCHANGED <<lane, ask, background>>
  PROVE  IInv'
  <1>1. /\ contexts' = {next} /\ contexts = {c} /\ prep = None /\ loaded /\ Known(c.a)
        /\ c.a \in Attempts
    BY AttemptParts DEF IInv, Typed, ContextRecs, Attempting, Numbered, Loading
  <1>2. \A t \in Turns : InFlight(t)' = InFlight(t)
    BY <1>1 DEF InFlight
  <1>3. /\ e \in EventRecs /\ EventTyped(e) /\ e.ev = ev /\ e.a = c.a
    BY <1>1, NewEvent DEF Signal
  <1>4. EventAdded(e)
    BY <1>3, AddsEvent
  <1>5. /\ e.ev \notin Startup /\ e \notin FinalEvents /\ \A b \in Attempts : e \notin PrepEvents(b)
        /\ e.ev \notin {"not_prepared", "not_finalized", "seed", "assembled", "finalized", "loaded"}
    BY <1>3 DEF Startup, FinalEvents, PrepEvents, WorkerSignals
  <1>6. \A b \in Attempts : InPreparation(b)' => InPreparation(b)
    BY <1>4, <1>5, SameQueues
       DEF InPreparation, PrepOps, PrepEvents, PrepCalls, EventAdded
  <1>7. ~(~loaded) /\ LinedEvents(mainQ')
    BY <1>1, <1>4, <1>5 DEF EventAdded
  <1>8. /\ UNCHANGED dataQ => UNCHANGED Queued
        /\ UNCHANGED mainQ => UNCHANGED Posted
        /\ UNCHANGED soon => UNCHANGED Deferred
    BY SameQueues
  <1>9. /\ \A o \in Queued : OpTyped(o)
        /\ \A y \in Posted : EventTyped(y)
        /\ \A y \in Deferred : CallTyped(y)
    BY AllTyped
  <1>10. Typed'
    BY <1>1, <1>2, <1>3, <1>4, <1>5, <1>6, <1>7, <1>8, <1>9
       DEF IInv, Typed, EventAdded
  <1>11. Loading'
    BY <1>1, <1>2, <1>3, <1>4, <1>5, <1>6, <1>7, <1>8, <1>9, SMTT(10)
       DEF IInv, Loading, Typed, EventAdded
  <1>12. Numbered'
    BY <1>1, <1>2, <1>3, <1>4, <1>5, <1>6, <1>7, <1>8, <1>9, SMTT(10)
       DEF IInv, Numbered, Typed, Loading, Known, Latest, EventAdded
  <1>13. Lined'
    BY <1>1, <1>2, <1>3, <1>4, <1>5, <1>6, <1>7, <1>8, <1>9, SMTT(10)
       DEF IInv, Lined, Fits, EventAdded
  <1>14. Preparing'
    BY <1>1, <1>2, <1>3, <1>4, <1>5, <1>6, <1>7, <1>8, <1>9, SMTT(10)
       DEF IInv, Preparing, PrepOps, PrepEvents, PrepCalls, EventAdded
  <1>15. Attempting'
    BY <1>1, <1>2, <1>3, <1>4, <1>5, <1>6, <1>7, <1>8, <1>9, AttemptParts, SMTT(10)
       DEF IInv, Attempting, Loading, Finalizing, IdleIsQuiet, LaneIsReleased, Busy,
           EventTyped, Startup, EventAdded
  <1>16. Finalizing'
    BY <1>1, <1>2, <1>3, <1>4, <1>5, <1>6, <1>7, <1>8, <1>9, SMTT(10)
       DEF IInv, Finalizing, Attempting, Preparing, Begins, Finalizes, FinalEvents,
           FinalCalls, Begin, EventAdded
  <1>17. NotAsked'
    BY <1>1, <1>2, <1>3, <1>4, <1>5, <1>6, <1>7, <1>8, <1>9, SMTT(10)
       DEF IInv, NotAsked, Preparing, Attempting, Finalizing, InPreparation, PrepOps,
           PrepEvents, PrepCalls, Finalizes, EventAdded
  <1>18. Stepping'
    BY <1>1, <1>2, <1>3, <1>4, <1>5, <1>6, <1>7, <1>8, <1>9, SMTT(10)
       DEF IInv, Stepping, Typed, Row, A, EventAdded
  <1>19. Beginning'
    BY <1>1, <1>2, <1>3, <1>4, <1>5, <1>6, <1>7, <1>8, <1>9, SMTT(10)
       DEF IInv, Beginning, Stepping, Typed, Written, Begin, EventAdded
  <1>20. Finishing'
    BY <1>1, <1>2, <1>3, <1>4, <1>5, <1>6, <1>7, <1>8, <1>9, SMTT(10)
       DEF IInv, Finishing, Stepping, Attempting, Finalizing, Written, Terminal,
           EventAdded
  <1>21. Staging'
    BY <1>1, <1>2, <1>3, <1>4, <1>5, <1>6, <1>7, <1>8, <1>9, SMTT(10)
       DEF IInv, Staging, Attempting, Preparing, Staged, EventAdded
  <1>22. Asking'
    BY <1>1, <1>2, <1>3, <1>4, <1>5, <1>6, <1>7, <1>8, <1>9, SMTT(10)
       DEF IInv, Asking, Attempting, Open, EventAdded
  <1>23. Showing'
    BY <1>1, <1>2, <1>3, <1>4, <1>5, <1>6, <1>7, <1>8, <1>9, SMTT(10)
       DEF IInv, Showing, Attempting, Asking, Typed, Open, InFlight, EventAdded
  <1>24. Saving'
    BY <1>1, <1>2, <1>3, <1>4, <1>5, <1>6, <1>7, <1>8, <1>9, AttemptParts, SMTT(10)
       DEF IInv, Saving, Finishing, Stepping, Finalizing, Attempting,
           CompletedIsSaved, EventAdded
  <1>25. Faultless'
    <2>1. up' /\ ~failedOp' /\ ~shutting' => \A y \in Posted' : y.ev \notin
         {"not_prepared", "not_finalized"}
      BY <1>1, <1>2, <1>3, <1>4, <1>5, <1>6, <1>7, <1>8, <1>9, SMTT(10)
         DEF IInv, Faultless, Loading, Attempting, Finalizing, Stepping, Beginning,
             InFlight, Begin, EventAdded
    <2>2. up' /\ ~failedOp' /\ ~shutting' => \A y \in Deferred' : y.ev \notin
         {"prepare_failed", "final_failed"}
      BY <1>1, <1>2, <1>3, <1>4, <1>5, <1>6, <1>7, <1>8, <1>9, SMTT(10)
         DEF IInv, Faultless, Loading, Attempting, Finalizing, Stepping, Beginning,
             InFlight, Begin, EventAdded
    <2>3. up' /\ ~failedOp' /\ ~shutting' /\ prep' # None =>
         rows'[prep'[1]].attempt = prep'[2] \/ \E o \in Queued' : o.op \in
         Begin /\ o.a = prep'
      BY <1>1, <1>2, <1>3, <1>4, <1>5, <1>6, <1>7, <1>8, <1>9, SMTT(10)
         DEF Loading, Attempting, Finalizing, Stepping, Beginning, InFlight, Begin,
             EventAdded
    <2>4. up' /\ ~failedOp' /\ ~shutting' => \A o \in Queued' : o.op =
         "finalize" => rows'[o.a[1]].attempt = o.a[2] \/ \E b \in Queued' :
         b.op \in Begin /\ b.a = o.a
      BY <1>1, <1>2, <1>3, <1>4, <1>5, <1>6, <1>7, <1>8, <1>9, SMTT(10)
         DEF IInv, Faultless, Loading, Attempting, Finalizing, Stepping, Beginning,
             InFlight, Begin, EventAdded
    <2>5. up' /\ ~failedOp' /\ ~shutting' /\ loaded' => \A t \in Turns :
         turns'[t] = rows'[t] \/ InFlight(t)' \/ (final' # None /\ final'[1]
         = t)
      BY <1>1, <1>2, <1>3, <1>4, <1>5, <1>6, <1>7, <1>8, <1>9, SMTT(10)
         DEF IInv, Faultless, Loading, Attempting, Finalizing, Stepping, Beginning,
             InFlight, Begin, EventAdded
    <2> QED  BY <2>1, <2>2, <2>3, <2>4, <2>5 DEF Faultless, Begin
  <1> QED  BY <1>10, <1>11, <1>12, <1>13, <1>14, <1>15, <1>16, <1>17, <1>18, <1>19, <1>20, <1>21, <1>22, <1>23, <1>24, <1>25 DEF IInv

----------------------------------------
(* Every action is one of these steps. *)

LEMMA StateSet ==
  ASSUME IInv, NEW next \in States, SetState(next)
  PROVE  /\ state' = next /\ state' \in States /\ lane' \in BOOLEAN
         /\ next = state => lane' = lane
         /\ next # state => lane' = (next # "idle")
  BY DEF IInv, Typed, SetState

\* _dispatch_pending_foreground_action
LEMMA Dispatching ==
  ASSUME IInv, NEW kind \in Begin, NEW t \in Turns, Dispatch(kind, t), background' \in BOOLEAN,
         loaded, up, InController
  PROVE  IInv'
  <1>1. CASE ~shutting /\ writable /\ state = "idle" /\ ~Busy /\ Wanted(kind, t)
    <2> DEFINE n == IF kind = "send" THEN 1 ELSE turns[t].attempt + 1
               a == <<t, n>>
               o == Op(kind, a, "pending", 0)
    <2>1. /\ turns[t].attempt \in 0..MaxRequests /\ turns[t].attempt < MaxRequests
          /\ turns[t].status \in {"absent", "failed"} /\ n = turns[t].attempt + 1
      BY <1>1 DEF IInv, Typed, Messages, Numbered, Wanted, CanSend, CanRetry, Begin
    <2>2. a \in Attempts /\ a[1] = t /\ a[2] = n
      BY <2>1, ConversationAssumption DEF Attempts
    <2>3. dataUp
      BY <1>1 DEF IInv, Loading
    <2>4. /\ turns' = [turns EXCEPT ![a[1]] = Message("pending", a[2], 0)]
          /\ prep' = a /\ active' = a /\ SetState("sending")
          /\ dataQ' = Append(dataQ, o) /\ UNCHANGED soon /\ ask' = None
      BY <1>1, <2>2, <2>3 DEF Dispatch, Prepare
    <2>5. state' = "sending" /\ lane' = TRUE
      BY <1>1, <2>4 DEF SetState
    <2>6. writable /\ ~shutting /\ active = None /\ prep = None /\ final = None
      BY <1>1 DEF Busy
    <2>7. UNCHANGED <<rows, opStep, dataUp, mainQ, up, loaded, shutting, failedOp, faults, writable,
                      contexts, final, unsaved, retrievals>>
      BY DEF InController, durable, process
    <2> QED  BY <2>1, <2>2, <2>4, <2>5, <2>6, <2>7, PrepareStep
  <1>2. CASE ~(~shutting /\ writable /\ state = "idle" /\ ~Busy /\ Wanted(kind, t))
    <2>1. ask' = None /\ lane' = FALSE /\ UNCHANGED <<turns, prep, active, state, dataQ, soon>>
      BY <1>2 DEF Dispatch
    <2>2. UNCHANGED <<rows, opStep, dataUp, mainQ, up, loaded, shutting, failedOp, faults, writable,
                      contexts, final, unsaved, retrievals>>
      BY DEF InController, durable, process
    <2> QED  BY <2>1, <2>2, LaneStep
  <1> QED  BY <1>1, <1>2

LEMMA AskStep ==
  ASSUME IInv, NEW kind \in Begin, NEW t \in Turns, Ask(kind, t)
  PROVE  IInv'
  <1>1. up /\ loaded /\ InController /\ background' = background /\ background \in BOOLEAN
    BY DEF Ask, IInv, Typed
  <1>2. CASE background
    <2>1. /\ ask' = <<kind, t>> /\ lane' = TRUE
          /\ UNCHANGED <<turns, prep, active, state, dataQ, soon>>
      BY <1>2 DEF Ask
    <2>2. UNCHANGED <<rows, opStep, dataUp, mainQ, up, loaded, shutting, failedOp, faults, writable,
                      contexts, final, unsaved, retrievals>>
      BY <1>1 DEF InController, durable, process
    <2>3. ask' \in Begin \X Turns /\ ask' # None
      BY <2>1 DEF None
    <2> QED  BY <1>1, <2>1, <2>2, <2>3, LaneStep
  <1>3. CASE ~background
    BY <1>1, <1>3, Dispatching DEF Ask
  <1> QED  BY <1>2, <1>3

\* The background coordinators and the lane
LEMMA LaneActions ==
  ASSUME IInv, BackgroundStarts \/ BackgroundEnds \/ LaneTimeout
  PROVE  IInv'
  <1>1. InController
    BY DEF BackgroundStarts, BackgroundEnds, LaneTimeout
  <1>2. UNCHANGED <<rows, opStep, dataUp, mainQ, up, loaded, shutting, failedOp, faults, writable,
                    contexts, final, unsaved, retrievals>>
    BY <1>1 DEF InController, durable, process
  <1>3. /\ lane \in BOOLEAN /\ background \in BOOLEAN /\ (ask = None \/ ask \in Begin \X Turns)
        /\ up /\ state = "idle" /\ ask = None => ~lane
        /\ ~loaded => ask = None /\ ~lane
        /\ loaded => up
    BY DEF IInv, Typed, Attempting, LaneIsReleased, Loading
  <1>4. CASE BackgroundStarts
    <2>1. /\ background' = TRUE
          /\ UNCHANGED <<lane, ask, turns, prep, active, state, dataQ, soon>>
      BY <1>4 DEF BackgroundStarts
    <2> QED  BY <1>2, <1>3, <2>1, LaneStep
  <1>5. CASE BackgroundEnds /\ ask = None
    <2>1. /\ background' = FALSE
          /\ UNCHANGED <<lane, ask, turns, prep, active, state, dataQ, soon>>
      BY <1>5 DEF BackgroundEnds
    <2> QED  BY <1>2, <1>3, <2>1, LaneStep
  <1>6. CASE BackgroundEnds /\ ask # None
    <2>1. background' = FALSE /\ Dispatch(ask[1], ask[2])
      BY <1>6 DEF BackgroundEnds
    <2>2. ask[1] \in Begin /\ ask[2] \in Turns /\ loaded /\ up
      BY <1>3, <1>6
    <2> QED  BY <1>1, <2>1, <2>2, Dispatching
  <1>7. CASE LaneTimeout
    <2>1. /\ ask' = None /\ lane' = FALSE
          /\ UNCHANGED <<background, turns, prep, active, state, dataQ, soon>>
      BY <1>7 DEF LaneTimeout
    <2> QED  BY <1>2, <1>3, <2>1, LaneStep
  <1> QED  BY <1>4, <1>5, <1>6, <1>7

\* The one context that is left has its outcome.
LEMMA Ends ==
  ASSUME IInv, NEW a \in Attempts, active = a, ~shutting, NEW cancel \in BOOLEAN, Ended(a, cancel)
  PROVE  /\ contexts' \subseteq ContextRecs
         /\ \A c \in contexts' : c.terminal /\ c.a = a
         /\ \A c, d \in contexts' : c = d
  <1>1. /\ contexts \subseteq ContextRecs /\ (\A c \in contexts : c.a = a)
        /\ \A c, d \in contexts : c = d
    BY DEF IInv, Typed, Attempting
  <1>2. contexts' = {[c EXCEPT !.terminal = TRUE, !.cancelled = @ \/ cancel] : c \in contexts}
    BY <1>1 DEF Ended
  <1>3. \A c \in ContextRecs :
          /\ [c EXCEPT !.terminal = TRUE, !.cancelled = @ \/ cancel] \in ContextRecs
          /\ [c EXCEPT !.terminal = TRUE, !.cancelled = @ \/ cancel].terminal
          /\ [c EXCEPT !.terminal = TRUE, !.cancelled = @ \/ cancel].a = c.a
    BY DEF ContextRecs
  <1> QED  BY <1>1, <1>2, <1>3

\* The active request gets its outcome by whoever is first.
LEMMA Finishes ==
  ASSUME IInv, NEW a \in Attempts, NEW status \in Terminal, NEW cancel \in BOOLEAN,
         active = a, Awaiting(a), Terminalize(a, status), Ended(a, cancel),
         UNCHANGED mainQ \/ (mainQ # <<>> /\ mainQ' = Tail(mainQ) /\ Head(mainQ).ev \in WorkerSignals),
         ask' = ask \/ ask' = None,
         UNCHANGED <<rows, opStep, dataUp, up, loaded, shutting, failedOp, faults>>,
         UNCHANGED <<prep, active, retrievals, background>>
  PROVE  IInv'
  <1>1. ~shutting /\ \E c \in contexts : c.a = a /\ ~c.terminal
    BY DEF Awaiting
  <1>2. Show(a, status) /\ Persist(a, status, turns[a[1]].reply) /\ SetState(status)
    BY DEF Terminalize
  <1>3. state' = status /\ state' \in States /\ lane' \in BOOLEAN
    BY <1>2, StateSet DEF Terminal, States
  <1>4. /\ contexts' \subseteq ContextRecs
        /\ \A c \in contexts' : c.terminal /\ c.a = a
        /\ \A c, d \in contexts' : c = d
    BY <1>1, Ends
  <1>5. /\ Posted' \subseteq Posted /\ mainQ' \in Seq(EventRecs) /\ LinedEvents(mainQ')
        /\ \A e \in Posted : e \in Posted' \/ e.ev \in WorkerSignals
    <2>1. CASE UNCHANGED mainQ
      BY <2>1, SameQueues DEF IInv, Typed, Lined
    <2>2. CASE mainQ # <<>> /\ mainQ' = Tail(mainQ) /\ Head(mainQ).ev \in WorkerSignals
      BY <2>2, TakesEvent DEF EventTaken
    <2> QED  BY <2>1, <2>2
  <1>6. shutting' = FALSE /\ shutting' \in BOOLEAN
    BY <1>1 DEF IInv, Typed
  <1> QED  BY <1>1, <1>2, <1>3, <1>4, <1>5, <1>6, FinishStep

\* stop(), and the stop that a voice session asks for
LEMMA Stopping ==
  ASSUME IInv, Stoppable, StopAttempt, ask' = ask \/ ask' = None,
         UNCHANGED <<durable, opStep, dataUp, mainQ, process, retrievals, background>>
  PROVE  IInv'
  <1>1. /\ UNCHANGED <<rows, opStep, dataUp, up, loaded, shutting, failedOp, faults>>
        /\ UNCHANGED <<mainQ, retrievals, background>>
    BY DEF durable, process
  <1>2. /\ ~shutting /\ "stopped" \in Terminal /\ "stopped" \in States
        /\ shutting' = FALSE /\ shutting' \in BOOLEAN
    BY <1>1 DEF Stoppable, Terminal, States, IInv, Typed
  <1>3. ASSUME prep # None, prep' = None, active' = None, Show(prep, "stopped"),
               SetState("stopped"), Persist(prep, "stopped", 0), UNCHANGED contexts
        PROVE  IInv'
    <2>1. prep \in Attempts
      BY <1>3 DEF IInv, Typed
    <2>2. state' = "stopped" /\ state' \in States /\ lane' \in BOOLEAN
      BY <1>2, <1>3, StateSet
    <2> QED  BY <1>1, <1>2, <1>3, <2>1, <2>2, StopPreparingStep
  <1>4. ASSUME active # None, Awaiting(active), Terminalize(active, "stopped"),
               Ended(active, TRUE), UNCHANGED <<prep, active>>
        PROVE  IInv'
    <2>1. active \in Attempts
      BY <1>4 DEF IInv, Typed
    <2> QED  BY <1>1, <1>2, <1>4, <2>1, Finishes
  <1> QED  BY <1>3, <1>4 DEF StopAttempt

LEMMA StopStep ==
  ASSUME IInv, Stop \/ StopVoice
  PROVE  IInv'
  <1>1. CASE Stop
    BY <1>1, Stopping DEF Stop
  <1>2. CASE StopVoice
    <2>1. CASE Stoppable /\ StopAttempt
      BY <1>2, <2>1, Stopping DEF StopVoice
    <2>2. CASE /\ ~Stoppable /\ lane' = FALSE
               /\ UNCHANGED <<turns, state, prep, active, contexts, final, unsaved, writable, dataQ, soon>>
      <3>1. /\ UNCHANGED <<rows, opStep, dataUp, mainQ, up, loaded, shutting, failedOp, faults>>
            /\ UNCHANGED <<retrievals, background>> /\ ask' = None /\ background \in BOOLEAN
        BY <1>2 DEF StopVoice, durable, process, IInv, Typed
      <3> QED  BY <2>2, <3>1, LaneStep
    <2> QED  BY <1>2, <2>1, <2>2 DEF StopVoice
  <1> QED  BY <1>1, <1>2

LEMMA ShutdownStep ==
  ASSUME IInv, Shutdown
  PROVE  IInv'
  <1>1. /\ UNCHANGED <<rows, opStep, mainQ, up, loaded, failedOp, faults, background>>
        /\ shutting' = TRUE /\ dataUp' = FALSE /\ dataUp' \in BOOLEAN /\ shutting' \in BOOLEAN
        /\ ask' = None /\ retrievals' = {} /\ prep' = None /\ active' = None
        /\ state' = "idle" /\ state' \in States /\ lane' = FALSE /\ lane' \in BOOLEAN
        /\ up /\ ~shutting
    BY DEF Shutdown, durable, States
  <1>2. /\ contexts \subseteq ContextRecs /\ (\A c \in contexts : c.a = active /\ c.a # None)
        /\ \A c, d \in contexts : c = d
        /\ prep # None => contexts = {} /\ prep \in Attempts
        /\ active # None => active \in Attempts
    BY <1>1, AttemptParts DEF IInv, Typed, Attempting, ContextRecs
  <1>3. /\ contexts' \subseteq ContextRecs
        /\ \A c \in contexts' : c.terminal /\ \E d \in contexts : c.a = d.a
        /\ \A c, d \in contexts' : c = d
    <2>1. \A c \in ContextRecs :
            /\ [c EXCEPT !.terminal = TRUE, !.cancelled = TRUE] \in ContextRecs
            /\ [c EXCEPT !.terminal = TRUE, !.cancelled = TRUE].terminal
            /\ [c EXCEPT !.terminal = TRUE, !.cancelled = TRUE].a = c.a
      BY DEF ContextRecs
    <2>2. \/ contexts' = {}
          \/ contexts' = {[c EXCEPT !.terminal = TRUE, !.cancelled = TRUE] : c \in contexts}
      BY DEF Shutdown
    <2> QED  BY <1>2, <2>1, <2>2
  <1>4. CASE Stoppable /\ prep # None
    <2>1. Show(prep, "stopped") /\ Persist(prep, "stopped", turns[prep[1]].reply)
      BY <1>4 DEF Shutdown
    <2>2. turns[prep[1]].reply = 0
      BY <1>4 DEF IInv, Staging, Message
    <2>3. UNCHANGED contexts
      BY <1>2, <1>3, <1>4
    <2>4. Persist(prep, "stopped", 0)
      BY <2>1, <2>2
    <2> QED  BY <1>1, <1>2, <1>4, <2>1, <2>3, <2>4, StopPreparingStep
  <1>5. CASE Stoppable /\ prep = None
    <2>1. /\ active # None /\ Awaiting(active)
          /\ Show(active, "stopped") /\ Persist(active, "stopped", turns[active[1]].reply)
      BY <1>5 DEF Shutdown, Stoppable
    <2>2. (\E c \in contexts : c.a = active /\ ~c.terminal) /\ "stopped" \in Terminal
      BY <2>1 DEF Awaiting, Terminal
    <2>3. \A c \in contexts' : c.terminal /\ c.a = active
      BY <1>2, <1>3
    <2>4. /\ Posted' \subseteq Posted /\ mainQ' \in Seq(EventRecs) /\ LinedEvents(mainQ')
          /\ \A e \in Posted : e \in Posted' \/ e.ev \in WorkerSignals
      BY <1>1, SameQueues DEF IInv, Typed, Lined
    <2> QED  BY <1>1, <1>2, <1>3, <1>5, <2>1, <2>2, <2>3, <2>4, FinishStep
  <1>6. CASE ~Stoppable
    <2>1. UNCHANGED <<turns, final, unsaved, writable, dataQ, soon>>
      BY <1>6 DEF Shutdown
    <2>2. prep = None /\ \A c \in contexts : c.terminal
      BY <1>1, <1>2, <1>6 DEF Stoppable, Awaiting
    <2> QED  BY <1>1, <1>3, <2>1, <2>2, ShutdownIdleStep
  <1> QED  BY <1>4, <1>5, <1>6

LEMMA EndStep ==
  ASSUME IInv, Exit \/ Crash
  PROVE  IInv'
  <1>1. ProcessEnds /\ faults' \in 0..MaxFaults
    BY ConversationAssumption DEF Exit, Crash, IInv, Typed
  <1> QED  BY <1>1, ProcessEndsStep

----------------------------------------
(* The main thread. *)

\* What a signal leaves alone
LEMMA Received ==
  ASSUME IInv, NEW ev, Receive(ev)
  PROVE  /\ up /\ mainQ # <<>> /\ mainQ' = Tail(mainQ) /\ Head(mainQ).ev = ev
         /\ ev \in Startup \cup Signal /\ (ev \notin Startup => E \in Attempts)
  <1>1. up /\ mainQ # <<>> /\ mainQ' = Tail(mainQ) /\ Head(mainQ).ev = ev
    BY DEF Receive
  <1>2. EventTyped(Head(mainQ))
    BY <1>1, TakesEvent DEF EventTaken
  <1> QED  BY <1>1, <1>2 DEF EventTyped, E

LEMMA StartupSignals ==
  ASSUME IInv, OnLoaded \/ OnNotLoaded
  PROVE  IInv'
  <1>1. CASE OnLoaded
    <2>1. mainQ # <<>> /\ mainQ' = Tail(mainQ) /\ Head(mainQ).ev = "loaded"
      BY <1>1 DEF OnLoaded, Receive
    <2>2. /\ loaded' = TRUE /\ writable' = TRUE /\ turns' = IF shutting THEN turns ELSE rows
          /\ UNCHANGED <<rows, dataQ, opStep, dataUp, soon, up, shutting, failedOp, faults, state>>
          /\ UNCHANGED <<prep, active, contexts, final, unsaved, retrievals, lane, ask, background>>
      BY <1>1 DEF OnLoaded, InMain, Slots, durable
    <2> QED  BY <2>1, <2>2, LoadedStep
  <1>2. CASE OnNotLoaded
    <2>1. mainQ # <<>> /\ mainQ' = Tail(mainQ)
      BY <1>2 DEF OnNotLoaded, Receive
    <2>2. /\ UNCHANGED <<rows, dataQ, opStep, dataUp, soon, up, loaded, shutting, failedOp, faults>>
          /\ UNCHANGED <<writable, turns, state, prep, active, contexts, final, unsaved, retrievals>>
          /\ UNCHANGED <<lane, ask, background>>
      BY <1>2 DEF OnNotLoaded, InMain, Slots, durable
    <2> QED  BY <2>1, <2>2, DropEventStep
  <1> QED  BY <1>1, <1>2

LEMMA OnSeedStep ==
  ASSUME IInv, OnSeed
  PROVE  IInv'
  <1>1. mainQ # <<>> /\ mainQ' = Tail(mainQ) /\ Head(mainQ).ev = "seed"
    BY DEF OnSeed, Receive
  <1>2. /\ UNCHANGED <<rows, dataQ, opStep, dataUp, soon, up, loaded, shutting, failedOp, faults>>
        /\ UNCHANGED <<writable, turns, state, prep, active, contexts, final, unsaved>>
        /\ UNCHANGED <<lane, ask, background>>
    BY DEF OnSeed, InMain, Slots, durable
  <1>3. CASE shutting
    <2>1. UNCHANGED retrievals
      BY <1>3 DEF OnSeed
    <2> QED  BY <1>1, <1>2, <2>1, DropEventStep
  <1>4. CASE ~shutting
    <2>1. retrievals' = retrievals \cup {Head(mainQ).a}
      BY <1>4 DEF OnSeed, E
    <2> QED  BY <1>1, <1>2, <1>4, <2>1, SeedStep
  <1> QED  BY <1>3, <1>4

LEMMA RelayStep ==
  ASSUME IInv, Relay
  PROVE  IInv'
  <1>1. PICK ev \in {"assembled", "not_prepared", "finalized", "not_finalized"} :
          /\ Receive(ev) /\ Soon(Relayed[ev], E) /\ writable' = (writable /\ ev # "not_finalized")
          /\ UNCHANGED <<dataQ, loaded, turns, Slots, retrievals, lane>> /\ InMain
    BY DEF Relay, Relayed
  <1>2. mainQ # <<>> /\ mainQ' = Tail(mainQ) /\ Head(mainQ).ev = ev
    BY <1>1 DEF Receive
  <1>3. /\ UNCHANGED <<rows, dataQ, opStep, dataUp, up, loaded, shutting, failedOp, faults>>
        /\ UNCHANGED <<turns, state, prep, active, contexts, final, unsaved, retrievals>>
        /\ UNCHANGED <<lane, ask, background>>
    BY <1>1 DEF InMain, Slots, durable
  <1>4. soon' = Append(soon, Event(Relayed[ev], Head(mainQ).a))
    BY <1>1 DEF Soon, E
  <1>5. CASE ev \in {"assembled", "not_prepared"}
    <2>1. UNCHANGED writable
      BY <1>1, <1>5 DEF IInv, Typed
    <2>2. \/ ev = "assembled" /\ Relayed[ev] = "prepared"
          \/ ev = "not_prepared" /\ Relayed[ev] = "prepare_failed"
      BY <1>5 DEF Relayed
    <2> QED  BY <1>2, <1>3, <1>4, <2>1, <2>2, RelayPrepStep
  <1>6. CASE ev \in {"finalized", "not_finalized"}
    <2>1. writable' = (writable /\ Head(mainQ).ev # "not_finalized")
      BY <1>1, <1>2
    <2>2. \/ ev = "finalized" /\ Relayed[ev] = "final_ok"
          \/ ev = "not_finalized" /\ Relayed[ev] = "final_failed"
      BY <1>6 DEF Relayed
    <2> QED  BY <1>2, <1>3, <1>4, <2>1, <2>2, RelayFinalStep
  <1> QED  BY <1>1, <1>5, <1>6

LEMMA RetrievalEndsStep ==
  ASSUME IInv, NEW a \in Attempts, RetrievalEnds(a)
  PROVE  IInv'
  <1>1. dataUp /\ a \in retrievals
    BY DEF RetrievalEnds, IInv, Loading, Attempting
  <1>2. dataQ' = Append(dataQ, Op("assemble", a, "pending", 0)) /\ UNCHANGED soon
    BY <1>1 DEF RetrievalEnds
  <1>3. /\ retrievals' = retrievals \ {a}
        /\ UNCHANGED <<rows, opStep, dataUp, mainQ, up, loaded, shutting, failedOp, faults>>
        /\ UNCHANGED <<writable, turns, state, prep, active, contexts, final, unsaved>>
        /\ UNCHANGED <<lane, ask, background>>
    BY DEF RetrievalEnds, InMain, Slots, durable
  <1> QED  BY <1>1, <1>2, <1>3, RetrievalStep

\* A signal of the worker
LEMMA Signalled ==
  ASSUME InSignal
  PROVE  /\ UNCHANGED <<rows, opStep, dataUp, up, loaded, shutting, failedOp, faults>>
         /\ UNCHANGED <<prep, retrievals, ask, background>>
  BY DEF InSignal, InMain, durable

LEMMA SignalDropped ==
  ASSUME IInv, mainQ # <<>>, mainQ' = Tail(mainQ), SignalIgnored, UNCHANGED active, InSignal
  PROVE  IInv'
  <1>1. /\ UNCHANGED <<rows, opStep, dataUp, up, loaded, shutting, failedOp, faults>>
        /\ UNCHANGED <<prep, retrievals, ask, background>>
    BY Signalled
  <1>2. UNCHANGED <<turns, state, lane, contexts, final, unsaved, writable, dataQ, soon>>
    BY DEF SignalIgnored
  <1> QED  BY <1>1, <1>2, DropEventStep

LEMMA SignalEnds ==
  ASSUME IInv, NEW ev \in WorkerSignals, Receive(ev), Awaiting(E), NEW status \in Terminal,
         NEW cancel \in BOOLEAN, Outcome(status, cancel), UNCHANGED active, InSignal
  PROVE  IInv'
  <1>1. /\ mainQ # <<>> /\ mainQ' = Tail(mainQ) /\ Head(mainQ).ev \in WorkerSignals
        /\ E \in Attempts
    BY Received DEF Startup, WorkerSignals
  <1>2. /\ UNCHANGED <<rows, opStep, dataUp, up, loaded, shutting, failedOp, faults>>
        /\ UNCHANGED <<prep, retrievals, ask, background>>
    BY Signalled
  <1>3. active = E /\ Terminalize(E, status) /\ Ended(E, cancel)
    BY DEF Awaiting, Outcome
  <1> QED  BY <1>1, <1>2, <1>3, Finishes

LEMMA OutcomeSignals ==
  ASSUME IInv, OnCompleted \/ OnCancelled \/ OnFailed
  PROVE  IInv'
  <1>1. {"completed", "stopped", "failed"} \subseteq Terminal /\ {TRUE, FALSE} \subseteq BOOLEAN
        /\ {"completed", "cancelled", "failed"} \subseteq WorkerSignals
    BY DEF Terminal, WorkerSignals
  <1>2. PICK ev \in {"completed", "cancelled", "failed"} : Receive(ev)
    BY DEF OnCompleted, OnCancelled, OnFailed
  <1>3. UNCHANGED active /\ InSignal /\ mainQ # <<>> /\ mainQ' = Tail(mainQ)
    BY <1>2 DEF OnCompleted, OnCancelled, OnFailed, Receive
  <1>4. CASE Awaiting(E)
    <2>1. \E status \in Terminal : Outcome(status, FALSE)
      BY <1>1, <1>4 DEF OnCompleted, OnCancelled, OnFailed
    <2> QED  BY <1>1, <1>2, <1>3, <1>4, <2>1, SignalEnds
  <1>5. CASE ~Awaiting(E)
    BY <1>3, <1>5, SignalDropped DEF OnCompleted, OnCancelled, OnFailed
  <1> QED  BY <1>4, <1>5

LEMMA OnChunkStep ==
  ASSUME IInv, OnChunk
  PROVE  IInv'
  <1>1. /\ Receive("chunk") /\ mainQ # <<>> /\ mainQ' = Tail(mainQ) /\ "chunk" \in WorkerSignals
        /\ E \in Attempts /\ UNCHANGED active /\ InSignal
    BY Received DEF OnChunk, Startup, WorkerSignals
  <1>2. CASE ~Awaiting(E)
    BY <1>1, <1>2, SignalDropped DEF OnChunk
  <1>3. CASE Awaiting(E) /\ turns[E[1]].reply = MaxChunks
    <2>1. Outcome("failed", TRUE) /\ "failed" \in Terminal
      BY <1>3 DEF OnChunk, Terminal
    <2> QED  BY <1>1, <1>3, <2>1, SignalEnds
  <1>4. CASE Awaiting(E) /\ turns[E[1]].reply # MaxChunks
    <2>1. /\ turns' = [turns EXCEPT ![E[1]] = Message("streaming", E[2], @.reply + 1)]
          /\ SetState("streaming") /\ unsaved' = E
          /\ UNCHANGED <<contexts, final, writable, dataQ, soon>>
      BY <1>4 DEF OnChunk
    <2>2. state' = "streaming" /\ lane' \in BOOLEAN
      BY <2>1, StateSet DEF States, Visible
    <2>3. active = E /\ ~shutting /\ \E c \in contexts : c.a = E /\ ~c.terminal
      BY <1>4 DEF Awaiting
    <2>4. /\ UNCHANGED <<rows, opStep, dataUp, up, loaded, shutting, failedOp, faults>>
          /\ UNCHANGED <<prep, retrievals, ask, background>>
      BY <1>1, Signalled
    <2> QED  BY <1>1, <1>4, <2>1, <2>2, <2>3, <2>4, ChunkStep
  <1> QED  BY <1>2, <1>3, <1>4

LEMMA OnThreadFinishedStep ==
  ASSUME IInv, OnThreadFinished
  PROVE  IInv'
  <1>1. /\ mainQ # <<>> /\ mainQ' = Tail(mainQ) /\ Head(mainQ).ev = "finished"
        /\ E \in Attempts /\ E = Head(mainQ).a
    BY Received DEF OnThreadFinished, Startup, E
  <1>2. /\ UNCHANGED <<rows, opStep, dataUp, up, loaded, shutting, failedOp, faults>>
        /\ UNCHANGED <<prep, retrievals, ask, background>>
    BY Signalled DEF OnThreadFinished
  <1>3. /\ contexts' = {c \in contexts : c.a # E}
        /\ active' = IF active = E THEN None ELSE active
    BY DEF OnThreadFinished, Forgotten
  <1>4. CASE active = E /\ Awaiting(E)
    <2>1. /\ Show(E, "failed") /\ SetState("failed")
          /\ Persist(E, "failed", turns[E[1]].reply) /\ "failed" \in Terminal /\ "failed" \in States
      BY <1>4 DEF OnThreadFinished, Terminalize, Terminal, States
    <2>2. state' = "failed" /\ state' \in States /\ lane' \in BOOLEAN
      BY <2>1, StateSet
    <2>3. ~shutting /\ \E c \in contexts : c.a = E /\ ~c.terminal
      BY <1>4 DEF Awaiting
    <2>4. contexts' = {} /\ active' = None
      BY <1>3, <1>4, <2>3 DEF IInv, Attempting
    <2>5. /\ Posted' \subseteq Posted /\ mainQ' \in Seq(EventRecs) /\ LinedEvents(mainQ')
          /\ \A e \in Posted : e \in Posted' \/ e.ev \in WorkerSignals
      BY <1>1, TakesEvent DEF EventTaken, WorkerSignals
    <2>6. shutting' = FALSE /\ shutting' \in BOOLEAN
      BY <1>2, <2>3 DEF IInv, Typed
    <2> QED  BY <1>1, <1>2, <1>4, <2>1, <2>2, <2>3, <2>4, <2>5, <2>6, FinishStep
  <1>5. CASE ~(active = E /\ Awaiting(E))
    <2>1. UNCHANGED <<turns, final, unsaved, writable, dataQ, soon>>
      BY <1>5 DEF OnThreadFinished
    <2>2. ~(~shutting /\ active = E /\ \E c \in contexts : c.a = E /\ ~c.terminal)
      BY <1>5 DEF Awaiting
    <2>3. CASE active = E /\ final = None
      <3>1. SetState("idle") /\ "idle" \in States
        BY <1>5, <2>3 DEF OnThreadFinished, States
      <3>2. /\ state' = "idle" /\ lane' \in BOOLEAN
            /\ (state = "idle" => lane' = lane) /\ (state # "idle" => lane' = FALSE)
        BY <3>1, StateSet
      <3> QED  BY <1>1, <1>2, <1>3, <2>1, <2>2, <2>3, <3>2, ForgetStep
    <2>4. CASE ~(active = E /\ final = None)
      <3>1. UNCHANGED <<state, lane>> /\ lane' \in BOOLEAN
        BY <1>5, <2>4 DEF OnThreadFinished, IInv, Typed
      <3> QED  BY <1>1, <1>2, <1>3, <2>1, <2>2, <2>4, <3>1, ForgetStep
    <2> QED  BY <2>3, <2>4
  <1> QED  BY <1>4, <1>5

\* The timers of the request and of the checkpoint
LEMMA TimerStep ==
  ASSUME IInv, Timeout \/ CheckpointTimer
  PROVE  IInv'
  <1>1. CASE Timeout
    <2>1. /\ active \in Attempts /\ Awaiting(active) /\ Terminalize(active, "failed")
          /\ Ended(active, TRUE) /\ UNCHANGED <<mainQ, active>> /\ InSignal /\ "failed" \in Terminal
      BY <1>1 DEF Timeout, Terminal, IInv, Typed
    <2> QED  BY <2>1, Signalled, Finishes
  <1>2. CASE CheckpointTimer
    <2>1. unsaved # None /\ writable /\ dataUp /\ unsaved \in Attempts
      BY <1>2 DEF CheckpointTimer, IInv, Typed, Attempting, Loading
    <2>2. /\ dataQ' = Append(dataQ, Op("checkpoint", unsaved, "streaming", turns[unsaved[1]].reply))
          /\ UNCHANGED writable
      BY <1>2, <2>1 DEF CheckpointTimer, Flushed, IInv, Typed
    <2>3. /\ unsaved' = None
          /\ UNCHANGED <<mainQ, soon, turns, state, active, contexts, final, lane>> /\ InSignal
      BY <1>2 DEF CheckpointTimer
    <2>4. /\ UNCHANGED <<rows, opStep, dataUp, up, loaded, shutting, failedOp, faults>>
          /\ UNCHANGED <<prep, retrievals, ask, background>>
      BY <2>3, Signalled
    <2> QED  BY <2>1, <2>2, <2>3, <2>4, FlushStep
  <1> QED  BY <1>1, <1>2

\* A callback of singleShot(0)
LEMMA InCall ==
  ASSUME IInv, NEW ev, Called(ev), InCallback
  PROVE  /\ soon # <<>> /\ Head(soon).ev = ev /\ (ev # "idle" => C \in Attempts)
         /\ UNCHANGED <<rows, dataQ, opStep, dataUp, mainQ, up, loaded, shutting, failedOp, faults>>
         /\ UNCHANGED <<writable, unsaved, retrievals, ask, background>>
  <1>1. soon # <<>> /\ Head(soon).ev = ev
    BY DEF Called
  <1>2. CallTyped(Head(soon))
    BY <1>1, TakesCall DEF CallTaken
  <1> QED  BY <1>1, <1>2 DEF CallTyped, C, InCallback, InMain, durable

LEMMA CallDropped ==
  ASSUME IInv, NEW ev, Called(ev), CallbackIgnored, InCallback
  PROVE  IInv'
  <1>1. soon' = Tail(soon) /\ UNCHANGED <<turns, state, prep, active, contexts, final, lane>>
    BY DEF CallbackIgnored, NothingElse
  <1> QED  BY <1>1, InCall, IgnoreCallStep

LEMMA PreparationCalls ==
  ASSUME IInv, OnPrepared \/ OnPrepareFailed
  PROVE  IInv'
  <1>1. CASE OnPrepared
    <2>1. Called("prepared") /\ InCallback
      BY <1>1 DEF OnPrepared
    <2>2. CASE ~shutting /\ prep = C
      <3>1. /\ prep' = None /\ active' = C /\ contexts' = contexts \cup {Context(C)}
            /\ SetState("waiting") /\ soon' = Tail(soon) /\ UNCHANGED <<turns, final>>
        BY <1>1, <2>2 DEF OnPrepared, NothingElse
      <3>2. state' = "waiting" /\ lane' \in BOOLEAN
        BY <3>1, StateSet DEF States, Visible
      <3>3. C \in Attempts /\ Head(soon).a = C
        BY <2>1, InCall DEF C
      <3> QED  BY <2>1, <2>2, <3>1, <3>2, <3>3, InCall, PreparedStep
    <2>3. CASE ~(~shutting /\ prep = C)
      BY <1>1, <2>1, <2>3, CallDropped DEF OnPrepared
    <2> QED  BY <2>2, <2>3
  <1>2. CASE OnPrepareFailed
    <2>1. Called("prepare_failed") /\ InCallback
      BY <1>2 DEF OnPrepareFailed
    <2>2. CASE ~shutting /\ prep = C
      <3>1. /\ prep' = None /\ active' = None /\ Show(C, "failed")
            /\ SetState("failed") /\ ThenIdle /\ UNCHANGED <<contexts, final>>
        BY <1>2, <2>2 DEF OnPrepareFailed
      <3>2. state' = "failed" /\ lane' \in BOOLEAN
        BY <3>1, StateSet DEF States, Terminal
      <3>3. C \in Attempts /\ Head(soon).a = C
        BY <2>1, InCall DEF C
      <3> QED  BY <2>1, <2>2, <3>1, <3>2, <3>3, InCall, PrepareFailedStep
    <2>3. CASE ~(~shutting /\ prep = C)
      BY <1>2, <2>1, <2>3, CallDropped DEF OnPrepareFailed
    <2> QED  BY <2>2, <2>3
  <1> QED  BY <1>1, <1>2

LEMMA FinalizationCalls ==
  ASSUME IInv, OnFinalizationSucceeded \/ OnFinalizationFailed
  PROVE  IInv'
  <1>1. CASE OnFinalizationSucceeded
    <2>1. Called("final_ok") /\ InCallback
      BY <1>1 DEF OnFinalizationSucceeded
    <2>2. CASE final = C
      <3>1. /\ final' = None /\ (NothingElse \/ ThenIdle)
            /\ UNCHANGED <<turns, state, prep, active, contexts, lane>>
        BY <1>1, <2>2 DEF OnFinalizationSucceeded
      <3>2. C \in Attempts /\ Head(soon).a = C
        BY <2>1, InCall DEF C
      <3> QED  BY <2>1, <2>2, <3>1, <3>2, InCall, FinOKStep
    <2>3. CASE final # C
      BY <1>1, <2>1, <2>3, CallDropped DEF OnFinalizationSucceeded
    <2> QED  BY <2>2, <2>3
  <1>2. CASE OnFinalizationFailed
    <2>1. Called("final_failed") /\ InCallback
      BY <1>2 DEF OnFinalizationFailed
    <2>2. CASE final = C
      <3>1. /\ final' = None /\ (NothingElse \/ ThenIdle)
            /\ UNCHANGED <<prep, active, contexts>>
        BY <1>2, <2>2 DEF OnFinalizationFailed
      <3>2. turns' = IF shutting THEN turns
                     ELSE [turns EXCEPT ![C[1]] = Message("failed", C[2], @.reply)]
        BY <1>2, <2>2 DEF OnFinalizationFailed, Show
      <3>3. shutting => UNCHANGED <<state, lane>>
        BY <1>2, <2>2 DEF OnFinalizationFailed
      <3>4. ~shutting => state' = "failed" /\ lane' \in BOOLEAN
        BY <1>2, <2>2, StateSet DEF OnFinalizationFailed, States, Terminal
      <3>5. C \in Attempts /\ Head(soon).a = C
        BY <2>1, InCall DEF C
      <3> QED  BY <2>1, <2>2, <3>1, <3>2, <3>3, <3>4, <3>5, InCall, FinFailedStep
    <2>3. CASE final # C
      BY <1>2, <2>1, <2>3, CallDropped DEF OnFinalizationFailed
    <2> QED  BY <2>2, <2>3
  <1> QED  BY <1>1, <1>2

LEMMA ReturnToIdleStep ==
  ASSUME IInv, ReturnToIdleIfInactive
  PROVE  IInv'
  <1>1. /\ Called("idle") /\ InCallback /\ soon' = Tail(soon)
        /\ UNCHANGED <<turns, prep, active, contexts, final>>
    BY DEF ReturnToIdleIfInactive, NothingElse
  <1>2. CASE ~Busy
    <2>1. SetState("idle") /\ "idle" \in States
      BY <1>2 DEF ReturnToIdleIfInactive, States
    <2>2. /\ state' = "idle" /\ lane' \in BOOLEAN
          /\ (state = "idle" => lane' = lane) /\ (state # "idle" => lane' = FALSE)
      BY <2>1, StateSet
    <2> QED  BY <1>1, <1>2, <2>2, InCall, IdleCallStep
  <1>3. CASE Busy
    <2>1. UNCHANGED <<state, lane>>
      BY <1>3 DEF ReturnToIdleIfInactive
    <2> QED  BY <1>1, <2>1, InCall, IgnoreCallStep
  <1> QED  BY <1>2, <1>3

----------------------------------------
(* The data thread and the worker. *)

\* What an operation leaves alone
LEMMA Operating ==
  ASSUME InOperation
  PROVE  /\ UNCHANGED <<dataUp, soon, up, loaded, shutting, writable, turns, state, prep>>
         /\ UNCHANGED <<active, contexts, final, unsaved, retrievals, lane, ask, background>>
  BY DEF InOperation, coord, control

LEMMA DoInitAction ==
  ASSUME IInv, DoInit
  PROVE  IInv'
  <1>1. dataQ # <<>> /\ Head(dataQ).op = "init" /\ Head(dataQ).a = None
    BY FirstOp DEF DoInit, Executing, OpFirst, OpTyped
  <1>2. /\ dataQ' = Tail(dataQ) /\ opStep' = "start"
        /\ mainQ' = Append(mainQ, Event("loaded", None)) /\ "loaded" \in Startup
    BY <1>1 DEF DoInit, Answer, A, Startup
  <1>3. /\ UNCHANGED <<failedOp, faults>> /\ InOperation
        /\ failedOp' \in BOOLEAN /\ faults' \in 0..MaxFaults
        /\ rows' = [t \in Turns |-> IF rows[t].status \in {"pending", "streaming"}
                                    THEN [rows[t] EXCEPT !.status = "stopped"] ELSE rows[t]]
    BY DEF DoInit, IInv, Typed
  <1> QED  BY <1>1, <1>2, <1>3, Operating, DoInitStep

LEMMA StageOneAction ==
  ASSUME IInv, DoStageOne
  PROVE  IInv'
  <1>1. /\ dataQ # <<>> /\ Head(dataQ).op \in Begin /\ Head(dataQ) \in Queued
        /\ A \in Attempts /\ Head(dataQ).a = A
    BY FirstOp DEF DoStageOne, Executing, Begin, OpFirst, OpTyped, A
  <1>2. UNCHANGED <<failedOp, faults>> /\ InOperation
    BY DEF DoStageOne
  <1>3. CASE BeginAttempt
    <2>1. /\ opStep = "start" /\ opStep' = "written" /\ UNCHANGED <<dataQ, mainQ>>
          /\ rows' = [rows EXCEPT ![A[1]] = Message("pending", A[2], 0)]
      BY <1>3 DEF BeginAttempt, Wrote, WriteRow
    <2> QED  BY <1>1, <1>2, <2>1, Operating, BeginWriteStep
  <1>4. CASE opStep = "start" /\ Row.attempt >= A[2]
    <2>1. rows[A[1]].attempt < A[2]
      BY <1>1, <1>4 DEF IInv, Beginning, Written
    <2>2. A[1] \in Turns /\ A[2] \in Nat
      BY <1>1, AttemptParts
    <2>3. rows[A[1]].attempt \in Nat
      BY <2>2 DEF IInv, Typed, Messages
    <2> QED  BY <1>4, <2>1, <2>2, <2>3 DEF Row
  <1>5. CASE opStep = "written" /\ Answer("seed") /\ UNCHANGED rows
    <2>1. /\ dataQ' = Tail(dataQ) /\ opStep' = "start"
          /\ mainQ' = Append(mainQ, Event("seed", A))
      BY <1>5 DEF Answer
    <2> QED  BY <1>1, <1>2, <1>5, <2>1, Operating, BeginAnswerStep
  <1> QED  BY <1>3, <1>4, <1>5 DEF DoStageOne

LEMMA StageTwoAction ==
  ASSUME IInv, DoStageTwo
  PROVE  IInv'
  <1>1. /\ dataQ # <<>> /\ Head(dataQ).op = "assemble" /\ A \in Attempts /\ Head(dataQ).a = A
    BY FirstOp DEF DoStageTwo, Executing, OpFirst, OpTyped, A
  <1>2. /\ dataQ' = Tail(dataQ) /\ opStep' = "start"
        /\ mainQ' = Append(mainQ, Event("assembled", A))
        /\ UNCHANGED <<rows, failedOp, faults>> /\ InOperation
    BY DEF DoStageTwo, Answer
  <1> QED  BY <1>1, <1>2, Operating, AssembleAnswerStep

LEMMA DoCheckpointAction ==
  ASSUME IInv, DoCheckpoint
  PROVE  IInv'
  <1>1. /\ dataQ # <<>> /\ Head(dataQ).op = "checkpoint" /\ A \in Attempts /\ Head(dataQ).a = A
    BY FirstOp DEF DoCheckpoint, Executing, OpFirst, OpTyped, A
  <1>2. /\ dataQ' = Tail(dataQ) /\ opStep' = "start" /\ UNCHANGED <<mainQ, failedOp, faults>>
        /\ failedOp' \in BOOLEAN /\ faults' \in 0..MaxFaults /\ InOperation
    BY DEF DoCheckpoint, IInv, Typed
  <1>3. CASE Row.attempt = A[2] /\ Row.status \in {"pending", "streaming"}
    <2>1. /\ rows[A[1]].attempt = A[2] /\ rows[A[1]].status \in Open
          /\ rows' = [rows EXCEPT ![A[1]] = Message("streaming", A[2], Head(dataQ).reply)]
      BY <1>3 DEF DoCheckpoint, Row, WriteRow, Open
    <2> QED  BY <1>1, <1>2, <2>1, Operating, CheckpointWritesStep
  <1>4. CASE ~(Row.attempt = A[2] /\ Row.status \in {"pending", "streaming"})
    <2>1. UNCHANGED rows
      BY <1>4 DEF DoCheckpoint
    <2> QED  BY <1>1, <1>2, <2>1, Operating, CheckpointStep
  <1> QED  BY <1>3, <1>4

LEMMA DoFinalizeAction ==
  ASSUME IInv, DoFinalize
  PROVE  IInv'
  <1>1. /\ dataQ # <<>> /\ Head(dataQ).op = "finalize" /\ A \in Attempts /\ Head(dataQ).a = A
    BY FirstOp DEF DoFinalize, Executing, OpFirst, OpTyped, A
  <1>2. /\ UNCHANGED <<failedOp, faults>> /\ InOperation
        /\ failedOp' \in BOOLEAN /\ faults' \in 0..MaxFaults
    BY DEF DoFinalize, IInv, Typed
  <1>3. CASE /\ opStep = "start" /\ Row.attempt = A[2]
             /\ Wrote /\ WriteRow(Message(Head(dataQ).status, A[2], Head(dataQ).reply))
    <2>1. /\ opStep' = "written" /\ UNCHANGED <<dataQ, mainQ>> /\ rows[A[1]].attempt = A[2]
          /\ rows' = [rows EXCEPT ![A[1]] = Message(Head(dataQ).status, A[2], Head(dataQ).reply)]
      BY <1>3 DEF Row, Wrote, WriteRow
    <2> QED  BY <1>1, <1>2, <2>1, Operating, FinalWriteStep
  <1>4. CASE opStep = "start" /\ Row.attempt # A[2] /\ Answer("not_finalized") /\ UNCHANGED rows
    <2>1. /\ dataQ' = Tail(dataQ) /\ opStep' = "start" /\ rows[A[1]].attempt # A[2]
          /\ mainQ' = Append(mainQ, Event("not_finalized", A))
      BY <1>4 DEF Answer, Row
    <2> QED  BY <1>1, <1>2, <1>4, <2>1, Operating, FinalRefusedStep
  <1>5. CASE opStep = "written" /\ Answer("finalized") /\ UNCHANGED rows
    <2>1. /\ dataQ' = Tail(dataQ) /\ opStep' = "start"
          /\ mainQ' = Append(mainQ, Event("finalized", A))
      BY <1>5 DEF Answer
    <2> QED  BY <1>1, <1>2, <1>5, <2>1, Operating, FinalAnswerStep
  <1> QED  BY <1>3, <1>4, <1>5 DEF DoFinalize

LEMMA DataFaultAction ==
  ASSUME IInv, DataFault
  PROVE  IInv'
  <1> DEFINE op == Head(dataQ).op
  <1>1. /\ dataQ # <<>> /\ op \in Begin \cup {"init", "assemble", "checkpoint", "finalize"}
        /\ op = "init" => A = None
        /\ op # "init" => A \in Attempts
    BY FirstOp DEF DataFault, OpFirst, OpTyped, A
  <1>2. /\ failedOp' = TRUE /\ failedOp' \in BOOLEAN /\ faults' \in 0..MaxFaults /\ InOperation
    BY ConversationAssumption DEF DataFault, IInv, Typed
  <1>3. dataQ' = Tail(dataQ) /\ opStep' = "start"
    BY DEF DataFault, Answer
  <1>4. op # "checkpoint" => mainQ' = Append(mainQ, Event(FailureOf[op], A))
    BY DEF DataFault, Answer, Executing
  <1>5. op = "checkpoint" => UNCHANGED mainQ
    BY <1>1 DEF DataFault, Executing
  <1>6. op # "assemble" => UNCHANGED rows
    BY DEF DataFault, Executing
  <1>7. CASE op = "init"
    <2>1. mainQ' = Append(mainQ, Event("not_loaded", None)) /\ UNCHANGED rows
          /\ "not_loaded" \in Startup
      BY <1>1, <1>4, <1>6, <1>7 DEF FailureOf, Startup
    <2> QED  BY <1>1, <1>2, <1>3, <1>7, <2>1, Operating, DoInitStep
  <1>8. CASE op \in Begin
    <2>1. mainQ' = Append(mainQ, Event("not_prepared", A)) /\ UNCHANGED rows /\ A \in Attempts
      BY <1>1, <1>4, <1>6, <1>8 DEF FailureOf, Begin
    <2> QED  BY <1>1, <1>2, <1>3, <1>8, <2>1, Operating, BeginFaultStep DEF A
  <1>9. CASE op = "assemble"
    <2>1. mainQ' = Append(mainQ, Event("not_prepared", A)) /\ A \in Attempts
      BY <1>1, <1>4, <1>9 DEF FailureOf
    <2>2. CASE UNCHANGED rows
      BY <1>1, <1>2, <1>3, <1>9, <2>1, <2>2, Operating, AssembleFaultStep DEF A
    <2>3. CASE ~UNCHANGED rows
      <3>1. /\ rows[A[1]].attempt = A[2]
            /\ rows' = [rows EXCEPT ![A[1]] = Message("failed", A[2], 0)]
        BY <2>3 DEF DataFault, Row, WriteRow
      <3> QED  BY <1>1, <1>2, <1>3, <1>9, <2>1, <3>1, Operating, AssembleMarksStep
                  DEF A
    <2> QED  BY <2>2, <2>3
  <1>10. CASE op = "checkpoint"
    BY <1>1, <1>2, <1>3, <1>5, <1>6, <1>10, Operating, CheckpointStep DEF A
  <1>11. CASE op = "finalize"
    <2>1. mainQ' = Append(mainQ, Event("not_finalized", A)) /\ UNCHANGED rows /\ A \in Attempts
      BY <1>1, <1>4, <1>6, <1>11 DEF FailureOf
    <2> QED  BY <1>1, <1>2, <1>3, <1>11, <2>1, Operating, FinalRefusedStep DEF A
  <1> QED  BY <1>1, <1>7, <1>8, <1>9, <1>10, <1>11

LEMMA WorkerAction ==
  ASSUME IInv, NEW c \in contexts,
         WorkerChunk(c) \/ WorkerReports(c) \/ WorkerDies(c) \/ ThreadStops(c)
  PROVE  IInv'
  <1>1. /\ c \in ContextRecs /\ c.sent \in Nat
        /\ \A k \in 0..(MaxChunks + 1) : [c EXCEPT !.sent = k] \in ContextRecs
        /\ \A k : /\ [c EXCEPT !.sent = k].a = c.a
                  /\ [c EXCEPT !.sent = k].terminal = c.terminal
    BY DEF IInv, Typed, ContextRecs
  <1>2. \A k \in {"ending", "stopped"} :
          /\ [c EXCEPT !.thread = k] \in ContextRecs
          /\ [c EXCEPT !.thread = k].a = c.a
          /\ [c EXCEPT !.thread = k].terminal = c.terminal
    <2>1. c \in ContextRecs
      BY <1>1
    <2> QED  BY <2>1 DEF ContextRecs
  <1>3. /\ UNCHANGED <<rows, dataQ, opStep, dataUp, soon, up, loaded, shutting, failedOp, faults>>
        /\ UNCHANGED <<writable, turns, state, prep, active, final, unsaved, retrievals>>
        /\ UNCHANGED <<lane, ask, background>>
    BY DEF WorkerChunk, WorkerReports, WorkerDies, ThreadStops, WorkerDoes, InWorker,
       durable, process, control
  <1>4. ASSUME NEW next \in ContextRecs, next.a = c.a, next.terminal = c.terminal,
               NEW ev \in WorkerSignals, WorkerDoes(c, next, ev)
        PROVE  IInv'
    <2>1. /\ contexts' = (contexts \ {c}) \cup {next}
          /\ mainQ' = Append(mainQ, Event(ev, c.a))
      BY <1>4 DEF WorkerDoes
    <2> QED  BY <1>3, <1>4, <2>1, ReportsStep
  <1>5. CASE WorkerChunk(c)
    <2>1. c.sent + 1 \in 0..(MaxChunks + 1) /\ "chunk" \in WorkerSignals
      BY <1>1, <1>5, ConversationAssumption DEF WorkerChunk, WorkerSignals
    <2>2. WorkerDoes(c, [c EXCEPT !.sent = c.sent + 1], "chunk")
      BY <1>5 DEF WorkerChunk
    <2> QED  BY <1>1, <1>4, <2>1, <2>2
  <1>6. CASE WorkerReports(c)
    <2>1. \E ev \in WorkerSignals : WorkerDoes(c, [c EXCEPT !.thread = "ending"], ev)
      BY <1>6 DEF WorkerReports, WorkerSignals
    <2> QED  BY <1>2, <1>4, <2>1
  <1>7. CASE WorkerDies(c)
    <2>1. contexts' = (contexts \ {c}) \cup {[c EXCEPT !.thread = "ending"]} /\ UNCHANGED mainQ
      BY <1>7 DEF WorkerDies
    <2> QED  BY <1>2, <1>3, <2>1, WorkerStep
  <1>8. CASE ThreadStops(c)
    <2>1. WorkerDoes(c, [c EXCEPT !.thread = "stopped"], "finished") /\ "finished" \in WorkerSignals
      BY <1>8 DEF ThreadStops, WorkerSignals
    <2> QED  BY <1>2, <1>4, <2>1
  <1> QED  BY <1>5, <1>6, <1>7, <1>8

----------------------------------------
(* The theorems. *)

LEMMA InitiallyIInv == Init => IInv
  <1> SUFFICES ASSUME Init
               PROVE  IInv
    OBVIOUS
  <1>1. /\ Queued = {} /\ Posted = {} /\ Deferred = {}
        /\ LinedOps(dataQ) /\ LinedEvents(mainQ) /\ LinedCalls(soon)
    BY EmptyQueue
       DEF Init, Queued, Posted, Deferred, LinedOps, LinedEvents, LinedCalls
  <1>2. /\ rows = [t \in Turns |-> Absent] /\ turns = rows /\ Absent \in Messages
        /\ Absent.status = "absent" /\ Absent.attempt = 0
    BY ConversationAssumption DEF Init, Absent, Messages, Statuses
  <1>3. /\ dataQ = <<>> /\ mainQ = <<>> /\ soon = <<>> /\ opStep = "start" /\ up = FALSE
        /\ loaded = FALSE /\ writable = FALSE /\ shutting = FALSE /\ dataUp = FALSE
        /\ state = "idle" /\ prep = None /\ active = None /\ contexts = {} /\ final = None
        /\ unsaved = None /\ retrievals = {} /\ lane = FALSE /\ ask = None
        /\ background = FALSE /\ failedOp = FALSE /\ faults = 0
    BY DEF Init
  <1>4. Typed
    <2>1. rows \in [Turns -> Messages] /\ turns \in [Turns -> Messages]
      BY <1>2
    <2>2. dataQ \in Seq(OpRecs) /\ mainQ \in Seq(EventRecs) /\ soon \in Seq(CallRecs)
      BY <1>3
    <2>3. faults \in 0..MaxFaults /\ state \in States
      BY <1>3, ConversationAssumption DEF States
    <2> QED  BY <1>3, <2>1, <2>2, <2>3 DEF Typed
  <1>5. Loading
    BY <1>1, <1>2, <1>3 DEF Loading
  <1>6. Numbered
    BY <1>1, <1>2, <1>3 DEF Numbered, Known, Latest
  <1>7. Lined /\ Preparing /\ Finalizing /\ NotAsked
    BY <1>1, <1>3 DEF Lined, Preparing, Finalizing, NotAsked, InPreparation
  <1>8. Attempting
    BY <1>1, <1>3 DEF Attempting, IdleIsQuiet, LaneIsReleased, Busy
  <1>9. Stepping /\ Beginning /\ Finishing /\ Staging /\ Asking
    BY <1>1, <1>3 DEF Stepping, Beginning, Finishing, Staging, Asking
  <1>10. Showing /\ Saving /\ Faultless
    BY <1>1, <1>3 DEF Showing, Saving, CompletedIsSaved, Faultless
  <1> QED  BY <1>4, <1>5, <1>6, <1>7, <1>8, <1>9, <1>10 DEF IInv

LEMMA Unchanged ==
  ASSUME IInv, UNCHANGED vars
  PROVE  IInv'
  <1>1. /\ UNCHANGED <<rows, dataQ, opStep, dataUp, mainQ, soon, up, loaded, shutting>>
        /\ UNCHANGED <<failedOp, faults, writable, turns, state, prep, active, contexts>>
        /\ UNCHANGED <<final, unsaved, retrievals, lane, ask, background>>
    BY DEF vars, queues, process, coord, control
  <1> QED  BY <1>1, LaneStep DEF IInv, Typed, Attempting, LaneIsReleased, Loading

\* One case for every action.
LEMMA IInvStep == IInv /\ [Next]_vars => IInv'
  <1> SUFFICES ASSUME IInv, [Next]_vars
               PROVE  IInv'
    OBVIOUS
  <1>1. CASE Start
    BY <1>1, StartStep
  <1>2. CASE Shutdown
    BY <1>2, ShutdownStep
  <1>3. CASE Exit \/ Crash
    BY <1>3, EndStep
  <1>4. CASE \E kind \in {"send", "retry"}, t \in Turns : Ask(kind, t)
    BY <1>4, AskStep DEF Begin
  <1>5. CASE BackgroundStarts \/ BackgroundEnds
    BY <1>5, LaneActions
  <1>6. CASE Stop \/ StopVoice
    BY <1>6, StopStep
  <1>7. CASE Signals
    <2>1. CASE OnLoaded \/ OnNotLoaded
      BY <2>1, StartupSignals
    <2>2. CASE OnSeed
      BY <2>2, OnSeedStep
    <2>3. CASE Relay
      BY <2>3, RelayStep
    <2>4. CASE OnChunk
      BY <2>4, OnChunkStep
    <2>5. CASE OnCompleted \/ OnCancelled \/ OnFailed
      BY <2>5, OutcomeSignals
    <2>6. CASE OnThreadFinished
      BY <2>6, OnThreadFinishedStep
    <2> QED  BY <1>7, <2>1, <2>2, <2>3, <2>4, <2>5, <2>6 DEF Signals
  <1>8. CASE Callbacks
    <2>1. CASE OnPrepared \/ OnPrepareFailed
      BY <2>1, PreparationCalls
    <2>2. CASE OnFinalizationSucceeded \/ OnFinalizationFailed
      BY <2>2, FinalizationCalls
    <2>3. CASE ReturnToIdleIfInactive
      BY <2>3, ReturnToIdleStep
    <2> QED  BY <1>8, <2>1, <2>2, <2>3 DEF Callbacks
  <1>9. CASE DataThread
    <2>1. CASE DoInit
      BY <2>1, DoInitAction
    <2>2. CASE DoStageOne
      BY <2>2, StageOneAction
    <2>3. CASE DoStageTwo
      BY <2>3, StageTwoAction
    <2>4. CASE DoCheckpoint
      BY <2>4, DoCheckpointAction
    <2>5. CASE DoFinalize
      BY <2>5, DoFinalizeAction
    <2> QED  BY <1>9, <2>1, <2>2, <2>3, <2>4, <2>5 DEF DataThread
  <1>10. CASE DataFault
    BY <1>10, DataFaultAction
  <1>11. CASE Timers
    BY <1>11, TimerStep, LaneActions DEF Timers
  <1>12. CASE \E a \in Attempts : RetrievalEnds(a)
    BY <1>12, RetrievalEndsStep
  <1>13. CASE \E c \in contexts :
                WorkerChunk(c) \/ WorkerReports(c) \/ WorkerDies(c) \/ ThreadStops(c)
    BY <1>13, WorkerAction
  <1>14. CASE UNCHANGED vars
    BY <1>14, Unchanged
  <1> QED  BY <1>1, <1>2, <1>3, <1>4, <1>5, <1>6, <1>7, <1>8, <1>9, <1>10, <1>11,
              <1>12, <1>13, <1>14
              DEF Next

(* In every state the slots, the queues, the rows and what is shown agree as   *)
(* IInv says, whatever the user, the provider, the data thread, crashes and     *)
(* faults do.                                                               *)
THEOREM Invariance == Spec => []IInv
  <1>1. Init => IInv
    BY InitiallyIInv
  <1>2. IInv /\ [Next]_vars => IInv'
    BY IInvStep
  <1> QED  BY <1>1, <1>2, PTL DEF Spec

LEMMA IsTyped == IInv => TypeOK
  <1> SUFFICES ASSUME IInv
               PROVE  TypeOK
    OBVIOUS
  <1>1. /\ \A i \in DOMAIN dataQ : dataQ[i].a \in Attempts \cup {None}
        /\ \A i \in DOMAIN mainQ : mainQ[i].a \in Attempts \cup {None}
        /\ \A i \in DOMAIN soon : soon[i].a \in Attempts \cup {None}
    <2>1. /\ \A i \in DOMAIN dataQ : dataQ[i] \in Queued
          /\ \A i \in DOMAIN mainQ : mainQ[i] \in Posted
          /\ \A i \in DOMAIN soon : soon[i] \in Deferred
      BY DEF Queued, Posted, Deferred, Elements
    <2> QED  BY <2>1, AllTyped DEF OpTyped, EventTyped, CallTyped
  <1>2. contexts \subseteq [a : Attempts, terminal : BOOLEAN, cancelled : BOOLEAN,
                            sent : 0..MaxChunks + 1, thread : {"running", "ending", "stopped"}]
    BY DEF IInv, Typed, ContextRecs
  <1> QED  BY <1>1, <1>2 DEF IInv, Typed, TypeOK, Begin

(* The slots of the coordinator, the queues between its threads and the rows   *)
(* hold values of their types.                                              *)
THEOREM TypeCorrect == Spec => []TypeOK
  BY Invariance, IsTyped, PTL

LEMMA IsExclusive == IInv => RequestsAreExclusive
  <1> SUFFICES ASSUME IInv
               PROVE  RequestsAreExclusive
    OBVIOUS
  <1> DEFINE running == {c \in contexts : c.thread = "running"}
  <1>1. running = {} \/ \E c : running = {c}
    BY DEF IInv, Attempting
  <1>2. Cardinality(running) <= 1
    <2>1. CASE running = {}
      BY <2>1, FS_EmptySet
    <2>2. CASE \E c : running = {c}
      <3>1. PICK c : running = {c}
        BY <2>2
      <3>2. Cardinality({c}) = 1
        BY FS_Singleton
      <3> QED  BY <3>1, <3>2
    <2> QED  BY <1>1, <2>1, <2>2
  <1>3. IdleIsQuiet /\ LaneIsReleased
    BY DEF IInv, Attempting
  <1> QED  BY <1>2, <1>3 DEF RequestsAreExclusive, OneRequestRuns

(* One worker at most asks the provider.  When the conversation is idle, no     *)
(* preparation, request or finalization of it is left, and the lane is free for *)
(* the background coordinators.                                             *)
THEOREM RequestsExclusive == Spec => []RequestsAreExclusive
  BY Invariance, IsExclusive, PTL

LEMMA IsDurable == IInv => TurnsAreDurable
  <1> SUFFICES ASSUME IInv
               PROVE  TurnsAreDurable
    OBVIOUS
  <1>1. RequestIsDurable
    BY DEF IInv, Asking, Open, RequestIsDurable
  <1>2. CompletedIsSaved
    BY DEF IInv, Saving
  <1>3. ASSUME up, loaded, ~shutting, ~failedOp, state = "idle"
        PROVE  turns = rows
    <2>1. prep = None /\ active = None /\ final = None
      BY <1>3 DEF IInv, Attempting, IdleIsQuiet, Busy
    <2>2. contexts = {}
      BY <1>3, <2>1, AttemptParts DEF IInv, Typed, Attempting, ContextRecs
    <2>3. \A t \in Turns : turns[t] = rows[t]
      BY <1>3, <2>1, <2>2 DEF IInv, Faultless, InFlight
    <2> QED  BY <2>3 DEF IInv, Typed
  <1> QED  BY <1>1, <1>2, <1>3 DEF TurnsAreDurable, ReplyIsDurable

(* The attempt a worker asks for has its open row, a reply shown as completed is *)
(* stored as it is shown, and at rest the screen shows what the store holds     *)
(* unless a data operation failed.                                          *)
THEOREM TurnsDurable == Spec => []TurnsAreDurable
  BY Invariance, IsDurable, PTL

LEMMA CompletedStays ==
  ASSUME IInv, [Next]_vars, NEW t \in Turns, rows[t].status = "completed"
  PROVE  rows'[t] = rows[t]
  <1>1. rows \in [Turns -> Messages]
    BY DEF IInv, Typed
  <1>2. CASE DoInit
    BY <1>1, <1>2 DEF DoInit
  <1>3. CASE DoStageOne
    <2>1. /\ dataQ # <<>> /\ Head(dataQ) \in Queued /\ Head(dataQ).op \in Begin
          /\ A \in Attempts /\ A[1] \in Turns
      BY <1>3, FirstOp, AttemptParts
         DEF DoStageOne, Executing, OpFirst, OpTyped, A, Begin
    <2>2. CASE BeginAttempt
      <3>1. opStep = "start" /\ rows' = [rows EXCEPT ![A[1]] = Message("pending", A[2], 0)]
        BY <2>2 DEF BeginAttempt, WriteRow
      <3>2. rows[A[1]].status # "completed"
        BY <2>1, <3>1 DEF IInv, Beginning, Written, A
      <3> QED  BY <1>1, <2>1, <3>1, <3>2
    <2>3. CASE UNCHANGED rows
      BY <2>3
    <2> QED  BY <1>3, <2>2, <2>3 DEF DoStageOne
  <1>4. CASE DoCheckpoint
    BY <1>1, <1>4 DEF DoCheckpoint, WriteRow, Row
  <1>5. CASE DoFinalize
    <2>1. /\ dataQ # <<>> /\ Head(dataQ) \in Queued /\ Head(dataQ).op = "finalize"
          /\ A \in Attempts /\ A[1] \in Turns /\ A = <<A[1], A[2]>>
      BY <1>5, FirstOp, AttemptParts DEF DoFinalize, Executing, OpFirst, OpTyped, A
    <2>2. CASE opStep = "start"
      <3>1. rows[A[1]].status # "completed"
        BY <2>1, <2>2 DEF IInv, Finishing, Written, A
      <3> QED  BY <1>1, <1>5, <2>2, <3>1 DEF DoFinalize, WriteRow
    <2>3. CASE opStep # "start"
      BY <1>5, <2>3 DEF DoFinalize
    <2> QED  BY <2>2, <2>3
  <1>6. CASE DataFault
    <2>1. CASE UNCHANGED rows
      BY <2>1
    <2>2. CASE Executing("assemble") /\ Row.attempt = A[2] /\ WriteRow(Message("failed", A[2], 0))
      <3>1. /\ dataQ # <<>> /\ Head(dataQ) \in Queued /\ A \in Attempts /\ A[1] \in Turns
            /\ Head(dataQ) \in PrepOps(A)
        BY <2>2, FirstOp, AttemptParts DEF Executing, OpFirst, OpTyped, A, PrepOps
      <3>2. rows[A[1]].attempt = A[2] /\ rows' = [rows EXCEPT ![A[1]] = Message("failed", A[2], 0)]
        BY <2>2 DEF Row, WriteRow
      <3>3. rows[A[1]].status # "completed"
        BY <3>1, <3>2 DEF IInv, NotAsked, InPreparation
      <3> QED  BY <1>1, <3>1, <3>2, <3>3
    <2> QED  BY <1>6, <2>1, <2>2 DEF DataFault
  <1>7. CASE UNCHANGED rows
    BY <1>7
  <1>8. DoInit \/ DoStageOne \/ DoCheckpoint \/ DoFinalize \/ DataFault \/ UNCHANGED rows
    <2>1. CASE Start \/ Shutdown \/ Exit \/ Crash
      BY <2>1 DEF Start, Shutdown, Exit, Crash, ProcessEnds, durable
    <2>2. CASE \/ \E kind \in {"send", "retry"}, u \in Turns : Ask(kind, u)
               \/ BackgroundStarts \/ BackgroundEnds \/ Stop \/ StopVoice \/ LaneTimeout
      BY <2>2
         DEF Ask, BackgroundStarts, BackgroundEnds, Stop, StopVoice, LaneTimeout,
             InController, durable
    <2>3. CASE Signals
      BY <2>3
         DEF Signals, OnLoaded, OnNotLoaded, OnSeed, Relay, OnChunk, OnCompleted,
             OnCancelled, OnFailed, OnThreadFinished, InSignal, InMain, durable
    <2>4. CASE Callbacks
      BY <2>4
         DEF Callbacks, OnPrepared, OnPrepareFailed, OnFinalizationSucceeded,
             OnFinalizationFailed, ReturnToIdleIfInactive, InCallback, InMain, durable
    <2>5. CASE Timeout \/ CheckpointTimer \/ \E a \in Attempts : RetrievalEnds(a)
      BY <2>5 DEF Timeout, CheckpointTimer, RetrievalEnds, InSignal, InMain, durable
    <2>6. CASE \E c \in contexts :
                 WorkerChunk(c) \/ WorkerReports(c) \/ WorkerDies(c) \/ ThreadStops(c)
      BY <2>6
         DEF WorkerChunk, WorkerReports, WorkerDies, ThreadStops, WorkerDoes,
             InWorker, durable
    <2>7. CASE DoStageTwo \/ UNCHANGED vars
      BY <2>7 DEF DoStageTwo, vars
    <2> QED  BY <2>1, <2>2, <2>3, <2>4, <2>5, <2>6, <2>7 DEF Next, DataThread, Timers
  <1> QED  BY <1>2, <1>3, <1>4, <1>5, <1>6, <1>7, <1>8

(* A reply that was stored as completed is never changed: no checkpoint, retry, *)
(* finalization or failed preparation that is still queued reaches its row.     *)
THEOREM CompletedFinal == Spec => CompletedIsFinal
  <1>1. IInv /\ [Next]_vars =>
          [\A t \in Turns : rows[t].status = "completed" => rows'[t] = rows[t]]_vars
    BY CompletedStays
  <1> QED  BY Invariance, <1>1, PTL DEF Spec, CompletedIsFinal

=============================================================================
