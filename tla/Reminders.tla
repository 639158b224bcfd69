----------------------------- MODULE Reminders -----------------------------
(***************************************************************************)
(* Reminders and scheduled follow-ups: the rows of TemporalCommitmentStore, *)
(* the operations of LocalDataService on the data thread, the              *)
(* ReminderScheduler and the bubble of the controller.                      *)
(*                                                                         *)
(* The data thread runs FOREGROUND operations (scan, mark, open) before     *)
(* INTERACTIVE ones (what the user does to a commitment), each kind in      *)
(* order, and answers the main thread in the order of execution.  Time is   *)
(* the wall clock in coarse steps; it does not run backwards.               *)
(*                                                                         *)
(* Not modelled: a data thread that refuses operations (the service turns   *)
(* read-only, which stops the scheduler: Stop), and texts.                  *)
(***************************************************************************)
EXTENDS Naturals, Sequences, FiniteSets, SequencesExt

CONSTANTS Alarms,       \* commitments of kind reminder
          FollowUps,    \* commitments of kind scheduled_followup
          MaxTime,      \* bound on the clock
          MaxEdits,     \* bound on the versions of a commitment
          MaxWrites,    \* bound on the user's operations
          MaxFaults,    \* bound on failed operations and crashes
          MaxStops      \* bound on stop() calls

VARIABLES
  status, version, due,   \* durable: the row of each commitment
  now,                    \* the wall clock
  foreground, interactive,\* the queues of the data thread
  answers,                \* its results, for the main thread
  running, scanPending,   \* ReminderScheduler._running, _scan_pending
  inFlight,               \* _delivery_in_flight
  bubble,                 \* _pending_temporal_followup_id, or None
  locked, safe,           \* session locked; the rest of _temporal_followup_safe
  shown,                  \* history: deliveries of the current version
  writes, faults, stops

rows    == <<status, version, due>>
queues  == <<foreground, interactive, answers>>
sched   == <<running, scanPending, inFlight>>
world   == <<now, locked, safe>>
counts  == <<writes, faults, stops>>
vars == <<rows, queues, sched, bubble, world, shown, counts>>

None == "none"
Commitments == Alarms \cup FollowUps
Final == {"completed", "cancelled"}
Known == {c \in Commitments : status[c] # "absent"}

TypeOK ==
  /\ status \in [Commitments -> {"absent", "draft", "scheduled", "due", "surfaced"} \cup Final]
  /\ version \in [Commitments -> 0..MaxEdits] /\ due \in [Commitments -> 0..MaxTime]
  /\ \A i \in DOMAIN foreground : foreground[i].op \in {"scan", "mark", "open", "draft"}
  /\ \A i \in DOMAIN answers : answers[i].ev \in {"scanned", "changed", "mark_failed"}
  /\ {running, scanPending, locked, safe} \subseteq BOOLEAN
  /\ inFlight \subseteq Commitments /\ bubble \in FollowUps \cup {None}
  /\ now \in 0..MaxTime

\* Some commitments are scheduled already, of an earlier process.
Init ==
  /\ status \in [Commitments -> {"absent", "scheduled"}]
  /\ version = [c \in Commitments |-> IF status[c] = "absent" THEN 0 ELSE 1] /\ due = version
  /\ now = 0 /\ foreground = <<>> /\ interactive = <<>> /\ answers = <<>>
  /\ running = FALSE /\ scanPending = FALSE /\ inFlight = {} /\ bubble = None
  /\ locked = FALSE /\ safe = TRUE
  /\ shown = [c \in Commitments |-> 0]
  /\ writes = 0 /\ faults = 0 /\ stops = 0
-----------------------------------------------------------------------------
(* The user's operations, submitted to the data thread.                    *)

\* A pending edit: what the user asks, of which commitment, due when.
Ask(op, c, d) ==
  /\ writes < MaxWrites /\ writes' = writes + 1
  /\ interactive' = Append(interactive, [op |-> op, c |-> c, d |-> d])
  /\ UNCHANGED <<rows, foreground, answers, sched, bubble, world, shown, faults, stops>>

Fresh(c) == status[c] = "absent" /\ version[c] = 0
AskCreate(c)  == Fresh(c) /\ Ask("create", c, 0)
AskRevise(c)  == c \in Known /\ \E d \in now + 1..MaxTime : Ask("revise", c, d)
AskSnooze(c)  == c \in Known /\ Ask("snooze", c, 0)
AskEnd(c)     == c \in Known /\ \E end \in Final : Ask(end, c, 0)
AskDelete(c)  == c \in Known /\ Ask("delete", c, 0)

\* A chat message that names a time is drafted ahead of the other operations.
DraftInChat(c) ==
  /\ Fresh(c) /\ writes < MaxWrites /\ writes' = writes + 1
  /\ foreground' = Append(foreground, [op |-> "draft", cs |-> {c}, at |-> now])
  /\ UNCHANGED <<rows, interactive, answers, sched, bubble, world, shown, faults, stops>>

\* The bubble is clicked: the follow-up is to be opened in the chat.
Open ==
  /\ bubble # None
  /\ foreground' = Append(foreground, [op |-> "open", cs |-> {bubble}, at |-> now])
  /\ bubble' = None
  /\ UNCHANGED <<rows, interactive, answers, sched, world, shown, counts>>

\* The bubble times out, or the chat is opened, or the pet is hidden.
Dismiss ==
  /\ bubble # None /\ bubble' = None
  /\ UNCHANGED <<rows, queues, sched, world, shown, counts>>
-----------------------------------------------------------------------------
(* The scheduler.                                                          *)

Scan == [op |-> "scan", cs |-> {}, at |-> now]

\* wake(): what is queued and pending after it, with the queue q before it.
Wake(isPending, q) ==
  /\ scanPending' = (isPending \/ running)
  /\ foreground' = IF running /\ ~isPending THEN Append(q, Scan) ELSE q

\* The nearest timer, the calibration timer, or the application state
Timer ==
  /\ running /\ ~scanPending
  /\ Wake(scanPending, foreground)
  /\ UNCHANGED <<rows, interactive, answers, running, inFlight, bubble, world, shown, counts>>

Start ==
  /\ ~running /\ running' = TRUE
  /\ scanPending' = TRUE /\ foreground' = Append(foreground, Scan)
  /\ UNCHANGED <<rows, interactive, answers, inFlight, bubble, world, shown, counts>>

\* stop(), with the bubble dismissed as _prepare_data_change does
Stop ==
  /\ running /\ stops < MaxStops /\ stops' = stops + 1
  /\ running' = FALSE /\ scanPending' = FALSE /\ inFlight' = {} /\ bubble' = None
  /\ UNCHANGED <<rows, queues, world, shown, writes, faults>>

\* A lone follow-up is shown in the bubble, when that is free and the user is.
BubbleFree(cs) == \A c \in FollowUps : cs = {c} => safe /\ bubble = None
BubbleAfter(cs) == IF \E c \in FollowUps : cs = {c} THEN CHOOSE c \in FollowUps : cs = {c} ELSE bubble

\* What is shown: one reminder, one follow-up, or a summary of several.
CanShow(cs) == cs # {} /\ ~locked /\ BubbleFree(cs)

Mark(cs) == [op |-> "mark", cs |-> cs, at |-> now]

\* The due commitments of an answer that no delivery is under way for
\* Mutant: the commitments in flight are delivered again.
DeliverableAll(e) == e.due
Deliverable(e) == e.due \ inFlight

\* _on_due_scanned, with _surface_one, _surface_followup and _surface_aggregate
OnScanned(e) ==
  /\ e.ev = "scanned"
  /\ scanPending' = FALSE
  /\ \/ /\ running /\ CanShow(Deliverable(e))
        /\ inFlight' = (inFlight \ e.became) \cup Deliverable(e)
        /\ foreground' = Append(foreground, Mark(Deliverable(e)))
        /\ bubble' = BubbleAfter(Deliverable(e))
        /\ shown' = [c \in Commitments |-> IF c \in Deliverable(e) /\ version[c] = e.version[c]
                                           THEN shown[c] + 1 ELSE shown[c]]
        /\ UNCHANGED faults
     \/ /\ ~(running /\ CanShow(Deliverable(e)))
        /\ inFlight' = inFlight \ e.became
        /\ UNCHANGED <<foreground, bubble, shown, faults>>
     \/ /\ running /\ CanShow(Deliverable(e))           \* not displayed
        /\ faults < MaxFaults /\ faults' = faults + 1
        /\ inFlight' = inFlight \ e.became
        /\ UNCHANGED <<foreground, bubble, shown>>

\* _on_commitment_changed, for what a mark or the user changed
OnChanged(e) ==
  /\ e.ev = "changed"
  /\ inFlight' = inFlight \ e.due
  /\ IF e.due = {} THEN UNCHANGED <<scanPending, foreground>> ELSE Wake(scanPending, foreground)
  /\ UNCHANGED <<bubble, shown, faults>>

\* Mutant: a failed mark leaves its commitments in flight.
KeepInFlight == inFlight
InFlightAfterFailure == {}

\* _on_data_operation_failed
OnMarkFailed(e) ==
  /\ e.ev = "mark_failed"
  /\ inFlight' = InFlightAfterFailure /\ Wake(scanPending, foreground)
  /\ UNCHANGED <<bubble, shown, faults>>

Handle ==
  /\ answers # <<>> /\ answers' = Tail(answers)
  /\ LET e == Head(answers) IN OnScanned(e) \/ OnChanged(e) \/ OnMarkFailed(e)
  /\ UNCHANGED <<rows, interactive, running, world, writes, stops>>
-----------------------------------------------------------------------------
(* The data thread.                                                        *)

Answer(ev, cs, became, v) ==
  answers' = Append(answers, [ev |-> ev, due |-> cs, became |-> became, version |-> v])

SetStatus(cs, s) == status' = [c \in Commitments |-> IF c \in cs THEN s ELSE status[c]]

\* scan_due, as of the time it was asked at
ScanDue(o) ==
  LET became == {c \in Commitments : status[c] = "scheduled" /\ due[c] <= o.at}
  IN  /\ o.op = "scan"
      /\ SetStatus(became, "due")
      /\ Answer("scanned", became \cup {c \in Commitments : status[c] = "due"}, became, version)

\* mark_surfaced: of whatever version is due now
\* Mutant: what is no longer due is marked as well.
MarkAll(o) == o.cs
Marked(o) == {c \in o.cs : status[c] = "due"}

MarkSurfaced(o) ==
  /\ o.op = "mark"
  /\ SetStatus(Marked(o), "surfaced")
  /\ Answer("changed", Marked(o), {}, version)

\* open_followup_in_chat: refused unless it is due or surfaced
OpenFollowUp(o) ==
  /\ o.op = "open"
  /\ SetStatus({c \in o.cs : status[c] \in {"due", "surfaced"}}, "completed")
  /\ UNCHANGED answers

\* create_chat_draft
Draft(o) ==
  /\ o.op = "draft"
  /\ LET new == {c \in o.cs : Fresh(c)}
     IN  /\ SetStatus(new, "draft")
         /\ version' = [c \in Commitments |-> IF c \in new THEN 1 ELSE version[c]]
         /\ Answer("changed", new, {}, version)

RunForeground ==
  /\ foreground # <<>> /\ foreground' = Tail(foreground)
  /\ LET o == Head(foreground)
     IN  \/ (ScanDue(o) \/ MarkSurfaced(o) \/ OpenFollowUp(o)) /\ UNCHANGED version
         \/ Draft(o)
  /\ UNCHANGED <<due, interactive, sched, bubble, world, shown, counts>>

\* A scan that fails tells the scheduler nothing.
ForegroundFails ==
  /\ foreground # <<>> /\ foreground' = Tail(foreground)
  /\ faults < MaxFaults /\ faults' = faults + 1
  /\ IF Head(foreground).op = "mark" THEN Answer("mark_failed", {}, {}, version) ELSE UNCHANGED answers
  /\ UNCHANGED <<rows, interactive, sched, bubble, world, shown, writes, stops>>

\* A version may be planned: the row is not terminal and d is in the future.
MayRevise(e, d) == status[e.c] \notin Final \cup {"absent"} /\ d > now /\ version[e.c] < MaxEdits

\* revise with confirm; snooze revises too
Revise(e, d) ==
  /\ status' = [status EXCEPT ![e.c] = "scheduled"]
  /\ due' = [due EXCEPT ![e.c] = d]
  /\ version' = [version EXCEPT ![e.c] = @ + 1]
  /\ shown' = [shown EXCEPT ![e.c] = 0]

MaySnooze(e) == status[e.c] \in {"scheduled", "due", "surfaced"} /\ MayRevise(e, MaxTime)

\* create_manual_draft
Create(e) ==
  /\ status' = [status EXCEPT ![e.c] = "draft"]
  /\ version' = [version EXCEPT ![e.c] = 1]
  /\ UNCHANGED <<due, shown>>

\* _terminal_transition, and delete with s = "absent"
MayEnd(e) == status[e.c] \notin Final \cup {"absent"}

SetEnd(e, s) ==
  /\ status' = [status EXCEPT ![e.c] = s]
  /\ UNCHANGED <<version, due, shown>>

Write(e) ==
  \/ e.op = "create" /\ Fresh(e.c) /\ Create(e)
  \/ e.op = "revise" /\ MayRevise(e, e.d) /\ Revise(e, e.d)
  \/ e.op = "snooze" /\ MaySnooze(e) /\ \E d \in now + 1..MaxTime : Revise(e, d)
  \/ e.op \in Final /\ MayEnd(e) /\ SetEnd(e, e.op)

Refused(e) ==
  \/ e.op = "create" /\ ~Fresh(e.c)
  \/ e.op = "revise" /\ ~MayRevise(e, e.d)
  \/ e.op = "snooze" /\ ~MaySnooze(e)
  \/ e.op \in Final /\ ~MayEnd(e)
  \/ e.op = "delete" /\ status[e.c] = "absent"

RunInteractive ==
  /\ foreground = <<>> /\ interactive # <<>> /\ interactive' = Tail(interactive)
  /\ LET e == Head(interactive)
     IN  \/ Write(e) /\ Answer("changed", {e.c}, {}, version)
         \/ e.op = "delete" /\ status[e.c] # "absent" /\ SetEnd(e, "absent") /\ UNCHANGED answers
         \/ Refused(e) /\ UNCHANGED <<rows, shown, answers>>
  /\ UNCHANGED <<foreground, sched, bubble, world, counts>>
-----------------------------------------------------------------------------
Passes ==
  /\ now < MaxTime /\ now' = now + 1
  /\ UNCHANGED <<rows, queues, sched, bubble, locked, safe, shown, counts>>

\* The session is locked or unlocked, the user is busy or free.
Changes ==
  /\ locked' \in BOOLEAN /\ safe' \in BOOLEAN
  /\ UNCHANGED <<rows, queues, sched, bubble, now, shown, counts>>

\* The process ends and another one starts.
Crash ==
  /\ faults < MaxFaults /\ faults' = faults + 1
  /\ foreground' = <<>> /\ interactive' = <<>> /\ answers' = <<>>
  /\ running' = FALSE /\ scanPending' = FALSE /\ inFlight' = {} /\ bubble' = None
  /\ UNCHANGED <<rows, world, shown, writes, stops>>

UserActs == \E c \in Commitments :
  AskCreate(c) \/ DraftInChat(c) \/ AskRevise(c) \/ AskSnooze(c) \/ AskEnd(c) \/ AskDelete(c)

Next ==
  \/ UserActs \/ Open \/ Dismiss \/ Timer \/ Start \/ Stop \/ Handle
  \/ RunForeground \/ ForegroundFails \/ RunInteractive \/ Passes \/ Changes \/ Crash

Spec == Init /\ [][Next]_vars

(* The data thread and the main loop go on, the calibration timer fires and
   the bubble times out.                                                    *)
Fairness ==
  /\ WF_vars(RunForeground) /\ WF_vars(RunInteractive) /\ WF_vars(Handle)
  /\ WF_vars(Timer) /\ WF_vars(Dismiss)

FairSpec == Spec /\ Fairness
-----------------------------------------------------------------------------
(* A version is delivered once, unless a mark was lost or failed: after a    *)
(* stop() a second scan may have read the due list before the mark of the    *)
(* delivery ran, and only _delivery_in_flight holds it back.  (A second       *)
(* stop() empties that set, and the version may be delivered again.)          *)
ShownOnce == stops <= 1 => \A c \in Commitments : shown[c] <= 1 + faults

(* What is marked surfaced was delivered in its current version: the mark    *)
(* names no version, so a revision between the scan and the mark must have   *)
(* taken the row out of due, and no scan may come between the two.  (With    *)
(* stop() two scans can be outstanding, and one does come between.)          *)
SurfacedWasShown ==
  stops = 0 => \A c \in Commitments : status[c] = "surfaced" => shown[c] > 0

(* Both. *)
DeliveriesAreTrue == ShownOnce /\ SurfacedWasShown

\* A scan is pending of which nothing is queued: it failed.
ScanLost ==
  /\ scanPending
  /\ \A i \in DOMAIN foreground : foreground[i].op # "scan"
  /\ \A i \in DOMAIN answers : answers[i].ev # "scanned"

(* A due commitment does not stay due while the scheduler runs, the session  *)
(* is unlocked and the user free, and no scan was lost: whatever failed or   *)
(* was revised in between, nothing stays behind in _delivery_in_flight.      *)
Undisturbed == running /\ ~locked /\ safe /\ ~ScanLost
IsDue(c) == status[c] = "due"
DueIsDelivered == <>[]Undisturbed => \A c \in Commitments : []<>~IsDue(c)
=============================================================================
