----------------------------- MODULE DataWindow -----------------------------
(* The exclusive data operations of controller.py (backup, restore, reset to   *)
(* factory state, clearing the memories) and everything they must hold off:    *)
(* the visible chat, the memory jobs, proactive generation and the writes of   *)
(* the data thread.  The user interface's thread runs one handler at a time;   *)
(* a modal dialog stops the user's other inputs but not the events, and while  *)
(* the services are being stopped nothing but the data thread runs.            *)
EXTENDS Naturals, Sequences

CONSTANTS MaxItems,   \* pieces of user data written
          MaxSends,   \* messages sent or retried
          MaxWindows, \* operations asked for
          MaxFaults   \* failed operations and timeouts

VARIABLES window,   \* _data_change_state
          dialog,   \* the modal dialog that is open
          staged,   \* _staged_restore
          stopped,  \* _services_stopped_for_data_change
          held,     \* _conversation_switch_pending, set by an operation
          exiting,  \* _exiting
          stopping, \* why _shutdown_background_tasks is waiting, or "no"
          chat,     \* the foreground action and the conversation
          work,     \* the job of the coordinators
          paused,   \* the coordinators' _paused
          greeter,  \* ProactiveInteractionController: stopped, running, generating
          urgent, normal, background, \* the data thread's queue by priority
          answers,  \* callbacks of the data thread
          dataUp,   \* the data thread takes operations
          live,     \* user data on disk
          agreed,   \* user data on disk when the restore was confirmed
          backup,   \* user data in the pre-restore backup, or "none"
          fate,     \* what happened to the data on disk
          lost,     \* user data on disk when it was replaced
          items, sends, windows, faults

vars == <<window, dialog, staged, stopped, held, exiting, stopping, chat, work, paused, greeter, urgent,
          normal, background, answers, dataUp, live, agreed, backup, fate, lost, items, sends,
          windows, faults>>
flags == <<dialog, staged, stopped, held, exiting, stopping>>
lanes == <<chat, work, paused, greeter>>
thread == <<urgent, normal, background, answers, dataUp>>
disk == <<live, agreed, backup, fate, lost>>
counts == <<items, sends, windows, faults>>

Init ==
  /\ window = "idle" /\ dialog = "none" /\ staged = FALSE /\ stopped = FALSE /\ held = FALSE
  /\ exiting = FALSE /\ stopping = "no" /\ chat = "idle" /\ work = "none" /\ paused = FALSE /\ greeter = "running"
  /\ urgent = <<>> /\ normal = <<>> /\ background = <<>> /\ answers = <<>> /\ dataUp = TRUE
  /\ live = {0} /\ agreed = {} /\ backup = {} /\ fate = "kept" /\ lost = {}
  /\ items = 0 /\ sends = 0 /\ windows = 0 /\ faults = 0

Free == stopping = "no" /\ ~exiting
AtHand == Free /\ dialog = "none"
Op(op) == [op |-> op, item |-> 0]
Fault == faults < MaxFaults /\ faults' = faults + 1

-----------------------------------------------------------------------------
(* The visible chat, the jobs and proactive generation.                       *)

Generating == work = "generating" \/ greeter = "generating"
\* A text is refused during any operation, the retry of a failed turn only while
\* the controls of the history are held.
Send ==
  /\ AtHand /\ sends < MaxSends /\ chat = "idle" /\ ~held
  /\ chat' = "waiting" /\ sends' = sends + 1
  /\ greeter' = IF greeter = "generating" THEN "running" ELSE greeter
  /\ work' = IF work = "generating" THEN "none" ELSE work
  /\ paused' = (paused /\ greeter # "generating")
  /\ UNCHANGED <<window, flags, thread, disk, items, windows, faults>>

\* Mutant: the state is not looked at again when the lane is free.
DispatchAnyway ==
  /\ Free /\ chat = "waiting" /\ ~Generating
  /\ chat' = "active"
  /\ UNCHANGED <<window, flags, work, paused, greeter, thread, disk, counts>>
Dispatch ==
  /\ Free /\ chat = "waiting" /\ ~Generating
  /\ chat' = IF held THEN "idle" ELSE "active"
  /\ UNCHANGED <<window, flags, work, paused, greeter, thread, disk, counts>>

LaneTimeout ==
  /\ Free /\ chat = "waiting" /\ chat' = "idle"
  /\ UNCHANGED <<window, flags, work, paused, greeter, thread, disk, counts>>

ReplyEnds ==
  /\ Free /\ chat = "active" /\ chat' = "idle"
  /\ UNCHANGED <<window, flags, work, paused, greeter, thread, disk, counts>>

JobStarts ==
  /\ Free /\ dataUp /\ ~paused /\ chat = "idle" /\ work = "none" /\ greeter # "generating"
  /\ work' = "generating"
  /\ UNCHANGED <<window, flags, chat, paused, greeter, thread, disk, counts>>

\* The result is written behind everything else that is queued.
JobEnds ==
  /\ Free /\ work = "generating" /\ items < MaxItems
  /\ work' = "saving" /\ items' = items + 1
  /\ background' = Append(background, [op |-> "persist", item |-> items + 1])
  /\ UNCHANGED <<window, flags, chat, paused, greeter, urgent, normal, answers, dataUp, disk,
                 sends, windows, faults>>

\* The lane is granted when nothing generates; the coordinators pause for it and
\* resume after it, whoever else has paused them.
GreetingStarts ==
  /\ Free /\ greeter = "running" /\ chat # "active" /\ work = "none"
  /\ greeter' = "generating" /\ paused' = TRUE
  /\ UNCHANGED <<window, flags, chat, work, thread, disk, counts>>

GreetingEnds ==
  /\ Free /\ greeter = "generating"
  /\ greeter' = "running" /\ paused' = FALSE
  /\ UNCHANGED <<window, flags, chat, work, thread, disk, counts>>

\* The memory page stays open to edits during a backup, and the profiles can be
\* saved, which pauses the coordinators and resumes them.
EditMemory ==
  /\ AtHand /\ dataUp /\ items < MaxItems /\ items' = items + 1
  /\ normal' = Append(normal, [op |-> "edit", item |-> items + 1])
  /\ UNCHANGED <<window, flags, lanes, urgent, background, answers, dataUp, disk, sends, windows,
                 faults>>

SaveProfiles ==
  /\ AtHand /\ chat = "idle" /\ ~Generating /\ paused
  /\ paused' = FALSE
  /\ UNCHANGED <<window, flags, chat, work, greeter, thread, disk, counts>>

-----------------------------------------------------------------------------
(* Opening an operation.                                                      *)

CanStart == window = "idle" /\ ~staged /\ ~stopped /\ ~held /\ chat = "idle"

Ask(kind) ==
  /\ AtHand /\ windows < MaxWindows /\ CanStart
  /\ dialog' = kind /\ windows' = windows + 1
  /\ UNCHANGED <<window, staged, stopped, held, exiting, stopping, lanes, thread, disk, items, sends, faults>>
AskBackup == Ask("backup")
AskRestore == Ask("restore")
AskReset == Ask("reset")

Dismiss ==
  /\ Free /\ dialog \in {"backup", "restore", "reset"}
  /\ dialog' = "none"
  /\ UNCHANGED <<window, staged, stopped, held, exiting, stopping, lanes, thread, disk, counts>>

ChooseFile ==
  /\ Free /\ dialog \in {"backup", "restore"} /\ dialog' = "none"
  /\ window' = IF dialog = "backup" THEN "backup" ELSE "validation"
  /\ normal' = Append(normal, Op(IF dialog = "backup" THEN "backup" ELSE "stage"))
  /\ UNCHANGED <<staged, stopped, held, exiting, stopping, lanes, urgent, background, answers, dataUp, disk,
                 counts>>

\* pause() of both coordinators: a job that was generating is put back, one that
\* is being saved goes on.
PauseJobs == paused' = TRUE /\ work' = IF work = "generating" THEN "none" ELSE work
Resumed == paused' = FALSE /\ UNCHANGED work
Begins ==
  /\ chat # "active"
  /\ held' = TRUE /\ greeter' = "stopped" /\ PauseJobs
  /\ UNCHANGED chat
\* Stopping the background took too long, or a reply is running: all is undone.
Backs ==
  /\ window' = "idle" /\ staged' = FALSE /\ stopped' = FALSE /\ held' = FALSE
  /\ paused' = FALSE /\ greeter' = IF greeter = "stopped" THEN "running" ELSE greeter
  /\ work' = IF work = "generating" THEN "none" ELSE work
  /\ UNCHANGED chat

Stop(reason) == stopping' = reason /\ dataUp' = FALSE /\ stopped' = TRUE

ConfirmReset ==
  /\ Free /\ dialog = "reset" /\ dialog' = "none"
  /\ \/ /\ Begins /\ window' = "resetting" /\ Stop("reset") /\ UNCHANGED <<staged, faults>>
     \/ /\ Generating /\ Fault /\ Backs
        /\ UNCHANGED <<stopping, dataUp>>
  /\ UNCHANGED <<exiting, urgent, normal, background, answers, disk, items, sends, windows>>

\* The memories are cleared without looking at the chat.
AskClear ==
  /\ AtHand /\ windows < MaxWindows /\ window = "idle" /\ windows' = windows + 1
  /\ \/ /\ PauseJobs /\ window' = "clearing" /\ normal' = Append(normal, Op("clear"))
        /\ UNCHANGED faults
     \/ /\ Generating /\ Fault /\ Resumed /\ UNCHANGED <<window, normal>>
  /\ UNCHANGED <<flags, chat, greeter, urgent, background, answers, dataUp, disk, items, sends>>

\* The answer to "continue?" after the archive has been validated.
ConfirmRestore ==
  /\ Free /\ dialog = "confirm" /\ dialog' = "none"
  /\ \/ /\ Begins /\ window' = "prebackup" /\ staged' = TRUE /\ agreed' = live
        /\ urgent' = Append(urgent, Op("prebackup"))
        /\ UNCHANGED <<stopped, faults>>
     \/ /\ Backs /\ IF chat = "active" THEN UNCHANGED faults ELSE Generating /\ Fault
        /\ UNCHANGED <<urgent, agreed>>
     \/ /\ window' = "idle" /\ stopped' = FALSE
        /\ UNCHANGED <<staged, held, lanes, urgent, agreed, faults>>
  /\ UNCHANGED <<exiting, stopping, normal, background, answers, dataUp, live, backup, fate, lost, items,
                 sends, windows>>

\* A dialog that is open returns as if it had been cancelled.
Exit ==
  /\ AtHand /\ exiting' = TRUE /\ window' = "exiting" /\ stopping' = "exit" /\ dataUp' = FALSE
  /\ chat' = IF chat = "waiting" THEN "idle" ELSE chat
  /\ greeter' = "stopped" /\ PauseJobs
  /\ UNCHANGED <<dialog, staged, stopped, held, urgent, normal, background, answers, disk, counts>>

-----------------------------------------------------------------------------
(* The data thread.                                                           *)

Run(r) ==
  \/ /\ answers' = Append(answers, [req |-> r, ok |-> TRUE])
     /\ live' = CASE r.op \in {"persist", "edit"} -> live \union {r.item}
                  [] r.op = "clear" -> {}
                  [] OTHER -> live
     /\ backup' = IF r.op = "prebackup" THEN live ELSE backup
     /\ UNCHANGED faults
  \/ /\ Fault /\ answers' = Append(answers, [req |-> r, ok |-> FALSE])
     /\ UNCHANGED <<live, backup>>

Work ==
  /\ \/ /\ urgent # <<>> /\ Run(Head(urgent)) /\ urgent' = Tail(urgent)
        /\ UNCHANGED <<normal, background>>
     \/ /\ urgent = <<>> /\ normal # <<>> /\ Run(Head(normal)) /\ normal' = Tail(normal)
        /\ UNCHANGED <<urgent, background>>
     \/ /\ urgent = <<>> /\ normal = <<>> /\ background # <<>>
        /\ Run(Head(background)) /\ background' = Tail(background)
        /\ UNCHANGED <<urgent, normal>>
  /\ UNCHANGED <<window, flags, lanes, dataUp, agreed, fate, lost, items, sends, windows>>

-----------------------------------------------------------------------------
(* Answers.  quit() has been called when an exit is under way, but callbacks    *)
(* that are already posted may still run.                                      *)

Finished == window' = "idle" /\ stopped' = FALSE

OnWritten(r) ==
  /\ r.op \in {"persist", "edit"}
  /\ work' = IF r.op = "persist" THEN "none" ELSE work
  /\ UNCHANGED <<window, flags, chat, paused, greeter, dataUp>>

OnBackup(r) ==
  /\ r.op = "backup"
  /\ IF window = "backup" THEN Finished ELSE UNCHANGED <<window, stopped>>
  /\ UNCHANGED <<dialog, staged, held, exiting, stopping, lanes, dataUp>>

OnCleared(r) ==
  /\ r.op = "clear" /\ Resumed
  /\ IF window = "clearing" THEN Finished ELSE UNCHANGED <<window, stopped>>
  /\ UNCHANGED <<dialog, staged, held, exiting, stopping, chat, greeter, dataUp>>

\* Mutant: an archive that is not valid leaves the operation open.
OnStagedKeepsOpen(r, ok) ==
  /\ r.op = "stage"
  /\ dialog' = IF window = "validation" /\ ok THEN "confirm" ELSE dialog
  /\ UNCHANGED <<window, staged, stopped, held, exiting, stopping, lanes, dataUp>>
OnStaged(r, ok) ==
  /\ r.op = "stage"
  /\ IF window = "validation" /\ ~ok THEN Finished ELSE UNCHANGED <<window, stopped>>
  /\ dialog' = IF window = "validation" /\ ok THEN "confirm" ELSE dialog
  /\ UNCHANGED <<staged, held, exiting, stopping, lanes, dataUp>>

\* Mutant: the replacement goes on when the backup failed.
AppliesAnyway(ok) == staged
Applies(ok) == ok /\ staged
OnPrebackup(r, ok) ==
  /\ r.op = "prebackup"
  /\ IF Applies(ok)
       THEN /\ window' = "applying" /\ Stop("apply")
            /\ UNCHANGED <<staged, held, lanes>>
       ELSE Backs /\ UNCHANGED <<stopping, dataUp>>
  /\ UNCHANGED <<dialog, exiting>>

Handle ==
  /\ stopping = "no" /\ answers # <<>> /\ answers' = Tail(answers)
  /\ LET r == Head(answers).req ok == Head(answers).ok IN
       OnWritten(r) \/ OnBackup(r) \/ OnCleared(r) \/ OnStaged(r, ok) \/ OnPrebackup(r, ok)
  /\ UNCHANGED <<urgent, normal, background, disk, counts>>

-----------------------------------------------------------------------------
(* The services have stopped, or the time is up.                               *)

Drained == urgent = <<>> /\ normal = <<>> /\ background = <<>>
\* Mutant: the files are replaced and removed whatever shutdown says.
MayDestroyAnyway(clean) == TRUE
MayDestroy(clean) == clean

StopEnds ==
  /\ stopping # "no" /\ stopping' = "no"
  /\ \E clean \in BOOLEAN :
       /\ IF clean THEN Drained /\ UNCHANGED faults ELSE Fault
       /\ IF stopping # "exit" /\ MayDestroy(clean)
            THEN /\ fate' = IF stopping = "apply" THEN "replaced" ELSE "removed"
                 /\ lost' = live /\ live' = {}
            ELSE UNCHANGED <<fate, lost, live>>
  /\ exiting' = TRUE /\ window' = "exiting" /\ chat' = "idle" /\ work' = "none" /\ greeter' = "stopped"
  /\ paused' = TRUE /\ staged' = IF stopping = "exit" THEN staged ELSE FALSE
  /\ UNCHANGED <<dialog, stopped, held, urgent, normal, background, answers, dataUp, agreed, backup,
                 items, sends, windows>>

Next ==
  \/ Send \/ Dispatch \/ LaneTimeout \/ ReplyEnds \/ JobStarts \/ JobEnds \/ GreetingStarts \/ GreetingEnds
  \/ EditMemory \/ SaveProfiles \/ AskBackup \/ AskRestore \/ AskReset \/ AskClear \/ Dismiss
  \/ ChooseFile \/ ConfirmReset \/ ConfirmRestore \/ Exit \/ Work \/ Handle \/ StopEnds

Spec == Init /\ [][Next]_vars
Fairness == WF_vars(Work) /\ WF_vars(Handle) /\ WF_vars(StopEnds)
FairSpec == Spec /\ Fairness

-----------------------------------------------------------------------------
Ids == 0..MaxItems
(* Every variable holds values of its kind. *)
TypeOK ==
  /\ window \in {"idle", "backup", "validation", "prebackup", "applying", "resetting", "clearing",
                 "exiting"}
  /\ dialog \in {"none", "backup", "restore", "reset", "confirm"}
  /\ {staged, stopped, held, exiting, paused, dataUp} \subseteq BOOLEAN
  /\ stopping \in {"no", "apply", "reset", "exit"} /\ chat \in {"idle", "waiting", "active"}
  /\ work \in {"none", "generating", "saving"} /\ greeter \in {"stopped", "running", "generating"}
  /\ live \union agreed \union backup \union lost \subseteq Ids
  /\ fate \in {"kept", "replaced", "removed"}

(* The data that was on disk when the user agreed to a restore is in the        *)
(* pre-restore backup by the time the files are replaced.                       *)
BackedUpBeforeReplaced == fate = "replaced" => agreed \subseteq backup

(* From the pre-restore backup on no reply is written and no greeting is         *)
(* generated, also when a retry was waiting for the lane as the window opened.  *)
WindowIsQuiet ==
  window \in {"prebackup", "applying"} => chat # "active" /\ greeter # "generating"

(* The files are replaced or removed only after the data thread has done all    *)
(* that was asked of it.                                                        *)
DestroyedWhenDrained == fate # "kept" => Drained

(* All three. *)
WindowIsSafe == BackedUpBeforeReplaced /\ WindowIsQuiet /\ DestroyedWhenDrained

(* An operation that waits for no answer of the user ends: the controls are     *)
(* unlocked or the application exits.                                           *)
Working == window # "idle" /\ dialog = "none"
Ended == window = "idle" \/ exiting \/ dialog = "confirm"
WindowEnds == Working ~> Ended

(* All that a restore replaces is in the backup made before it.                 *)
ReplacedDataIsBackedUp == fate = "replaced" => lost \subseteq backup
=============================================================================
