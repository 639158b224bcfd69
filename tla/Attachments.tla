---------------------------- MODULE Attachments ----------------------------
(* Files attached to messages.  An object is stored once per content by the    *)
(* import worker (attachments.py, attachment_runtime.py), named by drafts of    *)
(* the chat panel (ui/chat_panel.py) and by rows of the database, and removed   *)
(* by the cleanup that follows a deletion or a start (local_data_service.py),   *)
(* which spares what the rows name and the drafts named when the deletion was   *)
(* confirmed.  A backup (data_management.py) copies a snapshot of the rows and  *)
(* the objects they name into an archive that is checked before it is kept.     *)
EXTENDS Naturals, Sequences, FiniteSets

CONSTANTS Contents, Conversations, None, MaxSends, MaxImports, MaxChanges, MaxBackups, MaxFaults

VARIABLES files,    \* objects on disk
          rows,     \* message -> the conversation and the contents of its row
          convs,    \* rows of conversations
          drafts,   \* _conversation_attachment_drafts
          panel,    \* _draft_attachments
          current,  \* the conversation the panel shows
          cursor,   \* LocalDataService._current_conversation_id
          import,   \* the import under way, for the panel or for a message
          chat,     \* the foreground action and the attempt
          unsaved,  \* turns whose row could not be written
          asked,    \* the deletion the user is asked about
          change,   \* _conversation_switch_pending
          late,     \* contents added to the panel since the change began
          ready,    \* the first load of the database has been answered
          urgent, normal, answers,
          build,    \* the backup under way
          archive,  \* the file at its destination
          loose,    \* contents removed while only the import worker, an unsaved turn or
                    \* a draft the deletion could not see named them
          strayed,  \* a deletion was confirmed where the controls refuse one
          imports, sends, changes, backups, faults

vars == <<files, rows, convs, drafts, panel, current, cursor, import, chat, unsaved, asked, change,
          late, ready, urgent, normal, answers, build, archive, loose, strayed, imports, sends,
          changes, backups, faults>>
disk == <<files, rows, convs, loose>>
page == <<drafts, panel, current, cursor, asked, change, late, ready, strayed>>
turns == <<chat, unsaved>>
thread == <<urgent, normal, answers>>
copies == <<build, archive>>
counts == <<imports, sends, changes, backups, faults>>

Messages == 1..MaxSends
NoRow == [conv |-> None, items |-> {}]
NoTurn == [at |-> "idle", msg |-> 0, items |-> {}]
NoImport == [at |-> "none", content |-> None, for |-> "panel", items |-> {}]
NoQuestion == [kind |-> "none", conv |-> None]
NoBuild == [at |-> "none", rows |-> {}, objects |-> {}]

Init ==
  /\ files = {} /\ rows = [m \in Messages |-> NoRow]
  /\ convs = {CHOOSE c \in Conversations : TRUE}
  /\ current = (CHOOSE c \in Conversations : TRUE) /\ cursor = current
  /\ drafts = [c \in Conversations |-> {}] /\ panel = {} /\ import = NoImport
  /\ chat = NoTurn /\ unsaved = {} /\ asked = NoQuestion /\ change = "none" /\ late = {}
  /\ ready = FALSE /\ strayed = FALSE
  /\ urgent = <<[op |-> "start"]>> /\ normal = <<>> /\ answers = <<>>
  /\ build = NoBuild /\ archive = NoBuild /\ loose = {}
  /\ imports = 0 /\ sends = 0 /\ changes = 0 /\ backups = 0 /\ faults = 0

Fault == faults < MaxFaults /\ faults' = faults + 1
Referenced(rs) == UNION {rs[m].items : m \in {n \in Messages : rs[n].conv # None}}

-----------------------------------------------------------------------------
(* The import worker.                                                         *)

\* Pasting and dropping look at the import and at the turn only.
MayAttach == import.at = "none" /\ chat = NoTurn
Import(x, for, items) ==
  /\ imports < MaxImports /\ imports' = imports + 1
  /\ import' = [at |-> "copying", content |-> x, for |-> for, items |-> items]
  /\ UNCHANGED <<disk, page, turns, thread, copies, sends, changes, backups, faults>>
Attach == MayAttach /\ \E x \in Contents \ panel : Import(x, "panel", {})

\* With live vision on, the latest picture is imported before a message is sent, be it
\* written in the panel or spoken.
SendWithPicture ==
  /\ ready /\ change = "none" /\ import.at = "none"
  /\ \E x \in Contents : \/ chat = NoTurn /\ Import(x, "message", panel)
                        \/ Import(x, "message", {})

\* The copy is inspected and takes its place, or the object that is there stays.
Placed ==
  /\ import' = [import EXCEPT !.at = "landed"]
  /\ files' = files \union {import.content} /\ loose' = loose \ {import.content}
  /\ UNCHANGED faults
\* It cannot be read, or is not a file of an accepted kind.
Refused ==
  /\ Fault /\ import' = NoImport
  /\ UNCHANGED <<files, loose>>
Land ==
  /\ import.at = "copying" /\ (Placed \/ Refused)
  /\ UNCHANGED <<rows, convs, page, turns, thread, copies, imports, sends, changes, backups>>

\* The panel takes it whatever it shows by now; a message goes on its way, or is lost.
Added(x) ==
  /\ panel' = panel \union {x}
  /\ late' = IF change = "none" THEN late ELSE late \union {x}
Turn(at, m, items) == chat' = [at |-> at, msg |-> m, items |-> items]
MayBegin == ready /\ chat = NoTurn /\ change = "none"
Imported ==
  /\ import.at = "landed" /\ import' = NoImport
  /\ IF import.for = "panel" THEN Added(import.content) /\ UNCHANGED <<chat, sends>>
     ELSE /\ UNCHANGED <<panel, late>>
          /\ IF MayBegin /\ sends < MaxSends
               THEN /\ Turn("waiting", sends + 1, import.items \union {import.content})
                    /\ sends' = sends + 1
               ELSE UNCHANGED <<chat, sends>>
  /\ UNCHANGED <<disk, drafts, current, cursor, asked, change, ready, strayed, unsaved, thread,
                 copies, imports, changes, backups, faults>>

Remove ==
  /\ \E x \in panel : panel' = panel \ {x}
  /\ UNCHANGED <<disk, drafts, current, cursor, asked, change, late, ready, strayed, import, turns,
                 thread, copies, counts>>

-----------------------------------------------------------------------------
(* Messages.  A message waits for the lane with what the panel held; the panel  *)
(* keeps it until the turn begins.                                              *)

Send ==
  /\ MayBegin /\ import.at = "none" /\ panel # {}
  /\ sends < MaxSends /\ sends' = sends + 1 /\ Turn("waiting", sends + 1, panel)
  /\ UNCHANGED <<disk, page, import, unsaved, thread, copies, imports, changes, backups, faults>>

Retry ==
  /\ MayBegin
  /\ \E t \in unsaved : Turn("again", t.msg, t.items)
  /\ UNCHANGED <<disk, page, import, unsaved, thread, copies, counts>>

\* The panel is emptied unless its text has been edited.
Emptied ==
  \/ chat.at = "waiting" /\ panel' = {} /\ drafts' = [drafts EXCEPT ![current] = {}]
  \/ UNCHANGED <<panel, drafts>>
Save == urgent' = Append(urgent, [op |-> "save", turn |-> chat', conv |-> cursor])
Dispatch ==
  /\ chat.at \in {"waiting", "again"} /\ change = "none"
  /\ chat.at = "again" => \E t \in unsaved : t.msg = chat.msg
  /\ unsaved' = {t \in unsaved : t.msg # chat.msg}
  /\ Turn("saving", chat.msg, chat.items) /\ Save /\ Emptied
  /\ UNCHANGED <<disk, current, cursor, asked, change, late, ready, strayed, import, normal, answers,
                 copies, counts>>

\* The state has changed, or background generation does not stop in time.
Drop ==
  /\ chat.at \in {"waiting", "again"} /\ chat' = NoTurn
  /\ UNCHANGED <<disk, page, import, unsaved, thread, copies, counts>>

-----------------------------------------------------------------------------
(* Switching and deleting.                                                    *)

Remembered == [drafts EXCEPT ![current] = panel]
Begin(kind) ==
  /\ change' = kind /\ late' = {}
  /\ drafts' = IF change = "none" THEN Remembered ELSE drafts

\* Mutant: only the attachments of the panel are spared.
ProtectedPanel(c) == IF c = current THEN {} ELSE panel
Protected(c) == UNION {Remembered[d] : d \in Conversations \ {c}}

CanChange == chat = NoTurn /\ change = "none"
Idle == ready /\ CanChange /\ changes < MaxChanges /\ changes' = changes + 1

Switch ==
  /\ Idle /\ Begin("load")
  /\ \E c \in convs \ {cursor} : normal' = Append(normal, [op |-> "load", conv |-> c])
  /\ UNCHANGED <<disk, panel, current, cursor, asked, ready, strayed, import, turns, urgent, answers,
                 copies, imports, sends, backups, faults>>

New ==
  /\ Idle /\ Begin("create")
  /\ normal' = Append(normal, [op |-> "create"])
  /\ UNCHANGED <<disk, panel, current, cursor, asked, ready, strayed, import, turns, urgent, answers,
                 copies, imports, sends, backups, faults>>

\* The number of reminders that hang on the chats is read, then the user is asked.
AskDelete ==
  /\ Idle
  /\ \E q \in [kind : {"delete"}, conv : convs] \union {[NoQuestion EXCEPT !.kind = "clear"]} :
       asked' = q
  /\ UNCHANGED <<disk, drafts, panel, current, cursor, change, late, ready, strayed, import, turns,
                 thread, copies, imports, sends, backups, faults>>

\* Nothing is looked at again when the user agrees.
Delete ==
  [op |-> "delete", conv |-> asked.conv, spared |-> Protected(asked.conv), shown |-> cursor]
Clear == [op |-> "clear"]
Yes ==
  /\ asked.kind # "none" /\ asked' = NoQuestion /\ Begin(asked.kind)
  /\ normal' = Append(normal, IF asked.kind = "delete" THEN Delete ELSE Clear)
  /\ strayed' = (strayed \/ ~CanChange)
  /\ UNCHANGED <<disk, panel, current, cursor, ready, import, turns, urgent, answers, copies, counts>>

\* The user declines, or the number cannot be read.
No ==
  /\ asked.kind # "none" /\ asked' = NoQuestion
  /\ UNCHANGED <<disk, drafts, panel, current, cursor, change, late, ready, strayed, import, turns,
                 thread, copies, counts>>

AskBackup ==
  /\ MayBegin /\ import.at = "none" /\ backups < MaxBackups
  /\ normal' = Append(normal, [op |-> "backup"]) /\ backups' = backups + 1
  /\ UNCHANGED <<disk, page, import, turns, urgent, answers, copies, imports, sends, changes, faults>>

-----------------------------------------------------------------------------
(* The data thread.                                                           *)

Fresh == Conversations \ (convs \union {cursor})
\* Rows without a message are dropped, then every object that no row names.
Cleaned(rs, spared) ==
  /\ files' = files \cap (Referenced(rs) \union spared)
  /\ loose' = loose \union ((files \ files') \cap
       ({import.content} \union import.items \union (UNION {t.items : t \in unsaved}) \union late \union
        (IF ready THEN {} ELSE panel)))

Reply(ok, conv) == answers' = Append(answers, [ok |-> ok, req |-> Head(urgent \o normal), conv |-> conv])

DoStart(r) ==
  /\ r.op = "start" /\ Cleaned(rows, {}) /\ Reply(TRUE, cursor)
  /\ UNCHANGED <<rows, convs, build, archive>>

\* The message and the names of its objects
Named(turn, conv) == [conv |-> conv, items |-> turn.items]
DoSave(r) ==
  /\ r.op = "save" /\ Reply(r.conv \in convs, None)
  /\ rows' = IF r.conv \in convs THEN [rows EXCEPT ![r.turn.msg] = Named(r.turn, r.conv)] ELSE rows
  /\ UNCHANGED <<files, loose, convs, build, archive>>

DoLoad(r) ==
  /\ r.op = "load" /\ Reply(r.conv \in convs, r.conv)
  /\ UNCHANGED <<disk, copies>>

DoCreate(r) ==
  /\ r.op = "create" /\ \E c \in Fresh : convs' = convs \union {c} /\ Reply(TRUE, c)
  /\ UNCHANGED <<files, rows, loose, copies>>

DoDelete(r) ==
  /\ r.op = "delete"
  /\ rows' = [m \in Messages |-> IF rows[m].conv = r.conv THEN NoRow ELSE rows[m]]
  /\ Cleaned(rows', r.spared)
  /\ LET left == convs \ {r.conv}
         shown == IF r.shown # r.conv THEN {r.shown} ELSE IF left # {} THEN left ELSE Fresh
     IN \E c \in shown : convs' = left \union {c} /\ Reply(TRUE, c)
  /\ UNCHANGED copies

DoClear(r) ==
  /\ r.op = "clear"
  /\ rows' = [m \in Messages |-> NoRow] /\ Cleaned(rows', {})
  /\ \E c \in Fresh : convs' = {c} /\ Reply(TRUE, c)
  /\ UNCHANGED copies

DoFail ==
  /\ Fault /\ Head(urgent \o normal).op \in {"save", "load", "create", "delete", "clear"}
  /\ Reply(FALSE, None) /\ UNCHANGED <<disk, copies>>

Taken == IF urgent # <<>> THEN urgent' = Tail(urgent) /\ UNCHANGED normal
                          ELSE normal' = Tail(normal) /\ UNCHANGED urgent
Work ==
  /\ urgent \o normal # <<>> /\ Taken
  /\ LET r == Head(urgent \o normal) IN
       \/ (DoStart(r) \/ DoSave(r) \/ DoLoad(r) \/ DoCreate(r) \/ DoDelete(r) \/ DoClear(r))
            /\ UNCHANGED faults
       \/ DoFail
  /\ UNCHANGED <<page, import, turns, imports, sends, changes, backups>>

\* The backup is one operation of the thread, cut into steps for the crash.
BackupFails ==
  build' = NoBuild /\ normal' = Tail(normal) /\ UNCHANGED <<urgent, answers, archive>>
Backup == normal # <<>> /\ Head(normal).op = "backup" /\ (build # NoBuild \/ urgent = <<>>)

Snapshot ==
  /\ Backup /\ build.at = "none"
  /\ build' = [at |-> "rows", rows |-> Referenced(rows), objects |-> {}]
  /\ UNCHANGED <<disk, page, import, turns, thread, archive, counts>>

\* An object that is missing ends the backup.  What is written may be damaged.
Archive ==
  /\ Backup /\ build.at = "rows"
  /\ IF build.rows \subseteq files
       THEN /\ \/ build' = [build EXCEPT !.at = "written", !.objects = build.rows] /\ UNCHANGED faults
               \/ /\ Fault
                  /\ \E o \in SUBSET build.rows :
                       build' = [build EXCEPT !.at = "written", !.objects = o]
            /\ UNCHANGED <<thread, archive>>
       ELSE BackupFails /\ UNCHANGED faults
  /\ UNCHANGED <<disk, page, import, turns, imports, sends, changes, backups>>

\* Mutant: the archive is kept without being staged and compared.
AcceptedAnyway == TRUE
Accepted == build.objects = build.rows
Keep ==
  /\ Backup /\ build.at = "written"
  /\ IF Accepted
       THEN archive' = [build EXCEPT !.at = "kept"] /\ build' = NoBuild
            /\ normal' = Tail(normal) /\ UNCHANGED <<urgent, answers>>
       ELSE BackupFails
  /\ UNCHANGED <<disk, page, import, turns, counts>>

-----------------------------------------------------------------------------
(* Answers.                                                                   *)

\* Drafts of conversations that are gone are forgotten; the panel takes the
\* draft of the conversation it changes to.
Shows(c) ==
  /\ drafts' = [d \in Conversations |-> IF d \in convs THEN drafts[d] ELSE {}]
  /\ current' = c /\ panel' = IF c = current THEN panel ELSE drafts'[c]
Over == change' = "none" /\ late' = {}

\* The panel refuses what it should show while a reply is running.
Takes(c) ==
  /\ cursor' = c
  /\ IF chat.at \in {"saving", "replying"} THEN UNCHANGED <<drafts, panel, current, unsaved>>
                                          ELSE Shows(c) /\ unsaved' = {}
Handle ==
  /\ answers # <<>> /\ answers' = Tail(answers)
  /\ LET a == Head(answers) IN
       \/ /\ a.req.op = "start" /\ ready' = TRUE
          /\ UNCHANGED <<drafts, panel, current, cursor, change, late, turns>>
       \/ /\ a.req.op = "save"
          /\ IF a.ok THEN chat' = [chat EXCEPT !.at = "replying"] /\ UNCHANGED unsaved
                     ELSE chat' = NoTurn /\ unsaved' = unsaved \union {a.req.turn}
          /\ UNCHANGED <<drafts, panel, current, cursor, change, late, ready>>
       \/ /\ a.req.op \in {"load", "create", "delete", "clear"}
          /\ IF a.req.op = change THEN Over ELSE UNCHANGED <<change, late>>
          /\ IF a.ok THEN Takes(a.conv) ELSE UNCHANGED <<drafts, panel, current, cursor, unsaved>>
          /\ UNCHANGED <<ready, chat>>
  /\ UNCHANGED <<disk, asked, strayed, import, urgent, normal, copies, counts>>

\* The list of conversations is read again when a reply ends.
ReplyEnds ==
  /\ chat.at = "replying" /\ chat' = NoTurn /\ Shows(cursor)
  /\ UNCHANGED <<disk, cursor, asked, change, late, ready, strayed, import, unsaved, thread, copies,
                 counts>>

Crash ==
  /\ Fault
  /\ drafts' = [c \in Conversations |-> {}] /\ panel' = {} /\ change' = "none" /\ late' = {}
  /\ import' = NoImport /\ chat' = NoTurn /\ unsaved' = {} /\ asked' = NoQuestion
  /\ current' = (IF cursor \in convs THEN cursor ELSE CHOOSE c \in convs : TRUE) /\ cursor' = current'
  /\ ready' = FALSE /\ urgent' = <<[op |-> "start"]>> /\ normal' = <<>> /\ answers' = <<>>
  /\ build' = NoBuild
  /\ UNCHANGED <<disk, archive, strayed, imports, sends, changes, backups>>

Next ==
  \/ Attach \/ SendWithPicture \/ Land \/ Imported \/ Remove \/ Send \/ Retry \/ Dispatch \/ Drop
  \/ Switch \/ New \/ AskDelete \/ Yes \/ No \/ AskBackup \/ Work \/ Snapshot \/ Archive \/ Keep
  \/ Handle \/ ReplyEnds \/ Crash

Spec == Init /\ [][Next]_vars

-----------------------------------------------------------------------------
(* Every variable holds values of its kind. *)
TypeOK ==
  /\ files \subseteq Contents /\ panel \subseteq Contents /\ loose \subseteq Contents \union {None}
  /\ \A m \in Messages : rows[m].conv \in convs \union {None} /\ rows[m].items \subseteq Contents
  /\ convs \subseteq Conversations /\ {current, cursor} \subseteq Conversations
  /\ import.at \in {"none", "copying", "landed"} /\ build.at \in {"none", "rows", "written"}
  /\ chat.at \in {"idle", "waiting", "again", "saving", "replying"}
  /\ change \in {"none", "load", "create", "delete", "clear"} /\ {ready, strayed} \subseteq BOOLEAN
  /\ asked.kind \in {"none", "delete", "clear"}

(* The object of every saved attachment is on disk, unless it was removed while *)
(* the deletion could not know of it (it was being imported, or its message was  *)
(* waiting for a picture; it was attached after the deletion was confirmed; the  *)
(* row of its turn had not been saved) or a deletion was confirmed while the     *)
(* chat was at work or another change was under way, where one is refused.       *)
SavedHasItsFile == strayed \/ \A m \in Messages : rows[m].items \subseteq files \union loose

(* What stands at the destination of a backup is a complete archive: all the     *)
(* objects its rows name, whatever was removed, damaged or interrupted.          *)
BackupIsWhole == archive.objects = archive.rows

(* Both. *)
AttachmentsAreKept == SavedHasItsFile /\ BackupIsWhole

(* The object of every saved attachment is on disk.                              *)
EverySavedHasItsFile == \A m \in Messages : rows[m].items \subseteq files
=============================================================================
