------------------------------ MODULE History ------------------------------
(* Which conversation the window shows, which one the next message goes to,    *)
(* and what the database holds.  controller.py keeps the pending change        *)
(* (switch, create, delete, clear) and the question asked before a deletion;   *)
(* local_data_service.py keeps the cursor (_current_conversation_id), which    *)
(* every answer of the data thread may move; conversation.py keeps the turns   *)
(* of the panel and refuses new ones while a reply is running.  Requests run   *)
(* one at a time, the urgent ones first, and their answers come back in order. *)
EXTENDS Naturals, Sequences, FiniteSets

CONSTANTS Conversations,  \* identifiers of conversations, never used twice
          First,          \* the conversation opened at start
          None,           \* no conversation
          MaxSends, MaxChanges, MaxWrites, MaxFaults

VARIABLES convs,     \* rows of table conversations
          used,      \* identifiers given out so far
          saved,     \* message -> the conversation its row belongs to, or None
          reply,     \* message -> state of the assistant row
          cursor,    \* LocalDataService._current_conversation_id
          writable,  \* LocalDataService._writable
          panel,     \* the turns of the coordinator: conversation, messages, failed ones
          chat,      \* the foreground action and the attempt
          change,    \* _conversation_switch_pending and the _pending_conversation_* fields
          question,  \* _pending_temporal_history_action
          dialog,    \* the open confirmation, or None
          urgent, normal,  \* the data thread's queue: FOREGROUND, INTERACTIVE
          answers,   \* callbacks on their way to the user interface
          typed,     \* message -> the conversation shown when it was sent
          framing,   \* messages sent with live vision on: the picture they take along is
                     \* being imported, and nothing else knows of them
          fixed,     \* message -> the conversation shown when its picture was there, or None
          erased,    \* messages whose conversation was deleted
          strayed,   \* a deletion was confirmed where it would be refused, or a page
                     \* that no change was waiting for moved the cursor
          changes, writes, faults

vars == <<convs, used, saved, reply, cursor, writable, panel, chat, change, question, dialog,
          urgent, normal, answers, typed, framing, fixed, erased, strayed, changes, writes, faults>>
rows == <<convs, used, saved, reply, erased>>
sent == <<typed, framing, fixed>>
queues == <<urgent, normal, answers>>
counts == <<changes, writes, faults>>

Messages == 1..MaxSends
NoChange == [on |-> FALSE, kind |-> "none", target |-> None, before |-> None]
Quiet == [at |-> "idle", msg |-> 0]

Init ==
  /\ convs = {First} /\ used = {First} /\ cursor = First /\ writable = TRUE
  /\ saved = [m \in Messages |-> None] /\ reply = [m \in Messages |-> "none"]
  /\ panel = [conv |-> First, turns |-> {}, failed |-> {}]
  /\ chat = Quiet /\ change = NoChange /\ question = NoChange /\ dialog = NoChange
  /\ urgent = <<>> /\ normal = <<>> /\ answers = <<>>
  /\ typed = [m \in Messages |-> None] /\ framing = {} /\ fixed = typed /\ erased = {} /\ strayed = FALSE
  /\ changes = 0 /\ writes = 0 /\ faults = 0

Ask(op, conv, other) == [op |-> op, conv |-> conv, other |-> other, msg |-> 0]
About(op, conv, m) == [op |-> op, conv |-> conv, other |-> None, msg |-> m]
\* An answer carries the request, and the page it read: a conversation with its
\* messages, the failed ones and the list of all conversations.
NoPage == [conv |-> None, turns |-> {}, failed |-> {}, list |-> {}]
Answer(r, ok, page) == [req |-> r, ok |-> ok, page |-> page]

-----------------------------------------------------------------------------
(* Messages: the foreground action waits for background generation to stop.   *)

ChatActive == chat.at \in {"saving", "replying", "finishing"}
Unsent == {m \in Messages : typed[m] = None}

\* A message is typed or, in a hands-free voice session, spoken: speech goes on
\* while a confirmation is open.
Sent(m) ==
  /\ writable /\ ~change.on
  /\ m \in Unsent /\ \A x \in Unsent : m <= x
  /\ typed' = [typed EXCEPT ![m] = panel.conv]
  /\ UNCHANGED <<rows, queues, counts, cursor, writable, panel, change, question, dialog, fixed,
                 strayed>>

Send ==
  \E m \in Messages :
    /\ Sent(m) /\ chat = Quiet /\ chat' = [at |-> "waiting", msg |-> m]
    /\ UNCHANGED framing

\* With live vision on the latest picture is imported first.  Until it is there no
\* action is pending, and nothing keeps the history from changing.
SendWithPicture ==
  \E m \in Messages : Sent(m) /\ framing' = framing \union {m} /\ UNCHANGED chat

Dispatchable == writable /\ ~change.on
\* The message is queued again, with its picture, for what is shown by now; it is
\* lost when the import fails or the chat is at work.
OnPicture ==
  /\ \E m \in framing :
       /\ framing' = framing \ {m}
       /\ \/ /\ Dispatchable /\ chat = Quiet
             /\ chat' = [at |-> "waiting", msg |-> m]
             /\ fixed' = [fixed EXCEPT ![m] = panel.conv]
          \/ UNCHANGED <<chat, fixed>>
  /\ UNCHANGED <<rows, queues, counts, cursor, writable, panel, change, question, dialog,
                 typed, strayed>>

Retry ==
  /\ chat = Quiet /\ writable /\ ~change.on /\ dialog = NoChange
  /\ \E m \in panel.failed : chat' = [at |-> "waiting", msg |-> m]
  /\ UNCHANGED <<rows, queues, counts, cursor, writable, panel, change, question, dialog,
                 sent, strayed>>

\* The turn goes into the panel at once; its row is written for the cursor.
Dispatch ==
  /\ chat.at = "waiting"
  /\ IF Dispatchable
       THEN /\ chat' = [chat EXCEPT !.at = "saving"]
            /\ panel' = [panel EXCEPT !.turns = @ \union {chat.msg}, !.failed = @ \ {chat.msg}]
            /\ urgent' = Append(urgent, About("save", cursor, chat.msg))
       ELSE /\ chat' = Quiet
            /\ UNCHANGED <<panel, urgent>>
  /\ UNCHANGED <<rows, counts, cursor, writable, change, question, dialog, normal, answers,
                 sent, strayed>>

LaneTimeout ==
  /\ chat.at = "waiting" /\ chat' = Quiet
  /\ UNCHANGED <<rows, queues, counts, cursor, writable, panel, change, question, dialog,
                 sent, strayed>>

ReplyEnds ==
  /\ chat.at = "replying"
  /\ chat' = [chat EXCEPT !.at = "finishing"]
  /\ \E good \in BOOLEAN :
       urgent' = Append(urgent, About(IF good THEN "finalize" ELSE "fail", cursor, chat.msg))
  /\ UNCHANGED <<rows, counts, cursor, writable, panel, change, question, dialog, normal, answers,
                 sent, strayed>>

-----------------------------------------------------------------------------
(* Changes of the history.                                                    *)

\* Mutant: a message waiting for the lane is not looked at.
CanChangeAnyway == ~change.on /\ ~ChatActive
CanChange == ~change.on /\ chat = Quiet
AtControls == changes < MaxChanges /\ dialog = NoChange /\ CanChange

Starts(kind, target) ==
  /\ change' = [on |-> TRUE, kind |-> kind, target |-> target, before |-> cursor]
  /\ changes' = changes + 1
Steady == <<rows, cursor, panel, chat, urgent, answers, sent, writes, faults>>

\* delete and clear are refused at once when the store cannot be written, and
\* the controller's failure handler unlocks the controls.
Refusable(kind, target, request) ==
  IF writable THEN Starts(kind, target) /\ normal' = Append(normal, request)
              ELSE change' = NoChange /\ changes' = changes + 1 /\ UNCHANGED normal

Switch ==
  /\ AtControls
  /\ \E c \in convs \ {cursor} :
       Starts("switch", c) /\ normal' = Append(normal, Ask("load", c, None))
  /\ UNCHANGED <<Steady, writable, question, dialog, strayed>>

New ==
  /\ AtControls
  /\ Refusable("create", None, Ask("create", None, None))
  /\ UNCHANGED <<Steady, writable, question, dialog, strayed>>

\* The number of reminders that hang on the chats is asked first.
AskDelete ==
  /\ AtControls
  /\ \E q \in [on : {TRUE}, kind : {"delete"}, target : convs, before : {None}]
             \union {[NoChange EXCEPT !.on = TRUE, !.kind = "clear"]} :
       question' = q /\ normal' = Append(normal, Ask("count", q.target, None))
  /\ changes' = changes + 1
  /\ UNCHANGED <<Steady, writable, change, dialog, strayed>>

\* Nothing is looked at again when the question is answered.
Yes ==
  /\ dialog.on /\ dialog' = NoChange
  /\ IF dialog.kind = "delete"
       THEN Refusable("delete", dialog.target, Ask("delete", dialog.target, cursor))
       ELSE Refusable("clear", None, Ask("clear", None, None))
  /\ strayed' = (strayed \/ ~CanChange)
  /\ UNCHANGED <<Steady, writable, question>>

No ==
  /\ dialog.on /\ dialog' = NoChange
  /\ UNCHANGED <<Steady, writable, change, question, normal, changes, strayed>>

\* A reminder is confirmed, revised, snoozed, completed: the chat is read again.
WriteReminder ==
  /\ writes < MaxWrites /\ writable /\ dialog = NoChange
  /\ writes' = writes + 1
  /\ normal' = Append(normal, Ask("write", None, None))
  /\ UNCHANGED <<rows, cursor, writable, panel, chat, change, question, dialog, urgent, answers,
                 sent, strayed, changes, faults>>

\* A greeting, a reminder or a draft is opened in the chat shown now.
Post ==
  /\ writes < MaxWrites /\ writable
  /\ writes' = writes + 1
  /\ urgent' = Append(urgent, Ask("post", cursor, None))
  /\ UNCHANGED <<rows, cursor, writable, panel, chat, change, question, dialog, normal, answers,
                 sent, strayed, changes, faults>>

-----------------------------------------------------------------------------
(* The data thread.                                                           *)

In(c, sv) == {m \in Messages : sv[m] = c}
FailedIn(c, sv, rp) == {m \in In(c, sv) : rp[m] = "failed"}
Page(c, held, sv, rp) ==
  [conv |-> c, turns |-> In(c, sv), failed |-> FailedIn(c, sv, rp), list |-> held]
Without(gone) == [m \in Messages |-> IF m \in gone THEN None ELSE saved[m]]
Of(c) == {m \in Messages : saved[m] = c}

\* The rows of a turn: a user row that is there already stays where it is.
Insert(m, c) ==
  /\ saved' = [saved EXCEPT ![m] = IF @ = None THEN c ELSE @]
  /\ reply' = [reply EXCEPT ![m] = "pending"]
\* save_turn, or prepare_retry, which writes a missing user row again
DoSave(r, ok) ==
  /\ r.op = "save" /\ ok = (r.conv \in convs \/ saved[r.msg] # None)
  /\ IF ok THEN Insert(r.msg, r.conv)
           ELSE UNCHANGED <<saved, reply>>
  /\ answers' = Append(answers, Answer(r, ok, NoPage))
  /\ UNCHANGED <<convs, used, erased>>

DoFinalize(r, ok) ==
  /\ r.op \in {"finalize", "fail"} /\ ok = (saved[r.msg] # None)
  /\ reply' = [reply EXCEPT ![r.msg] = IF ~ok THEN @ ELSE IF r.op = "fail" THEN "failed" ELSE "done"]
  /\ answers' = Append(answers, Answer(r, ok, NoPage))
  /\ UNCHANGED <<convs, used, saved, erased>>

DoRead(r) ==
  /\ r.op \in {"load", "post"}
  /\ answers' = Append(answers, IF r.conv \in convs THEN Answer(r, TRUE, Page(r.conv, convs, saved, reply))
                                                    ELSE Answer(r, FALSE, NoPage))
  /\ UNCHANGED rows

DoPlain(r) ==
  /\ r.op \in {"count", "write"}
  /\ answers' = Append(answers, Answer(r, TRUE, NoPage))
  /\ UNCHANGED rows

DoCreate(r) ==
  /\ r.op = "create"
  /\ \E c \in Conversations \ used :
       /\ convs' = convs \union {c} /\ used' = used \union {c}
       /\ answers' = Append(answers, Answer(r, TRUE, Page(c, convs', saved, reply)))
  /\ UNCHANGED <<saved, reply, erased>>

\* The page after a deletion: the conversation that was current when the user
\* confirmed, or the most recent one, or a new one.
After(left, r) ==
  IF r.other # None /\ r.other # r.conv THEN {r.other}
  ELSE IF left # {} THEN left ELSE Conversations \ used
DoDelete(r) ==
  /\ r.op = "delete"
  /\ erased' = erased \union Of(r.conv) /\ saved' = Without(Of(r.conv))
  /\ LET left == convs \ {r.conv} IN
       \E c \in After(left, r) :
         IF c \in used /\ c \notin left
           THEN /\ convs' = left /\ UNCHANGED used
                /\ answers' = Append(answers, Answer(r, FALSE, NoPage))
           ELSE /\ convs' = left \union {c} /\ used' = used \union {c}
                /\ answers' = Append(answers, Answer(r, TRUE, Page(c, convs', saved', reply)))
  /\ UNCHANGED reply

DoClear(r) ==
  /\ r.op = "clear"
  /\ erased' = erased \union {m \in Messages : saved[m] # None}
  /\ saved' = [m \in Messages |-> None]
  /\ \E c \in Conversations \ used :
       /\ convs' = {c} /\ used' = used \union {c}
       /\ answers' = Append(answers, Answer(r, TRUE, Page(c, convs', saved', reply)))
  /\ UNCHANGED reply

Run(r) ==
  \/ \E ok \in BOOLEAN : (DoSave(r, ok) \/ DoFinalize(r, ok)) /\ UNCHANGED faults
  \/ (DoRead(r) \/ DoPlain(r) \/ DoCreate(r) \/ DoDelete(r) \/ DoClear(r)) /\ UNCHANGED faults
  \/ /\ faults < MaxFaults /\ faults' = faults + 1
     /\ answers' = Append(answers, Answer(r, FALSE, NoPage))
     /\ UNCHANGED rows

Work ==
  /\ \/ /\ urgent # <<>> /\ Run(Head(urgent)) /\ urgent' = Tail(urgent)
        /\ UNCHANGED normal
     \/ /\ urgent = <<>> /\ normal # <<>> /\ Run(Head(normal)) /\ normal' = Tail(normal)
        /\ UNCHANGED urgent
  /\ UNCHANGED <<cursor, writable, panel, chat, change, question, dialog, sent, strayed,
                 changes, writes>>

-----------------------------------------------------------------------------
(* Answers on the user interface's thread.                                    *)

Matches(page) ==
  /\ change.on
  /\ CASE change.kind = "switch" -> page.conv = change.target
       [] change.kind = "create" -> page.conv # change.before
       [] change.kind = "delete" -> change.target \notin page.list
       [] change.kind = "clear"  -> Cardinality(page.list) = 1 /\ page.conv # change.before

\* Mutant: the turns of the page are added to those of the panel.
Added(page) == [conv |-> page.conv, turns |-> panel.turns \union page.turns,
                failed |-> panel.failed \union page.failed]
Shown(page) == [conv |-> page.conv, turns |-> page.turns, failed |-> page.failed]

\* The cursor moves whatever the panel does; the panel keeps its turns while a
\* reply is running.
OnLoaded(page) ==
  /\ cursor' = page.conv
  /\ change' = IF Matches(page) THEN NoChange ELSE change
  /\ panel' = IF ChatActive THEN panel ELSE Shown(page)
  /\ strayed' = (strayed \/ (page.conv # cursor /\ ~Matches(page)))
  /\ UNCHANGED <<writable, chat, question, dialog, normal>>

Reads == {"load", "create", "delete", "clear"}
OperationOf(kind) == IF kind = "switch" THEN "load" ELSE kind
\* Mutant: a failed clear is not a failed change.
FailsButClear(r) == change.on /\ r.op = OperationOf(change.kind) /\ r.op # "clear"
Fails(r) == change.on /\ r.op = OperationOf(change.kind)

Handle ==
  /\ answers # <<>> /\ answers' = Tail(answers)
  /\ LET a == Head(answers) r == a.req IN
       \/ /\ a.ok /\ r.op \in Reads /\ OnLoaded(a.page)
       \/ /\ a.ok /\ r.op = "post" /\ r.conv = cursor /\ OnLoaded(a.page)
       \/ /\ \/ a.ok /\ r.op = "post" /\ r.conv # cursor
             \/ ~a.ok /\ r.op \in {"post", "write"}
          /\ UNCHANGED <<cursor, writable, panel, chat, change, question, dialog, normal, strayed>>
       \/ /\ ~a.ok /\ r.op \in Reads
          /\ change' = IF Fails(r) THEN NoChange ELSE change
          /\ UNCHANGED <<cursor, writable, panel, chat, question, dialog, normal, strayed>>
       \/ /\ r.op = "count"
          /\ IF ~a.ok THEN question' = NoChange /\ UNCHANGED dialog
             ELSE IF question.on /\ question.target = r.conv
               THEN question' = NoChange /\ dialog' = question
               ELSE UNCHANGED <<question, dialog>>
          /\ UNCHANGED <<cursor, writable, panel, chat, change, normal, strayed>>
       \/ /\ a.ok /\ r.op = "write"
          /\ normal' = Append(normal, Ask("load", cursor, None))
          /\ UNCHANGED <<cursor, writable, panel, chat, change, question, dialog, strayed>>
       \/ /\ r.op = "save"
          /\ chat' = IF a.ok THEN [chat EXCEPT !.at = "replying"] ELSE Quiet
          /\ panel' = IF a.ok THEN panel ELSE [panel EXCEPT !.failed = @ \union {r.msg}]
          /\ UNCHANGED <<cursor, writable, change, question, dialog, normal, strayed>>
       \/ /\ r.op \in {"finalize", "fail"}
          /\ chat' = Quiet /\ writable' = (writable /\ a.ok)
          /\ panel' = IF a.ok /\ r.op = "finalize" THEN panel
                      ELSE [panel EXCEPT !.failed = @ \union {r.msg}]
          /\ UNCHANGED <<cursor, change, question, dialog, normal, strayed>>
  /\ UNCHANGED <<rows, urgent, sent, counts>>

Next ==
  \/ Send \/ SendWithPicture \/ OnPicture \/ Retry \/ Dispatch \/ LaneTimeout \/ ReplyEnds
  \/ Switch \/ New \/ AskDelete \/ Yes \/ No \/ WriteReminder \/ Post
  \/ Work \/ Handle

Spec == Init /\ [][Next]_vars
\* The data thread and the event loop run whenever they have something to do.
FairSpec == Spec /\ WF_vars(Work) /\ WF_vars(Handle)

-----------------------------------------------------------------------------
(* Every variable holds values of its kind. *)
TypeOK ==
  /\ First \in used /\ convs \subseteq used /\ used \subseteq Conversations
  /\ cursor \in used /\ panel.conv \in used /\ panel.failed \subseteq panel.turns
  /\ panel.turns \subseteq Messages /\ chat.msg \in 0..MaxSends
  /\ \A m \in Messages : saved[m] \in convs \union {None} /\ typed[m] \in used \union {None}
                         /\ fixed[m] \in used \union {None}
  /\ framing \subseteq Messages
  /\ {writable, strayed} \subseteq BOOLEAN

(* A message is written into the conversation that was shown when the user     *)
(* sent it or, if it takes a picture along, when the picture was there; through *)
(* waiting for the lane and changes in the meantime, except when the cursor     *)
(* strayed: a deletion confirmed while the chat was at work, or the page read   *)
(* again after a reminder was written.                                          *)
SentTo(m) == IF fixed[m] = None THEN typed[m] ELSE fixed[m]
SavedWhereShown == strayed \/ \A m \in Messages : saved[m] \in {None, SentTo(m)}

(* The text of a deleted conversation is not on disk again: retry writes a      *)
(* missing user row anew, so a turn of a deleted conversation must have left    *)
(* the panel.                                                                   *)
DeletedIsGone == strayed \/ \A m \in erased : saved[m] = None

(* Both. *)
HistoryIsKept == SavedWhereShown /\ DeletedIsGone

(* A change of the history ends, and the controls it locked are unlocked.       *)
Changing == change.on
ChangeEnds == Changing ~> ~Changing

(* No change of the history is under way while a reply is running.              *)
NoChangeDuringReply == ~(change.on /\ ChatActive)
=============================================================================
