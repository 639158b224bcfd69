----------------------------- MODULE Greetings -----------------------------
(***************************************************************************)
(* Greetings the companion makes unasked: ProactiveInteractionController on *)
(* the main thread, the ledger of shown greetings, and the cues, private    *)
(* follow-ups the user allowed, that a greeting may carry.                  *)
(*                                                                         *)
(* The controller asks the data thread (jobs, in order) and hears of it     *)
(* later (results, in order).  What the user does to a cue or to the memory *)
(* behind it is a transaction of the interactive lane, which overtakes the   *)
(* jobs here, so it is one step.                                             *)
(*                                                                         *)
(* _active_event_id is set together with _active_greeting, so no click or    *)
(* dismissal ever waits for _on_event_displayed.                             *)
(***************************************************************************)
EXTENDS Naturals, Sequences, FiniteSets

CONSTANTS ChatCues, MemoryCues,  \* a conversation to come back to; a memory version
          Limit,      \* daily_limit
          MaxDay, MaxCycles, MaxShown, MaxChanges,  \* bounds
          MaxRare     \* bound on failed transactions, midnights and stops together

VARIABLES
  c,        \* the controller: running, opportunity, greeting on show, model lane;
            \* late, history: an opportunity began while another was not over
  settings, \* mode and ai_greetings_enabled
  quiet,    \* any other condition of the policy forbids a greeting
  away,     \* the user gave no input for IDLE_THRESHOLD_SECONDS
  today,
  bubble,   \* the greeting bubble is visible
  runner,   \* per runner: the request it works on and whether it is cancelled
  jobs, results,
  events,   \* proactive_events: by id, its day, cue and disposition
  cue,      \* companion_cues: by source, its status, keep_until_resolved and cue_id,
            \* here the number of the proposal
  backed,   \* cues whose source is live and supported by the user
  opened,   \* messages in the chat per cue
  refused,  \* history: memories whose change the database refused
  cycles, changes, rare

db == <<events, cue, backed, opened, refused>>
env == <<settings, quiet, away, today>>
bounds == <<cycles, changes, rare>>
vars == <<c, env, bubble, runner, jobs, results, db, bounds>>

Cues == ChatCues \cup MemoryCues
NoCue == <<"none", 0>>
None == [none |-> TRUE]
Triggers == {"startup", "idle"}
Runners == {"text", "visual"}
Ids == 1..MaxShown
Live == {"proposed", "active", "surfaced"}
NoEvent == [st |-> "absent", day |-> 0, cue |-> NoCue]

TypeOK ==
  /\ settings \in [mode : {"off", "startup_only", "restrained"}, ai : BOOLEAN]
  /\ today \in 1..MaxDay
  /\ c.lane \in Runners \cup {"free"}
  /\ c.active = None \/ c.active.id \in Ids
  /\ c.pending = None \/ c.pending.trigger \in Triggers
  /\ events \in [Ids -> [st : {"absent", "displayed", "dismissed", "clicked"},
                         day : 0..MaxDay, cue : (Cues \X Nat) \cup {NoCue}]]
  /\ cue \in [Cues -> [st : Live \cup {"absent", "resolved", "rejected", "expired"}, keep : BOOLEAN,
                       n : Nat]]
  /\ backed \subseteq Cues /\ refused \subseteq MemoryCues

Init ==
  /\ c = [running |-> FALSE, startup |-> FALSE, idle |-> FALSE, pending |-> None,
          active |-> None, lane |-> "free", shown |-> 0, late |-> FALSE]
  /\ settings = [mode |-> "restrained", ai |-> TRUE]
  /\ quiet = FALSE /\ away = FALSE /\ today = 1 /\ bubble = FALSE
  /\ runner = [r \in Runners |-> None] /\ jobs = <<>> /\ results = <<>>
  /\ events = [i \in Ids |-> NoEvent]
  /\ cue \in [Cues -> [st : {"absent", "active"}, keep : {FALSE}, n : {0}]]
  /\ backed = Cues /\ opened = [q \in Cues |-> 0] /\ refused = {}
  /\ cycles = 0 /\ changes = 0 /\ rare = 0
-----------------------------------------------------------------------------
(* Helpers of the controller.                                              *)

Job(op, id, q, trigger) == [op |-> op, id |-> id, cue |-> q, trigger |-> trigger, day |-> today]
Ask(j) == jobs' = Append(jobs, j)

\* _clear_pending_opportunity and _clear_active
Cleared(x) == [x EXCEPT !.pending = None]
Ended(x) == [x EXCEPT !.active = None]

\* evaluate_proactive_policy, for n greetings shown today
Allowed(trigger, n) ==
  /\ settings.mode # "off"
  /\ trigger = "idle" => settings.mode = "restrained"
  /\ n < Limit
  /\ ~quiet

\* _display_local and _display: the bubble comes first, the ledger second.
\* The opportunity counts the greetings shown before it.
Shows(x, q) ==
  /\ x.running /\ x.pending.day = today /\ Allowed(x.pending.trigger, x.pending.count)
  /\ x.shown < MaxShown
Display(x, q) ==
  IF Shows(x, q)
  THEN /\ c' = [Cleared(x) EXCEPT !.shown = @ + 1,
                  !.active = [id |-> x.shown + 1, cue |-> q, trigger |-> x.pending.trigger,
                              count |-> x.pending.count]]
       /\ bubble' = TRUE
       /\ Ask(Job("display", x.shown + 1, q, x.pending.trigger))
  ELSE c' = Cleared(x) /\ UNCHANGED <<bubble, jobs>>

\* _acquire_proactive_ai_lane: neither runner may be at work.  What else it
\* looks at may refuse it too.
LaneFree == \A r \in Runners : runner[r] = None

Generate(x, r) ==
  /\ LaneFree
  /\ runner' = [runner EXCEPT ![r] = [trigger |-> x.pending.trigger, day |-> x.pending.day, live |-> TRUE]]
  /\ c' = [x EXCEPT !.lane = r]
  /\ UNCHANGED <<bubble, jobs>>

\* _continue_generic.  A visual plan claims the opportunity, so without a
\* frame or a free lane nothing is shown.
Continue(x) ==
  \/ Generate(x, "visual")
  \/ c' = Cleared(x) /\ UNCHANGED <<bubble, jobs, runner>>
  \/ settings.ai /\ Generate(x, "text")
  \/ Display(x, NoCue) /\ UNCHANGED runner

\* _dismiss_active: only a visible greeting that was not clicked emits it.
Dismiss ==
  /\ bubble' = FALSE
  /\ IF bubble /\ c.active # None THEN Ask(Job("dismiss", c.active.id, NoCue, "idle"))
     ELSE UNCHANGED jobs

\* _cancel_active_generation and _release_ai.  The worker may go on a while;
\* when it stops at once its failure is told at once, to an owner that has
\* no opportunity left.
CancelAi(x) ==
  /\ c' = [Cleared(x) EXCEPT !.lane = "free"]
  /\ IF x.lane = "free" THEN UNCHANGED runner
     ELSE \/ runner' = [runner EXCEPT ![x.lane].live = FALSE]
          \/ runner' = [runner EXCEPT ![x.lane] = None]
-----------------------------------------------------------------------------
(* Timers and the user.                                                    *)

Rarely == rare < MaxRare /\ rare' = rare + 1

Start ==
  /\ ~c.running
  /\ c' = [c EXCEPT !.running = TRUE]
  /\ UNCHANGED <<env, bubble, runner, jobs, results, db, bounds>>

\* stop, for a change of the data as a whole that is then given up
Stop ==
  /\ c.running /\ Rarely
  /\ CancelAi([Ended(c) EXCEPT !.running = FALSE])
  /\ Dismiss
  /\ UNCHANGED <<env, results, db, cycles, changes>>

\* History: what an earlier opportunity asked of the data thread or of a model
\* is not all answered.
Asked(j) == j.op \in {"count", "context", "display"}
StillOut == \/ \E i \in DOMAIN jobs : Asked(jobs[i])
            \/ \E i \in DOMAIN results : Asked(results[i].job)
            \/ ~LaneFree
\* _request_opportunity, with the trigger consumed whatever comes of it
Request(x, trigger) ==
  IF x.pending = None /\ x.active = None
  THEN /\ c' = [x EXCEPT !.pending = [trigger |-> trigger, day |-> today, count |-> 0],
                         !.late = @ \/ StillOut]
       /\ Ask(Job("count", 0, NoCue, trigger))
  ELSE c' = x /\ UNCHANGED jobs

StartupDue ==
  /\ c.running /\ ~c.startup
  /\ Request([c EXCEPT !.startup = TRUE], "startup")
  /\ UNCHANGED <<env, bubble, runner, results, db, bounds>>

\* poll
Poll ==
  /\ c.running /\ c.idle # away
  /\ IF away THEN Request([c EXCEPT !.idle = TRUE], "idle")
     ELSE c' = [c EXCEPT !.idle = FALSE] /\ UNCHANGED jobs
  /\ UNCHANGED <<env, bubble, runner, results, db, bounds>>

UserLeaves == ~away /\ cycles < MaxCycles /\ cycles' = cycles + 1 /\ away' = TRUE
              /\ UNCHANGED <<c, settings, quiet, today, bubble, runner, jobs, results, db, changes, rare>>
UserReturns == away /\ away' = FALSE
               /\ UNCHANGED <<c, settings, quiet, today, bubble, runner, jobs, results, db, bounds>>
Midnight == today < MaxDay /\ Rarely /\ today' = today + 1
            /\ UNCHANGED <<c, settings, quiet, away, bubble, runner, jobs, results, db, cycles, changes>>

Change == changes < MaxChanges /\ changes' = changes + 1 /\ UNCHANGED <<cycles, rare>>

\* _set_proactive_value
SetMode(m) ==
  /\ Change /\ settings.mode # m /\ settings' = [settings EXCEPT !.mode = m]
  /\ CancelAi(c)
  /\ IF m = "off" THEN Dismiss ELSE UNCHANGED <<bubble, jobs>>
  /\ UNCHANGED <<quiet, away, today, results, db>>
SetAi ==
  /\ Change /\ settings' = [settings EXCEPT !.ai = ~@]
  /\ IF settings.ai THEN CancelAi(c) ELSE UNCHANGED <<c, runner>>
  /\ UNCHANGED <<quiet, away, today, bubble, jobs, results, db>>

\* A visible request of the chat takes the lane; while it runs, no greeting.
ChatBegins ==
  /\ Change /\ ~quiet /\ quiet' = TRUE
  /\ CancelAi(c)
  /\ UNCHANGED <<settings, away, today, bubble, jobs, results, db>>
\* The pet is hidden: its bubble goes with it.
PetHidden ==
  /\ Change /\ ~quiet /\ quiet' = TRUE
  /\ Dismiss
  /\ UNCHANGED <<c, settings, away, today, runner, results, db>>
QuietEnds ==
  /\ quiet /\ quiet' = FALSE
  /\ UNCHANGED <<c, settings, away, today, bubble, runner, jobs, results, db, bounds>>

\* The bubble: a click hides it before anything else happens; left alone, it
\* goes after GREETING_BUBBLE_TIMEOUT_MS.
Click ==
  /\ bubble /\ bubble' = FALSE
  /\ IF c.active # None THEN Ask(Job("click", c.active.id, NoCue, "idle")) ELSE UNCHANGED jobs
  /\ UNCHANGED <<c, env, runner, results, db, bounds>>
Timeout ==
  /\ bubble /\ Dismiss
  /\ UNCHANGED <<c, env, runner, results, db, bounds>>
-----------------------------------------------------------------------------
(* The runners.                                                            *)

\* _on_ai_failure and a success that is not a valid greeting: only the text
\* lane has a local greeting to fall back on.
Free(x) == [x EXCEPT !.lane = "free"]
Wanted(g) == /\ c.running /\ c.pending # None
             /\ c.pending.trigger = g.trigger /\ c.pending.day = g.day
GenerationFails(r) ==
  LET g == runner[r] IN
  /\ g # None
  /\ runner' = [runner EXCEPT ![r] = None]
  /\ IF c.lane # "visual" /\ Wanted(g) /\ settings.ai THEN Display(Free(c), NoCue)
     ELSE c' = Cleared(Free(c)) /\ UNCHANGED <<bubble, jobs>>
  /\ UNCHANGED <<env, results, db, bounds>>

\* _on_ai_success
GenerationEnds(r) ==
  LET g == runner[r] IN
  /\ g # None /\ g.live
  /\ runner' = [runner EXCEPT ![r] = None]
  /\ IF Wanted(g) /\ (c.lane = "visual" \/ settings.ai) THEN Display(Free(c), NoCue)
     ELSE c' = Cleared(Free(c)) /\ UNCHANGED <<bubble, jobs>>
  /\ UNCHANGED <<env, results, db, bounds>>
-----------------------------------------------------------------------------
(* The data thread.                                                        *)

\* A live cue may not be kept and have an expiry date: the table's CHECK
\* refuses the UPDATE of a trigger that dates a kept cue, and with it the
\* statement that fired the trigger.
Dates(q) == ~cue[q].keep
Expired(Q) == [q \in Cues |-> IF q \in Q /\ cue[q].st \in Live THEN [cue[q] EXCEPT !.st = "expired"] ELSE cue[q]]

\* Mutant: a greeting that was waved away does not count.
CountUndismissed(day) == Cardinality({i \in Ids : events[i].st \in {"displayed", "clicked"} /\ events[i].day = day})
\* count_displayed_for_date, whatever became of the greeting
CountOf(day) == Cardinality({i \in Ids : events[i].st # "absent" /\ events[i].day = day})

Answer(j, ok, n, q) == results' = Append(results, [job |-> j, ok |-> ok, count |-> n, cue |-> q])
Fails(j) == Answer(j, FALSE, 0, NoCue) /\ UNCHANGED db

\* select_proactive_presentation: conversations before memories, each after
\* its source was looked at; a cue without one expires on the way.
Earlier(q) == IF q \in MemoryCues THEN ChatCues ELSE {}
Select(j) ==
  LET on == {q \in Cues : cue[q].st = "active"}
      gone == on \ backed
  IN \/ \E q \in on \cap backed :
          LET passed == gone \cap Earlier(q) IN
          /\ on \cap backed \cap Earlier(q) = {}
          /\ IF \A p \in passed : Dates(p)
             THEN Answer(j, TRUE, 0, <<q, cue[q].n>>) /\ cue' = Expired(passed) /\ UNCHANGED <<events, backed, opened, refused>>
             ELSE Fails(j)
     \/ /\ on \cap backed = {}
        /\ IF \A p \in gone : Dates(p)
           THEN Answer(j, TRUE, 0, NoCue) /\ cue' = Expired(gone) /\ UNCHANGED <<events, backed, opened, refused>>
           ELSE Fails(j)

\* mark_surfaced
\* A cue_id names one proposal: what is proposed anew for its source has another.
Names(k) == cue[k[1]].n = k[2]
MaySurface(k) == Names(k) /\ cue[k[1]].st = "active" /\ k[1] \in backed
\* Mutant: a cue that was shown stays as it is.
NotSpent(k) == cue
Spent(k) == [cue EXCEPT ![k[1]].st = "surfaced"]

\* record_displayed: the cue is spent in the transaction that counts it.
Record(j) ==
  IF j.cue # NoCue => MaySurface(j.cue)
  THEN /\ events' = [events EXCEPT ![j.id] = [st |-> "displayed", day |-> j.day, cue |-> j.cue]]
       /\ cue' = IF j.cue = NoCue THEN cue ELSE Spent(j.cue)
       /\ Answer(j, TRUE, 0, NoCue) /\ UNCHANGED <<backed, opened, refused>>
  ELSE Fails(j)

\* record_dismissed
Forget(j) ==
  IF events[j.id].st \in {"displayed", "dismissed"}
  THEN /\ events' = [events EXCEPT ![j.id].st = "dismissed"]
       /\ Answer(j, TRUE, 0, NoCue) /\ UNCHANGED <<cue, backed, opened, refused>>
  ELSE Fails(j)

\* persist_greeting_on_click: the consent is looked at once more.
MayOpen(k) == Names(k) /\ cue[k[1]].st = "surfaced" /\ k[1] \in backed
Persist(j) ==
  IF events[j.id].st = "displayed" /\ (events[j.id].cue # NoCue => MayOpen(events[j.id].cue))
  THEN /\ events' = [events EXCEPT ![j.id].st = "clicked"]
       /\ opened' = [q \in Cues |-> opened[q] + IF q = events[j.id].cue[1] THEN 1 ELSE 0]
       /\ Answer(j, TRUE, 0, NoCue) /\ UNCHANGED <<cue, backed, refused>>
  ELSE Fails(j)

RunJob ==
  /\ jobs # <<>> /\ jobs' = Tail(jobs)
  /\ LET j == Head(jobs) IN
       \/ j.op = "count" /\ Answer(j, TRUE, CountOf(j.day), NoCue) /\ UNCHANGED <<db, rare>>
       \/ j.op = "context" /\ Select(j) /\ UNCHANGED rare
       \/ j.op = "display" /\ Record(j) /\ UNCHANGED rare
       \/ j.op = "dismiss" /\ Forget(j) /\ UNCHANGED rare
       \/ j.op = "click" /\ Persist(j) /\ UNCHANGED rare
       \/ Rarely /\ Fails(j)
  /\ UNCHANGED <<c, env, bubble, runner, cycles, changes>>
-----------------------------------------------------------------------------
(* What the controller makes of an answer.                                 *)

\* _on_count_loaded: the answer to an earlier question of the same day will
\* do.  With contextual follow-ups off, the greeting is generic.
OnCount(r) ==
  LET x == [c EXCEPT !.pending.count = r.count] IN
  IF c.pending = None \/ c.pending.day # r.job.day
  THEN UNCHANGED <<c, bubble, runner, jobs>>
  ELSE IF today # c.pending.day \/ ~Allowed(c.pending.trigger, r.count)
  THEN c' = Cleared(c) /\ UNCHANGED <<bubble, runner, jobs>>
  ELSE \/ c' = x /\ Ask(Job("context", 0, NoCue, x.pending.trigger)) /\ UNCHANGED <<bubble, runner>>
       \/ Continue(x)

\* _on_presentation_loaded
OnContext(r) ==
  IF c.pending = None THEN UNCHANGED <<c, bubble, runner, jobs>>
  ELSE IF today # c.pending.day THEN c' = Cleared(c) /\ UNCHANGED <<bubble, runner, jobs>>
  ELSE IF r.cue # NoCue THEN Display(c, r.cue) /\ UNCHANGED runner
  ELSE Continue(c)

\* _on_event_dismissed and _on_greeting_persisted, which shows the chat
IsActive(j) == c.active # None /\ c.active.id = j.id
OnEnded(r) ==
  /\ c' = IF IsActive(r.job) THEN Ended(c) ELSE c
  /\ UNCHANGED <<bubble, runner, jobs>>

\* persistence_failed of a display.  A private greeting gives way to a
\* generic one, in the opportunity it was shown in.
OnDisplayFailed ==
  LET a == c.active IN
  IF a # None /\ a.cue # NoCue /\ c.running
  THEN LET x == [Ended(c) EXCEPT !.pending = [trigger |-> a.trigger, day |-> today, count |-> a.count]] IN
       IF Shows(x, NoCue) THEN Display(x, NoCue)
       ELSE c' = Cleared(x) /\ bubble' = FALSE /\ UNCHANGED jobs
  ELSE c' = Cleared(Ended(c)) /\ bubble' = FALSE /\ UNCHANGED jobs

\* Mutant: a click or a dismissal that could not be stored keeps its greeting.
KeepActive(x) == x
\* What a failed click or dismissal leaves of the greeting
AfterFailure(x) == Ended(x)

\* persistence_failed.  It is told which operation failed, not which event.
OnFailed(r) ==
  \/ /\ r.job.op = "context"
     /\ IF c.pending # None /\ c.pending.day = today THEN Continue(c)
        ELSE c' = Cleared(c) /\ UNCHANGED <<bubble, runner, jobs>>
  \/ /\ r.job.op = "display" /\ OnDisplayFailed /\ UNCHANGED runner
  \/ /\ r.job.op = "click"
     /\ c' = Cleared(AfterFailure(c))
     /\ IF c.active # None THEN Ask(Job("dismiss", c.active.id, NoCue, "idle")) ELSE UNCHANGED jobs
     /\ UNCHANGED <<bubble, runner>>
  \/ /\ r.job.op = "dismiss" /\ c' = Cleared(AfterFailure(c)) /\ UNCHANGED <<bubble, runner, jobs>>
  \/ /\ r.job.op = "count" /\ c' = Cleared(c) /\ UNCHANGED <<bubble, runner, jobs>>

Handle ==
  /\ results # <<>> /\ results' = Tail(results)
  /\ LET r == Head(results) IN
       IF ~r.ok THEN OnFailed(r)
       ELSE \/ r.job.op = "count" /\ OnCount(r)
            \/ r.job.op = "context" /\ OnContext(r)
            \/ r.job.op = "display" /\ UNCHANGED <<c, bubble, runner, jobs>>
            \/ r.job.op \in {"dismiss", "click"} /\ OnEnded(r)
  /\ UNCHANGED <<env, db, bounds>>
-----------------------------------------------------------------------------
(* Cues and the memories behind them.                                      *)

Interactive == Change /\ UNCHANGED <<c, env, bubble, runner, jobs, results, events>>

\* propose_conversation_followup and propose_memory_followup: not while one
\* for the same source is live.
Propose(q) ==
  /\ Interactive /\ cue[q].st \notin Live /\ q \in backed
  /\ cue' = [cue EXCEPT ![q] = [st |-> "proposed", keep |-> FALSE, n |-> @.n + 1]]
  /\ UNCHANGED <<backed, opened, refused>>
Confirm(q) ==
  /\ Interactive /\ cue[q].st = "proposed" /\ q \in backed
  /\ \E keep \in BOOLEAN : cue' = [cue EXCEPT ![q] = [@ EXCEPT !.st = "active", !.keep = keep]]
  /\ UNCHANGED <<backed, opened, refused>>
\* _transition
Moved(q, st) == [cue EXCEPT ![q].st = st]
\* reject, resolve, revoke_memory_authorization, delete, and expire_due
End(q) ==
  /\ Interactive
  /\ \E st \in {"rejected", "resolved", "absent", "expired"} :
       /\ st = "rejected" => cue[q].st \in {"proposed", "active"} \cup (IF q \in MemoryCues THEN Live ELSE {})
       /\ st = "resolved" => cue[q].st \in {"active", "surfaced"}
       /\ st = "expired" => cue[q].st \in {"active", "surfaced"} /\ ~cue[q].keep
       /\ st = "absent" => cue[q].st # "absent"
       /\ cue' = Moved(q, st)
  /\ UNCHANGED <<backed, opened, refused>>
SetKeep(q) ==
  /\ Interactive /\ cue[q].st \in {"active", "surfaced"}
  /\ cue' = [cue EXCEPT ![q].keep = ~@]
  /\ UNCHANGED <<backed, opened, refused>>
\* persist_companion_cue_manual_open
MayOpenByHand(q) == cue[q].st \in {"active", "surfaced"} /\ q \in backed
ManualOpen(q) ==
  /\ Interactive /\ MayOpenByHand(q)
  /\ opened' = [opened EXCEPT ![q] = @ + 1]
  /\ UNCHANGED <<cue, backed, refused>>
\* The conversation behind a cue is deleted: a memory only loses its last
\* supporter, a follow-up goes with its messages.
LoseConversation(q) ==
  /\ Interactive /\ q \in backed /\ backed' = backed \ {q}
  /\ cue' = IF q \in ChatCues THEN [cue EXCEPT ![q].st = "absent"] ELSE cue
  /\ UNCHANGED <<opened, refused>>
\* The memory is edited, archived or disputed: the trigger revokes the cue,
\* or makes the whole change fail.
ChangeMemory(q) ==
  /\ Interactive /\ q \in MemoryCues /\ q \in backed
  /\ IF cue[q].st \in Live => Dates(q)
     THEN cue' = Expired({q}) /\ backed' = backed \ {q} /\ UNCHANGED <<opened, refused>>
     ELSE refused' = refused \cup {q} /\ UNCHANGED <<cue, backed, opened>>
-----------------------------------------------------------------------------
User ==
  \/ \E m \in {"off", "startup_only", "restrained"} : SetMode(m)
  \/ SetAi \/ ChatBegins \/ PetHidden \/ QuietEnds \/ Click \/ UserLeaves \/ UserReturns
  \/ \E q \in Cues : \/ Propose(q) \/ Confirm(q) \/ End(q) \/ SetKeep(q) \/ ManualOpen(q)
                     \/ LoseConversation(q) \/ ChangeMemory(q)
Runs(r) == GenerationEnds(r) \/ GenerationFails(r)
Next ==
  \/ Start \/ Stop \/ StartupDue \/ Poll \/ Midnight \/ Timeout \/ User \/ RunJob \/ Handle
  \/ \E r \in Runners : Runs(r)

Spec == Init /\ [][Next]_vars
Fairness == /\ WF_vars(Timeout) /\ WF_vars(RunJob) /\ WF_vars(Handle)
            /\ \A r \in Runners : WF_vars(Runs(r))
FairSpec == Spec /\ Fairness
-----------------------------------------------------------------------------
\* A cue is worth one greeting: the ledger never counts two for one consent,
\* however selection, confirmation and display of two opportunities interleave.
CueIsSpentOnce ==
  \A i, k \in Ids : events[i].cue # NoCue /\ events[i].cue = events[k].cue => i = k

\* No day sees more greetings than the user's daily limit, as long as each
\* opportunity began with every earlier one over: the controller takes the count of
\* the shown greetings, the end of a generation and the failure of a display for its
\* present opportunity's, whichever opportunity of the day they belong to.
DailyLimit ==
  c.late \/ \A d \in 1..MaxDay : Cardinality({i \in Ids : events[i].st # "absent" /\ events[i].day = d}) <= Limit

\* A greeting does not stay on the controller's mind for ever, which would be
\* the end of all greetings.
NoGreeting == c.active = None
GreetingEnds == []<>NoGreeting

\* An edit, an archive or a conflict of a memory revokes the follow-up.
ChangeRevokes == refused = {}
=============================================================================
