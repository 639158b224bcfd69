------------------------------- MODULE Voice -------------------------------
(***************************************************************************)
(* One spoken exchange after another: VoiceSessionController on the main    *)
(* thread, SpeechNetworkRuntime with its transcription and synthesis lanes, *)
(* WavPlaybackQueue, and as much of the chat as the session sees of it.      *)
(*                                                                         *)
(* Signals of the two worker threads reach the main thread in the order of  *)
(* mainQ; what the main thread emits itself arrives at once.  A token is    *)
(* the number of its utterance: SpeechEpoch accepts the current one only,   *)
(* and every interruption of the session forgets it.  A generation that was *)
(* cancelled is a task that is not live.                                    *)
(*                                                                         *)
(* A microphone that does not start is one that fails right after.          *)
(***************************************************************************)
EXTENDS Naturals, Sequences, FiniteSets

CONSTANTS MaxUtterances,  \* bound on the tokens
          MaxSentences,   \* bound on the sentences of all replies
          Capacity,       \* of the synthesis lane and of the playback queue
          MaxFailures     \* bound on failures of the microphone and of playback

VARIABLES
  s,          \* VoiceSessionController: state, switches, token, turn, counters
  tokens,     \* utterances begun
  asr,        \* _asr_future, or None
  ttsActive,  \* _tts_active and its future, or None
  ttsPending, \* _tts_pending
  ttsDone,    \* a completion between its critical section and its signals
  playing,    \* WavPlaybackQueue: current item and pending ones
  chat,       \* the voice message in the chat, or None
  mainQ,      \* signals of the workers for the main thread
  mixed,      \* history: push-to-talk was pressed while the VAD held a sentence
  sentences, failures

lanes  == <<asr, ttsActive, ttsPending, ttsDone>>
counts == <<sentences, failures>>
vars == <<s, tokens, lanes, playing, chat, mainQ, mixed, counts>>

None == 0
Tokens == 1..MaxUtterances
Idle == [token |-> None, live |-> FALSE]
Tasks == [token : Tokens, live : BOOLEAN]
Live(token) == [token |-> token, live |-> TRUE]
Event(ev, token, n) == [ev |-> ev, token |-> token, n |-> n]

TypeOK ==
  /\ s \in [state : {"off", "listening", "capturing", "transcribing", "thinking", "speaking"},
            handsFree : BOOLEAN, ptt : BOOLEAN, token : {None} \cup Tokens,
            turn : {None} \cup Tokens, complete : BOOLEAN, count : 0..Capacity,
            mic : BOOLEAN, vad : BOOLEAN]
  /\ tokens \in 0..MaxUtterances
  /\ {asr, ttsActive} \subseteq Tasks \cup {Idle}
  /\ Len(ttsPending) + Cardinality({ttsActive} \ {Idle}) <= Capacity
  /\ Len(playing) <= Capacity
  /\ chat = Idle \/ chat.phase \in {"preparing", "running", "replying", "stopping"}

Init ==
  /\ s = [state |-> "off", handsFree |-> FALSE, ptt |-> FALSE, token |-> None, turn |-> None,
          complete |-> FALSE, count |-> 0, mic |-> FALSE, vad |-> FALSE]
  /\ tokens = 0 /\ asr = Idle /\ ttsActive = Idle /\ ttsPending = <<>> /\ ttsDone = Idle
  /\ playing = <<>> /\ chat = Idle /\ mainQ = <<>> /\ mixed = FALSE
  /\ sentences = 0 /\ failures = 0
-----------------------------------------------------------------------------
(* Helpers of the session: what it is after a call.                        *)

Accepts(token) == token # None /\ s.token = token

\* _resume_idle
ResumeIdle(x) ==
  [x EXCEPT !.ptt = FALSE, !.state = IF x.handsFree THEN "listening" ELSE "off",
            !.mic = x.handsFree, !.vad = IF x.handsFree THEN FALSE ELSE @]

\* What a reply still waits for
Waits(x, queued) == ~x.complete \/ x.count > 0 \/ queued > 0

\* _maybe_finish_response.  It does not look at the state it is called in.
MaybeFinish(x, queued) ==
  IF Waits(x, queued) THEN x ELSE ResumeIdle([x EXCEPT !.token = None, !.turn = None])
ForceFinish(x) == ResumeIdle([x EXCEPT !.token = None, !.turn = None])

\* _on_network_queue_changed
Counted(x, n, queued) == MaybeFinish([x EXCEPT !.count = n], queued)

\* _interrupt_current of x, after the chat was asked to stop
Interrupted(x) ==
  [Counted(x, 0, Len(playing)) EXCEPT !.token = None, !.turn = None, !.complete = FALSE]

\* cancel_all: a future that did not start yet is taken out of its lane.
CancelAll ==
  /\ asr' = [asr EXCEPT !.live = FALSE]
  /\ ttsPending' = <<>>
  /\ ttsActive' = IF ttsDone # Idle THEN Idle ELSE [ttsActive EXCEPT !.live = FALSE]
  /\ UNCHANGED ttsDone

\* The network and the playback queue are silenced.
Silence == CancelAll /\ playing' = <<>>

\* _stop_voice_chat: a message that waits for its lane is dropped.
StoppedChat(stops) ==
  CASE stops /\ chat # Idle /\ chat.phase = "preparing" -> Idle
    [] stops /\ chat # Idle /\ chat.phase # "preparing" -> [chat EXCEPT !.phase = "stopping"]
    [] OTHER -> chat

StopsChat == s.turn # None \/ s.state \in {"thinking", "speaking"}
-----------------------------------------------------------------------------
(* The user.                                                               *)

StartHandsFree ==
  /\ ~s.handsFree
  /\ s' = [Interrupted(s) EXCEPT !.handsFree = TRUE, !.ptt = FALSE, !.vad = FALSE,
                                 !.state = "listening", !.mic = TRUE]
  /\ chat' = StoppedChat(StopsChat)
  /\ Silence
  /\ UNCHANGED <<tokens, mainQ, mixed, counts>>

Off(x) == [x EXCEPT !.handsFree = FALSE, !.ptt = FALSE, !.mic = FALSE, !.vad = FALSE, !.state = "off"]

\* stop_session; it stops the chat only when its turn is bound.
StopSession ==
  /\ s.state # "off" \/ s.handsFree \/ s.ptt
  /\ s' = Off(Interrupted(s))
  /\ chat' = StoppedChat(s.turn # None)
  /\ Silence
  /\ UNCHANGED <<tokens, mainQ, mixed, counts>>

BeginTurn(x) == [x EXCEPT !.token = tokens + 1, !.state = "capturing"]

\* press_to_talk.  The VAD keeps the sentence it was collecting.
Press ==
  /\ mixed' = (mixed \/ s.vad)
  /\ ~s.ptt /\ tokens < MaxUtterances /\ tokens' = tokens + 1
  /\ s' = [BeginTurn(Interrupted(s)) EXCEPT !.ptt = TRUE, !.mic = TRUE]
  /\ chat' = StoppedChat(StopsChat)
  /\ Silence
  /\ UNCHANGED <<mainQ, counts>>

\* _submit_pcm: an utterance too short, or a lane still busy, is given up.
Submit(x) ==
  \/ /\ asr = Idle /\ x.token # None
     /\ asr' = Live(x.token)
     /\ s' = [x EXCEPT !.state = "transcribing"]
  \/ s' = ResumeIdle(x) /\ UNCHANGED asr

Release ==
  /\ s.ptt
  /\ Submit([s EXCEPT !.ptt = FALSE, !.mic = FALSE])
  /\ UNCHANGED <<tokens, ttsActive, ttsPending, ttsDone, playing, chat, mainQ, mixed, counts>>

Hears == s.handsFree /\ ~s.ptt /\ s.mic /\ s.state \notin {"off", "transcribing"}

\* The VAD counts frames up to SPEECH_START; _on_frame then barges in on a reply.
SpeechStart ==
  /\ Hears /\ ~s.vad
  /\ tokens < MaxUtterances /\ tokens' = tokens + 1
  /\ IF s.state \in {"thinking", "speaking"}
     THEN /\ s' = BeginTurn(Interrupted([s EXCEPT !.vad = TRUE]))
          /\ chat' = StoppedChat(TRUE) /\ Silence
     ELSE /\ s' = BeginTurn([s EXCEPT !.vad = TRUE])
          /\ UNCHANGED <<chat, lanes, playing>>
  /\ UNCHANGED <<mainQ, mixed, counts>>

\* _on_frame with SPEECH_END or MAX_DURATION
SpeechEnd ==
  /\ Hears /\ s.vad
  /\ Submit([s EXCEPT !.vad = FALSE, !.mic = FALSE])
  /\ UNCHANGED <<tokens, ttsActive, ttsPending, ttsDone, playing, chat, mainQ, mixed, counts>>

\* _on_capture_failed
MicFails ==
  /\ s.mic /\ failures < MaxFailures /\ failures' = failures + 1
  /\ IF s.handsFree
     THEN s' = Off(Interrupted(s)) /\ chat' = StoppedChat(s.turn # None) /\ Silence
     ELSE s' = ResumeIdle(s) /\ UNCHANGED <<chat, lanes, playing>>
  /\ UNCHANGED <<tokens, mainQ, mixed, sentences>>
-----------------------------------------------------------------------------
(* The workers.                                                            *)

AsrEnds ==
  /\ asr # Idle /\ asr' = Idle
  /\ \E ev \in {"transcribed", "not_transcribed"} :
       mainQ' = IF asr.live THEN Append(mainQ, Event(ev, asr.token, 0)) ELSE mainQ
  /\ UNCHANGED <<s, tokens, ttsActive, ttsPending, ttsDone, playing, chat, mixed, counts>>

\* _complete_tts, in the lock: the next sentences are counted.
TtsCompletes ==
  /\ ttsActive # Idle /\ ttsDone = Idle
  /\ ttsActive' = Idle
  /\ ttsDone' = [token |-> ttsActive.token, live |-> ttsActive.live, n |-> Len(ttsPending)]
  /\ UNCHANGED <<s, tokens, asr, ttsPending, playing, chat, mainQ, mixed, counts>>

\* _start_next_tts, of the pending sentences q
StartNext(q) ==
  IF ttsActive = Idle /\ q # <<>>
  THEN ttsActive' = Head(q) /\ ttsPending' = Tail(q)
  ELSE ttsPending' = q /\ UNCHANGED ttsActive

\* _complete_tts, after the lock
TtsSignals ==
  /\ ttsDone # Idle /\ ttsDone' = Idle
  /\ \E ev \in {"synthesized", "not_synthesized"} :
       mainQ' = (IF ttsDone.live THEN Append(mainQ, Event(ev, ttsDone.token, 0)) ELSE mainQ)
                \o <<Event("count", None, ttsDone.n)>>
  /\ StartNext(ttsPending)
  /\ UNCHANGED <<s, tokens, asr, playing, chat, mixed, counts>>
-----------------------------------------------------------------------------
(* Signals of the workers on the main thread.                              *)

\* _on_transcribed; the chat takes the message or not.
OnTranscribed(e) ==
  /\ e.ev = "transcribed" /\ Accepts(e.token)
  /\ LET x == [s EXCEPT !.turn = None, !.complete = FALSE, !.state = "thinking"]
     IN  \/ /\ chat = Idle
            /\ chat' = [token |-> e.token, phase |-> "preparing"]
            /\ s' = [x EXCEPT !.mic = x.handsFree]
         \/ s' = ResumeIdle(x) /\ UNCHANGED chat
  /\ UNCHANGED playing

OnNotTranscribed(e) ==
  /\ e.ev = "not_transcribed" /\ Accepts(e.token)
  /\ s' = ResumeIdle(s) /\ UNCHANGED <<chat, playing>>

\* Mutant: a late sentence is played whatever the session does now.
HeardAnyway(e) == TRUE
Heard(e) == Accepts(e.token)

\* _on_synthesized: the first item starts at once; a full queue drops it.
OnSynthesized(e) ==
  /\ e.ev = "synthesized" /\ Heard(e)
  /\ IF Len(playing) < Capacity
     THEN /\ playing' = Append(playing, e.token)
          /\ s' = IF playing = <<>> /\ Accepts(e.token) THEN [s EXCEPT !.state = "speaking"] ELSE s
     ELSE UNCHANGED <<s, playing>>
  /\ UNCHANGED <<chat, failures>>

\* set_device finds no output device: playback fails before the item is queued.
OnUnplayable(e) ==
  /\ e.ev = "synthesized" /\ Accepts(e.token) /\ playing = <<>>
  /\ failures < MaxFailures /\ failures' = failures + 1
  /\ s' = ForceFinish(s) /\ UNCHANGED <<chat, playing>>

OnNotSynthesized(e) ==
  /\ e.ev = "not_synthesized" /\ Accepts(e.token)
  /\ s' = MaybeFinish(s, Len(playing)) /\ UNCHANGED <<chat, playing>>

OnCount(e) ==
  /\ e.ev = "count"
  /\ s' = Counted(s, e.n, Len(playing)) /\ UNCHANGED <<chat, playing>>

OnLate(e) ==
  /\ e.ev # "count" /\ ~Accepts(e.token) /\ ~(e.ev = "synthesized" /\ Heard(e))
  /\ UNCHANGED <<s, chat, playing>>

Handle ==
  /\ mainQ # <<>> /\ mainQ' = Tail(mainQ)
  /\ LET e == Head(mainQ)
     IN  \/ /\ OnTranscribed(e) \/ OnNotTranscribed(e) \/ OnNotSynthesized(e) \/ OnCount(e) \/ OnLate(e)
            /\ UNCHANGED failures
         \/ OnSynthesized(e) \/ OnUnplayable(e)
  /\ UNCHANGED <<tokens, lanes, mixed, sentences>>
-----------------------------------------------------------------------------
(* Playback.                                                               *)

\* Mutant: the end of the last item does not end the reply.
EmptyGoesOn(x) == x
PlaybackEmpty(x) == MaybeFinish(IF x.complete THEN x ELSE [x EXCEPT !.state = "thinking"], 0)

\* EndOfMedia: the next item starts, or _on_playback_empty is called.
ItemEnds ==
  /\ playing # <<>> /\ playing' = Tail(playing)
  /\ s' = IF ~Accepts(Head(playing)) THEN s
          ELSE IF Tail(playing) = <<>> THEN PlaybackEmpty(s) ELSE [s EXCEPT !.state = "speaking"]
  /\ UNCHANGED <<tokens, lanes, chat, mainQ, mixed, counts>>

\* _on_playback_failed: the reply ends; what is being synthesized goes on.
PlaybackFails ==
  /\ playing # <<>> /\ failures < MaxFailures /\ failures' = failures + 1
  /\ playing' = <<>> /\ s' = ForceFinish(s)
  /\ UNCHANGED <<tokens, lanes, chat, mainQ, mixed, sentences>>
-----------------------------------------------------------------------------
(* The chat: the controller sends the message when the lane is free.       *)

\* bind_chat_turn, or the session ends: the token is not the current one.
ChatStarts ==
  /\ chat # Idle /\ chat.phase = "preparing"
  /\ chat' = [chat EXCEPT !.phase = "running"]
  /\ IF Accepts(chat.token) /\ s.state = "thinking"
     THEN s' = [s EXCEPT !.turn = chat.token] /\ UNCHANGED <<lanes, playing>>
     ELSE s' = Off(Interrupted(s)) /\ Silence
  /\ UNCHANGED <<tokens, mainQ, mixed, counts>>

\* submission_failed
ChatRefused ==
  /\ chat # Idle /\ chat.phase = "preparing" /\ chat' = Idle
  /\ s' = IF Accepts(chat.token) THEN ResumeIdle(s) ELSE s
  /\ UNCHANGED <<tokens, lanes, playing, mainQ, mixed, counts>>

Listening == chat # Idle /\ s.turn = chat.token /\ s.token # None

\* enqueue_tts of one sentence; a full lane refuses it.
InLane == Len(ttsPending) + (IF ttsActive = Idle THEN 0 ELSE 1)
Enqueue(x) ==
  IF InLane < Capacity
  THEN s' = [x EXCEPT !.count = InLane + 1] /\ StartNext(Append(ttsPending, Live(s.token)))
  ELSE s' = x /\ UNCHANGED <<ttsActive, ttsPending>>

Sentence ==
  /\ Listening /\ chat.phase \in {"running", "replying"}
  /\ sentences < MaxSentences /\ sentences' = sentences + 1
  /\ Enqueue(s)
  /\ chat' = [chat EXCEPT !.phase = "replying"]
  /\ UNCHANGED <<tokens, asr, ttsDone, playing, mainQ, mixed, failures>>

\* on_chat_finished, with the sentences of the end flushed before.  A reply the
\* session listened to has a sentence: an empty one does not complete.
ChatCompletes ==
  /\ chat # Idle /\ chat.phase \in {"running", "replying"} /\ chat' = Idle
  /\ Listening => chat.phase = "replying"
  /\ s' = IF Listening THEN MaybeFinish([s EXCEPT !.complete = TRUE], Len(playing)) ELSE s
  /\ UNCHANGED <<tokens, lanes, playing, mainQ, mixed, counts>>

ChatFails ==
  /\ chat # Idle /\ chat.phase # "preparing" /\ chat' = Idle
  /\ IF Listening
     THEN s' = MaybeFinish([Counted([s EXCEPT !.complete = TRUE], 0, Len(playing)) EXCEPT !.count = 0], 0)
          /\ Silence
     ELSE UNCHANGED <<s, lanes, playing>>
  /\ UNCHANGED <<tokens, mainQ, mixed, counts>>
-----------------------------------------------------------------------------
Next ==
  \/ StartHandsFree \/ StopSession \/ Press \/ Release \/ SpeechStart \/ SpeechEnd \/ MicFails
  \/ AsrEnds \/ TtsCompletes \/ TtsSignals \/ Handle \/ ItemEnds \/ PlaybackFails
  \/ ChatStarts \/ ChatRefused \/ Sentence \/ ChatCompletes \/ ChatFails

Spec == Init /\ [][Next]_vars

(* Requests end (they have timeouts), an item is played to its end, the      *)
(* chat starts or refuses a message and ends a reply, and the main loop runs. *)
ChatEnds == ChatCompletes \/ ChatFails
Fairness ==
  /\ WF_vars(AsrEnds) /\ WF_vars(TtsCompletes) /\ WF_vars(TtsSignals) /\ WF_vars(Handle)
  /\ WF_vars(ItemEnds) /\ WF_vars(ChatStarts \/ ChatRefused) /\ WF_vars(ChatEnds)

FairSpec == Spec /\ Fairness
-----------------------------------------------------------------------------
(* Only sentences of the current reply are played: whatever was synthesized  *)
(* for a reply the user spoke over, or one that ended, stays silent.         *)
PlaysTheReply == mixed \/ \A i \in DOMAIN playing : playing[i] = s.token

(* A transcription, a thought or a reply comes to an end, however the chat,  *)
(* the synthesis lane and the playback queue finish among each other.        *)
(* Not when push-to-talk is pressed while the VAD holds a sentence: that      *)
(* sentence is submitted again under the token of the new one.               *)
Replying == s.state \in {"transcribing", "thinking", "speaking"} /\ ~mixed
ReplyEnds == Replying ~> ~Replying

(* While nothing failed, no accepted sentence outlives its reply.            *)
NoSentenceIsCut ==
  failures = 0 =>
    \A t \in {ttsActive} \cup {ttsPending[i] : i \in DOMAIN ttsPending} : t.live => t.token = s.token
=============================================================================
