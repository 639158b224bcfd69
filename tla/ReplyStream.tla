---------------------------- MODULE ReplyStream ----------------------------
(* One request to a chat model (chat_provider.py): a worker thread binds its   *)
(* task to a cancellation token, sends the request, reads the events of the    *)
(* answer in one of two protocols, takes the visible text out of them, drops a *)
(* leaked <think> block and hands the rest on.  The user interface may cancel  *)
(* at any moment; the service may answer late, leave out events, cut the text  *)
(* anywhere, send what it must not, or close the connection.                   *)
EXTENDS Naturals, Sequences, FiniteSets

CONSTANTS Replies,   \* what the service means to say, as sequences of tokens
          Limit,     \* _visible_output_limit, in tokens
          MaxHidden, \* _MAX_SSE_EVENT_CHARS, in tokens of the filter's buffer
          MaxCut,    \* most tokens of a text event
          MaxOmitted \* most events the service leaves out

VARIABLES protocol, streamed, filtered, purpose, \* the request
          reply,     \* what the service means to say
          said,      \* how many tokens of it the service has sent
          at,        \* place in the script of the protocol
          wire, open, \* events on their way; the connection stands
          omitted,   \* events left out
          pc,        \* where the worker is
          parser,    \* started, blocks of text, blocks of thinking, closed blocks, visible tokens
          filter,    \* ThinkingSafeProvider: what it is doing, and its buffer
          shown, result,
          flag, canceller, \* the token's event; where cancel() is
          bound, soon \* bindings of the worker's task; cancellations queued in its loop

vars == <<protocol, streamed, filtered, purpose, reply, said, at, wire, open, omitted, pc, parser,
          filter, shown, result, flag, canceller, bound, soon>>
request == <<protocol, streamed, filtered, purpose, reply>>
service == <<said, at, wire, open, omitted>>
token == <<flag, canceller, bound, soon>>
reader == <<parser, filter, shown>>

\* "<think>" and "</think>", which the service may cut in two; a line break; a part of a
\* thought that casefold() makes longer by a token ("ss" for the sharp s).
Opening == <<"<th", "ink>">>
Closing == <<"</th", "ink>">>
Break == "break"
Sharp == "sharp"

\* The events of an answer that says everything and thinks first.
OpenAI == <<[kind |-> "reasoning"], [kind |-> "text", block |-> 0], [kind |-> "done"]>>
Anthropic ==
  <<[kind |-> "start"], [kind |-> "open", block |-> 0, of |-> "thinking"], [kind |-> "thinking", block |-> 0],
    [kind |-> "close", block |-> 0], [kind |-> "open", block |-> 1, of |-> "text"],
    [kind |-> "text", block |-> 1], [kind |-> "close", block |-> 1], [kind |-> "stop"]>>
Whole == <<[kind |-> "body"]>>
Script == IF ~streamed THEN Whole ELSE IF protocol = "openai" THEN OpenAI ELSE Anthropic
Structure == {"start", "open", "close", "stop", "done", "body"}

\* The provider of a profile: its protocol, behind the filter or not.
Built == protocol \in {"openai", "anthropic"} /\ filtered \in BOOLEAN
Init ==
  /\ Built /\ streamed \in BOOLEAN /\ purpose \in {"chat", "test"} /\ reply \in Replies
  /\ said = 0 /\ at = 1 /\ wire = <<>> /\ open = TRUE /\ omitted = {}
  /\ pc = "new" /\ shown = <<>> /\ result = "none"
  /\ parser = [started |-> FALSE, text |-> {}, thinking |-> {}, closed |-> {}, visible |-> 0]
  /\ filter = [mode |-> IF filtered THEN "undecided" ELSE "pass", buffer |-> <<>>]
  /\ flag = FALSE /\ canceller = "none" /\ bound = 0 /\ soon = 0

-----------------------------------------------------------------------------
(* The service, once the request has reached it.                              *)

Ready == pc \in {"read", "close"} /\ open /\ at <= Len(Script) /\ Len(wire) < 2
Sends(e) == wire' = Append(wire, e)

SendText ==
  /\ Ready /\ Script[at].kind = "text" /\ said < Len(reply)
  /\ \E n \in 1..MaxCut :
       /\ said + n <= Len(reply) /\ said' = said + n
       /\ Sends([kind |-> "text", block |-> Script[at].block, text |-> SubSeq(reply, said + 1, said + n)])
  /\ UNCHANGED <<request, at, open, omitted, pc, reader, result, token>>

SendNext ==
  /\ Ready /\ (Script[at].kind = "text" => said = Len(reply))
  /\ at' = at + 1
  /\ IF Script[at].kind = "text" THEN UNCHANGED wire ELSE Sends(Script[at])
  /\ UNCHANGED <<request, said, open, omitted, pc, reader, result, token>>

Omit ==
  /\ Ready /\ Script[at].kind # "text" /\ Cardinality(omitted) < MaxOmitted
  /\ at' = at + 1 /\ omitted' = omitted \union {Script[at]}
  /\ UNCHANGED <<request, said, wire, open, pc, reader, result, token>>

\* An error, a reason to stop that is not the end, a tool call, a broken line.
Misbehave ==
  /\ Ready /\ Sends([kind |-> "bad"]) /\ at' = Len(Script) + 1
  /\ UNCHANGED <<request, said, open, omitted, pc, reader, result, token>>

Close ==
  /\ pc \in {"read", "close"} /\ open /\ open' = FALSE
  /\ UNCHANGED <<request, said, at, wire, omitted, pc, reader, result, token>>

-----------------------------------------------------------------------------
(* The cancellation token.                                                    *)

\* cancel() sets the event, then takes the bound tasks under the lock.
Cancel ==
  /\ canceller = "none" /\ pc # "ended"
  /\ flag' = TRUE /\ canceller' = "set"
  /\ UNCHANGED <<request, service, pc, reader, result, bound, soon>>

\* Mutant: cancel() only sets the event.
CancelEvent ==
  /\ canceller = "set" /\ canceller' = "done"
  /\ UNCHANGED <<request, service, pc, reader, result, flag, bound, soon>>
CancelTasks ==
  /\ canceller = "set" /\ canceller' = "done"
  /\ soon' = IF bound > 0 THEN soon + 1 ELSE soon
  /\ UNCHANGED <<request, service, pc, reader, result, flag, bound>>

\* bind_current_task registers the task and looks at the event again.
Bind ==
  /\ bound' = bound + 1
  /\ soon' = IF flag THEN soon + 1 ELSE soon
  /\ UNCHANGED <<flag, canceller>>

-----------------------------------------------------------------------------
(* The worker.                                                                *)

Goes(place, how) == pc' = place /\ result' = how

Consume ==
  /\ pc = "new" /\ Bind /\ pc' = "bound"
  /\ UNCHANGED <<request, service, reader, result>>

Stream ==
  /\ pc = "bound" /\ Bind /\ pc' = "prepare"
  /\ UNCHANGED <<request, service, reader, result>>

\* The key may be missing, or the message of a kind the protocol cannot carry.
Prepare ==
  /\ pc = "prepare"
  /\ IF flag THEN Goes("close", "cancelled")
             ELSE Goes("send", "none") \/ Goes("close", "failed")
  /\ UNCHANGED <<request, service, reader, token>>

\* The service refuses by its status, or answers with what cannot be read.
Respond ==
  /\ pc = "send"
  /\ Goes("read", "none") \/ Goes("close", "failed")
  /\ UNCHANGED <<request, service, reader, token>>

\* A deadline passes: of the request, of its first text or between two texts.
Timeout ==
  /\ pc \in {"send", "read", "close"} /\ Goes(IF pc = "close" THEN "unbind" ELSE "close", "timeout")
  /\ UNCHANGED <<request, service, reader, token>>

Interrupt ==
  /\ soon > 0 /\ pc \in {"send", "read", "close"}
  /\ Goes(IF pc = "close" THEN "unbind" ELSE "close", "cancelled") /\ soon' = soon - 1
  /\ UNCHANGED <<request, service, reader, flag, canceller, bound>>

\* The events a parser accepts where it stands, and what becomes of it.
Known(e) == e.block \in parser.text \union parser.thinking
Accepts(e) ==
  \/ e.kind \in {"reasoning", "done", "body"}
  \/ e.kind = "start" /\ ~parser.started
  \/ e.kind = "open" /\ parser.started /\ ~Known(e) /\ e.block \notin parser.closed
  \/ e.kind = "close" /\ parser.started /\ Known(e)
  \/ e.kind = "thinking" /\ e.block \in parser.thinking
  \/ e.kind = "text" /\ (protocol = "anthropic" => e.block \in parser.text)
                     /\ parser.visible + Len(e.text) <= Limit
  \/ e.kind = "stop" /\ parser.started /\ parser.text \union parser.thinking = {}

Parsed(e) ==
  CASE e.kind = "start" -> [parser EXCEPT !.started = TRUE]
    [] e.kind = "open" /\ e.of = "text" -> [parser EXCEPT !.text = @ \union {e.block}]
    [] e.kind = "open" /\ e.of # "text" -> [parser EXCEPT !.thinking = @ \union {e.block}]
    [] e.kind = "close" -> [parser EXCEPT !.text = @ \ {e.block}, !.thinking = @ \ {e.block},
                                          !.closed = @ \union {e.block}]
    [] e.kind = "text" -> [parser EXCEPT !.visible = @ + Len(e.text)]
    [] OTHER -> parser

\* Leading line breaks are not looked at.
First(s) == {i \in 1..Len(s) : s[i] # Break /\ \A j \in 1..(i - 1) : s[j] = Break}
Trimmed(s) == IF First(s) = {} THEN <<>> ELSE SubSeq(s, CHOOSE i \in First(s) : TRUE, Len(s))
Undecidable(s) == Trimmed(s) \in {<<>>, <<Opening[1]>>}
Thinks(s) == Len(Trimmed(s)) >= 2 /\ SubSeq(Trimmed(s), 1, 2) = Opening
Ends(s) == {i \in 1..(Len(s) - 1) : SubSeq(s, i, i + 1) = Closing}
End(s) == CHOOSE i \in Ends(s) : \A j \in Ends(s) : i <= j
Rest(s) == Trimmed(SubSeq(s, End(s) + 2, Len(s)))
\* The closing tag is found in the folded buffer, but the buffer itself is cut there.
Longer(s) == Cardinality({i \in 1..(End(s) - 1) : s[i] = Sharp})
Behind(s) == Trimmed(SubSeq(s, End(s) + 2 + Longer(s), Len(s)))

\* What a chunk makes of the filter.
\* Mutant: the first chunk decides by itself.
FilteredAtOnce(text) ==
  LET s == filter.buffer \o text IN
  IF filter.mode = "pass" \/ ~Thinks(s)
    THEN [mode |-> "pass", buffer |-> <<>>, out |-> s]
  ELSE IF Ends(s) = {}
    THEN [mode |-> IF Len(s) > MaxHidden THEN "overflow" ELSE "hide", buffer |-> s, out |-> <<>>]
  ELSE [mode |-> "pass", buffer |-> <<>>, out |-> Behind(s)]
Filtered(text) ==
  LET s == filter.buffer \o text IN
  IF filter.mode = "pass" THEN [mode |-> "pass", buffer |-> <<>>, out |-> text]
  ELSE IF filter.mode = "undecided" /\ Undecidable(s)
    THEN [mode |-> "undecided", buffer |-> s, out |-> <<>>]
  ELSE IF filter.mode = "undecided" /\ ~Thinks(s)
    THEN [mode |-> "pass", buffer |-> <<>>, out |-> s]
  ELSE IF Ends(s) = {}
    THEN [mode |-> IF Len(s) > MaxHidden THEN "overflow" ELSE "hide", buffer |-> s, out |-> <<>>]
  ELSE [mode |-> "pass", buffer |-> <<>>, out |-> Behind(s)]

Yields(text) ==
  LET f == Filtered(text) IN
  /\ filter' = [mode |-> f.mode, buffer |-> f.buffer]
  /\ shown' = shown \o f.out

\* Nothing that was held back may be left when the text ends.
EndsWell(f) == f.mode \notin {"hide", "overflow"} /\ (f.mode = "undecided" => f.buffer = <<>>)

\* An answer that comes as a whole
ReadBody ==
  /\ UNCHANGED parser
  /\ IF Len(reply) > Limit THEN Goes("close", "failed") /\ UNCHANGED <<filter, shown>>
     ELSE IF flag THEN Goes("close", "cancelled") /\ UNCHANGED <<filter, shown>>
     ELSE /\ Yields(reply)
          /\ Goes("close", IF EndsWell(filter') THEN "completed" ELSE "failed")

Read ==
  /\ pc = "read" /\ wire # <<>> /\ wire' = Tail(wire)
  /\ LET e == Head(wire) IN
     IF e.kind = "bad" \/ ~Accepts(e)
       THEN Goes("close", "failed") /\ UNCHANGED <<parser, filter, shown>>
     ELSE IF e.kind = "text"
       THEN /\ parser' = Parsed(e)
            /\ IF flag THEN Goes("close", "cancelled") /\ UNCHANGED <<filter, shown>>
               ELSE /\ Yields(e.text)
                    /\ IF filter'.mode = "overflow" THEN Goes("close", "failed") ELSE UNCHANGED <<pc, result>>
     ELSE IF e.kind = "body"
       THEN ReadBody
     ELSE IF e.kind \in {"done", "stop"}
       THEN /\ Goes("close", IF EndsWell(filter) THEN "completed" ELSE "failed")
            /\ UNCHANGED <<parser, filter, shown>>
     ELSE parser' = Parsed(e) /\ UNCHANGED <<pc, result, filter, shown>>
  /\ UNCHANGED <<request, said, at, open, omitted, token>>

\* The bytes end without the mark of the end.
\* Mutant: what has come is taken for the answer.
EndOfBytesCompletes == Goes("close", "completed")
EndOfBytes == Goes("close", "failed")
ReadEnd ==
  /\ pc = "read" /\ wire = <<>> /\ ~open /\ EndOfBytes
  /\ UNCHANGED <<request, service, reader, token>>

Closed ==
  /\ pc = "close" /\ pc' = "unbind"
  /\ UNCHANGED <<request, service, reader, result, token>>

\* The consumer looks at the token once more; a test wants to have heard something.
Verdict ==
  CASE result = "completed" /\ flag -> "cancelled"
    [] result = "completed" /\ ~flag /\ purpose = "test" /\ shown = <<>> -> "failed"
    [] OTHER -> result
Finish ==
  /\ pc = "unbind" /\ Goes("ended", Verdict) /\ bound' = 0
  /\ UNCHANGED <<request, service, reader, flag, canceller, soon>>

Next ==
  \/ SendText \/ SendNext \/ Omit \/ Misbehave \/ Close \/ Cancel \/ CancelTasks \/ Consume \/ Stream
  \/ Prepare \/ Respond \/ Timeout \/ Interrupt \/ Read \/ ReadEnd \/ Closed \/ Finish

Spec == Init /\ [][Next]_vars

\* The threads run and sockets close; the service and the deadlines owe nothing.
Fairness ==
  /\ WF_vars(CancelTasks) /\ WF_vars(Consume) /\ WF_vars(Stream) /\ WF_vars(Prepare)
  /\ WF_vars(Interrupt) /\ WF_vars(Closed) /\ WF_vars(Finish)
FairSpec == Spec /\ Fairness

-----------------------------------------------------------------------------
(* Every variable holds values of its kind. *)
TypeOK ==
  /\ said \in 0..Len(reply) /\ at \in 1..(Len(Script) + 1) /\ Len(wire) <= 2 /\ open \in BOOLEAN
  /\ pc \in {"new", "bound", "prepare", "send", "read", "close", "unbind", "ended"}
  /\ filter.mode \in {"undecided", "hide", "overflow", "pass"} /\ parser.visible <= Limit
  /\ result \in {"none", "completed", "failed", "timeout", "cancelled"}
  /\ flag \in BOOLEAN /\ canceller \in {"none", "set", "done"} /\ bound \in 0..2 /\ soon \in 0..3

Visible == IF filtered /\ Thinks(reply) THEN Rest(reply) ELSE reply
Words(s) == SelectSeq(s, LAMBDA x : x # Break)

(* A completed answer is the whole one: nothing of what the service meant to    *)
(* say is missing, its thinking is not in it, and none of the events that frame *)
(* it was left out, however its text was cut into events.  (What follows the    *)
(* thought in the same event loses as many tokens as the thought has that        *)
(* casefold() makes longer.)                                                    *)
Lost == IF filtered /\ Thinks(reply) /\ Ends(reply) # {} THEN Longer(reply) ELSE 0
CompletedIsWhole ==
  result = "completed" =>
    /\ \E n \in 0..Lost : Words(shown) = Words(SubSeq(Visible, n + 1, Len(Visible)))
    /\ ~\E e \in omitted : e.kind \in Structure

(* No part of a leading <think> block is ever handed on, not even by an answer  *)
(* that fails later, however the tags were cut.                                 *)
ThoughtsStayHidden ==
  filtered /\ Thinks(reply) => \A i \in 1..Len(shown) : shown[i] \notin {"thought", Sharp, Opening[1]}

(* A cancelled request ends although the service says nothing more and no       *)
(* deadline passes: the cancellation is not lost between cancel() and the two   *)
(* bindings of the task.                                                        *)
Cancelled == flag
Ended == pc = "ended"
CancelEnds == Cancelled ~> Ended

=============================================================================
