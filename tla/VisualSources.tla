--------------------------- MODULE VisualSources ---------------------------
(* Sharing a screen, a window or a camera with the chat (visual_runtime.py).   *)
(* A source takes pictures while it is live; a thread turns them into frames    *)
(* and the user interface keeps the latest frame of the source that is shared.  *)
(* A camera may have to wait for the answer of the system's permission dialog.  *)
EXTENDS Naturals, Sequences, FiniteSets

CONSTANTS None, MaxStarts, MaxPictures, MaxFaults

VARIABLES kind,     \* VisualSourceManager._active_kind
          panel,    \* the chat window says that something is shared
          slot,     \* LatestFrameSlot
          on,       \* sources that are live
          stops,    \* _generation of each source: how often it has been stopped
          encoder,  \* _LatestImageEncoder of each source
          captures, \* pictures on the thread of the window source
          capturing, \* WindowCaptureSource._future
          waiting,  \* CameraCaptureSource._permission_pending
          asked,    \* permission dialogs that are open
          mail,     \* signals of the threads on their way to the user interface
          began,    \* pictures taken when sharing was last started
          starts, pictures, faults

vars == <<kind, panel, slot, on, stops, encoder, captures, capturing, waiting, asked, mail, began,
          starts, pictures, faults>>

Kinds == {"screen", "window", "camera"}
Idle == [future |-> None, pending |-> None, queue |-> <<>>, next |-> None]

Init ==
  /\ kind = None /\ panel = FALSE /\ slot = None /\ on = {} /\ stops = [k \in Kinds |-> 0]
  /\ encoder = [k \in Kinds |-> Idle] /\ captures = <<>> /\ capturing = None
  /\ waiting = FALSE /\ asked = 0 /\ mail = <<>> /\ began = 0
  /\ starts = 0 /\ pictures = 0 /\ faults = 0

Fault == faults < MaxFaults /\ faults' = faults + 1

-----------------------------------------------------------------------------
(* The encoder of a source: one image on the thread, one that waits for it.     *)

\* x is taken out of what waits behind the head, which is on the thread.
Without(q, x) ==
  IF \E i \in 2..Len(q) : q[i] = x
    THEN LET i == CHOOSE i \in 2..Len(q) : q[i] = x
         IN SubSeq(q, 1, i - 1) \o SubSeq(q, i + 1, Len(q))
    ELSE q

\* What is on the thread runs on, what has not begun is dropped.
Cancelled(e) ==
  [e EXCEPT !.pending = None, !.queue = Without(@, e.future),
            !.future = IF Without(e.queue, e.future) = e.queue THEN @ ELSE None]

Submitted(e, image) ==
  IF e.future # None THEN [e EXCEPT !.pending = image]
                     ELSE [e EXCEPT !.future = image, !.queue = Append(@, image)]

Image(k) == [of |-> k, gen |-> stops'[k], number |-> pictures']

\* The thread reports and takes the image that waits under the lock ...
Encode(k) ==
  LET e == encoder[k] IN
  /\ e.queue # <<>> /\ e.next = None
  /\ LET image == Head(e.queue)
         relevant == image.gen = stops[k]
         Told(what) == mail' = Append(mail, [what |-> what, image |-> image]) IN
       /\ encoder' = [encoder EXCEPT ![k] =
            [future |-> IF e.future = image THEN None ELSE e.future, pending |-> None,
             queue |-> Tail(e.queue), next |-> e.pending]]
       /\ IF relevant THEN \/ Told("frame") /\ UNCHANGED faults
                           \/ Fault /\ Told("failed")
                      ELSE UNCHANGED <<mail, faults>>
  /\ UNCHANGED <<began, kind, panel, slot, on, stops, captures, capturing, waiting, asked, starts, pictures>>

\* ... and puts it on the thread after that.
EncodeNext(k) ==
  LET e == encoder[k] IN
  /\ e.next # None
  /\ encoder' = [encoder EXCEPT ![k] = [e EXCEPT !.future = e.next, !.queue = Append(@, e.next),
                                                 !.next = None]]
  /\ UNCHANGED <<began, kind, panel, slot, on, stops, captures, capturing, waiting, asked, mail, starts,
                 pictures, faults>>

-----------------------------------------------------------------------------
(* Starting and stopping.                                                     *)

\* The sources of K are stopped; live is what is live afterwards.
Stopped(K, live) ==
  /\ stops' = [k \in Kinds |-> IF k \in K THEN stops[k] + 1 ELSE stops[k]]
  /\ on' = live /\ waiting' = (waiting /\ "camera" \notin K)
  /\ IF "window" \in K THEN captures' = Without(captures, capturing) /\ capturing' = None
                       ELSE UNCHANGED <<captures, capturing>>
StoppedEncoders(K) == [k \in Kinds |-> IF k \in K THEN Cancelled(encoder[k]) ELSE encoder[k]]

\* VisualSourceManager.stop
StopAll ==
  /\ Stopped(Kinds, {}) /\ encoder' = StoppedEncoders(Kinds)
  /\ kind' = None /\ slot' = None /\ panel' = FALSE

\* The start button is there while nothing is shared.
Begin == ~panel /\ starts < MaxStarts /\ starts' = starts + 1

\* There is no such screen, window or camera, or no permission.
Refused ==
  /\ Begin /\ StopAll
  /\ UNCHANGED <<began, asked, mail, pictures, faults>>

Shares(k) == kind' = k /\ panel' = TRUE /\ slot' = None /\ began' = pictures
Takes == pictures < MaxPictures /\ pictures' = pictures + 1

StartScreen ==
  /\ Begin /\ Stopped(Kinds, {"screen"}) /\ Shares("screen") /\ Takes
  /\ encoder' = [StoppedEncoders(Kinds) EXCEPT !["screen"] = Submitted(@, Image("screen"))]
  /\ UNCHANGED <<asked, mail, faults>>

\* The first picture fails: the source reports and stops itself, and the
\* manager takes it for started.
StartBlindScreen ==
  /\ Begin /\ Fault /\ Stopped(Kinds, {}) /\ Shares("screen") /\ encoder' = StoppedEncoders(Kinds)
  /\ UNCHANGED <<asked, mail, pictures>>

StartWindow ==
  /\ Begin /\ Shares("window") /\ Takes
  /\ stops' = [k \in Kinds |-> stops[k] + 1] /\ on' = {"window"} /\ waiting' = FALSE
  /\ encoder' = StoppedEncoders(Kinds)
  /\ capturing' = Image("window") /\ captures' = Append(Without(captures, capturing), capturing')
  /\ UNCHANGED <<asked, mail, faults>>

StartCamera ==
  /\ Begin /\ Stopped(Kinds, {"camera"}) /\ Shares("camera") /\ encoder' = StoppedEncoders(Kinds)
  /\ UNCHANGED <<asked, mail, pictures, faults>>

\* The system asks the user first.
AskCamera ==
  /\ Begin /\ Shares("camera")
  /\ stops' = [k \in Kinds |-> stops[k] + 1] /\ on' = {} /\ waiting' = TRUE
  /\ captures' = Without(captures, capturing) /\ capturing' = None
  /\ encoder' = StoppedEncoders(Kinds) /\ asked' = asked + 1
  /\ UNCHANGED <<mail, pictures, faults>>

Stop ==
  /\ panel /\ StopAll
  /\ UNCHANGED <<began, asked, mail, starts, pictures, faults>>

\* The answer is acted on whatever became of the question.
Granted ==
  /\ asked > 0 /\ asked' = asked - 1
  /\ Stopped({"camera"}, on \union {"camera"}) /\ encoder' = StoppedEncoders({"camera"})
  /\ UNCHANGED <<began, kind, panel, slot, mail, starts, pictures, faults>>
Denied ==
  /\ asked > 0 /\ asked' = asked - 1 /\ StopAll
  /\ UNCHANGED <<began, mail, starts, pictures, faults>>

-----------------------------------------------------------------------------
(* Pictures.                                                                  *)

TakePicture(k) ==
  /\ k \in on \ {"window"} /\ Takes /\ UNCHANGED stops
  /\ encoder' = [encoder EXCEPT ![k] = Submitted(@, Image(k))]
  /\ UNCHANGED <<began, kind, panel, slot, on, captures, capturing, waiting, asked, mail, starts, faults>>

\* One picture of the window at a time.
TakeWindow ==
  /\ "window" \in on /\ capturing = None /\ Takes /\ UNCHANGED stops
  /\ capturing' = Image("window") /\ captures' = Append(captures, capturing')
  /\ UNCHANGED <<began, kind, panel, slot, on, encoder, waiting, asked, mail, starts, faults>>

\* The thread has the picture, cannot take it, or asks for the visible part.
Capture ==
  /\ captures # <<>> /\ captures' = Tail(captures)
  /\ \/ \E what \in {"captured", "visible"} :
          mail' = Append(mail, [what |-> what, image |-> Head(captures)]) /\ UNCHANGED faults
     \/ Fault /\ mail' = Append(mail, [what |-> "hidden", image |-> Head(captures)])
  /\ UNCHANGED <<began, kind, panel, slot, on, stops, encoder, capturing, waiting, asked, starts, pictures>>

\* A screen or a camera fails while it is live.
Breaks ==
  /\ on \cap {"screen", "camera"} # {} /\ Fault /\ StopAll
  /\ UNCHANGED <<began, asked, mail, starts, pictures>>

-----------------------------------------------------------------------------
(* The user interface hears of them.                                          *)

Fresh(image) == image.gen = stops[image.of] /\ image.of \in on
\* Mutant: frames of any source are kept.
KeepsAny(image) == slot' = image
Keeps(image) == slot' = IF image.of = kind THEN image ELSE slot

OnFrame ==
  /\ mail # <<>> /\ Head(mail).what = "frame" /\ mail' = Tail(mail)
  /\ IF Fresh(Head(mail).image) THEN Keeps(Head(mail).image) ELSE UNCHANGED slot
  /\ UNCHANGED <<began, kind, panel, on, stops, encoder, captures, capturing, waiting, asked, starts,
                 pictures, faults>>

\* A failure is not asked which start it belongs to.
OnFailed ==
  /\ mail # <<>> /\ Head(mail).what = "failed" /\ mail' = Tail(mail) /\ StopAll
  /\ UNCHANGED <<began, asked, starts, pictures, faults>>

OnCaptured ==
  /\ mail # <<>> /\ Head(mail).what \in {"captured", "visible", "hidden"} /\ mail' = Tail(mail)
  /\ LET m == Head(mail) IN
     IF Fresh(m.image) /\ m.what = "hidden"
       THEN StopAll
       ELSE /\ capturing' = None /\ UNCHANGED <<kind, panel, on, stops, captures, waiting>>
            /\ IF ~Fresh(m.image) THEN UNCHANGED <<slot, encoder>>
               ELSE IF m.what = "captured" THEN Keeps(m.image) /\ UNCHANGED encoder
               ELSE /\ encoder' = [encoder EXCEPT !["window"] = Submitted(@, m.image)]
                    /\ UNCHANGED slot
  /\ UNCHANGED <<began, asked, starts, pictures, faults>>

Next ==
  \/ \E k \in Kinds : Encode(k) \/ EncodeNext(k) \/ TakePicture(k)
  \/ Refused \/ StartScreen \/ StartBlindScreen \/ StartWindow \/ StartCamera \/ AskCamera \/ Stop
  \/ Granted \/ Denied \/ TakeWindow \/ Capture \/ Breaks \/ OnFrame \/ OnFailed \/ OnCaptured

Spec == Init /\ [][Next]_vars

-----------------------------------------------------------------------------
(* Every variable holds values of its kind. *)
TypeOK ==
  /\ kind \in Kinds \union {None} /\ panel = (kind # None) /\ on \subseteq Kinds
  /\ stops \in [Kinds -> Nat] /\ waiting \in BOOLEAN /\ asked \in 0..MaxStarts
  /\ \A k \in Kinds : Len(encoder[k].queue) <= MaxPictures
  /\ Len(captures) <= MaxPictures /\ pictures \in 0..MaxPictures

(* The frame a message is sent with was taken by the source the chat window     *)
(* shows as shared, since it was last started: no frame of a source that was    *)
(* stopped in between, or that nobody is told about, takes its place.           *)
FrameIsOfTheSharedSource == slot # None => slot.of = kind /\ kind \in on /\ slot.number > began

(* Only the source that is shown as shared is live.                             *)
OneLiveSource == on \subseteq {kind}
=============================================================================
