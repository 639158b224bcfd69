-------------------------- MODULE ComponentsProofs --------------------------
(***************************************************************************)
(* What is proved of the components that Components puts side by side and   *)
(* that keep, remove, find or guard data.                                  *)
(*                                                                         *)
(* The visual sources, the window of an operation on all data, the history, *)
(* the attachments, the vector index and the providers have their inductive *)
(* invariants here, each in a section of its own over the variables its     *)
(* component is given.  The memory jobs and the memory stores have theirs   *)
(* in MemoryJobsProofs and MemoryStoresProofs: JP and MP are these modules  *)
(* at the variables of J and M; as two such instances give every name the   *)
(* same meaning, what is proved in the one holds of the other.              *)
(*                                                                         *)
(* The components that talk to the user are in CompanionProofs.             *)
(***************************************************************************)
EXTENDS Components, QueueTheorems

LEMMA PartStays == [Next]_vars => part' = part
  BY DEF Next, vars, InR, InV, InX, InG, InH, InW, InT, InJ, InM, InP, InA, InC

----------------------------------------
(* The visual sources. *)

\* A frame is of the source that is shared because every picture in flight is dated: it is
\* older than the last stop of its source, or newer than the last start (InFlight).
\* Its variables: kind x1, panel x2, slot x3, on x4, stops x5, encoder x6, captures x7,
\*   capturing x8, waiting x9, asked x10, mail x11, began x12, starts x13,
\*   pictures x14, faults x15

\* A picture is dated by how often its source had been stopped.
Pictures == [of : C!Kinds, gen : Nat, number : Nat]
\* The pictures there may be: one that its source has not been stopped since was taken
\* after sharing was last started.
Recent == {i \in Pictures : i.gen <= x5[i.of] /\ (i.gen = x5[i.of] => i.number > x12)}
Encoder(S) == [future : S \cup {Nil}, pending : S \cup {Nil}, queue : Seq(S), next : S \cup {Nil}]
Signals(S) == [what : {"frame", "failed", "captured", "visible", "hidden"}, image : S]

\* Every picture in flight is such a picture.
InFlight ==
  /\ x6 \in [C!Kinds -> Encoder(Recent)]
  /\ x7 \in Seq(Recent) /\ x8 \in Recent \cup {Nil}
  /\ x11 \in Seq(Signals(Recent))

SourcesIInv ==
  /\ x5 \in [C!Kinds -> Nat] /\ x12 \in Nat /\ x14 \in Nat /\ x12 <= x14
  /\ InFlight
  /\ x3 \in Pictures \cup {Nil} /\ C!FrameIsOfTheSharedSource

----------------------------------------
LEMMA SeqGrows ==
  ASSUME NEW S, NEW Z, S \subseteq Z
  PROVE  Seq(S) \subseteq Seq(Z)
  OBVIOUS

LEMMA WithoutIn ==
  ASSUME NEW S, NEW q \in Seq(S), NEW x
  PROVE  C!Without(q, x) \in Seq(S)
  <1>1. CASE \E i \in 2..Len(q) : q[i] = x
    <2> DEFINE i == CHOOSE i \in 2..Len(q) : q[i] = x
    <2>1. i \in 2..Len(q)
      BY <1>1
    <2> HIDE DEF i
    <2>2. SubSeq(q, 1, i - 1) \in Seq(S) /\ SubSeq(q, i + 1, Len(q)) \in Seq(S)
      BY <2>1
    <2>3. SubSeq(q, 1, i - 1) \o SubSeq(q, i + 1, Len(q)) \in Seq(S)
      BY <2>2
    <2> QED  BY <1>1, <2>3 DEF C!Without, i
  <1>2. CASE ~ \E i \in 2..Len(q) : q[i] = x
    BY <1>2 DEF C!Without
  <1> QED  BY <1>1, <1>2

LEMMA EncoderGrows ==
  ASSUME NEW S, NEW Z, S \subseteq Z
  PROVE  Encoder(S) \subseteq Encoder(Z) /\ Seq(Signals(S)) \subseteq Seq(Signals(Z))
  BY SeqGrows DEF Encoder, Signals

LEMMA CancelledIn ==
  ASSUME NEW S, NEW e \in Encoder(S)
  PROVE  C!Cancelled(e) \in Encoder(S)
  <1>1. C!Without(e.queue, e.future) \in Seq(S)
    BY WithoutIn DEF Encoder
  <1> QED  BY <1>1 DEF C!Cancelled, Encoder

LEMMA SubmittedIn ==
  ASSUME NEW S, NEW e \in Encoder(S), NEW i \in S
  PROVE  C!Submitted(e, i) \in Encoder(S)
  <1>1. Append(e.queue, i) \in Seq(S)
    BY DEF Encoder
  <1> QED  BY <1>1 DEF C!Submitted, Encoder

\* What was in flight stays so if the sources are only stopped, and sharing is only
\* started when all of them are.
LEMMA RecentStays ==
  ASSUME SourcesIInv, x5' \in [C!Kinds -> Nat], \A k \in C!Kinds : x5'[k] >= x5[k],
         x12' = x12 \/ \A k \in C!Kinds : x5'[k] > x5[k]
  PROVE  Recent \subseteq Recent'
  BY DEF SourcesIInv, Recent, Pictures

\* The first picture after a start, and every other one, is such a picture.
LEMMA ImageIn ==
  ASSUME NEW k \in C!Kinds, x5' \in [C!Kinds -> Nat], x14' \in Nat, x12' \in Nat,
         x12' < x14'
  PROVE  C!Image(k) \in Recent'
  BY DEF C!Image, Recent, Pictures

\* A step that keeps what is shown, or shows nothing.
LEMMA StaysRecent ==
  ASSUME SourcesIInv, x5' \in [C!Kinds -> Nat], \A k \in C!Kinds : x5'[k] >= x5[k],
         x12' = x12 \/ (x12' = x14 /\ \A k \in C!Kinds : x5'[k] > x5[k]),
         x14' = x14 \/ x14' = x14 + 1,
         InFlight',
         \/ x3' = Nil
         \/ x3' = x3 /\ x1' = x1 /\ x4 \subseteq x4' /\ x12' = x12
  PROVE  SourcesIInv'
  BY DEF SourcesIInv, C!FrameIsOfTheSharedSource

LEMMA StoppedEncodersIn ==
  ASSUME NEW S, x6 \in [C!Kinds -> Encoder(S)], NEW K
  PROVE  C!StoppedEncoders(K) \in [C!Kinds -> Encoder(S)]
  <1>1. \A k \in C!Kinds : C!Cancelled(x6[k]) \in Encoder(S)
    BY CancelledIn
  <1> QED  BY <1>1 DEF C!StoppedEncoders

\* Stopping sources.
LEMMA StoppedIn ==
  ASSUME SourcesIInv, NEW K, NEW live, C!Stopped(K, live)
  PROVE  /\ x5' \in [C!Kinds -> Nat] /\ \A k \in C!Kinds : x5'[k] >= x5[k]
         /\ C!Kinds \subseteq K => \A k \in C!Kinds : x5'[k] > x5[k]
         /\ x4' = live
         /\ x7' \in Seq(Recent) /\ x8' \in Recent \cup {Nil}
  <1>1. x5 \in [C!Kinds -> Nat] /\ x7 \in Seq(Recent) /\ x8 \in Recent \cup {Nil}
    BY DEF SourcesIInv, InFlight
  <1>2. C!Without(x7, x8) \in Seq(Recent)
    BY <1>1, WithoutIn
  <1>3. x5' = [k \in C!Kinds |-> IF k \in K THEN x5[k] + 1 ELSE x5[k]]
    BY DEF C!Stopped
  <1>4. \A k \in C!Kinds : x5'[k] \in Nat /\ x5'[k] >= x5[k]
    BY <1>1, <1>3
  <1>5. x5' \in [C!Kinds -> Nat]
    BY <1>3, <1>4
  <1>6. ASSUME C!Kinds \subseteq K, NEW k \in C!Kinds
        PROVE  x5'[k] > x5[k]
    BY <1>1, <1>3, <1>6
  <1>7. x7' \in Seq(Recent) /\ x8' \in Recent \cup {Nil} /\ x4' = live
    BY <1>1, <1>2 DEF C!Stopped
  <1> QED  BY <1>4, <1>5, <1>6, <1>7

\* What is in flight in the next state, when no picture was taken.
LEMMA Carried ==
  ASSUME NEW S, NEW Z, S \subseteq Z, Z = Recent',
         x6' \in [C!Kinds -> Encoder(S)], x7' \in Seq(S), x8' \in S \cup {Nil},
         x11' \in Seq(Signals(S))
  PROVE  InFlight'
  <1>1. x6' \in [C!Kinds -> Encoder(Z)] /\ x7' \in Seq(Z) /\ x8' \in Z \cup {Nil}
        /\ x11' \in Seq(Signals(Z))
    BY EncoderGrows, SeqGrows
  <1> QED  BY <1>1 DEF InFlight

LEMMA SourcesInitiallyIInv == C!Init => SourcesIInv
  <1> SUFFICES ASSUME C!Init
               PROVE  SourcesIInv
    OBVIOUS
  <1>1. \A k \in C!Kinds : C!Idle \in Encoder(Recent)
    BY DEF C!Idle, Encoder
  <1> QED  BY <1>1 DEF C!Init, SourcesIInv, InFlight, C!FrameIsOfTheSharedSource

LEMMA StopAllStep ==
  ASSUME SourcesIInv, C!StopAll, x12' = x12, x14' = x14, x11' \in Seq(Signals(Recent))
  PROVE  SourcesIInv'
  <1>1. /\ x5' \in [C!Kinds -> Nat] /\ (\A k \in C!Kinds : x5'[k] >= x5[k])
        /\ x7' \in Seq(Recent) /\ x8' \in Recent \cup {Nil}
    BY StoppedIn DEF C!StopAll
  <1>2. x6' \in [C!Kinds -> Encoder(Recent)]
    BY StoppedEncodersIn DEF C!StopAll, SourcesIInv, InFlight
  <1>3. Recent \subseteq Recent'
    BY <1>1, RecentStays
  <1>4. InFlight'
    BY <1>1, <1>2, <1>3, Carried
  <1> QED  BY <1>1, <1>4, StaysRecent DEF C!StopAll

\* Sharing is started before a picture is taken.
LEMMA StartStep ==
  ASSUME SourcesIInv, NEW k, NEW live, C!Stopped(C!Kinds, live), C!Shares(k), x14' = x14, x11' = x11,
         x6' = C!StoppedEncoders(C!Kinds)
  PROVE  SourcesIInv'
  <1>1. /\ x5' \in [C!Kinds -> Nat] /\ (\A m \in C!Kinds : x5'[m] >= x5[m])
        /\ (\A m \in C!Kinds : x5'[m] > x5[m])
        /\ x7' \in Seq(Recent) /\ x8' \in Recent \cup {Nil}
    BY StoppedIn
  <1>2. x6' \in [C!Kinds -> Encoder(Recent)]
    BY StoppedEncodersIn DEF SourcesIInv, InFlight
  <1>3. Recent \subseteq Recent'
    BY <1>1, RecentStays
  <1>4. InFlight'
    BY <1>1, <1>2, <1>3, Carried DEF SourcesIInv, InFlight
  <1> QED  BY <1>1, <1>4, StaysRecent DEF C!Shares

LEMMA StartScreenStep ==
  ASSUME SourcesIInv, C!StartScreen
  PROVE  SourcesIInv'
  <1>1. /\ x5' \in [C!Kinds -> Nat] /\ (\A m \in C!Kinds : x5'[m] >= x5[m])
        /\ (\A m \in C!Kinds : x5'[m] > x5[m])
        /\ x7' \in Seq(Recent) /\ x8' \in Recent \cup {Nil}
    BY StoppedIn DEF C!StartScreen
  <1>2. C!StoppedEncoders(C!Kinds) \in [C!Kinds -> Encoder(Recent)]
    BY StoppedEncodersIn DEF SourcesIInv, InFlight
  <1>3. Recent \subseteq Recent'
    BY <1>1, RecentStays
  <1>4. x12' = x14 /\ x14' = x14 + 1 /\ x14 \in Nat /\ x3' = Nil /\ x11' = x11
    BY DEF C!StartScreen, C!Shares, C!Takes, SourcesIInv
  <1>5. "screen" \in C!Kinds
    BY DEF C!Kinds
  <1>6. C!Image("screen") \in Recent'
    BY <1>1, <1>4, <1>5, ImageIn
  <1>7. C!StoppedEncoders(C!Kinds) \in [C!Kinds -> Encoder(Recent')]
    BY <1>2, <1>3, EncoderGrows
  <1>8. C!Submitted(C!StoppedEncoders(C!Kinds)["screen"], C!Image("screen")) \in Encoder(Recent')
    BY <1>5, <1>6, <1>7, SubmittedIn
  <1>9. x6' = [C!StoppedEncoders(C!Kinds) EXCEPT !["screen"] =
                      C!Submitted(C!StoppedEncoders(C!Kinds)["screen"], C!Image("screen"))]
    BY DEF C!StartScreen
  <1>10. x6' \in [C!Kinds -> Encoder(Recent')]
    BY <1>7, <1>8, <1>9
  <1>11. x11' \in Seq(Signals(Recent')) /\ x7' \in Seq(Recent') /\ x8' \in Recent' \cup {Nil}
    BY <1>1, <1>3, <1>4, EncoderGrows, SeqGrows DEF SourcesIInv, InFlight
  <1>12. InFlight'
    BY <1>10, <1>11 DEF InFlight
  <1> QED  BY <1>1, <1>4, <1>12, StaysRecent

LEMMA StartWindowStep ==
  ASSUME SourcesIInv, C!StartWindow
  PROVE  SourcesIInv'
  <1>1. /\ x5' = [k \in C!Kinds |-> x5[k] + 1] /\ x5 \in [C!Kinds -> Nat]
        /\ x6' = C!StoppedEncoders(C!Kinds) /\ x11' = x11
        /\ x8' = C!Image("window")
        /\ x7' = Append(C!Without(x7, x8), x8')
    BY DEF C!StartWindow, SourcesIInv
  <1>2. /\ x5' \in [C!Kinds -> Nat] /\ (\A m \in C!Kinds : x5'[m] >= x5[m])
        /\ (\A m \in C!Kinds : x5'[m] > x5[m])
    BY <1>1
  <1>3. Recent \subseteq Recent'
    BY <1>2, RecentStays
  <1>4. x12' = x14 /\ x14' = x14 + 1 /\ x14 \in Nat /\ x3' = Nil
    BY DEF C!StartWindow, C!Shares, C!Takes, SourcesIInv
  <1>5. C!Image("window") \in Recent'
    BY <1>2, <1>4, ImageIn DEF C!Kinds
  <1>6. C!Without(x7, x8) \in Seq(Recent')
    BY <1>3, WithoutIn, SeqGrows DEF SourcesIInv, InFlight
  <1>7. x7' \in Seq(Recent') /\ x8' \in Recent' \cup {Nil}
    BY <1>1, <1>5, <1>6
  <1>8. x6' \in [C!Kinds -> Encoder(Recent')]
    BY <1>1, <1>3, StoppedEncodersIn, EncoderGrows DEF SourcesIInv, InFlight
  <1>9. x11' \in Seq(Signals(Recent'))
    BY <1>1, <1>3, EncoderGrows DEF SourcesIInv, InFlight
  <1>10. InFlight'
    BY <1>7, <1>8, <1>9 DEF InFlight
  <1> QED  BY <1>2, <1>4, <1>10, StaysRecent

LEMMA AskCameraStep ==
  ASSUME SourcesIInv, C!AskCamera
  PROVE  SourcesIInv'
  <1>1. /\ x5' = [k \in C!Kinds |-> x5[k] + 1] /\ x5 \in [C!Kinds -> Nat]
        /\ x7' = C!Without(x7, x8) /\ x8' = Nil
        /\ x6' = C!StoppedEncoders(C!Kinds) /\ x11' = x11
    BY DEF C!AskCamera, SourcesIInv
  <1>2. /\ x5' \in [C!Kinds -> Nat] /\ (\A m \in C!Kinds : x5'[m] >= x5[m])
        /\ (\A m \in C!Kinds : x5'[m] > x5[m])
    BY <1>1
  <1>3. Recent \subseteq Recent'
    BY <1>2, RecentStays
  <1>4. x6' \in [C!Kinds -> Encoder(Recent)] /\ x7' \in Seq(Recent)
    BY <1>1, StoppedEncodersIn, WithoutIn DEF SourcesIInv, InFlight
  <1>5. InFlight'
    BY <1>1, <1>3, <1>4, Carried DEF SourcesIInv, InFlight
  <1> QED  BY <1>2, <1>5, StaysRecent DEF C!AskCamera, C!Shares

LEMMA GrantedStep ==
  ASSUME SourcesIInv, C!Granted
  PROVE  SourcesIInv'
  <1>1. /\ x5' \in [C!Kinds -> Nat] /\ (\A k \in C!Kinds : x5'[k] >= x5[k])
        /\ x7' \in Seq(Recent) /\ x8' \in Recent \cup {Nil}
        /\ x4 \subseteq x4'
    BY StoppedIn DEF C!Granted
  <1>2. x6' \in [C!Kinds -> Encoder(Recent)]
    BY StoppedEncodersIn DEF C!Granted, SourcesIInv, InFlight
  <1>3. Recent \subseteq Recent'
    BY <1>1, RecentStays DEF C!Granted
  <1>4. InFlight'
    BY <1>1, <1>2, <1>3, Carried DEF C!Granted, SourcesIInv, InFlight
  <1> QED  BY <1>1, <1>4, StaysRecent DEF C!Granted

\* Nothing is stopped.
LEMMA QuietStep ==
  ASSUME SourcesIInv, x5' = x5, x12' = x12, x1' = x1, x3' = x3, x4' = x4,
         x14' = x14 \/ x14' = x14 + 1, InFlight'
  PROVE  SourcesIInv'
  BY StaysRecent DEF SourcesIInv

LEMMA SameRecent ==
  ASSUME x5' = x5, x12' = x12
  PROVE  Recent' = Recent
  BY DEF Recent

LEMMA EncodeStep ==
  ASSUME SourcesIInv, NEW k \in C!Kinds, C!Encode(k)
  PROVE  SourcesIInv'
  <1>1. Recent' = Recent
    BY SameRecent DEF C!Encode
  <1> DEFINE e == x6[k]
             new == [future |-> IF e.future = Head(e.queue) THEN Nil ELSE e.future,
                     pending |-> Nil, queue |-> Tail(e.queue), next |-> e.pending]
  <1>2. e \in Encoder(Recent) /\ e.queue # <<>> /\ x6 \in [C!Kinds -> Encoder(Recent)]
    BY DEF SourcesIInv, InFlight, C!Encode
  <1>3. Head(e.queue) \in Recent /\ Tail(e.queue) \in Seq(Recent)
    BY <1>2 DEF Encoder
  <1>4. new \in Encoder(Recent)
    BY <1>2, <1>3 DEF Encoder
  <1>5. x6' = [x6 EXCEPT ![k] = new]
    BY DEF C!Encode
  <1>6. \/ x11' = x11
        \/ x11' = Append(x11, [what |-> "frame", image |-> Head(e.queue)])
        \/ x11' = Append(x11, [what |-> "failed", image |-> Head(e.queue)])
    BY DEF C!Encode
  <1>7. x11' \in Seq(Signals(Recent))
    <2>1. x11 \in Seq(Signals(Recent))
      BY DEF SourcesIInv, InFlight
    <2>2. \A what \in {"frame", "failed"} :
            Append(x11, [what |-> what, image |-> Head(e.queue)]) \in Seq(Signals(Recent))
      BY <1>3, <2>1 DEF Signals
    <2> QED  BY <1>6, <2>1, <2>2
  <1> HIDE DEF new
  <1>8. x6' \in [C!Kinds -> Encoder(Recent)]
    BY <1>2, <1>4, <1>5
  <1>9. InFlight'
    BY <1>1, <1>7, <1>8 DEF C!Encode, SourcesIInv, InFlight
  <1> QED  BY <1>9, QuietStep DEF C!Encode

LEMMA EncodeNextStep ==
  ASSUME SourcesIInv, NEW k \in C!Kinds, C!EncodeNext(k)
  PROVE  SourcesIInv'
  <1>1. Recent' = Recent
    BY SameRecent DEF C!EncodeNext
  <1> DEFINE e == x6[k]
             new == [e EXCEPT !.future = e.next, !.queue = Append(e.queue, e.next), !.next = Nil]
  <1>2. e \in Encoder(Recent) /\ e.next # Nil /\ x6 \in [C!Kinds -> Encoder(Recent)]
    BY DEF SourcesIInv, InFlight, C!EncodeNext
  <1>3. e.next \in Recent /\ Append(e.queue, e.next) \in Seq(Recent)
    BY <1>2 DEF Encoder
  <1>4. new \in Encoder(Recent)
    BY <1>2, <1>3 DEF Encoder
  <1>5. x6' = [x6 EXCEPT ![k] = new]
    BY DEF C!EncodeNext
  <1> HIDE DEF new
  <1>6. x6' \in [C!Kinds -> Encoder(Recent)]
    BY <1>2, <1>4, <1>5
  <1>7. InFlight'
    BY <1>1, <1>6 DEF C!EncodeNext, SourcesIInv, InFlight
  <1> QED  BY <1>7, QuietStep DEF C!EncodeNext

LEMMA TakePictureStep ==
  ASSUME SourcesIInv, NEW k \in C!Kinds, C!TakePicture(k)
  PROVE  SourcesIInv'
  <1>1. Recent' = Recent
    BY SameRecent DEF C!TakePicture
  <1>2. C!Image(k) \in Recent'
    BY ImageIn DEF C!TakePicture, C!Takes, SourcesIInv
  <1>3. C!Submitted(x6[k], C!Image(k)) \in Encoder(Recent)
    BY <1>1, <1>2, SubmittedIn DEF SourcesIInv, InFlight
  <1>4. x6' = [x6 EXCEPT ![k] = C!Submitted(x6[k], C!Image(k))]
    BY DEF C!TakePicture
  <1>5. x6' \in [C!Kinds -> Encoder(Recent)]
    BY <1>3, <1>4 DEF SourcesIInv, InFlight
  <1>6. InFlight'
    BY <1>1, <1>5 DEF C!TakePicture, SourcesIInv, InFlight
  <1> QED  BY <1>6, QuietStep DEF C!TakePicture, C!Takes

LEMMA TakeWindowStep ==
  ASSUME SourcesIInv, C!TakeWindow
  PROVE  SourcesIInv'
  <1>1. Recent' = Recent
    BY SameRecent DEF C!TakeWindow
  <1>2. C!Image("window") \in Recent'
    BY ImageIn DEF C!TakeWindow, C!Takes, SourcesIInv, C!Kinds
  <1>3. x8' = C!Image("window") /\ x7' = Append(x7, x8')
    BY DEF C!TakeWindow
  <1>4. x7' \in Seq(Recent) /\ x8' \in Recent
    BY <1>1, <1>2, <1>3 DEF SourcesIInv, InFlight
  <1>5. InFlight'
    BY <1>1, <1>4 DEF C!TakeWindow, SourcesIInv, InFlight
  <1> QED  BY <1>5, QuietStep DEF C!TakeWindow, C!Takes

LEMMA CaptureStep ==
  ASSUME SourcesIInv, C!Capture
  PROVE  SourcesIInv'
  <1>1. Recent' = Recent
    BY SameRecent DEF C!Capture
  <1>2. x7 \in Seq(Recent) /\ x7 # <<>> /\ x7' = Tail(x7)
    BY DEF C!Capture, SourcesIInv, InFlight
  <1>3. Head(x7) \in Recent /\ x7' \in Seq(Recent)
    BY <1>2
  <1>4. \E what \in {"captured", "visible", "hidden"} :
          x11' = Append(x11, [what |-> what, image |-> Head(x7)])
    BY DEF C!Capture
  <1>5. x11' \in Seq(Signals(Recent))
    BY <1>3, <1>4 DEF SourcesIInv, InFlight, Signals
  <1>6. InFlight'
    BY <1>1, <1>3, <1>5 DEF C!Capture, SourcesIInv, InFlight
  <1> QED  BY <1>6, QuietStep DEF C!Capture

\* The first signal is taken.
LEMMA FirstSignal ==
  ASSUME SourcesIInv, x11 # <<>>
  PROVE  Head(x11) \in Signals(Recent) /\ Tail(x11) \in Seq(Signals(Recent))
  BY DEF SourcesIInv, InFlight

\* The user interface keeps a frame of a source that is live and was not stopped since.
LEMMA KeepsStep ==
  ASSUME SourcesIInv, NEW i \in Recent, C!Fresh(i), C!Keeps(i), x5' = x5, x12' = x12, x1' = x1,
         x4' = x4, x14' = x14, InFlight'
  PROVE  SourcesIInv'
  <1>1. CASE i.of = x1
    BY <1>1 DEF C!Fresh, C!Keeps, Recent, SourcesIInv, C!FrameIsOfTheSharedSource
  <1>2. CASE i.of # x1
    BY <1>2, QuietStep DEF C!Keeps
  <1> QED  BY <1>1, <1>2

LEMMA OnFrameStep ==
  ASSUME SourcesIInv, C!OnFrame
  PROVE  SourcesIInv'
  <1>1. Recent' = Recent
    BY SameRecent DEF C!OnFrame
  <1>2. Head(x11).image \in Recent /\ x11' \in Seq(Signals(Recent))
    BY FirstSignal DEF C!OnFrame, Signals
  <1>3. InFlight'
    BY <1>1, <1>2 DEF C!OnFrame, SourcesIInv, InFlight
  <1>4. CASE C!Fresh(Head(x11).image)
    BY <1>2, <1>3, <1>4, KeepsStep DEF C!OnFrame
  <1>5. CASE ~C!Fresh(Head(x11).image)
    BY <1>3, <1>5, QuietStep DEF C!OnFrame
  <1> QED  BY <1>4, <1>5

LEMMA OnCapturedStep ==
  ASSUME SourcesIInv, C!OnCaptured
  PROVE  SourcesIInv'
  <1>1. Head(x11).image \in Recent /\ x11' \in Seq(Signals(Recent))
    BY FirstSignal DEF C!OnCaptured, Signals
  <1> DEFINE m == Head(x11)
  <1>2. CASE C!Fresh(m.image) /\ m.what = "hidden"
    BY <1>1, <1>2, StopAllStep DEF C!OnCaptured
  <1>3. CASE ~(C!Fresh(m.image) /\ m.what = "hidden")
    <2>1. /\ x8' = Nil /\ x1' = x1 /\ x4' = x4 /\ x5' = x5 /\ x7' = x7
          /\ x12' = x12 /\ x14' = x14
          /\ IF ~C!Fresh(m.image) THEN x3' = x3 /\ x6' = x6
             ELSE IF m.what = "captured" THEN C!Keeps(m.image) /\ x6' = x6
             ELSE x6' = [x6 EXCEPT !["window"] = C!Submitted(x6["window"], m.image)]
                  /\ x3' = x3
      BY <1>3 DEF C!OnCaptured
    <2>2. Recent' = Recent
      BY <2>1, SameRecent
    <2>3. C!Submitted(x6["window"], m.image) \in Encoder(Recent)
      BY <1>1, SubmittedIn DEF SourcesIInv, InFlight, C!Kinds
    <2>4. x6' \in [C!Kinds -> Encoder(Recent)]
      BY <2>1, <2>3 DEF SourcesIInv, InFlight
    <2>5. InFlight'
      BY <1>1, <2>1, <2>2, <2>4 DEF SourcesIInv, InFlight
    <2> QED  BY <1>1, <2>1, <2>5, QuietStep, KeepsStep
  <1> QED  BY <1>2, <1>3

LEMMA SourcesIInvStep == SourcesIInv /\ (C!Next \/ UNCHANGED C!vars) => SourcesIInv'
  <1> SUFFICES ASSUME SourcesIInv, (C!Next \/ UNCHANGED C!vars)
               PROVE  SourcesIInv'
    OBVIOUS
  <1>1. x11 \in Seq(Signals(Recent))
    BY DEF SourcesIInv, InFlight
  <1>2. ASSUME NEW k \in C!Kinds, C!Encode(k) \/ C!EncodeNext(k) \/ C!TakePicture(k)
        PROVE  SourcesIInv'
    BY <1>2, EncodeStep, EncodeNextStep, TakePictureStep
  <1>3. CASE C!Refused \/ C!Stop \/ C!Denied \/ C!Breaks
    BY <1>1, <1>3, StopAllStep DEF C!Refused, C!Stop, C!Denied, C!Breaks
  <1>4. CASE C!StartScreen \/ C!StartWindow \/ C!AskCamera
    BY <1>4, StartScreenStep, StartWindowStep, AskCameraStep
  <1>5. CASE C!StartBlindScreen \/ C!StartCamera
    BY <1>5, StartStep DEF C!StartBlindScreen, C!StartCamera
  <1>6. CASE C!OnFailed
    BY <1>6, FirstSignal, StopAllStep DEF C!OnFailed
  <1>7. CASE C!Granted \/ C!TakeWindow \/ C!Capture \/ C!OnFrame \/ C!OnCaptured
    BY <1>7, GrantedStep, TakeWindowStep, CaptureStep, OnFrameStep, OnCapturedStep
  <1>8. CASE UNCHANGED C!vars
    BY <1>8, QuietStep DEF C!vars, SourcesIInv, InFlight, Recent
  <1> QED  BY <1>2, <1>3, <1>4, <1>5, <1>6, <1>7, <1>8 DEF C!Next

SourcesInv == part = "sources" => SourcesIInv

LEMMA SourcesStart == Init => SourcesInv
  <1> SUFFICES ASSUME Init, part = "sources"
               PROVE  SourcesIInv
    BY DEF SourcesInv
  <1>1. C!Init
    BY DEF Init, InitOf
  <1> QED  BY <1>1, SourcesInitiallyIInv

LEMMA SourcesMoves ==
  ASSUME [Next]_vars, part = "sources"
  PROVE  C!Next \/ UNCHANGED C!vars
  <1>1. CASE Next
    BY <1>1 DEF Next, InR, InV, InX, InG, InH, InW, InT, InJ, InM, InP, InA, InC
  <1>2. CASE UNCHANGED vars
    BY <1>2 DEF vars, C!vars
  <1> QED  BY <1>1, <1>2

LEMMA SourcesStep == SourcesInv /\ [Next]_vars => SourcesInv'
  <1> SUFFICES ASSUME SourcesInv, [Next]_vars, part' = "sources"
               PROVE  SourcesIInv'
    BY DEF SourcesInv
  <1>1. part = "sources" /\ SourcesIInv
    BY PartStays DEF SourcesInv
  <1> QED  BY <1>1, SourcesMoves, SourcesIInvStep

LEMMA SourcesInvariance == Spec => []SourcesInv
  BY SourcesStart, SourcesStep, PTL DEF Spec

\* visual_runtime.py: a frame that is handed on was taken by the source that is shared
\* now and after sharing began, for any number of starts, pictures and failures, in
\* whatever order encoders, captures and signals end.
THEOREM FrameShared == Spec => []FrameIsOfTheSharedSource
  <1>1. SourcesInv => FrameIsOfTheSharedSource
    BY DEF SourcesInv, SourcesIInv, FrameIsOfTheSharedSource
  <1> QED  BY <1>1, SourcesInvariance, PTL

----------------------------------------
(* The window of an operation on all data. *)

\* What the user agreed to lose is carried from the thread to the exit: OneBackup says
\* whose answer the backup is, and Backed that it is complete where it is relied on.
\* Its variables: window x1, dialog x2, staged x3, stopped x4, held x5, exiting x6,
\*   stopping x7, chat x8, work x9, paused x10, greeter x11, urgent x12,
\*   normal x13, background x14, answers x15, dataUp x16, live x17,
\*   agreed x18, backup x19, fate x20, lost x21, items x22, sends x23,
\*   windows x24, faults x25

Asked == [op : {"persist", "edit", "backup", "stage", "clear"}, item : Nat]
Prebackup == W!Op("prebackup")
Written == [req : Asked \cup {Prebackup}, ok : BOOLEAN]
BackupAnswer == [req : {Prebackup}, ok : BOOLEAN]

\* Only the backup before a restore is urgent, and there is one.
Queues ==
  /\ x12 \in {<<>>, <<Prebackup>>} /\ x13 \in Seq(Asked) /\ x14 \in Seq(Asked)
  /\ x15 \in Seq(Written) /\ x22 \in Nat

\* It is asked for, and its answer is on its way, in the window of the restore only, or
\* while the application exits.
OneBackup ==
  /\ Single(x15, BackupAnswer)
  /\ x12 # <<>> => Elements(x15) \cap BackupAnswer = {}
  /\ x12 # <<>> \/ Elements(x15) \cap BackupAnswer # {} => x1 = "prebackup" \/ x6
  /\ x2 # "none" => x1 # "prebackup"

\* What the user agreed to lose is still there until it is in the backup.
Backed ==
  /\ x12 # <<>> => x18 \subseteq x17
  /\ \A a \in Elements(x15) : a \in BackupAnswer /\ a.ok => x18 \subseteq x19
  /\ x7 = "apply" => x18 \subseteq x19
  /\ W!BackedUpBeforeReplaced

\* The controls stay locked and the greeter stopped while the window is open.
Quiet ==
  /\ x1 \in {"prebackup", "applying"} =>
       /\ x8 # "active" /\ x11 # "generating"
       /\ x6 \/ (x5 /\ x11 = "stopped")
  /\ x6 /\ x7 = "no" => x8 # "active" /\ x11 # "generating"

\* After the files are gone nothing is asked of the data thread.
Closed == x20 # "kept" => x6 /\ W!Drained

WindowIInv == Queues /\ OneBackup /\ Backed /\ Quiet /\ Closed

----------------------------------------
LEMMA EmptyTail ==
  ASSUME NEW x
  PROVE  Head(<<x>>) = x /\ Tail(<<x>>) = <<>>
  <1>1. <<x>> \in Seq({x}) /\ <<x>> # <<>> /\ Len(<<x>>) = 1
    OBVIOUS
  <1>2. Tail(<<x>>) \in Seq({x}) /\ Len(Tail(<<x>>)) = 0
    BY <1>1
  <1> QED  BY <1>1, <1>2

LEMMA WindowInitiallyIInv == W!Init => WindowIInv
  <1> SUFFICES ASSUME W!Init
               PROVE  WindowIInv
    OBVIOUS
  <1>1. Elements(x15) = {} /\ Single(x15, BackupAnswer)
    BY EmptyQueue DEF W!Init
  <1>2. Queues
    BY DEF W!Init, Queues
  <1> QED  BY <1>1, <1>2 DEF W!Init, WindowIInv, OneBackup, Backed, Quiet, Closed, W!BackedUpBeforeReplaced

\* Nothing happens to the queues and the window.
LEMMA LaneStep ==
  ASSUME WindowIInv, UNCHANGED <<x1, W!flags, W!thread, W!disk, x22>>, Quiet'
  PROVE  WindowIInv'
  <1>1. /\ x1' = x1 /\ x2' = x2 /\ x6' = x6 /\ x7' = x7
        /\ x12' = x12 /\ x13' = x13 /\ x14' = x14 /\ x15' = x15
        /\ x17' = x17 /\ x18' = x18 /\ x19' = x19 /\ x20' = x20 /\ x22' = x22
    BY DEF W!flags, W!thread, W!disk
  <1> QED  BY <1>1 DEF WindowIInv, Queues, OneBackup, Backed, Closed, W!Drained, W!BackedUpBeforeReplaced

\* Another operation is asked for.
LEMMA AskStep ==
  ASSUME WindowIInv, ~x6, x12' = x12, x15' = x15,
         x13' \in Seq(Asked), x14' \in Seq(Asked), x22' \in Nat,
         UNCHANGED W!disk, x6' = x6, x7' = x7,
         x1' # "prebackup", x1 # "prebackup" \/ x1' = x1, Quiet'
  PROVE  WindowIInv'
  <1>1. x17' = x17 /\ x18' = x18 /\ x19' = x19 /\ x20' = x20
    BY DEF W!disk
  <1>2. x1 # "prebackup"
    OBVIOUS
  <1>3. Queues'
    BY DEF WindowIInv, Queues
  <1>4. OneBackup'
    BY <1>2 DEF WindowIInv, OneBackup
  <1>5. Backed' /\ Closed'
    BY <1>1 DEF WindowIInv, Backed, Closed, W!BackedUpBeforeReplaced
  <1> QED  BY <1>3, <1>4, <1>5 DEF WindowIInv

\* Only the main thread's own state changes.
LEMMA MainStep ==
  ASSUME WindowIInv, UNCHANGED <<x12, x13, x14, x15, W!disk, x22>>,
         x6' \/ ~x6, x6' = x6 \/ x6',
         (x12 # <<>> \/ Elements(x15) \cap BackupAnswer # {}) =>
            x1' = "prebackup" \/ x6',
         x2' # "none" => x1' # "prebackup",
         x7' = "apply" => x7 = "apply" \/ x18 \subseteq x19,
         Quiet'
  PROVE  WindowIInv'
  <1>1. x17' = x17 /\ x18' = x18 /\ x19' = x19 /\ x20' = x20
    BY DEF W!disk
  <1>2. Queues'
    BY DEF WindowIInv, Queues
  <1>3. OneBackup'
    BY DEF WindowIInv, OneBackup
  <1>4. Backed'
    BY <1>1 DEF WindowIInv, Backed, W!BackedUpBeforeReplaced
  <1>5. Closed'
    BY <1>1 DEF WindowIInv, Closed, W!Drained
  <1> QED  BY <1>2, <1>3, <1>4, <1>5 DEF WindowIInv

----------------------------------------
LEMMA SendStep ==
  ASSUME WindowIInv, W!Send \/ W!Dispatch \/ W!LaneTimeout \/ W!ReplyEnds \/ W!JobStarts \/ W!GreetingStarts
               \/ W!GreetingEnds \/ W!SaveProfiles
  PROVE  WindowIInv'
  <1>1. ~x6 /\ Quiet
    BY DEF W!Send, W!Dispatch, W!LaneTimeout, W!ReplyEnds, W!JobStarts, W!GreetingStarts, W!GreetingEnds,
           W!SaveProfiles, W!AtHand, W!Free, WindowIInv
  <1>2. UNCHANGED <<x1, W!flags, W!thread, W!disk, x22>>
    BY DEF W!Send, W!Dispatch, W!LaneTimeout, W!ReplyEnds, W!JobStarts, W!GreetingStarts, W!GreetingEnds,
           W!SaveProfiles, W!counts
  <1>3. x1' = x1 /\ x6' = x6 /\ x5' = x5 /\ x7' = x7
    BY <1>2 DEF W!flags
  <1>4. ASSUME x1 \in {"prebackup", "applying"}
        PROVE  x8' # "active" /\ x11' = x11
    BY <1>1, <1>4 DEF Quiet, W!Send, W!Dispatch, W!LaneTimeout, W!ReplyEnds, W!JobStarts, W!GreetingStarts,
                       W!GreetingEnds, W!SaveProfiles
  <1>5. Quiet'
    BY <1>1, <1>3, <1>4 DEF Quiet
  <1> QED  BY <1>2, <1>5, LaneStep

LEMMA JobEndsStep ==
  ASSUME WindowIInv, W!JobEnds \/ W!EditMemory
  PROVE  WindowIInv'
  <1>1. ~x6 /\ UNCHANGED <<x1, W!flags, x8, x11, x12, x15, W!disk>>
    BY DEF W!JobEnds, W!EditMemory, W!AtHand, W!Free, W!lanes
  <1>2. x1' = x1 /\ x6' = x6 /\ x5' = x5 /\ x7' = x7
        /\ x2' = x2 /\ x8' = x8 /\ x11' = x11
        /\ x17' = x17 /\ x18' = x18 /\ x19' = x19 /\ x20' = x20
    BY <1>1 DEF W!flags, W!disk
  <1>3. x22' = x22 + 1 /\ x22 \in Nat
    BY DEF W!JobEnds, W!EditMemory, WindowIInv, Queues
  <1>4. x13' \in Seq(Asked) /\ x14' \in Seq(Asked)
    <2>1. [op |-> "persist", item |-> x22 + 1] \in Asked /\ [op |-> "edit", item |-> x22 + 1] \in Asked
      BY <1>3 DEF Asked
    <2>2. x13 \in Seq(Asked) /\ x14 \in Seq(Asked)
      BY DEF WindowIInv, Queues
    <2>3. Append(x13, [op |-> "edit", item |-> x22 + 1]) \in Seq(Asked)
          /\ Append(x14, [op |-> "persist", item |-> x22 + 1]) \in Seq(Asked)
      BY <2>1, <2>2
    <2> QED  BY <2>2, <2>3 DEF W!JobEnds, W!EditMemory
  <1>5. Queues'
    BY <1>1, <1>3, <1>4 DEF WindowIInv, Queues
  <1>6. OneBackup' /\ Backed' /\ Quiet' /\ Closed'
    BY <1>1, <1>2 DEF WindowIInv, OneBackup, Backed, Quiet, Closed, W!BackedUpBeforeReplaced
  <1> QED  BY <1>5, <1>6 DEF WindowIInv

LEMMA DialogStep ==
  ASSUME WindowIInv, W!AskBackup \/ W!AskRestore \/ W!AskReset \/ W!Dismiss
  PROVE  WindowIInv'
  <1>1. /\ UNCHANGED <<x1, x5, x6, x7, x8, x11, x12, x13, x14,
                       x15, W!disk, x22>>
        /\ x2' = "none" \/ x1 = "idle"
    BY DEF W!AskBackup, W!AskRestore, W!AskReset, W!Ask, W!Dismiss, W!CanStart, W!lanes, W!thread, W!counts
  <1>2. Quiet' /\ OneBackup
    BY <1>1 DEF WindowIInv, Quiet
  <1> QED  BY <1>1, <1>2, MainStep DEF OneBackup

LEMMA ChooseFileStep ==
  ASSUME WindowIInv, W!ChooseFile
  PROVE  WindowIInv'
  <1>1. /\ ~x6 /\ x6' = x6 /\ x7' = x7
        /\ UNCHANGED <<x12, x14, x15, W!disk, x22>>
        /\ x1' \in {"backup", "validation"} /\ x1 # "prebackup"
    BY DEF W!ChooseFile, W!Free, W!counts, WindowIInv, OneBackup
  <1>2. x13' \in Seq(Asked)
    <2>1. W!Op("backup") \in Asked /\ W!Op("stage") \in Asked /\ x13 \in Seq(Asked)
      BY DEF W!Op, Asked, WindowIInv, Queues
    <2>2. x13' = Append(x13, W!Op("backup")) \/ x13' = Append(x13, W!Op("stage"))
      BY DEF W!ChooseFile
    <2> QED  BY <2>1, <2>2
  <1>3. Quiet'
    BY <1>1 DEF Quiet
  <1> QED  BY <1>1, <1>2, <1>3, AskStep DEF WindowIInv, Queues

LEMMA AskClearStep ==
  ASSUME WindowIInv, W!AskClear
  PROVE  WindowIInv'
  <1>1. /\ ~x6 /\ x6' = x6 /\ x7' = x7
        /\ UNCHANGED <<x12, x14, x15, W!disk, x22>>
        /\ x1 = "idle" /\ x1' \in {"idle", "clearing"}
    BY DEF W!AskClear, W!AtHand, W!Free, W!flags
  <1>2. x13' \in Seq(Asked)
    <2>1. W!Op("clear") \in Asked /\ x13 \in Seq(Asked)
      BY DEF W!Op, Asked, WindowIInv, Queues
    <2>2. x13' = Append(x13, W!Op("clear")) \/ x13' = x13
      BY DEF W!AskClear
    <2> QED  BY <2>1, <2>2
  <1>3. Quiet'
    BY <1>1 DEF Quiet
  <1> QED  BY <1>1, <1>2, <1>3, AskStep DEF WindowIInv, Queues

LEMMA ConfirmResetStep ==
  ASSUME WindowIInv, W!ConfirmReset
  PROVE  WindowIInv'
  <1>1. /\ ~x6 /\ x6' = x6 /\ x2' = "none"
        /\ UNCHANGED <<x12, x13, x14, x15, W!disk, x22>>
        /\ x1' \in {"idle", "resetting"} /\ x1 # "prebackup"
        /\ x7' # "apply"
    BY DEF W!ConfirmReset, W!Free, WindowIInv, OneBackup, W!Backs, W!Stop
  <1>2. Quiet'
    BY <1>1 DEF Quiet
  <1> QED  BY <1>1, <1>2, MainStep DEF WindowIInv, OneBackup

LEMMA ConfirmRestoreStep ==
  ASSUME WindowIInv, W!ConfirmRestore
  PROVE  WindowIInv'
  <1>1. /\ ~x6 /\ x6' = x6 /\ x2' = "none" /\ x7 = "no" /\ x7' = x7
        /\ UNCHANGED <<x13, x14, x15, x17, x19, x20, x21, x22>>
        /\ x1 # "prebackup"
    BY DEF W!ConfirmRestore, W!Free, WindowIInv, OneBackup
  <1>2. x12 = <<>> /\ Elements(x15) \cap BackupAnswer = {} /\ x20 = "kept"
    BY <1>1 DEF WindowIInv, OneBackup, Closed
  <1>3. CASE x1' = "idle" /\ x12' = x12 /\ x18' = x18
    <2>1. Quiet'
      BY <1>1, <1>3 DEF Quiet
    <2> QED  BY <1>1, <1>2, <1>3, <2>1, MainStep DEF W!disk
  <1>4. CASE W!Begins /\ x1' = "prebackup" /\ x18' = x17 /\ x12' = Append(x12, Prebackup)
    <2>1. x12' = <<Prebackup>>
      BY <1>2, <1>4
    <2>2. Queues'
      BY <1>1, <2>1 DEF WindowIInv, Queues
    <2>3. OneBackup'
      BY <1>1, <1>2, <1>4, <2>1 DEF WindowIInv, OneBackup
    <2>4. Backed'
      BY <1>1, <1>2, <1>4 DEF WindowIInv, Backed, W!BackedUpBeforeReplaced
    <2>5. Quiet'
      BY <1>1, <1>4 DEF W!Begins, Quiet
    <2>6. Closed'
      BY <1>1, <1>2 DEF Closed
    <2> QED  BY <2>2, <2>3, <2>4, <2>5, <2>6 DEF WindowIInv
  <1> QED  BY <1>3, <1>4 DEF W!ConfirmRestore, W!Backs, Prebackup

LEMMA ExitStep ==
  ASSUME WindowIInv, W!Exit
  PROVE  WindowIInv'
  <1>1. /\ ~x6 /\ x6' /\ x1' = "exiting" /\ x7' = "exit"
        /\ UNCHANGED <<x12, x13, x14, x15, W!disk, x22>>
    BY DEF W!Exit, W!AtHand, W!Free, W!counts
  <1>2. Quiet'
    BY <1>1 DEF Quiet
  <1> QED  BY <1>1, <1>2, MainStep

----------------------------------------
\* The data thread answers one operation.
LEMMA RunIn ==
  ASSUME WindowIInv, NEW r \in Asked \cup {Prebackup}, W!Run(r),
         r = Prebackup => x12 # <<>>, r.op = "clear" => x12 = <<>>
  PROVE  /\ \E ok \in BOOLEAN : x15' = Append(x15, [req |-> r, ok |-> ok])
         /\ x12 # <<>> => x18 \subseteq x17'
         /\ r = Prebackup => x18 \subseteq x19' \/ x15' = Append(x15, [req |-> r, ok |-> FALSE])
         /\ x18 \subseteq x19 => x18 \subseteq x19'
  <1>1. Prebackup.op = "prebackup"
    BY DEF Prebackup, W!Op
  <1>2. r # Prebackup => r.op # "prebackup"
    BY DEF Asked
  <1>3. x12 # <<>> => x18 \subseteq x17
    BY DEF WindowIInv, Backed
  <1>4. \E ok \in BOOLEAN : x15' = Append(x15, [req |-> r, ok |-> ok])
    BY DEF W!Run
  <1>5. x12 # <<>> => x17 \subseteq x17'
    BY DEF W!Run
  <1>6. r # Prebackup => x19' = x19
    BY <1>2 DEF W!Run
  <1>7. r = Prebackup => x19' = x17 \/ (x19' = x19 /\ x15' = Append(x15, [req |-> r, ok |-> FALSE]))
    BY <1>1 DEF W!Run
  <1> QED  BY <1>3, <1>4, <1>5, <1>6, <1>7

LEMMA WorkStep ==
  ASSUME WindowIInv, W!Work
  PROVE  WindowIInv'
  <1>1. /\ UNCHANGED <<x1, x2, x5, x6, x7, x8, x11, x18, x20, x22>>
    BY DEF W!Work, W!flags, W!lanes
  <1>2. PICK r \in Asked \cup {Prebackup} :
          /\ W!Run(r) /\ (r = Prebackup => x12 # <<>> /\ x12' = <<>>)
          /\ (r # Prebackup => x12 = <<>> /\ x12' = <<>>)
          /\ x13' \in Seq(Asked) /\ x14' \in Seq(Asked)
          /\ W!Drained => FALSE
    <2>0. x13 \in Seq(Asked) /\ x14 \in Seq(Asked) /\ x12 \in {<<>>, <<Prebackup>>}
          /\ Prebackup \notin Asked
      BY DEF WindowIInv, Queues, Asked, Prebackup, W!Op
    <2>1. CASE x12 # <<>> /\ W!Run(Head(x12)) /\ x12' = Tail(x12) /\ UNCHANGED <<x13, x14>>
      <3>0. x12 = <<Prebackup>>
        BY <2>0, <2>1
      <3>1. Head(x12) = Prebackup /\ Tail(x12) = <<>>
        BY <3>0, EmptyTail
      <3> QED  BY <2>0, <2>1, <3>1 DEF W!Drained
    <2>2. CASE /\ x12 = <<>> /\ x13 # <<>> /\ W!Run(Head(x13)) /\ x13' = Tail(x13)
               /\ UNCHANGED <<x12, x14>>
      <3>1. Head(x13) \in Asked /\ Tail(x13) \in Seq(Asked)
        BY <2>0, <2>2
      <3> QED  BY <2>0, <2>2, <3>1 DEF W!Drained
    <2>3. CASE /\ x12 = <<>> /\ x14 # <<>> /\ W!Run(Head(x14))
               /\ x14' = Tail(x14) /\ UNCHANGED <<x12, x13>>
      <3>1. Head(x14) \in Asked /\ Tail(x14) \in Seq(Asked)
        BY <2>0, <2>3
      <3> QED  BY <2>0, <2>3, <3>1 DEF W!Drained
    <2> QED  BY <2>1, <2>2, <2>3 DEF W!Work
  <1>3. Prebackup.op = "prebackup"
    BY DEF Prebackup, W!Op
  <1>4. PICK ok \in BOOLEAN : x15' = Append(x15, [req |-> r, ok |-> ok])
    BY <1>2, <1>3, RunIn
  <1> DEFINE a == [req |-> r, ok |-> ok]
  <1>5. a \in Written /\ x15 \in Seq(Written) /\ (a \in BackupAnswer <=> r = Prebackup)
    BY DEF Written, BackupAnswer, WindowIInv, Queues
  <1>6. x15' \in Seq(Written) /\ Elements(x15') = Elements(x15) \cup {a}
    BY <1>4, <1>5, Appending
  <1>7. Single(x15', BackupAnswer)
    BY <1>2, <1>4, <1>5, SingleAppend DEF WindowIInv, OneBackup
  <1>8. Queues'
    BY <1>1, <1>2, <1>6 DEF WindowIInv, Queues
  <1>9. OneBackup'
    BY <1>1, <1>2, <1>5, <1>6, <1>7 DEF WindowIInv, OneBackup
  <1>10. Backed'
    <2>1. x18 \subseteq x19 => x18 \subseteq x19'
      BY <1>2, <1>3, RunIn
    <2>2. ASSUME a \in BackupAnswer, a.ok
          PROVE  x18 \subseteq x19'
      <3>1. r = Prebackup /\ ok = TRUE
        BY <1>5, <2>2
      <3>2. x15' # Append(x15, [req |-> r, ok |-> FALSE])
        <4>1. Append(x15, a)[Len(x15) + 1] = a
              /\ Append(x15, [req |-> r, ok |-> FALSE])[Len(x15) + 1] = [req |-> r, ok |-> FALSE]
          BY <1>5
        <4>2. a # [req |-> r, ok |-> FALSE]
          BY <3>1
        <4> QED  BY <1>4, <4>1, <4>2
      <3> QED  BY <1>2, <1>3, <3>1, <3>2, RunIn
    <2>3. \A b \in Elements(x15') : b \in BackupAnswer /\ b.ok => x18 \subseteq x19'
      BY <1>6, <2>1, <2>2 DEF WindowIInv, Backed
    <2> QED  BY <1>1, <1>2, <2>1, <2>3 DEF WindowIInv, Backed, W!BackedUpBeforeReplaced
  <1>11. Quiet' /\ Closed'
    BY <1>1, <1>2 DEF WindowIInv, Quiet, Closed
  <1> QED  BY <1>8, <1>9, <1>10, <1>11 DEF WindowIInv

LEMMA HandleStep ==
  ASSUME WindowIInv, W!Handle
  PROVE  WindowIInv'
  <1> DEFINE a == Head(x15)
  <1>1. /\ x7 = "no" /\ x15 # <<>> /\ x15' = Tail(x15) /\ x15 \in Seq(Written)
        /\ UNCHANGED <<x12, x13, x14, W!disk, x22>>
    BY DEF W!Handle, W!counts, WindowIInv, Queues
  <1>2. a \in Written /\ x15' \in Seq(Written) /\ Elements(x15) = {a} \cup Elements(x15')
    BY <1>1, Taking
  <1>3. Single(x15', BackupAnswer) /\ (a \in BackupAnswer => Elements(x15') \cap BackupAnswer = {})
    BY <1>1, SingleTail DEF WindowIInv, OneBackup
  <1>4. x17' = x17 /\ x18' = x18 /\ x19' = x19 /\ x20' = x20
    BY <1>1 DEF W!disk
  <1>5. Queues'
    BY <1>1, <1>2 DEF WindowIInv, Queues
  <1>6. CASE a.req.op # "prebackup"
    <2>1. /\ UNCHANGED <<x5, x6, x7, x8, x11>>
          /\ (x1 = "prebackup" => x1' = x1)
          /\ x1' # "prebackup" \/ x1 = "prebackup"
          /\ x1' # "applying" \/ x1 = "applying"
          /\ x2' # x2 => x1' = "validation"
      BY <1>6 DEF W!Handle, W!OnWritten, W!OnBackup, W!OnCleared, W!OnStaged, W!OnPrebackup, W!flags, W!lanes,
                  W!Finished, W!Resumed
    <2>2. OneBackup'
      BY <1>1, <1>2, <1>3, <2>1 DEF WindowIInv, OneBackup
    <2>3. Backed' /\ Quiet' /\ Closed'
      BY <1>1, <1>2, <1>4, <2>1 DEF WindowIInv, Backed, Quiet, Closed, W!Drained, W!BackedUpBeforeReplaced
    <2> QED  BY <1>5, <2>2, <2>3 DEF WindowIInv
  <1>7. CASE a.req.op = "prebackup"
    <2>1. a \in BackupAnswer
      BY <1>2, <1>7 DEF Written, BackupAnswer, Asked
    <2>2. W!OnPrebackup(a.req, a.ok)
      BY <1>7 DEF W!Handle, W!OnWritten, W!OnBackup, W!OnCleared, W!OnStaged, W!OnPrebackup
    <2>3. x12 = <<>> /\ Elements(x15') \cap BackupAnswer = {}
          /\ (x1 = "prebackup" \/ x6)
      BY <1>2, <1>3, <2>1 DEF WindowIInv, OneBackup
    <2>4. /\ x2' = x2 /\ x6' = x6 /\ x8' = x8
          /\ x1' \in {"idle", "applying"}
          /\ x1' = "applying" => a.ok /\ x7' = "apply" /\ x5' = x5 /\ x11' = x11
          /\ x1' = "idle" =>
               /\ x7' = x7
               /\ x11' = IF x11 = "stopped" THEN "running" ELSE x11
      BY <2>2 DEF W!OnPrebackup, W!Applies, W!Stop, W!Backs, W!lanes
    <2>5. OneBackup'
      BY <1>1, <1>3, <2>3, <2>4 DEF OneBackup
    <2>6. x1' = "applying" => x18 \subseteq x19
      BY <1>2, <2>1, <2>4 DEF WindowIInv, Backed
    <2>7. Backed'
      BY <1>1, <1>2, <1>4, <2>3, <2>4, <2>6 DEF WindowIInv, Backed, W!BackedUpBeforeReplaced
    <2>8. Quiet'
      BY <1>1, <2>3, <2>4 DEF WindowIInv, Quiet
    <2>9. Closed'
      BY <1>1, <1>4, <2>4 DEF WindowIInv, Closed, W!Drained
    <2> QED  BY <1>5, <2>5, <2>7, <2>8, <2>9 DEF WindowIInv
  <1> QED  BY <1>6, <1>7

LEMMA StopEndsStep ==
  ASSUME WindowIInv, W!StopEnds
  PROVE  WindowIInv'
  <1>1. /\ x6' /\ x1' = "exiting" /\ x8' = "idle" /\ x11' = "stopped" /\ x7' = "no"
        /\ UNCHANGED <<x2, x12, x13, x14, x15, x18, x19, x22>>
        /\ \/ x20' = x20 /\ x17' = x17
           \/ /\ W!Drained /\ x20' \in {"replaced", "removed"}
              /\ x20' = "replaced" => x7 = "apply"
    BY DEF W!StopEnds, W!MayDestroy
  <1>2. Queues'
    BY <1>1 DEF WindowIInv, Queues
  <1>3. OneBackup'
    BY <1>1 DEF WindowIInv, OneBackup
  <1>4. Backed'
    BY <1>1 DEF WindowIInv, Backed, W!BackedUpBeforeReplaced, W!Drained
  <1>5. Quiet'
    BY <1>1 DEF Quiet
  <1>6. Closed'
    BY <1>1 DEF WindowIInv, Closed, W!Drained
  <1> QED  BY <1>2, <1>3, <1>4, <1>5, <1>6 DEF WindowIInv

LEMMA WindowIInvStep == WindowIInv /\ (W!Next \/ UNCHANGED W!vars) => WindowIInv'
  <1> SUFFICES ASSUME WindowIInv, (W!Next \/ UNCHANGED W!vars)
               PROVE  WindowIInv'
    OBVIOUS
  <1>1. CASE UNCHANGED W!vars
    <2>1. UNCHANGED <<x1, W!flags, W!thread, W!disk, x22>> /\ Quiet'
      BY <1>1 DEF W!vars, W!flags, W!thread, W!disk, WindowIInv, Quiet
    <2> QED  BY <2>1, LaneStep
  <1> QED  BY <1>1, SendStep, JobEndsStep, DialogStep, ChooseFileStep, AskClearStep, ConfirmResetStep,
              ConfirmRestoreStep, ExitStep, WorkStep, HandleStep, StopEndsStep DEF W!Next

LEMMA IsSafe == WindowIInv => W!WindowIsSafe
  BY DEF WindowIInv, Backed, Quiet, Closed, W!WindowIsSafe, W!WindowIsQuiet, W!DestroyedWhenDrained

WindowInv == part = "window" => WindowIInv

LEMMA WindowStart == Init => WindowInv
  <1> SUFFICES ASSUME Init, part = "window"
               PROVE  WindowIInv
    BY DEF WindowInv
  <1>1. W!Init
    BY DEF Init, InitOf
  <1> QED  BY <1>1, WindowInitiallyIInv

LEMMA WindowMoves ==
  ASSUME [Next]_vars, part = "window"
  PROVE  W!Next \/ UNCHANGED W!vars
  <1>1. CASE Next
    BY <1>1 DEF Next, InR, InV, InX, InG, InH, InW, InT, InJ, InM, InP, InA, InC
  <1>2. CASE UNCHANGED vars
    BY <1>2 DEF vars, W!vars
  <1> QED  BY <1>1, <1>2

LEMMA WindowStep == WindowInv /\ [Next]_vars => WindowInv'
  <1> SUFFICES ASSUME WindowInv, [Next]_vars, part' = "window"
               PROVE  WindowIInv'
    BY DEF WindowInv
  <1>1. part = "window" /\ WindowIInv
    BY PartStays DEF WindowInv
  <1> QED  BY <1>1, WindowMoves, WindowIInvStep

LEMMA WindowInvariance == Spec => []WindowInv
  BY WindowStart, WindowStep, PTL DEF Spec

\* controller.py: the files are replaced or removed when the data thread has drained, with
\* what the user agreed to lose in the backup, and no reply or greeting runs in between,
\* for any number of items, messages, windows and failures.
THEOREM WindowSafe == Spec => []WindowIsSafe
  <1>1. WindowInv => WindowIsSafe
    BY IsSafe DEF WindowInv, WindowIsSafe
  <1> QED  BY <1>1, WindowInvariance, PTL

----------------------------------------
(* The history of the chat. *)

\* While the cursor did not stray, it is at the conversation the panel shows, into which
\* everything in the panel and the turn of the chat was typed (Facing); the requests and
\* pages on their way name the conversation their messages were typed into (Awaited), one
\* of them at most is about the turn (Lane), and a change and a turn exclude each other
\* (Locked).  The conversation of an erased message is gone for good (Written).
\* Its variables: convs x1, used x2, saved x3, reply x4, cursor x5, writable x6, panel x7,
\*   chat x8, change x9, question x10, dialog x11, urgent x12, normal x13,
\*   answers x14, typed x15, framing x16, fixed x17, erased x18, strayed x19,
\*   changes x20, writes x21, faults x22

Ids == HistoryConversations \cup {Nil}
Turning == {"save", "finalize", "fail"}
Ops == Turning \cup {"load", "post", "count", "write", "create", "delete", "clear"}
Requests == {r \in [op : Ops, conv : Ids, other : Ids, msg : 0..HistoryMaxSends] :
               /\ r.op = "delete" => r.conv \in HistoryConversations
               /\ r.op \in Turning => r.msg \in H!Messages /\ r.conv \in HistoryConversations}
Pages == [conv : Ids, turns : SUBSET H!Messages, failed : SUBSET H!Messages,
          list : SUBSET HistoryConversations]
Answers == [req : Requests, ok : BOOLEAN, page : Pages]
Panels == [conv : HistoryConversations, turns : SUBSET H!Messages, failed : SUBSET H!Messages]
Chats == [at : {"idle", "waiting", "saving", "replying", "finishing"}, msg : 0..HistoryMaxSends]
Questions == {q \in [on : BOOLEAN, kind : {"none", "delete", "clear"}, target : Ids, before : Ids] :
                q.kind = "delete" => q.target \in HistoryConversations}

\* What was sent, and the conversation a message belongs to once the window is done
\* with its picture.
Known ==
  /\ x15 \in [H!Messages -> x2 \cup {Nil}] /\ x17 \in [H!Messages -> x2 \cup {Nil}]
  /\ x16 \subseteq H!Messages
  /\ \A m \in H!Messages : x15[m] = Nil => x17[m] = Nil /\ m \notin x16
home == [m \in H!Messages |-> IF m \in x16 THEN Nil ELSE H!SentTo(m)]

\* The rows, what the window shows and what is queued.
Store ==
  /\ x1 \subseteq x2 /\ x2 \subseteq HistoryConversations
  /\ x3 \in [H!Messages -> Ids] /\ Known /\ home \in [H!Messages -> x2 \cup {Nil}]
  /\ x18 \subseteq H!Messages
Screen ==
  /\ x5 \in x2 /\ x7 \in Panels /\ x7.conv \in x2
  /\ x8 \in Chats /\ (x8.at # "idle" => x8.msg \in H!Messages)
  /\ x10 \in Questions /\ x11 \in Questions
HasPage(a) == a.ok /\ a.req.op \in H!Reads \cup {"post"}
Queued ==
  /\ x12 \in Seq(Requests) /\ x13 \in Seq(Requests) /\ x14 \in Seq(Answers)
  /\ \A a \in Elements(x14) : HasPage(a) => a.page.conv \in x2
HistoryTyped == Store /\ Screen /\ Queued

\* One request about the turn of the chat is queued or answered at most, and the
\* attempt waits for it.
Sends == {r \in Requests : r.op \in Turning}
Told  == {a \in Answers : a.req \in Sends}
OfChat(r) == r.msg = x8.msg /\ x8.at = IF r.op = "save" THEN "saving" ELSE "finishing"
Lane ==
  /\ Elements(x13) \cap Sends = {}
  /\ Single(x12, Sends) /\ Single(x14, Told)
  /\ Elements(x12) \cap Sends # {} => Elements(x14) \cap Told = {}
  /\ \A r \in Elements(x12) : r \in Sends => OfChat(r)
  /\ \A a \in Elements(x14) : a \in Told => OfChat(a.req)

\* A change of the history and a turn exclude each other.
Locked == x9.on => x8.at = "idle"
\* Everything in the panel was typed into the conversation it shows, which is the
\* one the next row is written to.
Facing ==
  /\ x5 = x7.conv
  /\ x8.at # "idle" => home[x8.msg] = x7.conv
  /\ \A m \in x7.turns \cup x7.failed : home[m] = x7.conv
\* A turn that waits to be saved names the conversation it was typed into, and so does
\* a page that waits to be shown.
OfPage(p) == \A m \in p.turns \cup p.failed : home[m] = p.conv /\ home[m] \in x2
Awaited ==
  /\ \A r \in Elements(x12) : r.op = "save" => home[r.msg] = r.conv
  /\ \A a \in Elements(x14) : OfPage(a.page)
\* The rows; the conversation of an erased one is gone for good.
HistoryWritten ==
  /\ \A m \in H!Messages : x3[m] \in {Nil, home[m]}
  /\ \A m \in x18 : x3[m] = Nil /\ home[m] \in x2 \ x1
Sound == Locked /\ Facing /\ Awaited /\ HistoryWritten

HistoryIInv == HistoryTyped /\ Lane /\ (x19 \/ Sound)
----------------------------------------
(* What the helpers build. *)

\* Who does not touch what was sent leaves where it belongs.
LEMMA SentStays ==
  ASSUME UNCHANGED H!sent
  PROVE  UNCHANGED <<x15, x16, x17, home>>
  BY DEF H!sent, home, H!SentTo

LEMMA AskIs ==
  ASSUME NEW op \in Ops \ Turning, NEW cv \in Ids, NEW other \in Ids,
         op = "delete" => cv \in HistoryConversations
  PROVE  /\ H!Ask(op, cv, other) \in Requests /\ H!Ask(op, cv, other).op = op
         /\ H!Ask(op, cv, other) \notin Sends /\ H!Ask(op, cv, other).conv = cv
  BY ComponentsAssumption DEF H!Ask, Requests, Sends, Turning

LEMMA AboutIs ==
  ASSUME NEW op \in Turning, NEW cv \in HistoryConversations, NEW m \in H!Messages
  PROVE  /\ H!About(op, cv, m) \in Sends /\ H!About(op, cv, m) \in Requests
         /\ H!About(op, cv, m).op = op /\ H!About(op, cv, m).msg = m /\ H!About(op, cv, m).conv = cv
  BY ComponentsAssumption DEF H!About, Requests, Sends, Turning, Ops, Ids, H!Messages

LEMMA AnswerIs ==
  ASSUME NEW r \in Requests, NEW ok \in BOOLEAN, NEW p \in Pages
  PROVE  /\ H!Answer(r, ok, p) \in Answers /\ H!Answer(r, ok, p).req = r
         /\ H!Answer(r, ok, p).ok = ok /\ H!Answer(r, ok, p).page = p
         /\ (H!Answer(r, ok, p) \in Told <=> r \in Sends)
  BY DEF H!Answer, Answers, Told

LEMMA NoPageIs ==
  /\ H!NoPage \in Pages
  /\ OfPage(H!NoPage)
  BY DEF H!NoPage, Pages, Ids, OfPage

LEMMA NoQuestion == H!NoChange \in Questions /\ H!NoChange.on = FALSE
  BY DEF H!NoChange, Questions, Ids

LEMMA QuietIs == H!Quiet \in Chats /\ H!Quiet.at = "idle"
  BY ComponentsAssumption DEF H!Quiet, Chats

LEMMA MatchesIs ==
  ASSUME NEW p, H!Matches(p)
  PROVE  x9.on
  BY DEF H!Matches
----------------------------------------
(* The steps at the controls of the history: they queue a request that is not  *)
(* about a turn, ask a question or begin a change.                             *)

Controlled ==
  /\ UNCHANGED <<H!rows, x5, x7, x8, x12, x14, H!sent, home>>
  /\ x13' = x13 \/ \E r \in Requests : r \notin Sends /\ x13' = Append(x13, r)
  /\ x10' \in Questions /\ x11' \in Questions
  /\ ~x19' => ~x19 /\ (x9'.on => x9.on \/ x8.at = "idle")

LEMMA RefusableIs ==
  ASSUME NEW kind, NEW target, NEW r \in Requests, r \notin Sends, H!Refusable(kind, target, r)
  PROVE  x13' = x13 \/ \E q \in Requests : q \notin Sends /\ x13' = Append(x13, q)
  BY DEF H!Refusable

ControlStep == H!Switch \/ H!New \/ H!AskDelete \/ H!Yes \/ H!No \/ H!WriteReminder

LEMMA ControlIs ==
  ASSUME HistoryTyped, ControlStep
  PROVE  Controlled
  <1>0. x10 \in Questions /\ x11 \in Questions /\ x5 \in HistoryConversations
    BY DEF HistoryTyped, Screen, Store, Known, H!sent
  <1>a. HistoryConversations \subseteq Ids /\ Nil \in Ids /\ x1 \subseteq HistoryConversations
    BY DEF Ids, HistoryTyped, Store, Known, H!sent
  <1>b. {"load", "create", "count", "delete", "clear", "write"} \subseteq Ops \ Turning
    BY DEF Ops, Turning
  <1>1. CASE H!Switch
    <2>1. PICK c \in x1 : H!Starts("switch", c) /\ x13' = Append(x13, H!Ask("load", c, Nil))
      BY <1>1 DEF H!Switch
    <2>2. H!Ask("load", c, Nil) \in Requests /\ H!Ask("load", c, Nil) \notin Sends
      BY <1>a, <1>b, AskIs
    <2>3. x8.at = "idle" /\ UNCHANGED <<H!rows, x5, x7, x8, x12, x14, H!sent, home>>
          /\ UNCHANGED <<x10, x11, x19>>
      BY <1>1, QuietIs, SentStays DEF H!Switch, H!AtControls, H!CanChange, H!Steady
    <2> QED  BY <1>0, <2>1, <2>2, <2>3 DEF Controlled
  <1>2. CASE H!New
    <2>1. H!Ask("create", Nil, Nil) \in Requests /\ H!Ask("create", Nil, Nil) \notin Sends
      BY <1>a, <1>b, AskIs
    <2>2. H!Refusable("create", Nil, H!Ask("create", Nil, Nil))
      BY <1>2 DEF H!New
    <2>3. x8.at = "idle" /\ UNCHANGED <<H!rows, x5, x7, x8, x12, x14, H!sent, home>>
          /\ UNCHANGED <<x10, x11, x19>>
      BY <1>2, QuietIs, SentStays DEF H!New, H!AtControls, H!CanChange, H!Steady
    <2> QED  BY <1>0, <2>1, <2>2, <2>3, RefusableIs DEF Controlled
  <1>3. CASE H!AskDelete
    <2>1. PICK q \in [on : {TRUE}, kind : {"delete"}, target : x1, before : {Nil}]
                       \union {[H!NoChange EXCEPT !.on = TRUE, !.kind = "clear"]} :
             x10' = q /\ x13' = Append(x13, H!Ask("count", q.target, Nil))
      BY <1>3 DEF H!AskDelete
    <2>2. q \in Questions
      BY <1>a DEF Questions, H!NoChange
    <2>3. q.target \in Ids
      BY <2>2 DEF Questions
    <2>4. H!Ask("count", q.target, Nil) \in Requests /\ H!Ask("count", q.target, Nil) \notin Sends
      BY <1>a, <1>b, <2>3, AskIs
    <2>5. UNCHANGED <<H!rows, x5, x7, x8, x12, x14, H!sent, home>>
          /\ UNCHANGED <<x9, x11, x19>>
      BY <1>3, SentStays DEF H!AskDelete, H!Steady
    <2> QED  BY <1>0, <2>1, <2>2, <2>4, <2>5 DEF Controlled
  <1>4. CASE H!Yes
    <2>1. UNCHANGED <<H!rows, x5, x7, x8, x12, x14, H!sent, home, x10>>
          /\ x11' = H!NoChange
      BY <1>4, SentStays DEF H!Yes, H!Steady
    <2>2. ~x19' => ~x19 /\ x8.at = "idle"
      BY <1>4, QuietIs DEF H!Yes, H!CanChange
    <2>3. x13' = x13 \/ \E q \in Requests : q \notin Sends /\ x13' = Append(x13, q)
      <3>1. CASE x11.kind = "delete"
        <4>1. x11.target \in HistoryConversations
          BY <1>0, <3>1 DEF Questions
        <4>2. /\ H!Ask("delete", x11.target, x5) \in Requests
              /\ H!Ask("delete", x11.target, x5) \notin Sends
          BY <1>0, <1>a, <1>b, <4>1, AskIs
        <4>3. H!Refusable("delete", x11.target, H!Ask("delete", x11.target, x5))
          BY <1>4, <3>1 DEF H!Yes
        <4> QED  BY <4>2, <4>3, RefusableIs
      <3>2. CASE x11.kind # "delete"
        <4>1. H!Ask("clear", Nil, Nil) \in Requests /\ H!Ask("clear", Nil, Nil) \notin Sends
          BY <1>a, <1>b, AskIs
        <4>2. H!Refusable("clear", Nil, H!Ask("clear", Nil, Nil))
          BY <1>4, <3>2 DEF H!Yes
        <4> QED  BY <4>1, <4>2, RefusableIs
      <3> QED  BY <3>1, <3>2
    <2> QED  BY <1>0, <2>1, <2>2, <2>3, NoQuestion DEF Controlled
  <1>5. CASE H!No
    BY <1>0, <1>5, NoQuestion, SentStays DEF H!No, H!Steady, Controlled
  <1>6. CASE H!WriteReminder
    <2>1. H!Ask("write", Nil, Nil) \in Requests /\ H!Ask("write", Nil, Nil) \notin Sends
      BY <1>a, <1>b, AskIs
    <2>2. /\ x13' = Append(x13, H!Ask("write", Nil, Nil))
          /\ UNCHANGED <<H!rows, x5, x7, x8, x12, x14, H!sent, home>>
          /\ UNCHANGED <<x9, x10, x11, x19>>
      BY <1>6, SentStays DEF H!WriteReminder
    <2> QED  BY <1>0, <2>1, <2>2 DEF Controlled
  <1> QED  BY <1>1, <1>2, <1>3, <1>4, <1>5, <1>6 DEF ControlStep

\* The queue of the requests of the user interface keeps its kind.
LEMMA NormalIs ==
  ASSUME HistoryTyped, Lane,
         x13' = x13 \/ \E r \in Requests : r \notin Sends /\ x13' = Append(x13, r)
  PROVE  x13' \in Seq(Requests) /\ Elements(x13') \cap Sends = {}
  <1>0. x13 \in Seq(Requests) /\ Elements(x13) \cap Sends = {}
    BY DEF HistoryTyped, Queued, Lane
  <1>1. ASSUME NEW r \in Requests, r \notin Sends, x13' = Append(x13, r)
        PROVE  x13' \in Seq(Requests) /\ Elements(x13') \cap Sends = {}
    <2>1. x13' \in Seq(Requests) /\ Elements(x13') = Elements(x13) \cup {r}
      BY <1>0, <1>1, Appending
    <2> QED  BY <1>0, <1>1, <2>1
  <1> QED  BY <1>0, <1>1

LEMMA ControlStays ==
  ASSUME HistoryIInv, ControlStep
  PROVE  HistoryIInv'
  <1>0. Controlled /\ HistoryTyped /\ Lane
    BY ControlIs DEF HistoryIInv
  <1>1. x13' \in Seq(Requests) /\ Elements(x13') \cap Sends = {}
    BY <1>0, NormalIs DEF Controlled
  <1>2. Store' /\ Screen'
    BY <1>0 DEF HistoryTyped, Store, Known, H!sent, Screen, Controlled, H!rows
  <1>3. Queued'
    BY <1>0, <1>1 DEF HistoryTyped, Queued, Controlled, H!rows
  <1>4. Lane'
    BY <1>0, <1>1 DEF Lane, OfChat, Controlled
  <1>5. ASSUME ~x19'
        PROVE  Sound'
    <2>1. Sound /\ (x9'.on => x9.on \/ x8.at = "idle")
      BY <1>0, <1>5 DEF HistoryIInv, Controlled
    <2>2. Locked'
      BY <1>0, <2>1 DEF Sound, Locked, Controlled
    <2>3. Facing' /\ Awaited' /\ HistoryWritten'
      BY <1>0, <2>1 DEF Sound, Facing, Awaited, OfPage, HistoryWritten, Controlled, H!rows
    <2> QED  BY <2>2, <2>3 DEF Sound
  <1> QED  BY <1>2, <1>3, <1>4, <1>5 DEF HistoryIInv, HistoryTyped
----------------------------------------
(* The steps of a turn, and the pages the window asks for between two turns. *)

LEMMA Bounds ==
  /\ H!Messages \subseteq 0..HistoryMaxSends /\ 0 \in 0..HistoryMaxSends
  /\ HistoryConversations \subseteq Ids /\ Nil \in Ids
  BY ComponentsAssumption DEF H!Messages, Ids

\* Where a message belongs is settled when the window is done with it, and it then
\* belongs to what is shown, if it begins to wait for the lane.
LEMMA SettledStays ==
  ASSUME HistoryIInv, NEW m \in H!Messages, Known', home' \in [H!Messages -> x2 \cup {Nil}],
         \A x \in H!Messages : home[x] \in x2 => home'[x] = home[x],
         \/ UNCHANGED x8
         \/ /\ x8.at = "idle" /\ ~x9.on /\ home'[m] = x7.conv
            /\ x8' = [at |-> "waiting", msg |-> m],
         UNCHANGED <<H!rows, H!queues, x5, x7, x9, x10, x11, x19>>
  PROVE  HistoryIInv'
  <1>0. HistoryTyped /\ Lane /\ x7.conv \in x2 /\ x2 \subseteq HistoryConversations /\ Nil \notin x2
    BY ComponentsAssumption DEF HistoryIInv, HistoryTyped, Screen, Store
  <1>1. x8' \in Chats /\ (x8'.at # "idle" => x8'.msg \in H!Messages)
    BY <1>0, Bounds DEF Chats, HistoryTyped, Screen
  <1>2. Store' /\ Screen' /\ Queued'
    BY <1>0, <1>1 DEF HistoryTyped, Store, Screen, Queued, H!rows, H!queues
  <1>3. Lane'
    <2>1. CASE UNCHANGED x8
      BY <1>0, <2>1 DEF Lane, OfChat, H!queues
    <2>2. CASE x8.at = "idle"
      <3>1. /\ \A r \in Elements(x12) : r \notin Sends
            /\ \A a \in Elements(x14) : a \notin Told
        BY <1>0, <2>2 DEF Lane, OfChat
      <3> QED  BY <1>0, <3>1 DEF Lane, OfChat, H!queues
    <2> QED  BY <2>1, <2>2
  <1>4. ASSUME ~x19'
        PROVE  Sound'
    <2>0. Sound
      BY <1>4 DEF HistoryIInv
    <2>1. Locked'
      BY <2>0 DEF Sound, Locked
    <2>2. Facing'
      <3>1. x7.turns \subseteq H!Messages /\ x7.failed \subseteq H!Messages
        BY <1>0 DEF HistoryTyped, Screen, Panels
      <3>2. \A x \in x7.turns \cup x7.failed : home[x] = x7.conv
        BY <2>0 DEF Sound, Facing
      <3>3. \A x \in x7.turns \cup x7.failed : home'[x] = x7.conv
        BY <1>0, <3>1, <3>2
      <3>4. x8'.at # "idle" => home'[x8'.msg] = x7.conv
        <4>1. CASE UNCHANGED x8
          <5>1. x8.at # "idle" => x8.msg \in H!Messages /\ home[x8.msg] = x7.conv
            BY <1>0, <2>0 DEF HistoryTyped, Screen, Sound, Facing
          <5> QED  BY <1>0, <4>1, <5>1
        <4>2. CASE home'[m] = x7.conv /\ x8' = [at |-> "waiting", msg |-> m]
          BY <4>2
        <4> QED  BY <4>1, <4>2
      <3> QED  BY <2>0, <3>3, <3>4 DEF Sound, Facing
    <2>3. Awaited'
      <3>1. ASSUME NEW r \in Elements(x12), r.op = "save"
            PROVE  home'[r.msg] = r.conv
        <4>1. r \in Requests
          BY <1>0, NotEmpty DEF HistoryTyped, Queued
        <4>2. r \in Sends /\ r.msg \in H!Messages /\ home[r.msg] = r.conv
          BY <2>0, <3>1, <4>1 DEF Requests, Turning, Sends, Sound, Awaited
        <4>3. x8.at = "saving" /\ r.msg = x8.msg
          BY <1>0, <3>1, <4>2 DEF Lane, OfChat
        <4>4. home[r.msg] = x7.conv
          BY <2>0, <4>3 DEF Sound, Facing
        <4> QED  BY <1>0, <4>2, <4>4
      <3>2. ASSUME NEW a \in Elements(x14)
            PROVE  OfPage(a.page)'
        <4>1. a \in Answers
          BY <1>0, NotEmpty DEF HistoryTyped, Queued
        <4>2. a.page.turns \subseteq H!Messages /\ a.page.failed \subseteq H!Messages /\ OfPage(a.page)
          BY <2>0, <4>1 DEF Answers, Pages, Sound, Awaited
        <4> QED  BY <4>2 DEF OfPage, H!rows
      <3> QED  BY <3>1, <3>2 DEF Awaited, H!queues
    <2>4. HistoryWritten'
      <3>1. ASSUME NEW x \in H!Messages
            PROVE  x3[x] \in {Nil, home'[x]}
        <4>1. x3[x] \in {Nil, home[x]} /\ home[x] \in x2 \cup {Nil}
          BY <1>0, <2>0 DEF Sound, HistoryWritten, HistoryTyped, Store
        <4> QED  BY <4>1
      <3>2. x18 \subseteq H!Messages
        BY <1>0 DEF HistoryTyped, Store
      <3> QED  BY <2>0, <3>1, <3>2 DEF Sound, HistoryWritten, H!rows
    <2> QED  BY <2>1, <2>2, <2>3, <2>4 DEF Sound
  <1> QED  BY <1>2, <1>3, <1>4 DEF HistoryIInv, HistoryTyped

\* A message is typed: it waits for the lane, or for its picture.
LEMMA SendStays ==
  ASSUME HistoryIInv, H!Send \/ H!SendWithPicture
  PROVE  HistoryIInv'
  <1>1. PICK m \in H!Messages :
          /\ H!Sent(m)
          /\ \/ x8 = H!Quiet /\ x8' = [at |-> "waiting", msg |-> m] /\ x16' = x16
             \/ x16' = x16 \cup {m} /\ x8' = x8
    BY DEF H!Send, H!SendWithPicture
  <1>2. /\ x15' = [x15 EXCEPT ![m] = x7.conv] /\ x17' = x17 /\ x15[m] = Nil
        /\ UNCHANGED <<H!rows, H!queues, x5, x7, x9, x10, x11, x19>> /\ ~x9.on
    BY <1>1 DEF H!Sent, H!Unsent
  <1>3. Known /\ x7.conv \in x2 /\ Nil \notin x2 /\ x2' = x2
    BY <1>2, ComponentsAssumption DEF HistoryIInv, HistoryTyped, Store, Screen, H!rows
  <1>4. x17[m] = Nil /\ m \notin x16
    BY <1>2, <1>3 DEF Known
  <1>5. Known'
    BY <1>1, <1>2, <1>3 DEF Known
  <1>6. /\ home' \in [H!Messages -> x2 \cup {Nil}]
        /\ \A x \in H!Messages \ {m} : home'[x] = home[x]
        /\ home[m] = Nil /\ (x16' = x16 => home'[m] = x7.conv)
    BY <1>1, <1>2, <1>3, <1>4, <1>5 DEF home, H!SentTo, Known
  <1> QED  BY <1>1, <1>2, <1>3, <1>5, <1>6, SettledStays, QuietIs

\* The picture is there, or will not come.
LEMMA PictureStays ==
  ASSUME HistoryIInv, H!OnPicture
  PROVE  HistoryIInv'
  <1>1. PICK m \in x16 :
          /\ x16' = x16 \ {m}
          /\ \/ /\ ~x9.on /\ x8 = H!Quiet /\ x8' = [at |-> "waiting", msg |-> m]
                /\ x17' = [x17 EXCEPT ![m] = x7.conv]
             \/ UNCHANGED <<x8, x17>>
    BY DEF H!OnPicture, H!Dispatchable
  <1>2. UNCHANGED <<H!rows, H!queues, x5, x7, x9, x10, x11, x19, x15>>
    BY DEF H!OnPicture
  <1>3. Known /\ x7.conv \in x2 /\ Nil \notin x2 /\ x2' = x2
    BY <1>2, ComponentsAssumption DEF HistoryIInv, HistoryTyped, Store, Screen, H!rows
  <1>4. m \in H!Messages /\ x15[m] # Nil
    BY <1>1, <1>3 DEF Known
  <1>5. Known'
    BY <1>1, <1>2, <1>3, <1>4 DEF Known
  <1>6. /\ home' \in [H!Messages -> x2 \cup {Nil}]
        /\ \A x \in H!Messages \ {m} : home'[x] = home[x]
        /\ home[m] = Nil /\ (x17' = [x17 EXCEPT ![m] = x7.conv] => home'[m] = x7.conv)
    BY <1>1, <1>2, <1>3, <1>4, <1>5 DEF home, H!SentTo, Known
  <1> QED  BY <1>1, <1>2, <1>3, <1>4, <1>5, <1>6, SettledStays, QuietIs

LEMMA RetryStays ==
  ASSUME HistoryIInv, H!Retry
  PROVE  HistoryIInv'
  <1>0. HistoryTyped /\ Lane /\ x8.at = "idle" /\ ~x9.on
    BY QuietIs DEF HistoryIInv, H!Retry
  <1>1. PICK m \in x7.failed : x8' = [at |-> "waiting", msg |-> m]
    BY DEF H!Retry
  <1>2. UNCHANGED <<H!rows, H!queues, H!counts, x5, x6, x7, x9, x10, x11,
                    H!sent, home, x19>>
    BY SentStays DEF H!Retry
  <1>3. m \in H!Messages
    BY <1>0 DEF HistoryTyped, Screen, Panels
  <1>4. x8' \in Chats /\ x8'.at = "waiting" /\ x8'.msg = m
    BY <1>1, <1>3, Bounds DEF Chats
  <1>5. Store' /\ Screen' /\ Queued'
    BY <1>0, <1>2, <1>3, <1>4 DEF HistoryTyped, Store, Known, H!sent, Screen, Queued, H!rows, H!queues
  <1>6. Lane'
    <2>1. /\ \A r \in Elements(x12) : r \notin Sends
          /\ \A a \in Elements(x14) : a \notin Told
      BY <1>0 DEF Lane, OfChat
    <2> QED  BY <1>0, <1>2, <2>1 DEF Lane, OfChat, H!queues
  <1>7. ASSUME ~x19'
        PROVE  Sound'
    <2>0. Sound
      BY <1>2, <1>7 DEF HistoryIInv
    <2>1. Locked' /\ Awaited' /\ HistoryWritten'
      BY <1>0, <1>2, <2>0 DEF Sound, Locked, Awaited, OfPage, HistoryWritten, H!rows, H!queues
    <2>2. Facing'
      BY <1>2, <1>4, <2>0 DEF Sound, Facing
    <2> QED  BY <2>1, <2>2 DEF Sound
  <1> QED  BY <1>5, <1>6, <1>7 DEF HistoryIInv, HistoryTyped

\* The chat gives up, or what it waited for has come: nothing of a turn is queued then.
LEMMA ToQuiet ==
  ASSUME HistoryIInv, x8' = H!Quiet,
         Elements(x12) \cap Sends = {}, Elements(x14) \cap Told = {},
         UNCHANGED <<H!rows, H!queues, x5, x7, x9, x10, x11, H!sent, home, x19>>
  PROVE  HistoryIInv'
  <1>0. HistoryTyped /\ Lane
    BY DEF HistoryIInv
  <1>1. x8' \in Chats /\ x8'.at = "idle"
    BY QuietIs
  <1>2. Store' /\ Screen' /\ Queued'
    BY <1>0, <1>1 DEF HistoryTyped, Store, Known, H!sent, Screen, Queued, H!rows, H!queues
  <1>3. Lane'
    BY <1>0 DEF Lane, OfChat, H!queues
  <1>4. ASSUME ~x19'
        PROVE  Sound'
    <2>0. Sound
      BY <1>4 DEF HistoryIInv
    <2> QED  BY <1>1, <2>0 DEF Sound, Locked, Facing, Awaited, OfPage, HistoryWritten, H!rows, H!queues
  <1> QED  BY <1>2, <1>3, <1>4 DEF HistoryIInv, HistoryTyped

LEMMA NothingWaits ==
  ASSUME HistoryTyped, Lane, x8.at \notin {"saving", "finishing"}
  PROVE  Elements(x12) \cap Sends = {} /\ Elements(x14) \cap Told = {}
  BY DEF Lane, OfChat

\* A request about the turn of the chat joins an empty lane.
LEMMA LaneTakes ==
  ASSUME HistoryTyped, Lane, NEW r \in Sends, x12' = Append(x12, r), OfChat(r)',
         UNCHANGED <<x13, x14>>,
         Elements(x12) \cap Sends = {}, Elements(x14) \cap Told = {}
  PROVE  Lane' /\ x12' \in Seq(Requests) /\ Elements(x12') = Elements(x12) \cup {r}
  <1>0. x12 \in Seq(Requests) /\ r \in Requests
    BY DEF HistoryTyped, Queued, Sends
  <1>1. x12' \in Seq(Requests) /\ Elements(x12') = Elements(x12) \cup {r}
    BY <1>0, Appending
  <1>2. Single(x12', Sends)
    BY <1>0, SingleAppend DEF Lane
  <1>3. \A q \in Elements(x12') : q \in Sends => q = r
    BY <1>1
  <1> QED  BY <1>1, <1>2, <1>3 DEF Lane

LEMMA DispatchStays ==
  ASSUME HistoryIInv, H!Dispatch
  PROVE  HistoryIInv'
  <1>0. HistoryTyped /\ Lane /\ x8.at = "waiting"
    BY DEF HistoryIInv, H!Dispatch
  <1>1. Elements(x12) \cap Sends = {} /\ Elements(x14) \cap Told = {}
    BY <1>0, NothingWaits
  <1>2. CASE H!Dispatchable
    <2> DEFINE r == H!About("save", x5, x8.msg)
    <2>1. /\ x8' = [x8 EXCEPT !.at = "saving"]
          /\ x7' = [x7 EXCEPT !.turns = @ \union {x8.msg}, !.failed = @ \ {x8.msg}]
          /\ x12' = Append(x12, r)
          /\ UNCHANGED <<H!rows, x5, x9, x10, x11, x13, x14, H!sent, home, x19>>
      BY <1>2, SentStays DEF H!Dispatch
    <2>2. x5 \in HistoryConversations /\ x8.msg \in H!Messages /\ x8 \in Chats /\ x7 \in Panels
      BY <1>0 DEF HistoryTyped, Screen, Store, Known, H!sent
    <2>3. r \in Sends /\ r \in Requests /\ r.op = "save" /\ r.msg = x8.msg /\ r.conv = x5
      BY <2>2, AboutIs DEF Turning
    <2>4. x8' \in Chats /\ x8'.at = "saving" /\ x8'.msg = x8.msg
      BY <2>1, <2>2 DEF Chats
    <2>5. /\ x7' \in Panels /\ x7'.conv = x7.conv
          /\ x7'.turns = x7.turns \cup {x8.msg} /\ x7'.failed \subseteq x7.failed
      BY <2>1, <2>2 DEF Panels
    <2> HIDE DEF r
    <2>6. Lane' /\ x12' \in Seq(Requests) /\ Elements(x12') = Elements(x12) \cup {r}
      BY <1>0, <1>1, <2>1, <2>3, <2>4, LaneTakes DEF OfChat
    <2>7. Store' /\ Screen' /\ Queued'
      BY <1>0, <2>1, <2>2, <2>4, <2>5, <2>6 DEF HistoryTyped, Store, Known, H!sent, Screen, Queued, H!rows
    <2>8. ASSUME ~x19'
          PROVE  Sound'
      <3>0. Sound /\ ~x9.on
        BY <1>2, <2>1, <2>8 DEF HistoryIInv, H!Dispatchable
      <3>1. Locked'
        BY <2>1, <3>0 DEF Locked
      <3>2. home[x8.msg] = x7.conv /\ x5 = x7.conv
        BY <1>0, <3>0 DEF Sound, Facing
      <3>3. Facing'
        BY <2>1, <2>4, <2>5, <3>0, <3>2 DEF Sound, Facing
      <3>4. Awaited'
        BY <2>1, <2>3, <2>6, <3>0, <3>2 DEF Sound, Awaited, OfPage, H!rows
      <3>5. HistoryWritten'
        BY <2>1, <3>0 DEF Sound, HistoryWritten, H!rows
      <3> QED  BY <3>1, <3>3, <3>4, <3>5 DEF Sound
    <2> QED  BY <2>6, <2>7, <2>8 DEF HistoryIInv, HistoryTyped
  <1>3. CASE ~H!Dispatchable
    <2>1. /\ x8' = H!Quiet
          /\ UNCHANGED <<H!rows, H!queues, x5, x7, x9, x10, x11, H!sent, home, x19>>
      BY <1>3, SentStays DEF H!Dispatch, H!queues
    <2> QED  BY <1>1, <2>1, ToQuiet
  <1> QED  BY <1>2, <1>3

LEMMA TimeoutStays ==
  ASSUME HistoryIInv, H!LaneTimeout
  PROVE  HistoryIInv'
  <1>1. x8.at = "waiting" /\ x8' = H!Quiet
        /\ UNCHANGED <<H!rows, H!queues, x5, x7, x9, x10, x11, H!sent, home, x19>>
    BY SentStays DEF H!LaneTimeout
  <1>2. Elements(x12) \cap Sends = {} /\ Elements(x14) \cap Told = {}
    BY <1>1, NothingWaits DEF HistoryIInv
  <1> QED  BY <1>1, <1>2, ToQuiet

LEMMA EndsStays ==
  ASSUME HistoryIInv, H!ReplyEnds
  PROVE  HistoryIInv'
  <1>0. HistoryTyped /\ Lane /\ x8.at = "replying" /\ x8' = [x8 EXCEPT !.at = "finishing"]
    BY DEF HistoryIInv, H!ReplyEnds
  <1>1. Elements(x12) \cap Sends = {} /\ Elements(x14) \cap Told = {}
    BY <1>0, NothingWaits
  <1>2. UNCHANGED <<H!rows, x5, x7, x9, x10, x11, x13, x14, H!sent, home, x19>>
    BY SentStays DEF H!ReplyEnds
  <1>3. x5 \in HistoryConversations /\ x8.msg \in H!Messages /\ x8 \in Chats
    BY <1>0 DEF HistoryTyped, Screen, Store, Known, H!sent
  <1>4. PICK good \in BOOLEAN :
          x12' = Append(x12, H!About(IF good THEN "finalize" ELSE "fail", x5, x8.msg))
    BY DEF H!ReplyEnds
  <1>5. PICK op \in {"finalize", "fail"} : x12' = Append(x12, H!About(op, x5, x8.msg))
    BY <1>4
  <1> DEFINE r == H!About(op, x5, x8.msg)
  <1>6. r \in Sends /\ r \in Requests /\ r.op = op /\ r.msg = x8.msg
    BY <1>3, AboutIs DEF Turning
  <1>7. x8' \in Chats /\ x8'.at = "finishing" /\ x8'.msg = x8.msg
    BY <1>0, <1>3 DEF Chats
  <1>8. x12' = Append(x12, r)
    BY <1>5
  <1> HIDE DEF r
  <1>9. Lane' /\ x12' \in Seq(Requests) /\ Elements(x12') = Elements(x12) \cup {r}
    BY <1>0, <1>1, <1>2, <1>6, <1>7, <1>8, LaneTakes DEF OfChat
  <1>10. Store' /\ Screen' /\ Queued'
    BY <1>0, <1>2, <1>3, <1>7, <1>9 DEF HistoryTyped, Store, Known, H!sent, Screen, Queued, H!rows
  <1>11. ASSUME ~x19'
         PROVE  Sound'
    <2>0. Sound
      BY <1>2, <1>11 DEF HistoryIInv
    <2>1. Locked' /\ Facing' /\ HistoryWritten'
      BY <1>0, <1>2, <1>7, <2>0 DEF Sound, Locked, Facing, HistoryWritten, H!rows
    <2>2. Awaited'
      BY <1>2, <1>6, <1>9, <2>0 DEF Sound, Awaited, OfPage, H!rows
    <2> QED  BY <2>1, <2>2 DEF Sound
  <1> QED  BY <1>9, <1>10, <1>11 DEF HistoryIInv, HistoryTyped

LEMMA PostStays ==
  ASSUME HistoryIInv, H!Post
  PROVE  HistoryIInv'
  <1> DEFINE r == H!Ask("post", x5, Nil)
  <1>0. HistoryTyped /\ Lane /\ x12 \in Seq(Requests)
    BY DEF HistoryIInv, HistoryTyped, Queued
  <1>1. /\ x12' = Append(x12, r)
        /\ UNCHANGED <<H!rows, x5, x7, x8, x9, x10, x11, x13, x14, H!sent, home,
                       x19>>
    BY SentStays DEF H!Post
  <1>2. x5 \in Ids /\ "post" \in Ops \ Turning
    BY <1>0, Bounds DEF HistoryTyped, Screen, Store, Known, H!sent, Ops, Turning
  <1>3. r \in Requests /\ r.op = "post" /\ r \notin Sends
    BY <1>2, Bounds, AskIs
  <1> HIDE DEF r
  <1>4. x12' \in Seq(Requests) /\ Elements(x12') = Elements(x12) \cup {r}
    BY <1>0, <1>1, <1>3, Appending
  <1>5. Store' /\ Screen' /\ Queued'
    BY <1>0, <1>1, <1>4 DEF HistoryTyped, Store, Known, H!sent, Screen, Queued, H!rows
  <1>6. Lane'
    <2>1. Single(x12', Sends)
      BY <1>0, <1>1, <1>3, SingleAppend DEF Lane
    <2> QED  BY <1>0, <1>1, <1>3, <1>4, <2>1 DEF Lane, OfChat
  <1>7. ASSUME ~x19'
        PROVE  Sound'
    <2>0. Sound
      BY <1>1, <1>7 DEF HistoryIInv
    <2> QED  BY <1>1, <1>3, <1>4, <2>0 DEF Sound, Locked, Facing, Awaited, OfPage, HistoryWritten, H!rows
  <1> QED  BY <1>5, <1>6, <1>7 DEF HistoryIInv, HistoryTyped
----------------------------------------
(* The data thread.  What a request did: its answer, and the rows. *)

Due(r) == r.op = "save" => home[r.msg] = r.conv
Answered(r, a) ==
  /\ a \in Answers /\ a.req = r /\ x14' = Append(x14, a)
  /\ HasPage(a) => a.page.conv \in x2'
  /\ Store' /\ x2 \subseteq x2'
  /\ HistoryWritten /\ Due(r) => HistoryWritten' /\ OfPage(a.page)'

LEMMA EmptyAnswer ==
  ASSUME NEW r \in Requests, NEW ok \in BOOLEAN, Store', x2 \subseteq x2',
         x14' = Append(x14, H!Answer(r, ok, H!NoPage)),
         ok => r.op \notin H!Reads \cup {"post"},
         HistoryWritten /\ Due(r) => HistoryWritten'
  PROVE  \E a : Answered(r, a)
  <1> DEFINE a == H!Answer(r, ok, H!NoPage)
  <1>1. a \in Answers /\ a.req = r /\ a.ok = ok /\ a.page = H!NoPage
    BY AnswerIs, NoPageIs
  <1>2. OfPage(H!NoPage)'
    BY DEF OfPage, H!NoPage
  <1>3. x14' = Append(x14, a)
    OBVIOUS
  <1> HIDE DEF a
  <1> QED  BY <1>1, <1>2, <1>3 DEF Answered, HasPage

\* The page of a conversation: what was typed into it.
LEMMA FullAnswer ==
  ASSUME NEW r \in Requests, Store', x2 \subseteq x2', NEW cv \in x2', NEW held, held \in SUBSET x2',
         NEW sv, sv = x3', NEW rp,
         x14' = Append(x14, H!Answer(r, TRUE, H!Page(cv, held, sv, rp))),
         HistoryWritten /\ Due(r) => HistoryWritten'
  PROVE  \E a : Answered(r, a)
  <1> DEFINE p == H!Page(cv, held, sv, rp)
  <1> DEFINE a == H!Answer(r, TRUE, p)
  <1>1. p \in Pages /\ p.conv = cv /\ p.turns = {m \in H!Messages : sv[m] = cv} /\ p.failed \subseteq p.turns
    <2>1. cv \in Ids /\ held \subseteq HistoryConversations
      BY Bounds DEF Store, Known, H!sent
    <2> QED  BY <2>1 DEF H!Page, Pages, H!In, H!FailedIn
  <1>2. a \in Answers /\ a.req = r /\ a.page = p
    BY <1>1, AnswerIs
  <1>3. x14' = Append(x14, a)
    OBVIOUS
  <1> HIDE DEF a, p
  <1>4. ASSUME HistoryWritten'
        PROVE  OfPage(p)'
    <2>1. cv # Nil
      BY ComponentsAssumption DEF Store, Known, H!sent
    <2>2. \A m \in p.turns \cup p.failed : m \in H!Messages /\ x3'[m] = cv
      BY <1>1
    <2>3. \A m \in p.turns \cup p.failed : home'[m] = cv
      BY <1>4, <2>1, <2>2 DEF HistoryWritten
    <2> QED  BY <1>1, <2>3 DEF OfPage
  <1> QED  BY <1>1, <1>2, <1>3, <1>4 DEF Answered, HasPage

LEMMA SaveIs ==
  ASSUME HistoryTyped, NEW r \in Requests, UNCHANGED <<H!sent, home>>, NEW ok \in BOOLEAN, H!DoSave(r, ok)
  PROVE  \E a : Answered(r, a)
  <1>0. /\ r.op = "save" /\ UNCHANGED <<x1, x2, x18, H!sent, home>>
        /\ x14' = Append(x14, H!Answer(r, ok, H!NoPage))
        /\ ok = (r.conv \in x1 \/ x3[r.msg] # Nil)
    BY DEF H!DoSave
  <1>1. r.msg \in H!Messages /\ r.conv \in HistoryConversations /\ Store /\ r.conv \in Ids
    BY <1>0, Bounds DEF Requests, Turning, HistoryTyped
  <1>2. CASE ok
    <2>1. x3' = [x3 EXCEPT ![r.msg] = IF @ = Nil THEN r.conv ELSE @]
      BY <1>2 DEF H!DoSave, H!Insert
    <2> DEFINE new == IF x3[r.msg] = Nil THEN r.conv ELSE x3[r.msg]
    <2>2. x3' = [x3 EXCEPT ![r.msg] = new]
      BY <2>1
    <2>3. new \in Ids
      BY <1>1 DEF Store, Known, H!sent
    <2>a. new # Nil => new = r.conv \/ new = x3[r.msg]
      OBVIOUS
    <2>b. x3[r.msg] # Nil => new = x3[r.msg]
      OBVIOUS
    <2>c. x3[r.msg] = Nil => new = r.conv
      OBVIOUS
    <2> HIDE DEF new
    <2>4. /\ x3' \in [H!Messages -> Ids] /\ x3'[r.msg] = new
          /\ \A m \in H!Messages \ {r.msg} : x3'[m] = x3[m]
      BY <1>1, <2>2, <2>3 DEF Store, Known, H!sent
    <2>5. Store'
      BY <1>0, <1>1, <2>4 DEF Store, Known, H!sent
    <2>6. ASSUME HistoryWritten, Due(r)
          PROVE  HistoryWritten'
      <3>1. home[r.msg] = r.conv
        BY <1>0, <2>6 DEF Due
      <3>2. \A m \in H!Messages : x3'[m] \in {Nil, home[m]}
        <4>1. new \in {Nil, home[r.msg]}
          BY <1>1, <2>6, <2>b, <2>c, <3>1 DEF HistoryWritten
        <4> QED  BY <2>4, <2>6, <4>1 DEF HistoryWritten
      <3>3. r.msg \notin x18
        <4>1. SUFFICES ASSUME r.msg \in x18 PROVE FALSE
          OBVIOUS
        <4>2. x3[r.msg] = Nil /\ r.conv \notin x1
          BY <2>6, <3>1, <4>1 DEF HistoryWritten
        <4> QED  BY <1>0, <1>2, <4>2
      <3>4. \A m \in x18 : x3'[m] = Nil
        BY <1>1, <2>4, <2>6, <3>3 DEF HistoryWritten, Store, Known, H!sent
      <3> QED  BY <1>0, <2>6, <3>2, <3>4 DEF HistoryWritten
    <2> QED  BY <1>0, <2>5, <2>6, EmptyAnswer DEF H!Reads
  <1>3. CASE ~ok
    <2>1. UNCHANGED x3
      BY <1>3 DEF H!DoSave
    <2>2. Store' /\ (HistoryWritten => HistoryWritten')
      BY <1>0, <1>1, <2>1 DEF Store, Known, H!sent, HistoryWritten
    <2> QED  BY <1>0, <2>2, EmptyAnswer DEF H!Reads
  <1> QED  BY <1>2, <1>3

LEMMA SteadyRows ==
  ASSUME HistoryTyped, UNCHANGED <<x1, x2, x3, x18, H!sent, home>>
  PROVE  Store' /\ x2 \subseteq x2' /\ (HistoryWritten => HistoryWritten')
  BY DEF HistoryTyped, Store, Known, H!sent, HistoryWritten

LEMMA FinalizeIs ==
  ASSUME HistoryTyped, NEW r \in Requests, UNCHANGED <<H!sent, home>>, NEW ok \in BOOLEAN, H!DoFinalize(r, ok)
  PROVE  \E a : Answered(r, a)
  <1>1. /\ r.op \in {"finalize", "fail"} /\ UNCHANGED <<x1, x2, x3, x18, H!sent, home>>
        /\ x14' = Append(x14, H!Answer(r, ok, H!NoPage))
    BY DEF H!DoFinalize
  <1>2. Store' /\ x2 \subseteq x2' /\ (HistoryWritten => HistoryWritten')
    BY <1>1, SteadyRows
  <1>3. r.op \notin H!Reads \cup {"post"}
    BY <1>1 DEF H!Reads
  <1> QED  BY <1>1, <1>2, <1>3, EmptyAnswer

LEMMA ReadIs ==
  ASSUME HistoryTyped, NEW r \in Requests, UNCHANGED <<H!sent, home>>, H!DoRead(r)
  PROVE  \E a : Answered(r, a)
  <1>1. UNCHANGED <<x1, x2, x3, x18, H!sent, home>>
    BY DEF H!DoRead, H!rows
  <1>2. Store' /\ x2 \subseteq x2' /\ (HistoryWritten => HistoryWritten')
    BY <1>1, SteadyRows
  <1>3. CASE r.conv \in x1
    <2>1. x14' = Append(x14, H!Answer(r, TRUE, H!Page(r.conv, x1, x3, x4)))
      BY <1>3 DEF H!DoRead
    <2>2. r.conv \in x2' /\ x1 \in SUBSET x2' /\ x3 = x3'
      BY <1>1, <1>3 DEF HistoryTyped, Store, Known, H!sent
    <2> QED  BY <1>2, <2>1, <2>2, FullAnswer
  <1>4. CASE r.conv \notin x1
    <2>1. x14' = Append(x14, H!Answer(r, FALSE, H!NoPage))
      BY <1>4 DEF H!DoRead
    <2> QED  BY <1>2, <2>1, EmptyAnswer
  <1> QED  BY <1>3, <1>4

LEMMA PlainIs ==
  ASSUME HistoryTyped, NEW r \in Requests, UNCHANGED <<H!sent, home>>, H!DoPlain(r)
  PROVE  \E a : Answered(r, a)
  <1>1. /\ r.op \in {"count", "write"} /\ UNCHANGED <<x1, x2, x3, x18, H!sent, home>>
        /\ x14' = Append(x14, H!Answer(r, TRUE, H!NoPage))
    BY DEF H!DoPlain, H!rows
  <1>2. Store' /\ x2 \subseteq x2' /\ (HistoryWritten => HistoryWritten')
    BY <1>1, SteadyRows
  <1>3. r.op \notin H!Reads \cup {"post"}
    BY <1>1 DEF H!Reads
  <1> QED  BY <1>1, <1>2, <1>3, EmptyAnswer

\* A conversation that is new is no erased message's.
LEMMA CreateIs ==
  ASSUME HistoryTyped, NEW r \in Requests, UNCHANGED <<H!sent, home>>, H!DoCreate(r)
  PROVE  \E a : Answered(r, a)
  <1>1. PICK cv \in HistoryConversations \ x2 :
          /\ x1' = x1 \union {cv} /\ x2' = x2 \union {cv}
          /\ x14' = Append(x14, H!Answer(r, TRUE, H!Page(cv, x1', x3, x4)))
    BY DEF H!DoCreate
  <1>2. UNCHANGED <<x3, x4, x18, H!sent, home>>
    BY DEF H!DoCreate
  <1>3. Store' /\ x2 \subseteq x2'
    BY <1>1, <1>2 DEF HistoryTyped, Store, Known, H!sent
  <1>4. ASSUME HistoryWritten
        PROVE  HistoryWritten'
    <2>1. \A m \in x18 : x3[m] = Nil /\ home[m] \in x2 \ x1
      BY <1>4 DEF HistoryWritten
    <2>2. \A m \in x18 : home[m] \in x2' \ x1'
      BY <1>1, <2>1
    <2> QED  BY <1>2, <1>4, <2>1, <2>2 DEF HistoryWritten
  <1>5. cv \in x2' /\ x1' \in SUBSET x2' /\ x3 = x3'
    BY <1>1, <1>2, <1>3 DEF Store, Known, H!sent
  <1> QED  BY <1>1, <1>3, <1>4, <1>5, FullAnswer

LEMMA DeleteIs ==
  ASSUME HistoryTyped, NEW r \in Requests, UNCHANGED <<H!sent, home>>, H!DoDelete(r)
  PROVE  \E a : Answered(r, a)
  <1> DEFINE left == x1 \ {r.conv}
  <1>1. /\ x18' = x18 \union H!Of(r.conv) /\ x3' = H!Without(H!Of(r.conv)) /\ UNCHANGED <<x4, H!sent, home>>
    BY DEF H!DoDelete
  <1>2. PICK cv \in H!After(left, r) :
          IF cv \in x2 /\ cv \notin left
            THEN /\ x1' = left /\ UNCHANGED x2
                 /\ x14' = Append(x14, H!Answer(r, FALSE, H!NoPage))
            ELSE /\ x1' = left \union {cv} /\ x2' = x2 \union {cv}
                 /\ x14' = Append(x14, H!Answer(r, TRUE, H!Page(cv, x1', x3', x4')))
    BY DEF H!DoDelete
  <1>3. Store /\ r.conv \in HistoryConversations /\ r.other \in Ids
    BY DEF HistoryTyped, H!DoDelete, Requests
  <1>4. cv \in HistoryConversations
    <2>1. CASE r.other # Nil /\ r.other # r.conv
      BY <1>2, <1>3, <2>1 DEF H!After, Ids
    <2>2. CASE ~(r.other # Nil /\ r.other # r.conv) /\ left # {}
      BY <1>2, <1>3, <2>2 DEF H!After, Store, Known, H!sent
    <2>3. CASE ~(r.other # Nil /\ r.other # r.conv) /\ left = {}
      BY <1>2, <2>3 DEF H!After
    <2> QED  BY <2>1, <2>2, <2>3
  <1>5. /\ x3' \in [H!Messages -> Ids] /\ x18' \subseteq H!Messages
        /\ \A m \in H!Messages : x3'[m] = IF x3[m] = r.conv THEN Nil ELSE x3[m]
    BY <1>1, <1>3, Bounds DEF H!Without, H!Of, Store, Known, H!sent
  <1>6. \/ x1' = left
        \/ x1' = left \cup {cv} /\ (cv \in left \/ cv \notin x2)
    BY <1>2
  <1>7. x2 \subseteq x2' /\ x1' \subseteq x2' /\ x2' \subseteq HistoryConversations
    BY <1>2, <1>3, <1>4 DEF Store, Known, H!sent
  <1> HIDE DEF left
  <1>8. Store'
    BY <1>1, <1>3, <1>5, <1>7 DEF Store, Known, H!sent
  <1>9. ASSUME HistoryWritten
        PROVE  HistoryWritten'
    <2>1. \A m \in H!Messages : x3'[m] \in {Nil, home'[m]}
      BY <1>1, <1>5, <1>9 DEF HistoryWritten
    <2>2. ASSUME NEW m \in x18'
          PROVE  x3'[m] = Nil /\ home'[m] \in x2' \ x1'
      <3>1. m \in H!Messages /\ r.conv # Nil
        BY <1>3, <1>5, <2>2, ComponentsAssumption
      <3>2. x3'[m] = Nil /\ home[m] \in x2 /\ home[m] \notin left
        <4>1. CASE m \in x18
          BY <1>5, <1>9, <3>1, <4>1 DEF HistoryWritten, left
        <4>2. CASE m \in H!Of(r.conv)
          <5>1. x3[m] = r.conv
            BY <4>2 DEF H!Of
          <5>2. home[m] = r.conv /\ home[m] \in x2
            BY <1>3, <1>9, <3>1, <5>1, ComponentsAssumption DEF HistoryWritten, Store, Known, H!sent
          <5> QED  BY <1>5, <3>1, <5>1, <5>2 DEF left
        <4> QED  BY <1>1, <2>2, <4>1, <4>2
      <3>3. home[m] # cv \/ cv \in left \/ x1' = left
        BY <1>6, <3>2
      <3> QED  BY <1>1, <1>6, <1>7, <3>2, <3>3
    <2> QED  BY <2>1, <2>2 DEF HistoryWritten
  <1>10. CASE cv \in x2 /\ cv \notin left
    <2>1. x14' = Append(x14, H!Answer(r, FALSE, H!NoPage))
      BY <1>2, <1>10 DEF left
    <2> QED  BY <1>7, <1>8, <1>9, <2>1, EmptyAnswer
  <1>11. CASE ~(cv \in x2 /\ cv \notin left)
    <2>1. /\ x2' = x2 \union {cv}
          /\ x14' = Append(x14, H!Answer(r, TRUE, H!Page(cv, x1', x3', x4')))
      BY <1>2, <1>11 DEF left
    <2>2. cv \in x2' /\ x1' \in SUBSET x2'
      BY <1>7, <2>1
    <2> QED  BY <1>7, <1>8, <1>9, <2>1, <2>2, FullAnswer
  <1> QED  BY <1>10, <1>11

LEMMA ClearIs ==
  ASSUME HistoryTyped, NEW r \in Requests, UNCHANGED <<H!sent, home>>, H!DoClear(r)
  PROVE  \E a : Answered(r, a)
  <1>1. PICK cv \in HistoryConversations \ x2 :
          /\ x1' = {cv} /\ x2' = x2 \union {cv}
          /\ x14' = Append(x14, H!Answer(r, TRUE, H!Page(cv, x1', x3', x4)))
    BY DEF H!DoClear
  <1>2. /\ UNCHANGED <<x4, H!sent, home>> /\ x3' = [m \in H!Messages |-> Nil]
        /\ x18' = x18 \union {m \in H!Messages : x3[m] # Nil}
    BY DEF H!DoClear
  <1>3. Store' /\ x2 \subseteq x2'
    BY <1>1, <1>2, Bounds DEF HistoryTyped, Store, Known, H!sent
  <1>4. ASSUME HistoryWritten
        PROVE  HistoryWritten'
    <2>1. ASSUME NEW m \in x18'
          PROVE  m \in H!Messages /\ home[m] \in x2
      <3>1. m \in H!Messages
        BY <1>3, <2>1 DEF Store, Known, H!sent
      <3>2. m \in x18 \/ x3[m] # Nil
        BY <1>2, <2>1
      <3> QED  BY <1>4, <3>1, <3>2 DEF HistoryWritten, HistoryTyped, Store, Known, H!sent
    <2>2. \A m \in x18' : home[m] \in x2' \ x1'
      BY <1>1, <2>1
    <2> QED  BY <1>2, <2>1, <2>2 DEF HistoryWritten
  <1>5. cv \in x2' /\ x1' \in SUBSET x2'
    BY <1>1
  <1> QED  BY <1>1, <1>3, <1>4, <1>5, FullAnswer

LEMMA RunIs ==
  ASSUME HistoryTyped, NEW r \in Requests, UNCHANGED <<H!sent, home>>, H!Run(r)
  PROVE  \E a : Answered(r, a)
  <1>1. ASSUME NEW ok \in BOOLEAN, H!DoSave(r, ok) \/ H!DoFinalize(r, ok)
        PROVE  \E a : Answered(r, a)
    BY <1>1, SaveIs, FinalizeIs
  <1>2. CASE H!DoRead(r) \/ H!DoPlain(r) \/ H!DoCreate(r) \/ H!DoDelete(r) \/ H!DoClear(r)
    BY <1>2, ReadIs, PlainIs, CreateIs, DeleteIs, ClearIs
  <1>3. CASE x14' = Append(x14, H!Answer(r, FALSE, H!NoPage)) /\ UNCHANGED H!rows
    <2>1. Store' /\ x2 \subseteq x2' /\ (HistoryWritten => HistoryWritten')
      BY <1>3, SteadyRows DEF H!rows
    <2> QED  BY <1>3, <2>1, EmptyAnswer
  <1> QED  BY <1>1, <1>2, <1>3 DEF H!Run

\* A request is taken from one of the queues, which it may be about the turn from.
LEMMA WorkStays ==
  ASSUME HistoryIInv, H!Work
  PROVE  HistoryIInv'
  <1>0. HistoryTyped /\ Lane
    BY DEF HistoryIInv
  <1>1. UNCHANGED <<x5, x7, x8, x9, x10, x11, H!sent, home, x19>>
    BY SentStays DEF H!Work
  <1>2. x12 \in Seq(Requests) /\ x13 \in Seq(Requests) /\ x14 \in Seq(Answers)
    BY <1>0 DEF HistoryTyped, Queued
  <1>3. PICK r :
          /\ H!Run(r) /\ r \in Requests
          /\ \/ /\ x12 # <<>> /\ r = Head(x12) /\ x12' = Tail(x12) /\ x13' = x13
             \/ /\ x13 # <<>> /\ r = Head(x13) /\ x13' = Tail(x13) /\ x12' = x12
    <2>1. CASE x12 # <<>> /\ H!Run(Head(x12)) /\ x12' = Tail(x12) /\ UNCHANGED x13
      BY <1>2, <2>1, Taking
    <2>2. CASE x12 = <<>> /\ x13 # <<>> /\ H!Run(Head(x13)) /\ x13' = Tail(x13)
               /\ UNCHANGED x12
      BY <1>2, <2>2, Taking
    <2> QED  BY <2>1, <2>2 DEF H!Work
  <1>4. PICK a : Answered(r, a)
    BY <1>0, <1>1, <1>3, RunIs
  <1>5. x14' \in Seq(Answers) /\ Elements(x14') = Elements(x14) \cup {a}
    BY <1>2, <1>4, Appending DEF Answered
  <1>6. /\ x12' \in Seq(Requests) /\ x13' \in Seq(Requests)
        /\ Elements(x12') \subseteq Elements(x12) /\ Elements(x13') \subseteq Elements(x13)
        /\ Single(x12', Sends)
        /\ r \in Sends => /\ r \in Elements(x12) /\ Elements(x12') \cap Sends = {}
                          /\ Elements(x14) \cap Told = {}
        /\ r \in Elements(x12) \/ r \notin Sends
    <2>1. CASE x12 # <<>> /\ r = Head(x12) /\ x12' = Tail(x12) /\ x13' = x13
      <3>1. /\ x12' \in Seq(Requests) /\ Elements(x12) = {r} \cup Elements(x12')
        BY <1>2, <2>1, Taking
      <3>2. Single(x12', Sends) /\ (r \in Sends => \A d \in Elements(x12') : d \notin Sends)
        BY <1>0, <1>2, <2>1, SingleTail DEF Lane
      <3>3. r \in Sends => Elements(x14) \cap Told = {}
        BY <1>0, <3>1 DEF Lane
      <3> QED  BY <1>2, <2>1, <3>1, <3>2, <3>3
    <2>2. CASE x13 # <<>> /\ r = Head(x13) /\ x13' = Tail(x13) /\ x12' = x12
      <3>1. x13' \in Seq(Requests) /\ Elements(x13) = {r} \cup Elements(x13')
        BY <1>2, <2>2, Taking
      <3>2. r \notin Sends
        BY <1>0, <3>1 DEF Lane
      <3> QED  BY <1>0, <1>2, <2>2, <3>1, <3>2 DEF Lane
    <2> QED  BY <1>3, <2>1, <2>2
  <1>7. a \in Told => r \in Sends
    BY <1>4 DEF Answered, Told
  <1>8. Store' /\ Screen'
    <2>1. x5' \in x2' /\ x7'.conv \in x2'
      BY <1>0, <1>1, <1>4 DEF HistoryTyped, Screen, Answered
    <2> QED  BY <1>0, <1>1, <1>4, <2>1 DEF HistoryTyped, Screen, Answered
  <1>9. Queued'
    <2>1. \A b \in Elements(x14) : HasPage(b) => b.page.conv \in x2'
      BY <1>0, <1>4 DEF HistoryTyped, Queued, Answered
    <2> QED  BY <1>4, <1>5, <1>6, <2>1 DEF Queued, Answered
  <1>10. Lane'
    <2>1. Single(x14', Told)
      <3>1. a \in Told => \A d \in Elements(x14) : d \notin Told
        BY <1>6, <1>7
      <3> QED  BY <1>0, <1>2, <1>4, <3>1, SingleAppend DEF Lane, Answered
    <2>2. Elements(x12') \cap Sends # {} => Elements(x14') \cap Told = {}
      BY <1>0, <1>5, <1>6, <1>7 DEF Lane
    <2>3. \A b \in Elements(x14') : b \in Told => OfChat(b.req)'
      <3>1. a \in Told => OfChat(r)
        BY <1>0, <1>6, <1>7 DEF Lane
      <3>2. a.req = r
        BY <1>4 DEF Answered
      <3> QED  BY <1>0, <1>1, <1>5, <3>1, <3>2 DEF Lane, OfChat
    <2>4. \A q \in Elements(x12') : q \in Sends => OfChat(q)'
      BY <1>0, <1>1, <1>6 DEF Lane, OfChat
    <2>5. Elements(x13') \cap Sends = {}
      BY <1>0, <1>6 DEF Lane
    <2> QED  BY <1>6, <2>1, <2>2, <2>3, <2>4, <2>5 DEF Lane
  <1>11. ASSUME ~x19'
         PROVE  Sound'
    <2>0. Sound
      BY <1>1, <1>11 DEF HistoryIInv
    <2>1. Locked' /\ Facing'
      BY <1>1, <2>0 DEF Sound, Locked, Facing
    <2>2. Due(r)
      <3>1. r.op = "save" => r \in Sends
        BY <1>3 DEF Sends, Turning
      <3> QED  BY <1>6, <2>0, <3>1 DEF Sound, Awaited, Due
    <2>3. HistoryWritten' /\ OfPage(a.page)'
      BY <1>4, <2>0, <2>2 DEF Answered, Sound
    <2>4. \A b \in Elements(x14) : OfPage(b.page)'
      BY <1>1, <1>4, <2>0 DEF Sound, Awaited, OfPage, Answered
    <2>5. Awaited'
      BY <1>1, <1>5, <1>6, <2>0, <2>3, <2>4 DEF Sound, Awaited
    <2> QED  BY <2>1, <2>3, <2>5 DEF Sound
  <1> QED  BY <1>8, <1>9, <1>10, <1>11 DEF HistoryIInv, HistoryTyped
----------------------------------------
(* The answers, on the thread of the user interface. *)

\* What an answer that is taken leaves of the queues and the rows.
LEMMA AnswerTaken ==
  ASSUME HistoryIInv, x14 # <<>>, x14' = Tail(x14), UNCHANGED <<H!rows, x12, H!sent, home>>
  PROVE  /\ Head(x14) \in Answers /\ Head(x14) \in Elements(x14)
         /\ Store' /\ x14' \in Seq(Answers) /\ Single(x14', Told)
         /\ Elements(x14') \subseteq Elements(x14)
         /\ Head(x14) \in Told =>
              Elements(x12) \cap Sends = {} /\ Elements(x14') \cap Told = {}
         /\ ~x19 => Awaited' /\ HistoryWritten' /\ OfPage(Head(x14).page)
  <1>0. HistoryTyped /\ Lane /\ x14 \in Seq(Answers)
    BY DEF HistoryIInv, HistoryTyped, Queued
  <1>1. /\ Head(x14) \in Answers /\ x14' \in Seq(Answers)
        /\ Elements(x14) = {Head(x14)} \cup Elements(x14')
    BY <1>0, Taking
  <1>2. /\ Single(x14', Told)
        /\ Head(x14) \in Told => \A d \in Elements(x14') : d \notin Told
    BY <1>0, SingleTail DEF Lane
  <1>3. Head(x14) \in Told => Elements(x12) \cap Sends = {}
    BY <1>0, <1>1 DEF Lane
  <1>4. Store'
    BY <1>0 DEF HistoryTyped, Store, Known, H!sent, H!rows
  <1>5. ASSUME ~x19
        PROVE  Awaited' /\ HistoryWritten' /\ OfPage(Head(x14).page)
    <2>1. Sound
      BY <1>5 DEF HistoryIInv
    <2> QED  BY <1>1, <2>1 DEF Sound, Awaited, OfPage, HistoryWritten, H!rows
  <1> QED  BY <1>1, <1>2, <1>3, <1>4, <1>5

\* An answer that moves neither the chat nor the panel.
Passing ==
  /\ UNCHANGED <<x5, x7, x8, x19>> /\ (x9'.on => x9.on)
  /\ x10' \in Questions /\ x11' \in Questions
  /\ x13' = x13 \/ \E r \in Requests : r \notin Sends /\ x13' = Append(x13, r)

LEMMA PassingStays ==
  ASSUME HistoryIInv, x14 # <<>>, x14' = Tail(x14), UNCHANGED <<H!rows, x12, H!sent, home>>, Passing
  PROVE  HistoryIInv'
  <1>0. HistoryTyped /\ Lane
    BY DEF HistoryIInv
  <1>1. /\ Store' /\ x14' \in Seq(Answers) /\ Single(x14', Told)
        /\ Elements(x14') \subseteq Elements(x14)
        /\ ~x19 => Awaited' /\ HistoryWritten'
    BY AnswerTaken
  <1>2. x13' \in Seq(Requests) /\ Elements(x13') \cap Sends = {}
    BY <1>0, NormalIs DEF Passing
  <1>3. Screen'
    BY <1>0 DEF HistoryTyped, Screen, Passing, H!rows
  <1>4. Queued'
    BY <1>0, <1>1, <1>2 DEF HistoryTyped, Queued, H!rows
  <1>5. Lane'
    BY <1>0, <1>1, <1>2 DEF Lane, OfChat, Passing
  <1>6. ASSUME ~x19'
        PROVE  Sound'
    <2>1. Sound /\ Awaited' /\ HistoryWritten'
      BY <1>1, <1>6 DEF HistoryIInv, Passing
    <2>2. Locked' /\ Facing'
      BY <2>1 DEF Sound, Locked, Facing, Passing
    <2> QED  BY <2>1, <2>2 DEF Sound
  <1> QED  BY <1>1, <1>3, <1>4, <1>5, <1>6 DEF HistoryIInv, HistoryTyped

\* A page: the cursor moves and the panel shows it, unless a turn is under way, and
\* then the page is of the conversation shown or the cursor strays.
LEMMA LoadedStays ==
  ASSUME HistoryIInv, x14 # <<>>, x14' = Tail(x14), UNCHANGED <<H!rows, x12, H!sent, home>>,
         HasPage(Head(x14)), H!OnLoaded(Head(x14).page)
  PROVE  HistoryIInv'
  <1> DEFINE p == Head(x14).page
  <1>0. HistoryTyped /\ Lane
    BY DEF HistoryIInv
  <1>1. /\ Head(x14) \in Answers /\ Head(x14) \in Elements(x14)
        /\ Store' /\ x14' \in Seq(Answers) /\ Single(x14', Told)
        /\ Elements(x14') \subseteq Elements(x14)
        /\ ~x19 => Awaited' /\ HistoryWritten' /\ OfPage(p)
    BY AnswerTaken
  <1>2. /\ x5' = p.conv /\ UNCHANGED <<x8, x10, x11, x13>>
        /\ (H!Matches(p) \/ x9' = x9) /\ (H!Matches(p) => x9' = H!NoChange)
        /\ x7' = (IF H!ChatActive THEN x7 ELSE H!Shown(p))
        /\ x19' = (x19 \/ (p.conv # x5 /\ ~H!Matches(p)))
    BY DEF H!OnLoaded
  <1>3. p \in Pages /\ p.conv \in x2
    BY <1>0, <1>1 DEF HistoryTyped, Queued, Answers
  <1> HIDE DEF p
  <1>4. /\ H!Shown(p) \in Panels /\ H!Shown(p).conv = p.conv
        /\ H!Shown(p).turns = p.turns /\ H!Shown(p).failed = p.failed
    BY <1>0, <1>3 DEF H!Shown, Panels, Pages, HistoryTyped, Store, Known, H!sent
  <1>5. Screen'
    <2>1. x7' \in Panels /\ x7'.conv \in x2
      BY <1>0, <1>2, <1>3, <1>4 DEF HistoryTyped, Screen
    <2> QED  BY <1>0, <1>2, <1>3, <2>1 DEF HistoryTyped, Screen, H!rows
  <1>6. Queued'
    BY <1>0, <1>1, <1>2 DEF HistoryTyped, Queued, H!rows
  <1>7. Lane'
    BY <1>0, <1>1, <1>2 DEF Lane, OfChat
  <1>8. ASSUME ~x19'
        PROVE  Sound'
    <2>1. ~x19 /\ (p.conv = x5 \/ H!Matches(p))
      BY <1>2, <1>8
    <2>2. Sound /\ Awaited' /\ HistoryWritten' /\ OfPage(p)
      BY <1>1, <2>1 DEF HistoryIInv
    <2>3. Locked'
      BY <1>2, <2>2, NoQuestion DEF Sound, Locked
    <2>4. p.conv # x5 => x8.at = "idle"
      BY <2>1, <2>2, MatchesIs DEF Sound, Locked
    <2>5. x5' = x7'.conv
      <3>1. CASE H!ChatActive
        <4>1. x8.at # "idle"
          BY <3>1 DEF H!ChatActive
        <4> QED  BY <1>2, <2>2, <2>4, <3>1, <4>1 DEF Sound, Facing
      <3>2. CASE ~H!ChatActive
        BY <1>2, <1>4, <3>2
      <3> QED  BY <3>1, <3>2
    <2>6. x8'.at # "idle" => home'[x8'.msg] = x7'.conv
      <3>1. ASSUME x8.at # "idle"
            PROVE  home[x8.msg] = x7'.conv
        <4>1. p.conv = x5 /\ x5 = x7.conv /\ home[x8.msg] = x7.conv
          BY <2>2, <2>4, <3>1 DEF Sound, Facing
        <4> QED  BY <1>2, <2>5, <4>1
      <3> QED  BY <1>2, <3>1
    <2>7. \A m \in x7'.turns \cup x7'.failed : home'[m] = x7'.conv
      <3>1. CASE H!ChatActive
        BY <1>2, <2>2, <3>1 DEF Sound, Facing
      <3>2. CASE ~H!ChatActive
        BY <1>2, <1>4, <2>2, <3>2 DEF OfPage
      <3> QED  BY <3>1, <3>2
    <2> QED  BY <2>2, <2>3, <2>5, <2>6, <2>7 DEF Sound, Facing
  <1> QED  BY <1>1, <1>5, <1>6, <1>7, <1>8 DEF HistoryIInv, HistoryTyped

\* The answer about the turn: the chat goes on or ends, and a failed turn can be retried.
LEMMA TurnStays ==
  ASSUME HistoryIInv, x14 # <<>>, x14' = Tail(x14), UNCHANGED <<H!rows, x12, H!sent, home>>,
         Head(x14).req.op \in Turning,
         \/ Head(x14).req.op = "save" /\ x8' = [x8 EXCEPT !.at = "replying"]
         \/ x8' = H!Quiet,
         \/ x7' = x7
         \/ x7' = [x7 EXCEPT !.failed = @ \union {Head(x14).req.msg}],
         UNCHANGED <<x5, x9, x10, x11, x13, x19>>
  PROVE  HistoryIInv'
  <1> DEFINE r == Head(x14).req
  <1>0. HistoryTyped /\ Lane
    BY DEF HistoryIInv
  <1>1. /\ Head(x14) \in Answers /\ Head(x14) \in Elements(x14)
        /\ Store' /\ x14' \in Seq(Answers) /\ Single(x14', Told)
        /\ Elements(x14') \subseteq Elements(x14)
        /\ Head(x14) \in Told =>
             Elements(x12) \cap Sends = {} /\ Elements(x14') \cap Told = {}
        /\ ~x19 => Awaited' /\ HistoryWritten'
    BY AnswerTaken
  <1>2. r \in Sends /\ r \in Requests /\ r.msg \in H!Messages /\ Head(x14) \in Told
    BY <1>1 DEF Answers, Sends, Told, Requests
  <1>3. OfChat(r) /\ x8.at # "idle"
    BY <1>0, <1>1, <1>2 DEF Lane, OfChat
  <1> HIDE DEF r
  <1>4. /\ x8' \in Chats /\ x8'.at \in {"idle", "replying"}
        /\ x8'.at # "idle" => x8'.msg = x8.msg
    <2>1. x8 \in Chats
      BY <1>0 DEF HistoryTyped, Screen
    <2>2. [x8 EXCEPT !.at = "replying"] \in Chats
          /\ [x8 EXCEPT !.at = "replying"].at = "replying"
          /\ [x8 EXCEPT !.at = "replying"].msg = x8.msg
      BY <2>1 DEF Chats
    <2> QED  BY <2>2, QuietIs
  <1>5. /\ x7' \in Panels /\ x7'.conv = x7.conv /\ x7'.turns = x7.turns
        /\ x7'.failed \subseteq x7.failed \cup {r.msg}
    <2>1. x7 \in Panels
      BY <1>0 DEF HistoryTyped, Screen
    <2>2. CASE x7' = x7
      BY <2>1, <2>2
    <2>3. CASE x7' = [x7 EXCEPT !.failed = @ \union {r.msg}]
      BY <1>2, <2>1, <2>3 DEF Panels
    <2> QED  BY <2>2, <2>3 DEF r
  <1>6. Screen'
    BY <1>0, <1>3, <1>4, <1>5 DEF HistoryTyped, Screen, H!rows
  <1>7. Queued'
    BY <1>0, <1>1 DEF HistoryTyped, Queued, H!rows
  <1>8. Lane'
    BY <1>0, <1>1, <1>2 DEF Lane
  <1>9. ASSUME ~x19'
        PROVE  Sound'
    <2>1. Sound /\ Awaited' /\ HistoryWritten'
      BY <1>1, <1>9 DEF HistoryIInv
    <2>2. Locked'
      BY <1>3, <2>1 DEF Sound, Locked
    <2>3. home[r.msg] = x7.conv /\ r.msg = x8.msg
      BY <1>3, <2>1 DEF Sound, Facing, OfChat
    <2>4. Facing'
      BY <1>3, <1>4, <1>5, <2>1, <2>3 DEF Sound, Facing
    <2> QED  BY <2>1, <2>2, <2>4 DEF Sound
  <1> QED  BY <1>1, <1>6, <1>7, <1>8, <1>9 DEF HistoryIInv, HistoryTyped

LEMMA HandleStays ==
  ASSUME HistoryIInv, H!Handle
  PROVE  HistoryIInv'
  <1> DEFINE a == Head(x14)
  <1> DEFINE r == a.req
  <1>0. x14 # <<>> /\ x14' = Tail(x14) /\ UNCHANGED <<H!rows, x12, H!sent, home>>
    BY SentStays DEF H!Handle
  <1>a. x10 \in Questions /\ x11 \in Questions /\ x5 \in Ids
    BY Bounds DEF HistoryIInv, HistoryTyped, Screen, Store, Known, H!sent
  <1>1. CASE a.ok /\ r.op \in H!Reads /\ H!OnLoaded(a.page)
    <2>1. HasPage(a)
      BY <1>1 DEF HasPage
    <2> QED  BY <1>0, <1>1, <2>1, LoadedStays
  <1>2. CASE a.ok /\ r.op = "post" /\ r.conv = x5 /\ H!OnLoaded(a.page)
    <2>1. HasPage(a)
      BY <1>2 DEF HasPage
    <2> QED  BY <1>0, <1>2, <2>1, LoadedStays
  <1>3. CASE UNCHANGED <<x5, x6, x7, x8, x9, x10, x11, x13, x19>>
    <2>1. Passing
      BY <1>3, <1>a DEF Passing
    <2> QED  BY <1>0, <2>1, PassingStays
  <1>4. CASE /\ x9' = IF H!Fails(r) THEN H!NoChange ELSE x9
             /\ UNCHANGED <<x5, x6, x7, x8, x10, x11, x13, x19>>
    <2>1. x9'.on => x9.on
      BY <1>4, NoQuestion
    <2>2. Passing
      BY <1>4, <1>a, <2>1 DEF Passing
    <2> QED  BY <1>0, <2>2, PassingStays
  <1>5. CASE /\ IF ~a.ok THEN x10' = H!NoChange /\ UNCHANGED x11
                ELSE IF x10.on /\ x10.target = r.conv
                  THEN x10' = H!NoChange /\ x11' = x10
                  ELSE UNCHANGED <<x10, x11>>
             /\ UNCHANGED <<x5, x6, x7, x8, x9, x13, x19>>
    <2>1. x10' \in Questions /\ x11' \in Questions
      BY <1>5, <1>a, NoQuestion
    <2>2. Passing
      BY <1>5, <2>1 DEF Passing
    <2> QED  BY <1>0, <2>2, PassingStays
  <1>6. CASE /\ x13' = Append(x13, H!Ask("load", x5, Nil))
             /\ UNCHANGED <<x5, x6, x7, x8, x9, x10, x11, x19>>
    <2>1. "load" \in Ops \ Turning
      BY DEF Ops, Turning
    <2>2. H!Ask("load", x5, Nil) \in Requests /\ H!Ask("load", x5, Nil) \notin Sends
      BY <1>a, <2>1, Bounds, AskIs
    <2>3. Passing
      BY <1>6, <1>a, <2>2 DEF Passing
    <2> QED  BY <1>0, <2>3, PassingStays
  <1>7. CASE /\ r.op = "save"
             /\ x8' = IF a.ok THEN [x8 EXCEPT !.at = "replying"] ELSE H!Quiet
             /\ x7' = IF a.ok THEN x7 ELSE [x7 EXCEPT !.failed = @ \union {r.msg}]
             /\ UNCHANGED <<x5, x6, x9, x10, x11, x13, x19>>
    BY <1>0, <1>7, TurnStays DEF Turning
  <1>8. CASE /\ r.op \in {"finalize", "fail"}
             /\ x8' = H!Quiet /\ x6' = (x6 /\ a.ok)
             /\ x7' = IF a.ok /\ r.op = "finalize" THEN x7
                         ELSE [x7 EXCEPT !.failed = @ \union {r.msg}]
             /\ UNCHANGED <<x5, x9, x10, x11, x13, x19>>
    BY <1>0, <1>8, TurnStays DEF Turning
  <1> QED  BY <1>1, <1>2, <1>3, <1>4, <1>5, <1>6, <1>7, <1>8 DEF H!Handle
----------------------------------------
(* The invariant. *)

LEMMA HistoryInitiallyIInv ==
  ASSUME H!Init
  PROVE  HistoryIInv
  <1>1. Store
    <2>1. Known /\ home = [m \in H!Messages |-> Nil]
      BY DEF H!Init, Known, home, H!SentTo
    <2> QED  BY <2>1, ComponentsAssumption DEF H!Init, Store, Ids
  <1>2. Screen
    <2>1. x7 \in Panels /\ x7.conv = HistoryFirst /\ x7.turns = {} /\ x7.failed = {}
      BY ComponentsAssumption DEF H!Init, Panels
    <2> QED  BY <2>1, NoQuestion, QuietIs DEF H!Init, Screen
  <1>3. Queued /\ Lane
    <2>1. Elements(<<>>) = {} /\ Single(<<>>, Sends) /\ Single(<<>>, Told)
      BY EmptyQueue
    <2>2. Queued
      BY <2>1 DEF H!Init, Queued
    <2>3. Lane
      BY <2>1 DEF H!Init, Lane
    <2> QED  BY <2>2, <2>3
  <1>4. Sound
    <2>1. Locked
      BY NoQuestion DEF H!Init, Locked
    <2>2. Facing
      BY QuietIs DEF H!Init, Facing
    <2>3. Awaited
      BY EmptyQueue DEF H!Init, Awaited
    <2>4. HistoryWritten
      BY DEF H!Init, HistoryWritten
    <2> QED  BY <2>1, <2>2, <2>3, <2>4 DEF Sound
  <1> QED  BY <1>1, <1>2, <1>3, <1>4 DEF HistoryIInv, HistoryTyped

LEMMA IInvSame ==
  ASSUME HistoryIInv, UNCHANGED H!vars
  PROVE  HistoryIInv'
  <1>1. UNCHANGED <<x15, x16, x17, home>>
    BY SentStays DEF H!vars, H!sent
  <1>2. /\ UNCHANGED <<H!rows, H!queues, x5, x6, x7, x8, x9, x10, x11>>
        /\ UNCHANGED x19
    BY DEF H!vars, H!rows, H!queues
  <1> QED  BY <1>1, <1>2 DEF HistoryIInv, HistoryTyped, Store, Known, Screen, Queued, Lane, OfChat, Sound, Locked,
             Facing, Awaited, OfPage, HistoryWritten, H!rows, H!queues

LEMMA HistoryIInvStep ==
  ASSUME HistoryIInv, (H!Next \/ UNCHANGED H!vars)
  PROVE  HistoryIInv'
  <1>1. CASE \/ H!Send \/ H!SendWithPicture \/ H!OnPicture \/ H!Retry \/ H!Dispatch \/ H!LaneTimeout
             \/ H!ReplyEnds \/ H!Post
    BY <1>1, SendStays, PictureStays, RetryStays, DispatchStays, TimeoutStays, EndsStays, PostStays
  <1>2. CASE H!Switch \/ H!New \/ H!AskDelete \/ H!Yes \/ H!No \/ H!WriteReminder
    BY <1>2, ControlStays DEF ControlStep
  <1>3. CASE H!Work \/ H!Handle
    BY <1>3, WorkStays, HandleStays
  <1>4. CASE UNCHANGED H!vars
    BY <1>4, IInvSame
  <1> QED  BY <1>1, <1>2, <1>3, <1>4 DEF H!Next

LEMMA IsKept ==
  ASSUME HistoryIInv
  PROVE  H!HistoryIsKept
  <1>1. \A m \in H!Messages : home[m] \in {Nil, H!SentTo(m)}
    BY DEF home
  <1>2. Sound => H!SavedWhereShown
    BY <1>1 DEF Sound, HistoryWritten, H!SavedWhereShown
  <1>3. Sound => \A m \in x18 : x3[m] = Nil
    BY DEF Sound, HistoryWritten
  <1> QED  BY <1>2, <1>3 DEF HistoryIInv, H!HistoryIsKept, H!SavedWhereShown, H!DeletedIsGone

HistoryInv == part = "history" => HistoryIInv

LEMMA HistoryStart == Init => HistoryInv
  <1> SUFFICES ASSUME Init, part = "history"
               PROVE  HistoryIInv
    BY DEF HistoryInv
  <1>1. H!Init
    BY DEF Init, InitOf
  <1> QED  BY <1>1, HistoryInitiallyIInv

LEMMA HistoryMoves ==
  ASSUME [Next]_vars, part = "history"
  PROVE  H!Next \/ UNCHANGED H!vars
  <1>1. CASE Next
    BY <1>1 DEF Next, InR, InV, InX, InG, InH, InW, InT, InJ, InM, InP, InA, InC
  <1>2. CASE UNCHANGED vars
    BY <1>2 DEF vars, H!vars
  <1> QED  BY <1>1, <1>2

LEMMA HistoryStep == HistoryInv /\ [Next]_vars => HistoryInv'
  <1> SUFFICES ASSUME HistoryInv, [Next]_vars, part' = "history"
               PROVE  HistoryIInv'
    BY DEF HistoryInv
  <1>1. part = "history" /\ HistoryIInv
    BY PartStays DEF HistoryInv
  <1> QED  BY <1>1, HistoryMoves, HistoryIInvStep

LEMMA HistoryInvariance == Spec => []HistoryInv
  BY HistoryStart, HistoryStep, PTL DEF Spec

\* controller.py, local_data_service.py: a message is written into the conversation that
\* was shown when it was sent, or when the picture it takes along was there, and what a
\* deletion erased stays erased, for any number of conversations, messages, changes,
\* reminders and faults, unless a deletion was confirmed where it would be refused or a
\* page nobody waits for moved the cursor.
THEOREM HistoryKept == Spec => []HistoryIsKept
  <1>1. HistoryInv => HistoryIsKept
    BY IsKept DEF HistoryInv, HistoryIsKept
  <1> QED  BY <1>1, HistoryInvariance, PTL

----------------------------------------
(* Attachments. *)

\* The object of a saved row was found at every place the content passed before: the
\* import, the panel or a draft, the turn, the request and its answer (Kept, Panels).  All
\* of it holds until a deletion is confirmed during a turn or another change (strayed); the
\* backup does not depend on that (Complete).
\* Its variables: files x1, rows x2, convs x3, drafts x4, panel x5, current x6, cursor x7,
\*   import x8, chat x9, unsaved x10, asked x11, change x12, late x13,
\*   ready x14, urgent x15, normal x16, answers x17, build x18, archive x19,
\*   loose x20, strayed x21, imports x22, sends x23, changes x24,
\*   backups x25, faults x26

\* What is asked of the data thread and what it answers.
Turns     == [at : {"saving"}, msg : Nat, items : SUBSET AttachmentsContents]
Attempts  == [at : {"waiting", "again", "saving", "replying"}, msg : Nat, items : SUBSET AttachmentsContents]
Imports   == [at : {"none", "copying", "landed"}, content : AttachmentsContents \cup {Nil},
              for : {"panel", "message"}, items : SUBSET AttachmentsContents]
Starts    == [op : {"start"}]
Saves     == [op : {"save"}, turn : Turns, conv : AttachmentsConversations]
Loads     == [op : {"load"}, conv : AttachmentsConversations]
Deletes   == [op : {"delete"}, conv : AttachmentsConversations, spared : SUBSET AttachmentsContents, shown : AttachmentsConversations]
Others    == [op : {"create", "clear"}]
Backups   == [op : {"backup"}]
Changes   == Loads \cup Deletes \cup Others
Urgent    == Starts \cup Saves
Normal    == Changes \cup Backups
Answer    == [ok : BOOLEAN, req : Urgent \cup Changes, conv : AttachmentsConversations \cup {Nil}]
AnswersTo(Z) == {a \in Answer : a.req \in Z}

\* One request of Z at most is asked and not yet answered.
Lone(q, ans, Z) ==
  /\ Single(q, Z) /\ Single(ans, AnswersTo(Z))
  /\ Elements(q) \cap Z = {} \/ Elements(ans) \cap AnswersTo(Z) = {}
UnderWay(q, ans, Z) == Elements(q) \cap Z # {} \/ Elements(ans) \cap AnswersTo(Z) # {}

Rows   == {A!NoRow} \cup [conv : AttachmentsConversations, items : SUBSET AttachmentsContents]
Copies == [at : {"none", "rows", "written", "kept"}, rows : SUBSET AttachmentsContents, objects : SUBSET AttachmentsContents]

AttachmentsTyped ==
  /\ x15 \in Seq(Urgent) /\ x16 \in Seq(Normal) /\ x17 \in Seq(Answer)
  /\ x2 \in [A!Messages -> Rows] /\ x3 \subseteq AttachmentsConversations /\ x3 # {}
  /\ x6 \in AttachmentsConversations /\ x7 = x6
  /\ x11 \in [kind : {"delete"}, conv : AttachmentsConversations] \cup [kind : {"none", "clear"}, conv : {Nil}]
  /\ x4 \in [AttachmentsConversations -> SUBSET AttachmentsContents] /\ x5 \subseteq AttachmentsContents
  /\ x10 \subseteq Turns /\ x9 \in Attempts \cup {A!NoTurn} /\ x23 \in Nat
  /\ x8 \in Imports
  /\ x8.at # "none" => x8.content \in AttachmentsContents
  /\ x14 \in BOOLEAN /\ x18 \in Copies

\* The data thread is asked for one start, one turn and one change at a time; a turn and
\* a change exclude each other, and both wait for the answer to the start.
Lanes ==
  /\ Lone(x15, x17, Starts) /\ Lone(x15, x17, Saves) /\ Lone(x16, x17, Changes)
  /\ UnderWay(x15, x17, Starts) => ~x14
  /\ UnderWay(x15, x17, Saves) => x9.at = "saving"
  /\ UnderWay(x16, x17, Changes) => x12 # "none"
  /\ x12 # "none" => x9 = A!NoTurn /\ x14
  /\ \A r \in Elements(x16) : r \in Changes => r.op = x12
  /\ \A a \in Elements(x17) : a.req \in Changes => a.req.op = x12
  /\ ~x14 =>
       /\ x9 = A!NoTurn /\ x10 = {} /\ x11.kind = "none"
       /\ \A d \in AttachmentsConversations : x4[d] = {}

\* On disk, or known to be lost.
Found == x1 \cup x20

\* What a row names, or a message that may still become one, or the import, is found.
Kept ==
  /\ \A m \in A!Messages : x2[m].items \subseteq Found
  /\ \A r \in Elements(x15) : r \in Saves => r.turn.items \subseteq Found
  /\ \A a \in Elements(x17) : a.req \in Saves => a.req.turn.items \subseteq Found
  /\ \A t \in x10 : t.items \subseteq Found
  /\ x9.items \subseteq Found /\ x8.items \subseteq Found
  /\ x8.at = "landed" => x8.content \in Found

\* A change has been made whose answer is still to be handled.
Made(a) == a.req \in Changes /\ a.ok

\* So is what the panel and the drafts name, but for those the answer of a change that has
\* been made is going to drop; a deletion spares the drafts of the other conversations.
AttachmentsPanels ==
  /\ (\A a \in Elements(x17) : ~Made(a)) =>
       /\ x5 \subseteq Found /\ \A d \in AttachmentsConversations : x4[d] \subseteq Found
       /\ \A d \in AttachmentsConversations \ (x3 \cup {x6}) : x4[d] = {}
  /\ \A a \in Elements(x17) : Made(a) =>
       /\ a.conv \in AttachmentsConversations
       /\ a.conv = x6 => x5 \subseteq Found
       /\ \A d \in x3 : x4[d] \subseteq Found
  /\ \A r \in Elements(x16) : r \in Deletes =>
       /\ r.shown = x6
       /\ \A d \in AttachmentsConversations \ {r.conv} : x4[d] \subseteq r.spared
  /\ Elements(x16) \cap Changes # {} => x5 \subseteq x4[x6] \cup x13

AttachmentsSound == AttachmentsTyped /\ Lanes /\ Kept /\ AttachmentsPanels /\ A!BackupIsWhole

----------------------------------------
(* One request at a time. *)

LEMMA LoneAsked ==
  ASSUME NEW S, NEW q \in Seq(S), NEW ans \in Seq(Answer), NEW e \in S, NEW Z, Lone(q, ans, Z),
         e \in Z => ~UnderWay(q, ans, Z)
  PROVE  /\ Lone(Append(q, e), ans, Z)
         /\ UnderWay(Append(q, e), ans, Z) => UnderWay(q, ans, Z) \/ e \in Z
  <1>1. Elements(Append(q, e)) = Elements(q) \cup {e}
    BY Appending
  <1>2. Single(Append(q, e), Z)
    BY SingleAppend DEF Lone, UnderWay
  <1> QED  BY <1>1, <1>2 DEF Lone, UnderWay

LEMMA LoneAnswered ==
  ASSUME NEW S, NEW q \in Seq(S), q # <<>>, NEW ans \in Seq(Answer), NEW a \in Answer,
         a.req = Head(q), NEW Z, Lone(q, ans, Z)
  PROVE  /\ Lone(Tail(q), Append(ans, a), Z)
         /\ UnderWay(Tail(q), Append(ans, a), Z) => UnderWay(q, ans, Z)
  <1>1. Elements(Append(ans, a)) = Elements(ans) \cup {a}
    BY Appending
  <1>2. Elements(q) = {Head(q)} \cup Elements(Tail(q))
    BY Taking
  <1>3. Single(Tail(q), Z) /\ (Head(q) \in Z => Elements(Tail(q)) \cap Z = {})
    BY SingleTail DEF Lone
  <1>4. a \in AnswersTo(Z) <=> Head(q) \in Z
    BY DEF AnswersTo
  <1>5. a \in AnswersTo(Z) => Elements(ans) \cap AnswersTo(Z) = {}
    BY <1>2, <1>4 DEF Lone
  <1>6. Single(Append(ans, a), AnswersTo(Z))
    BY <1>5, SingleAppend DEF Lone
  <1> QED  BY <1>1, <1>2, <1>3, <1>4, <1>5, <1>6 DEF Lone, UnderWay

LEMMA LoneOther ==
  ASSUME NEW S, NEW q \in Seq(S), NEW ans \in Seq(Answer), NEW a \in Answer,
         NEW Z, a.req \notin Z, Lone(q, ans, Z)
  PROVE  /\ Lone(q, Append(ans, a), Z)
         /\ UnderWay(q, Append(ans, a), Z) => UnderWay(q, ans, Z)
  <1>1. Elements(Append(ans, a)) = Elements(ans) \cup {a}
    BY Appending
  <1>2. a \notin AnswersTo(Z)
    BY DEF AnswersTo
  <1>3. Single(Append(ans, a), AnswersTo(Z))
    BY <1>2, SingleAppend DEF Lone
  <1> QED  BY <1>1, <1>2, <1>3 DEF Lone, UnderWay

LEMMA LoneHandled ==
  ASSUME NEW S, NEW q \in Seq(S), NEW ans \in Seq(Answer), ans # <<>>, NEW Z, Lone(q, ans, Z)
  PROVE  /\ Lone(q, Tail(ans), Z)
         /\ UnderWay(q, Tail(ans), Z) => UnderWay(q, ans, Z)
         /\ Head(ans).req \in Z => ~UnderWay(q, Tail(ans), Z) /\ UnderWay(q, ans, Z)
  <1>1. Elements(ans) = {Head(ans)} \cup Elements(Tail(ans)) /\ Head(ans) \in Answer
    BY Taking
  <1>2. Single(Tail(ans), AnswersTo(Z))
        /\ (Head(ans) \in AnswersTo(Z) => Elements(Tail(ans)) \cap AnswersTo(Z) = {})
    BY SingleTail DEF Lone
  <1>3. Head(ans) \in AnswersTo(Z) <=> Head(ans).req \in Z
    BY <1>1 DEF AnswersTo
  <1> QED  BY <1>1, <1>2, <1>3 DEF Lone, UnderWay

LEMMA LoneDropped ==
  ASSUME NEW S, NEW q \in Seq(S), q # <<>>, NEW ans \in Seq(Answer), NEW Z, Lone(q, ans, Z)
  PROVE  /\ Lone(Tail(q), ans, Z)
         /\ UnderWay(Tail(q), ans, Z) => UnderWay(q, ans, Z)
  <1>1. Elements(q) = {Head(q)} \cup Elements(Tail(q))
    BY Taking
  <1>2. Single(Tail(q), Z)
    BY SingleTail DEF Lone
  <1> QED  BY <1>1, <1>2 DEF Lone, UnderWay

LEMMA LoneEmpty ==
  ASSUME NEW Z
  PROVE  /\ Lone(<<>>, <<>>, Z) /\ ~UnderWay(<<>>, <<>>, Z)
  BY EmptyQueue DEF Lone, UnderWay

LEMMA OneRequest ==
  ASSUME NEW S, NEW e \in S
  PROVE  /\ <<e>> \in Seq(S) /\ Elements(<<e>>) = {e}
         /\ \A Z : Single(<<e>>, Z)
  <1>1. DOMAIN <<e>> = {1} /\ <<e>>[1] = e /\ <<e>> \in Seq(S)
    OBVIOUS
  <1>2. \A i, k \in {1} : ~(i < k)
    OBVIOUS
  <1> QED  BY <1>1, <1>2 DEF Elements, Single, Paired

LEMMA LoneStart ==
  /\ <<[op |-> "start"]>> \in Seq(Urgent) /\ Elements(<<[op |-> "start"]>>) = {[op |-> "start"]}
  /\ Lone(<<[op |-> "start"]>>, <<>>, Starts) /\ Lone(<<[op |-> "start"]>>, <<>>, Saves)
  /\ ~UnderWay(<<[op |-> "start"]>>, <<>>, Saves)
  <1> DEFINE r == [op |-> "start"]
  <1>1. r \in Urgent /\ r \in Starts /\ r \notin Saves
    BY DEF Urgent, Starts, Saves
  <1> HIDE DEF r
  <1>2. <<r>> \in Seq(Urgent) /\ Elements(<<r>>) = {r} /\ \A Z : Single(<<r>>, Z)
    BY <1>1, OneRequest
  <1>3. \A Z : Elements(<<>>) = {} /\ Single(<<>>, AnswersTo(Z))
    BY EmptyQueue
  <1>4. Lone(<<r>>, <<>>, Starts) /\ Lone(<<r>>, <<>>, Saves)
        /\ ~UnderWay(<<r>>, <<>>, Saves)
    BY <1>1, <1>2, <1>3 DEF Lone, UnderWay
  <1> QED  BY <1>2, <1>4 DEF r

LEMMA Kinds ==
  /\ \A r \in Urgent : /\ (r \in Starts <=> r.op = "start") /\ (r \in Saves <=> r.op = "save")
                       /\ r \notin Changes
  /\ \A r \in Normal : /\ r \in Deletes <=> r.op = "delete"
                       /\ r \in Loads <=> r.op = "load"
                       /\ r \in Changes <=> r.op \in {"load", "delete", "create", "clear"}
                       /\ r \notin Starts /\ r \notin Saves
  BY DEF Urgent, Normal, Changes, Starts, Saves, Deletes, Loads, Others, Backups

----------------------------------------
LEMMA InitiallySound == A!Init => AttachmentsSound
  <1> SUFFICES ASSUME A!Init
               PROVE  AttachmentsSound
    OBVIOUS
  <1>1. x6 \in AttachmentsConversations /\ x3 = {x6}
    BY ComponentsAssumption DEF A!Init
  <1>2. /\ Lone(x15, x17, Starts) /\ Lone(x15, x17, Saves)
        /\ ~UnderWay(x15, x17, Saves) /\ x15 \in Seq(Urgent)
        /\ Elements(x15) = {[op |-> "start"]}
    BY LoneStart DEF A!Init
  <1>3. Lone(x16, x17, Changes) /\ ~UnderWay(x16, x17, Changes)
        /\ Elements(x16) = {} /\ Elements(x17) = {}
    BY LoneEmpty, EmptyQueue DEF A!Init
  <1>4. (\A m \in A!Messages : x2[m].items = {}) /\ x9.items = {} /\ x8.items = {} /\ x8.at = "none"
    BY DEF A!Init, A!NoRow, A!NoTurn, A!NoImport
  <1>5. AttachmentsTyped
    <2>1. x2 \in [A!Messages -> Rows] /\ x18 \in Copies
      BY DEF A!Init, Rows, A!NoBuild, Copies
    <2>2. x16 \in Seq(Normal) /\ x17 \in Seq(Answer)
      BY DEF A!Init
    <2>3. /\ x4 \in [AttachmentsConversations -> SUBSET AttachmentsContents] /\ x5 \subseteq AttachmentsContents
          /\ x10 \subseteq Turns /\ x9 = A!NoTurn /\ x23 \in Nat /\ x14 \in BOOLEAN
      BY DEF A!Init
    <2>4. /\ x8 \in Imports /\ x8.at = "none" /\ x7 = x6
          /\ x11 \in [kind : {"none", "clear"}, conv : {Nil}]
      BY DEF A!Init, A!NoImport, A!NoQuestion, Imports
    <2> QED  BY <1>1, <1>2, <2>1, <2>2, <2>3, <2>4 DEF AttachmentsTyped
  <1>6. Lanes
    BY <1>2, <1>3 DEF A!Init, Lanes, A!NoQuestion
  <1>7. Kept
    <2>1. [op |-> "start"] \notin Saves
      BY DEF Saves
    <2> QED  BY <1>2, <1>3, <1>4, <2>1 DEF A!Init, Kept
  <1>8. AttachmentsPanels
    BY <1>3 DEF A!Init, AttachmentsPanels
  <1>9. A!BackupIsWhole
    BY DEF A!Init, A!BackupIsWhole, A!NoBuild
  <1> QED  BY <1>5, <1>6, <1>7, <1>8, <1>9 DEF AttachmentsSound

\* No change is under way.
LEMMA Settled ==
  ASSUME AttachmentsSound, x12 = "none"
  PROVE  /\ ~UnderWay(x16, x17, Changes)
         /\ Elements(x16) \cap Changes = {}
         /\ \A a \in Elements(x17) : a.req \notin Changes /\ ~Made(a)
         /\ x5 \subseteq Found /\ \A d \in AttachmentsConversations : x4[d] \subseteq Found
         /\ \A d \in AttachmentsConversations \ (x3 \cup {x6}) : x4[d] = {}
  <1>1. ~UnderWay(x16, x17, Changes)
    BY DEF AttachmentsSound, Lanes
  <1>2. Elements(x17) \subseteq Answer
    BY NotEmpty DEF AttachmentsSound, AttachmentsTyped
  <1>3. \A a \in Elements(x17) : a.req \notin Changes /\ ~Made(a)
    BY <1>1, <1>2 DEF UnderWay, AnswersTo, Made
  <1>4. Elements(x16) \cap Changes = {}
    BY <1>1 DEF UnderWay
  <1> QED  BY <1>1, <1>3, <1>4 DEF AttachmentsSound, AttachmentsPanels

\* What was named stays found, and so is what is named now.
LEMMA KeptStep ==
  ASSUME Kept, Found \subseteq Found',
         \A m \in A!Messages : x2'[m].items \subseteq Found',
         \A r \in Elements(x15') : r \in Elements(x15) \/ (r \in Saves => r.turn.items \subseteq Found'),
         \A a \in Elements(x17') :
           a \in Elements(x17) \/ (a.req \in Saves => a.req.turn.items \subseteq Found'),
         \A t \in x10' : t \in x10 \/ t.items \subseteq Found',
         x9'.items \subseteq Found', x8'.items \subseteq Found',
         x8'.at = "landed" => x8'.content \in Found'
  PROVE  Kept'
  BY DEF Kept

LEMMA PanelsStep ==
  ASSUME AttachmentsPanels, Found \subseteq Found', UNCHANGED <<x17, x4, x3, x6>>,
         x16' = x16, x5' \subseteq x5 \cup Found, x5' \subseteq x5 \cup x13', x13 \subseteq x13'
  PROVE  AttachmentsPanels'
  <1>1. \A d \in AttachmentsConversations : x4[d] \subseteq Found => x4'[d] \subseteq Found'
    OBVIOUS
  <1>2. x5 \subseteq Found => x5' \subseteq Found'
    OBVIOUS
  <1> QED  BY <1>1, <1>2 DEF AttachmentsPanels, Made

----------------------------------------
(* Imports. *)

\* A picture or a file is imported for whom nothing is lost.
LEMMA ImportStep ==
  ASSUME AttachmentsSound, NEW x \in AttachmentsContents, NEW for \in {"panel", "message"}, NEW items \in SUBSET AttachmentsContents,
         items \subseteq Found, A!Import(x, for, items)
  PROVE  AttachmentsSound'
  <1>1. /\ UNCHANGED <<x1, x2, x3, x20, x4, x5, x6, x7, x11, x12, x13, x14, x9, x10,
                       x15, x16, x17, x18, x19, x23>>
        /\ x8' = [at |-> "copying", content |-> x, for |-> for, items |-> items]
    BY DEF A!Import, A!disk, A!page, A!turns, A!thread, A!copies
  <1>2. AttachmentsTyped'
    BY <1>1 DEF AttachmentsSound, AttachmentsTyped, Imports
  <1>3. Lanes' /\ A!BackupIsWhole'
    BY <1>1 DEF AttachmentsSound, Lanes, A!BackupIsWhole
  <1>4. Kept'
    BY <1>1 DEF AttachmentsSound, Kept, Found
  <1>5. AttachmentsPanels'
    BY <1>1 DEF AttachmentsSound, AttachmentsPanels, Found, Made
  <1> QED  BY <1>2, <1>3, <1>4, <1>5 DEF AttachmentsSound

LEMMA AttachStep ==
  ASSUME AttachmentsSound, A!Attach \/ A!SendWithPicture
  PROVE  AttachmentsSound'
  <1>1. {} \in SUBSET AttachmentsContents /\ x5 \in SUBSET AttachmentsContents
    BY DEF AttachmentsSound, AttachmentsTyped
  <1>2. CASE A!Attach
    BY <1>1, <1>2, ImportStep DEF A!Attach
  <1>3. CASE A!SendWithPicture
    <2>1. x5 \subseteq Found
      BY <1>3, Settled DEF A!SendWithPicture
    <2> QED  BY <1>1, <1>3, <2>1, ImportStep DEF A!SendWithPicture
  <1> QED  BY <1>2, <1>3

LEMMA LandStep ==
  ASSUME AttachmentsSound, A!Land
  PROVE  AttachmentsSound'
  <1>1. /\ UNCHANGED <<x2, x3, x4, x5, x6, x7, x11, x12, x13, x14, x9, x10,
                       x15, x16, x17, x18, x19, x23>>
        /\ x8.at = "copying" /\ A!NoImport.items = {} /\ A!NoImport.at = "none" /\ A!NoImport \in Imports
        /\ \/ /\ x8' = [x8 EXCEPT !.at = "landed"] /\ x1' = x1 \union {x8.content}
              /\ x20' = x20 \ {x8.content}
           \/ x8' = A!NoImport /\ x1' = x1 /\ x20' = x20
    BY DEF A!Land, A!Placed, A!Refused, A!page, A!turns, A!thread, A!copies, A!NoImport, Imports
  <1>2. AttachmentsTyped'
    BY <1>1 DEF AttachmentsSound, AttachmentsTyped, Imports
  <1>3. Lanes' /\ A!BackupIsWhole'
    BY <1>1 DEF AttachmentsSound, Lanes, A!BackupIsWhole
  <1>4. /\ Found \subseteq Found' /\ (x8'.at = "landed" => x8'.content \in Found')
        /\ x8'.items \subseteq x8.items
    BY <1>1 DEF Found, AttachmentsSound, AttachmentsTyped, Imports
  <1>5. Kept'
    <2>1. /\ \A m \in A!Messages : x2'[m].items \subseteq Found'
          /\ x9'.items \subseteq Found' /\ x8'.items \subseteq Found'
      BY <1>1, <1>4 DEF AttachmentsSound, Kept
    <2> QED  BY <1>1, <1>4, <2>1, KeptStep DEF AttachmentsSound
  <1>6. AttachmentsPanels'
    BY <1>1, <1>4, PanelsStep DEF AttachmentsSound
  <1> QED  BY <1>2, <1>3, <1>5, <1>6 DEF AttachmentsSound

\* The panel takes what it is for.
LEMMA TakenByPanel ==
  ASSUME AttachmentsSound, x8.at = "landed", x8' = A!NoImport, A!Added(x8.content),
         UNCHANGED <<x1, x2, x3, x20, x4, x6, x7, x11, x12, x14, x9, x10,
                     x15, x16, x17, x18, x19, x23>>
  PROVE  AttachmentsSound'
  <1>1. /\ x5' = x5 \union {x8.content}
        /\ x13' = IF x12 = "none" THEN x13 ELSE x13 \union {x8.content}
        /\ A!NoImport.items = {} /\ A!NoImport.at = "none" /\ A!NoImport \in Imports
    BY DEF A!Added, A!NoImport, Imports
  <1>2. x8.content \in AttachmentsContents /\ x8.content \in Found /\ Found' = Found
    BY DEF AttachmentsSound, AttachmentsTyped, Kept, Found
  <1>3. AttachmentsTyped'
    BY <1>1, <1>2 DEF AttachmentsSound, AttachmentsTyped
  <1>4. Lanes' /\ A!BackupIsWhole'
    BY DEF AttachmentsSound, Lanes, A!BackupIsWhole
  <1>5. Kept'
    BY <1>1, <1>2 DEF AttachmentsSound, Kept
  <1>6. AttachmentsPanels'
    <2>1. CASE x12 # "none"
      BY <1>1, <1>2, <2>1, PanelsStep DEF AttachmentsSound
    <2>2. CASE x12 = "none"
      <3>1. Elements(x16) \cap Changes = {} /\ \A a \in Elements(x17) : ~Made(a)
        BY <2>2, Settled
      <3> QED  BY <1>1, <1>2, <3>1 DEF AttachmentsSound, AttachmentsPanels, Made
    <2> QED  BY <2>1, <2>2
  <1> QED  BY <1>3, <1>4, <1>5, <1>6 DEF AttachmentsSound

\* The chat turns to another message or to none, or a message is forgotten.
LEMMA ChatStep ==
  ASSUME AttachmentsSound, x9' \in Attempts \cup {A!NoTurn}, x9'.items \subseteq Found, x23' \in Nat,
         x8' \in Imports, x8'.items \subseteq Found, x8'.at \in {"none", x8.at},
         x8'.at # "none" => x8'.content = x8.content,
         x9'.at = "saving" => x9.at = "saving", x9.at = "saving" => x9'.at = "saving",
         x9' = A!NoTurn \/ (x12 = "none" /\ x14),
         UNCHANGED <<x1, x2, x3, x20, x4, x5, x6, x7, x11, x12, x13, x14, x10,
                     x15, x16, x17, x18, x19>>
  PROVE  AttachmentsSound'
  <1>1. AttachmentsTyped'
    BY DEF AttachmentsSound, AttachmentsTyped
  <1>2. Lanes' /\ A!BackupIsWhole'
    BY DEF AttachmentsSound, Lanes, A!BackupIsWhole
  <1>3. Kept'
    BY DEF AttachmentsSound, Kept, Found
  <1>4. AttachmentsPanels'
    BY DEF AttachmentsSound, AttachmentsPanels, Found, Made
  <1> QED  BY <1>1, <1>2, <1>3, <1>4 DEF AttachmentsSound

\* What a message is sent with is found.
LEMMA BeginsWaiting ==
  ASSUME AttachmentsSound, A!MayBegin, NEW at \in {"waiting", "again"}, NEW m \in Nat, NEW items \in SUBSET AttachmentsContents,
         items \subseteq Found, A!Turn(at, m, items), x23' \in Nat, x8' \in {x8, A!NoImport},
         UNCHANGED <<x1, x2, x3, x20, x4, x5, x6, x7, x11, x12, x13, x14, x10,
                     x15, x16, x17, x18, x19>>
  PROVE  AttachmentsSound'
  <1>1. x9' = [at |-> at, msg |-> m, items |-> items] /\ x9 = A!NoTurn /\ x12 = "none" /\ x14
    BY DEF A!Turn, A!MayBegin
  <1>2. x9' \in Attempts /\ x9'.items = items /\ x9'.at # "saving" /\ x9.at # "saving"
    BY <1>1 DEF Attempts, A!NoTurn
  <1>3. /\ A!NoImport.items = {} /\ A!NoImport.at = "none" /\ A!NoImport \in Imports
        /\ x8 \in Imports /\ x8.items \subseteq Found
    BY DEF A!NoImport, Imports, AttachmentsSound, AttachmentsTyped, Kept
  <1> QED  BY <1>1, <1>2, <1>3, ChatStep

LEMMA ImportedStep ==
  ASSUME AttachmentsSound, A!Imported
  PROVE  AttachmentsSound'
  <1>1. /\ UNCHANGED <<x1, x2, x3, x20, x4, x6, x7, x11, x12, x14, x10,
                       x15, x16, x17, x18, x19>>
        /\ x8' = A!NoImport /\ x8.at = "landed"
    BY DEF A!Imported, A!disk, A!thread, A!copies
  <1>2. CASE x8.for = "panel"
    <2>1. A!Added(x8.content) /\ UNCHANGED <<x9, x23>>
      BY <1>2 DEF A!Imported
    <2> QED  BY <1>1, <2>1, TakenByPanel
  <1>3. CASE x8.for # "panel" /\ A!MayBegin /\ x23 < AttachmentsMaxSends
    <2> DEFINE items == x8.items \union {x8.content}
    <2>1. /\ A!Turn("waiting", x23 + 1, items) /\ x23' = x23 + 1
          /\ UNCHANGED <<x5, x13>>
      BY <1>3 DEF A!Imported
    <2>2. items \in SUBSET AttachmentsContents /\ items \subseteq Found /\ x23 + 1 \in Nat
      BY <1>1 DEF AttachmentsSound, AttachmentsTyped, Kept, Imports
    <2> HIDE DEF items
    <2> QED  BY <1>1, <1>3, <2>1, <2>2, BeginsWaiting
  <1>4. CASE x8.for # "panel" /\ ~(A!MayBegin /\ x23 < AttachmentsMaxSends)
    <2>1. UNCHANGED <<x5, x13, x9, x23>>
      BY <1>4 DEF A!Imported
    <2>2. /\ x9 \in Attempts \cup {A!NoTurn} /\ x9.items \subseteq Found /\ x23 \in Nat
          /\ x9 = A!NoTurn \/ (x12 = "none" /\ x14)
      BY DEF AttachmentsSound, AttachmentsTyped, Kept, Lanes
    <2>3. A!NoImport.items = {} /\ A!NoImport.at = "none" /\ A!NoImport \in Imports
      BY DEF A!NoImport, Imports
    <2> QED  BY <1>1, <2>1, <2>2, <2>3, ChatStep
  <1> QED  BY <1>2, <1>3, <1>4

LEMMA RemoveStep ==
  ASSUME AttachmentsSound, A!Remove
  PROVE  AttachmentsSound'
  <1>1. /\ UNCHANGED <<x1, x2, x3, x20, x4, x6, x7, x11, x12, x13, x14, x9, x10, x8,
                       x15, x16, x17, x18, x19, x23>>
        /\ x5' \subseteq x5
    BY DEF A!Remove, A!disk, A!turns, A!thread, A!copies, A!counts
  <1>2. AttachmentsTyped'
    BY <1>1 DEF AttachmentsSound, AttachmentsTyped
  <1>3. Lanes' /\ A!BackupIsWhole' /\ Kept'
    BY <1>1 DEF AttachmentsSound, Lanes, A!BackupIsWhole, Kept, Found
  <1>4. AttachmentsPanels'
    <2>1. Found' = Found
      BY <1>1 DEF Found
    <2> QED  BY <1>1, <2>1, PanelsStep DEF AttachmentsSound
  <1> QED  BY <1>2, <1>3, <1>4 DEF AttachmentsSound

----------------------------------------
(* Messages. *)

LEMMA AttachmentsSendStep ==
  ASSUME AttachmentsSound, A!Send
  PROVE  AttachmentsSound'
  <1>1. /\ A!MayBegin /\ A!Turn("waiting", x23 + 1, x5) /\ x23' = x23 + 1 /\ x8' = x8
        /\ UNCHANGED <<x1, x2, x3, x20, x4, x5, x6, x7, x11, x12, x13, x14, x10,
                       x15, x16, x17, x18, x19>>
    BY DEF A!Send, A!disk, A!page, A!thread, A!copies
  <1>2. x5 \subseteq Found
    BY <1>1, Settled DEF A!MayBegin
  <1>3. x5 \in SUBSET AttachmentsContents /\ x23 + 1 \in Nat /\ x23' \in Nat
    BY <1>1 DEF AttachmentsSound, AttachmentsTyped
  <1> QED  BY <1>1, <1>2, <1>3, BeginsWaiting

LEMMA RetryStep ==
  ASSUME AttachmentsSound, A!Retry
  PROVE  AttachmentsSound'
  <1>1. PICK t \in x10 : A!Turn("again", t.msg, t.items)
    BY DEF A!Retry
  <1>2. /\ A!MayBegin /\ x8' = x8 /\ x23' = x23
        /\ UNCHANGED <<x1, x2, x3, x20, x4, x5, x6, x7, x11, x12, x13, x14, x10,
                       x15, x16, x17, x18, x19>>
    BY DEF A!Retry, A!disk, A!page, A!thread, A!copies, A!counts
  <1>3. t.msg \in Nat /\ t.items \in SUBSET AttachmentsContents /\ t.items \subseteq Found /\ x23 \in Nat
    BY <1>1 DEF AttachmentsSound, AttachmentsTyped, Kept, Turns
  <1> QED  BY <1>1, <1>2, <1>3, BeginsWaiting

LEMMA DropStep ==
  ASSUME AttachmentsSound, A!Drop
  PROVE  AttachmentsSound'
  <1>1. /\ x9' = A!NoTurn /\ x9.at \in {"waiting", "again"} /\ x8' = x8 /\ x23' = x23
        /\ UNCHANGED <<x1, x2, x3, x20, x4, x5, x6, x7, x11, x12, x13, x14, x10,
                       x15, x16, x17, x18, x19>>
    BY DEF A!Drop, A!disk, A!page, A!thread, A!copies, A!counts
  <1>2. /\ x9'.items = {} /\ x9'.at = "idle" /\ x9.at # "saving" /\ x8 \in Imports
        /\ x8.items \subseteq Found /\ x23 \in Nat
    BY <1>1 DEF A!NoTurn, AttachmentsSound, AttachmentsTyped, Kept
  <1> QED  BY <1>1, <1>2, ChatStep

\* The turn of a waiting message is to be saved.
LEMMA DispatchStep ==
  ASSUME AttachmentsSound, A!Dispatch
  PROVE  AttachmentsSound'
  <1> DEFINE s == [op |-> "save", turn |-> x9', conv |-> x7]
  <1>1. /\ x9.at \in {"waiting", "again"} /\ x12 = "none" /\ x10' \subseteq x10
        /\ x9' = [at |-> "saving", msg |-> x9.msg, items |-> x9.items]
        /\ x15' = Append(x15, s) /\ A!Emptied
        /\ UNCHANGED <<x1, x2, x3, x20, x6, x7, x11, x12, x13, x14, x8, x16,
                       x17, x18, x19, x23>>
    BY DEF A!Dispatch, A!Turn, A!Save, A!disk, A!copies, A!counts
  <1>2. /\ x5' \subseteq x5 /\ x4' \in [AttachmentsConversations -> SUBSET AttachmentsContents]
        /\ \A d \in AttachmentsConversations : x4'[d] \subseteq x4[d]
    BY <1>1 DEF A!Emptied, AttachmentsSound, AttachmentsTyped
  <1>3. x9 \in Attempts /\ x9 # A!NoTurn /\ x14
    BY <1>1 DEF AttachmentsSound, AttachmentsTyped, Lanes, A!NoTurn
  <1>4. x9' \in Turns /\ x9' \in Attempts /\ x9'.items \subseteq Found /\ x9'.at = "saving"
    BY <1>1, <1>3 DEF Attempts, Turns, AttachmentsSound, Kept
  <1>5. s \in Saves /\ s \in Urgent /\ s \notin Starts /\ s.turn = x9'
    BY <1>4 DEF Saves, Urgent, Starts, AttachmentsSound, AttachmentsTyped
  <1> HIDE DEF s
  <1>6. x15 \in Seq(Urgent) /\ x17 \in Seq(Answer) /\ Found' = Found
    BY <1>1 DEF AttachmentsSound, AttachmentsTyped, Found
  <1>7. x15' \in Seq(Urgent) /\ Elements(x15') = Elements(x15) \cup {s}
    BY <1>1, <1>5, <1>6, Appending
  <1>8. ~UnderWay(x15, x17, Saves)
    BY <1>1 DEF AttachmentsSound, Lanes
  <1>9. /\ Lone(x15', x17, Starts) /\ Lone(x15', x17, Saves)
        /\ UnderWay(x15', x17, Starts) => UnderWay(x15, x17, Starts)
    BY <1>1, <1>5, <1>6, <1>8, LoneAsked DEF AttachmentsSound, Lanes
  <1>10. AttachmentsTyped'
    BY <1>1, <1>2, <1>4, <1>7 DEF AttachmentsSound, AttachmentsTyped
  <1>11. Lanes'
    BY <1>1, <1>3, <1>4, <1>9 DEF AttachmentsSound, Lanes
  <1>12. Kept'
    BY <1>1, <1>4, <1>5, <1>6, <1>7 DEF AttachmentsSound, Kept
  <1>13. AttachmentsPanels'
    BY <1>1, <1>2, <1>6, Settled DEF AttachmentsSound, AttachmentsPanels, Made
  <1> QED  BY <1>1, <1>10, <1>11, <1>12, <1>13 DEF AttachmentsSound, A!BackupIsWhole

----------------------------------------
(* Changes of the conversation. *)

LEMMA ChangeAsked ==
  ASSUME AttachmentsSound, x14, A!CanChange, NEW kind \in {"load", "delete", "create", "clear"}, A!Begin(kind),
         NEW r \in Changes, r.op = kind, x16' = Append(x16, r),
         x11' = x11 \/ x11' = A!NoQuestion,
         r \in Deletes => r.shown = x6
                          /\ \A d \in AttachmentsConversations \ {r.conv} : x4'[d] \subseteq r.spared,
         UNCHANGED <<x1, x2, x3, x20, x5, x6, x7, x14, x8, x9, x10,
                     x15, x17, x18, x19, x23>>
  PROVE  AttachmentsSound'
  <1>1. /\ x9 = A!NoTurn /\ x12 = "none" /\ x12' = kind /\ x13' = {}
        /\ x4' = [x4 EXCEPT ![x6] = x5]
    BY DEF A!CanChange, A!Begin, A!Remembered
  <1>2. r \in Normal /\ x16 \in Seq(Normal) /\ x17 \in Seq(Answer)
    BY DEF Normal, AttachmentsSound, AttachmentsTyped
  <1>3. x16' \in Seq(Normal) /\ Elements(x16') = Elements(x16) \cup {r}
    BY <1>2, Appending
  <1>4. /\ ~UnderWay(x16, x17, Changes) /\ Elements(x16) \cap Changes = {}
        /\ \A a \in Elements(x17) : ~Made(a)
        /\ x5 \subseteq Found /\ \A d \in AttachmentsConversations : x4[d] \subseteq Found
        /\ \A d \in AttachmentsConversations \ (x3 \cup {x6}) : x4[d] = {}
    BY <1>1, Settled
  <1>5. Lone(x16', x17, Changes)
    BY <1>2, <1>4, LoneAsked DEF AttachmentsSound, Lanes
  <1>6. /\ x4' \in [AttachmentsConversations -> SUBSET AttachmentsContents] /\ x4'[x6] = x5
        /\ \A d \in AttachmentsConversations : x4'[d] = x4[d] \/ d = x6
    BY <1>1 DEF AttachmentsSound, AttachmentsTyped
  <1>7. AttachmentsTyped'
    <2>1. A!NoQuestion \in [kind : {"none", "clear"}, conv : {Nil}]
      BY DEF A!NoQuestion
    <2> QED  BY <1>3, <1>6, <2>1 DEF AttachmentsSound, AttachmentsTyped
  <1>8. Lanes'
    <2>1. \A a \in Elements(x17) : a.req \notin Changes
      BY <1>1, Settled
    <2>2. \A q \in Elements(x16') : q \in Changes => q.op = x12'
      BY <1>1, <1>3, <1>4
    <2> QED  BY <1>1, <1>5, <2>1, <2>2 DEF AttachmentsSound, Lanes
  <1>9. Found' = Found
    BY DEF Found
  <1>10. Kept'
    BY <1>9 DEF AttachmentsSound, Kept
  <1>11. AttachmentsPanels'
    <2>1. \A q \in Elements(x16') : q \in Deletes => q = r
      BY <1>3, <1>4 DEF Changes
    <2>2. \A d \in AttachmentsConversations : x4'[d] \subseteq Found
      BY <1>4, <1>6
    <2>3. \A d \in AttachmentsConversations \ (x3 \cup {x6}) : x4'[d] = {}
      BY <1>4, <1>6
    <2>4. \A a \in Elements(x17') : ~Made(a)'
      BY <1>4 DEF Made
    <2> QED  BY <1>4, <1>6, <1>9, <2>1, <2>2, <2>3, <2>4 DEF AttachmentsPanels
  <1>12. A!BackupIsWhole'
    BY DEF AttachmentsSound, A!BackupIsWhole
  <1> QED  BY <1>7, <1>8, <1>10, <1>11, <1>12 DEF AttachmentsSound

LEMMA SwitchStep ==
  ASSUME AttachmentsSound, A!Switch
  PROVE  AttachmentsSound'
  <1>1. PICK c \in x3 \ {x7} : x16' = Append(x16, [op |-> "load", conv |-> c])
    BY DEF A!Switch
  <1> DEFINE r == [op |-> "load", conv |-> c]
  <1>2. r \in Changes /\ r \notin Deletes /\ r.op = "load"
    BY DEF Changes, Loads, Deletes, AttachmentsSound, AttachmentsTyped
  <1>3. /\ x14 /\ A!CanChange /\ A!Begin("load") /\ x11' = x11
        /\ UNCHANGED <<x1, x2, x3, x20, x5, x6, x7, x14, x8, x9, x10,
                       x15, x17, x18, x19, x23>>
    BY DEF A!Switch, A!Idle, A!disk, A!turns, A!copies
  <1> HIDE DEF r
  <1> QED  BY <1>1, <1>2, <1>3, ChangeAsked DEF r

LEMMA NewStep ==
  ASSUME AttachmentsSound, A!New
  PROVE  AttachmentsSound'
  <1> DEFINE r == [op |-> "create"]
  <1>1. r \in Changes /\ r \notin Deletes /\ r.op = "create"
    BY DEF Changes, Others, Deletes
  <1>2. /\ x14 /\ A!CanChange /\ A!Begin("create") /\ x11' = x11 /\ x16' = Append(x16, r)
        /\ UNCHANGED <<x1, x2, x3, x20, x5, x6, x7, x14, x8, x9, x10,
                       x15, x17, x18, x19, x23>>
    BY DEF A!New, A!Idle, A!disk, A!turns, A!copies
  <1> HIDE DEF r
  <1> QED  BY <1>1, <1>2, ChangeAsked

\* A question is asked, or answered with no: nothing but the question changes.
LEMMA QuestionStep ==
  ASSUME AttachmentsSound, A!AskDelete \/ A!No
  PROVE  AttachmentsSound'
  <1>1. UNCHANGED <<x1, x2, x3, x20, x4, x5, x6, x7, x12, x13, x14, x8, x9,
                    x10, x15, x16, x17, x18, x19, x23>>
    BY DEF A!AskDelete, A!No, A!disk, A!turns, A!thread, A!copies, A!counts
  <1>2. x11' \in [kind : {"delete"}, conv : AttachmentsConversations] \cup [kind : {"none", "clear"}, conv : {Nil}]
    <2>1. x3 \subseteq AttachmentsConversations
      BY DEF AttachmentsSound, AttachmentsTyped
    <2> QED  BY <2>1 DEF A!AskDelete, A!No, A!NoQuestion
  <1>3. ~x14 => x11'.kind = "none"
    BY DEF A!AskDelete, A!No, A!NoQuestion, A!Idle
  <1>4. AttachmentsTyped'
    BY <1>1, <1>2 DEF AttachmentsSound, AttachmentsTyped
  <1>5. Lanes' /\ A!BackupIsWhole'
    BY <1>1, <1>3 DEF AttachmentsSound, Lanes, A!BackupIsWhole
  <1>6. Kept' /\ AttachmentsPanels'
    BY <1>1 DEF AttachmentsSound, Kept, AttachmentsPanels, Found, Made
  <1> QED  BY <1>4, <1>5, <1>6 DEF AttachmentsSound

\* The user agrees while nothing else is at work.
LEMMA YesStep ==
  ASSUME AttachmentsSound, A!Yes, ~x21'
  PROVE  AttachmentsSound'
  <1> DEFINE r == IF x11.kind = "delete" THEN A!Delete ELSE A!Clear
  <1>1. /\ A!CanChange /\ A!Begin(x11.kind) /\ x11' = A!NoQuestion /\ x11.kind # "none"
        /\ x16' = Append(x16, r)
        /\ UNCHANGED <<x1, x2, x3, x20, x5, x6, x7, x14, x8, x9, x10,
                       x15, x17, x18, x19, x23>>
    BY DEF A!Yes, A!disk, A!turns, A!copies, A!counts
  <1>2. x14 /\ x11.kind \in {"delete", "clear"}
    BY <1>1 DEF AttachmentsSound, AttachmentsTyped, Lanes
  <1>3. x4' = A!Remembered /\ A!Remembered \in [AttachmentsConversations -> SUBSET AttachmentsContents]
    BY <1>1 DEF A!CanChange, A!Begin, A!Remembered, AttachmentsSound, AttachmentsTyped
  <1>4. CASE x11.kind = "clear"
    <2>1. r \in Changes /\ r \notin Deletes /\ r.op = "clear"
      BY <1>4 DEF A!Clear, Changes, Others, Deletes
    <2> HIDE DEF r
    <2> QED  BY <1>1, <1>2, <1>4, <2>1, ChangeAsked
  <1>5. CASE x11.kind = "delete"
    <2> DEFINE c == x11.conv
    <2>1. c \in AttachmentsConversations
      BY <1>5 DEF AttachmentsSound, AttachmentsTyped
    <2>2. A!Protected(c) \subseteq AttachmentsContents /\ \A d \in AttachmentsConversations \ {c} : x4'[d] \subseteq A!Protected(c)
      BY <1>3 DEF A!Protected
    <2>3. r = [op |-> "delete", conv |-> c, spared |-> A!Protected(c), shown |-> x7]
      BY <1>5 DEF A!Delete
    <2> HIDE DEF r, c
    <2>4. x7 = x6 /\ x7 \in AttachmentsConversations
      BY DEF AttachmentsSound, AttachmentsTyped
    <2>5. r \in Changes /\ r.op = "delete" /\ r.shown = x6 /\ r.conv = c /\ r.spared = A!Protected(c)
      BY <2>1, <2>2, <2>3, <2>4 DEF Changes, Deletes
    <2>6. \A d \in AttachmentsConversations \ {r.conv} : x4'[d] \subseteq r.spared
      BY <2>2, <2>5
    <2> QED  BY <1>1, <1>2, <1>5, <2>5, <2>6, ChangeAsked
  <1> QED  BY <1>2, <1>4, <1>5

LEMMA AskBackupStep ==
  ASSUME AttachmentsSound, A!AskBackup
  PROVE  AttachmentsSound'
  <1> DEFINE r == [op |-> "backup"]
  <1>1. r \in Normal /\ r \notin Changes
    BY DEF Normal, Backups, Changes, Loads, Deletes, Others
  <1>2. /\ x12 = "none" /\ x16' = Append(x16, r) /\ A!MayBegin
        /\ UNCHANGED <<x1, x2, x3, x20, x4, x5, x6, x7, x11, x12, x13, x14, x8,
                       x9, x10, x15, x17, x18, x19, x23>>
    BY DEF A!AskBackup, A!MayBegin, A!disk, A!page, A!turns, A!copies
  <1> HIDE DEF r
  <1>3. x16 \in Seq(Normal) /\ x17 \in Seq(Answer)
    BY DEF AttachmentsSound, AttachmentsTyped
  <1>4. x16' \in Seq(Normal) /\ Elements(x16') = Elements(x16) \cup {r}
    BY <1>1, <1>2, <1>3, Appending
  <1>5. /\ Lone(x16', x17, Changes)
        /\ UnderWay(x16', x17, Changes) => UnderWay(x16, x17, Changes)
    BY <1>1, <1>2, <1>3, LoneAsked DEF AttachmentsSound, Lanes
  <1>6. AttachmentsTyped'
    BY <1>2, <1>4 DEF AttachmentsSound, AttachmentsTyped
  <1>7. Lanes'
    BY <1>1, <1>2, <1>4, <1>5 DEF AttachmentsSound, Lanes
  <1>8. Kept' /\ A!BackupIsWhole'
    BY <1>2 DEF AttachmentsSound, Kept, A!BackupIsWhole, Found
  <1>9. AttachmentsPanels'
    <2>1. Elements(x16') \cap Changes = {} /\ Deletes \subseteq Changes
      BY <1>1, <1>2, <1>4, Settled DEF Changes
    <2> QED  BY <1>2, <2>1, Settled DEF AttachmentsPanels, Made, Found
  <1> QED  BY <1>6, <1>7, <1>8, <1>9 DEF AttachmentsSound

----------------------------------------
(* The data thread. *)

\* What is named when the objects are cleaned stays found.
LEMMA CleanedKeeps ==
  ASSUME NEW rs, NEW spared, A!Cleaned(rs, spared)
  PROVE  /\ \A x \in Found : x \in A!Referenced(rs) => x \in Found'
         /\ \A x \in Found : x \in spared => x \in Found'
         /\ x8.content \in Found => x8.content \in Found'
         /\ \A x \in Found : x \in x8.items => x \in Found'
         /\ \A t \in x10 : \A x \in Found : x \in t.items => x \in Found'
         /\ \A x \in Found : x \in x13 => x \in Found'
         /\ ~x14 => \A x \in Found : x \in x5 => x \in Found'
  <1> DEFINE U == UNION {t.items : t \in x10}
             L == IF x14 THEN {} ELSE x5
             K == {x8.content} \union x8.items \union U \union x13 \union L
  <1>1. x1' = x1 \cap (A!Referenced(rs) \union spared) /\ x20' = x20 \union ((x1 \ x1') \cap K)
    BY DEF A!Cleaned
  <1>2. /\ x8.content \in K /\ (\A x \in x13 : x \in K) /\ (\A x \in x8.items : x \in K)
        /\ \A t \in x10 : \A x \in t.items : x \in K
        /\ ~x14 => \A x \in x5 : x \in K
    <2>1. \A t \in x10 : t.items \subseteq U
      OBVIOUS
    <2>2. ~x14 => L = x5
      OBVIOUS
    <2> HIDE DEF U, L
    <2> QED  BY <2>1, <2>2
  <1> HIDE DEF K
  <1>3. \A x \in Found : x \in A!Referenced(rs) \/ x \in spared \/ x \in K => x \in Found'
    BY <1>1 DEF Found
  <1> QED  BY <1>2, <1>3

\* An urgent request is answered; none of them is a change.
LEMMA UrgentTaken ==
  ASSUME AttachmentsSound, x15 # <<>>, x15' = Tail(x15), x16' = x16,
         NEW a \in Answer, a.req = Head(x15), x17' = Append(x17, a),
         UNCHANGED <<x4, x5, x6, x7, x11, x12, x13, x14, x8, x9, x10, x3, x23,
                     x19, x18>>,
         x2' \in [A!Messages -> Rows],
         \A m \in A!Messages : x2'[m].items \subseteq Found',
         \A t \in x10 : t.items \subseteq Found', x8.items \subseteq Found',
         x8.content \in Found => x8.content \in Found',
         Found' = Found \/ (~x14 /\ x5 \cap Found \subseteq Found')
  PROVE  AttachmentsSound'
  <1> DEFINE r == Head(x15)
  <1>1. x15 \in Seq(Urgent) /\ x16 \in Seq(Normal) /\ x17 \in Seq(Answer)
    BY DEF AttachmentsSound, AttachmentsTyped
  <1>2. /\ r \in Urgent /\ r \in Elements(x15) /\ Tail(x15) \in Seq(Urgent)
        /\ Elements(Tail(x15)) \subseteq Elements(x15)
    BY <1>1, Taking
  <1>3. x17' \in Seq(Answer) /\ Elements(x17') = Elements(x17) \cup {a}
    BY <1>1, Appending
  <1>4. r \notin Changes /\ (r \in Starts \/ r \in Saves)
    BY <1>2, Kinds DEF Urgent
  <1>5. /\ Lone(x15', x17', Starts) /\ Lone(x15', x17', Saves)
        /\ UnderWay(x15', x17', Starts) => UnderWay(x15, x17, Starts)
        /\ UnderWay(x15', x17', Saves) => UnderWay(x15, x17, Saves)
    BY <1>1, LoneAnswered DEF AttachmentsSound, Lanes
  <1>6. /\ Lone(x16, x17', Changes)
        /\ UnderWay(x16, x17', Changes) => UnderWay(x16, x17, Changes)
    BY <1>1, <1>4, LoneOther DEF AttachmentsSound, Lanes
  <1>7. AttachmentsTyped'
    BY <1>2, <1>3 DEF AttachmentsSound, AttachmentsTyped
  <1>8. Lanes'
    BY <1>3, <1>4, <1>5, <1>6 DEF AttachmentsSound, Lanes
  <1>9. ~Made(a)
    BY <1>4 DEF Made
  <1>10. ~x14 => \A q \in Elements(x15) \cup {b.req : b \in Elements(x17)} : q \notin Saves
    <2>1. ~x14 => ~UnderWay(x15, x17, Saves)
      BY DEF AttachmentsSound, Lanes, A!NoTurn
    <2>2. Elements(x17) \subseteq Answer
      BY <1>1, NotEmpty
    <2> QED  BY <2>1, <2>2 DEF UnderWay, AnswersTo
  <1>11. r \in Saves => r.turn.items \subseteq Found
    BY <1>2 DEF AttachmentsSound, Kept
  <1>12. Kept'
    <2>1. \A q \in Elements(x15') : q \in Saves => q.turn.items \subseteq Found'
      BY <1>2, <1>10 DEF AttachmentsSound, Kept
    <2>2. \A b \in Elements(x17') : b.req \in Saves => b.req.turn.items \subseteq Found'
      BY <1>2, <1>3, <1>10, <1>11 DEF AttachmentsSound, Kept
    <2>3. x8'.at = "landed" => x8'.content \in Found'
      BY DEF AttachmentsSound, Kept
    <2>4. x9'.items \subseteq Found'
      <3>1. CASE Found' = Found
        BY <3>1 DEF AttachmentsSound, Kept
      <3>2. CASE ~x14
        BY <3>2 DEF AttachmentsSound, Lanes, A!NoTurn
      <3> QED  BY <3>1, <3>2
    <2> QED  BY <2>1, <2>2, <2>3, <2>4 DEF Kept
  <1>13. AttachmentsPanels'
    <2>1. CASE Found' = Found
      BY <1>3, <1>9, <2>1 DEF AttachmentsSound, AttachmentsPanels, Made
    <2>2. CASE ~x14 /\ x5 \cap Found \subseteq Found'
      <3>1. x12 = "none" /\ \A d \in AttachmentsConversations : x4[d] = {}
        BY <2>2 DEF AttachmentsSound, Lanes
      <3>2. /\ x5 \subseteq Found /\ Elements(x16) \cap Changes = {}
            /\ \A b \in Elements(x17) : ~Made(b)
        BY <3>1, Settled
      <3>3. Deletes \subseteq Changes
        BY DEF Changes
      <3> QED  BY <1>3, <1>9, <2>2, <3>1, <3>2, <3>3 DEF AttachmentsPanels, Made
    <2> QED  BY <2>1, <2>2
  <1> QED  BY <1>7, <1>8, <1>12, <1>13 DEF AttachmentsSound, A!BackupIsWhole

\* While a change waits for the data thread, no turn is being saved, and whatever the panel
\* shows is in the draft that was remembered or came later.
LEMMA ChangeRuns ==
  ASSUME AttachmentsSound, x16 # <<>>, Head(x16) \in Changes
  PROVE  /\ x12 # "none" /\ x9 = A!NoTurn /\ x14
         /\ ~UnderWay(x15, x17, Saves)
         /\ \A q \in Elements(x15) : q \notin Saves
         /\ \A a \in Elements(x17) : a.req \notin Saves /\ a.req \notin Changes
         /\ x5 \subseteq Found /\ x5 \subseteq x4[x6] \cup x13
         /\ \A d \in AttachmentsConversations : x4[d] \subseteq Found
         /\ \A d \in AttachmentsConversations \ (x3 \cup {x6}) : x4[d] = {}
         /\ Elements(Tail(x16)) \cap Changes = {}
         /\ Head(x16) \in Deletes =>
              /\ Head(x16).shown = x6
              /\ \A d \in AttachmentsConversations \ {Head(x16).conv} : x4[d] \subseteq Head(x16).spared
  <1>1. x16 \in Seq(Normal) /\ x17 \in Seq(Answer)
    BY DEF AttachmentsSound, AttachmentsTyped
  <1>2. Head(x16) \in Elements(x16)
    BY <1>1, Taking
  <1>3. UnderWay(x16, x17, Changes) /\ Elements(x17) \cap AnswersTo(Changes) = {}
    BY <1>2 DEF UnderWay, AttachmentsSound, Lanes, Lone
  <1>4. x12 # "none" /\ x9 = A!NoTurn /\ x14 /\ ~UnderWay(x15, x17, Saves)
    BY <1>3 DEF AttachmentsSound, Lanes, A!NoTurn
  <1>5. Elements(x17) \subseteq Answer
    BY <1>1, NotEmpty
  <1>6. \A a \in Elements(x17) : a.req \notin Saves /\ a.req \notin Changes
    BY <1>3, <1>4, <1>5 DEF UnderWay, AnswersTo
  <1>7. \A q \in Elements(x15) : q \notin Saves
    BY <1>4 DEF UnderWay
  <1>8. \A a \in Elements(x17) : ~Made(a)
    BY <1>6 DEF Made
  <1>9. Elements(Tail(x16)) \cap Changes = {}
    BY <1>1, SingleTail DEF AttachmentsSound, Lanes, Lone
  <1> QED  BY <1>2, <1>4, <1>6, <1>7, <1>8, <1>9 DEF AttachmentsSound, AttachmentsPanels

\* A change is made or fails, and is answered.
LEMMA ChangeMade ==
  ASSUME AttachmentsSound, x15' = x15, x16 # <<>>, x16' = Tail(x16), Head(x16) \in Changes,
         NEW a \in Answer, a.req = Head(x16), x17' = Append(x17, a),
         UNCHANGED <<x4, x5, x6, x7, x11, x12, x13, x14, x8, x9, x10, x23,
                     x19, x18>>,
         x2' \in [A!Messages -> Rows], x3' \subseteq AttachmentsConversations, x3' # {},
         \A m \in A!Messages : x2'[m].items \subseteq Found',
         \A t \in x10 : t.items \subseteq Found', x8.items \subseteq Found',
         x8.content \in Found => x8.content \in Found',
         a.ok => /\ a.conv \in AttachmentsConversations
                 /\ a.conv = x6 => x5 \subseteq Found'
                 /\ \A d \in x3' : x4[d] \subseteq Found',
         ~a.ok => Found' = Found /\ x3' = x3
  PROVE  AttachmentsSound'
  <1> DEFINE r == Head(x16)
  <1>1. x15 \in Seq(Urgent) /\ x16 \in Seq(Normal) /\ x17 \in Seq(Answer)
    BY DEF AttachmentsSound, AttachmentsTyped
  <1>2. /\ Tail(x16) \in Seq(Normal) /\ Elements(Tail(x16)) \subseteq Elements(x16)
        /\ r \in Normal
    BY <1>1, Taking
  <1>3. x17' \in Seq(Answer) /\ Elements(x17') = Elements(x17) \cup {a}
    BY <1>1, Appending
  <1>4. r \notin Starts /\ r \notin Saves
    BY <1>2, Kinds
  <1>5. /\ Lone(x16', x17', Changes)
        /\ UnderWay(x16', x17', Changes) => UnderWay(x16, x17, Changes)
    BY <1>1, LoneAnswered DEF AttachmentsSound, Lanes
  <1>6. /\ Lone(x15, x17', Starts) /\ Lone(x15, x17', Saves)
        /\ UnderWay(x15, x17', Starts) => UnderWay(x15, x17, Starts)
        /\ UnderWay(x15, x17', Saves) => UnderWay(x15, x17, Saves)
    BY <1>1, <1>4, LoneOther DEF AttachmentsSound, Lanes
  <1>7. AttachmentsTyped'
    BY <1>2, <1>3 DEF AttachmentsSound, AttachmentsTyped
  <1>8. Lanes'
    <2>1. Elements(x16') \subseteq Elements(x16) /\ a.req \in Elements(x16)
      BY <1>1, <1>2, Taking
    <2> QED  BY <1>3, <1>5, <1>6, <2>1 DEF AttachmentsSound, Lanes
  <1>9. Kept'
    <2>1. \A q \in Elements(x15') : q \in Saves => q.turn.items \subseteq Found'
      BY ChangeRuns
    <2>2. \A b \in Elements(x17') : b.req \in Saves => b.req.turn.items \subseteq Found'
      BY <1>3, <1>4, ChangeRuns
    <2>3. x8'.at = "landed" => x8'.content \in Found'
      BY DEF AttachmentsSound, Kept
    <2>4. x9'.items = {}
      BY ChangeRuns DEF A!NoTurn
    <2> QED  BY <2>1, <2>2, <2>3, <2>4 DEF Kept
  <1>10. AttachmentsPanels'
    <2>1. Elements(x16') \cap Changes = {} /\ Deletes \subseteq Changes
      BY ChangeRuns DEF Changes
    <2>2. \A b \in Elements(x17') : Made(b) => b = a
      BY <1>3, ChangeRuns DEF Made
    <2>3. a \in Elements(x17') /\ (Made(a) <=> a.ok)
      BY <1>3 DEF Made
    <2>4. CASE a.ok
      BY <2>1, <2>2, <2>3, <2>4 DEF AttachmentsPanels, Made
    <2>5. CASE ~a.ok
      BY <2>1, <2>2, <2>3, <2>5, ChangeRuns DEF AttachmentsPanels, Made
    <2> QED  BY <2>4, <2>5
  <1> QED  BY <1>7, <1>8, <1>9, <1>10 DEF AttachmentsSound, A!BackupIsWhole

\* The request is the first urgent one, or the first of the others when none is urgent.
LEMMA Served ==
  ASSUME AttachmentsSound, x15 \o x16 # <<>>, A!Taken
  PROVE  \/ /\ x15 # <<>> /\ Head(x15 \o x16) = Head(x15)
            /\ x15' = Tail(x15) /\ x16' = x16 /\ Head(x15) \in Urgent
         \/ /\ x15' = x15 /\ x16 # <<>> /\ Head(x15 \o x16) = Head(x16)
            /\ x16' = Tail(x16) /\ Head(x16) \in Normal
  <1>1. x15 \in Seq(Urgent) /\ x16 \in Seq(Normal)
    BY DEF AttachmentsSound, AttachmentsTyped
  <1>2. CASE x15 # <<>>
    <2>1. Head(x15) \in Urgent
      BY <1>1, <1>2, Taking
    <2>2. Head(x15 \o x16) = Head(x15)
      <3>1. x15 \in Seq(Urgent \cup Normal) /\ x16 \in Seq(Urgent \cup Normal)
        BY <1>1
      <3>2. Len(x15) \in Nat \ {0} /\ Len(x16) \in Nat
        BY <1>1, <1>2
      <3>3. (x15 \o x16)[1] = x15[1]
        BY <3>1, <3>2
      <3> QED  BY <3>1, <3>2, <3>3, <1>2
    <2> QED  BY <1>2, <2>1, <2>2 DEF A!Taken
  <1>3. CASE x15 = <<>>
    <2>1. x15 \o x16 = x16
      BY <1>1, <1>3
    <2>2. Head(x16) \in Normal
      BY <1>1, <2>1, Taking
    <2> QED  BY <1>3, <2>1, <2>2 DEF A!Taken
  <1> QED  BY <1>2, <1>3

LEMMA RowsKept ==
  ASSUME AttachmentsSound, NEW rs \in [A!Messages -> Rows], NEW spared, A!Cleaned(rs, spared),
         \A m \in A!Messages : rs[m] = x2[m] \/ rs[m] = A!NoRow
  PROVE  /\ \A m \in A!Messages : rs[m].items \subseteq Found'
         /\ \A t \in x10 : t.items \subseteq Found'
  <1>1. \A t \in x10 : t.items \subseteq Found'
    BY CleanedKeeps DEF AttachmentsSound, Kept
  <1>2. \A m \in A!Messages : rs[m].conv # Nil => rs[m].items \subseteq A!Referenced(rs)
    BY DEF A!Referenced
  <1>3. \A m \in A!Messages : rs[m].items = {} \/ rs[m].conv # Nil
    BY ComponentsAssumption DEF Rows, A!NoRow
  <1>4. \A m \in A!Messages : rs[m].items \subseteq Found
    BY DEF A!NoRow, AttachmentsSound, Kept
  <1>5. \A m \in A!Messages : rs[m].items \subseteq Found'
    BY <1>2, <1>3, <1>4, CleanedKeeps
  <1> QED  BY <1>1, <1>5

LEMMA WorkUrgentStep ==
  ASSUME AttachmentsSound, A!Work, x15 # <<>>, Head(x15 \o x16) = Head(x15),
         x15' = Tail(x15), x16' = x16, Head(x15) \in Urgent
  PROVE  AttachmentsSound'
  <1> DEFINE r == Head(x15)
  <1>1. UNCHANGED <<x4, x5, x6, x7, x11, x12, x13, x14, x8, x9, x10, x23>>
    BY DEF A!Work, A!page, A!turns
  <1>2. \A q : (q.op = "start" \/ q.op = "save") => q.op \notin {"load", "create", "delete", "clear"}
    OBVIOUS
  <1>3. (r \in Starts /\ r.op = "start") \/ (r \in Saves /\ r.op = "save")
    <2>1. r \in Starts \/ r \in Saves
      BY DEF Urgent
    <2>2. r \in Urgent
      OBVIOUS
    <2> HIDE DEF r
    <2>3. (r \in Starts <=> r.op = "start") /\ (r \in Saves <=> r.op = "save")
      BY <2>2, Kinds
    <2> QED  BY <2>1, <2>3
  <1>4. r \in Elements(x15)
    BY Taking DEF AttachmentsSound, AttachmentsTyped
  <1>5. A!DoStart(r) \/ A!DoSave(r) \/ A!DoFail
    BY <1>3 DEF A!Work, A!DoLoad, A!DoCreate, A!DoDelete, A!DoClear
  <1>6. x2 \in [A!Messages -> Rows] /\ x7 \in AttachmentsConversations /\ x8.items \subseteq Found
    BY DEF AttachmentsSound, AttachmentsTyped, Kept
  <1>7. CASE A!DoStart(r)
    <2>1. /\ r.op = "start" /\ A!Cleaned(x2, {}) /\ UNCHANGED <<x2, x3, x18, x19>>
          /\ x17' = Append(x17, [ok |-> TRUE, req |-> r, conv |-> x7])
      BY <1>7 DEF A!DoStart, A!Reply
    <2> DEFINE a == [ok |-> TRUE, req |-> r, conv |-> x7]
    <2>2. a \in Answer /\ a.req = r
      BY <1>6 DEF Answer
    <2>3. ~x14
      BY <1>3, <1>4, <2>1 DEF AttachmentsSound, Lanes, UnderWay, Saves
    <2>4. /\ \A m \in A!Messages : x2[m].items \subseteq Found'
          /\ \A t \in x10 : t.items \subseteq Found'
      BY <1>6, <2>1, RowsKept
    <2>5. /\ x8.content \in Found => x8.content \in Found'
          /\ x5 \cap Found \subseteq Found' /\ x8.items \subseteq Found'
      BY <1>6, <2>1, <2>3, CleanedKeeps
    <2> HIDE DEF a
    <2> QED  BY <1>1, <1>6, <2>1, <2>2, <2>3, <2>4, <2>5, UrgentTaken DEF a
  <1>8. CASE A!DoSave(r)
    <2> DEFINE a == [ok |-> r.conv \in x3, req |-> r, conv |-> Nil]
    <2>1. /\ r.op = "save" /\ UNCHANGED <<x1, x20, x3, x18, x19>>
          /\ \/ x2' = [x2 EXCEPT ![r.turn.msg] = [conv |-> r.conv, items |-> r.turn.items]]
             \/ x2' = x2
          /\ x17' = Append(x17, a)
      BY <1>8 DEF A!DoSave, A!Reply, A!Named
    <2>2. a \in Answer /\ a.req = r /\ Found' = Found
      BY <2>1 DEF Answer, Found
    <2>3. r \in Saves
      BY <1>3, <2>1
    <2>4. r.turn.items \subseteq Found /\ r.turn.items \subseteq AttachmentsContents /\ r.conv \in AttachmentsConversations
      BY <1>4, <2>3 DEF AttachmentsSound, Kept, Saves, Turns
    <2> DEFINE w == [conv |-> r.conv, items |-> r.turn.items]
    <2>5. w \in Rows /\ w.items = r.turn.items
      BY <2>4 DEF Rows
    <2> HIDE DEF a, w
    <2>6. \A m \in A!Messages : x2'[m] = x2[m] \/ x2'[m] = w
      BY <1>6, <2>1 DEF w
    <2>7. x2' \in [A!Messages -> Rows]
      BY <1>6, <2>1, <2>5 DEF w
    <2>8. \A m \in A!Messages : x2'[m].items \subseteq Found'
      BY <2>2, <2>4, <2>5, <2>6 DEF AttachmentsSound, Kept
    <2>9. (\A t \in x10 : t.items \subseteq Found') /\ x8.items \subseteq Found'
      BY <1>6, <2>2 DEF AttachmentsSound, Kept
    <2> QED  BY <1>1, <2>1, <2>2, <2>7, <2>8, <2>9, UrgentTaken
  <1>9. CASE A!DoFail
    <2> DEFINE a == [ok |-> FALSE, req |-> r, conv |-> Nil]
    <2>1. /\ UNCHANGED <<x1, x2, x20, x3, x18, x19>>
          /\ x17' = Append(x17, a)
      BY <1>9 DEF A!DoFail, A!Reply, A!disk, A!copies
    <2>2. a \in Answer /\ a.req = r /\ Found' = Found
      BY <2>1 DEF Answer, Found
    <2> HIDE DEF a
    <2>3. /\ \A m \in A!Messages : x2'[m].items \subseteq Found'
          /\ \A t \in x10 : t.items \subseteq Found'
      BY <2>1, <2>2 DEF AttachmentsSound, Kept
    <2> QED  BY <1>1, <1>6, <2>1, <2>2, <2>3, UrgentTaken
  <1> QED  BY <1>5, <1>7, <1>8, <1>9

LEMMA WorkChangeStep ==
  ASSUME AttachmentsSound, A!Work, x15' = x15, x16 # <<>>, Head(x15 \o x16) = Head(x16),
         x16' = Tail(x16), Head(x16) \in Normal
  PROVE  AttachmentsSound'
  <1> DEFINE r == Head(x16)
  <1>1. UNCHANGED <<x4, x5, x6, x7, x11, x12, x13, x14, x8, x9, x10, x23>>
    BY DEF A!Work, A!page, A!turns
  <1>2. /\ r \in Deletes <=> r.op = "delete"
        /\ r \in Loads <=> r.op = "load"
        /\ r \in Changes <=> r.op \in {"load", "delete", "create", "clear"}
    BY Kinds
  <1>3. r.op # "start" /\ r.op # "save"
    BY DEF Normal, Changes, Loads, Deletes, Others, Backups
  <1>4. A!DoLoad(r) \/ A!DoCreate(r) \/ A!DoDelete(r) \/ A!DoClear(r) \/ A!DoFail
    BY <1>3 DEF A!Work, A!DoStart, A!DoSave
  <1>5. r \in Changes
    BY <1>2, <1>3, <1>4 DEF A!DoLoad, A!DoCreate, A!DoDelete, A!DoClear, A!DoFail
  <1>6. /\ x2 \in [A!Messages -> Rows] /\ x6 \in AttachmentsConversations /\ x3 \subseteq AttachmentsConversations
        /\ x3 # {} /\ x7 = x6 /\ x8.items \subseteq Found
    BY DEF AttachmentsSound, AttachmentsTyped, Kept
  <1>7. /\ x14 /\ x5 \subseteq Found /\ x5 \subseteq x4[x6] \cup x13
        /\ \A d \in AttachmentsConversations : x4[d] \subseteq Found
        /\ \A d \in AttachmentsConversations \ (x3 \cup {x6}) : x4[d] = {}
        /\ r \in Deletes => /\ r.shown = x6
                            /\ \A d \in AttachmentsConversations \ {r.conv} : x4[d] \subseteq r.spared
    BY <1>5, ChangeRuns
  <1>8. A!NoRow \in Rows /\ A!NoRow.items = {}
    BY DEF A!NoRow, Rows
  <1>9. CASE A!DoLoad(r) \/ A!DoCreate(r) \/ A!DoFail
    <2>7. Found' = Found /\ UNCHANGED <<x2, x18, x19>>
      BY <1>9 DEF A!DoLoad, A!DoCreate, A!DoFail, A!disk, A!copies, Found
    <2>1. /\ \A m \in A!Messages : x2'[m].items \subseteq Found'
          /\ \A t \in x10 : t.items \subseteq Found'
          /\ x8.items \subseteq Found'
      BY <1>6, <2>7 DEF AttachmentsSound, Kept
    <2>2. ASSUME NEW a \in Answer, a.req = r, x17' = Append(x17, a),
                 x3' \subseteq AttachmentsConversations, x3' # {}, a.ok => a.conv \in AttachmentsConversations,
                 ~a.ok => x3' = x3
          PROVE  AttachmentsSound'
      <3>1. a.ok => /\ a.conv = x6 => x5 \subseteq Found'
                    /\ \A d \in x3' : x4[d] \subseteq Found'
        BY <1>7, <2>7, <2>2
      <3> QED  BY <1>1, <1>5, <1>6, <2>7, <2>1, <2>2, <3>1, ChangeMade
    <2>3. CASE A!DoLoad(r)
      <3> DEFINE a == [ok |-> r.conv \in x3, req |-> r, conv |-> r.conv]
      <3>1. r.op = "load" /\ x17' = Append(x17, a) /\ x3' = x3
        BY <2>3 DEF A!DoLoad, A!Reply, A!disk
      <3>2. r.conv \in AttachmentsConversations
        BY <1>2, <3>1 DEF Loads
      <3>3. a \in Answer /\ a.req = r /\ a.conv = r.conv
        BY <1>5, <3>2 DEF Answer
      <3> HIDE DEF a
      <3> QED  BY <1>6, <2>2, <3>1, <3>2, <3>3
    <2>4. CASE A!DoCreate(r)
      <3>1. PICK c \in A!Fresh : x3' = x3 \union {c}
                               /\ x17' = Append(x17, [ok |-> TRUE, req |-> r, conv |-> c])
        BY <2>4 DEF A!DoCreate, A!Reply
      <3> DEFINE a == [ok |-> TRUE, req |-> r, conv |-> c]
      <3>2. c \in AttachmentsConversations /\ a \in Answer /\ a.req = r /\ a.conv = c /\ a.ok
        BY <1>5, <3>1 DEF Answer, A!Fresh
      <3> HIDE DEF a
      <3> QED  BY <1>6, <2>2, <3>1, <3>2 DEF a
    <2>5. CASE A!DoFail
      <3> DEFINE a == [ok |-> FALSE, req |-> r, conv |-> Nil]
      <3>1. x17' = Append(x17, a) /\ x3' = x3
        BY <2>5 DEF A!DoFail, A!Reply, A!disk
      <3>2. a \in Answer /\ a.req = r /\ ~a.ok
        BY <1>5 DEF Answer
      <3> HIDE DEF a
      <3> QED  BY <1>6, <2>2, <3>1, <3>2
    <2> QED  BY <1>9, <2>3, <2>4, <2>5
  <1>10. CASE A!DoDelete(r)
    <2> DEFINE left  == x3 \ {r.conv}
               shown == IF r.shown # r.conv THEN {r.shown} ELSE IF left # {} THEN left ELSE A!Fresh
    <2>1. PICK c \in shown : x3' = left \union {c}
                             /\ x17' = Append(x17, [ok |-> TRUE, req |-> r, conv |-> c])
      BY <1>10 DEF A!DoDelete, A!Reply
    <2>2. /\ r.op = "delete" /\ A!Cleaned(x2', r.spared) /\ UNCHANGED <<x18, x19>>
          /\ x2' = [m \in A!Messages |-> IF x2[m].conv = r.conv THEN A!NoRow ELSE x2[m]]
      BY <1>10 DEF A!DoDelete, A!copies
    <2>3. x2' \in [A!Messages -> Rows] /\ \A m \in A!Messages : x2'[m] = x2[m] \/ x2'[m] = A!NoRow
      BY <1>6, <1>8, <2>2
    <2>4. /\ \A m \in A!Messages : x2'[m].items \subseteq Found'
          /\ \A t \in x10 : t.items \subseteq Found'
      BY <2>2, <2>3, RowsKept
    <2>5. /\ x8.content \in Found => x8.content \in Found'
          /\ \A x \in Found : x \in r.spared => x \in Found'
          /\ \A x \in Found : x \in x13 => x \in Found'
          /\ x8.items \subseteq Found'
      BY <1>6, <2>2, CleanedKeeps
    <2>6. /\ r.shown = x6 /\ r.shown \in AttachmentsConversations /\ r.conv \in AttachmentsConversations
          /\ \A d \in AttachmentsConversations \ {r.conv} : x4[d] \subseteq r.spared
      BY <1>2, <1>7, <2>2 DEF Deletes
    <2>7. \A d \in AttachmentsConversations \ {r.conv} : x4[d] \subseteq Found'
      BY <1>7, <2>5, <2>6
    <2>8. c \in AttachmentsConversations /\ (c = x6 => x6 # r.conv) /\ x4[c] \subseteq Found'
      <3>1. CASE x6 # r.conv
        BY <2>1, <2>6, <2>7, <3>1
      <3>2. CASE x6 = r.conv /\ left # {}
        BY <1>6, <2>1, <2>6, <2>7, <3>2
      <3>3. CASE x6 = r.conv /\ left = {}
        <4>1. c \in AttachmentsConversations \ (x3 \cup {x6})
          BY <1>6, <2>1, <2>6, <3>3 DEF A!Fresh
        <4> QED  BY <1>7, <4>1, <3>3
      <3> QED  BY <3>1, <3>2, <3>3
    <2>9. c = x6 => x5 \subseteq Found'
      BY <1>6, <1>7, <2>5, <2>6, <2>7, <2>8
    <2>10. x3' \subseteq AttachmentsConversations /\ x3' # {} /\ \A d \in x3' : x4[d] \subseteq Found'
      BY <1>6, <2>1, <2>7, <2>8
    <2> DEFINE a == [ok |-> TRUE, req |-> r, conv |-> c]
    <2>11. a \in Answer /\ a.req = r /\ a.conv = c /\ a.ok
      BY <1>5, <2>8 DEF Answer
    <2> HIDE DEF a
    <2> QED  BY <1>1, <1>5, <2>1, <2>2, <2>3, <2>4, <2>5, <2>8, <2>9, <2>10, <2>11, ChangeMade DEF a
  <1>11. CASE A!DoClear(r)
    <2>1. PICK c \in A!Fresh : x3' = {c}
                             /\ x17' = Append(x17, [ok |-> TRUE, req |-> r, conv |-> c])
      BY <1>11 DEF A!DoClear, A!Reply
    <2>2. /\ A!Cleaned(x2', {}) /\ UNCHANGED <<x18, x19>> /\ x2' = [m \in A!Messages |-> A!NoRow]
      BY <1>11 DEF A!DoClear, A!copies
    <2>3. x2' \in [A!Messages -> Rows] /\ \A m \in A!Messages : x2'[m] = A!NoRow
      BY <1>8, <2>2
    <2>4. /\ \A m \in A!Messages : x2'[m].items \subseteq Found'
          /\ \A t \in x10 : t.items \subseteq Found'
      BY <2>2, <2>3, RowsKept
    <2>5. (x8.content \in Found => x8.content \in Found') /\ x8.items \subseteq Found'
      BY <1>6, <2>2, CleanedKeeps
    <2>6. c \in AttachmentsConversations /\ c # x6 /\ x4[c] = {}
      BY <1>6, <1>7, <2>1 DEF A!Fresh
    <2> DEFINE a == [ok |-> TRUE, req |-> r, conv |-> c]
    <2>7. a \in Answer /\ a.req = r /\ a.conv = c /\ a.ok
      BY <1>5, <2>6 DEF Answer
    <2>8. x3' \subseteq AttachmentsConversations /\ x3' # {} /\ \A d \in x3' : x4[d] \subseteq Found'
      BY <2>1, <2>6
    <2> HIDE DEF a
    <2> QED  BY <1>1, <1>5, <2>1, <2>2, <2>3, <2>4, <2>5, <2>6, <2>7, <2>8, ChangeMade DEF a
  <1> QED  BY <1>4, <1>9, <1>10, <1>11

LEMMA AttachmentsWorkStep ==
  ASSUME AttachmentsSound, A!Work
  PROVE  AttachmentsSound'
  BY Served, WorkUrgentStep, WorkChangeStep DEF A!Work

----------------------------------------
(* Backups. *)

\* A backup is copied, kept or given up; a request that is no change leaves the queue.
LEMMA BackupStep ==
  ASSUME AttachmentsSound, A!Backup,
         x16' = x16 \/ x16' = Tail(x16),
         UNCHANGED <<x1, x2, x3, x20, x4, x5, x6, x7, x11, x12, x13, x14, x8,
                     x9, x10, x15, x17, x23>>,
         x18' \in Copies, x19'.objects = x19'.rows
  PROVE  AttachmentsSound'
  <1>1. x16 \in Seq(Normal) /\ x17 \in Seq(Answer) /\ x16 # <<>> /\ Head(x16).op = "backup"
    BY DEF AttachmentsSound, AttachmentsTyped, A!Backup
  <1>2. /\ Elements(x16) = {Head(x16)} \cup Elements(Tail(x16)) /\ Head(x16) \in Normal
        /\ Tail(x16) \in Seq(Normal)
    BY <1>1, Taking
  <1>3. Head(x16) \notin Changes
    BY <1>1, <1>2, Kinds
  <1>4. /\ Lone(x16', x17, Changes)
        /\ UnderWay(x16', x17, Changes) => UnderWay(x16, x17, Changes)
    BY <1>1, LoneDropped DEF AttachmentsSound, Lanes
  <1>5. AttachmentsTyped'
    BY <1>1, <1>2 DEF AttachmentsSound, AttachmentsTyped
  <1>9. Elements(x16') \subseteq Elements(x16)
    BY <1>2
  <1>6. Lanes'
    BY <1>4, <1>9 DEF AttachmentsSound, Lanes
  <1>7. Kept'
    BY DEF AttachmentsSound, Kept, Found
  <1>8. AttachmentsPanels'
    <2>1. Elements(x16') \subseteq Elements(x16)
      BY <1>9
    <2>2. Found' = Found
      BY DEF Found
    <2> QED  BY <2>1, <2>2 DEF AttachmentsSound, AttachmentsPanels, Made
  <1> QED  BY <1>5, <1>6, <1>7, <1>8 DEF AttachmentsSound, A!BackupIsWhole

LEMMA BackupsStep ==
  ASSUME AttachmentsSound, A!Snapshot \/ A!Archive \/ A!Keep
  PROVE  AttachmentsSound'
  <1>1. x18 \in Copies /\ x2 \in [A!Messages -> Rows] /\ x19.objects = x19.rows
    BY DEF AttachmentsSound, AttachmentsTyped, A!BackupIsWhole
  <1>2. /\ UNCHANGED <<x1, x2, x3, x20, x4, x5, x6, x7, x11, x12, x13, x14, x8,
                       x9, x10, x15, x17, x23>>
        /\ A!Backup
        /\ x16' = x16 \/ x16' = Tail(x16)
    BY DEF A!Snapshot, A!Archive, A!Keep, A!BackupFails, A!disk, A!page, A!turns, A!thread, A!counts
  <1>3. A!NoBuild \in Copies
    BY DEF A!NoBuild, Copies
  <1>4. CASE A!Snapshot
    <2>1. A!Referenced(x2) \subseteq AttachmentsContents
      BY <1>1 DEF A!Referenced, Rows, A!NoRow
    <2>2. x18' \in Copies /\ x19' = x19
      BY <1>4, <2>1 DEF A!Snapshot, Copies
    <2> QED  BY <1>1, <1>2, <2>2, BackupStep
  <1>5. CASE A!Archive
    <2>1. x18' \in Copies /\ x19' = x19
      BY <1>1, <1>3, <1>5 DEF A!Archive, A!BackupFails, Copies
    <2> QED  BY <1>1, <1>2, <2>1, BackupStep
  <1>6. CASE A!Keep
    <2>1. x18' \in Copies /\ x19'.objects = x19'.rows
      BY <1>1, <1>3, <1>6 DEF A!Keep, A!BackupFails, A!Accepted, Copies
    <2> QED  BY <1>2, <2>1, BackupStep
  <1> QED  BY <1>4, <1>5, <1>6

----------------------------------------
(* Answers and crashes. *)

\* The first answer leaves its queue.
LEMMA AttachmentsAnswerTaken ==
  ASSUME AttachmentsSound, x17 # <<>>
  PROVE  /\ Tail(x17) \in Seq(Answer) /\ Head(x17) \in Answer
         /\ Head(x17) \in Elements(x17)
         /\ Elements(Tail(x17)) \subseteq Elements(x17)
         /\ Elements(x17) = {Head(x17)} \cup Elements(Tail(x17))
         /\ \A Z \in {Starts, Saves} :
              /\ Lone(x15, Tail(x17), Z)
              /\ UnderWay(x15, Tail(x17), Z) => UnderWay(x15, x17, Z)
              /\ Head(x17).req \in Z =>
                   ~UnderWay(x15, Tail(x17), Z) /\ UnderWay(x15, x17, Z)
         /\ Lone(x16, Tail(x17), Changes)
         /\ UnderWay(x16, Tail(x17), Changes) => UnderWay(x16, x17, Changes)
         /\ Head(x17).req \in Changes =>
              ~UnderWay(x16, Tail(x17), Changes) /\ UnderWay(x16, x17, Changes)
  <1>1. x17 \in Seq(Answer) /\ x15 \in Seq(Urgent) /\ x16 \in Seq(Normal)
    BY DEF AttachmentsSound, AttachmentsTyped
  <1>2. /\ Tail(x17) \in Seq(Answer) /\ Head(x17) \in Answer
        /\ Elements(x17) = {Head(x17)} \cup Elements(Tail(x17))
    BY <1>1, Taking
  <1>3. \A Z \in {Starts, Saves} : Lone(x15, x17, Z)
    BY DEF AttachmentsSound, Lanes
  <1>4. \A Z \in {Starts, Saves} :
          /\ Lone(x15, Tail(x17), Z)
          /\ UnderWay(x15, Tail(x17), Z) => UnderWay(x15, x17, Z)
          /\ Head(x17).req \in Z =>
               ~UnderWay(x15, Tail(x17), Z) /\ UnderWay(x15, x17, Z)
    BY <1>1, <1>3, LoneHandled
  <1>5. /\ Lone(x16, Tail(x17), Changes)
        /\ UnderWay(x16, Tail(x17), Changes) => UnderWay(x16, x17, Changes)
        /\ Head(x17).req \in Changes =>
             ~UnderWay(x16, Tail(x17), Changes) /\ UnderWay(x16, x17, Changes)
    BY <1>1, LoneHandled DEF AttachmentsSound, Lanes
  <1> QED  BY <1>2, <1>4, <1>5

LEMMA AttachmentsHandleStep ==
  ASSUME AttachmentsSound, A!Handle
  PROVE  AttachmentsSound'
  <1> DEFINE a == Head(x17)
             Started == /\ a.req.op = "start" /\ x14' = TRUE
                        /\ UNCHANGED <<x4, x5, x6, x7, x12, x13, x9, x10>>
             Saved == /\ a.req.op = "save"
                      /\ IF a.ok THEN x9' = [x9 EXCEPT !.at = "replying"] /\ x10' = x10
                         ELSE x9' = A!NoTurn /\ x10' = x10 \cup {a.req.turn}
                      /\ UNCHANGED <<x4, x5, x6, x7, x12, x13, x14>>
             ChangeEnded == /\ a.req.op \in {"load", "create", "delete", "clear"}
                            /\ a.req.op = x12 => x12' = "none" /\ x13' = {}
                            /\ x14' = x14 /\ x9' = x9
                            /\ IF a.ok THEN A!Takes(a.conv)
                                       ELSE UNCHANGED <<x4, x5, x6, x7, x10>>
  <1>1. /\ x17 # <<>> /\ x17' = Tail(x17)
        /\ UNCHANGED <<x1, x2, x3, x20, x11, x8, x15, x16, x18, x19, x23>>
        /\ Started \/ Saved \/ ChangeEnded
    BY DEF A!Handle, A!Over, A!disk, A!copies, A!counts, A!page, A!turns
  <1>2. /\ x17' \in Seq(Answer) /\ a \in Answer /\ a \in Elements(x17)
        /\ Elements(x17') \subseteq Elements(x17)
        /\ Elements(x17) = {a} \cup Elements(x17')
        /\ Lone(x15, x17', Starts) /\ Lone(x15, x17', Saves)
        /\ Lone(x16, x17', Changes)
    BY <1>1, AttachmentsAnswerTaken
  <1>3. /\ UnderWay(x15, x17', Starts) => UnderWay(x15, x17, Starts)
        /\ UnderWay(x15, x17', Saves) => UnderWay(x15, x17, Saves)
        /\ UnderWay(x16, x17', Changes) => UnderWay(x16, x17, Changes)
    BY <1>1, AttachmentsAnswerTaken
  <1>4. /\ a.req \in Starts => ~UnderWay(x15, x17', Starts) /\ UnderWay(x15, x17, Starts)
        /\ a.req \in Saves => ~UnderWay(x15, x17', Saves) /\ UnderWay(x15, x17, Saves)
        /\ a.req \in Changes => ~UnderWay(x16, x17', Changes) /\ UnderWay(x16, x17, Changes)
    BY <1>1, AttachmentsAnswerTaken
  <1>5. a.req \in Urgent \cup Changes /\ a.conv \in AttachmentsConversations \cup {Nil} /\ a.ok \in BOOLEAN
    BY <1>2 DEF Answer
  <1>6. a.req \in Urgent \cup Normal
    BY <1>5 DEF Normal
  <1>7. /\ a.req.op = "start" => a.req \in Starts /\ a.req \notin Changes
        /\ a.req.op = "save" => a.req \in Saves /\ a.req \notin Changes
        /\ a.req.op \in {"load", "create", "delete", "clear"} => a.req \in Changes
    BY <1>6 DEF Urgent, Normal, Changes, Starts, Saves, Loads, Deletes, Others, Backups
  <1>8. Found' = Found
    BY <1>1 DEF Found
  <1>9. A!BackupIsWhole'
    BY <1>1 DEF AttachmentsSound, A!BackupIsWhole
  <1> HIDE DEF a
  <1>10. CASE Started
    <2>1. AttachmentsTyped'
      BY <1>1, <1>2, <1>10 DEF AttachmentsSound, AttachmentsTyped
    <2>2. Lanes'
      BY <1>1, <1>2, <1>3, <1>4, <1>7, <1>10 DEF AttachmentsSound, Lanes
    <2>3. Kept'
      BY <1>1, <1>2, <1>8, <1>10 DEF AttachmentsSound, Kept
    <2>4. ~Made(a)
      BY <1>7, <1>10 DEF Made
    <2>5. AttachmentsPanels'
      BY <1>1, <1>2, <1>8, <1>10, <2>4 DEF AttachmentsSound, AttachmentsPanels, Made
    <2> QED  BY <1>9, <2>1, <2>2, <2>3, <2>5 DEF AttachmentsSound
  <1>11. CASE Saved
    <2>1. a.req \in Saves /\ a.req \notin Changes
      BY <1>7, <1>11
    <2>2. a.req.turn \in Turns /\ a.req.turn.items \subseteq Found
      BY <1>2, <2>1 DEF Saves, AttachmentsSound, Kept
    <2>3. x10' \subseteq x10 \cup {a.req.turn}
      BY <1>11
    <2>9. x9.at = "saving" /\ x9 \in Attempts
      BY <1>4, <2>1 DEF AttachmentsSound, AttachmentsTyped, Lanes, A!NoTurn
    <2>10. x9' \in Attempts \cup {A!NoTurn} /\ x9'.items \subseteq x9.items
      BY <1>11, <2>9 DEF Attempts, A!NoTurn
    <2>4. AttachmentsTyped'
      BY <1>1, <1>2, <1>11, <2>2, <2>3, <2>10 DEF AttachmentsSound, AttachmentsTyped
    <2>5. x14 /\ x12 = "none"
      BY <2>9 DEF AttachmentsSound, Lanes, A!NoTurn
    <2>6. Lanes'
      BY <1>1, <1>2, <1>3, <1>4, <1>11, <2>1, <2>5 DEF AttachmentsSound, Lanes
    <2>7. Kept'
      BY <1>1, <1>2, <1>8, <2>2, <2>3, <2>10 DEF AttachmentsSound, Kept
    <2>8. AttachmentsPanels'
      BY <1>1, <1>2, <1>8, <1>11, <2>1 DEF AttachmentsSound, AttachmentsPanels, Made
    <2> QED  BY <1>9, <2>4, <2>6, <2>7, <2>8 DEF AttachmentsSound
  <1>12. CASE ChangeEnded
    <2>1. a.req \in Changes
      BY <1>7, <1>12
    <2>2. /\ ~UnderWay(x16, x17', Changes) /\ x12 # "none" /\ x14 /\ x9 = A!NoTurn
          /\ x12' = "none" /\ x13' = {}
      BY <1>2, <1>4, <1>12, <2>1 DEF AttachmentsSound, Lanes
    <2>3. Elements(x17') \subseteq Answer
      BY <1>2, NotEmpty
    <2>4. /\ Elements(x16) \cap Changes = {} /\ Deletes \subseteq Changes
          /\ \A b \in Elements(x17') : b.req \notin Changes
      BY <2>2, <2>3 DEF UnderWay, AnswersTo, Changes
    <2>5. ASSUME x10' \subseteq x10, x5' \subseteq Found, x5' \subseteq AttachmentsContents,
                 x6' \in AttachmentsConversations, x7' = x6', x4' \in [AttachmentsConversations -> SUBSET AttachmentsContents],
                 \A d \in AttachmentsConversations : x4'[d] \subseteq Found,
                 \A d \in AttachmentsConversations \ (x3 \cup {x6'}) : x4'[d] = {}
          PROVE  AttachmentsSound'
      <3>1. AttachmentsTyped'
        BY <1>1, <1>2, <1>12, <2>5 DEF AttachmentsSound, AttachmentsTyped
      <3>2. Lanes'
        BY <1>1, <1>2, <1>3, <1>12, <2>2, <2>4 DEF AttachmentsSound, Lanes
      <3>3. Kept'
        BY <1>1, <1>2, <1>8, <1>12, <2>5 DEF AttachmentsSound, Kept
      <3>4. AttachmentsPanels'
        BY <1>1, <1>8, <2>2, <2>4, <2>5 DEF AttachmentsPanels, Made
      <3> QED  BY <1>9, <3>1, <3>2, <3>3, <3>4 DEF AttachmentsSound
    <2>6. /\ x4 \in [AttachmentsConversations -> SUBSET AttachmentsContents] /\ x5 \subseteq AttachmentsContents
          /\ x6 \in AttachmentsConversations /\ x3 \subseteq AttachmentsConversations /\ x7 = x6
      BY DEF AttachmentsSound, AttachmentsTyped
    <2>7. CASE a.ok
      <3>1. /\ x4' = [d \in AttachmentsConversations |-> IF d \in x3 THEN x4[d] ELSE {}]
            /\ x6' = a.conv /\ x5' = IF a.conv = x6 THEN x5 ELSE x4'[a.conv]
            /\ x10' = {} /\ x7' = a.conv
        BY <1>12, <2>2, <2>7 DEF A!Takes, A!Shows, A!NoTurn
      <3>2. Made(a)
        BY <2>1, <2>7 DEF Made
      <3>3. /\ a.conv \in AttachmentsConversations /\ (a.conv = x6 => x5 \subseteq Found)
            /\ \A d \in x3 : x4[d] \subseteq Found
        BY <1>2, <3>2 DEF AttachmentsSound, AttachmentsPanels
      <3>4. /\ x4' \in [AttachmentsConversations -> SUBSET AttachmentsContents]
            /\ \A d \in AttachmentsConversations : x4'[d] = IF d \in x3 THEN x4[d] ELSE {}
        BY <2>6, <3>1
      <3>5. \A d \in AttachmentsConversations : x4'[d] \subseteq Found
        BY <3>3, <3>4
      <3>6. x5' \subseteq Found /\ x5' \subseteq AttachmentsContents
        BY <2>6, <3>1, <3>3, <3>4, <3>5
      <3> QED  BY <2>5, <3>1, <3>3, <3>4, <3>5, <3>6
    <2>8. CASE ~a.ok
      <3>1. UNCHANGED <<x4, x5, x6, x7, x10>>
        BY <1>12, <2>8
      <3>2. \A b \in Elements(x17) : ~Made(b)
        BY <1>2, <2>4, <2>8 DEF Made
      <3>3. /\ x5 \subseteq Found /\ \A d \in AttachmentsConversations : x4[d] \subseteq Found
            /\ \A d \in AttachmentsConversations \ (x3 \cup {x6}) : x4[d] = {}
        BY <3>2 DEF AttachmentsSound, AttachmentsPanels
      <3> QED  BY <2>5, <2>6, <3>1, <3>3
    <2> QED  BY <1>5, <2>7, <2>8
  <1> QED  BY <1>1, <1>10, <1>11, <1>12

\* The panel is refreshed for the conversation it shows.
LEMMA ReplyEndsStep ==
  ASSUME AttachmentsSound, A!ReplyEnds
  PROVE  AttachmentsSound'
  <1>1. /\ UNCHANGED <<x1, x2, x3, x20, x7, x11, x12, x13, x14, x8, x10,
                       x15, x16, x17, x18, x19, x23>>
        /\ x9.at = "replying" /\ x9' = A!NoTurn /\ A!Shows(x7)
    BY DEF A!ReplyEnds, A!disk, A!thread, A!copies, A!counts
  <1>2. /\ x7 = x6 /\ x6 \in AttachmentsConversations /\ x5 \subseteq AttachmentsContents
        /\ x4 \in [AttachmentsConversations -> SUBSET AttachmentsContents]
    BY DEF AttachmentsSound, AttachmentsTyped
  <1>3. /\ x6' = x6 /\ x5' = x5
        /\ x4' = [d \in AttachmentsConversations |-> IF d \in x3 THEN x4[d] ELSE {}]
    BY <1>1, <1>2 DEF A!Shows
  <1>4. /\ x4' \in [AttachmentsConversations -> SUBSET AttachmentsContents]
        /\ \A d \in AttachmentsConversations : x4'[d] \subseteq x4[d]
    BY <1>2, <1>3
  <1>5. x12 = "none" /\ x14
    BY <1>1 DEF AttachmentsSound, Lanes, A!NoTurn
  <1>6. A!NoTurn.items = {} /\ A!NoTurn.at # "saving"
    BY DEF A!NoTurn
  <1>7. AttachmentsTyped'
    BY <1>1, <1>2, <1>3, <1>4 DEF AttachmentsSound, AttachmentsTyped
  <1>8. Lanes' /\ A!BackupIsWhole'
    BY <1>1, <1>5, <1>6 DEF AttachmentsSound, Lanes, A!BackupIsWhole
  <1>9. Kept'
    BY <1>1, <1>6 DEF AttachmentsSound, Kept, Found
  <1>10. AttachmentsPanels'
    <2>1. Found' = Found
      BY <1>1 DEF Found
    <2> QED  BY <1>1, <1>3, <1>4, <1>5, <2>1, Settled DEF AttachmentsPanels, Made, Changes
  <1> QED  BY <1>7, <1>8, <1>9, <1>10 DEF AttachmentsSound

LEMMA CrashStep ==
  ASSUME AttachmentsSound, A!Crash
  PROVE  AttachmentsSound'
  <1>1. /\ UNCHANGED <<x1, x2, x3, x20, x19, x23>>
        /\ x4' = [c \in AttachmentsConversations |-> {}] /\ x5' = {} /\ x12' = "none" /\ x13' = {}
        /\ x8' = A!NoImport /\ x9' = A!NoTurn /\ x10' = {} /\ x11' = A!NoQuestion
        /\ x6' = (IF x7 \in x3 THEN x7 ELSE CHOOSE c \in x3 : TRUE) /\ x7' = x6'
        /\ x14' = FALSE /\ x15' = <<[op |-> "start"]>> /\ x16' = <<>> /\ x17' = <<>>
        /\ x18' = A!NoBuild
    BY DEF A!Crash, A!disk
  <1>2. /\ Lone(x15', x17', Starts) /\ Lone(x15', x17', Saves)
        /\ ~UnderWay(x15', x17', Saves) /\ x15' \in Seq(Urgent)
        /\ Elements(x15') = {[op |-> "start"]}
    BY <1>1, LoneStart
  <1>3. Lone(x16', x17', Changes) /\ ~UnderWay(x16', x17', Changes)
        /\ Elements(x16') = {} /\ Elements(x17') = {}
    BY <1>1, LoneEmpty, EmptyQueue
  <1>4. AttachmentsTyped'
    <2>1. x18' \in Copies
      BY <1>1 DEF A!NoBuild, Copies
    <2>2. x16' \in Seq(Normal) /\ x17' \in Seq(Answer)
      BY <1>1
    <2>3. x2' \in [A!Messages -> Rows] /\ x3' \subseteq AttachmentsConversations /\ x3' # {} /\ x23' \in Nat
      BY <1>1 DEF AttachmentsSound, AttachmentsTyped
    <2>4. x6' \in AttachmentsConversations
      BY <1>1, <2>3
    <2>5. /\ x4' \in [AttachmentsConversations -> SUBSET AttachmentsContents] /\ x5' \subseteq AttachmentsContents
          /\ x10' \subseteq Turns /\ x9' = A!NoTurn /\ x14' \in BOOLEAN /\ x7' = x6'
      BY <1>1
    <2>6. /\ x8' \in Imports /\ x8'.at = "none"
          /\ x11' \in [kind : {"none", "clear"}, conv : {Nil}]
      BY <1>1 DEF A!NoImport, A!NoQuestion, Imports
    <2> QED  BY <1>2, <2>1, <2>2, <2>3, <2>4, <2>5, <2>6 DEF AttachmentsTyped
  <1>5. Lanes'
    BY <1>1, <1>2, <1>3 DEF Lanes, A!NoQuestion
  <1>6. Kept'
    <2>1. /\ [op |-> "start"] \notin Saves /\ x8'.at = "none" /\ x8'.items = {} /\ x9'.items = {}
      BY <1>1 DEF Saves, A!NoImport, A!NoTurn
    <2>2. \A m \in A!Messages : x2'[m].items \subseteq Found'
      BY <1>1 DEF AttachmentsSound, Kept, Found
    <2> QED  BY <1>1, <1>2, <1>3, <2>1, <2>2 DEF Kept
  <1>7. AttachmentsPanels'
    BY <1>1, <1>3 DEF AttachmentsPanels
  <1> QED  BY <1>1, <1>4, <1>5, <1>6, <1>7 DEF AttachmentsSound, A!BackupIsWhole

LEMMA SoundStep == AttachmentsSound /\ ~x21' /\ (A!Next \/ UNCHANGED A!vars) => AttachmentsSound'
  <1>1. ASSUME AttachmentsSound, ~x21', A!Next
        PROVE  AttachmentsSound'
    BY <1>1, AttachStep, LandStep, ImportedStep, RemoveStep, AttachmentsSendStep, RetryStep, DispatchStep, DropStep,
       SwitchStep, NewStep, QuestionStep, YesStep, AskBackupStep, AttachmentsWorkStep, BackupsStep, AttachmentsHandleStep,
       ReplyEndsStep, CrashStep DEF A!Next
  <1>2. ASSUME AttachmentsSound, UNCHANGED A!vars
        PROVE  AttachmentsSound'
    <2>1. UNCHANGED <<x1, x2, x3, x4, x5, x6, x7, x11, x8, x9, x10, x12,
                      x13, x14, x15, x16, x17, x18, x19, x20, x23>>
      BY <1>2 DEF A!vars
    <2>2. AttachmentsTyped'
      BY <1>2, <2>1 DEF AttachmentsSound, AttachmentsTyped
    <2>3. Lanes' /\ A!BackupIsWhole'
      BY <1>2, <2>1 DEF AttachmentsSound, Lanes, A!BackupIsWhole
    <2>4. Kept'
      BY <1>2, <2>1 DEF AttachmentsSound, Kept, Found
    <2>5. AttachmentsPanels'
      BY <1>2, <2>1 DEF AttachmentsSound, AttachmentsPanels, Found, Made
    <2> QED  BY <2>2, <2>3, <2>4, <2>5 DEF AttachmentsSound
  <1> QED  BY <1>1, <1>2

----------------------------------------
(* What a backup holds does not depend on what is removed, and once a deletion has been       *)
(* confirmed where it would be refused, nothing else is said.                                 *)

Complete == A!BackupIsWhole /\ x18 = [at |-> x18.at, rows |-> x18.rows, objects |-> x18.objects]
AttachmentsIInv == Complete /\ x21 \in BOOLEAN /\ (x21 \/ AttachmentsSound)

LEMMA AttachmentsInitiallyIInv == A!Init => AttachmentsIInv
  <1> SUFFICES ASSUME A!Init
               PROVE  AttachmentsIInv
    OBVIOUS
  <1>1. x18 = A!NoBuild /\ x19 = A!NoBuild /\ x21 = FALSE
    BY DEF A!Init
  <1>2. Complete
    BY <1>1 DEF Complete, A!BackupIsWhole, A!NoBuild
  <1> QED  BY <1>1, <1>2, InitiallySound DEF AttachmentsIInv

LEMMA CompleteStep == Complete /\ (A!Next \/ UNCHANGED A!vars) => Complete'
  <1> SUFFICES ASSUME Complete, (A!Next \/ UNCHANGED A!vars)
               PROVE  Complete'
    OBVIOUS
  <1>1. A!NoBuild = [at |-> A!NoBuild.at, rows |-> A!NoBuild.rows, objects |-> A!NoBuild.objects]
    BY DEF A!NoBuild
  <1>2. CASE A!Snapshot \/ A!Archive
    BY <1>1, <1>2 DEF A!Snapshot, A!Archive, A!BackupFails, Complete, A!BackupIsWhole
  <1>3. CASE A!Keep
    BY <1>1, <1>3 DEF A!Keep, A!BackupFails, A!Accepted, Complete, A!BackupIsWhole
  <1>4. CASE A!Crash
    BY <1>1, <1>4 DEF A!Crash, Complete, A!BackupIsWhole
  <1>5. CASE A!Work
    <2>1. UNCHANGED <<x18, x19>>
      BY <1>5 DEF A!Work, A!DoStart, A!DoSave, A!DoLoad, A!DoCreate, A!DoDelete, A!DoClear, A!DoFail, A!copies
    <2> QED  BY <2>1 DEF Complete, A!BackupIsWhole
  <1>6. CASE ~(A!Snapshot \/ A!Archive \/ A!Keep \/ A!Crash \/ A!Work)
    <2>1. UNCHANGED <<x18, x19>>
      BY <1>6 DEF A!Next, A!Attach, A!SendWithPicture, A!Import, A!Land, A!Imported, A!Remove, A!Send, A!Retry, A!Dispatch, A!Drop,
            A!Switch, A!New, A!AskDelete, A!Yes, A!No, A!AskBackup, A!Handle, A!ReplyEnds, A!copies, A!vars
    <2> QED  BY <2>1 DEF Complete, A!BackupIsWhole
  <1> QED  BY <1>2, <1>3, <1>4, <1>5, <1>6

LEMMA StrayedStep == x21 \in BOOLEAN /\ (A!Next \/ UNCHANGED A!vars) => x21' \in BOOLEAN /\ (x21 => x21')
  <1>1. A!Yes => x21' = (x21 \/ ~A!CanChange)
    BY DEF A!Yes
  <1>2. (A!Next \/ UNCHANGED A!vars) /\ ~A!Yes => x21' = x21
    BY DEF A!Next, A!Attach, A!SendWithPicture, A!Import, A!Land, A!Imported, A!Remove, A!Send, A!Retry, A!Dispatch, A!Drop,
       A!Switch, A!New, A!AskDelete, A!No, A!AskBackup, A!Work, A!Snapshot, A!Archive, A!Keep, A!Handle, A!ReplyEnds, A!Crash, A!page, A!vars
  <1> QED  BY <1>1, <1>2

LEMMA AttachmentsIInvStep == AttachmentsIInv /\ (A!Next \/ UNCHANGED A!vars) => AttachmentsIInv'
  BY SoundStep, CompleteStep, StrayedStep DEF AttachmentsIInv

LEMMA AreKept == AttachmentsIInv => A!AttachmentsAreKept
  BY DEF AttachmentsIInv, Complete, AttachmentsSound, Kept, Found, A!AttachmentsAreKept, A!SavedHasItsFile

AttachmentsInv == part = "attachments" => AttachmentsIInv

LEMMA AttachmentsStart == Init => AttachmentsInv
  <1> SUFFICES ASSUME Init, part = "attachments"
               PROVE  AttachmentsIInv
    BY DEF AttachmentsInv
  <1>1. A!Init
    BY DEF Init, InitOf
  <1> QED  BY <1>1, AttachmentsInitiallyIInv

LEMMA AttachmentsMoves ==
  ASSUME [Next]_vars, part = "attachments"
  PROVE  A!Next \/ UNCHANGED A!vars
  <1>1. CASE Next
    BY <1>1 DEF Next, InR, InV, InX, InG, InH, InW, InT, InJ, InM, InP, InA, InC
  <1>2. CASE UNCHANGED vars
    BY <1>2 DEF vars, A!vars
  <1> QED  BY <1>1, <1>2

LEMMA AttachmentsStep == AttachmentsInv /\ [Next]_vars => AttachmentsInv'
  <1> SUFFICES ASSUME AttachmentsInv, [Next]_vars, part' = "attachments"
               PROVE  AttachmentsIInv'
    BY DEF AttachmentsInv
  <1>1. part = "attachments" /\ AttachmentsIInv
    BY PartStays DEF AttachmentsInv
  <1> QED  BY <1>1, AttachmentsMoves, AttachmentsIInvStep

LEMMA AttachmentsInvariance == Spec => []AttachmentsInv
  BY AttachmentsStart, AttachmentsStep, PTL DEF Spec

\* attachment_runtime.py, local_data_service.py: the object of every saved attachment is on
\* disk unless it was removed while the deletion could not know of it or a deletion was
\* confirmed where the controls refuse one, and a backup that is kept is a complete
\* archive, for any contents, conversations, turns, changes, backups and faults.
THEOREM AttachmentsStayKept == Spec => []AttachmentsAreKept
  <1>1. AttachmentsInv => AttachmentsAreKept
    BY AreKept DEF AttachmentsInv, AttachmentsAreKept
  <1> QED  BY <1>1, AttachmentsInvariance, PTL

----------------------------------------
(* The vector index. *)

\* One operation runs and the coordinator knows which (OneRuns), so what is built stays
\* building (Builds), the snapshots on their way to the caches are of the generations that
\* are active (Current), and a cache that is behind has its swap under way (Cached).
\* Its variables: docs x1, active x2, building x3, ix x4, cache x5, notices x6, ui x7,
\*   changed x8, lost x9, changes x10, requests x11, faults x12, crashes x13

\* A task of an operation; the others wait to start one.
Running(t) == t.k \notin {"run_persona", "run_incremental", "run_rebuild"}
\* The operation a task belongs to
Owner(t) ==
  IF t.k \in {"load", "loaded", "load_caches"} THEN "load"
  ELSE IF t.k = "retry" THEN "retry"
  ELSE IF t.k = "failed" THEN t.d.work
  ELSE IF t.k \in {"embed", "activate", "mark_failed", "rebuilt", "begin_rebuild", "begin_persona"}
  THEN "rebuild" ELSE "incremental"
DataKinds == {"load", "begin_incremental", "persist", "reload", "begin_rebuild", "begin_persona",
              "activate", "mark_failed"}
Beginnings == {"load", "begin_rebuild", "begin_persona", "begin_incremental", "retry"}
Snapshots == {"loaded", "refreshed", "load_caches", "swap_caches"}

Shaped(x) ==
  /\ DOMAIN x = {"busy", "incremental", "persona", "backend", "tasks"}
  /\ x = [f \in DOMAIN x |-> x[f]]
\* One operation runs, the coordinator knows which, and it is at one of its tasks.
OneRuns(x) ==
  \A t \in x.tasks : Running(t) =>
    /\ x.busy = {Owner(t)}
    /\ \A u \in x.tasks : Running(u) => u = t
Placed(x) == \A t \in x.tasks : t.at = "data" => t.k \in DataKinds
Coordinated(x) == Shaped(x) /\ OneRuns(x) /\ Placed(x)

Generations == \A c \in X!Corpora : DOMAIN x2[c] = {"gen", "has", "old"}
\* Snapshots on their way to the caches are of the active generations.
Current(t) == t.k \in Snapshots => \A c \in X!Corpora : t.d[c].gen = x2[c].gen
\* What was built is active before the caches are swapped.
Swaps(t) == t.k = "rebuilt" => \A c \in X!Corpora : c \in t.d.cs => x2[c].gen = t.d.gen
Builds(t) == t.k \in {"embed", "activate"} => \A c \in t.d.cs : x3[c] = t.d.gen
VectorsSound(t) == Current(t) /\ Swaps(t) /\ Builds(t)
\* A cache that is behind has its swap under way.
Cached ==
  x12 = 0 => \A c \in X!Corpora :
    x5[c].gen \in {X!None, x2[c].gen} \/ \E t \in x4.tasks : t.k = "rebuilt" /\ c \in t.d.cs

VectorsIInv ==
  /\ Coordinated(x4) /\ Generations /\ x12 \in Nat
  /\ \A t \in x4.tasks : VectorsSound(t)
  /\ Cached

----------------------------------------
LEMMA TaskFields ==
  ASSUME NEW k, NEW at, NEW d
  PROVE  X!Task(k, at, d).k = k /\ X!Task(k, at, d).at = at /\ X!Task(k, at, d).d = d
  BY DEF X!Task

LEMMA IsSound == VectorsIInv => X!IndexIsSound
  BY DEF VectorsIInv, X!IndexIsSound, X!BuildIsNotStolen, X!CacheIsActive, Cached, VectorsSound, Builds

LEMMA VectorsInitiallyIInv == X!Init => VectorsIInv
  <1> SUFFICES ASSUME X!Init
               PROVE  VectorsIInv
    OBVIOUS
  <1>1. x4.tasks = {} /\ Shaped(x4)
    BY DEF X!Init, X!Fresh, Shaped
  <1>2. Generations
    BY DEF X!Init, Generations, X!Empty
  <1>3. Cached
    BY DEF X!Init, Cached, X!Empty
  <1>4. x12 \in Nat
    BY DEF X!Init
  <1> QED  BY <1>1, <1>2, <1>3, <1>4 DEF VectorsIInv, Coordinated, OneRuns, Placed

----------------------------------------
(* What a request makes of the coordinator. *)

\* y is x, perhaps with the first task of an operation.
Begun(x, y) ==
  /\ Coordinated(y) /\ x.tasks \subseteq y.tasks
  /\ \A t \in y.tasks : t \in x.tasks \/ t.k \in Beginnings

LEMMA Begins ==
  ASSUME NEW x, Coordinated(x), x.busy = {},
         NEW work, NEW k, <<work, k>> \in {<<"load", "load">>, <<"rebuild", "begin_rebuild">>,
                                           <<"rebuild", "begin_persona">>,
                                           <<"incremental", "begin_incremental">>}
  PROVE  Begun(x, X!Begin(x, work, k))
  <1> DEFINE y == X!Begin(x, work, k)
             u == X!Task(k, "data", X!Nothing)
  <1>1. y.busy = {work} /\ y.tasks = x.tasks \cup {u} /\ Shaped(y)
    BY DEF X!Begin, Coordinated, Shaped
  <1>2. u.k = k /\ u.at = "data"
    BY DEF X!Task
  <1>3. k \in Beginnings /\ k \in DataKinds /\ Owner(u) = work /\ Running(u)
    BY <1>2 DEF Beginnings, DataKinds, Owner, Running
  <1> HIDE DEF y, u
  <1>4. \A t \in x.tasks : ~Running(t)
    BY DEF Coordinated, OneRuns
  <1>5. OneRuns(y)
    BY <1>1, <1>3, <1>4 DEF OneRuns
  <1>6. Placed(y)
    BY <1>1, <1>2, <1>3 DEF Placed, Coordinated
  <1>7. Begun(x, y)
    BY <1>1, <1>2, <1>3, <1>5, <1>6 DEF Begun, Coordinated
  <1> QED  BY <1>7 DEF y

\* A request that only sets a flag
LEMMA SameTasks ==
  ASSUME NEW x, Coordinated(x), NEW y, Shaped(y), y.tasks = x.tasks, y.busy = x.busy
  PROVE  Begun(x, y)
  BY DEF Begun, Coordinated, OneRuns, Placed

LEMMA VectorsRequests ==
  ASSUME NEW x, Coordinated(x)
  PROVE  /\ Begun(x, X!StartIndex(x)) /\ Begun(x, X!Rebuild(x))
         /\ Begun(x, X!RebuildPersona(x)) /\ Begun(x, X!RefreshIncremental(x))
  <1>1. Begun(x, x)
    BY SameTasks DEF Coordinated
  <1>2. Begun(x, X!StartIndex(x))
    BY <1>1, Begins DEF X!StartIndex
  <1>3. Begun(x, X!Rebuild(x))
    BY <1>1, Begins DEF X!Rebuild, X!CanRebuild
  <1>4. Begun(x, [x EXCEPT !.persona = TRUE]) /\ Begun(x, [x EXCEPT !.incremental = TRUE])
    <2>1. /\ Shaped([x EXCEPT !.persona = TRUE]) /\ [x EXCEPT !.persona = TRUE].tasks = x.tasks
          /\ [x EXCEPT !.persona = TRUE].busy = x.busy
      BY DEF Coordinated, Shaped
    <2>2. /\ Shaped([x EXCEPT !.incremental = TRUE]) /\ [x EXCEPT !.incremental = TRUE].tasks = x.tasks
          /\ [x EXCEPT !.incremental = TRUE].busy = x.busy
      BY DEF Coordinated, Shaped
    <2> QED  BY <2>1, <2>2, SameTasks
  <1>5. Begun(x, X!RebuildPersona(x))
    BY <1>1, <1>4, Begins DEF X!RebuildPersona
  <1>6. Begun(x, X!RefreshIncremental(x))
    BY <1>1, <1>4, Begins DEF X!RefreshIncremental
  <1> QED  BY <1>2, <1>3, <1>5, <1>6

\* x without a task of which nothing is left to do
LEMMA Less ==
  ASSUME NEW x, Coordinated(x), NEW t
  PROVE  Coordinated(X!Done(x, t)) /\ X!Done(x, t).tasks = x.tasks \ {t}
  <1>1. Shaped(X!Done(x, t)) /\ X!Done(x, t).tasks = x.tasks \ {t} /\ X!Done(x, t).busy = x.busy
    BY DEF X!Done, Coordinated, Shaped
  <1> QED  BY <1>1 DEF Coordinated, OneRuns, Placed

----------------------------------------
(* What a step may do to the tasks. *)

Steady == /\ \A c \in X!Corpora : x2'[c].gen = x2[c].gen
          /\ Generations' /\ x12' \in Nat /\ (x12' = 0 => x12 = 0)

\* A request, or work that waits and is started
LEMMA Started ==
  ASSUME VectorsIInv, Steady, x3' = x3, x5' = x5,
         NEW x, x.tasks \subseteq x4.tasks, \A t \in x4.tasks : t.k = "rebuilt" => t \in x.tasks,
         Begun(x, x4')
  PROVE  VectorsIInv'
  <1>1. Coordinated(x4') /\ \A u \in x4'.tasks : u \in x4.tasks \/ u.k \in Beginnings
    BY DEF Begun
  <1>2. \A u \in x4'.tasks : VectorsSound(u)'
    <2> SUFFICES ASSUME NEW u \in x4'.tasks
                 PROVE  VectorsSound(u)'
      OBVIOUS
    <2>1. CASE u \in x4.tasks
      BY <2>1 DEF VectorsIInv, VectorsSound, Current, Swaps, Builds, Steady
    <2>2. CASE u.k \in Beginnings
      BY <2>2 DEF VectorsSound, Current, Swaps, Builds, Beginnings, Snapshots
    <2> QED  BY <1>1, <2>1, <2>2
  <1>3. Cached'
    <2>1. \A u \in x4.tasks : u.k = "rebuilt" => u \in x4'.tasks
      BY DEF Begun
    <2> QED  BY <2>1 DEF VectorsIInv, Cached, Steady
  <1> QED  BY <1>1, <1>2, <1>3 DEF VectorsIInv, Steady

\* y is x but for the backend and the flags.
LEMMA OtherBackend ==
  ASSUME NEW x, Coordinated(x)
  PROVE  /\ Coordinated(X!Opened(x)) /\ X!Opened(x).tasks = x.tasks /\ X!Opened(x).busy = x.busy
         /\ Coordinated(X!Disabled(x)) /\ X!Disabled(x).tasks = x.tasks /\ X!Disabled(x).busy = x.busy
  <1>1. Shaped(X!Opened(x)) /\ X!Opened(x).tasks = x.tasks /\ X!Opened(x).busy = x.busy
    BY DEF X!Opened, Coordinated, Shaped
  <1>2. Shaped(X!Disabled(x)) /\ X!Disabled(x).tasks = x.tasks /\ X!Disabled(x).busy = x.busy
    BY DEF X!Disabled, Coordinated, Shaped
  <1> QED  BY <1>1, <1>2 DEF Coordinated, OneRuns, Placed

\* The operation goes on with its next task.
LEMMA VectorsFollows ==
  ASSUME NEW x, Coordinated(x), NEW t \in x.tasks, Running(t), NEW k, NEW at, NEW d,
         Running(X!Task(k, at, d)), Owner(X!Task(k, at, d)) = Owner(t), at = "data" => k \in DataKinds
  PROVE  /\ Coordinated(X!Next1(x, t, k, at, d))
         /\ \A u \in X!Next1(x, t, k, at, d).tasks : Running(u) => u = X!Task(k, at, d)
         /\ X!Task(k, at, d) \in X!Next1(x, t, k, at, d).tasks
  <1> DEFINE y == X!Next1(x, t, k, at, d)
             u == X!Task(k, at, d)
  <1>1. Shaped(y) /\ y.tasks = (x.tasks \ {t}) \cup {u} /\ y.busy = x.busy
    BY DEF X!Next1, Coordinated, Shaped
  <1>2. u.k = k /\ u.at = at
    BY TaskFields
  <1> HIDE DEF y, u
  <1>3. \A v \in y.tasks : Running(v) => v = u
    BY <1>1 DEF Coordinated, OneRuns
  <1>4. OneRuns(y)
    BY <1>1, <1>3 DEF Coordinated, OneRuns, u
  <1>5. Placed(y)
    BY <1>1, <1>2 DEF Coordinated, Placed
  <1> QED  BY <1>1, <1>3, <1>4, <1>5 DEF Coordinated, y, u

\* What is left of the coordinator when the operation of t is over
Over(y) == Coordinated(y) /\ \A u \in y.tasks : ~Running(u)

LEMMA Ends ==
  ASSUME NEW x, Coordinated(x), NEW t \in x.tasks, Running(t)
  PROVE  Over(X!Done(x, t)) /\ Over(X!Opened(X!Done(x, t)))
  <1>1. Over(X!Done(x, t))
    BY Less DEF Over, Coordinated, OneRuns
  <1> QED  BY <1>1, OtherBackend DEF Over

LEMMA Finishes ==
  ASSUME NEW z, Over(z), NEW work, NEW at \in {"main", "vector"}
  PROVE  Over(X!Finish(z, work, at))
  <1> DEFINE y == X!Finish(z, work, at)
             p == X!Task("run_persona", at, X!Nothing)
             i == X!Task("run_incremental", at, X!Nothing)
  <1>1. Shaped(y) /\ y.tasks \subseteq z.tasks \cup {p, i}
    BY DEF X!Finish, Over, Coordinated, Shaped
  <1>2. ~Running(p) /\ ~Running(i) /\ p.at # "data" /\ i.at # "data"
    BY DEF Running, X!Task
  <1> HIDE DEF y, p, i
  <1>3. \A u \in y.tasks : ~Running(u)
    BY <1>1, <1>2 DEF Over
  <1>4. Placed(y)
    BY <1>1, <1>2 DEF Over, Coordinated, Placed
  <1>5. Over(y)
    BY <1>1, <1>3, <1>4 DEF Over, Coordinated, OneRuns
  <1> QED  BY <1>5 DEF y

\* The same, when a task is left that does not run
LEMMA Stops ==
  ASSUME NEW z, Over(z), NEW p, ~Running(p), p.at # "data",
         NEW y, Shaped(y), y.tasks = z.tasks \/ y.tasks = z.tasks \cup {p}
  PROVE  Over(y)
  <1>1. \A u \in y.tasks : ~Running(u)
    BY DEF Over
  <1>2. Placed(y)
    BY DEF Over, Coordinated, Placed
  <1> QED  BY <1>1, <1>2 DEF Over, Coordinated, OneRuns

\* A task u of the present is sound after the step.
Holds(u) ==
  /\ u.k \in Snapshots => \A c \in X!Corpora : u.d[c].gen = x2'[c].gen
  /\ u.k = "rebuilt" => \A c \in X!Corpora : c \in u.d.cs => x2'[c].gen = u.d.gen
  /\ u.k \in {"embed", "activate"} => \A c \in u.d.cs : x3'[c] = u.d.gen

LEMMA WaitingIsSound ==
  ASSUME NEW u, ~Running(u)
  PROVE  VectorsSound(u)'
  BY DEF Running, VectorsSound, Current, Swaps, Builds, Snapshots

LEMMA HoldsIsSound ==
  ASSUME NEW u, Holds(u)
  PROVE  VectorsSound(u)'
  BY DEF Holds, VectorsSound, Current, Swaps, Builds

LEMMA AfterIt ==
  ASSUME VectorsIInv, Generations', x12' \in Nat, Over(x4'), Cached'
  PROVE  VectorsIInv'
  BY WaitingIsSound DEF VectorsIInv, Over

LEMMA AfterStep ==
  ASSUME VectorsIInv, Generations', x12' \in Nat, Coordinated(x4'), Cached',
         NEW v, \A u \in x4'.tasks : Running(u) => u = v, Holds(v)
  PROVE  VectorsIInv'
  <1>1. ASSUME NEW u \in x4'.tasks
        PROVE  VectorsSound(u)'
    <2>1. CASE ~Running(u)
      BY <2>1, WaitingIsSound
    <2>2. CASE Running(u)
      <3>1. u = v
        BY <2>2
      <3>2. Holds(u)
        BY <3>1
      <3> QED  BY <3>2, HoldsIsSound
    <2> QED  BY <2>1, <2>2
  <1> QED  BY <1>1 DEF VectorsIInv

\* The task that is done was not a swap, and caches and generations stay.
LEMMA CachesStay ==
  ASSUME VectorsIInv, Steady, x5' = x5, NEW t \in x4.tasks, Running(t), t.k # "rebuilt"
  PROVE  Cached'
  <1>1. \A u \in x4.tasks : u.k # "rebuilt"
    BY DEF VectorsIInv, Coordinated, OneRuns, Running
  <1> QED  BY <1>1 DEF VectorsIInv, Cached, Steady
----------------------------------------
(* The controller and the user. *)

LEMMA Asking ==
  ASSUME VectorsIInv, UNCHANGED <<X!durable, x5>>, x12' = x12, Begun(x4, x4')
  PROVE  VectorsIInv'
  <1>1. Steady
    BY DEF VectorsIInv, Steady, Generations, X!durable
  <1> QED  BY <1>1, Started DEF X!durable

LEMMA Same == VectorsIInv => Begun(x4, x4)
  BY SameTasks DEF VectorsIInv, Coordinated

LEMMA ControllerStep ==
  ASSUME VectorsIInv, X!StartUp \/ X!OnStatus \/ X!OnChanged \/ (\E c \in X!Corpora : X!Change(c))
  PROVE  VectorsIInv'
  <1>1. Coordinated(x4)
    BY DEF VectorsIInv
  <1>2. CASE X!StartUp
    <2>1. Begun(x4, x4') /\ UNCHANGED <<X!durable, x5, x12>>
      BY <1>1, <1>2, VectorsRequests DEF X!StartUp, X!bounds
    <2> QED  BY <2>1, Asking
  <1>3. CASE X!OnStatus
    <2>1. Begun(x4, x4') /\ UNCHANGED <<X!durable, x5, x12>>
      BY <1>1, <1>3, VectorsRequests, Same DEF X!OnStatus, X!bounds
    <2> QED  BY <2>1, Asking
  <1>4. CASE X!OnChanged
    <2>1. Begun(x4, x4') /\ UNCHANGED <<X!durable, x5, x12>>
      BY <1>1, <1>4, VectorsRequests DEF X!OnChanged, X!bounds
    <2> QED  BY <2>1, Asking
  <1>5. CASE \E c \in X!Corpora : X!Change(c)
    <2>1. UNCHANGED <<x2, x3, x4, x5, x12>>
      BY <1>5 DEF X!Change
    <2>2. Steady
      BY <2>1 DEF VectorsIInv, Steady, Generations
    <2>3. Begun(x4, x4')
      BY <2>1, Same
    <2> QED  BY <2>1, <2>2, <2>3, Started
  <1> QED  BY <1>2, <1>3, <1>4, <1>5

LEMMA RequestStep ==
  ASSUME VectorsIInv, X!Request
  PROVE  VectorsIInv'
  <1>1. Coordinated(x4) /\ UNCHANGED <<X!durable, x5, x12>>
    BY DEF VectorsIInv, X!Request, X!durable
  <1>2. CASE x4' = X!Rebuild(x4)
    BY <1>1, <1>2, VectorsRequests, Asking
  <1>3. ASSUME x4.busy = {},
               x4' = [x4 EXCEPT !.busy = {"retry"}, !.tasks = @ \cup {X!Task("retry", "vector", X!Nothing)}]
        PROVE  VectorsIInv'
    <2> DEFINE u == X!Task("retry", "vector", X!Nothing)
    <2>1. Shaped(x4') /\ x4'.busy = {"retry"} /\ x4'.tasks = x4.tasks \cup {u}
      BY <1>1, <1>3 DEF Coordinated, Shaped
    <2>2. u.k = "retry" /\ u.at = "vector" /\ Owner(u) = "retry"
      BY DEF X!Task, Owner
    <2> HIDE DEF u
    <2>3. \A v \in x4.tasks : ~Running(v)
      BY <1>1, <1>3 DEF Coordinated, OneRuns
    <2>4. OneRuns(x4')
      BY <2>1, <2>2, <2>3 DEF OneRuns
    <2>5. Placed(x4')
      BY <1>1, <2>1, <2>2 DEF Coordinated, Placed
    <2>6. Begun(x4, x4')
      BY <2>1, <2>2, <2>4, <2>5 DEF Begun, Coordinated, Beginnings
    <2> QED  BY <1>1, <2>6, Asking
  <1> QED  BY <1>2, <1>3 DEF X!Request

LEMMA QueryStep ==
  ASSUME VectorsIInv, X!Query
  PROVE  VectorsIInv'
  <1>1. x4' = X!Opened(x4) \/ x4' = X!Disabled(x4)
    BY DEF X!Query
  <1>2. Shaped(x4') /\ x4'.tasks = x4.tasks /\ x4'.busy = x4.busy
    BY <1>1, OtherBackend DEF VectorsIInv, Coordinated
  <1>3. Begun(x4, x4')
    BY <1>2, SameTasks DEF VectorsIInv
  <1>4. UNCHANGED <<x2, x3, x5>>
    BY DEF X!Query, X!durable
  <1>5. x12' = x12 \/ x12' = x12 + 1
    BY DEF X!Query
  <1>6. Steady
    BY <1>4, <1>5 DEF VectorsIInv, Steady, Generations
  <1> QED  BY <1>3, <1>4, <1>6, Started

LEMMA VectorsCrashStep ==
  ASSUME VectorsIInv, X!Crash
  PROVE  VectorsIInv'
  <1>1. x4' = X!Fresh /\ x5' = X!Empty /\ UNCHANGED <<x2, x12>>
    BY DEF X!Crash, X!durable
  <1>2. Over(x4')
    BY <1>1 DEF Over, Coordinated, Shaped, OneRuns, Placed, X!Fresh
  <1>3. Cached'
    BY <1>1 DEF Cached, X!Empty
  <1> QED  BY <1>1, <1>2, <1>3, AfterIt DEF VectorsIInv, Generations

----------------------------------------
(* The tasks. *)

\* Work that waits is run.
LEMMA RunPendingStep ==
  ASSUME VectorsIInv, NEW t \in x4.tasks, X!RunPending(t)
  PROVE  VectorsIInv'
  <1>1. Coordinated(X!Done(x4, t)) /\ X!Done(x4, t).tasks = x4.tasks \ {t}
    BY Less DEF VectorsIInv
  <1>2. Begun(X!Done(x4, t), x4')
    BY <1>1, VectorsRequests DEF X!RunPending
  <1>3. t.k # "rebuilt" /\ UNCHANGED <<X!durable, x5, x12>>
    BY DEF X!RunPending
  <1>4. Steady
    BY <1>3 DEF VectorsIInv, Steady, Generations, X!durable
  <1> QED  BY <1>1, <1>2, <1>3, <1>4, Started DEF X!durable

\* The operation goes on, and nothing is swapped.
LEMMA GoesOn ==
  ASSUME VectorsIInv, Steady, x5' = x5, NEW t \in x4.tasks, Running(t), t.k # "rebuilt",
         NEW x, x = x4 \/ x = X!Opened(x4) \/ x = X!Disabled(x4),
         NEW k, NEW at, NEW d, x4' = X!Next1(x, t, k, at, d),
         NEW u, u = X!Task(k, at, d), Running(u), Owner(u) = Owner(t), at = "data" => k \in DataKinds,
         Holds(u)
  PROVE  VectorsIInv'
  <1>1. Coordinated(x) /\ x.tasks = x4.tasks
    BY OtherBackend DEF VectorsIInv
  <1>2. Coordinated(x4') /\ \A v \in x4'.tasks : Running(v) => v = u
    BY <1>1, VectorsFollows
  <1>3. Cached'
    BY CachesStay
  <1> QED  BY <1>2, <1>3, AfterStep DEF Steady

\* The operation is over, and nothing is swapped.
LEMMA IsOver ==
  ASSUME VectorsIInv, Steady, x5' = x5, NEW t \in x4.tasks, Running(t), t.k # "rebuilt", Over(x4')
  PROVE  VectorsIInv'
  BY CachesStay, AfterIt DEF Steady

\* What loads or persists vectors leaves the generations that are active.
LEMMA HasOnly ==
  ASSUME NEW r, DOMAIN r = {"gen", "has", "old"}, NEW h
  PROVE  [r EXCEPT !.has = h].gen = r.gen /\ DOMAIN [r EXCEPT !.has = h] = {"gen", "has", "old"}
  OBVIOUS

LEMMA ViewIsCurrent ==
  VectorsIInv => \A c \in X!Corpora : X!View[c].gen = x2[c].gen
  BY HasOnly DEF VectorsIInv, Generations, X!View
LEMMA DataStep ==
  ASSUME VectorsIInv, NEW t \in x4.tasks,
         X!Load(t) \/ X!BeginIncremental(t) \/ X!PersistIncremental(t) \/ X!Reload(t) \/ X!MarkFailed(t)
  PROVE  VectorsIInv'
  <1>1. x5' = x5 /\ x12' = x12
    BY DEF X!Load, X!BeginIncremental, X!PersistIncremental, X!Reload, X!MarkFailed, X!durable
  <1>2. CASE X!Load(t) \/ X!Reload(t)
    <2> DEFINE k == IF t.k = "load" THEN "loaded" ELSE "refreshed"
               u == X!Task(k, "main", X!View)
    <2>1. x4' = X!Next1(x4, t, k, "main", X!View) /\ x2' = x2
      BY <1>2 DEF X!Load, X!Reload
    <2>2. u.k = k /\ u.d = X!View
      BY DEF X!Task
    <2>3. Running(t) /\ t.k # "rebuilt" /\ Running(u) /\ Owner(u) = Owner(t)
      BY <1>2, <2>2 DEF X!Load, X!Reload, Running, Owner
    <2>4. Steady
      BY <1>1, <2>1 DEF VectorsIInv, Steady, Generations
    <2>5. \A c \in X!Corpora : X!View[c].gen = x2'[c].gen
      BY <2>1, ViewIsCurrent
    <2>6. Holds(u)
      BY <2>2, <2>5 DEF Holds, Snapshots
    <2> HIDE DEF k
    <2> QED  BY <1>1, <2>1, <2>3, <2>4, <2>6, GoesOn
  <1>3. CASE X!BeginIncremental(t)
    <2> DEFINE d == [gens |-> [c \in X!Corpora |-> x2[c].gen], docs |-> X!New,
                     rebuild |-> \E c \in X!Corpora : x2[c].gen = X!None]
               u == X!Task("seeded", "main", d)
    <2>1. x4' = X!Next1(x4, t, "seeded", "main", d) /\ t.k = "begin_incremental" /\ UNCHANGED X!durable
      BY <1>3 DEF X!BeginIncremental
    <2>2. u.k = "seeded"
      BY DEF X!Task
    <2>3. Running(t) /\ Running(u) /\ Owner(u) = Owner(t)
      BY <2>1, <2>2 DEF Running, Owner
    <2>4. Steady
      BY <1>1, <2>1 DEF VectorsIInv, Steady, Generations, X!durable
    <2>5. Holds(u)
      BY <2>2 DEF Holds, Snapshots
    <2> HIDE DEF d
    <2> QED  BY <1>1, <2>1, <2>3, <2>4, <2>5, GoesOn
  <1>4. CASE X!PersistIncremental(t)
    <2>1. t.k = "persist" /\ Running(t) /\ t.k # "rebuilt" /\ Owner(t) = "incremental"
      BY <1>4 DEF X!PersistIncremental, Running, Owner
    <2>2. \A c \in X!Corpora : DOMAIN x2[c] = {"gen", "has", "old"}
      BY DEF VectorsIInv, Generations
    <2>3. CASE /\ x2' = [c \in X!Corpora |-> [x2[c] EXCEPT !.has = @ \cup t.d.docs[c]]]
               /\ x4' = X!Next1(x4, t, "refreshed", "main",
                              [c \in X!Corpora |-> [x2'[c] EXCEPT !.has = @ \cap x1[c]]])
      <3> DEFINE d == [c \in X!Corpora |-> [x2'[c] EXCEPT !.has = @ \cap x1[c]]]
                 u == X!Task("refreshed", "main", d)
      <3>1. \A c \in X!Corpora : x2'[c].gen = x2[c].gen /\ DOMAIN x2'[c] = {"gen", "has", "old"}
        BY <2>2, <2>3, HasOnly
      <3>2. \A c \in X!Corpora : d[c].gen = x2'[c].gen
        BY <3>1, HasOnly
      <3> HIDE DEF d
      <3>3. u.k = "refreshed" /\ u.d = d
        BY DEF X!Task
      <3>4. Running(u) /\ Owner(u) = Owner(t) /\ Holds(u)
        BY <2>1, <3>2, <3>3 DEF Running, Owner, Holds, Snapshots
      <3>5. Steady
        BY <1>1, <3>1 DEF VectorsIInv, Steady, Generations
      <3>6. x4' = X!Next1(x4, t, "refreshed", "main", d)
        BY <2>3 DEF d
      <3> QED  BY <1>1, <2>1, <3>4, <3>5, <3>6, GoesOn
    <2>4. ASSUME NEW s, x2' = [c \in X!Corpora |-> [x2[c] EXCEPT !.has = @ \cup s[c]]],
                 x4' = X!Next1(x4, t, "failed", "main", X!Work("incremental"))
          PROVE  VectorsIInv'
      <3> DEFINE u == X!Task("failed", "main", X!Work("incremental"))
      <3>1. \A c \in X!Corpora : x2'[c].gen = x2[c].gen /\ DOMAIN x2'[c] = {"gen", "has", "old"}
        BY <2>2, <2>4, HasOnly
      <3>2. u.k = "failed" /\ u.d.work = "incremental"
        BY DEF X!Task, X!Work
      <3>3. Running(u) /\ Owner(u) = Owner(t) /\ Holds(u)
        BY <2>1, <3>2 DEF Running, Owner, Holds, Snapshots
      <3>4. Steady
        BY <1>1, <3>1 DEF VectorsIInv, Steady, Generations
      <3> QED  BY <1>1, <2>1, <2>4, <3>3, <3>4, GoesOn
    <2> QED  BY <1>4, <2>3, <2>4 DEF X!PersistIncremental
  <1>5. CASE X!MarkFailed(t)
    <2> DEFINE u == X!Task("failed", "main", X!Work("rebuild"))
    <2>1. x4' = X!Next1(x4, t, "failed", "main", X!Work("rebuild")) /\ t.k = "mark_failed" /\ x2' = x2
      BY <1>5 DEF X!MarkFailed
    <2>2. u.k = "failed" /\ u.d.work = "rebuild"
      BY DEF X!Task, X!Work
    <2>3. Running(t) /\ Running(u) /\ Owner(u) = Owner(t) /\ Holds(u)
      BY <2>1, <2>2 DEF Running, Owner, Holds, Snapshots
    <2>4. Steady
      BY <1>1, <2>1 DEF VectorsIInv, Steady, Generations
    <2> QED  BY <1>1, <2>1, <2>3, <2>4, GoesOn
  <1> QED  BY <1>2, <1>3, <1>4, <1>5

LEMMA BeginGenerationsStep ==
  ASSUME VectorsIInv, NEW t \in x4.tasks, X!BeginRebuild(t) \/ X!BeginPersona(t)
  PROVE  VectorsIInv'
  <1> DEFINE cs == IF t.k = "begin_rebuild" THEN X!Corpora ELSE {"persona"}
             d == [gen |-> X!Newer, cs |-> cs, docs |-> x1]
             u == X!Task("embed", "vector", d)
  <1>1. t.k \in {"begin_rebuild", "begin_persona"} /\ X!BeginGenerations(cs, t)
    BY DEF X!BeginRebuild, X!BeginPersona
  <1>2. cs \subseteq X!Corpora
    BY DEF X!Corpora
  <1> HIDE DEF cs
  <1>3. /\ x3' = [c \in X!Corpora |-> IF c \in cs THEN X!Newer ELSE x3[c]]
        /\ x4' = X!Next1(x4, t, "embed", "vector", d) /\ UNCHANGED <<x2, x5, x12>>
    BY <1>1 DEF X!BeginGenerations
  <1>4. d.gen = X!Newer /\ d.cs = cs
    OBVIOUS
  <1> HIDE DEF d
  <1>5. u.k = "embed" /\ u.d = d
    BY DEF X!Task
  <1>6. Running(t) /\ t.k # "rebuilt" /\ Running(u) /\ Owner(u) = Owner(t)
    BY <1>1, <1>5 DEF Running, Owner
  <1>7. Holds(u)
    BY <1>2, <1>3, <1>4, <1>5 DEF Holds, Snapshots
  <1>8. Steady
    BY <1>3 DEF VectorsIInv, Steady, Generations
  <1> QED  BY <1>3, <1>6, <1>7, <1>8, GoesOn
\* What is built replaces the generation that is active, and its caches come next.
LEMMA ActivateStep ==
  ASSUME VectorsIInv, NEW t \in x4.tasks, X!Activate(t)
  PROVE  VectorsIInv'
  <1>1. t.k = "activate" /\ Running(t) /\ Owner(t) = "rebuild" /\ x5' = x5
    BY DEF X!Activate, Running, Owner
  <1>2. \A u \in x4.tasks : u.k # "rebuilt"
    BY <1>1 DEF VectorsIInv, Coordinated, OneRuns, Running
  <1> DEFINE m == X!Task("mark_failed", "data", t.d)
  <1>3. m.k = "mark_failed"
    BY DEF X!Task
  <1>4. Running(m) /\ Owner(m) = Owner(t) /\ Holds(m) /\ "mark_failed" \in DataKinds
    BY <1>1, <1>3 DEF Running, Owner, Holds, Snapshots, DataKinds
  <1>5. ASSUME NEW cs, X!Activated(cs, t)
        PROVE  /\ Generations'
               /\ \A c \in X!Corpora : IF c \in cs THEN x2'[c].gen = t.d.gen
                                    ELSE x2'[c] = x2[c]
    BY <1>5 DEF X!Activated, X!Built, Generations, VectorsIInv
  <1>6. CASE /\ X!Activated(t.d.cs, t) /\ x12' = x12
             /\ x4' = X!Next1(x4, t, "rebuilt", "main", t.d)
    <2> DEFINE u == X!Task("rebuilt", "main", t.d)
    <2>1. u.k = "rebuilt" /\ u.d = t.d
      BY DEF X!Task
    <2>2. Running(u) /\ Owner(u) = Owner(t)
      BY <1>1, <2>1 DEF Running, Owner
    <2>3. Holds(u)
      BY <1>5, <1>6, <2>1 DEF Holds, Snapshots
    <2>4. Coordinated(x4') /\ (\A v \in x4'.tasks : Running(v) => v = u) /\ u \in x4'.tasks
      BY <1>1, <1>6, <2>2, VectorsFollows DEF VectorsIInv
    <2>5. ASSUME x12' = 0, NEW c \in X!Corpora
          PROVE  \/ x5'[c].gen \in {X!None, x2'[c].gen}
                 \/ \E v \in x4'.tasks : v.k = "rebuilt" /\ c \in v.d.cs
      <3>1. CASE c \in t.d.cs
        BY <2>1, <2>4, <3>1
      <3>2. CASE c \notin t.d.cs
        BY <1>1, <1>2, <1>5, <1>6, <2>5, <3>2 DEF VectorsIInv, Cached
      <3> QED  BY <3>1, <3>2
    <2>6. Cached'
      BY <2>5 DEF Cached
    <2>7. Generations' /\ x12' \in Nat
      BY <1>5, <1>6 DEF VectorsIInv
    <2> HIDE DEF u
    <2> QED  BY <2>3, <2>4, <2>6, <2>7, AfterStep
  <1>7. CASE x4' = X!Next1(x4, t, "mark_failed", "data", t.d) /\ UNCHANGED <<x2, x12>>
    <2>1. Steady
      BY <1>7 DEF VectorsIInv, Steady, Generations
    <2> HIDE DEF m
    <2> QED  BY <1>1, <1>4, <1>7, <2>1, GoesOn DEF m
  <1>8. CASE /\ x12' = x12 + 1 /\ X!Activated(t.d.cs \cap {"reflection"}, t)
             /\ x4' = X!Next1(x4, t, "mark_failed", "data", t.d)
    <2>1. Generations' /\ x12' \in Nat /\ x12' # 0
      BY <1>5, <1>8 DEF VectorsIInv
    <2>2. Coordinated(x4') /\ \A v \in x4'.tasks : Running(v) => v = m
      BY <1>1, <1>4, <1>8, VectorsFollows DEF VectorsIInv
    <2>3. Cached'
      BY <2>1 DEF Cached
    <2> HIDE DEF m
    <2> QED  BY <1>4, <2>1, <2>2, <2>3, AfterStep
  <1> QED  BY <1>6, <1>7, <1>8 DEF X!Activate

LEMMA DataFailsStep ==
  ASSUME VectorsIInv, NEW t \in x4.tasks, X!DataFails(t)
  PROVE  VectorsIInv'
  <1>1. t.at = "data" /\ t.k \in DataKinds /\ UNCHANGED <<x2, x3, x5>> /\ x12' = x12 + 1
    BY DEF X!DataFails, VectorsIInv, Coordinated, Placed, X!durable
  <1>2. Running(t) /\ t.k # "rebuilt" /\ Steady
    BY <1>1 DEF Running, DataKinds, VectorsIInv, Steady, Generations
  <1>3. CASE t.k = "activate"
    <2> DEFINE u == X!Task("mark_failed", "data", t.d)
    <2>1. u.k = "mark_failed"
      BY DEF X!Task
    <2>2. Running(u) /\ Owner(u) = Owner(t) /\ Holds(u) /\ "mark_failed" \in DataKinds
      BY <1>3, <2>1 DEF Running, Owner, Holds, Snapshots, DataKinds
    <2>3. x4' = X!Next1(x4, t, "mark_failed", "data", t.d)
      BY <1>3 DEF X!DataFails
    <2> QED  BY <1>1, <1>2, <2>2, <2>3, GoesOn
  <1>4. CASE t.k # "activate"
    <2> DEFINE w == X!Work(X!WorkOf(t))
               u == X!Task("failed", "main", w)
    <2>1. x4' = X!Next1(x4, t, "failed", "main", w)
      BY <1>4 DEF X!DataFails
    <2>2. w.work = Owner(t)
      BY <1>1 DEF X!Work, X!WorkOf, Owner, DataKinds
    <2> HIDE DEF w
    <2>3. u.k = "failed" /\ u.d = w
      BY DEF X!Task
    <2>4. Running(u) /\ Owner(u) = Owner(t) /\ Holds(u)
      BY <2>2, <2>3 DEF Running, Owner, Holds, Snapshots
    <2> QED  BY <1>1, <1>2, <2>1, <2>4, GoesOn
  <1> QED  BY <1>3, <1>4

LEMMA VectorsMainStep ==
  ASSUME VectorsIInv, NEW t \in x4.tasks, X!Loaded(t) \/ X!Seeded(t) \/ X!Failed(t), UNCHANGED <<X!durable, x12>>
  PROVE  VectorsIInv'
  <1>1. x5' = x5 /\ Steady /\ Running(t) /\ t.k # "rebuilt"
    BY DEF X!Loaded, X!Seeded, X!Failed, VectorsIInv, Steady, Generations, X!durable, Running
  <1>2. CASE X!Loaded(t)
    <2> DEFINE k == IF t.k = "loaded" THEN "load_caches" ELSE "swap_caches"
               u == X!Task(k, "vector", t.d)
    <2>1. t.k \in {"loaded", "refreshed"} /\ x4' = X!Next1(x4, t, k, "vector", t.d)
      BY <1>2 DEF X!Loaded
    <2>2. u.k = k /\ u.d = t.d
      BY DEF X!Task
    <2>3. Running(u) /\ Owner(u) = Owner(t)
      BY <2>1, <2>2 DEF Running, Owner
    <2>4. Holds(u)
      BY <1>1, <2>1, <2>2 DEF VectorsIInv, VectorsSound, Current, Holds, Snapshots, Steady
    <2> HIDE DEF k
    <2> QED  BY <1>1, <2>1, <2>3, <2>4, GoesOn
  <1>3. CASE X!Failed(t)
    BY <1>1, <1>3, Ends, Finishes, IsOver DEF X!Failed, VectorsIInv
  <1>4. ASSUME X!Seeded(t), t.d.rebuild
        PROVE  VectorsIInv'
    <2> DEFINE z == [X!Done(x4, t) EXCEPT !.busy = @ \ {"incremental"}]
    <2>1. x4' = X!Rebuild(z)
      BY <1>4 DEF X!Seeded
    <2>2. Over(X!Done(x4, t)) /\ X!Done(x4, t).tasks = x4.tasks \ {t}
      BY <1>1, Ends, Less DEF VectorsIInv
    <2>3. Shaped(z) /\ z.tasks = X!Done(x4, t).tasks
      BY <2>2 DEF Over, Coordinated, Shaped
    <2> HIDE DEF z
    <2>4. Over(z)
      BY <2>2, <2>3 DEF Over, Coordinated, OneRuns, Placed
    <2>5. Begun(z, x4')
      BY <2>1, <2>4, VectorsRequests DEF Over
    <2> QED  BY <1>1, <2>2, <2>3, <2>5, Started DEF X!durable
  <1>5. ASSUME X!Seeded(t), ~t.d.rebuild
        PROVE  VectorsIInv'
    <2>1. /\ t.k = "seeded"
          /\ \/ x4' = X!Next1(x4, t, "reload", "data", X!Nothing)
             \/ x4' = X!Next1(x4, t, "embed_new", "vector", t.d)
      BY <1>5 DEF X!Seeded
    <2>2. ASSUME NEW k \in {"reload", "embed_new"}, NEW at, NEW d, at = "data" => k \in DataKinds,
                 x4' = X!Next1(x4, t, k, at, d)
          PROVE  VectorsIInv'
      <3> DEFINE u == X!Task(k, at, d)
      <3>1. u.k = k
        BY DEF X!Task
      <3>2. Running(u) /\ Owner(u) = Owner(t) /\ Holds(u)
        BY <2>1, <3>1 DEF Running, Owner, Holds, Snapshots
      <3> QED  BY <1>1, <2>2, <3>2, GoesOn
    <2> QED  BY <2>1, <2>2 DEF DataKinds
  <1> QED  BY <1>2, <1>3, <1>4, <1>5

\* The caches are swapped to what was built.
LEMMA RebuiltStep ==
  ASSUME VectorsIInv, NEW t \in x4.tasks, X!Rebuilt(t), UNCHANGED <<X!durable, x12>>
  PROVE  VectorsIInv'
  <1>1. t.k = "rebuilt" /\ Running(t) /\ UNCHANGED <<x2, x12>>
    BY DEF X!Rebuilt, Running, X!durable
  <1>2. Over(x4')
    BY <1>1, Ends, Finishes DEF X!Rebuilt, VectorsIInv
  <1>3. \A u \in x4.tasks : u.k = "rebuilt" => u = t
    BY <1>1 DEF VectorsIInv, Coordinated, OneRuns, Running
  <1>4. ASSUME x12' = 0, NEW c \in X!Corpora
        PROVE  x5'[c].gen \in {X!None, x2'[c].gen}
    <2>1. x5'[c] = IF c \in t.d.cs THEN X!Built(c, t) ELSE x5[c]
      BY DEF X!Rebuilt, X!Swapped
    <2>2. CASE c \in t.d.cs
      BY <1>1, <2>1, <2>2 DEF VectorsIInv, VectorsSound, Swaps, X!Built
    <2>3. CASE c \notin t.d.cs
      BY <1>1, <1>3, <1>4, <2>1, <2>3 DEF VectorsIInv, Cached
    <2> QED  BY <2>2, <2>3
  <1>5. Cached'
    BY <1>4 DEF Cached
  <1> QED  BY <1>1, <1>2, <1>5, AfterIt DEF VectorsIInv, Generations
LEMMA OnMainStep ==
  ASSUME VectorsIInv, NEW t \in x4.tasks, X!OnMain(t)
  PROVE  VectorsIInv'
  BY VectorsMainStep, RebuiltStep, RunPendingStep DEF X!OnMain

LEMMA VectorsRead ==
  ASSUME VectorsIInv, NEW t \in x4.tasks, X!LoadCaches(t) \/ X!SwapCaches(t), UNCHANGED <<X!durable, x9>>
  PROVE  VectorsIInv'
  <1>1. /\ t.k \in {"load_caches", "swap_caches"} /\ Running(t) /\ UNCHANGED <<x2, x3>>
        /\ x12' = x12 /\ t.k # "rebuilt"
    BY DEF X!LoadCaches, X!SwapCaches, Running, X!durable
  <1>2. Steady
    BY <1>1 DEF VectorsIInv, Steady, Generations
  <1>3. ASSUME X!LoadCaches(t), \E c \in X!Corpora : t.d[c].old
        PROVE  Over(x4')
    <2> DEFINE p == X!Task("run_rebuild", "main", X!Nothing)
               z == X!Opened(X!Done(x4, t))
               y == [z EXCEPT !.busy = @ \ {"load"}, !.persona = FALSE,
                              !.incremental = @ /\ x4.persona, !.tasks = @ \cup {p}]
    <2>1. Over(z) /\ z.tasks = x4.tasks \ {t}
      BY <1>1, Ends, Less, OtherBackend DEF VectorsIInv
    <2> HIDE DEF z
    <2>2. Shaped(y) /\ y.tasks = z.tasks \cup {p}
      BY <2>1 DEF Over, Coordinated, Shaped
    <2>3. ~Running(p) /\ p.at # "data"
      BY DEF X!Task, Running
    <2> HIDE DEF y, p
    <2>4. Over(y)
      BY <2>1, <2>2, <2>3, Stops
    <2>5. x4' = y
      BY <1>3 DEF X!LoadCaches, y, z, p
    <2> QED  BY <2>4, <2>5
  <1>4. ASSUME x5' = t.d, x4' = X!Finish(X!Opened(X!Done(x4, t)), "load", "vector")
                             \/ x4' = X!Finish(X!Done(x4, t), "incremental", "vector")
        PROVE  VectorsIInv'
    <2>1. Over(x4')
      BY <1>1, <1>4, Ends, Finishes DEF VectorsIInv
    <2>2. Cached'
      BY <1>1, <1>4 DEF VectorsIInv, VectorsSound, Current, Snapshots, Cached
    <2> QED  BY <1>2, <2>1, <2>2, AfterIt DEF Steady
  <1>5. ASSUME x5' = x5, Over(x4')
        PROVE  VectorsIInv'
    BY <1>1, <1>2, <1>5, IsOver
  <1>6. CASE X!LoadCaches(t)
    BY <1>3, <1>4, <1>5, <1>6 DEF X!LoadCaches
  <1>7. CASE X!SwapCaches(t)
    <2>1. Over(X!Finish(X!Done(x4, t), "incremental", "vector"))
      BY <1>1, Ends, Finishes DEF VectorsIInv
    <2> QED  BY <1>4, <1>5, <1>7, <2>1 DEF X!SwapCaches
  <1> QED  BY <1>6, <1>7

LEMMA EmbeddedStep ==
  ASSUME VectorsIInv, NEW t \in x4.tasks, X!Embed(t) \/ X!EmbedNew(t), UNCHANGED <<X!durable, x9>>
  PROVE  VectorsIInv'
  <1> DEFINE k == IF t.k = "embed" THEN "activate" ELSE "persist"
             u == X!Task(k, "data", t.d)
  <1>1. /\ t.k \in {"embed", "embed_new"} /\ x4' = X!Next1(X!Opened(x4), t, k, "data", t.d)
        /\ UNCHANGED <<x2, x3, x5, x12>>
    BY DEF X!Embed, X!EmbedNew, X!Embedded, X!durable
  <1>2. u.k = k /\ u.d = t.d
    BY DEF X!Task
  <1>3. /\ Running(t) /\ t.k # "rebuilt" /\ Running(u) /\ Owner(u) = Owner(t)
        /\ k \in DataKinds
    BY <1>1, <1>2 DEF Running, Owner, DataKinds
  <1>4. Holds(u)
    BY <1>1, <1>2 DEF VectorsIInv, VectorsSound, Builds, Holds, Snapshots
  <1>5. Steady
    BY <1>1 DEF VectorsIInv, Steady, Generations
  <1> HIDE DEF k
  <1> QED  BY <1>1, <1>3, <1>4, <1>5, GoesOn

LEMMA BackendFailsStep ==
  ASSUME VectorsIInv, NEW t \in x4.tasks, X!BackendFails(t), UNCHANGED <<X!durable, x9>>
  PROVE  VectorsIInv'
  <1> DEFINE x == X!Disabled(x4)
             y == [X!Done(x, t) EXCEPT !.busy = @ \ {"load"}, !.persona = FALSE,
                                     !.incremental = @ /\ x.persona]
  <1>1. /\ t.k \in {"load_caches", "embed", "embed_new"} /\ UNCHANGED <<x2, x3, x5>>
        /\ x12' = x12 \/ x12' = x12 + 1
    BY DEF X!BackendFails, X!durable
  <1>2. Running(t) /\ t.k # "rebuilt" /\ Steady
    BY <1>1 DEF VectorsIInv, Steady, Generations, Running
  <1>3. \/ t.k = "load_caches" /\ x4' = y
        \/ t.k = "embed" /\ x4' = X!Next1(x, t, "mark_failed", "data", t.d)
        \/ t.k = "embed_new" /\ x4' = X!Finish(X!Done(x, t), "incremental", "vector")
    BY DEF X!BackendFails
  <1>4. Coordinated(x) /\ x.tasks = x4.tasks /\ x = X!Disabled(x4)
    BY OtherBackend DEF VectorsIInv
  <1> HIDE DEF x
  <1>5. Over(X!Done(x, t))
    BY <1>2, <1>4, Ends
  <1>6. CASE t.k = "load_caches"
    <2>1. Shaped(y) /\ y.tasks = X!Done(x, t).tasks
      BY <1>5 DEF Over, Coordinated, Shaped
    <2> HIDE DEF y
    <2>2. Over(y)
      BY <1>5, <2>1 DEF Over, Coordinated, OneRuns, Placed
    <2> QED  BY <1>1, <1>2, <1>3, <1>6, <2>2, IsOver
  <1>7. CASE t.k = "embed"
    <2> DEFINE u == X!Task("mark_failed", "data", t.d)
    <2>1. u.k = "mark_failed"
      BY DEF X!Task
    <2>2. Running(u) /\ Owner(u) = Owner(t) /\ Holds(u) /\ "mark_failed" \in DataKinds
      BY <1>7, <2>1 DEF Running, Owner, Holds, Snapshots, DataKinds
    <2> QED  BY <1>1, <1>2, <1>3, <1>4, <1>7, <2>2, GoesOn
  <1>8. CASE t.k = "embed_new"
    BY <1>1, <1>2, <1>3, <1>5, <1>8, Finishes, IsOver
  <1> QED  BY <1>1, <1>6, <1>7, <1>8

LEMMA VectorsRetryStep ==
  ASSUME VectorsIInv, NEW t \in x4.tasks, X!Retry(t), UNCHANGED <<X!durable, x9>>
  PROVE  VectorsIInv'
  <1> DEFINE z == [X!Done(x4, t) EXCEPT !.busy = @ \ {"retry"}, !.backend = "ready"]
             y == [X!Disabled(X!Done(x4, t)) EXCEPT !.busy = @ \ {"retry"}]
  <1>1. /\ t.k = "retry" /\ UNCHANGED <<x2, x3, x5>>
        /\ x12' = x12 \/ x12' = x12 + 1
    BY DEF X!Retry, X!durable
  <1>2. Running(t) /\ t.k # "rebuilt" /\ Steady
    BY <1>1 DEF VectorsIInv, Steady, Generations, Running
  <1>3. x4' = X!StartIndex(z) \/ x4' = y
    BY DEF X!Retry
  <1>4. Over(X!Done(x4, t)) /\ X!Done(x4, t).tasks = x4.tasks \ {t}
    BY <1>2, Ends, Less DEF VectorsIInv
  <1>5. Shaped(z) /\ z.tasks = X!Done(x4, t).tasks
    BY <1>4 DEF Over, Coordinated, Shaped
  <1>6. Coordinated(X!Disabled(X!Done(x4, t))) /\ X!Disabled(X!Done(x4, t)).tasks = X!Done(x4, t).tasks
    BY <1>4, OtherBackend DEF Over
  <1>7. Shaped(y) /\ y.tasks = X!Done(x4, t).tasks
    BY <1>6 DEF Coordinated, Shaped
  <1> HIDE DEF z, y
  <1>8. Over(z) /\ Over(y)
    BY <1>4, <1>5, <1>7 DEF Over, Coordinated, OneRuns, Placed
  <1>9. CASE x4' = X!StartIndex(z)
    <2>1. Begun(z, x4')
      BY <1>8, <1>9, VectorsRequests DEF Over
    <2> QED  BY <1>1, <1>2, <1>4, <1>5, <2>1, Started
  <1>10. CASE x4' = y
    BY <1>1, <1>2, <1>8, <1>10, IsOver
  <1> QED  BY <1>3, <1>9, <1>10

LEMMA OnVectorStep ==
  ASSUME VectorsIInv, NEW t \in x4.tasks, X!OnVector(t)
  PROVE  VectorsIInv'
  BY VectorsRead, EmbeddedStep, BackendFailsStep, VectorsRetryStep, RunPendingStep DEF X!OnVector

LEMMA OnDataStep ==
  ASSUME VectorsIInv, NEW t \in x4.tasks, X!OnData(t)
  PROVE  VectorsIInv'
  BY DataStep, BeginGenerationsStep, ActivateStep, DataFailsStep DEF X!OnData

LEMMA VectorsIInvStep == VectorsIInv /\ (X!Next \/ UNCHANGED X!vars) => VectorsIInv'
  <1> SUFFICES ASSUME VectorsIInv, (X!Next \/ UNCHANGED X!vars)
               PROVE  VectorsIInv'
    OBVIOUS
  <1>1. CASE X!StartUp \/ X!OnStatus \/ X!OnChanged \/ (\E c \in X!Corpora : X!Change(c))
    BY <1>1, ControllerStep
  <1>2. CASE X!Request \/ X!Query \/ X!Crash
    BY <1>2, RequestStep, QueryStep, VectorsCrashStep
  <1>3. CASE X!Step
    BY <1>3, OnDataStep, OnMainStep, OnVectorStep DEF X!Step
  <1>4. CASE UNCHANGED X!vars
    <2>1. UNCHANGED <<X!durable, x5, x12, x4>>
      BY <1>4 DEF X!vars, X!bounds
    <2> QED  BY <2>1, Same, Asking
  <1> QED  BY <1>1, <1>2, <1>3, <1>4 DEF X!Next

VectorsInv == part = "vectors" => VectorsIInv

LEMMA VectorsStart == Init => VectorsInv
  <1> SUFFICES ASSUME Init, part = "vectors"
               PROVE  VectorsIInv
    BY DEF VectorsInv
  <1>1. X!Init
    BY DEF Init, InitOf
  <1> QED  BY <1>1, VectorsInitiallyIInv

LEMMA VectorsMoves ==
  ASSUME [Next]_vars, part = "vectors"
  PROVE  X!Next \/ UNCHANGED X!vars
  <1>1. CASE Next
    BY <1>1 DEF Next, InR, InV, InX, InG, InH, InW, InT, InJ, InM, InP, InA, InC
  <1>2. CASE UNCHANGED vars
    BY <1>2 DEF vars, X!durable, X!bounds, X!vars
  <1> QED  BY <1>1, <1>2

LEMMA VectorsStep == VectorsInv /\ [Next]_vars => VectorsInv'
  <1> SUFFICES ASSUME VectorsInv, [Next]_vars, part' = "vectors"
               PROVE  VectorsIInv'
    BY DEF VectorsInv
  <1>1. part = "vectors" /\ VectorsIInv
    BY PartStays DEF VectorsInv
  <1> QED  BY <1>1, VectorsMoves, VectorsIInvStep

LEMMA VectorsInvariance == Spec => []VectorsInv
  BY VectorsStart, VectorsStep, PTL DEF Spec

\* vector_index.py: no operation fails the generation that another one is building, and
\* without faults what is searched is of an active generation or about to be swapped, for
\* any documents, changes, requests, failures and restarts, and any order of the threads.
THEOREM IndexSound == Spec => []IndexIsSound
  <1>1. VectorsInv => IndexIsSound
    BY IsSound DEF VectorsInv, IndexIsSound
  <1> QED  BY <1>1, VectorsInvariance, PTL

----------------------------------------
(* Providers and keys. *)

\* What each save transaction knows of the settings file, the keys and the running
\* profiles at each of its steps, and what follows when it is rolled back or the process
\* dies (Saving, Writing, Voicing).
\* Its variables: disk x1, store x2, live x3, page x4, test x5, request x6, tx x7,
\*   paired x8, passed x9, report x10, edits x11, saves x12, faults x13,
\*   crashes x14

KeyOrNone == ProvidersKeys \cup {P!NoKey}
ProvidersStore == [P!Domains -> KeyOrNone]
ProfileTx ==
  [kind : {"profiles"}, at : {"marker", "keys", "retire", "undo"}, doc : P!Document,
   writes : SUBSET ProvidersProfiles, deletes : SUBSET P!Domains, touched : SUBSET P!Domains,
   disk : P!Document, store : ProvidersStore, paired : ProvidersStore, live : P!Document,
   marked : BOOLEAN, whole : BOOLEAN]
VoiceTx ==
  [kind : {"voice"}, at : {"marker", "key", "services", "restore", "keyback"}, doc : P!Document,
   key : KeyOrNone, before : KeyOrNone, wrote : BOOLEAN, touched : SUBSET P!Domains,
   disk : P!Document, store : ProvidersStore, paired : ProvidersStore, live : P!Document]
Page == [doc : P!Document, base : P!Document, keys : [ProvidersProfiles -> KeyOrNone],
         proved : SUBSET ProvidersProfiles]
Request == [p : ProvidersProfiles, url : ProvidersUrls, pair : KeyOrNone, key : KeyOrNone]

\* What holds of the constants: what is shipped is among the rest, and the target
\* of the voice's own key is none of a profile.
ProvidersParameters ==
  /\ ProvidersShippedUrl \in ProvidersUrls /\ ProvidersShippedModel \in ProvidersModels /\ ProvidersFirstKey \in ProvidersKeys
  /\ <<"voice", "independent">> \notin ProvidersProfiles \X ProvidersUrls

ProvidersTyped ==
  /\ ProvidersParameters
  /\ x1 \in P!Document /\ x3 \in P!Document
  /\ x2 \in ProvidersStore /\ x8 \in ProvidersStore
  /\ x4 \in Page
  /\ x7 = P!NoTx \/ x7 \in ProfileTx \/ x7 \in VoiceTx
  /\ x6 = P!NoRequest \/ x6 \in Request
  /\ x10 \in {"none", "refused", "saved", "kept", "closed"}
  /\ x13 \in Nat /\ x14 \in Nat

\* What d enables has in s the key that pr says it was enabled with.
PairedBy(d, s, pr) ==
  \A p \in ProvidersProfiles : d.of[p].on => s[P!DomainOf(d, p)] = pr[P!DomainOf(d, p)]

\* What is enabled in the file has its key at every step; what is enabled in
\* the router has it unless a save of the profiles is on its way.
Pairs ==
  /\ PairedBy(x1, x2, x8)
  /\ x7 \notin ProfileTx => PairedBy(x3, x2, x8)

\* No save of the profiles begins during a request.
Asks ==
  x6 # P!NoRequest =>
    /\ x7 \notin ProfileTx
    /\ x2[<<x6.p, x6.url>>] = x6.pair
    /\ x6.key # P!NoKey => x6.key = x6.pair

\* A save of the profiles: until its marker is in the file nothing has changed; then
\* the file enables nothing, and the keys it did not touch are those of before.
Saving ==
  x7 \in ProfileTx =>
    /\ PairedBy(x7.disk, x7.store, x7.paired) /\ PairedBy(x7.live, x7.store, x7.paired)
    /\ x3 = x7.live /\ x8 = x7.paired /\ x7.doc.of = x4.doc.of
    /\ ~x7.marked => x1 = x7.disk /\ x2 = x7.store /\ x7.touched = {}
    /\ x7.marked => \A p \in ProvidersProfiles : ~x1.of[p].on
    /\ x7.at \in {"keys", "retire"} => x7.marked
    /\ x7.whole => \A d \in P!Domains \ x7.touched : x2[d] = x7.store[d]
    /\ x7.at # "undo" => x7.whole
    /\ ~x7.whole => x13 # 0

\* ... and its keys are where its document wants them, but for those to be written.
Writing ==
  x7 \in ProfileTx /\ x7.at # "undo" =>
    /\ x7.at = "retire" => x7.writes = {}
    /\ \A p \in x7.writes : x4.keys[p] # P!NoKey
    /\ \A p \in ProvidersProfiles : x4.doc.of[p].role => x4.doc.of[p].ok
    /\ \A p \in ProvidersProfiles : x4.doc.of[p].here =>
         /\ P!DomainOf(x4.doc, p) \notin x7.deletes
         /\ x2[P!DomainOf(x4.doc, p)] =
              IF x4.keys[p] # P!NoKey /\ p \notin x7.writes THEN x4.keys[p]
              ELSE x7.store[P!DomainOf(x4.doc, p)]

\* A save of the voice section touches no key of a profile.
Voicing ==
  x7 \in VoiceTx =>
    /\ PairedBy(x7.disk, x7.store, x7.paired)
    /\ x7.doc.of = x3.of
    /\ \A d \in ProvidersProfiles \X ProvidersUrls : x2[d] = x7.store[d] /\ x8[d] = x7.paired[d]

\* The keys before the save of the profiles that is on its way
ProvidersBefore == IF x7 \in ProfileTx THEN x7.store ELSE x2
KeyIn(s, p) == IF x4.keys[p] # P!NoKey THEN x4.keys[p] ELSE s[P!DomainOf(x4.doc, p)]

\* Without faults, what the page marks as tested passed with the key it has there, and
\* what runs a task passed with the key it has in the store.
PageIsTested(s) ==
  \A p \in ProvidersProfiles : x4.doc.of[p].ok =>
    /\ x4.doc.of[p].here
    /\ <<p, x4.doc.of[p].url, x4.doc.of[p].model, KeyIn(s, p)>> \in x9
LiveIsTested(s) ==
  \A p \in ProvidersProfiles : x3.of[p].role /\ x3.of[p].on =>
    <<p, x3.of[p].url, x3.of[p].model, s[P!DomainOf(x3, p)]>> \in x9
Proven ==
  x13 = 0 /\ x14 = 0 => PageIsTested(ProvidersBefore) /\ LiveIsTested(ProvidersBefore)

ProvidersIInv == ProvidersTyped /\ Pairs /\ Asks /\ Saving /\ Writing /\ Voicing /\ Proven
----------------------------------------
(* The shapes of the transactions and of the domains. *)

LEMMA ProvidersShapes ==
  /\ P!NoTx \notin ProfileTx /\ P!NoTx \notin VoiceTx
  /\ \A t \in ProfileTx : t # P!NoTx /\ t.kind = "profiles" /\ t \notin VoiceTx
  /\ \A t \in VoiceTx : t # P!NoTx /\ t.kind = "voice" /\ t \notin ProfileTx
  <1>1. \A t \in ProfileTx : t.kind = "profiles" /\ DOMAIN t # DOMAIN P!NoTx
    BY DEF ProfileTx, P!NoTx, P!NoRequest
  <1>2. \A t \in VoiceTx : t.kind = "voice" /\ DOMAIN t # DOMAIN P!NoTx
    BY DEF VoiceTx, P!NoTx, P!NoRequest
  <1> QED  BY <1>1, <1>2

LEMMA SomeRequest == \A r \in Request : r # P!NoRequest
  <1>1. \A r \in Request : DOMAIN r # DOMAIN P!NoRequest
    BY DEF Request, P!NoRequest
  <1> QED  BY <1>1

LEMMA ProvidersAssumed == (ProvidersIInv => ProvidersParameters) /\ (ProvidersTyped => ProvidersParameters)
  BY DEF ProvidersIInv, ProvidersTyped

LEMMA DomainsDiffer ==
  ASSUME ProvidersParameters, NEW d, d.of \in [ProvidersProfiles -> P!Profile], NEW p \in ProvidersProfiles
  PROVE  /\ P!DomainOf(d, p) = <<p, d.of[p].url>>
         /\ P!DomainOf(d, p) \in ProvidersProfiles \X ProvidersUrls
         /\ P!DomainOf(d, p) \in P!Domains
         /\ P!DomainOf(d, p) # P!Voice
  <1>1. d.of[p].url \in ProvidersUrls
    BY DEF P!Profile
  <1> QED  BY <1>1 DEF ProvidersParameters, P!DomainOf, P!Domains, P!Voice

LEMMA Fields ==
  ASSUME ProvidersTyped
  PROVE  /\ x1.of \in [ProvidersProfiles -> P!Profile] /\ x3.of \in [ProvidersProfiles -> P!Profile]
         /\ x4.doc.of \in [ProvidersProfiles -> P!Profile]
         /\ x4.doc \in P!Document /\ x4.base \in P!Document
         /\ x4.keys \in [ProvidersProfiles -> KeyOrNone]
  BY DEF ProvidersTyped, Page, P!Document

LEMMA SavingFields ==
  ASSUME NEW t \in ProfileTx
  PROVE  /\ t.at \in {"marker", "keys", "retire", "undo"}
         /\ t.doc \in P!Document /\ t.disk \in P!Document /\ t.live \in P!Document
         /\ t.doc.of \in [ProvidersProfiles -> P!Profile] /\ t.disk.of \in [ProvidersProfiles -> P!Profile]
         /\ t.live.of \in [ProvidersProfiles -> P!Profile]
         /\ t.writes \in SUBSET ProvidersProfiles /\ t.deletes \in SUBSET P!Domains
         /\ t.touched \in SUBSET P!Domains
         /\ t.store \in ProvidersStore /\ t.paired \in ProvidersStore
         /\ t.marked \in BOOLEAN /\ t.whole \in BOOLEAN
  BY DEF ProfileTx, P!Document

LEMMA VoiceFields ==
  ASSUME NEW t \in VoiceTx
  PROVE  /\ t.at \in {"marker", "key", "services", "restore", "keyback"}
         /\ t.doc \in P!Document /\ t.disk \in P!Document /\ t.live \in P!Document
         /\ t.doc.of \in [ProvidersProfiles -> P!Profile] /\ t.disk.of \in [ProvidersProfiles -> P!Profile]
         /\ t.key \in KeyOrNone /\ t.before \in KeyOrNone
         /\ t.store \in ProvidersStore /\ t.paired \in ProvidersStore /\ t.wrote \in BOOLEAN
  BY DEF VoiceTx, P!Document

LEMMA OffIsDocument ==
  ASSUME NEW d \in P!Document
  PROVE  /\ P!Off(d) \in P!Document
         /\ P!Off(d).of \in [ProvidersProfiles -> P!Profile]
         /\ \A p \in ProvidersProfiles : ~P!Off(d).of[p].on
  BY DEF P!Off, P!Document, P!Profile

LEMMA FreshIsPage ==
  ASSUME NEW d \in P!Document
  PROVE  /\ P!Fresh(d) \in Page /\ P!Fresh(d).doc = d
         /\ \A p \in ProvidersProfiles : P!Fresh(d).keys[p] = P!NoKey
  BY DEF P!Fresh, Page, KeyOrNone

\* What is at work
LEMMA AtProfiles ==
  ASSUME ProvidersTyped, NEW where, P!At("profiles", where)
  PROVE  x7 \in ProfileTx /\ x7.at = where /\ x7.kind = "profiles" /\ x7 \notin VoiceTx /\ x7 # P!NoTx
  BY ProvidersShapes DEF ProvidersTyped, P!At

LEMMA AtVoice ==
  ASSUME ProvidersTyped, NEW where, P!At("voice", where)
  PROVE  x7 \in VoiceTx /\ x7.at = where /\ x7.kind = "voice" /\ x7 \notin ProfileTx /\ x7 # P!NoTx
  BY ProvidersShapes DEF ProvidersTyped, P!At
----------------------------------------
LEMMA ProvidersInitiallyIInv ==
  ASSUME ProvidersParameters, P!Init
  PROVE  ProvidersIInv
  <1> USE DEF P!Init
  <1>1. P!Gone \in P!Profile /\ [P!Gone EXCEPT !.here = TRUE, !.on = TRUE, !.ok = TRUE, !.role = TRUE] \in P!Profile
    BY  DEF ProvidersParameters, P!Gone, P!Profile
  <1>2. x1 \in P!Document
    BY <1>1 DEF P!Document
  <1>3. ProvidersFirstKey \in KeyOrNone /\ P!NoKey \in KeyOrNone
    BY  DEF ProvidersParameters, KeyOrNone
  <1>4. x2 \in ProvidersStore
    BY <1>3 DEF ProvidersStore
  <1>5. x4 \in Page
    BY <1>2, FreshIsPage
  <1>6. ProvidersTyped
    BY <1>2, <1>4, <1>5 DEF ProvidersTyped
  <1>7. x7 \notin ProfileTx /\ x7 \notin VoiceTx
    BY ProvidersShapes
  <1>8. Pairs /\ Asks /\ Saving /\ Writing /\ Voicing
    BY <1>7 DEF Pairs, PairedBy, Asks, Saving, Writing, Voicing
  <1>9. ProvidersBefore = x2 /\ x4.doc = x1 /\ \A p \in ProvidersProfiles : x4.keys[p] = P!NoKey
    BY <1>2, <1>7, FreshIsPage DEF ProvidersBefore
  <1>10. ASSUME NEW p \in ProvidersProfiles, x1.of[p].ok \/ x1.of[p].role
         PROVE  /\ p \in ProvidersShipped /\ x1.of[p].here
                /\ x1.of[p].url = ProvidersShippedUrl /\ x1.of[p].model = ProvidersShippedModel
                /\ x2[P!DomainOf(x1, p)] = ProvidersFirstKey
    <2>1. p \in ProvidersShipped /\ x1.of[p].here /\ x1.of[p].url = ProvidersShippedUrl
          /\ x1.of[p].model = ProvidersShippedModel
      BY <1>10 DEF P!Gone
    <2>2. P!DomainOf(x1, p) \in (ProvidersShipped \X {ProvidersShippedUrl}) \cup {P!Voice}
      BY <2>1 DEF P!DomainOf
    <2>3. P!DomainOf(x1, p) \in P!Domains
      BY <1>2, DomainsDiffer DEF P!Document
    <2> QED  BY <2>1, <2>2, <2>3
  <1>11. \A p \in ProvidersShipped : <<p, ProvidersShippedUrl, ProvidersShippedModel, ProvidersFirstKey>> \in x9
    OBVIOUS
  <1> HIDE DEF P!Init
  <1>12. PageIsTested(x2)
    BY <1>9, <1>10, <1>11 DEF PageIsTested, KeyIn
  <1>13. LiveIsTested(x2)
    <2>1. x3 = x1
      BY DEF P!Init
    <2> QED  BY <1>10, <1>11, <2>1 DEF LiveIsTested
  <1> QED  BY <1>6, <1>8, <1>9, <1>12, <1>13 DEF ProvidersIInv, Proven
----------------------------------------
(* The page *)

\* Steps that only change the page and what passed: nobody saves.
LEMMA PageStep ==
  ASSUME ProvidersIInv, x7 = P!NoTx, x7' = x7, x4' \in Page,
         UNCHANGED <<P!durable, x3, x6, x10, x13, x14>>,
         x9 \subseteq x9',
         x13 = 0 /\ x14 = 0 => PageIsTested(x2)'
  PROVE  ProvidersIInv'
  <1>1. /\ x1' = x1 /\ x2' = x2 /\ x8' = x8 /\ x3' = x3
        /\ x6' = x6 /\ x10' = x10 /\ x13' = x13 /\ x14' = x14
    BY DEF P!durable
  <1>2. ProvidersTyped'
    BY <1>1 DEF ProvidersIInv, ProvidersTyped
  <1>3. /\ x7 \notin ProfileTx /\ x7 \notin VoiceTx /\ x7' \notin ProfileTx /\ x7' \notin VoiceTx
    BY ProvidersShapes
  <1>4. Pairs'
    BY <1>1, <1>3 DEF ProvidersIInv, Pairs, PairedBy, P!DomainOf
  <1>5. Asks'
    BY <1>1, <1>3 DEF ProvidersIInv, Asks
  <1>6. Saving' /\ Writing' /\ Voicing'
    BY <1>3 DEF Saving, Writing, Voicing
  <1>7. ProvidersBefore = x2 /\ ProvidersBefore' = x2'
    BY <1>3 DEF ProvidersBefore
  <1>8. ASSUME x13 = 0, x14 = 0
        PROVE  LiveIsTested(x2)'
    <2>1. LiveIsTested(x2)
      BY <1>7, <1>8 DEF ProvidersIInv, Proven
    <2> QED  BY <1>1, <2>1 DEF LiveIsTested, P!DomainOf
  <1>9. Proven'
    BY <1>1, <1>7, <1>8 DEF Proven
  <1> QED  BY <1>2, <1>4, <1>5, <1>6, <1>9 DEF ProvidersIInv

\* An edit that leaves the mark only where the request stays the same
LEMMA EditStep ==
  ASSUME ProvidersIInv, NEW p \in ProvidersProfiles, NEW new \in P!Profile, P!Edits(p, new),
         new.ok =>
           /\ x4.doc.of[p].ok /\ new.here
           /\ new.url = x4.doc.of[p].url /\ new.model = x4.doc.of[p].model
  PROVE  ProvidersIInv'
  <1>1. /\ x7 = P!NoTx /\ x7' = x7 /\ x9' = x9
        /\ x4' = [x4 EXCEPT !.doc.of[p] = new]
        /\ UNCHANGED <<P!durable, x3, x6, x10, x13, x14>>
    BY DEF P!Edits
  <1>2. x4 \in Page /\ x4.doc \in P!Document /\ x4.doc.of \in [ProvidersProfiles -> P!Profile]
    BY Fields DEF ProvidersIInv, ProvidersTyped
  <1>3. /\ x4'.keys = x4.keys
        /\ \A q \in ProvidersProfiles : x4'.doc.of[q] = IF q = p THEN new ELSE x4.doc.of[q]
    BY <1>1, <1>2 DEF Page, P!Document
  <1>4. x4' \in Page
    BY <1>1, <1>2 DEF Page, P!Document
  <1>5. ASSUME x13 = 0, x14 = 0
        PROVE  PageIsTested(x2)'
    <2>1. PageIsTested(x2)
      BY <1>1, <1>5, ProvidersShapes DEF ProvidersIInv, Proven, ProvidersBefore
    <2>2. x2' = x2
      BY <1>1 DEF P!durable
    <2>3. ASSUME NEW q \in ProvidersProfiles, x4'.doc.of[q].ok
          PROVE  /\ x4.doc.of[q].ok /\ x4'.doc.of[q].here
                 /\ x4'.doc.of[q].url = x4.doc.of[q].url
                 /\ x4'.doc.of[q].model = x4.doc.of[q].model
      BY <1>3, <2>1, <2>3 DEF PageIsTested
    <2>4. \A q \in ProvidersProfiles : x4'.doc.of[q].ok => KeyIn(x2, q)' = KeyIn(x2, q)
      BY <1>3, <2>2, <2>3 DEF KeyIn, P!DomainOf
    <2> QED  BY <1>1, <2>1, <2>3, <2>4 DEF PageIsTested
  <1> QED  BY <1>1, <1>4, <1>5, PageStep

LEMMA ConfigureStep ==
  ASSUME ProvidersIInv, NEW p \in ProvidersProfiles, P!Configure(p)
  PROVE  ProvidersIInv'
  <1>1. PICK u \in ProvidersUrls, m \in ProvidersModels :
          P!Edits(p, [x4.doc.of[p] EXCEPT !.url = u, !.model = m, !.ok = FALSE])
    BY DEF P!Configure
  <1> DEFINE new == [x4.doc.of[p] EXCEPT !.url = u, !.model = m, !.ok = FALSE]
  <1>2. new \in P!Profile /\ ~new.ok
    BY Fields DEF ProvidersIInv, P!Profile
  <1> HIDE DEF new
  <1> QED  BY <1>1, <1>2, EditStep DEF new

LEMMA ToggleStep ==
  ASSUME ProvidersIInv, NEW p \in ProvidersProfiles, P!Toggle(p)
  PROVE  ProvidersIInv'
  <1> DEFINE new == [x4.doc.of[p] EXCEPT !.on = ~@]
  <1>1. /\ new \in P!Profile /\ new.ok = x4.doc.of[p].ok /\ new.here = x4.doc.of[p].here
        /\ new.url = x4.doc.of[p].url /\ new.model = x4.doc.of[p].model
    BY Fields DEF ProvidersIInv, P!Profile
  <1>2. P!Edits(p, new) /\ x4.doc.of[p].here
    BY DEF P!Toggle
  <1> HIDE DEF new
  <1> QED  BY <1>1, <1>2, EditStep

LEMMA AssignStep ==
  ASSUME ProvidersIInv, NEW p \in ProvidersProfiles, P!Assign(p)
  PROVE  ProvidersIInv'
  <1> DEFINE new == [x4.doc.of[p] EXCEPT !.role = ~@]
  <1>1. /\ new \in P!Profile /\ new.ok = x4.doc.of[p].ok /\ new.here = x4.doc.of[p].here
        /\ new.url = x4.doc.of[p].url /\ new.model = x4.doc.of[p].model
    BY Fields DEF ProvidersIInv, P!Profile
  <1>2. P!Edits(p, new) /\ x4.doc.of[p].here
    BY DEF P!Assign
  <1> HIDE DEF new
  <1> QED  BY <1>1, <1>2, EditStep

LEMMA AddProfileStep ==
  ASSUME ProvidersIInv, NEW p \in ProvidersProfiles, P!AddProfile(p)
  PROVE  ProvidersIInv'
  <1> DEFINE new == [P!Gone EXCEPT !.here = TRUE]
  <1>1. new \in P!Profile /\ ~new.ok
    BY ProvidersAssumed DEF ProvidersParameters, P!Gone, P!Profile
  <1>2. P!Edits(p, new)
    BY DEF P!AddProfile
  <1> HIDE DEF new
  <1> QED  BY <1>1, <1>2, EditStep

\* The mark and the key of p go.
LEMMA UnmarkStep ==
  ASSUME ProvidersIInv, NEW p \in ProvidersProfiles, NEW new \in P!Profile, ~new.ok, NEW k \in KeyOrNone,
         x7 = P!NoTx, x7' = x7, x9' = x9,
         x4' = [x4 EXCEPT !.doc.of[p] = new, !.keys[p] = k, !.proved = @ \ {p}],
         UNCHANGED <<P!durable, x3, x6, x10, x13, x14>>
  PROVE  ProvidersIInv'
  <1>1. x4 \in Page /\ x4.doc \in P!Document /\ x4.doc.of \in [ProvidersProfiles -> P!Profile]
    BY Fields DEF ProvidersIInv, ProvidersTyped
  <1>2. \A q \in ProvidersProfiles \ {p} : x4'.keys[q] = x4.keys[q] /\ x4'.doc.of[q] = x4.doc.of[q]
    BY <1>1 DEF Page, P!Document
  <1>3. ~x4'.doc.of[p].ok
    BY <1>1 DEF Page, P!Document
  <1>4. x4' \in Page
    BY <1>1 DEF Page, P!Document
  <1>5. ASSUME x13 = 0, x14 = 0
        PROVE  PageIsTested(x2)'
    <2>1. PageIsTested(x2)
      BY <1>5, ProvidersShapes DEF ProvidersIInv, Proven, ProvidersBefore
    <2>2. x2' = x2
      BY DEF P!durable
    <2> QED  BY <1>2, <1>3, <2>1, <2>2 DEF PageIsTested, KeyIn, P!DomainOf
  <1> QED  BY <1>4, <1>5, PageStep

LEMMA DeleteProfileStep ==
  ASSUME ProvidersIInv, NEW p \in ProvidersProfiles, P!DeleteProfile(p)
  PROVE  ProvidersIInv'
  <1>1. P!Gone \in P!Profile /\ ~P!Gone.ok /\ P!NoKey \in KeyOrNone
    BY ProvidersAssumed DEF ProvidersParameters, P!Gone, P!Profile, KeyOrNone
  <1> QED  BY <1>1, UnmarkStep DEF P!DeleteProfile

LEMMA TypeKeyStep ==
  ASSUME ProvidersIInv, NEW p \in ProvidersProfiles, P!TypeKey(p)
  PROVE  ProvidersIInv'
  <1>1. PICK k \in KeyOrNone :
          x4' = [x4 EXCEPT !.doc.of[p].ok = FALSE, !.keys[p] = k, !.proved = @ \ {p}]
    BY DEF P!TypeKey, KeyOrNone
  <1> DEFINE new == [x4.doc.of[p] EXCEPT !.ok = FALSE]
  <1>2. new \in P!Profile /\ ~new.ok
    BY Fields DEF ProvidersIInv, P!Profile
  <1>3. x4' = [x4 EXCEPT !.doc.of[p] = new, !.keys[p] = k, !.proved = @ \ {p}]
    BY <1>1
  <1> HIDE DEF new
  <1> QED  BY <1>2, <1>3, UnmarkStep DEF P!TypeKey

LEMMA StartTestStep ==
  ASSUME ProvidersIInv, NEW p \in ProvidersProfiles, P!StartTest(p)
  PROVE  ProvidersIInv'
  <1>1. /\ x7 = P!NoTx /\ x7' = x7 /\ x4' = x4 /\ x9' = x9
        /\ UNCHANGED <<P!durable, x3, x6, x10, x13, x14>>
    BY DEF P!StartTest, P!bounds
  <1>2. x13 = 0 /\ x14 = 0 => PageIsTested(x2)'
    <2>1. x2' = x2
      BY <1>1 DEF P!durable
    <2> QED  BY <1>1, <2>1, ProvidersShapes DEF ProvidersIInv, Proven, ProvidersBefore, PageIsTested, KeyIn, P!DomainOf
  <1> QED  BY <1>1, <1>2, PageStep DEF ProvidersIInv, ProvidersTyped

LEMMA TestFailsStep ==
  ASSUME ProvidersIInv, P!TestFails
  PROVE  ProvidersIInv'
  <1>1. /\ x7 = P!NoTx /\ x7' = x7 /\ x4' = x4 /\ x9' = x9
        /\ UNCHANGED <<P!durable, x3, x6, x10, x13, x14>>
    BY DEF P!TestFails, P!bounds
  <1>2. x13 = 0 /\ x14 = 0 => PageIsTested(x2)'
    <2>1. x2' = x2
      BY <1>1 DEF P!durable
    <2> QED  BY <1>1, <2>1, ProvidersShapes DEF ProvidersIInv, Proven, ProvidersBefore, PageIsTested, KeyIn, P!DomainOf
  <1> QED  BY <1>1, <1>2, PageStep DEF ProvidersIInv, ProvidersTyped

\* The mark is given to the request and the key that passed.
LEMMA TestPassesStep ==
  ASSUME ProvidersIInv, NEW p \in ProvidersProfiles, P!TestPasses(p)
  PROVE  ProvidersIInv'
  <1>1. /\ x7 = P!NoTx /\ x7' = x7 /\ x9' = x9 \cup {x5}
        /\ x4' = IF P!Accepts(p) THEN P!Marked(p) ELSE x4
        /\ UNCHANGED <<P!durable, x3, x6, x10, x13, x14>>
    BY DEF P!TestPasses, P!bounds
  <1>2. x4 \in Page /\ x4.doc \in P!Document /\ x4.doc.of \in [ProvidersProfiles -> P!Profile]
    BY Fields DEF ProvidersIInv, ProvidersTyped
  <1>3. x4' \in Page
    <2>1. [x4.doc EXCEPT !.of[p].ok = TRUE] \in P!Document
      BY <1>2 DEF P!Document, P!Profile
    <2> DEFINE d == [x4.doc EXCEPT !.of[p].ok = TRUE]
               proved == IF x4.keys[p] # P!NoKey THEN x4.proved \cup {p} ELSE x4.proved \ {p}
    <2>2. proved \in SUBSET ProvidersProfiles
      BY <1>2 DEF Page
    <2>3. P!Marked(p) = [x4 EXCEPT !.doc = d, !.proved = proved]
      BY <1>2 DEF P!Marked, Page
    <2> HIDE DEF d, proved
    <2>4. P!Marked(p) \in Page
      BY <1>2, <2>1, <2>2, <2>3 DEF Page, d
    <2> QED  BY <1>1, <1>2, <2>4
  <1>4. /\ x4'.keys = x4.keys
        /\ \A q \in ProvidersProfiles :
             /\ x4'.doc.of[q].url = x4.doc.of[q].url
             /\ x4'.doc.of[q].model = x4.doc.of[q].model
             /\ x4'.doc.of[q].here = x4.doc.of[q].here
             /\ x4'.doc.of[q].ok => x4.doc.of[q].ok \/ (q = p /\ P!Accepts(p))
    BY <1>1, <1>2 DEF P!Marked, Page, P!Document, P!Profile
  <1>5. x2' = x2
    BY <1>1 DEF P!durable
  <1>6. \A q \in ProvidersProfiles : KeyIn(x2, q)' = KeyIn(x2, q)
    BY <1>4, <1>5 DEF KeyIn, P!DomainOf
  <1>7. P!Accepts(p) =>
          /\ x4.doc.of[p].here
          /\ x5 = <<p, x4.doc.of[p].url, x4.doc.of[p].model, KeyIn(x2, p)>>
    BY DEF P!Accepts, P!Tuple, P!KeyFor, KeyIn
  <1>8. x13 = 0 /\ x14 = 0 => PageIsTested(x2)
    BY <1>1, ProvidersShapes DEF ProvidersIInv, Proven, ProvidersBefore
  <1>9. x13 = 0 /\ x14 = 0 => PageIsTested(x2)'
    BY <1>1, <1>4, <1>6, <1>7, <1>8 DEF PageIsTested
  <1> QED  BY <1>1, <1>3, <1>9, PageStep
----------------------------------------
(* Requests *)

\* Steps that only change the request
LEMMA ProvidersRequestStep ==
  ASSUME ProvidersIInv, UNCHANGED <<P!durable, x3, x4, x7, x9, x10, x13, x14>>,
         x6' = P!NoRequest \/ x6' \in Request, Asks'
  PROVE  ProvidersIInv'
  <1>1. /\ x1' = x1 /\ x2' = x2 /\ x8' = x8 /\ x3' = x3 /\ x4' = x4
        /\ x7' = x7 /\ x9' = x9 /\ x10' = x10 /\ x13' = x13 /\ x14' = x14
    BY DEF P!durable
  <1>2. ProvidersTyped'
    BY <1>1 DEF ProvidersIInv, ProvidersTyped
  <1>3. Pairs' /\ Voicing'
    BY <1>1 DEF ProvidersIInv, Pairs, PairedBy, P!DomainOf, Voicing
  <1>4. Saving' /\ Writing'
    BY <1>1 DEF ProvidersIInv, Saving, Writing, PairedBy, P!DomainOf
  <1>5. Proven'
    BY <1>1 DEF ProvidersIInv, Proven, ProvidersBefore, PageIsTested, LiveIsTested, KeyIn, P!DomainOf
  <1> QED  BY <1>2, <1>3, <1>4, <1>5 DEF ProvidersIInv

LEMMA ProvidersCaptureStep ==
  ASSUME ProvidersIInv, NEW p \in ProvidersProfiles, P!Capture(p)
  PROVE  ProvidersIInv'
  <1> DEFINE r == [p |-> p, url |-> x3.of[p].url, pair |-> x8[P!DomainOf(x3, p)], key |-> P!NoKey]
  <1>1. x7 = P!NoTx /\ x7' = x7 /\ x3.of[p].on /\ x6' = r /\ x2' = x2
    BY DEF P!Capture, P!durable
  <1>2. x3.of \in [ProvidersProfiles -> P!Profile] /\ x2 \in ProvidersStore /\ x8 \in ProvidersStore
    BY Fields DEF ProvidersIInv, ProvidersTyped
  <1>3. P!DomainOf(x3, p) = <<p, x3.of[p].url>> /\ P!DomainOf(x3, p) \in P!Domains
    BY <1>2, ProvidersAssumed, DomainsDiffer
  <1>4. x3.of[p].url \in ProvidersUrls /\ x8[P!DomainOf(x3, p)] \in KeyOrNone /\ P!NoKey \in KeyOrNone
    BY <1>2, <1>3 DEF P!Profile, ProvidersStore, KeyOrNone
  <1>5. r \in Request
    BY <1>4 DEF Request
  <1>6. x2[P!DomainOf(x3, p)] = x8[P!DomainOf(x3, p)]
    BY <1>1, ProvidersShapes DEF ProvidersIInv, Pairs, PairedBy
  <1>7. Asks'
    BY <1>1, <1>3, <1>6, ProvidersShapes DEF Asks
  <1> QED  BY <1>1, <1>5, <1>7, ProvidersRequestStep DEF P!Capture, P!bounds

LEMMA ReadKeyStep ==
  ASSUME ProvidersIInv, P!ReadKey
  PROVE  ProvidersIInv'
  <1>1. /\ x6 # P!NoRequest /\ x6' = [x6 EXCEPT !.key = x2[<<x6.p, x6.url>>]]
        /\ x2' = x2 /\ x7' = x7
    BY DEF P!ReadKey, P!durable
  <1>2. x6 \in Request /\ x2 \in ProvidersStore
    BY <1>1 DEF ProvidersIInv, ProvidersTyped
  <1>3. <<x6.p, x6.url>> \in P!Domains
    BY <1>2 DEF Request, P!Domains
  <1>4. x2[<<x6.p, x6.url>>] \in KeyOrNone
    BY <1>2, <1>3 DEF ProvidersStore
  <1>5. x6' \in Request
    BY <1>1, <1>2, <1>4 DEF Request
  <1>6. /\ x6'.p = x6.p /\ x6'.url = x6.url /\ x6'.pair = x6.pair
        /\ x6'.key = x2[<<x6.p, x6.url>>]
    BY <1>1, <1>2 DEF Request
  <1>7. Asks'
    BY <1>1, <1>6 DEF ProvidersIInv, Asks
  <1> QED  BY <1>5, <1>7, ProvidersRequestStep DEF P!ReadKey, P!bounds

LEMMA RequestEndsStep ==
  ASSUME ProvidersIInv, P!RequestEnds
  PROVE  ProvidersIInv'
  BY ProvidersRequestStep DEF P!RequestEnds, P!bounds, Asks
----------------------------------------
(* Saving the profiles *)

LEMMA SaveStep ==
  ASSUME ProvidersIInv, P!Save
  PROVE  ProvidersIInv'
  <1>1. /\ x7 = P!NoTx /\ P!Saveable
        /\ x1' = x1 /\ x2' = x2 /\ x8' = x8 /\ x3' = x3 /\ x4' = x4
        /\ x6' = x6 /\ x9' = x9 /\ x14' = x14
    BY DEF P!Save, P!durable
  <1>2. /\ x7 \notin ProfileTx /\ x7 \notin VoiceTx
        /\ x13 \in Nat /\ x2 \in ProvidersStore /\ x8 \in ProvidersStore
        /\ x1 \in P!Document /\ x3 \in P!Document /\ x4.doc \in P!Document
        /\ x4.keys \in [ProvidersProfiles -> KeyOrNone] /\ x3.of \in [ProvidersProfiles -> P!Profile]
        /\ x4.doc.of \in [ProvidersProfiles -> P!Profile]
    BY <1>1, ProvidersShapes, Fields DEF ProvidersIInv, ProvidersTyped
  <1>3. CASE x7' = x7 /\ (x10' = x10 \/ x10' = "refused") /\ (x13' = x13 \/ x13' = x13 + 1)
    <2>1. ProvidersTyped'
      BY <1>1, <1>2, <1>3 DEF ProvidersIInv, ProvidersTyped
    <2>2. Pairs' /\ Asks'
      BY <1>1, <1>3 DEF ProvidersIInv, Pairs, PairedBy, P!DomainOf, Asks
    <2>3. Saving' /\ Writing' /\ Voicing'
      BY <1>2, <1>3 DEF Saving, Writing, Voicing
    <2>4. x13' = 0 => x13 = 0
      BY <1>2, <1>3
    <2>5. Proven'
      BY <1>1, <1>3, <2>4 DEF ProvidersIInv, Proven, ProvidersBefore, PageIsTested, LiveIsTested, KeyIn, P!DomainOf
    <2> QED  BY <2>1, <2>2, <2>3, <2>5 DEF ProvidersIInv
  <1>4. CASE P!Quiet /\ x7' = P!Transaction /\ x10' = x10 /\ x13' = x13
    <2>1. [x4.doc EXCEPT !.voice = x3.voice] \in P!Document
      BY <1>2 DEF P!Document
    <2>2. P!Retired(x3, x4.doc) \subseteq P!Domains
      BY <1>2, ProvidersAssumed, DomainsDiffer DEF P!Retired
    <2>3. x7' \in ProfileTx
      BY <1>2, <1>4, <2>1, <2>2 DEF P!Transaction, ProfileTx
    <2>4. /\ x7'.at = "marker" /\ x7'.writes = {p \in ProvidersProfiles : x4.keys[p] # P!NoKey}
          /\ x7'.deletes = P!Retired(x3, x4.doc) /\ x7'.touched = {}
          /\ x7'.disk = x1 /\ x7'.store = x2 /\ x7'.paired = x8 /\ x7'.live = x3
          /\ x7'.marked = FALSE /\ x7'.whole = TRUE /\ x7'.doc.of = x4.doc.of
      BY <1>2, <1>4 DEF P!Transaction, P!Document
    <2>5. x7' \notin VoiceTx
      BY <2>3, ProvidersShapes
    <2>6. ProvidersTyped'
      BY <1>1, <1>2, <1>4, <2>3 DEF ProvidersIInv, ProvidersTyped
    <2>7. Pairs'
      BY <1>1, <2>3 DEF ProvidersIInv, Pairs, PairedBy, P!DomainOf
    <2>8. Asks'
      BY <1>1, <1>4 DEF Asks, P!Quiet
    <2>9. Saving'
      BY <1>1, <1>2, <2>4 DEF ProvidersIInv, Saving, Pairs, PairedBy, P!DomainOf
    <2>10. ASSUME NEW p \in ProvidersProfiles, x4.doc.of[p].here
           PROVE  P!DomainOf(x4.doc, p) \notin P!Retired(x3, x4.doc)
      <3>1. \A q \in ProvidersProfiles : P!DomainOf(x3, q) = P!DomainOf(x4.doc, p) => q = p
        BY <1>2, ProvidersAssumed, DomainsDiffer
      <3> QED  BY <2>10, <3>1 DEF P!Retired
    <2>11. \A p \in ProvidersProfiles : x4.doc.of[p].role => x4.doc.of[p].ok
      BY <1>1 DEF P!Saveable, P!Assigned
    <2>12. Writing'
      BY <1>1, <2>4, <2>10, <2>11 DEF Writing, P!DomainOf
    <2>13. Voicing'
      BY <2>5 DEF Voicing
    <2>14. ProvidersBefore = x2 /\ ProvidersBefore' = x2
      BY <1>2, <2>3, <2>4 DEF ProvidersBefore
    <2>15. Proven'
      BY <1>1, <1>4, <2>14 DEF ProvidersIInv, Proven, PageIsTested, LiveIsTested, KeyIn, P!DomainOf
    <2> QED  BY <2>6, <2>7, <2>8, <2>9, <2>12, <2>13, <2>15 DEF ProvidersIInv
  <1> QED  BY <1>3, <1>4 DEF P!Save

\* A step of the save that leaves the page, the router and the history alone, and says
\* nothing to the user: what it must show.
LEMMA SavingStep ==
  ASSUME ProvidersIInv, x7 \in ProfileTx, x7' \in ProfileTx,
         UNCHANGED <<x8, x3, x4, x10, x9, x6, x14>>,
         x1' \in P!Document, x2' \in ProvidersStore,
         x13' = x13 \/ x13' = x13 + 1,
         x7'.disk = x7.disk, x7'.store = x7.store, x7'.paired = x7.paired, x7'.live = x7.live,
         PairedBy(x1, x2, x8)', Saving', Writing'
  PROVE  ProvidersIInv'
  <1>1. x13 \in Nat /\ (x13' = 0 => x13 = 0)
    BY DEF ProvidersIInv, ProvidersTyped
  <1>2. ProvidersTyped'
    BY <1>1 DEF ProvidersIInv, ProvidersTyped
  <1>3. Pairs'
    BY DEF Pairs
  <1>4. Asks'
    BY DEF ProvidersIInv, Asks
  <1>5. Voicing'
    BY ProvidersShapes DEF Voicing
  <1>6. Proven'
    BY <1>1 DEF ProvidersIInv, Proven, ProvidersBefore, PageIsTested, LiveIsTested, KeyIn, P!DomainOf
  <1> QED  BY <1>2, <1>3, <1>4, <1>5, <1>6 DEF ProvidersIInv

LEMMA MarkStep ==
  ASSUME ProvidersIInv, P!Mark
  PROVE  ProvidersIInv'
  <1>1. /\ x7 \in ProfileTx /\ x7.at = "marker"
        /\ x2' = x2 /\ x8' = x8 /\ x3' = x3 /\ x4' = x4 /\ x10' = x10
        /\ x9' = x9 /\ x6' = x6 /\ x14' = x14
    BY AtProfiles DEF ProvidersIInv, P!Mark, P!world
  <1>2. x13 \in Nat /\ x2 \in ProvidersStore /\ x1 \in P!Document /\ x7.doc \in P!Document
    BY <1>1, SavingFields DEF ProvidersIInv, ProvidersTyped
  <1>3. CASE P!File(P!Off(x7.doc)) /\ x7' = [x7 EXCEPT !.at = "keys", !.marked = TRUE] /\ P!NoFault
    <2>1. x1' = P!Off(x7.doc) /\ x13' = x13
      BY <1>3 DEF P!File, P!NoFault
    <2>2. x1' \in P!Document /\ \A p \in ProvidersProfiles : ~x1'.of[p].on
      BY <1>2, <2>1, OffIsDocument
    <2>3. /\ x7' \in ProfileTx /\ x7'.at = "keys" /\ x7'.marked = TRUE /\ x7'.whole = x7.whole
          /\ x7'.disk = x7.disk /\ x7'.store = x7.store /\ x7'.paired = x7.paired
          /\ x7'.live = x7.live /\ x7'.doc = x7.doc /\ x7'.touched = x7.touched
          /\ x7'.writes = x7.writes /\ x7'.deletes = x7.deletes
      BY <1>1, <1>3 DEF ProfileTx
    <2>4. PairedBy(x1, x2, x8)'
      BY <2>2 DEF PairedBy
    <2>5. Saving'
      BY <1>1, <2>1, <2>2, <2>3 DEF ProvidersIInv, Saving, PairedBy, P!DomainOf
    <2>6. Writing'
      BY <1>1, <2>3 DEF ProvidersIInv, Writing, P!DomainOf
    <2> QED  BY <1>1, <1>2, <2>1, <2>2, <2>3, <2>4, <2>5, <2>6, SavingStep
  <1>4. CASE P!Goes("undo") /\ UNCHANGED x1 /\ P!Fault
    <2>1. x1' = x1 /\ x13' = x13 + 1 /\ x7' = [x7 EXCEPT !.at = "undo"]
      BY <1>4 DEF P!Fault, P!Goes
    <2>2. /\ x7' \in ProfileTx /\ x7'.at = "undo" /\ x7'.marked = x7.marked /\ x7'.whole = x7.whole
          /\ x7'.disk = x7.disk /\ x7'.store = x7.store /\ x7'.paired = x7.paired
          /\ x7'.live = x7.live /\ x7'.doc = x7.doc /\ x7'.touched = x7.touched
          /\ x7'.writes = x7.writes /\ x7'.deletes = x7.deletes
      BY <1>1, <2>1 DEF ProfileTx
    <2>3. PairedBy(x1, x2, x8)'
      BY <1>1, <2>1 DEF ProvidersIInv, Pairs, PairedBy, P!DomainOf
    <2>4. Saving'
      BY <1>1, <1>2, <2>1, <2>2 DEF ProvidersIInv, Saving, PairedBy, P!DomainOf
    <2>5. Writing'
      BY <2>2 DEF Writing
    <2> QED  BY <1>1, <1>2, <2>1, <2>2, <2>3, <2>4, <2>5, SavingStep
  <1> QED  BY <1>3, <1>4 DEF P!Mark

\* A key is written, removed or put back: one domain changes, or none.
LEMMA WriteKeyStep ==
  ASSUME ProvidersIInv, NEW p \in ProvidersProfiles, P!WriteKey(p)
  PROVE  ProvidersIInv'
  <1> DEFINE d == P!DomainOf(x7.doc, p)
  <1>1. /\ x7 \in ProfileTx /\ x7.at = "keys" /\ p \in x7.writes
        /\ x1' = x1 /\ x8' = x8 /\ x3' = x3 /\ x4' = x4 /\ x10' = x10
        /\ x9' = x9 /\ x6' = x6 /\ x14' = x14
    BY AtProfiles DEF ProvidersIInv, P!WriteKey, P!world
  <1>2. /\ x13 \in Nat /\ x2 \in ProvidersStore /\ x1 \in P!Document
        /\ x4.keys \in [ProvidersProfiles -> KeyOrNone] /\ x4.doc.of \in [ProvidersProfiles -> P!Profile]
        /\ x7.doc.of = x4.doc.of /\ x7.touched \in SUBSET P!Domains /\ x7.writes \in SUBSET ProvidersProfiles
    BY <1>1, SavingFields, Fields DEF ProvidersIInv, ProvidersTyped, Saving
  <1>3. /\ d = P!DomainOf(x4.doc, p) /\ d \in P!Domains
        /\ \A q \in ProvidersProfiles : P!DomainOf(x4.doc, q) = d => q = p
    BY <1>2, ProvidersAssumed, DomainsDiffer DEF P!DomainOf
  <1>4. PairedBy(x1, x2, x8)'
    BY <1>1 DEF ProvidersIInv, Saving, PairedBy
  <1>5. CASE /\ x2' = [x2 EXCEPT ![d] = x4.keys[p]]
             /\ x7' = [x7 EXCEPT !.writes = @ \ {p}, !.touched = @ \cup {d}] /\ x13' = x13
    <2>1. /\ x7' \in ProfileTx /\ x7'.at = "keys" /\ x7'.marked = x7.marked /\ x7'.whole = x7.whole
          /\ x7'.disk = x7.disk /\ x7'.store = x7.store /\ x7'.paired = x7.paired
          /\ x7'.live = x7.live /\ x7'.doc = x7.doc /\ x7'.touched = x7.touched \cup {d}
          /\ x7'.writes = x7.writes \ {p} /\ x7'.deletes = x7.deletes
      BY <1>1, <1>3, <1>5 DEF ProfileTx
    <2>2. x2' \in ProvidersStore
      BY <1>2, <1>3, <1>5 DEF ProvidersStore
    <2>3. x2'[d] = x4.keys[p] /\ \A x \in P!Domains \ {d} : x2'[x] = x2[x]
      BY <1>2, <1>3, <1>5 DEF ProvidersStore
    <2>4. Saving'
      BY <1>1, <1>5, <2>1, <2>3 DEF ProvidersIInv, Saving, PairedBy, P!DomainOf
    <2>5. ASSUME NEW q \in ProvidersProfiles, x4.doc.of[q].here
          PROVE  /\ P!DomainOf(x4.doc, q) \notin x7'.deletes
                 /\ x2'[P!DomainOf(x4.doc, q)] =
                      IF x4.keys[q] # P!NoKey /\ q \notin x7'.writes THEN x4.keys[q]
                      ELSE x7'.store[P!DomainOf(x4.doc, q)]
      <3>1. /\ P!DomainOf(x4.doc, q) \notin x7.deletes
            /\ x2[P!DomainOf(x4.doc, q)] =
                 IF x4.keys[q] # P!NoKey /\ q \notin x7.writes THEN x4.keys[q]
                 ELSE x7.store[P!DomainOf(x4.doc, q)]
        BY <1>1, <2>5 DEF ProvidersIInv, Writing
      <3>2. CASE q = p
        <4>1. x4.keys[p] # P!NoKey
          BY <1>1 DEF ProvidersIInv, Writing
        <4> QED  BY <1>3, <2>1, <2>3, <3>1, <3>2, <4>1
      <3>3. CASE q # p
        <4>1. P!DomainOf(x4.doc, q) \in P!Domains \ {d}
          BY <1>2, <1>3, <3>3, ProvidersAssumed, DomainsDiffer
        <4> QED  BY <2>1, <2>3, <3>1, <3>3, <4>1
      <3> QED  BY <3>2, <3>3
    <2>6. Writing'
      BY <1>1, <2>1, <2>5 DEF ProvidersIInv, Writing, P!DomainOf
    <2> QED  BY <1>1, <1>2, <1>4, <1>5, <2>1, <2>2, <2>4, <2>6, SavingStep
  <1>6. CASE /\ x7' = [x7 EXCEPT !.writes = @ \ {p}, !.touched = @ \cup {d}, !.at = "undo"]
             /\ x2' = x2 /\ x13' = x13 + 1
    <2>1. /\ x7' \in ProfileTx /\ x7'.at = "undo" /\ x7'.marked = x7.marked /\ x7'.whole = x7.whole
          /\ x7'.disk = x7.disk /\ x7'.store = x7.store /\ x7'.paired = x7.paired
          /\ x7'.live = x7.live /\ x7'.doc = x7.doc /\ x7'.touched = x7.touched \cup {d}
      BY <1>1, <1>3, <1>6 DEF ProfileTx
    <2>2. Saving'
      BY <1>1, <1>2, <1>6, <2>1 DEF ProvidersIInv, Saving, PairedBy, P!DomainOf
    <2>3. Writing'
      BY <2>1 DEF Writing
    <2> QED  BY <1>1, <1>2, <1>4, <1>6, <2>1, <2>2, <2>3, SavingStep
  <1>7. x7 \in ProfileTx => [[x7 EXCEPT !.writes = @ \ {p}, !.touched = @ \cup {d}] EXCEPT !.at = "undo"]
                             = [x7 EXCEPT !.writes = @ \ {p}, !.touched = @ \cup {d}, !.at = "undo"]
    OBVIOUS
  <1> QED  BY <1>1, <1>5, <1>6, <1>7 DEF P!WriteKey, P!Put, P!NoFault, P!Fault

LEMMA KeysWrittenStep ==
  ASSUME ProvidersIInv, P!KeysWritten
  PROVE  ProvidersIInv'
  <1>1. /\ x7 \in ProfileTx /\ x7.at = "keys" /\ x7.writes = {}
        /\ x1' = x1 /\ x2' = x2 /\ x8' = x8 /\ x3' = x3 /\ x4' = x4
        /\ x10' = x10 /\ x9' = x9 /\ x6' = x6 /\ x14' = x14
        /\ x13' = x13
    BY AtProfiles DEF ProvidersIInv, P!KeysWritten, P!world, P!durable
  <1>2. PICK where \in {"retire", "undo"} : x7' = [x7 EXCEPT !.at = where]
    BY DEF P!KeysWritten, P!Goes
  <1>3. /\ x7' \in ProfileTx /\ x7'.at = where /\ x7'.marked = x7.marked /\ x7'.whole = x7.whole
        /\ x7'.disk = x7.disk /\ x7'.store = x7.store /\ x7'.paired = x7.paired
        /\ x7'.live = x7.live /\ x7'.doc = x7.doc /\ x7'.touched = x7.touched
        /\ x7'.writes = x7.writes /\ x7'.deletes = x7.deletes
    BY <1>1, <1>2 DEF ProfileTx
  <1>4. PairedBy(x1, x2, x8)'
    BY <1>1 DEF ProvidersIInv, Saving, PairedBy
  <1>5. Saving'
    BY <1>1, <1>3 DEF ProvidersIInv, Saving, PairedBy, P!DomainOf
  <1>6. Writing'
    BY <1>1, <1>3 DEF ProvidersIInv, Writing, P!DomainOf
  <1>7. x2 \in ProvidersStore /\ x1 \in P!Document
    BY DEF ProvidersIInv, ProvidersTyped
  <1> QED  BY <1>1, <1>3, <1>4, <1>5, <1>6, <1>7, SavingStep

LEMMA RetireStep ==
  ASSUME ProvidersIInv, NEW d \in P!Domains, P!Retire(d)
  PROVE  ProvidersIInv'
  <1>1. /\ x7 \in ProfileTx /\ x7.at = "retire" /\ d \in x7.deletes
        /\ x1' = x1 /\ x8' = x8 /\ x3' = x3 /\ x4' = x4 /\ x10' = x10
        /\ x9' = x9 /\ x6' = x6 /\ x14' = x14
    BY AtProfiles DEF ProvidersIInv, P!Retire, P!world
  <1>2. /\ x13 \in Nat /\ x2 \in ProvidersStore /\ x1 \in P!Document
        /\ x7.touched \in SUBSET P!Domains /\ x7.deletes \in SUBSET P!Domains
        /\ x4.doc.of \in [ProvidersProfiles -> P!Profile]
    BY <1>1, SavingFields, Fields DEF ProvidersIInv, ProvidersTyped
  <1>3. PairedBy(x1, x2, x8)'
    BY <1>1 DEF ProvidersIInv, Saving, PairedBy
  <1>4. CASE /\ x2' = [x2 EXCEPT ![d] = P!NoKey]
             /\ x7' = [x7 EXCEPT !.deletes = @ \ {d}, !.touched = @ \cup {d}] /\ x13' = x13
    <2>1. /\ x7' \in ProfileTx /\ x7'.at = "retire" /\ x7'.marked = x7.marked /\ x7'.whole = x7.whole
          /\ x7'.disk = x7.disk /\ x7'.store = x7.store /\ x7'.paired = x7.paired
          /\ x7'.live = x7.live /\ x7'.doc = x7.doc /\ x7'.touched = x7.touched \cup {d}
          /\ x7'.writes = x7.writes /\ x7'.deletes = x7.deletes \ {d}
      BY <1>1, <1>4 DEF ProfileTx
    <2>2. x2' \in ProvidersStore
      BY <1>2, <1>4 DEF ProvidersStore, KeyOrNone
    <2>3. \A x \in P!Domains \ {d} : x2'[x] = x2[x]
      BY <1>2, <1>4 DEF ProvidersStore
    <2>4. Saving'
      BY <1>1, <1>4, <2>1, <2>3 DEF ProvidersIInv, Saving, PairedBy, P!DomainOf
    <2>5. \A p \in ProvidersProfiles : x4.doc.of[p].here => x2'[P!DomainOf(x4.doc, p)] = x2[P!DomainOf(x4.doc, p)]
      BY <1>1, <1>2, <2>3, ProvidersAssumed, DomainsDiffer DEF ProvidersIInv, Writing
    <2>6. Writing'
      BY <1>1, <2>1, <2>5 DEF ProvidersIInv, Writing, P!DomainOf
    <2> QED  BY <1>1, <1>2, <1>3, <1>4, <2>1, <2>2, <2>4, <2>6, SavingStep
  <1>5. CASE /\ x7' = [x7 EXCEPT !.deletes = @ \ {d}, !.touched = @ \cup {d}, !.at = "undo"]
             /\ x2' = x2 /\ x13' = x13 + 1
    <2>1. /\ x7' \in ProfileTx /\ x7'.at = "undo" /\ x7'.marked = x7.marked /\ x7'.whole = x7.whole
          /\ x7'.disk = x7.disk /\ x7'.store = x7.store /\ x7'.paired = x7.paired
          /\ x7'.live = x7.live /\ x7'.doc = x7.doc /\ x7'.touched = x7.touched \cup {d}
      BY <1>1, <1>5 DEF ProfileTx
    <2>2. Saving'
      BY <1>1, <1>2, <1>5, <2>1 DEF ProvidersIInv, Saving, PairedBy, P!DomainOf
    <2>3. Writing'
      BY <2>1 DEF Writing
    <2> QED  BY <1>1, <1>2, <1>3, <1>5, <2>1, <2>2, <2>3, SavingStep
  <1>6. [[x7 EXCEPT !.deletes = @ \ {d}, !.touched = @ \cup {d}] EXCEPT !.at = "undo"]
          = [x7 EXCEPT !.deletes = @ \ {d}, !.touched = @ \cup {d}, !.at = "undo"]
    OBVIOUS
  <1> QED  BY <1>1, <1>4, <1>5, <1>6 DEF P!Retire, P!Put, P!NoFault, P!Fault

LEMMA UndoKeyStep ==
  ASSUME ProvidersIInv, NEW d \in P!Domains, P!UndoKey(d)
  PROVE  ProvidersIInv'
  <1>1. /\ x7 \in ProfileTx /\ x7.at = "undo" /\ d \in x7.touched
        /\ x1' = x1 /\ x8' = x8 /\ x3' = x3 /\ x4' = x4 /\ x10' = x10
        /\ x9' = x9 /\ x6' = x6 /\ x14' = x14
    BY AtProfiles DEF ProvidersIInv, P!UndoKey, P!world
  <1>2. /\ x13 \in Nat /\ x2 \in ProvidersStore /\ x1 \in P!Document
        /\ x7.touched \in SUBSET P!Domains /\ x7.store \in ProvidersStore /\ x7.marked
    BY <1>1, SavingFields DEF ProvidersIInv, ProvidersTyped, Saving
  <1>3. PairedBy(x1, x2, x8)'
    BY <1>1, <1>2 DEF ProvidersIInv, Saving, PairedBy
  <1>4. CASE /\ x2' = [x2 EXCEPT ![d] = x7.store[d]]
             /\ x7' = [x7 EXCEPT !.touched = @ \ {d}] /\ x13' = x13
    <2>1. /\ x7' \in ProfileTx /\ x7'.at = "undo" /\ x7'.marked = x7.marked /\ x7'.whole = x7.whole
          /\ x7'.disk = x7.disk /\ x7'.store = x7.store /\ x7'.paired = x7.paired
          /\ x7'.live = x7.live /\ x7'.doc = x7.doc /\ x7'.touched = x7.touched \ {d}
      BY <1>1, <1>4 DEF ProfileTx
    <2>2. x2' \in ProvidersStore
      BY <1>2, <1>4 DEF ProvidersStore
    <2>3. x2'[d] = x7.store[d] /\ \A x \in P!Domains \ {d} : x2'[x] = x2[x]
      BY <1>2, <1>4 DEF ProvidersStore
    <2>4. Saving'
      BY <1>1, <1>2, <1>4, <2>1, <2>3 DEF ProvidersIInv, Saving, PairedBy, P!DomainOf
    <2>5. Writing'
      BY <2>1 DEF Writing
    <2> QED  BY <1>1, <1>2, <1>3, <1>4, <2>1, <2>2, <2>4, <2>5, SavingStep
  <1>5. CASE /\ x7' = [x7 EXCEPT !.touched = @ \ {d}, !.whole = FALSE]
             /\ x2' = x2 /\ x13' = x13 + 1
    <2>1. /\ x7' \in ProfileTx /\ x7'.at = "undo" /\ x7'.marked = x7.marked /\ x7'.whole = FALSE
          /\ x7'.disk = x7.disk /\ x7'.store = x7.store /\ x7'.paired = x7.paired
          /\ x7'.live = x7.live /\ x7'.doc = x7.doc
      BY <1>1, <1>5 DEF ProfileTx
    <2>2. Saving'
      BY <1>1, <1>2, <1>5, <2>1 DEF ProvidersIInv, Saving, PairedBy, P!DomainOf
    <2>3. Writing'
      BY <2>1 DEF Writing
    <2> QED  BY <1>1, <1>2, <1>3, <1>5, <2>1, <2>2, <2>3, SavingStep
  <1>6. [[x7 EXCEPT !.touched = @ \ {d}] EXCEPT !.whole = FALSE]
          = [x7 EXCEPT !.touched = @ \ {d}, !.whole = FALSE]
    OBVIOUS
  <1> QED  BY <1>1, <1>4, <1>5, <1>6 DEF P!UndoKey, P!Put, P!NoFault, P!Fault, P!Previous

\* The end of a save, in which the router may get other profiles
LEMMA SavedStep ==
  ASSUME ProvidersIInv, x7 \in ProfileTx, x7' = P!NoTx,
         x1' \in P!Document, x8' \in ProvidersStore, x3' \in P!Document, x4' \in Page,
         x10' \in {"saved", "kept", "closed"},
         UNCHANGED <<x2, x9, x6, x14>>,
         x13' = x13 \/ x13' = x13 + 1,
         PairedBy(x1, x2, x8)', PairedBy(x3, x2, x8)',
         x13' = 0 /\ x14 = 0 => PageIsTested(x2)' /\ LiveIsTested(x2)'
  PROVE  ProvidersIInv'
  <1>1. ProvidersTyped'
    BY DEF ProvidersIInv, ProvidersTyped
  <1>2. x7' \notin ProfileTx /\ x7' \notin VoiceTx
    BY ProvidersShapes
  <1>3. Pairs' /\ Saving' /\ Writing' /\ Voicing'
    BY <1>2 DEF Pairs, Saving, Writing, Voicing
  <1>4. Asks'
    BY <1>2 DEF ProvidersIInv, Asks
  <1>5. ProvidersBefore' = x2'
    BY <1>2 DEF ProvidersBefore
  <1>6. Proven'
    BY <1>5 DEF Proven
  <1> QED  BY <1>1, <1>3, <1>4, <1>6 DEF ProvidersIInv

LEMMA CommitStep ==
  ASSUME ProvidersIInv, P!Commit
  PROVE  ProvidersIInv'
  <1>1. /\ x7 \in ProfileTx /\ x7.at = "retire"
        /\ x2' = x2 /\ x9' = x9 /\ x6' = x6 /\ x14' = x14
    BY AtProfiles DEF ProvidersIInv, P!Commit, P!world
  <1>2. /\ x13 \in Nat /\ x2 \in ProvidersStore /\ x1 \in P!Document /\ x8 \in ProvidersStore
        /\ x7.doc \in P!Document /\ x4.doc \in P!Document
        /\ x4.doc.of \in [ProvidersProfiles -> P!Profile] /\ x7.doc.of = x4.doc.of
        /\ x4.keys \in [ProvidersProfiles -> KeyOrNone]
    BY <1>1, SavingFields, Fields DEF ProvidersIInv, ProvidersTyped, Saving
  <1>3. CASE /\ x1' = x7.doc /\ x3' = x7.doc
             /\ x8' = [x2 EXCEPT ![P!Voice] = x8[P!Voice]]
             /\ x4' = P!Fresh(x4.doc)
             /\ x7' = P!NoTx /\ x10' = "saved" /\ x13' = x13
    <2>1. /\ x4' \in Page /\ x4'.doc = x4.doc
          /\ \A p \in ProvidersProfiles : x4'.keys[p] = P!NoKey
      BY <1>2, <1>3, FreshIsPage
    <2>2. P!Voice \in P!Domains
      BY DEF P!Domains
    <2>3. x8[P!Voice] \in KeyOrNone
      BY <1>2, <2>2 DEF ProvidersStore
    <2>4. x8' \in ProvidersStore
      BY <1>2, <1>3, <2>3 DEF ProvidersStore
    <2>5. \A p \in ProvidersProfiles : x8'[P!DomainOf(x7.doc, p)] = x2[P!DomainOf(x7.doc, p)]
      BY <1>2, <1>3, ProvidersAssumed, DomainsDiffer DEF ProvidersStore
    <2>6. PairedBy(x1, x2, x8)' /\ PairedBy(x3, x2, x8)'
      BY <1>1, <1>3, <2>5 DEF PairedBy, P!DomainOf
    <2>7. ASSUME x13 = 0, x14 = 0
          PROVE  PageIsTested(x2)' /\ LiveIsTested(x2)'
      <3>1. PageIsTested(x7.store)
        BY <1>1, <2>7 DEF ProvidersIInv, Proven, ProvidersBefore
      <3>2. ASSUME NEW p \in ProvidersProfiles, x4.doc.of[p].ok
            PROVE  /\ x4.doc.of[p].here
                   /\ <<p, x4.doc.of[p].url, x4.doc.of[p].model, x2[P!DomainOf(x4.doc, p)]>> \in x9
        <4>1. /\ x4.doc.of[p].here
              /\ <<p, x4.doc.of[p].url, x4.doc.of[p].model, KeyIn(x7.store, p)>> \in x9
          BY <3>1, <3>2 DEF PageIsTested
        <4>2. KeyIn(x7.store, p) = x2[P!DomainOf(x4.doc, p)]
          BY <1>1, <4>1 DEF ProvidersIInv, Writing, KeyIn
        <4> QED  BY <4>1, <4>2
      <3>3. PageIsTested(x2)'
        BY <1>1, <2>1, <3>2 DEF PageIsTested, KeyIn, P!DomainOf
      <3>4. \A p \in ProvidersProfiles : x4.doc.of[p].role => x4.doc.of[p].ok
        BY <1>1 DEF ProvidersIInv, Writing
      <3>5. LiveIsTested(x2)'
        BY <1>1, <1>2, <1>3, <3>2, <3>4 DEF LiveIsTested, P!DomainOf
      <3> QED  BY <3>3, <3>5
    <2> QED  BY <1>1, <1>2, <1>3, <2>1, <2>4, <2>6, <2>7, SavedStep
  <1>4. CASE P!Goes("undo") /\ P!Fault /\ UNCHANGED <<x1, x8, x3, x4, x10>>
    <2>1. x13' = x13 + 1 /\ x7' = [x7 EXCEPT !.at = "undo"]
      BY <1>4 DEF P!Fault, P!Goes
    <2>2. /\ x7' \in ProfileTx /\ x7'.at = "undo" /\ x7'.marked = x7.marked /\ x7'.whole = x7.whole
          /\ x7'.disk = x7.disk /\ x7'.store = x7.store /\ x7'.paired = x7.paired
          /\ x7'.live = x7.live /\ x7'.doc = x7.doc /\ x7'.touched = x7.touched
      BY <1>1, <2>1 DEF ProfileTx
    <2>3. PairedBy(x1, x2, x8)'
      BY <1>1, <1>4 DEF ProvidersIInv, Pairs, PairedBy, P!DomainOf
    <2>4. Saving'
      BY <1>1, <1>2, <1>4, <2>1, <2>2 DEF ProvidersIInv, Saving, PairedBy, P!DomainOf
    <2>5. Writing'
      BY <2>2 DEF Writing
    <2> QED  BY <1>1, <1>2, <1>4, <2>1, <2>2, <2>3, <2>4, <2>5, SavingStep
  <1> QED  BY <1>3, <1>4 DEF P!Commit, P!File, P!NoFault

\* A whole rollback that is through has the old keys back, under the old file.
LEMMA RolledBack ==
  ASSUME ProvidersIInv, P!At("profiles", "undo"), x7.touched = {}, x7.whole
  PROVE  /\ x2 = x7.store /\ x3 = x7.live /\ x8 = x7.paired
         /\ ~x7.marked => x1 = x7.disk
  <1>1. x7 \in ProfileTx
    BY AtProfiles DEF ProvidersIInv
  <1>2. x2 \in ProvidersStore /\ x7.store \in ProvidersStore
    BY <1>1, SavingFields DEF ProvidersIInv, ProvidersTyped
  <1>3. \A d \in P!Domains : x2[d] = x7.store[d]
    BY <1>1 DEF ProvidersIInv, Saving
  <1>4. x2 = x7.store
    BY <1>2, <1>3 DEF ProvidersStore
  <1> QED  BY <1>1, <1>4 DEF ProvidersIInv, Saving

LEMMA RestoreStep ==
  ASSUME ProvidersIInv, P!Restore
  PROVE  ProvidersIInv'
  <1>1. /\ x7 \in ProfileTx /\ x7.touched = {} /\ x7' = P!NoTx /\ P!At("profiles", "undo")
        /\ x2' = x2 /\ x9' = x9 /\ x6' = x6 /\ x14' = x14
    BY AtProfiles DEF ProvidersIInv, P!Restore, P!world
  <1>2. /\ x13 \in Nat /\ x2 \in ProvidersStore /\ x1 \in P!Document /\ x8 \in ProvidersStore
        /\ x3 \in P!Document /\ x4 \in Page /\ x7.disk \in P!Document /\ x7.paired \in ProvidersStore
        /\ x7.doc \in P!Document
    BY <1>1, SavingFields DEF ProvidersIInv, ProvidersTyped
  <1>3. CASE /\ x7.whole
             /\ IF x7.marked THEN x1' = x7.disk /\ x8' = x7.paired ELSE UNCHANGED <<x1, x8>>
             /\ x10' = "kept" /\ x13' = x13 /\ UNCHANGED <<x3, x4>>
    <2>1. /\ x2 = x7.store /\ x3 = x7.live /\ x8 = x7.paired
          /\ ~x7.marked => x1 = x7.disk
      BY <1>1, <1>3, RolledBack
    <2>2. x1' = x7.disk /\ x8' = x7.paired
      BY <1>3, <2>1
    <2>3. PairedBy(x1, x2, x8)' /\ PairedBy(x3, x2, x8)'
      BY <1>1, <1>3, <2>1, <2>2 DEF ProvidersIInv, Saving, PairedBy, P!DomainOf
    <2>4. x13 = 0 /\ x14 = 0 => PageIsTested(x2)' /\ LiveIsTested(x2)'
      BY <1>1, <1>3, <2>1 DEF ProvidersIInv, Proven, ProvidersBefore, PageIsTested, LiveIsTested, KeyIn, P!DomainOf
    <2> QED  BY <1>1, <1>2, <1>3, <2>2, <2>3, <2>4, SavedStep
  <1>4. CASE /\ IF x7.whole THEN x7.marked /\ P!Fault ELSE P!NoFault
             /\ x1' = P!Off(x7.doc) /\ UNCHANGED x8
             /\ x3' = P!Off(x7.doc) /\ x4' = P!Fresh(P!Off(x7.doc)) /\ x10' = "closed"
    <2>1. /\ P!Off(x7.doc) \in P!Document /\ \A p \in ProvidersProfiles : ~P!Off(x7.doc).of[p].on
      BY <1>2, OffIsDocument
    <2>2. x4' \in Page
      BY <1>4, <2>1, FreshIsPage
    <2>3. PairedBy(x1, x2, x8)' /\ PairedBy(x3, x2, x8)'
      BY <1>4, <2>1 DEF PairedBy
    <2>4. x13' # 0 /\ (x13' = x13 \/ x13' = x13 + 1)
      BY <1>1, <1>2, <1>4 DEF ProvidersIInv, Saving, P!Fault, P!NoFault
    <2> QED  BY <1>1, <1>2, <1>4, <2>1, <2>2, <2>3, <2>4, SavedStep
  <1> QED  BY <1>3, <1>4 DEF P!Restore, P!File, P!MayRestore, P!NoFault
----------------------------------------
(* Saving the voice section *)

\* A step of that save: what the document enables, and the keys of the profiles.
LEMMA VoiceStep ==
  ASSUME ProvidersIInv, x7 \notin ProfileTx, x7' \notin ProfileTx, x7' = P!NoTx \/ x7' \in VoiceTx,
         UNCHANGED <<x4, x9, x6, x14>>,
         x1' \in P!Document, x2' \in ProvidersStore, x8' \in ProvidersStore, x3' \in P!Document,
         x3'.of = x3.of,
         \A d \in ProvidersProfiles \X ProvidersUrls : x2'[d] = x2[d] /\ x8'[d] = x8[d],
         x1'.of \in {x1.of, x3.of} \/ (x7 \in VoiceTx /\ x1'.of = x7.disk.of),
         x10' \in {x10, "saved", "kept"},
         x13' = x13 \/ x13' = x13 + 1,
         Voicing'
  PROVE  ProvidersIInv'
  <1>1. /\ x13 \in Nat /\ (x13' = 0 => x13 = 0) /\ x4.doc.of \in [ProvidersProfiles -> P!Profile]
        /\ x3.of \in [ProvidersProfiles -> P!Profile] /\ x1.of \in [ProvidersProfiles -> P!Profile]
    BY Fields DEF ProvidersIInv, ProvidersTyped
  <1>2. ProvidersTyped'
    BY <1>1 DEF ProvidersIInv, ProvidersTyped
  <1>3. \A p \in ProvidersProfiles :
          /\ P!DomainOf(x4.doc, p) \in ProvidersProfiles \X ProvidersUrls
          /\ P!DomainOf(x3, p) \in ProvidersProfiles \X ProvidersUrls
          /\ P!DomainOf(x1, p) \in ProvidersProfiles \X ProvidersUrls
          /\ x7 \in VoiceTx => P!DomainOf(x7.disk, p) \in ProvidersProfiles \X ProvidersUrls
    BY <1>1, ProvidersAssumed, DomainsDiffer, VoiceFields
  <1>4. /\ PairedBy(x1, x2, x8) /\ PairedBy(x3, x2, x8)
        /\ x7 \in VoiceTx => PairedBy(x7.disk, x2, x8)
    <2>1. x7 \in VoiceTx => PairedBy(x7.disk, x2, x8)
      BY <1>3 DEF ProvidersIInv, Voicing, PairedBy
    <2> QED  BY <2>1 DEF ProvidersIInv, Pairs
  <1>5. \A p \in ProvidersProfiles : P!DomainOf(x3, p)' = P!DomainOf(x3, p)
    BY DEF P!DomainOf
  <1>6. PairedBy(x3, x2, x8)'
    BY <1>3, <1>4, <1>5 DEF PairedBy
  <1>7. PairedBy(x1, x2, x8)'
    <2>1. ASSUME NEW d, PairedBy(d, x2, x8), x1'.of = d.of,
                 \A p \in ProvidersProfiles : P!DomainOf(d, p) \in ProvidersProfiles \X ProvidersUrls
          PROVE  PairedBy(x1, x2, x8)'
      <3>1. \A p \in ProvidersProfiles : P!DomainOf(x1, p)' = P!DomainOf(d, p)
        BY <2>1 DEF P!DomainOf
      <3> QED  BY <2>1, <3>1 DEF PairedBy
    <2>2. CASE x1'.of = x1.of
      BY <1>3, <1>4, <2>1, <2>2
    <2>3. CASE x1'.of = x3.of
      BY <1>3, <1>4, <2>1, <2>3
    <2>4. CASE x7 \in VoiceTx /\ x1'.of = x7.disk.of
      BY <1>3, <1>4, <2>1, <2>4
    <2> QED  BY <2>2, <2>3, <2>4
  <1>8. Pairs'
    BY <1>6, <1>7 DEF Pairs
  <1>9. Asks'
    BY SomeRequest DEF ProvidersIInv, ProvidersTyped, Asks, Request
  <1>10. Saving' /\ Writing'
    BY DEF Saving, Writing
  <1>11. ProvidersBefore = x2 /\ ProvidersBefore' = x2'
    BY DEF ProvidersBefore
  <1>12. \A p \in ProvidersProfiles : KeyIn(x2, p)' = KeyIn(x2, p)
    BY <1>3 DEF KeyIn, P!DomainOf
  <1>13. ASSUME x13' = 0, x14 = 0
         PROVE  PageIsTested(x2)' /\ LiveIsTested(x2)'
    <2>1. PageIsTested(x2) /\ LiveIsTested(x2)
      BY <1>1, <1>11, <1>13 DEF ProvidersIInv, Proven
    <2>2. PageIsTested(x2)'
      BY <1>12, <2>1 DEF PageIsTested
    <2>3. LiveIsTested(x2)'
      BY <1>3, <1>5, <2>1 DEF LiveIsTested
    <2> QED  BY <2>2, <2>3
  <1>14. Proven'
    BY <1>11, <1>13 DEF Proven
  <1> QED  BY <1>2, <1>8, <1>9, <1>10, <1>14 DEF ProvidersIInv

LEMMA SaveVoiceStep ==
  ASSUME ProvidersIInv, P!SaveVoice
  PROVE  ProvidersIInv'
  <1>1. /\ x7 = P!NoTx /\ x1' = x1 /\ x2' = x2 /\ x8' = x8 /\ x3' = x3
        /\ x4' = x4 /\ x9' = x9 /\ x6' = x6 /\ x10' = x10
        /\ x14' = x14
    BY DEF P!SaveVoice, P!durable
  <1>2. /\ x2 \in ProvidersStore /\ x8 \in ProvidersStore /\ x1 \in P!Document /\ x3 \in P!Document
        /\ P!Voice \in P!Domains /\ P!NoKey \in KeyOrNone /\ x7 \notin ProfileTx /\ x7 \notin VoiceTx
    BY <1>1, ProvidersShapes DEF ProvidersIInv, ProvidersTyped, P!Domains, KeyOrNone
  <1>3. PICK on \in BOOLEAN, k \in KeyOrNone, before \in {x2[P!Voice], P!NoKey} :
          /\ IF before = x2[P!Voice] THEN P!NoFault ELSE P!Fault
          /\ x7' = [kind |-> "voice", at |-> "marker", doc |-> [x3 EXCEPT !.voice = on],
                    key |-> k, before |-> before, wrote |-> FALSE, touched |-> {},
                    disk |-> x1, store |-> x2, paired |-> x8, live |-> x3]
    BY DEF P!SaveVoice, KeyOrNone
  <1>4. before \in KeyOrNone /\ [x3 EXCEPT !.voice = on] \in P!Document
        /\ [x3 EXCEPT !.voice = on].of = x3.of
    BY <1>2 DEF ProvidersStore, P!Document
  <1>5. x7' \in VoiceTx
    BY <1>2, <1>3, <1>4 DEF VoiceTx
  <1>6. /\ x7'.disk = x1 /\ x7'.store = x2 /\ x7'.paired = x8 /\ x7'.doc.of = x3.of
    BY <1>3, <1>4
  <1>7. Voicing'
    BY <1>1, <1>6 DEF ProvidersIInv, Pairs, PairedBy, P!DomainOf, Voicing
  <1>8. x7' \notin ProfileTx
    BY <1>5, ProvidersShapes
  <1>9. x13' = x13 \/ x13' = x13 + 1
    BY <1>3 DEF P!NoFault, P!Fault
  <1> QED  BY <1>1, <1>2, <1>5, <1>7, <1>8, <1>9, VoiceStep

\* What the save of the voice section keeps of itself from step to step
LEMMA VoiceGoes ==
  ASSUME ProvidersIInv, x7 \in VoiceTx, NEW where \in {"marker", "key", "services", "restore", "keyback"},
         NEW wrote \in BOOLEAN, x7' = [x7 EXCEPT !.wrote = wrote, !.at = where],
         x3' = x3,
         \A d \in ProvidersProfiles \X ProvidersUrls : x2'[d] = x2[d] /\ x8'[d] = x8[d]
  PROVE  x7' \in VoiceTx /\ x7' \notin ProfileTx /\ x7 \notin ProfileTx /\ Voicing'
  <1>1. /\ x7' \in VoiceTx /\ x7'.disk = x7.disk /\ x7'.store = x7.store /\ x7'.paired = x7.paired
        /\ x7'.doc = x7.doc
    BY DEF VoiceTx
  <1>2. Voicing'
    BY <1>1 DEF ProvidersIInv, Voicing, PairedBy, P!DomainOf
  <1> QED  BY <1>1, <1>2, ProvidersShapes

LEMMA OnlyWhere ==
  ASSUME NEW t \in VoiceTx, NEW where
  PROVE  [t EXCEPT !.at = where] = [t EXCEPT !.wrote = t.wrote, !.at = where]
  BY DEF VoiceTx

LEMMA MarkVoiceStep ==
  ASSUME ProvidersIInv, P!MarkVoice
  PROVE  ProvidersIInv'
  <1>1. /\ x7 \in VoiceTx /\ x7.wrote \in BOOLEAN /\ x7.doc \in P!Document
        /\ x2' = x2 /\ x8' = x8 /\ x3' = x3 /\ x4' = x4 /\ x10' = x10
        /\ x9' = x9 /\ x6' = x6 /\ x14' = x14
    BY AtVoice, VoiceFields DEF ProvidersIInv, P!MarkVoice, P!world
  <1>2. PICK where \in {"key", "restore"} : P!Goes(where)
    BY DEF P!MarkVoice
  <1>3. x7' = [x7 EXCEPT !.wrote = x7.wrote, !.at = where]
    BY <1>1, <1>2, OnlyWhere DEF P!Goes
  <1>4. x7' \in VoiceTx /\ x7' \notin ProfileTx /\ x7 \notin ProfileTx /\ Voicing'
    BY <1>1, <1>3, VoiceGoes
  <1>5. [x7.doc EXCEPT !.voice = FALSE] \in P!Document /\ [x7.doc EXCEPT !.voice = FALSE].of = x7.doc.of
    BY <1>1 DEF P!Document
  <1>6. x1' \in P!Document /\ x1'.of \in {x1.of, x3.of}
    BY <1>1, <1>5 DEF P!MarkVoice, P!File, ProvidersIInv, ProvidersTyped, Voicing
  <1>7. x13' = x13 \/ x13' = x13 + 1
    BY DEF P!MarkVoice, P!NoFault, P!Fault
  <1>8. x2 \in ProvidersStore /\ x8 \in ProvidersStore /\ x3 \in P!Document
    BY DEF ProvidersIInv, ProvidersTyped
  <1> QED  BY <1>1, <1>4, <1>6, <1>7, <1>8, VoiceStep

LEMMA WriteVoiceKeyStep ==
  ASSUME ProvidersIInv, P!WriteVoiceKey
  PROVE  ProvidersIInv'
  <1>1. /\ x7 \in VoiceTx /\ x7.wrote \in BOOLEAN /\ x7.key \in KeyOrNone
        /\ x1' = x1 /\ x8' = x8 /\ x3' = x3 /\ x4' = x4 /\ x10' = x10
        /\ x9' = x9 /\ x6' = x6 /\ x14' = x14
    BY AtVoice, VoiceFields DEF ProvidersIInv, P!WriteVoiceKey, P!world
  <1>2. /\ x2 \in ProvidersStore /\ x8 \in ProvidersStore /\ x3 \in P!Document /\ x1 \in P!Document
        /\ P!Voice \in P!Domains /\ ProvidersProfiles \X ProvidersUrls \subseteq P!Domains
        /\ P!Voice \notin ProvidersProfiles \X ProvidersUrls
    BY ProvidersAssumed DEF ProvidersParameters, ProvidersIInv, ProvidersTyped, P!Domains, P!Voice
  <1>3. x2' = [x2 EXCEPT ![P!Voice] = x7.key] \/ x2' = x2
    BY DEF P!WriteVoiceKey, P!Put
  <1>4. x2' \in ProvidersStore /\ \A d \in ProvidersProfiles \X ProvidersUrls : x2'[d] = x2[d] /\ x8'[d] = x8[d]
    BY <1>1, <1>2, <1>3 DEF ProvidersStore
  <1>5. \/ \E where \in {"restore", "services"} : P!Goes(where)
        \/ x7' = [x7 EXCEPT !.wrote = TRUE, !.at = "services"]
    BY DEF P!WriteVoiceKey
  <1>6. PICK where \in {"restore", "services"}, wrote \in BOOLEAN :
          x7' = [x7 EXCEPT !.wrote = wrote, !.at = where]
    BY <1>1, <1>5, OnlyWhere DEF P!Goes
  <1>7. x7' \in VoiceTx /\ x7' \notin ProfileTx /\ x7 \notin ProfileTx /\ Voicing'
    BY <1>1, <1>4, <1>6, VoiceGoes
  <1>8. x13' = x13 \/ x13' = x13 + 1
    BY DEF P!WriteVoiceKey, P!NoFault, P!Fault
  <1> QED  BY <1>1, <1>2, <1>4, <1>7, <1>8, VoiceStep

LEMMA CommitVoiceStep ==
  ASSUME ProvidersIInv, P!CommitVoice
  PROVE  ProvidersIInv'
  <1>1. /\ x7 \in VoiceTx /\ x7.wrote \in BOOLEAN /\ x7.doc \in P!Document /\ x7.doc.of = x3.of
        /\ x2' = x2 /\ x4' = x4
        /\ x9' = x9 /\ x6' = x6 /\ x14' = x14
    BY AtVoice, VoiceFields DEF ProvidersIInv, P!CommitVoice, P!world, Voicing
  <1>2. /\ x2 \in ProvidersStore /\ x8 \in ProvidersStore /\ x3 \in P!Document /\ x1 \in P!Document
        /\ P!Voice \in P!Domains /\ ProvidersProfiles \X ProvidersUrls \subseteq P!Domains
        /\ P!Voice \notin ProvidersProfiles \X ProvidersUrls /\ x7 \notin ProfileTx
    BY <1>1, ProvidersAssumed, ProvidersShapes DEF ProvidersParameters, ProvidersIInv, ProvidersTyped, P!Domains, P!Voice
  <1>3. CASE /\ x1' = x7.doc /\ x3' = x7.doc /\ x8' = [x8 EXCEPT ![P!Voice] = x2[P!Voice]]
             /\ x7' = P!NoTx /\ x10' = "saved" /\ x13' = x13
    <2>1. x8' \in ProvidersStore /\ \A d \in ProvidersProfiles \X ProvidersUrls : x2'[d] = x2[d] /\ x8'[d] = x8[d]
      BY <1>1, <1>2, <1>3 DEF ProvidersStore
    <2>2. x7' \notin ProfileTx /\ Voicing'
      BY <1>3, ProvidersShapes DEF Voicing
    <2> QED  BY <1>1, <1>2, <1>3, <2>1, <2>2, VoiceStep
  <1>4. CASE P!Goes("restore") /\ P!Fault /\ UNCHANGED <<x1, x8, x3, x10>>
    <2>1. x7' = [x7 EXCEPT !.wrote = x7.wrote, !.at = "restore"] /\ x13' = x13 + 1
      BY <1>1, <1>4, OnlyWhere DEF P!Goes, P!Fault
    <2>2. x7' \in VoiceTx /\ x7' \notin ProfileTx /\ Voicing'
      BY <1>1, <1>4, <2>1, VoiceGoes
    <2> QED  BY <1>1, <1>2, <1>4, <2>1, <2>2, VoiceStep
  <1> QED  BY <1>3, <1>4 DEF P!CommitVoice, P!File, P!NoFault

LEMMA RestoreVoiceFileStep ==
  ASSUME ProvidersIInv, P!RestoreVoiceFile
  PROVE  ProvidersIInv'
  <1>1. /\ x7 \in VoiceTx /\ x7.wrote \in BOOLEAN /\ x7.disk \in P!Document /\ x7.paired \in ProvidersStore
        /\ x2' = x2 /\ x3' = x3 /\ x4' = x4 /\ x10' = x10
        /\ x9' = x9 /\ x6' = x6 /\ x14' = x14
    BY AtVoice, VoiceFields DEF ProvidersIInv, P!RestoreVoiceFile, P!world
  <1>2. x2 \in ProvidersStore /\ x8 \in ProvidersStore /\ x3 \in P!Document /\ x1 \in P!Document
    BY DEF ProvidersIInv, ProvidersTyped
  <1>3. \/ x1' = x7.disk /\ x8' = x7.paired
        \/ x1' = x1 /\ x8' = x8
    BY DEF P!RestoreVoiceFile, P!File
  <1>4. \A d \in ProvidersProfiles \X ProvidersUrls : x2'[d] = x2[d] /\ x8'[d] = x8[d]
    BY <1>1, <1>3 DEF ProvidersIInv, Voicing
  <1>5. x7' = [x7 EXCEPT !.wrote = x7.wrote, !.at = "keyback"]
    BY <1>1, OnlyWhere DEF P!Goes, P!RestoreVoiceFile
  <1>6. x7' \in VoiceTx /\ x7' \notin ProfileTx /\ x7 \notin ProfileTx /\ Voicing'
    BY <1>1, <1>4, <1>5, VoiceGoes
  <1>7. x13' = x13 \/ x13' = x13 + 1
    BY DEF P!RestoreVoiceFile, P!NoFault, P!Fault
  <1> QED  BY <1>1, <1>2, <1>3, <1>4, <1>6, <1>7, VoiceStep

LEMMA RestoreVoiceKeyStep ==
  ASSUME ProvidersIInv, P!RestoreVoiceKey
  PROVE  ProvidersIInv'
  <1>1. /\ x7 \in VoiceTx /\ x7.before \in KeyOrNone /\ x7' = P!NoTx /\ x10' = "kept"
        /\ x1' = x1 /\ x8' = x8 /\ x3' = x3 /\ x4' = x4
        /\ x9' = x9 /\ x6' = x6 /\ x14' = x14
    BY AtVoice, VoiceFields DEF ProvidersIInv, P!RestoreVoiceKey, P!world
  <1>2. /\ x2 \in ProvidersStore /\ x8 \in ProvidersStore /\ x3 \in P!Document /\ x1 \in P!Document
        /\ P!Voice \in P!Domains /\ ProvidersProfiles \X ProvidersUrls \subseteq P!Domains
        /\ P!Voice \notin ProvidersProfiles \X ProvidersUrls /\ x7 \notin ProfileTx
    BY <1>1, ProvidersAssumed, ProvidersShapes DEF ProvidersParameters, ProvidersIInv, ProvidersTyped, P!Domains, P!Voice
  <1>3. x2' = [x2 EXCEPT ![P!Voice] = x7.before] \/ x2' = x2
    BY DEF P!RestoreVoiceKey, P!Put
  <1>4. x2' \in ProvidersStore /\ \A d \in ProvidersProfiles \X ProvidersUrls : x2'[d] = x2[d] /\ x8'[d] = x8[d]
    BY <1>1, <1>2, <1>3 DEF ProvidersStore
  <1>5. x7' \notin ProfileTx /\ Voicing'
    BY <1>1, ProvidersShapes DEF Voicing
  <1>6. x13' = x13 \/ x13' = x13 + 1
    BY DEF P!RestoreVoiceKey, P!NoFault, P!Fault
  <1> QED  BY <1>1, <1>2, <1>4, <1>5, <1>6, VoiceStep
----------------------------------------
(* A crash, and all steps together *)

LEMMA ProvidersCrashStep ==
  ASSUME ProvidersIInv, P!Crash
  PROVE  ProvidersIInv'
  <1>1. /\ x14' = x14 + 1 /\ x3' = P!Reconciled /\ x4' = P!Fresh(P!Reconciled)
        /\ x6' = P!NoRequest /\ x7' = P!NoTx /\ x10' = "none"
        /\ x2' = x2 /\ x8' = x8 /\ x9' = x9
        /\ x1' = P!Reconciled \/ x1' = x1
        /\ x13' = x13 \/ x13' = x13 + 1
    BY DEF P!Crash, P!File, P!NoFault, P!Fault
  <1>2. x1 \in P!Document /\ x1.of \in [ProvidersProfiles -> P!Profile] /\ x14 \in Nat /\ x13 \in Nat
    BY Fields DEF ProvidersIInv, ProvidersTyped
  <1>3. P!Reconciled \in P!Document
    BY <1>2 DEF P!Reconciled, P!Document, P!Profile
  <1>4. \A p \in ProvidersProfiles :
          /\ P!Reconciled.of[p].on => x1.of[p].on
          /\ P!DomainOf(P!Reconciled, p) = P!DomainOf(x1, p)
    BY <1>2 DEF P!Reconciled, P!Document, P!Profile, P!DomainOf
  <1>5. x4' \in Page
    BY <1>1, <1>3, FreshIsPage
  <1>6. ProvidersTyped'
    BY <1>1, <1>2, <1>3, <1>5 DEF ProvidersIInv, ProvidersTyped
  <1>7. PairedBy(x1, x2, x8) /\ PairedBy(P!Reconciled, x2, x8)
    BY <1>4 DEF ProvidersIInv, Pairs, PairedBy
  <1>8. Pairs'
    BY <1>1, <1>7 DEF Pairs, PairedBy, P!DomainOf
  <1>9. x7' \notin ProfileTx /\ x7' \notin VoiceTx
    BY <1>1, ProvidersShapes
  <1>10. Asks' /\ Saving' /\ Writing' /\ Voicing'
    BY <1>1, <1>9 DEF Asks, Saving, Writing, Voicing
  <1>11. Proven'
    BY <1>1, <1>2 DEF Proven
  <1> QED  BY <1>6, <1>8, <1>10, <1>11 DEF ProvidersIInv

LEMMA ProvidersIInvStep == ProvidersIInv /\ (P!Next \/ UNCHANGED P!vars) => ProvidersIInv'
  <1> SUFFICES ASSUME ProvidersIInv, (P!Next \/ UNCHANGED P!vars)
               PROVE  ProvidersIInv'
    OBVIOUS
  <1>1. ASSUME NEW p \in ProvidersProfiles,
               \/ P!Configure(p) \/ P!Toggle(p) \/ P!Assign(p) \/ P!AddProfile(p)
               \/ P!DeleteProfile(p) \/ P!TypeKey(p)
        PROVE  ProvidersIInv'
    BY <1>1, ConfigureStep, ToggleStep, AssignStep, AddProfileStep, DeleteProfileStep, TypeKeyStep
  <1>2. ASSUME NEW p \in ProvidersProfiles, P!StartTest(p) \/ P!TestPasses(p) \/ P!Capture(p) \/ P!WriteKey(p)
        PROVE  ProvidersIInv'
    BY <1>2, StartTestStep, TestPassesStep, ProvidersCaptureStep, WriteKeyStep
  <1>3. CASE P!TestFails \/ P!ReadKey \/ P!RequestEnds
    BY <1>3, TestFailsStep, ReadKeyStep, RequestEndsStep
  <1>4. CASE P!Save \/ P!Mark \/ P!KeysWritten \/ P!Commit \/ P!Restore
    BY <1>4, SaveStep, MarkStep, KeysWrittenStep, CommitStep, RestoreStep
  <1>5. ASSUME NEW d \in P!Domains, P!Retire(d) \/ P!UndoKey(d)
        PROVE  ProvidersIInv'
    BY <1>5, RetireStep, UndoKeyStep
  <1>6. CASE P!SaveVoice \/ P!MarkVoice \/ P!WriteVoiceKey \/ P!CommitVoice
    BY <1>6, SaveVoiceStep, MarkVoiceStep, WriteVoiceKeyStep, CommitVoiceStep
  <1>7. CASE P!RestoreVoiceFile \/ P!RestoreVoiceKey \/ P!Crash
    BY <1>7, RestoreVoiceFileStep, RestoreVoiceKeyStep, ProvidersCrashStep
  <1>8. CASE UNCHANGED P!vars
    <2>1. /\ UNCHANGED <<P!durable, x3, x4, x7, x9, x10, x13, x14>>
          /\ x6' = x6
      BY <1>8 DEF P!vars, P!bounds
    <2>2. Asks'
      BY <2>1 DEF ProvidersIInv, Asks, P!durable
    <2> QED  BY <2>1, <2>2, ProvidersRequestStep DEF ProvidersIInv, ProvidersTyped
  <1> QED  BY <1>1, <1>2, <1>3, <1>4, <1>5, <1>6, <1>7, <1>8 DEF P!Next

LEMMA ArePaired == ProvidersIInv => P!KeysArePaired
  <1> SUFFICES ASSUME ProvidersIInv
               PROVE  P!KeysArePaired
    OBVIOUS
  <1>1. P!DiskIsPaired
    BY DEF ProvidersIInv, Pairs, PairedBy, P!DiskIsPaired
  <1>2. P!RequestReadsItsKey
    BY DEF ProvidersIInv, Asks, P!RequestReadsItsKey
  <1>3. ASSUME x7 = P!NoTx, x13 = 0, x14 = 0
        PROVE  P!Tested
    <2>1. LiveIsTested(x2)
      BY <1>3, ProvidersShapes DEF ProvidersIInv, Proven, ProvidersBefore
    <2> QED  BY <2>1 DEF LiveIsTested, P!Tested, P!Assigned
  <1> QED  BY <1>1, <1>2, <1>3 DEF P!KeysArePaired, P!TestedUnlessFaults

LEMMA KeptByStep == ProvidersIInv /\ (P!Next \/ UNCHANGED P!vars) => P!Kept
  <1> SUFFICES ASSUME ProvidersIInv, (P!Next \/ UNCHANGED P!vars), x7 # P!NoTx, x7' = P!NoTx, x10' = "kept",
                      x7.kind = "profiles"
               PROVE  x1' = x7.disk /\ x2' = x7.store /\ x3' = x7.live
    BY DEF P!Kept
  <1>1. x7 \in ProfileTx
    BY ProvidersShapes DEF ProvidersIInv, ProvidersTyped
  <1>2. DOMAIN x7 # DOMAIN P!NoTx
    BY <1>1 DEF ProfileTx, P!NoTx, P!NoRequest
  <1>3. ASSUME DOMAIN x7' = DOMAIN x7
        PROVE  FALSE
    BY <1>2, <1>3
  <1>4. ASSUME NEW p \in ProvidersProfiles,
               \/ P!Configure(p) \/ P!Toggle(p) \/ P!Assign(p) \/ P!AddProfile(p)
               \/ P!DeleteProfile(p) \/ P!TypeKey(p) \/ P!StartTest(p) \/ P!TestPasses(p) \/ P!Capture(p)
        PROVE  FALSE
    BY <1>4 DEF P!Configure, P!Toggle, P!Assign, P!AddProfile, P!Edits, P!DeleteProfile, P!TypeKey, P!StartTest,
                P!TestPasses, P!Capture
  <1>5. ASSUME NEW p \in ProvidersProfiles, P!WriteKey(p)
        PROVE  FALSE
    BY <1>3, <1>5 DEF P!WriteKey
  <1>6. ASSUME NEW d \in P!Domains, P!Retire(d) \/ P!UndoKey(d)
        PROVE  FALSE
    BY <1>3, <1>6 DEF P!Retire, P!UndoKey
  <1>7. ASSUME P!TestFails \/ P!ReadKey \/ P!RequestEnds \/ P!Save \/ P!SaveVoice \/ UNCHANGED P!vars
        PROVE  FALSE
    BY <1>7 DEF P!TestFails, P!ReadKey, P!RequestEnds, P!Save, P!SaveVoice, P!vars
  <1>8. ASSUME P!Mark \/ P!KeysWritten
        PROVE  FALSE
    BY <1>3, <1>8 DEF P!Mark, P!KeysWritten, P!Goes
  <1>9. ASSUME P!Commit
        PROVE  FALSE
    BY <1>3, <1>9 DEF P!Commit, P!Goes
  <1>10. ASSUME P!MarkVoice \/ P!WriteVoiceKey \/ P!CommitVoice \/ P!RestoreVoiceFile \/ P!RestoreVoiceKey
                \/ P!Crash
         PROVE  FALSE
    BY <1>10 DEF P!MarkVoice, P!WriteVoiceKey, P!CommitVoice, P!RestoreVoiceFile, P!RestoreVoiceKey, P!At, P!Crash
  <1>11. P!Restore
    BY <1>4, <1>5, <1>6, <1>7, <1>8, <1>9, <1>10 DEF P!Next
  <1>12. /\ P!At("profiles", "undo") /\ x7.touched = {} /\ x7.whole /\ x2' = x2
         /\ IF x7.marked THEN x1' = x7.disk ELSE x1' = x1
         /\ x3' = x3
    BY <1>11 DEF P!Restore, P!MayRestore, P!File
  <1> QED  BY <1>12, RolledBack

ProvidersInv == part = "providers" => ProvidersIInv

LEMMA ProvidersStart == Init => ProvidersInv
  <1> SUFFICES ASSUME Init, part = "providers"
               PROVE  ProvidersIInv
    BY DEF ProvidersInv
  <1>1. P!Init
    BY DEF Init, InitOf
  <1>2. ProvidersParameters
    BY ComponentsAssumption DEF ProvidersParameters
  <1> QED  BY <1>1, <1>2, ProvidersInitiallyIInv

LEMMA ProvidersMoves ==
  ASSUME [Next]_vars, part = "providers"
  PROVE  P!Next \/ UNCHANGED P!vars
  <1>1. CASE Next
    BY <1>1 DEF Next, InR, InV, InX, InG, InH, InW, InT, InJ, InM, InP, InA, InC
  <1>2. CASE UNCHANGED vars
    BY <1>2 DEF vars, P!durable, P!bounds, P!vars
  <1> QED  BY <1>1, <1>2

LEMMA ProvidersStep == ProvidersInv /\ [Next]_vars => ProvidersInv'
  <1> SUFFICES ASSUME ProvidersInv, [Next]_vars, part' = "providers"
               PROVE  ProvidersIInv'
    BY DEF ProvidersInv
  <1>1. part = "providers" /\ ProvidersIInv
    BY PartStays DEF ProvidersInv
  <1> QED  BY <1>1, ProvidersMoves, ProvidersIInvStep

LEMMA ProvidersInvariance == Spec => []ProvidersInv
  BY ProvidersStart, ProvidersStep, PTL DEF Spec

\* The two save transactions of ApplicationController: a profile that settings.json enables
\* has the key it was enabled with, a request reads the key of the configuration it
\* captured, and without faults what runs a task was tested with its key, wherever the
\* application crashes and whichever writes and rollbacks fail.
THEOREM KeysPaired == Spec => []KeysArePaired
  <1>1. ProvidersInv => KeysArePaired
    BY ArePaired DEF ProvidersInv, KeysArePaired
  <1> QED  BY <1>1, ProvidersInvariance, PTL

\* _save_model_provider_settings: when the rollback says that the old profiles, keys and
\* routes are kept, the settings file, the credential store and the live profiles are
\* what they were before the save.
THEOREM KeptTrue == Spec => KeptIsTrue
  <1>1. ASSUME ProvidersInv, [Next]_vars, part = "providers"
        PROVE  P!Kept
    <2>1. ProvidersIInv /\ (P!Next \/ UNCHANGED P!vars)
      BY <1>1, ProvidersMoves DEF ProvidersInv
    <2> QED  BY <2>1, KeptByStep
  <1>2. ProvidersInv /\ [Next]_vars => [part = "providers" => P!Kept]_vars
    BY <1>1
  <1> QED  BY <1>2, ProvidersInvariance, PTL DEF Spec, KeptIsTrue

----------------------------------------
(* The parts that are proved in modules of their own. *)

JP == INSTANCE MemoryJobsProofs WITH
       Jobs <- JobsJobs, Kind <- JobsKind, Malformed <- JobsMalformed, NoJob <- JobsNoJob,
       MaxJobAttempts <- JobsMaxJobAttempts, MaxSwitches <- JobsMaxSwitches,
       MaxFaults <- JobsMaxFaults, status <- x1, attempts <- x2, due <- x3, dataQ <- x4,
       opStep <- x5, dataUp <- x6, mainQ <- x7, gen <- x8, runnerPaused <- x9,
       runnerShut <- x10, faults <- x11, up <- x12, accepting <- x13, recovering <- x14,
       claimInFlight <- x15, paused <- x16, foreground <- x17, memoryEnabled <- x18,
       current <- x19, pendingLaunch <- x20, latest <- x21, covered <- x22, noted <- x23,
       abandoned <- x24, switches <- x25

MP == INSTANCE MemoryStoresProofs WITH
       Facts <- MemoriesFacts, Reflections <- MemoriesReflections,
       Impressions <- MemoriesImpressions, MinFacts <- MemoriesMinFacts,
       MaxVersions <- MemoriesMaxVersions, MaxOps <- MemoriesMaxOps,
       MaxFaults <- MemoriesMaxFaults, fact <- x1, sourced <- x2, eligible <- x3,
       refl <- x4, imp <- x5, clash <- x6, offer <- x7, asked <- x8, second <- x9,
       vouched <- x10, untold <- x11, ops <- x12, faults <- x13

----------------------------------------
(* The memory jobs. *)

LEMMA SameJobsInit == J!Init <=> JP!Init
  BY SMTT(60)
     DEF J!NoGen, JP!NoGen, J!WorldInit, JP!WorldInit, J!NoPlan, JP!NoPlan,
         J!NoExec, JP!NoExec, J!Init, JP!Init

LEMMA SameJobsNext == J!Next <=> JP!Next
  BY SMTT(60)
     DEF J!OnRecovered, JP!OnRecovered, J!OnNothingClaimed, JP!OnNothingClaimed,
         J!AfterClaim, JP!AfterClaim, J!OnClaimed, JP!OnClaimed, J!CanStart,
         JP!CanStart, J!Launch, JP!Launch, J!OnPrepared, JP!OnPrepared,
         J!OnNothingToDo, JP!OnNothingToDo, J!OnPrepareFailed, JP!OnPrepareFailed,
         J!Awaited, JP!Awaited, J!OnLatePrepare, JP!OnLatePrepare, J!Repair,
         JP!Repair, J!OnCompleted, JP!OnCompleted, J!Later, JP!Later,
         J!FinishFailure, JP!FinishFailure, J!OnFailed, JP!OnFailed,
         J!GenerationEnds, JP!GenerationEnds, J!Ours, JP!Ours, J!OnLateOutcome,
         JP!OnLateOutcome, J!EventArg, JP!EventArg, J!Yielding, JP!Yielding,
         J!FreshId, JP!FreshId, J!StartGeneration, JP!StartGeneration,
         J!OnRunnerIdle, JP!OnRunnerIdle, J!Handling, JP!Handling, J!EventJob,
         JP!EventJob, J!OnFinished, JP!OnFinished, J!MainThread, JP!MainThread,
         J!Poll, JP!Poll, J!DoRecover, JP!DoRecover, J!Ready, JP!Ready,
         J!StoreClaim, JP!StoreClaim, J!DoClaim, JP!DoClaim, J!PrepareExtraction,
         JP!PrepareExtraction, J!PrepareSummary, JP!PrepareSummary, J!DoPrepare,
         JP!DoPrepare, J!CheckBeforeWrite, JP!CheckBeforeWrite, J!ApplyCandidates,
         JP!ApplyCandidates, J!SaveSummary, JP!SaveSummary, J!WriteResult,
         JP!WriteResult, J!Executing, JP!Executing, J!StoreMark, JP!StoreMark,
         J!InOperation, JP!InOperation, J!DoMark, JP!DoMark, J!DataThread,
         JP!DataThread, J!Outcomes, JP!Outcomes, J!WorkerReports, JP!WorkerReports,
         J!ThreadStops, JP!ThreadStops, J!Others, JP!Others, J!Worker, JP!Worker,
         J!BecomesDue, JP!BecomesDue, J!Time, JP!Time, J!StoreRecover,
         JP!StoreRecover, J!NoArg, JP!NoArg, J!Start, JP!Start, J!Crash, JP!Crash,
         J!Shutdown, JP!Shutdown, J!StopDataThread, JP!StopDataThread,
         J!ProcessEnds, JP!ProcessEnds, J!Exit, JP!Exit, J!SetForegroundActive,
         JP!SetForegroundActive, J!Preempt, JP!Preempt, J!SetMemoryEnabled,
         JP!SetMemoryEnabled, J!NoGen, JP!NoGen, J!Cancelled, JP!Cancelled,
         J!Running, JP!Running, J!Submitted, JP!Submitted, J!Finish, JP!Finish,
         J!Now, JP!Now, J!RetryCurrent, JP!RetryCurrent, J!Pause, JP!Pause,
         J!Outside, JP!Outside, J!NoPlan, JP!NoPlan, J!NoExec, JP!NoExec,
         J!IsRunning, JP!IsRunning, J!CanClaim, JP!CanClaim, J!Op, JP!Op,
         J!PollAfter, JP!PollAfter, J!Resume, JP!Resume, J!Allowed, JP!Allowed,
         J!StoreEnqueue, JP!StoreEnqueue, J!Extraction, JP!Extraction, J!Enqueue,
         JP!Enqueue, J!StoreRetryFailed, JP!StoreRetryFailed, J!queues, JP!queues,
         J!RetryFailed, JP!RetryFailed, J!Answer, JP!Answer, J!Event, JP!Event,
         J!FailureOf, JP!FailureOf, J!Job, JP!Job, J!Arg, JP!Arg, J!store, JP!store,
         J!runner, JP!runner, J!OperationFails, JP!OperationFails, J!flags,
         JP!flags, J!results, JP!results, J!DataFault, JP!DataFault, J!World,
         JP!World, J!Next, JP!Next

LEMMA SameJobsVars == UNCHANGED J!vars <=> UNCHANGED JP!vars
  BY DEF J!world, JP!world, J!flags, JP!flags, J!results, JP!results, J!vars,
         JP!vars

LEMMA UnchangedJobs == UNCHANGED vars => UNCHANGED J!vars
  BY DEF vars, J!world, J!flags, J!results, J!vars

LEMMA SameScheduling == J!SchedulingIsSound <=> JP!SchedulingIsSound
  BY SMTT(60)
     DEF J!OneKnownJobRuns, JP!OneKnownJobRuns, J!NoPlan, JP!NoPlan, J!NoExec,
         JP!NoExec, J!Finals, JP!Finals, J!FinalAnswers, JP!FinalAnswers,
         J!QueuedFor, JP!QueuedFor, J!PostedFor, JP!PostedFor, J!PrepareAnswers,
         JP!PrepareAnswers, J!ExecutionIsDriven, JP!ExecutionIsDriven, J!Extraction,
         JP!Extraction, J!Allowed, JP!Allowed, J!YieldingCancelsGeneration,
         JP!YieldingCancelsGeneration, J!Yielding, JP!Yielding, J!RunnerIsReleased,
         JP!RunnerIsReleased, J!SchedulingIsSound, JP!SchedulingIsSound

LEMMA SameResults == J!ResultsAreOwned <=> JP!ResultsAreOwned
  BY SMTT(60)
     DEF J!Finals, JP!Finals, J!FinalizersOwnTheirRow, JP!FinalizersOwnTheirRow,
         J!NoPlan, JP!NoPlan, J!NoExec, JP!NoExec, J!Running, JP!Running,
         J!ResultIsOfThisAttempt, JP!ResultIsOfThisAttempt, J!FailedAfterAttempts,
         JP!FailedAfterAttempts, J!CountedAgainOnlyByFaults,
         JP!CountedAgainOnlyByFaults, J!ResultsAreOwned, JP!ResultsAreOwned

JobsInv == part = "jobs" => JP!IInv

LEMMA JobsStart == Init => JobsInv
  <1> SUFFICES ASSUME Init, part = "jobs"
               PROVE  JP!IInv
    BY DEF JobsInv
  <1>1. J!Init
    BY DEF Init, InitOf
  <1> QED  BY <1>1, ComponentsAssumption, SameJobsInit, JP!InitiallyIInv

LEMMA JobsMoves ==
  ASSUME [Next]_vars, part = "jobs"
  PROVE  [JP!Next]_JP!vars
  <1>1. J!Next \/ UNCHANGED J!vars
    <2>1. CASE Next
      BY <2>1 DEF Next, InR, InV, InX, InG, InH, InW, InT, InJ, InM, InP, InA, InC
    <2>2. CASE UNCHANGED vars
      BY <2>2, UnchangedJobs
    <2> QED  BY <2>1, <2>2
  <1> QED  BY <1>1, SameJobsNext, SameJobsVars

LEMMA JobsStep == JobsInv /\ [Next]_vars => JobsInv'
  <1> SUFFICES ASSUME JobsInv, [Next]_vars, part' = "jobs"
               PROVE  JP!IInv'
    BY DEF JobsInv
  <1>1. part = "jobs" /\ JP!IInv
    BY PartStays DEF JobsInv
  <1> QED  BY <1>1, JobsMoves, JP!IInvStep, ComponentsAssumption

LEMMA JobsInvariance == Spec => []JobsInv
  BY JobsStart, JobsStep, PTL DEF Spec

\* MemoryJobCoordinator and BackgroundGenerationRunner: _current, _claim_in_flight and
\* the data thread agree on the one row that is running, the execution has someone whose
\* answer it waits for, a generation that must give way is cancelled, and the runner is
\* never left paused, for any jobs, kinds, attempts, switches and faults.
THEOREM JobsScheduled == Spec => []SchedulingIsSound
  <1>1. JobsInv => SchedulingIsSound
    BY SameScheduling, JP!IsScheduled, ComponentsAssumption DEF JobsInv, SchedulingIsSound
  <1> QED  BY <1>1, JobsInvariance, PTL

\* MemoryJobCoordinator: a queued finalization still owns its row and is alone, an
\* outcome is taken only for the attempt that generates, a job fails for good only after
\* MAX_JOB_ATTEMPTS or because its payload is invalid, and a turn is counted again only
\* after a fault.
THEOREM JobsResults == Spec => []ResultsAreOwned
  <1>1. JobsInv => ResultsAreOwned
    BY SameResults, JP!AreOwned, ComponentsAssumption DEF JobsInv, ResultsAreOwned
  <1> QED  BY <1>1, JobsInvariance, PTL

----------------------------------------
(* The memory stores. *)

LEMMA SameMemoriesInit == M!Init <=> MP!Init
  BY SMTT(60)
     DEF M!Cardinality, MP!Cardinality, M!NoFact, MP!NoFact, M!NoRefl, MP!NoRefl,
         M!NoImp, MP!NoImp, M!None, MP!None, M!Done, MP!Done, M!Init, MP!Init

LEMMA SameMemoriesNext == M!Next <=> MP!Next
  BY SMTT(60)
     DEF M!Cardinality, MP!Cardinality, M!Create, MP!Create, M!Repeat, MP!Repeat,
         M!Supplement, MP!Supplement, M!Advance, MP!Advance, M!Edit, MP!Edit,
         M!Archive, MP!Archive, M!SetFact, MP!SetFact, M!Restore, MP!Restore,
         M!ArchiveDecayed, MP!ArchiveDecayed, M!OpenConflict, MP!OpenConflict,
         M!ResolveAccept, MP!ResolveAccept, M!NextVersion, MP!NextVersion, M!NoDeep,
         MP!NoDeep, M!ResolveMerge, MP!ResolveMerge, M!Conflicted, MP!Conflicted,
         M!Resolved, MP!Resolved, M!ResolveKeep, MP!ResolveKeep, M!DeleteMessages,
         MP!DeleteMessages, M!DeleteFact, MP!DeleteFact, M!OfFact, MP!OfFact,
         M!Answers, MP!Answers, M!NoKey, MP!NoKey, M!Batch, MP!Batch, M!MayCite,
         MP!MayCite, M!Persist, MP!Persist, M!Synthesize, MP!Synthesize, M!FadeRefl,
         MP!FadeRefl, M!ArchiveRefl, MP!ArchiveRefl, M!RestoreRefl, MP!RestoreRefl,
         M!EditRefl, MP!EditRefl, M!DeleteRefl, MP!DeleteRefl, M!AskPromotion,
         MP!AskPromotion, M!SignalRefl, MP!SignalRefl, M!OfRefl, MP!OfRefl,
         M!Toward0, MP!Toward0, M!FadeImp, MP!FadeImp, M!ArchiveImp, MP!ArchiveImp,
         M!RestoreImp, MP!RestoreImp, M!EditImp, MP!EditImp, M!DeleteImp,
         MP!DeleteImp, M!Kinds, MP!Kinds, M!Up, MP!Up, M!Down, MP!Down, M!Scored,
         MP!Scored, M!AfterSignal, MP!AfterSignal, M!Vouch, MP!Vouch, M!SignalImp,
         MP!SignalImp, M!OfImp, MP!OfImp, M!PromoteNew, MP!PromoteNew, M!Promotable,
         MP!Promotable, M!Inherit, MP!Inherit, M!PromoteMerge, MP!PromoteMerge,
         M!Answered, MP!Answered, M!PromotionConflict, MP!PromotionConflict,
         M!Promotion, MP!Promotion, M!SuppressedRefl, MP!SuppressedRefl,
         M!SuppressedImp, MP!SuppressedImp, M!Suppress, MP!Suppress,
         M!SuppressDescendants, MP!SuppressDescendants, M!RestoredRefl,
         MP!RestoredRefl, M!From, MP!From, M!Blocked, MP!Blocked, M!Holds, MP!Holds,
         M!RestoredImp, MP!RestoredImp, M!Over, MP!Over, M!RestoreOver,
         MP!RestoreOver, M!ReevaluateDescendants, MP!ReevaluateDescendants,
         M!SecondIsLost, MP!SecondIsLost, M!NoRefl, MP!NoRefl, M!NoImp, MP!NoImp,
         M!Deleted, MP!Deleted, M!ClearDerived, MP!ClearDerived, M!NoFact,
         MP!NoFact, M!Versions, MP!Versions, M!NoRows, MP!NoRows, M!Exists,
         MP!Exists, M!jobs, MP!jobs, M!ClearFacts, MP!ClearFacts, M!Free, MP!Free,
         M!Absorbed, MP!Absorbed, M!Valid, MP!Valid, M!Offered, MP!Offered,
         M!NoFacts, MP!NoFacts, M!Prepare, MP!Prepare, M!JobEnds, MP!JobEnds,
         M!None, MP!None, M!Done, MP!Done, M!factVars, MP!factVars, M!deepVars,
         MP!deepVars, M!NoPromotion, MP!NoPromotion, M!Next, MP!Next

LEMMA SameMemoriesVars == UNCHANGED M!vars <=> UNCHANGED MP!vars
  BY DEF M!factVars, MP!factVars, M!deepVars, MP!deepVars, M!jobs, MP!jobs, M!vars,
         MP!vars

LEMMA UnchangedMemories == UNCHANGED vars => UNCHANGED M!vars
  BY DEF vars, M!factVars, M!deepVars, M!jobs, M!vars

LEMMA SameSupport == M!SupportIsCurrent <=> MP!SupportIsCurrent
  BY SMTT(60)
     DEF M!Cardinality, MP!Cardinality, M!None, MP!None, M!Done, MP!Done, M!Blocked,
         MP!Blocked, M!Recalled, MP!Recalled, M!Valid, MP!Valid, M!Current,
         MP!Current, M!SupportIsCurrent, MP!SupportIsCurrent

LEMMA SameDeleted == M!DeletedLeavesNothing <=> MP!DeletedLeavesNothing
  BY SMTT(60)
     DEF M!Cardinality, MP!Cardinality, M!None, MP!None, M!Exists, MP!Exists,
         M!DeletedLeavesNothing, MP!DeletedLeavesNothing

MemoriesInv == part = "memories" => MP!IInv

LEMMA MemoriesStart == Init => MemoriesInv
  <1> SUFFICES ASSUME Init, part = "memories"
               PROVE  MP!IInv
    BY DEF MemoriesInv
  <1>1. M!Init
    BY DEF Init, InitOf
  <1>2. MP!Parameters
    BY ComponentsAssumption DEF MP!Parameters
  <1> QED  BY <1>1, <1>2, SameMemoriesInit, MP!InitiallyIInv

LEMMA MemoriesMoves ==
  ASSUME [Next]_vars, part = "memories"
  PROVE  [MP!Next]_MP!vars
  <1>1. M!Next \/ UNCHANGED M!vars
    <2>1. CASE Next
      BY <2>1 DEF Next, InR, InV, InX, InG, InH, InW, InT, InJ, InM, InP, InA, InC
    <2>2. CASE UNCHANGED vars
      BY <2>2, UnchangedMemories
    <2> QED  BY <2>1, <2>2
  <1> QED  BY <1>1, SameMemoriesNext, SameMemoriesVars

LEMMA MemoriesStep == MemoriesInv /\ [Next]_vars => MemoriesInv'
  <1> SUFFICES ASSUME MemoriesInv, [Next]_vars, part' = "memories"
               PROVE  MP!IInv'
    BY DEF MemoriesInv
  <1>1. part = "memories" /\ MP!IInv
    BY PartStays DEF MemoriesInv
  <1> QED  BY <1>1, MemoriesMoves, MP!IInvStep

LEMMA MemoriesInvariance == Spec => []MemoriesInv
  BY MemoriesStart, MemoriesStep, PTL DEF Spec

\* DeepMemoryStore and MemoryStore: when no operation is between its two transactions, a
\* reflection or an impression that is put in prompts rests on facts that are active,
\* current and undisputed, unless it was restored or confirmed, for any number of facts,
\* reflections, impressions, versions, operations and lost second transactions.
THEOREM SupportCurrent == Spec => []SupportIsCurrent
  <1>1. MemoriesInv => SupportIsCurrent
    BY SameSupport, MP!SupportHolds DEF MemoriesInv, SupportIsCurrent
  <1> QED  BY <1>1, MemoriesInvariance, PTL

\* DeepMemoryStore.delete_cascade and clear_all: no reflection or impression that a deleted
\* fact went into is left, through whichever versions and merges it came, for any number
\* of facts, reflections, impressions, versions, operations and lost second transactions.
THEOREM NothingLeft == Spec => []DeletedLeavesNothing
  <1>1. MemoriesInv => DeletedLeavesNothing
    BY SameDeleted, MP!NothingOutlives DEF MemoriesInv, DeletedLeavesNothing
  <1> QED  BY <1>1, MemoriesInvariance, PTL
=============================================================================
