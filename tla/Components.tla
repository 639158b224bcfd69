-------------------------- MODULE Components --------------------------
(* The components around the chat and its jobs.  In the model none of them shares      *)
(* state with another: a behaviour is one of the component part, so one run checks     *)
(* them all.                                                                          *)
EXTENDS Naturals, Sequences, FiniteSets
CONSTANTS
  \* the components to check; nothing, where records are expected; and the constants
  \* of each component, its name before the name it has there
  Parts, Nil,
  RemindersAlarms, RemindersFollowUps, RemindersMaxTime, RemindersMaxEdits,
  RemindersMaxWrites, RemindersMaxFaults, RemindersMaxStops,
  VoiceMaxUtterances, VoiceMaxSentences, VoiceCapacity, VoiceMaxFailures,
  VectorsMemories, VectorsReflections, VectorsKnowledge, VectorsMaxChanges,
  VectorsMaxRequests, VectorsMaxFaults, VectorsMaxCrashes,
  GreetingsChatCues, GreetingsMemoryCues, GreetingsLimit, GreetingsMaxDay,
  GreetingsMaxCycles, GreetingsMaxShown, GreetingsMaxChanges, GreetingsMaxRare,
  HistoryConversations, HistoryFirst, HistoryMaxSends, HistoryMaxChanges, HistoryMaxWrites,
  HistoryMaxFaults,
  WindowMaxItems, WindowMaxSends, WindowMaxWindows, WindowMaxFaults,
  StreamReplies, StreamLimit, StreamMaxHidden, StreamMaxCut, StreamMaxOmitted,
  JobsJobs, JobsKind, JobsMalformed, JobsNoJob, JobsMaxJobAttempts, JobsMaxSwitches,
  JobsMaxFaults,
  MemoriesFacts, MemoriesReflections, MemoriesImpressions, MemoriesMinFacts,
  MemoriesMaxVersions, MemoriesMaxOps, MemoriesMaxFaults,
  ProvidersProfiles, ProvidersUrls, ProvidersModels, ProvidersKeys, ProvidersShipped,
  ProvidersShippedUrl, ProvidersShippedModel, ProvidersFirstKey, ProvidersMaxEdits,
  ProvidersMaxSaves, ProvidersMaxFaults, ProvidersMaxCrashes,
  AttachmentsContents, AttachmentsConversations, AttachmentsMaxSends, AttachmentsMaxImports,
  AttachmentsMaxChanges, AttachmentsMaxBackups, AttachmentsMaxFaults,
  SourcesMaxStarts, SourcesMaxPictures, SourcesMaxFaults

ASSUME ComponentsAssumption ==
  /\ JobsNoJob \notin JobsJobs
  /\ JobsKind \in [JobsJobs -> {"summary", "extraction"}]
  /\ JobsMalformed \subseteq JobsJobs
  /\ JobsMaxJobAttempts \in Nat \ {0}
  /\ JobsMaxSwitches \in Nat
  /\ JobsMaxFaults \in Nat
  /\ MemoriesMinFacts \in Nat \ {0}
  /\ MemoriesMaxVersions \in Nat \ {0}
  /\ MemoriesReflections \cap MemoriesImpressions = {}
  /\ ProvidersShippedUrl \in ProvidersUrls
  /\ ProvidersShippedModel \in ProvidersModels
  /\ ProvidersFirstKey \in ProvidersKeys
  /\ <<"voice", "independent">> \notin ProvidersProfiles \X ProvidersUrls
  /\ AttachmentsConversations # {}
  /\ Nil \notin AttachmentsConversations
  /\ GreetingsLimit \in Nat
  /\ GreetingsMaxShown \in Nat
  /\ GreetingsMaxDay \in Nat \ {0}
  /\ HistoryFirst \in HistoryConversations
  /\ Nil \notin HistoryConversations
  /\ HistoryMaxSends \in Nat
  /\ RemindersMaxTime \in Nat

VARIABLES
  part, \* the component
  x1, x2, x3, x4, x5, x6, x7, x8, x9, x10, x11, x12, x13, x14, x15, x16, x17, x18, x19, x20,
  x21, x22, x23, x24, x25, x26 \* its variables, in the order it declares them

R == INSTANCE Reminders WITH
       Alarms <- RemindersAlarms, FollowUps <- RemindersFollowUps,
       MaxTime <- RemindersMaxTime, MaxEdits <- RemindersMaxEdits,
       MaxWrites <- RemindersMaxWrites, MaxFaults <- RemindersMaxFaults,
       MaxStops <- RemindersMaxStops, status <- x1, version <- x2, due <- x3, now <- x4,
       foreground <- x5, interactive <- x6, answers <- x7, running <- x8, scanPending <- x9,
       inFlight <- x10, bubble <- x11, locked <- x12, safe <- x13, shown <- x14,
       writes <- x15, faults <- x16, stops <- x17
V == INSTANCE Voice WITH
       MaxUtterances <- VoiceMaxUtterances, MaxSentences <- VoiceMaxSentences,
       Capacity <- VoiceCapacity, MaxFailures <- VoiceMaxFailures, s <- x1, tokens <- x2,
       asr <- x3, ttsActive <- x4, ttsPending <- x5, ttsDone <- x6, playing <- x7,
       chat <- x8, mainQ <- x9, mixed <- x10, sentences <- x11, failures <- x12
X == INSTANCE VectorIndex WITH
       Memories <- VectorsMemories, Reflections <- VectorsReflections,
       Knowledge <- VectorsKnowledge, MaxChanges <- VectorsMaxChanges,
       MaxRequests <- VectorsMaxRequests, MaxFaults <- VectorsMaxFaults,
       MaxCrashes <- VectorsMaxCrashes, docs <- x1, active <- x2, building <- x3, ix <- x4,
       cache <- x5, notices <- x6, ui <- x7, changed <- x8, lost <- x9, changes <- x10,
       requests <- x11, faults <- x12, crashes <- x13
G == INSTANCE Greetings WITH
       ChatCues <- GreetingsChatCues, MemoryCues <- GreetingsMemoryCues,
       Limit <- GreetingsLimit, MaxDay <- GreetingsMaxDay, MaxCycles <- GreetingsMaxCycles,
       MaxShown <- GreetingsMaxShown, MaxChanges <- GreetingsMaxChanges,
       MaxRare <- GreetingsMaxRare, c <- x1, settings <- x2, quiet <- x3, away <- x4,
       today <- x5, bubble <- x6, runner <- x7, jobs <- x8, results <- x9, events <- x10,
       cue <- x11, backed <- x12, opened <- x13, refused <- x14, cycles <- x15,
       changes <- x16, rare <- x17
H == INSTANCE History WITH
       Conversations <- HistoryConversations, First <- HistoryFirst, None <- Nil,
       MaxSends <- HistoryMaxSends, MaxChanges <- HistoryMaxChanges,
       MaxWrites <- HistoryMaxWrites, MaxFaults <- HistoryMaxFaults, convs <- x1,
       used <- x2, saved <- x3, reply <- x4, cursor <- x5, writable <- x6, panel <- x7,
       chat <- x8, change <- x9, question <- x10, dialog <- x11, urgent <- x12,
       normal <- x13, answers <- x14, typed <- x15, framing <- x16, fixed <- x17,
       erased <- x18, strayed <- x19, changes <- x20, writes <- x21, faults <- x22
W == INSTANCE DataWindow WITH
       MaxItems <- WindowMaxItems, MaxSends <- WindowMaxSends,
       MaxWindows <- WindowMaxWindows, MaxFaults <- WindowMaxFaults, window <- x1,
       dialog <- x2, staged <- x3, stopped <- x4, held <- x5, exiting <- x6, stopping <- x7,
       chat <- x8, work <- x9, paused <- x10, greeter <- x11, urgent <- x12, normal <- x13,
       background <- x14, answers <- x15, dataUp <- x16, live <- x17, agreed <- x18,
       backup <- x19, fate <- x20, lost <- x21, items <- x22, sends <- x23, windows <- x24,
       faults <- x25
T == INSTANCE ReplyStream WITH
       Replies <- StreamReplies, Limit <- StreamLimit, MaxHidden <- StreamMaxHidden,
       MaxCut <- StreamMaxCut, MaxOmitted <- StreamMaxOmitted, protocol <- x1,
       streamed <- x2, filtered <- x3, purpose <- x4, reply <- x5, said <- x6, at <- x7,
       wire <- x8, open <- x9, omitted <- x10, pc <- x11, parser <- x12, filter <- x13,
       shown <- x14, result <- x15, flag <- x16, canceller <- x17, bound <- x18, soon <- x19
J == INSTANCE MemoryJobs WITH
       Jobs <- JobsJobs, Kind <- JobsKind, Malformed <- JobsMalformed, NoJob <- JobsNoJob,
       MaxJobAttempts <- JobsMaxJobAttempts, MaxSwitches <- JobsMaxSwitches,
       MaxFaults <- JobsMaxFaults, status <- x1, attempts <- x2, due <- x3, dataQ <- x4,
       opStep <- x5, dataUp <- x6, mainQ <- x7, gen <- x8, runnerPaused <- x9,
       runnerShut <- x10, faults <- x11, up <- x12, accepting <- x13, recovering <- x14,
       claimInFlight <- x15, paused <- x16, foreground <- x17, memoryEnabled <- x18,
       current <- x19, pendingLaunch <- x20, latest <- x21, covered <- x22, noted <- x23,
       abandoned <- x24, switches <- x25
M == INSTANCE MemoryStores WITH
       Facts <- MemoriesFacts, Reflections <- MemoriesReflections,
       Impressions <- MemoriesImpressions, MinFacts <- MemoriesMinFacts,
       MaxVersions <- MemoriesMaxVersions, MaxOps <- MemoriesMaxOps,
       MaxFaults <- MemoriesMaxFaults, fact <- x1, sourced <- x2, eligible <- x3,
       refl <- x4, imp <- x5, clash <- x6, offer <- x7, asked <- x8, second <- x9,
       vouched <- x10, untold <- x11, ops <- x12, faults <- x13
P == INSTANCE Providers WITH
       Profiles <- ProvidersProfiles, Urls <- ProvidersUrls, Models <- ProvidersModels,
       Keys <- ProvidersKeys, Shipped <- ProvidersShipped,
       ShippedUrl <- ProvidersShippedUrl, ShippedModel <- ProvidersShippedModel,
       FirstKey <- ProvidersFirstKey, MaxEdits <- ProvidersMaxEdits,
       MaxSaves <- ProvidersMaxSaves, MaxFaults <- ProvidersMaxFaults,
       MaxCrashes <- ProvidersMaxCrashes, disk <- x1, store <- x2, live <- x3, page <- x4,
       test <- x5, request <- x6, tx <- x7, paired <- x8, passed <- x9, report <- x10,
       edits <- x11, saves <- x12, faults <- x13, crashes <- x14
A == INSTANCE Attachments WITH
       Contents <- AttachmentsContents, Conversations <- AttachmentsConversations,
       None <- Nil, MaxSends <- AttachmentsMaxSends, MaxImports <- AttachmentsMaxImports,
       MaxChanges <- AttachmentsMaxChanges, MaxBackups <- AttachmentsMaxBackups,
       MaxFaults <- AttachmentsMaxFaults, files <- x1, rows <- x2, convs <- x3,
       drafts <- x4, panel <- x5, current <- x6, cursor <- x7, import <- x8, chat <- x9,
       unsaved <- x10, asked <- x11, change <- x12, late <- x13, ready <- x14,
       urgent <- x15, normal <- x16, answers <- x17, build <- x18, archive <- x19,
       loose <- x20, strayed <- x21, imports <- x22, sends <- x23, changes <- x24,
       backups <- x25, faults <- x26
C == INSTANCE VisualSources WITH
       None <- Nil, MaxStarts <- SourcesMaxStarts, MaxPictures <- SourcesMaxPictures,
       MaxFaults <- SourcesMaxFaults, kind <- x1, panel <- x2, slot <- x3, on <- x4,
       stops <- x5, encoder <- x6, captures <- x7, capturing <- x8, waiting <- x9,
       asked <- x10, mail <- x11, began <- x12, starts <- x13, pictures <- x14,
       faults <- x15

vars == <<part, x1, x2, x3, x4, x5, x6, x7, x8, x9, x10, x11, x12, x13, x14, x15, x16, x17, x18,
          x19, x20, x21, x22, x23, x24, x25, x26>>

\* A component that has fewer variables leaves the last ones 0.
InitOf ==
  \/ /\ part = "reminders" /\ R!Init
     /\ x18 = 0 /\ x19 = 0 /\ x20 = 0 /\ x21 = 0 /\ x22 = 0 /\ x23 = 0 /\ x24 = 0 /\ x25 = 0 /\ x26 = 0
  \/ /\ part = "voice" /\ V!Init
     /\ x13 = 0 /\ x14 = 0 /\ x15 = 0 /\ x16 = 0 /\ x17 = 0 /\ x18 = 0 /\ x19 = 0 /\ x20 = 0 /\ x21 = 0 /\
        x22 = 0 /\ x23 = 0 /\ x24 = 0 /\ x25 = 0 /\ x26 = 0
  \/ /\ part = "vectors" /\ X!Init
     /\ x14 = 0 /\ x15 = 0 /\ x16 = 0 /\ x17 = 0 /\ x18 = 0 /\ x19 = 0 /\ x20 = 0 /\ x21 = 0 /\ x22 = 0 /\
        x23 = 0 /\ x24 = 0 /\ x25 = 0 /\ x26 = 0
  \/ /\ part = "greetings" /\ G!Init
     /\ x18 = 0 /\ x19 = 0 /\ x20 = 0 /\ x21 = 0 /\ x22 = 0 /\ x23 = 0 /\ x24 = 0 /\ x25 = 0 /\ x26 = 0
  \/ /\ part = "history" /\ H!Init
     /\ x23 = 0 /\ x24 = 0 /\ x25 = 0 /\ x26 = 0
  \/ /\ part = "window" /\ W!Init
     /\ x26 = 0
  \/ /\ part = "stream" /\ T!Init
     /\ x20 = 0 /\ x21 = 0 /\ x22 = 0 /\ x23 = 0 /\ x24 = 0 /\ x25 = 0 /\ x26 = 0
  \/ /\ part = "jobs" /\ J!Init
     /\ x26 = 0
  \/ /\ part = "memories" /\ M!Init
     /\ x14 = 0 /\ x15 = 0 /\ x16 = 0 /\ x17 = 0 /\ x18 = 0 /\ x19 = 0 /\ x20 = 0 /\ x21 = 0 /\ x22 = 0 /\
        x23 = 0 /\ x24 = 0 /\ x25 = 0 /\ x26 = 0
  \/ /\ part = "providers" /\ P!Init
     /\ x15 = 0 /\ x16 = 0 /\ x17 = 0 /\ x18 = 0 /\ x19 = 0 /\ x20 = 0 /\ x21 = 0 /\ x22 = 0 /\ x23 = 0 /\
        x24 = 0 /\ x25 = 0 /\ x26 = 0
  \/ /\ part = "attachments" /\ A!Init
  \/ /\ part = "sources" /\ C!Init
     /\ x16 = 0 /\ x17 = 0 /\ x18 = 0 /\ x19 = 0 /\ x20 = 0 /\ x21 = 0 /\ x22 = 0 /\ x23 = 0 /\ x24 = 0 /\
        x25 = 0 /\ x26 = 0
Init == InitOf /\ part \in Parts

\* A step of the component under check leaves the rest alone.
InR == part = "reminders" /\ UNCHANGED <<part, x18, x19, x20, x21, x22, x23, x24, x25, x26>>
InV == part = "voice" /\ UNCHANGED <<part, x13, x14, x15, x16, x17, x18, x19, x20, x21, x22, x23, x24, x25, x26>>
InX == part = "vectors" /\ UNCHANGED <<part, x14, x15, x16, x17, x18, x19, x20, x21, x22, x23, x24, x25, x26>>
InG == part = "greetings" /\ UNCHANGED <<part, x18, x19, x20, x21, x22, x23, x24, x25, x26>>
InH == part = "history" /\ UNCHANGED <<part, x23, x24, x25, x26>>
InW == part = "window" /\ UNCHANGED <<part, x26>>
InT == part = "stream" /\ UNCHANGED <<part, x20, x21, x22, x23, x24, x25, x26>>
InJ == part = "jobs" /\ UNCHANGED <<part, x26>>
InM == part = "memories" /\ UNCHANGED <<part, x14, x15, x16, x17, x18, x19, x20, x21, x22, x23, x24, x25, x26>>
InP == part = "providers" /\ UNCHANGED <<part, x15, x16, x17, x18, x19, x20, x21, x22, x23, x24, x25, x26>>
InA == part = "attachments" /\ UNCHANGED part
InC == part = "sources" /\ UNCHANGED <<part, x16, x17, x18, x19, x20, x21, x22, x23, x24, x25, x26>>

Next ==
  \/ InR /\ R!Next
  \/ InV /\ V!Next
  \/ InX /\ X!Next
  \/ InG /\ G!Next
  \/ InH /\ H!Next
  \/ InW /\ W!Next
  \/ InT /\ T!Next
  \/ InJ /\ J!Next
  \/ InM /\ M!Next
  \/ InP /\ P!Next
  \/ InA /\ A!Next
  \/ InC /\ C!Next

Spec == Init /\ [][Next]_vars

(* The fairness of every component: each of these actions is fair while it is     *)
(* enabled; as part never changes, the i-th ones of the components share a line.  *)
Fair1 ==
  \/ InR /\ R!RunForeground
  \/ InV /\ V!AsrEnds
  \/ InX /\ X!StartUp
  \/ InG /\ G!Timeout
  \/ InH /\ H!Work
  \/ InW /\ W!Work
  \/ InT /\ T!CancelTasks
Fair2 ==
  \/ InR /\ R!RunInteractive
  \/ InV /\ V!TtsCompletes
  \/ InX /\ X!OnStatus
  \/ InG /\ G!RunJob
  \/ InH /\ H!Handle
  \/ InW /\ W!Handle
  \/ InT /\ T!Consume
Fair3 ==
  \/ InR /\ R!Handle
  \/ InV /\ V!TtsSignals
  \/ InX /\ X!OnChanged
  \/ InG /\ G!Handle
  \/ InW /\ W!StopEnds
  \/ InT /\ T!Stream
Fair4 ==
  \/ InR /\ R!Timer
  \/ InV /\ V!Handle
  \/ InX /\ X!Step
  \/ InG /\ G!Runs("text")
  \/ InT /\ T!Prepare
Fair5 ==
  \/ InR /\ R!Dismiss
  \/ InV /\ V!ItemEnds
  \/ InG /\ G!Runs("visual")
  \/ InT /\ T!Interrupt
Fair6 ==
  \/ InV /\ (V!ChatStarts \/ V!ChatRefused)
  \/ InT /\ T!Closed
Fair7 ==
  \/ InV /\ V!ChatEnds
  \/ InT /\ T!Finish
Fairness == WF_vars(Fair1) /\ WF_vars(Fair2) /\ WF_vars(Fair3) /\ WF_vars(Fair4) /\ WF_vars(Fair5) /\ WF_vars(Fair6) /\ WF_vars(Fair7)
FairSpec == Spec /\ Fairness
-----------------------------------------------------------------------------
(* Every variable of the component holds values of its kind. *)
TypeOK ==
  /\ part = "reminders" => R!TypeOK
  /\ part = "voice" => V!TypeOK
  /\ part = "vectors" => X!TypeOK
  /\ part = "greetings" => G!TypeOK
  /\ part = "history" => H!TypeOK
  /\ part = "window" => W!TypeOK
  /\ part = "stream" => T!TypeOK
  /\ part = "jobs" => J!TypeOK
  /\ part = "memories" => M!TypeOK
  /\ part = "providers" => P!TypeOK
  /\ part = "attachments" => A!TypeOK
  /\ part = "sources" => C!TypeOK

(* reminder_scheduler.py: a version of a commitment is delivered once, and what   *)
(* is marked surfaced was shown in the version it has, however scans, deliveries,  *)
(* marks, revisions and failures interleave.                                      *)
DeliveriesAreTrue == part = "reminders" => R!DeliveriesAreTrue

(* reminder_scheduler.py: nothing due stays behind in _delivery_in_flight.        *)
DueIsDelivered ==
  <>[](part = "reminders" /\ R!Undisturbed) =>
    \A c \in RemindersAlarms \cup RemindersFollowUps :
      []<>(part = "reminders" => ~R!IsDue(c))

(* voice_session.py: no sentence of a reply the user spoke over is played.        *)
PlaysTheReply == part = "voice" => V!PlaysTheReply

(* vector_index.py: no operation fails the generation another one is building,   *)
(* and what is searched is of an active generation.                               *)
IndexIsSound == part = "vectors" => X!IndexIsSound

(* vector_index.py, controller.py: however changes, imports, restarts and         *)
(* requests fall, the caches come to hold exactly the active documents.           *)
CatchesUp == <>[](part = "vectors" => X!Excused \/ X!Caught)

(* proactive_controller.py, companion_cues.py: the ledger never counts two        *)
(* greetings for one cue.                                                         *)
CueIsSpentOnce == part = "greetings" => G!CueIsSpentOnce

(* proactive_controller.py: no day sees more greetings than the daily limit.      *)
DailyLimit == part = "greetings" => G!DailyLimit

(* proactive_controller.py: a greeting does not stay active for ever.             *)
GreetingEnds == []<>(part = "greetings" => G!NoGreeting)

(* controller.py, local_data_service.py: a message is written into the            *)
(* conversation shown when it was sent (or when the picture it takes along was     *)
(* there), and a deleted conversation stays deleted.                              *)
HistoryIsKept == part = "history" => H!HistoryIsKept

(* controller.py, data_runtime.py: the files are replaced or removed when the     *)
(* data thread has drained, with what the user agreed to lose in the backup, and  *)
(* no reply or greeting runs in between.                                          *)
WindowIsSafe == part = "window" => W!WindowIsSafe

(* controller.py: a change of the history, and an operation on all data that      *)
(* waits for no answer of the user, ends and unlocks the controls.                *)
Changing == (part = "history" /\ H!Changing) \/ (part = "window" /\ W!Working)
Changed  == (part = "history" /\ ~H!Changing) \/ (part = "window" /\ W!Ended)
ChangesEnd == Changing ~> Changed

(* chat_provider.py: a completed answer is the whole one, however it was cut,     *)
(* but for what is lost behind a thought that casefold() makes longer.            *)
CompletedIsWhole == part = "stream" => T!CompletedIsWhole

(* chat_provider.py: no part of a leading <think> block is handed on.             *)
ThoughtsStayHidden == part = "stream" => T!ThoughtsStayHidden

(* voice_session.py, chat_provider.py: a spoken reply ends in whichever order the  *)
(* chat, the synthesis lane and the playback queue finish; a cancelled request     *)
(* ends even if the service falls silent.                                         *)
Replying == (part = "voice" /\ V!Replying) \/ (part = "stream" /\ T!Cancelled)
Replied  == (part = "voice" /\ ~V!Replying) \/ (part = "stream" /\ T!Ended)
RepliesEnd == Replying ~> Replied

(* memory_job_coordinator.py, background_generation.py: one job runs and the       *)
(* coordinator knows it, what it waits for is on its way, chat and switched-off     *)
(* memory cancel the generation, and the runner is released by whoever ends last.   *)
SchedulingIsSound == part = "jobs" => J!SchedulingIsSound

(* memory_job_coordinator.py: a late result reaches no other attempt, one          *)
(* finalization is queued for a running row, a job fails only after its attempts   *)
(* or for an invalid payload, and a turn is counted again only after a fault.      *)
ResultsAreOwned == part = "jobs" => J!ResultsAreOwned

(* deep_memory_store.py: between operations, derived memory that is put in        *)
(* prompts rests on facts that are active, current and undisputed, unless it was  *)
(* restored or confirmed since they changed.                                      *)
SupportIsCurrent == part = "memories" => M!SupportIsCurrent

(* deep_memory_store.py: nothing that a deleted fact went into outlives it.       *)
DeletedLeavesNothing == part = "memories" => M!DeletedLeavesNothing

(* controller.py, settings.py: a profile that the settings file enables has the   *)
(* key it was enabled with, a request reads the key of the configuration it       *)
(* captured, and without faults what runs a task was tested with its key.         *)
KeysArePaired == part = "providers" => P!KeysArePaired

(* controller.py: when the user is told that the old profiles, keys and routes    *)
(* are kept, they are.                                                            *)
KeptIsTrue == [][part = "providers" => P!Kept]_vars

(* attachments.py, data_management.py: the object of every saved attachment is on *)
(* disk, unless the deletion that removed it could not know of it or was          *)
(* confirmed where it is refused, and a backup is complete.                       *)
AttachmentsAreKept == part = "attachments" => A!AttachmentsAreKept

(* visual_runtime.py: the frame a message is sent with is of the source that is    *)
(* shown as shared, taken since it was last started.                              *)
FrameIsOfTheSharedSource == part = "sources" => C!FrameIsOfTheSharedSource
=============================================================================
