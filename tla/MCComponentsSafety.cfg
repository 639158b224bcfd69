SPECIFICATION Spec
CONSTANTS
  Nil = Nil
  Parts = {"reminders", "voice", "vectors", "greetings", "history", "window", "stream",
           "jobs", "memories", "providers", "attachments", "sources"}
  RemindersAlarms = {"a"}
  RemindersFollowUps = {"f"}
  RemindersMaxTime = 2
  RemindersMaxEdits = 2
  RemindersMaxWrites = 1
  RemindersMaxFaults = 1
  RemindersMaxStops = 1
  VoiceMaxUtterances = 2
  VoiceMaxSentences = 3
  VoiceCapacity = 2
  VoiceMaxFailures = 1
  VectorsMemories = {"m1", "m2"}
  VectorsReflections = {"r1"}
  VectorsKnowledge = {"k1", "k2"}
  VectorsMaxChanges = 1
  VectorsMaxRequests = 1
  VectorsMaxFaults = 1
  VectorsMaxCrashes = 1
  GreetingsChatCues = {"q1"}
  GreetingsMemoryCues = {"q2"}
  GreetingsLimit = 1
  GreetingsMaxDay = 2
  GreetingsMaxCycles = 2
  GreetingsMaxShown = 2
  GreetingsMaxChanges = 1
  GreetingsMaxRare = 1
  HistoryConversations = {"c1", "c2", "c3"}
  HistoryFirst = "c1"
  HistoryMaxSends = 1
  HistoryMaxChanges = 2
  HistoryMaxWrites = 1
  HistoryMaxFaults = 1
  WindowMaxItems = 2
  WindowMaxSends = 2
  WindowMaxWindows = 3
  WindowMaxFaults = 1
  StreamReplies <- MCReplies
  StreamLimit = 7
  StreamMaxHidden = 4
  StreamMaxCut = 2
  StreamMaxOmitted = 1
  JobsJobs = {"e", "b"}
  JobsKind <- MCKind
  JobsMalformed = {"b"}
  JobsNoJob = "none"
  JobsMaxJobAttempts = 2
  JobsMaxSwitches = 2
  JobsMaxFaults = 1
  MemoriesFacts = {"f1", "f2"}
  MemoriesReflections = {"r1", "r2"}
  MemoriesImpressions = {"p1"}
  MemoriesMinFacts = 1
  MemoriesMaxVersions = 2
  MemoriesMaxOps = 4
  MemoriesMaxFaults = 1
  ProvidersProfiles = {"p", "q"}
  ProvidersUrls = {"u", "v"}
  ProvidersModels = {"m"}
  ProvidersKeys = {"k1", "k2"}
  ProvidersShipped = {"p"}
  ProvidersShippedUrl = "u"
  ProvidersShippedModel = "m"
  ProvidersFirstKey = "k1"
  ProvidersMaxEdits = 3
  ProvidersMaxSaves = 1
  ProvidersMaxFaults = 2
  ProvidersMaxCrashes = 1
  AttachmentsContents = {"x"}
  AttachmentsConversations = {"c1", "c2", "c3"}
  AttachmentsMaxSends = 2
  AttachmentsMaxImports = 2
  AttachmentsMaxChanges = 2
  AttachmentsMaxBackups = 1
  AttachmentsMaxFaults = 1
  SourcesMaxStarts = 2
  SourcesMaxPictures = 3
  SourcesMaxFaults = 1
INVARIANTS
  TypeOK
  DeliveriesAreTrue
  PlaysTheReply
  IndexIsSound
  CueIsSpentOnce
  DailyLimit
  HistoryIsKept
  WindowIsSafe
  CompletedIsWhole
  ThoughtsStayHidden
  SchedulingIsSound
  ResultsAreOwned
  SupportIsCurrent
  DeletedLeavesNothing
  KeysArePaired
  AttachmentsAreKept
  FrameIsOfTheSharedSource
PROPERTIES
  KeptIsTrue
CHECK_DEADLOCK FALSE
