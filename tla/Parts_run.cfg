SPECIFICATION Spec
CONSTANTS
  c1 = c1
  c2 = c2
  q1 = q1
  q2 = q2
  Clients = {c1, c2}
  Words <- MCWords
  Chars <- MCChars
  Texts <- MCTexts
  ChunkSize = 2
  Overlap = 1
  TopK = 2
  RrfK = 60
  MaxCalls = 4
  Plots <- MCPlots
  Pages = {p1, p2}
  Adapters = {"azure", "paddle", Nothing}
  Threshold = 2
  Window = 2
  HalfOpen = 2
  Kept = 4
  Nothing = Nothing
  Scores = {0, 40, 92, 97}
  Options = {A, B}
  Models = {"gemini-3.1-pro-preview", "other"}
  Unknown = Unknown
  Questions = {q1, q2}
  Letters = {A, B}
  MaxRetries = 2
  Limit = 1
  Settings <- MCSettings
  None = None
  Readings <- MCReadings
  Absence = Absence
  g1 = g1
  g2 = g2
  x1 = x1
  Runners = {r1, r2}
  Workflow <- MCWorkflow
  Legacy <- MCLegacy
  Required <- MCRequired
  MaxBlockers = 2
  NoFile = NoFile
CHECK_DEADLOCK FALSE
INVARIANT ActiveIsComplete
 
INVARIANT HitsAreActive
INVARIANT RecognitionIsSound
INVARIANT UnsureIsReviewed
INVARIANT AnswersAreArbitrated
INVARIANT ReadyIsSound
INVARIANT PlanIsInOrder
