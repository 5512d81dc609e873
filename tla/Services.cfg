SPECIFICATION Spec
CONSTANTS
  Hits = {h1, h2, h3, h4}
  Owners = {o1, o2}
  NoOwner = NoOwner
  Limit = 2
  MaxMinute = 1
  Jobs = {j1, j2, j3}
  ChatOwners = {c1}
  DrainRuns = TRUE
  FetchLimit = 2
  MaxUndeliverable = 1
  MaxFaults = 1
  Messages = {m1, m2, m3, m4}
  PageLimit = 2
  MaxClock = 3
  OwnerIds = {"42", "042", "43", "guest"}
  ChatIds = {42, 43}
  NotANumber = NotANumber
  IntOf <- MCIntOf
  NoOwnerId = NoOwnerId
  MaxChats = 3
  MaxTargets = 3
  RagSettings = {"on", "off"}
  MaxCommands = 2
  Calls = {c1, c2, c3}
  Payloads = {p1, p2}
  BatchSem = 1
  MaxAttempts = 3
  MaxExpiries = 1
  NoPayload = NoPayload
  NoAnswer = NoAnswer
  MaxPieces = 4
  NoMessage = NoMessage
  MaxIterations = 6
  MaxToolCalls = 2
  Chunks = {k1, k2, k3}
  RerankTopN = 2
  MaxScore = 1
  ScoreThreshold = 1
  MaxQueries = 2
  Buckets = 4
  MaxPrompts = 3
  Overhead = 2
  MaxTokens = 2
  MaxHistory = 4
  NoPrompt = NoPrompt
  NotYet = NotYet
  Texts = {"hello", "again"}
  MaxCalls = 6
INVARIANTS
  LimitKept
  Announced
  SentForAReason
  ExportComplete
  BroadcastAccounts
  CommandsHaveTheirAgent
  OnlyFailuresLeak
  AnswerIsForTheRequest
  SlotsAccounted
  AnswerShown
  CallsAnswered
  AnswersGrounded
  SharesKept
  EndKept
  ContractKept
CHECK_DEADLOCK FALSE
