CONSTANTS
  None = None
  Missing = Missing
  Corrupt = Corrupt
  NoAnswer = NoAnswer
  Opener = {"program", "reader"}
  Saver = {"program"}
  StoredDocument = {"v1", "v2"}
  MaxDamage = 1
  AlertProvider = {"Claude"}
  AlertAccount = {"a", "f"}
  Persistent = {"a"}
  Rows <- MCRows
  ResetWindows = 2
  Gap = 4
  Drift = 1
  Slop = 1
  Process = {"program", "recovery"}
  CopiedKeys = {"vibecode_lid", "unknown"}
  Polls = {10}
  MinPoll = 30
  MaxPoll = 300
  DefaultPoll = 60
  MaxEdits = 1
  MaxClicks = 4
  MaxStamp = 2
  Client = {"app", "measure"}
  MaxRuns = 1
  MaxFrames = 2
  Account = {"a", "b"}
  Worker = {"w"}
  MaxSignIns = 2
  Code = {"startup", "config_failed", "power_failed"}
  Issue = {"config_failed", "power_failed"}
  LogBytes = 2
  MaxLines = 9
  SigningKey = {"root", "next"}
  Root = "root"
  Version = {1, 2}
  Sequence = {1, 2}
  Portable = TRUE
  MaxTime = 2
  MaxRows = 2
  Percent = {101}
  Hours = {0, 5, 8785}
  PaceWindows = {18000}
  PaceStep = 900
SPECIFICATION MCSpec
INVARIANTS
  AlertsOnce
  MemoryIsDisk
  CodexProfiles
  AnswersAreOwn
  NewestInOrder
  RowsAreSound
PROPERTIES
  
  StoreKeeps
  UpdatesUnderPolicy
CHECK_DEADLOCK FALSE
