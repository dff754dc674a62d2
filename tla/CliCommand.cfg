SPECIFICATION Spec
CONSTANTS
  Supported = {"0.1", "0.2", "0.3"}
  Unsupported = {"9.9"}
  IndexName = "index.md"
  LogName = "log.md"
  Titles <- MCTitles
  Order <- MCOrder
  Markdown = {"a.md", "index.md", "n.md", "AGENTS.md"}
  Portable = {".agents", "AGENTS.md", "a.md", "index.md", "n.md", "sub"}
  AgentsDir = ".agents"
  AgentsName = "AGENTS.md"
  Reservation = "reserved"
  MaxSegments = 3
  MaxDocuments = 2
  Platforms = {"unix", "windows"}
  Roots <- MCRoots
  Commands <- MCCommands
  Generated <- MCGenerated
  Migrated <- MCMigrated
  Attention <- MCAttention
  Irregular <- MCIrregular
  Written <- MCWritten
  Dirs <- MCDirs
  Files <- MCFiles
  MaxMeddling = 2
INVARIANT PublishedAsPlanned
INVARIANT ExitTruthful
INVARIANT VerdictSound
INVARIANT PlanSound
PROPERTY FilesSafe
CHECK_DEADLOCK FALSE
