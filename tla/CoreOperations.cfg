SPECIFICATION Spec
CONSTANTS
  Bundles <- MCBundles
  Actors = {"human:ann", "ann"}
  ValidActors = {"human:ann"}
  RootIndex = "index.md"
  Dates = {"date"}
  Unreadable = Unreadable
  ReservedPaths = {"index.md", "log.md"}
  MaxCost = 7
  MaxBundleCost = 11
  GivenPaths <- MCGivenPaths
  Metadata <- MCMetadata
  Contents <- MCContents
  MaxDecodings = 3
  MaxParts = 3
  MaxPart = 4
  MaxValue <- MCMaxValue
  MaxFront = 14
  PlainType <- MCPlainType
  MaxNesting = 2
  MaxAliases = 3
  MaxLines = 5
  MaxIndent = 4
  MaxTokens = 20
  MaxPathUnits = 12
  MaxUnits = 4
  MaxBytes = 4
  MaxOutput = 33
  Sources <- MCSources
  Decimal = 3
  Modulus = 193
  PrimitiveRoot = 5
  MaxTransform = 16
  ShortLimbs = 1
  ShortChunks = 1
  Radixes <- MCRadixes
  ChunkDigits <- MCChunkDigits
  MaxSuffix <- MCMaxSuffix
  CachedDigits = 8
  MaxCached = 32
  Literals <- MCLiterals
INVARIANT SecondRunEmpty
INVARIANT PlanSafe
INVARIANT PathsSettled
INVARIANT RenderedReadsBack
INVARIANT HeaderBounded
INVARIANT KeysToldApart
INVARIANT IntegersExact
CHECK_DEADLOCK FALSE
