SPECIFICATION Spec
CONSTANTS
  a = a  b = b  gen = gen  ven = ven  h = h  away = away  old = old  drafted = drafted
  None = None
  NoFunction = NoFunction
  Paths = {a, b, gen, ven, h, away, old, drafted}
  Elsewhere = {away}
  Headers = {h}
  NamedGenerated = {gen}
  Bannered = {}
  Vendored = {ven}
  Flags <- MCFlags
  Missing = {}
  TooLarge = {}
  FloorOf = 2
  Floor = 1
  PathOrder <- MCPathOrder
  Invocations <- MCInvocations
  Analyzers <- MCAnalyzers
  WritesItself = {"csa", "tidy"}
  Diagnostics = {"leak1", "leak2", "leak3", "sys"}
  About <- MCAbout
  Prints <- MCPrints
  Tolerance = 2
  Jobs = 2
  MaxMishaps = 1
  MaxScans = 2
CHECK_DEADLOCK FALSE
INVARIANT ReportsThisCode
