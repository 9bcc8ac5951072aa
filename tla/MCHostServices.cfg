SPECIFICATION MCSpec
CONSTANTS
  core = core
  addon = addon
  Plugins = {core, addon}
  Requires <- MCRequires
  DefaultEnabled = {core, addon}
  PluginThreads = {p1, p2}
  MaxVersion = 2
  a1 = a1
  a2 = a2
  b1 = b1
  b2 = b2
  api = api
  cli = cli
  Threads = {a1, a2, b1, b2}
  Processes = {api, cli}
  ProcessOf <- MCProcessOf
  Writers = {w1, w2}
  Backup = backup
  Actors = {w1, w2, backup}
  Keys = {k1, k2}
  ReusedKeys = {k1}
  MaxRows = 2
  MaxRestores = 3
  s1 = s1
  s2 = s2
  KSources = {s1, s2}
  UnknownOrigin = unknown
  NativeEngines = {lexical}
  Rejected = rejected
  KBs = {kb1}
  KnowThreads = {t1}
  Configured = {"graphrag"}
  Focus = {"plugins", "lock", "backup", "restore", "knowledge"}
INVARIANTS
  ServicesTypeOK
  DependenciesHold
  GateReopens
  BundleWhole
  RestoredIsWhole
  ServesCurrent
  ProviderBound
PROPERTIES
  ReplacedVersionKept
  LockImplementsSection
  OriginalKept
SYMMETRY ServicesSymmetry
CHECK_DEADLOCK FALSE
