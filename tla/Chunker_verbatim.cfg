SPECIFICATION Spec
CONSTANTS
  c1 = c1
  c2 = c2
  c3 = c3
  None = None
  Tiers = {"working", "episodic", "semantic", "procedural"}
  Ids = {"a", "b", "c", "d"}
  Calls = {c1, c2, c3}
  Scenes <- MCScenes
  Gone = Gone
  Worded = {"b"}
  Holding = {"a"}
  FetchFloor = 2
  Glance = 1
  Faulty = {}
  Fading <- MCFading
  Docs = {"f1", "f2"}
  Texts = {"t1", "t2"}
  Layers = {"working", "semantic", "procedural"}
  LayerOf <- MCLayerOf
  Dated = {"f1"}
  Today = "working"
  Bundle = 1
  MaxChanges = 1
  MaxMishaps = 1
  Logs = {"s1", "s2"}
  MaxTurns = 2
  MaxFailures = 2
  Embeds = {"e1", "e2", "e3"}
  Wanted <- MCWanted
  LoopOf <- MCLoopOf
  Patience <- MCPatience
  Main = "main"
  Settings = {"auto", "openai", "minimax", "nvidia"}
  Keys = {"openai", "minimax", "nvidia"}
  BatchSize = 2
  CacheSize = 2
  MaxRetries = 1
  MaxFaults = 2
  Entities = {"a", "b", "c", "d", "e"}
  Edges = {1, 2, 3, 4, 5}
  Webs <- MCWebs
  Root = "a"
  Depth = 3
  MaxEnds = 1
  Dreamers = {"r1", "r2"}
  Dreamt = {"e1", "e2"}
  DreamOf <- MCDreamOf
  Lessons = {"l1"}
  Garbled = Garbled
  NoFile = NoFile
  MaxMisfits = 1
  Updates = {"u1", "u2"}
  Edits = {"e1", "e2"}
  MaxCommits = 1
  MaxFailed = 1
  Names = {"semantic", "working"}
  Strange = {"short_term"}
  Hosts = {"h1"}
  Vacuums = {"v1", "v2"}
  Loggers = {"l1"}
  Keep = 1
  MaxIds = 5
  MaxEvents = 2
  MaxRotations = 2
  Size = 6
  Overlap = 2
  Sample = 1
  Added <- MCAdded
  MaxText = 10
  Episodes <- MCEpisodes
  Sayings = {"a", "b", "c", "d", "w", "x"}
  Told <- MCTold
  Matched <- MCMatched
  Storable = {"a", "b", "c", "d", "w"}
  Wordless = {"w"}
  Alike <- MCAlike
  MaxChunks = 3
  Cap = 2
  Jobs = {j1}
  Others = {o1}
  MaxTrouble = 1
INVARIANT VerbatimIsSource
CHECK_DEADLOCK FALSE
