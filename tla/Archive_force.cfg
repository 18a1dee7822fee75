SPECIFICATION Spec
CONSTANTS
  Writers = {w1, w2, w3}
  Absent = Absent
  NoOne = NoOne
  Clients = {p1, p2}
  Names = {"a", "b", "c", "d"}
  Plans <- MCPlans
  Nobody = Nobody
  Chunks = {k1, k2}
  Titles = {"t1", "t2"}
  Slugs = {"s1", "s2"}
  SlugOf <- MCSlugOf
  Promotions = {q1, q2, q3}
  NoSlug = NoSlug
  NoTitle = NoTitle
  MaxEdits = 1
  Parts = {"chroma", "blocks", "export"}
  Void = Void
  MaxWrites = 2
  MaxArchives = 2
  MaxCrashes = 1
  TierOrder <- MCTierOrder
  Texts = {x, y, z}
  Alike = {{x, y}, {y, z}}
  MaxHad = 1
  MaxTells = 1
  MaxTrouble = 1
  Runs = {r1, r2}
  Touched <- MCTouched
  Message <- MCMessage
  Subject <- MCSubject
  Distilled <- MCDistilled
  Limit = 3
  MaxMishaps = 1
  Layers <- MCTiers
  Soul = "procedural"
  Entries = {"w1", "w2", "w3", "p1", "p2"}
  TierOf <- MCTierOf
  ImportanceOf <- MCImportanceOf
  TextOf <- MCTextOf
  LengthOf <- MCLengthOf
  Floor = 2
  MemoryK = 4
  UserK = 2
  MemoryBudget = 7
  UserBudget = 5
  Reserve = 1
  MaxChanges = 1
  MaxSyncs = 1
PROPERTY KeptWithoutForce
CHECK_DEADLOCK FALSE
