\* Runs in a row or overlapping, of modules that share a page; it changes
\* twice, so that it may change back.
SPECIFICATION Spec
CONSTANTS
  Home = u
  CacheUrls = {u}
  Hashes = {a, b}
  NoHash = NoHash
  MaxEntries = 4
  Runs = {r1, r2}
  Modules = {"services", "content", "pricing"}
  Bypass = {"pricing"}
  Plans <- OnePage
  Served = {"max-age"}
  MaxChanges = 2
SYMMETRY Symmetry
INVARIANTS
  CachedPagesAreAccountedFor
PROPERTIES
  CommittedPagesAreCurrent
