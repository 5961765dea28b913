\* A sentence of the documentation that the code does not keep.
SPECIFICATION Spec
CONSTANTS
  Home = u
  CacheUrls = {u}
  Hashes = {a, b}
  NoHash = NoHash
  MaxEntries = 4
  Runs = {r1}
  Modules = {"services", "content", "pricing"}
  Bypass = {"pricing"}
  Plans <- OnePage
  Served = {"max-age"}
  MaxChanges = 0
PROPERTIES
  ModulesAreIndependent
