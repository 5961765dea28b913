\* Two concurrent fetches of one URL whose page changes once.
SPECIFICATION FairSpec
CONSTANTS
  CacheUrls = {u1}
  Hashes = {a, s, m}
  NoHash = NoHash
  MaxEntries = 4
  Calls = {c1, c2}
  Shells = {s}
  Malformed = {m}
  RetryAttempts = 2
  MaxChanges = 1
INVARIANTS
  ShellsAreNotKept
PROPERTIES
  SkipsAreKnown
  FetchesEnd
