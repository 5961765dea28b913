\* Two overlapping runs of one competitor that lock the same rows: two pages,
\* up to two URLs per module, modules with and without a collector.
SPECIFICATION FairSpec
CONSTANTS
  Runs = {r1, r2}
  Pages = {p1, p2}
  Base = base
  Keys = {k1}
  Modules = {"services", "discovery", "other"}
  MaxPerModule = 2
  None = None
INVARIANTS
  StoredRunIsComplete
  LogTellsTheTruth
  AbortedRunStoresNothing
PROPERTIES
  ImplementsAtomicRuns
  RunsEnd
