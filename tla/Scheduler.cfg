\* One competitor, the code's two retries, runs that take longer than the
\* shorter interval; edits, stops, failed checks and crashes.
SPECIFICATION FairSpec
CONSTANTS
  Comps = {c1}
  Freqs = {"hourly", "daily"}
  FreqOrder <- Order
  Interval <- Ticks
  MaxRetries = 2
  Slots = {s1, s2}
  MaxCheck = 1
  MaxRun = 2
  MaxEvents = 2
  Cap = 5
  Nobody = Nobody
INVARIANTS
  OneTaskPerCompetitor
  ActiveIsAccurate
PROPERTIES
  ScheduledRunsAreSpaced
  DueIsTakenUp
  TasksEnd
