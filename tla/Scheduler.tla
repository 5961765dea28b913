------------------------------ MODULE Scheduler -----------------------------
(***************************************************************************)
(* CollectionScheduler: the check loop, the collection tasks it creates    *)
(* with their retries, the set of active collections that keeps it from    *)
(* collecting a competitor twice at a time, and what it shares with the    *)
(* rest of the system: the collection logs, the competitors, which are     *)
(* edited in the database, and the collections that the API starts past    *)
(* the active set.                                                         *)
(*                                                                         *)
(* Everything runs on one asyncio event loop, so a step is what runs       *)
(* between two awaits.  create_task only queues the task: its first step   *)
(* comes before any coroutine that resumes from I/O or from a timer later. *)
(*                                                                         *)
(* collect_competitor is taken from CollectionService: a call commits a    *)
(* log row and returns "success", or leaves nothing, or (acknowledgement   *)
(* of the commit lost) commits and returns "failed".                       *)
(*                                                                         *)
(* Times are ages in ticks, saturated at Cap.  A competitor without a log  *)
(* has age Cap, which is due for every frequency.                          *)
(*                                                                         *)
(* Operators named Fault... are not part of the specification: each is a   *)
(* plausible wrong variant of the definition after it.                     *)
(***************************************************************************)
EXTENDS Integers, Sequences, FiniteSets

CONSTANTS
  Comps,       \* competitors
  Freqs,       \* the members of CollectionFrequency
  FreqOrder,   \* in the order of its definition
  Interval,    \* Interval[f]: interval_seconds of f, in ticks
  MaxRetries,  \* retries after the first attempt
  Slots,       \* where the tasks live; more than Comps
  MaxCheck,    \* bound: ticks that a check cycle may take
  MaxRun,      \* bound: ticks that one collect_competitor may take
  MaxEvents,   \* bound: edits, failed checks, stops and crashes
  Cap,         \* bound: the greatest age that is told from older ones
  Nobody       \* no competitor

ASSUME SchedulerAssumption ==
  /\ MaxRetries \in Nat /\ MaxCheck \in Nat /\ MaxRun \in Nat /\ MaxEvents \in Nat
  /\ Interval \in [Freqs -> Nat]
  /\ FreqOrder \in Seq(Freqs) /\ FreqOrder # <<>>
  /\ Cap \in Nat
  /\ \A f \in Freqs : Cap >= Interval[f] + MaxCheck + MaxRun
  /\ Nobody \notin Comps

Ages == 0..Cap

VARIABLES
  running,     \* _running
  loop,        \* where _run_loop is
  freqsLeft,   \* frequencies the check has still to query
  freqNow,     \* the frequency whose competitors it examines
  listed,      \* those of them it has not examined yet
  cur,         \* the competitor whose last log is being read
  sinceCheck,  \* age of the "now" of the check
  slot,        \* the tasks
  active,      \* _active_collections
  freq,        \* collection_frequency of each competitor
  enabled,     \* its enabled flag
  sinceLog,    \* age of start_time of its latest log
  apiRun,      \* age of a run started past the scheduler, or -1
  sinceGood,   \* history: age of its last task run that returned "success"
  events       \* events so far, for MaxEvents

loopVars == <<running, loop, freqsLeft, freqNow, listed, cur, sinceCheck>>
compVars == <<freq, enabled>>
logVars  == <<sinceLog, sinceGood>>
vars == <<loopVars, slot, active, compVars, logVars, apiRun, events>>

SlotStates == {"free", "created", "running", "backoff"}

Busy(s) == slot[s].pc # "free"

FreeSlot == [pc |-> "free", comp |-> Nobody, attempt |-> 0, since |-> 0, every |-> 0]

NewTask(c, f) == [pc |-> "created", comp |-> c, attempt |-> 0, since |-> 0, every |-> Interval[f]]

SlotType ==
  [pc : SlotStates, comp : Comps \cup {Nobody}, attempt : 0..MaxRetries,
   since : Ages, every : {0} \cup {Interval[f] : f \in Freqs}]

TypeOK ==
  /\ running \in BOOLEAN
  /\ loop \in {"off", "query", "examine", "read", "sleep"}
  /\ freqsLeft \in Seq(Freqs)
  /\ freqNow \in Freqs
  /\ listed \in SUBSET Comps
  /\ cur \in Comps \cup {Nobody}
  /\ sinceCheck \in Ages
  /\ slot \in [Slots -> SlotType]
  /\ active \in SUBSET Comps
  /\ freq \in [Comps -> Freqs]
  /\ enabled \in [Comps -> BOOLEAN]
  /\ sinceLog \in [Comps -> Ages]
  /\ apiRun \in [Comps -> Ages \cup {-1}]
  /\ sinceGood \in [Comps -> Ages]
  /\ events \in 0..MaxEvents

Init ==
  /\ running = FALSE /\ loop = "off" /\ freqsLeft = <<>> /\ freqNow = FreqOrder[1]
  /\ listed = {} /\ cur = Nobody /\ sinceCheck = 0
  /\ slot = [s \in Slots |-> FreeSlot]
  /\ active = {}
  /\ freq \in [Comps -> Freqs]
  /\ enabled = [c \in Comps |-> TRUE]
  /\ sinceLog = [c \in Comps |-> Cap]
  /\ apiRun = [c \in Comps |-> -1]
  /\ sinceGood = [c \in Comps |-> Cap]
  /\ events = 0

-----------------------------------------------------------------------------
(* No task is queued: a coroutine may resume from an await. *)
NoneCreated == \A s \in Slots : slot[s].pc # "created"

Event == events < MaxEvents /\ events' = events + 1

(* start() of an enabled scheduler that does not run yet. *)
Start ==
  /\ ~running
  /\ running' = TRUE
  /\ loop' = "sleep"
  /\ UNCHANGED <<freqsLeft, freqNow, listed, cur, sinceCheck, slot, active, compVars, logVars,
                 apiRun, events>>

(* stop() cancels the loop wherever it awaits; tasks are left alone. *)
Stop ==
  /\ running
  /\ Event
  /\ running' = FALSE
  /\ loop' = "off"
  /\ freqsLeft' = <<>> /\ listed' = {} /\ cur' = Nobody /\ sinceCheck' = 0
  /\ UNCHANGED <<freqNow, slot, active, compVars, logVars, apiRun>>

(* The loop wakes and begins a check: "now" is taken. *)
BeginCheck ==
  /\ loop = "sleep" /\ NoneCreated
  /\ loop' = "query"
  /\ freqsLeft' = FreqOrder
  /\ sinceCheck' = 0
  /\ UNCHANGED <<running, freqNow, listed, cur, slot, active, compVars, logVars, apiRun, events>>

(* The enabled competitors of the next frequency are read. *)
QueryFrequency ==
  /\ loop = "query" /\ NoneCreated
  /\ freqsLeft # <<>>
  /\ freqNow' = Head(freqsLeft)
  /\ freqsLeft' = Tail(freqsLeft)
  /\ listed' = {c \in Comps : enabled[c] /\ freq[c] = Head(freqsLeft)}
  /\ loop' = "examine"
  /\ UNCHANGED <<running, cur, sinceCheck, slot, active, compVars, logVars, apiRun, events>>

(* Fault: the active set is not consulted. *)
FaultExamine ==
  /\ loop = "examine"
  /\ \E c \in listed : listed' = listed \ {c} /\ cur' = c
  /\ loop' = "read"
  /\ UNCHANGED <<running, freqsLeft, freqNow, sinceCheck, slot, active, compVars, logVars, apiRun, events>>

(* The next competitor: skipped when it is being collected, else its last
   log is read.                                                            *)
Examine ==
  /\ loop = "examine"
  /\ \E c \in listed :
       /\ listed' = listed \ {c}
       /\ IF c \in active THEN UNCHANGED <<loop, cur>>
                          ELSE loop' = "read" /\ cur' = c
  /\ UNCHANGED <<running, freqsLeft, freqNow, sinceCheck, slot, active, compVars, logVars, apiRun, events>>

(* Fault: due one tick too early. *)
FaultShouldCollect(c, f) == sinceLog[c] - sinceCheck + 1 >= Interval[f]

(* Fault: a check that comes late misses it. *)
FaultShouldCollectLate(c, f) == sinceLog[c] - sinceCheck = Interval[f]

(* _should_collect: elapsed = now - last_log.start_time. *)
ShouldCollect(c, f) == sinceLog[c] - sinceCheck >= Interval[f]

(* The log has been read: not due, or a task is created. *)
Decide ==
  /\ loop = "read" /\ NoneCreated
  /\ loop' = "examine"
  /\ cur' = Nobody
  /\ IF ShouldCollect(cur, freqNow)
       THEN \E s \in Slots :
              /\ slot[s].pc = "free"
              /\ slot' = [slot EXCEPT ![s] = NewTask(cur, freqNow)]
       ELSE UNCHANGED slot
  /\ UNCHANGED <<running, freqsLeft, freqNow, listed, sinceCheck, active, compVars, logVars, apiRun, events>>

FrequencyDone ==
  /\ loop = "examine" /\ listed = {}
  /\ loop' = "query"
  /\ UNCHANGED <<running, freqsLeft, freqNow, listed, cur, sinceCheck, slot, active, compVars,
                 logVars, apiRun, events>>

(* The check is over: asyncio.sleep(interval). *)
EndCheck ==
  /\ loop = "query" /\ freqsLeft = <<>> /\ NoneCreated
  /\ loop' = "sleep"
  /\ sinceCheck' = 0
  /\ UNCHANGED <<running, freqsLeft, freqNow, listed, cur, slot, active, compVars, logVars, apiRun, events>>

(* A query raises: the check is given up as a whole, the loop goes on. *)
CheckFails ==
  /\ loop \in {"query", "read"} /\ NoneCreated
  /\ Event
  /\ loop' = "sleep"
  /\ freqsLeft' = <<>> /\ listed' = {} /\ cur' = Nobody /\ sinceCheck' = 0
  /\ UNCHANGED <<running, freqNow, slot, active, compVars, logVars, apiRun>>

-----------------------------------------------------------------------------
(* _collect_with_retry, one task per slot. *)

(* The task's first step: it is active from here and calls
   collect_competitor.                                                     *)
TaskStarts(s) ==
  /\ slot[s].pc = "created"
  /\ slot' = [slot EXCEPT ![s].pc = "running", ![s].since = 0]
  /\ active' = active \cup {slot[s].comp}
  /\ UNCHANGED <<loopVars, compVars, logVars, apiRun, events>>

(* Fault: the competitor stays in the active set. *)
FaultTaskEnds(s) ==
  /\ slot' = [slot EXCEPT ![s] = FreeSlot]
  /\ UNCHANGED active

(* The task ends and, in its finally block, leaves the active set. *)
TaskEnds(s) ==
  /\ slot' = [slot EXCEPT ![s] = FreeSlot]
  /\ active' = active \ {slot[s].comp}

(* A committed log moves the latest start_time if the run began later. *)
Younger(a, b) == IF a < b THEN a ELSE b

LogRun(c, age) == sinceLog' = [sinceLog EXCEPT ![c] = Younger(@, age)]

RunSucceeds(s) ==
  /\ slot[s].pc = "running" /\ NoneCreated
  /\ LogRun(slot[s].comp, slot[s].since)
  /\ sinceGood' = [sinceGood EXCEPT ![slot[s].comp] = slot[s].since]
  /\ TaskEnds(s)
  /\ UNCHANGED <<loopVars, compVars, apiRun, events>>

(* Fault: the attempts are not counted. *)
FaultRunFailsForever(s) ==
  /\ slot[s].pc = "running" /\ NoneCreated
  /\ LogRun(slot[s].comp, slot[s].since) \/ UNCHANGED sinceLog
  /\ slot' = [slot EXCEPT ![s].pc = "backoff"]
  /\ UNCHANGED <<active, loopVars, compVars, sinceGood, apiRun, events>>

(* "failed" or "skipped": back off, or give up after the last attempt. *)
RunFails(s) ==
  /\ slot[s].pc = "running" /\ NoneCreated
  /\ LogRun(slot[s].comp, slot[s].since) \/ UNCHANGED sinceLog
  /\ IF slot[s].attempt < MaxRetries
       THEN /\ slot' = [slot EXCEPT ![s].pc = "backoff", ![s].attempt = @ + 1]
            /\ UNCHANGED active
       ELSE TaskEnds(s)
  /\ UNCHANGED <<loopVars, compVars, sinceGood, apiRun, events>>

(* The backoff delay is over: the next attempt. *)
Retry(s) ==
  /\ slot[s].pc = "backoff" /\ NoneCreated
  /\ slot' = [slot EXCEPT ![s].pc = "running", ![s].since = 0]
  /\ UNCHANGED <<loopVars, active, compVars, logVars, apiRun, events>>

-----------------------------------------------------------------------------
(* The surroundings. *)

(* POST /collection/collect: the competitor is collected in the background,
   whether or not the scheduler is collecting it.                          *)
ApiTrigger(c) ==
  /\ apiRun[c] = -1
  /\ apiRun' = [apiRun EXCEPT ![c] = 0]
  /\ UNCHANGED <<loopVars, slot, active, compVars, logVars, events>>

ApiRunEnds(c) ==
  /\ apiRun[c] # -1
  /\ LogRun(c, apiRun[c]) \/ UNCHANGED sinceLog
  /\ apiRun' = [apiRun EXCEPT ![c] = -1]
  /\ UNCHANGED <<loopVars, slot, active, compVars, sinceGood, events>>

(* Somebody edits the row in the database: another frequency, or enabled   *)
(* and disabled.  (No PUT does: see AnswerFails in Catalogue.)             *)
Edit(c) ==
  /\ Event
  /\ \/ \E f \in Freqs \ {freq[c]} : freq' = [freq EXCEPT ![c] = f] /\ UNCHANGED enabled
     \/ enabled' = [enabled EXCEPT ![c] = ~@] /\ UNCHANGED freq
  /\ UNCHANGED <<loopVars, slot, active, logVars, apiRun>>

(* The process dies; the logs survive. *)
Crash ==
  /\ Event
  /\ running' = FALSE /\ loop' = "off"
  /\ freqsLeft' = <<>> /\ listed' = {} /\ cur' = Nobody /\ sinceCheck' = 0
  /\ slot' = [s \in Slots |-> FreeSlot]
  /\ active' = {}
  /\ apiRun' = [c \in Comps |-> -1]
  /\ UNCHANGED <<freqNow, compVars, logVars>>

Older(a) == IF a < Cap THEN a + 1 ELSE Cap

(* Time passes for everything at once. *)
Tick ==
  /\ loop \in {"query", "examine", "read"} => sinceCheck < MaxCheck
  /\ \A s \in Slots : slot[s].pc = "running" => slot[s].since < MaxRun
  /\ \A c \in Comps : apiRun[c] < MaxRun
  /\ sinceCheck' = IF loop \in {"query", "examine", "read"} THEN Older(sinceCheck) ELSE 0
  /\ slot' = [s \in Slots |-> IF slot[s].pc = "running"
                                THEN [slot[s] EXCEPT !.since = Older(@)] ELSE slot[s]]
  /\ apiRun' = [c \in Comps |-> IF apiRun[c] = -1 THEN -1 ELSE Older(apiRun[c])]
  /\ sinceLog' = [c \in Comps |-> Older(sinceLog[c])]
  /\ sinceGood' = [c \in Comps |-> Older(sinceGood[c])]
  /\ UNCHANGED <<running, loop, freqsLeft, freqNow, listed, cur, active, compVars, events>>

Loop == BeginCheck \/ QueryFrequency \/ Examine \/ Decide \/ FrequencyDone \/ EndCheck

Task(s) == TaskStarts(s) \/ RunSucceeds(s) \/ RunFails(s) \/ Retry(s)

Next ==
  \/ Start \/ Stop \/ Loop \/ CheckFails \/ Crash \/ Tick
  \/ \E s \in Slots : Task(s)
  \/ \E c \in Comps : ApiTrigger(c) \/ ApiRunEnds(c) \/ Edit(c)

Spec == Init /\ [][Next]_vars

(* The event loop runs every coroutine whose await is over: the check loop
   while its queries are answered, every task, and collect_competitor
   returns.  Nothing is assumed of the API, of failures or of restarts.    *)
FairSpec == Spec /\ WF_vars(Loop) /\ \A s \in Slots : WF_vars(Task(s))

-----------------------------------------------------------------------------
(* Properties. *)

(* The scheduler never runs two tasks for one competitor at a time, although
   the check reads the active set before an await and a task joins it only
   at its first step, and although an edit can list a competitor twice in
   one check.                                                              *)
OneTaskPerCompetitor ==
  \A s, t \in Slots : Busy(s) /\ Busy(t) /\ slot[s].comp = slot[t].comp => s = t

(* The active set is exactly the competitors of the tasks that have started
   and not ended: none is left behind, which would exclude it for ever, and
   none is dropped while its task backs off between attempts.              *)
ActiveIsAccurate ==
  active = {slot[s].comp : s \in {t \in Slots : slot[t].pc \in {"running", "backoff"}}}

(* Two runs of a competitor's tasks that return "success" begin at least the
   interval apart that the later one's check applied, whatever retries,
   triggers by the API, lost acknowledgements and edits lie in between.    *)
ScheduledRunsAreSpaced ==
  [][\A s \in Slots :
       slot[s].pc = "running" /\ slot'[s].pc = "free" /\ sinceGood' # sinceGood
       /\ sinceGood'[slot[s].comp] = slot[s].since
         => sinceGood[slot[s].comp] - slot[s].since >= slot[s].every]_vars

(* A competitor that is due for its frequency, whatever the time a check
   takes, is taken up by a task, unless it is disabled, logged by another
   run, or the scheduler stops: neither checks that fail nor a task that
   gave up exclude it for good.                                            *)
Overdue(c) == sinceLog[c] >= Interval[freq[c]] + MaxCheck

DueIsTakenUp ==
  \A c \in Comps :
    running /\ enabled[c] /\ Overdue(c)
      ~> \/ \E s \in Slots : Busy(s) /\ slot[s].comp = c
         \/ ~running \/ ~enabled[c] \/ ~Overdue(c)

(* Every task comes to its end and frees its competitor. *)
TasksEnd == \A s \in Slots : Busy(s) ~> ~Busy(s)

=============================================================================
