-------------------------- MODULE SchedulerProofs --------------------------
(* Theorems about Scheduler and their proofs. *)
EXTENDS Scheduler, SequenceTheorems, TLAPS

(* Ages stay within their bound. *)
LEMMA AgeType ==
  /\ Ages \subseteq Nat /\ 0 \in Ages /\ Cap \in Ages
  /\ \A a \in Ages : Older(a) \in Ages
  /\ \A a, b \in Ages : Younger(a, b) \in Ages
BY SchedulerAssumption DEF Ages, Older, Younger

LEMMA TypeInit == Init => TypeOK
<1>1. FreqOrder[1] \in Freqs /\ <<>> \in Seq(Freqs)
  BY SchedulerAssumption
<1>2. FreeSlot \in SlotType
  BY AgeType, SchedulerAssumption DEF FreeSlot, SlotType, SlotStates
<1>3. 0 \in 0..MaxEvents /\ -1 \in Ages \cup {-1}
  BY SchedulerAssumption
<1> HIDE DEF FreeSlot
<1> QED
  BY <1>1, <1>2, <1>3, AgeType DEF Init, TypeOK

LEMMA LogRunType ==
  ASSUME TypeOK, NEW c, NEW age \in Ages, LogRun(c, age) \/ UNCHANGED sinceLog
  PROVE  sinceLog' \in [Comps -> Ages]
<1>1. sinceLog \in [Comps -> Ages]
  BY DEF TypeOK
<1>2. CASE c \in Comps /\ LogRun(c, age)
  <2>1. Younger(sinceLog[c], age) \in Ages
    BY <1>1, <1>2, AgeType
  <2> QED
    BY <1>1, <1>2, <2>1 DEF LogRun
<1>3. CASE c \notin Comps /\ LogRun(c, age)
  BY <1>1, <1>3 DEF LogRun
<1> QED
  BY <1>1, <1>2, <1>3

LEMMA TaskEndsType ==
  ASSUME TypeOK, NEW s \in Slots, TaskEnds(s)
  PROVE  slot' \in [Slots -> SlotType] /\ active' \in SUBSET Comps
<1>1. FreeSlot \in SlotType
  BY AgeType, SchedulerAssumption DEF FreeSlot, SlotType, SlotStates
<1> QED
  BY <1>1 DEF TypeOK, TaskEnds

LEMMA LoopType == TypeOK /\ Loop => TypeOK'
<1> SUFFICES ASSUME TypeOK, Loop
             PROVE  TypeOK'
  OBVIOUS
<1> USE DEF loopVars, compVars, logVars
<1>1. CASE BeginCheck
  BY <1>1, AgeType, SchedulerAssumption DEF BeginCheck, TypeOK
<1>2. CASE QueryFrequency
  <2>1. Head(freqsLeft) \in Freqs /\ Tail(freqsLeft) \in Seq(Freqs)
    BY <1>2, HeadTailProperties DEF QueryFrequency, TypeOK
  <2> QED
    BY <1>2, <2>1 DEF QueryFrequency, TypeOK
<1>3. CASE Examine
  BY <1>3 DEF Examine, TypeOK
<1>4. CASE Decide
  <2>1. slot' \in [Slots -> SlotType]
    <3>1. Interval[freqNow] \in {Interval[f] : f \in Freqs} /\ cur \in Comps \cup {Nobody}
      BY DEF TypeOK
    <3>2. 0 \in 0..MaxRetries /\ 0 \in Ages
      BY AgeType, SchedulerAssumption
    <3>3. NewTask(cur, freqNow) \in SlotType
      BY <3>1, <3>2 DEF NewTask, SlotType, SlotStates
    <3> QED
      BY <1>4, <3>3 DEF Decide, TypeOK
  <2> QED
    BY <1>4, <2>1 DEF Decide, TypeOK
<1>5. CASE FrequencyDone
  BY <1>5 DEF FrequencyDone, TypeOK
<1>6. CASE EndCheck
  BY <1>6, AgeType DEF EndCheck, TypeOK
<1> QED
  BY <1>1, <1>2, <1>3, <1>4, <1>5, <1>6 DEF Loop

LEMMA TaskType ==
  ASSUME TypeOK, NEW s \in Slots, Task(s), Busy(s) => slot[s].comp \in Comps
  PROVE  TypeOK'
<1> USE DEF loopVars, compVars, logVars
<1>1. CASE TaskStarts(s)
  <2>1. slot' \in [Slots -> SlotType]
    <3>1. slot[s] \in SlotType
      BY DEF TypeOK
    <3>2. [slot[s] EXCEPT !.pc = "running", !.since = 0] \in SlotType
      BY <3>1, AgeType DEF SlotType, SlotStates
    <3>3. slot' = [slot EXCEPT ![s] = [slot[s] EXCEPT !.pc = "running", !.since = 0]]
      BY <1>1, <3>1 DEF TaskStarts, TypeOK, SlotType
    <3> QED
      BY <3>2, <3>3 DEF TypeOK
  <2>2. active' \in SUBSET Comps
    BY <1>1 DEF TaskStarts, TypeOK, Busy
  <2> QED
    BY <1>1, <2>1, <2>2 DEF TaskStarts, TypeOK
<1>2. CASE RunSucceeds(s)
  <2>1. slot[s].since \in Ages
    BY DEF TypeOK, SlotType
  <2>2. sinceLog' \in [Comps -> Ages] /\ sinceGood' \in [Comps -> Ages]
    BY <1>2, <2>1, LogRunType DEF RunSucceeds, TypeOK
  <2> QED
    BY <1>2, <2>2, TaskEndsType DEF RunSucceeds, TypeOK
<1>3. CASE RunFails(s)
  <2>1. slot[s].since \in Ages /\ slot[s].attempt \in 0..MaxRetries
    BY DEF TypeOK, SlotType
  <2>2. sinceLog' \in [Comps -> Ages]
    <3>1. LogRun(slot[s].comp, slot[s].since) \/ UNCHANGED sinceLog
      BY <1>3 DEF RunFails
    <3> QED
      BY <2>1, <3>1, LogRunType
  <2>3. CASE slot[s].attempt < MaxRetries
    <3>1. slot' = [slot EXCEPT ![s] = [slot[s] EXCEPT !.pc = "backoff", !.attempt = slot[s].attempt + 1]]
      <4>1. slot' = [slot EXCEPT ![s].pc = "backoff", ![s].attempt = @ + 1]
        BY <1>3, <2>3 DEF RunFails
      <4>2. slot \in [Slots -> SlotType] /\ slot[s] \in SlotType
        BY DEF TypeOK
      <4> QED
        BY <4>1, <4>2 DEF SlotType
    <3>2. [slot[s] EXCEPT !.pc = "backoff", !.attempt = slot[s].attempt + 1] \in SlotType
      <4>1. slot[s].attempt + 1 \in 0..MaxRetries
        <5>1. MaxRetries \in Nat
          BY SchedulerAssumption
        <5> QED
          BY <2>1, <2>3, <5>1
      <4>2. slot[s] \in SlotType
        BY DEF TypeOK
      <4> QED
        BY <4>1, <4>2 DEF SlotType, SlotStates
    <3> QED
      BY <1>3, <2>2, <2>3, <3>1, <3>2 DEF RunFails, TypeOK
  <2>4. CASE ~(slot[s].attempt < MaxRetries)
    BY <1>3, <2>2, <2>4, TaskEndsType DEF RunFails, TypeOK
  <2> QED
    BY <2>3, <2>4
<1>4. CASE Retry(s)
  <2>1. slot' \in [Slots -> SlotType]
    <3>1. slot[s] \in SlotType
      BY DEF TypeOK
    <3>2. [slot[s] EXCEPT !.pc = "running", !.since = 0] \in SlotType
      BY <3>1, AgeType DEF SlotType, SlotStates
    <3>3. slot' = [slot EXCEPT ![s] = [slot[s] EXCEPT !.pc = "running", !.since = 0]]
      BY <1>4, <3>1 DEF Retry, TypeOK, SlotType
    <3> QED
      BY <3>2, <3>3 DEF TypeOK
  <2> QED
    BY <1>4, <2>1 DEF Retry, TypeOK
<1> QED
  BY <1>1, <1>2, <1>3, <1>4 DEF Task

LEMMA EventType ==
  ASSUME TypeOK, Event
  PROVE  events' \in 0..MaxEvents
<1>1. events \in 0..MaxEvents /\ events < MaxEvents /\ events' = events + 1
  BY DEF TypeOK, Event
<1> QED
  BY <1>1, SchedulerAssumption

LEMMA SurroundingsType ==
  ASSUME TypeOK,
         \/ Start \/ Stop \/ CheckFails \/ Crash \/ Tick
         \/ \E c \in Comps : ApiTrigger(c) \/ ApiRunEnds(c) \/ Edit(c)
  PROVE  TypeOK'
<1> USE DEF loopVars, compVars, logVars
<1>0. FreeSlot \in SlotType /\ <<>> \in Seq(Freqs)
  BY AgeType, SchedulerAssumption DEF FreeSlot, SlotType, SlotStates
<1>1. CASE Start
  BY <1>1 DEF Start, TypeOK
<1>2. CASE Stop
  BY <1>0, <1>2, AgeType, EventType DEF Stop, TypeOK
<1>3. CASE CheckFails
  BY <1>0, <1>3, AgeType, EventType DEF CheckFails, TypeOK
<1>4. CASE Crash
  BY <1>0, <1>4, AgeType, EventType DEF Crash, TypeOK
<1>5. CASE Tick
  <2>1. sinceCheck' \in Ages
    BY <1>5, AgeType DEF Tick, TypeOK
  <2>2. slot' \in [Slots -> SlotType]
    <3>1. ASSUME NEW s \in Slots PROVE [slot[s] EXCEPT !.since = Older(@)] \in SlotType
      BY AgeType DEF TypeOK, SlotType
    <3> QED
      BY <1>5, <3>1 DEF Tick, TypeOK
  <2>3. /\ apiRun' \in [Comps -> Ages \cup {-1}]
        /\ sinceLog' \in [Comps -> Ages] /\ sinceGood' \in [Comps -> Ages]
    BY <1>5, AgeType DEF Tick, TypeOK
  <2> QED
    BY <1>5, <2>1, <2>2, <2>3 DEF Tick, TypeOK
<1>6. ASSUME NEW c \in Comps, ApiTrigger(c) PROVE TypeOK'
  BY <1>6, AgeType DEF ApiTrigger, TypeOK
<1>7. ASSUME NEW c \in Comps, ApiRunEnds(c) PROVE TypeOK'
  <2>1. apiRun[c] \in Ages
    BY <1>7 DEF ApiRunEnds, TypeOK
  <2>2. sinceLog' \in [Comps -> Ages]
    BY <1>7, <2>1, LogRunType DEF ApiRunEnds
  <2> QED
    BY <1>7, <2>2 DEF ApiRunEnds, TypeOK
<1>8. ASSUME NEW c \in Comps, Edit(c) PROVE TypeOK'
  <2>1. freq' \in [Comps -> Freqs] /\ enabled' \in [Comps -> BOOLEAN]
    <3>1. CASE \E f \in Freqs : freq' = [freq EXCEPT ![c] = f] /\ UNCHANGED enabled
      BY <3>1 DEF TypeOK
    <3>2. CASE enabled' = [enabled EXCEPT ![c] = ~@] /\ UNCHANGED freq
      BY <3>2 DEF TypeOK
    <3> QED
      BY <1>8, <3>1, <3>2 DEF Edit
  <2>2. events' \in 0..MaxEvents
    BY <1>8, EventType DEF Edit
  <2> QED
    BY <1>8, <2>1, <2>2 DEF Edit, TypeOK
<1> QED
  BY <1>1, <1>2, <1>3, <1>4, <1>5, <1>6, <1>7, <1>8

(***************************************************************************)
(* The inductive invariant.                                                *)
(***************************************************************************)

(* Every task has its competitor. *)
TaskHasComp == \A s \in Slots : Busy(s) => slot[s].comp \in Comps

(* A task that is queued but not in the active set is not examined again:
   its competitor is neither still listed nor the one being read.          *)
QueuedIsPassed == \A s \in Slots : slot[s].pc = "created" => slot[s].comp \notin listed

(* The competitor whose log is being read has no task. *)
ReadIsIdle ==
  loop = "read" =>
    /\ cur \in Comps /\ cur \notin listed
    /\ \A s \in Slots : Busy(s) => slot[s].comp # cur

SchedInv ==
  /\ TaskHasComp
  /\ QueuedIsPassed
  /\ ReadIsIdle
  /\ OneTaskPerCompetitor
  /\ ActiveIsAccurate

LEMMA SchedInit == Init => SchedInv
BY SchedulerAssumption DEF Init, SchedInv, TaskHasComp, QueuedIsPassed, ReadIsIdle,
   OneTaskPerCompetitor, ActiveIsAccurate, Busy, FreeSlot

(* A step that leaves the tasks alone and lists nothing new. *)
LEMMA TasksAlone ==
  ASSUME SchedInv, UNCHANGED <<slot, active>>,
         listed' \subseteq listed, cur' = cur \/ cur' = Nobody, loop' = "read" => loop = "read" /\ cur' = cur,
         listed \subseteq Comps
  PROVE  SchedInv'
BY SchedulerAssumption DEF SchedInv, TaskHasComp, QueuedIsPassed, ReadIsIdle,
   OneTaskPerCompetitor, ActiveIsAccurate, Busy

LEMMA SchedLoop == TypeOK /\ SchedInv /\ Loop => SchedInv'
<1> SUFFICES ASSUME TypeOK, SchedInv, Loop
             PROVE  SchedInv'
  OBVIOUS
<1> USE DEF loopVars, compVars, logVars
<1>0. listed \subseteq Comps
  BY DEF TypeOK
<1>1. CASE BeginCheck
  BY <1>0, <1>1, TasksAlone DEF BeginCheck
<1>2. CASE QueryFrequency
  <2>1. /\ \A s \in Slots : slot[s].pc # "created"
        /\ UNCHANGED <<slot, active, cur>> /\ loop' = "examine" /\ listed' \subseteq Comps
    BY <1>2 DEF QueryFrequency, NoneCreated
  <2> QED
    BY <2>1 DEF SchedInv, TaskHasComp, QueuedIsPassed, ReadIsIdle, OneTaskPerCompetitor,
       ActiveIsAccurate, Busy
<1>3. CASE Examine
  <2> PICK c \in listed : /\ listed' = listed \ {c}
                          /\ IF c \in active THEN UNCHANGED <<loop, cur>>
                                             ELSE loop' = "read" /\ cur' = c
    BY <1>3 DEF Examine
  <2>1. UNCHANGED <<slot, active>> /\ loop = "examine"
    BY <1>3 DEF Examine
  <2>2. CASE c \in active
    BY <1>0, <2>1, <2>2, TasksAlone
  <2>3. CASE c \notin active
    <3>1. \A s \in Slots : Busy(s) => slot[s].comp # c
      BY <2>3 DEF SchedInv, QueuedIsPassed, ActiveIsAccurate, Busy, TypeOK, SlotType, SlotStates
    <3> QED
      BY <1>0, <2>1, <2>3, <3>1 DEF SchedInv, TaskHasComp, QueuedIsPassed, ReadIsIdle,
         OneTaskPerCompetitor, ActiveIsAccurate, Busy
  <2> QED
    BY <2>2, <2>3
<1>4. CASE Decide
  <2>1. CASE UNCHANGED slot
    BY <1>0, <1>4, <2>1, TasksAlone DEF Decide
  <2>2. CASE ~UNCHANGED slot
    <3> PICK s \in Slots : /\ slot[s].pc = "free"
                           /\ slot' = [slot EXCEPT ![s] = NewTask(cur, freqNow)]
      BY <1>4, <2>2 DEF Decide
    <3>1. /\ slot'[s].pc = "created" /\ slot'[s].comp = cur
          /\ \A t \in Slots \ {s} : slot'[t] = slot[t]
      BY DEF TypeOK, NewTask
    <3>2. cur \in Comps /\ cur \notin listed /\ \A t \in Slots : Busy(t) => slot[t].comp # cur
      BY <1>4 DEF SchedInv, ReadIsIdle, Decide
    <3>3. loop' = "examine" /\ cur' = Nobody /\ UNCHANGED <<listed, active>>
      BY <1>4 DEF Decide
    <3>4. TaskHasComp' /\ QueuedIsPassed' /\ ReadIsIdle'
      BY <1>0, <3>1, <3>2, <3>3, SchedulerAssumption DEF SchedInv, TaskHasComp, QueuedIsPassed,
         ReadIsIdle, Busy
    <3>5. OneTaskPerCompetitor'
      BY <3>1, <3>2 DEF SchedInv, OneTaskPerCompetitor, Busy
    <3>6. ActiveIsAccurate'
      BY <3>1, <3>3 DEF SchedInv, ActiveIsAccurate
    <3> QED
      BY <3>4, <3>5, <3>6 DEF SchedInv
  <2> QED
    BY <2>1, <2>2
<1>5. CASE FrequencyDone
  BY <1>0, <1>5, TasksAlone DEF FrequencyDone
<1>6. CASE EndCheck
  BY <1>0, <1>6, TasksAlone DEF EndCheck
<1> QED
  BY <1>1, <1>2, <1>3, <1>4, <1>5, <1>6 DEF Loop

LEMMA SchedTaskEnds ==
  ASSUME TypeOK, SchedInv, NEW s \in Slots, TaskEnds(s), slot[s].pc \in {"running", "backoff"},
         UNCHANGED <<listed, cur, loop>>
  PROVE  SchedInv'
<1>1. slot'[s].pc = "free" /\ \A t \in Slots \ {s} : slot'[t] = slot[t]
  BY DEF TypeOK, TaskEnds, FreeSlot
<1>2. TaskHasComp' /\ QueuedIsPassed' /\ ReadIsIdle' /\ OneTaskPerCompetitor'
  BY <1>1 DEF SchedInv, TaskHasComp, QueuedIsPassed, ReadIsIdle, OneTaskPerCompetitor, Busy
<1>3. ActiveIsAccurate'
  <2>1. active' = active \ {slot[s].comp}
    BY DEF TaskEnds
  <2>2. \A t \in Slots \ {s} : slot[t].pc \in {"running", "backoff"} => slot[t].comp # slot[s].comp
    BY DEF SchedInv, OneTaskPerCompetitor, Busy
  <2> QED
    BY <1>1, <2>1, <2>2 DEF SchedInv, ActiveIsAccurate
<1> QED
  BY <1>2, <1>3 DEF SchedInv

LEMMA SchedTask ==
  ASSUME TypeOK, SchedInv, NEW s \in Slots, Task(s)
  PROVE  SchedInv'
<1> USE DEF loopVars, compVars, logVars
<1>1. ASSUME slot[s].pc # "free", slot'[s].comp = slot[s].comp,
             slot'[s].pc \in {"running", "backoff"},
             \A t \in Slots \ {s} : slot'[t] = slot[t],
             active' = active \cup {slot[s].comp},
             UNCHANGED <<listed, cur, loop>>
      PROVE  SchedInv'
  <2>1. TaskHasComp' /\ QueuedIsPassed' /\ ReadIsIdle' /\ OneTaskPerCompetitor'
    BY <1>1 DEF SchedInv, TaskHasComp, QueuedIsPassed, ReadIsIdle, OneTaskPerCompetitor, Busy
  <2>2. ActiveIsAccurate'
    BY <1>1 DEF SchedInv, ActiveIsAccurate
  <2> QED
    BY <2>1, <2>2 DEF SchedInv
<1>2. CASE TaskStarts(s)
  <2>1. slot'[s].comp = slot[s].comp /\ slot'[s].pc = "running" /\ \A t \in Slots \ {s} : slot'[t] = slot[t]
    BY <1>2 DEF TaskStarts, TypeOK, SlotType
  <2> QED
    BY <1>1, <1>2, <2>1 DEF TaskStarts
<1>3. CASE RunSucceeds(s)
  BY <1>3, SchedTaskEnds DEF RunSucceeds
<1>4. CASE RunFails(s)
  <2>1. CASE slot[s].attempt < MaxRetries
    <3>1. slot'[s].comp = slot[s].comp /\ slot'[s].pc = "backoff" /\ \A t \in Slots \ {s} : slot'[t] = slot[t]
      BY <1>4, <2>1 DEF RunFails, TypeOK, SlotType
    <3>2. slot[s].comp \in active
      BY <1>4 DEF RunFails, SchedInv, ActiveIsAccurate
    <3> QED
      BY <1>1, <1>4, <2>1, <3>1, <3>2 DEF RunFails
  <2>2. CASE ~(slot[s].attempt < MaxRetries)
    BY <1>4, <2>2, SchedTaskEnds DEF RunFails
  <2> QED
    BY <2>1, <2>2
<1>5. CASE Retry(s)
  <2>1. slot'[s].comp = slot[s].comp /\ slot'[s].pc = "running" /\ \A t \in Slots \ {s} : slot'[t] = slot[t]
    BY <1>5 DEF Retry, TypeOK, SlotType
  <2>2. slot[s].comp \in active
    BY <1>5 DEF Retry, SchedInv, ActiveIsAccurate
  <2> QED
    BY <1>1, <1>5, <2>1, <2>2 DEF Retry
<1> QED
  BY <1>2, <1>3, <1>4, <1>5 DEF Task

LEMMA SchedSurroundings ==
  ASSUME TypeOK, SchedInv,
         \/ Start \/ Stop \/ CheckFails \/ Crash \/ Tick
         \/ \E c \in Comps : ApiTrigger(c) \/ ApiRunEnds(c) \/ Edit(c)
  PROVE  SchedInv'
<1> USE DEF loopVars, compVars, logVars
<1>0. listed \subseteq Comps
  BY DEF TypeOK
<1>1. CASE Start \/ Stop \/ CheckFails
  BY <1>0, <1>1, TasksAlone DEF Start, Stop, CheckFails
<1>2. CASE Crash
  BY <1>2, SchedulerAssumption DEF Crash, FreeSlot, SchedInv, TaskHasComp, QueuedIsPassed,
     ReadIsIdle, OneTaskPerCompetitor, ActiveIsAccurate, Busy
<1>3. CASE Tick
  <2>1. \A t \in Slots : slot'[t].pc = slot[t].pc /\ slot'[t].comp = slot[t].comp
    BY <1>3 DEF Tick, TypeOK, SlotType
  <2>2. UNCHANGED <<loop, listed, cur, active>>
    BY <1>3 DEF Tick
  <2>3. TaskHasComp' /\ QueuedIsPassed' /\ ReadIsIdle' /\ OneTaskPerCompetitor'
    BY <2>1, <2>2 DEF SchedInv, TaskHasComp, QueuedIsPassed, ReadIsIdle, OneTaskPerCompetitor, Busy
  <2>4. ActiveIsAccurate'
    BY <2>1, <2>2 DEF SchedInv, ActiveIsAccurate
  <2> QED
    BY <2>3, <2>4 DEF SchedInv
<1>4. CASE \E c \in Comps : ApiTrigger(c) \/ ApiRunEnds(c) \/ Edit(c)
  BY <1>0, <1>4, TasksAlone DEF ApiTrigger, ApiRunEnds, Edit
<1> QED
  BY <1>1, <1>2, <1>3, <1>4

LEMMA SchedInvariance == Spec => [](TypeOK /\ SchedInv)
<1>1. ASSUME TypeOK, SchedInv, [Next]_vars PROVE TypeOK' /\ SchedInv'
  <2>1. CASE Loop
    BY <1>1, <2>1, LoopType, SchedLoop
  <2>2. CASE \E s \in Slots : Task(s)
    BY <1>1, <2>2, TaskType, SchedTask DEF SchedInv, TaskHasComp
  <2>3. CASE \/ Start \/ Stop \/ CheckFails \/ Crash \/ Tick
             \/ \E c \in Comps : ApiTrigger(c) \/ ApiRunEnds(c) \/ Edit(c)
    BY <1>1, <2>3, SurroundingsType, SchedSurroundings
  <2>4. CASE UNCHANGED vars
    BY <1>1, <2>4 DEF vars, loopVars, compVars, logVars, TypeOK, SchedInv, TaskHasComp,
       QueuedIsPassed, ReadIsIdle, OneTaskPerCompetitor, ActiveIsAccurate, Busy
  <2> QED
    BY <1>1, <2>1, <2>2, <2>3, <2>4 DEF Next
<1> QED
  BY TypeInit, SchedInit, <1>1, PTL DEF Spec

(* Every reachable state is well typed. *)
THEOREM SchedulerTypeCorrect == Spec => []TypeOK
BY SchedInvariance, PTL

(* No competitor is ever collected by two tasks at a time. *)
THEOREM NoDoubleCollection == Spec => []OneTaskPerCompetitor
BY SchedInvariance, PTL DEF SchedInv

(* The active set never loses or keeps a competitor wrongly. *)
THEOREM ActiveSetIsAccurate == Spec => []ActiveIsAccurate
BY SchedInvariance, PTL DEF SchedInv

-----------------------------------------------------------------------------
(***************************************************************************)
(* The spacing of runs.  A task was created because no log is younger than *)
(* its interval, and a run that succeeds has a log; while the task is busy *)
(* nobody else runs its competitor, so that the last success only ages.    *)
(***************************************************************************)

(* A run that returned "success" has left a log. *)
SuccessIsLogged == \A c \in Comps : sinceLog[c] <= sinceGood[c]

(* The last success is older than the interval of a task, at the start of
   its current run if it is running.                                       *)
TaskIsSpaced(s) ==
  /\ Busy(s) => sinceGood[slot[s].comp] >= slot[s].every
  /\ slot[s].pc = "running" =>
       slot[s].since <= MaxRun /\ sinceGood[slot[s].comp] - slot[s].since >= slot[s].every

SpacingInv == SuccessIsLogged /\ \A s \in Slots : TaskIsSpaced(s)

LEMMA SpacingInit == Init => SpacingInv
BY SchedulerAssumption DEF Init, SpacingInv, SuccessIsLogged, TaskIsSpaced, Busy, FreeSlot

(* A step that leaves the last successes and all tasks but one alone. *)
LEMMA OtherTasksSpaced ==
  ASSUME SpacingInv, NEW s \in Slots,
         UNCHANGED sinceGood,
         \A t \in Slots \ {s} : slot'[t] = slot[t],
         TaskIsSpaced(s)'
  PROVE  \A t \in Slots : TaskIsSpaced(t)'
BY DEF SpacingInv, TaskIsSpaced, Busy

(* A log that is added can only be younger. *)
LEMMA LogRunSpacing ==
  ASSUME TypeOK, SuccessIsLogged, NEW c \in Comps, NEW age \in Ages,
         LogRun(c, age) \/ UNCHANGED sinceLog
  PROVE  \A d \in Comps : sinceLog'[d] <= sinceLog[d] /\ sinceLog'[d] <= sinceGood[d]
<1>0. \A a \in Ages : a \in Int
  BY AgeType
<1>1. /\ \A d \in Comps : sinceLog[d] \in Int /\ sinceGood[d] \in Int
      /\ age \in Int /\ sinceLog \in [Comps -> Ages]
  BY <1>0 DEF TypeOK
<1>2. CASE LogRun(c, age)
  BY <1>1, <1>2 DEF LogRun, Younger, SuccessIsLogged
<1> QED
  BY <1>1, <1>2 DEF SuccessIsLogged

LEMMA SpacingLoop ==
  ASSUME TypeOK, SchedInv, SpacingInv, Loop
  PROVE  SpacingInv'
<1> USE DEF loopVars, compVars, logVars
<1>1. UNCHANGED <<sinceLog, sinceGood>>
  BY DEF Loop, BeginCheck, QueryFrequency, Examine, Decide, FrequencyDone, EndCheck
<1>2. SuccessIsLogged'
  BY <1>1 DEF SpacingInv, SuccessIsLogged
<1>3. CASE UNCHANGED slot
  BY <1>1, <1>2, <1>3 DEF SpacingInv, TaskIsSpaced, Busy
<1>4. CASE Decide /\ ShouldCollect(cur, freqNow) /\ cur \in Comps
  <2> PICK s \in Slots : slot' = [slot EXCEPT ![s] = NewTask(cur, freqNow)]
    BY <1>4 DEF Decide
  <2>1. /\ sinceLog[cur] \in Nat /\ sinceGood[cur] \in Nat /\ sinceCheck \in Nat
        /\ Interval[freqNow] \in Nat
    BY <1>4, AgeType, SchedulerAssumption DEF TypeOK
  <2>2. sinceGood[cur] >= Interval[freqNow]
    BY <1>4, <2>1 DEF ShouldCollect, SpacingInv, SuccessIsLogged
  <2>3. slot'[s] = NewTask(cur, freqNow) /\ \A t \in Slots \ {s} : slot'[t] = slot[t]
    BY DEF TypeOK
  <2>4. TaskIsSpaced(s)'
    BY <1>1, <2>2, <2>3 DEF TaskIsSpaced, NewTask
  <2> QED
    BY <1>1, <1>2, <2>3, <2>4, OtherTasksSpaced DEF SpacingInv
<1> QED
  <2>1. CASE Decide
    BY <1>3, <1>4, <2>1 DEF Decide, SchedInv, ReadIsIdle
  <2> QED
    BY <1>3, <2>1 DEF Loop, BeginCheck, QueryFrequency, Examine, FrequencyDone, EndCheck

(* What is known of the numbers in a busy slot. *)
LEMMA SlotNumbers ==
  ASSUME TypeOK, SchedInv, NEW s \in Slots, Busy(s)
  PROVE  /\ slot[s].comp \in Comps
         /\ sinceGood[slot[s].comp] \in 0..Cap /\ sinceLog[slot[s].comp] \in 0..Cap
         /\ slot[s].since \in 0..Cap
         /\ slot[s].every \in Nat /\ slot[s].every + MaxRun <= Cap
<1>1. slot[s].comp \in Comps
  BY DEF SchedInv, TaskHasComp
<1>2. slot[s].since \in Ages /\ slot[s].every \in {0} \cup {Interval[f] : f \in Freqs}
  BY DEF TypeOK, SlotType
<1>3. sinceGood[slot[s].comp] \in Ages /\ sinceLog[slot[s].comp] \in Ages
  BY <1>1 DEF TypeOK
<1>4. CASE slot[s].every = 0
  <2>0. FreqOrder[1] \in Freqs
    BY SchedulerAssumption
  <2>1. MaxRun <= Cap
    BY <2>0, SchedulerAssumption
  <2> QED
    BY <1>1, <1>2, <1>3, <1>4, <2>1, SchedulerAssumption DEF Ages
<1>5. ASSUME NEW f \in Freqs, slot[s].every = Interval[f]
      PROVE  slot[s].every \in Nat /\ slot[s].every + MaxRun <= Cap
  BY <1>5, SchedulerAssumption
<1> QED
  BY <1>1, <1>2, <1>3, <1>4, <1>5 DEF Ages

LEMMA SpacingTask ==
  ASSUME TypeOK, SchedInv, SpacingInv, NEW s \in Slots, Task(s)
  PROVE  SpacingInv'
<1> USE DEF loopVars, compVars, logVars
<1>0. Busy(s)
  BY DEF Task, TaskStarts, RunSucceeds, RunFails, Retry, Busy
<1>1. /\ slot[s].comp \in Comps
      /\ sinceGood[slot[s].comp] \in Int /\ slot[s].since \in Ages
      /\ slot[s].since \in Int /\ slot[s].since >= 0
      /\ slot[s].every \in Int /\ MaxRun \in Nat
  BY <1>0, SlotNumbers, SchedulerAssumption DEF Ages
<1>2. TaskIsSpaced(s)
  BY DEF SpacingInv
<1>3. slot \in [Slots -> SlotType] /\ slot[s] \in SlotType
  BY DEF TypeOK
<1>4. ASSUME TaskEnds(s)
      PROVE  slot'[s].pc = "free" /\ \A t \in Slots \ {s} : slot'[t] = slot[t]
  BY <1>3, <1>4 DEF TaskEnds, FreeSlot
<1>5. CASE TaskStarts(s)
  <2>1. /\ slot'[s].comp = slot[s].comp /\ slot'[s].every = slot[s].every
        /\ slot'[s].pc = "running" /\ slot'[s].since = 0
        /\ \A t \in Slots \ {s} : slot'[t] = slot[t]
    BY <1>3, <1>5 DEF TaskStarts, SlotType
  <2>2. TaskIsSpaced(s)'
    BY <1>0, <1>1, <1>2, <1>5, <2>1 DEF TaskIsSpaced, TaskStarts, Busy
  <2> QED
    BY <1>5, <2>1, <2>2, OtherTasksSpaced DEF TaskStarts, SpacingInv, SuccessIsLogged
<1>6. CASE RunSucceeds(s)
  <2>1. sinceGood' = [sinceGood EXCEPT ![slot[s].comp] = slot[s].since] /\ TaskEnds(s)
    BY <1>6 DEF RunSucceeds
  <2>2. LogRun(slot[s].comp, slot[s].since)
    BY <1>6 DEF RunSucceeds
  <2>3. \A d \in Comps : sinceLog'[d] <= sinceLog[d] /\ sinceLog'[d] <= sinceGood[d]
    BY <1>1, <2>2, LogRunSpacing DEF SpacingInv
  <2>4. sinceLog'[slot[s].comp] <= slot[s].since
    <3>1. sinceLog'[slot[s].comp] = Younger(sinceLog[slot[s].comp], slot[s].since)
      BY <1>1, <2>2 DEF LogRun, TypeOK
    <3>2. sinceLog[slot[s].comp] \in Int
      BY <1>0, SlotNumbers
    <3> QED
      BY <1>1, <3>1, <3>2 DEF Younger
  <2>5. SuccessIsLogged'
    BY <1>1, <2>1, <2>3, <2>4 DEF SuccessIsLogged, TypeOK
  <2>6. ASSUME NEW t \in Slots PROVE TaskIsSpaced(t)'
    <3>1. CASE t = s
      BY <1>4, <2>1, <3>1 DEF TaskIsSpaced, Busy
    <3>2. CASE t # s /\ Busy(t)
      <4>1. slot'[t] = slot[t] /\ slot[t].comp # slot[s].comp
        BY <1>0, <1>4, <2>1, <3>2 DEF SchedInv, OneTaskPerCompetitor
      <4>2. sinceGood'[slot[t].comp] = sinceGood[slot[t].comp]
        BY <2>1, <3>2, <4>1, SlotNumbers DEF TypeOK
      <4> QED
        BY <4>1, <4>2 DEF SpacingInv, TaskIsSpaced, Busy
    <3>3. CASE t # s /\ ~Busy(t)
      BY <1>4, <2>1, <3>3 DEF TaskIsSpaced, Busy
    <3> QED
      BY <3>1, <3>2, <3>3
  <2> QED
    BY <2>5, <2>6 DEF SpacingInv
<1>7. CASE RunFails(s)
  <2>1. UNCHANGED sinceGood
    BY <1>7 DEF RunFails
  <2>2. LogRun(slot[s].comp, slot[s].since) \/ UNCHANGED sinceLog
    BY <1>7 DEF RunFails
  <2>3. SuccessIsLogged'
    BY <1>1, <2>1, <2>2, LogRunSpacing DEF SpacingInv, SuccessIsLogged
  <2>4. CASE slot[s].attempt < MaxRetries
    <3>1. /\ slot'[s].comp = slot[s].comp /\ slot'[s].every = slot[s].every
          /\ slot'[s].pc = "backoff"
          /\ \A t \in Slots \ {s} : slot'[t] = slot[t]
      BY <1>3, <1>7, <2>4 DEF RunFails, SlotType
    <3>2. TaskIsSpaced(s)'
      BY <1>0, <1>2, <2>1, <3>1 DEF TaskIsSpaced, Busy
    <3> QED
      BY <2>1, <2>3, <3>1, <3>2, OtherTasksSpaced DEF SpacingInv
  <2>5. CASE ~(slot[s].attempt < MaxRetries)
    <3>1. TaskEnds(s)
      BY <1>7, <2>5 DEF RunFails
    <3>2. TaskIsSpaced(s)'
      BY <1>4, <3>1 DEF TaskIsSpaced, Busy
    <3> QED
      BY <1>4, <2>1, <2>3, <3>1, <3>2, OtherTasksSpaced DEF SpacingInv
  <2> QED
    BY <2>4, <2>5
<1>8. CASE Retry(s)
  <2>1. /\ slot'[s].comp = slot[s].comp /\ slot'[s].every = slot[s].every
        /\ slot'[s].pc = "running" /\ slot'[s].since = 0
        /\ \A t \in Slots \ {s} : slot'[t] = slot[t]
    BY <1>3, <1>8 DEF Retry, SlotType
  <2>2. TaskIsSpaced(s)'
    BY <1>0, <1>1, <1>2, <1>8, <2>1 DEF TaskIsSpaced, Retry, Busy
  <2> QED
    BY <1>8, <2>1, <2>2, OtherTasksSpaced DEF Retry, SpacingInv, SuccessIsLogged
<1> QED
  BY <1>5, <1>6, <1>7, <1>8 DEF Task

LEMMA SpacingTick ==
  ASSUME TypeOK, SchedInv, SpacingInv, Tick
  PROVE  SpacingInv'
<1>1. SuccessIsLogged'
  <2>1. \A c \in Comps : sinceLog[c] \in 0..Cap /\ sinceGood[c] \in 0..Cap /\ sinceLog[c] <= sinceGood[c]
    BY DEF TypeOK, Ages, SpacingInv, SuccessIsLogged
  <2>2. \A c \in Comps : sinceLog'[c] = Older(sinceLog[c]) /\ sinceGood'[c] = Older(sinceGood[c])
    BY DEF Tick
  <2>3. \A a, b \in 0..Cap : a <= b => Older(a) <= Older(b)
    BY SchedulerAssumption DEF Older
  <2> QED
    BY <2>1, <2>2, <2>3 DEF SuccessIsLogged
<1>2. ASSUME NEW s \in Slots PROVE TaskIsSpaced(s)'
  <2>1. /\ slot'[s].pc = slot[s].pc /\ slot'[s].comp = slot[s].comp /\ slot'[s].every = slot[s].every
        /\ slot'[s].since = IF slot[s].pc = "running" THEN Older(slot[s].since) ELSE slot[s].since
        /\ slot[s].pc = "running" => slot[s].since < MaxRun
    BY DEF Tick, TypeOK, SlotType
  <2>2. CASE Busy(s)
    <3> DEFINE good == sinceGood[slot[s].comp]
               since == slot[s].since
               every == slot[s].every
    <3>1. /\ good \in 0..Cap /\ since \in 0..Cap /\ every \in Nat /\ every + MaxRun <= Cap
          /\ sinceGood'[slot[s].comp] = Older(good)
      BY <2>2, SlotNumbers DEF Tick
    <3>2. TaskIsSpaced(s)
      BY DEF SpacingInv
    <3>3. good >= every => Older(good) >= every
      BY <3>1, SchedulerAssumption DEF Older
    <3>4. since < MaxRun /\ good - since >= every
            => Older(since) <= MaxRun /\ Older(good) - Older(since) >= every
      <4> SUFFICES ASSUME since < MaxRun, good - since >= every
                   PROVE  Older(since) <= MaxRun /\ Older(good) - Older(since) >= every
        OBVIOUS
      <4> HIDE DEF good, since, every
      <4>1. MaxRun \in Nat /\ Cap \in Nat
        BY SchedulerAssumption
      <4>2. Older(since) = since + 1
        BY <3>1, <4>1 DEF Older
      <4>3. CASE good < Cap
        <5>1. Older(good) = good + 1
          BY <4>3 DEF Older
        <5> QED
          BY <3>1, <4>1, <4>2, <5>1
      <4>4. CASE good = Cap
        <5>1. Older(good) = Cap
          BY <3>1, <4>1, <4>4 DEF Older
        <5> QED
          BY <3>1, <4>1, <4>2, <5>1
      <4> QED
        BY <3>1, <4>1, <4>3, <4>4
    <3> QED
      BY <2>1, <2>2, <3>1, <3>2, <3>3, <3>4 DEF TaskIsSpaced, Busy
  <2>3. CASE ~Busy(s)
    BY <2>1, <2>3 DEF TaskIsSpaced, Busy
  <2> QED
    BY <2>2, <2>3
<1> QED
  BY <1>1, <1>2 DEF SpacingInv

LEMMA SpacingSurroundings ==
  ASSUME TypeOK, SpacingInv,
         \/ Start \/ Stop \/ CheckFails \/ Crash
         \/ \E c \in Comps : ApiTrigger(c) \/ ApiRunEnds(c) \/ Edit(c)
  PROVE  SpacingInv'
<1> USE DEF loopVars, compVars, logVars
<1>1. CASE Start \/ Stop \/ CheckFails
  BY <1>1 DEF Start, Stop, CheckFails, SpacingInv, SuccessIsLogged, TaskIsSpaced, Busy
<1>2. CASE Crash
  BY <1>2 DEF Crash, FreeSlot, SpacingInv, SuccessIsLogged, TaskIsSpaced, Busy
<1>3. ASSUME NEW c \in Comps, ApiTrigger(c) \/ Edit(c) PROVE SpacingInv'
  BY <1>3 DEF ApiTrigger, Edit, SpacingInv, SuccessIsLogged, TaskIsSpaced, Busy
<1>4. ASSUME NEW c \in Comps, ApiRunEnds(c) PROVE SpacingInv'
  <2>1. apiRun[c] \in Ages /\ (LogRun(c, apiRun[c]) \/ UNCHANGED sinceLog) /\ UNCHANGED <<slot, sinceGood>>
    BY <1>4 DEF ApiRunEnds, TypeOK
  <2>2. SuccessIsLogged'
    BY <2>1, LogRunSpacing DEF SpacingInv, SuccessIsLogged
  <2> QED
    BY <2>1, <2>2 DEF SpacingInv, TaskIsSpaced, Busy
<1> QED
  BY <1>1, <1>2, <1>3, <1>4

LEMMA SpacingInvariance == Spec => [](TypeOK /\ SchedInv /\ SpacingInv)
<1>1. ASSUME TypeOK, SchedInv, SpacingInv, [Next]_vars PROVE SpacingInv'
  <2>1. CASE UNCHANGED vars
    BY <1>1, <2>1 DEF vars, loopVars, compVars, logVars, SpacingInv, SuccessIsLogged, TaskIsSpaced, Busy
  <2> QED
    BY <1>1, <2>1, SpacingLoop, SpacingTask, SpacingTick, SpacingSurroundings DEF Next
<1> QED
  BY SpacingInit, SchedInvariance, <1>1, PTL DEF Spec

(* Between the begins of two successful runs of a competitor's tasks lies at
   least the interval of the later one.                                    *)
THEOREM SuccessfulRunsAreSpaced == Spec => ScheduledRunsAreSpaced
<1>1. ASSUME SpacingInv
      PROVE  [\A s \in Slots :
                slot[s].pc = "running" /\ slot'[s].pc = "free" /\ sinceGood' # sinceGood
                /\ sinceGood'[slot[s].comp] = slot[s].since
                  => sinceGood[slot[s].comp] - slot[s].since >= slot[s].every]_vars
  BY <1>1 DEF SpacingInv, TaskIsSpaced
<1> QED
  BY SpacingInvariance, <1>1, PTL DEF ScheduledRunsAreSpaced

=============================================================================
