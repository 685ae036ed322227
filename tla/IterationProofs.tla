-------------------------- MODULE IterationProofs --------------------------
(***************************************************************************)
(* Theorems of Iteration, for any set of stages that may fail and any      *)
(* number of crashes: no record runs on without its driver, every stage    *)
(* comes in its turn, COMPLETE means that nothing was lost, and pointer,   *)
(* records and notes agree.                                                *)
(***************************************************************************)
EXTENDS Iteration, TLAPS

-----------------------------------------------------------------------------
(* The pipeline.                                                           *)

LEMMA StageIs == Stage = {1, 2, 3, 4, 5, 6, 7, 8} /\ Done = 9 /\ None = 0
BY DEF Stage, SEEDING, SCHEDULING, Done, None

LEMMA FirstIn ==
  ASSUME NEW S \in SUBSET Stage, S # {}
  PROVE  First(S) \in S /\ \A t \in S : First(S) <= t
<1>1. \E s \in S : \A t \in S : s <= t
  <2>0. \A t \in S : t \in {1, 2, 3, 4, 5, 6, 7, 8}
    BY StageIs
  <2>1. CASE 1 \in S
    BY <2>0, <2>1
  <2>2. CASE 2 \in S /\ S \cap {1} = {}
    BY <2>0, <2>2
  <2>3. CASE 3 \in S /\ S \cap {1, 2} = {}
    BY <2>0, <2>3
  <2>4. CASE 4 \in S /\ S \cap {1, 2, 3} = {}
    BY <2>0, <2>4
  <2>5. CASE 5 \in S /\ S \cap {1, 2, 3, 4} = {}
    BY <2>0, <2>5
  <2>6. CASE 6 \in S /\ S \cap {1, 2, 3, 4, 5} = {}
    BY <2>0, <2>6
  <2>7. CASE 7 \in S /\ S \cap {1, 2, 3, 4, 5, 6} = {}
    BY <2>0, <2>7
  <2>8. CASE 8 \in S /\ S \cap {1, 2, 3, 4, 5, 6, 7} = {}
    BY <2>0, <2>8
  <2> QED
    BY <2>0, <2>1, <2>2, <2>3, <2>4, <2>5, <2>6, <2>7, <2>8
<1> QED
  BY <1>1 DEF First

LEMMA LastIn ==
  ASSUME NEW S \in SUBSET Stage, S # {}
  PROVE  Last(S) \in S /\ \A t \in S : t <= Last(S)
<1>1. \E s \in S : \A t \in S : t <= s
  <2>0. \A t \in S : t \in {1, 2, 3, 4, 5, 6, 7, 8}
    BY StageIs
  <2>1. CASE 8 \in S
    BY <2>0, <2>1
  <2>2. CASE 7 \in S /\ S \cap {8} = {}
    BY <2>0, <2>2
  <2>3. CASE 6 \in S /\ S \cap {8, 7} = {}
    BY <2>0, <2>3
  <2>4. CASE 5 \in S /\ S \cap {8, 7, 6} = {}
    BY <2>0, <2>4
  <2>5. CASE 4 \in S /\ S \cap {8, 7, 6, 5} = {}
    BY <2>0, <2>5
  <2>6. CASE 3 \in S /\ S \cap {8, 7, 6, 5, 4} = {}
    BY <2>0, <2>6
  <2>7. CASE 2 \in S /\ S \cap {8, 7, 6, 5, 4, 3} = {}
    BY <2>0, <2>7
  <2>8. CASE 1 \in S /\ S \cap {8, 7, 6, 5, 4, 3, 2} = {}
    BY <2>0, <2>8
  <2> QED
    BY <2>0, <2>1, <2>2, <2>3, <2>4, <2>5, <2>6, <2>7, <2>8
<1> QED
  BY <1>1 DEF Last

\* The next stage is planned, is not before n, and no planned one is skipped.
LEMMA NextFromIs ==
  ASSUME NEW kind, NEW n \in Int
  PROVE  /\ NextFrom(kind, n) \in Stage \cup {Done}
         /\ NextFrom(kind, n) \in Stage => NextFrom(kind, n) >= n
         /\ \A s \in Planned(kind) : s < n \/ s >= NextFrom(kind, n)
<1> DEFINE later == {s \in Planned(kind) : s >= n}
<1>1. Planned(kind) \subseteq Stage
  BY StageIs DEF Planned, FINALISE_STAGES, CORRELATING, ALERTING
<1>2. later \in SUBSET Stage
  BY <1>1
<1>3. CASE later = {}
  BY <1>1, <1>3, StageIs DEF NextFrom
<1>4. CASE later # {}
  <2>1. NextFrom(kind, n) = First(later)
    BY <1>4 DEF NextFrom
  <2>2. First(later) \in later /\ \A t \in later : First(later) <= t
    BY <1>2, <1>4, FirstIn
  <2> QED
    BY <1>1, <1>2, <2>1, <2>2, StageIs
<1> QED
  BY <1>3, <1>4

LEMMA LastRanIs == LastRan \in Stage \cup {None}
                   /\ (LastRan # None => runs[LastRan] \notin {"none", "RUNNING"})
                   /\ \A s \in Stage : Ran(s) => LastRan # None /\ s <= LastRan
<1> DEFINE S == {s \in Stage : Ran(s)}
<1>1. CASE S = {}
  BY <1>1 DEF LastRan
<1>2. CASE S # {}
  <2>1. Last(S) \in S /\ \A t \in S : t <= Last(S)
    BY <1>2, LastIn
  <2> QED
    BY <1>2, <2>1, StageIs DEF LastRan, Ran
<1> QED
  BY <1>1, <1>2

LEMMA InFlightIs == InFlight \in Stage \cup {None}
                    /\ (InFlight # None => runs[InFlight] = "RUNNING")
                    /\ \A s \in Stage : runs[s] = "RUNNING" => InFlight # None
<1> DEFINE S == {s \in Stage : runs[s] = "RUNNING"}
<1>1. CASE S = {}
  BY <1>1 DEF InFlight
<1>2. CASE S # {}
  <2>1. Last(S) \in S
    BY <1>2, LastIn
  <2> QED
    BY <1>2, <2>1, StageIs DEF InFlight
<1> QED
  BY <1>1, <1>2

-----------------------------------------------------------------------------
(* Types.                                                                  *)

RowType == [finished : BOOLEAN, outcome : Outcomes, stage : Stage \cup {Done},
            error : {"none", "critical", "raised"},
            interrupted : BOOLEAN, interruptedStage : Stage \cup {None},
            cancel : BOOLEAN, skipped : SUBSET Stage, retry : BOOLEAN]
QueueType == [seeded : {"none", "some", "all"}, tipped : BOOLEAN,
              outstanding : SUBSET Collecting, gaps : SUBSET Collecting]
TaskType == [kind : Kinds, at : Stage \cup {Done}, phase : Phases,
             critical : BOOLEAN, cancelled : BOOLEAN,
             degraded : SUBSET Stage, skipped : SUBSET Stage]
BootType == [state : Boots, stage : Stage \cup {None}]

DiscardPhases == {"reverted", "pointed", "dropped"}

\* An open row names a stage, a startup that is about to stamp one does too, and
\* only a step that is not the last one advances the pointer.
TypeInv ==
  /\ row \in RowType /\ queue \in QueueType /\ task \in TaskType /\ boot \in BootType
  /\ runs \in [Stage -> Statuses] /\ notes \subseteq Stage
  /\ remarks \subseteq {"recovery", "gaps", "unattributed"}
  /\ crashes \in 0..MaxCrashes /\ abandoned \in BOOLEAN /\ torn \subseteq Stage
  /\ row.finished <=> row.outcome # "none"
  /\ row.interrupted <=> row.interruptedStage # None
  /\ ~row.finished => row.stage \in Stage
  /\ boot.state = "marking" => boot.stage \in Stage
  /\ task.phase = "advance" => task.kind = "step" /\ task.at \in Stage \ {SCHEDULING}
  /\ task.kind = "discard" <=> task.phase \in DiscardPhases
  /\ task.kind = "discard" => task.at \in Stage

LEMMA TypeInvIsType == TypeInv => TypeOK
BY DEF TypeInv, TypeOK, RowType, QueueType, TaskType, BootType

LEMMA DriveTyped ==
  ASSUME NEW kind \in Kinds, NEW n \in Int
  PROVE  /\ Drive(kind, n) \in TaskType
         /\ Drive(kind, n).kind = kind /\ Drive(kind, n).at = NextFrom(kind, n)
         /\ Drive(kind, n).phase = "boundary" /\ Drive(kind, n).critical = FALSE
BY NextFromIs, StageIs DEF Drive, TaskType, Phases, SCHEDULING

LEMMA FinaliseTyped == /\ Drive("finalise", SEEDING) \in TaskType
                       /\ Drive("finalise", SEEDING).phase = "boundary"
                       /\ Drive("finalise", SEEDING).kind = "finalise"
<1>1. "finalise" \in Kinds /\ SEEDING \in Int
  BY DEF Kinds, SEEDING
<1> QED
  BY <1>1, DriveTyped

LEMMA IdleTyped == Idle \in TaskType /\ Idle.kind = "idle" /\ Idle.phase = "boundary"
<1>1. Drive("run", SEEDING) \in TaskType /\ Drive("run", SEEDING).phase = "boundary"
  <2>1. "run" \in Kinds /\ SEEDING \in Int
    BY DEF Kinds, SEEDING
  <2> QED
    BY <2>1, DriveTyped
<1> QED
  BY <1>1 DEF Idle, TaskType, Kinds

LEMMA CollectedTyped ==
  ASSUME NEW q \in QueueType, NEW s \in Collecting, NEW through \in BOOLEAN,
         NEW r \in Collected(q, s, through)
  PROVE  r \in QueueType
<1>1. q.outstanding \in SUBSET Collecting /\ q.gaps \in SUBSET Collecting
  BY DEF QueueType
<1>2. CASE s \notin q.outstanding
  BY <1>2 DEF Collected
<1>3. CASE s \in q.outstanding
  <2> DEFINE Rest == {q.outstanding \ {s}} \cup (IF through THEN {} ELSE {q.outstanding})
  <2>1. Collected(q, s, through) =
          {Left(q, o, g) : o \in Rest, g \in {q.gaps, q.gaps \cup {s}}}
    BY <1>3 DEF Collected
  <2>2. \A o \in Rest : o \in SUBSET Collecting
    BY <1>1
  <2> HIDE DEF Rest
  <2>3. PICK o \in Rest, g \in {q.gaps, q.gaps \cup {s}} :
          r = Left(q, o, g)
    BY <2>1
  <2>4. o \in SUBSET Collecting /\ g \in SUBSET Collecting
    BY <1>1, <2>2
  <2> QED
    BY <2>3, <2>4 DEF QueueType, Left
<1> QED
  BY <1>2, <1>3

LEMMA EffectsTyped ==
  ASSUME queue \in QueueType, NEW s \in Stage, NEW ok \in BOOLEAN, NEW through \in BOOLEAN,
         NEW r \in Effects(s, ok, through)
  PROVE  r \in QueueType
<1>1. COLLECTING_SOCIAL \in Collecting /\ COLLECTING_TIPPED \in Collecting
  BY DEF Collecting
<1>2. queue.outstanding \in SUBSET Collecting
  BY DEF QueueType
<1>3. ASSUME NEW q \in Tipped PROVE q \in QueueType
  <2>1. queue.outstanding \cup {COLLECTING_TIPPED} \in SUBSET Collecting
    BY <1>1, <1>2
  <2>2. q = queue \/ q = [queue EXCEPT !.tipped = TRUE,
                            !.outstanding = queue.outstanding \cup {COLLECTING_TIPPED}]
    BY <1>3 DEF Tipped
  <2> QED
    BY <2>1, <2>2 DEF QueueType
<1>4. ASSUME NEW level \in {queue.seeded, "some", "all"}, NEW adopted \in BOOLEAN,
             r \in Seeded(ok, through, level, adopted)
      PROVE  r \in QueueType
  <2>1. level \in {"none", "some", "all"}
    BY DEF QueueType
  <2>2. queue.outstanding \cup {COLLECTING_SOCIAL} \in SUBSET Collecting
    BY <1>1, <1>2
  <2>3. \/ r = [queue EXCEPT !.seeded = level,
                            !.outstanding = queue.outstanding \cup {COLLECTING_SOCIAL}]
        \/ r = [queue EXCEPT !.seeded = level, !.outstanding = queue.outstanding]
    BY <1>4 DEF Seeded
  <2> QED
    BY <1>2, <2>1, <2>2, <2>3 DEF QueueType
<1>5. \/ r \in UNION {Seeded(ok, through, level, adopted) :
                       level \in {queue.seeded, "some", "all"}, adopted \in BOOLEAN}
      \/ s \in Collecting /\ r \in Collected(queue, s, through)
      \/ r \in Tipped
      \/ s \in Collecting /\ r \in UNION {Collected(q, s, through) : q \in Tipped}
      \/ r = queue
  BY <1>1 DEF Effects
<1> QED
  BY <1>3, <1>4, <1>5, CollectedTyped

LEMMA InitTypes == Init => TypeInv
<1> SUFFICES ASSUME Init PROVE TypeInv
  OBVIOUS
<1>1. PICK beginning \in Ops \cap Beginnings :
        /\ row = [finished |-> FALSE, outcome |-> "none", stage |-> SEEDING,
                  error |-> "none", interrupted |-> FALSE,
                  interruptedStage |-> None, cancel |-> FALSE,
                  skipped |-> IF beginning = "retry" THEN {SCHEDULING} ELSE {},
                  retry |-> beginning = "retry"]
        /\ remarks = IF beginning = "retry" THEN {"unattributed"} ELSE {}
        /\ task = IF beginning = "create" THEN Idle ELSE Drive(beginning, SEEDING)
        /\ runs = [s \in Stage |-> "none"] /\ notes = {}
        /\ queue = [seeded |-> "none", tipped |-> FALSE,
                    outstanding |-> {}, gaps |-> {}]
        /\ boot = [state |-> "up", stage |-> None] /\ crashes = 0 /\ abandoned = FALSE /\ torn = {}
  BY DEF Init
<1>2. task \in TaskType /\ task.phase = "boundary" /\ task.kind # "discard"
  <2>1. beginning = "create" \/ beginning \in Kinds \ {"discard"}
    BY <1>1, Zenon DEF Beginnings, Kinds
  <2> QED
    <3>1. CASE beginning = "create"
      BY <1>1, <3>1, IdleTyped
    <3>2. CASE beginning # "create"
      <4>1. task = Drive(beginning, SEEDING)
        BY <1>1, <3>2
      <4>2. SEEDING \in Int
        BY DEF SEEDING
      <4> QED
        BY <2>1, <3>2, <4>1, <4>2, DriveTyped
    <3> QED
      BY <3>1, <3>2
<1>3. row \in RowType /\ row.stage \in Stage
  BY <1>1, StageIs DEF RowType, Outcomes, SEEDING, SCHEDULING
<1>4. crashes \in 0..MaxCrashes
  BY <1>1, CrashesAssumption
<1> QED
  BY <1>1, <1>2, <1>3, <1>4, StageIs DEF TypeInv, RowType, QueueType, BootType, Statuses, Boots, Outcomes, DiscardPhases

\* Where a driver goes next is a stage, or the end.
LEMMA OnwardTyped ==
  ASSUME task \in TaskType, NEW failed \in BOOLEAN, task.at \in Stage,
         task.phase = "inside"
  PROVE  /\ AfterStage(failed) \in TaskType
         /\ AfterStage(failed).kind = task.kind
         /\ AfterStage(failed).phase \in {"boundary", "advance"}
         /\ AfterStage(failed).phase = "advance"
              => task.kind = "step" /\ AfterStage(failed).at \in Stage \ {SCHEDULING}
<1>1. task.at + 1 \in Int /\ Done \in Stage \cup {Done}
  BY StageIs
<1>2. NextFrom(task.kind, task.at + 1) \in Stage \cup {Done}
  BY <1>1, NextFromIs
<1>3. CASE failed \/ (task.kind = "step" /\ task.at = SCHEDULING)
  <2>1. AfterStage(failed) =
          [task EXCEPT !.at = Done, !.phase = "boundary", !.critical = failed]
    BY <1>3 DEF AfterStage
  <2>2. AfterStage(failed) \in TaskType
    BY <1>1, <2>1 DEF TaskType, Phases
  <2> QED
    BY <2>1, <2>2 DEF TaskType
<1>4. CASE ~failed /\ task.kind = "step" /\ task.at # SCHEDULING
  <2>1. AfterStage(failed) = [task EXCEPT !.phase = "advance"]
    BY <1>4 DEF AfterStage
  <2> QED
    BY <1>4, <2>1 DEF TaskType, Phases
<1>5. CASE ~failed /\ task.kind # "step"
  <2>1. AfterStage(failed) =
          [task EXCEPT !.at = NextFrom(task.kind, task.at + 1), !.phase = "boundary"]
    BY <1>5 DEF AfterStage
  <2> QED
    BY <1>2, <2>1 DEF TaskType, Phases
<1> QED
  BY <1>3, <1>4, <1>5

\* A driver that is cut short leaves rows of the right type.
LEMMA CutTyped ==
  ASSUME TypeInv, CutShort
  PROVE  /\ queue' \in QueueType /\ notes' \subseteq Stage
         /\ remarks' \subseteq {"recovery", "gaps", "unattributed"}
<1>1. queue \in QueueType /\ task \in TaskType /\ notes \subseteq Stage
      /\ remarks \subseteq {"recovery", "gaps", "unattributed"}
  BY DEF TypeInv
<1>2. queue' \in QueueType
  <2>1. CASE AtStage("inside")
    BY <1>1, <2>1, EffectsTyped DEF CutShort, AtStage
  <2>2. CASE ~AtStage("inside")
    BY <1>1, <2>2 DEF CutShort
  <2> QED
    BY <2>1, <2>2
<1>3. notes' \subseteq Stage
  BY <1>1, FailAssumption DEF CutShort, TaskType
<1>4. remarks' \subseteq {"recovery", "gaps", "unattributed"}
  BY <1>1 DEF CutShort, GapRemark
<1> QED
  BY <1>2, <1>3, <1>4

LEMMA WorkTypes == TypeInv /\ Work => TypeInv'
<1> SUFFICES ASSUME TypeInv, Work PROVE TypeInv'
  OBVIOUS
<1> USE DEF TypeInv, DiscardPhases
<1>1. CASE SkipStage
  <2>1. task.at \in Stage /\ task.at + 1 \in Int /\ task.phase = "boundary"
    BY <1>1, StageIs DEF SkipStage, AtStage
  <2>2. NextFrom(task.kind, task.at + 1) \in Stage \cup {Done}
    BY <2>1, NextFromIs
  <2>3. task.skipped \cup {task.at} \in SUBSET Stage
        /\ task.degraded \cup {task.at} \in SUBSET Stage
    BY <2>1 DEF TaskType
  <2>4. task' \in TaskType /\ task'.phase = "boundary" /\ task'.kind = task.kind
    BY <1>1, <2>1, <2>2, <2>3 DEF SkipStage, TaskType
  <2>5. row' \in RowType /\ row'.finished = row.finished /\ row'.outcome = row.outcome
        /\ row'.interrupted = row.interrupted /\ row'.stage = row.stage
        /\ row'.interruptedStage = row.interruptedStage
    BY <1>1, <2>3 DEF SkipStage, RecordSkipped, RowType
  <2> QED
    BY <1>1, <2>4, <2>5 DEF SkipStage
<1>2. CASE OpenRun
  <2>1. runs' \in [Stage -> Statuses]
    BY <1>2 DEF OpenRun, Statuses
  <2>2. task' \in TaskType /\ task'.phase = "opened" /\ task'.kind = task.kind
        /\ task.phase = "boundary" /\ torn' \subseteq Stage
    <3>1. Cancelled \in BOOLEAN
      BY DEF Cancelled
    <3> QED
      BY <1>2, <3>1 DEF OpenRun, AtStage, TaskType, Phases
  <2> QED
    BY <1>2, <2>1, <2>2 DEF OpenRun
<1>3. CASE SetStage
  <2>1. row' \in RowType /\ row'.finished = row.finished /\ row'.outcome = row.outcome
        /\ row'.interrupted = row.interrupted /\ row'.stage \in Stage
        /\ row'.interruptedStage = row.interruptedStage
    BY <1>3 DEF SetStage, AtStage, RowType
  <2>2. task' \in TaskType /\ task'.phase = "inside" /\ task'.kind = task.kind
        /\ task.phase = "opened"
    BY <1>3 DEF SetStage, AtStage, TaskType, Phases
  <2> QED
    BY <1>3, <2>1, <2>2 DEF SetStage
<1>4. CASE EndStage
  <2>1. task.at \in Stage /\ task.phase = "inside"
    BY <1>4 DEF EndStage, AtStage
  <2>2. PICK ok \in BOOLEAN, noted \in BOOLEAN, through \in BOOLEAN :
          /\ queue' \in Effects(task.at, ok, through)
          /\ runs' = [runs EXCEPT ![task.at] = IF ok THEN "COMPLETE" ELSE "FAILED"]
          /\ notes' = IF noted THEN notes \cup {task.at} ELSE notes
          /\ task' = LET t == AfterStage(~ok /\ task.at \in CRITICAL_STAGES)
                     IN  IF ok THEN t
                         ELSE [t EXCEPT !.degraded = @ \cup {task.at}]
    BY <1>4 DEF EndStage
  <2>3. queue' \in QueueType
    BY <2>1, <2>2, EffectsTyped
  <2>4. runs' \in [Stage -> Statuses] /\ notes' \subseteq Stage
    BY <2>1, <2>2 DEF Statuses
  <2> DEFINE t == AfterStage(~ok /\ task.at \in CRITICAL_STAGES)
  <2>5. t \in TaskType /\ t.kind = task.kind /\ t.phase \in {"boundary", "advance"}
        /\ (t.phase = "advance" => t.kind = "step" /\ t.at \in Stage \ {SCHEDULING})
    BY <2>1, OnwardTyped
  <2>6. task' = t \/ task' = [t EXCEPT !.degraded = @ \cup {task.at}]
    BY <2>2
  <2> HIDE DEF t
  <2>7. t.degraded \cup {task.at} \in SUBSET Stage
    BY <2>1, <2>5 DEF TaskType
  <2>8. task' \in TaskType /\ task'.kind = task.kind
        /\ task'.phase \in {"boundary", "advance"}
        /\ (task'.phase = "advance" => task'.kind = "step" /\ task'.at \in Stage \ {SCHEDULING})
    BY <2>5, <2>6, <2>7 DEF TaskType
  <2> QED
    BY <1>4, <2>1, <2>3, <2>4, <2>8 DEF EndStage
<1>5. CASE Advance
  <2>1. row.stage \in Stage \cup {Done} /\ task.at + 1 \in Stage
    BY <1>5, StageIs DEF Advance, AtStage, SCHEDULING, RowType
  <2>2. row' \in RowType /\ row'.finished = row.finished /\ row'.outcome = row.outcome
        /\ row'.interrupted = row.interrupted /\ row'.stage \in Stage
        /\ row'.interruptedStage = row.interruptedStage
    BY <1>5, <2>1 DEF Advance, RowType
  <2>3. task' = Idle /\ notes' \subseteq Stage
        /\ UNCHANGED <<runs, remarks, queue, boot, crashes, abandoned, torn>>
    BY <1>5 DEF Advance, TaskType
  <2> QED
    BY <2>2, <2>3, IdleTyped
<1>6. CASE Finish
  <2>1. notes' \subseteq Stage /\ remarks' \subseteq {"recovery", "gaps", "unattributed"}
    BY <1>6 DEF Finish, GapRemark, TaskType
  <2>2. DecideOutcome(notes', remarks') \in Outcomes \ {"none"}
    BY DEF DecideOutcome, Outcomes
  <2> DEFINE outcome == DecideOutcome(notes', remarks')
             error == IF task.critical THEN "critical" ELSE "none"
  <2>4. row' = CloseRow(outcome, error) /\ error \in {"critical", "none"}
    BY <1>6 DEF Finish
  <2> HIDE DEF outcome, error
  <2>3. row' \in RowType /\ row'.finished /\ row'.outcome # "none"
        /\ row'.interrupted = row.interrupted
        /\ row'.interruptedStage = row.interruptedStage
    <3>1. outcome \in Outcomes \ {"none"}
      BY <2>2 DEF outcome
    <3> QED
      BY <2>4, <3>1 DEF CloseRow, RowType
  <2> QED
    BY <1>6, <2>1, <2>3, IdleTyped DEF Finish
<1>7. CASE Raise
  <2>1. row' \in RowType /\ (row'.finished <=> row'.outcome # "none")
        /\ (~row'.finished => row'.stage \in Stage)
        /\ row'.interrupted = row.interrupted
        /\ row'.interruptedStage = row.interruptedStage
    BY <1>7 DEF Raise, CloseRow, RowType, Outcomes
  <2>2. CutShort /\ torn' \subseteq Stage
    BY <1>7 DEF Raise, TornAt
  <2>3. /\ queue' \in QueueType /\ notes' \subseteq Stage
        /\ remarks' \subseteq {"recovery", "gaps", "unattributed"}
    BY <2>2, CutTyped
  <2> QED
    BY <1>7, <2>1, <2>2, <2>3, IdleTyped DEF Raise
<1> QED
  BY <1>1, <1>2, <1>3, <1>4, <1>5, <1>6, <1>7 DEF Work

LEMMA RevertedTyped ==
  ASSUME queue \in QueueType, NEW s \in Stage
  PROVE  Reverted(s) \in QueueType
<1>1. queue.outstanding \in SUBSET Collecting /\ queue.gaps \in SUBSET Collecting
  BY DEF QueueType
<1>2. CASE s = SEEDING
  BY <1>1, <1>2 DEF Reverted, QueueType
<1>3. CASE s # SEEDING /\ s = TIPPING
  BY <1>1, <1>3 DEF Reverted, QueueType
<1>4. CASE s # SEEDING /\ s # TIPPING /\ s \in Collecting
  <2> DEFINE any == IF s = COLLECTING_SOCIAL THEN queue.seeded # "none" ELSE queue.tipped
             left == IF any THEN queue.outstanding \cup {s} ELSE queue.outstanding
             gaps == queue.gaps \ {s}
  <2>1. Reverted(s) = [queue EXCEPT !.gaps = gaps, !.outstanding = left]
    BY <1>4 DEF Reverted
  <2>2. left \in SUBSET Collecting /\ gaps \in SUBSET Collecting
    BY <1>1, <1>4
  <2> HIDE DEF left, gaps
  <2> QED
    BY <2>1, <2>2 DEF QueueType
<1>5. CASE s # SEEDING /\ s # TIPPING /\ s \notin Collecting
  BY <1>5 DEF Reverted
<1> QED
  BY <1>2, <1>3, <1>4, <1>5

LEMMA RequestTypes == TypeInv /\ Request => TypeInv'
<1> SUFFICES ASSUME TypeInv, Request PROVE TypeInv'
  OBVIOUS
<1> USE DEF TypeInv, DiscardPhases
<1>1. CASE RequestCancel
  <2>1. row' \in RowType /\ row'.finished = row.finished /\ row'.outcome = row.outcome
        /\ row'.interrupted = row.interrupted /\ row'.stage = row.stage
        /\ row'.interruptedStage = row.interruptedStage
    BY <1>1 DEF RequestCancel, RowType
  <2> QED
    BY <1>1, <2>1 DEF RequestCancel
<1>2. CASE BeginStep
  <2>1. row.stage \in Int /\ "step" \in Kinds
    BY <1>2, StageIs DEF BeginStep, Kinds
  <2> QED
    BY <1>2, <2>1, DriveTyped DEF BeginStep
<1>3. CASE Discard
  <2>1. LastRan \in Stage
    BY <1>3, LastRanIs DEF Discard
  <2>2. queue' \in QueueType
    BY <1>3, <2>1, RevertedTyped DEF Discard
  <2>3. task' \in TaskType /\ task'.kind = "discard" /\ task'.phase = "reverted"
        /\ task'.at \in Stage
    BY <1>3, <2>1, IdleTyped DEF Discard, TaskType, Kinds, Phases
  <2>4. torn' \subseteq Stage
    BY <1>3, <2>1 DEF Discard
  <2> QED
    BY <1>3, <2>2, <2>3, <2>4 DEF Discard
<1>8. CASE PointBack
  <2>1. task.at \in Stage /\ task.kind = "discard"
    BY <1>8 DEF PointBack, AtStage
  <2>2. row' \in RowType /\ ~row'.finished /\ row'.outcome = "none"
        /\ row'.interrupted = row.interrupted /\ row'.stage \in Stage
        /\ row'.interruptedStage = row.interruptedStage
    <3>1. row' = [row EXCEPT !.stage = task.at, !.finished = FALSE,
                             !.outcome = "none", !.error = "none"]
      BY <1>8 DEF PointBack
    <3> QED
      BY <2>1, <3>1 DEF RowType, Outcomes
  <2>3. task' \in TaskType /\ task'.kind = "discard" /\ task'.phase = "pointed"
        /\ task'.at \in Stage
    BY <1>8, <2>1 DEF PointBack, TaskType, Phases
  <2> QED
    BY <1>8, <2>2, <2>3 DEF PointBack
<1>9. CASE DropRun
  <2>1. task' \in TaskType /\ task'.kind = "discard" /\ task'.phase = "dropped"
        /\ task'.at \in Stage
    BY <1>9 DEF DropRun, AtStage, TaskType, Phases
  <2>2. runs' \in [Stage -> Statuses]
    BY <1>9 DEF DropRun, Statuses
  <2> QED
    BY <1>9, <2>1, <2>2 DEF DropRun
<1>10. CASE Retract
  <2>1. notes' \subseteq Stage /\ torn' \subseteq Stage
    BY <1>10 DEF Retract, RetractNotes
  <2> QED
    BY <1>10, <2>1, IdleTyped DEF Retract
<1>4. ASSUME NEW from \in Stage, Resume(from) PROVE TypeInv'
  <2>1. from \in Int /\ "resume" \in Kinds
    BY StageIs DEF Kinds
  <2> QED
    BY <1>4, <2>1, DriveTyped DEF Resume
<1>5. ASSUME GiveUp PROVE queue' \in QueueType /\ abandoned' \in BOOLEAN
  <2>1. queue.gaps \cup queue.outstanding \in SUBSET Collecting
    BY DEF QueueType
  <2> QED
    BY <1>5, <2>1 DEF GiveUp, QueueType
<1>6. CASE AbandonAndFinalise
  <2>1. Drive("finalise", SEEDING) \in TaskType
        /\ Drive("finalise", SEEDING).phase = "boundary"
        /\ Drive("finalise", SEEDING).kind = "finalise"
    BY FinaliseTyped
  <2>2. task' \in TaskType
        /\ (task'.phase = "advance" => task'.kind = "step" /\ task'.at \in Stage \ {SCHEDULING})
        /\ (task'.kind = "discard" <=> task'.phase \in DiscardPhases)
        /\ (task'.kind = "discard" => task'.at \in Stage)
    <3> DEFINE critical == row.interruptedStage \in CRITICAL_STAGES
    <3>1. \/ task' = task
          \/ task' = [Drive("finalise", SEEDING) EXCEPT !.critical = critical]
      BY <1>6 DEF AbandonAndFinalise
    <3>2. critical \in BOOLEAN
      OBVIOUS
    <3> HIDE DEF critical
    <3> QED
      BY <2>1, <3>1, <3>2 DEF TaskType
  <2>3. remarks' \subseteq {"recovery", "gaps", "unattributed"}
    BY <1>6 DEF AbandonAndFinalise, AbandonNote
  <2>4. queue' \in QueueType /\ abandoned' \in BOOLEAN
    BY <1>5, <1>6 DEF AbandonAndFinalise
  <2> QED
    BY <1>6, <2>2, <2>3, <2>4 DEF AbandonAndFinalise
<1>7. CASE AbandonAndClose
  <2>1. row' \in RowType /\ row'.finished /\ row'.outcome # "none"
        /\ row'.interrupted = row.interrupted
        /\ row'.interruptedStage = row.interruptedStage
    BY <1>7 DEF AbandonAndClose, CloseRow, RowType, Outcomes
  <2>2. remarks' \subseteq {"recovery", "gaps", "unattributed"}
    BY <1>7 DEF AbandonAndClose, AbandonNote
  <2>3. queue' \in QueueType /\ abandoned' \in BOOLEAN
    BY <1>5, <1>7 DEF AbandonAndClose
  <2> QED
    BY <1>7, <2>1, <2>2, <2>3 DEF AbandonAndClose
<1> QED
  BY <1>1, <1>2, <1>3, <1>4, <1>6, <1>7, <1>8, <1>9, <1>10 DEF Request

LEMMA CrashTypes == TypeInv /\ Crash => TypeInv'
<1> SUFFICES ASSUME TypeInv, Crash PROVE TypeInv'
  OBVIOUS
<1>1. /\ queue' \in QueueType /\ notes' \subseteq Stage
      /\ remarks' \subseteq {"recovery", "gaps", "unattributed"}
  BY CutTyped DEF Crash
<1> USE DEF TypeInv, DiscardPhases
<1>2. crashes' \in 0..MaxCrashes
  BY CrashesAssumption DEF Crash
<1>3. boot' \in BootType /\ boot'.state # "marking"
  BY DEF Crash, BootType, Boots
<1> QED
  BY <1>1, <1>2, <1>3, IdleTyped DEF Crash

LEMMA StartupTypes == TypeInv /\ Startup => TypeInv'
<1> SUFFICES ASSUME TypeInv, Startup PROVE TypeInv'
  OBVIOUS
<1> USE DEF TypeInv
<1>1. CASE Reconcile
  <2>1. ~row.finished => InterruptedAt \in Stage
    BY InFlightIs DEF InterruptedAt
  <2>2. runs' \in [Stage -> Statuses] /\ torn' \subseteq Stage
    BY <1>1 DEF Reconcile, CloseRuns, Statuses
  <2>3. boot' \in BootType /\ (boot'.state = "marking" => boot'.stage \in Stage)
    BY <1>1, <2>1 DEF Reconcile, BootType, Boots
  <2> QED
    BY <1>1, <2>2, <2>3 DEF Reconcile
<1>2. CASE MarkInterrupted
  <2>1. boot' \in BootType /\ boot'.state # "marking"
    BY <1>2, StageIs DEF MarkInterrupted, BootType, Boots
  <2>2. row' \in RowType /\ row'.finished = row.finished /\ row'.outcome = row.outcome
        /\ row'.stage = row.stage /\ (row'.interrupted <=> row'.interruptedStage # None)
    <3>1. CASE row.interrupted
      BY <1>2, <3>1 DEF MarkInterrupted
    <3>2. CASE ~row.interrupted
      <4>1. row' = [row EXCEPT !.interrupted = TRUE, !.interruptedStage = boot.stage]
            /\ boot.stage \in Stage
        BY <1>2, <3>2 DEF MarkInterrupted
      <4>2. boot.stage # None
        BY <4>1, StageIs
      <4>3. row' \in RowType
        BY <4>1 DEF RowType
      <4> QED
        BY <4>1, <4>2, <4>3 DEF RowType
    <3> QED
      BY <3>1, <3>2
  <2> QED
    BY <1>2, <2>1, <2>2 DEF MarkInterrupted
<1>3. CASE NoteInterrupted
  <2>1. boot' \in BootType /\ boot'.state # "marking"
    BY <1>3, StageIs DEF NoteInterrupted, BootType, Boots
  <2> QED
    BY <1>3, <2>1 DEF NoteInterrupted
<1> QED
  BY <1>1, <1>2, <1>3 DEF Startup

LEMMA TypesKept == TypeInv /\ [Next]_vars => TypeInv'
<1>1. ASSUME TypeInv, UNCHANGED vars PROVE TypeInv'
  BY <1>1 DEF vars, TypeInv
<1> QED
  BY <1>1, WorkTypes, RequestTypes, CrashTypes, StartupTypes DEF Next

\* Every variable keeps its type; an iteration has an outcome exactly when it is
\* finished, and an interrupted stage exactly when it was interrupted
\* (finish_iteration, mark_interrupted).
THEOREM TypeCorrect == Spec => []TypeOK
<1>1. TypeInv => TypeOK
  BY TypeInvIsType
<1> QED
  BY <1>1, InitTypes, TypesKept, PTL DEF Spec

-----------------------------------------------------------------------------
(* Records of running stages.                                              *)

\* Closing an iteration under its worker leaves a record that only a discard can
\* bring back to an open row (abandon_iteration, discard_last).
NeverReopened == ~({"close", "discard"} \subseteq Ops)
MayClose == "close" \in Ops

Held(s) == task.kind # "idle" /\ task.at = s /\ task.phase \in {"opened", "inside"}

\* Whoever drives an open row holds the record that is RUNNING; what a driver that
\* raised has left is torn.
GhostInv ==
  /\ boot.state # "up" => task.kind = "idle"
  /\ row.finished /\ ~MayClose
       => task.kind \in {"idle", "discard"} /\ row.stage = Done
  /\ task.kind = "discard" => "discard" \in Ops /\ runs[task.at] # "RUNNING"
  /\ (boot.state # "down" \/ row.finished) /\ (~row.finished \/ ~MayClose)
       => \A s \in Stage : runs[s] = "RUNNING" => Held(s) \/ s \in torn

LEMMA GhostWork ==
  ASSUME TypeInv, GhostInv, Work
  PROVE  GhostInv'
<1> USE DEF GhostInv, Held
<1>0. task.kind = "discard" <=> task.phase \in DiscardPhases
  BY DEF TypeInv
<1>1. task.kind # "idle" /\ boot.state = "up"
      /\ (~Raise => task.kind # "discard" /\ (row.finished => MayClose))
  <2>1. task.kind = "discard" => task.at \in Stage
    BY DEF TypeInv
  <2>2. Done \notin Stage
    BY StageIs
  <2> QED
    BY <1>0, <2>1, <2>2 DEF Work, SkipStage, OpenRun, SetStage, EndStage, Advance, Finish,
       Raise, AtStage, DiscardPhases
<1>2. boot' = boot
  BY DEF Work, SkipStage, OpenRun, SetStage, EndStage, Advance, Finish, Raise
<1>3. CASE SkipStage
  <2>1. task.phase = "boundary" /\ runs' = runs /\ row'.finished = row.finished
        /\ torn' = torn /\ task'.kind = task.kind /\ task.kind # "discard"
    BY <1>0, <1>3 DEF SkipStage, AtStage, RecordSkipped, TypeInv, RowType, TaskType,
       DiscardPhases
  <2>2. row.finished => MayClose
    BY <1>1, <1>3, <2>1
  <2> QED
    BY <1>1, <1>2, <2>1, <2>2
<1>4. CASE OpenRun
  <2>1. task.phase = "boundary" /\ task.at \in Stage /\ row' = row
        /\ task'.kind = task.kind /\ task'.at = task.at /\ task'.phase = "opened"
        /\ (\A s \in Stage : s # task.at => runs'[s] = runs[s])
        /\ torn' = torn \ {task.at} /\ task.kind # "discard"
    BY <1>0, <1>4 DEF OpenRun, AtStage, TypeInv, TaskType, DiscardPhases
  <2>2. row.finished => MayClose
    BY <1>1, <1>4, <2>1
  <2> QED
    BY <1>1, <1>2, <2>1, <2>2
<1>5. CASE SetStage
  <2>1. task.phase = "opened" /\ runs' = runs /\ row'.finished = row.finished
        /\ task'.kind = task.kind /\ task'.at = task.at /\ task'.phase = "inside"
        /\ torn' = torn /\ task.kind # "discard"
    BY <1>0, <1>5 DEF SetStage, AtStage, TypeInv, TaskType, RowType, DiscardPhases
  <2>2. row.finished => MayClose
    BY <1>1, <1>5, <2>1
  <2> QED
    BY <1>1, <1>2, <2>1, <2>2
<1>6. CASE EndStage
  <2>1. task.phase = "inside" /\ task.at \in Stage /\ row' = row
        /\ runs'[task.at] # "RUNNING"
        /\ (\A s \in Stage : s # task.at => runs'[s] = runs[s])
        /\ torn' = torn /\ task.kind # "discard"
    BY <1>0, <1>6 DEF EndStage, AtStage, TypeInv, DiscardPhases
  <2>2. row.finished => MayClose
    BY <1>1, <1>6, <2>1
  <2>3. task'.kind = task.kind
    <3> DEFINE failed(ok) == ~ok /\ task.at \in CRITICAL_STAGES
    <3>1. PICK ok \in BOOLEAN :
            task' = LET t == AfterStage(failed(ok))
                    IN  IF ok THEN t ELSE [t EXCEPT !.degraded = @ \cup {task.at}]
      BY <1>6 DEF EndStage
    <3>2. failed(ok) \in BOOLEAN
      OBVIOUS
    <3> HIDE DEF failed
    <3>3. AfterStage(failed(ok)) \in TaskType /\ AfterStage(failed(ok)).kind = task.kind
      BY <2>1, <3>2, OnwardTyped DEF TypeInv
    <3> QED
      BY <3>1, <3>3 DEF TaskType
  <2> QED
    BY <1>1, <1>2, <2>1, <2>2, <2>3
<1>7. CASE Advance
  <2>1. task.phase = "advance" /\ runs' = runs /\ row'.finished = row.finished
        /\ torn' = torn /\ task' = Idle
    BY <1>7 DEF Advance, AtStage, TypeInv, RowType
  <2>2. row.finished => MayClose
    BY <1>0, <1>1, <1>7, <2>1 DEF DiscardPhases, Raise
  <2> QED
    BY <1>1, <1>2, <2>1, <2>2, IdleTyped
<1>8. CASE Finish
  <2>1. row'.finished /\ row'.stage = Done /\ runs' = runs /\ task' = Idle
        /\ torn' = torn /\ task.at = Done
    BY <1>8 DEF Finish, CloseRow, TypeInv, RowType
  <2>2. \A s \in Stage : s # Done
    BY StageIs
  <2> QED
    BY <1>1, <1>2, <1>8, <2>1, <2>2, IdleTyped DEF Finish
<1>9. CASE Raise
  <2>1. runs' = runs /\ task' = Idle /\ torn' = torn \cup TornAt
        /\ (row' = row \/ (row'.finished /\ row'.stage = Done))
    BY <1>9 DEF Raise, CloseRow, TypeInv, RowType
  <2>2. \A s \in Stage : Held(s) => s \in torn'
    <3>1. SUFFICES ASSUME NEW s \in Stage, Held(s) PROVE s \in TornAt
      BY <2>1
    <3>2. task.at = s /\ s # Done /\ task.phase # "boundary"
      BY <3>1, StageIs
    <3> QED
      BY <3>2, Zenon DEF TornAt, AtStage
  <2>3. ~MayClose \/ ~row.finished
          => \A s \in Stage : runs[s] = "RUNNING" => s \in torn'
    BY <1>1, <2>1, <2>2
  <2>4. ~row'.finished => ~row.finished
    BY <2>1
  <2>5. row'.finished /\ ~MayClose => row'.stage = Done
    BY <2>1
  <2> QED
    BY <1>1, <1>2, <2>1, <2>3, <2>4, <2>5, IdleTyped
<1> QED
  BY <1>3, <1>4, <1>5, <1>6, <1>7, <1>8, <1>9 DEF Work

LEMMA GhostRequest ==
  ASSUME NeverReopened, TypeInv, GhostInv, Request
  PROVE  GhostInv'
<1> USE DEF GhostInv, Held
<1>1. CASE RequestCancel
  <2>1. row'.finished = row.finished /\ row'.stage = row.stage
    BY <1>1 DEF RequestCancel, TypeInv, RowType
  <2> QED
    BY <1>1, <2>1 DEF RequestCancel
<1>2. CASE BeginStep
  <2>1. task.kind = "idle" /\ boot.state = "up" /\ row.stage \in Stage
        /\ UNCHANGED <<row, runs, boot, torn>> /\ task'.kind = "step"
    BY <1>2 DEF BeginStep, Asked, Up, Drive
  <2>2. row.finished => MayClose
    BY <2>1, StageIs
  <2> QED
    BY <2>1, <2>2
<1>3. CASE Discard
  <2>1. task.kind = "idle" /\ boot.state = "up" /\ "discard" \in Ops
        /\ UNCHANGED <<row, runs, boot>> /\ torn \subseteq torn'
        /\ task'.kind = "discard" /\ task'.at = LastRan /\ task'.phase = "reverted"
    BY <1>3, IdleTyped DEF Discard, Asked, Up, TaskType
  <2>2. runs'[task'.at] # "RUNNING"
    BY <1>3, <2>1, LastRanIs DEF Discard
  <2> QED
    BY <2>1, <2>2
<1>7. CASE PointBack
  <2>1. task.kind = "discard" /\ UNCHANGED <<runs, boot, torn>>
        /\ task'.kind = "discard" /\ task'.at = task.at /\ ~row'.finished
    BY <1>7 DEF PointBack, AtStage, DiscardPhases, TypeInv, TaskType, RowType
  <2>2. ~MayClose /\ boot.state = "up"
    BY <2>1 DEF NeverReopened, MayClose
  <2>3. \A s \in Stage : ~Held(s)
    BY <2>1 DEF TypeInv, DiscardPhases
  <2> QED
    BY <2>1, <2>2, <2>3
<1>8. CASE DropRun
  <2>1. task.kind = "discard" /\ UNCHANGED <<row, boot, torn>>
        /\ task'.kind = "discard" /\ task'.at = task.at /\ runs'[task.at] = "none"
        /\ \A s \in Stage : s # task.at => runs'[s] = runs[s]
    BY <1>8 DEF DropRun, AtStage, DiscardPhases, TypeInv, TaskType
  <2>2. \A s \in Stage : ~Held(s)
    BY <2>1 DEF TypeInv, DiscardPhases
  <2> QED
    BY <2>1, <2>2
<1>9. CASE Retract
  <2>1. task.kind = "discard" /\ UNCHANGED <<row, runs, boot>> /\ task' = Idle
        /\ torn' = torn \ {task.at}
    BY <1>9 DEF Retract, AtStage, DiscardPhases, TypeInv
  <2>2. \A s \in Stage : ~Held(s)
    BY <2>1 DEF TypeInv, DiscardPhases
  <2> QED
    BY <2>1, <2>2, IdleTyped
<1>4. ASSUME NEW from \in Stage, Resume(from) PROVE GhostInv'
  <2>1. task.kind = "idle" /\ boot.state = "up" /\ ~row.finished
        /\ UNCHANGED <<row, runs, boot, torn>> /\ task'.kind = "resume"
    BY <1>4 DEF Resume, Asked, Up, Drive
  <2> QED
    BY <2>1
<1>5. CASE AbandonAndFinalise
  <2>1. boot.state = "up" /\ ~row.finished /\ UNCHANGED <<row, runs, boot, torn>>
        /\ (task' = task \/ (task.kind = "idle" /\ task'.kind = "finalise"))
    BY <1>5, FinaliseTyped DEF AbandonAndFinalise, GiveUp, Asked, Up, TaskType
  <2> QED
    BY <2>1
<1>6. CASE AbandonAndClose
  <2>1. MayClose /\ row'.finished /\ UNCHANGED <<task, boot, runs>>
    BY <1>6 DEF AbandonAndClose, CloseRow, Asked, MayClose, TypeInv, RowType
  <2> QED
    BY <2>1
<1> QED
  BY <1>1, <1>2, <1>3, <1>4, <1>5, <1>6, <1>7, <1>8, <1>9 DEF Request

LEMMA GhostOutage ==
  ASSUME TypeInv, GhostInv, Crash \/ Startup
  PROVE  GhostInv'
<1> USE DEF GhostInv, Held
<1>1. CASE Crash
  <2>1. boot'.state = "down" /\ task' = Idle /\ UNCHANGED <<row, runs, torn>>
        /\ (row.finished => task.kind # "idle")
    BY <1>1 DEF Crash
  <2>2. row.finished /\ ~MayClose => \A s \in Stage : ~Held(s)
    BY <2>1 DEF TypeInv, DiscardPhases
  <2> QED
    BY <2>1, <2>2, IdleTyped
<1>2. CASE Reconcile
  <2>1. boot.state = "down" /\ UNCHANGED <<row, task>>
    BY <1>2 DEF Reconcile
  <2>2. CASE row.finished
    <3>1. UNCHANGED <<runs, torn>> /\ boot'.state = "up" /\ task.kind = "idle"
      BY <1>2, <2>1, <2>2 DEF Reconcile, TypeInv, BootType
    <3> QED
      BY <2>1, <2>2, <3>1
  <2>3. CASE ~row.finished
    <3>1. \A s \in Stage : runs'[s] # "RUNNING"
      BY <1>2, <2>3 DEF Reconcile, CloseRuns, TypeInv
    <3>2. boot'.state = "marking"
      BY <1>2, <2>3 DEF Reconcile
    <3> QED
      BY <2>1, <2>3, <3>1, <3>2
  <2> QED
    BY <2>2, <2>3
<1>3. CASE MarkInterrupted
  <2>1. boot.state = "marking" /\ UNCHANGED <<runs, task, torn>>
    BY <1>3 DEF MarkInterrupted
  <2>2. row'.finished = row.finished /\ row'.stage = row.stage
    BY <1>3 DEF MarkInterrupted, TypeInv, RowType
  <2>3. boot'.state \in {"up", "noting"}
    BY <1>3 DEF MarkInterrupted, TypeInv, BootType
  <2> QED
    BY <2>1, <2>2, <2>3
<1>4. CASE NoteInterrupted
  BY <1>4 DEF NoteInterrupted
<1> QED
  BY <1>1, <1>2, <1>3, <1>4 DEF Startup

LEMMA GhostInit == Init => GhostInv
<1> SUFFICES ASSUME Init PROVE GhostInv
  OBVIOUS
<1>1. PICK beginning \in Ops \cap Beginnings :
        /\ task = IF beginning = "create" THEN Idle ELSE Drive(beginning, SEEDING)
        /\ ~row.finished /\ boot.state = "up" /\ runs = [s \in Stage |-> "none"]
  BY DEF Init
<1>2. task.kind # "discard"
  <2>1. beginning \in {"run", "retry", "create"}
    BY <1>1, Zenon DEF Beginnings
  <2> QED
    BY <1>1, <2>1, IdleTyped DEF Drive
<1> QED
  BY <1>1, <1>2 DEF GhostInv

\* A serving process never shows a stage of an open iteration that nobody runs,
\* across crashes in any statement, second crashes during startup, resumes,
\* finalisations and discards (interrupt_agent_runs, start_agent_run), and
\* wherever a driver raises: only the stages at which one did may be left so
\* (torn), until they are run again or a startup marks them.
THEOREM NoGhost ==
  ASSUME NeverReopened
  PROVE  Spec => []NoGhostRun
<1>1. Init => TypeInv /\ GhostInv
  BY InitTypes, GhostInit
<1>2. TypeInv /\ GhostInv /\ [Next]_vars => (TypeInv /\ GhostInv)'
  <2>1. ASSUME GhostInv, UNCHANGED vars PROVE GhostInv'
    BY <2>1 DEF GhostInv, Held, vars
  <2> QED
    BY <2>1, TypesKept, GhostWork, GhostRequest, GhostOutage DEF Next
<1>3. TypeInv /\ GhostInv => NoGhostRun
  BY DEF GhostInv, NoGhostRun, NoGhostAmong, Up, Held
<1> QED
  BY <1>1, <1>2, <1>3, PTL DEF Spec

-----------------------------------------------------------------------------
(* Every stage in its turn.                                                *)

\* A cancellation loses the list of the stages it skipped when it is followed by
\* a crash, and a discard or a rewind moves behind what the row was stamped with:
\* the runs show how.  Without them the order holds over any number of crashes.
NoDetours == Ops \cap {"cancel", "discard", "rewind"} = {}

Upto(n) == \A t \in Stage : t < n => Accounted(t)
FinishedUpto(n) == \A t \in Stage : t < n => Finished(t)
BlankFrom(n) == \A t \in Stage : t >= n => runs[t] = "none"

\* A driver stands at a stage before which all is accounted for, unless a
\* critical stage failed and it is about to close the row.
DriverInTurn ==
  /\ ~row.cancel /\ ~task.cancelled
  /\ task.kind \in {"idle", "run", "retry", "resume", "step"}
  /\ task.critical => task.at = Done /\ task.phase = "boundary"
  /\ task.kind # "idle" /\ ~task.critical => Upto(task.at)
  /\ task.kind = "retry" => row.retry

\* What a walk leaves: all before the pointer has ended, and nothing after it has
\* begun; the stage at it may have been cut off anywhere.
PointerSplits == /\ FinishedUpto(row.stage) /\ BlankFrom(row.stage + 1)
                 /\ row.stage \in Stage /\ runs[row.stage] # "INTERRUPTED"

WalkInTurn ==
  task.kind = "step" =>
    /\ ~row.interrupted /\ PointerSplits
    /\ task.at \in Stage => row.stage = task.at
    /\ task.phase = "advance" => Finished(task.at)

\* A record runs on at the stage of its driver, or where a step raised.
RunningInTurn ==
  boot.state # "down" /\ ~row.finished =>
    \A s \in Stage : runs[s] = "RUNNING" =>
      IF task.kind = "idle" THEN boot.state = "up" /\ ~row.interrupted
                            ELSE s <= task.at

\* What a restart goes by: the stamped stage, else the pointer and what runs.
RestartInTurn ==
  /\ row.interrupted =>
       /\ Upto(row.interruptedStage)
       /\ task.kind # "idle" => row.interruptedStage <= task.at
  /\ ~row.interrupted /\ ~row.finished =>
       /\ Upto(row.stage)
       /\ \A s \in Stage : runs[s] = "RUNNING" => Upto(s)
       /\ task.kind # "idle" => row.stage <= task.at
  /\ boot.state = "marking" /\ ~row.interrupted => Upto(boot.stage)
  /\ boot.state = "noting" => row.interrupted

\* Nobody drives it: the pointer splits the records, or the row is closed.
RestInTurn ==
  /\ boot.state = "up" /\ task.kind = "idle" /\ ~row.finished
       /\ ~row.interrupted => PointerSplits
  /\ row.finished => task.kind = "idle" /\ row.stage = Done
  /\ NoStageMissing

Ordered == /\ DriverInTurn /\ WalkInTurn /\ RunningInTurn
           /\ RestartInTurn /\ RestInTurn
OrderInv == ~abandoned => Ordered

LEMMA NextIs ==
  ASSUME NEW kind \in {"run", "retry", "resume", "step"}, NEW n \in Stage \cup {Done}
  PROVE  /\ NextFrom(kind, n) \in Stage \cup {Done} /\ n <= NextFrom(kind, n)
         /\ \A s \in Stage : n <= s /\ s < NextFrom(kind, n)
              => kind = "retry" /\ s \in RETRY_SKIPPED
         /\ kind # "retry" => NextFrom(kind, n) = n
<1>1. n \in Int
  BY StageIs
<1>2. /\ NextFrom(kind, n) \in Stage \cup {Done}
      /\ NextFrom(kind, n) \in Stage => NextFrom(kind, n) >= n
      /\ \A s \in Planned(kind) : s < n \/ s >= NextFrom(kind, n)
  BY <1>1, NextFromIs
<1>3. Planned(kind) = IF kind = "retry" THEN Stage \ RETRY_SKIPPED ELSE Stage
  BY DEF Planned
<1>4. n <= NextFrom(kind, n)
  BY <1>2, StageIs
<1>5. \A s \in Stage : n <= s /\ s < NextFrom(kind, n) => s \notin Planned(kind)
  BY <1>1, <1>2, StageIs
<1>6. ASSUME kind # "retry" PROVE NextFrom(kind, n) = n
  <2>1. n \in Stage => ~(n < NextFrom(kind, n))
    BY <1>3, <1>5, <1>6, StageIs
  <2> QED
    BY <1>1, <1>2, <1>4, <2>1, StageIs
<1> QED
  BY <1>2, <1>3, <1>4, <1>5, <1>6

LEMMA OrderInit == Init => OrderInv
<1> SUFFICES ASSUME Init PROVE Ordered
  BY DEF OrderInv
<1>1. PICK beginning \in Ops \cap Beginnings :
        /\ row.finished = FALSE /\ row.interrupted = FALSE /\ row.cancel = FALSE
        /\ row.stage = SEEDING /\ row.retry = (beginning = "retry")
        /\ row.outcome = "none"
        /\ task = IF beginning = "create" THEN Idle ELSE Drive(beginning, SEEDING)
        /\ runs = [s \in Stage |-> "none"] /\ boot.state = "up"
  BY DEF Init
<1>2. beginning \in {"run", "retry", "create"}
  BY <1>1, Zenon DEF Beginnings
<1>3. \A t \in Stage : ~(t < SEEDING)
  BY StageIs DEF SEEDING
<1>4. RestInTurn /\ RunningInTurn
  <2>1. SEEDING \in Stage
    BY StageIs DEF SEEDING
  <2> QED
    BY <1>1, <1>3, <2>1
       DEF RestInTurn, RunningInTurn, PointerSplits, FinishedUpto, BlankFrom,
           NoStageMissing
<1>5. CASE beginning = "create"
  <2>1. task.kind = "idle" /\ ~task.critical /\ ~task.cancelled
    BY <1>1, <1>5 DEF Idle, Drive
  <2> QED
    BY <1>1, <1>3, <1>4, <2>1
       DEF Ordered, DriverInTurn, WalkInTurn, RestartInTurn, Upto
<1>6. CASE beginning # "create"
  <2>1. task = Drive(beginning, SEEDING) /\ beginning \in {"run", "retry", "resume", "step"}
    BY <1>1, <1>2, <1>6
  <2>2. task.kind = beginning /\ ~task.critical /\ ~task.cancelled
        /\ task.at = NextFrom(beginning, SEEDING)
    BY <2>1 DEF Drive
  <2>3. SEEDING \in Stage \cup {Done}
    BY StageIs DEF SEEDING
  <2>4. SEEDING <= task.at
        /\ \A s \in Stage : SEEDING <= s /\ s < task.at
             => beginning = "retry" /\ s \in RETRY_SKIPPED
    BY <2>1, <2>2, <2>3, NextIs
  <2>5. Upto(task.at)
    <3>1. beginning = "retry" => row.retry
      BY <1>1
    <3>2. \A t \in Stage : SEEDING <= t
      BY StageIs DEF SEEDING
    <3>3. \A t \in Stage : t < task.at => row.retry /\ t \in RETRY_SKIPPED
      BY <2>4, <3>1, <3>2
    <3> QED
      BY <3>3 DEF Upto, Accounted
  <2> QED
    BY <1>1, <1>2, <1>3, <1>4, <1>6, <2>2, <2>4, <2>5
       DEF Ordered, DriverInTurn, WalkInTurn, RestartInTurn, Upto
<1> QED
  BY <1>5, <1>6

\* A driver at work: the row is open, the process serves, nothing else runs.
LEMMA AtWork ==
  ASSUME TypeInv, GhostInv, Ordered, task.kind # "idle"
  PROVE  /\ ~row.finished /\ boot.state = "up" /\ row.stage \in Stage
         /\ task.kind \in {"run", "retry", "resume", "step"}
         /\ task.at \in Stage => ~task.critical /\ Upto(task.at)
         /\ \A s \in Stage : runs[s] = "RUNNING" => s <= task.at
<1>1. task.at \in Stage => task.at # Done
  BY StageIs
<1> QED
  BY <1>1 DEF TypeInv, GhostInv, Ordered, DriverInTurn, RunningInTurn, RestInTurn

LEMMA OrderOpen ==
  ASSUME TypeInv, GhostInv, Ordered, SkipStage \/ OpenRun
  PROVE  Ordered'
<1>1. ~Cancelled
  BY DEF Cancelled, Ordered, DriverInTurn
<1>2. OpenRun
  BY <1>1 DEF SkipStage, MustSkip
<1>3. task.kind # "idle" /\ task.at \in Stage /\ task.phase = "boundary"
      /\ UNCHANGED <<row, boot>>
  BY <1>2 DEF OpenRun, AtStage
<1>4. ~row.finished /\ boot.state = "up" /\ ~task.critical /\ Upto(task.at)
      /\ \A s \in Stage : runs[s] = "RUNNING" => s <= task.at
  BY <1>3, AtWork
<1>5. task'.kind = task.kind /\ task'.at = task.at /\ task'.phase = "opened"
      /\ task'.critical = task.critical /\ ~task'.cancelled
  BY <1>1, <1>2 DEF OpenRun, TypeInv, TaskType
<1>6. \A t \in Stage : t # task.at => runs'[t] = runs[t]
  BY <1>2 DEF OpenRun, TypeInv
<1>7. \A t \in Stage : t < task.at =>
        (Accounted(t)' <=> Accounted(t)) /\ (Finished(t)' <=> Finished(t))
  BY <1>3, <1>6, StageIs DEF Accounted, Finished
<1>8. Upto(task.at)' /\ \A s \in Stage : runs'[s] = "RUNNING" => s <= task.at
  BY <1>3, <1>4, <1>5, <1>6, <1>7, StageIs DEF Upto
<1>9. \A n \in Stage : n <= task.at => Upto(n)'
  BY <1>3, <1>5, <1>8, StageIs DEF Upto
<1>10. DriverInTurn'
  BY <1>3, <1>4, <1>5, <1>8 DEF Ordered, DriverInTurn
<1>11. WalkInTurn'
  <2>1. SUFFICES ASSUME task.kind = "step" PROVE WalkInTurn'
    BY <1>5 DEF WalkInTurn
  <2>2. ~row.interrupted /\ row.stage = task.at
        /\ FinishedUpto(task.at) /\ BlankFrom(task.at + 1)
    BY <1>3, <2>1 DEF Ordered, WalkInTurn, PointerSplits
  <2>3. FinishedUpto(task.at)'
    BY <1>5, <1>7, <2>2 DEF FinishedUpto
  <2>4. BlankFrom(task.at + 1)'
    BY <1>3, <1>5, <1>6, <2>2, StageIs DEF BlankFrom
  <2>5. runs'[task.at] # "INTERRUPTED"
    BY <1>2, <1>3 DEF OpenRun, TypeInv
  <2> QED
    BY <1>3, <1>5, <2>2, <2>3, <2>4, <2>5 DEF WalkInTurn, PointerSplits
<1>12. RestartInTurn'
  <2>1. row.interrupted => row.interruptedStage \in Stage
    BY DEF TypeInv, RowType
  <2>2. ~row.interrupted => row.stage \in Stage
    BY <1>4 DEF TypeInv
  <2> QED
    BY <1>3, <1>4, <1>5, <1>8, <1>9, <2>1, <2>2 DEF Ordered, RestartInTurn
<1>13. RestInTurn' /\ RunningInTurn'
  BY <1>3, <1>4, <1>5, <1>8 DEF RestInTurn, RunningInTurn, NoStageMissing
<1> QED
  BY <1>10, <1>11, <1>12, <1>13 DEF Ordered

LEMMA OrderSet ==
  ASSUME TypeInv, GhostInv, Ordered, SetStage
  PROVE  Ordered'
<1>1. task.kind # "idle" /\ task.at \in Stage /\ task.phase = "opened"
      /\ UNCHANGED <<runs, boot>>
  BY DEF SetStage, AtStage
<1>2. ~row.finished /\ boot.state = "up" /\ ~task.critical /\ Upto(task.at)
      /\ \A s \in Stage : runs[s] = "RUNNING" => s <= task.at
  BY <1>1, AtWork
<1>3. task'.kind = task.kind /\ task'.at = task.at /\ task'.phase = "inside"
      /\ task'.critical = task.critical /\ task'.cancelled = task.cancelled
  BY DEF SetStage, TypeInv, TaskType
<1>4. row'.stage = task.at /\ row'.finished = row.finished /\ row'.cancel = row.cancel
      /\ row'.interrupted = row.interrupted /\ row'.skipped = row.skipped
      /\ row'.interruptedStage = row.interruptedStage /\ row'.retry = row.retry
  BY DEF SetStage, TypeInv, RowType
<1>5. \A t \in Stage : (Accounted(t)' <=> Accounted(t)) /\ (Finished(t)' <=> Finished(t))
  BY <1>1, <1>4 DEF Accounted, Finished
<1>6. Upto(task.at)'
  BY <1>2, <1>3, <1>5 DEF Upto
<1>7. DriverInTurn'
  BY <1>1, <1>2, <1>3, <1>4, <1>6 DEF Ordered, DriverInTurn
<1>8. WalkInTurn'
  BY <1>1, <1>3, <1>4, <1>5
     DEF Ordered, WalkInTurn, PointerSplits, FinishedUpto, BlankFrom
<1>9. RestartInTurn'
  <2>1. row.interrupted => Upto(row.interruptedStage)'
    BY <1>4, <1>5 DEF Upto, Ordered, RestartInTurn
  <2>2. Upto(row.stage)'
    BY <1>3, <1>4, <1>6 DEF Upto
  <2>3. \A s \in Stage : runs'[s] = "RUNNING" => Upto(s)'
    <3>1. \A s, t \in Stage : s <= task.at /\ t < s => t < task.at
      BY <1>1, StageIs
    <3> QED
      BY <1>1, <1>2, <1>3, <1>6, <3>1 DEF Upto
  <2>4. row'.stage <= task'.at
    BY <1>1, <1>3, <1>4, StageIs
  <2> QED
    BY <1>1, <1>2, <1>3, <1>4, <2>1, <2>2, <2>3, <2>4 DEF Ordered, RestartInTurn, Upto
<1>10. RestInTurn' /\ RunningInTurn'
  BY <1>1, <1>2, <1>3, <1>4 DEF RestInTurn, RunningInTurn, NoStageMissing
<1> QED
  BY <1>7, <1>8, <1>9, <1>10 DEF Ordered

\* Where a driver stands when its stage has ended: at the end, at the same
\* stage of a walk, or at the next one that is planned.
LEMMA Onward ==
  ASSUME TypeInv, ~task.critical, EndStage
  PROVE  /\ task'.kind = task.kind /\ task'.cancelled = task.cancelled
         /\ task'.skipped = task.skipped
         /\ task.degraded \subseteq task'.degraded
         /\ task'.degraded \subseteq task.degraded \cup {task.at}
         /\ runs'[task.at] # "COMPLETE" => task.at \in task'.degraded
         /\ \/ /\ task'.critical /\ task'.at = Done /\ task'.phase = "boundary"
               /\ task.at \in CRITICAL_STAGES
            \/ /\ ~task'.critical /\ task.kind = "step" /\ task.at = SCHEDULING
               /\ task'.at = Done /\ task'.phase = "boundary"
            \/ /\ ~task'.critical /\ task.kind = "step"
               /\ task'.at = task.at /\ task'.phase = "advance"
            \/ /\ ~task'.critical /\ task.kind # "step" /\ task'.phase = "boundary"
               /\ task'.at = NextFrom(task.kind, task.at + 1)
<1>1. task.kind # "idle" /\ task.at \in Stage
  BY DEF EndStage, AtStage
<1>2. ~task.critical
  OBVIOUS
<1>3. PICK ok \in BOOLEAN :
        /\ runs' = [runs EXCEPT ![task.at] = IF ok THEN "COMPLETE" ELSE "FAILED"]
        /\ task' = LET t == AfterStage(~ok /\ task.at \in CRITICAL_STAGES)
                   IN  IF ok THEN t
                       ELSE [t EXCEPT !.degraded = @ \cup {task.at}]
  BY DEF EndStage
<1>9. ok \/ runs'[task.at] # "COMPLETE"
  BY <1>1, <1>3 DEF TypeInv
<1>10. ok => runs'[task.at] = "COMPLETE"
  BY <1>1, <1>3 DEF TypeInv
<1> DEFINE failed == ~ok /\ task.at \in CRITICAL_STAGES
           t == AfterStage(failed)
<1>4. /\ t.kind = task.kind /\ t.cancelled = task.cancelled
      /\ t.skipped = task.skipped /\ t.degraded = task.degraded
      /\ \/ /\ t.critical /\ t.at = Done /\ t.phase = "boundary"
            /\ task.at \in CRITICAL_STAGES
         \/ /\ ~t.critical /\ task.kind = "step" /\ task.at = SCHEDULING
            /\ t.at = Done /\ t.phase = "boundary"
         \/ /\ ~t.critical /\ task.kind = "step"
            /\ t.at = task.at /\ t.phase = "advance"
         \/ /\ ~t.critical /\ task.kind # "step" /\ t.phase = "boundary"
            /\ t.at = NextFrom(task.kind, task.at + 1)
  <2>0. task \in TaskType
    BY DEF TypeInv
  <2>1. CASE failed
    <3>1. t = [task EXCEPT !.at = Done, !.phase = "boundary", !.critical = failed]
      BY <2>1 DEF AfterStage
    <3> QED
      BY <2>0, <2>1, <3>1 DEF TaskType
  <2>2. CASE ~failed /\ task.kind = "step" /\ task.at = SCHEDULING
    <3>1. t = [task EXCEPT !.at = Done, !.phase = "boundary", !.critical = failed]
      BY <2>2 DEF AfterStage
    <3> QED
      BY <2>0, <2>2, <3>1 DEF TaskType
  <2>3. CASE ~failed /\ task.kind = "step" /\ task.at # SCHEDULING
    <3>1. t = [task EXCEPT !.phase = "advance"]
      BY <2>3 DEF AfterStage
    <3> QED
      BY <1>2, <2>0, <2>3, <3>1 DEF TaskType
  <2>4. CASE ~failed /\ task.kind # "step"
    <3>1. t = [task EXCEPT !.at = NextFrom(task.kind, task.at + 1), !.phase = "boundary"]
      BY <2>4 DEF AfterStage
    <3> QED
      BY <1>2, <2>0, <2>4, <3>1 DEF TaskType
  <2> QED
    BY <2>1, <2>2, <2>3, <2>4
<1>5. t \in TaskType
  <2>1. task \in TaskType /\ task.phase = "inside" /\ failed \in BOOLEAN
    BY DEF TypeInv, EndStage, AtStage
  <2> QED
    BY <1>1, <2>1, OnwardTyped
<1>6. task' = IF ok THEN t
              ELSE [t EXCEPT !.degraded = t.degraded \cup {task.at}]
  BY <1>3
<1> HIDE DEF t, failed
<1>7. task'.kind = t.kind /\ task'.cancelled = t.cancelled /\ task'.critical = t.critical
      /\ task'.at = t.at /\ task'.phase = t.phase /\ task'.skipped = t.skipped
  BY <1>5, <1>6 DEF TaskType
<1>8. task'.degraded = IF ok THEN t.degraded
                       ELSE t.degraded \cup {task.at}
  BY <1>5, <1>6 DEF TaskType
<1> QED
  BY <1>4, <1>7, <1>8, <1>9, <1>10

LEMMA OrderEnd ==
  ASSUME TypeInv, GhostInv, Ordered, EndStage
  PROVE  Ordered'
<1>1. task.kind # "idle" /\ task.at \in Stage /\ task.phase = "inside"
      /\ UNCHANGED <<row, boot>>
  BY DEF EndStage, AtStage
<1>2. ~row.finished /\ boot.state = "up" /\ Upto(task.at) /\ row.stage \in Stage
      /\ task.kind \in {"run", "retry", "resume", "step"} /\ ~task.critical
      /\ \A s \in Stage : runs[s] = "RUNNING" => s <= task.at
  BY <1>1, AtWork
<1>3. /\ runs'[task.at] \in {"COMPLETE", "FAILED"}
      /\ \A t \in Stage : t # task.at => runs'[t] = runs[t]
  BY <1>1 DEF EndStage, TypeInv
<1>4. \A t \in Stage : IF t = task.at THEN Accounted(t)' /\ Finished(t)'
                       ELSE (Accounted(t)' <=> Accounted(t)) /\ (Finished(t)' <=> Finished(t))
  BY <1>1, <1>3 DEF Accounted, Finished
<1>5. task.at + 1 \in Stage \cup {Done}
  BY <1>1, StageIs
<1>6. task.at <= task'.at /\ task'.at \in Stage \cup {Done} /\ task'.kind = task.kind
      /\ task'.cancelled = task.cancelled
      /\ (task'.critical => task'.at = Done /\ task'.phase = "boundary")
  <2>1. Done \in Stage \cup {Done} /\ task.at <= Done /\ task.at <= task.at
    BY <1>1, StageIs
  <2>2. NextFrom(task.kind, task.at + 1) \in Stage \cup {Done}
        /\ task.at + 1 <= NextFrom(task.kind, task.at + 1)
    BY <1>2, <1>5, NextIs
  <2>3. task.at <= NextFrom(task.kind, task.at + 1)
    BY <1>1, <2>2, StageIs
  <2> QED
    BY <1>1, <1>2, <2>1, <2>2, <2>3, Onward
<1>7. \A t \in Stage : t < task.at => Accounted(t)'
  BY <1>2, <1>4, StageIs DEF Upto
<1>8. ~task'.critical => \A t \in Stage : t < task'.at => Accounted(t)'
  <2>1. CASE task'.at = task.at
    BY <1>7, <2>1
  <2>2. CASE task.at = SCHEDULING /\ task'.at = Done
    <3>1. \A t \in Stage : t # task.at => t < task.at
      BY <2>2, StageIs DEF SCHEDULING
    <3> QED
      BY <1>4, <1>7, <3>1
  <2>3. CASE task'.at = NextFrom(task.kind, task.at + 1)
    <3>1. \A s \in Stage : task.at + 1 <= s /\ s < task'.at
            => task.kind = "retry" /\ s \in RETRY_SKIPPED
      BY <1>2, <1>5, <2>3, NextIs
    <3>2. task.kind = "retry" => row'.retry
      BY <1>1 DEF Ordered, DriverInTurn
    <3>3. \A s \in Stage : task.at + 1 <= s /\ s < task'.at => Accounted(s)'
      BY <3>1, <3>2 DEF Accounted
    <3>4. \A s \in Stage : s < task.at \/ s = task.at \/ task.at + 1 <= s
      BY <1>1, StageIs
    <3> QED
      BY <1>4, <1>7, <3>3, <3>4
  <2> QED
    BY <1>2, <2>1, <2>2, <2>3, Onward
<1>9. DriverInTurn'
  BY <1>1, <1>6, <1>8 DEF Ordered, DriverInTurn, Upto
<1>10. WalkInTurn'
  <2>1. SUFFICES ASSUME task.kind = "step" PROVE WalkInTurn'
    BY <1>6 DEF WalkInTurn
  <2>2. \/ task'.at = task.at /\ task'.phase = "advance"
        \/ task'.at \notin Stage /\ task'.phase = "boundary"
    BY <1>2, <2>1, Onward, StageIs
  <2>3. /\ ~row.interrupted /\ row.stage = task.at
        /\ FinishedUpto(task.at) /\ BlankFrom(task.at + 1)
    BY <1>1, <2>1 DEF Ordered, WalkInTurn, PointerSplits
  <2>4. \A t \in Stage : t < task.at => Finished(t)'
    BY <1>1, <1>4, <2>3, StageIs DEF FinishedUpto
  <2>5. \A t \in Stage : t >= task.at + 1 => runs'[t] = "none"
    BY <1>1, <1>3, <2>3, StageIs DEF BlankFrom
  <2>6. \A t \in Stage : t = task.at => Finished(t)'
    BY <1>4
  <2> QED
    BY <1>1, <1>3, <2>2, <2>3, <2>4, <2>5, <2>6
       DEF WalkInTurn, PointerSplits, FinishedUpto, BlankFrom
<1>11. RestartInTurn'
  <2>1. \A s \in Stage : runs'[s] = "RUNNING" => s <= task.at
    BY <1>2, <1>3
  <2>2. row.interrupted => row.interruptedStage \in Stage /\ row.interruptedStage <= task.at
    BY <1>1 DEF Ordered, RestartInTurn, TypeInv, RowType
  <2>3. ~row.interrupted => row.stage <= task.at
    BY <1>1, <1>2 DEF Ordered, RestartInTurn
  <2>4. \A n \in Stage : n <= task.at => n <= task'.at /\ \A t \in Stage : t < n => Accounted(t)'
    BY <1>1, <1>6, <1>7, StageIs
  <2> QED
    BY <1>1, <1>2, <2>1, <2>2, <2>3, <2>4 DEF RestartInTurn, Upto
<1>12. RestInTurn' /\ RunningInTurn'
  <2>1. \A s \in Stage : runs'[s] = "RUNNING" => s <= task'.at
    <3>1. \A s \in Stage : s <= task.at => s <= task'.at
      BY <1>1, <1>6, StageIs
    <3> QED
      BY <1>2, <1>3, <3>1
  <2> QED
    BY <1>1, <1>2, <1>6, <2>1 DEF RestInTurn, RunningInTurn, NoStageMissing
<1> QED
  BY <1>9, <1>10, <1>11, <1>12 DEF Ordered

LEMMA OrderAdvance ==
  ASSUME TypeInv, GhostInv, Ordered, Advance
  PROVE  Ordered'
<1>1. task.kind = "step" /\ task.at \in Stage \ {SCHEDULING} /\ task.phase = "advance"
      /\ task' = Idle /\ UNCHANGED <<runs, boot>>
  BY DEF Advance, AtStage, TypeInv
<1>2. ~row.finished /\ boot.state = "up" /\ Upto(task.at)
      /\ \A s \in Stage : runs[s] = "RUNNING" => s <= task.at
  BY <1>1, AtWork
<1>3. row'.stage = task.at + 1 /\ row'.finished = row.finished /\ row'.cancel = row.cancel
      /\ row'.interrupted = row.interrupted /\ row'.skipped = row.skipped
      /\ row'.interruptedStage = row.interruptedStage /\ row'.retry = row.retry
  BY DEF Advance, TypeInv, RowType
<1>4. /\ ~row.interrupted /\ FinishedUpto(task.at) /\ BlankFrom(task.at + 1)
      /\ Finished(task.at)
  BY <1>1 DEF Ordered, WalkInTurn, PointerSplits
<1>5. \A t \in Stage : t < task.at + 1 => Finished(t)' /\ Accounted(t)'
  <2>1. \A t \in Stage : t < task.at + 1 => Finished(t)
    BY <1>1, <1>4, StageIs DEF FinishedUpto
  <2> QED
    BY <1>1, <2>1 DEF Finished, Accounted
<1>6. \A t \in Stage : t >= task.at + 1 => runs'[t] = "none"
  BY <1>1, <1>4 DEF BlankFrom
<1>6a. \A s \in Stage : runs[s] # "RUNNING"
  <2>1. \A s \in Stage : s <= task.at => s < task.at \/ s = task.at
    BY <1>1, StageIs
  <2> QED
    BY <1>2, <1>4, <2>1 DEF FinishedUpto, Finished
<1>6b. task.at + 1 \in Stage /\ \A t \in Stage : t >= task.at + 1 + 1 => t >= task.at + 1
  BY <1>1, StageIs DEF SCHEDULING
<1>7. task'.kind = "idle" /\ ~task'.critical /\ ~task'.cancelled
  BY <1>1 DEF Idle, Drive
<1>8. DriverInTurn' /\ WalkInTurn'
  BY <1>3, <1>7 DEF Ordered, DriverInTurn, WalkInTurn
<1>9. RestartInTurn'
  BY <1>1, <1>2, <1>3, <1>4, <1>5, <1>6a, <1>7 DEF RestartInTurn, Upto
<1>10. RestInTurn' /\ RunningInTurn'
  <2>1. PointerSplits'
    BY <1>1, <1>3, <1>5, <1>6, <1>6b, StageIs DEF PointerSplits, FinishedUpto, BlankFrom
  <2> QED
    BY <1>1, <1>2, <1>3, <1>6a, <1>7, <2>1 DEF RestInTurn, RunningInTurn, NoStageMissing
<1> QED
  BY <1>8, <1>9, <1>10 DEF Ordered

LEMMA OrderLeave ==
  ASSUME TypeInv, GhostInv, Ordered, Finish \/ Raise
  PROVE  Ordered'
<1>1. task.kind # "idle" /\ task' = Idle /\ UNCHANGED <<runs, boot>>
  BY DEF Finish, Raise, AtStage
<1>2. ~row.finished /\ boot.state = "up" /\ row.stage \in Stage
  BY <1>1, AtWork
<1>3. task'.kind = "idle" /\ ~task'.critical /\ ~task'.cancelled
  BY <1>1 DEF Idle, Drive
<1>4. CASE row' = row
  <2>1. Raise /\ task.kind = "step"
    <3>1. Finish => row'.finished
      BY DEF Finish, CloseRow, TypeInv, RowType
    <3>2. Raise /\ task.kind # "step" => row'.finished
      BY <1>1, AtWork DEF Raise, CloseRow, TypeInv, RowType
    <3> QED
      BY <1>2, <1>4, <3>1, <3>2
  <2>2. ~row.interrupted /\ PointerSplits
    BY <2>1 DEF Ordered, WalkInTurn
  <2>3. \A t \in Stage : Accounted(t)' <=> Accounted(t)
    BY <1>1, <1>4 DEF Accounted, Finished
  <2>4. PointerSplits'
    BY <1>1, <1>4, <2>2 DEF PointerSplits, FinishedUpto, BlankFrom, Finished
  <2>6. DriverInTurn' /\ WalkInTurn' /\ RunningInTurn'
    BY <1>1, <1>2, <1>3, <1>4, <2>2
       DEF Ordered, DriverInTurn, WalkInTurn, RunningInTurn
  <2>7. RestartInTurn'
    BY <1>1, <1>2, <1>3, <1>4, <2>2, <2>3 DEF Ordered, RestartInTurn, Upto
  <2>8. RestInTurn'
    BY <1>2, <1>3, <1>4, <2>4 DEF RestInTurn, NoStageMissing
  <2> QED
    BY <2>6, <2>7, <2>8 DEF Ordered
<1>5. CASE row' # row
  <2>1. /\ row'.finished /\ row'.stage = Done /\ row'.cancel = row.cancel
        /\ row'.interrupted = row.interrupted /\ row'.skipped = row.skipped
        /\ row'.interruptedStage = row.interruptedStage /\ row'.retry = row.retry
        /\ row'.outcome # "FAILED"
             => Finish /\ row'.outcome = DecideOutcome(notes', remarks')
    <3>1. ASSUME NEW o, NEW e, row' = CloseRow(o, e)
          PROVE  /\ row'.finished /\ row'.stage = Done /\ row'.cancel = row.cancel
                 /\ row'.interrupted = row.interrupted /\ row'.skipped = row.skipped
                 /\ row'.interruptedStage = row.interruptedStage
                 /\ row'.retry = row.retry /\ row'.outcome = o
      BY <3>1, ZenonT(30) DEF CloseRow, TypeInv, RowType
    <3>2. CASE Finish
      <4>1. row' = CloseRow(DecideOutcome(notes', remarks'),
                            IF task.critical THEN "critical" ELSE "none")
        BY <3>2 DEF Finish
      <4> QED BY <3>1, <3>2, <4>1, Zenon
    <3>3. CASE Raise
      <4>1. row' = CloseRow("FAILED", "raised")
        BY <1>5, <3>3 DEF Raise
      <4> QED BY <3>1, <4>1, Zenon
    <3> QED BY <3>2, <3>3
  <2>2. \A t \in Stage : Accounted(t)' <=> Accounted(t)
    BY <1>1, <2>1 DEF Accounted, Finished
  <2>3. row'.outcome # "FAILED" => \A t \in Stage : Accounted(t)
    <3>1. SUFFICES ASSUME row'.outcome # "FAILED" PROVE \A t \in Stage : Accounted(t)
      OBVIOUS
    <3>2. Finish /\ task.at = Done
      BY <2>1, <3>1 DEF Finish
    <3>3. ~task.critical
      BY <2>1, <3>1, <3>2 DEF DecideOutcome
    <3> QED
      BY <1>1, <3>2, <3>3, StageIs DEF Ordered, DriverInTurn, Upto
  <2>4. DriverInTurn' /\ WalkInTurn' /\ RunningInTurn'
    BY <1>3, <2>1 DEF Ordered, DriverInTurn, WalkInTurn, RunningInTurn
  <2>5. RestartInTurn'
    BY <1>1, <1>2, <1>3, <2>1, <2>2 DEF Ordered, RestartInTurn, Upto
  <2>6. RestInTurn'
    BY <1>3, <2>1, <2>2, <2>3 DEF RestInTurn, NoStageMissing
  <2> QED
    BY <2>4, <2>5, <2>6 DEF Ordered
<1> QED
  BY <1>4, <1>5

LEMMA OrderRequest ==
  ASSUME NoDetours, TypeInv, GhostInv, Ordered, Request, ~abandoned'
  PROVE  Ordered'
<1>1. (\E from \in Stage : Resume(from)) \/ BeginStep
  <2>1. ~PointBack /\ ~DropRun /\ ~Retract
    BY DEF PointBack, DropRun, Retract, AtStage, TypeInv, DiscardPhases,
           Ordered, DriverInTurn
  <2> QED
    BY <2>1 DEF Request, NoDetours, Asked, RequestCancel, Discard, GiveUp,
         AbandonAndFinalise, AbandonAndClose
<1>2. ~row.finished /\ row.stage \in Stage
  <2>1. BeginStep => row.stage # Done
    BY StageIs DEF BeginStep
  <2>2. ~row.finished
    BY <1>1, <2>1 DEF Resume, Ordered, RestInTurn
  <2> QED
    BY <2>2 DEF TypeInv
<1>3. task.kind = "idle" /\ boot.state = "up" /\ UNCHANGED <<row, runs, boot>>
  BY <1>1 DEF BeginStep, Resume, Asked, Up
<1>4. /\ ~row.interrupted => PointerSplits
      /\ \A s \in Stage : runs[s] = "RUNNING" => ~row.interrupted
  BY <1>2, <1>3 DEF Ordered, RestInTurn, RunningInTurn
\* Either begins at the stage the restart would go by.
<1>5. PICK kind \in {"resume", "step"}, from \in Stage :
        /\ task' = Drive(kind, from)
        /\ row.interrupted => from = row.interruptedStage /\ kind = "resume"
        /\ ~row.interrupted =>
             \/ from = row.stage
             \/ kind = "resume" /\ from = row.stage + 1 /\ Finished(row.stage)
                /\ \A s \in Stage : runs[s] # "RUNNING"
  <2>1. CASE BeginStep
    BY <1>2, <2>1 DEF BeginStep
  <2>2. ASSUME NEW from \in Stage, Resume(from)
        PROVE  /\ task' = Drive("resume", from)
               /\ row.interrupted => from = row.interruptedStage
               /\ ~row.interrupted =>
                    \/ from = row.stage
                    \/ from = row.stage + 1 /\ Finished(row.stage)
                       /\ \A s \in Stage : runs[s] # "RUNNING"
    <3>1. from = ResumePoint /\ task' = Drive("resume", from)
      BY <2>2 DEF Resume, NoDetours
    <3>2. CASE row.interrupted
      BY <3>1, <3>2 DEF ResumePoint, TypeInv
    <3>3. CASE ~row.interrupted
      <4>1. row.interruptedStage = None
        BY <3>3 DEF TypeInv
      <4>2. \A s \in Stage : IF s < row.stage THEN Finished(s)
                               ELSE s = row.stage \/ runs[s] = "none"
        BY <1>2, <1>4, <3>3, StageIs DEF PointerSplits, FinishedUpto, BlankFrom
      <4>3. CASE InFlight # None
        <5>1. from = InFlight /\ InFlight \in Stage /\ runs[InFlight] = "RUNNING"
          BY <3>1, <4>1, <4>3, InFlightIs DEF ResumePoint
        <5> QED
          BY <3>1, <3>3, <4>2, <5>1 DEF Finished
      <4>4. CASE InFlight = None
        <5>1. \A s \in Stage : runs[s] # "RUNNING"
          BY <4>4, InFlightIs
        <5>2. ResumePoint = IF LastRan = SCHEDULING THEN SCHEDULING ELSE LastRan + 1
          BY <4>1, <4>4 DEF ResumePoint
        <5>3. LastRan # None => LastRan \in Stage /\ LastRan <= row.stage
          <6>1. LastRan # None => LastRan \in Stage /\ runs[LastRan] # "none"
            BY LastRanIs
          <6> QED
            BY <1>2, <4>2, <6>1, StageIs
        <5>4. CASE Ran(row.stage)
          <6>1. LastRan # None /\ row.stage <= LastRan
            BY <1>2, <5>4, LastRanIs
          <6>2. LastRan = row.stage
            BY <1>2, <5>3, <6>1, StageIs
          <6>3. Finished(row.stage)
            BY <1>2, <1>4, <3>3, <5>4
               DEF PointerSplits, Ran, Finished, TypeInv, Statuses
          <6> QED
            BY <3>1, <3>3, <5>1, <5>2, <6>2, <6>3
        <5>5. CASE ~Ran(row.stage)
          <6>1. \A s \in Stage : Ran(s) <=> s < row.stage
            BY <1>2, <4>2, <5>5, StageIs DEF Ran, Finished
          <6>2. LastRan = None => row.stage = 1
            BY <1>2, <6>1, LastRanIs, StageIs
          <6>3. LastRan # None => LastRan = row.stage - 1
            <7>1. SUFFICES ASSUME LastRan # None PROVE LastRan = row.stage - 1
              OBVIOUS
            <7>2. LastRan \in Stage /\ LastRan < row.stage
              BY <6>1, <7>1, LastRanIs DEF Ran
            <7>3. row.stage - 1 \in Stage
              BY <1>2, <7>2, StageIs
            <7>4. row.stage - 1 <= LastRan
              BY <1>2, <6>1, <7>3, LastRanIs, StageIs
            <7> QED
              BY <1>2, <7>2, <7>4, StageIs
          <6> QED
            BY <1>2, <3>1, <3>3, <5>2, <6>2, <6>3, StageIs DEF SCHEDULING
        <5> QED
          BY <5>4, <5>5
      <4> QED
        BY <4>3, <4>4
    <3> QED
      BY <3>2, <3>3
  <2> QED
    BY <1>1, <1>2, <2>1, <2>2 DEF BeginStep
<1>6. task'.kind = kind /\ task'.at = from /\ ~task'.critical /\ ~task'.cancelled
      /\ task'.phase = "boundary"
  <2>1. NextFrom(kind, from) = from
    BY NextIs
  <2> QED
    BY <1>5, <2>1 DEF Drive
<1>7. \A t \in Stage : (Accounted(t)' <=> Accounted(t)) /\ (Finished(t)' <=> Finished(t))
  BY <1>3 DEF Accounted, Finished
<1>8. \A t \in Stage : t < from => Accounted(t)
  <2>1. \A t \in Stage : t < row.stage + 1 => t < row.stage \/ t = row.stage
    BY <1>2, StageIs
  <2> QED
    BY <1>2, <1>5, <2>1 DEF Ordered, RestartInTurn, Upto, Accounted
<1>9. DriverInTurn'
  BY <1>3, <1>6, <1>7, <1>8 DEF Ordered, DriverInTurn, Upto
<1>10. WalkInTurn' /\ RunningInTurn'
  <2>1. kind = "step" => ~row.interrupted /\ from = row.stage
    BY <1>5
  <2>2. ~row.interrupted => PointerSplits'
    BY <1>3, <1>4 DEF PointerSplits, FinishedUpto, BlankFrom, Finished
  <2>3. ~row.interrupted => \A s \in Stage : runs[s] = "RUNNING" => s <= from
    <3>1. ~row.interrupted => \A s \in Stage : runs[s] = "RUNNING" => s = row.stage
      BY <1>2, <1>4, StageIs DEF PointerSplits, FinishedUpto, BlankFrom, Finished
    <3>2. row.stage <= row.stage /\ from <= from
      BY <1>2, StageIs
    <3> QED
      BY <1>5, <3>1, <3>2
  <2> QED
    BY <1>3, <1>4, <1>6, <2>1, <2>2, <2>3 DEF WalkInTurn, RunningInTurn
<1>11. RestartInTurn'
  <2>1. ~row.interrupted => row.stage <= from
    BY <1>2, <1>5, StageIs
  <2>2. row.interrupted => row.interruptedStage <= from
    BY <1>5, StageIs
  <2> QED
    BY <1>2, <1>3, <1>5, <1>6, <1>7, <2>1, <2>2 DEF Ordered, RestartInTurn, Upto
<1>12. RestInTurn'
  BY <1>2, <1>3, <1>6 DEF RestInTurn, NoStageMissing
<1> QED
  BY <1>9, <1>10, <1>11, <1>12 DEF Ordered

LEMMA OrderCrash ==
  ASSUME TypeInv, GhostInv, Ordered, Crash
  PROVE  Ordered'
<1>1. task' = Idle /\ boot'.state = "down" /\ UNCHANGED <<row, runs, abandoned>>
  BY DEF Crash
<1>2. task'.kind = "idle" /\ ~task'.critical /\ ~task'.cancelled
  BY <1>1 DEF Idle, Drive
<1>3. \A t \in Stage : Accounted(t)' <=> Accounted(t)
  BY <1>1 DEF Accounted, Finished
<1>4. DriverInTurn' /\ WalkInTurn' /\ RunningInTurn'
  BY <1>1, <1>2 DEF Ordered, DriverInTurn, WalkInTurn, RunningInTurn
<1>5. RestartInTurn'
  BY <1>1, <1>2, <1>3 DEF Ordered, RestartInTurn, Upto, TypeInv, RowType
<1>6. RestInTurn'
  BY <1>1, <1>2, <1>3 DEF Ordered, RestInTurn, NoStageMissing
<1> QED
  BY <1>4, <1>5, <1>6 DEF Ordered

LEMMA OrderStartup ==
  ASSUME TypeInv, GhostInv, Ordered, Startup
  PROVE  Ordered'
<1>1. task' = task /\ task.kind = "idle" /\ boot.state # "up" /\ abandoned' = abandoned
  BY DEF Startup, Reconcile, MarkInterrupted, NoteInterrupted, GhostInv
<1>2. row'.finished = row.finished /\ row'.stage = row.stage /\ row'.cancel = row.cancel
      /\ row'.skipped = row.skipped /\ row'.retry = row.retry /\ row'.outcome = row.outcome
  BY DEF Startup, Reconcile, MarkInterrupted, NoteInterrupted, TypeInv, RowType
<1>3. /\ \A t \in Stage : Accounted(t)' <=> Accounted(t)
      /\ \A t \in Stage : runs'[t] = "RUNNING" => runs[t] = "RUNNING"
  BY <1>2 DEF Startup, Reconcile, MarkInterrupted, NoteInterrupted, CloseRuns,
              Accounted, Finished, TypeInv
<1>4. DriverInTurn' /\ WalkInTurn' /\ RunningInTurn'
  <2>1. boot'.state # "down" /\ ~row'.finished
          => \A s \in Stage : runs'[s] # "RUNNING"
    <3>1. CASE Reconcile
      BY <1>2, <3>1 DEF Reconcile, CloseRuns, TypeInv
    <3>2. CASE MarkInterrupted \/ NoteInterrupted
      BY <1>1, <1>2, <3>2
         DEF MarkInterrupted, NoteInterrupted, Ordered, RunningInTurn
    <3> QED
      BY <3>1, <3>2 DEF Startup
  <2> QED
    BY <1>1, <1>2, <2>1 DEF Ordered, DriverInTurn, WalkInTurn, RunningInTurn
<1>5. RestartInTurn'
  <2>1. CASE Reconcile
    <3>1. row' = row
      BY <2>1 DEF Reconcile
    <3>2. ~row.finished /\ ~row.interrupted => Upto(InterruptedAt)
      BY InFlightIs DEF InterruptedAt, Ordered, RestartInTurn
    <3>3. /\ boot'.state # "noting"
          /\ boot'.state = "marking" => ~row.finished /\ boot'.stage = InterruptedAt
      BY <2>1 DEF Reconcile, TypeInv, BootType
    <3> QED
      BY <1>1, <1>3, <3>1, <3>2, <3>3 DEF Ordered, RestartInTurn, Upto
  <2>2. CASE MarkInterrupted
    <3>1. boot.state = "marking" /\ boot'.state \in {"up", "noting"} /\ row'.interrupted
          /\ row'.interruptedStage = (IF row.interrupted THEN row.interruptedStage
                                                         ELSE boot.stage)
      <4>1. CASE row.interrupted
        BY <2>2, <4>1 DEF MarkInterrupted
      <4>2. CASE ~row.interrupted
        BY <2>2, <4>2 DEF MarkInterrupted, TypeInv, RowType, BootType
      <4> QED
        BY <4>1, <4>2
    <3> QED
      BY <1>1, <1>3, <3>1 DEF Ordered, RestartInTurn, Upto
  <2>3. CASE NoteInterrupted
    <3>1. row' = row /\ boot'.state = "up"
      BY <2>3 DEF NoteInterrupted
    <3> QED
      BY <1>1, <1>3, <3>1 DEF Ordered, RestartInTurn, Upto
  <2> QED
    BY <2>1, <2>2, <2>3 DEF Startup
<1>6. RestInTurn'
  <2>1. boot'.state = "up" /\ ~row'.finished => row'.interrupted
    <3>1. CASE Reconcile
      BY <3>1 DEF Reconcile, TypeInv, BootType
    <3>2. CASE MarkInterrupted
      BY <3>2 DEF MarkInterrupted, TypeInv, RowType, BootType
    <3>3. CASE NoteInterrupted
      BY <3>3 DEF NoteInterrupted, Ordered, RestartInTurn
    <3> QED
      BY <3>1, <3>2, <3>3 DEF Startup
  <2> QED
    BY <1>1, <1>2, <1>3, <2>1 DEF Ordered, RestInTurn, NoStageMissing
<1> QED
  BY <1>4, <1>5, <1>6 DEF Ordered

LEMMA OrderKept ==
  ASSUME NoDetours, TypeInv, GhostInv, OrderInv, [Next]_vars
  PROVE  OrderInv'
<1> SUFFICES ASSUME ~abandoned' PROVE Ordered'
  BY DEF OrderInv
<1>1. Ordered
  <2>1. abandoned' = abandoned \/ abandoned'
    BY DEF Next, Work, SkipStage, OpenRun, SetStage, EndStage, Advance, Finish, Raise,
           Request, RequestCancel, BeginStep, Discard, PointBack, DropRun, Retract,
           Resume, AbandonAndFinalise, AbandonAndClose, GiveUp, Crash, Startup, Reconcile, MarkInterrupted,
           NoteInterrupted, vars
  <2> QED
    BY <2>1 DEF OrderInv
<1>2. CASE UNCHANGED vars
  BY <1>1, <1>2 DEF vars, Ordered, DriverInTurn, WalkInTurn, RunningInTurn, RestartInTurn,
     RestInTurn, PointerSplits, Upto, FinishedUpto, BlankFrom, Accounted, Finished, NoStageMissing
<1> QED
  BY <1>1, <1>2, OrderOpen, OrderSet, OrderEnd, OrderAdvance, OrderLeave, OrderRequest,
     OrderCrash, OrderStartup DEF Next, Work

\* However often the process dies or a driver raises, in any statement, and an
\* operator resumes or walks on: no stage is entered before those that feed it
\* have ended, and an iteration that closes has run each or says that it did not
\* (resume_point, mark_interrupted, IterationOrchestrator.resume).
THEOREM OrderOfStages ==
  ASSUME NoDetours
  PROVE  Spec => []StagesInTurn
<1>1. NeverReopened
  BY DEF NoDetours, NeverReopened
<1>2. Init => TypeInv /\ GhostInv /\ OrderInv
  BY InitTypes, GhostInit, OrderInit
<1>3. TypeInv /\ GhostInv /\ OrderInv /\ [Next]_vars => (TypeInv /\ GhostInv /\ OrderInv)'
  <2>1. ASSUME GhostInv, UNCHANGED vars PROVE GhostInv'
    BY <2>1 DEF GhostInv, Held, vars
  <2> QED
    BY <1>1, <2>1, TypesKept, GhostWork, GhostRequest, GhostOutage, OrderKept DEF Next
<1>4. TypeInv /\ GhostInv /\ OrderInv => StagesInTurn
  <2>1. SUFFICES ASSUME ~abandoned, Ordered PROVE StagesInTurn
    BY DEF OrderInv, StagesInTurn, NoStageMissing, InputsReady
  <2> QED
    BY <2>1 DEF Ordered, DriverInTurn, RestInTurn, StagesInTurn, InputsReady, Upto
<1> QED
  BY <1>2, <1>3, <1>4, PTL DEF Spec

-----------------------------------------------------------------------------
(* An honest outcome.                                                      *)

\* A driver that raises loses the failures it kept in memory: a step leaves the
\* row open without them, and a discard opens one that was closed.  A rewound
\* driver leaves records ahead of it.
NothingForgotten == /\ Ops \cap {"step", "discard"} # {} => ~MayRaise
                    /\ "discard" \in Ops => "rewind" \notin Ops

\* What the closing statement knows of a stage that is behind: it succeeded and
\* left nothing to execute, or there is a note, written or still in memory.
Clean(s) == \/ runs[s] = "COMPLETE" /\ s \notin queue.outstanding
            \/ s \in notes \cup task.degraded
            \/ row.retry
CleanUpto(n) == \A s \in Stage : s < n => Clean(s)
NoneRanFrom(n) == \A s \in Stage : s >= n => ~Ran(s)

\* The row says when nobody drives it, and what was inherited stays noted.
RowHonest ==
  /\ row.finished => /\ task.kind \in {"idle", "discard"} /\ row.stage = Done
                     /\ boot.state # "marking"
  /\ row.retry => "unattributed" \in remarks
  /\ boot.state # "up" => task.kind = "idle"
  /\ boot.state # "noting"
  /\ (boot.state = "up" \/ row.finished) /\ (row.finished => ~MayRaise)
       => \A s \in Stage : runs[s] = "RUNNING" => Held(s)

\* Nothing behind a driver is forgotten, and nothing ahead of it has run, unless
\* an operator sent it back.
DriverHonest ==
  /\ task.kind \in {"idle", "run", "retry", "resume", "step", "discard"}
  /\ task.kind = "retry" => row.retry
  /\ task.kind \in {"idle", "discard"} => task.degraded = {}
  /\ task.kind \in {"step", "discard"} => task.kind \in Ops
  /\ task.kind = "step" /\ task.at \in Stage => row.stage = task.at
  /\ task.critical => task.at = Done /\ task.phase = "boundary" /\ task.kind # "idle"
  /\ task.critical /\ "discard" \in Ops => NoneRanFrom(SEEDING + 1)
  /\ task.kind # "idle" /\ ~task.critical => CleanUpto(task.at)
  /\ task.kind # "idle" /\ task.at \in Stage /\ (task.kind = "resume" => "rewind" \notin Ops)
       => /\ NoneRanFrom(task.at + 1)
          /\ task.phase = "boundary" => ~Ran(task.at)
  /\ task.phase = "advance" => Clean(task.at)
  /\ task.phase \in {"pointed", "dropped"} => ~row.finished /\ row.stage = task.at
  /\ task.phase = "dropped" => ~Ran(task.at)

\* The same of the pointer of an open row, and of the records of a closed one
\* that a discard may open.
RestHonest ==
  /\ boot.state = "up" /\ task.kind = "idle" /\ ~row.finished
       => CleanUpto(row.stage) /\ NoneRanFrom(row.stage)
  /\ row.finished /\ "discard" \in Ops
       => \A s, t \in Stage : s < t /\ Ran(t) => Clean(s)
  /\ HonestOutcome

Honest == RowHonest /\ DriverHonest /\ RestHonest
HonestInv == ~abandoned /\ ~row.interrupted => Honest

\* A pass leaves no more than it found, and nothing unless it was cut short.
LEMMA CollectedLeft ==
  ASSUME NEW q \in QueueType, NEW s \in Collecting, NEW through \in BOOLEAN,
         NEW r \in Collected(q, s, through)
  PROVE  r.outstanding \subseteq q.outstanding /\ (through => s \notin r.outstanding)
<1>1. CASE s \notin q.outstanding
  BY <1>1 DEF Collected
<1>2. CASE s \in q.outstanding
  <2> DEFINE Rest == {q.outstanding \ {s}} \cup (IF through THEN {} ELSE {q.outstanding})
  <2>1. Collected(q, s, through) =
          {Left(q, o, g) : o \in Rest, g \in {q.gaps, q.gaps \cup {s}}}
    BY <1>2 DEF Collected
  <2>2. \A o \in Rest : o \subseteq q.outstanding /\ (through => s \notin o)
    OBVIOUS
  <2> HIDE DEF Rest
  <2>3. PICK o \in Rest, g \in {q.gaps, q.gaps \cup {s}} : r = Left(q, o, g)
    BY <2>1
  <2>4. r.outstanding = o
    BY <2>3 DEF Left, QueueType
  <2> QED
    BY <2>2, <2>4
<1> QED
  BY <1>1, <1>2

\* A stage leaves nothing to execute behind it, nor, unless it was cut short, at
\* itself (run_seed, run_tip, _collect).
LEMMA EffectsAhead ==
  ASSUME queue \in QueueType, NEW s \in Stage, NEW ok \in BOOLEAN, NEW through \in BOOLEAN,
         NEW r, r \in Effects(s, ok, through), NEW t \in Stage,
         \/ t < s /\ t \notin queue.outstanding
         \/ t = s /\ through
  PROVE  t \notin r.outstanding
<1>0. /\ SEEDING = 1 /\ COLLECTING_SOCIAL = 2 /\ TIPPING = 4 /\ COLLECTING_TIPPED = 5
      /\ Collecting = {2, 5}
  BY DEF SEEDING, COLLECTING_SOCIAL, TIPPING, COLLECTING_TIPPED, Collecting
<1>1. queue.outstanding \in SUBSET Collecting
  BY DEF QueueType
<1>2. t \in Int /\ s \in Int
  BY StageIs
<1>3. ASSUME NEW q \in Tipped
      PROVE  q \in QueueType /\ q.outstanding \subseteq queue.outstanding \cup {COLLECTING_TIPPED}
  <2>1. queue.outstanding \cup {COLLECTING_TIPPED} \in SUBSET Collecting
    BY <1>1 DEF Collecting
  <2>2. q = queue \/ q = [queue EXCEPT !.tipped = TRUE,
                            !.outstanding = queue.outstanding \cup {COLLECTING_TIPPED}]
    BY <1>3 DEF Tipped
  <2> QED
    BY <2>1, <2>2 DEF QueueType
<1>9. \/ /\ s = SEEDING
         /\ r \in UNION {Seeded(ok, through, level, adopted) :
                          level \in {queue.seeded, "some", "all"}, adopted \in BOOLEAN}
      \/ s = COLLECTING_SOCIAL /\ r \in Collected(queue, s, through)
      \/ s = TIPPING /\ r \in Tipped
      \/ s = COLLECTING_TIPPED /\ r \in UNION {Collected(q, s, through) : q \in Tipped}
      \/ s \notin {SEEDING, COLLECTING_SOCIAL, TIPPING, COLLECTING_TIPPED} /\ r = queue
  BY DEF Effects
<1>4. ASSUME s = SEEDING, NEW level \in {queue.seeded, "some", "all"},
             NEW adopted \in BOOLEAN, r \in Seeded(ok, through, level, adopted)
      PROVE  t \notin r.outstanding
  <2>2. \/ r = [queue EXCEPT !.seeded = level,
                            !.outstanding = queue.outstanding \cup {COLLECTING_SOCIAL}]
        \/ r = [queue EXCEPT !.seeded = level, !.outstanding = queue.outstanding]
    BY <1>4 DEF Seeded
  <2>3. r.outstanding \subseteq queue.outstanding \cup {COLLECTING_SOCIAL}
    BY <2>2 DEF QueueType
  <2> QED
    BY <1>0, <1>1, <1>2, <1>4, <2>3
<1>5. CASE s = COLLECTING_SOCIAL /\ r \in Collected(queue, s, through)
  <2>1. s \in Collecting
    BY <1>5 DEF Collecting
  <2>2. r.outstanding \subseteq queue.outstanding /\ (through => s \notin r.outstanding)
    BY <1>5, <2>1, CollectedLeft
  <2> QED
    BY <1>2, <2>2
<1>6. CASE s = TIPPING /\ r \in Tipped
  <2>2. r.outstanding \subseteq queue.outstanding \cup {COLLECTING_TIPPED}
    BY <1>3, <1>6
  <2> QED
    BY <1>0, <1>1, <1>2, <1>6, <2>2
<1>7. CASE s = COLLECTING_TIPPED /\ r \in UNION {Collected(q, s, through) : q \in Tipped}
  <2>1. s \in Collecting
    BY <1>7 DEF Collecting
  <2>2. PICK q \in Tipped : r \in Collected(q, s, through)
    BY <1>7
  <2>3. r.outstanding \subseteq q.outstanding /\ (through => s \notin r.outstanding)
    BY <1>3, <2>1, <2>2, CollectedLeft
  <2> QED
    BY <1>0, <1>2, <1>3, <1>7, <2>3
<1>8. CASE s \notin {SEEDING, COLLECTING_SOCIAL, TIPPING, COLLECTING_TIPPED} /\ r = queue
  BY <1>0, <1>1, <1>2, <1>8
<1> QED
  BY <1>4, <1>5, <1>6, <1>7, <1>8, <1>9

\* What is before the next stage is before this one, this one, or never planned.
LEMMA BeforeNext ==
  ASSUME NEW kind \in {"run", "retry", "resume", "step"}, NEW n \in Stage
  PROVE  /\ NextFrom(kind, n + 1) \in Stage \cup {Done} /\ n < NextFrom(kind, n + 1)
         /\ \A s \in Stage : s < NextFrom(kind, n + 1)
              => s < n \/ s = n \/ (kind = "retry" /\ s \in RETRY_SKIPPED)
<1>1. n + 1 \in Stage \cup {Done}
  BY StageIs
<1>2. /\ NextFrom(kind, n + 1) \in Stage \cup {Done} /\ n + 1 <= NextFrom(kind, n + 1)
      /\ \A s \in Stage : n + 1 <= s /\ s < NextFrom(kind, n + 1)
           => kind = "retry" /\ s \in RETRY_SKIPPED
  BY <1>1, NextIs
<1>3. \A s \in Stage : s < n \/ s = n \/ n + 1 <= s
  BY StageIs
<1>4. n < NextFrom(kind, n + 1)
  BY <1>2, StageIs
<1> QED
  BY <1>2, <1>3, <1>4

LEMMA HonestInit == Init => HonestInv
<1> SUFFICES ASSUME Init PROVE Honest
  BY DEF HonestInv
<1>1. PICK beginning \in Ops \cap Beginnings :
        /\ row.finished = FALSE /\ row.stage = SEEDING /\ row.retry = (beginning = "retry")
        /\ row.outcome = "none"
        /\ remarks = IF beginning = "retry" THEN {"unattributed"} ELSE {}
        /\ task = IF beginning = "create" THEN Idle ELSE Drive(beginning, SEEDING)
        /\ runs = [s \in Stage |-> "none"] /\ boot.state = "up"
  BY DEF Init
<1>2. beginning \in {"run", "retry", "create"}
  BY <1>1, Zenon DEF Beginnings
<1>3. \A t \in Stage : SEEDING <= t /\ ~(t < SEEDING)
  BY StageIs DEF SEEDING
<1>4. \A t \in Stage : ~Ran(t) /\ runs[t] # "RUNNING"
  BY <1>1 DEF Ran
<1>5. RowHonest /\ RestHonest
  BY <1>1, <1>3, <1>4 DEF RowHonest, RestHonest, HonestOutcome, CleanUpto, NoneRanFrom
<1>6. CASE beginning = "create"
  <2>1. task.kind = "idle" /\ ~task.critical /\ task.phase = "boundary" /\ task.degraded = {}
    BY <1>1, <1>6 DEF Idle, Drive
  <2> QED
    BY <1>5, <2>1 DEF Honest, DriverHonest
<1>7. CASE beginning # "create"
  <2>1. task = Drive(beginning, SEEDING) /\ beginning \in {"run", "retry", "resume", "step"}
    BY <1>1, <1>2, <1>7
  <2>2. task.kind = beginning /\ ~task.critical /\ task.phase = "boundary"
        /\ task.at = NextFrom(beginning, SEEDING) /\ task.degraded = {}
    BY <2>1 DEF Drive
  <2>3. SEEDING \in Stage \cup {Done}
    BY StageIs DEF SEEDING
  <2>4. \A s \in Stage : SEEDING <= s /\ s < task.at => beginning = "retry"
    BY <2>1, <2>2, <2>3, NextIs
  <2>5. CleanUpto(task.at)
    BY <1>1, <1>3, <2>4 DEF CleanUpto, Clean
  <2> QED
    BY <1>1, <1>2, <1>4, <1>5, <1>7, <2>2, <2>5 DEF Honest, DriverHonest, NoneRanFrom
<1> QED
  BY <1>6, <1>7

\* A driver at work: the row is open and the process serves.
LEMMA HonestAtWork ==
  ASSUME TypeInv, Honest, task.kind \notin {"idle", "discard"}
  PROVE  /\ ~row.finished /\ row.outcome = "none" /\ boot.state = "up" /\ row.stage \in Stage
         /\ task.kind \in {"run", "retry", "resume", "step"}
         /\ task.at \in Stage => ~task.critical /\ CleanUpto(task.at)
         /\ \A s \in Stage : runs[s] = "RUNNING" => Held(s)
<1>1. task.at \in Stage => task.at # Done
  BY StageIs
<1> QED
  BY <1>1 DEF TypeInv, Honest, RowHonest, DriverHonest

LEMMA HonestSkip ==
  ASSUME TypeInv, Honest, SkipStage
  PROVE  Honest'
<1>1. task.kind \notin {"idle", "discard"} /\ task.at \in Stage /\ task.phase = "boundary"
      /\ UNCHANGED <<runs, notes, remarks, queue, boot>>
  BY DEF SkipStage, AtStage, TypeInv, DiscardPhases
<1>2. /\ ~row.finished /\ row.outcome = "none" /\ boot.state = "up" /\ row.stage \in Stage
      /\ ~task.critical /\ CleanUpto(task.at)
      /\ \A s \in Stage : runs[s] = "RUNNING" => Held(s)
  BY <1>1, HonestAtWork
<1>3. task.kind \in {"run", "retry", "resume"}
  BY DEF SkipStage, MustSkip, Cancelled
<1>4. /\ task'.kind = task.kind /\ task'.at = NextFrom(task.kind, task.at + 1)
      /\ task'.phase = "boundary" /\ ~task'.critical
      /\ task'.degraded = task.degraded \cup {task.at}
  BY <1>1, <1>2 DEF SkipStage, TypeInv, TaskType
<1>5. row'.finished = row.finished /\ row'.outcome = row.outcome /\ row'.stage = row.stage
      /\ row'.retry = row.retry
  BY DEF SkipStage, RecordSkipped, TypeInv, RowType
<1>6. /\ task.at < task'.at /\ task'.at \in Stage \cup {Done}
      /\ \A s \in Stage : s < task'.at => s < task.at \/ s = task.at \/ row.retry
  BY <1>1, <1>3, <1>4, BeforeNext DEF Honest, DriverHonest
<1>7. CleanUpto(task.at)'
  BY <1>1, <1>2, <1>4, <1>5, <1>6 DEF CleanUpto, Clean
<1>8. RowHonest'
  BY <1>1, <1>2, <1>4, <1>5 DEF Honest, RowHonest, Held
<1>9. DriverHonest'
  <2>1. task'.at \in Stage /\ (task.kind = "resume" => "rewind" \notin Ops)
          => NoneRanFrom(task'.at)
    BY <1>1, <1>6, StageIs DEF Honest, DriverHonest, NoneRanFrom
  <2>2. task'.at \in Stage /\ (task.kind = "resume" => "rewind" \notin Ops)
          => NoneRanFrom(task.at + 1)' /\ ~Ran(task.at)'
    BY <1>1, <2>1, StageIs DEF NoneRanFrom, Ran
  <2> QED
    BY <1>3, <1>4, <1>5, <1>7, <2>2 DEF Honest, DriverHonest
<1>10. RestHonest'
  BY <1>1, <1>2, <1>4, <1>5 DEF RestHonest, HonestOutcome
<1> QED
  BY <1>8, <1>9, <1>10 DEF Honest

LEMMA HonestOpen ==
  ASSUME TypeInv, Honest, OpenRun
  PROVE  Honest'
<1>1. task.kind \notin {"idle", "discard"} /\ task.at \in Stage /\ task.phase = "boundary"
      /\ UNCHANGED <<row, notes, remarks, queue, boot>>
  BY DEF OpenRun, AtStage, TypeInv, DiscardPhases
<1>2. /\ ~row.finished /\ row.outcome = "none" /\ boot.state = "up" /\ row.stage \in Stage
      /\ ~task.critical /\ CleanUpto(task.at)
      /\ \A s \in Stage : runs[s] = "RUNNING" => Held(s)
  BY <1>1, HonestAtWork
<1>4. /\ task'.kind = task.kind /\ task'.at = task.at /\ task'.phase = "opened"
      /\ ~task'.critical /\ task'.degraded = task.degraded
  BY <1>2 DEF OpenRun, TypeInv, TaskType
<1>5. runs'[task.at] = "RUNNING" /\ \A t \in Stage : t # task.at => runs'[t] = runs[t]
  BY <1>1 DEF OpenRun, TypeInv
<1>7. CleanUpto(task.at)'
  BY <1>1, <1>2, <1>4, <1>5, StageIs DEF CleanUpto, Clean
<1>8. RowHonest'
  BY <1>1, <1>2, <1>4, <1>5 DEF Honest, RowHonest, Held
<1>9. DriverHonest'
  <2>1. NoneRanFrom(task.at + 1) => NoneRanFrom(task.at + 1)'
    BY <1>1, <1>4, <1>5, StageIs DEF NoneRanFrom, Ran
  <2> QED
    BY <1>1, <1>4, <1>7, <2>1 DEF Honest, DriverHonest
<1>10. RestHonest'
  BY <1>1, <1>2, <1>4 DEF RestHonest, HonestOutcome
<1> QED
  BY <1>8, <1>9, <1>10 DEF Honest

LEMMA HonestSet ==
  ASSUME TypeInv, Honest, SetStage
  PROVE  Honest'
<1>1. task.kind \notin {"idle", "discard"} /\ task.at \in Stage /\ task.phase = "opened"
      /\ UNCHANGED <<runs, notes, remarks, queue, boot>>
  BY DEF SetStage, AtStage, TypeInv, DiscardPhases
<1>2. /\ ~row.finished /\ row.outcome = "none" /\ boot.state = "up"
      /\ ~task.critical /\ CleanUpto(task.at)
      /\ \A s \in Stage : runs[s] = "RUNNING" => Held(s)
  BY <1>1, HonestAtWork
<1>4. /\ task'.kind = task.kind /\ task'.at = task.at /\ task'.phase = "inside"
      /\ ~task'.critical /\ task'.degraded = task.degraded
  BY <1>2 DEF SetStage, TypeInv, TaskType
<1>5. row'.finished = row.finished /\ row'.outcome = row.outcome /\ row'.stage = task.at
      /\ row'.retry = row.retry
  BY DEF SetStage, TypeInv, RowType
<1>7. CleanUpto(task.at)'
  BY <1>1, <1>2, <1>4, <1>5 DEF CleanUpto, Clean
<1>8. RowHonest'
  BY <1>1, <1>2, <1>4, <1>5 DEF Honest, RowHonest, Held
<1>9. DriverHonest'
  <2>1. NoneRanFrom(task.at + 1) => NoneRanFrom(task.at + 1)'
    BY <1>1, <1>4 DEF NoneRanFrom, Ran
  <2> QED
    BY <1>1, <1>4, <1>5, <1>7, <2>1 DEF Honest, DriverHonest
<1>10. RestHonest'
  BY <1>1, <1>2, <1>4, <1>5 DEF RestHonest, HonestOutcome
<1> QED
  BY <1>8, <1>9, <1>10 DEF Honest

LEMMA HonestEnd ==
  ASSUME NothingForgotten, TypeInv, Honest, EndStage
  PROVE  Honest'
<1>1. task.kind \notin {"idle", "discard"} /\ task.at \in Stage /\ task.phase = "inside"
      /\ UNCHANGED <<row, remarks, boot>>
  BY DEF EndStage, AtStage, TypeInv, DiscardPhases
<1>2. /\ ~row.finished /\ row.outcome = "none" /\ boot.state = "up"
      /\ ~task.critical /\ CleanUpto(task.at)
      /\ task.kind \in {"run", "retry", "resume", "step"}
      /\ \A s \in Stage : runs[s] = "RUNNING" => Held(s)
  BY <1>1, HonestAtWork
<1>3. PICK ok \in BOOLEAN, noted \in BOOLEAN, through \in BOOLEAN :
        /\ ok => through
        /\ queue' \in Effects(task.at, ok, through)
        /\ runs' = [runs EXCEPT ![task.at] = IF ok THEN "COMPLETE" ELSE "FAILED"]
        /\ notes' = IF noted THEN notes \cup {task.at} ELSE notes
  BY DEF EndStage
<1>4. /\ runs'[task.at] = IF ok THEN "COMPLETE" ELSE "FAILED"
      /\ \A t \in Stage : t # task.at => runs'[t] = runs[t]
  BY <1>1, <1>3 DEF TypeInv
<1>5. notes \subseteq notes'
  BY <1>3
\* Behind the stage all is as it was; the stage itself succeeded or is noted.
<1>6. \A t \in Stage : t < task.at => Clean(t)'
  <2>1. SUFFICES ASSUME NEW t \in Stage, t < task.at PROVE Clean(t)'
    OBVIOUS
  <2>2. Clean(t) /\ runs'[t] = runs[t]
    BY <1>1, <1>2, <1>4, <2>1, StageIs DEF CleanUpto
  <2>3. t \notin queue.outstanding => t \notin queue'.outstanding
    BY <1>1, <1>3, <2>1, EffectsAhead DEF TypeInv
  <2>4. notes \cup task.degraded \subseteq notes' \cup task'.degraded
    BY <1>2, <1>5, Onward
  <2> QED
    BY <1>1, <2>2, <2>3, <2>4 DEF Clean
<1>7. \A t \in Stage : t = task.at => Clean(t)'
  <2>1. CASE ok
    <3>1. through
      BY <1>3, <2>1
    <3>2. task.at \notin queue'.outstanding
      BY <1>1, <1>3, <3>1, EffectsAhead DEF TypeInv
    <3> QED
      BY <1>4, <2>1, <3>2 DEF Clean
  <2>2. CASE ~ok
    <3>1. task.at \in task'.degraded
      BY <1>2, <1>4, <2>2, Onward
    <3> QED
      BY <3>1 DEF Clean
  <2> QED
    BY <2>1, <2>2
<1>8. /\ task'.kind = task.kind /\ task'.at \in Stage \cup {Done}
      /\ task'.phase = "advance" => task'.at = task.at /\ task.kind = "step"
      /\ task'.phase # "advance" => task'.phase = "boundary" /\ task.at < task'.at
      /\ task.kind = "step" => task'.at \in {task.at, Done}
      /\ task'.critical => task'.at = Done /\ task'.phase = "boundary" /\ task.at = SEEDING
  <2>1. task.at < Done
    BY <1>1, StageIs
  <2>2. task.at < NextFrom(task.kind, task.at + 1)
        /\ NextFrom(task.kind, task.at + 1) \in Stage \cup {Done}
    BY <1>1, <1>2, BeforeNext
  <2> QED
    BY <1>1, <1>2, <2>1, <2>2, Onward DEF CRITICAL_STAGES
<1>9. ~task'.critical => \A t \in Stage : t < task'.at => Clean(t)'
  <2>1. SUFFICES ASSUME ~task'.critical, NEW t \in Stage, t < task'.at PROVE Clean(t)'
    OBVIOUS
  <2>2. t < task.at \/ t = task.at \/ task.at < t
    BY <1>1, StageIs
  <2>3. ASSUME task.at < t PROVE Clean(t)'
    <3>1. task'.at # task.at
      BY <1>1, <2>1, <2>3, StageIs
    <3>2. task.at # SCHEDULING
      BY <2>3, StageIs DEF SCHEDULING
    <3>3. task'.at = NextFrom(task.kind, task.at + 1)
      BY <1>2, <2>1, <3>1, <3>2, Onward
    <3>4. task.kind = "retry"
      BY <1>1, <1>2, <2>1, <2>3, <3>3, BeforeNext, StageIs
    <3> QED
      BY <1>1, <3>4 DEF Honest, DriverHonest, Clean
  <2> QED
    BY <1>6, <1>7, <2>1, <2>2, <2>3
\* Ahead of it nothing has run, unless an operator sent the driver back.
<1>10. ASSUME task.kind = "resume" => "rewind" \notin Ops
       PROVE  \A t \in Stage : task.at < t => ~Ran(t)'
  <2>1. \A t \in Stage : t >= task.at + 1 => ~Ran(t)
    BY <1>1, <1>10 DEF Honest, DriverHonest, NoneRanFrom
  <2>2. \A t \in Stage : task.at < t => t >= task.at + 1 /\ t # task.at
    BY <1>1, StageIs
  <2> QED
    BY <1>4, <2>1, <2>2 DEF Ran
<1>11. RowHonest'
  BY <1>1, <1>2, <1>4, <1>8 DEF Honest, RowHonest, Held
<1>12. DriverHonest'
  <2>1. task'.critical /\ "discard" \in Ops => NoneRanFrom(SEEDING + 1)'
    <3>1. "discard" \in Ops => "rewind" \notin Ops
      BY DEF NothingForgotten
    <3>2. task'.critical => task.at = SEEDING
      BY <1>8
    <3>3. \A t \in Stage : t >= SEEDING + 1 => SEEDING < t
      BY StageIs DEF SEEDING
    <3> QED
      BY <1>10, <3>1, <3>2, <3>3 DEF NoneRanFrom
  <2>2. task.kind = "step" /\ task'.at \in Stage => row'.stage = task'.at
    <3>1. Done \notin Stage
      BY StageIs
    <3> QED
      BY <1>1, <1>8, <3>1 DEF Honest, DriverHonest
  <2>3. ASSUME task'.at \in Stage, task.kind = "resume" => "rewind" \notin Ops
        PROVE  \A t \in Stage : t >= task'.at + 1 \/ (t = task'.at /\ task'.phase = "boundary")
                 => ~Ran(t)'
    <3>1. \A t \in Stage : task.at < t => ~Ran(t)'
      BY <1>10, <2>3
    <3>2. task.at <= task'.at /\ (task'.phase = "boundary" => task.at < task'.at)
      BY <1>1, <1>8, <2>3, StageIs
    <3>3. \A t \in Stage : t >= task'.at + 1 => task.at < t
      BY <1>1, <2>3, <3>2, StageIs
    <3> QED
      BY <2>3, <3>1, <3>2, <3>3
  <2>4. task'.phase = "advance" => Clean(task.at)'
    BY <1>1, <1>7, <1>8
  <2>5. ~task'.critical => CleanUpto(task.at)'
    BY <1>9 DEF CleanUpto
  <2>6. task'.at \in Stage /\ (task.kind = "resume" => "rewind" \notin Ops)
          => NoneRanFrom(task.at + 1)' /\ (task'.phase = "boundary" => ~Ran(task.at)')
    BY <2>3 DEF NoneRanFrom
  <2> QED
    BY <1>1, <1>2, <1>8, <2>1, <2>2, <2>4, <2>5, <2>6 DEF Honest, DriverHonest
<1>13. RestHonest'
  BY <1>1, <1>2, <1>8 DEF RestHonest, HonestOutcome
<1> QED
  BY <1>11, <1>12, <1>13 DEF Honest

LEMMA HonestAdvance ==
  ASSUME TypeInv, Honest, Advance
  PROVE  Honest'
<1>1. task.kind = "step" /\ task.at \in Stage \ {SCHEDULING} /\ task.phase = "advance"
      /\ task' = Idle /\ UNCHANGED <<runs, remarks, queue, boot>>
      /\ notes' = notes \cup task.degraded
  BY DEF Advance, AtStage, TypeInv
<1>2. /\ ~row.finished /\ row.outcome = "none" /\ boot.state = "up" /\ CleanUpto(task.at)
      /\ \A s \in Stage : runs[s] = "RUNNING" => Held(s)
  BY <1>1, HonestAtWork
<1>3. row'.stage = task.at + 1 /\ row'.finished = row.finished
      /\ row'.outcome = row.outcome /\ row'.retry = row.retry
  BY DEF Advance, TypeInv, RowType
<1>4. task'.kind = "idle" /\ ~task'.critical /\ task'.phase = "boundary" /\ task'.degraded = {}
  BY <1>1 DEF Idle, Drive
<1>5. Clean(task.at) /\ NoneRanFrom(task.at + 1)
  BY <1>1 DEF Honest, DriverHonest
<1>6. \A t \in Stage : t < task.at + 1 => Clean(t)'
  <2>1. \A t \in Stage : t < task.at + 1 => t < task.at \/ t = task.at
    BY <1>1, StageIs
  <2>2. \A t \in Stage : t < task.at + 1 => Clean(t)
    BY <1>2, <1>5, <2>1 DEF CleanUpto
  <2> QED
    BY <1>1, <1>3, <1>5, <2>2 DEF Clean
<1>7. RowHonest'
  BY <1>1, <1>2, <1>3, <1>4 DEF Honest, RowHonest, Held
<1>8. DriverHonest'
  BY <1>4 DEF DriverHonest
<1>9. RestHonest'
  <2>2. CleanUpto(row.stage)' /\ NoneRanFrom(row.stage)'
    BY <1>1, <1>3, <1>5, <1>6 DEF CleanUpto, NoneRanFrom, Ran
  <2> QED
    BY <1>2, <1>3, <2>2 DEF RestHonest, HonestOutcome
<1> QED
  BY <1>7, <1>8, <1>9 DEF Honest

LEMMA HonestFinish ==
  ASSUME TypeInv, Honest, Finish
  PROVE  Honest'
<1>1. task.kind \notin {"idle", "discard"} /\ task.at = Done /\ task' = Idle /\ UNCHANGED <<runs, queue, boot>>
      /\ notes' = notes \cup task.degraded
      /\ remarks' = IF queue.gaps # {} THEN remarks \cup {"gaps"} ELSE remarks \ {"gaps"}
  BY StageIs DEF Finish, GapRemark, TypeInv
<1>2. boot.state = "up" /\ \A s \in Stage : runs[s] # "RUNNING"
  <2>1. \A s \in Stage : s # Done
    BY StageIs
  <2> QED
    BY <1>1, <2>1, HonestAtWork DEF Held
<1>3. row'.finished /\ row'.stage = Done /\ row'.retry = row.retry
      /\ row'.outcome = DecideOutcome(notes', remarks')
  BY DEF Finish, CloseRow, TypeInv, RowType
<1>4. task'.kind = "idle" /\ ~task'.critical /\ task'.phase = "boundary" /\ task'.degraded = {}
  BY <1>1 DEF Idle, Drive
<1>5. ~task.critical => \A s \in Stage : Clean(s)
  BY <1>1, StageIs DEF Honest, DriverHonest, CleanUpto
<1>6. \A s \in Stage : Clean(s) => Clean(s)'
  BY <1>1, <1>3 DEF Clean
<1>7. row.retry => "unattributed" \in remarks'
  BY <1>1 DEF Honest, RowHonest
<1>8. RowHonest'
  BY <1>1, <1>2, <1>3, <1>4, <1>7 DEF Honest, RowHonest
<1>9. DriverHonest'
  BY <1>4 DEF DriverHonest
<1>10. HonestOutcome'
  <2>1. SUFFICES ASSUME row'.outcome = "COMPLETE"
                 PROVE  /\ \A s \in Stage : runs[s] = "COMPLETE"
                        /\ queue.gaps = {} /\ queue.outstanding = {}
                        /\ ~row.retry
    BY <1>1, <1>3 DEF HonestOutcome
  <2>2. ~task.critical /\ notes' = {} /\ remarks' = {}
    BY <1>3, <2>1 DEF DecideOutcome, Noted
  <2>3. ~row.retry /\ notes \cup task.degraded = {} /\ queue.gaps = {}
    BY <1>1, <1>7, <2>2
  <2>4. \A s \in Stage : runs[s] = "COMPLETE" /\ s \notin queue.outstanding
    BY <1>5, <2>2, <2>3 DEF Clean
  <2>5. queue.outstanding \subseteq Stage
    BY StageIs DEF TypeInv, QueueType, Collecting, COLLECTING_SOCIAL, COLLECTING_TIPPED
  <2> QED
    BY <2>3, <2>4, <2>5
<1>11. "discard" \in Ops => \A s, t \in Stage : s < t /\ Ran(t)' => Clean(s)'
  <2>1. CASE ~task.critical
    BY <1>5, <1>6, <2>1
  <2>2. CASE task.critical
    <3>1. "discard" \in Ops => NoneRanFrom(SEEDING + 1)
      BY <2>2 DEF Honest, DriverHonest
    <3>2. \A s, t \in Stage : s < t => t >= SEEDING + 1
      BY StageIs DEF SEEDING
    <3> QED
      BY <1>1, <3>1, <3>2 DEF NoneRanFrom, Ran
  <2> QED
    BY <2>1, <2>2
<1>12. RestHonest'
  BY <1>3, <1>10, <1>11 DEF RestHonest
<1> QED
  BY <1>8, <1>9, <1>12 DEF Honest

LEMMA HonestRaise ==
  ASSUME NothingForgotten, TypeInv, Honest, Raise
  PROVE  Honest'
<1>1. task.kind # "idle" /\ task' = Idle /\ UNCHANGED <<runs, boot>> /\ CutShort
  BY DEF Raise
\* start_agent_run has nothing to refuse, so it is one of the workers that raises.
<1>2. MayRaise
  <2>1. ASSUME Refused PROVE FALSE
    <3>1. task.at \in Stage /\ runs[task.at] = "RUNNING" /\ ~Held(task.at)
          /\ task.kind \notin {"idle", "discard"}
      BY <2>1 DEF Refused, AtStage, Held, TypeInv, DiscardPhases
    <3> QED
      BY <3>1, HonestAtWork
  <2> QED
    BY <2>1 DEF Raise
<1>3. Ops \cap {"step", "discard"} = {}
  BY <1>2 DEF NothingForgotten
<1>4. task.kind \notin {"idle", "step", "discard"}
  BY <1>1, <1>3 DEF Honest, DriverHonest
<1>5. boot.state = "up"
  BY <1>4, HonestAtWork
<1>6. task'.kind = "idle" /\ ~task'.critical /\ task'.phase = "boundary" /\ task'.degraded = {}
  BY <1>1 DEF Idle, Drive
<1>7. row'.finished /\ row'.stage = Done /\ row'.retry = row.retry /\ row'.outcome = "FAILED"
  BY <1>4 DEF Raise, CloseRow, TypeInv, RowType
<1>8. row.retry => "unattributed" \in remarks'
  BY <1>1 DEF CutShort, GapRemark, Honest, RowHonest
<1>9. RowHonest'
  BY <1>1, <1>2, <1>5, <1>6, <1>7, <1>8 DEF RowHonest
<1>10. DriverHonest'
  BY <1>6 DEF DriverHonest
<1>11. RestHonest'
  BY <1>3, <1>7 DEF RestHonest, HonestOutcome
<1> QED
  BY <1>9, <1>10, <1>11 DEF Honest

\* A step begins at the pointer of an open row, and so does a resume, or earlier
\* if the operator says so.
LEMMA HonestBegin ==
  ASSUME TypeInv, Honest, ~row.interrupted,
         BeginStep \/ \E from \in Stage : Resume(from)
  PROVE  Honest'
<1>1. task.kind = "idle" /\ boot.state = "up"
      /\ UNCHANGED <<row, runs, notes, remarks, queue, boot>>
  BY DEF BeginStep, Resume, Asked, Up
<1>2. ~row.finished /\ row.stage \in Stage /\ row.outcome = "none"
  <2>1. BeginStep => row.stage # Done
    BY StageIs DEF BeginStep
  <2>2. ~row.finished
    BY <2>1 DEF Resume, Honest, RowHonest
  <2> QED
    BY <2>2 DEF TypeInv
<1>3. CleanUpto(row.stage) /\ NoneRanFrom(row.stage)
  BY <1>1, <1>2 DEF Honest, RestHonest
<1>4. \A s \in Stage : runs[s] # "RUNNING"
  BY <1>1, <1>2 DEF Honest, RowHonest, Held
<1>5. PICK kind \in {"resume", "step"}, from \in Stage :
        /\ task' = Drive(kind, from)
        /\ from <= row.stage
        /\ kind = "step" => from = row.stage /\ "step" \in Ops
        /\ (kind = "resume" => "rewind" \notin Ops) => NoneRanFrom(from)
  <2>1. CASE BeginStep
    BY <1>2, <1>3, <2>1, StageIs DEF BeginStep, Asked
  <2>2. ASSUME NEW from \in Stage, Resume(from)
        PROVE  /\ task' = Drive("resume", from)
               /\ from <= row.stage
               /\ "rewind" \notin Ops => NoneRanFrom(from)
    <3>1. InFlight = None
      BY <1>4, InFlightIs, StageIs
    <3>2. row.interruptedStage = None
      BY DEF TypeInv
    <3>3. ResumePoint = IF LastRan = SCHEDULING THEN SCHEDULING ELSE LastRan + 1
      BY <3>1, <3>2 DEF ResumePoint
    <3>4. LastRan \in Stage \cup {None} /\ LastRan < row.stage
      <4>1. LastRan # None => Ran(LastRan) /\ LastRan \in Stage
        BY LastRanIs DEF Ran
      <4>2. LastRan # None => ~(LastRan >= row.stage)
        BY <1>3, <4>1 DEF NoneRanFrom
      <4> QED
        BY <1>2, <4>1, <4>2, LastRanIs, StageIs
    <3>5. ResumePoint = LastRan + 1 /\ ResumePoint <= row.stage
      BY <1>2, <3>3, <3>4, StageIs DEF SCHEDULING
    <3>6. NoneRanFrom(LastRan + 1)
      <4>1. \A s \in Stage : Ran(s) => LastRan # None /\ s <= LastRan
        BY LastRanIs
      <4>2. \A s \in Stage : s >= LastRan + 1 => ~(s <= LastRan)
        BY <3>4, StageIs
      <4> QED
        BY <4>1, <4>2 DEF NoneRanFrom
    <3>7. from <= ResumePoint /\ ("rewind" \notin Ops => from = ResumePoint)
          /\ task' = Drive("resume", from)
      BY <2>2, <3>5, StageIs DEF Resume
    <3>8. from <= row.stage
      BY <1>2, <3>4, <3>5, <3>7, StageIs
    <3> QED
      BY <3>5, <3>6, <3>7, <3>8
  <2> QED
    BY <2>1, <2>2
<1>6. task'.kind = kind /\ task'.at = from /\ ~task'.critical /\ task'.phase = "boundary"
      /\ task'.degraded = {}
  <2>1. NextFrom(kind, from) = from
    BY NextIs
  <2> QED
    BY <1>5, <2>1 DEF Drive
<1>7. RowHonest'
  BY <1>1, <1>2, <1>4 DEF Honest, RowHonest
<1>8. DriverHonest'
  <2>1. \A t \in Stage : t < from => Clean(t)'
    <3>1. \A t \in Stage : t < from => t < row.stage
      BY <1>2, <1>5, StageIs
    <3>2. task.degraded = {}
      BY <1>1 DEF Honest, DriverHonest
    <3>3. \A t \in Stage : t < from => Clean(t)
      BY <1>3, <3>1 DEF CleanUpto
    <3> QED
      BY <1>1, <3>2, <3>3 DEF Clean
  <2>2. (kind = "resume" => "rewind" \notin Ops) => \A t \in Stage : t >= from => ~Ran(t)'
    BY <1>1, <1>5 DEF NoneRanFrom, Ran
  <2>3. \A t \in Stage : t >= from + 1 => t >= from
    BY StageIs
  <2>4. from >= from
    BY StageIs
  <2> QED
    BY <1>1, <1>5, <1>6, <2>1, <2>2, <2>3, <2>4 DEF DriverHonest, CleanUpto, NoneRanFrom
<1>9. RestHonest'
  BY <1>1, <1>2, <1>6 DEF RestHonest, HonestOutcome
<1> QED
  BY <1>7, <1>8, <1>9 DEF Honest

LEMMA HonestCancel ==
  ASSUME TypeInv, Honest, RequestCancel
  PROVE  Honest'
<1>1. ~row.finished /\ row.outcome = "none" /\ UNCHANGED <<runs, notes, remarks, queue, task, boot>>
  BY DEF RequestCancel, TypeInv
<1>2. row'.finished = row.finished /\ row'.outcome = row.outcome /\ row'.stage = row.stage
      /\ row'.retry = row.retry
  BY DEF RequestCancel, TypeInv, RowType
<1>3. \A s \in Stage : (Clean(s)' <=> Clean(s)) /\ (Ran(s)' <=> Ran(s)) /\ (Held(s)' <=> Held(s))
  BY <1>1, <1>2 DEF Clean, Ran, Held
<1>4. RowHonest'
  <2>1. ~row'.finished /\ (row'.retry => "unattributed" \in remarks')
    BY <1>1, <1>2 DEF Honest, RowHonest
  <2>2. boot.state = "up" \/ row.finished => \A s \in Stage : runs'[s] = "RUNNING" => Held(s)'
    BY <1>1, <1>3 DEF Honest, RowHonest
  <2> QED
    BY <1>1, <2>1, <2>2 DEF Honest, RowHonest
<1>5. DriverHonest'
  <2>1. /\ CleanUpto(task.at) => CleanUpto(task.at)'
        /\ NoneRanFrom(task.at + 1) => NoneRanFrom(task.at + 1)'
        /\ NoneRanFrom(SEEDING + 1) => NoneRanFrom(SEEDING + 1)'
    BY <1>1, <1>3 DEF CleanUpto, NoneRanFrom
  <2>2. task.at \in Stage => (Clean(task.at) <=> Clean(task.at)') /\ (Ran(task.at)' <=> Ran(task.at))
    BY <1>1, <1>2 DEF Clean, Ran
  <2>3. task.phase \in {"advance", "pointed", "dropped"} => task.at \in Stage
    BY DEF TypeInv, DiscardPhases
  <2> QED
    BY <1>1, <1>2, <2>1, <2>2, <2>3 DEF Honest, DriverHonest
<1>6. RestHonest'
  BY <1>1, <1>2, <1>3 DEF Honest, RestHonest, CleanUpto, NoneRanFrom, HonestOutcome
<1> QED
  BY <1>4, <1>5, <1>6 DEF Honest

\* A discard gives the queries of the furthest stage back first; what is behind
\* it stays as the closing statement must see it.
LEMMA HonestDiscard ==
  ASSUME TypeInv, Honest, Discard
  PROVE  Honest'
<1>1. task.kind = "idle" /\ boot.state = "up" /\ "discard" \in Ops /\ LastRan \in Stage
      /\ UNCHANGED <<row, runs, notes, remarks, boot>>
  BY LastRanIs DEF Discard, Asked, Up
<1>2. /\ task'.kind = "discard" /\ task'.at = LastRan /\ task'.phase = "reverted"
      /\ ~task'.critical /\ task'.degraded = {}
  <2>1. /\ task' = [Idle EXCEPT !.kind = "discard", !.at = LastRan, !.phase = "reverted"]
        /\ Idle \in TaskType /\ ~Idle.critical /\ Idle.degraded = {}
    BY IdleTyped DEF Discard, Idle, Drive
  <2> HIDE DEF Idle
  <2> QED
    BY <2>1 DEF TaskType
<1>4. queue' = Reverted(LastRan)
  BY DEF Discard
<1>5. queue'.outstanding \subseteq queue.outstanding \cup {LastRan}
  BY <1>1, <1>4 DEF Reverted, TypeInv, QueueType
<1>6. \A t \in Stage : t < LastRan => Clean(t)
  <2>1. Ran(LastRan)
    BY <1>1, LastRanIs, StageIs DEF Ran
  <2>2. CASE row.finished
    BY <1>1, <2>1, <2>2 DEF Honest, RestHonest
  <2>3. CASE ~row.finished
    <3>1. row.stage \in Stage /\ CleanUpto(row.stage) /\ NoneRanFrom(row.stage)
      BY <1>1, <2>3 DEF Honest, RestHonest, TypeInv
    <3>2. ~(LastRan >= row.stage)
      BY <1>1, <2>1, <3>1 DEF NoneRanFrom
    <3>3. \A t \in Stage : t < LastRan => t < row.stage
      BY <1>1, <3>1, <3>2, StageIs
    <3> QED
      BY <3>1, <3>3 DEF CleanUpto
  <2> QED
    BY <2>2, <2>3
<1>7. \A s, t \in Stage : s < t /\ t <= LastRan => Clean(s)'
  <2>1. \A s, t \in Stage : s < t /\ t <= LastRan => s < LastRan /\ s # LastRan
    BY <1>1, StageIs
  <2>2. task.degraded = {}
    BY <1>1 DEF Honest, DriverHonest
  <2>3. \A s \in Stage : s < LastRan /\ s # LastRan => Clean(s)'
    BY <1>1, <1>2, <1>5, <1>6, <2>2 DEF Clean
  <2> QED
    BY <2>1, <2>3
<1>8. \A t \in Stage : Ran(t)' => t <= LastRan
  BY <1>1, LastRanIs DEF Ran
<1>9. \A t \in Stage : t < LastRan => Clean(t)'
  <2>1. LastRan <= LastRan
    BY <1>1, StageIs
  <2> QED
    BY <1>1, <1>7, <2>1
<1>10. RowHonest'
  BY <1>1, <1>2 DEF Honest, RowHonest, Held
<1>11. DriverHonest'
  <2>2. CleanUpto(task.at)'
    BY <1>2, <1>9 DEF CleanUpto
  <2>3. NoneRanFrom(task.at + 1)'
    <3>1. \A t \in Stage : t >= LastRan + 1 => ~(t <= LastRan)
      BY <1>1, StageIs
    <3> QED
      BY <1>2, <1>8, <3>1 DEF NoneRanFrom
  <2> QED
    BY <1>1, <1>2, <2>2, <2>3 DEF DriverHonest
<1>12. HonestOutcome'
  <2>1. SUFFICES ASSUME row.outcome = "COMPLETE", ~row.interrupted, ~abandoned
                 PROVE  HonestOutcome'
    BY <1>1 DEF HonestOutcome, Discard
  <2>2. /\ \A s \in Stage : runs[s] = "COMPLETE"
        /\ queue.gaps = {} /\ queue.outstanding = {} /\ ~row.retry
    BY <2>1 DEF Honest, RestHonest, HonestOutcome
  <2>3. LastRan = SCHEDULING
    <3>1. SCHEDULING \in Stage /\ Ran(SCHEDULING)
      BY <2>2, StageIs DEF SCHEDULING, Ran
    <3>2. SCHEDULING <= LastRan
      BY <3>1, LastRanIs
    <3> QED
      BY <1>1, <3>2, StageIs DEF SCHEDULING
  <2>4. queue' = queue
    BY <1>4, <2>3 DEF Reverted, SEEDING, TIPPING, SCHEDULING, Collecting,
       COLLECTING_SOCIAL, COLLECTING_TIPPED
  <2> QED
    BY <1>1, <2>2, <2>4 DEF HonestOutcome
<1>13. RestHonest'
  BY <1>1, <1>2, <1>7, <1>8, <1>12 DEF RestHonest
<1> QED
  BY <1>10, <1>11, <1>13 DEF Honest

\* The rest of a discard: the row opens at the stage, the record goes, and the
\* note with it.
LEMMA HonestDropped ==
  ASSUME NothingForgotten, TypeInv, Honest, PointBack \/ DropRun \/ Retract
  PROVE  Honest'
<1>1. /\ task.kind = "discard" /\ task.at \in Stage /\ ~task.critical
      /\ task.degraded = {} /\ "discard" \in Ops /\ boot.state = "up" /\ ~MayRaise
      /\ UNCHANGED <<remarks, queue, boot>>
  BY DEF PointBack, DropRun, Retract, AtStage, TypeInv, DiscardPhases, Honest,
         RowHonest, DriverHonest, NothingForgotten
<1>2. CleanUpto(task.at) /\ NoneRanFrom(task.at + 1)
  BY <1>1 DEF Honest, DriverHonest
<1>3. \A s \in Stage : runs[s] # "RUNNING"
  BY <1>1 DEF Honest, RowHonest, Held, TypeInv, DiscardPhases
<1>4. CASE PointBack
  <2>1. /\ task'.kind = "discard" /\ task'.at = task.at /\ task'.phase = "pointed"
        /\ task'.critical = task.critical /\ task'.degraded = task.degraded
        /\ UNCHANGED <<runs, notes>>
    BY <1>1, <1>4 DEF PointBack, TypeInv, TaskType
  <2>2. /\ ~row'.finished /\ row'.stage = task.at /\ row'.outcome = "none"
        /\ row'.retry = row.retry
    BY <1>1, <1>4 DEF PointBack, TypeInv, RowType
  <2>3. RowHonest'
    BY <1>1, <1>3, <2>1, <2>2 DEF Honest, RowHonest
  <2>4. CleanUpto(task.at)' /\ NoneRanFrom(task.at + 1)'
    BY <1>1, <1>2, <2>1, <2>2 DEF CleanUpto, NoneRanFrom, Clean, Ran
  <2>5. DriverHonest'
    BY <1>1, <2>1, <2>2, <2>4 DEF DriverHonest
  <2> QED
    BY <2>1, <2>2, <2>3, <2>5 DEF Honest, RestHonest, HonestOutcome
<1>5. CASE DropRun
  <2>1. /\ task'.kind = "discard" /\ task'.at = task.at /\ task'.phase = "dropped"
        /\ task'.critical = task.critical /\ task'.degraded = task.degraded
        /\ UNCHANGED <<row, notes>>
    BY <1>1, <1>5 DEF DropRun, TypeInv, TaskType
  <2>2. runs'[task.at] = "none" /\ \A t \in Stage : t # task.at => runs'[t] = runs[t]
    BY <1>1, <1>5 DEF DropRun, TypeInv
  <2>3. ~row.finished /\ row.outcome = "none" /\ row.stage = task.at
    BY <1>5 DEF DropRun, AtStage, Honest, DriverHonest, TypeInv
  <2>4. RowHonest'
    BY <1>1, <1>3, <2>1, <2>2, <2>3 DEF Honest, RowHonest
  <2>5. CleanUpto(task.at)' /\ NoneRanFrom(task.at + 1)'
    BY <1>1, <1>2, <2>1, <2>2, StageIs DEF CleanUpto, NoneRanFrom, Clean, Ran
  <2>6. DriverHonest'
    BY <1>1, <2>1, <2>2, <2>3, <2>5 DEF DriverHonest, Ran
  <2> QED
    BY <2>1, <2>3, <2>4, <2>6 DEF Honest, RestHonest, HonestOutcome
<1>6. CASE Retract
  <2>1. /\ task'.kind = "idle" /\ ~task'.critical /\ task'.phase = "boundary"
        /\ task'.degraded = {} /\ UNCHANGED <<row, runs>>
        /\ notes' = notes \ {task.at}
    BY <1>6 DEF Retract, RetractNotes, Idle, Drive
  <2>2. ~row.finished /\ row.outcome = "none" /\ row.stage = task.at /\ ~Ran(task.at)
    BY <1>6 DEF Retract, AtStage, Honest, DriverHonest, TypeInv
  <2>3. RowHonest'
    BY <1>1, <1>3, <2>1, <2>2 DEF Honest, RowHonest
  <2>4. DriverHonest'
    BY <2>1 DEF DriverHonest
  <2>5. CleanUpto(row.stage)'
    BY <1>1, <1>2, <2>1, <2>2, StageIs DEF CleanUpto, Clean
  <2>6. NoneRanFrom(row.stage)'
    <3>1. \A t \in Stage : t >= task.at => t = task.at \/ t >= task.at + 1
      BY <1>1, StageIs
    <3> QED
      BY <1>2, <2>1, <2>2, <3>1 DEF NoneRanFrom, Ran
  <2> QED
    BY <2>1, <2>2, <2>3, <2>4, <2>5, <2>6 DEF Honest, RestHonest, HonestOutcome
<1> QED
  BY <1>4, <1>5, <1>6

LEMMA HonestOutage ==
  ASSUME TypeInv, Honest, Crash \/ Startup, ~row'.interrupted
  PROVE  Honest'
<1>1. CASE Crash
  <2>1. /\ boot'.state = "down" /\ UNCHANGED <<row, runs, abandoned>> /\ CutShort
        /\ task'.kind = "idle" /\ ~task'.critical /\ task'.phase = "boundary"
        /\ task'.degraded = {}
    BY <1>1 DEF Crash, Idle, Drive
  <2>2. row.retry => "unattributed" \in remarks'
    BY <2>1 DEF CutShort, GapRemark, Honest, RowHonest
  \* Of a closed row only a discard can be cut short, and it leaves all its marks.
  <2>3. row.finished => /\ UNCHANGED <<notes, remarks, queue>> /\ task.degraded = {}
                        /\ \A s \in Stage : ~Held(s)
    <3>1. SUFFICES ASSUME row.finished
                   PROVE  /\ UNCHANGED <<notes, remarks, queue>> /\ task.degraded = {}
                          /\ \A s \in Stage : ~Held(s)
      OBVIOUS
    <3>2. task.kind = "discard"
      BY <1>1, <3>1 DEF Crash, Honest, RowHonest
    <3>3. task.phase \in DiscardPhases /\ task.at \in Stage /\ task.at # Done
          /\ task.degraded = {}
      BY <3>2, StageIs DEF TypeInv, Honest, DriverHonest
    <3> QED
      BY <2>1, <3>3 DEF CutShort, AtStage, DiscardPhases, Held
  <2>4. RowHonest'
    BY <2>1, <2>2, <2>3 DEF Honest, RowHonest
  <2>5. DriverHonest'
    BY <2>1 DEF DriverHonest
  <2>6. RestHonest'
    <3>1. CASE row.finished
      BY <2>1, <2>3, <3>1 DEF Honest, RestHonest, HonestOutcome, Clean, Ran
    <3>2. CASE ~row.finished
      BY <2>1, <3>2 DEF RestHonest, HonestOutcome, TypeInv
    <3> QED
      BY <3>1, <3>2
  <2> QED
    BY <2>4, <2>5, <2>6 DEF Honest
<1>2. CASE Reconcile
  <2>1. UNCHANGED <<row, notes, remarks, queue, task, abandoned>> /\ task.kind = "idle"
        /\ task.degraded = {} /\ ~task.critical /\ task.phase \notin DiscardPhases
        /\ task.phase # "advance" /\ boot.state = "down"
    BY <1>2 DEF Reconcile, Honest, RowHonest, DriverHonest, TypeInv
  <2>2. row.finished => runs' = runs /\ boot'.state = "up"
    BY <1>2 DEF Reconcile, TypeInv, BootType
  <2>3. ~row.finished => boot'.state = "marking"
    BY <1>2 DEF Reconcile
  <2>4. RowHonest'
    BY <2>1, <2>2, <2>3 DEF Honest, RowHonest, Held
  <2>5. DriverHonest'
    BY <2>1 DEF DriverHonest, DiscardPhases
  <2>6. RestHonest'
    <3>1. CASE row.finished
      BY <2>1, <2>2, <3>1 DEF Honest, RestHonest, HonestOutcome, Clean, Ran
    <3>2. CASE ~row.finished
      BY <2>1, <2>3, <3>2 DEF RestHonest, HonestOutcome, TypeInv
    <3> QED
      BY <3>1, <3>2
  <2> QED
    BY <2>4, <2>5, <2>6 DEF Honest
<1>3. CASE MarkInterrupted
  <2>1. row'.interrupted
    BY <1>3 DEF MarkInterrupted, TypeInv, RowType
  <2> QED
    BY <2>1
<1>4. CASE NoteInterrupted
  BY <1>4 DEF NoteInterrupted, Honest, RowHonest
<1> QED
  BY <1>1, <1>2, <1>3, <1>4 DEF Startup

\* An interruption and an abandonment are never taken back.
LEMMA StampsStay ==
  ASSUME TypeInv, [Next]_vars
  PROVE  (row.interrupted => row'.interrupted) /\ (abandoned => abandoned')
<1>1. abandoned => abandoned'
  BY DEF Next, Work, SkipStage, OpenRun, SetStage, EndStage, Advance, Finish, Raise,
         Request, RequestCancel, BeginStep, Discard, PointBack, DropRun, Retract,
         Resume, AbandonAndFinalise, AbandonAndClose, GiveUp, Crash, Startup, Reconcile, MarkInterrupted,
         NoteInterrupted, vars
<1>2. CASE Work
  BY <1>2, ZenonT(30) DEF Work, SkipStage, RecordSkipped, OpenRun, SetStage, EndStage, Advance, Finish, Raise,
              CloseRow, TypeInv, RowType
<1>3. CASE Request
  <2>1. row'.interrupted = row.interrupted
    <3>1. CASE RequestCancel
      BY <3>1 DEF RequestCancel, TypeInv, RowType
    <3>2. CASE PointBack
      BY <3>2 DEF PointBack, TypeInv, RowType
    <3>3. CASE AbandonAndClose
      BY <3>3 DEF AbandonAndClose, CloseRow, TypeInv, RowType
    <3> QED
      BY <1>3, <3>1, <3>2, <3>3 DEF Request, BeginStep, Resume, AbandonAndFinalise,
         Discard, DropRun, Retract
  <2> QED
    BY <1>1, <2>1
<1>4. CASE Crash \/ Startup \/ UNCHANGED vars
  BY <1>4 DEF Crash, Startup, Reconcile, MarkInterrupted, NoteInterrupted, vars, TypeInv, RowType
<1> QED
  BY <1>1, <1>2, <1>3, <1>4 DEF Next

LEMMA HonestKept ==
  ASSUME NothingForgotten, TypeInv, HonestInv, [Next]_vars
  PROVE  HonestInv'
<1> SUFFICES ASSUME ~abandoned', ~row'.interrupted PROVE Honest'
  BY DEF HonestInv
<1>1. Honest /\ ~row.interrupted
  BY StampsStay DEF HonestInv
<1>2. CASE UNCHANGED vars
  BY <1>1, <1>2 DEF vars, Honest, RowHonest, DriverHonest, RestHonest, HonestOutcome,
     CleanUpto, NoneRanFrom, Clean, Ran, Held
<1>3. CASE Request
  <2>1. ~AbandonAndFinalise /\ ~AbandonAndClose
    BY DEF AbandonAndFinalise, AbandonAndClose, GiveUp
  <2> QED
    BY <1>1, <1>3, <2>1, HonestCancel, HonestBegin, HonestDiscard,
       HonestDropped DEF Request
<1> QED
  BY <1>1, <1>2, <1>3, HonestSkip, HonestOpen, HonestSet, HonestEnd, HonestAdvance,
     HonestFinish, HonestRaise, HonestOutage DEF Next, Work

\* An iteration that closes COMPLETE, neither interrupted nor given up, lost
\* nothing: each stage succeeded, each query was answered, none was inherited
\* (_finish), however it was cancelled, walked, resumed or discarded, though the
\* process died in the middle of a discard; of drivers that raise, while none of
\* them is a step or can be discarded.
THEOREM NothingLost ==
  ASSUME NothingForgotten
  PROVE  Spec => []HonestOutcome
<1>1. Init => TypeInv /\ HonestInv
  BY InitTypes, HonestInit
<1>2. TypeInv /\ HonestInv /\ [Next]_vars => (TypeInv /\ HonestInv)'
  BY TypesKept, HonestKept
<1>3. HonestInv => HonestOutcome
  BY DEF HonestInv, Honest, RestHonest, HonestOutcome
<1> QED
  BY <1>1, <1>2, <1>3, PTL DEF Spec

-----------------------------------------------------------------------------
(* Pointer, records and notes.                                             *)

\* A discard takes back neither the stamp of an interruption nor the list of what
\* was skipped, and the exits go by them.  A resume that is still cancelled
\* overwrites that list with its own.
Discards == "discard" \in Ops
NoWayBack == /\ Discards => Ops \cap {"resume", "finalise", "close"} = {}
             /\ "cancel" \in Ops => "resume" \notin Ops

ServedPointed ==
  /\ boot.state # "noting"
  /\ task.critical => task.at = Done

\* The pointer of an open row that nobody drives: what is before it is accounted
\* for, and nothing after it has ended; what it points at only if it is torn.
PointerHolds == /\ row.stage \in Stage /\ Upto(row.stage)
                /\ NoneRanFrom(row.stage + 1)
                /\ Ran(row.stage) => row.stage \in torn
RestPointed ==
  boot.state = "up" /\ task.kind \in {"idle", "discard"} /\ ~row.finished
    => PointerHolds

\* The same of one that is walked; the record of a stage that ended is whole.
WalkPointed ==
  task.kind = "step" /\ ~row.finished =>
    /\ Upto(row.stage) /\ NoneRanFrom(row.stage + 1)
    /\ task.at \in Stage =>
         /\ row.stage = task.at
         /\ task.phase = "boundary" /\ Ran(task.at) => task.at \in torn
    /\ task.phase = "advance" => Accounted(task.at)

\* Where a discard may follow: the first run leaves nothing out either, no stage
\* that ended has a gap before it, and the discarded one is the furthest.
NoGap == \A s, t \in Stage : s < t /\ Ran(t) => Accounted(s)
RunPointed ==
  /\ task.kind \in {"idle", "run", "retry", "step", "discard"}
  /\ task.kind = "retry" => row.retry
  /\ task.kind \in {"run", "retry"} =>
       /\ row.skipped = task.skipped
       /\ ~task.critical => Upto(task.at)
       /\ task.at \in Stage => NoneRanFrom(task.at + 1)
  /\ task.kind = "discard" =>
       /\ Upto(task.at) /\ NoneRanFrom(task.at + 1) /\ task.at \in torn
       /\ task.phase # "reverted" => ~row.finished /\ row.stage = task.at
       /\ task.phase = "dropped" => ~Ran(task.at)
  /\ boot.state = "up" \/ row.finished => NoGap

Pointed == ServedPointed /\ RestPointed /\ WalkPointed /\ (Discards => RunPointed)
PointInv == ~row.interrupted => Pointed

LEMMA PointInit == Init => PointInv
<1> SUFFICES ASSUME Init PROVE Pointed
  BY DEF PointInv
<1>1. PICK beginning \in Ops \cap Beginnings :
        /\ row.finished = FALSE /\ row.stage = SEEDING /\ row.retry = (beginning = "retry")
        /\ row.skipped = (IF beginning = "retry" THEN {SCHEDULING} ELSE {})
        /\ task = IF beginning = "create" THEN Idle ELSE Drive(beginning, SEEDING)
        /\ runs = [s \in Stage |-> "none"] /\ boot.state = "up"
  BY DEF Init
<1>2. beginning \in {"run", "retry", "create"}
  BY <1>1, Zenon DEF Beginnings
<1>3. SEEDING \in Stage /\ \A t \in Stage : SEEDING <= t /\ ~(t < SEEDING)
  BY StageIs DEF SEEDING
<1>4. NoGap /\ \A s \in Stage : ~Ran(s)
  BY <1>1 DEF NoGap, Ran
<1>5. RestPointed
  BY <1>1, <1>3, <1>4 DEF RestPointed, PointerHolds, Upto, NoneRanFrom
<1>6. CASE beginning = "create"
  <2>1. task.kind = "idle" /\ ~task.critical
    BY <1>1, <1>6 DEF Idle, Drive
  <2> QED
    BY <1>1, <1>4, <1>5, <2>1 DEF Pointed, ServedPointed, WalkPointed, RunPointed
<1>7. CASE beginning # "create"
  <2>1. task = Drive(beginning, SEEDING) /\ beginning \in {"run", "retry", "resume", "step"}
    BY <1>1, <1>2, <1>7
  <2>2. task.kind = beginning /\ ~task.critical /\ task.at = NextFrom(beginning, SEEDING)
        /\ task.skipped = row.skipped
    BY <1>1, <2>1 DEF Drive
  <2>3. SEEDING \in Stage \cup {Done}
    BY <1>3
  <2>4. \A s \in Stage : SEEDING <= s /\ s < task.at
          => beginning = "retry" /\ s \in RETRY_SKIPPED
    BY <2>1, <2>2, <2>3, NextIs
  <2>5. Upto(task.at)
    BY <1>1, <1>3, <2>4 DEF Upto, Accounted
  <2>6. NoneRanFrom(task.at + 1)
    BY <1>4 DEF NoneRanFrom
  <2>7. RunPointed
    BY <1>1, <1>2, <1>4, <1>7, <2>2, <2>5, <2>6 DEF RunPointed
  <2> QED
    BY <1>1, <1>2, <1>5, <1>7, <2>2, <2>7 DEF Pointed, ServedPointed, WalkPointed
<1> QED
  BY <1>6, <1>7

\* A driver at work: the process serves, and where a discard may follow, the row
\* is open and its driver the first run or a walk.
LEMMA PointAtWork ==
  ASSUME NoWayBack, TypeInv, GhostInv, Pointed, task.kind \notin {"idle", "discard"}
  PROVE  /\ boot.state = "up" /\ (task.at \in Stage => ~task.critical)
         /\ Discards => /\ ~row.finished /\ task.kind \in {"run", "retry", "step"} /\ NoGap
                        /\ task.at \in Stage =>
                             Upto(task.at) /\ NoneRanFrom(task.at + 1)
<1>1. task.at \in Stage => task.at # Done
  BY StageIs
<1>2. Discards => ~MayClose
  BY DEF NoWayBack, MayClose
<1> QED
  BY <1>1, <1>2 DEF GhostInv, Pointed, ServedPointed, WalkPointed, RunPointed

LEMMA PointSkip ==
  ASSUME NoWayBack, TypeInv, GhostInv, Pointed, SkipStage
  PROVE  Pointed'
<1>1. task.at \in Stage /\ task.phase = "boundary" /\ UNCHANGED <<runs, boot, torn>>
      /\ task.kind \in {"run", "retry", "resume"}
  BY DEF SkipStage, AtStage, MustSkip, Cancelled
<1>2. /\ boot.state = "up" /\ ~task.critical
      /\ Discards => /\ ~row.finished /\ task.kind \in {"run", "retry", "step"} /\ NoGap
                     /\ Upto(task.at) /\ NoneRanFrom(task.at + 1)
  BY <1>1, PointAtWork
<1>4. /\ task'.kind = task.kind /\ task'.at = NextFrom(task.kind, task.at + 1)
      /\ task'.phase = "boundary" /\ ~task'.critical
      /\ task'.skipped = task.skipped \cup {task.at}
  BY <1>1, <1>2 DEF SkipStage, TypeInv, TaskType
<1>5. row'.finished = row.finished /\ row'.stage = row.stage
      /\ row'.retry = row.retry /\ row'.skipped = task.skipped \cup {task.at}
  BY DEF SkipStage, RecordSkipped, TypeInv, RowType
<1>7. ServedPointed' /\ RestPointed' /\ WalkPointed'
  BY <1>1, <1>2, <1>4 DEF ServedPointed, RestPointed, WalkPointed
<1>8. ASSUME Discards PROVE RunPointed'
  <2>1. row.skipped = task.skipped /\ (task.kind = "retry" => row.retry)
    BY <1>1, <1>2, <1>8 DEF Pointed, RunPointed
  <2>2. \A s \in Stage : (Accounted(s) => Accounted(s)') /\ (s = task.at => Accounted(s)')
    BY <1>1, <1>5, <2>1 DEF Accounted, Finished
  <2>3. /\ task'.at \in Stage \cup {Done} /\ task.at < task'.at
        /\ \A s \in Stage : s < task'.at
             => s < task.at \/ s = task.at \/ (task.kind = "retry" /\ s \in RETRY_SKIPPED)
    BY <1>1, <1>4, BeforeNext
  <2>4. \A s \in Stage : s < task'.at => Accounted(s)'
    <3>1. task.kind = "retry" => \A s \in RETRY_SKIPPED : Accounted(s)'
      BY <1>5, <2>1 DEF Accounted
    <3> QED
      BY <1>2, <1>8, <2>2, <2>3, <3>1 DEF Upto
  <2>5. task'.at \in Stage => \A t \in Stage : t >= task'.at + 1 => ~Ran(t)'
    <3>1. task'.at \in Stage => \A t \in Stage : t >= task'.at + 1 => t >= task.at + 1
      BY <1>1, <2>3, StageIs
    <3> QED
      BY <1>1, <1>2, <1>8, <3>1 DEF NoneRanFrom, Ran
  <2>6. NoGap'
    BY <1>1, <1>2, <1>8, <2>2 DEF NoGap, Ran
  <2> QED
    BY <1>1, <1>2, <1>4, <1>5, <1>8, <2>1, <2>4, <2>5, <2>6
       DEF RunPointed, Upto, NoneRanFrom
<1> QED
  BY <1>7, <1>8 DEF Pointed

LEMMA PointOpen ==
  ASSUME NoWayBack, TypeInv, GhostInv, Pointed, OpenRun
  PROVE  Pointed'
<1>1. task.kind \notin {"idle", "discard"} /\ task.at \in Stage /\ task.phase = "boundary"
      /\ UNCHANGED <<row, boot>>
  BY DEF OpenRun, AtStage, TypeInv, DiscardPhases
<1>2. /\ boot.state = "up" /\ ~task.critical
      /\ Discards => /\ ~row.finished /\ task.kind \in {"run", "retry", "step"} /\ NoGap
                     /\ Upto(task.at) /\ NoneRanFrom(task.at + 1)
  BY <1>1, PointAtWork
<1>3. /\ task'.kind = task.kind /\ task'.at = task.at /\ task'.phase = "opened"
      /\ ~task'.critical /\ task'.skipped = task.skipped
  BY <1>2 DEF OpenRun, TypeInv, TaskType
<1>4. runs'[task.at] = "RUNNING" /\ \A t \in Stage : t # task.at => runs'[t] = runs[t]
  BY <1>1 DEF OpenRun, TypeInv
<1>5. \A s \in Stage : /\ s # task.at => (Accounted(s)' <=> Accounted(s))
                       /\ Ran(s)' => Ran(s) /\ s # task.at
  BY <1>1, <1>4 DEF Accounted, Finished, Ran
<1>6. Upto(task.at) => Upto(task.at)'
  BY <1>1, <1>3, <1>5, StageIs DEF Upto
<1>7. NoneRanFrom(task.at + 1) => NoneRanFrom(task.at + 1)'
  BY <1>1, <1>3, <1>5 DEF NoneRanFrom
<1>8. ServedPointed' /\ RestPointed'
  BY <1>1, <1>2, <1>3 DEF ServedPointed, RestPointed
<1>9. WalkPointed'
  <2>1. SUFFICES ASSUME task.kind = "step", ~row.finished PROVE WalkPointed'
    BY <1>1, <1>3 DEF WalkPointed
  <2>2. row.stage = task.at /\ Upto(task.at) /\ NoneRanFrom(task.at + 1)
    BY <1>1, <2>1 DEF Pointed, WalkPointed
  <2>3. Upto(row.stage)' /\ NoneRanFrom(row.stage + 1)'
    BY <1>1, <1>3, <1>6, <1>7, <2>2 DEF Upto, NoneRanFrom
  <2> QED
    BY <1>1, <1>3, <2>2, <2>3 DEF WalkPointed
<1>10. ASSUME Discards PROVE RunPointed'
  <2>1. NoGap'
    <3>1. SUFFICES ASSUME NEW s \in Stage, NEW t \in Stage, s < t, Ran(t)'
                   PROVE  Accounted(s)'
      BY DEF NoGap
    <3>2. Ran(t) /\ t # task.at
      BY <1>5, <3>1
    <3>3. ~(t >= task.at + 1)
      BY <1>2, <1>10, <3>2 DEF NoneRanFrom
    <3>4. s # task.at
      BY <1>1, <3>1, <3>3, StageIs
    <3> QED
      BY <1>2, <1>5, <1>10, <3>1, <3>2, <3>4 DEF NoGap
  <2> QED
    BY <1>1, <1>2, <1>3, <1>6, <1>7, <1>10, <2>1 DEF Pointed, RunPointed
<1> QED
  BY <1>8, <1>9, <1>10 DEF Pointed

LEMMA PointSet ==
  ASSUME NoWayBack, TypeInv, GhostInv, Pointed, SetStage
  PROVE  Pointed'
<1>1. task.kind \notin {"idle", "discard"} /\ task.at \in Stage /\ task.phase = "opened"
      /\ UNCHANGED <<runs, boot, torn>>
  BY DEF SetStage, AtStage, TypeInv, DiscardPhases
<1>2. /\ boot.state = "up" /\ ~task.critical
      /\ Discards => ~row.finished /\ task.kind \in {"run", "retry", "step"} /\ NoGap
  BY <1>1, PointAtWork
<1>3. /\ task'.kind = task.kind /\ task'.at = task.at /\ task'.phase = "inside"
      /\ ~task'.critical /\ task'.skipped = task.skipped
  BY <1>2 DEF SetStage, TypeInv, TaskType
<1>4. row'.finished = row.finished /\ row'.stage = task.at
      /\ row'.retry = row.retry /\ row'.skipped = row.skipped
  BY DEF SetStage, TypeInv, RowType
<1>5. \A s \in Stage : (Accounted(s)' <=> Accounted(s)) /\ (Ran(s)' <=> Ran(s))
  BY <1>1, <1>4 DEF Accounted, Finished, Ran
<1>6. (Upto(task.at) => Upto(task.at)')
      /\ (NoneRanFrom(task.at + 1) => NoneRanFrom(task.at + 1)')
  BY <1>1, <1>3, <1>5 DEF Upto, NoneRanFrom
<1>7. ServedPointed' /\ RestPointed'
  BY <1>1, <1>2, <1>3 DEF ServedPointed, RestPointed
<1>8. WalkPointed'
  <2>1. SUFFICES ASSUME task.kind = "step", ~row.finished PROVE WalkPointed'
    BY <1>3, <1>4 DEF WalkPointed
  <2>2. Upto(task.at) /\ NoneRanFrom(task.at + 1)
    BY <1>1, <2>1 DEF Pointed, WalkPointed
  <2>3. Upto(row.stage)' /\ NoneRanFrom(row.stage + 1)'
    BY <1>3, <1>4, <1>6, <2>2 DEF Upto, NoneRanFrom
  <2> QED
    BY <1>1, <1>3, <1>4, <2>3 DEF WalkPointed
<1>9. Discards => RunPointed'
  BY <1>1, <1>2, <1>3, <1>4, <1>5, <1>6 DEF Pointed, RunPointed, NoGap
<1> QED
  BY <1>7, <1>8, <1>9 DEF Pointed

LEMMA PointEnd ==
  ASSUME NoWayBack, TypeInv, GhostInv, Pointed, EndStage
  PROVE  Pointed'
<1>1. task.kind \notin {"idle", "discard"} /\ task.at \in Stage /\ task.phase = "inside"
      /\ UNCHANGED <<row, boot, torn>>
  BY DEF EndStage, AtStage, TypeInv, DiscardPhases
<1>2. /\ boot.state = "up" /\ ~task.critical
      /\ Discards => /\ ~row.finished /\ task.kind \in {"run", "retry", "step"} /\ NoGap
                     /\ Upto(task.at) /\ NoneRanFrom(task.at + 1)
  BY <1>1, PointAtWork
<1>3. /\ runs'[task.at] \in {"COMPLETE", "FAILED"}
      /\ \A t \in Stage : t # task.at => runs'[t] = runs[t]
  BY <1>1 DEF EndStage, TypeInv
<1>4. \A s \in Stage : /\ Accounted(s) => Accounted(s)'
                       /\ s = task.at => Accounted(s)'
                       /\ s # task.at => (Ran(s)' <=> Ran(s))
  BY <1>1, <1>3 DEF Accounted, Finished, Ran
<1>5. task'.kind = task.kind /\ task'.skipped = task.skipped
  BY <1>2, Onward
<1>6. \/ task'.at = Done /\ (task.at = SCHEDULING \/ task'.critical)
      \/ task.kind = "step" /\ task'.at = task.at /\ task'.phase = "advance" /\ ~task'.critical
      \/ /\ task.kind # "step" /\ task'.at = NextFrom(task.kind, task.at + 1)
         /\ task'.phase = "boundary" /\ ~task'.critical
  BY <1>2, Onward
<1>6a. task'.phase = "advance" => task'.at = task.at
  BY <1>2, Onward
<1>7. ServedPointed' /\ RestPointed'
  BY <1>1, <1>2, <1>5, <1>6 DEF ServedPointed, RestPointed
<1>8. \A t \in Stage : t >= task.at + 1 => t # task.at
  BY <1>1, StageIs
<1>9. WalkPointed'
  <2>1. SUFFICES ASSUME task.kind = "step", ~row.finished PROVE WalkPointed'
    BY <1>1, <1>5 DEF WalkPointed
  <2>2. task'.at \in Stage => task'.at = task.at /\ task'.phase = "advance"
    BY <1>6, <2>1, StageIs
  <2>3. row.stage = task.at /\ Upto(task.at) /\ NoneRanFrom(task.at + 1)
    BY <1>1, <2>1 DEF Pointed, WalkPointed
  <2>4. Upto(row.stage)' /\ NoneRanFrom(row.stage + 1)'
    BY <1>1, <1>4, <1>8, <2>3 DEF Upto, NoneRanFrom
  <2>5. task'.phase = "advance" => Accounted(task.at)'
    BY <1>1, <1>4, <1>6a
  <2> QED
    BY <1>1, <2>2, <2>3, <2>4, <2>5 DEF WalkPointed
<1>10. ASSUME Discards PROVE RunPointed'
  <2>1. RunPointed
    BY <1>10 DEF Pointed
  <2>2. \A t \in Stage : Ran(t)' => ~(t >= task.at + 1)
    BY <1>2, <1>4, <1>8, <1>10 DEF NoneRanFrom
  <2>3. NoGap'
    <3>1. SUFFICES ASSUME NEW s \in Stage, NEW t \in Stage, s < t, Ran(t)'
                   PROVE  Accounted(s)'
      BY DEF NoGap
    <3>2. ~(t >= task.at + 1)
      BY <2>2, <3>1
    <3>3. s < task.at
      BY <1>1, <3>1, <3>2, StageIs
    <3> QED
      BY <1>2, <1>4, <1>10, <3>3 DEF Upto
  <2>4. ASSUME task.kind \in {"run", "retry"}, ~task'.critical
        PROVE  \A s \in Stage : s < task'.at => Accounted(s)'
    <3>1. CASE task'.at = Done /\ task.at = SCHEDULING
      <4>1. \A s \in Stage : s < task.at \/ s = task.at
        BY <3>1, StageIs DEF SCHEDULING
      <4> QED
        BY <1>2, <1>4, <1>10, <4>1 DEF Upto
    <3>2. CASE task'.at = NextFrom(task.kind, task.at + 1)
      <4>1. \A s \in Stage : s < task'.at
              => s < task.at \/ s = task.at \/ (task.kind = "retry" /\ s \in RETRY_SKIPPED)
        BY <1>1, <2>4, <3>2, BeforeNext
      <4>2. task.kind = "retry" => \A s \in RETRY_SKIPPED : Accounted(s)'
        BY <1>1, <2>1 DEF RunPointed, Accounted
      <4> QED
        BY <1>2, <1>4, <1>10, <4>1, <4>2 DEF Upto
    <3> QED
      BY <1>6, <2>4, <3>1, <3>2
  <2>5. ASSUME task.kind \in {"run", "retry"}, task'.at \in Stage
        PROVE  \A t \in Stage : t >= task'.at + 1 => ~Ran(t)'
    <3>1. task'.at = NextFrom(task.kind, task.at + 1)
      BY <1>6, <2>5, StageIs
    <3>2. task.at < task'.at
      BY <1>1, <2>5, <3>1, BeforeNext
    <3>3. \A t \in Stage : t >= task'.at + 1 => t >= task.at + 1
      BY <1>1, <2>5, <3>2, StageIs
    <3> QED
      BY <2>2, <3>3
  <2> QED
    BY <1>1, <1>2, <1>5, <1>10, <2>1, <2>3, <2>4, <2>5 DEF RunPointed, Upto, NoneRanFrom
<1> QED
  BY <1>7, <1>9, <1>10 DEF Pointed

LEMMA PointAdvance ==
  ASSUME NoWayBack, TypeInv, GhostInv, Pointed, Advance
  PROVE  Pointed'
<1>1. task.kind = "step" /\ task.at \in Stage \ {SCHEDULING} /\ task.phase = "advance"
      /\ task' = Idle /\ UNCHANGED <<runs, boot, torn>>
  BY DEF Advance, AtStage, TypeInv
<1>2. boot.state = "up" /\ (Discards => ~row.finished /\ NoGap)
  BY <1>1, PointAtWork
<1>3. row'.stage = task.at + 1 /\ row'.finished = row.finished
      /\ row'.retry = row.retry /\ row'.skipped = row.skipped
  BY DEF Advance, TypeInv, RowType
<1>4. task'.kind = "idle" /\ ~task'.critical
  BY <1>1 DEF Idle, Drive
<1>5. \A s \in Stage : (Accounted(s)' <=> Accounted(s)) /\ (Ran(s)' <=> Ran(s))
  BY <1>1, <1>3 DEF Accounted, Finished, Ran
<1>6. ServedPointed'
  BY <1>1, <1>2, <1>4 DEF Pointed, ServedPointed
<1>7. RestPointed'
  <2>1. SUFFICES ASSUME ~row.finished PROVE PointerHolds'
    BY <1>3 DEF RestPointed
  <2>2. Upto(task.at) /\ Accounted(task.at) /\ NoneRanFrom(task.at + 1)
    BY <1>1, <2>1 DEF Pointed, WalkPointed
  <2>3. /\ task.at + 1 \in Stage
        /\ \A t \in Stage : t < task.at + 1 => t < task.at \/ t = task.at
        /\ \A t \in Stage : t >= task.at + 1 + 1 => t >= task.at + 1
        /\ task.at + 1 >= task.at + 1
    BY <1>1, StageIs DEF SCHEDULING
  <2> QED
    BY <1>1, <1>3, <1>5, <2>2, <2>3 DEF PointerHolds, Upto, NoneRanFrom
<1>8. WalkPointed'
  BY <1>4 DEF WalkPointed
<1>9. Discards => RunPointed'
  BY <1>1, <1>2, <1>4, <1>5 DEF RunPointed, NoGap
<1> QED
  BY <1>6, <1>7, <1>8, <1>9 DEF Pointed

\* Whoever stops leaves the row closed, or open with the pointer where it was and
\* what it points at torn.
LEMMA PointLeave ==
  ASSUME NoWayBack, TypeInv, GhostInv, Pointed, Finish \/ Raise
  PROVE  Pointed'
<1>1. task.kind # "idle" /\ task' = Idle /\ UNCHANGED <<runs, boot>> /\ boot.state = "up"
  BY DEF Finish, Raise, GhostInv
<1>2. task'.kind = "idle" /\ ~task'.critical
  BY <1>1 DEF Idle, Drive
<1>3. row'.skipped = row.skipped /\ row'.retry = row.retry
      /\ (row'.finished \/ (row' = row /\ Raise /\ task.kind \in {"step", "discard"}))
  <2>1. CASE Finish
    <3>1. PICK o \in Outcomes \cup {"FAILED"}, e \in {"none", "critical"} :
            row' = CloseRow(o, e)
      BY <2>1 DEF Finish, DecideOutcome, Outcomes
    <3> QED
      BY <3>1 DEF CloseRow, TypeInv, RowType
  <2>2. CASE Raise
    <3>1. (row' = row /\ task.kind \in {"step", "discard"}) \/ row' = CloseRow("FAILED", "raised")
      BY <2>2 DEF Raise
    <3> QED
      BY <2>2, <3>1 DEF CloseRow, TypeInv, RowType
  <2> QED
    BY <2>1, <2>2
<1>4. \A s \in Stage : (Accounted(s)' <=> Accounted(s)) /\ (Ran(s)' <=> Ran(s))
  BY <1>1, <1>3 DEF Accounted, Finished, Ran
<1>5. ServedPointed' /\ WalkPointed'
  BY <1>1, <1>2 DEF Pointed, ServedPointed, WalkPointed
<1>6. RestPointed'
  <2>1. SUFFICES ASSUME ~row'.finished PROVE PointerHolds'
    BY DEF RestPointed
  <2>2. row' = row /\ Raise /\ ~row.finished /\ torn' = torn \cup TornAt
    BY <1>3, <2>1 DEF Raise
  <2>3. CASE task.kind = "discard"
    BY <1>1, <1>4, <2>2, <2>3 DEF Pointed, RestPointed, PointerHolds, Upto, NoneRanFrom
  <2>4. CASE task.kind = "step"
    <3>1. /\ row.stage \in Stage /\ Upto(row.stage) /\ NoneRanFrom(row.stage + 1)
          /\ task.at \in Stage =>
               /\ row.stage = task.at
               /\ task.phase = "boundary" /\ Ran(task.at) => task.at \in torn
      BY <2>2, <2>4 DEF Pointed, WalkPointed, TypeInv
    <3>2. Ran(row.stage) => row.stage \in torn'
      <4>1. CASE task.at \in Stage /\ task.phase = "boundary"
        BY <2>2, <3>1, <4>1
      <4>2. CASE ~(task.at \in Stage /\ task.phase = "boundary")
        <5>1. task.at \notin Stage => task.at = Done
          BY DEF TypeInv, TaskType
        <5> QED
          BY <2>2, <3>1, <4>2, <5>1, StageIs DEF TornAt, AtStage
      <4> QED
        BY <4>1, <4>2
    <3> QED
      BY <1>4, <2>2, <3>1, <3>2 DEF PointerHolds, Upto, NoneRanFrom
  <2> QED
    BY <1>3, <2>1, <2>3, <2>4
<1>7. Discards => RunPointed'
  BY <1>1, <1>2, <1>4 DEF Pointed, RunPointed, NoGap
<1> QED
  BY <1>5, <1>6, <1>7 DEF Pointed

LEMMA PointBegin ==
  ASSUME NoWayBack, TypeInv, GhostInv, Pointed, BeginStep
  PROVE  Pointed'
<1>1. task.kind = "idle" /\ boot.state = "up" /\ row.stage \in Stage
      /\ task' = Drive("step", row.stage) /\ UNCHANGED <<row, runs, boot, torn>>
  BY DEF BeginStep, Asked, Up
<1>2. task'.kind = "step" /\ task'.at = row.stage /\ ~task'.critical
      /\ task'.phase = "boundary"
  <2>1. NextFrom("step", row.stage) = row.stage
    BY <1>1, NextIs
  <2> QED
    BY <1>1, <2>1 DEF Drive
<1>3. \A s \in Stage : (Accounted(s)' <=> Accounted(s)) /\ (Ran(s)' <=> Ran(s))
  BY <1>1 DEF Accounted, Finished, Ran
<1>4. ServedPointed' /\ RestPointed'
  BY <1>1, <1>2 DEF Pointed, ServedPointed, RestPointed
<1>5. WalkPointed'
  <2>1. SUFFICES ASSUME ~row.finished PROVE WalkPointed'
    BY <1>1 DEF WalkPointed
  <2>2. PointerHolds
    BY <1>1, <2>1 DEF Pointed, RestPointed
  <2> QED
    BY <1>1, <1>2, <1>3, <2>2 DEF PointerHolds, WalkPointed, Upto, NoneRanFrom
<1>6. Discards => RunPointed'
  BY <1>1, <1>2, <1>3 DEF Pointed, RunPointed, NoGap
<1> QED
  BY <1>4, <1>5, <1>6 DEF Pointed

\* Cancelling moves no pointer.  The exits begin with the row open and, nothing
\* having interrupted it, no critical stage to excuse.
LEMMA PointAsk ==
  ASSUME NoWayBack, TypeInv, GhostInv, Pointed, ~row.interrupted,
         \/ RequestCancel
         \/ \E from \in Stage : Resume(from)
         \/ AbandonAndFinalise
         \/ AbandonAndClose
  PROVE  Pointed'
<1>1. CASE RequestCancel
  <2>1. row'.finished = row.finished /\ row'.stage = row.stage /\ row'.skipped = row.skipped
        /\ row'.retry = row.retry /\ UNCHANGED <<runs, task, boot, torn>>
    BY <1>1 DEF RequestCancel, TypeInv, RowType
  <2>2. \A s \in Stage : (Accounted(s)' <=> Accounted(s)) /\ (Ran(s)' <=> Ran(s))
    BY <2>1 DEF Accounted, Finished, Ran
  <2>3. /\ Upto(task.at) => Upto(task.at)'
        /\ NoneRanFrom(task.at + 1) => NoneRanFrom(task.at + 1)'
        /\ Upto(row.stage) => Upto(row.stage)'
        /\ NoneRanFrom(row.stage + 1) => NoneRanFrom(row.stage + 1)'
    BY <2>1, <2>2 DEF Upto, NoneRanFrom
  <2>4. task.phase = "advance" \/ task.kind = "discard" => task.at \in Stage
    BY DEF TypeInv
  <2>5. ServedPointed' /\ RestPointed'
    BY <2>1, <2>2, <2>3 DEF Pointed, ServedPointed, RestPointed, PointerHolds
  <2>6. WalkPointed'
    BY <2>1, <2>2, <2>3, <2>4 DEF Pointed, WalkPointed
  <2>7. Discards => RunPointed'
    <3>1. NoGap => NoGap'
      BY <2>2 DEF NoGap
    <3>2. task.at \in Stage => (Ran(task.at)' <=> Ran(task.at))
      BY <2>1 DEF Ran
    <3> QED
      BY <2>1, <2>3, <2>4, <3>1, <3>2 DEF Pointed, RunPointed
  <2> QED
    BY <2>5, <2>6, <2>7 DEF Pointed
<1>2. ASSUME NEW from \in Stage, Resume(from) PROVE Pointed'
  <2>1. task' = Drive("resume", from) /\ task.kind = "idle" /\ boot.state = "up" /\ ~Discards
        /\ UNCHANGED <<row, runs, boot>>
    BY <1>2 DEF Resume, Asked, Up, NoWayBack
  <2>2. task'.kind = "resume" /\ ~task'.critical
    BY <2>1 DEF Drive
  <2> QED
    BY <2>1, <2>2 DEF Pointed, ServedPointed, RestPointed, WalkPointed
<1>3. CASE AbandonAndFinalise
  <2>1. /\ boot.state = "up" /\ ~Discards /\ UNCHANGED <<row, runs, boot, torn>>
        /\ task' = IF task.kind # "idle" THEN task
                   ELSE [Drive("finalise", SEEDING) EXCEPT
                           !.critical = row.interruptedStage \in CRITICAL_STAGES]
    BY <1>3 DEF AbandonAndFinalise, Asked, Up, NoWayBack
  <2>2. CASE task.kind # "idle"
    <3>1. task' = task
      BY <2>1, <2>2
    <3> QED
      BY <2>1, <2>2, <3>1 DEF Pointed, ServedPointed, RestPointed, WalkPointed,
         PointerHolds, Upto, NoneRanFrom, Ran, Accounted, Finished
  <2>3. CASE task.kind = "idle"
    <3>1. row.interruptedStage \notin CRITICAL_STAGES
      BY StageIs DEF TypeInv, CRITICAL_STAGES, SEEDING
    <3> DEFINE excused == row.interruptedStage \in CRITICAL_STAGES
    <3>2. task' = [Drive("finalise", SEEDING) EXCEPT !.critical = excused] /\ ~excused
      BY <2>1, <2>3, <3>1
    <3> HIDE DEF excused
    <3>3. task'.kind = "finalise" /\ ~task'.critical
      BY <3>2, FinaliseTyped DEF TaskType
    <3> QED
      BY <2>1, <3>3 DEF Pointed, ServedPointed, RestPointed, WalkPointed
  <2> QED
    BY <2>2, <2>3
<1>4. CASE AbandonAndClose
  <2>1. ~Discards /\ row'.finished /\ UNCHANGED <<runs, task, boot>>
    BY <1>4 DEF AbandonAndClose, CloseRow, Asked, NoWayBack, TypeInv, RowType
  <2> QED
    BY <2>1 DEF Pointed, ServedPointed, RestPointed, WalkPointed
<1> QED
  BY <1>1, <1>2, <1>3, <1>4

\* The discarded stage is the furthest that ended and, no record having a gap
\* before it, all before it is accounted for.
LEMMA PointDiscard ==
  ASSUME NoWayBack, TypeInv, GhostInv, Pointed, Discard
  PROVE  Pointed'
<1>1. Discards /\ task.kind = "idle" /\ boot.state = "up" /\ LastRan \in Stage
      /\ Ran(LastRan) /\ UNCHANGED <<row, runs, boot>> /\ torn' = torn \cup {LastRan}
  BY LastRanIs DEF Discard, Asked, Up, Discards, Ran
<1>2. /\ task'.kind = "discard" /\ task'.at = LastRan /\ task'.phase = "reverted"
      /\ ~task'.critical
  <2>1. /\ task' = [Idle EXCEPT !.kind = "discard", !.at = LastRan, !.phase = "reverted"]
        /\ Idle \in TaskType /\ ~Idle.critical
    BY IdleTyped DEF Discard, Idle, Drive
  <2> HIDE DEF Idle
  <2> QED
    BY <2>1 DEF TaskType
<1>3. NoGap
  BY <1>1 DEF Pointed, RunPointed
<1>4. \A s \in Stage : s < LastRan => Accounted(s)
  BY <1>1, <1>3 DEF NoGap
<1>5. \A t \in Stage : t >= LastRan + 1 => ~Ran(t)
  <2>1. \A t \in Stage : Ran(t) => t <= LastRan
    BY LastRanIs
  <2>2. \A t \in Stage : t >= LastRan + 1 => ~(t <= LastRan)
    BY <1>1, StageIs
  <2> QED
    BY <2>1, <2>2
<1>6. \A s \in Stage : (Accounted(s)' <=> Accounted(s)) /\ (Ran(s)' <=> Ran(s))
  BY <1>1 DEF Accounted, Finished, Ran
<1>7. ServedPointed' /\ WalkPointed'
  BY <1>1, <1>2 DEF Pointed, ServedPointed, WalkPointed
<1>8. RestPointed'
  BY <1>1, <1>6 DEF Pointed, RestPointed, PointerHolds, Upto, NoneRanFrom
<1>9. RunPointed'
  <2>1. NoGap'
    BY <1>3, <1>6 DEF NoGap
  <2>2. Upto(task.at)' /\ NoneRanFrom(task.at + 1)'
    BY <1>2, <1>4, <1>5, <1>6 DEF Upto, NoneRanFrom
  <2> QED
    BY <1>1, <1>2, <2>1, <2>2 DEF RunPointed
<1> QED
  BY <1>7, <1>8, <1>9 DEF Pointed

LEMMA PointDropped ==
  ASSUME NoWayBack, TypeInv, GhostInv, Pointed, PointBack \/ DropRun \/ Retract
  PROVE  Pointed'
<1>1. /\ task.kind = "discard" /\ task.at \in Stage /\ Discards /\ boot.state = "up"
      /\ boot' = boot
  BY DEF PointBack, DropRun, Retract, AtStage, TypeInv, DiscardPhases, GhostInv, Discards
<1>2. /\ Upto(task.at) /\ NoneRanFrom(task.at + 1) /\ task.at \in torn /\ NoGap
      /\ task.phase # "reverted" => ~row.finished /\ row.stage = task.at
      /\ task.phase = "dropped" => ~Ran(task.at)
      /\ task.critical => task.at = Done
  BY <1>1 DEF Pointed, RunPointed, ServedPointed
<1>3. ~task.critical
  BY <1>1, <1>2, StageIs
<1>4. CASE PointBack
  <2>1. /\ task'.kind = "discard" /\ task'.at = task.at /\ task'.phase = "pointed"
        /\ task'.critical = task.critical /\ UNCHANGED <<runs, torn>>
    BY <1>1, <1>4 DEF PointBack, TypeInv, TaskType
  <2>2. /\ ~row'.finished /\ row'.stage = task.at /\ row'.retry = row.retry
        /\ row'.skipped = row.skipped
    BY <1>1, <1>4 DEF PointBack, TypeInv, RowType
  <2>3. \A s \in Stage : (Accounted(s)' <=> Accounted(s)) /\ (Ran(s)' <=> Ran(s))
    BY <2>1, <2>2 DEF Accounted, Finished, Ran
  <2>4. NoGap' /\ Upto(task.at)' /\ NoneRanFrom(task.at + 1)'
    BY <1>2, <2>1, <2>3 DEF NoGap, Upto, NoneRanFrom
  <2>5. PointerHolds'
    BY <1>1, <1>2, <2>1, <2>2, <2>3 DEF PointerHolds, Upto, NoneRanFrom
  <2> QED
    BY <1>1, <1>2, <1>3, <2>1, <2>2, <2>4, <2>5
       DEF Pointed, ServedPointed, RestPointed, WalkPointed, RunPointed
<1>5. CASE DropRun
  <2>1. /\ task'.kind = "discard" /\ task'.at = task.at /\ task'.phase = "dropped"
        /\ task'.critical = task.critical /\ UNCHANGED <<row, torn>>
        /\ task.phase = "pointed"
    BY <1>1, <1>5 DEF DropRun, AtStage, TypeInv, TaskType
  <2>2. runs'[task.at] = "none" /\ \A t \in Stage : t # task.at => runs'[t] = runs[t]
    BY <1>1, <1>5 DEF DropRun, TypeInv
  <2>3. \A s \in Stage : /\ s # task.at => (Accounted(s)' <=> Accounted(s))
                         /\ Ran(s)' => Ran(s) /\ s # task.at
    BY <1>1, <2>1, <2>2 DEF Accounted, Finished, Ran
  <2>4. Upto(task.at)' /\ NoneRanFrom(task.at + 1)' /\ ~Ran(task.at)'
    <3>1. \A s \in Stage : s < task.at => s # task.at
      BY <1>1, StageIs
    <3> QED
      BY <1>1, <1>2, <2>1, <2>3, <3>1 DEF Upto, NoneRanFrom
  <2>5. NoGap'
    <3>1. \A s, t \in Stage : s < t /\ Ran(t)' => s # task.at
      <4>1. \A t \in Stage : Ran(t)' => ~(t >= task.at + 1)
        BY <1>2, <2>3 DEF NoneRanFrom
      <4> QED
        BY <1>1, <4>1, StageIs
    <3> QED
      BY <1>2, <2>3, <3>1 DEF NoGap
  <2>6. PointerHolds'
    BY <1>1, <1>2, <2>1, <2>4 DEF PointerHolds, Upto, NoneRanFrom
  <2> QED
    BY <1>1, <1>2, <1>3, <2>1, <2>4, <2>5, <2>6
       DEF Pointed, ServedPointed, RestPointed, WalkPointed, RunPointed
<1>6. CASE Retract
  <2>1. /\ task'.kind = "idle" /\ ~task'.critical /\ UNCHANGED <<row, runs>>
        /\ torn' = torn \ {task.at} /\ task.phase = "dropped"
    BY <1>6 DEF Retract, AtStage, Idle, Drive
  <2>2. \A s \in Stage : (Accounted(s)' <=> Accounted(s)) /\ (Ran(s)' <=> Ran(s))
    BY <2>1 DEF Accounted, Finished, Ran
  <2>3. PointerHolds'
    BY <1>1, <1>2, <2>1, <2>2 DEF PointerHolds, Upto, NoneRanFrom
  <2>4. NoGap'
    BY <1>2, <2>2 DEF NoGap
  <2> QED
    BY <1>1, <2>1, <2>3, <2>4
       DEF Pointed, ServedPointed, RestPointed, WalkPointed, RunPointed
<1> QED
  BY <1>4, <1>5, <1>6

LEMMA PointOutage ==
  ASSUME NoWayBack, TypeInv, GhostInv, Pointed, Crash \/ Startup, ~row'.interrupted
  PROVE  Pointed'
<1>1. CASE Crash
  <2>1. boot'.state = "down" /\ task' = Idle /\ UNCHANGED <<row, runs>>
    BY <1>1 DEF Crash
  <2>2. task'.kind = "idle" /\ ~task'.critical
    BY <2>1 DEF Idle, Drive
  <2>3. Discards => RunPointed'
    BY <2>1, <2>2 DEF Pointed, RunPointed, NoGap, Accounted, Finished, Ran
  <2> QED
    BY <2>1, <2>2, <2>3 DEF Pointed, ServedPointed, RestPointed, WalkPointed
<1>2. CASE Reconcile
  <2>1. boot.state = "down" /\ task.kind = "idle" /\ UNCHANGED <<row, task>>
    BY <1>2 DEF Reconcile, GhostInv
  <2>2. CASE row.finished
    <3>1. boot'.state = "up" /\ runs' = runs
      BY <1>2, <2>2 DEF Reconcile, TypeInv, BootType
    <3>2. Discards => RunPointed'
      BY <2>1, <2>2, <3>1 DEF Pointed, RunPointed, NoGap, Accounted, Finished, Ran
    <3> QED
      BY <2>1, <2>2, <3>1, <3>2 DEF Pointed, ServedPointed, RestPointed, WalkPointed
  <2>3. CASE ~row.finished
    <3>1. boot'.state = "marking"
      BY <1>2, <2>3 DEF Reconcile
    <3>2. Discards => RunPointed'
      BY <2>1, <2>3, <3>1 DEF RunPointed
    <3> QED
      BY <2>1, <3>1, <3>2 DEF Pointed, ServedPointed, RestPointed, WalkPointed
  <2> QED
    BY <2>2, <2>3
<1>3. CASE MarkInterrupted
  <2>1. row'.interrupted
    BY <1>3 DEF MarkInterrupted, TypeInv, RowType
  <2> QED
    BY <2>1
<1>4. CASE NoteInterrupted
  BY <1>4 DEF NoteInterrupted, Pointed, ServedPointed
<1> QED
  BY <1>1, <1>2, <1>3, <1>4 DEF Startup

LEMMA PointKept ==
  ASSUME NoWayBack, TypeInv, GhostInv, PointInv, [Next]_vars
  PROVE  PointInv'
<1> SUFFICES ASSUME ~row'.interrupted PROVE Pointed'
  BY DEF PointInv
<1>1. Pointed /\ ~row.interrupted
  BY StampsStay DEF PointInv
<1>2. CASE UNCHANGED vars
  BY <1>1, <1>2 DEF vars, Pointed, ServedPointed, RestPointed, WalkPointed, RunPointed,
     PointerHolds, NoGap, Upto, NoneRanFrom, Ran, Accounted, Finished
<1> QED
  BY <1>1, <1>2, PointSkip, PointOpen, PointSet, PointEnd, PointAdvance, PointLeave,
     PointBegin, PointAsk, PointDiscard, PointDropped, PointOutage DEF Next, Work, Request

\* A note is of a stage with a record, or of one the row says was skipped, unless
\* that stage's discard was cut off.
Recorded(s) == runs[s] # "none"
NoteInv ==
  /\ task.skipped \subseteq row.skipped
  /\ task.kind \in {"run", "retry"} => row.skipped = task.skipped
  /\ task.kind = "resume" => "resume" \in Ops
  /\ row.cancel \/ task.cancelled => "cancel" \in Ops
  /\ task.kind \in {"idle", "discard"} => task.degraded = {}
  /\ \A s \in task.degraded : Recorded(s) \/ s \in task.skipped
  /\ task.phase \in {"opened", "inside"} => task.at \in Stage /\ Recorded(task.at)
  /\ task.kind = "discard" => task.at \in torn
  /\ NoteHasStage(Stage \ torn)

LEMMA NoteInit == Init => NoteInv
<1> SUFFICES ASSUME Init PROVE NoteInv
  OBVIOUS
<1>1. PICK beginning \in Ops \cap Beginnings :
        /\ row.skipped = (IF beginning = "retry" THEN {SCHEDULING} ELSE {})
        /\ task = IF beginning = "create" THEN Idle ELSE Drive(beginning, SEEDING)
        /\ notes = {} /\ ~row.cancel
  BY DEF Init
<1>2. beginning \in {"run", "retry", "create"}
  BY <1>1, Zenon DEF Beginnings
<1>3. task.degraded = {} /\ task.skipped \subseteq row.skipped /\ ~task.cancelled
      /\ task.phase = "boundary" /\ task.kind \notin {"resume", "discard"}
      /\ (task.kind \in {"run", "retry"} => row.skipped = task.skipped)
  BY <1>1, <1>2 DEF Idle, Drive
<1> QED
  BY <1>1, <1>3 DEF NoteInv, NoteHasStage

LEMMA NoteSkip ==
  ASSUME NoWayBack, TypeInv, NoteInv, SkipStage
  PROVE  NoteInv'
<1>1. task.kind \in {"run", "retry", "resume"} /\ UNCHANGED <<runs, notes, torn>>
      /\ "cancel" \in Ops
  BY DEF SkipStage, MustSkip, Cancelled, NoteInv
<1>2. /\ task'.kind = task.kind /\ task'.phase = task.phase
      /\ task'.skipped = task.skipped \cup {task.at}
      /\ task'.degraded = task.degraded \cup {task.at}
      /\ task.phase = "boundary"
  BY DEF SkipStage, AtStage, TypeInv, TaskType
<1>3. row'.skipped = task.skipped \cup {task.at}
  BY DEF SkipStage, RecordSkipped, TypeInv, RowType
<1>4. row.skipped = task.skipped
  BY <1>1 DEF NoteInv, NoWayBack
<1> QED
  BY <1>1, <1>2, <1>3, <1>4 DEF NoteInv, NoteHasStage, Recorded

\* A stage that ends has a record, and only it is noted.
LEMMA NoteEnd ==
  ASSUME TypeInv, NoteInv, EndStage
  PROVE  NoteInv'
<1>1. task.kind \notin {"idle", "discard"} /\ task.at \in Stage /\ task.phase = "inside"
      /\ row' = row /\ torn' = torn
  BY DEF EndStage, AtStage, TypeInv, DiscardPhases
<1>2. PICK ok \in BOOLEAN, noted \in BOOLEAN :
        /\ runs' = [runs EXCEPT ![task.at] = IF ok THEN "COMPLETE" ELSE "FAILED"]
        /\ notes' = IF noted THEN notes \cup {task.at} ELSE notes
        /\ task' = LET t == AfterStage(~ok /\ task.at \in CRITICAL_STAGES)
                   IN  IF ok THEN t ELSE [t EXCEPT !.degraded = @ \cup {task.at}]
  BY DEF EndStage
<1>3. \A s \in Stage : (Recorded(s) => Recorded(s)') /\ (s = task.at => Recorded(s)')
  BY <1>1, <1>2 DEF Recorded, TypeInv
<1>4. task'.kind = task.kind /\ task'.skipped = task.skipped
      /\ task'.cancelled = task.cancelled /\ task'.phase \in {"boundary", "advance"}
      /\ task'.degraded \subseteq task.degraded \cup {task.at}
  <2> DEFINE failed == ~ok /\ task.at \in CRITICAL_STAGES
             t == AfterStage(failed)
  <2>1. t \in TaskType /\ t.phase \in {"boundary", "advance"}
    <3>1. task \in TaskType /\ failed \in BOOLEAN
      BY DEF TypeInv
    <3> QED
      BY <1>1, <3>1, OnwardTyped
  <2>2. t.kind = task.kind /\ t.skipped = task.skipped /\ t.degraded = task.degraded
        /\ t.cancelled = task.cancelled
    BY DEF AfterStage, TypeInv, TaskType
  <2>3. task' = IF ok THEN t
                ELSE [t EXCEPT !.degraded = t.degraded \cup {task.at}]
    BY <1>2
  <2> HIDE DEF t, failed
  <2> QED
    BY <2>1, <2>2, <2>3 DEF TaskType
<1>5. \A s \in notes' : s \in notes \/ s = task.at
  BY <1>2
<1>6. notes \subseteq Stage /\ task.degraded \subseteq Stage
  BY DEF TypeInv, TaskType
<1> QED
  BY <1>1, <1>3, <1>4, <1>5, <1>6 DEF NoteInv, NoteHasStage, Recorded

\* A driver that is cut short notes only what it, or the row, has a record of.
LEMMA NoteCut ==
  ASSUME TypeInv, NoteInv, CutShort
  PROVE  \A s \in notes' : s \in notes \/ Recorded(s) \/ s \in row.skipped
<1>1. \A s \in task.degraded : Recorded(s) \/ s \in row.skipped
  BY DEF NoteInv
<1>2. AtStage("inside") => Recorded(task.at)
  BY DEF AtStage, NoteInv
<1>3. notes' \subseteq notes \cup task.degraded \cup
                       (IF AtStage("inside") THEN {task.at} ELSE {})
  BY DEF CutShort
<1> QED
  BY <1>1, <1>2, <1>3

LEMMA NoteWork ==
  ASSUME NoWayBack, TypeInv, NoteInv, Work
  PROVE  NoteInv'
<1>1. CASE OpenRun
  <2>1. task'.kind = task.kind /\ task'.skipped = task.skipped /\ task'.at = task.at
        /\ task'.degraded = task.degraded /\ task'.cancelled = Cancelled
        /\ UNCHANGED <<row, notes>> /\ task.at \in Stage /\ torn' = torn \ {task.at}
        /\ task.kind # "discard"
    BY <1>1 DEF OpenRun, AtStage, Cancelled, TypeInv, TaskType, DiscardPhases
  <2>2. \A s \in Stage : (Recorded(s) => Recorded(s)') /\ (s = task.at => Recorded(s)')
    BY <1>1, <2>1 DEF OpenRun, Recorded, TypeInv
  <2>3. notes \subseteq Stage /\ task.degraded \subseteq Stage
    BY DEF TypeInv, TaskType
  <2>4. Cancelled => "cancel" \in Ops
    BY DEF Cancelled, NoteInv
  <2> QED
    BY <2>1, <2>2, <2>3, <2>4 DEF NoteInv, NoteHasStage, Recorded
<1>2. CASE SetStage
  <2>1. task'.kind = task.kind /\ task'.skipped = task.skipped /\ task'.at = task.at
        /\ task'.degraded = task.degraded /\ task'.cancelled = task.cancelled
        /\ task.phase = "opened" /\ UNCHANGED <<runs, notes, torn>>
    BY <1>2 DEF SetStage, AtStage, TypeInv, TaskType
  <2>2. row'.skipped = row.skipped /\ row'.cancel = row.cancel
    BY <1>2 DEF SetStage, TypeInv, RowType
  <2> QED
    BY <2>1, <2>2 DEF NoteInv, NoteHasStage, Recorded
<1>3. CASE Advance \/ Finish \/ Raise
  <2>1. task' = Idle /\ runs' = runs /\ torn \subseteq torn'
    BY <1>3 DEF Advance, Finish, Raise
  <2>2. row'.skipped = row.skipped /\ row'.cancel = row.cancel
    <3>1. CASE Advance
      BY <3>1 DEF Advance, TypeInv, RowType
    <3>2. CASE Finish
      BY <3>2, ZenonT(30) DEF Finish, CloseRow, TypeInv, RowType
    <3>3. CASE Raise
      BY <3>3, ZenonT(30) DEF Raise, CloseRow, TypeInv, RowType
    <3> QED
      BY <1>3, <3>1, <3>2, <3>3
  <2>3. task'.kind = "idle" /\ task'.skipped = {} /\ task'.degraded = {}
        /\ ~task'.cancelled /\ task'.phase = "boundary"
    BY <2>1 DEF Idle, Drive
  <2>4. \A s \in notes' : s \in notes \/ Recorded(s) \/ s \in row.skipped
    <3>1. CASE Advance \/ Finish
      BY <3>1 DEF Advance, Finish, NoteInv
    <3>2. CASE Raise
      BY <3>2, NoteCut DEF Raise
    <3> QED
      BY <1>3, <3>1, <3>2
  <2> QED
    BY <2>1, <2>2, <2>3, <2>4 DEF NoteInv, NoteHasStage, Recorded
<1> QED
  BY <1>1, <1>2, <1>3, NoteSkip, NoteEnd DEF Work

LEMMA NoteRequest ==
  ASSUME TypeInv, NoteInv, Request
  PROVE  NoteInv'
<1>1. CASE RequestCancel \/ AbandonAndClose
  <2>1. row'.skipped = row.skipped /\ UNCHANGED <<runs, notes, task, torn>>
        /\ (row'.cancel => row.cancel \/ "cancel" \in Ops)
    BY <1>1 DEF RequestCancel, AbandonAndClose, Asked, CloseRow, TypeInv, RowType
  <2> QED
    BY <2>1 DEF NoteInv, NoteHasStage, Recorded
<1>2. CASE BeginStep \/ \E from \in Stage : Resume(from)
  <2>1. PICK kind \in {"step", "resume"}, from \in Stage :
          /\ task' = Drive(kind, from) /\ UNCHANGED <<row, runs, notes, torn>>
          /\ kind = "resume" => "resume" \in Ops
    BY <1>2 DEF BeginStep, Resume, Asked
  <2>2. task'.kind = kind /\ task'.skipped = {} /\ task'.degraded = {}
        /\ ~task'.cancelled /\ task'.phase = "boundary"
    BY <2>1 DEF Drive
  <2> QED
    BY <2>1, <2>2 DEF NoteInv, NoteHasStage, Recorded
<1>4. CASE AbandonAndFinalise
  <2>1. UNCHANGED <<row, runs, notes, torn>>
        /\ \/ task' = task
           \/ \E excused \in BOOLEAN :
                task' = [Drive("finalise", SEEDING) EXCEPT !.critical = excused]
    <3>1. (row.interruptedStage \in CRITICAL_STAGES) \in BOOLEAN
      OBVIOUS
    <3> QED
      BY <1>4, <3>1, Zenon DEF AbandonAndFinalise
  <2>2. CASE task' = task
    BY <2>1, <2>2 DEF NoteInv, NoteHasStage, Recorded
  <2>3. ASSUME NEW excused \in BOOLEAN,
               task' = [Drive("finalise", SEEDING) EXCEPT !.critical = excused]
        PROVE  NoteInv'
    <3>1. task'.kind = "finalise" /\ task'.skipped = {} /\ task'.degraded = {}
          /\ ~task'.cancelled /\ task'.phase = "boundary"
      BY <2>3 DEF Drive
    <3> QED
      BY <2>1, <3>1 DEF NoteInv, NoteHasStage, Recorded
  <2> QED
    BY <2>1, <2>2, <2>3
<1>5. CASE Discard
  <2>1. UNCHANGED <<row, runs, notes>> /\ torn' = torn \cup {LastRan}
    BY <1>5 DEF Discard
  <2>2. /\ task'.kind = "discard" /\ task'.at = LastRan /\ task'.phase = "reverted"
        /\ task'.skipped = {} /\ task'.degraded = {} /\ ~task'.cancelled
    <3>1. /\ task' = [Idle EXCEPT !.kind = "discard", !.at = LastRan, !.phase = "reverted"]
          /\ Idle \in TaskType /\ Idle.skipped = {} /\ Idle.degraded = {}
          /\ ~Idle.cancelled
      BY <1>5, IdleTyped DEF Discard, Idle, Drive
    <3> HIDE DEF Idle
    <3> QED
      BY <3>1 DEF TaskType
  <2> QED
    BY <2>1, <2>2 DEF NoteInv, NoteHasStage, Recorded
<1>6. CASE PointBack \/ DropRun
  <2>1. row'.skipped = row.skipped /\ row'.cancel = row.cancel
        /\ UNCHANGED <<notes, torn>> /\ task.kind = "discard" /\ task.at \in torn
        /\ \A s \in Stage : s # task.at => runs'[s] = runs[s]
    BY <1>6 DEF PointBack, DropRun, AtStage, TypeInv, RowType, DiscardPhases, NoteInv
  <2>2. /\ task'.kind = task.kind /\ task'.at = task.at /\ task'.skipped = task.skipped
        /\ task'.degraded = task.degraded /\ task'.cancelled = task.cancelled
        /\ task'.phase \in {"pointed", "dropped"}
    BY <1>6 DEF PointBack, DropRun, TypeInv, TaskType
  <2> QED
    BY <2>1, <2>2 DEF NoteInv, NoteHasStage, Recorded
<1>7. CASE Retract
  <2>1. task' = Idle /\ UNCHANGED <<row, runs>> /\ notes' = notes \ {task.at}
        /\ torn' = torn \ {task.at}
    BY <1>7 DEF Retract, RetractNotes
  <2>2. task'.kind = "idle" /\ task'.skipped = {} /\ task'.degraded = {}
        /\ ~task'.cancelled /\ task'.phase = "boundary"
    BY <2>1 DEF Idle, Drive
  <2> QED
    BY <2>1, <2>2 DEF NoteInv, NoteHasStage, Recorded
<1> QED
  BY <1>1, <1>2, <1>4, <1>5, <1>6, <1>7 DEF Request

LEMMA NoteOutage ==
  ASSUME TypeInv, GhostInv, NoteInv, Crash \/ Startup
  PROVE  NoteInv'
<1>1. row'.skipped = row.skipped /\ row'.cancel = row.cancel
  BY DEF Crash, Startup, Reconcile, MarkInterrupted, NoteInterrupted, TypeInv, RowType
<1>2. \A s \in Stage : Recorded(s) => Recorded(s)'
  BY DEF Crash, Startup, Reconcile, MarkInterrupted, NoteInterrupted, CloseRuns,
         Recorded, TypeInv
<1>3. notes \subseteq Stage /\ task.degraded \subseteq Stage /\ row.skipped \subseteq Stage
  BY DEF TypeInv, TaskType, RowType
<1>4. CASE Crash
  <2>1. task' = Idle /\ UNCHANGED <<runs, torn>> /\ CutShort
    BY <1>4 DEF Crash
  <2>2. task'.kind = "idle" /\ task'.skipped = {} /\ task'.degraded = {}
        /\ ~task'.cancelled /\ task'.phase = "boundary"
    BY <2>1 DEF Idle, Drive
  <2>3. \A s \in notes' : s \in notes \/ Recorded(s) \/ s \in row.skipped
    BY <2>1, NoteCut
  <2> QED
    BY <1>1, <2>1, <2>2, <2>3 DEF NoteInv, NoteHasStage, Recorded
<1>5. CASE Startup
  <2>1. UNCHANGED <<task, notes>>
    BY <1>5 DEF Startup, Reconcile, MarkInterrupted, NoteInterrupted
  <2>2. \A s \in Stage : s \in torn => s \in torn' \/ Recorded(s)
    BY <1>5 DEF Startup, Reconcile, MarkInterrupted, NoteInterrupted, Recorded
  <2>3. task.phase \in {"opened", "inside"} => task.at \in Stage
    BY DEF NoteInv
  <2>4. task.kind # "discard"
    BY <1>5 DEF Startup, Reconcile, MarkInterrupted, NoteInterrupted, GhostInv
  <2> QED
    BY <2>4, <1>1, <1>2, <1>3, <2>1, <2>2 DEF NoteInv, NoteHasStage, Recorded
<1> QED
  BY <1>4, <1>5

LEMMA NoteKept ==
  ASSUME NoWayBack, TypeInv, GhostInv, NoteInv, [Next]_vars
  PROVE  NoteInv'
<1>1. CASE UNCHANGED vars
  BY <1>1 DEF vars, NoteInv, NoteHasStage, Recorded
<1> QED
  BY <1>1, NoteWork, NoteRequest, NoteOutage DEF Next

\* In whatever order an operator steps and discards, pointer, records and notes
\* agree: what is before the pointer of an open iteration has ended, nothing from
\* it on has left a record, and no note outlives the record it speaks of (step,
\* discard_last, discard_degradations).  The process may die, and a driver or a
\* discard raise, between any two of their statements: only the stage at which one
\* did is exempt (torn), until it is discarded or run again.
THEOREM RecordsMatch ==
  ASSUME NoWayBack
  PROVE  Spec => []RecordsAgree
<1>0. NeverReopened
  BY DEF NoWayBack, Discards, NeverReopened
<1>1. Init => TypeInv /\ GhostInv /\ PointInv /\ NoteInv
  BY InitTypes, GhostInit, PointInit, NoteInit
<1>2. TypeInv /\ GhostInv /\ PointInv /\ NoteInv /\ [Next]_vars
        => (TypeInv /\ GhostInv /\ PointInv /\ NoteInv)'
  <2>1. ASSUME GhostInv, UNCHANGED vars PROVE GhostInv'
    BY <2>1 DEF GhostInv, Held, vars
  <2> QED
    BY <1>0, <2>1, TypesKept, GhostWork, GhostRequest, GhostOutage, PointKept, NoteKept
       DEF Next
<1>3. TypeInv /\ GhostInv /\ PointInv /\ NoteInv => RecordsAgree
  <2>1. TypeInv /\ GhostInv /\ PointInv => PointerIsNext(Stage \ torn)
    <3>1. SUFFICES ASSUME TypeInv, GhostInv, Pointed, boot.state = "up",
                          task.kind = "idle", ~row.finished, NEW s \in Stage \ torn
                   PROVE  IF s < row.stage THEN Accounted(s) ELSE runs[s] = "none"
      BY DEF PointInv, PointerIsNext, Up
    <3>2. PointerHolds
      BY <3>1 DEF Pointed, RestPointed
    <3>3. s < row.stage \/ s = row.stage \/ s >= row.stage + 1
      BY <3>2, StageIs DEF PointerHolds
    <3>4. runs[s] # "RUNNING"
      BY <3>1 DEF GhostInv, Held
    <3>5. s = row.stage \/ s >= row.stage + 1 => ~(s < row.stage) /\ ~Ran(s)
      BY <3>1, <3>2, StageIs DEF PointerHolds, NoneRanFrom
    <3> QED
      BY <3>2, <3>3, <3>4, <3>5 DEF PointerHolds, Upto, Ran
  <2> QED
    BY <2>1 DEF RecordsAgree, AgreeOn, NoteInv
<1> QED
  BY <1>1, <1>2, <1>3, PTL DEF Spec

=============================================================================
