----------------------------- MODULE Iteration -----------------------------
(***************************************************************************)
(* One iteration of a session: the eight stages, the worker that drives    *)
(* them, and everything that can interfere with it: a cancellation, a      *)
(* crash and the startup that reconciles it, the two exits from an         *)
(* interruption, and the debug walk (step, discard).                       *)
(*                                                                         *)
(* There is one process and its session lock is `task': whoever is not     *)
(* idle holds it (RunSlot models how the lock is shared).  Queries are     *)
(* kept as what the stages tell apart: whether a collection stage has      *)
(* queries, has some still to execute, and has some that failed for good.  *)
(***************************************************************************)
EXTENDS Integers, FiniteSets

CONSTANTS Ops,      \* how the iteration begins and the requests it receives
          MayFail,  \* bound: the stages that may fail or record a note
          MayRaise, \* whether a statement of a driver or a discard may raise
          MaxCrashes \* bound: how often the process dies

Beginnings == {"run", "retry", "create"}
AllOps == Beginnings \cup {"cancel", "step", "discard",
                           "resume", "rewind", "finalise", "close"}

ASSUME OpsAssumption == Ops \subseteq AllOps /\ Ops \cap Beginnings # {}
ASSUME RaiseAssumption == MayRaise \in BOOLEAN
ASSUME CrashesAssumption == MaxCrashes \in Nat

-----------------------------------------------------------------------------
(* The pipeline.  A stage is its index.                                    *)

SEEDING == 1
COLLECTING_SOCIAL == 2
TRIAGING == 3
TIPPING == 4
COLLECTING_TIPPED == 5
CORRELATING == 6
ALERTING == 7
SCHEDULING == 8
Stage == SEEDING..SCHEDULING
Done == SCHEDULING + 1       \* past the last stage; also the closed pointer
None == 0

ASSUME FailAssumption == MayFail \subseteq Stage

CRITICAL_STAGES == {SEEDING}
FINALISE_STAGES == {CORRELATING, ALERTING}
RETRY_SKIPPED == {SEEDING, COLLECTING_SOCIAL, SCHEDULING}
Collecting == {COLLECTING_SOCIAL, COLLECTING_TIPPED}

\* The stages that are one agent, which records its own failure as a note.
AgentStages == Collecting \cup {TRIAGING, CORRELATING, ALERTING}

VARIABLES row,       \* the iterations row
          runs,      \* the orchestrator's agent_runs row of each stage
          notes,     \* the stages that degradations_json has a note of
          remarks,   \* its other sources
          queue,     \* the query_queue rows of this iteration
          task,      \* what holds the session lock, with its local state
          boot,      \* the process: serving, dead, or at a step of open_epoch
          crashes,   \* how often the process has died
          abandoned, \* history: abandon was called
          torn       \* history: the stages whose records were last written
                     \* by half, in a driver that raised or in a discard

vars == <<row, runs, notes, remarks, queue, task, boot, crashes, abandoned, torn>>

Outcomes == {"none", "COMPLETE", "PARTIAL", "FAILED"}
Statuses == {"none", "RUNNING", "COMPLETE", "FAILED", "INTERRUPTED"}
Kinds == {"idle", "run", "retry", "resume", "finalise", "step", "discard"}
Phases == {"boundary", "opened", "inside", "advance",
           "reverted", "pointed", "dropped"}
Boots == {"up", "down", "marking", "noting"}

TypeOK ==
  /\ row \in [finished : BOOLEAN, outcome : Outcomes, stage : Stage \cup {Done},
              error : {"none", "critical", "raised"},
              interrupted : BOOLEAN, interruptedStage : Stage \cup {None},
              cancel : BOOLEAN, skipped : SUBSET Stage, retry : BOOLEAN]
  /\ runs \in [Stage -> Statuses]
  /\ notes \subseteq Stage
  /\ remarks \subseteq {"recovery", "gaps", "unattributed"}
  /\ queue \in [seeded : {"none", "some", "all"}, tipped : BOOLEAN,
                outstanding : SUBSET Collecting, gaps : SUBSET Collecting]
  /\ task \in [kind : Kinds, at : Stage \cup {Done}, phase : Phases,
               critical : BOOLEAN, cancelled : BOOLEAN,
               degraded : SUBSET Stage, skipped : SUBSET Stage]
  /\ boot \in [state : Boots, stage : Stage \cup {None}]
  /\ crashes \in 0..MaxCrashes
  /\ abandoned \in BOOLEAN
  /\ torn \subseteq Stage
  /\ row.finished <=> row.outcome # "none"
  /\ row.interrupted <=> row.interruptedStage # None

\* The next stage a driver of this kind runs, at n or later.
Planned(kind) == CASE kind = "retry"    -> Stage \ RETRY_SKIPPED
                   [] kind = "finalise" -> FINALISE_STAGES
                   [] OTHER             -> Stage
First(S) == CHOOSE s \in S : \A t \in S : s <= t
Last(S) == CHOOSE s \in S : \A t \in S : t <= s
NextFrom(kind, n) == LET later == {s \in Planned(kind) : s >= n}
                     IN  IF later = {} THEN Done ELSE First(later)

Drive(kind, n) ==
  [kind |-> kind, at |-> NextFrom(kind, n), phase |-> "boundary",
   critical |-> FALSE, cancelled |-> FALSE, degraded |-> {},
   skipped |-> IF kind = "retry" THEN {SCHEDULING} ELSE {}]
Idle == [Drive("run", SEEDING) EXCEPT !.kind = "idle"]

\* The iteration has just been created: by submit, by submit_retry_triage (the
\* child says that it inherits and that it does not schedule), or by create.
Init ==
  \E beginning \in Ops \cap Beginnings :
    LET retry == beginning = "retry"
    IN  /\ row = [finished |-> FALSE, outcome |-> "none", stage |-> SEEDING,
                  error |-> "none", interrupted |-> FALSE,
                  interruptedStage |-> None, cancel |-> FALSE,
                  skipped |-> IF retry THEN {SCHEDULING} ELSE {},
                  retry |-> retry]
        /\ remarks = IF retry THEN {"unattributed"} ELSE {}
        /\ task = IF beginning = "create" THEN Idle ELSE Drive(beginning, SEEDING)
        /\ runs = [s \in Stage |-> "none"]
        /\ notes = {}
        /\ queue = [seeded |-> "none", tipped |-> FALSE,
                    outstanding |-> {}, gaps |-> {}]
        /\ boot = [state |-> "up", stage |-> None]
        /\ crashes = 0
        /\ abandoned = FALSE
        /\ torn = {}

-----------------------------------------------------------------------------
(* What a stage does to the queue.  `through' says that it was not cut     *)
(* short by an exception or a crash.                                       *)

\* run_seed: a seed that is already queued is refused, so seeding twice adds
\* nothing.  A follow-on that has come due is adopted.
Seeded(ok, through, level, adopted) ==
  LET added == level # queue.seeded \/ adopted
      q == [queue EXCEPT !.seeded = level,
                         !.outstanding = IF added THEN @ \cup {COLLECTING_SOCIAL}
                                                  ELSE @]
  IN  IF through
      THEN IF ok THEN {r \in {q} : level = "all" /\ added}
                 ELSE {r \in {q} : ~added}
      ELSE {r \in {q} : level = "none" => queue.seeded = "none"}

\* run_tip, and the escalation inside COLLECTING_TIPPED, may enqueue or not.
Tipped == {queue, [queue EXCEPT !.tipped = TRUE,
                                !.outstanding = @ \cup {COLLECTING_TIPPED}]}

\* A collection pass executes everything outstanding; what fails is a gap.
Left(q, outstanding, gaps) ==
  [q EXCEPT !.outstanding = outstanding, !.gaps = gaps]
Collected(q, s, through) ==
  IF s \notin q.outstanding THEN {q}
  ELSE {Left(q, o, g) : o \in {q.outstanding \ {s}}
                                \cup (IF through THEN {} ELSE {q.outstanding}),
                        g \in {q.gaps, q.gaps \cup {s}}}

Effects(s, ok, through) ==
  CASE s = SEEDING -> UNION {Seeded(ok, through, level, adopted) :
                               level \in {queue.seeded, "some", "all"},
                               adopted \in BOOLEAN}
    [] s = COLLECTING_SOCIAL -> Collected(queue, s, through)
    [] s = TIPPING -> Tipped
    [] s = COLLECTING_TIPPED -> UNION {Collected(q, s, through) : q \in Tipped}
    [] OTHER -> {queue}

-----------------------------------------------------------------------------
(* The driver: run, run_retry_triage, finalise, resume, step.              *)

Up == boot.state = "up"
AtStage(phase) == task.kind # "idle" /\ task.phase = phase /\ task.at \in Stage

\* A cancellation is read at each boundary, and only by the drivers that loop.
Cancelled == task.kind \in {"run", "retry", "resume"}
               /\ (task.cancelled \/ row.cancel)
MustSkip == Cancelled /\ task.at \notin FINALISE_STAGES

\* record_skipped_stages overwrites the list with the one of this driver.
RecordSkipped(skipped) == [row EXCEPT !.skipped = skipped]

SkipStage ==
  /\ AtStage("boundary") /\ MustSkip
  /\ LET skipped == task.skipped \cup {task.at}
     IN  /\ task' = [task EXCEPT !.at = NextFrom(task.kind, task.at + 1),
                                 !.cancelled = TRUE,
                                 !.degraded = @ \cup {task.at},
                                 !.skipped = skipped]
         /\ row' = RecordSkipped(skipped)
  /\ UNCHANGED <<runs, notes, remarks, queue, boot, crashes, abandoned, torn>>

\* start_agent_run raises rather than replace a RUNNING row, unless recovering.
Refused == /\ AtStage("boundary") /\ ~MustSkip
           /\ runs[task.at] = "RUNNING" /\ task.kind \notin {"resume", "finalise"}

OpenRun ==
  /\ AtStage("boundary") /\ ~MustSkip /\ ~Refused
  /\ runs' = [runs EXCEPT ![task.at] = "RUNNING"]
  /\ task' = [task EXCEPT !.phase = "opened", !.cancelled = Cancelled]
  /\ torn' = torn \ {task.at}
  /\ UNCHANGED <<row, notes, remarks, queue, boot, crashes, abandoned>>

SetStage ==
  /\ AtStage("opened")
  /\ row' = [row EXCEPT !.stage = task.at]
  /\ task' = [task EXCEPT !.phase = "inside"]
  /\ UNCHANGED <<runs, notes, remarks, queue, boot, crashes, abandoned, torn>>

\* Where a driver goes when a stage has ended.
AfterStage(failedCritical) ==
  LET ends == failedCritical \/ (task.kind = "step" /\ task.at = SCHEDULING)
  IN  CASE ends -> [task EXCEPT !.at = Done, !.phase = "boundary",
                                !.critical = failedCritical]
        [] ~ends /\ task.kind = "step" -> [task EXCEPT !.phase = "advance"]
        [] OTHER -> [task EXCEPT !.at = NextFrom(task.kind, task.at + 1),
                                 !.phase = "boundary"]

\* The handler returns or raises and the run row says which; a seeding that
\* raises has not queued everything.  An agent has noted on the row what it
\* lost; that the stage failed is known to the driver alone until it writes it.
EndStage ==
  /\ AtStage("inside")
  /\ \E ok, noted, through \in BOOLEAN :
       /\ ok => through
       /\ (ok /\ ~noted) \/ task.at \in MayFail
       /\ noted => task.at \in AgentStages
       /\ queue' \in Effects(task.at, ok, through)
       /\ ok \/ (queue'.seeded = "all" => queue.seeded = "all")
       /\ runs' = [runs EXCEPT ![task.at] = IF ok THEN "COMPLETE" ELSE "FAILED"]
       /\ notes' = IF noted THEN notes \cup {task.at} ELSE notes
       /\ task' = LET t == AfterStage(~ok /\ task.at \in CRITICAL_STAGES)
                  IN  IF ok THEN t
                      ELSE [t EXCEPT !.degraded = @ \cup {task.at}]
  /\ UNCHANGED <<row, remarks, boot, crashes, abandoned, torn>>

\* step: a failure is written to the row at once, since no later call remembers
\* it; the pointer moves to the next stage and the lock is released.
Advance ==
  /\ AtStage("advance")
  /\ notes' = notes \cup task.degraded
  /\ row' = [row EXCEPT !.stage = task.at + 1]
  /\ task' = Idle
  /\ UNCHANGED <<runs, remarks, queue, boot, crashes, abandoned, torn>>

CloseRowUndecided(outcome, error) ==
  [row EXCEPT !.finished = TRUE, !.error = error, !.stage = Done]

\* finish_iteration.
CloseRow(outcome, error) ==
  [row EXCEPT !.finished = TRUE, !.outcome = outcome, !.error = error,
              !.stage = Done]

NotedInMemory(noteSet, remarkSet) == task.degraded # {} \/ "gaps" \in remarkSet
Noted(noteSet, remarkSet) == noteSet # {} \/ remarkSet # {}

\* FAILED if a critical stage failed, else PARTIAL if the row holds any note.
DecideOutcome(noteSet, remarkSet) ==
  CASE task.critical -> "FAILED"
    [] ~task.critical /\ Noted(noteSet, remarkSet) -> "PARTIAL"
    [] OTHER -> "COMPLETE"

\* The derived summary of the gaps: replaced, or retracted when there are none.
GapRemark == IF queue.gaps # {} THEN remarks \cup {"gaps"}
                                ELSE remarks \ {"gaps"}

\* _finish.  Its last statement closes the row.
Finish ==
  /\ task.kind # "idle" /\ task.at = Done
  /\ notes' = notes \cup task.degraded
  /\ remarks' = GapRemark
  /\ row' = CloseRow(DecideOutcome(notes', remarks'),
                     IF task.critical THEN "critical" ELSE "none")
  /\ task' = Idle
  /\ UNCHANGED <<runs, queue, boot, crashes, abandoned, torn>>

\* What a driver that stops where it is, because it raised or the process died,
\* has done of its stage and written of its notes.  The outcome that
\* _settle_banked_work will give a query whose payload is stored, complete or a
\* gap, is decided by then.
CutShort ==
  LET noted == CASE AtStage("inside") -> MayFail \cap AgentStages \cap {task.at}
                 [] AtStage("advance") -> task.degraded
                 [] task.at = Done     -> task.degraded
                 [] OTHER              -> {}
  IN  /\ queue' \in (IF AtStage("inside") THEN Effects(task.at, FALSE, FALSE)
                                          ELSE {queue})
      /\ notes' \in {notes, notes \cup noted}
      /\ remarks' \in (IF task.at = Done THEN {remarks, GapRemark} ELSE {remarks})

\* A raise tears the stage it is at, or at the end the last one, and nothing while
\* the stage's record has not been touched.
TornAt == CASE AtStage("boundary") -> {}
            [] task.at = Done      -> {row.stage} \cap Stage
            [] OTHER               -> {task.at} \cap Stage

\* A statement of the driver raised, or start_agent_run refused.  Behind every
\* worker stands _fail, which closes the row FAILED; a step or a discard leaves
\* it as it is.  A record that is RUNNING stays so.
Raise ==
  /\ task.kind # "idle"
  /\ MayRaise \/ Refused
  /\ row' = IF task.kind \in {"step", "discard"} THEN row
            ELSE CloseRow("FAILED", "raised")
  /\ task' = Idle
  /\ torn' = torn \cup TornAt
  /\ CutShort
  /\ UNCHANGED <<runs, boot, crashes, abandoned>>

-----------------------------------------------------------------------------
(* Requests.                                                               *)

Asked(op) == Up /\ op \in Ops

RequestCancel ==
  /\ Asked("cancel") /\ ~row.finished /\ ~row.cancel
  /\ row' = [row EXCEPT !.cancel = TRUE]
  /\ UNCHANGED <<runs, notes, remarks, queue, task, boot, crashes, abandoned, torn>>

BeginStep ==
  /\ Asked("step") /\ task.kind = "idle"
  /\ row.interrupted => row.finished
  /\ row.stage \in Stage
  /\ task' = Drive("step", row.stage)
  /\ UNCHANGED <<row, runs, notes, remarks, queue, boot, crashes, abandoned, torn>>

Ran(s) == runs[s] \notin {"none", "RUNNING"}

\* last_completed_stage: the furthest stage with a row that is not RUNNING.
LastRan == LET S == {s \in Stage : Ran(s)} IN IF S = {} THEN None ELSE Last(S)

\* in_flight_stage: the furthest stage with a row that is.
InFlight == LET S == {s \in Stage : runs[s] = "RUNNING"}
            IN  IF S = {} THEN None ELSE Last(S)

\* What discarding a stage does to the queries it wrote or executed.
Reverted(s) ==
  CASE s = SEEDING -> [queue EXCEPT !.seeded = "none",
                                    !.outstanding = @ \ {COLLECTING_SOCIAL},
                                    !.gaps = @ \ {COLLECTING_SOCIAL}]
    [] s = TIPPING -> [queue EXCEPT !.tipped = FALSE,
                                    !.outstanding = @ \ {COLLECTING_TIPPED},
                                    !.gaps = @ \ {COLLECTING_TIPPED}]
    [] s \in Collecting ->
         LET any == IF s = COLLECTING_SOCIAL THEN queue.seeded # "none"
                                             ELSE queue.tipped
         IN  [queue EXCEPT !.gaps = @ \ {s},
                           !.outstanding = IF any THEN @ \cup {s} ELSE @]
    [] OTHER -> queue

KeepNotes(s) == notes
\* discard_degradations: the notes go with the rows they speak of.
RetractNotes(s) == notes \ {s}

\* discard_last, under the session lock, commits one statement after the other:
\* the rows that the stage wrote (of several tables; the queries are what is kept
\* of them here), then the pointer, the record and the notes ...
Discard ==
  /\ Asked("discard") /\ task.kind = "idle"
  /\ LastRan # None
  /\ queue' = Reverted(LastRan)
  /\ task' = [Idle EXCEPT !.kind = "discard", !.at = LastRan, !.phase = "reverted"]
  /\ torn' = torn \cup {LastRan}
  /\ UNCHANGED <<row, runs, notes, remarks, boot, crashes, abandoned>>

\* ... the iteration points back at the furthest stage, open again; what says
\* interrupted, cancelled and skipped is left alone ...
PointBack ==
  /\ AtStage("reverted")
  /\ row' = [row EXCEPT !.stage = task.at, !.finished = FALSE,
                        !.outcome = "none", !.error = "none"]
  /\ task' = [task EXCEPT !.phase = "pointed"]
  /\ UNCHANGED <<runs, notes, remarks, queue, boot, crashes, abandoned, torn>>

DropRun ==
  /\ AtStage("pointed")
  /\ runs' = [runs EXCEPT ![task.at] = "none"]
  /\ task' = [task EXCEPT !.phase = "dropped"]
  /\ UNCHANGED <<row, notes, remarks, queue, boot, crashes, abandoned, torn>>

Retract ==
  /\ AtStage("dropped")
  /\ notes' = RetractNotes(task.at)
  /\ task' = Idle
  /\ torn' = torn \ {task.at}
  /\ UNCHANGED <<row, runs, remarks, queue, boot, crashes, abandoned>>

ResumePointAfter ==
  IF row.interrupted /\ row.interruptedStage < SCHEDULING
  THEN row.interruptedStage + 1 ELSE SEEDING

\* resume_point: the reconciled stage, else the one in flight, else the one
\* after the last that ran.
ResumePoint ==
  CASE row.interruptedStage # None -> row.interruptedStage
    [] row.interruptedStage = None /\ InFlight # None -> InFlight
    [] OTHER -> IF LastRan = SCHEDULING THEN SCHEDULING ELSE LastRan + 1

\* The respend is confirmed.  The operator may name an earlier stage than the
\* resume point ("rewind"), never a later one.
Resume(from) ==
  /\ Asked("resume") /\ ~row.finished /\ task.kind = "idle"
  /\ IF "rewind" \in Ops THEN from <= ResumePoint ELSE from = ResumePoint
  /\ task' = Drive("resume", from)
  /\ UNCHANGED <<row, runs, notes, remarks, queue, boot, crashes, abandoned, torn>>

\* abandon: what is outstanding becomes a gap.  The note has no source.
GiveUp ==
  /\ ~row.finished
  /\ queue' = [queue EXCEPT !.gaps = @ \cup queue.outstanding, !.outstanding = {}]
  /\ abandoned' = TRUE
AbandonNote == IF queue.outstanding # {} \/ queue.gaps # {}
               THEN remarks \cup {"unattributed"} ELSE remarks

\* The queries are given up before the lock is tried: a running iteration is
\* refused only after that.  finalise reads the interrupted stage first.
AbandonAndFinalise ==
  /\ Asked("finalise") /\ GiveUp
  /\ remarks' = AbandonNote
  /\ task' = IF task.kind # "idle" THEN task
             ELSE [Drive("finalise", SEEDING) EXCEPT
                     !.critical = row.interruptedStage \in CRITICAL_STAGES]
  /\ UNCHANGED <<row, runs, notes, boot, crashes, torn>>

AbandonAndClose ==
  /\ Asked("close") /\ GiveUp
  /\ remarks' = AbandonNote \cup {"recovery"}
  /\ row' = CloseRow("PARTIAL", "none")
  /\ UNCHANGED <<runs, notes, task, boot, crashes, torn>>

-----------------------------------------------------------------------------
(* A crash, and what the next startup makes of it.                         *)

Crash ==
  /\ crashes < MaxCrashes
  /\ boot.state # "down"
  /\ row.finished => task.kind # "idle"
  /\ crashes' = crashes + 1
  /\ boot' = [state |-> "down", stage |-> None]
  /\ task' = Idle
  /\ CutShort
  /\ UNCHANGED <<row, runs, abandoned, torn>>

\* The stage that was in flight, else the one the pointer names.
InterruptedAt == IF InFlight # None THEN InFlight ELSE row.stage

CloseRunsOnce ==
  [s \in Stage |-> IF runs[s] = "RUNNING" /\ ~row.interrupted
                   THEN "INTERRUPTED" ELSE runs[s]]

\* interrupt_agent_runs.
CloseRuns ==
  [s \in Stage |-> IF runs[s] = "RUNNING" THEN "INTERRUPTED" ELSE runs[s]]

\* open_epoch for an unfinished iteration, in the order _mark_interrupted
\* writes; the process may die between the writes.
Reconcile ==
  /\ boot.state = "down"
  /\ IF row.finished
     THEN boot' = [boot EXCEPT !.state = "up"] /\ UNCHANGED <<runs, torn>>
     ELSE /\ boot' = [state |-> "marking", stage |-> InterruptedAt]
          /\ runs' = CloseRuns
          /\ torn' = {s \in torn : runs[s] # "RUNNING"}
  /\ UNCHANGED <<row, notes, remarks, queue, task, crashes, abandoned>>

\* mark_interrupted stamps the row once; a second crash keeps the first stage.
MarkInterrupted ==
  /\ boot.state = "marking"
  /\ IF row.interrupted
     THEN boot' = [state |-> "up", stage |-> None] /\ UNCHANGED row
     ELSE /\ row' = [row EXCEPT !.interrupted = TRUE,
                                !.interruptedStage = boot.stage]
          /\ boot' = [boot EXCEPT !.state = "noting"]
  /\ UNCHANGED <<runs, notes, remarks, queue, task, crashes, abandoned, torn>>

NoteInterrupted ==
  /\ boot.state = "noting"
  /\ remarks' = remarks \cup {"recovery"}
  /\ boot' = [state |-> "up", stage |-> None]
  /\ UNCHANGED <<row, runs, notes, queue, task, crashes, abandoned, torn>>

-----------------------------------------------------------------------------

Work == \/ SkipStage \/ OpenRun \/ SetStage \/ EndStage
        \/ Advance \/ Finish \/ Raise
Request == \/ RequestCancel \/ BeginStep
           \/ Discard \/ PointBack \/ DropRun \/ Retract
           \/ \E from \in Stage : Resume(from)
           \/ AbandonAndFinalise \/ AbandonAndClose
Startup == Reconcile \/ MarkInterrupted \/ NoteInterrupted

Next == Work \/ Request \/ Crash \/ Startup

Spec == Init /\ [][Next]_vars

-----------------------------------------------------------------------------
(* Properties.                                                             *)

Finished(s) == runs[s] \in {"COMPLETE", "FAILED"}
Accounted(s) == \/ Finished(s)
                \/ s \in row.skipped
                \/ row.retry /\ s \in RETRY_SKIPPED

\* However often it crashed and was resumed, an iteration that closed with
\* something to read ran each stage to its end or says that it skipped it
\* (routes.py 1590: a stage that never ran is permanently missing).
NoStageMissing ==
  row.finished /\ row.outcome # "FAILED" /\ ~abandoned
    => \A s \in Stage : Accounted(s)

\* No stage is entered before the ones that feed it have ended.
InputsReady ==
  task.kind # "idle" /\ task.phase = "inside" /\ ~abandoned
    => \A s \in Stage : s < task.at => Accounted(s)

\* Both, over any crashes and resumes: what a stage reads is there when it runs,
\* and nothing is missing when the iteration closes.  A resume that the operator
\* starts at an earlier stage than the reconciled one is the exception
\* (Iteration_rewind.cfg).
StagesInTurn == NoStageMissing /\ InputsReady

\* Once a process serves, a RUNNING record of an open iteration has a worker
\* behind it; a stale one would show a stage that nobody runs.
NoGhostAmong(S) ==
  Up /\ ~row.finished
    => \A s \in S : runs[s] = "RUNNING"
         => /\ task.kind # "idle" /\ task.at = s
            /\ task.phase \in {"opened", "inside"}

\* It holds of every stage whose driver did not raise between the record's two
\* writes: over crashes at any point, refusals, resumes and abandons.
NoGhostRun == NoGhostAmong(Stage \ torn)

\* COMPLETE means that nothing was lost: every stage succeeded, every query
\* was answered, and nothing was inherited, in whatever order an operator steps,
\* cancels and discards, and though a discard dies half-way.  An interrupted
\* iteration relies on the note of its reconciliation, which a crash in between
\* can lose; a driver that raises, on nobody (Iteration_forgotten.cfg).
HonestOutcome ==
  row.outcome = "COMPLETE" /\ ~row.interrupted /\ ~abandoned
    => /\ \A s \in Stage : runs[s] = "COMPLETE"
       /\ queue.gaps = {} /\ queue.outstanding = {}
       /\ ~row.retry

\* Between requests the pointer splits the pipeline: everything before it has
\* ended, nothing from it on has left a record.  And a note does not outlive
\* the record of the stage it speaks of (stages.py 501-509: _finish reads notes,
\* so a stale one degrades the outcome for good).
PointerIsNext(S) ==
  Up /\ task.kind = "idle" /\ ~row.finished /\ ~row.interrupted
    => \A s \in S : IF s < row.stage THEN Accounted(s)
                                     ELSE runs[s] = "none"
NoteHasStage(S) == \A s \in notes \cap S : runs[s] # "none" \/ s \in row.skipped

AgreeOn(S) == PointerIsNext(S) /\ NoteHasStage(S)

\* Pointer, records and notes are three tables that each step and each discard
\* writes one after the other.  Of every stage whose last writing was not cut
\* off they agree, in whatever order an operator steps and discards, and
\* whatever was cut off elsewhere.
RecordsAgree == AgreeOn(Stage \ torn)

-----------------------------------------------------------------------------
(* What the code says and does not keep.                                   *)

\* orchestrator.py 879: FAILED is reserved for a prerequisite that never ran.
FailedMeansUnseeded ==
  row.outcome = "FAILED" /\ row.error = "critical" => queue.seeded # "all"

\* runner.py 285: a row stuck mid-stage reads as still running for ever; the
\* worker's _fail leaves none, a step that raises does (Iteration_raised).
NeverGhost == NoGhostAmong(Stage)

\* stages.py 500: the rows and the notes are one record.  They are discarded in
\* separate transactions, so a crash in between parts them (Iteration_torn).
AlwaysAgree == AgreeOn(Stage)

=============================================================================
