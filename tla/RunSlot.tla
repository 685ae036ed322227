------------------------------ MODULE RunSlot ------------------------------
(***************************************************************************)
(* The run slot of one session: how several processes that share the       *)
(* database decide which of them may run an iteration of it.               *)
(*                                                                         *)
(* A process opens an epoch and reconciles what earlier ones left, serves  *)
(* requests, and stops, cleanly or not.  A request that runs an iteration  *)
(* takes two locks: one in the memory of its process (here: the task of    *)
(* the process is not idle) and the slot in the sessions row.  Every step  *)
(* is one database statement, or statements that no other process can tell *)
(* apart, so the steps of different processes interleave.                  *)
(***************************************************************************)
EXTENDS Integers, FiniteSets

CONSTANTS Proc,             \* the processes, `run.py serve` or `run.py iterate`
          HostOf,           \* the machine each of them runs on
          Ops,              \* the requests that reach them
          PidReuse,         \* whether a dead process's pid may name another
          MaxIterations,    \* bound: rows of `iterations`
          MaxEpochs         \* bound: rows of `process_epochs`

Submissions == {"trigger", "retry"}
Recoveries == {"resume", "finalise", "close"}
AllOps == Submissions \cup Recoveries
            \cup {"create", "step", "iterate", "discard"}

ASSUME BoundsAssumption == MaxIterations \in Nat /\ MaxEpochs \in Nat
ASSUME OpsAssumption == Ops \subseteq AllOps
ASSUME SwitchesAssumption == PidReuse \in BOOLEAN

VARIABLES epoch,      \* rows of process_epochs: how each ended, and its host
          lastEpoch,  \* the highest epoch_id given out
          proc,       \* what each process is doing, and its epoch
          iteration,  \* rows of `iterations`
          lastIter,   \* the highest iteration_id given out, also the last seq
          slot,       \* sessions.running_iteration_id and running_epoch_id
          task,       \* what holds the memory lock of each process
          request     \* a recovery request that has passed _plan_or_409

vars == <<epoch, lastEpoch, proc, iteration, lastIter, slot, task, request>>

Epoch == 1..MaxEpochs
Iteration == 1..MaxIterations
Null == 0

\* UNKNOWN is written onto a predecessor that never recorded its own end.
Kinds == {"NEW", "OPEN", "CLEAN", "TIMEOUT", "UNKNOWN"}
States == {"down", "booting", "up", "stopping"}

NewTask(pc, op, i) == [pc |-> pc, op |-> op, iter |-> i, seq |-> Null]
Idle == NewTask("idle", "none", Null)
NoRequest == [op |-> "none", iter |-> Null]
Free == [iter |-> Null, epoch |-> Null]
Down == [state |-> "down", epoch |-> Null, alive |-> {}]

\* The positions of a task that has an iteration of its own.
WithIteration == {"claiming", "losing", "queued", "running", "releasing"}
WithSlot == {"queued", "running", "releasing"}
Pcs == {"idle", "checking", "numbering", "inserting", "stepping"}
         \cup WithIteration

EpochRow == [kind : Kinds, host : {HostOf[p] : p \in Proc} \cup {"none"}]
ProcRow == [state : States, epoch : Epoch \cup {Null}, alive : SUBSET Epoch]
IterationRow == [state : {"absent", "open", "closed"},
                 owner : Epoch \cup {Null}, interrupted : BOOLEAN]
SlotRow == [iter : Iteration \cup {Null}, epoch : Epoch \cup {Null}]
TaskRow == [pc : Pcs, op : AllOps \cup {"none"},
            iter : Iteration \cup {Null}, seq : Iteration \cup {Null}]
RequestRow == [op : Recoveries \cup {"none"}, iter : Iteration \cup {Null}]

TypeOK ==
  /\ epoch \in [Epoch -> EpochRow]
  /\ lastEpoch \in 0..MaxEpochs
  /\ proc \in [Proc -> ProcRow]
  /\ iteration \in [Iteration -> IterationRow]
  /\ lastIter \in 0..MaxIterations
  /\ slot \in SlotRow
  /\ task \in [Proc -> TaskRow]
  /\ request \in [Proc -> RequestRow]
  /\ \A i \in Iteration : iteration[i].state = "absent" <=> i > lastIter
  /\ \A p \in Proc : task[p].iter <= lastIter /\ request[p].iter <= lastIter

Init ==
  /\ epoch = [e \in Epoch |-> [kind |-> "NEW", host |-> "none"]]
  /\ lastEpoch = 0
  /\ proc = [p \in Proc |-> Down]
  /\ iteration = [i \in Iteration |->
                    [state |-> "absent", owner |-> Null, interrupted |-> FALSE]]
  /\ lastIter = 0
  /\ slot = Free
  /\ task = [p \in Proc |-> Idle]
  /\ request = [p \in Proc |-> NoRequest]

-----------------------------------------------------------------------------
(* Starting a process.                                                     *)

OpenEpochs == {e \in 1..lastEpoch : epoch[e].kind = "OPEN"}
OpenIterations == {i \in Iteration : iteration[i].state = "open"}

\* _still_alive: the pid answers a signal, and only pids of this host can be
\* tried.  With PidReuse a dead process's pid may answer for another program.
StillAlive(p, pids) ==
  {e \in OpenEpochs : epoch[e].host = HostOf[p] /\ e \in pids}

RunningPids == {proc[q].epoch : q \in {r \in Proc : proc[r].state # "down"}}

\* open_epoch, first half: record this process, then close every earlier open
\* epoch whose process is not seen alive.  Nothing makes it wait for a peer that
\* is starting too.
BootSweep(p) ==
  /\ proc[p].state = "down"
  /\ lastEpoch < MaxEpochs
  /\ lastEpoch' = lastEpoch + 1
  /\ \E reused \in IF PidReuse THEN SUBSET OpenEpochs ELSE {{}} :
       LET alive == StillAlive(p, RunningPids \cup reused)
       IN  /\ epoch' = [e \in Epoch |->
                 CASE e = lastEpoch + 1 ->
                        [kind |-> "OPEN", host |-> HostOf[p]]
                   [] e \in OpenEpochs \ alive ->
                        [epoch[e] EXCEPT !.kind = "UNKNOWN"]
                   [] OTHER -> epoch[e]]
           /\ proc' = [proc EXCEPT ![p] = [state |-> "booting",
                                           epoch |-> lastEpoch + 1,
                                           alive |-> alive]]
  /\ UNCHANGED <<iteration, lastIter, slot, task, request>>

StrandedAll(p) == {i \in OpenIterations :
                     iteration[i].owner \notin {Null, proc[p].epoch}}

\* unfinished_iterations minus those of the epochs the sweep saw alive.
Stranded(p) == {i \in OpenIterations :
                  iteration[i].owner \notin {Null, proc[p].epoch} \cup proc[p].alive}

SlotStaleByEndedAt(p) == /\ slot.epoch \in Epoch \ {proc[p].epoch}
                         /\ epoch[slot.epoch].kind \in {"CLEAN", "TIMEOUT"}

\* clear_stale_session_locks: the holder's epoch has been closed.
SlotStale(p) == /\ slot.epoch \in Epoch \ {proc[p].epoch}
                /\ epoch[slot.epoch].kind \in {"CLEAN", "TIMEOUT", "UNKNOWN"}

\* open_epoch, second half: mark what is stranded and free a stale slot.  Only
\* then does the process accept requests.
BootReconcile(p) ==
  /\ proc[p].state = "booting"
  /\ iteration' = [i \in Iteration |->
                     IF i \in Stranded(p)
                     THEN [iteration[i] EXCEPT !.interrupted = TRUE]
                     ELSE iteration[i]]
  /\ slot' = IF SlotStale(p) THEN Free ELSE slot
  /\ proc' = [proc EXCEPT ![p].state = "up", ![p].alive = {}]
  /\ UNCHANGED <<epoch, lastEpoch, lastIter, task, request>>

-----------------------------------------------------------------------------
(* Starting an iteration: submit, submit_retry_triage, create, the CLI.    *)

Up(p) == proc[p].state = "up"
At(p, pc) == proc[p].state \in {"up", "stopping"} /\ task[p].pc = pc
Goto(p, pc) == task' = [task EXCEPT ![p].pc = pc]
Drop(p) == task' = [task EXCEPT ![p] = Idle]

\* The memory lock is taken.  A submission reads the slot first and is refused
\* if it is held; create and the CLI do not look at it.
Begin(p, op) ==
  /\ Up(p) /\ task[p].pc = "idle"
  /\ op \in Ops \cap (Submissions \cup {"create", "iterate"})
  /\ op \in Submissions => slot = Free
  /\ task' = [task EXCEPT ![p] = NewTask("checking", op, Null)]
  /\ UNCHANGED <<epoch, lastEpoch, proc, iteration, lastIter, slot, request>>

BlockingInterrupted == {i \in OpenIterations : iteration[i].interrupted}

\* open_iterations: every row that has not finished, interrupted or not.
Blocking == OpenIterations

\* start and prepare_retry_triage refuse while any iteration is open; a retry
\* also needs a closed parent.
CheckOpen(p) ==
  /\ At(p, "checking")
  /\ LET parent == \E i \in Iteration : iteration[i].state = "closed"
     IN  IF Blocking = {} /\ (task[p].op = "retry" => parent)
         THEN Goto(p, "numbering")
         ELSE Drop(p)
  /\ UNCHANGED <<epoch, lastEpoch, proc, iteration, lastIter, slot, request>>

\* insert_iteration reads MAX(seq) + 1 ...
ReadSeq(p) ==
  /\ At(p, "numbering")
  /\ lastIter < MaxIterations
  /\ task' = [task EXCEPT ![p].pc = "inserting", ![p].seq = lastIter + 1]
  /\ UNCHANGED <<epoch, lastEpoch, proc, iteration, lastIter, slot, request>>

NextPc(op) == IF op = "iterate" THEN "running" ELSE "claiming"

UnownedRow(p) == [state |-> "open", owner |-> Null, interrupted |-> FALSE]
NewRow(p) == [state |-> "open", owner |-> proc[p].epoch, interrupted |-> FALSE]

\* ... and inserts the row, unless another process has used the number: then
\* UNIQUE(session_id, seq) raises and the lock is released.
Insert(p) ==
  /\ At(p, "inserting")
  /\ IF task[p].seq = lastIter + 1
     THEN /\ lastIter' = task[p].seq
          /\ iteration' = [iteration EXCEPT ![task[p].seq] = NewRow(p)]
          /\ IF task[p].op = "create"
             THEN Drop(p)
             ELSE task' = [task EXCEPT ![p].pc = NextPc(task[p].op),
                                       ![p].iter = task[p].seq]
     ELSE Drop(p) /\ UNCHANGED <<lastIter, iteration>>
  /\ UNCHANGED <<epoch, lastEpoch, proc, slot, request>>

-----------------------------------------------------------------------------
(* Taking the slot, running, giving it back.                               *)

CanClaimAlways(i) == TRUE

\* try_claim_session: one conditional UPDATE, true also for the iteration that
\* holds the slot already.
CanClaim(i) == slot.iter \in {Null, i}

Claim(p) ==
  /\ At(p, "claiming")
  /\ IF CanClaim(task[p].iter)
     THEN /\ slot' = [iter |-> task[p].iter, epoch |-> proc[p].epoch]
          /\ Goto(p, "queued")
     ELSE /\ UNCHANGED slot
          /\ IF task[p].op \in Submissions THEN Goto(p, "losing") ELSE Drop(p)
  /\ UNCHANGED <<epoch, lastEpoch, proc, iteration, lastIter, request>>

DeleteIteration(i) == iteration' = [iteration EXCEPT ![i].state = "absent"]
CloseIteration(i) == iteration' = [iteration EXCEPT ![i].state = "closed"]

ForgetLoser(p) ==
  /\ At(p, "losing")
  /\ Drop(p)
  /\ UNCHANGED <<epoch, lastEpoch, proc, iteration, lastIter, slot, request>>

\* A submission that lost the slot closes the row it inserted, FAILED.
CloseLoser(p) ==
  /\ At(p, "losing")
  /\ CloseIteration(task[p].iter)
  /\ Drop(p)
  /\ UNCHANGED <<epoch, lastEpoch, proc, lastIter, slot, request>>

\* A worker thread of the pool takes the task.
StartWork(p) ==
  /\ At(p, "queued")
  /\ Goto(p, "running")
  /\ UNCHANGED <<epoch, lastEpoch, proc, iteration, lastIter, slot, request>>

\* The stages are over: _finish, or _fail if the driver raised.  The CLI holds
\* no slot to give back.
FinishWork(p) ==
  /\ At(p, "running")
  /\ CloseIteration(task[p].iter)
  /\ IF task[p].op = "iterate" THEN Drop(p) ELSE Goto(p, "releasing")
  /\ UNCHANGED <<epoch, lastEpoch, proc, lastIter, slot, request>>

SlotAfterAnyRelease(i) == Free

\* release_session clears the slot only if this iteration still holds it.
SlotAfterRelease(i) == IF slot.iter = i THEN Free ELSE slot

Release(p) ==
  /\ At(p, "releasing")
  /\ slot' = SlotAfterRelease(task[p].iter)
  /\ Drop(p)
  /\ UNCHANGED <<epoch, lastEpoch, proc, iteration, lastIter, request>>

-----------------------------------------------------------------------------
(* Manual steps and the two exits of an unfinished iteration.              *)

\* One stage under the memory lock alone.
BeginStep(p, i) ==
  /\ "step" \in Ops /\ Up(p) /\ task[p].pc = "idle"
  /\ iteration[i].state = "open" /\ ~iteration[i].interrupted
  /\ task' = [task EXCEPT ![p] = NewTask("stepping", "step", i)]
  /\ UNCHANGED <<epoch, lastEpoch, proc, iteration, lastIter, slot, request>>

\* The last stage, or a critical one that failed, closes the iteration.
EndStep(p) ==
  /\ At(p, "stepping")
  /\ \/ CloseIteration(task[p].iter)
     \/ UNCHANGED iteration
  /\ Drop(p)
  /\ UNCHANGED <<epoch, lastEpoch, proc, lastIter, slot, request>>

\* _plan_or_409: the iteration has not finished.  No lock is held, so this may
\* be out of date when the request acts on it.
AskRecovery(p, op, i) ==
  /\ Up(p) /\ request[p] = NoRequest
  /\ op \in Ops \cap Recoveries
  /\ iteration[i].state = "open"
  /\ request' = [request EXCEPT ![p] = [op |-> op, iter |-> i]]
  /\ UNCHANGED <<epoch, lastEpoch, proc, iteration, lastIter, slot, task>>

TakeOver(p, i) == iteration' = [iteration EXCEPT ![i].owner = proc[p].epoch]

\* prepare_resume and abandon make this process the owner before anything is
\* locked; then the run is submitted, or refused if the process is busy.
SubmitRecovery(p) ==
  /\ Up(p) /\ request[p].op \in {"resume", "finalise"}
  /\ TakeOver(p, request[p].iter)
  /\ IF task[p].pc = "idle"
     THEN task' = [task EXCEPT ![p] = NewTask("claiming", request[p].op,
                                                  request[p].iter)]
     ELSE UNCHANGED task
  /\ request' = [request EXCEPT ![p] = NoRequest]
  /\ UNCHANGED <<epoch, lastEpoch, proc, lastIter, slot>>

\* discard_last makes an iteration unfinished again (`finished_at = NULL`) under
\* the memory lock alone, whatever else is open.  Of its statements no other one
\* touches what is modelled here, so the lock is taken and given back in one step.
Discard(p, i) ==
  /\ "discard" \in Ops /\ Up(p) /\ task[p].pc = "idle"
  /\ iteration[i].state # "absent"
  /\ iteration' = [iteration EXCEPT ![i].state = "open"]
  /\ UNCHANGED <<epoch, lastEpoch, proc, lastIter, slot, task, request>>

\* Abandoning without scoring closes the row and takes no lock at all.
CloseAbandoned(p) ==
  /\ Up(p) /\ request[p].op = "close"
  /\ iteration' = [iteration EXCEPT ![request[p].iter] =
                     [@ EXCEPT !.owner = proc[p].epoch, !.state = "closed"]]
  /\ request' = [request EXCEPT ![p] = NoRequest]
  /\ UNCHANGED <<epoch, lastEpoch, proc, lastIter, slot, task>>

-----------------------------------------------------------------------------
(* Stopping a process.                                                     *)

\* Bound: a process stops only while every stopped one can still be restarted.
MayStop == lastEpoch + Cardinality({p \in Proc : ~Up(p)}) < MaxEpochs

Vanish(p) == /\ proc' = [proc EXCEPT ![p] = Down]
             /\ task' = [task EXCEPT ![p] = Idle]
             /\ request' = [request EXCEPT ![p] = NoRequest]

Crash(p) ==
  /\ proc[p].state \in {"up", "booting"} /\ MayStop
  /\ Vanish(p)
  /\ UNCHANGED <<epoch, lastEpoch, iteration, lastIter, slot>>

EndEpoch(p, kind) == epoch' = [epoch EXCEPT ![proc[p].epoch].kind = kind]

\* Requests have drained and no worker is inside a run.  A queued task is
\* cancelled and never gives its slot back; nor may one whose worker has left
\* `_active` and is about to, because running() no longer reports it.
ShutdownClean(p) ==
  /\ Up(p) /\ MayStop /\ request[p] = NoRequest
  /\ task[p].pc \in {"idle", "queued", "releasing"}
  /\ EndEpoch(p, "CLEAN")
  /\ Vanish(p)
  /\ UNCHANGED <<lastEpoch, iteration, lastIter, slot>>

\* The bounded wait expired: the epoch is closed while the worker still runs,
\* and the process ends a little later.
ShutdownTimeout(p) ==
  /\ Up(p) /\ MayStop /\ request[p] = NoRequest
  /\ task[p].pc = "running"
  /\ EndEpoch(p, "TIMEOUT")
  /\ proc' = [proc EXCEPT ![p].state = "stopping"]
  /\ UNCHANGED <<lastEpoch, iteration, lastIter, slot, task, request>>

Exit(p) ==
  /\ proc[p].state = "stopping"
  /\ Vanish(p)
  /\ UNCHANGED <<epoch, lastEpoch, iteration, lastIter, slot>>

-----------------------------------------------------------------------------

Boot(p) == BootSweep(p) \/ BootReconcile(p)
Advance(p) == \/ CheckOpen(p) \/ ReadSeq(p) \/ Insert(p)
              \/ Claim(p) \/ CloseLoser(p)
              \/ StartWork(p) \/ FinishWork(p) \/ Release(p) \/ EndStep(p)
Answer(p) == SubmitRecovery(p) \/ CloseAbandoned(p)
Stop(p) == Crash(p) \/ ShutdownClean(p) \/ ShutdownTimeout(p)
Serve(p) == \/ \E op \in Ops : Begin(p, op)
            \/ \E i \in Iteration : BeginStep(p, i)
            \/ \E op \in Ops, i \in Iteration : AskRecovery(p, op, i)

Next == \E p \in Proc : \/ Boot(p) \/ Serve(p) \/ Advance(p) \/ Answer(p)
                        \/ Stop(p) \/ Exit(p)
                        \/ \E i \in Iteration : Discard(p, i)

Spec == Init /\ [][Next]_vars

\* A process that is down is started again, threads and requests are scheduled
\* and a run ends (every vendor call has a timeout).  Requests need not come.
Fairness == \A p \in Proc : WF_vars(Boot(p)) /\ WF_vars(Advance(p))
                            /\ WF_vars(Answer(p)) /\ WF_vars(Exit(p))

FairSpec == Spec /\ Fairness

-----------------------------------------------------------------------------
(* Properties.                                                             *)

Running(p) == Up(p) /\ task[p].pc \in {"running", "stepping"}

\* A session runs one iteration at a time, in whichever process (schema.sql
\* 43-53): two runs would seed the same queries and race the same rows.
OneRunPerSession ==
  \A p, q \in Proc : Running(p) /\ Running(q) => p = q

\* A worker that took the slot keeps it until it gives it back itself: neither
\* a peer's claim or late release nor a peer's startup takes it away.
RunnerHoldsSlot ==
  \A p \in Proc : Up(p) /\ task[p].pc \in WithSlot /\ task[p].op # "iterate"
                    => slot = [iter |-> task[p].iter, epoch |-> proc[p].epoch]

\* The row of a running iteration names the epoch that runs it; the next
\* startup reads nothing else to tell a run in flight from an interrupted one.
RunnerOwns ==
  \A p \in Proc : Running(p) /\ task[p].pc = "running"
                    => iteration[task[p].iter].owner = proc[p].epoch

\* No open row belongs to a live process that is not working on it: whoever
\* loses the slot closes its row, or it would read as running for ever.
NoOrphan ==
  \A p \in Proc, i \in OpenIterations :
     Up(p) /\ iteration[i].owner = proc[p].epoch
       => task[p].iter = i /\ task[p].pc \in WithIteration

\* Owner and worker name each other: the next startup judges a run by its owner.
OwnerIsWorker == RunnerOwns /\ NoOrphan

\* A new iteration is refused while one is unfinished: a row appears only when
\* no other is open, so that the cooldown of an outstanding run cannot silence
\* the queries of the new one.
OpensAlone ==
  [][\A i \in Iteration :
       iteration[i].state = "absent" /\ iteration'[i].state = "open"
         => OpenIterations = {}]_vars

\* What a caller sees of an iteration.  A run whose process has closed its epoch
\* and is about to end counts as over, as the next startup counts it.
Served(i, pcs) == \E p \in Proc : task[p].iter = i /\ task[p].pc \in pcs /\ Up(p)
Status(i) == IF i > lastIter THEN "absent"
             ELSE IF Served(i, {"running"}) THEN "running"
             ELSE IF Served(i, {"claiming", "losing", "queued"}) THEN "waiting"
             ELSE "over"

\* The promise of schema.sql 43-53, over claims, lost races, crashes, restarts
\* and recycled pids: an iteration is run at most once, and alone.
Abstract == INSTANCE Session WITH status <- [i \in Iteration |-> Status(i)]
ServesAsSession == Abstract!Spec

\* Reconciling marks no iteration that a process which was there first, and is
\* still there, is running: its work would be reported as interrupted.
LivePeerSpared ==
  [][\A p, q \in Proc :
       /\ Running(p) /\ proc[p].epoch < proc[q].epoch
       /\ proc[q].state = "booting" /\ proc'[q].state = "up"
       => iteration'[task[p].iter].interrupted = iteration[task[p].iter].interrupted]_vars

\* A slot whose holder is gone is freed by a later startup; without that the
\* session could never run again.
HolderGone == /\ slot.epoch # Null
              /\ \A p \in Proc : proc[p].epoch # slot.epoch
SlotIsFreed == HolderGone ~> ~HolderGone

\* Every iteration closes or is reported interrupted; none stays open unseen.
NoneStranded ==
  \A i \in Iteration :
     iteration[i].state = "open"
       ~> (iteration[i].state = "closed" \/ iteration[i].interrupted)

-----------------------------------------------------------------------------
(* What the code says and does not keep.                                   *)

\* "Reconciling a LIVE peer's iterations would mark work interrupted while it is
\* still running", yet a startup spares only the epochs its own sweep saw: a
\* process that has started and begun a run since is marked (RunSlot_overlap).
AnyPeerSpared ==
  [][\A p \in Proc : Running(p) /\ Running(p)' /\ task[p].iter = task[p].iter'
       => iteration[task[p].iter].interrupted = iteration'[task[p].iter].interrupted]_vars

\* At most one iteration of a session is open.  A discard reopens a closed one
\* without looking for another (RunSlot_discard).
OneOpenIteration == \A i, j \in OpenIterations : i = j

=============================================================================
