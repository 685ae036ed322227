--------------------------- MODULE RunSlotProofs ---------------------------
(***************************************************************************)
(* Theorems of RunSlot, for any number of processes, epochs and            *)
(* iterations.  When processes share one host and receive only the         *)
(* requests that create an iteration and run it on a worker: mutual        *)
(* exclusion of the run slot, who owns an open row, and what a startup may *)
(* judge of its peers.  Of one process alone, with every operation: that a *)
(* new iteration opens only when no other is open.  At the end: RunSlot    *)
(* implements Session.                                                     *)
(***************************************************************************)
EXTENDS RunSlot, TLAPS

\* The two hypotheses.  RunSlot_resume and RunSlot_hosts show that neither can
\* be dropped.
OneHost == \A p, q \in Proc : HostOf[p] = HostOf[q]
OnlySubmissions == Ops \subseteq Submissions

Alive(p) == proc[p].state \in {"booting", "up"}
HasIteration(p) == task[p].pc \in WithIteration

\* A process that is starting or serving has an open epoch of its own.  This is
\* what keeps a peer's sweep off it.
EpochInv ==
  /\ \A p \in Proc : Alive(p) => /\ proc[p].epoch \in 1..lastEpoch
                                 /\ epoch[proc[p].epoch].kind = "OPEN"
                                 /\ epoch[proc[p].epoch].host = HostOf[p]
  /\ \A p, q \in Proc : Alive(p) /\ Alive(q) /\ proc[p].epoch = proc[q].epoch
                          => p = q

\* Only a process that serves, or that is stopping with its worker still
\* running, holds its memory lock.
TaskInv ==
  \A p \in Proc : /\ proc[p].state \in {"down", "booting"} => task[p] = Idle
                  /\ task[p].op \in Submissions \cup {"none"}
                  /\ task[p].pc # "idle" => task[p].op \in Submissions
                  /\ task[p].pc # "stepping"

\* Each running task has an iteration that no other task has.
IterInv ==
  /\ \A p \in Proc : HasIteration(p) => task[p].iter \in 1..lastIter
  /\ \A p, q \in Proc :
       HasIteration(p) /\ HasIteration(q) /\ task[p].iter = task[q].iter => p = q

RequestInv == \A p \in Proc : request[p] = NoRequest

SlotInv == \A p \in Proc : Up(p) /\ task[p].pc \in WithSlot
             => slot = [iter |-> task[p].iter, epoch |-> proc[p].epoch]

IInv == TypeOK /\ EpochInv /\ TaskInv /\ IterInv /\ RequestInv /\ SlotInv

-----------------------------------------------------------------------------
(* Updating one field keeps a row well typed.                              *)

LEMMA Rows ==
  /\ Idle \in TaskRow /\ NoRequest \in RequestRow /\ Free \in SlotRow
  /\ Down \in ProcRow
BY BoundsAssumption DEF Idle, NewTask, NoRequest, Free, Down, TaskRow, RequestRow, SlotRow,
   ProcRow, Null, Pcs, States

LEMMA TaskUpdate ==
  \A t \in TaskRow : /\ \A pc \in Pcs : [t EXCEPT !.pc = pc] \in TaskRow
                     /\ \A op \in AllOps : [t EXCEPT !.op = op] \in TaskRow
                     /\ \A i \in Iteration : /\ [t EXCEPT !.iter = i] \in TaskRow
                                             /\ [t EXCEPT !.iter = i].iter = i
                                             /\ [t EXCEPT !.seq = i] \in TaskRow
                     /\ t.iter \in Iteration \cup {Null}
                     /\ t.seq \in Iteration \cup {Null}
BY DEF TaskRow

LEMMA PcNames ==
  /\ {"idle", "checking", "numbering", "inserting", "stepping"} \subseteq Pcs
  /\ {"claiming", "losing", "queued", "running", "releasing"} \subseteq Pcs
BY DEF Pcs, WithIteration

LEMMA IterationUpdate ==
  \A r \in IterationRow :
     /\ [r EXCEPT !.state = "closed"] \in IterationRow
     /\ [r EXCEPT !.state = "closed"].state = "closed"
     /\ [r EXCEPT !.interrupted = TRUE] \in IterationRow
     /\ [r EXCEPT !.interrupted = TRUE].state = r.state
     /\ \A e \in Epoch \cup {Null} : /\ [r EXCEPT !.owner = e] \in IterationRow
                                     /\ [r EXCEPT !.owner = e].state = r.state
BY DEF IterationRow

LEMMA Reopened ==
  \A r \in IterationRow : /\ [r EXCEPT !.state = "open"] \in IterationRow
                          /\ [r EXCEPT !.state = "open"].state = "open"
BY DEF IterationRow

LEMMA ProcUpdate ==
  \A r \in ProcRow : /\ \A st \in States : [r EXCEPT !.state = st] \in ProcRow
                     /\ [r EXCEPT !.alive = {}] \in ProcRow
                     /\ r.epoch \in Epoch \cup {Null}
BY DEF ProcRow

LEMMA EpochUpdate ==
  \A r \in EpochRow : \A k \in Kinds : [r EXCEPT !.kind = k] \in EpochRow
BY DEF EpochRow

-----------------------------------------------------------------------------
(* Type correctness, for every set of requests.                            *)

LEMMA TypeInit == Init => TypeOK
<1> SUFFICES ASSUME Init PROVE TypeOK
  OBVIOUS
<1>1. epoch \in [Epoch -> EpochRow]
  BY DEF Init, EpochRow, Kinds
<1>2. iteration \in [Iteration -> IterationRow]
  BY DEF Init, IterationRow, Null
<1>3. \A i \in Iteration : iteration[i].state = "absent" /\ i > 0
  BY DEF Init, Iteration
<1>4. \A p \in Proc : task[p].iter = 0 /\ request[p].iter = 0
  BY DEF Init, Idle, NewTask, NoRequest, Null
<1>5. slot \in SlotRow /\ proc \in [Proc -> ProcRow] /\ task \in [Proc -> TaskRow]
      /\ request \in [Proc -> RequestRow]
  BY Rows DEF Init
<1>6. lastEpoch \in 0..MaxEpochs /\ lastIter \in 0..MaxIterations /\ lastIter = 0
  BY BoundsAssumption DEF Init
<1> QED
  BY <1>1, <1>2, <1>3, <1>4, <1>5, <1>6 DEF TypeOK

\* A step that changes the tasks alone, to one that names no later row.
LEMMA TaskStepType ==
  ASSUME TypeOK, NEW p \in Proc, NEW t \in TaskRow,
         task' = [task EXCEPT ![p] = t], t.iter <= lastIter,
         UNCHANGED <<epoch, lastEpoch, proc, iteration, lastIter, slot, request>>
  PROVE  TypeOK'
<1>1. task' \in [Proc -> TaskRow]
  BY DEF TypeOK
<1>2. \A q \in Proc : task'[q].iter <= lastIter
  BY DEF TypeOK
<1> QED
  BY <1>1, <1>2 DEF TypeOK

LEMMA GotoType ==
  ASSUME TypeOK, NEW p \in Proc, NEW pc \in Pcs, Goto(p, pc),
         UNCHANGED <<epoch, lastEpoch, proc, iteration, lastIter, slot, request>>
  PROVE  TypeOK'
<1> DEFINE t == [task[p] EXCEPT !.pc = pc]
<1>1. t \in TaskRow /\ t.iter = task[p].iter
  BY TaskUpdate DEF TypeOK, TaskRow
<1>2. task' = [task EXCEPT ![p] = t]
  BY DEF Goto
<1> QED
  BY <1>1, <1>2, TaskStepType DEF TypeOK

LEMMA DropType ==
  ASSUME TypeOK, NEW p \in Proc, Drop(p),
         UNCHANGED <<epoch, lastEpoch, proc, iteration, lastIter, slot, request>>
  PROVE  TypeOK'
BY Rows, TaskStepType, BoundsAssumption DEF Drop, Idle, NewTask, Null, TypeOK

\* Types that survive a change of the tasks, the slot and the iterations' rows,
\* as long as no row appears or disappears.
LEMMA WorkType ==
  ASSUME TypeOK, NEW p \in Proc, NEW t \in TaskRow, t.iter <= lastIter,
         task' = [task EXCEPT ![p] = t],
         slot' \in SlotRow, iteration' \in [Iteration -> IterationRow],
         \A i \in Iteration : iteration'[i].state = "absent"
                                <=> iteration[i].state = "absent",
         UNCHANGED <<epoch, lastEpoch, proc, lastIter, request>>
  PROVE  TypeOK'
<1>1. task' \in [Proc -> TaskRow] /\ \A q \in Proc : task'[q].iter <= lastIter
  BY DEF TypeOK
<1> QED
  BY <1>1 DEF TypeOK

LEMMA CloseType ==
  ASSUME TypeOK, NEW i \in Iteration \cup {Null}, i <= lastIter, CloseIteration(i)
  PROVE  /\ iteration' \in [Iteration -> IterationRow]
         /\ \A j \in Iteration : iteration'[j].state = "absent"
                                   <=> iteration[j].state = "absent"
<1> DEFINE r == [iteration[i] EXCEPT !.state = "closed"]
<1>1. iteration' = [iteration EXCEPT ![i] = r]
  BY DEF CloseIteration
<1>2. CASE i = Null
  <2>1. i \notin Iteration
    BY <1>2, BoundsAssumption DEF Iteration, Null
  <2>2. iteration' = iteration
    BY <1>1, <2>1 DEF TypeOK
  <2> QED
    BY <2>2 DEF TypeOK
<1>3. CASE i \in Iteration
  <2>1. r \in IterationRow /\ r.state = "closed"
    BY <1>3, IterationUpdate DEF TypeOK
  <2>2. iteration[i].state # "absent"
    BY <1>3, BoundsAssumption DEF TypeOK, Iteration
  <2> QED
    BY <1>1, <1>3, <2>1, <2>2 DEF TypeOK
<1> QED
  BY <1>2, <1>3

LEMMA TypeStep == TypeOK /\ [Next]_vars => TypeOK'
<1> SUFFICES ASSUME TypeOK, [Next]_vars PROVE TypeOK'
  OBVIOUS
<1>0. \A p \in Proc : /\ task[p] \in TaskRow /\ request[p] \in RequestRow
                      /\ proc[p] \in ProcRow
  BY DEF TypeOK
<1>1. ASSUME NEW p \in Proc, BootSweep(p) PROVE TypeOK'
  <2>1. PICK alive \in SUBSET OpenEpochs :
          /\ epoch' = [e \in Epoch |->
                 CASE e = lastEpoch + 1 ->
                        [kind |-> "OPEN", host |-> HostOf[p]]
                   [] e \in OpenEpochs \ alive ->
                        [epoch[e] EXCEPT !.kind = "UNKNOWN"]
                   [] OTHER -> epoch[e]]
          /\ proc' = [proc EXCEPT ![p] = [state |-> "booting",
                                          epoch |-> lastEpoch + 1,
                                          alive |-> alive]]
    BY <1>1 DEF BootSweep, StillAlive
  <2>2. lastEpoch + 1 \in Epoch /\ alive \subseteq Epoch
    BY <1>1, BoundsAssumption DEF BootSweep, TypeOK, Epoch, OpenEpochs
  <2>3. [kind |-> "OPEN", host |-> HostOf[p]] \in EpochRow
    BY DEF EpochRow, Kinds
  <2>4. \A e \in Epoch : [epoch[e] EXCEPT !.kind = "UNKNOWN"] \in EpochRow
    BY EpochUpdate DEF TypeOK, Kinds
  <2>5. epoch' \in [Epoch -> EpochRow]
    BY <2>1, <2>3, <2>4 DEF TypeOK
  <2>6. [state |-> "booting", epoch |-> lastEpoch + 1, alive |-> alive] \in ProcRow
    BY <2>2 DEF ProcRow, States
  <2>7. proc' \in [Proc -> ProcRow]
    BY <2>1, <2>6 DEF TypeOK
  <2>8. lastEpoch' \in 0..MaxEpochs
    BY <1>1, <2>2, BoundsAssumption DEF BootSweep, Epoch
  <2> QED
    BY <1>1, <2>5, <2>7, <2>8 DEF BootSweep, TypeOK
<1>2. ASSUME NEW p \in Proc, BootReconcile(p) PROVE TypeOK'
  <2>1. /\ iteration' \in [Iteration -> IterationRow]
        /\ \A i \in Iteration : iteration'[i].state = iteration[i].state
    <3> DEFINE marked(i) == [iteration[i] EXCEPT !.interrupted = TRUE]
    <3>1. \A i \in Iteration : marked(i) \in IterationRow
                               /\ marked(i).state = iteration[i].state
      BY IterationUpdate DEF TypeOK
    <3>2. iteration' = [i \in Iteration |->
                          IF i \in Stranded(p) THEN marked(i) ELSE iteration[i]]
      BY <1>2 DEF BootReconcile
    <3> QED
      BY <3>1, <3>2 DEF TypeOK
  <2>2. [proc[p] EXCEPT !.state = "up"] \in ProcRow
    BY <1>0, ProcUpdate DEF States
  <2>3. [[proc[p] EXCEPT !.state = "up"] EXCEPT !.alive = {}] \in ProcRow
    BY <2>2, ProcUpdate
  <2>4. proc' \in [Proc -> ProcRow]
    BY <1>2, <2>3 DEF BootReconcile, TypeOK
  <2>5. slot' \in SlotRow
    BY <1>2, Rows DEF BootReconcile, TypeOK
  <2> QED
    BY <1>2, <2>1, <2>4, <2>5 DEF BootReconcile, TypeOK
<1>3. ASSUME NEW p \in Proc, CheckOpen(p) PROVE TypeOK'
  BY <1>3, GotoType, DropType, PcNames DEF CheckOpen
<1>4. ASSUME NEW p \in Proc, ReadSeq(p) PROVE TypeOK'
  <2> DEFINE t == [[task[p] EXCEPT !.pc = "inserting"] EXCEPT !.seq = lastIter + 1]
  <2>1. lastIter + 1 \in Iteration
    BY <1>4, BoundsAssumption DEF ReadSeq, TypeOK, Iteration
  <2>2. [task[p] EXCEPT !.pc = "inserting"] \in TaskRow
    BY <1>0, TaskUpdate, PcNames
  <2>3. t \in TaskRow
    BY <2>1, <2>2, TaskUpdate
  <2>4. t.iter = task[p].iter
    BY <1>0 DEF TaskRow
  <2>5. task' = [task EXCEPT ![p] = t]
    BY <1>4 DEF ReadSeq
  <2> QED
    BY <1>4, <2>3, <2>4, <2>5, TaskStepType DEF ReadSeq, TypeOK
<1>5. ASSUME NEW p \in Proc, Insert(p) PROVE TypeOK'
  <2>1. CASE task[p].seq # lastIter + 1
    BY <1>5, <2>1, DropType DEF Insert
  <2>2. CASE task[p].seq = lastIter + 1
    <3>1. lastIter + 1 \in Iteration
      BY <1>0, <2>2, BoundsAssumption DEF TaskRow, TypeOK, Null
    <3>2. lastIter' = lastIter + 1 /\ lastIter' \in 0..MaxIterations
      BY <1>5, <2>2, <3>1, BoundsAssumption DEF Insert, Iteration
    <3>3. NewRow(p) \in IterationRow /\ NewRow(p).state = "open"
      BY <1>0 DEF NewRow, IterationRow, ProcRow
    <3>4. iteration' = [iteration EXCEPT ![lastIter + 1] = NewRow(p)]
      BY <1>5, <2>2 DEF Insert
    <3>5. iteration' \in [Iteration -> IterationRow]
      BY <3>1, <3>3, <3>4 DEF TypeOK
    <3>6. \A i \in Iteration : iteration'[i].state = "absent" <=> i > lastIter'
      BY <3>1, <3>2, <3>3, <3>4, BoundsAssumption DEF TypeOK, Iteration
    <3>7. PICK t \in TaskRow : t.iter <= lastIter' /\ task' = [task EXCEPT ![p] = t]
      <4>1. CASE task[p].op = "create"
        BY <1>5, <2>2, <3>2, <4>1, Rows DEF Insert, Drop, Idle, NewTask, Null
      <4>2. CASE task[p].op # "create"
        <5> DEFINE pc == NextPc(task[p].op)
                   t == [[task[p] EXCEPT !.pc = pc] EXCEPT !.iter = lastIter + 1]
        <5>1. task' = [task EXCEPT ![p] = t]
          BY <1>5, <2>2, <4>2 DEF Insert
        <5>2. pc \in Pcs
          BY PcNames DEF NextPc
        <5>3. t \in TaskRow
          BY <1>0, <3>1, <5>2, TaskUpdate
        <5>4. t.iter = lastIter + 1
          BY <1>0, <3>1, <5>2, TaskUpdate
        <5>5. t.iter <= lastIter'
          BY <3>2, <5>4, BoundsAssumption
        <5> QED
          BY <5>1, <5>3, <5>5
      <4> QED
        BY <4>1, <4>2
    <3>8. task' \in [Proc -> TaskRow]
      BY <3>7 DEF TypeOK
    <3>9. \A q \in Proc : task'[q].iter <= lastIter' /\ request'[q].iter <= lastIter'
      <4>1. \A q \in Proc : task[q].iter \in Int /\ request[q].iter \in Int
        BY <1>0, BoundsAssumption DEF TaskRow, RequestRow, Iteration, Null
      <4>2. lastIter \in Int
        BY BoundsAssumption DEF TypeOK
      <4>3. \A q \in Proc : task[q].iter <= lastIter' /\ request[q].iter <= lastIter'
        BY <3>2, <4>1, <4>2 DEF TypeOK
      <4> QED
        BY <1>5, <3>7, <4>3 DEF Insert, TypeOK
    <3> QED
      BY <1>5, <3>2, <3>5, <3>6, <3>8, <3>9 DEF Insert, TypeOK
  <2> QED
    BY <2>1, <2>2
<1>6. ASSUME NEW p \in Proc, Claim(p) PROVE TypeOK'
  <2>1. CASE CanClaim(task[p].iter)
    <3> DEFINE t == [task[p] EXCEPT !.pc = "queued"]
    <3>1. t \in TaskRow /\ t.iter = task[p].iter
      BY <1>0, TaskUpdate, PcNames DEF TaskRow
    <3>2. slot' \in SlotRow
      BY <1>0, <1>6, <2>1 DEF Claim, SlotRow, TaskRow, ProcRow
    <3>3. task' = [task EXCEPT ![p] = t]
      BY <1>6, <2>1 DEF Claim, Goto
    <3> QED
      BY <1>6, <3>1, <3>2, <3>3, WorkType DEF Claim, TypeOK
  <2>2. CASE ~CanClaim(task[p].iter)
    BY <1>6, <2>2, GotoType, DropType, PcNames DEF Claim
  <2> QED
    BY <2>1, <2>2
<1>7. ASSUME NEW p \in Proc, CloseLoser(p) PROVE TypeOK'
  <2>1. /\ iteration' \in [Iteration -> IterationRow]
        /\ \A j \in Iteration : iteration'[j].state = "absent"
                                  <=> iteration[j].state = "absent"
    BY <1>0, <1>7, CloseType, TaskUpdate DEF CloseLoser, TypeOK
  <2>2. task' = [task EXCEPT ![p] = Idle] /\ Idle.iter <= lastIter
    BY <1>7, BoundsAssumption DEF CloseLoser, Drop, Idle, NewTask, Null, TypeOK
  <2> QED
    BY <1>7, <2>1, <2>2, Rows, WorkType DEF CloseLoser, TypeOK
<1>8. ASSUME NEW p \in Proc, StartWork(p) PROVE TypeOK'
  BY <1>8, GotoType, PcNames DEF StartWork
<1>9. ASSUME NEW p \in Proc, FinishWork(p) PROVE TypeOK'
  <2>1. /\ iteration' \in [Iteration -> IterationRow]
        /\ \A j \in Iteration : iteration'[j].state = "absent"
                                  <=> iteration[j].state = "absent"
    BY <1>0, <1>9, CloseType, TaskUpdate DEF FinishWork, TypeOK
  <2>2. PICK t \in TaskRow : t.iter <= lastIter /\ task' = [task EXCEPT ![p] = t]
    <3> DEFINE t == [task[p] EXCEPT !.pc = "releasing"]
    <3>1. t \in TaskRow /\ t.iter = task[p].iter
      BY <1>0, TaskUpdate, PcNames DEF TaskRow
    <3>2. Idle \in TaskRow /\ Idle.iter <= lastIter
      BY Rows, BoundsAssumption DEF Idle, NewTask, Null, TypeOK
    <3> QED
      BY <1>9, <3>1, <3>2 DEF FinishWork, Goto, Drop, TypeOK
  <2> QED
    BY <1>9, <2>1, <2>2, WorkType DEF FinishWork, TypeOK
<1>10. ASSUME NEW p \in Proc, Release(p) PROVE TypeOK'
  <2>1. task' = [task EXCEPT ![p] = Idle] /\ Idle.iter <= lastIter
    BY <1>10, BoundsAssumption DEF Release, Drop, Idle, NewTask, Null, TypeOK
  <2>2. slot' \in SlotRow
    BY <1>10, Rows DEF Release, SlotAfterRelease, TypeOK
  <2> QED
    BY <1>10, <2>1, <2>2, Rows, WorkType DEF Release, TypeOK
<1>11. ASSUME NEW p \in Proc, EndStep(p) PROVE TypeOK'
  <2>1. /\ iteration' \in [Iteration -> IterationRow]
        /\ \A j \in Iteration : iteration'[j].state = "absent"
                                  <=> iteration[j].state = "absent"
    BY <1>0, <1>11, CloseType, TaskUpdate DEF EndStep, TypeOK
  <2>2. task' = [task EXCEPT ![p] = Idle] /\ Idle.iter <= lastIter
    BY <1>11, BoundsAssumption DEF EndStep, Drop, Idle, NewTask, Null, TypeOK
  <2> QED
    BY <1>11, <2>1, <2>2, Rows, WorkType DEF EndStep, TypeOK
<1>12. ASSUME NEW p \in Proc, SubmitRecovery(p) PROVE TypeOK'
  <2> DEFINE i == request[p].iter
             r == [iteration[i] EXCEPT !.owner = proc[p].epoch]
  <2>1. i \in Iteration \cup {Null} /\ i <= lastIter
    BY <1>0 DEF RequestRow, TypeOK
  <2>2. /\ iteration' \in [Iteration -> IterationRow]
        /\ \A j \in Iteration : iteration'[j].state = "absent"
                                  <=> iteration[j].state = "absent"
    <3>1. iteration' = [iteration EXCEPT ![i] = r]
      BY <1>12 DEF SubmitRecovery, TakeOver
    <3>2. i \in Iteration => r \in IterationRow /\ r.state = iteration[i].state
      BY <1>0, IterationUpdate, ProcUpdate DEF TypeOK
    <3> QED
      BY <3>1, <3>2 DEF TypeOK
  <2>3. PICK t \in TaskRow : t.iter <= lastIter /\ task' = [task EXCEPT ![p] = t]
    <3>1. CASE task[p].pc = "idle"
      <4> DEFINE t == NewTask("claiming", request[p].op, i)
      <4>1. t = [pc |-> "claiming", op |-> request[p].op, iter |-> i, seq |-> Null]
        BY DEF NewTask
      <4>2. request[p].op \in AllOps
        BY <1>0, <1>12 DEF SubmitRecovery, RequestRow, AllOps, Recoveries
      <4>3. t \in TaskRow
        BY <2>1, <4>1, <4>2, PcNames DEF TaskRow
      <4>4. t.iter <= lastIter
        BY <2>1, <4>1
      <4>5. task' = [task EXCEPT ![p] = t]
        BY <1>12, <3>1 DEF SubmitRecovery
      <4> QED
        BY <4>3, <4>4, <4>5
    <3>2. CASE task[p].pc # "idle"
      BY <1>0, <1>12, <3>2 DEF SubmitRecovery, TypeOK
    <3> QED
      BY <3>1, <3>2
  <2>4. request' \in [Proc -> RequestRow] /\ \A q \in Proc : request'[q].iter <= lastIter
    BY <1>12, Rows, BoundsAssumption DEF SubmitRecovery, NoRequest, Null, TypeOK
  <2>5. task' \in [Proc -> TaskRow] /\ \A q \in Proc : task'[q].iter <= lastIter
    BY <2>3 DEF TypeOK
  <2> QED
    BY <1>12, <2>2, <2>4, <2>5 DEF SubmitRecovery, TypeOK
<1>13. ASSUME NEW p \in Proc, CloseAbandoned(p) PROVE TypeOK'
  <2> DEFINE i == request[p].iter
             r == [[iteration[i] EXCEPT !.owner = proc[p].epoch]
                     EXCEPT !.state = "closed"]
  <2>1. i \in Iteration \cup {Null} /\ i <= lastIter
    BY <1>0 DEF RequestRow, TypeOK
  <2>2. /\ iteration' \in [Iteration -> IterationRow]
        /\ \A j \in Iteration : iteration'[j].state = "absent"
                                  <=> iteration[j].state = "absent"
    <3>1. iteration' = [iteration EXCEPT ![i] = r]
      BY <1>13 DEF CloseAbandoned
    <3>2. i \in Iteration => r \in IterationRow /\ r.state = "closed"
      BY <1>0, IterationUpdate, ProcUpdate DEF TypeOK
    <3>3. i \in Iteration => iteration[i].state # "absent"
      BY <2>1, BoundsAssumption DEF TypeOK, Iteration
    <3> QED
      BY <3>1, <3>2, <3>3 DEF TypeOK
  <2>3. request' \in [Proc -> RequestRow] /\ \A q \in Proc : request'[q].iter <= lastIter
    BY <1>13, Rows, BoundsAssumption DEF CloseAbandoned, NoRequest, Null, TypeOK
  <2> QED
    BY <1>13, <2>2, <2>3 DEF CloseAbandoned, TypeOK
<1>14. ASSUME NEW p \in Proc, Vanish(p), epoch' \in [Epoch -> EpochRow],
              UNCHANGED <<lastEpoch, iteration, lastIter, slot>>
       PROVE  TypeOK'
  <2>1. /\ proc' \in [Proc -> ProcRow] /\ task' \in [Proc -> TaskRow]
        /\ request' \in [Proc -> RequestRow]
    BY <1>14, Rows DEF Vanish, TypeOK
  <2>2. \A q \in Proc : task'[q].iter <= lastIter /\ request'[q].iter <= lastIter
    BY <1>14, BoundsAssumption DEF Vanish, Idle, NewTask, NoRequest, Null, TypeOK
  <2> QED
    BY <1>14, <2>1, <2>2 DEF TypeOK
<1>15. ASSUME NEW p \in Proc, NEW kind \in Kinds, EndEpoch(p, kind)
       PROVE  epoch' \in [Epoch -> EpochRow]
  BY <1>15, EpochUpdate DEF EndEpoch, TypeOK
<1>16. ASSUME NEW p \in Proc, Stop(p) \/ Exit(p) PROVE TypeOK'
  <2>1. CASE Crash(p) \/ Exit(p)
    BY <1>14, <2>1 DEF Crash, Exit, TypeOK
  <2>2. CASE ShutdownClean(p)
    BY <1>14, <1>15, <2>2 DEF ShutdownClean, Kinds
  <2>3. CASE ShutdownTimeout(p)
    <3>1. epoch' \in [Epoch -> EpochRow]
      BY <1>15, <2>3 DEF ShutdownTimeout, Kinds
    <3>2. proc' \in [Proc -> ProcRow]
      BY <2>3, ProcUpdate DEF ShutdownTimeout, States, TypeOK
    <3> QED
      BY <2>3, <3>1, <3>2 DEF ShutdownTimeout, TypeOK
  <2> QED
    BY <1>16, <2>1, <2>2, <2>3 DEF Stop
<1>17. ASSUME NEW p \in Proc, NEW op \in Ops, Begin(p, op) PROVE TypeOK'
  <2> DEFINE t == NewTask("checking", op, Null)
  <2>1. t = [pc |-> "checking", op |-> op, iter |-> Null, seq |-> Null]
    BY DEF NewTask
  <2>2. t \in TaskRow /\ t.iter <= lastIter
    BY <2>1, OpsAssumption, BoundsAssumption, PcNames DEF TaskRow, TypeOK, Null
  <2>3. task' = [task EXCEPT ![p] = t]
    BY <1>17 DEF Begin
  <2> QED
    BY <1>17, <2>2, <2>3, TaskStepType DEF Begin
<1>18. ASSUME NEW p \in Proc, NEW i \in Iteration, BeginStep(p, i) PROVE TypeOK'
  <2> DEFINE t == NewTask("stepping", "step", i)
  <2>1. t = [pc |-> "stepping", op |-> "step", iter |-> i, seq |-> Null]
    BY DEF NewTask
  <2>2. t \in TaskRow
    BY <2>1, PcNames DEF TaskRow, AllOps
  <2>3. i <= lastIter
    <3>1. iteration[i].state = "open"
      BY <1>18 DEF BeginStep
    <3>2. ~(i > lastIter)
      BY <3>1 DEF TypeOK
    <3> QED
      BY <3>2, BoundsAssumption DEF TypeOK, Iteration
  <2>4. task' = [task EXCEPT ![p] = t]
    BY <1>18 DEF BeginStep
  <2>5. t.iter <= lastIter
    BY <2>1, <2>3
  <2> QED
    BY <1>18, <2>2, <2>4, <2>5, TaskStepType DEF BeginStep
<1>19. ASSUME NEW p \in Proc, NEW op \in Ops, NEW i \in Iteration,
              AskRecovery(p, op, i)
       PROVE TypeOK'
  <2>1. [op |-> op, iter |-> i] \in RequestRow /\ i <= lastIter
    BY <1>19, BoundsAssumption DEF AskRecovery, RequestRow, TypeOK, Iteration
  <2>2. /\ request' \in [Proc -> RequestRow]
        /\ \A q \in Proc : request'[q].iter <= lastIter
    BY <1>19, <2>1 DEF AskRecovery, TypeOK
  <2> QED
    BY <1>19, <2>2 DEF AskRecovery, TypeOK
<1>20. CASE UNCHANGED vars
  BY <1>20 DEF vars, TypeOK
<1>21. ASSUME NEW p \in Proc, Boot(p) \/ Advance(p) \/ Answer(p) PROVE TypeOK'
  BY <1>1, <1>2, <1>3, <1>4, <1>5, <1>6, <1>7, <1>8, <1>9, <1>10, <1>11, <1>12,
     <1>13, <1>21
  DEF Boot, Advance, Answer
<1>22. ASSUME NEW p \in Proc, Serve(p) PROVE TypeOK'
  BY <1>17, <1>18, <1>19, <1>22 DEF Serve
<1>23. ASSUME NEW p \in Proc, NEW i \in Iteration, Discard(p, i) PROVE TypeOK'
  <2> DEFINE r == [iteration[i] EXCEPT !.state = "open"]
  <2>1. iteration' = [iteration EXCEPT ![i] = r] /\ iteration[i].state # "absent"
    BY <1>23 DEF Discard
  <2>2. r \in IterationRow /\ r.state = "open"
    BY Reopened DEF TypeOK
  <2>3. /\ iteration' \in [Iteration -> IterationRow]
        /\ \A j \in Iteration : iteration'[j].state = "absent"
                                  <=> iteration[j].state = "absent"
    BY <2>1, <2>2 DEF TypeOK
  <2> QED
    BY <1>23, <2>3 DEF Discard, TypeOK
<1> QED
  BY <1>16, <1>20, <1>21, <1>22, <1>23 DEF Next

\* The variables keep their types, and a task or a request never names a row
\* that insert_iteration has not written.
THEOREM TypeCorrect == Spec => []TypeOK
BY TypeInit, TypeStep, PTL DEF Spec

-----------------------------------------------------------------------------
(* Mutual exclusion.                                                       *)

\* Without that request nothing is reopened.
LEMMA NoDiscard == OnlySubmissions => \A p \in Proc, i \in Iteration : ~Discard(p, i)
BY DEF OnlySubmissions, Submissions, Discard

\* Whatever is not a start or a stop leaves the processes and epochs alone.
LEMMA ServingKeepsEpochs ==
  ASSUME NEW p \in Proc, Serve(p) \/ Advance(p) \/ Answer(p)
  PROVE  UNCHANGED <<epoch, lastEpoch, proc>>
BY DEF Serve, Advance, Answer, Begin, BeginStep, AskRecovery, CheckOpen, ReadSeq,
   Insert, Claim, CloseLoser, StartWork, FinishWork, Release, EndStep,
   SubmitRecovery, CloseAbandoned

\* On one host a sweep sees every live process, so it closes no live epoch.
LEMMA SweepSparesLive ==
  ASSUME OneHost, TypeOK, EpochInv, NEW p \in Proc, BootSweep(p),
         NEW q \in Proc, Alive(q)
  PROVE  q # p /\ epoch'[proc[q].epoch] = epoch[proc[q].epoch]
<1> DEFINE e == proc[q].epoch
<1>1. q # p
  BY DEF BootSweep, Alive
<1>2. e \in 1..lastEpoch /\ e \in Epoch /\ e # lastEpoch + 1
  BY BoundsAssumption DEF EpochInv, TypeOK, Epoch
<1>3. e \in RunningPids
  BY DEF RunningPids, Alive
<1>4. epoch[e].kind = "OPEN" /\ epoch[e].host = HostOf[p]
  BY DEF EpochInv, OneHost
<1>5. e \in OpenEpochs
  BY <1>2, <1>4 DEF OpenEpochs
<1>6. PICK alive \in SUBSET OpenEpochs :
        /\ e \in alive
        /\ epoch' = [x \in Epoch |->
               CASE x = lastEpoch + 1 -> [kind |-> "OPEN", host |-> HostOf[p]]
                 [] x \in OpenEpochs \ alive -> [epoch[x] EXCEPT !.kind = "UNKNOWN"]
                 [] OTHER -> epoch[x]]
  BY <1>3, <1>4, <1>5 DEF BootSweep, StillAlive
<1> QED
  BY <1>1, <1>2, <1>6

LEMMA EpochStep == OneHost /\ TypeOK /\ EpochInv /\ [Next]_vars => EpochInv'
<1> SUFFICES ASSUME OneHost, TypeOK, EpochInv, [Next]_vars PROVE EpochInv'
  OBVIOUS
<1>1. ASSUME NEW p \in Proc, BootSweep(p) PROVE EpochInv'
  <2>1. /\ proc'[p].state = "booting" /\ proc'[p].epoch = lastEpoch + 1
        /\ \A q \in Proc : q # p => proc'[q] = proc[q]
    BY <1>1 DEF BootSweep, TypeOK
  <2>2. lastEpoch' = lastEpoch + 1 /\ lastEpoch \in Nat /\ lastEpoch + 1 \in Epoch
    BY <1>1, BoundsAssumption DEF BootSweep, TypeOK, Epoch
  <2>3. epoch'[lastEpoch + 1] = [kind |-> "OPEN", host |-> HostOf[p]]
    <3>1. PICK alive \in SUBSET OpenEpochs :
            epoch' = [x \in Epoch |->
               CASE x = lastEpoch + 1 -> [kind |-> "OPEN", host |-> HostOf[p]]
                 [] x \in OpenEpochs \ alive -> [epoch[x] EXCEPT !.kind = "UNKNOWN"]
                 [] OTHER -> epoch[x]]
      BY <1>1 DEF BootSweep, StillAlive
    <3>2. lastEpoch + 1 \notin OpenEpochs
      BY <2>2 DEF OpenEpochs
    <3> QED
      BY <2>2, <3>1, <3>2
  <2>4. \A q \in Proc : Alive(q) => /\ q # p
                                    /\ proc[q].epoch \in 1..lastEpoch
                                    /\ epoch'[proc[q].epoch] = epoch[proc[q].epoch]
    BY <1>1, SweepSparesLive DEF EpochInv
  <2>5. \A q \in Proc : Alive(q)' => q = p \/ (q # p /\ Alive(q))
    BY <2>1 DEF Alive
  <2>6. ASSUME NEW q \in Proc, Alive(q)'
        PROVE  /\ proc'[q].epoch \in 1..lastEpoch'
               /\ epoch'[proc'[q].epoch].kind = "OPEN"
               /\ epoch'[proc'[q].epoch].host = HostOf[q]
    <3>1. CASE q = p
      BY <2>1, <2>2, <2>3, <3>1
    <3>2. CASE q # p
      BY <2>1, <2>2, <2>4, <2>5, <2>6, <3>2 DEF EpochInv
    <3> QED
      BY <3>1, <3>2
  <2>7. ASSUME NEW q \in Proc, NEW r \in Proc, Alive(q)', Alive(r)',
               proc'[q].epoch = proc'[r].epoch
        PROVE  q = r
    BY <2>1, <2>2, <2>4, <2>5, <2>7 DEF EpochInv
  <2> QED
    BY <2>6, <2>7 DEF EpochInv
<1>2. ASSUME NEW p \in Proc, BootReconcile(p) PROVE EpochInv'
  <2>1. \A q \in Proc : proc'[q].epoch = proc[q].epoch /\ (Alive(q)' => Alive(q))
    BY <1>2 DEF BootReconcile, TypeOK, ProcRow, Alive
  <2> QED
    BY <1>2, <2>1 DEF BootReconcile, EpochInv
<1>3. ASSUME NEW p \in Proc, Stop(p) \/ Exit(p) PROVE EpochInv'
  <2>1. \A q \in Proc : Alive(q)' => Alive(q) /\ q # p /\ proc'[q] = proc[q]
    BY <1>3 DEF Stop, Exit, Crash, ShutdownClean, ShutdownTimeout, Vanish, Down,
       Alive, TypeOK, ProcRow
  <2>2. /\ lastEpoch' = lastEpoch
        /\ \/ epoch' = epoch
           \/ Alive(p) /\ \E k \in Kinds : EndEpoch(p, k)
    BY <1>3 DEF Stop, Exit, Crash, ShutdownClean, ShutdownTimeout, Up, Alive, Kinds
  <2>3. ASSUME NEW q \in Proc, Alive(q)'
        PROVE  epoch'[proc[q].epoch] = epoch[proc[q].epoch]
    <3>1. Alive(q) /\ q # p
      BY <2>1, <2>3
    <3>2. Alive(p) => proc[q].epoch # proc[p].epoch
      BY <3>1 DEF EpochInv
    <3>3. proc[q].epoch \in Epoch
      BY <3>1, BoundsAssumption DEF EpochInv, TypeOK, Epoch
    <3>4. CASE Alive(p) /\ \E k \in Kinds : EndEpoch(p, k)
      BY <3>2, <3>3, <3>4 DEF EndEpoch, TypeOK
    <3> QED
      BY <2>2, <3>4
  <2> QED
    BY <2>1, <2>2, <2>3 DEF EpochInv
<1>4. ASSUME NEW p \in Proc, Serve(p) \/ Advance(p) \/ Answer(p) PROVE EpochInv'
  BY <1>4, ServingKeepsEpochs DEF EpochInv, Alive
<1>5. CASE UNCHANGED vars
  BY <1>5 DEF vars, EpochInv, Alive
<1>6. ASSUME NEW p \in Proc, NEW i \in Iteration, Discard(p, i) PROVE EpochInv'
  BY <1>6 DEF Discard, EpochInv, Alive
<1> QED
  BY <1>1, <1>2, <1>3, <1>4, <1>5, <1>6 DEF Next, Boot

\* With submissions only, no recovery request and no manual step ever begins.
LEMMA TaskStep ==
  OnlySubmissions /\ TypeOK /\ TaskInv /\ RequestInv /\ [Next]_vars
    => TaskInv' /\ RequestInv'
<1> SUFFICES ASSUME OnlySubmissions, TypeOK, TaskInv, RequestInv, [Next]_vars
             PROVE  TaskInv' /\ RequestInv'
  OBVIOUS
<1> DEFINE Good(t) == /\ t.op \in Submissions \cup {"none"}
                      /\ t.pc # "idle" => t.op \in Submissions
                      /\ t.pc # "stepping"
<1>0. /\ Idle.pc = "idle" /\ Good(Idle)
      /\ \A q \in Proc : Good(task[q])
  BY DEF Idle, NewTask, TaskInv
<1>1. ASSUME NEW p \in Proc, Boot(p) PROVE TaskInv' /\ RequestInv'
  <2>1. \A q \in Proc : proc'[q].state \in {"down", "booting"}
                          => proc[q].state \in {"down", "booting"}
    BY <1>1 DEF Boot, BootSweep, BootReconcile, TypeOK, ProcRow
  <2>2. UNCHANGED <<task, request>>
    BY <1>1 DEF Boot, BootSweep, BootReconcile
  <2> QED
    BY <2>1, <2>2 DEF TaskInv, RequestInv
<1>2. ASSUME NEW p \in Proc, Stop(p) \/ Exit(p) PROVE TaskInv' /\ RequestInv'
  <2>1. CASE Vanish(p)
    BY <1>0, <2>1 DEF Vanish, TaskInv, RequestInv, TypeOK
  <2>2. CASE ShutdownTimeout(p)
    BY <2>2 DEF ShutdownTimeout, TaskInv, RequestInv, TypeOK, ProcRow
  <2> QED
    BY <1>2, <2>1, <2>2 DEF Stop, Exit, Crash, ShutdownClean
<1>3. ASSUME NEW p \in Proc, Serve(p) \/ Advance(p) \/ Answer(p)
      PROVE  TaskInv' /\ RequestInv'
  <2>1. /\ UNCHANGED <<proc, request>>
        /\ proc[p].state \in {"up", "stopping"}
        /\ \E t \in TaskRow : Good(t) /\ task' = [task EXCEPT ![p] = t]
    <3>1. CASE Serve(p)
      <4>1. PICK op \in Ops : Begin(p, op)
        BY <1>3, <3>1 DEF Serve, BeginStep, AskRecovery, OnlySubmissions, Submissions,
           Recoveries
      <4> DEFINE t == NewTask("checking", op, Null)
      <4>2. op \in Submissions
        BY <4>1 DEF OnlySubmissions
      <4>3. t \in TaskRow /\ Good(t)
        BY <4>2, PcNames DEF NewTask, TaskRow, AllOps, Null
      <4> QED
        BY <4>1, <4>3 DEF Begin, Up
    <3>2. CASE Advance(p)
      <4>1. /\ proc[p].state \in {"up", "stopping"} /\ UNCHANGED <<proc, request>>
            /\ task[p].pc # "idle"
        BY <3>2 DEF Advance, At, CheckOpen, ReadSeq, Insert, Claim, CloseLoser,
           StartWork, FinishWork, Release, EndStep
      <4>2. task[p] \in TaskRow /\ task[p].op \in Submissions
        BY <4>1 DEF TypeOK, TaskInv
      <4>3. \A pc \in Pcs \ {"stepping"} :
              LET t == [task[p] EXCEPT !.pc = pc] IN t \in TaskRow /\ Good(t)
        BY <4>2, TaskUpdate DEF TaskRow
      <4>4. CASE Drop(p)
        BY <1>0, <4>1, <4>4, Rows DEF Drop
      <4>5. CASE \E pc \in Pcs \ {"stepping"} : Goto(p, pc)
        BY <4>1, <4>3, <4>5 DEF Goto
      <4>6. CASE ReadSeq(p)
        <5> DEFINE u == [task[p] EXCEPT !.pc = "inserting"]
                   t == [u EXCEPT !.seq = lastIter + 1]
        <5>1. u \in TaskRow /\ Good(u)
          BY <4>3, PcNames
        <5>2. lastIter + 1 \in Iteration
          BY <4>6, BoundsAssumption DEF ReadSeq, TypeOK, Iteration
        <5>3. t \in TaskRow /\ Good(t)
          BY <5>1, <5>2, TaskUpdate DEF TaskRow
        <5> QED
          BY <4>1, <4>6, <5>3 DEF ReadSeq
      <4>7. CASE Insert(p) /\ ~Drop(p)
        <5> DEFINE u == [task[p] EXCEPT !.pc = "claiming"]
                   t == [u EXCEPT !.iter = task[p].seq]
        <5>1. u \in TaskRow /\ Good(u)
          BY <4>3, PcNames
        <5>2. task[p].seq = lastIter + 1 /\ NextPc(task[p].op) = "claiming"
          BY <4>2, <4>7 DEF Insert, NextPc, Submissions
        <5>3. task[p].seq \in Iteration
          BY <4>2, <5>2, BoundsAssumption DEF TaskRow, TypeOK, Null
        <5>4. t \in TaskRow /\ Good(t)
          BY <5>1, <5>3, TaskUpdate DEF TaskRow
        <5>5. task' = [task EXCEPT ![p] = t]
          BY <4>7, <5>2 DEF Insert
        <5> QED
          BY <4>1, <5>4, <5>5
      <4>8. \/ Drop(p) \/ ReadSeq(p) \/ Insert(p)
            \/ \E pc \in Pcs \ {"stepping"} : Goto(p, pc)
        BY <3>2, PcNames DEF Advance, CheckOpen, Claim, CloseLoser, StartWork,
           FinishWork, Release, EndStep
      <4> QED
        BY <4>4, <4>5, <4>6, <4>7, <4>8
    <3>3. CASE Answer(p)
      BY <3>3 DEF Answer, SubmitRecovery, CloseAbandoned, RequestInv, NoRequest
    <3> QED
      BY <1>3, <3>1, <3>2, <3>3
  <2> QED
    BY <2>1 DEF TaskInv, RequestInv, TypeOK
<1>4. CASE UNCHANGED vars
  BY <1>4 DEF vars, TaskInv, RequestInv
<1> QED
  BY <1>1, <1>2, <1>3, <1>4, NoDiscard DEF Next

\* What a step of p does to the tasks when only submissions arrive: p gets a new
\* row, or nobody gets an iteration that it did not have.
LEMMA TaskChange ==
  ASSUME OnlySubmissions, TypeOK, TaskInv, RequestInv, Next
  PROVE  \/ \E p \in Proc : /\ lastIter' = lastIter + 1
                            /\ task'[p].iter = lastIter + 1
                            /\ task'[p].pc = "claiming"
                            /\ \A q \in Proc \ {p} : task'[q] = task[q]
         \/ /\ lastIter' = lastIter
            /\ \A q \in Proc : HasIteration(q)'
                                 => HasIteration(q) /\ task'[q].iter = task[q].iter
<1>0. ~(Idle.pc \in WithIteration) /\ ~("checking" \in WithIteration)
      /\ ~("numbering" \in WithIteration) /\ ~("inserting" \in WithIteration)
  BY DEF Idle, NewTask, WithIteration
<1>1. ASSUME NEW p \in Proc, Drop(p), lastIter' = lastIter
      PROVE  \A q \in Proc : HasIteration(q)'
                               => HasIteration(q) /\ task'[q].iter = task[q].iter
  BY <1>0, <1>1 DEF Drop, HasIteration, TypeOK
<1>2. ASSUME NEW p \in Proc, NEW pc \in Pcs, Goto(p, pc), lastIter' = lastIter,
             pc \in WithIteration => HasIteration(p)
      PROVE  \A q \in Proc : HasIteration(q)'
                               => HasIteration(q) /\ task'[q].iter = task[q].iter
  BY <1>2 DEF Goto, HasIteration, TypeOK, TaskRow
<1>3. ASSUME NEW p \in Proc, Boot(p) \/ ShutdownTimeout(p)
      PROVE  lastIter' = lastIter /\ task' = task
  BY <1>3 DEF Boot, BootSweep, BootReconcile, ShutdownTimeout
<1>4. ASSUME NEW p \in Proc, Crash(p) \/ ShutdownClean(p) \/ Exit(p)
      PROVE  lastIter' = lastIter /\ Drop(p)
  BY <1>4 DEF Crash, ShutdownClean, Exit, Vanish, Drop
<1>5. ASSUME NEW p \in Proc, Serve(p)
      PROVE  /\ lastIter' = lastIter
             /\ \A q \in Proc : HasIteration(q)'
                                  => HasIteration(q) /\ task'[q].iter = task[q].iter
  <2>1. PICK op \in Ops : Begin(p, op)
    BY <1>5 DEF Serve, BeginStep, AskRecovery, OnlySubmissions, Submissions, Recoveries
  <2> QED
    BY <1>0, <2>1 DEF Begin, NewTask, HasIteration, TypeOK
<1>6. ASSUME NEW p \in Proc, Insert(p), ~Drop(p)
      PROVE  /\ lastIter' = lastIter + 1
             /\ task'[p].iter = lastIter + 1
             /\ task'[p].pc = "claiming"
             /\ \A q \in Proc \ {p} : task'[q] = task[q]
  <2>1. task[p].op \in Submissions
    BY <1>6 DEF Insert, At, TaskInv
  <2>2. task[p].seq = lastIter + 1 /\ NextPc(task[p].op) = "claiming"
    BY <1>6, <2>1 DEF Insert, NextPc, Submissions
  <2>3. task' = [task EXCEPT ![p].pc = "claiming", ![p].iter = task[p].seq]
        /\ lastIter' = lastIter + 1
    BY <1>6, <2>2 DEF Insert
  <2> QED
    BY <2>2, <2>3 DEF TypeOK, TaskRow
<1>7. ASSUME NEW p \in Proc, Advance(p), ~(Insert(p) /\ ~Drop(p))
      PROVE  /\ lastIter' = lastIter
             /\ \A q \in Proc : HasIteration(q)'
                                  => HasIteration(q) /\ task'[q].iter = task[q].iter
  <2>1. lastIter' = lastIter
    <3>1. CASE Insert(p)
      <4>1. task[p].seq # lastIter + 1
        <5>1. CASE task[p].seq = lastIter + 1 /\ task[p].op = "create"
          BY <1>7, <3>1, <5>1 DEF Insert, At, TaskInv, Submissions
        <5>2. CASE task[p].seq = lastIter + 1 /\ task[p].op # "create"
          <6>1. task' = [task EXCEPT ![p].pc = NextPc(task[p].op),
                                     ![p].iter = task[p].seq]
            BY <3>1, <5>2 DEF Insert
          <6>2. NextPc(task[p].op) # "idle"
            BY DEF NextPc
          <6>3. task'[p].pc # "idle"
            BY <6>1, <6>2 DEF TypeOK, TaskRow
          <6>4. ~Drop(p)
            BY <6>3 DEF Drop, Idle, NewTask, TypeOK
          <6> QED
            BY <1>7, <3>1, <6>4
        <5> QED
          BY <5>1, <5>2
      <4> QED
        BY <3>1, <4>1 DEF Insert
    <3>2. CASE ~Insert(p)
      BY <1>7, <3>2 DEF Advance, CheckOpen, ReadSeq, Claim, CloseLoser, StartWork,
         FinishWork, Release, EndStep
    <3> QED
      BY <3>1, <3>2
  <2>2. CASE Drop(p)
    BY <1>1, <2>1, <2>2
  <2>3. CASE ReadSeq(p)
    BY <1>0, <2>3 DEF ReadSeq, HasIteration, TypeOK, TaskRow
  <2>4. \/ Drop(p) \/ ReadSeq(p)
        \/ \E pc \in Pcs : Goto(p, pc) /\ (pc \in WithIteration => HasIteration(p))
    BY <1>7, <1>0, PcNames DEF Advance, At, CheckOpen, Claim, CloseLoser, StartWork,
       FinishWork, Release, EndStep, HasIteration, WithIteration
  <2> QED
    BY <1>2, <2>1, <2>2, <2>3, <2>4
<1>8. ASSUME NEW p \in Proc, Answer(p) PROVE FALSE
  BY <1>8 DEF Answer, SubmitRecovery, CloseAbandoned, RequestInv, NoRequest
<1> QED
  BY <1>1, <1>3, <1>4, <1>5, <1>6, <1>7, <1>8, NoDiscard DEF Next, Stop, HasIteration, Advance

LEMMA IterStep ==
  OnlySubmissions /\ TypeOK /\ TaskInv /\ RequestInv /\ IterInv /\ [Next]_vars
    => IterInv'
<1> SUFFICES ASSUME OnlySubmissions, TypeOK, TaskInv, RequestInv, IterInv, [Next]_vars
             PROVE  IterInv'
  OBVIOUS
<1>0. lastIter \in Nat
  BY BoundsAssumption DEF TypeOK
<1>1. CASE UNCHANGED vars
  BY <1>1 DEF vars, IterInv, HasIteration
<1>2. ASSUME NEW p \in Proc, lastIter' = lastIter + 1, task'[p].iter = lastIter + 1,
             \A q \in Proc \ {p} : task'[q] = task[q]
      PROVE  IterInv'
  <2>1. \A q \in Proc \ {p} : HasIteration(q)'
          => task'[q].iter \in 1..lastIter /\ HasIteration(q) /\ task'[q].iter = task[q].iter
    BY <1>2 DEF IterInv, HasIteration
  <2> QED
    BY <1>0, <1>2, <2>1 DEF IterInv
<1>3. ASSUME lastIter' = lastIter,
             \A q \in Proc : HasIteration(q)'
                               => HasIteration(q) /\ task'[q].iter = task[q].iter
      PROVE  IterInv'
  BY <1>3 DEF IterInv
<1> QED
  BY <1>1, <1>2, <1>3, TaskChange

LEMMA SlotStep == OnlySubmissions /\ IInv /\ [Next]_vars => SlotInv'
<1> SUFFICES ASSUME OnlySubmissions, IInv, [Next]_vars PROVE SlotInv'
  OBVIOUS
<1> USE DEF IInv
<1> DEFINE Holds(q) == Up(q) /\ task[q].pc \in WithSlot
<1>0. \A q \in Proc : Holds(q) => /\ slot.iter = task[q].iter /\ slot.epoch = proc[q].epoch
                                  /\ HasIteration(q) /\ task[q].iter # Null
                                  /\ epoch[slot.epoch].kind = "OPEN"
  BY DEF SlotInv, IterInv, EpochInv, Alive, Up, HasIteration, WithSlot, WithIteration,
     Null
<1>1. CASE UNCHANGED vars
  BY <1>1 DEF vars, SlotInv, Up
<1>2. ASSUME UNCHANGED slot,
             \A q \in Proc : Holds(q)' => /\ Holds(q)
                                          /\ task'[q].iter = task[q].iter
                                          /\ proc'[q].epoch = proc[q].epoch
      PROVE  SlotInv'
  BY <1>2 DEF SlotInv
<1>3. ASSUME NEW p \in Proc, Boot(p) PROVE SlotInv'
  <2>1. CASE BootSweep(p)
    <3>1. \A q \in Proc : Up(q)' => Up(q) /\ proc'[q] = proc[q]
      BY <2>1 DEF BootSweep, Up, TypeOK
    <3>2. UNCHANGED <<task, slot>>
      BY <2>1 DEF BootSweep
    <3> QED
      BY <1>2, <3>1, <3>2
  <2>2. CASE BootReconcile(p)
    <3>1. task[p].pc \notin WithSlot
      BY <2>2 DEF BootReconcile, TaskInv, Idle, NewTask, WithSlot
    <3>2. \A q \in Proc : Holds(q)' => /\ Holds(q) /\ task'[q] = task[q]
                                       /\ proc'[q].epoch = proc[q].epoch
      <4>1. task' = task /\ \A q \in Proc \ {p} : proc'[q] = proc[q]
        BY <2>2 DEF BootReconcile, TypeOK
      <4> QED
        BY <3>1, <4>1 DEF Up
    <3>3. \A q \in Proc : Holds(q) => ~SlotStale(p)
      BY <1>0 DEF SlotStale
    <3>4. \A q \in Proc : Holds(q) => slot' = slot
      BY <2>2, <3>3 DEF BootReconcile
    <3> QED
      BY <3>2, <3>4 DEF SlotInv
  <2> QED
    BY <1>3, <2>1, <2>2 DEF Boot
<1>4. ASSUME NEW p \in Proc, Serve(p) PROVE SlotInv'
  <2>1. PICK op \in Ops : Begin(p, op)
    BY <1>4 DEF Serve, BeginStep, AskRecovery, OnlySubmissions, Submissions, Recoveries
  <2> QED
    BY <1>2, <2>1 DEF Begin, NewTask, WithSlot, Up, TypeOK
<1>5. ASSUME NEW p \in Proc, Stop(p) \/ Exit(p) PROVE SlotInv'
  <2>1. CASE Vanish(p) /\ UNCHANGED slot
    BY <1>2, <2>1 DEF Vanish, Down, Up, TypeOK
  <2>2. CASE ShutdownTimeout(p)
    BY <1>2, <2>2 DEF ShutdownTimeout, Up, TypeOK, ProcRow
  <2> QED
    BY <1>5, <2>1, <2>2 DEF Stop, Exit, Crash, ShutdownClean
<1>6. ASSUME NEW p \in Proc, Advance(p) PROVE SlotInv'
  <2>1. CASE Claim(p)
    <3>1. CASE CanClaim(task[p].iter)
      <4>1. \A q \in Proc \ {p} : ~Holds(q)
        BY <1>0, <2>1, <3>1 DEF CanClaim, Claim, At, HasIteration, WithIteration, IterInv
      <4>2. \A q \in Proc : Holds(q)' => q = p
        BY <2>1, <3>1, <4>1 DEF Claim, Goto, Up, TypeOK
      <4>3. /\ slot' = [iter |-> task[p].iter, epoch |-> proc[p].epoch]
            /\ task'[p].iter = task[p].iter /\ proc' = proc
        BY <2>1, <3>1 DEF Claim, Goto, TypeOK, TaskRow
      <4> QED
        BY <4>2, <4>3 DEF SlotInv
    <3>2. CASE ~CanClaim(task[p].iter)
      BY <1>2, <2>1, <3>2 DEF Claim, Goto, Drop, Idle, NewTask, WithSlot, Up, TypeOK,
         TaskRow
    <3> QED
      BY <3>1, <3>2
  <2>2. CASE Release(p)
    <3>1. \A q \in Proc : Holds(q)' => /\ q # p /\ Holds(q) /\ task'[q] = task[q]
                                       /\ proc'[q] = proc[q]
      BY <2>2 DEF Release, Drop, Idle, NewTask, WithSlot, Up, TypeOK
    <3>2. \A q \in Proc : q # p /\ Holds(q) => slot' = slot
      BY <1>0, <2>2 DEF Release, SlotAfterRelease, At, HasIteration, WithIteration,
         IterInv
    <3> QED
      BY <3>1, <3>2 DEF SlotInv
  <2>3. CASE StartWork(p)
    BY <1>2, <2>3 DEF StartWork, Goto, At, WithSlot, Up, TypeOK, TaskRow
  <2>4. CASE FinishWork(p)
    BY <1>2, <2>4 DEF FinishWork, Goto, Drop, Idle, NewTask, At, WithSlot, Up, TypeOK,
       TaskRow
  <2>5. CASE CheckOpen(p) \/ ReadSeq(p)
    <3>1. task'[p].pc \in {"idle", "numbering", "inserting"}
      BY <2>5 DEF CheckOpen, ReadSeq, Goto, Drop, Idle, NewTask, TypeOK, TaskRow
    <3>2. UNCHANGED <<slot, proc>> /\ \A q \in Proc \ {p} : task'[q] = task[q]
      BY <2>5 DEF CheckOpen, ReadSeq, Goto, Drop, TypeOK
    <3> QED
      BY <1>2, <3>1, <3>2 DEF WithSlot, Up
  <2>6. CASE CloseLoser(p) \/ EndStep(p)
    BY <1>2, <2>6 DEF CloseLoser, EndStep, Drop, Idle, NewTask, WithSlot, Up, TypeOK
  <2>7. CASE Insert(p)
    <3>1. task[p].op \in Submissions
      BY <2>7 DEF Insert, At, TaskInv
    <3>2. NextPc(task[p].op) = "claiming"
      BY <3>1 DEF NextPc, Submissions
    <3>3. task'[p].pc \in {"idle", "claiming"}
      BY <2>7, <3>1, <3>2 DEF Insert, Drop, Idle, NewTask, TypeOK, TaskRow
    <3>4. UNCHANGED <<slot, proc>> /\ \A q \in Proc \ {p} : task'[q] = task[q]
      BY <2>7 DEF Insert, Drop, TypeOK
    <3> QED
      BY <1>2, <3>3, <3>4 DEF WithSlot, Up
  <2> QED
    BY <1>6, <2>1, <2>2, <2>3, <2>4, <2>5, <2>6, <2>7 DEF Advance
<1>7. ASSUME NEW p \in Proc, Answer(p) PROVE FALSE
  BY <1>7 DEF Answer, SubmitRecovery, CloseAbandoned, RequestInv, NoRequest
<1> QED
  BY <1>1, <1>3, <1>4, <1>5, <1>6, <1>7, NoDiscard DEF Next

LEMMA Inductive == OneHost /\ OnlySubmissions /\ IInv /\ [Next]_vars => IInv'
BY TypeStep, EpochStep, TaskStep, IterStep, SlotStep DEF IInv

LEMMA InitIInv == Init => IInv
<1> SUFFICES ASSUME Init PROVE IInv
  OBVIOUS
<1>1. \A p \in Proc : proc[p] = Down /\ task[p] = Idle /\ request[p] = NoRequest
  BY DEF Init
<1>2. EpochInv /\ RequestInv
  BY <1>1 DEF EpochInv, RequestInv, Alive, Down
<1>3. TaskInv /\ IterInv /\ SlotInv
  BY <1>1 DEF TaskInv, IterInv, SlotInv, HasIteration, WithIteration, WithSlot, Idle,
     NewTask
<1> QED
  BY <1>2, <1>3, TypeInit DEF IInv

LEMMA Safe == OnlySubmissions /\ IInv => RunnerHoldsSlot /\ OneRunPerSession
<1> SUFFICES ASSUME OnlySubmissions, IInv PROVE RunnerHoldsSlot /\ OneRunPerSession
  OBVIOUS
<1>1. RunnerHoldsSlot
  BY DEF IInv, SlotInv, RunnerHoldsSlot
<1>2. ASSUME NEW p \in Proc, NEW q \in Proc, Running(p), Running(q) PROVE p = q
  <2>1. task[p].pc = "running" /\ task[q].pc = "running" /\ Up(p) /\ Up(q)
    BY <1>2 DEF IInv, TaskInv, Running
  <2>2. proc[p].epoch = proc[q].epoch
    BY <2>1 DEF IInv, SlotInv, WithSlot
  <2> QED
    BY <2>1, <2>2 DEF IInv, EpochInv, Alive, Up
<1> QED
  BY <1>1, <1>2 DEF OneRunPerSession

\* A worker that took the slot holds it until it gives it back itself, however
\* processes start, stop, crash and race each other's submissions.
THEOREM SlotIsKept ==
  ASSUME OneHost, OnlySubmissions
  PROVE  Spec => []RunnerHoldsSlot
<1>1. Init => IInv
  BY InitIInv
<1>2. IInv /\ [Next]_vars => IInv'
  BY Inductive
<1>3. IInv => RunnerHoldsSlot
  BY Safe
<1> QED
  BY <1>1, <1>2, <1>3, PTL DEF Spec

\* One session runs one iteration at a time across all its processes
\* (schema.sql 43-53), for the requests that take the slot before running.
THEOREM MutualExclusion ==
  ASSUME OneHost, OnlySubmissions
  PROVE  Spec => []OneRunPerSession
<1>1. Init => IInv
  BY InitIInv
<1>2. IInv /\ [Next]_vars => IInv'
  BY Inductive
<1>3. IInv => OneRunPerSession
  BY Safe
<1> QED
  BY <1>1, <1>2, <1>3, PTL DEF Spec

-----------------------------------------------------------------------------
(* Ownership.                                                              *)

\* A process that is stopping has at most its last worker: it numbers no row.
StoppingInv ==
  \A p \in Proc : proc[p].state = "stopping"
                    => task[p].pc \in {"idle", "running", "releasing"}

LEMMA StoppingStep == IInv /\ OnlySubmissions /\ StoppingInv /\ [Next]_vars => StoppingInv'
<1> SUFFICES ASSUME IInv, OnlySubmissions, StoppingInv, [Next]_vars PROVE StoppingInv'
  OBVIOUS
<1>0. TypeOK /\ RequestInv
  BY DEF IInv
<1>1. CASE UNCHANGED vars
  BY <1>1 DEF vars, StoppingInv
<1>2. ASSUME NEW p \in Proc, Boot(p) PROVE StoppingInv'
  <2>1. UNCHANGED task
    BY <1>2 DEF Boot, BootSweep, BootReconcile
  <2>2. proc[p].state = "booting" \/ proc[p].state = "down"
    BY <1>2 DEF Boot, BootSweep, BootReconcile
  <2>3. proc'[p].state \in {"booting", "up"} /\ \A q \in Proc \ {p} : proc'[q] = proc[q]
    <3>1. CASE BootSweep(p)
      BY <1>0, <3>1 DEF BootSweep, TypeOK
    <3>2. CASE BootReconcile(p)
      BY <1>0, <3>2 DEF BootReconcile, TypeOK, ProcRow
    <3> QED
      BY <1>2, <3>1, <3>2 DEF Boot
  <2> QED
    BY <2>1, <2>3 DEF StoppingInv
<1>3. ASSUME NEW p \in Proc, Serve(p) \/ Answer(p) PROVE StoppingInv'
  <2>1. proc[p].state = "up" /\ UNCHANGED proc
    BY <1>3 DEF Serve, Answer, Begin, BeginStep, AskRecovery, SubmitRecovery,
       CloseAbandoned, Up
  <2>2. \A q \in Proc \ {p} : task'[q] = task[q]
    BY <1>0, <1>3 DEF Serve, Answer, Begin, BeginStep, AskRecovery, SubmitRecovery,
       CloseAbandoned, TypeOK
  <2> QED
    BY <2>1, <2>2 DEF StoppingInv
<1>4. ASSUME NEW p \in Proc, Advance(p) PROVE StoppingInv'
  <2>1. UNCHANGED proc
    BY <1>4, ServingKeepsEpochs
  <2>2. \A q \in Proc \ {p} : task'[q] = task[q]
    BY <1>0, <1>4 DEF Advance, CheckOpen, ReadSeq, Insert, Claim, CloseLoser,
       StartWork, FinishWork, Release, EndStep, Goto, Drop, TypeOK
  <2>3. proc[p].state = "stopping" => task[p].pc \in {"running", "releasing"}
    BY <1>4 DEF Advance, CheckOpen, ReadSeq, Insert, Claim, CloseLoser, StartWork,
       FinishWork, Release, EndStep, At, StoppingInv
  <2>4. task[p].pc = "running" \/ task[p].pc = "releasing"
          => FinishWork(p) \/ Release(p)
    BY <1>4 DEF Advance, CheckOpen, ReadSeq, Insert, Claim, CloseLoser, StartWork,
       EndStep, At
  <2>5. FinishWork(p) \/ Release(p) => task'[p].pc \in {"idle", "releasing"}
    BY <1>0 DEF FinishWork, Release, Goto, Drop, Idle, NewTask, TypeOK, TaskRow
  <2> QED
    BY <2>1, <2>2, <2>3, <2>4, <2>5 DEF StoppingInv
<1>5. ASSUME NEW p \in Proc, Stop(p) \/ Exit(p) PROVE StoppingInv'
  <2>1. CASE Vanish(p)
    BY <1>0, <2>1 DEF Vanish, Down, Idle, NewTask, StoppingInv, TypeOK
  <2>2. CASE ShutdownTimeout(p)
    BY <1>0, <2>2 DEF ShutdownTimeout, StoppingInv, TypeOK, ProcRow
  <2> QED
    BY <1>5, <2>1, <2>2 DEF Stop, Exit, Crash, ShutdownClean
<1> QED
  BY <1>1, <1>2, <1>3, <1>4, <1>5, NoDiscard DEF Next

SInv == IInv /\ StoppingInv

LEMMA SInvStep == OneHost /\ OnlySubmissions /\ SInv /\ [Next]_vars => SInv'
BY Inductive, StoppingStep DEF SInv

\* The positions of a task whose iteration is still its own to finish.
Finishing == {"claiming", "losing", "queued", "running"}

\* The open iterations that name the epoch of p are the one p works on.
Own(p) ==
  /\ Up(p) /\ task[p].pc \in Finishing
       => iteration[task[p].iter].owner = proc[p].epoch
  /\ Up(p) /\ task[p].pc = "releasing" => iteration[task[p].iter].state # "open"
  /\ Alive(p) => \A i \in OpenIterations :
       iteration[i].owner = proc[p].epoch => HasIteration(p) /\ task[p].iter = i

\* No row names an epoch that has not been opened yet.
OwnInv == /\ \A i \in Iteration : iteration[i].owner <= lastEpoch
          /\ \A p \in Proc : Own(p)

LEMMA OwnKept ==
  ASSUME TypeOK, IterInv, NEW q \in Proc, Own(q), task'[q] = task[q], proc'[q] = proc[q],
         \A i \in Iteration : /\ iteration'[i].owner = iteration[i].owner
                              /\ iteration'[i].state = "open" => iteration[i].state = "open"
  PROVE  Own(q)'
<1>1. HasIteration(q) => task[q].iter \in Iteration
  BY BoundsAssumption DEF IterInv, TypeOK, Iteration
<1>2. OpenIterations' \subseteq OpenIterations
  BY DEF OpenIterations
<1> QED
  BY <1>1, <1>2 DEF Own, HasIteration, Finishing, WithIteration, Up, Alive, OpenIterations

\* A task that gives up its iteration leaves it closed, or never had it.
LEMMA OwnDropped ==
  ASSUME TypeOK, NEW p \in Proc, Own(p), Drop(p), proc' = proc,
         \A i \in Iteration :
           /\ iteration'[i].owner = iteration[i].owner
           /\ iteration'[i].state = "open" => iteration[i].state = "open",
         HasIteration(p) => task[p].iter \notin OpenIterations'
  PROVE  Own(p)'
<1>1. task'[p].pc = "idle"
  BY DEF Drop, Idle, NewTask, TypeOK
<1>2. OpenIterations' \subseteq OpenIterations
  BY DEF OpenIterations
<1>3. ASSUME NEW i \in OpenIterations', Alive(p)', iteration'[i].owner = proc'[p].epoch
      PROVE  FALSE
  BY <1>2, <1>3 DEF Own, Alive, OpenIterations
<1> QED
  BY <1>1, <1>3 DEF Own, Finishing

\* A task that moves on within its iteration.
LEMMA OwnMoves ==
  ASSUME TypeOK, NEW p \in Proc, Own(p), proc' = proc, UNCHANGED iteration,
         task'[p].iter = task[p].iter, HasIteration(p) => HasIteration(p)',
         task'[p].pc \in Finishing => task[p].pc \in Finishing,
         task'[p].pc # "releasing"
  PROVE  Own(p)'
BY DEF Own, Up, Alive, OpenIterations

LEMMA OwnStep == OneHost /\ OnlySubmissions /\ SInv /\ OwnInv /\ [Next]_vars => OwnInv'
<1> SUFFICES ASSUME OneHost, OnlySubmissions, SInv, OwnInv, [Next]_vars PROVE OwnInv'
  OBVIOUS
<1>0. TypeOK /\ IterInv /\ EpochInv /\ TaskInv /\ RequestInv /\ StoppingInv
      /\ lastEpoch \in Nat
  BY BoundsAssumption DEF SInv, IInv, TypeOK
<1>1. CASE UNCHANGED vars
  BY <1>1 DEF vars, OwnInv, Own, Up, Alive, HasIteration, OpenIterations
<1> DEFINE Settled == \A i \in Iteration :
             /\ iteration'[i].owner = iteration[i].owner
             /\ iteration'[i].state = "open" => iteration[i].state = "open"
           Others(p) == \A q \in Proc \ {p} : task'[q] = task[q] /\ proc'[q] = proc[q]
<1>2. ASSUME NEW p \in Proc, Settled, Others(p), Own(p)', lastEpoch' \in Nat,
             lastEpoch <= lastEpoch'
      PROVE  OwnInv'
  <2>1. \A q \in Proc : Own(q)'
    BY <1>0, <1>2, OwnKept DEF OwnInv
  <2>2. \A i \in Iteration : iteration[i].owner \in Nat
    BY <1>0, BoundsAssumption DEF TypeOK, IterationRow, Epoch, Null
  <2>3. \A i \in Iteration : iteration'[i].owner <= lastEpoch'
    BY <1>0, <1>2, <2>2 DEF OwnInv
  <2> QED
    BY <2>1, <2>3 DEF OwnInv
<1>3. ASSUME NEW p \in Proc, BootSweep(p) PROVE OwnInv'
  <2>1. /\ lastEpoch' = lastEpoch + 1 /\ UNCHANGED <<iteration, task>>
        /\ proc'[p].state = "booting" /\ proc'[p].epoch = lastEpoch + 1 /\ Others(p)
    BY <1>0, <1>3 DEF BootSweep, TypeOK
  <2>2. \A i \in Iteration : iteration[i].owner # lastEpoch + 1
    BY <1>0, BoundsAssumption DEF OwnInv, TypeOK, IterationRow, Epoch, Null
  <2>3. Own(p)'
    BY <2>1, <2>2 DEF Own, Up, OpenIterations
  <2>4. Settled
    BY <2>1
  <2>5. lastEpoch' \in Nat /\ lastEpoch <= lastEpoch'
    BY <1>0, <2>1
  <2> QED
    BY <1>2, <2>1, <2>3, <2>4, <2>5
<1>4. ASSUME NEW p \in Proc, BootReconcile(p) PROVE OwnInv'
  <2>1. /\ UNCHANGED <<lastEpoch, task>> /\ proc[p].state = "booting"
        /\ proc'[p].epoch = proc[p].epoch /\ Others(p)
    BY <1>0, <1>4 DEF BootReconcile, TypeOK, ProcRow
  <2>2. Settled
    <3> DEFINE marked(i) == [iteration[i] EXCEPT !.interrupted = TRUE]
    <3>1. \A i \in Iteration : /\ marked(i).owner = iteration[i].owner
                               /\ marked(i).state = iteration[i].state
      BY <1>0 DEF TypeOK, IterationRow
    <3>2. iteration' = [i \in Iteration |->
                          IF i \in Stranded(p) THEN marked(i) ELSE iteration[i]]
      BY <1>4 DEF BootReconcile
    <3> HIDE DEF marked
    <3> QED
      BY <3>1, <3>2
  <2>3. task[p].pc = "idle" /\ ~HasIteration(p)
    BY <1>0, <2>1 DEF TaskInv, Idle, NewTask, HasIteration, WithIteration
  <2>4. \A i \in OpenIterations : iteration[i].owner # proc[p].epoch
    BY <2>1, <2>3 DEF OwnInv, Own, Alive
  <2>5. Own(p)'
    BY <2>1, <2>2, <2>3, <2>4 DEF Own, Finishing, OpenIterations
  <2> QED
    BY <1>0, <1>2, <2>1, <2>2, <2>5
<1>5. ASSUME NEW p \in Proc, Serve(p) PROVE OwnInv'
  <2>1. PICK op \in Ops : Begin(p, op)
    BY <1>5 DEF Serve, BeginStep, AskRecovery, OnlySubmissions, Submissions, Recoveries
  <2>2. /\ task[p].pc = "idle" /\ task'[p].pc = "checking" /\ Others(p)
        /\ UNCHANGED <<lastEpoch, iteration, proc>>
    BY <1>0, <2>1 DEF Begin, NewTask, TypeOK
  <2>3. \A i \in OpenIterations : Alive(p) => iteration[i].owner # proc[p].epoch
    BY <2>2 DEF OwnInv, Own, HasIteration, WithIteration
  <2>4. Own(p)'
    BY <2>2, <2>3 DEF Own, Finishing, Alive, OpenIterations
  <2> QED
    BY <1>0, <1>2, <2>2, <2>4
<1>6. ASSUME NEW p \in Proc, Stop(p) \/ Exit(p) PROVE OwnInv'
  <2>1. /\ ~Alive(p)' /\ Others(p) /\ UNCHANGED <<lastEpoch, iteration>>
    BY <1>0, <1>6 DEF Stop, Exit, Crash, ShutdownClean, ShutdownTimeout, Vanish, Down,
       Alive, TypeOK, ProcRow
  <2>2. Own(p)'
    BY <2>1 DEF Own, Up, Alive
  <2> QED
    BY <1>0, <1>2, <2>1, <2>2
<1>7. ASSUME NEW p \in Proc, Advance(p) PROVE OwnInv'
  <2>1. UNCHANGED <<lastEpoch, proc>> /\ Own(p)
    BY <1>7, ServingKeepsEpochs DEF OwnInv
  <2>2. Others(p)
    BY <1>0, <1>7, <2>1 DEF Advance, CheckOpen, ReadSeq, Insert, Claim, CloseLoser,
       StartWork, FinishWork, Release, EndStep, Goto, Drop, TypeOK
  <2>3. ASSUME NEW i, CloseIteration(i)
        PROVE  Settled /\ i \notin OpenIterations'
    BY <1>0, <2>3 DEF CloseIteration, TypeOK, IterationRow, OpenIterations
  <2>4. CASE CheckOpen(p) \/ ReadSeq(p)
    <3>1. UNCHANGED iteration /\ ~HasIteration(p)
          /\ task'[p].pc \in {"idle", "numbering", "inserting"}
      BY <1>0, <2>4 DEF CheckOpen, ReadSeq, At, Goto, Drop, Idle, NewTask, TypeOK, TaskRow,
         HasIteration, WithIteration
    <3>2. \A i \in OpenIterations : Alive(p) => iteration[i].owner # proc[p].epoch
      BY <2>1, <3>1 DEF Own
    <3>3. Own(p)'
      BY <2>1, <3>1, <3>2 DEF Own, Alive, OpenIterations, Finishing
    <3> QED
      BY <1>0, <1>2, <2>1, <2>2, <3>1, <3>3
  <2>5. CASE Insert(p)
    <3>1. CASE task[p].seq # lastIter + 1
      <4>1. Drop(p) /\ UNCHANGED iteration /\ ~HasIteration(p)
        BY <2>5, <3>1 DEF Insert, At, HasIteration, WithIteration
      <4>2. Own(p)'
        BY <1>0, <2>1, <4>1, OwnDropped
      <4> QED
        BY <1>0, <1>2, <2>1, <2>2, <4>1, <4>2
    <3>2. CASE task[p].seq = lastIter + 1
      <4>1. Up(p) /\ task[p].op \in Submissions /\ task[p].pc = "inserting"
        BY <1>0, <2>5 DEF Insert, At, StoppingInv, Up, TaskInv
      <4>2. lastIter + 1 \in Iteration /\ proc[p].epoch \in 1..lastEpoch
            /\ proc[p].epoch \in Epoch
        BY <1>0, <2>5, <3>2, <4>1, BoundsAssumption
        DEF TypeOK, TaskRow, Iteration, Null, EpochInv, Alive, Up, Epoch
      <4>3. /\ iteration' = [iteration EXCEPT ![lastIter + 1] = NewRow(p)]
            /\ task'[p].iter = lastIter + 1 /\ task'[p].pc = "claiming"
        BY <1>0, <2>5, <3>2, <4>1 DEF Insert, NextPc, Submissions, TypeOK, TaskRow
      <4>4. /\ \A i \in Iteration \ {lastIter + 1} : iteration'[i] = iteration[i]
            /\ iteration'[lastIter + 1].owner = proc[p].epoch
        BY <1>0, <4>2, <4>3 DEF NewRow, TypeOK
      <4>5. \A i \in Iteration : iteration'[i].owner <= lastEpoch'
        BY <1>0, <2>1, <4>2, <4>4 DEF OwnInv
      <4>6. ASSUME NEW q \in Proc \ {p} PROVE Own(q)'
        <5>1. Alive(q) => proc[q].epoch # proc[p].epoch
          BY <1>0, <4>1 DEF EpochInv, Alive, Up
        <5>2. HasIteration(q) => task[q].iter \in Iteration \ {lastIter + 1}
          BY <1>0, BoundsAssumption DEF IterInv, TypeOK, Iteration
        <5>3. /\ task'[q] = task[q] /\ proc'[q] = proc[q] /\ Own(q)
          BY <2>1, <2>2 DEF OwnInv
        <5>4. Alive(q) => \A i \in OpenIterations' :
                iteration'[i].owner = proc[q].epoch => i \in OpenIterations
                                                       /\ iteration[i] = iteration'[i]
          BY <4>4, <5>1 DEF OpenIterations
        <5>5. Up(q) => Alive(q)
          BY DEF Up, Alive
        <5> QED
          BY <4>4, <5>2, <5>3, <5>4, <5>5
          DEF Own, Up, Alive, HasIteration, Finishing, WithIteration
      <4>7. Own(p)'
        <5>1. \A i \in OpenIterations : iteration[i].owner # proc[p].epoch
          BY <2>1, <4>1 DEF Own, Alive, Up, HasIteration, WithIteration
        <5>2. HasIteration(p)'
          BY <4>3 DEF HasIteration, WithIteration
        <5> QED
          BY <2>1, <4>3, <4>4, <5>1, <5>2 DEF Own, Finishing, OpenIterations
      <4> QED
        BY <4>5, <4>6, <4>7 DEF OwnInv
    <3> QED
      BY <3>1, <3>2
  <2>6. CASE Claim(p) \/ StartWork(p)
    <3>1. task[p].op \in Submissions /\ UNCHANGED iteration
      BY <1>0, <2>6 DEF Claim, StartWork, At, TaskInv
    <3>2. /\ task[p].pc \in Finishing /\ HasIteration(p)
          /\ task'[p].pc \in Finishing /\ HasIteration(p)' /\ task'[p].iter = task[p].iter
      BY <1>0, <2>6, <3>1 DEF Claim, StartWork, At, Goto, TypeOK, TaskRow, Finishing,
         HasIteration, WithIteration
    <3>3. task'[p].pc # "releasing"
      BY <3>2 DEF Finishing
    <3>4. Own(p)'
      BY <1>0, <2>1, <3>1, <3>2, <3>3, OwnMoves
    <3> QED
      BY <1>0, <1>2, <2>1, <2>2, <3>1, <3>4
  <2>7. CASE CloseLoser(p) \/ EndStep(p)
    <3>1. ~EndStep(p)
      BY <1>0 DEF EndStep, At, TaskInv
    <3>2. CloseIteration(task[p].iter) /\ Drop(p)
      BY <2>7, <3>1 DEF CloseLoser
    <3>3. Own(p)'
      BY <1>0, <2>1, <2>3, <3>2, OwnDropped
    <3> QED
      BY <1>0, <1>2, <2>1, <2>2, <2>3, <3>2, <3>3
  <2>8. CASE FinishWork(p)
    <3>1. CloseIteration(task[p].iter) /\ task[p].op \in Submissions
          /\ task[p].pc = "running" /\ HasIteration(p)
      BY <1>0, <2>8 DEF FinishWork, At, TaskInv, HasIteration, WithIteration
    <3>2. task'[p].pc = "releasing" /\ task'[p].iter = task[p].iter
      BY <1>0, <2>8, <3>1 DEF FinishWork, Goto, TypeOK, TaskRow, Submissions
    <3>3. task[p].iter \in Iteration
      BY <1>0, <3>1, BoundsAssumption DEF IterInv, TypeOK, Iteration
    <3>4. iteration'[task[p].iter].state # "open" /\ Settled
      BY <2>3, <3>1, <3>3 DEF OpenIterations
    <3>5. \A i \in OpenIterations' :
            Alive(p) /\ iteration'[i].owner = proc[p].epoch => FALSE
      BY <2>1, <3>4 DEF Own, OpenIterations
    <3>6. Own(p)'
      BY <2>1, <3>2, <3>4, <3>5 DEF Own, Finishing, Alive
    <3> QED
      BY <1>0, <1>2, <2>1, <2>2, <3>4, <3>6
  <2>9. CASE Release(p)
    <3>1. Drop(p) /\ UNCHANGED iteration /\ task[p].pc = "releasing"
      BY <2>9 DEF Release, At
    <3>2. Own(p)'
      <4>1. CASE Up(p)
        <5>1. task[p].iter \notin OpenIterations'
          BY <2>1, <3>1, <4>1 DEF Own, OpenIterations
        <5> QED
          BY <1>0, <2>1, <3>1, <5>1, OwnDropped
      <4>2. CASE ~Up(p)
        <5>1. ~Alive(p)
          BY <2>9, <4>2 DEF Release, At, Alive, Up
        <5> QED
          BY <2>1, <4>2, <5>1 DEF Own, Up, Alive
      <4> QED
        BY <4>1, <4>2
    <3> QED
      BY <1>0, <1>2, <2>1, <2>2, <3>1, <3>2
  <2> QED
    BY <1>7, <2>4, <2>5, <2>6, <2>7, <2>8, <2>9 DEF Advance
<1>8. ASSUME NEW p \in Proc, Answer(p) PROVE FALSE
  BY <1>0, <1>8 DEF Answer, SubmitRecovery, CloseAbandoned, RequestInv, NoRequest
<1> QED
  BY <1>1, <1>3, <1>4, <1>5, <1>6, <1>7, <1>8, NoDiscard DEF Next, Boot

LEMMA OwnInit == Init => SInv /\ OwnInv
<1> SUFFICES ASSUME Init PROVE StoppingInv /\ OwnInv
  BY InitIInv DEF SInv
<1>1. \A p \in Proc : proc[p] = Down
  BY DEF Init
<1>2. \A i \in Iteration : iteration[i].owner = 0 /\ lastEpoch = 0
  BY DEF Init, Null
<1> QED
  BY <1>1, <1>2 DEF StoppingInv, OwnInv, Own, Up, Alive, Down

\* The owner of an open row and the process working on it name each other, at
\* every moment a startup could judge one by the other (OwnerIsWorker).
THEOREM OwnersWork ==
  ASSUME OneHost, OnlySubmissions
  PROVE  Spec => []OwnerIsWorker
<1>1. Init => SInv /\ OwnInv
  BY OwnInit
<1>2. SInv /\ OwnInv /\ [Next]_vars => SInv' /\ OwnInv'
  BY SInvStep, OwnStep
<1>3. OwnInv => OwnerIsWorker
  BY DEF OwnInv, Own, OwnerIsWorker, RunnerOwns, NoOrphan, Running, Finishing, HasIteration,
     Up, Alive
<1> QED
  BY <1>1, <1>2, <1>3, PTL DEF Spec
-----------------------------------------------------------------------------
(* Reconciling while peers run.                                            *)

\* What the sweep saw alive includes every earlier peer that still lives while
\* this process reconciles.
SeenInv ==
  \A p, q \in Proc :
     proc[p].state = "booting" /\ Alive(q) /\ proc[q].epoch < proc[p].epoch
       => proc[q].epoch \in proc[p].alive

LEMMA SeenStep ==
  ASSUME OneHost, SInv, SeenInv, [Next]_vars
  PROVE  SeenInv'
<1>0. TypeOK /\ EpochInv
  BY DEF SInv, IInv
<1>1. ASSUME \A q \in Proc : /\ Alive(q)' => Alive(q) /\ proc'[q].epoch = proc[q].epoch
                             /\ proc'[q].state = "booting" => proc'[q] = proc[q]
      PROVE  SeenInv'
  BY <1>1 DEF SeenInv
<1>2. ASSUME NEW p \in Proc, BootSweep(p) PROVE SeenInv'
  <2>1. PICK reused : proc' = [proc EXCEPT ![p] =
              [state |-> "booting", epoch |-> lastEpoch + 1,
               alive |-> StillAlive(p, RunningPids \cup reused)]]
    BY <1>2 DEF BootSweep
  <2>2. /\ proc'[p].state = "booting" /\ proc'[p].epoch = lastEpoch + 1
        /\ proc'[p].alive = StillAlive(p, RunningPids \cup reused)
        /\ \A q \in Proc \ {p} : proc'[q] = proc[q]
    BY <1>0, <2>1 DEF TypeOK
  <2>3. ASSUME NEW q \in Proc, Alive(q) PROVE proc[q].epoch \in proc'[p].alive
    <3>1. proc[q].epoch \in RunningPids
      BY <2>3 DEF RunningPids, Alive
    <3>2. proc[q].epoch \in OpenEpochs /\ epoch[proc[q].epoch].host = HostOf[p]
      BY <1>0, <2>3 DEF EpochInv, OpenEpochs, OneHost
    <3> QED
      BY <2>2, <3>1, <3>2 DEF StillAlive
  <2>4. \A q \in Proc \ {p} : Alive(q)' => Alive(q) /\ proc[q].epoch \in 1..lastEpoch
    BY <1>0, <2>2 DEF Alive, EpochInv
  <2>5. ASSUME NEW r \in Proc, NEW q \in Proc, proc'[r].state = "booting", Alive(q)',
               proc'[q].epoch < proc'[r].epoch
        PROVE  proc'[q].epoch \in proc'[r].alive
    <3>0. lastEpoch \in Int
      BY <1>0, BoundsAssumption DEF TypeOK
    <3>1. CASE r = p
      <4>1. q # p
        BY <2>2, <2>5, <3>0, <3>1
      <4>2. proc'[q] = proc[q] /\ Alive(q)
        BY <2>2, <2>4, <2>5, <4>1
      <4>3. proc[q].epoch \in proc'[p].alive
        BY <2>3, <4>2
      <4> QED
        BY <3>1, <4>2, <4>3
    <3>2. CASE r # p
      <4>1. Alive(r)' /\ proc'[r] = proc[r]
        BY <2>2, <2>5, <3>2 DEF Alive
      <4>2. proc'[r].epoch \in 1..lastEpoch
        BY <2>4, <3>2, <4>1
      <4>3. q # p
        BY <2>2, <2>5, <3>0, <4>2
      <4> QED
        BY <2>2, <2>4, <2>5, <4>1, <4>3 DEF SeenInv
    <3> QED
      BY <3>1, <3>2
  <2> QED
    BY <2>5 DEF SeenInv
<1>3. ASSUME NEW p \in Proc, BootReconcile(p) PROVE SeenInv'
  <2>1. /\ proc[p].state = "booting" /\ proc'[p].state = "up"
        /\ proc'[p].epoch = proc[p].epoch
        /\ \A q \in Proc \ {p} : proc'[q] = proc[q]
    BY <1>0, <1>3 DEF BootReconcile, TypeOK, ProcRow
  <2> QED
    BY <1>1, <2>1 DEF Alive
<1>4. ASSUME NEW p \in Proc, Serve(p) \/ Advance(p) \/ Answer(p) PROVE SeenInv'
  BY <1>1, <1>4, ServingKeepsEpochs DEF Alive
<1>5. ASSUME NEW p \in Proc, Stop(p) \/ Exit(p) PROVE SeenInv'
  <2>1. /\ proc'[p].state \in {"down", "stopping"}
        /\ \A q \in Proc \ {p} : proc'[q] = proc[q]
    BY <1>0, <1>5 DEF Stop, Exit, Crash, ShutdownClean, ShutdownTimeout, Vanish, Down,
       TypeOK, ProcRow
  <2> QED
    BY <1>1, <2>1 DEF Alive
<1>6. CASE UNCHANGED vars
  BY <1>1, <1>6 DEF vars, Alive
<1>7. ASSUME NEW p \in Proc, NEW i \in Iteration, Discard(p, i) PROVE SeenInv'
  BY <1>1, <1>7 DEF Discard, Alive
<1> QED
  BY <1>2, <1>3, <1>4, <1>5, <1>6, <1>7 DEF Next, Boot

\* Marking is the work of a startup; other steps keep the mark of every row.
LEMMA MarkKept ==
  ASSUME OnlySubmissions, SInv, NEW p \in Proc,
         Boot(p) \/ Serve(p) \/ Advance(p) \/ Answer(p) \/ Stop(p) \/ Exit(p),
         NEW i \in 1..lastIter, BootReconcile(p) => i \notin Stranded(p)
  PROVE  iteration'[i].interrupted = iteration[i].interrupted
<1>0. TypeOK /\ TaskInv /\ RequestInv /\ i \in Iteration /\ i # lastIter + 1
  BY BoundsAssumption DEF SInv, IInv, TypeOK, Iteration
<1>1. CASE UNCHANGED iteration
  BY <1>1
<1>2. CASE BootReconcile(p)
  BY <1>0, <1>2 DEF BootReconcile
<1>3. CASE \E j : CloseIteration(j)
  <2>1. PICK j : CloseIteration(j)
    BY <1>3
  <2>2. iteration[i] \in IterationRow
    BY <1>0 DEF TypeOK
  <2>3. [iteration[i] EXCEPT !.state = "closed"].interrupted = iteration[i].interrupted
    BY <2>2 DEF IterationRow
  <2> QED
    BY <1>0, <2>1, <2>3 DEF CloseIteration, TypeOK
<1>4. CASE Insert(p)
  BY <1>0, <1>4 DEF Insert, TypeOK
<1>5. ~Answer(p)
  BY <1>0 DEF Answer, SubmitRecovery, CloseAbandoned, RequestInv, NoRequest
<1> QED
  BY <1>1, <1>2, <1>3, <1>4, <1>5
  DEF Boot, BootSweep, Serve, Begin, BeginStep, AskRecovery, Advance, CheckOpen, ReadSeq,
      Claim, CloseLoser, StartWork, FinishWork, Release, EndStep, Stop, Exit, Crash,
      ShutdownClean, ShutdownTimeout

LEMMA SparedStep ==
  ASSUME OnlySubmissions, SInv, OwnInv, SeenInv, Next,
         NEW q \in Proc, Running(q), NEW b \in Proc, proc[q].epoch < proc[b].epoch,
         proc[b].state = "booting", proc'[b].state = "up"
  PROVE  iteration'[task[q].iter].interrupted = iteration[task[q].iter].interrupted
<1>1. TypeOK /\ TaskInv /\ IterInv
  BY DEF SInv, IInv
<1>2. Up(q) /\ task[q].pc = "running"
  BY <1>1 DEF Running, TaskInv
<1>3. task[q].iter \in 1..lastIter
  BY <1>1, <1>2 DEF IterInv, HasIteration, WithIteration
<1>4. iteration[task[q].iter].owner = proc[q].epoch
  BY <1>2 DEF OwnInv, Own, Finishing
<1>5. PICK p \in Proc : \/ Boot(p) \/ Serve(p) \/ Advance(p) \/ Answer(p)
                        \/ Stop(p) \/ Exit(p)
  BY NoDiscard DEF Next
<1>6. ASSUME BootReconcile(p) PROVE task[q].iter \notin Stranded(p)
  <2>1. p = b
    BY <1>1, <1>6 DEF BootReconcile, TypeOK
  <2> QED
    BY <1>2, <1>4, <2>1 DEF SeenInv, Stranded, Up, Alive
<1> QED
  BY <1>3, <1>5, <1>6, MarkKept

\* The iteration a process is running is not marked interrupted by a process
\* that started after it (LivePeerSpared), however their startups, crashes and
\* the recycling of pids interleave.  Of a process that starts later still
\* nothing can be said: RunSlot_overlap.cfg shows its run marked.
THEOREM PeersSpared ==
  ASSUME OneHost, OnlySubmissions
  PROVE  Spec => LivePeerSpared
<1>1. Init => SInv /\ OwnInv /\ SeenInv
  <2>1. Init => SeenInv
    BY DEF Init, SeenInv, Down
  <2> QED
    BY <2>1, OwnInit
<1>2. SInv /\ OwnInv /\ SeenInv /\ [Next]_vars => SInv' /\ OwnInv' /\ SeenInv'
  BY SInvStep, OwnStep, SeenStep
<1>3. SInv /\ OwnInv /\ SeenInv /\ [Next]_vars =>
      [\A p, q \in Proc :
         /\ Running(p) /\ proc[p].epoch < proc[q].epoch
         /\ proc[q].state = "booting" /\ proc'[q].state = "up"
         => iteration'[task[p].iter].interrupted = iteration[task[p].iter].interrupted]_vars
  BY SparedStep
<1> QED
  BY <1>1, <1>2, <1>3, PTL DEF Spec, LivePeerSpared

-----------------------------------------------------------------------------
(* One process, whatever requests it gets.                                 *)

\* Between the check and the insert nothing is open.
AloneInv ==
  \A p \in Proc : task[p].pc \in {"numbering", "inserting"} => OpenIterations = {}

LEMMA AloneStep ==
  ASSUME \A p, q \in Proc : p = q, TypeOK, AloneInv, [Next]_vars
  PROVE  /\ AloneInv'
         /\ \/ OpenIterations' \subseteq OpenIterations
            \/ OpenIterations = {} /\ \A i, j \in OpenIterations' : i = j
            \/ /\ "discard" \in Ops
               /\ \A i \in Iteration : iteration[i].state = "absent"
                                         => iteration'[i].state = "absent"
<1> DEFINE Shrinks == OpenIterations' \subseteq OpenIterations
<1>1. ASSUME Shrinks,
             \A p \in Proc : task'[p].pc \in {"numbering", "inserting"} =>
               task[p].pc \in {"numbering", "inserting"} \/ OpenIterations = {}
      PROVE  AloneInv' /\ Shrinks
  BY <1>1 DEF AloneInv
<1>2. CASE UNCHANGED vars
  BY <1>1, <1>2 DEF vars, OpenIterations
<1>0. SUFFICES ASSUME Next
               PROVE  /\ AloneInv'
                      /\ \/ Shrinks
                         \/ OpenIterations = {} /\ \A i, j \in OpenIterations' : i = j
                         \/ /\ "discard" \in Ops
                            /\ \A i \in Iteration : iteration[i].state = "absent"
                                                      => iteration'[i].state = "absent"
  BY <1>2
<1>3. PICK p \in Proc : \/ Boot(p) \/ Serve(p) \/ Advance(p) \/ Answer(p)
                        \/ Stop(p) \/ Exit(p) \/ \E i \in Iteration : Discard(p, i)
  BY <1>0 DEF Next
<1>4. ASSUME NEW i, CloseIteration(i) PROVE Shrinks
  BY <1>4 DEF CloseIteration, OpenIterations, TypeOK, IterationRow
<1>5. ASSUME NEW i, TakeOver(p, i) PROVE Shrinks
  BY <1>5 DEF TakeOver, OpenIterations, TypeOK, IterationRow
<1>6. ASSUME CloseAbandoned(p) PROVE Shrinks
  BY <1>6 DEF CloseAbandoned, OpenIterations, TypeOK, IterationRow
<1>7. ASSUME BootReconcile(p) PROVE Shrinks
  BY <1>7 DEF BootReconcile, OpenIterations, TypeOK, IterationRow
<1>8. CASE Boot(p)
  <2>1. UNCHANGED task /\ Shrinks
    BY <1>7, <1>8 DEF Boot, BootSweep, BootReconcile, OpenIterations
  <2> QED
    BY <1>1, <2>1
<1>9. CASE Serve(p)
  <2>1. UNCHANGED iteration /\ \A q \in Proc : task'[q] = task[q] \/ task'[q].pc \in {"checking", "stepping"}
    BY <1>9 DEF Serve, Begin, BeginStep, AskRecovery, NewTask, TypeOK
  <2> QED
    BY <1>1, <2>1 DEF OpenIterations
<1>10. CASE Answer(p)
  <2>1. /\ Shrinks
        /\ \A q \in Proc : task'[q] = task[q] \/ task'[q].pc = "claiming"
    BY <1>5, <1>6, <1>10 DEF Answer, SubmitRecovery, CloseAbandoned, NewTask, TypeOK
  <2> QED
    BY <1>1, <2>1
<1>11. CASE Stop(p) \/ Exit(p)
  <2>1. UNCHANGED iteration /\ \A q \in Proc : task'[q] = task[q] \/ task'[q].pc = "idle"
    BY <1>11 DEF Stop, Exit, Crash, ShutdownClean, ShutdownTimeout, Vanish, Idle, NewTask,
       TypeOK
  <2> QED
    BY <1>1, <2>1 DEF OpenIterations
<1>12. CASE Advance(p)
  <2>1. CASE CheckOpen(p)
    <3>1. UNCHANGED iteration /\ (task'[p].pc = "idle" \/ OpenIterations = {})
      BY <2>1 DEF CheckOpen, Goto, Drop, Blocking, Idle, NewTask, TypeOK
    <3> QED
      BY <1>1, <3>1 DEF OpenIterations
  <2>2. CASE Insert(p)
    <3>1. OpenIterations = {} /\ task'[p].pc \notin {"numbering", "inserting"}
      BY <2>2 DEF Insert, At, AloneInv, Drop, Idle, NewTask, NextPc, TypeOK, TaskRow
    <3>2. \A i, j \in OpenIterations' : i = j
      BY <2>2, <3>1 DEF Insert, OpenIterations, TypeOK
    <3> QED
      BY <3>1, <3>2 DEF AloneInv
  <2>3. CASE ~CheckOpen(p) /\ ~Insert(p)
    <3>1. Shrinks
      BY <1>4, <1>12, <2>3 DEF Advance, ReadSeq, Claim, CloseLoser, StartWork, FinishWork,
         Release, EndStep, OpenIterations
    <3>2. task'[p].pc \in {"numbering", "inserting"} => task[p].pc \in {"numbering", "inserting"}
      BY <1>12, <2>3 DEF Advance, ReadSeq, Claim, CloseLoser, StartWork, FinishWork,
         Release, EndStep, At, Goto, Drop, Idle, NewTask, TypeOK, TaskRow
    <3> QED
      BY <1>1, <3>1, <3>2
  <2> QED
    BY <2>1, <2>2, <2>3
<1>13. CASE \E i \in Iteration : Discard(p, i)
  <2>1. PICK i \in Iteration : Discard(p, i)
    BY <1>13
  <2>2. "discard" \in Ops /\ task[p].pc = "idle" /\ UNCHANGED task
        /\ iteration[i].state # "absent"
        /\ iteration' = [iteration EXCEPT ![i].state = "open"]
    BY <2>1 DEF Discard
  <2>3. AloneInv'
    BY <2>2 DEF AloneInv
  <2>4. \A j \in Iteration : iteration[j].state = "absent" => iteration'[j].state = "absent"
    BY <2>2 DEF TypeOK
  <2> QED
    BY <2>2, <2>3, <2>4
<1> QED
  BY <1>3, <1>8, <1>9, <1>10, <1>11, <1>12, <1>13

\* A process alone inserts a new iteration only while no other is open, whichever
\* requests it is sent, discards that reopen a closed iteration included, and
\* however it is stopped (OpensAlone): the check and the insert are two
\* statements, and the memory lock is what keeps them together.
THEOREM OneOpenAlone ==
  ASSUME \A p, q \in Proc : p = q
  PROVE  Spec => OpensAlone
<1>1. Init => TypeOK /\ AloneInv
  <2>1. Init => AloneInv
    BY DEF Init, AloneInv, OpenIterations
  <2> QED
    BY <2>1, TypeInit
<1>2. TypeOK /\ AloneInv /\ [Next]_vars => TypeOK' /\ AloneInv'
  BY TypeStep, AloneStep
<1>3. TypeOK /\ AloneInv /\ [Next]_vars =>
      [\A i \in Iteration :
         iteration[i].state = "absent" /\ iteration'[i].state = "open"
           => OpenIterations = {}]_vars
  <2> SUFFICES ASSUME TypeOK, AloneInv, [Next]_vars, NEW i \in Iteration,
                      iteration[i].state = "absent", iteration'[i].state = "open"
               PROVE  OpenIterations = {}
    OBVIOUS
  <2>1. i \in OpenIterations' /\ i \notin OpenIterations
    BY DEF OpenIterations
  <2> QED
    BY <2>1, AloneStep
<1> QED
  BY <1>1, <1>2, <1>3, PTL DEF Spec, OpensAlone

\* Without discards the same process never has two open iterations
\* (OneOpenIteration).  With them it may: RunSlot_discard.cfg.
THEOREM OneOpenUndiscarded ==
  ASSUME \A p, q \in Proc : p = q, "discard" \notin Ops
  PROVE  Spec => []OneOpenIteration
<1>1. Init => TypeOK /\ AloneInv /\ OneOpenIteration
  <2>1. Init => AloneInv /\ OneOpenIteration
    BY DEF Init, AloneInv, OneOpenIteration, OpenIterations
  <2> QED
    BY <2>1, TypeInit
<1>2. TypeOK /\ AloneInv /\ OneOpenIteration /\ [Next]_vars
        => TypeOK' /\ AloneInv' /\ OneOpenIteration'
  BY TypeStep, AloneStep DEF OneOpenIteration
<1> QED
  BY <1>1, <1>2, PTL DEF Spec

-----------------------------------------------------------------------------
(***************************************************************************)
(* RunSlot implements Session, for any number of processes and iterations, *)
(* under the two hypotheses.                                               *)
(***************************************************************************)

Waiting == {"claiming", "losing", "queued"}

\* What the task of p makes of its own iteration.
OwnStatus(p) == IF ~Up(p) THEN "over"
                ELSE IF task[p].pc = "running" THEN "running"
                ELSE IF task[p].pc \in Waiting THEN "waiting"
                ELSE "over"

-----------------------------------------------------------------------------
(* The status of an iteration is a matter of the one task that has it.     *)

LEMMA StatusOfTask ==
  ASSUME TypeOK, IterInv, NEW p \in Proc, HasIteration(p)
  PROVE  Status(task[p].iter) = OwnStatus(p)
<1> DEFINE i == task[p].iter
<1>1. i \in 1..lastIter /\ lastIter \in Nat
  BY BoundsAssumption DEF IterInv, TypeOK
<1>2. \A pcs \in SUBSET WithIteration : Served(i, pcs) <=> task[p].pc \in pcs /\ Up(p)
  BY DEF Served, IterInv, HasIteration
<1>3. Served(i, {"running"}) <=> task[p].pc = "running" /\ Up(p)
  BY <1>2 DEF WithIteration
<1>4. Served(i, Waiting) <=> task[p].pc \in Waiting /\ Up(p)
  BY <1>2 DEF WithIteration, Waiting
<1>5. ~(i > lastIter)
  BY <1>1
<1> QED
  BY <1>3, <1>4, <1>5 DEF Status, OwnStatus, Waiting

LEMMA StatusOfNone ==
  ASSUME TypeOK, NEW i \in Iteration, i <= lastIter,
         \A p \in Proc : HasIteration(p) => task[p].iter # i
  PROVE  Status(i) = "over"
<1>1. i \in Nat /\ lastIter \in Nat
  BY BoundsAssumption DEF TypeOK, Iteration
<1>2. ~Served(i, {"running"}) /\ ~Served(i, {"claiming", "losing", "queued"})
  BY DEF Served, HasIteration, WithIteration
<1> QED
  BY <1>1, <1>2 DEF Status

LEMMA StatusOfLater ==
  ASSUME TypeOK, NEW i \in Iteration, i > lastIter
  PROVE  Status(i) = "absent"
BY DEF Status

\* An iteration that p neither had nor has looks as it did.
LEMMA Elsewhere ==
  ASSUME NEW p \in Proc, NEW i \in Iteration, lastIter' = lastIter,
         \A q \in Proc \ {p} : task'[q] = task[q] /\ (Up(q)' <=> Up(q)),
         HasIteration(p) => task[p].iter # i, HasIteration(p)' => task'[p].iter # i
  PROVE  Status(i)' = Status(i)
<1>1. ASSUME NEW pcs \in SUBSET WithIteration
      PROVE  (\E q \in Proc : task'[q].iter = i /\ task'[q].pc \in pcs /\ Up(q)')
               <=> (\E q \in Proc : task[q].iter = i /\ task[q].pc \in pcs /\ Up(q))
  BY DEF HasIteration
<1>2. Served(i, {"running"})' <=> Served(i, {"running"})
  BY <1>1 DEF Served, WithIteration
<1>3. Served(i, {"claiming", "losing", "queued"})'
        <=> Served(i, {"claiming", "losing", "queued"})
  BY <1>1 DEF Served, WithIteration
<1> QED
  BY <1>2, <1>3 DEF Status

-----------------------------------------------------------------------------
(* Steps.                                                                  *)

Others(p) == \A q \in Proc \ {p} : task'[q] = task[q] /\ (Up(q)' <=> Up(q))

\* A new row: its iteration was absent and now waits.
LEMMA NewRowAsks ==
  ASSUME SInv, OnlySubmissions, SInv', NEW p \in Proc, Advance(p), lastIter' = lastIter + 1,
         task'[p].iter = lastIter + 1, task'[p].pc = "claiming",
         \A q \in Proc \ {p} : task'[q] = task[q]
  PROVE  \E k \in Iteration : /\ Status(k) = "absent" /\ Status(k)' = "waiting"
                              /\ \A i \in Iteration \ {k} : Status(i)' = Status(i)
<1>1. UNCHANGED proc
  BY ServingKeepsEpochs
<1>3. lastIter \in Nat /\ lastIter + 1 \in Iteration /\ lastIter' # lastIter
  <2>1. lastIter \in 0..MaxIterations /\ lastIter' \in 0..MaxIterations
    BY DEF SInv, IInv, TypeOK
  <2> QED
    BY <2>1, BoundsAssumption DEF Iteration
<1>2. Up(p) /\ task[p].pc = "inserting"
  <2>1. Insert(p)
    BY <1>3 DEF Advance, CheckOpen, ReadSeq, Claim, CloseLoser, StartWork,
       FinishWork, Release, EndStep
  <2>2. proc[p].state \in {"up", "stopping"} /\ task[p].pc = "inserting"
    BY <2>1 DEF Insert, At
  <2> QED
    BY <2>2 DEF SInv, StoppingInv, Up
<1>k. PICK k \in Iteration : k = lastIter + 1
  BY <1>3
<1>4. Status(k) = "absent"
  BY <1>3, <1>k DEF Status
<1>5. \A q \in Proc \ {p} : task'[q].iter # k
  <2>1. \A q \in Proc : task[q].iter \in Nat /\ task[q].iter <= lastIter
    BY DEF SInv, IInv, TypeOK, TaskRow, Iteration, Null
  <2> QED
    BY <2>1, <1>3, <1>k
<1>6. Status(k)' = "waiting"
  <2>1. Up(p)'
    BY <1>1, <1>2 DEF Up
  <2>2. Served(k, {"claiming", "losing", "queued"})'
    BY <1>k, <2>1 DEF Served
  <2>3. ~Served(k, {"running"})'
    BY <1>5 DEF Served
  <2>4. ~(k > lastIter')
    BY <1>3, <1>k
  <2> QED
    BY <2>2, <2>3, <2>4 DEF Status
<1>7. ASSUME NEW i \in Iteration \ {k} PROVE Status(i)' = Status(i)
  <2>1. i \in Nat
    BY DEF Iteration
  <2>2. i > lastIter' <=> i > lastIter
    BY <1>3, <1>7, <1>k, <2>1
  <2>3. CASE i > lastIter
    BY <2>2, <2>3 DEF Status
  <2>4. CASE ~(i > lastIter)
    <3>1. task[p].pc = "inserting" /\ task'[p].iter # i
      BY <1>2, <1>7, <1>k
    <3>2. \A q \in Proc : Up(q)' <=> Up(q)
      BY <1>1 DEF Up
    <3>3. Served(i, {"running"})' <=> Served(i, {"running"})
      BY <3>1, <3>2 DEF Served
    <3>4. Served(i, {"claiming", "losing", "queued"})'
            <=> Served(i, {"claiming", "losing", "queued"})
      BY <3>1, <3>2 DEF Served
    <3> QED
      BY <2>2, <3>3, <3>4 DEF Status
  <2> QED
    BY <2>3, <2>4
<1> QED
  BY <1>4, <1>6, <1>7

StepOf(p) == \/ Boot(p) \/ Serve(p) \/ Advance(p) \/ Answer(p) \/ Stop(p) \/ Exit(p)

\* A step touches the task and the state of one process.
LEMMA OneMoves ==
  ASSUME SInv, OnlySubmissions, NEW p \in Proc, StepOf(p)
  PROVE  Others(p)
<1>0. TypeOK
  BY DEF SInv, IInv
<1>1. CASE Boot(p)
  BY <1>0, <1>1 DEF Boot, BootSweep, BootReconcile, Others, Up, TypeOK
<1>2. CASE Serve(p) \/ Answer(p)
  <2>1. UNCHANGED proc
    BY <1>2, ServingKeepsEpochs
  <2>2. \A q \in Proc \ {p} : task'[q] = task[q]
    BY <1>0, <1>2 DEF Serve, Answer, Begin, BeginStep, AskRecovery, SubmitRecovery,
       CloseAbandoned, TypeOK
  <2> QED
    BY <2>1, <2>2 DEF Others, Up
<1>3. CASE Advance(p)
  <2>1. UNCHANGED proc
    BY <1>3, ServingKeepsEpochs
  <2>2. \A q \in Proc \ {p} : task'[q] = task[q]
    BY <1>0, <1>3 DEF Advance, CheckOpen, ReadSeq, Insert, Claim, CloseLoser,
       StartWork, FinishWork, Release, EndStep, Goto, Drop, TypeOK
  <2> QED
    BY <2>1, <2>2 DEF Others, Up
<1>4. CASE Stop(p) \/ Exit(p)
  <2>1. CASE Vanish(p)
    BY <1>0, <2>1 DEF Vanish, Others, Up, TypeOK
  <2>2. CASE ShutdownTimeout(p)
    BY <1>0, <2>2 DEF ShutdownTimeout, Others, Up, TypeOK
  <2> QED
    BY <1>4, <2>1, <2>2 DEF Stop, Exit, Crash, ShutdownClean
<1> QED
  BY <1>1, <1>2, <1>3, <1>4 DEF StepOf

\* A task that keeps its iteration waits on, starts to run, or is over.
LEMMA OwnChange ==
  ASSUME SInv, OnlySubmissions, NEW p \in Proc, StepOf(p), HasIteration(p),
         HasIteration(p)'
  PROVE  \/ OwnStatus(p)' = OwnStatus(p)
         \/ OwnStatus(p) # "absent" /\ OwnStatus(p)' = "over"
         \/ OwnStatus(p) = "waiting" /\ OwnStatus(p)' = "running"
<1>0. TypeOK /\ TaskInv /\ RequestInv
  BY DEF SInv, IInv
<1>1. CASE Boot(p)
  BY <1>0, <1>1 DEF Boot, BootSweep, BootReconcile, TaskInv, HasIteration, Idle,
     NewTask, WithIteration
<1>2. CASE Serve(p)
  BY <1>0, <1>2 DEF Serve, Begin, BeginStep, AskRecovery, HasIteration, WithIteration,
     OnlySubmissions, Submissions, Recoveries
<1>3. CASE Answer(p)
  BY <1>0, <1>3 DEF Answer, SubmitRecovery, CloseAbandoned, RequestInv, NoRequest
<1>4. CASE Stop(p) \/ Exit(p)
  <2>1. CASE Vanish(p)
    BY <1>0, <2>1 DEF Vanish, HasIteration, Idle, NewTask, WithIteration, TypeOK
  <2>2. CASE ShutdownTimeout(p)
    <3>1. ~Up(p)'
      BY <1>0, <2>2 DEF ShutdownTimeout, Up, TypeOK, ProcRow
    <3> QED
      BY <3>1 DEF OwnStatus
  <2> QED
    BY <1>4, <2>1, <2>2 DEF Stop, Exit, Crash, ShutdownClean
<1>5. CASE Advance(p)
  <2>1. Up(p)' <=> Up(p)
    BY <1>5, ServingKeepsEpochs DEF Up
  <2>2. task[p].pc # "idle" /\ task[p].op \in Submissions
    BY <1>0 DEF HasIteration, WithIteration, TaskInv
  <2>3. ~Drop(p)
    BY <1>0 DEF Drop, HasIteration, WithIteration, Idle, NewTask, TypeOK
  <2>4. task[p].pc \in WithIteration
    BY DEF HasIteration
  <2>5. \/ task[p].pc = "claiming" /\ task'[p].pc \in Waiting
        \/ task[p].pc = "queued" /\ task'[p].pc = "running"
        \/ task[p].pc = "running" /\ task'[p].pc = "releasing"
    <3>1. CASE Claim(p)
      BY <1>0, <2>3, <3>1 DEF Claim, Goto, At, Waiting, TypeOK, TaskRow
    <3>2. CASE StartWork(p) \/ FinishWork(p)
      BY <1>0, <2>3, <3>2 DEF StartWork, FinishWork, Goto, At, TypeOK, TaskRow
    <3>3. Claim(p) \/ StartWork(p) \/ FinishWork(p)
      BY <1>5, <2>3, <2>4 DEF Advance, CheckOpen, ReadSeq, Insert, CloseLoser, Release,
         EndStep, At, WithIteration
    <3> QED
      BY <3>1, <3>2, <3>3
  <2> QED
    BY <2>1, <2>5 DEF OwnStatus, Waiting
<1> QED
  BY <1>1, <1>2, <1>3, <1>4, <1>5 DEF StepOf

\* The same facts after a step.
StatusFacts ==
  TypeOK /\ IterInv =>
    /\ \A p \in Proc : HasIteration(p) => Status(task[p].iter) = OwnStatus(p)
    /\ \A i \in Iteration :
         i <= lastIter /\ (\A p \in Proc : HasIteration(p) => task[p].iter # i)
           => Status(i) = "over"

LEMMA StatusFactsHold == StatusFacts
BY StatusOfTask, StatusOfNone DEF StatusFacts

LEMMA StatusFactsAfter == StatusFacts'
BY StatusFactsHold, PTL

LEMMA SafeAfter ==
  ASSUME OnlySubmissions
  PROVE  IInv' => OneRunPerSession'
<1>1. IInv => OneRunPerSession
  BY Safe
<1> QED
  BY <1>1, PTL

-----------------------------------------------------------------------------
(* The refinement.                                                         *)

Same == \A i \in Iteration : Status(i)' = Status(i)
Moves(k, from, to) ==
  /\ Status(k) = from /\ Status(k)' = to
  /\ \A i \in Iteration \ {k} : Status(i)' = Status(i)

\* What the status of the iterations does in a step of the code.
LEMMA StatusStep ==
  ASSUME OneHost, OnlySubmissions, SInv, SInv', Next
  PROVE  \/ Same
         \/ \E k \in Iteration :
              \/ Moves(k, "absent", "waiting")
              \/ Moves(k, "waiting", "running")
              \/ \E s \in {"waiting", "running"} : Moves(k, s, "over")
<1>0. TypeOK /\ IterInv /\ TaskInv /\ RequestInv /\ TypeOK' /\ IterInv'
  BY DEF SInv, IInv
<1>1. PICK p \in Proc : StepOf(p)
  BY NoDiscard DEF Next, StepOf
<1>2. Others(p)
  BY <1>1, OneMoves
<1>3. CASE lastIter' = lastIter
           /\ \A q \in Proc : HasIteration(q)'
                                => HasIteration(q) /\ task'[q].iter = task[q].iter
  <2>1. CASE ~HasIteration(p)
    <3>1. \A i \in Iteration : Status(i)' = Status(i)
      BY <1>2, <1>3, <2>1, Elsewhere DEF Others
    <3> QED
      BY <3>1 DEF Same
  <2>2. CASE HasIteration(p)
    <3>1. PICK k \in Iteration : k = task[p].iter
      BY <1>0, <2>2 DEF IterInv, TypeOK, TaskRow, Null, Iteration
    <3>2. k <= lastIter' /\ k <= lastIter
      BY <1>0, <1>3, <2>2, <3>1 DEF IterInv
    <3>3. \A i \in Iteration \ {k} : Status(i)' = Status(i)
      BY <1>2, <1>3, <3>1, Elsewhere DEF Others
    <3>4. Status(k) = OwnStatus(p)
      BY <1>0, <2>2, <3>1, StatusOfTask
    <3>5. OwnStatus(p) \in {"waiting", "running", "over"}
      BY DEF OwnStatus
    <3>6. CASE HasIteration(p)'
      <4>1. task'[p].iter = k
        BY <1>3, <3>1, <3>6
      <4>2. Status(k)' = OwnStatus(p)'
        BY <1>0, <3>6, <4>1, StatusFactsAfter DEF StatusFacts
      <4> QED
        BY <1>1, <2>2, <3>3, <3>4, <3>5, <3>6, <4>2, OwnChange DEF Same, Moves
    <3>7. CASE ~HasIteration(p)'
      <4>1. \A q \in Proc : HasIteration(q)' => task'[q].iter # k
        BY <1>0, <1>3, <2>2, <3>1, <3>7 DEF IterInv
      <4>2. Status(k)' = "over"
        BY <1>0, <3>2, <4>1, StatusFactsAfter DEF StatusFacts
      <4> QED
        BY <3>3, <3>4, <3>5, <4>2 DEF Same, Moves
    <3> QED
      BY <3>6, <3>7
  <2> QED
    BY <2>1, <2>2
<1>4. CASE \E q \in Proc : /\ lastIter' = lastIter + 1
                           /\ task'[q].iter = lastIter + 1
                           /\ task'[q].pc = "claiming"
                           /\ \A r \in Proc \ {q} : task'[r] = task[r]
  <2>1. PICK q \in Proc : /\ lastIter' = lastIter + 1
                          /\ task'[q].iter = lastIter + 1
                          /\ task'[q].pc = "claiming"
                          /\ \A r \in Proc \ {q} : task'[r] = task[r]
    BY <1>4
  <2>2. lastIter \in Nat /\ task[q].iter \in Nat /\ task[q].iter <= lastIter
    BY <1>0, BoundsAssumption DEF TypeOK, TaskRow, Iteration, Null
  <2>3. q = p
    BY <1>2, <2>1, <2>2 DEF Others
  <2>4. Advance(p)
    <3>1. lastIter' # lastIter
      BY <2>1, <2>2
    <3> QED
      BY <1>1, <3>1 DEF StepOf, Boot, BootSweep, BootReconcile, Serve, Begin, BeginStep,
         AskRecovery, Answer, SubmitRecovery, CloseAbandoned, Stop, Crash,
         ShutdownClean, ShutdownTimeout, Exit
  <2> QED
    BY <2>1, <2>3, <2>4, NewRowAsks DEF Moves
<1> QED
  BY <1>0, <1>3, <1>4, TaskChange

\* Every step of RunSlot is a step of Session or leaves it where it is.
LEMMA StepRefines ==
  ASSUME OneHost, OnlySubmissions, SInv, SInv', [Next]_vars
  PROVE  [Abstract!Next]_([i \in Iteration |-> Status(i)])
<1> DEFINE st == [i \in Iteration |-> Status(i)]
<1>1. CASE UNCHANGED vars
  <2>1. \A i \in Iteration : Status(i)' = Status(i)
    BY <1>1 DEF vars, Status, Served, Up
  <2> QED
    BY <2>1
<1>2. CASE Next
  <2>1. CASE Same
    BY <2>1 DEF Same
  <2>2. CASE \E k \in Iteration : Moves(k, "absent", "waiting")
    <3>1. PICK k \in Iteration : Moves(k, "absent", "waiting")
      BY <2>2
    <3>2. st[k] = "absent" /\ st' = [st EXCEPT ![k] = "waiting"]
      BY <3>1 DEF Moves
    <3> QED
      BY <3>2 DEF Abstract!Next, Abstract!Ask
  <2>3. CASE \E k \in Iteration : Moves(k, "waiting", "running")
    <3>1. PICK k \in Iteration : Moves(k, "waiting", "running")
      BY <2>3
    <3>2. st[k] = "waiting" /\ st' = [st EXCEPT ![k] = "running"]
      BY <3>1 DEF Moves
    <3>3. \A j \in Iteration : st[j] # "running"
      <4>1. SUFFICES ASSUME NEW j \in Iteration, Status(j) = "running" PROVE FALSE
        OBVIOUS
      <4>2. j # k /\ Status(j)' = "running" /\ Status(k)' = "running"
        BY <3>1, <4>1 DEF Moves
      <4>3. PICK q \in Proc : Running(q)' /\ task'[q].iter = j
        BY <4>2 DEF Status, Served, Running
      <4>4. PICK p \in Proc : Running(p)' /\ task'[p].iter = k
        BY <4>2 DEF Status, Served, Running
      <4>5. OneRunPerSession'
        BY SafeAfter DEF SInv
      <4> QED
        BY <4>2, <4>3, <4>4, <4>5 DEF OneRunPerSession
    <3> QED
      BY <3>2, <3>3 DEF Abstract!Next, Abstract!Run
  <2>4. CASE \E k \in Iteration : \E s \in {"waiting", "running"} : Moves(k, s, "over")
    <3>1. PICK k \in Iteration, s \in {"waiting", "running"} : Moves(k, s, "over")
      BY <2>4
    <3>2. st[k] \in {"waiting", "running"} /\ st' = [st EXCEPT ![k] = "over"]
      BY <3>1 DEF Moves
    <3> QED
      BY <3>2 DEF Abstract!Next, Abstract!Leave
  <2> QED
    BY <1>2, <2>1, <2>2, <2>3, <2>4, StatusStep
<1> QED
  BY <1>1, <1>2

LEMMA InitRefines ==
  ASSUME Init
  PROVE  SInv /\ Abstract!Init
<1>1. IInv
  BY InitIInv
<1>2. \A p \in Proc : proc[p].state = "down"
  BY DEF Init, Down
<1>3. StoppingInv
  BY <1>2 DEF StoppingInv
<1>4. \A i \in Iteration : i > lastIter
  BY DEF Init, Iteration
<1>5. \A i \in Iteration : Status(i) = "absent"
  BY <1>4 DEF Status
<1> QED
  BY <1>1, <1>3, <1>5 DEF SInv, Abstract!Init

\* What the slot, the epochs and the reconciliation are for: a session serves
\* each iteration that is asked of it at most once, and one at a time.
THEOREM SessionImplemented ==
  ASSUME OneHost, OnlySubmissions
  PROVE  Spec => ServesAsSession
<1>1. Init => SInv /\ Abstract!Init
  BY InitRefines
<1>2. SInv /\ [Next]_vars => SInv'
  BY SInvStep
<1>3. SInv /\ SInv' /\ [Next]_vars => [Abstract!Next]_([i \in Iteration |-> Status(i)])
  BY StepRefines
<1> QED
  BY <1>1, <1>2, <1>3, PTL DEF Spec, ServesAsSession, Abstract!Spec
=============================================================================
