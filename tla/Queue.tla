------------------------------- MODULE Queue -------------------------------
(***************************************************************************)
(* The query queue of one session, from one iteration to the next: which   *)
(* queries are proposed, refused, bought at a vendor, lost to a crash,     *)
(* bought again, left uncollected, or written for a later iteration.       *)
(*                                                                         *)
(* A query is named by what it asks for.  The session has one city, and    *)
(* its vendors share one budget.  Stages that do not touch the queue are   *)
(* left out: triage and correlation appear as the choice of what TIPPING   *)
(* and SCHEDULING propose.  Which requests are admitted when is the        *)
(* subject of RunSlot, what an iteration remembers of its stages that of   *)
(* Iteration.                                                              *)
(***************************************************************************)
EXTENDS Integers, FiniteSets

CONSTANTS Social, Live, Booking, History, \* the queries of each source type
          Cooldown,      \* tipping.cooldown_minutes
          Revisit,       \* tipping.revisit_minutes
          Cap,           \* max_queries_per_iteration and _per_city
          Monthly,       \* monthly_limit
          HardCap,       \* per_iteration_cap
          Share,         \* iterations the rest of the month is divided by
          HardStop,      \* units from which only reserved priorities buy
          Ops,           \* what may interfere with the automatic run
          MaxCost,       \* bound: units a query turns out to cost
          MaxTime,       \* bound: the clock, which moves between stages
          MaxIterations, \* bound: iterations of the session
          MaxUpsets,     \* bound: crashes and discards
          MaxRows        \* bound: rows of query_queue

Key == Social \cup Live \cup Booking \cup History
Null == 0

\* A query is of one source type.
ASSUME KeysAssumption ==
  /\ Null \notin Key
  /\ Social \cap (Live \cup Booking \cup History) = {}
  /\ Live \cap (Booking \cup History) = {}
  /\ Booking \cap History = {}
ASSUME TimesAssumption == {Cooldown, Revisit, MaxTime} \subseteq Nat
ASSUME BudgetAssumption ==
  /\ {Cap, Monthly, HardCap, HardStop} \subseteq Nat
  /\ Share \in Nat \ {0}
ASSUME BoundsAssumption ==
  {MaxCost, MaxIterations, MaxUpsets, MaxRows} \subseteq Nat
ASSUME OpsAssumption == Ops \subseteq {"crash", "discard", "cancel"}

\* The stages that touch the queue.
SEEDING == 1
COLLECTING_SOCIAL == 2
TIPPING == 3
COLLECTING_TIPPED == 4
SCHEDULING == 5
Stage == SEEDING..SCHEDULING

PRIO_FLIGHT == 10
PRIO_FLIGHT_HISTORY == 20
PRIO_SCHEDULED == 25
PRIO_BOOKING == 30
PRIO_SEED == 40
ReservedCeiling == 20
Priority == 0..PRIO_SEED

IterationId == 1..MaxIterations
Row == 1..MaxRows
Never == MaxTime + 1

VARIABLES rows,    \* query_queue, with what raw_results, signals and api_calls
                   \* hold of each query
          last,    \* the last query_id given out
          run,     \* the latest iteration and the stage at work in it
          clock,   \* the time, and the upsets so far
          money,   \* units used this month, and by this iteration; its plan
          bought,  \* history: vendor requests this iteration made per query
          returned \* history: how often each was handed back to be collected

vars == <<rows, last, run, clock, money, bought, returned>>

Statuses == {"absent", "PENDING", "IN_PROGRESS", "COMPLETE", "FAILED",
             "INTERRUPTED", "SKIPPED_BUDGET", "SKIPPED_NO_MAPPING"}
FollowOns == {"SCHEDULED", "CARRIED_FORWARD"}
Origins == {"SEED", "TIP"} \cup FollowOns

Proposal == [key : Key, prio : Priority, origin : Origins]

\* iter owns the row and by wrote it; orphaned are signals without payload.
QueryRow == [key : Key \cup {Null}, iter : IterationId \cup {Null},
             by : IterationId \cup {Null}, status : Statuses,
             origin : Origins, prio : Priority, due : Nat,
             executed : 0..Never, billed : BOOLEAN,
             raw : {"none", "stored", "derived", "orphaned"}]

NoRow == [key |-> Null, iter |-> Null, by |-> Null, status |-> "absent",
          origin |-> "SEED", prio |-> 0, due |-> 0, executed |-> Never,
          billed |-> FALSE, raw |-> "none"]

Working == {"proposing", "draining", "claimed", "called", "stored", "derived"}
Idle == {"ready", "ended", "closed", "dead", "down"}

\* ran are the stages with a record that is not RUNNING, at is where the first
\* interruption was, torn says that a discard was left half done.
RunRow == [iter : IterationId \cup {Null}, stage : Stage,
           step : Working \cup Idle, pass : {1, 2}, todo : SUBSET Proposal,
           due : SUBSET Row, row : Row \cup {Null}, added : BOOLEAN,
           ran : SUBSET Stage, at : Stage \cup {Null},
           tipped : BOOLEAN, torn : BOOLEAN,
           end : {"none", "full", "failed", "cut"}]

TypeOK ==
  /\ rows \in [Row -> QueryRow]
  /\ last \in 0..MaxRows
  /\ run \in RunRow
  /\ clock \in [now : 0..MaxTime, upsets : 0..MaxUpsets]
  /\ money \in [used : Nat, spent : Nat, plan : Nat]
  /\ bought \in [Key -> Nat] /\ returned \in [Key -> Nat]
  /\ \A r \in Row : r > last => rows[r] = NoRow

\* A fresh iteration, its pointer at the first stage.
Fresh(i) ==
  [iter |-> i, stage |-> SEEDING, step |-> "ready", pass |-> 1, todo |-> {},
   due |-> {}, row |-> Null, added |-> FALSE, ran |-> {}, at |-> Null,
   tipped |-> FALSE, torn |-> FALSE, end |-> "none"]

Init ==
  /\ rows = [r \in Row |-> NoRow]
  /\ last = 0
  /\ run = [Fresh(Null) EXCEPT !.step = "closed", !.end = "full"]
  /\ clock = [now |-> 0, upsets |-> 0]
  /\ money = [used |-> 0, spent |-> 0, plan |-> 0]
  /\ bought = [k \in Key |-> 0]
  /\ returned = [k \in Key |-> 0]

Least(S) == CHOOSE x \in S : \A y \in S : x <= y
Greatest(S) == CHOOSE x \in S : \A y \in S : y <= x

-----------------------------------------------------------------------------
(* The guards.                                                             *)

Present == {r \in Row : rows[r].status # "absent"}
Owned == {r \in Present : rows[r].iter = run.iter}

LastCompletion(k) ==
  {rows[r].executed : r \in {s \in Present :
     rows[s].key = k /\ rows[s].status = "COMPLETE"}} \ {Never}
\* When the query ran, in any iteration and however it ended.
LastExecution(k) ==
  {rows[r].executed : r \in {s \in Present : rows[s].key = k}} \ {Never}

\* The parameters of a history query end now: no two have the same dedup_key.
Recurs(k) == k \notin History

InCooldown(k) ==
  Recurs(k) /\ \E t \in LastExecution(k) : clock.now - t < Cooldown

\* Before the call, a query is taken to cost one unit.
CanAfford(prio) ==
  /\ money.used + 1 <= Monthly
  /\ money.used >= HardStop => prio <= ReservedCeiling
  /\ money.spent + 1 <= money.plan

PlanIteration ==
  LET fair == (IF money.used < Monthly THEN Monthly - money.used ELSE 0)
              \div Share
  IN Least({fair, HardCap})

DuplicateOfPending(k) ==
  \E r \in Owned : rows[r].key = k /\ rows[r].status = "PENDING"
\* idx_qq_dedup, over one iteration's rows.
Duplicate(k) == Recurs(k) /\ \E r \in Owned : rows[r].key = k

\* Cap, cooldown, budget and, for a row this iteration would own, uniqueness:
\* SQLite takes the NULL owners of two rows written for later as distinct.
Admitted(p) ==
  /\ Cardinality(Owned) < Cap
  /\ ~InCooldown(p.key)
  /\ CanAfford(p.prio)
  /\ p.origin \in FollowOns \/ ~Duplicate(p.key)

NewRow(p) ==
  [NoRow EXCEPT !.key = p.key, !.by = run.iter, !.status = "PENDING",
                !.origin = p.origin, !.prio = p.prio,
                !.iter = IF p.origin \in FollowOns THEN Null ELSE run.iter,
                !.due = IF p.origin \in FollowOns THEN clock.now + Revisit
                                                  ELSE 0]

-----------------------------------------------------------------------------
(* An iteration begins; a stage begins.                                    *)

NewIteration ==
  /\ run.step = "closed" /\ run.iter < MaxIterations
  /\ run' = [Fresh(run.iter + 1) EXCEPT !.torn = run.torn]
  /\ money' = [money EXCEPT !.spent = 0, !.plan = PlanIteration]
  /\ bought' = [k \in Key |-> 0]
  /\ returned' = [k \in Key |-> 0]
  /\ UNCHANGED <<rows, last, clock>>

Proposals(keys, prio, origin) ==
  {[key |-> k, prio |-> prio, origin |-> origin] : k \in keys}

Seeds == Proposals(Social, PRIO_SEED, "SEED")
\* R1, R3, R4, R5 and R9.
SocialTips == Proposals(Live, PRIO_FLIGHT, "TIP")
              \cup Proposals(Booking, PRIO_BOOKING, "TIP")
Revisits == Proposals(Social, PRIO_SCHEDULED, "SCHEDULED")

Due == {r \in Present : /\ rows[r].iter = Null
                        /\ rows[r].status = "PENDING"
                        /\ rows[r].due <= clock.now}

Begin(s, step, due, todo) ==
  run' = [run EXCEPT !.stage = s, !.step = step, !.pass = 1, !.row = Null,
                     !.due = due, !.todo = todo, !.added = FALSE]

\* Triage finds signals in stored posts only.
MayTip == \E r \in Owned : rows[r].key \in Social /\ rows[r].raw = "stored"

\* What is tipped depends on triage, a revisit on the band correlated.
BeginStage ==
  /\ run.step = "ready" \/ run.step = "ended"
  /\ LET s == IF run.step = "ready" THEN run.stage ELSE run.stage + 1
     IN \/ s = SEEDING /\ Begin(s, "proposing", Due, Seeds)
        \/ /\ s \in {COLLECTING_SOCIAL, COLLECTING_TIPPED}
           /\ Begin(s, "draining", {}, {})
        \/ /\ s = TIPPING
           /\ \E tips \in {{}} \cup (IF MayTip THEN {SocialTips} ELSE {}) :
                Begin(s, "proposing", {}, tips)
        \/ /\ s = SCHEDULING
           /\ \E later \in {{}, Revisits} : Begin(s, "proposing", {}, later)
  /\ UNCHANGED <<rows, last, clock, money, bought, returned>>

-----------------------------------------------------------------------------
(* Adopting what came due, proposing queries.                              *)

Close(how) == [run EXCEPT !.step = "closed", !.end = how, !.todo = {},
                          !.due = {}, !.row = Null]
Ended == [run EXCEPT !.step = "ended", !.ran = @ \cup {run.stage}]

\* No guard of enqueue applies to a row written for later.  A second copy of
\* a query violates idx_qq_dedup, and seeding fails with the exception.
Adopt ==
  /\ run.step = "proposing"
  /\ \E r \in run.due :
       \/ /\ ~Duplicate(rows[r].key)
          /\ rows' = [rows EXCEPT ![r].iter = run.iter]
          /\ run' = [run EXCEPT !.due = @ \ {r}, !.added = TRUE]
       \/ /\ Duplicate(rows[r].key)
          /\ run' = [Close("failed") EXCEPT !.ran = Ended.ran]
          /\ UNCHANGED rows
  /\ UNCHANGED <<last, clock, money, bought, returned>>

SameId == last
\* query_id is AUTOINCREMENT.
NextId == last + 1

\* What the escalation adds of the flight queries is not counted as escalated.
Propose ==
  /\ run.step = "proposing" /\ run.due = {} /\ last < MaxRows
  /\ \E p \in run.todo :
       /\ IF Admitted(p)
          THEN /\ last' = NextId
               /\ rows' = [rows EXCEPT ![last + 1] = NewRow(p)]
          ELSE UNCHANGED <<rows, last>>
       /\ run' = [run EXCEPT
                    !.todo = @ \ {p},
                    !.added = @ \/ (Admitted(p) /\ (run.stage = SEEDING
                                                    \/ p.key \notin Live))]
  /\ UNCHANGED <<clock, money, bought, returned>>

ImprovedPriority(prio) == IF prio < 10 THEN 0 ELSE prio - 10

CarriedForward ==
  {[key |-> rows[r].key, prio |-> ImprovedPriority(rows[r].prio),
    origin |-> "CARRIED_FORWARD"] :
     r \in {s \in Owned : rows[s].status = "SKIPPED_BUDGET"}}

\* Seeding that added nothing is critical; the escalation that added nothing
\* ends the stage without a second pass.
EndProposals ==
  /\ run.step = "proposing" /\ run.due = {} /\ run.todo = {}
  /\ run' = CASE run.stage = SEEDING /\ ~run.added ->
                   [Close("failed") EXCEPT !.ran = Ended.ran]
              [] run.stage = COLLECTING_TIPPED /\ run.added ->
                   [run EXCEPT !.step = "draining", !.pass = 2]
              [] run.stage = SCHEDULING /\ run.pass = 1 ->
                   [run EXCEPT !.pass = 2, !.todo = CarriedForward]
              [] run.stage = SCHEDULING /\ run.pass = 2 ->
                   [Close("full") EXCEPT !.ran = Ended.ran]
              [] OTHER -> Ended
  /\ UNCHANGED <<rows, last, clock, money, bought, returned>>

-----------------------------------------------------------------------------
(* Collecting.                                                             *)

\* The source types of the pass at work.
PassKeys ==
  IF run.stage = COLLECTING_SOCIAL THEN Social
  ELSE IF run.pass = 1 THEN Live \cup Booking ELSE History \cup Booking

Claimable == {r \in Owned : rows[r].status = "PENDING"
                            /\ rows[r].key \in PassKeys}

Claim ==
  /\ run.step = "draining"
  /\ \E r \in Claimable :
       /\ \A s \in Claimable : \/ rows[r].prio < rows[s].prio
                               \/ rows[r].prio = rows[s].prio /\ r <= s
       /\ rows' = [rows EXCEPT ![r].status = "IN_PROGRESS"]
       /\ run' = [run EXCEPT !.step = "claimed", !.row = r]
  /\ UNCHANGED <<last, clock, money, bought, returned>>

EndQuery(status, executed) ==
  /\ rows' = [rows EXCEPT ![run.row] = [@ EXCEPT !.status = status,
                                                !.executed = executed]]
  /\ run' = [run EXCEPT !.step = "draining", !.row = Null]
  /\ UNCHANGED <<last, clock, money, bought, returned>>

\* A skip counts as an execution once the query has been billed.
SkippedAt == IF rows[run.row].executed # Never THEN rows[run.row].executed
             ELSE IF rows[run.row].billed THEN clock.now ELSE Never

AffordableOnceQueued == TRUE
\* The second budget check.
StillAffordable == CanAfford(rows[run.row].prio)

RefuseBudget ==
  /\ run.step = "claimed" /\ ~StillAffordable
  /\ EndQuery("SKIPPED_BUDGET", SkippedAt)

\* What the request costs is known, and billed, when the vendor answers.
Call ==
  /\ run.step = "claimed" /\ StillAffordable
  /\ \E cost \in 1..MaxCost :
       money' = [money EXCEPT !.used = @ + cost, !.spent = @ + cost]
  /\ rows' = [rows EXCEPT ![run.row].billed = TRUE]
  /\ run' = [run EXCEPT !.step = "called"]
  /\ bought' = [bought EXCEPT ![rows[run.row].key] = @ + 1]
  /\ UNCHANGED <<last, clock, returned>>

StoreRaw ==
  /\ run.step = "called"
  /\ rows' = [rows EXCEPT ![run.row].raw = "stored"]
  /\ run' = [run EXCEPT !.step = "stored"]
  /\ UNCHANGED <<last, clock, money, bought, returned>>

\* A social query leaves its signals to triage.
WriteSignals ==
  /\ run.step = "stored" /\ rows[run.row].key \notin Social
  /\ rows' = [rows EXCEPT ![run.row].raw = "derived"]
  /\ run' = [run EXCEPT !.step = "derived"]
  /\ UNCHANGED <<last, clock, money, bought, returned>>

\* An answer may be empty: then there are no signals to write.
CompleteQuery ==
  /\ run.step \in {"stored", "derived"}
  /\ EndQuery("COMPLETE", clock.now)

FailQuery ==
  /\ \/ run.step = "claimed" /\ StillAffordable  \* no connector
     \/ run.step \in {"called", "stored", "derived"}
  /\ EndQuery("FAILED", clock.now)

\* No listings, or too few to compare, known before or after the answer.
SkipQuery ==
  /\ \/ run.step = "claimed" /\ StillAffordable
     \/ run.step \in {"called", "stored"}
  /\ rows[run.row].key \in Booking
  /\ EndQuery("SKIPPED_NO_MAPPING", SkippedAt)

FlightSignals == {r \in Owned : rows[r].raw \in {"derived", "orphaned"}
                                /\ rows[r].key \in Live \cup History}

\* R6: flights where no booking query exists propose what social tips do.
FlightTips ==
  IF FlightSignals = {} \/ \E r \in Owned : rows[r].key \in Booking
  THEN {} ELSE SocialTips

\* R2, if live records are still ambiguous, and R6.
EndPass ==
  /\ run.step = "draining" /\ Claimable = {}
  /\ \/ /\ run.stage = COLLECTING_TIPPED /\ run.pass = 1
        /\ \E ambiguous \in {FALSE} \cup {FlightSignals # {}} :
             run' = [run EXCEPT
               !.step = "proposing", !.added = FALSE,
               !.tipped = @ \/ FlightTips # {},
               !.todo = FlightTips \cup
                        Proposals(IF ambiguous THEN History ELSE {},
                                  PRIO_FLIGHT_HISTORY, "TIP")]
     \/ /\ run.stage = COLLECTING_SOCIAL \/ run.pass = 2
        /\ run' = Ended
  /\ UNCHANGED <<rows, last, clock, money, bought, returned>>

-----------------------------------------------------------------------------
(* Cancelling, crashing, resuming, abandoning, discarding.                 *)

\* The rest is skipped but for the two stages that do not touch the queue.
Cancel ==
  /\ "cancel" \in Ops
  /\ run.step \in {"ready", "ended"}
  /\ run' = Close("cut")
  /\ UNCHANGED <<rows, last, clock, money, bought, returned>>

Crash ==
  /\ "crash" \in Ops /\ clock.upsets < MaxUpsets
  /\ run.step \in Working \cup {"ready", "ended"}
  /\ clock' = [clock EXCEPT !.upsets = @ + 1]
  /\ run' = [run EXCEPT !.step = "dead", !.todo = {}, !.due = {}, !.row = Null,
               !.ran = IF run.step \in Working THEN Ended.ran ELSE @]
  /\ UNCHANGED <<rows, last, money, bought, returned>>

NoneInProgress == {}
InProgress == {r \in Owned : rows[r].status = "IN_PROGRESS"}
NothingBanked == {}
\* Queries whose payload was stored before the process ended.
Banked == {r \in InProgress : rows[r].raw # "none"}

CompleteIfBanked(r) ==
  IF r \in InProgress THEN [rows[r] EXCEPT !.status = "COMPLETE"] ELSE rows[r]
SettleBanked(r) ==
  IF r \notin Banked THEN rows[r]
  ELSE IF rows[r].raw = "derived" \/ rows[r].key \in Social
       THEN [rows[r] EXCEPT !.status = "COMPLETE", !.executed = clock.now]
       ELSE [rows[r] EXCEPT !.status = "INTERRUPTED"]

\* The next startup.  The first interruption decides where to resume.
Reconcile ==
  /\ run.step = "dead"
  /\ rows' = [r \in Row |-> SettleBanked(r)]
  /\ run' = [run EXCEPT !.step = "down",
                        !.at = IF @ = Null THEN run.stage ELSE @]
  /\ UNCHANGED <<last, clock, money, bought, returned>>

Returned(S) == [k \in Key |->
                  returned[k] + Cardinality({r \in S : rows[r].key = k})]

Resume ==
  /\ run.step = "down"
  /\ rows' = [r \in Row |-> IF r \in InProgress
                            THEN [rows[r] EXCEPT !.status = "PENDING"]
                            ELSE rows[r]]
  /\ returned' = Returned(InProgress)
  /\ run' = [run EXCEPT !.stage = run.at, !.step = "ready"]
  /\ UNCHANGED <<last, clock, money, bought>>

Abandon ==
  /\ run.step = "down"
  /\ rows' = [r \in Row |->
                IF r \in Owned /\ rows[r].status \in {"PENDING", "IN_PROGRESS"}
                THEN [rows[r] EXCEPT !.status = "INTERRUPTED"] ELSE rows[r]]
  /\ run' = Close("cut")
  /\ UNCHANGED <<last, clock, money, bought, returned>>

FollowOnsInQueue == {r \in Present : rows[r].iter = Null
                                     /\ rows[r].origin \in FollowOns}
\* The rows a stage wrote: what it wrote for later is told by its author.
WrittenLater == {r \in FollowOnsInQueue : rows[r].by = run.iter}
WrittenBy(s) ==
  CASE s = SEEDING -> {r \in Owned : rows[r].by = run.iter
                                     /\ rows[r].origin = "SEED"}
    [] s = TIPPING -> {r \in Owned : rows[r].by = run.iter
                                     /\ rows[r].origin = "TIP"}
    [] s = SCHEDULING -> WrittenLater
    [] OTHER -> {}

\* The rows of the discarded stage's source types.
CollectedBy(s) ==
  CASE s = COLLECTING_SOCIAL -> {r \in Owned : rows[r].key \in Social}
    [] s = COLLECTING_TIPPED -> {r \in Owned : rows[r].key \notin Social}
    [] OTHER -> {}

Adopted == {r \in Owned : /\ rows[r].by # run.iter
                          /\ rows[r].origin \in FollowOns}

\* api_calls keeps its reference to a query, and a tip, or the decision about
\* it, its reference to the flight signal.
Referenced(s) ==
  \/ \E r \in WrittenBy(s) : rows[r].billed \/ rows[r].raw # "none"
  \/ s = COLLECTING_TIPPED /\ run.tipped /\ FlightSignals # {}

\* The furthest stage that ran and was not discarded since.
LastRan == Greatest(run.ran)

Discardable == /\ run.step \in {"ready", "ended", "closed", "down"}
               /\ run.ran # {}

Rewound == [run EXCEPT !.stage = LastRan, !.ran = @ \ {LastRan},
              !.end = "none", !.step = IF @ = "down" THEN "down" ELSE "ready"]

Upset == /\ "discard" \in Ops /\ clock.upsets < MaxUpsets
         /\ clock' = [clock EXCEPT !.upsets = @ + 1]

Reset(r) == [rows[r] EXCEPT !.status = "PENDING", !.executed = Never,
                            !.raw = "none"]

Discard ==
  /\ Discardable /\ Upset /\ ~Referenced(LastRan)
  /\ LET s == LastRan
         again == {r \in CollectedBy(s) : rows[r].status # "PENDING"}
     IN /\ rows' = [r \in Row |->
             CASE r \in WrittenBy(s) -> NoRow
               [] r \in again -> Reset(r)
               [] s = SEEDING /\ r \in Adopted ->
                    [rows[r] EXCEPT !.iter = Null, !.status = "PENDING"]
               [] OTHER -> rows[r]]
        /\ returned' = Returned(again)
  /\ run' = Rewound
  /\ UNCHANGED <<last, money, bought>>

\* Deleting the flight signals fails on a reference, after the payloads have
\* been deleted: the rest of the discard does not happen.
DiscardTorn ==
  /\ Discardable /\ Upset
  /\ LastRan = COLLECTING_TIPPED /\ Referenced(LastRan)
  /\ rows' = [r \in Row |->
                IF r \notin CollectedBy(LastRan) THEN rows[r]
                ELSE [rows[r] EXCEPT
                        !.raw = IF @ \in {"derived", "orphaned"}
                                THEN "orphaned" ELSE "none"]]
  /\ run' = [run EXCEPT !.torn = TRUE]
  /\ UNCHANGED <<last, money, bought, returned>>

Tick ==
  /\ run.step \in {"closed", "ended", "down"} /\ clock.now < MaxTime
  /\ clock' = [clock EXCEPT !.now = @ + 1]
  /\ UNCHANGED <<rows, last, run, money, bought, returned>>

Next ==
  \/ NewIteration \/ BeginStage \/ Adopt \/ Propose \/ EndProposals
  \/ Claim \/ RefuseBudget \/ Call \/ StoreRaw \/ WriteSignals
  \/ CompleteQuery \/ FailQuery \/ SkipQuery \/ EndPass
  \/ Cancel \/ Crash \/ Reconcile \/ Resume \/ Abandon
  \/ Discard \/ DiscardTorn \/ Tick

Spec == Init /\ [][Next]_vars

-----------------------------------------------------------------------------
(* Properties.                                                             *)

\* One iteration sends a query to its vendor once, and once more only for each
\* time an operator handed it back by resuming or discarding: proposing a
\* stage again does not buy again (queueing.py, enqueue and idx_qq_dedup).
BoughtOnce == \A k \in Key \ History : bought[k] <= 1 + returned[k]

\* The same of every query.  orchestrator.py, run, says of a stage that runs
\* again: "Nothing is re-collected anyway, because the agents are re-entrant".
NothingRecollected == \A k \in Key : bought[k] <= 1 + returned[k]

\* A query about to be sent has nothing of it stored: what a crash left paid
\* for and on disk is settled, not bought again (_settle_banked_work).
BankedNotRebought == run.step = "claimed" => rows[run.row].raw = "none"

\* A query shown COMPLETE has a stored answer, through crashes, settlements
\* and discards, unless a discard was torn: coverage is never claimed for
\* collection that did not happen (recovery.py, _settle_banked_work).
HonestCoverage ==
  \A r \in Present : rows[r].status = "COMPLETE" =>
                       rows[r].raw # "none" \/ run.torn

\* An iteration outspends its plan, and the session its month, by less than
\* the cost of one query, however the plan was filled, lost and resumed: the
\* check runs again before every call (collection.py, _collect_one).
WithinBudget ==
  /\ money.spent > 0 => money.spent < money.plan + MaxCost
  /\ money.used > 0 => money.used < Monthly + MaxCost

\* A query an iteration proposes for itself does not run within the cooldown
\* of any execution of the same query an earlier iteration recorded, failed
\* ones included (queueing.py, enqueue; last_execution).
CooldownKept ==
  \A r, s \in Present :
    /\ rows[r].key = rows[s].key /\ Recurs(rows[s].key)
    /\ rows[s].origin \in {"SEED", "TIP"}
    /\ rows[r].iter # Null /\ rows[r].iter < rows[s].iter
    /\ rows[r].executed # Never /\ rows[s].executed # Never
    => rows[s].executed - rows[r].executed >= Cooldown

\* A row another iteration wrote for later is never lost: adopting, discarding
\* and seeding again may move it, not delete it (stages.py, _queries).
FollowOnsKept ==
  [][\A r \in Present :
       rows[r].by # run.iter => rows'[r].key = rows[r].key]_vars

\* An iteration that ran to its end leaves no query of its own waiting or in
\* progress, through crashes or discards: each was collected, or it counts as
\* a gap.  prepare_resume says of what it returns to PENDING that it "will be
\* collected again".  (R6 may propose flight queries no pass collects; of a
\* flight history see below.)
NothingLeft ==
  run.end = "full" =>
    \A r \in Owned : rows[r].status \in {"PENDING", "IN_PROGRESS"} =>
      \/ rows[r].key \in History
      \/ rows[r].key \in Live /\ run.tipped

\* The same of a flight history, which the second pass of COLLECTING_TIPPED
\* collects (recovery.py, prepare_resume: "will be collected again").
HistoryCollected ==
  run.end = "full" =>
    \A r \in Owned : rows[r].key \in History =>
                       rows[r].status \notin {"PENDING", "IN_PROGRESS"}

\* Discarding step by step reaches every stage: no stage that ran is held by
\* what refers to its rows (stages.py, StageRollback: "any point in the
\* pipeline is still reachable").
AnyPointReachable == Discardable => ~Referenced(LastRan)

=============================================================================
