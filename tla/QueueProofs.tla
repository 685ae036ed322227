---------------------------- MODULE QueueProofs ----------------------------
(***************************************************************************)
(* What holds of the query queue for every session: any queries, any       *)
(* limits and costs, any number of iterations, crashes and discards.       *)
(*                                                                         *)
(* The inductive invariant QInv says what a row may hold in each state of  *)
(* its iteration: which row is at a vendor, what a row that waits may not  *)
(* have yet, and which stage has run when a row has been collected.  The   *)
(* properties follow from it, each with a strengthening of its own.        *)
(***************************************************************************)
EXTENDS Queue, FiniteSetTheorems, TLAPS

-----------------------------------------------------------------------------
(* The inductive invariant.                                                *)

\* The steps during which a query is in the hands of the collector.
Holding == {"claimed", "called", "stored", "derived"}

\* The stage that collects a query.
Collector(k) == IF k \in Social THEN COLLECTING_SOCIAL ELSE COLLECTING_TIPPED

\* The stage collecting a query has run and not been discarded, or is at work.
Attempted(k) == \/ Collector(k) \in run.ran
                \/ run.stage = Collector(k) /\ run.step \in Working

\* Before its first iteration a session has no rows and nothing to discard.
RunInv ==
  /\ run.iter = Null => /\ run.step = "closed" /\ run.ran = {}
                        /\ \A r \in Row : rows[r] = NoRow
  /\ run.step = "down" => run.at # Null
  /\ run.step # "proposing" => run.due = {} /\ run.todo = {}
  /\ \A r \in run.due : r \in Present /\ rows[r].iter = Null
  /\ run.step = "draining" => run.stage \in {COLLECTING_SOCIAL, COLLECTING_TIPPED}

\* The query at its vendor is the only one of the iteration in progress, and
\* how far it is told by the step; after a crash there may be one without.
HeldInv ==
  /\ run.step \in Holding =>
       /\ run.row \in Owned /\ rows[run.row].status = "IN_PROGRESS"
       /\ rows[run.row].key \in PassKeys
       /\ run.stage \in {COLLECTING_SOCIAL, COLLECTING_TIPPED}
  /\ run.step \in {"claimed", "called"} => rows[run.row].raw = "none"
  /\ run.step \in {"stored", "derived"} => rows[run.row].raw # "none"
  /\ \A r \in Owned : rows[r].status = "IN_PROGRESS" =>
       \/ run.step \in Holding /\ r = run.row
       \/ run.step = "dead"
       \/ run.step = "down" /\ rows[r].raw = "none"

\* A row that waits has neither payload nor execution; one that has either was
\* attempted; one without owner is a follow-on that waits.
RowOK(r) ==
  /\ rows[r].key # Null /\ rows[r].by # Null
  /\ rows[r].iter <= run.iter
  /\ rows[r].iter = Null => rows[r].origin \in FollowOns
                            /\ rows[r].status = "PENDING"
  /\ rows[r].status = "PENDING" => rows[r].raw = "none"
  /\ rows[r].status \in {"PENDING", "IN_PROGRESS"} => rows[r].executed = Never
  /\ rows[r].iter = run.iter
     /\ (rows[r].raw # "none" \/ rows[r].executed # Never)
     => Attempted(rows[r].key)
RowInv == \A r \in Present : RowOK(r)

QInv == TypeOK /\ RunInv /\ HeldInv /\ RowInv

\* An iteration owns a query once, flight histories apart.
UniqueInv ==
  \A r, s \in Owned : rows[r].key = rows[s].key /\ Recurs(rows[r].key) => r = s

\* A query bought once more than it was handed back is not waiting.
Spent(k) ==
  \E r \in Owned : /\ rows[r].key = k /\ rows[r].billed
                   /\ rows[r].status # "PENDING"
                   /\ ~(run.step = "claimed" /\ run.row = r)
BoughtInv ==
  \A k \in Key \ History :
    \/ bought[k] <= returned[k]
    \/ bought[k] = 1 + returned[k] /\ Spent(k) /\ Attempted(k)

\* What an earlier iteration executed is at least a cooldown old for as long
\* as the iteration that proposed the query again runs.
CooldownInv ==
  \A r, s \in Present :
    /\ rows[r].key = rows[s].key /\ Recurs(rows[s].key)
    /\ rows[s].origin \in {"SEED", "TIP"}
    /\ rows[r].iter # Null /\ rows[r].iter < rows[s].iter
    /\ rows[r].executed # Never
    => /\ rows[s].iter = run.iter => clock.now - rows[r].executed >= Cooldown
       /\ rows[s].executed # Never =>
            rows[s].executed - rows[r].executed >= Cooldown

\* What is still to be proposed, by the stage proposing it.
TodoInv ==
  /\ \A p \in run.todo :
       /\ run.stage = SCHEDULING => p.origin \in FollowOns
       /\ run.stage \in {TIPPING, COLLECTING_TIPPED} => p.key \notin Social
       /\ run.stage = COLLECTING_TIPPED => (p.key \in History \/ run.tipped)
  /\ run.due # {} => run.stage = SEEDING
  /\ run.step = "proposing" => run.stage # COLLECTING_SOCIAL

\* What waits, by where the iteration is.
Waiting == {r \in Owned : rows[r].status \in {"PENDING", "IN_PROGRESS"}}
\* A collecting stage is over, or past.
Over(s) == \/ run.stage > s
           \/ run.stage = s /\ run.step = "ended"
LeftInv ==
  /\ Over(COLLECTING_SOCIAL) => \A r \in Waiting : rows[r].key \notin Social
  /\ Over(COLLECTING_TIPPED) =>
       \A r \in Waiting : \/ rows[r].key \in History
                          \/ rows[r].key \in Live /\ run.tipped
  /\ run.stage = COLLECTING_TIPPED /\ run.step \in Working
     /\ (run.step = "proposing" \/ run.pass = 2)
     => \A r \in Waiting : rows[r].key \in Live => run.tipped
  /\ run.stage = COLLECTING_TIPPED /\ run.step = "proposing"
     => \A r \in Waiting : rows[r].key \in Booking => run.added
PlaceInv ==
  /\ run.end = "full" => run.step = "closed"
                         /\ (run.stage = SCHEDULING \/ run.iter = Null)
  /\ "crash" \notin Ops => /\ run.step \notin {"dead", "down"}
                           /\ \A s \in run.ran : s <= run.stage
  /\ "discard" \notin Ops /\ run.at # Null => run.at <= run.stage

-----------------------------------------------------------------------------
(* Types.                                                                  *)

LEMMA StageMax == \A S \in SUBSET Stage : S # {} => /\ Greatest(S) \in S
                                                  /\ \A y \in S : y <= Greatest(S)
<1> SUFFICES ASSUME NEW S \in SUBSET Stage, S # {}
             PROVE  \E x \in S : \A y \in S : y <= x
  BY DEF Greatest
<1>1. \A x \in S : x \in 1..5
  BY DEF Stage, SEEDING, SCHEDULING
<1>2. CASE 5 \in S
  BY <1>1, <1>2
<1>3. CASE 5 \notin S /\ 4 \in S
  BY <1>1, <1>3
<1>4. CASE 5 \notin S /\ 4 \notin S /\ 3 \in S
  BY <1>1, <1>4
<1>5. CASE 5 \notin S /\ 4 \notin S /\ 3 \notin S
  BY <1>1, <1>5
<1> QED BY <1>2, <1>3, <1>4, <1>5

LEMMA RunStage == run \in RunRow /\ run.ran # {} => LastRan \in run.ran /\ LastRan \in Stage
BY StageMax DEF LastRan, RunRow

LEMMA ClosedType ==
  run \in RunRow => \A how \in {"full", "failed", "cut"} : Close(how) \in RunRow
BY DEF Close, RunRow, Idle

LEMMA EndedType == run \in RunRow => Ended \in RunRow
BY DEF Ended, RunRow, Idle

LEMMA ClosedRan ==
  run \in RunRow => \A how \in {"full", "failed", "cut"} : 
     [Close(how) EXCEPT !.ran = Ended.ran] \in RunRow
BY DEF Close, Ended, RunRow, Idle

LEMMA NoRowType == NoRow \in QueryRow
BY TimesAssumption DEF NoRow, QueryRow, Null, Statuses, Origins, Priority,
                       PRIO_SEED, Never

LEMMA FreshType == \A i \in IterationId \cup {Null} : Fresh(i) \in RunRow
<1> SUFFICES ASSUME NEW i \in IterationId \cup {Null} PROVE Fresh(i) \in RunRow
  OBVIOUS
<1>1. SEEDING \in Stage
  BY DEF Stage, SEEDING, SCHEDULING
<1>2. \A a, b, c \in BOOLEAN :
        [iter |-> i, stage |-> SEEDING, step |-> "ready", pass |-> 1, todo |-> {},
         due |-> {}, row |-> Null, added |-> a, ran |-> {}, at |-> Null,
         tipped |-> b, torn |-> c, end |-> "none"] \in RunRow
  BY <1>1 DEF RunRow, Idle
<1>3. FALSE \in BOOLEAN
  OBVIOUS
<1> QED BY <1>2, <1>3, Zenon DEF Fresh

LEMMA InitType == Init => TypeOK
<1> SUFFICES ASSUME Init PROVE TypeOK
  OBVIOUS
<1>1. run \in RunRow
  <2>1. Fresh(Null) \in RunRow
    BY FreshType
  <2> QED BY <2>1 DEF Init, RunRow, Idle
<1>2. clock \in [now : 0..MaxTime, upsets : 0..MaxUpsets]
  BY BoundsAssumption, TimesAssumption DEF Init
<1> QED BY <1>1, <1>2, NoRowType, BoundsAssumption DEF Init, TypeOK

LEMMA NewIterationType == QInv /\ NewIteration => TypeOK'
<1> SUFFICES ASSUME QInv, NewIteration PROVE TypeOK'
  OBVIOUS
<1>1. run' \in RunRow
  <2>1. run.iter + 1 \in IterationId
    BY BoundsAssumption DEF QInv, TypeOK, NewIteration, RunRow, IterationId, Null
  <2>2. Fresh(run.iter + 1) \in RunRow
    BY <2>1, FreshType
  <2>3. run.torn \in BOOLEAN
    BY DEF QInv, TypeOK, RunRow
  <2> QED BY <2>2, <2>3 DEF NewIteration, RunRow
<1>2. PlanIteration \in Nat
  <2> DEFINE fair == (IF money.used < Monthly THEN Monthly - money.used ELSE 0)
                     \div Share
  <2>1. /\ fair \in Nat /\ HardCap \in Nat
    BY BudgetAssumption DEF QInv, TypeOK
  <2>2. \A a, b \in Nat : Least({a, b}) \in Nat
    BY DEF Least
  <2> QED BY <2>1, <2>2 DEF PlanIteration
<1> QED BY <1>1, <1>2 DEF QInv, TypeOK, NewIteration

LEMMA ProposalTypes ==
  /\ Seeds \in SUBSET Proposal /\ SocialTips \in SUBSET Proposal
  /\ Revisits \in SUBSET Proposal /\ FlightTips \in SUBSET Proposal
  /\ Proposals(History, PRIO_FLIGHT_HISTORY, "TIP") \in SUBSET Proposal
BY DEF Seeds, SocialTips, Revisits, FlightTips, Proposals, Proposal, Key, Priority,
       PRIO_SEED, PRIO_FLIGHT, PRIO_BOOKING, PRIO_SCHEDULED, PRIO_FLIGHT_HISTORY,
       Origins, FollowOns

LEMMA BeginStageType == QInv /\ BeginStage => TypeOK'
<1> SUFFICES ASSUME QInv, BeginStage PROVE TypeOK'
  OBVIOUS
<1>1. /\ Seeds \in SUBSET Proposal /\ SocialTips \in SUBSET Proposal
      /\ Revisits \in SUBSET Proposal
  BY ProposalTypes
<1>2. Due \in SUBSET Row
  BY DEF Due, Present
<1>3. \A s \in Stage, step \in Working, due \in SUBSET Row, todo \in SUBSET Proposal :
        Begin(s, step, due, todo) => run' \in RunRow
  <2> SUFFICES ASSUME NEW s \in Stage, NEW step \in Working,
                      NEW due \in SUBSET Row, NEW todo \in SUBSET Proposal
               PROVE  Begin(s, step, due, todo) => run' \in RunRow
    OBVIOUS
  <2>1. run \in RunRow
    BY DEF QInv, TypeOK
  <2>2. \A b \in BOOLEAN :
          [run EXCEPT !.stage = s, !.step = step, !.pass = 1, !.row = Null,
                      !.due = due, !.todo = todo, !.added = b] \in RunRow
    BY <2>1 DEF RunRow
  <2>3. FALSE \in BOOLEAN
    OBVIOUS
  <2> QED BY <2>2, <2>3, Zenon DEF Begin
<1>4. run' \in RunRow
  BY <1>1, <1>2, <1>3 DEF BeginStage, Stage, SEEDING, COLLECTING_SOCIAL, TIPPING, COLLECTING_TIPPED, SCHEDULING, Working
<1>5. UNCHANGED <<rows, last, clock, money, bought, returned>>
  BY DEF BeginStage
<1> QED BY <1>4, <1>5 DEF QInv, TypeOK

LEMMA RunType ==
  ASSUME run \in RunRow
  PROVE  /\ \A st \in Working \cup Idle : [run EXCEPT !.step = st] \in RunRow
         /\ \A st \in Working \cup Idle, r \in Row \cup {Null} :
              [run EXCEPT !.step = st, !.row = r] \in RunRow
BY DEF RunRow

LEMMA RowType ==
  \A q \in QueryRow :
    /\ \A st \in Statuses : [q EXCEPT !.status = st] \in QueryRow
    /\ \A st \in Statuses, ex \in 0..Never :
         [q EXCEPT !.status = st, !.executed = ex] \in QueryRow
    /\ \A i \in IterationId \cup {Null} : [q EXCEPT !.iter = i] \in QueryRow
    /\ [q EXCEPT !.iter = Null, !.status = "PENDING"] \in QueryRow
    /\ \A w \in {"none", "stored", "derived", "orphaned"} :
         [q EXCEPT !.raw = w] \in QueryRow
    /\ [q EXCEPT !.billed = TRUE] \in QueryRow
<1> SUFFICES ASSUME NEW q \in QueryRow
             PROVE  /\ \A st \in Statuses : [q EXCEPT !.status = st] \in QueryRow
                    /\ \A st \in Statuses, ex \in 0..Never :
                         [q EXCEPT !.status = st, !.executed = ex] \in QueryRow
                    /\ \A i \in IterationId \cup {Null} :
                         [q EXCEPT !.iter = i] \in QueryRow
                    /\ [q EXCEPT !.iter = Null, !.status = "PENDING"] \in QueryRow
                    /\ \A w \in {"none", "stored", "derived", "orphaned"} :
                         [q EXCEPT !.raw = w] \in QueryRow
                    /\ [q EXCEPT !.billed = TRUE] \in QueryRow
  OBVIOUS
<1>1. \A st \in Statuses : [q EXCEPT !.status = st] \in QueryRow
  BY DEF QueryRow
<1>2. \A st \in Statuses, ex \in 0..Never :
        [q EXCEPT !.status = st, !.executed = ex] \in QueryRow
  BY DEF QueryRow
<1>3. /\ \A i \in IterationId \cup {Null} : [q EXCEPT !.iter = i] \in QueryRow
      /\ [q EXCEPT !.iter = Null, !.status = "PENDING"] \in QueryRow
  BY DEF QueryRow, Statuses
<1>4. \A w \in {"none", "stored", "derived", "orphaned"} :
        [q EXCEPT !.raw = w] \in QueryRow
  BY DEF QueryRow
<1>5. \A b \in BOOLEAN : [q EXCEPT !.billed = b] \in QueryRow
  BY DEF QueryRow
<1>6. [q EXCEPT !.billed = TRUE] \in QueryRow
  BY <1>5, Zenon
<1> QED BY <1>1, <1>2, <1>3, <1>4, <1>6, Zenon

LEMMA NeverType == Never \in 0..Never /\ \A t \in 0..MaxTime : t \in 0..Never
BY TimesAssumption DEF Never

\* What handing queries back adds to the count of each.
LEMMA ReturnedCount ==
  ASSUME TypeOK, NEW S \in SUBSET Row
  PROVE  /\ Returned(S) \in [Key -> Nat]
         /\ \A k \in Key : returned[k] <= Returned(S)[k]
         /\ \A r \in S : rows[r].key \in Key =>
              returned[rows[r].key] + 1 <= Returned(S)[rows[r].key]
<1> DEFINE T(k) == {r \in S : rows[r].key = k}
<1>1. \A k \in Key : IsFiniteSet(T(k)) /\ Cardinality(T(k)) \in Nat
  <2>1. IsFiniteSet(Row)
    BY FS_Interval, BoundsAssumption DEF Row
  <2> QED BY <2>1, FS_Subset, FS_CardinalityType
<1>2. \A r \in S : rows[r].key \in Key => Cardinality(T(rows[r].key)) >= 1
  <2> SUFFICES ASSUME NEW r \in S, rows[r].key \in Key
               PROVE  Cardinality(T(rows[r].key)) >= 1
    OBVIOUS
  <2>1. T(rows[r].key) # {}
    OBVIOUS
  <2>2. Cardinality(T(rows[r].key)) # 0
    BY <1>1, <2>1, FS_EmptySet
  <2> QED BY <1>1, <2>2
<1>3. returned \in [Key -> Nat]
  BY DEF TypeOK
<1>4. \A k \in Key : Returned(S)[k] = returned[k] + Cardinality(T(k))
  BY DEF Returned
<1>5. Returned(S) = [k \in Key |-> returned[k] + Cardinality(T(k))]
  BY DEF Returned
<1> HIDE DEF T
<1>6. \A k \in Key : returned[k] \in Nat /\ Cardinality(T(k)) \in Nat
  BY <1>1, <1>3
<1>7. \A k \in Key : returned[k] <= Returned(S)[k]
  BY <1>4, <1>6
<1>8. ASSUME NEW r \in S, rows[r].key \in Key
      PROVE  returned[rows[r].key] + 1 <= Returned(S)[rows[r].key]
  <2> DEFINE k == rows[r].key
  <2>1. Cardinality(T(k)) >= 1
    BY <1>2, <1>8
  <2>2. /\ returned[k] \in Nat /\ Cardinality(T(k)) \in Nat
        /\ Returned(S)[k] = returned[k] + Cardinality(T(k))
    BY <1>4, <1>6, <1>8
  <2> QED BY <2>1, <2>2
<1>9. Returned(S) \in [Key -> Nat]
  BY <1>5, <1>6
<1> QED BY <1>7, <1>8, <1>9

-----------------------------------------------------------------------------

\* What a step that changes one row leaves alone.
Untouched(x) == rows'[x] = rows[x]
Identity(x) == /\ rows'[x].key = rows[x].key /\ rows'[x].iter = rows[x].iter
               /\ rows'[x].by = rows[x].by /\ rows'[x].origin = rows[x].origin
               /\ rows'[x].prio = rows[x].prio
OnlyRow(r) == \A x \in Row : x # r => Untouched(x)

LEMMA SetStatus ==
  ASSUME TypeOK, NEW r \in Row, NEW st \in Statuses,
         rows' = [rows EXCEPT ![r].status = st]
  PROVE  /\ rows' \in [Row -> QueryRow] /\ OnlyRow(r) /\ Identity(r)
         /\ rows'[r].status = st /\ rows'[r].raw = rows[r].raw
         /\ rows'[r].executed = rows[r].executed /\ rows'[r].billed = rows[r].billed
<1>1. rows \in [Row -> QueryRow] /\ rows[r] \in QueryRow
  BY DEF TypeOK
<1>2. rows' = [rows EXCEPT ![r] = [rows[r] EXCEPT !.status = st]]
  OBVIOUS
<1>3. rows'[r] = [rows[r] EXCEPT !.status = st]
  BY <1>1, <1>2
<1>4. rows' \in [Row -> QueryRow]
  BY <1>1, <1>2, RowType, ZenonT(30)
<1>5. OnlyRow(r)
  BY <1>1, <1>2 DEF OnlyRow, Untouched
<1> QED BY <1>1, <1>3, <1>4, <1>5 DEF QueryRow, Identity

LEMMA SetEnd ==
  ASSUME TypeOK, NEW r \in Row, NEW st \in Statuses, NEW ex \in 0..Never,
         rows' = [rows EXCEPT ![r] = [@ EXCEPT !.status = st, !.executed = ex]]
  PROVE  /\ rows' \in [Row -> QueryRow] /\ OnlyRow(r) /\ Identity(r)
         /\ rows'[r].status = st /\ rows'[r].raw = rows[r].raw
         /\ rows'[r].executed = ex /\ rows'[r].billed = rows[r].billed
<1>1. rows \in [Row -> QueryRow] /\ rows[r] \in QueryRow
  BY DEF TypeOK
<1>2. rows' = [rows EXCEPT ![r] = [rows[r] EXCEPT !.status = st, !.executed = ex]]
  OBVIOUS
<1>3. rows'[r] = [rows[r] EXCEPT !.status = st, !.executed = ex]
  BY <1>1, <1>2
<1>4. rows' \in [Row -> QueryRow]
  <2>1. [rows[r] EXCEPT !.status = st, !.executed = ex] \in QueryRow
    BY <1>1, RowType
  <2> QED BY <1>1, <1>2, <2>1
<1>5. OnlyRow(r)
  BY <1>1, <1>2 DEF OnlyRow, Untouched
<1> QED BY <1>1, <1>3, <1>4, <1>5 DEF QueryRow, Identity

LEMMA SetRaw ==
  ASSUME TypeOK, NEW r \in Row, NEW w \in {"stored", "derived"},
         rows' = [rows EXCEPT ![r].raw = w]
  PROVE  /\ rows' \in [Row -> QueryRow] /\ OnlyRow(r) /\ Identity(r)
         /\ rows'[r].status = rows[r].status /\ rows'[r].raw = w
         /\ rows'[r].executed = rows[r].executed /\ rows'[r].billed = rows[r].billed
<1>1. rows \in [Row -> QueryRow] /\ rows[r] \in QueryRow
  BY DEF TypeOK
<1>2. rows' = [rows EXCEPT ![r] = [rows[r] EXCEPT !.raw = w]]
  OBVIOUS
<1>3. rows'[r] = [rows[r] EXCEPT !.raw = w]
  BY <1>1, <1>2
<1>4. rows' \in [Row -> QueryRow]
  BY <1>1, <1>2, RowType, ZenonT(30)
<1>5. OnlyRow(r)
  BY <1>1, <1>2 DEF OnlyRow, Untouched
<1> QED BY <1>1, <1>3, <1>4, <1>5 DEF QueryRow, Identity

LEMMA SetBilled ==
  ASSUME TypeOK, NEW r \in Row, rows' = [rows EXCEPT ![r].billed = TRUE]
  PROVE  /\ rows' \in [Row -> QueryRow] /\ OnlyRow(r) /\ Identity(r)
         /\ rows'[r].status = rows[r].status /\ rows'[r].raw = rows[r].raw
         /\ rows'[r].executed = rows[r].executed /\ rows'[r].billed
<1>1. rows \in [Row -> QueryRow] /\ rows[r] \in QueryRow
  BY DEF TypeOK
<1>2. rows' = [rows EXCEPT ![r] = [rows[r] EXCEPT !.billed = TRUE]]
  OBVIOUS
<1>3. rows'[r] = [rows[r] EXCEPT !.billed = TRUE]
  BY <1>1, <1>2
<1>4. rows' \in [Row -> QueryRow]
  BY <1>1, <1>2, RowType
<1>5. OnlyRow(r)
  BY <1>1, <1>2 DEF OnlyRow, Untouched
<1> QED BY <1>1, <1>3, <1>4, <1>5 DEF QueryRow, Identity

LEMMA RowKept ==
  ASSUME NEW x, Untouched(x), RowOK(x), run'.iter = run.iter,
         \A k : Attempted(k) => Attempted(k)'
  PROVE  RowOK(x)'
BY DEF RowOK, Untouched, Null, FollowOns, Never

LEMMA ClaimInv == QInv /\ Claim => QInv'
<1> SUFFICES ASSUME QInv, Claim PROVE QInv'
  OBVIOUS
<1> USE DEF QInv
<1>1. PICK r \in Claimable :
        /\ rows' = [rows EXCEPT ![r].status = "IN_PROGRESS"]
        /\ run' = [run EXCEPT !.step = "claimed", !.row = r]
  BY DEF Claim
<1>2. UNCHANGED <<last, clock, money, bought, returned>> /\ run.step = "draining"
  BY DEF Claim
<1>3. /\ r \in Owned /\ r \in Present /\ r \in Row /\ rows[r].status = "PENDING"
      /\ rows[r].key \in PassKeys
  BY DEF Claimable, Owned, Present
<1>4. /\ rows' \in [Row -> QueryRow] /\ OnlyRow(r) /\ Identity(r)
      /\ rows'[r].status = "IN_PROGRESS" /\ rows'[r].raw = rows[r].raw
      /\ rows'[r].executed = rows[r].executed
  BY <1>1, <1>3, SetStatus DEF Statuses
<1>5. TypeOK'
  <2>1. run' \in RunRow
    BY <1>1, <1>3, RunType DEF TypeOK, Working
  <2>2. \A x \in Row : x > last => rows'[x] = NoRow
    BY <1>3, <1>4 DEF TypeOK, NoRow, OnlyRow, Untouched
  <2> QED BY <1>2, <1>4, <2>1, <2>2 DEF TypeOK
<1>6. /\ run'.step = "claimed" /\ run'.row = r
      /\ run'.iter = run.iter /\ run'.stage = run.stage /\ run'.pass = run.pass
      /\ run'.ran = run.ran /\ run'.due = run.due /\ run'.todo = run.todo
  BY <1>1 DEF TypeOK, RunRow
<1> USE DEF OnlyRow, Untouched, Identity, Present, Owned
<1>8. RunInv'
  BY <1>2, <1>3, <1>4, <1>6 DEF RunInv
<1>9. HeldInv'
  BY <1>2, <1>3, <1>4, <1>6 DEF HeldInv, RunInv, RowInv, RowOK, Holding, PassKeys
<1>10. RowInv'
  <2>1. \A k : Attempted(k) => Attempted(k)'
    BY <1>2, <1>6 DEF Attempted, Working, Collector
  <2>2. ASSUME NEW x \in Present', x # r PROVE RowOK(x)'
    BY <1>4, <1>6, <2>1, <2>2, RowKept DEF RowInv
  <2>3. RowOK(r)'
    BY <1>2, <1>3, <1>4, <1>6, <2>1 DEF RunInv, RowInv, RowOK
  <2> QED BY <2>2, <2>3 DEF RowInv
<1> QED BY <1>5, <1>8, <1>9, <1>10

LEMMA HeldRow ==
  ASSUME QInv, run.step \in Holding
  PROVE  /\ run.row \in Row /\ run.row \in Present /\ run.row \in Owned
         /\ rows[run.row].status = "IN_PROGRESS" /\ rows[run.row].executed = Never
         /\ run.stage = Collector(rows[run.row].key) /\ run.iter # Null
BY KeysAssumption DEF QInv, HeldInv, RunInv, RowInv, RowOK, Owned, Present, PassKeys,
   Collector, Holding, COLLECTING_SOCIAL, COLLECTING_TIPPED

LEMMA EndQueryInv ==
  ASSUME QInv, run.step \in Holding,
         NEW st \in {"COMPLETE", "FAILED", "SKIPPED_BUDGET", "SKIPPED_NO_MAPPING"},
         NEW ex \in 0..Never, EndQuery(st, ex)
  PROVE  QInv'
<1> USE DEF QInv
<1>2. PICK r \in Row : r = run.row
  BY HeldRow
<1>1. /\ rows' = [rows EXCEPT ![r] = [@ EXCEPT !.status = st, !.executed = ex]]
      /\ run' = [run EXCEPT !.step = "draining", !.row = Null]
      /\ UNCHANGED <<last, clock, money, bought, returned>>
  BY <1>2 DEF EndQuery
<1>3. /\ r \in Owned /\ r \in Present /\ r \in Row /\ rows[r].status = "IN_PROGRESS"
      /\ run.stage = Collector(rows[r].key) /\ run.iter # Null
  BY <1>2, HeldRow
<1>4. /\ rows' \in [Row -> QueryRow] /\ OnlyRow(r) /\ Identity(r)
      /\ rows'[r].status = st /\ rows'[r].raw = rows[r].raw
      /\ rows'[r].executed = ex
  BY <1>1, <1>3, SetEnd DEF Statuses
<1>5. TypeOK'
  <2>1. run' \in RunRow
    BY <1>1, RunType DEF TypeOK, Working
  <2>2. \A x \in Row : x > last => rows'[x] = NoRow
    BY <1>3, <1>4 DEF TypeOK, NoRow, OnlyRow, Untouched
  <2> QED BY <1>1, <1>4, <2>1, <2>2 DEF TypeOK
<1>6. /\ run'.step = "draining" /\ run'.iter = run.iter /\ run'.stage = run.stage
      /\ run'.ran = run.ran /\ run'.due = run.due /\ run'.todo = run.todo
  BY <1>1 DEF TypeOK, RunRow
<1> USE DEF OnlyRow, Untouched, Identity, Present, Owned
<1>8. RunInv'
  BY <1>1, <1>3, <1>4, <1>6 DEF RunInv, HeldInv, Holding
<1>9. HeldInv'
  BY <1>1, <1>2, <1>3, <1>4, <1>6 DEF HeldInv, RunInv, RowInv, RowOK, Holding, PassKeys
<1>10. RowInv'
  <2>1. \A k : Attempted(k) => Attempted(k)'
    BY <1>6 DEF Attempted, Working, Collector
  <2>2. ASSUME NEW x \in Present', x # r PROVE RowOK(x)'
    BY <1>4, <1>6, <2>1, <2>2, RowKept DEF RowInv
  <2>3. RowOK(r)'
    <3>1. Attempted(rows[r].key)'
      BY <1>3, <1>4, <1>6 DEF Attempted, Working, Collector
    <3> QED BY <1>3, <1>4, <1>6, <3>1 DEF RunInv, RowInv, RowOK
  <2> QED BY <2>2, <2>3 DEF RowInv
<1> QED BY <1>5, <1>8, <1>9, <1>10

LEMMA SkippedType == QInv /\ run.step \in Holding => SkippedAt \in 0..Never
BY HeldRow, NeverType DEF SkippedAt, QInv, TypeOK, QueryRow

LEMMA ResultInv ==
  QInv /\ (RefuseBudget \/ CompleteQuery \/ FailQuery \/ SkipQuery) => QInv'
<1> SUFFICES ASSUME QInv PROVE RefuseBudget \/ CompleteQuery \/ FailQuery \/ SkipQuery => QInv'
  OBVIOUS
<1>1. clock.now \in 0..Never
  BY NeverType DEF QInv, TypeOK
<1>2. RefuseBudget => QInv'
  BY EndQueryInv, SkippedType DEF RefuseBudget, Holding
<1>3. CompleteQuery => QInv'
  BY <1>1, EndQueryInv DEF CompleteQuery, Holding
<1>4. FailQuery => QInv'
  BY <1>1, EndQueryInv DEF FailQuery, Holding
<1>5. SkipQuery => QInv'
  BY EndQueryInv, SkippedType DEF SkipQuery, Holding
<1> QED BY <1>2, <1>3, <1>4, <1>5

\* The query at its vendor is billed, its payload stored, its signals written.
LEMMA HeldStepInv ==
  ASSUME QInv, run.step \in Holding, NEW st \in {"called", "stored", "derived"},
         run' = [run EXCEPT !.step = st], UNCHANGED <<last, clock, returned>>,
         money' \in [used : Nat, spent : Nat, plan : Nat], bought' \in [Key -> Nat],
         rows' \in [Row -> QueryRow], OnlyRow(run.row), Identity(run.row),
         rows'[run.row].status = rows[run.row].status,
         rows'[run.row].executed = rows[run.row].executed,
         st = "called" <=> rows'[run.row].raw = "none"
  PROVE  QInv'
<1> USE DEF QInv
<1>1. PICK r \in Row : r = run.row
  BY HeldRow
<1>2. /\ r \in Owned /\ r \in Present /\ rows[r].status = "IN_PROGRESS"
      /\ rows[r].executed = Never
      /\ run.stage = Collector(rows[r].key) /\ run.iter # Null
  BY <1>1, HeldRow
<1>3. TypeOK'
  <2>1. run' \in RunRow
    BY RunType DEF TypeOK, Working
  <2>2. \A x \in Row : x > last => rows'[x] = NoRow
    BY <1>1, <1>2 DEF TypeOK, NoRow, OnlyRow, Untouched, Present
  <2> QED BY <2>1, <2>2 DEF TypeOK
<1>4. /\ run'.step = st /\ run'.iter = run.iter /\ run'.stage = run.stage
      /\ run'.ran = run.ran /\ run'.due = run.due /\ run'.todo = run.todo
      /\ run'.row = run.row /\ run'.pass = run.pass
  BY DEF TypeOK, RunRow
<1>5. RunInv'
  BY <1>1, <1>2, <1>4 DEF RunInv, Holding, Present, OnlyRow, Untouched
<1> USE DEF OnlyRow, Untouched, Identity
<1>6. HeldInv'
  BY <1>1, <1>2, <1>4 DEF HeldInv, Holding, PassKeys, Owned, Present
<1>7. RowInv'
  <2>1. \A k : Attempted(k) => Attempted(k)'
    BY <1>4 DEF Attempted, Working, Collector
  <2>2. ASSUME NEW x \in Present', x # r PROVE RowOK(x)'
    BY <1>1, <1>4, <2>1, <2>2, RowKept DEF RowInv, Present
  <2>3. RowOK(r)'
    <3>1. Attempted(rows[r].key)'
      BY <1>1, <1>2, <1>4 DEF Attempted, Working, Collector
    <3> QED BY <1>1, <1>2, <1>4, <3>1 DEF RunInv, RowInv, RowOK, Owned
  <2> QED BY <2>2, <2>3 DEF RowInv
<1> QED BY <1>3, <1>5, <1>6, <1>7

LEMMA VendorInv == QInv /\ (Call \/ StoreRaw \/ WriteSignals) => QInv'
<1> SUFFICES ASSUME QInv PROVE Call \/ StoreRaw \/ WriteSignals => QInv'
  OBVIOUS
<1>1. ASSUME Call PROVE QInv'
  <2>1. run.step \in Holding /\ rows[run.row].raw = "none"
    BY <1>1 DEF Call, Holding, QInv, HeldInv
  <2>2. TypeOK /\ run.row \in Row /\ rows[run.row].key \in Key
    BY <2>1, HeldRow DEF QInv, RowInv, RowOK, TypeOK, QueryRow
  <2>3. rows' = [rows EXCEPT ![run.row].billed = TRUE]
    BY <1>1 DEF Call
  <2>4. money' \in [used : Nat, spent : Nat, plan : Nat]
    <3>1. PICK cost \in 1..MaxCost :
            money' = [money EXCEPT !.used = @ + cost, !.spent = @ + cost]
      BY <1>1 DEF Call
    <3>2. cost \in Nat
      BY BoundsAssumption
    <3>3. money.used + cost \in Nat /\ money.spent + cost \in Nat
      BY <2>2, <3>2 DEF TypeOK
    <3> QED BY <2>2, <3>1, <3>3 DEF TypeOK
  <2>5. bought' \in [Key -> Nat]
    BY <1>1, <2>2 DEF Call, TypeOK
  <2>6. run' = [run EXCEPT !.step = "called"] /\ UNCHANGED <<last, clock, returned>>
    BY <1>1 DEF Call
  <2> QED BY <2>1, <2>2, <2>3, <2>4, <2>5, <2>6, SetBilled, HeldStepInv
<1>2. ASSUME StoreRaw PROVE QInv'
  <2>1. run.step \in Holding
    BY <1>2 DEF StoreRaw, Holding
  <2>2. /\ TypeOK /\ run.row \in Row /\ money \in [used : Nat, spent : Nat, plan : Nat]
        /\ bought \in [Key -> Nat]
    BY <2>1, HeldRow DEF QInv, TypeOK
  <2> QED BY <1>2, <2>1, <2>2, SetRaw, HeldStepInv DEF StoreRaw
<1>3. ASSUME WriteSignals PROVE QInv'
  <2>1. run.step \in Holding
    BY <1>3 DEF WriteSignals, Holding
  <2>2. /\ TypeOK /\ run.row \in Row /\ money \in [used : Nat, spent : Nat, plan : Nat]
        /\ bought \in [Key -> Nat]
    BY <2>1, HeldRow DEF QInv, TypeOK
  <2> QED BY <1>3, <2>1, <2>2, SetRaw, HeldStepInv DEF WriteSignals
<1> QED BY <1>1, <1>2, <1>3

-----------------------------------------------------------------------------

\* A step that touches no row and puts no query in anyone's hands.
LEMMA RunStepInv ==
  ASSUME QInv, UNCHANGED <<rows, last, bought, returned>>, run' \in RunRow,
         clock' \in [now : 0..MaxTime, upsets : 0..MaxUpsets],
         money' \in [used : Nat, spent : Nat, plan : Nat],
         run'.iter = run.iter, run'.step \notin Holding,
         \A k : Attempted(k) => Attempted(k)',
         run.step \in Holding => run'.step = "dead",
         run.step = "dead" => run'.step = "dead",
         run'.step = "down" => run.step = "down" /\ run'.at = run.at,
         run'.step # "closed" => run.iter # Null,
         run.iter = Null => run'.ran = {},
         run'.step # "proposing" => run'.due = {} /\ run'.todo = {},
         \A r \in run'.due : r \in Present /\ rows[r].iter = Null,
         run'.step = "draining" => run'.stage \in {COLLECTING_SOCIAL, COLLECTING_TIPPED},
         run.step = "down" => run'.step \in {"down", "dead"}
  PROVE  QInv'
<1> USE DEF QInv
<1>1. TypeOK'
  BY DEF TypeOK
<1>2. RunInv'
  BY DEF RunInv, Present
<1>3. HeldInv'
  BY DEF HeldInv, Holding, Owned, Present
<1>4. RowInv'
  BY RowKept DEF RowInv, Present, Untouched
<1> QED BY <1>1, <1>2, <1>3, <1>4

LEMMA BeginStageInv == QInv /\ BeginStage => QInv'
<1> SUFFICES ASSUME QInv, BeginStage PROVE QInv'
  OBVIOUS
<1> USE DEF QInv
<1>1. run' \in RunRow
  BY BeginStageType DEF TypeOK
<1>2. PICK s \in Stage, step \in {"proposing", "draining"}, due \in {{}, Due},
           todo \in SUBSET Proposal :
        /\ Begin(s, step, due, todo)
        /\ step = "draining" => /\ s \in {COLLECTING_SOCIAL, COLLECTING_TIPPED}
                               /\ due = {} /\ todo = {}
  BY ProposalTypes DEF BeginStage, Stage, SEEDING, COLLECTING_SOCIAL, TIPPING, COLLECTING_TIPPED, SCHEDULING
<1>3. /\ run'.step = step /\ run'.stage = s /\ run'.due = due /\ run'.todo = todo
      /\ run'.iter = run.iter /\ run'.ran = run.ran /\ run'.at = run.at
  BY <1>2 DEF Begin, TypeOK, RunRow
<1>4. UNCHANGED <<rows, last, clock, money, bought, returned>>
      /\ run.step \in {"ready", "ended"}
  BY DEF BeginStage
<1>5. \A k : Attempted(k) => Attempted(k)'
  BY <1>3, <1>4 DEF Attempted, Working, Collector
<1>6. \A r \in run'.due : r \in Present /\ rows[r].iter = Null
  BY <1>2, <1>3 DEF Due, Present
<1>7. run.iter # Null
  BY <1>4 DEF RunInv
<1> QED BY <1>1, <1>2, <1>3, <1>4, <1>5, <1>6, <1>7, RunStepInv DEF TypeOK, Holding

LEMMA EndedFields ==
  ASSUME run \in RunRow
  PROVE  /\ Ended.iter = run.iter /\ Ended.step = "ended" /\ Ended.stage = run.stage
         /\ Ended.ran = run.ran \cup {run.stage} /\ Ended.due = run.due
         /\ Ended.todo = run.todo /\ Ended.at = run.at /\ Ended.end = run.end
         /\ Ended.tipped = run.tipped /\ Ended.torn = run.torn
BY DEF Ended, RunRow

LEMMA ClosedFields ==
  ASSUME run \in RunRow, NEW how \in {"full", "failed", "cut"}, NEW c,
         c = Close(how) \/ c = [Close(how) EXCEPT !.ran = Ended.ran]
  PROVE  /\ c \in RunRow /\ c.iter = run.iter /\ c.step = "closed"
         /\ c.stage = run.stage /\ c.due = {} /\ c.todo = {} /\ c.at = run.at
         /\ c.end = how /\ c.tipped = run.tipped /\ c.torn = run.torn
         /\ run.ran \subseteq c.ran /\ c.ran \subseteq run.ran \cup {run.stage}
         /\ c = [Close(how) EXCEPT !.ran = Ended.ran]
            => c.ran = run.ran \cup {run.stage}
<1> DEFINE d == Close(how)
<1>0. d \in RunRow
  BY ClosedType
<1>1. /\ d.iter = run.iter /\ d.step = "closed"
      /\ d.stage = run.stage /\ d.due = {} /\ d.todo = {} /\ d.at = run.at
      /\ d.end = how /\ d.tipped = run.tipped /\ d.torn = run.torn
      /\ d.ran = run.ran
  BY DEF Close, RunRow
<1>2. Ended.ran = run.ran \cup {run.stage}
  BY EndedFields
<1>3. [d EXCEPT !.ran = Ended.ran] \in RunRow
  BY ClosedRan
<1> HIDE DEF d
<1>4. CASE c = d
  BY <1>0, <1>1, <1>2, <1>4 DEF RunRow
<1>5. CASE c = [d EXCEPT !.ran = Ended.ran]
  BY <1>0, <1>1, <1>2, <1>3, <1>5 DEF RunRow
<1> QED BY <1>4, <1>5 DEF d

\* Stages end, or the whole iteration; the escalation goes to its second pass,
\* scheduling to what the budget refused.
LEMMA EndProposalsRun ==
  ASSUME QInv, EndProposals
  PROVE  \/ run' = Ended /\ ~(run.stage = COLLECTING_TIPPED /\ run.added)
         \/ /\ run.stage = SEEDING /\ ~run.added
            /\ run' = [Close("failed") EXCEPT !.ran = Ended.ran]
         \/ /\ run.stage = COLLECTING_TIPPED /\ run.added
            /\ run' = [run EXCEPT !.step = "draining", !.pass = 2]
         \/ /\ run.stage = SCHEDULING /\ run.pass = 1
            /\ run' = [run EXCEPT !.pass = 2, !.todo = CarriedForward]
         \/ /\ run.stage = SCHEDULING /\ run.pass = 2
            /\ run' = [Close("full") EXCEPT !.ran = Ended.ran]
BY DEF EndProposals, SEEDING, COLLECTING_TIPPED, SCHEDULING

LEMMA CarriedType == TypeOK /\ RowInv => CarriedForward \in SUBSET Proposal
<1> SUFFICES ASSUME TypeOK, RowInv, NEW r \in Present
             PROVE  [key |-> rows[r].key, prio |-> ImprovedPriority(rows[r].prio),
                     origin |-> "CARRIED_FORWARD"] \in Proposal
  BY DEF CarriedForward, Owned
<1>1. rows[r].key \in Key /\ rows[r].prio \in Priority
  BY DEF TypeOK, QueryRow, Present, RowInv, RowOK
<1>2. ImprovedPriority(rows[r].prio) \in Priority
  BY <1>1 DEF ImprovedPriority, Priority, PRIO_SEED
<1> QED BY <1>1, <1>2 DEF Proposal, Origins, FollowOns

LEMMA EndProposalsInv == QInv /\ EndProposals => QInv'
<1> SUFFICES ASSUME QInv, EndProposals PROVE QInv'
  OBVIOUS
<1> USE DEF QInv
<1>1. /\ run.step = "proposing" /\ run.due = {} /\ run.todo = {} /\ run.iter # Null
      /\ UNCHANGED <<rows, last, clock, money, bought, returned>> /\ run \in RunRow
  BY DEF EndProposals, RunInv, TypeOK
<1>2. CASE run' = Ended
  <2>1. \A k : Attempted(k) => Attempted(k)'
    BY <1>1, <1>2, EndedFields DEF Attempted, Collector
  <2> QED BY <1>1, <1>2, <2>1, EndedFields, EndedType, RunStepInv DEF TypeOK, Holding
<1>3. CASE \E how \in {"full", "failed"} : run' = [Close(how) EXCEPT !.ran = Ended.ran]
  <2>1. PICK how \in {"full", "failed", "cut"} :
          run' = [Close(how) EXCEPT !.ran = Ended.ran]
    BY <1>3
  <2>2. /\ run' \in RunRow /\ run'.iter = run.iter /\ run'.step = "closed"
        /\ run'.due = {} /\ run'.todo = {} /\ run'.ran = run.ran \cup {run.stage}
    BY <1>1, <2>1, ClosedFields, ZenonT(30)
  <2>3. \A k : Attempted(k) => Attempted(k)'
    BY <2>2 DEF Attempted, Collector
  <2> QED BY <1>1, <2>2, <2>3, RunStepInv DEF TypeOK, Holding
<1>4. CASE run.stage = COLLECTING_TIPPED /\ run' = [run EXCEPT !.step = "draining", !.pass = 2]
  <2>1. run' \in RunRow /\ run'.iter = run.iter /\ run'.step = "draining"
        /\ run'.stage = run.stage /\ run'.due = {} /\ run'.todo = {}
        /\ run'.ran = run.ran
    BY <1>1, <1>4 DEF RunRow, Working
  <2>2. \A k : Attempted(k) => Attempted(k)'
    BY <2>1 DEF Attempted, Collector, Working
  <2> QED BY <1>1, <1>4, <2>1, <2>2, RunStepInv DEF TypeOK, Holding
<1>5. CASE run' = [run EXCEPT !.pass = 2, !.todo = CarriedForward]
  <2>1. run' \in RunRow /\ run'.iter = run.iter /\ run'.step = "proposing"
        /\ run'.stage = run.stage /\ run'.due = {} /\ run'.ran = run.ran
    BY <1>1, <1>5, CarriedType DEF RunRow
  <2>2. \A k : Attempted(k) => Attempted(k)'
    BY <2>1 DEF Attempted, Collector, Working
  <2> QED BY <1>1, <2>1, <2>2, RunStepInv DEF TypeOK, Holding
<1> QED BY <1>2, <1>3, <1>4, <1>5, EndProposalsRun

LEMMA EndPassRun ==
  ASSUME QInv, EndPass
  PROVE  \/ /\ run.stage = COLLECTING_SOCIAL \/ run.pass = 2
            /\ run' = Ended
         \/ /\ run.stage = COLLECTING_TIPPED /\ run.pass = 1
            /\ run' \in RunRow
            /\ run'.iter = run.iter /\ run'.stage = run.stage /\ run'.pass = 1
            /\ run'.step = "proposing" /\ run'.ran = run.ran /\ run'.at = run.at
            /\ run'.due = run.due /\ run'.end = run.end /\ run'.torn = run.torn
            /\ run'.todo \subseteq FlightTips \cup Proposals(History, PRIO_FLIGHT_HISTORY, "TIP")
            /\ run'.tipped = (run.tipped \/ FlightTips # {})
<1>1. run \in RunRow
  BY DEF QInv, TypeOK
<1>2. CASE run.stage = COLLECTING_TIPPED /\ run.pass = 1
  <2>1. PICK h \in {{}, History} :
          run' = [run EXCEPT !.step = "proposing", !.added = FALSE,
                             !.tipped = @ \/ FlightTips # {},
                             !.todo = FlightTips \cup
                                      Proposals(h, PRIO_FLIGHT_HISTORY, "TIP")]
    <3>1. ~(run.stage = COLLECTING_SOCIAL \/ run.pass = 2)
      BY <1>2 DEF COLLECTING_SOCIAL, COLLECTING_TIPPED
    <3>2. PICK ambiguous \in {FALSE} \cup {FlightSignals # {}} :
            run' = [run EXCEPT !.step = "proposing", !.added = FALSE,
                      !.tipped = @ \/ FlightTips # {},
                      !.todo = FlightTips \cup
                               Proposals(IF ambiguous THEN History ELSE {},
                                         PRIO_FLIGHT_HISTORY, "TIP")]
      BY <3>1, Zenon DEF EndPass
    <3>3. CASE ambiguous
      BY <3>2, <3>3, Zenon
    <3>4. CASE ~ambiguous
      BY <3>2, <3>4, Zenon
    <3> QED BY <3>3, <3>4
  <2>2. PICK todo \in SUBSET Proposal :
          /\ todo = FlightTips \cup Proposals(h, PRIO_FLIGHT_HISTORY, "TIP")
          /\ todo \subseteq FlightTips \cup Proposals(History, PRIO_FLIGHT_HISTORY, "TIP")
    BY ProposalTypes DEF Proposals
  <2>3. ASSUME NEW a \in BOOLEAN, NEW b \in BOOLEAN, NEW q,
               q = [run EXCEPT !.step = "proposing", !.added = a, !.tipped = b,
                               !.todo = todo]
        PROVE  /\ q \in RunRow /\ q.iter = run.iter /\ q.stage = run.stage
               /\ q.pass = run.pass /\ q.step = "proposing" /\ q.ran = run.ran
               /\ q.at = run.at /\ q.due = run.due /\ q.end = run.end
               /\ q.torn = run.torn /\ q.todo = todo /\ q.tipped = b
    <3>1. q \in RunRow
      BY <1>1, <2>3, ZenonT(30) DEF RunRow, Working
    <3>2. /\ q.iter = run.iter /\ q.stage = run.stage
          /\ q.pass = run.pass /\ q.step = "proposing" /\ q.ran = run.ran
          /\ q.at = run.at /\ q.due = run.due /\ q.end = run.end /\ q.todo = todo
          /\ q.torn = run.torn
      BY <1>1, <2>3 DEF RunRow
    <3>3. q.tipped = b
      BY <1>1, <2>3 DEF RunRow
    <3> QED BY <3>1, <3>2, <3>3
  <2>4. run' = [run EXCEPT !.step = "proposing", !.added = FALSE,
                           !.tipped = (run.tipped \/ FlightTips # {}), !.todo = todo]
    BY <2>1, <2>2, Zenon
  <2>5. /\ run' \in RunRow /\ run'.iter = run.iter /\ run'.stage = run.stage
        /\ run'.pass = run.pass /\ run'.step = "proposing" /\ run'.ran = run.ran
        /\ run'.at = run.at /\ run'.due = run.due /\ run'.end = run.end
        /\ run'.torn = run.torn /\ run'.todo = todo /\ run'.tipped = (run.tipped \/ FlightTips # {})
    <3> DEFINE t == (run.tipped \/ FlightTips # {})
    <3>1. FALSE \in BOOLEAN /\ t \in BOOLEAN
      OBVIOUS
    <3>2. run' = [run EXCEPT !.step = "proposing", !.added = FALSE, !.tipped = t,
                             !.todo = todo]
      BY <2>4, Zenon
    <3> HIDE DEF t
    <3>3. /\ run' \in RunRow /\ run'.iter = run.iter /\ run'.stage = run.stage
          /\ run'.pass = run.pass /\ run'.step = "proposing" /\ run'.ran = run.ran
          /\ run'.at = run.at /\ run'.due = run.due /\ run'.end = run.end
          /\ run'.torn = run.torn /\ run'.todo = todo /\ run'.tipped = t
      BY <2>3, <3>1, <3>2, Zenon
    <3> QED BY <3>3, Zenon DEF t
  <2>6. run'.todo \subseteq FlightTips \cup Proposals(History, PRIO_FLIGHT_HISTORY, "TIP")
    BY <2>2, <2>5, Zenon
  <2>7. run'.pass = 1
    BY <1>2, <2>5, Zenon
  <2> QED BY <1>2, <2>5, <2>6, <2>7, Zenon
<1>3. CASE run' = Ended /\ (run.stage = COLLECTING_SOCIAL \/ run.pass = 2)
  BY <1>3
<1> QED BY <1>2, <1>3 DEF EndPass

LEMMA EndPassInv == QInv /\ EndPass => QInv'
<1> SUFFICES ASSUME QInv, EndPass PROVE QInv'
  OBVIOUS
<1> USE DEF QInv
<1>1. /\ run.step = "draining" /\ run.iter # Null /\ run.due = {} /\ run.todo = {}
      /\ UNCHANGED <<rows, last, clock, money, bought, returned>> /\ run \in RunRow
  BY DEF EndPass, RunInv, TypeOK
<1>2. CASE run' = Ended
  <2>1. \A k : Attempted(k) => Attempted(k)'
    BY <1>1, <1>2, EndedFields DEF Attempted, Collector
  <2> QED BY <1>1, <1>2, <2>1, EndedFields, EndedType, RunStepInv DEF TypeOK, Holding
<1>3. CASE run' # Ended
  <2>1. /\ run' \in RunRow /\ run'.iter = run.iter /\ run'.stage = run.stage
        /\ run'.step = "proposing" /\ run'.ran = run.ran /\ run'.due = {}
    BY <1>1, <1>3, EndPassRun
  <2>2. \A k : Attempted(k) => Attempted(k)'
    BY <2>1 DEF Attempted, Collector, Working
  <2> QED BY <1>1, <2>1, <2>2, RunStepInv DEF TypeOK, Holding
<1> QED BY <1>2, <1>3

LEMMA CancelInv == QInv /\ Cancel => QInv'
<1> SUFFICES ASSUME QInv, Cancel PROVE QInv'
  OBVIOUS
<1> USE DEF QInv
<1>1. /\ run.step \in {"ready", "ended"} /\ run' = Close("cut") /\ run.iter # Null
      /\ UNCHANGED <<rows, last, clock, money, bought, returned>> /\ run \in RunRow
  BY DEF Cancel, RunInv, TypeOK
<1>2. /\ run' \in RunRow /\ run'.iter = run.iter /\ run'.step = "closed"
      /\ run'.due = {} /\ run'.todo = {} /\ run.ran \subseteq run'.ran
  BY <1>1, ClosedFields
<1>3. \A k : Attempted(k) => Attempted(k)'
  BY <1>1, <1>2 DEF Attempted, Collector, Working
<1> QED BY <1>1, <1>2, <1>3, RunStepInv DEF TypeOK, Holding

LEMMA CrashFields ==
  ASSUME run \in RunRow, Crash
  PROVE  /\ run' \in RunRow /\ run'.iter = run.iter /\ run'.step = "dead"
         /\ run'.stage = run.stage /\ run'.due = {} /\ run'.todo = {}
         /\ run'.at = run.at /\ run'.end = run.end /\ run'.tipped = run.tipped
         /\ run'.ran = IF run.step \in Working THEN run.ran \cup {run.stage} ELSE run.ran
<1>1. run' = [run EXCEPT !.step = "dead", !.todo = {}, !.due = {}, !.row = Null,
                !.ran = IF run.step \in Working THEN run.ran \cup {run.stage} ELSE run.ran]
  BY EndedFields DEF Crash
<1> DEFINE R == IF run.step \in Working THEN run.ran \cup {run.stage} ELSE run.ran
<1>2. R \in SUBSET Stage
  BY DEF RunRow
<1>3. \A ran \in SUBSET Stage :
        LET c == [run EXCEPT !.step = "dead", !.todo = {}, !.due = {}, !.row = Null, !.ran = ran]
        IN /\ c \in RunRow /\ c.iter = run.iter /\ c.step = "dead"
           /\ c.stage = run.stage /\ c.due = {} /\ c.todo = {}
           /\ c.at = run.at /\ c.end = run.end /\ c.tipped = run.tipped /\ c.ran = ran
  BY DEF RunRow, Idle
<1>4. R = IF run.step \in Working THEN run.ran \cup {run.stage} ELSE run.ran
  OBVIOUS
<1> HIDE DEF R
<1>5. run' = [run EXCEPT !.step = "dead", !.todo = {}, !.due = {}, !.row = Null, !.ran = R]
  BY <1>1, <1>4
<1> QED BY <1>2, <1>3, <1>4, <1>5

LEMMA CrashInv == QInv /\ Crash => QInv'
<1> SUFFICES ASSUME QInv, Crash PROVE QInv'
  OBVIOUS
<1> USE DEF QInv
<1>1. /\ run.step \in Working \cup {"ready", "ended"} /\ run \in RunRow
      /\ UNCHANGED <<rows, last, money, bought, returned>>
  BY DEF Crash, TypeOK
<1>2. run.iter # Null
  BY <1>1 DEF RunInv, Working
<1>3. clock' \in [now : 0..MaxTime, upsets : 0..MaxUpsets]
  <2>1. clock.upsets + 1 \in 0..MaxUpsets
    BY BoundsAssumption DEF Crash, TypeOK
  <2> QED BY <2>1 DEF Crash, TypeOK
<1>4. \A k : Attempted(k) => Attempted(k)'
  BY <1>1, CrashFields DEF Attempted, Collector
<1> QED BY <1>1, <1>2, <1>3, <1>4, CrashFields, RunStepInv DEF TypeOK, Holding, Working

LEMMA TickInv == QInv /\ Tick => QInv'
<1> SUFFICES ASSUME QInv, Tick PROVE QInv'
  OBVIOUS
<1>1. clock' \in [now : 0..MaxTime, upsets : 0..MaxUpsets]
  <2>1. clock.now + 1 \in 0..MaxTime
    BY TimesAssumption DEF Tick, QInv, TypeOK
  <2> QED BY <2>1 DEF Tick, QInv, TypeOK
<1>2. UNCHANGED <<rows, last, run, money, bought, returned>>
  BY DEF Tick
<1> QED BY <1>1, <1>2 DEF QInv, TypeOK, RunInv, HeldInv, RowInv, RowOK, Attempted,
                          Present, Owned, PassKeys

LEMMA NewIterationInv == QInv /\ NewIteration => QInv'
<1> SUFFICES ASSUME QInv, NewIteration PROVE QInv'
  OBVIOUS
<1>1. TypeOK'
  BY NewIterationType
<1>2. /\ run'.iter = run.iter + 1 /\ run'.step = "ready" /\ run'.due = {}
      /\ run'.todo = {} /\ run.iter \in Nat /\ UNCHANGED rows
  BY BoundsAssumption DEF NewIteration, Fresh, QInv, TypeOK, RunRow, IterationId, Null
<1>3. RunInv'
  BY <1>2 DEF RunInv, Null
<1>4. \A x \in Present : /\ rows[x].iter \in Nat /\ rows[x].iter <= run.iter
                        /\ rows[x].iter # run'.iter
  BY <1>2, BoundsAssumption DEF QInv, TypeOK, QueryRow, RowInv, RowOK, Present, IterationId, Null
<1>5. HeldInv'
  BY <1>2, <1>4 DEF HeldInv, Owned, Present, Holding
<1>6. RowInv'
  BY <1>2, <1>4 DEF QInv, RowInv, RowOK, Present
<1> QED BY <1>1, <1>3, <1>5, <1>6 DEF QInv

-----------------------------------------------------------------------------

LEMMA SetIter ==
  ASSUME TypeOK, NEW r \in Row, NEW i \in IterationId \cup {Null},
         rows' = [rows EXCEPT ![r].iter = i]
  PROVE  /\ rows' \in [Row -> QueryRow] /\ OnlyRow(r)
         /\ rows'[r] = [rows[r] EXCEPT !.iter = i]
<1>1. rows \in [Row -> QueryRow] /\ rows[r] \in QueryRow
  BY DEF TypeOK
<1>2. rows' = [rows EXCEPT ![r] = [rows[r] EXCEPT !.iter = i]]
  OBVIOUS
<1>3. rows' \in [Row -> QueryRow]
  BY <1>1, <1>2, RowType, ZenonT(30)
<1> QED BY <1>1, <1>2, <1>3 DEF OnlyRow, Untouched

\* Either a row that came due is adopted, or a duplicate fails the stage.
LEMMA AdoptFields ==
  ASSUME QInv, Adopt
  PROVE  \E r \in run.due :
    \/ /\ rows' = [rows EXCEPT ![r].iter = run.iter] /\ ~Duplicate(rows[r].key)
       /\ run' \in RunRow /\ run'.iter = run.iter /\ run'.stage = run.stage
       /\ run'.step = "proposing" /\ run'.ran = run.ran /\ run'.todo = run.todo
       /\ run'.due = run.due \ {r} /\ run'.at = run.at /\ run'.end = run.end
       /\ run'.tipped = run.tipped /\ run'.pass = run.pass
    \/ /\ UNCHANGED rows /\ run' = [Close("failed") EXCEPT !.ran = Ended.ran]
<1>1. run \in RunRow /\ run.step = "proposing"
  BY DEF QInv, TypeOK, Adopt
<1>2. PICK r \in run.due :
        \/ /\ ~Duplicate(rows[r].key)
           /\ rows' = [rows EXCEPT ![r].iter = run.iter]
           /\ run' = [run EXCEPT !.due = @ \ {r}, !.added = TRUE]
        \/ UNCHANGED rows /\ run' = [Close("failed") EXCEPT !.ran = Ended.ran]
  BY DEF Adopt
<1>3. CASE UNCHANGED rows /\ run' = [Close("failed") EXCEPT !.ran = Ended.ran]
  BY <1>3
<1>4. ASSUME ~Duplicate(rows[r].key), rows' = [rows EXCEPT ![r].iter = run.iter],
             run' = [run EXCEPT !.due = @ \ {r}, !.added = TRUE]
      PROVE  \/ /\ rows' = [rows EXCEPT ![r].iter = run.iter] /\ ~Duplicate(rows[r].key)
                /\ run' \in RunRow /\ run'.iter = run.iter /\ run'.stage = run.stage
                /\ run'.step = "proposing" /\ run'.ran = run.ran /\ run'.todo = run.todo
                /\ run'.due = run.due \ {r} /\ run'.at = run.at /\ run'.end = run.end
                /\ run'.tipped = run.tipped /\ run'.pass = run.pass
             \/ UNCHANGED rows /\ run' = [Close("failed") EXCEPT !.ran = Ended.ran]
  <2>1. \A b \in BOOLEAN : [run EXCEPT !.due = @ \ {r}, !.added = b] \in RunRow
    BY <1>1 DEF RunRow
  <2>2. TRUE \in BOOLEAN
    OBVIOUS
  <2>3. run' \in RunRow
    BY <1>4, <2>1, <2>2, Zenon
  <2> QED BY <1>1, <1>4, <2>3 DEF RunRow
<1> QED BY <1>2, <1>3, <1>4

LEMMA AdoptInv == QInv /\ Adopt => QInv'
<1> SUFFICES ASSUME QInv, Adopt PROVE QInv'
  OBVIOUS
<1> USE DEF QInv
<1>1. /\ run.step = "proposing" /\ run.iter # Null /\ run \in RunRow
      /\ UNCHANGED <<last, clock, money, bought, returned>>
  BY DEF Adopt, RunInv, TypeOK
<1>2. PICK r \in run.due :
        \/ /\ rows' = [rows EXCEPT ![r].iter = run.iter] /\ ~Duplicate(rows[r].key)
           /\ run' \in RunRow /\ run'.iter = run.iter /\ run'.stage = run.stage
           /\ run'.step = "proposing" /\ run'.ran = run.ran /\ run'.todo = run.todo
           /\ run'.due = run.due \ {r} /\ run'.at = run.at /\ run'.end = run.end
           /\ run'.tipped = run.tipped /\ run'.pass = run.pass
        \/ UNCHANGED rows /\ run' = [Close("failed") EXCEPT !.ran = Ended.ran]
  BY AdoptFields
<1>3. CASE UNCHANGED rows /\ run' = [Close("failed") EXCEPT !.ran = Ended.ran]
  <2>1. /\ run' \in RunRow /\ run'.iter = run.iter /\ run'.step = "closed"
        /\ run'.due = {} /\ run'.todo = {} /\ run'.ran = run.ran \cup {run.stage}
    BY <1>1, <1>3, ClosedFields
  <2>2. \A k : Attempted(k) => Attempted(k)'
    BY <2>1 DEF Attempted, Collector
  <2> QED BY <1>1, <1>3, <2>1, <2>2, RunStepInv DEF TypeOK, Holding
<1>4. CASE ~(UNCHANGED rows /\ run' = [Close("failed") EXCEPT !.ran = Ended.ran])
  <2>1. /\ rows' = [rows EXCEPT ![r].iter = run.iter] /\ run' \in RunRow
        /\ run'.iter = run.iter /\ run'.stage = run.stage
        /\ run'.step = "proposing" /\ run'.ran = run.ran /\ run'.todo = run.todo
        /\ run'.due = run.due \ {r}
    BY <1>2, <1>4
  <2>2. /\ r \in Present /\ r \in Row /\ rows[r].iter = Null /\ rows[r] \in QueryRow
        /\ RowOK(r)
    BY DEF RunInv, RowInv, Present, TypeOK
  <2>3. /\ rows' \in [Row -> QueryRow] /\ OnlyRow(r)
        /\ rows'[r] = [rows[r] EXCEPT !.iter = run.iter]
    BY <1>1, <2>1, <2>2, SetIter DEF RunRow
  <2>4. /\ rows'[r].key = rows[r].key /\ rows'[r].by = rows[r].by
        /\ rows'[r].iter = run.iter /\ rows'[r].status = rows[r].status
        /\ rows'[r].raw = rows[r].raw /\ rows'[r].executed = rows[r].executed
    BY <2>2, <2>3 DEF QueryRow
  <2>5. TypeOK'
    <3>1. \A x \in Row : x > last => rows'[x] = NoRow
      BY <2>2, <2>3 DEF TypeOK, NoRow, OnlyRow, Untouched, Present
    <3> QED BY <1>1, <2>1, <2>3, <3>1 DEF TypeOK
  <2>6. /\ rows[r].status = "PENDING" /\ rows[r].raw = "none"
        /\ rows[r].executed = Never /\ rows[r].key # Null /\ rows[r].by # Null
    BY <2>2 DEF RowOK
  <2> USE DEF OnlyRow, Untouched, Present, Owned
  <2>7. RunInv'
    BY <1>1, <2>1, <2>2, <2>3, <2>4 DEF RunInv
  <2>8. HeldInv'
    BY <1>1, <2>1, <2>2, <2>3, <2>4, <2>6 DEF HeldInv, Holding
  <2>9. RowInv'
    <3>1. \A k : Attempted(k) => Attempted(k)'
      BY <1>1, <2>1 DEF Attempted, Working, Collector
    <3>2. ASSUME NEW x \in Present', x # r PROVE RowOK(x)'
      BY <2>1, <2>3, <3>1, <3>2, RowKept DEF RowInv
    <3>3. run.iter <= run.iter
      BY <1>1 DEF RunRow, IterationId, Null
    <3>4. RowOK(r)'
      BY <1>1, <2>1, <2>4, <2>6, <3>3 DEF RowOK
    <3> QED BY <3>2, <3>4 DEF RowInv
  <2> QED BY <2>5, <2>7, <2>8, <2>9
<1> QED BY <1>3, <1>4

\* What enqueue writes.
LEMMA NewRowFields ==
  ASSUME TypeOK, run.iter # Null, NEW p \in Proposal
  PROVE  /\ NewRow(p) \in QueryRow
         /\ NewRow(p).key = p.key /\ NewRow(p).key \in Key /\ NewRow(p).by = run.iter
         /\ NewRow(p).iter = IF p.origin \in FollowOns THEN Null ELSE run.iter
         /\ NewRow(p).status = "PENDING" /\ NewRow(p).origin = p.origin
         /\ NewRow(p).raw = "none" /\ NewRow(p).executed = Never
<1>1. /\ p.key \in Key /\ p.prio \in Priority /\ p.origin \in Origins
      /\ run.iter \in IterationId
  BY DEF Proposal, TypeOK, RunRow
<1> DEFINE i == IF p.origin \in FollowOns THEN Null ELSE run.iter
           d == IF p.origin \in FollowOns THEN clock.now + Revisit ELSE 0
<1>2. i \in IterationId \cup {Null} /\ d \in Nat
  BY <1>1, TimesAssumption DEF TypeOK
<1>3. NewRow(p) = [NoRow EXCEPT !.key = p.key, !.by = run.iter, !.status = "PENDING",
                     !.origin = p.origin, !.prio = p.prio, !.iter = i, !.due = d]
  BY DEF NewRow
<1> HIDE DEF i, d
<1>4. NewRow(p) \in QueryRow
  BY <1>1, <1>2, <1>3, NoRowType DEF QueryRow, Statuses
<1>5. /\ NewRow(p).key = p.key /\ NewRow(p).by = run.iter /\ NewRow(p).iter = i
      /\ NewRow(p).status = "PENDING" /\ NewRow(p).origin = p.origin
      /\ NewRow(p).raw = "none" /\ NewRow(p).executed = Never
  BY <1>3 DEF NoRow
<1> QED BY <1>1, <1>4, <1>5 DEF i

LEMMA ProposeFields ==
  ASSUME QInv, Propose
  PROVE  /\ run.step = "proposing" /\ run.iter # Null /\ run.due = {} /\ last + 1 \in Row
         /\ UNCHANGED <<clock, money, bought, returned>>
         /\ \E p \in run.todo :
              /\ IF Admitted(p) THEN /\ last' = last + 1
                                    /\ rows' = [rows EXCEPT ![last + 1] = NewRow(p)]
                                ELSE UNCHANGED <<rows, last>>
              /\ p \in Proposal /\ run' \in RunRow /\ run'.iter = run.iter
              /\ run'.stage = run.stage /\ run'.step = "proposing" /\ run'.ran = run.ran
              /\ run'.todo = run.todo \ {p} /\ run'.due = run.due /\ run'.at = run.at
              /\ run'.end = run.end /\ run'.tipped = run.tipped /\ run'.pass = run.pass
              /\ run'.added = (run.added \/ (Admitted(p) /\ (run.stage = SEEDING
                                                           \/ p.key \notin Live)))
<1>1. /\ run \in RunRow /\ run.step = "proposing" /\ run.iter # Null /\ run.due = {}
      /\ UNCHANGED <<clock, money, bought, returned>>
  BY DEF QInv, RunInv, TypeOK, Propose
<1>2. last + 1 \in Row
  BY BoundsAssumption DEF QInv, TypeOK, Propose, Row
<1>3. PICK p \in run.todo :
        /\ IF Admitted(p) THEN /\ last' = NextId
                              /\ rows' = [rows EXCEPT ![last + 1] = NewRow(p)]
                          ELSE UNCHANGED <<rows, last>>
        /\ run' = [run EXCEPT !.todo = @ \ {p},
                     !.added = @ \/ (Admitted(p) /\ (run.stage = SEEDING
                                                    \/ p.key \notin Live))]
  BY Zenon DEF Propose
<1> DEFINE a == run.added \/ (Admitted(p) /\ (run.stage = SEEDING \/ p.key \notin Live))
<1>4. a \in BOOLEAN
  OBVIOUS
<1>5. run' = [run EXCEPT !.todo = @ \ {p}, !.added = a]
  BY <1>3, Zenon
<1>6. a = (run.added \/ (Admitted(p) /\ (run.stage = SEEDING \/ p.key \notin Live)))
  OBVIOUS
<1>7. p \in Proposal
  BY <1>1 DEF RunRow
<1>8. ASSUME NEW b \in BOOLEAN, NEW q, q = [run EXCEPT !.todo = @ \ {p}, !.added = b]
      PROVE  /\ q \in RunRow /\ q.iter = run.iter
             /\ q.stage = run.stage /\ q.step = "proposing" /\ q.ran = run.ran
             /\ q.todo = run.todo \ {p} /\ q.due = run.due /\ q.at = run.at
             /\ q.end = run.end /\ q.tipped = run.tipped /\ q.pass = run.pass
             /\ q.added = b
  <2>1. q \in RunRow
    BY <1>1, <1>8 DEF RunRow
  <2>2. /\ q.iter = run.iter /\ q.stage = run.stage /\ q.step = "proposing"
        /\ q.ran = run.ran /\ q.todo = run.todo \ {p} /\ q.due = run.due
        /\ q.at = run.at /\ q.end = run.end /\ q.tipped = run.tipped
        /\ q.pass = run.pass
    BY <1>1, <1>8 DEF RunRow
  <2>3. q.added = b
    BY <1>1, <1>8 DEF RunRow
  <2> QED BY <2>1, <2>2, <2>3
<1>9. /\ run' \in RunRow /\ run'.iter = run.iter
      /\ run'.stage = run.stage /\ run'.step = "proposing" /\ run'.ran = run.ran
      /\ run'.todo = run.todo \ {p} /\ run'.due = run.due /\ run'.at = run.at
      /\ run'.end = run.end /\ run'.tipped = run.tipped /\ run'.pass = run.pass
      /\ run'.added = a
  BY <1>4, <1>5, <1>8, ZenonT(30)
<1>10. IF Admitted(p) THEN /\ last' = last + 1
                          /\ rows' = [rows EXCEPT ![last + 1] = NewRow(p)]
                      ELSE UNCHANGED <<rows, last>>
  BY <1>3 DEF NextId
<1> HIDE DEF a
<1> QED BY <1>1, <1>2, <1>6, <1>7, <1>9, <1>10, Zenon

LEMMA ProposeInv == QInv /\ Propose => QInv'
<1> SUFFICES ASSUME QInv, Propose PROVE QInv'
  OBVIOUS
<1> USE DEF QInv
<1>1. /\ run.step = "proposing" /\ run.iter # Null /\ run.due = {} /\ last + 1 \in Row
      /\ UNCHANGED <<clock, money, bought, returned>>
  BY ProposeFields
<1>2. PICK p \in Proposal :
        /\ IF Admitted(p) THEN /\ last' = last + 1
                              /\ rows' = [rows EXCEPT ![last + 1] = NewRow(p)]
                          ELSE UNCHANGED <<rows, last>>
        /\ run' \in RunRow /\ run'.iter = run.iter
        /\ run'.stage = run.stage /\ run'.step = "proposing" /\ run'.ran = run.ran
        /\ run'.due = run.due
  BY ProposeFields
<1>3. \A k : Attempted(k) => Attempted(k)'
  BY <1>1, <1>2 DEF Attempted, Working, Collector
<1>4. CASE ~Admitted(p)
  BY <1>1, <1>2, <1>3, <1>4, RunStepInv DEF TypeOK, Holding
<1>5. CASE Admitted(p)
  <2>1. last' = last + 1 /\ rows' = [rows EXCEPT ![last + 1] = NewRow(p)]
    BY <1>2, <1>5
  <2>2. PICK n \in Row : n = last + 1
    BY <1>1
  <2>3. /\ rows'[n] = NewRow(p) /\ OnlyRow(n) /\ rows' \in [Row -> QueryRow]
        /\ n \notin Present
    BY <1>1, <2>1, <2>2, NewRowFields DEF TypeOK, OnlyRow, Untouched, Present, NoRow
  <2>4. TypeOK'
    <3>1. last' \in 0..MaxRows
      BY <2>1, <2>2, BoundsAssumption DEF TypeOK, Row
    <3>2. \A x \in Row : x > last' => rows'[x] = NoRow
      BY <2>1, <2>2, <2>3 DEF TypeOK, OnlyRow, Untouched, Row
    <3> QED BY <1>1, <1>2, <2>3, <3>1, <3>2 DEF TypeOK
  <2> USE DEF OnlyRow, Untouched, Present, Owned
  <2>5. RunInv'
    BY <1>1, <1>2 DEF RunInv
  <2>6. HeldInv'
    BY <1>1, <1>2, <2>3, NewRowFields DEF HeldInv, Holding
  <2>7. RowInv'
    <3>1. ASSUME NEW x \in Present', x # n PROVE RowOK(x)'
      BY <1>2, <1>3, <2>3, <3>1, RowKept DEF RowInv
    <3>2. run.iter \in Nat /\ 0 <= run.iter
      BY BoundsAssumption DEF TypeOK, RunRow, IterationId, Null
    <3>3. RowOK(n)'
      BY <1>1, <1>2, <2>3, <3>2, NewRowFields, KeysAssumption DEF RowOK, Null
    <3> QED BY <3>1, <3>3 DEF RowInv
  <2> QED BY <2>4, <2>5, <2>6, <2>7
<1> QED BY <1>4, <1>5

-----------------------------------------------------------------------------

\* A row keeps what it asks for, who owns and wrote it.
SameRow(x) == Identity(x) /\ rows'[x].billed = rows[x].billed

LEMMA SettledRow ==
  ASSUME QInv, Reconcile, NEW x \in Row
  PROVE  /\ rows'[x] \in QueryRow /\ SameRow(x) /\ rows'[x].raw = rows[x].raw
         /\ x \notin Banked => rows'[x] = rows[x]
         /\ x \in Banked =>
              /\ rows'[x].status \in {"COMPLETE", "INTERRUPTED"}
              /\ rows'[x].executed \in {clock.now, rows[x].executed}
<1>1. rows'[x] = SettleBanked(x) /\ rows[x] \in QueryRow /\ clock.now \in 0..Never
  BY NeverType DEF Reconcile, QInv, TypeOK
<1>2. CASE x \notin Banked
  BY <1>1, <1>2 DEF SettleBanked, SameRow, Identity
<1>3. CASE x \in Banked /\ SettleBanked(x) = [rows[x] EXCEPT !.status = "COMPLETE", !.executed = clock.now]
  <2>1. rows'[x] \in QueryRow
    <3>1. "COMPLETE" \in Statuses
      BY DEF Statuses
    <3>2. [rows[x] EXCEPT !.status = "COMPLETE", !.executed = clock.now] \in QueryRow
      BY <1>1, <3>1, RowType
    <3> QED BY <1>1, <1>3, <3>2
  <2> QED BY <1>1, <1>3, <2>1 DEF SameRow, Identity, QueryRow
<1>4. CASE x \in Banked /\ SettleBanked(x) = [rows[x] EXCEPT !.status = "INTERRUPTED"]
  <2>1. rows'[x] \in QueryRow
    <3>1. "INTERRUPTED" \in Statuses
      BY DEF Statuses
    <3>2. [rows[x] EXCEPT !.status = "INTERRUPTED"] \in QueryRow
      BY <1>1, <3>1, RowType
    <3> QED BY <1>1, <1>4, <3>2
  <2> QED BY <1>1, <1>4, <2>1 DEF SameRow, Identity, QueryRow
<1> QED BY <1>2, <1>3, <1>4 DEF SettleBanked

LEMMA ReconcileFields ==
  ASSUME QInv, Reconcile
  PROVE  /\ run.step = "dead" /\ run' \in RunRow /\ run'.iter = run.iter
         /\ run'.step = "down" /\ run'.stage = run.stage /\ run'.ran = run.ran
         /\ run'.due = run.due /\ run'.todo = run.todo /\ run'.end = run.end
         /\ run'.tipped = run.tipped /\ run'.torn = run.torn
         /\ run'.at = IF run.at = Null THEN run.stage ELSE run.at
         /\ UNCHANGED <<last, clock, money, bought, returned>>
<1>1. /\ run \in RunRow /\ run.step = "dead"
      /\ UNCHANGED <<last, clock, money, bought, returned>>
      /\ run' = [run EXCEPT !.step = "down", !.at = IF @ = Null THEN run.stage ELSE @]
  BY DEF QInv, TypeOK, Reconcile
<1>2. run' \in RunRow
  BY <1>1 DEF RunRow, Idle
<1> QED BY <1>1, <1>2 DEF RunRow

LEMMA ReconcileInv == QInv /\ Reconcile => QInv'
<1> SUFFICES ASSUME QInv, Reconcile PROVE QInv'
  OBVIOUS
<1> USE DEF QInv
<1>1. rows' \in [Row -> QueryRow]
  <2>1. rows' = [x \in Row |-> SettleBanked(x)]
    BY DEF Reconcile
  <2>2. \A x \in Row : rows'[x] \in QueryRow
    BY SettledRow
  <2> QED BY <2>1, <2>2
<1>2. Banked \subseteq Owned /\ \A x \in Banked : rows[x].status = "IN_PROGRESS" /\ rows[x].raw # "none"
  BY DEF Banked, InProgress
<1>3. TypeOK'
  <2>1. \A x \in Row : x > last => rows'[x] = NoRow
    <3> SUFFICES ASSUME NEW x \in Row, x > last PROVE rows'[x] = NoRow
      OBVIOUS
    <3>1. rows[x] = NoRow
      BY DEF TypeOK
    <3>2. x \notin Banked
      BY <1>2, <3>1 DEF NoRow, Owned, Present
    <3> QED BY <3>1, <3>2, SettledRow
  <2> QED BY <1>1, <2>1, ReconcileFields DEF TypeOK
<1> USE DEF Present, Owned
<1>4. RunInv'
  <2>1. run.iter # Null
    BY ReconcileFields DEF RunInv
  <2>2. run'.at # Null
    BY ReconcileFields DEF TypeOK, RunRow, Stage, SEEDING, Null
  <2>3. run'.due = {} /\ run'.todo = {}
    BY ReconcileFields DEF RunInv
  <2> QED BY <2>1, <2>2, <2>3, ReconcileFields DEF RunInv
<1>5. HeldInv'
  <2>1. ASSUME NEW x \in Owned', rows'[x].status = "IN_PROGRESS"
        PROVE  rows'[x].raw = "none"
    BY <2>1, SettledRow, ReconcileFields DEF Banked, InProgress, SameRow, Identity
  <2> QED BY <2>1, ReconcileFields DEF HeldInv, Holding
<1>6. RowInv'
  <2>1. \A k : Attempted(k) => Attempted(k)'
    BY ReconcileFields DEF Attempted, Working, Collector
  <2>2. ASSUME NEW x \in Present', x \notin Banked PROVE RowOK(x)'
    BY <2>1, <2>2, SettledRow, ReconcileFields, RowKept DEF RowInv, Untouched
  <2>3. ASSUME NEW x \in Row, x \in Banked PROVE RowOK(x)'
    <3>1. RowOK(x) /\ rows[x].status = "IN_PROGRESS" /\ rows[x].raw # "none"
          /\ rows[x].iter = run.iter /\ run.iter # Null
      BY <1>2, <2>3, ReconcileFields DEF RowInv, RunInv
    <3>2. Attempted(rows[x].key)
      BY <3>1 DEF RowOK
    <3> QED BY <2>1, <2>3, <3>1, <3>2, SettledRow, ReconcileFields DEF RowOK, SameRow, Identity
  <2> QED BY <2>2, <2>3 DEF RowInv
<1> QED BY <1>3, <1>4, <1>5, <1>6

\* Giving the rows of a set another status.
LEMMA Restated ==
  ASSUME QInv, NEW S \in SUBSET Owned, NEW st \in Statuses,
         rows' = [x \in Row |-> IF x \in S THEN [rows[x] EXCEPT !.status = st]
                                ELSE rows[x]]
  PROVE  /\ rows' \in [Row -> QueryRow] /\ \A x \in Row : x > last => rows'[x] = NoRow
         /\ \A x \in Row \ S : rows'[x] = rows[x]
         /\ \A x \in S : /\ x \in Row /\ SameRow(x) /\ rows'[x].raw = rows[x].raw
                         /\ rows'[x].executed = rows[x].executed
                         /\ rows'[x].status = st
<1>1. S \subseteq Row /\ \A x \in Row : rows[x] \in QueryRow
  BY DEF QInv, TypeOK, Owned, Present
<1>2. \A x \in Row : [rows[x] EXCEPT !.status = st] \in QueryRow
  BY <1>1, RowType
<1>3. rows' \in [Row -> QueryRow]
  BY <1>1, <1>2
<1>4. \A x \in S : rows'[x] = [rows[x] EXCEPT !.status = st]
  BY <1>1
<1>5. \A x \in Row \ S : rows'[x] = rows[x]
  OBVIOUS
<1>6. ASSUME NEW x \in Row, x > last PROVE rows'[x] = NoRow
  <2>1. rows[x] = NoRow
    BY <1>6 DEF QInv, TypeOK
  <2>2. x \notin S
    BY <2>1 DEF NoRow, Owned, Present
  <2> QED BY <1>5, <2>1, <2>2
<1>7. ASSUME NEW x \in S
      PROVE  /\ SameRow(x) /\ rows'[x].raw = rows[x].raw
             /\ rows'[x].executed = rows[x].executed /\ rows'[x].status = st
  BY <1>1, <1>4 DEF QueryRow, SameRow, Identity
<1> QED BY <1>1, <1>3, <1>5, <1>6, <1>7

LEMMA ResumeFields ==
  ASSUME QInv, Resume
  PROVE  /\ run.step = "down" /\ run' \in RunRow /\ run'.iter = run.iter
         /\ run'.step = "ready" /\ run'.stage = run.at /\ run'.ran = run.ran
         /\ run'.due = run.due /\ run'.todo = run.todo /\ run'.at = run.at
         /\ run'.end = run.end /\ run'.tipped = run.tipped /\ run'.torn = run.torn
         /\ UNCHANGED <<last, clock, money, bought>>
<1>1. /\ run \in RunRow /\ run.step = "down" /\ run.at # Null
      /\ UNCHANGED <<last, clock, money, bought>>
      /\ run' = [run EXCEPT !.stage = run.at, !.step = "ready"]
  BY DEF QInv, TypeOK, RunInv, Resume
<1>2. run' \in RunRow
  BY <1>1 DEF RunRow, Idle
<1> QED BY <1>1, <1>2 DEF RunRow

LEMMA InProgressRows ==
  QInv => /\ InProgress \subseteq Owned /\ InProgress \in SUBSET Row
          /\ \A x \in InProgress : /\ rows[x].status = "IN_PROGRESS" /\ rows[x].key \in Key
                                  /\ RowOK(x)
BY DEF InProgress, Owned, Present, QInv, TypeOK, QueryRow, RowInv, RowOK

LEMMA ResumeInv == QInv /\ Resume => QInv'
<1> SUFFICES ASSUME QInv, Resume PROVE QInv'
  OBVIOUS
<1>1. /\ rows' \in [Row -> QueryRow] /\ \A x \in Row : x > last => rows'[x] = NoRow
      /\ \A x \in Row \ InProgress : rows'[x] = rows[x]
      /\ \A x \in InProgress :
           /\ x \in Row /\ SameRow(x) /\ rows'[x].raw = rows[x].raw
           /\ rows'[x].executed = rows[x].executed /\ rows'[x].status = "PENDING"
  <2>1. /\ InProgress \in SUBSET Owned /\ InProgress \in SUBSET Row
        /\ "PENDING" \in Statuses
    BY InProgressRows DEF Statuses
  <2>2. rows' = [x \in Row |-> IF x \in InProgress
                               THEN [rows[x] EXCEPT !.status = "PENDING"] ELSE rows[x]]
    BY Zenon DEF Resume
  <2> QED BY <2>1, <2>2, Restated, Zenon
<1>2. returned' \in [Key -> Nat]
  BY ReturnedCount, InProgressRows DEF Resume, QInv
<1>3. TypeOK'
  BY <1>1, <1>2, ResumeFields DEF QInv, TypeOK
<1>4. run.iter # Null /\ run.due = {} /\ run.todo = {}
  BY ResumeFields DEF QInv, RunInv
<1>5. RunInv'
  BY <1>4, ResumeFields DEF RunInv
<1>6. HeldInv'
  BY <1>1, ResumeFields DEF HeldInv, Holding, Owned, Present, InProgress
<1>7. RowInv'
  <2>1. \A k : Attempted(k) => Attempted(k)'
    BY ResumeFields DEF Attempted, Working, Collector
  <2>2. ASSUME NEW x \in Present', x \notin InProgress PROVE RowOK(x)'
    BY <1>1, <2>1, <2>2, ResumeFields, RowKept DEF QInv, RowInv, Untouched, Present
  <2>3. ASSUME NEW x \in InProgress PROVE RowOK(x)'
    <3>1. /\ RowOK(x) /\ rows[x].iter = run.iter /\ rows[x].raw = "none"
          /\ rows[x].status = "IN_PROGRESS"
      BY ResumeFields, InProgressRows DEF QInv, HeldInv, Owned, InProgress, Holding
    <3> QED BY <1>1, <1>4, <3>1, ResumeFields DEF RowOK, SameRow, Identity
  <2> QED BY <2>2, <2>3 DEF RowInv
<1> QED BY <1>3, <1>5, <1>6, <1>7 DEF QInv

LEMMA AbandonInv == QInv /\ Abandon => QInv'
<1> SUFFICES ASSUME QInv, Abandon PROVE QInv'
  OBVIOUS
<1> DEFINE S == {x \in Owned : rows[x].status \in {"PENDING", "IN_PROGRESS"}}
<1>1. rows' = [x \in Row |-> IF x \in S THEN [rows[x] EXCEPT !.status = "INTERRUPTED"]
                              ELSE rows[x]]
  BY DEF Abandon
<1>2. /\ rows' \in [Row -> QueryRow] /\ \A x \in Row : x > last => rows'[x] = NoRow
      /\ \A x \in Row \ S : rows'[x] = rows[x]
      /\ \A x \in S : /\ x \in Row /\ SameRow(x) /\ rows'[x].raw = rows[x].raw
                      /\ rows'[x].executed = rows[x].executed
                      /\ rows'[x].status = "INTERRUPTED"
  <2>1. S \in SUBSET Owned /\ "INTERRUPTED" \in Statuses
    BY DEF Statuses
  <2> HIDE DEF S
  <2>2. \A x \in S : x \in Row
    BY <2>1 DEF Owned, Present
  <2> QED BY <1>1, <2>1, <2>2, Restated
<1>3. \A x \in S : x \in Present /\ rows[x].iter = run.iter
  BY DEF Owned
<1>4. \A x \in Row : rows'[x].status = "IN_PROGRESS" => x \notin S
  BY <1>2
<1>5. \A x \in Owned : rows[x].status = "IN_PROGRESS" => x \in S
  OBVIOUS
<1> HIDE DEF S
<1>6. /\ run.step = "down" /\ run \in RunRow /\ run' = Close("cut")
      /\ UNCHANGED <<last, clock, money, bought, returned>>
  BY DEF Abandon, QInv, TypeOK
<1>7. /\ run' \in RunRow /\ run'.iter = run.iter /\ run'.step = "closed"
      /\ run'.due = {} /\ run'.todo = {} /\ run.ran \subseteq run'.ran
  BY <1>6, ClosedFields
<1>8. TypeOK'
  BY <1>2, <1>6, <1>7 DEF QInv, TypeOK
<1>9. run.iter # Null
  BY <1>6 DEF QInv, RunInv
<1>10. RunInv'
  BY <1>7, <1>9 DEF RunInv
<1>11. HeldInv'
  BY <1>2, <1>4, <1>5, <1>7 DEF HeldInv, Holding, Owned, Present
<1>12. RowInv'
  <2>1. \A k : Attempted(k) => Attempted(k)'
    BY <1>6, <1>7 DEF Attempted, Working, Collector
  <2>2. ASSUME NEW x \in Present', x \notin S PROVE RowOK(x)'
    BY <1>2, <1>7, <2>1, <2>2, RowKept DEF QInv, RowInv, Untouched, Present
  <2>3. ASSUME NEW x \in S PROVE RowOK(x)'
    <3>1. RowOK(x)
      BY <1>3 DEF QInv, RowInv
    <3> QED BY <1>2, <1>3, <1>7, <1>9, <2>1, <3>1 DEF RowOK, SameRow, Identity
  <2> QED BY <2>2, <2>3 DEF RowInv, Present
<1> QED BY <1>8, <1>10, <1>11, <1>12 DEF QInv

-----------------------------------------------------------------------------

\* A discard finds the iteration idle, so what it undoes is over.
LEMMA RewoundFields ==
  ASSUME QInv, Discardable
  PROVE  /\ LastRan \in Stage /\ LastRan \in run.ran
         /\ \A y \in run.ran : y <= LastRan
         /\ run.iter # Null /\ run.due = {} /\ run.todo = {} /\ run \in RunRow
         /\ \A k : Attempted(k) <=> Collector(k) \in run.ran
         /\ Rewound \in RunRow /\ Rewound.iter = run.iter /\ Rewound.stage = LastRan
         /\ Rewound.ran = run.ran \ {LastRan} /\ Rewound.end = "none"
         /\ Rewound.step = IF run.step = "down" THEN "down" ELSE "ready"
         /\ Rewound.due = run.due /\ Rewound.todo = run.todo /\ Rewound.at = run.at
         /\ Rewound.tipped = run.tipped /\ Rewound.torn = run.torn
<1>1. /\ run \in RunRow /\ run.ran # {} /\ run.iter # Null
      /\ run.step \in {"ready", "ended", "closed", "down"}
  BY DEF QInv, TypeOK, RunInv, Discardable
<1>2. run.due = {} /\ run.todo = {}
  BY <1>1 DEF QInv, RunInv
<1>3. /\ LastRan \in Stage /\ LastRan \in run.ran /\ \A y \in run.ran : y <= LastRan
  BY <1>1, StageMax DEF LastRan, RunRow
<1>4. \A k : Attempted(k) <=> Collector(k) \in run.ran
  BY <1>1 DEF Attempted, Working
<1> DEFINE st == IF run.step = "down" THEN "down" ELSE "ready"
           ran == run.ran \ {LastRan}
<1>5. st \in {"down", "ready"} /\ ran \in SUBSET Stage
  BY <1>1 DEF RunRow
<1>6. Rewound = [run EXCEPT !.stage = LastRan, !.ran = ran, !.end = "none", !.step = st]
  BY DEF Rewound
<1>7. st = (IF run.step = "down" THEN "down" ELSE "ready") /\ ran = run.ran \ {LastRan}
  OBVIOUS
<1> HIDE DEF st, ran
<1>8. Rewound \in RunRow
  BY <1>1, <1>3, <1>5, <1>6 DEF RunRow, Idle
<1>9. /\ Rewound.iter = run.iter /\ Rewound.stage = LastRan
      /\ Rewound.ran = ran /\ Rewound.end = "none" /\ Rewound.step = st
      /\ Rewound.due = run.due /\ Rewound.todo = run.todo /\ Rewound.at = run.at
      /\ Rewound.tipped = run.tipped /\ Rewound.torn = run.torn
  BY <1>1, <1>6 DEF RunRow
<1> QED BY <1>1, <1>2, <1>3, <1>4, <1>7, <1>8, <1>9

LEMMA UpsetType ==
  ASSUME TypeOK, Upset
  PROVE  clock' \in [now : 0..MaxTime, upsets : 0..MaxUpsets] /\ clock'.now = clock.now
<1>1. clock.upsets + 1 \in 0..MaxUpsets
  BY BoundsAssumption DEF Upset, TypeOK
<1> QED BY <1>1 DEF Upset, TypeOK

\* What a discard starts over: the queries its stage collected.
Again == {r \in CollectedBy(LastRan) : rows[r].status # "PENDING"}

DiscardedAs(x) ==
  CASE x \in WrittenBy(LastRan) -> NoRow
    [] x \in Again -> Reset(x)
    [] LastRan = SEEDING /\ x \in Adopted ->
         [rows[x] EXCEPT !.iter = Null, !.status = "PENDING"]
    [] OTHER -> rows[x]

LEMMA DiscardedRows == Discard => rows' = [x \in Row |-> DiscardedAs(x)]
BY Zenon DEF Discard, DiscardedAs, Again

\* What a discard does to each row.
LEMMA DiscardedRow ==
  ASSUME QInv, Discard, NEW x \in Row
  PROVE  \/ x \in WrittenBy(LastRan) /\ rows'[x] = NoRow
         \/ /\ x \in Again /\ x \notin WrittenBy(LastRan) /\ rows'[x] \in QueryRow
            /\ SameRow(x) /\ rows'[x].status = "PENDING"
            /\ rows'[x].executed = Never /\ rows'[x].raw = "none"
         \/ /\ LastRan = SEEDING /\ x \in Adopted /\ x \notin WrittenBy(LastRan)
            /\ rows'[x] \in QueryRow
            /\ rows'[x].iter = Null /\ rows'[x].status = "PENDING"
            /\ rows'[x].key = rows[x].key /\ rows'[x].by = rows[x].by
            /\ rows'[x].origin = rows[x].origin /\ rows'[x].raw = rows[x].raw
            /\ rows'[x].executed = rows[x].executed
            /\ rows'[x].billed = rows[x].billed /\ x \notin Again
         \/ /\ x \notin WrittenBy(LastRan) /\ x \notin Again
            /\ ~(LastRan = SEEDING /\ x \in Adopted) /\ rows'[x] = rows[x]
<1>1. rows'[x] = CASE x \in WrittenBy(LastRan) -> NoRow
                   [] x \in Again -> Reset(x)
                   [] LastRan = SEEDING /\ x \in Adopted ->
                        [rows[x] EXCEPT !.iter = Null, !.status = "PENDING"]
                   [] OTHER -> rows[x]
  <2>1. rows'[x] = DiscardedAs(x)
    BY DiscardedRows
  <2> QED BY <2>1, Zenon DEF DiscardedAs
<1>2. rows[x] \in QueryRow
  BY DEF QInv, TypeOK
<1>3. Again \cap WrittenBy(LastRan) = {} /\ (LastRan = SEEDING => Again = {})
      /\ Adopted \cap WrittenBy(SEEDING) = {}
  BY DEF Again, CollectedBy, WrittenBy, Adopted, SEEDING, COLLECTING_SOCIAL, TIPPING,
         COLLECTING_TIPPED, SCHEDULING
<1>4. CASE x \in WrittenBy(LastRan)
  <2>1. x \notin Again /\ ~(LastRan = SEEDING /\ x \in Adopted)
    BY <1>3, <1>4
  <2> QED BY <1>1, <1>4, <2>1
<1>5. CASE x \in Again
  <2>1. x \notin WrittenBy(LastRan) /\ ~(LastRan = SEEDING /\ x \in Adopted)
    BY <1>3, <1>5
  <2>2. rows'[x] = [rows[x] EXCEPT !.status = "PENDING", !.executed = Never, !.raw = "none"]
    BY <1>1, <1>5, <2>1 DEF Reset
  <2>3. rows'[x] \in QueryRow
    BY <1>2, <2>2, NeverType DEF QueryRow, Statuses
  <2> QED BY <1>2, <1>5, <2>1, <2>2, <2>3 DEF SameRow, Identity, QueryRow
<1>6. CASE LastRan = SEEDING /\ x \in Adopted
  <2>1. x \notin WrittenBy(LastRan) /\ x \notin Again
    BY <1>3, <1>6
  <2>2. rows'[x] = [rows[x] EXCEPT !.iter = Null, !.status = "PENDING"]
    BY <1>1, <1>6, <2>1
  <2>3. rows'[x] \in QueryRow
    BY <1>2, <2>2, RowType
  <2> QED BY <1>2, <1>6, <2>1, <2>2, <2>3 DEF QueryRow
<1>7. CASE x \notin WrittenBy(LastRan) /\ x \notin Again /\ ~(LastRan = SEEDING /\ x \in Adopted)
  BY <1>1, <1>7
<1> QED BY <1>4, <1>5, <1>6, <1>7

\* Of what the furthest stage collects, a row left alone was not collected.
LEMMA NotAgain ==
  ASSUME QInv, Discardable, NEW x \in Owned, x \notin Again,
         rows[x].raw # "none" \/ rows[x].executed # Never
  PROVE  Collector(rows[x].key) # LastRan
<1>1. RowOK(x)
  BY DEF QInv, RowInv, Owned
<1>2. rows[x].status # "PENDING"
  BY <1>1 DEF RowOK
<1>3. x \notin CollectedBy(LastRan)
  BY <1>2 DEF Again
<1> QED BY <1>3 DEF CollectedBy, Collector, COLLECTING_SOCIAL, COLLECTING_TIPPED

\* When seeding is discarded nothing was collected yet.
LEMMA SeedingAlone ==
  ASSUME QInv, Discardable, LastRan = SEEDING
  PROVE  /\ \A k : ~Attempted(k)
         /\ \A x \in Owned : rows[x].raw = "none" /\ rows[x].executed = Never
<1>1. \A k : ~Attempted(k)
  BY RewoundFields DEF Collector, SEEDING, COLLECTING_SOCIAL, COLLECTING_TIPPED
<1> QED BY <1>1 DEF QInv, RowInv, RowOK, Owned

LEMMA DiscardFields ==
  ASSUME QInv, Discard
  PROVE  /\ Discardable /\ run' = Rewound /\ ~Referenced(LastRan) /\ clock'.now = clock.now
         /\ clock' \in [now : 0..MaxTime, upsets : 0..MaxUpsets]
         /\ returned' = Returned(Again) /\ Again \in SUBSET Row
         /\ \A x \in Again : x \in Owned /\ rows[x].key \in Key
         /\ UNCHANGED <<last, money, bought>> /\ "discard" \in Ops
<1>1. Again \in SUBSET Row /\ \A x \in Again : x \in Owned
  BY DEF Again, CollectedBy, Owned, Present
<1>2. \A x \in Again : rows[x].key \in Key
  BY <1>1 DEF QInv, TypeOK, QueryRow, RowInv, RowOK, Owned, Present
<1>3. returned' = Returned(Again)
  BY DEF Discard, Again
<1>4. /\ Discardable /\ run' = Rewound /\ ~Referenced(LastRan) /\ Upset
      /\ UNCHANGED <<last, money, bought>> /\ "discard" \in Ops
  BY DEF Discard, Upset
<1> QED BY <1>1, <1>2, <1>3, <1>4, UpsetType DEF QInv

LEMMA DiscardInv == QInv /\ Discard => QInv'
<1> SUFFICES ASSUME QInv, Discard PROVE QInv'
  OBVIOUS
<1>1. Discardable /\ run' = Rewound
  BY DiscardFields
<1>2. TypeOK'
  <2>1. rows' \in [Row -> QueryRow]
    <3>1. \A x \in Row : rows'[x] \in QueryRow
      BY DiscardedRow, NoRowType DEF QInv, TypeOK
    <3>2. rows' = [x \in Row |-> DiscardedAs(x)]
      BY DiscardedRows
    <3> QED BY <3>1, <3>2
  <2>2. ASSUME NEW x \in Row, x > last PROVE rows'[x] = NoRow
    <3>1. rows[x] = NoRow
      BY <2>2 DEF QInv, TypeOK
    <3>2. x \notin Again /\ x \notin Adopted
      BY <3>1 DEF NoRow, Again, CollectedBy, Adopted, Owned, Present
    <3> QED BY <3>1, <3>2, DiscardedRow
  <2>3. returned' \in [Key -> Nat]
    BY DiscardFields, ReturnedCount DEF QInv
  <2> QED BY <1>1, <2>1, <2>2, <2>3, RewoundFields, DiscardFields DEF QInv, TypeOK
<1>3. RunInv'
  BY <1>1, RewoundFields DEF QInv, RunInv
<1>4. HeldInv'
  <2>1. run'.step \in {"down", "ready"} /\ run'.iter = run.iter
    BY <1>1, RewoundFields
  <2>2. ASSUME NEW x \in Owned', rows'[x].status = "IN_PROGRESS"
        PROVE  run'.step = "down" /\ rows'[x].raw = "none"
    <3>1. x \in Row /\ rows'[x] = rows[x]
      BY <2>2, DiscardedRow DEF Owned, Present, NoRow
    <3>2. x \in Owned /\ rows[x].status = "IN_PROGRESS"
      BY <2>1, <2>2, <3>1 DEF Owned, Present
    <3> QED BY <1>1, <3>1, <3>2, RewoundFields DEF QInv, HeldInv, Holding, Discardable
  <2> QED BY <2>1, <2>2 DEF HeldInv, Holding
<1>5. RowInv'
  <2> SUFFICES ASSUME NEW x \in Present' PROVE RowOK(x)'
    BY DEF RowInv
  <2>1. /\ x \in Row /\ rows'[x] # NoRow /\ run'.iter = run.iter /\ run.iter # Null
        /\ run.iter \in IterationId
    BY <1>1, RewoundFields DEF Present, NoRow, RunRow
  <2>2. CASE x \in Again /\ x \notin WrittenBy(LastRan)
    <3>1. RowOK(x) /\ rows[x].iter = run.iter
      BY <2>2, DiscardFields DEF QInv, RowInv, Owned
    <3>2. SameRow(x) /\ rows'[x].status = "PENDING"
          /\ rows'[x].executed = Never /\ rows'[x].raw = "none"
      BY <2>1, <2>2, DiscardedRow
    <3> QED BY <2>1, <3>1, <3>2 DEF RowOK, SameRow, Identity
  <2>3. CASE LastRan = SEEDING /\ x \in Adopted
    <3>1. /\ RowOK(x) /\ rows[x].origin \in FollowOns /\ rows[x].raw = "none"
          /\ rows[x].executed = Never /\ x \notin Again
      BY <1>1, <2>3, SeedingAlone DEF QInv, RowInv, Adopted, Owned, Again, CollectedBy, SEEDING, COLLECTING_SOCIAL, COLLECTING_TIPPED
    <3>2. /\ rows'[x].iter = Null /\ rows'[x].status = "PENDING"
          /\ rows'[x].key = rows[x].key /\ rows'[x].by = rows[x].by
          /\ rows'[x].origin = rows[x].origin /\ rows'[x].raw = rows[x].raw
          /\ rows'[x].executed = rows[x].executed
      BY <2>1, <2>3, <3>1, DiscardedRow
    <3>3. Null <= run.iter
      BY <2>1 DEF Null, IterationId
    <3> QED BY <2>1, <3>1, <3>2, <3>3 DEF RowOK
  <2>4. CASE rows'[x] = rows[x] /\ x \notin Again
    <3>1. RowOK(x) /\ x \in Present
      BY <2>4 DEF QInv, RowInv, Present
    <3>2. ASSUME rows[x].iter = run.iter, rows[x].raw # "none" \/ rows[x].executed # Never
          PROVE  Attempted(rows[x].key)'
      <4>1. x \in Owned /\ Attempted(rows[x].key)
        BY <3>1, <3>2 DEF Owned, RowOK
      <4>2. Collector(rows[x].key) # LastRan
        BY <1>1, <2>4, <3>2, <4>1, NotAgain
      <4> QED BY <1>1, <2>4, <4>1, <4>2, RewoundFields DEF Attempted, Collector
    <3> QED BY <2>1, <2>4, <3>1, <3>2 DEF RowOK
  <2> QED BY <2>1, <2>2, <2>3, <2>4, DiscardedRow
<1> QED BY <1>2, <1>3, <1>4, <1>5 DEF QInv

LEMMA TornRow ==
  ASSUME QInv, DiscardTorn, NEW x \in Row
  PROVE  /\ rows'[x] \in QueryRow /\ SameRow(x) /\ rows'[x].status = rows[x].status
         /\ rows'[x].executed = rows[x].executed
         /\ x \notin Owned => rows'[x] = rows[x]
         /\ rows[x].raw = "none" => rows'[x] = rows[x]
         /\ rows[x].key \in Social => rows'[x] = rows[x]
<1> DEFINE w == IF rows[x].raw \in {"derived", "orphaned"} THEN "orphaned" ELSE "none"
<1>1. rows[x] \in QueryRow
  BY DEF QInv, TypeOK
<1>2. rows'[x] = IF x \notin CollectedBy(LastRan) THEN rows[x] ELSE [rows[x] EXCEPT !.raw = w]
  BY DEF DiscardTorn
<1>3. x \in CollectedBy(LastRan) => x \in Owned /\ rows[x].key \notin Social
  BY DEF CollectedBy, DiscardTorn, COLLECTING_SOCIAL, COLLECTING_TIPPED
<1>4. w \in {"orphaned", "none"} /\ (rows[x].raw = "none" => w = rows[x].raw)
  OBVIOUS
<1> HIDE DEF w
<1>5. [rows[x] EXCEPT !.raw = w] \in QueryRow /\ (rows[x].raw = w => [rows[x] EXCEPT !.raw = w] = rows[x])
  BY <1>1, <1>4 DEF QueryRow
<1>6. CASE x \notin CollectedBy(LastRan)
  BY <1>1, <1>2, <1>6 DEF SameRow, Identity
<1>7. CASE x \in CollectedBy(LastRan)
  BY <1>1, <1>2, <1>3, <1>4, <1>5, <1>7 DEF SameRow, Identity, QueryRow
<1> QED BY <1>6, <1>7

LEMMA DiscardTornFields ==
  ASSUME QInv, DiscardTorn
  PROVE  /\ Discardable /\ LastRan = COLLECTING_TIPPED /\ "discard" \in Ops
         /\ run' \in RunRow /\ run'.iter = run.iter /\ run'.step = run.step
         /\ run'.stage = run.stage /\ run'.ran = run.ran /\ run'.due = run.due
         /\ run'.todo = run.todo /\ run'.at = run.at /\ run'.end = run.end
         /\ run'.tipped = run.tipped /\ run'.torn
         /\ clock' \in [now : 0..MaxTime, upsets : 0..MaxUpsets] /\ clock'.now = clock.now
         /\ UNCHANGED <<last, money, bought, returned>>
<1>1. /\ Discardable /\ LastRan = COLLECTING_TIPPED /\ run \in RunRow /\ "discard" \in Ops
      /\ UNCHANGED <<last, money, bought, returned>> /\ Upset
      /\ run' = [run EXCEPT !.torn = TRUE]
  BY DEF QInv, TypeOK, DiscardTorn, Upset
<1>2. \A b \in BOOLEAN :
        LET q == [run EXCEPT !.torn = b]
        IN /\ q \in RunRow /\ q.iter = run.iter /\ q.step = run.step
           /\ q.stage = run.stage /\ q.ran = run.ran /\ q.due = run.due
           /\ q.todo = run.todo /\ q.at = run.at /\ q.end = run.end
           /\ q.tipped = run.tipped /\ q.torn = b
  BY <1>1 DEF RunRow
<1>3. TRUE \in BOOLEAN
  OBVIOUS
<1>4. /\ run' \in RunRow /\ run'.iter = run.iter /\ run'.step = run.step
      /\ run'.stage = run.stage /\ run'.ran = run.ran /\ run'.due = run.due
      /\ run'.todo = run.todo /\ run'.at = run.at /\ run'.end = run.end
      /\ run'.tipped = run.tipped /\ run'.torn
  BY <1>1, <1>2, <1>3, Zenon
<1> QED BY <1>1, <1>4, UpsetType DEF QInv

LEMMA DiscardTornInv == QInv /\ DiscardTorn => QInv'
<1> SUFFICES ASSUME QInv, DiscardTorn PROVE QInv'
  OBVIOUS
<1>1. run.iter # Null /\ run.step \in {"ready", "ended", "closed", "down"}
  BY DiscardTornFields, RewoundFields DEF Discardable
<1>2. TypeOK'
  <2>1. rows' \in [Row -> QueryRow]
    <3>1. \A x \in Row : rows'[x] \in QueryRow
      BY TornRow
    <3>2. rows' = [x \in Row |-> rows'[x]]
      BY DEF DiscardTorn
    <3> QED BY <3>1, <3>2
  <2>2. ASSUME NEW x \in Row, x > last PROVE rows'[x] = NoRow
    <3>1. rows[x] = NoRow
      BY <2>2 DEF QInv, TypeOK
    <3>2. rows[x].raw = "none"
      BY <3>1 DEF NoRow
    <3> QED BY <3>1, <3>2, TornRow
  <2> QED BY <2>1, <2>2, DiscardTornFields DEF QInv, TypeOK
<1>3. RunInv'
  BY <1>1, DiscardTornFields DEF QInv, RunInv
<1>4. HeldInv'
  <2>1. ASSUME NEW x \in Owned', rows'[x].status = "IN_PROGRESS"
        PROVE  run'.step = "down" /\ rows'[x].raw = "none"
    <3>1. x \in Row /\ x \in Owned /\ rows[x].status = "IN_PROGRESS"
      BY <2>1, TornRow, DiscardTornFields DEF Owned, Present, SameRow, Identity
    <3>2. run.step = "down" /\ rows[x].raw = "none"
      BY <1>1, <3>1 DEF QInv, HeldInv, Holding
    <3> QED BY <3>1, <3>2, TornRow, DiscardTornFields
  <2> QED BY <1>1, <2>1, DiscardTornFields DEF HeldInv, Holding
<1>5. RowInv'
  <2> SUFFICES ASSUME NEW x \in Present' PROVE RowOK(x)'
    BY DEF RowInv
  <2>1. x \in Row /\ x \in Present /\ RowOK(x)
    BY TornRow DEF Present, QInv, RowInv
  <2>2. /\ SameRow(x) /\ rows'[x].status = rows[x].status
        /\ rows'[x].executed = rows[x].executed
        /\ rows[x].raw = "none" => rows'[x] = rows[x]
    BY <2>1, TornRow
  <2>3. \A k : Attempted(k)' <=> Attempted(k)
    BY DiscardTornFields DEF Attempted, Working, Collector
  <2> QED BY <2>1, <2>2, <2>3, DiscardTornFields DEF RowOK, SameRow, Identity
<1> QED BY <1>2, <1>3, <1>4, <1>5 DEF QInv

-----------------------------------------------------------------------------
(* The invariant holds, and with it what it says at once.                  *)

LEMMA InitInv == Init => QInv
<1> SUFFICES ASSUME Init PROVE QInv
  OBVIOUS
<1>1. TypeOK
  BY InitType
<1>2. /\ run.iter = Null /\ run.step = "closed" /\ run.ran = {}
      /\ run.due = {} /\ run.todo = {}
  BY DEF Init, Fresh
<1>3. \A r \in Row : rows[r] = NoRow
  BY DEF Init
<1>4. Present = {}
  BY <1>3 DEF Present, NoRow
<1> QED BY <1>1, <1>2, <1>3, <1>4 DEF QInv, RunInv, HeldInv, RowInv, Holding, Owned

LEMMA NextInv == QInv /\ [Next]_vars => QInv'
<1> SUFFICES ASSUME QInv, [Next]_vars PROVE QInv'
  OBVIOUS
<1>1. CASE UNCHANGED vars
  BY <1>1 DEF vars, QInv, TypeOK, RunInv, HeldInv, RowInv, RowOK, Attempted, Present, Owned,
              PassKeys
<1>2. CASE Next
  BY <1>2, NewIterationInv, BeginStageInv, AdoptInv, ProposeInv, EndProposalsInv, ClaimInv,
     ResultInv, VendorInv, EndPassInv, CancelInv, CrashInv, ReconcileInv, ResumeInv,
     AbandonInv, DiscardInv, DiscardTornInv, TickInv DEF Next
<1> QED BY <1>1, <1>2

THEOREM QInvHolds == Spec => []QInv
<1>1. Init => QInv
  BY InitInv
<1>2. QInv /\ [Next]_vars => QInv'
  BY NextInv
<1> QED BY <1>1, <1>2, PTL DEF Spec

\* The queue, the session's latest iteration and its money always have the
\* shape the schema and the records give them, and no id is given out twice.
THEOREM TypeCorrect == Spec => []TypeOK
<1>1. QInv => TypeOK
  BY DEF QInv
<1> QED BY <1>1, QInvHolds, PTL

\* A query about to be sent has no stored payload, whatever crashed, was
\* settled, resumed, discarded or proposed again before.
THEOREM NeverRebought == Spec => []BankedNotRebought
<1>1. QInv => BankedNotRebought
  BY DEF QInv, HeldInv, BankedNotRebought
<1> QED BY <1>1, QInvHolds, PTL

-----------------------------------------------------------------------------
(* What one step can do to the iteration and to a row.                     *)

LEMMA RunKept ==
  ASSUME QInv, Next, ~NewIteration
  PROVE  /\ run'.iter = run.iter /\ (run.torn => run'.torn)
         /\ clock'.now \in {clock.now, clock.now + 1}
         /\ clock'.now = clock.now \/ UNCHANGED rows
<1>1. run \in RunRow /\ run.torn \in BOOLEAN
  BY DEF QInv, TypeOK, RunRow
<1>2. CASE BeginStage
  <2>1. PICK s, step, due, todo : Begin(s, step, due, todo)
    BY <1>2 DEF BeginStage
  <2>2. run'.iter = run.iter /\ run'.torn = run.torn
    BY <1>1, <2>1 DEF Begin, RunRow
  <2> QED BY <1>2, <2>2 DEF BeginStage
<1>3. CASE Adopt
  <2>1. PICK r : \/ run' = [run EXCEPT !.due = @ \ {r}, !.added = TRUE]
                 \/ run' = [Close("failed") EXCEPT !.ran = Ended.ran]
    BY <1>3 DEF Adopt
  <2>2. run'.iter = run.iter /\ run'.torn = run.torn
    BY <1>1, <2>1, ClosedFields, ZenonT(30) DEF RunRow
  <2> QED BY <1>3, <2>2 DEF Adopt
<1>4. CASE Propose
  <2>1. PICK p, a : run' = [run EXCEPT !.todo = @ \ {p}, !.added = a]
    BY <1>4, Zenon DEF Propose
  <2>2. run'.iter = run.iter /\ run'.torn = run.torn
    BY <1>1, <2>1 DEF RunRow
  <2> QED BY <1>4, <2>2 DEF Propose
<1>5. CASE EndProposals
  <2>1. run'.iter = run.iter /\ run'.torn = run.torn
    <3>1. CASE run' = Ended
      BY <1>1, <3>1, EndedFields
    <3>2. CASE \E how \in {"full", "failed", "cut"} :
                 run' = [Close(how) EXCEPT !.ran = Ended.ran]
      <4>1. PICK how \in {"full", "failed", "cut"} :
              run' = [Close(how) EXCEPT !.ran = Ended.ran]
        BY <3>2
      <4>2. PICK c : c = run'
        OBVIOUS
      <4>3. c.iter = run.iter /\ c.torn = run.torn
        BY <1>1, <4>1, <4>2, ClosedFields, Zenon
      <4> QED BY <4>2, <4>3
    <3>3. CASE run' = [run EXCEPT !.step = "draining", !.pass = 2]
      BY <1>1, <3>3 DEF RunRow
    <3>4. CASE run' = [run EXCEPT !.pass = 2, !.todo = CarriedForward]
      BY <1>1, <3>4 DEF RunRow
    <3> QED BY <1>5, <3>1, <3>2, <3>3, <3>4, EndProposalsRun, Zenon
  <2> QED BY <1>5, <2>1 DEF EndProposals
<1>6. CASE EndPass
  <2>1. run'.iter = run.iter /\ run'.torn = run.torn
    BY <1>1, <1>6, EndPassRun, EndedFields
  <2> QED BY <1>6, <2>1 DEF EndPass
<1>7. CASE Claim \/ Call \/ StoreRaw \/ WriteSignals
  <2>1. \E st, r : run' = [run EXCEPT !.step = st, !.row = r]
                   \/ run' = [run EXCEPT !.step = st]
    BY <1>7 DEF Claim, Call, StoreRaw, WriteSignals
  <2> QED BY <1>1, <1>7, <2>1 DEF RunRow, Claim, Call, StoreRaw, WriteSignals
<1>8. CASE RefuseBudget \/ CompleteQuery \/ FailQuery \/ SkipQuery
  <2>1. \E st, ex : EndQuery(st, ex)
    BY <1>8 DEF RefuseBudget, CompleteQuery, FailQuery, SkipQuery
  <2> QED BY <1>1, <2>1 DEF EndQuery, RunRow
<1>9. CASE Cancel
  BY <1>1, <1>9, ClosedFields DEF Cancel
<1>10. CASE Crash
  <2>1. \E ran : run' = [run EXCEPT !.step = "dead", !.todo = {}, !.due = {},
                                    !.row = Null, !.ran = ran]
    BY <1>10 DEF Crash
  <2> QED BY <1>1, <1>10, <2>1 DEF RunRow, Crash, QInv, TypeOK
<1>11. CASE Reconcile
  BY <1>11, ReconcileFields
<1>12. CASE Resume
  BY <1>12, ResumeFields
<1>13. CASE Abandon
  BY <1>1, <1>13, ClosedFields DEF Abandon
<1>14. CASE Discard
  BY <1>14, DiscardFields, RewoundFields
<1>15. CASE DiscardTorn
  BY <1>15, DiscardTornFields
<1>16. CASE Tick
  BY <1>16 DEF Tick, QInv, TypeOK
<1> QED BY <1>2, <1>3, <1>4, <1>5, <1>6, <1>7, <1>8, <1>9, <1>10, <1>11, <1>12, <1>13,
           <1>14, <1>15, <1>16 DEF Next

\* What a step may do to a row: each disjunct is one of the ways, in the order
\* of a query's life.
Proposed(x) ==
  /\ x \notin Present /\ run'.iter = run.iter /\ run.step = "proposing"
  /\ run'.step = "proposing" /\ clock'.now = clock.now
  /\ \A y \in Row : y # x => Untouched(y)
  /\ \E p \in run.todo : p \in Proposal /\ Admitted(p) /\ rows'[x] = NewRow(p)
TakenOver(x) ==
  /\ x \in Present /\ x \in run.due /\ rows[x].iter = Null /\ ~Duplicate(rows[x].key)
  /\ \A y \in Row : y # x => Untouched(y)
  /\ run'.iter = run.iter /\ rows'[x].iter = run.iter /\ rows'[x].key = rows[x].key
  /\ rows'[x].by = rows[x].by /\ rows'[x].origin = rows[x].origin
  /\ rows'[x].status = rows[x].status /\ rows'[x].raw = rows[x].raw
  /\ rows'[x].executed = rows[x].executed /\ rows'[x].billed = rows[x].billed
\* At the collector, or at the vendor.
Worked(x) ==
  /\ x \in Owned /\ Identity(x) /\ run'.iter = run.iter /\ clock'.now = clock.now
  /\ \/ /\ rows[x].status = "PENDING" /\ rows'[x].status = "IN_PROGRESS"
        /\ rows'[x].executed = rows[x].executed
     \/ /\ rows[x].status = "IN_PROGRESS" /\ rows'[x].status = "IN_PROGRESS"
        /\ rows'[x].executed = rows[x].executed
     \/ /\ rows[x].status = "IN_PROGRESS" /\ rows'[x].raw = rows[x].raw
        /\ rows'[x].status \notin {"absent", "PENDING", "IN_PROGRESS"}
        /\ rows'[x].executed \in {Never, clock.now}
        /\ rows'[x].status = "COMPLETE" => rows[x].raw # "none"
\* Settled, returned, given up or reset.
Repaired(x) ==
  /\ x \in Owned /\ Identity(x) /\ run'.iter = run.iter /\ clock'.now = clock.now
  /\ rows'[x].status # "absent"
  /\ rows'[x].executed \in {rows[x].executed, Never, clock.now}
  /\ rows'[x].status = "COMPLETE" => \/ rows'[x].raw # "none" \/ run'.torn
Removed(x) ==
  /\ x \in Present /\ rows[x].by = run.iter /\ run'.iter = run.iter /\ rows'[x] = NoRow
\* Back to where it waited for its iteration.
GivenBack(x) ==
  /\ x \in Owned /\ rows[x].origin \in FollowOns /\ rows'[x].iter = Null
  /\ run'.iter = run.iter /\ rows'[x].key = rows[x].key /\ rows'[x].by = rows[x].by
  /\ rows'[x].origin = rows[x].origin /\ rows'[x].status = "PENDING"

LEMMA AbandonedRow ==
  ASSUME QInv, Abandon, NEW x \in Row
  PROVE  /\ SameRow(x) /\ rows'[x].raw = rows[x].raw
         /\ rows'[x].executed = rows[x].executed
         /\ \/ rows'[x] = rows[x]
            \/ x \in Owned /\ rows'[x].status = "INTERRUPTED"
<1>1. rows[x] \in QueryRow
  BY DEF QInv, TypeOK
<1>2. \/ rows'[x] = rows[x]
      \/ x \in Owned /\ rows'[x] = [rows[x] EXCEPT !.status = "INTERRUPTED"]
  BY Zenon DEF Abandon
<1>3. \A st \in {"INTERRUPTED"} :
        LET q == [rows[x] EXCEPT !.status = st]
        IN /\ q.status = st /\ q.key = rows[x].key /\ q.iter = rows[x].iter
           /\ q.by = rows[x].by /\ q.origin = rows[x].origin /\ q.prio = rows[x].prio
           /\ q.raw = rows[x].raw /\ q.executed = rows[x].executed
           /\ q.billed = rows[x].billed
  BY <1>1 DEF QueryRow
<1>4. CASE rows'[x] = rows[x]
  BY <1>4 DEF SameRow, Identity
<1>5. CASE x \in Owned /\ rows'[x] = [rows[x] EXCEPT !.status = "INTERRUPTED"]
  BY <1>3, <1>5 DEF SameRow, Identity
<1> QED BY <1>2, <1>4, <1>5

LEMMA EndedRow ==
  ASSUME QInv, run.step \in Holding, clock.now \in 0..Never, Never \in 0..Never,
         NEW st \in {"COMPLETE", "FAILED", "SKIPPED_BUDGET", "SKIPPED_NO_MAPPING"},
         NEW ex \in {Never, clock.now}, EndQuery(st, ex)
  PROVE  /\ OnlyRow(run.row) /\ Identity(run.row) /\ rows'[run.row].status = st
         /\ rows'[run.row].raw = rows[run.row].raw /\ rows'[run.row].executed = ex
         /\ rows'[run.row].billed = rows[run.row].billed
<1>1. PICK r \in Row : r = run.row
  BY HeldRow
<1>2. rows' = [rows EXCEPT ![r] = [@ EXCEPT !.status = st, !.executed = ex]]
  BY <1>1 DEF EndQuery
<1>3. TypeOK /\ st \in Statuses
  BY DEF QInv, Statuses
<1>4. PICK e \in 0..Never : e = ex
  OBVIOUS
<1>5. rows' = [rows EXCEPT ![r] = [@ EXCEPT !.status = st, !.executed = e]]
  BY <1>2, <1>4
<1>6. /\ OnlyRow(r) /\ Identity(r) /\ rows'[r].status = st
      /\ rows'[r].raw = rows[r].raw /\ rows'[r].executed = e
      /\ rows'[r].billed = rows[r].billed
  BY <1>3, <1>5, SetEnd, ZenonT(60)
<1> QED BY <1>1, <1>4, <1>6

LEMMA RowStep ==
  ASSUME QInv, [Next]_vars, NEW x \in Row
  PROVE  \/ Untouched(x) \/ Proposed(x) \/ TakenOver(x) \/ Worked(x)
         \/ Repaired(x) \/ Removed(x) \/ GivenBack(x)
<1> USE DEF Untouched
<1>0. TypeOK /\ rows \in [Row -> QueryRow] /\ rows[x] \in QueryRow
  BY DEF QInv, TypeOK
<1>1. CASE UNCHANGED rows
  BY <1>1
<1>2. CASE NewIteration \/ BeginStage \/ EndProposals \/ EndPass \/ Cancel \/ Crash \/ Tick
  BY <1>2 DEF NewIteration, BeginStage, EndProposals, EndPass, Cancel, Crash, Tick
<1>3. CASE Adopt
  <2>1. PICK r \in run.due :
          \/ /\ rows' = [rows EXCEPT ![r].iter = run.iter] /\ ~Duplicate(rows[r].key)
             /\ run'.iter = run.iter
          \/ UNCHANGED rows
    BY <1>3, AdoptFields
  <2>2. r \in Present /\ r \in Row /\ rows[r].iter = Null /\ rows[r] \in QueryRow
        /\ run.iter \in IterationId \cup {Null}
    BY DEF QInv, RunInv, TypeOK, Present, RunRow
  <2>3. CASE rows' = [rows EXCEPT ![r].iter = run.iter] /\ x = r /\ ~UNCHANGED rows
    <3>1. rows'[r] = [rows[r] EXCEPT !.iter = run.iter] /\ OnlyRow(r)
      BY <1>0, <2>2, <2>3, SetIter
    <3>2. /\ rows'[r].iter = run.iter /\ rows'[r].key = rows[r].key
          /\ rows'[r].by = rows[r].by /\ rows'[r].origin = rows[r].origin
          /\ rows'[r].status = rows[r].status /\ rows'[r].raw = rows[r].raw
          /\ rows'[r].executed = rows[r].executed /\ rows'[r].billed = rows[r].billed
      BY <2>2, <3>1 DEF QueryRow
    <3> QED BY <2>1, <2>2, <2>3, <3>1, <3>2 DEF TakenOver, OnlyRow
  <2> QED BY <1>0, <2>1, <2>3
<1>4. CASE Propose
  <2>1. PICK p \in run.todo :
          /\ IF Admitted(p) THEN rows' = [rows EXCEPT ![last + 1] = NewRow(p)]
                            ELSE UNCHANGED rows
          /\ p \in Proposal /\ run'.iter = run.iter /\ run'.step = "proposing"
    BY <1>4, ProposeFields
  <2>2. /\ run.step = "proposing" /\ last + 1 \in Row /\ clock' = clock
        /\ last + 1 \notin Present
    BY <1>0, <1>4, ProposeFields DEF TypeOK, Present, NoRow
  <2>3. CASE x = last + 1 /\ Admitted(p)
    BY <1>0, <2>1, <2>2, <2>3 DEF Proposed
  <2> QED BY <1>0, <2>1, <2>2, <2>3
<1>5. CASE Claim
  <2>1. PICK r \in Claimable : rows' = [rows EXCEPT ![r].status = "IN_PROGRESS"]
    BY <1>5 DEF Claim
  <2>2. r \in Owned /\ r \in Row /\ rows[r].status = "PENDING"
    BY DEF Claimable, Owned, Present
  <2>3. /\ OnlyRow(r) /\ Identity(r) /\ rows'[r].status = "IN_PROGRESS"
        /\ rows'[r].executed = rows[r].executed
    BY <1>0, <2>1, <2>2, SetStatus DEF Statuses
  <2>4. run'.iter = run.iter /\ clock' = clock
    BY <1>0, <1>5 DEF Claim, TypeOK, RunRow
  <2> QED BY <2>2, <2>3, <2>4 DEF OnlyRow, Worked
<1>6. CASE Call \/ StoreRaw \/ WriteSignals
  <2>1. run.step \in Holding
    BY <1>6 DEF Call, StoreRaw, WriteSignals, Holding
  <2>2. run.row \in Row /\ run.row \in Owned /\ rows[run.row].status = "IN_PROGRESS"
    BY <2>1, HeldRow
  <2>3. /\ OnlyRow(run.row) /\ Identity(run.row)
        /\ rows'[run.row].status = rows[run.row].status
        /\ rows'[run.row].executed = rows[run.row].executed
    BY <1>0, <1>6, <2>2, SetBilled, SetRaw DEF Call, StoreRaw, WriteSignals
  <2>4. run'.iter = run.iter /\ clock' = clock
    BY <1>0, <1>6 DEF Call, StoreRaw, WriteSignals, TypeOK, RunRow
  <2> QED BY <2>2, <2>3, <2>4 DEF OnlyRow, Worked
<1>7. CASE RefuseBudget \/ CompleteQuery \/ FailQuery \/ SkipQuery
  <2>1. run.step \in Holding
    BY <1>7 DEF RefuseBudget, CompleteQuery, FailQuery, SkipQuery, Holding
  <2>2. /\ run.row \in Row /\ run.row \in Owned /\ rows[run.row].status = "IN_PROGRESS"
        /\ rows[run.row].executed = Never
    BY <2>1, HeldRow
  <2>3. clock.now \in 0..Never /\ Never \in 0..Never
    BY <1>0, NeverType DEF TypeOK
  <2>4. SkippedAt \in {Never, clock.now}
    BY <2>2 DEF SkippedAt
  <2>5. PICK st \in {"COMPLETE", "FAILED", "SKIPPED_BUDGET", "SKIPPED_NO_MAPPING"},
             ex \in {Never, clock.now} :
          EndQuery(st, ex) /\ (st = "COMPLETE" => run.step \in {"stored", "derived"})
    BY <1>7, <2>4 DEF RefuseBudget, CompleteQuery, FailQuery, SkipQuery
  <2>6. rows' = [rows EXCEPT ![run.row] = [@ EXCEPT !.status = st, !.executed = ex]]
    BY <2>5 DEF EndQuery
  <2>7. /\ OnlyRow(run.row) /\ Identity(run.row) /\ rows'[run.row].status = st
        /\ rows'[run.row].raw = rows[run.row].raw /\ rows'[run.row].executed = ex
    BY <2>1, <2>3, <2>5, EndedRow
  <2>8. st = "COMPLETE" => rows[run.row].raw # "none"
    BY <2>5 DEF QInv, HeldInv
  <2>9. run'.iter = run.iter /\ clock' = clock
    BY <2>5, <1>0 DEF EndQuery, TypeOK, RunRow
  <2> QED BY <2>2, <2>7, <2>8, <2>9 DEF OnlyRow, Worked
<1>8. CASE Reconcile
  BY <1>8, SettledRow, ReconcileFields DEF Repaired, Banked, InProgress, SameRow
<1>9. CASE Resume
  <2>1. /\ \A y \in Row \ InProgress : rows'[y] = rows[y]
        /\ \A y \in InProgress :
             /\ SameRow(y) /\ rows'[y].executed = rows[y].executed
             /\ rows'[y].status = "PENDING"
    <3>1. /\ InProgress \in SUBSET Owned /\ "PENDING" \in Statuses
          /\ rows' = [r \in Row |-> IF r \in InProgress
                                     THEN [rows[r] EXCEPT !.status = "PENDING"]
                                     ELSE rows[r]]
      BY <1>9, InProgressRows DEF Resume, Statuses
    <3>2. InProgress \in SUBSET Row
      BY InProgressRows
    <3> HIDE DEF InProgress
    <3> QED BY <3>1, <3>2, Restated
  <2> QED BY <1>9, <2>1, InProgressRows, ResumeFields DEF Repaired, SameRow
<1>10. CASE Abandon
  <2>1. run'.iter = run.iter /\ clock' = clock
    BY <1>0, <1>10, ClosedFields DEF Abandon, TypeOK
  <2> QED BY <1>10, <2>1, AbandonedRow DEF Repaired, SameRow
<1>11. CASE Discard
  <2>1. run'.iter = run.iter /\ clock'.now = clock.now
    BY <1>11, DiscardFields, RewoundFields
  <2>2. \A y \in WrittenBy(LastRan) : y \in Present /\ rows[y].by = run.iter
    BY DEF WrittenBy, WrittenLater, FollowOnsInQueue, Owned
  <2>3. CASE x \in Again /\ x \notin WrittenBy(LastRan)
    <3>1. SameRow(x) /\ rows'[x].status = "PENDING" /\ rows'[x].executed = Never
      BY <1>11, <2>3, DiscardedRow
    <3> QED BY <1>11, <2>1, <2>3, <3>1, DiscardFields DEF Repaired, SameRow
  <2>4. CASE LastRan = SEEDING /\ x \in Adopted /\ x \notin WrittenBy(LastRan) /\ x \notin Again
    BY <1>11, <2>1, <2>4, DiscardedRow DEF GivenBack, Adopted
  <2> QED BY <1>11, <2>1, <2>2, <2>3, <2>4, DiscardedRow DEF Removed
<1>12. CASE DiscardTorn
  <2>1. CASE x \notin Owned
    BY <1>12, <2>1, TornRow
  <2>2. CASE x \in Owned
    BY <1>12, <2>2, TornRow, DiscardTornFields DEF Repaired, SameRow, Owned, Present
  <2> QED BY <2>1, <2>2
<1> QED BY <1>1, <1>2, <1>3, <1>4, <1>5, <1>6, <1>7, <1>8, <1>9, <1>10, <1>11, <1>12
        DEF Next, vars

-----------------------------------------------------------------------------
(* Money, coverage and what waits for later.                               *)

LEMMA BudgetStep == QInv /\ WithinBudget /\ [Next]_vars => WithinBudget'
<1> SUFFICES ASSUME QInv, WithinBudget, [Next]_vars PROVE WithinBudget'
  OBVIOUS
<1>1. /\ money \in [used : Nat, spent : Nat, plan : Nat]
      /\ Monthly \in Nat /\ MaxCost \in Nat
  BY BudgetAssumption, BoundsAssumption DEF QInv, TypeOK
<1>2. CASE UNCHANGED money
  BY <1>2 DEF WithinBudget
<1>3. CASE NewIteration
  BY <1>1, <1>3 DEF NewIteration, WithinBudget
<1>4. CASE Call
  <2>1. /\ money.used + 1 <= Monthly /\ money.spent + 1 <= money.plan
    BY <1>4 DEF Call, StillAffordable, CanAfford
  <2>2. PICK cost \in 1..MaxCost :
          money' = [money EXCEPT !.used = @ + cost, !.spent = @ + cost]
    BY <1>4 DEF Call
  <2>3. /\ money'.used = money.used + cost /\ money'.spent = money.spent + cost
        /\ money'.plan = money.plan
    BY <1>1, <2>2
  <2> QED BY <1>1, <2>1, <2>3 DEF WithinBudget
<1>5. NewIteration \/ Call \/ UNCHANGED money
  BY DEF Next, vars, BeginStage, Adopt, Propose, EndProposals, Claim, RefuseBudget,
         StoreRaw, WriteSignals, CompleteQuery, FailQuery, SkipQuery, EndQuery, EndPass,
         Cancel, Crash, Reconcile, Resume, Abandon, Discard, DiscardTorn, Tick
<1> QED BY <1>2, <1>3, <1>4, <1>5

\* No iteration spends its plan, and no month its limit, beyond the cost of
\* the query that was affordable when it was sent, however the iterations
\* were interrupted, resumed or discarded.
THEOREM BudgetKept == Spec => []WithinBudget
<1>1. Init => WithinBudget
  BY DEF Init, WithinBudget
<1>2. QInv /\ WithinBudget /\ [Next]_vars => WithinBudget'
  BY BudgetStep
<1> QED BY <1>1, <1>2, QInvHolds, PTL DEF Spec

LEMMA CoverageStep == QInv /\ HonestCoverage /\ [Next]_vars => HonestCoverage'
<1> SUFFICES ASSUME QInv, HonestCoverage, [Next]_vars, NEW x \in Present',
                    rows'[x].status = "COMPLETE"
             PROVE  rows'[x].raw # "none" \/ run'.torn
  BY DEF HonestCoverage
<1>1. x \in Row
  BY DEF Present
<1>2. run.torn => run'.torn
  <2>1. CASE NewIteration
    <3>1. Fresh(run.iter + 1) \in RunRow
      BY <2>1, FreshType, BoundsAssumption
         DEF NewIteration, QInv, TypeOK, RunRow, IterationId, Null
    <3>2. run' = [Fresh(run.iter + 1) EXCEPT !.torn = run.torn]
      BY <2>1 DEF NewIteration
    <3>3. \A c \in BOOLEAN : [Fresh(run.iter + 1) EXCEPT !.torn = c].torn = c
      BY <3>1 DEF RunRow
    <3>4. run.torn \in BOOLEAN
      BY DEF QInv, TypeOK, RunRow
    <3> QED BY <3>2, <3>3, <3>4, Zenon
  <2>2. CASE Next /\ ~NewIteration
    BY <2>2, RunKept
  <2> QED BY <2>1, <2>2 DEF vars
<1>3. CASE Untouched(x)
  BY <1>1, <1>2, <1>3 DEF HonestCoverage, Untouched, Present
<1>4. CASE Proposed(x)
  BY <1>4, NewRowFields DEF Proposed, QInv, RunInv
<1>5. CASE TakenOver(x)
  BY <1>2, <1>5 DEF TakenOver, HonestCoverage
<1>6. CASE Worked(x) \/ Repaired(x) \/ GivenBack(x)
  BY <1>6 DEF Worked, Repaired, GivenBack
<1>7. CASE Removed(x)
  BY <1>7 DEF Removed, NoRow
<1> QED BY <1>1, <1>3, <1>4, <1>5, <1>6, <1>7, RowStep

\* A query shown COMPLETE has its payload stored, or a discard was torn: no
\* crash, settlement, resumption or discard leaves coverage that is not there.
THEOREM CoverageHonest == Spec => []HonestCoverage
<1>1. Init => HonestCoverage
  BY DEF Init, HonestCoverage, Present, NoRow
<1>2. QInv /\ HonestCoverage /\ [Next]_vars => HonestCoverage'
  BY CoverageStep
<1> QED BY <1>1, <1>2, QInvHolds, PTL DEF Spec

\* Whatever is adopted, discarded and seeded again, no row that another
\* iteration wrote is ever deleted.
THEOREM FollowOnsSafe == Spec => FollowOnsKept
<1>1. ASSUME QInv, [Next]_vars, NEW r \in Present, rows[r].by # run.iter
      PROVE  rows'[r].key = rows[r].key
  BY <1>1, RowStep DEF Untouched, Proposed, TakenOver, Worked, Repaired, Removed, GivenBack,
                       Identity, Present
<1>2. QInv /\ [Next]_vars =>
        [\A r \in Present : rows[r].by # run.iter => rows'[r].key = rows[r].key]_vars
  BY <1>1
<1> QED BY <1>2, QInvHolds, PTL DEF Spec, FollowOnsKept

-----------------------------------------------------------------------------
(* A query is bought once.                                                 *)

\* The rows of the iteration are the rows it had.
OwnedKept == \A x \in Owned' : x \in Owned /\ rows'[x].key = rows[x].key

LEMMA UniqueStep == QInv /\ UniqueInv /\ [Next]_vars => UniqueInv'
<1> SUFFICES ASSUME QInv, UniqueInv, [Next]_vars,
                    NEW r \in Owned', NEW s \in Owned',
                    rows'[r].key = rows'[s].key, Recurs(rows'[r].key)
             PROVE  r = s
  BY DEF UniqueInv, Recurs
<1>1. r \in Row /\ s \in Row
  BY DEF Owned, Present
<1>2. CASE NewIteration
  <2>1. \A x \in Present : rows[x].iter # run'.iter
    BY <1>2, BoundsAssumption DEF NewIteration, Fresh, QInv, TypeOK, RunRow, QueryRow, RowInv,
                                  RowOK, Present, IterationId, Null
  <2>2. UNCHANGED rows
    BY <1>2 DEF NewIteration
  <2> QED BY <2>1, <2>2 DEF Owned, Present
<1>3. CASE ~NewIteration
  <2>0. run'.iter = run.iter
    <3>1. CASE Next
      BY <1>3, <3>1, RunKept
    <3> QED BY <3>1 DEF vars
  <2>1. ASSUME NEW x \in Owned', ~Proposed(x), ~TakenOver(x)
        PROVE  x \in Owned /\ rows'[x].key = rows[x].key
    <3>1. x \in Row
      BY DEF Owned, Present
    <3>2. run.iter # Null \/ Owned' = {}
      <4>1. CASE run.iter = Null
        <5>1. \A y \in Row : y \notin Present
          <6>1. \A y \in Row : rows[y] = NoRow
            BY <4>1 DEF QInv, RunInv
          <6> QED BY <6>1 DEF Present, NoRow
        <5>2. \A y \in Row : y \in Present' => Proposed(y)
          BY <5>1, RowStep DEF Untouched, TakenOver, Worked, Repaired, Removed, GivenBack,
                               Present, Owned
        <5>3. run.step = "closed"
          BY <4>1 DEF QInv, RunInv
        <5> QED BY <5>2, <5>3 DEF Proposed, Owned, Present
      <4> QED BY <4>1
    <3> QED BY <2>0, <2>1, <3>1, <3>2, RowStep
            DEF Untouched, Worked, Repaired, Removed, GivenBack, Identity, NoRow, Owned, Present
  <2>2. CASE ~Proposed(r) /\ ~TakenOver(r) /\ ~Proposed(s) /\ ~TakenOver(s)
    BY <2>1, <2>2 DEF UniqueInv
  <2>3. ASSUME NEW x \in Owned', NEW y \in Owned', x # y, Proposed(x) \/ TakenOver(x),
               Recurs(rows'[x].key)
        PROVE  rows'[x].key # rows'[y].key
    <3>1. x \in Row /\ y \in Row /\ Untouched(y) /\ y \in Owned
      BY <2>0, <2>3 DEF Owned, Present, Proposed, TakenOver, Untouched
    <3>2. CASE TakenOver(x)
      BY <2>3, <3>1, <3>2 DEF TakenOver, Duplicate, Untouched
    <3>3. CASE Proposed(x)
      <4>1. PICK p \in Proposal : Admitted(p) /\ rows'[x] = NewRow(p)
        BY <3>3 DEF Proposed
      <4>2. run.iter # Null
        BY <3>3 DEF Proposed, QInv, RunInv
      <4>3. rows'[x].key = p.key /\ rows'[x].iter = IF p.origin \in FollowOns THEN Null ELSE run.iter
        BY <4>1, <4>2, NewRowFields DEF QInv
      <4>4. rows'[x].iter = run.iter
        BY <2>0 DEF Owned
      <4>5. p.origin \notin FollowOns
        BY <4>2, <4>3, <4>4
      <4> QED BY <2>3, <3>1, <4>1, <4>3, <4>5 DEF Admitted, Duplicate, Untouched
    <3> QED BY <2>3, <3>2, <3>3
  <2> QED BY <2>2, <2>3
<1> QED BY <1>2, <1>3

\* The record of stages grows but for a new iteration and a discard, and only
\* the collector claims.
LEMMA Progress ==
  ASSUME QInv, Next, ~NewIteration, ~Discard
  PROVE  /\ run.ran \subseteq run'.ran
         /\ run.step \in Working => \/ run'.step \in Working /\ run'.stage = run.stage
                                    \/ run.stage \in run'.ran
         /\ run'.step = "claimed" => Claim
<1>1. run \in RunRow
  BY DEF QInv, TypeOK
<1>2. CASE BeginStage
  <2>1. PICK s, step, due, todo :
          Begin(s, step, due, todo) /\ step \in {"proposing", "draining"}
    BY <1>2 DEF BeginStage
  <2>2. run'.ran = run.ran /\ run'.step = step
    BY <1>1, <2>1 DEF Begin, RunRow
  <2> QED BY <1>2, <2>1, <2>2 DEF BeginStage, Working
<1>3. CASE Adopt
  <2>1. \/ run'.stage = run.stage /\ run'.step = "proposing" /\ run'.ran = run.ran
        \/ run' = [Close("failed") EXCEPT !.ran = Ended.ran]
    BY <1>3, AdoptFields
  <2> QED BY <1>1, <2>1, ClosedFields DEF Working
<1>4. CASE Propose
  BY <1>4, ProposeFields DEF Working
<1>5. CASE EndProposals
  <2>1. run.step = "proposing"
    BY <1>5 DEF EndProposals
  <2>2. \/ run' = Ended
        \/ \E how \in {"full", "failed"} : run' = [Close(how) EXCEPT !.ran = Ended.ran]
        \/ \E t \in {CarriedForward} : run' = [run EXCEPT !.pass = 2, !.todo = t]
        \/ run' = [run EXCEPT !.step = "draining", !.pass = 2]
    BY <1>5, EndProposalsRun
  <2>3. CASE \E t \in {CarriedForward} : run' = [run EXCEPT !.pass = 2, !.todo = t]
    BY <1>1, <2>1, <2>3 DEF RunRow, Working
  <2>4. CASE run' = [run EXCEPT !.step = "draining", !.pass = 2]
    BY <1>1, <2>1, <2>4 DEF RunRow, Working
  <2> QED BY <1>1, <2>2, <2>3, <2>4, ClosedFields, EndedFields
<1>6. CASE EndPass
  BY <1>1, <1>6, EndPassRun, EndedFields DEF Working
<1>7. CASE Claim
  BY <1>1, <1>7 DEF Claim, RunRow, Working
<1>8. CASE Call \/ StoreRaw \/ WriteSignals
  <2>1. PICK st \in {"called", "stored", "derived"} : run' = [run EXCEPT !.step = st]
    BY <1>8 DEF Call, StoreRaw, WriteSignals
  <2> QED BY <1>1, <2>1 DEF RunRow, Working
<1>9. CASE RefuseBudget \/ CompleteQuery \/ FailQuery \/ SkipQuery
  <2>1. run' = [run EXCEPT !.step = "draining", !.row = Null]
    BY <1>9 DEF RefuseBudget, CompleteQuery, FailQuery, SkipQuery, EndQuery
  <2> QED BY <1>1, <2>1 DEF RunRow, Working
<1>10. CASE Cancel
  <2>1. run' = Close("cut") /\ run.step \in {"ready", "ended"}
    BY <1>10 DEF Cancel
  <2> QED BY <1>1, <2>1, ClosedFields DEF Working
<1>11. CASE Crash
  BY <1>1, <1>11, CrashFields
<1>12. CASE Reconcile
  BY <1>12, ReconcileFields DEF Working
<1>13. CASE Resume
  BY <1>13, ResumeFields DEF Working
<1>14. CASE Abandon
  <2>1. run' = Close("cut") /\ run.step = "down"
    BY <1>14 DEF Abandon
  <2> QED BY <1>1, <2>1, ClosedFields DEF Working
<1>15. CASE DiscardTorn
  BY <1>15, DiscardTornFields DEF Discardable, Working
<1>16. CASE Tick
  BY <1>16 DEF Tick, Working
<1> QED BY <1>2, <1>3, <1>4, <1>5, <1>6, <1>7, <1>8, <1>9, <1>10, <1>11, <1>12, <1>13,
           <1>14, <1>15, <1>16 DEF Next

LEMMA AttemptedKept ==
  ASSUME QInv, Next, ~NewIteration, ~Discard, NEW k, Attempted(k)
  PROVE  Attempted(k)'
BY Progress DEF Attempted, Collector

\* A bill is never lost, and what was billed waits again only if handed back.
LEMMA BilledKept ==
  ASSUME QInv, Next, ~NewIteration, ~Resume, ~Discard,
         NEW r \in Owned, rows[r].billed, rows[r].status # "PENDING"
  PROVE  /\ r \in Owned' /\ rows'[r].key = rows[r].key /\ rows'[r].billed
         /\ rows'[r].status # "PENDING"
         /\ ~(run'.step = "claimed" /\ run'.row = r)
<1>0. /\ TypeOK /\ r \in Row /\ r \in Present /\ rows[r].status # "absent" /\ run \in RunRow
      /\ run'.iter = run.iter /\ rows[r].iter = run.iter /\ RowOK(r)
  BY RunKept DEF QInv, TypeOK, Owned, Present, RowInv
<1>1. SUFFICES /\ rows'[r].key = rows[r].key /\ rows'[r].iter = rows[r].iter
               /\ rows'[r].billed /\ rows'[r].status \notin {"PENDING", "absent"}
  <2>1. ASSUME Claim PROVE run'.row # r
    <3>1. PICK q \in Claimable : run' = [run EXCEPT !.step = "claimed", !.row = q]
      BY <2>1 DEF Claim
    <3> QED BY <1>0, <3>1 DEF Claimable, RunRow
  <2> QED BY <1>0, <1>1, <2>1, Progress DEF Owned, Present
<1>2. CASE UNCHANGED rows
  BY <1>0, <1>2
<1>3. CASE Adopt
  <2>1. PICK d \in run.due : rows' = [rows EXCEPT ![d].iter = run.iter] \/ UNCHANGED rows
    BY <1>3, AdoptFields
  <2>2. d \in Row /\ rows[d].iter = Null /\ run.iter \in IterationId \cup {Null} /\ run.iter # Null
    BY <1>0, <1>3 DEF QInv, RunInv, Present, RunRow, Adopt
  <2>3. d # r
    BY <1>0, <2>2
  <2>4. rows' = [rows EXCEPT ![d].iter = run.iter] => rows'[r] = rows[r]
    BY <1>0, <2>2, <2>3 DEF TypeOK
  <2> QED BY <1>0, <2>1, <2>4
<1>4. CASE Propose
  <2>1. last + 1 \in Row /\ (rows' = rows \/ \E q : rows' = [rows EXCEPT ![last + 1] = q])
    BY <1>4, ProposeFields
  <2>2. r # last + 1
    BY <1>0 DEF TypeOK, NoRow
  <2> QED BY <1>0, <2>1, <2>2 DEF TypeOK
<1>5. CASE Claim
  <2>1. PICK q \in Claimable : rows' = [rows EXCEPT ![q].status = "IN_PROGRESS"]
    BY <1>5 DEF Claim
  <2>2. q # r
    BY DEF Claimable
  <2> QED BY <1>0, <2>1, <2>2 DEF TypeOK
<1>6. CASE Call \/ StoreRaw \/ WriteSignals
  <2>1. run.step \in Holding
    BY <1>6 DEF Call, StoreRaw, WriteSignals, Holding
  <2>2. run.row \in Row
    BY <2>1, HeldRow
  <2>3. /\ OnlyRow(run.row) /\ Identity(run.row)
        /\ rows'[run.row].status = rows[run.row].status
        /\ rows[run.row].billed => rows'[run.row].billed
    BY <1>0, <1>6, <2>2, SetBilled, SetRaw DEF Call, StoreRaw, WriteSignals
  <2> QED BY <1>0, <2>3 DEF OnlyRow, Untouched, Identity
<1>7. CASE RefuseBudget \/ CompleteQuery \/ FailQuery \/ SkipQuery
  <2>1. run.step \in Holding
    BY <1>7 DEF RefuseBudget, CompleteQuery, FailQuery, SkipQuery, Holding
  <2>2. rows[run.row].executed = Never
    BY <2>1, HeldRow
  <2>3. clock.now \in 0..Never /\ Never \in 0..Never
    BY <1>0, NeverType DEF TypeOK
  <2>4. SkippedAt \in {Never, clock.now}
    BY <2>2 DEF SkippedAt
  <2>5. PICK st \in {"COMPLETE", "FAILED", "SKIPPED_BUDGET", "SKIPPED_NO_MAPPING"},
             ex \in {Never, clock.now} : EndQuery(st, ex)
    BY <1>7, <2>4 DEF RefuseBudget, CompleteQuery, FailQuery, SkipQuery
  <2>6. /\ OnlyRow(run.row) /\ Identity(run.row) /\ rows'[run.row].status = st
        /\ rows'[run.row].billed = rows[run.row].billed
    BY <2>1, <2>3, <2>5, EndedRow
  <2> QED BY <1>0, <2>6 DEF OnlyRow, Untouched, Identity
<1>8. CASE Reconcile
  BY <1>0, <1>8, SettledRow DEF SameRow, Identity
<1>9. CASE Abandon
  BY <1>0, <1>9, AbandonedRow DEF SameRow, Identity
<1>10. CASE DiscardTorn
  BY <1>0, <1>10, TornRow DEF SameRow, Identity
<1> QED BY <1>2, <1>3, <1>4, <1>5, <1>6, <1>7, <1>8, <1>9, <1>10
        DEF Next, BeginStage, EndProposals, EndPass, Cancel, Crash, Tick

LEMMA SpentKept ==
  ASSUME QInv, Next, ~NewIteration, ~Resume, ~Discard, NEW k, Spent(k)
  PROVE  Spent(k)'
<1>1. PICK r \in Owned : rows[r].key = k /\ rows[r].billed /\ rows[r].status # "PENDING"
  BY DEF Spent
<1> QED BY <1>1, BilledKept DEF Spent

\* The counts of one query.
Count(k) == \/ bought[k] <= returned[k]
            \/ bought[k] = 1 + returned[k] /\ Spent(k) /\ Attempted(k)

LEMMA BoughtStep == QInv /\ UniqueInv /\ BoughtInv /\ [Next]_vars => BoughtInv'
<1> SUFFICES ASSUME QInv, UniqueInv, BoughtInv, [Next]_vars, NEW k \in Key \ History
             PROVE  Count(k)'
  BY DEF BoughtInv, Count
<1>0. /\ Count(k) /\ k \in Key /\ bought \in [Key -> Nat] /\ returned \in [Key -> Nat]
      /\ bought[k] \in Nat /\ returned[k] \in Nat /\ run \in RunRow
  BY DEF BoughtInv, Count, QInv, TypeOK
<1>1. CASE UNCHANGED vars
  BY <1>0, <1>1 DEF vars, Count, Spent, Attempted, Owned, Present
<1>2. CASE NewIteration
  BY <1>0, <1>2 DEF NewIteration, Count
<1>3. CASE Call
  <2>1. /\ run.step = "claimed" /\ run.step \in Holding /\ UNCHANGED returned
        /\ bought' = [bought EXCEPT ![rows[run.row].key] = @ + 1]
        /\ rows' = [rows EXCEPT ![run.row].billed = TRUE]
    BY <1>3 DEF Call, Holding
  <2>2. run'.step = "called" /\ run'.row = run.row /\ run'.iter = run.iter
        /\ run'.stage = run.stage /\ run'.ran = run.ran
    BY <1>0, <1>3 DEF Call, RunRow
  <2>3. PICK r \in Row : r = run.row
    BY <2>1, HeldRow
  <2>4. /\ r \in Owned /\ r \in Present /\ rows[r].status = "IN_PROGRESS"
        /\ run.stage = Collector(rows[r].key)
    BY <2>1, <2>3, HeldRow
  <2>5. CASE rows[r].key = k
    <3>1. bought'[k] = bought[k] + 1
      BY <1>0, <2>1, <2>3, <2>5
    <3>2. ~Spent(k)
      BY <2>1, <2>3, <2>4, <2>5 DEF Spent, UniqueInv, Recurs
    <3>3. bought[k] <= returned[k]
      BY <1>0, <3>2 DEF Count
    <3>4. Spent(k)'
      <4>1. rows' = [rows EXCEPT ![r].billed = TRUE] /\ TypeOK
        BY <2>1, <2>3 DEF QInv
      <4>2. /\ Identity(r) /\ rows'[r].status = rows[r].status /\ rows'[r].billed
        BY <4>1, SetBilled
      <4>3. r \in Owned'
        BY <2>2, <2>4, <4>2 DEF Identity, Owned, Present
      <4> QED BY <2>2, <2>4, <2>5, <4>2, <4>3 DEF Identity, Spent
    <3>5. Attempted(k)'
      BY <2>2, <2>4, <2>5 DEF Attempted, Collector, Working
    <3> QED BY <1>0, <2>1, <3>1, <3>3, <3>4, <3>5 DEF Count
  <2>6. CASE rows[r].key # k
    <3>1. bought'[k] = bought[k]
      BY <1>0, <2>1, <2>3, <2>6
    <3>2. Next /\ ~NewIteration /\ ~Resume /\ ~Discard
      BY <1>3, <2>1 DEF Next, NewIteration, Resume, Discard, Discardable
    <3>3. (Spent(k) => Spent(k)') /\ (Attempted(k) => Attempted(k)')
      BY <3>2, SpentKept, AttemptedKept
    <3> QED BY <1>0, <2>1, <3>1, <3>3 DEF Count
  <2> QED BY <2>5, <2>6
<1>4. CASE Resume
  <2>1. /\ returned' = Returned(InProgress) /\ UNCHANGED bought /\ InProgress \in SUBSET Row
        /\ run.step = "down" /\ run'.step = "ready" /\ run'.iter = run.iter
        /\ run'.ran = run.ran
    BY <1>4, ResumeFields, InProgressRows DEF Resume
  <2>2. returned'[k] \in Nat /\ returned[k] <= returned'[k]
    BY <1>0, <2>1, ReturnedCount DEF QInv
  <2>3. CASE bought[k] <= returned[k]
    BY <1>0, <2>1, <2>2, <2>3 DEF Count
  <2>4. CASE bought[k] = 1 + returned[k] /\ Spent(k) /\ Attempted(k)
    <3>1. PICK r \in Owned : rows[r].key = k /\ rows[r].billed /\ rows[r].status # "PENDING"
      BY <2>4 DEF Spent
    <3>2. CASE r \in InProgress
      <4>1. returned[k] + 1 <= returned'[k]
        BY <1>0, <2>1, <3>1, <3>2, ReturnedCount DEF QInv
      <4> QED BY <1>0, <2>1, <2>2, <2>4, <4>1 DEF Count
    <3>3. CASE r \notin InProgress
      <4>1. rows'[r] = rows[r]
        BY <1>4, <3>3 DEF Resume, Owned, Present
      <4>2. Spent(k)'
        BY <2>1, <3>1, <4>1 DEF Spent, Owned, Present
      <4>3. Attempted(k)'
        BY <2>1, <2>4 DEF Attempted, Collector, Working
      <4> QED BY <1>0, <2>1, <2>2, <2>4, <4>2, <4>3 DEF Count
    <3> QED BY <3>2, <3>3
  <2> QED BY <1>0, <2>3, <2>4 DEF Count
<1>5. CASE Discard
  <2>1. /\ returned' = Returned(Again) /\ UNCHANGED bought /\ Again \in SUBSET Row
        /\ Discardable /\ run' = Rewound /\ ~Referenced(LastRan)
    BY <1>5, DiscardFields
  <2>2. returned'[k] \in Nat /\ returned[k] <= returned'[k]
    BY <1>0, <2>1, ReturnedCount DEF QInv
  <2>3. CASE bought[k] <= returned[k]
    BY <1>0, <2>1, <2>2, <2>3 DEF Count
  <2>4. CASE bought[k] = 1 + returned[k] /\ Spent(k) /\ Attempted(k)
    <3>1. PICK r \in Owned : rows[r].key = k /\ rows[r].billed /\ rows[r].status # "PENDING"
      BY <2>4 DEF Spent
    <3>2. CASE r \in Again
      <4>1. returned[k] + 1 <= returned'[k]
        BY <1>0, <2>1, <3>1, <3>2, ReturnedCount DEF QInv
      <4> QED BY <1>0, <2>1, <2>2, <2>4, <4>1 DEF Count
    <3>3. CASE r \notin Again
      <4>1. r \notin CollectedBy(LastRan)
        BY <3>1, <3>3 DEF Again
      <4>2. Collector(k) # LastRan
        BY <3>1, <4>1 DEF CollectedBy, Collector, COLLECTING_SOCIAL, COLLECTING_TIPPED
      <4>3. Attempted(k)'
        BY <2>1, <2>4, <4>2, RewoundFields DEF Attempted, Collector
      <4>4. r \notin WrittenBy(LastRan)
        BY <2>1, <3>1 DEF Referenced
      <4>5. LastRan # SEEDING
        BY <2>1, <2>4, SeedingAlone
      <4>6. r \in Row /\ rows'[r] = rows[r]
        BY <1>5, <3>3, <4>4, <4>5, DiscardedRow DEF Owned, Present
      <4>7. Spent(k)'
        BY <2>1, <3>1, <4>6, RewoundFields DEF Spent, Owned, Present
      <4> QED BY <1>0, <2>1, <2>2, <2>4, <4>3, <4>7 DEF Count
    <3> QED BY <3>2, <3>3
  <2> QED BY <1>0, <2>3, <2>4 DEF Count
<1>6. CASE Next /\ ~NewIteration /\ ~Call /\ ~Resume /\ ~Discard
  <2>1. UNCHANGED <<bought, returned>>
    BY <1>6 DEF Next, vars, BeginStage, Adopt, Propose, EndProposals, Claim, RefuseBudget,
         StoreRaw, WriteSignals, CompleteQuery, FailQuery, SkipQuery, EndQuery, EndPass,
         Cancel, Crash, Reconcile, Abandon, DiscardTorn, Tick
  <2>2. (Spent(k) => Spent(k)') /\ (Attempted(k) => Attempted(k)')
    BY <1>6, SpentKept, AttemptedKept
  <2> QED BY <1>0, <2>1, <2>2 DEF Count
<1> QED BY <1>1, <1>2, <1>3, <1>4, <1>5, <1>6

\* In one iteration a query that recurs reaches its vendor once, and again
\* only when it was handed back: never because a stage was proposed again,
\* resumed, settled or discarded around it.
THEOREM BoughtOnceOnly == Spec => []BoughtOnce
<1>1. Init => UniqueInv /\ BoughtInv
  <2>1. Init => Present = {}
    BY DEF Init, Present, NoRow
  <2>2. Init => \A k \in Key : bought[k] = 0 /\ returned[k] = 0
    BY DEF Init
  <2> QED BY <2>1, <2>2 DEF UniqueInv, BoughtInv, Owned
<1>2. QInv /\ (UniqueInv /\ BoughtInv) /\ [Next]_vars => (UniqueInv /\ BoughtInv)'
  BY UniqueStep, BoughtStep
<1>3. QInv /\ BoughtInv => BoughtOnce
  BY DEF QInv, TypeOK, BoughtInv, BoughtOnce
<1> QED BY <1>1, <1>2, <1>3, QInvHolds, PTL DEF Spec

-----------------------------------------------------------------------------
(* No query runs within the cooldown of an earlier iteration's.            *)

\* What the rules of the queue know of a row's age.
LEMMA RowTimes ==
  ASSUME QInv, NEW x \in Present
  PROVE  /\ x \in Row /\ rows[x] \in QueryRow /\ RowOK(x)
         /\ rows[x].iter \in Nat /\ run.iter \in Nat /\ rows[x].iter <= run.iter
         /\ rows[x].executed \in Nat /\ Never \in Nat
         /\ clock.now \in Nat /\ Cooldown \in Nat
BY BoundsAssumption, TimesAssumption
   DEF QInv, TypeOK, QueryRow, RunRow, RowInv, RowOK, Present, IterationId, Null, Never

\* Rows of earlier iterations are history.
LEMMA OldRow ==
  ASSUME QInv, Next, ~NewIteration, NEW x \in Present',
         rows'[x].iter # Null, rows'[x].iter < run.iter
  PROVE  x \in Present /\ rows'[x] = rows[x]
<1>0. x \in Row /\ rows[x].iter \in Nat /\ run.iter \in Nat
  BY BoundsAssumption DEF QInv, TypeOK, QueryRow, RunRow, Present, IterationId, Null
<1>1. CASE Proposed(x)
  <2>1. PICK p \in Proposal : rows'[x] = NewRow(p)
    BY <1>1 DEF Proposed
  <2>2. run.iter # Null
    BY <1>1 DEF Proposed, QInv, RunInv
  <2> QED BY <1>0, <2>1, <2>2, NewRowFields DEF QInv
<1>2. CASE TakenOver(x)
  BY <1>0, <1>2 DEF TakenOver
<1>3. CASE Worked(x) \/ Repaired(x)
  BY <1>0, <1>3 DEF Worked, Repaired, Identity, Owned
<1>4. CASE Removed(x)
  BY <1>4 DEF Removed, NoRow
<1>5. CASE GivenBack(x)
  BY <1>5 DEF GivenBack
<1> QED BY <1>0, <1>1, <1>2, <1>3, <1>4, <1>5, RowStep DEF Untouched, Present

LEMMA CooldownStep == QInv /\ CooldownInv /\ [Next]_vars => CooldownInv'
<1> SUFFICES ASSUME QInv, CooldownInv, [Next]_vars, NEW r \in Present', NEW s \in Present',
                    rows'[r].key = rows'[s].key, Recurs(rows'[s].key),
                    rows'[s].origin \in {"SEED", "TIP"},
                    rows'[r].iter # Null, rows'[r].iter < rows'[s].iter,
                    rows'[r].executed # Never
             PROVE  /\ rows'[s].iter = run'.iter =>
                         clock'.now - rows'[r].executed >= Cooldown
                    /\ rows'[s].executed # Never =>
                         rows'[s].executed - rows'[r].executed >= Cooldown
  BY DEF CooldownInv, Recurs
<1>0. r \in Row /\ s \in Row /\ QInv'
  BY NextInv DEF Present
<1>1. CASE UNCHANGED vars
  BY <1>1 DEF vars, CooldownInv, Present
<1>2. CASE NewIteration
  <2>1. UNCHANGED <<rows, clock>>
    BY <1>2 DEF NewIteration
  <2>2. s \in Present /\ rows[s].iter # run'.iter
    BY <1>2, <2>1, RowTimes DEF NewIteration, Fresh, Present
  <2> QED BY <2>1, <2>2 DEF CooldownInv, Present
<1>3. CASE Next /\ ~NewIteration
  <2>1. /\ run'.iter = run.iter /\ clock'.now \in {clock.now, clock.now + 1}
        /\ clock'.now = clock.now \/ UNCHANGED rows
    BY <1>3, RunKept
  <2>2. /\ rows'[r].iter \in Nat /\ rows'[s].iter \in Nat /\ run.iter \in Nat
        /\ rows'[s].iter <= run.iter /\ clock.now \in Nat /\ Cooldown \in Nat
        /\ rows'[r].executed \in Nat
    <3>1. /\ rows'[s].iter <= run'.iter
      BY <1>0 DEF QInv, RowInv, RowOK
    <3> QED BY <1>0, <2>1, <3>1, BoundsAssumption, TimesAssumption
            DEF QInv, TypeOK, QueryRow, RunRow, IterationId, Null, Never
  <2>3. r \in Present /\ rows'[r] = rows[r] /\ rows[r].executed \in Nat
    BY <1>3, <2>2, OldRow
  <2>4. CASE s \in Present /\ Untouched(s)
    BY <2>1, <2>2, <2>3, <2>4 DEF CooldownInv, Untouched
  <2>5. CASE Proposed(s)
    <3>1. PICK p \in Proposal : Admitted(p) /\ rows'[s] = NewRow(p)
      BY <2>5 DEF Proposed
    <3>2. run.iter # Null
      BY <2>5 DEF Proposed, QInv, RunInv
    <3>3. rows'[s].key = p.key /\ rows'[s].executed = Never
      BY <3>1, <3>2, NewRowFields DEF QInv
    <3>4. ~InCooldown(p.key) /\ Recurs(p.key)
      BY <3>1, <3>3 DEF Admitted
    <3>5. rows[r].executed \in LastExecution(p.key)
      BY <2>3, <3>3 DEF LastExecution
    <3>6. ~(clock.now - rows[r].executed < Cooldown)
      BY <3>4, <3>5 DEF InCooldown
    <3>7. clock'.now = clock.now
      BY <2>5 DEF Proposed
    <3> QED BY <2>2, <2>3, <3>3, <3>6, <3>7
  <2>6. CASE TakenOver(s)
    BY <2>6 DEF TakenOver, QInv, RowInv, RowOK, FollowOns
  <2>7. CASE Worked(s) \/ Repaired(s)
    <3>1. /\ s \in Present /\ rows[s].iter = run.iter /\ rows'[s].iter = rows[s].iter
          /\ rows'[s].key = rows[s].key /\ rows'[s].origin = rows[s].origin
          /\ rows'[s].executed \in {rows[s].executed, Never, clock.now}
          /\ clock'.now = clock.now
      BY <2>7 DEF Worked, Repaired, Identity, Owned
    <3>2. /\ clock.now - rows[r].executed >= Cooldown
          /\ rows[s].executed # Never => rows[s].executed - rows[r].executed >= Cooldown
      BY <2>3, <3>1 DEF CooldownInv
    <3> QED BY <2>3, <3>1, <3>2
  <2>8. CASE Removed(s)
    BY <2>8 DEF Removed, NoRow, Present
  <2>9. CASE GivenBack(s)
    BY <2>9 DEF GivenBack, FollowOns
  <2> QED BY <1>0, <2>4, <2>5, <2>6, <2>7, <2>8, <2>9, RowStep DEF Untouched, Present
<1> QED BY <1>1, <1>2, <1>3

\* A query an iteration proposes for itself and runs, it runs no sooner than a
\* cooldown after any execution of the same query by an earlier iteration,
\* however late, through whatever crashes and discards it runs.
THEOREM CooldownHolds == Spec => []CooldownKept
<1>1. Init => CooldownInv
  BY DEF Init, CooldownInv, Present, NoRow
<1>2. QInv /\ CooldownInv /\ [Next]_vars => CooldownInv'
  BY CooldownStep
<1>3. CooldownInv => CooldownKept
  BY DEF CooldownInv, CooldownKept
<1> QED BY <1>1, <1>2, <1>3, QInvHolds, PTL DEF Spec

-----------------------------------------------------------------------------
(* An iteration that ran to its end left nothing of its own waiting.       *)

\* Only proposing, adopting, resuming and discarding make a query wait, and a
\* resumed one was already under way.
LEMMA WaitKept ==
  ASSUME QInv, Next, ~NewIteration, ~Adopt, ~Propose, ~Discard, NEW x \in Waiting'
  PROVE  x \in Waiting /\ rows'[x].key = rows[x].key
<1>0. /\ TypeOK /\ x \in Row /\ run'.iter = run.iter /\ rows'[x].iter = run.iter
      /\ rows'[x].status \in {"PENDING", "IN_PROGRESS"}
  BY RunKept DEF QInv, Waiting, Owned, Present
<1>1. SUFFICES /\ rows'[x].key = rows[x].key /\ rows'[x].iter = rows[x].iter
               /\ rows[x].status \in {"PENDING", "IN_PROGRESS"}
  BY <1>0, <1>1 DEF Waiting, Owned, Present
<1>2. CASE UNCHANGED rows
  BY <1>0, <1>2
<1>3. CASE Claim
  <2>1. PICK r \in Claimable : rows' = [rows EXCEPT ![r].status = "IN_PROGRESS"]
    BY <1>3 DEF Claim
  <2>2. r \in Row /\ rows[r].status = "PENDING"
    BY DEF Claimable, Owned, Present
  <2>3. OnlyRow(r) /\ Identity(r)
    BY <1>0, <2>1, <2>2, SetStatus DEF Statuses
  <2> QED BY <1>0, <2>2, <2>3 DEF OnlyRow, Untouched, Identity
<1>4. CASE Call \/ StoreRaw \/ WriteSignals
  <2>1. run.step \in Holding
    BY <1>4 DEF Call, StoreRaw, WriteSignals, Holding
  <2>2. run.row \in Row
    BY <2>1, HeldRow
  <2>3. /\ OnlyRow(run.row) /\ Identity(run.row)
        /\ rows'[run.row].status = rows[run.row].status
    BY <1>0, <1>4, <2>2, SetBilled, SetRaw DEF Call, StoreRaw, WriteSignals
  <2> QED BY <1>0, <2>3 DEF OnlyRow, Untouched, Identity
<1>5. CASE RefuseBudget \/ CompleteQuery \/ FailQuery \/ SkipQuery
  <2>1. run.step \in Holding
    BY <1>5 DEF RefuseBudget, CompleteQuery, FailQuery, SkipQuery, Holding
  <2>2. rows[run.row].executed = Never
    BY <2>1, HeldRow
  <2>3. clock.now \in 0..Never /\ Never \in 0..Never
    BY <1>0, NeverType DEF TypeOK
  <2>4. SkippedAt \in {Never, clock.now}
    BY <2>2 DEF SkippedAt
  <2>5. PICK st \in {"COMPLETE", "FAILED", "SKIPPED_BUDGET", "SKIPPED_NO_MAPPING"},
             ex \in {Never, clock.now} : EndQuery(st, ex)
    BY <1>5, <2>4 DEF RefuseBudget, CompleteQuery, FailQuery, SkipQuery
  <2>6. OnlyRow(run.row) /\ rows'[run.row].status = st
    BY <2>1, <2>3, <2>5, EndedRow
  <2> QED BY <1>0, <2>5, <2>6 DEF OnlyRow, Untouched
<1>6. CASE Reconcile
  <2>1. SameRow(x) /\ (x \notin Banked => rows'[x] = rows[x])
        /\ (x \in Banked => rows'[x].status \in {"COMPLETE", "INTERRUPTED"})
    BY <1>0, <1>6, SettledRow
  <2> QED BY <1>0, <2>1
<1>7. CASE Resume
  <2>1. CASE x \in InProgress
    <3>1. rows'[x] = [rows[x] EXCEPT !.status = "PENDING"] /\ rows[x] \in QueryRow
      BY <1>0, <1>7, <2>1 DEF Resume, TypeOK
    <3> QED BY <2>1, <3>1 DEF InProgress, QueryRow
  <2>2. CASE x \notin InProgress
    <3>1. rows'[x] = rows[x]
      BY <1>0, <1>7, <2>2 DEF Resume
    <3> QED BY <1>0, <3>1
  <2> QED BY <2>1, <2>2
<1>8. CASE Abandon
  BY <1>0, <1>8, AbandonedRow
<1>9. CASE DiscardTorn
  BY <1>0, <1>9, TornRow DEF SameRow, Identity
<1> QED BY <1>2, <1>3, <1>4, <1>5, <1>6, <1>7, <1>8, <1>9
        DEF Next, BeginStage, EndProposals, EndPass, Cancel, Crash, Tick

\* A step that neither begins nor ends a stage, a pass or its proposals.
LEMMA LeftSame ==
  ASSUME QInv, LeftInv, \A x \in Waiting' : x \in Waiting /\ rows'[x].key = rows[x].key,
         run'.stage = run.stage, run'.tipped = run.tipped,
         run'.step = "ended" => run.step = "ended",
         run'.step \in Working => /\ run.step \in Working /\ run'.pass = run.pass
                                  /\ run'.step # "proposing"
  PROVE  LeftInv'
<1>1. \A s : Over(s)' => Over(s)
  BY DEF Over
<1>2. ASSUME Over(COLLECTING_SOCIAL)' PROVE \A r \in Waiting' : rows'[r].key \notin Social
  BY <1>1, <1>2 DEF LeftInv
<1>3. ASSUME Over(COLLECTING_TIPPED)'
      PROVE \A r \in Waiting' : \/ rows'[r].key \in History
                                \/ rows'[r].key \in Live /\ run'.tipped
  BY <1>1, <1>3 DEF LeftInv
<1>4. ASSUME run'.stage = COLLECTING_TIPPED /\ run'.step \in Working,
             run'.step = "proposing" \/ run'.pass = 2
      PROVE  \A r \in Waiting' : rows'[r].key \in Live => run'.tipped
  BY <1>4 DEF LeftInv
<1>5. ~(run'.stage = COLLECTING_TIPPED /\ run'.step = "proposing")
  BY DEF Working
<1> QED BY <1>2, <1>3, <1>4, <1>5 DEF LeftInv, Over

LInv == TodoInv /\ LeftInv /\ PlaceInv

\* An idle step that keeps the iteration where it is.
LEMMA LeftIdle ==
  ASSUME QInv, LInv, \A x \in Waiting' : x \in Waiting /\ rows'[x].key = rows[x].key,
         run'.stage = run.stage, run'.tipped = run.tipped,
         run'.step \notin Working, run'.step = "ended" => run.step = "ended",
         run'.due = {}, run'.todo = {}, run'.iter = run.iter,
         run'.end = "full" => run'.step = "closed" /\ run.end = "full",
         run'.step \in {"dead", "down"} => "crash" \in Ops,
         run'.ran \subseteq run.ran \cup {run.stage},
         "discard" \notin Ops /\ run'.at # Null => run'.at \in {run.at, run.stage}
  PROVE  LInv'
<1>1. LeftInv'
  BY LeftSame DEF LInv
<1>2. TodoInv'
  BY DEF TodoInv, Working
<1>3. PlaceInv'
  <2>1. run.stage \in Nat /\ run.stage <= run.stage
    BY DEF QInv, TypeOK, RunRow, Stage, SEEDING, SCHEDULING
  <2>2. run'.end = "full" => run'.step = "closed" /\ (run'.stage = SCHEDULING \/ run'.iter = Null)
    BY DEF LInv, PlaceInv
  <2>3. "crash" \notin Ops => /\ run'.step \notin {"dead", "down"}
                              /\ \A s \in run'.ran : s <= run'.stage
    BY <2>1 DEF LInv, PlaceInv
  <2>4. "discard" \notin Ops /\ run'.at # Null => run'.at <= run'.stage
    BY <2>1 DEF LInv, PlaceInv
  <2> QED BY <2>2, <2>3, <2>4 DEF PlaceInv
<1> QED BY <1>1, <1>2, <1>3 DEF LInv

LEMMA LeftIdleStep ==
  QInv /\ LInv /\ (Cancel \/ Crash \/ Reconcile \/ Abandon \/ DiscardTorn \/ Tick) => LInv'
<1> SUFFICES ASSUME QInv, LInv PROVE Cancel \/ Crash \/ Reconcile \/ Abandon \/ DiscardTorn \/ Tick
                                     => LInv'
  OBVIOUS
<1>0. run \in RunRow /\ (run.step # "proposing" => run.due = {} /\ run.todo = {})
  BY DEF QInv, TypeOK, RunInv
<1>1. ASSUME Cancel PROVE LInv'
  <2>1. \A x \in Waiting' : x \in Waiting /\ rows'[x].key = rows[x].key
    BY <1>1 DEF Cancel, Close, Waiting, Owned, Present, QInv, TypeOK, RunRow
  <2>2. run' = Close("cut") /\ run.step \in {"ready", "ended"}
    BY <1>1 DEF Cancel
  <2> QED BY <1>0, <2>1, <2>2, ClosedFields, LeftIdle DEF Working
<1>2. ASSUME Crash PROVE LInv'
  <2>1. \A x \in Waiting' : x \in Waiting /\ rows'[x].key = rows[x].key
    BY <1>0, <1>2, CrashFields DEF Crash, Waiting, Owned, Present
  <2>2. "crash" \in Ops /\ run.step # "closed"
    BY <1>2 DEF Crash, Working
  <2>3. run.end # "full"
    BY <2>2 DEF LInv, PlaceInv
  <2> QED BY <1>0, <1>2, <2>1, <2>2, <2>3, CrashFields, LeftIdle DEF Working
<1>3. ASSUME Reconcile PROVE LInv'
  <2>1. \A x \in Waiting' : x \in Waiting /\ rows'[x].key = rows[x].key
    BY <1>3, WaitKept DEF Next, NewIteration, Adopt, Propose, Discard, Discardable, Reconcile
  <2>2. "crash" \in Ops /\ run.step # "closed" /\ run.step = "dead"
    BY <1>3 DEF LInv, PlaceInv, Reconcile
  <2>3. run.end # "full" /\ run.due = {} /\ run.todo = {}
    BY <1>0, <2>2 DEF LInv, PlaceInv
  <2> QED BY <1>3, <2>1, <2>2, <2>3, ReconcileFields, LeftIdle DEF Working
<1>4. ASSUME Abandon PROVE LInv'
  <2>1. run'.iter = run.iter
    BY <1>0, <1>4, ClosedFields DEF Abandon
  <2>2. \A x \in Waiting' : x \in Waiting /\ rows'[x].key = rows[x].key
    BY <1>4, <2>1, AbandonedRow DEF Waiting, Owned, Present
  <2>3. run' = Close("cut") /\ run.step = "down"
    BY <1>4 DEF Abandon
  <2> QED BY <1>0, <2>2, <2>3, ClosedFields, LeftIdle DEF Working
<1>5. ASSUME DiscardTorn PROVE LInv'
  <2>1. \A x \in Row : SameRow(x) /\ rows'[x].status = rows[x].status
    BY <1>5, TornRow
  <2>2. \A x \in Waiting' : x \in Waiting /\ rows'[x].key = rows[x].key
    BY <1>5, <2>1, DiscardTornFields DEF SameRow, Identity, Waiting, Owned, Present
  <2>3. run.step \in {"ready", "ended", "closed", "down"}
    BY <1>5, DiscardTornFields DEF Discardable
  <2>4. /\ run'.stage = run.stage /\ run'.tipped = run.tipped /\ run'.step = run.step
        /\ run'.due = run.due /\ run'.todo = run.todo /\ run'.iter = run.iter
        /\ run'.end = run.end /\ run'.ran = run.ran /\ run'.at = run.at
    BY <1>5, DiscardTornFields
  <2>5. /\ run.end = "full" => run.step = "closed"
        /\ run.step \in {"dead", "down"} => "crash" \in Ops
    BY DEF LInv, PlaceInv
  <2> QED BY <1>0, <2>2, <2>3, <2>4, <2>5, LeftIdle DEF Working
<1>6. ASSUME Tick PROVE LInv'
  BY <1>6 DEF Tick, LInv, TodoInv, LeftInv, PlaceInv, Over, Waiting, Owned, Present
<1> QED BY <1>1, <1>2, <1>3, <1>4, <1>5, <1>6

\* Resuming goes back at most to the stage the iteration had reached.
LEMMA LeftResume ==
  ASSUME ~({"crash", "discard"} \subseteq Ops), QInv, LInv, Resume
  PROVE  LInv'
<1>1. /\ run.step = "down" /\ run.at # Null /\ run.due = {} /\ run.todo = {}
      /\ run \in RunRow
  BY DEF Resume, QInv, RunInv, TypeOK
<1>2. "crash" \in Ops /\ "discard" \notin Ops
  BY <1>1 DEF LInv, PlaceInv
<1>3. run.at <= run.stage /\ run.at \in Nat /\ run.stage \in Nat
  BY <1>1, <1>2 DEF LInv, PlaceInv, RunRow, Stage, SEEDING, SCHEDULING, Null
<1>4. ~NewIteration /\ ~Adopt /\ ~Propose /\ ~Discard
  BY <1>1, <1>2 DEF NewIteration, Adopt, Propose, Discard, Upset
<1>5. \A x \in Waiting' : x \in Waiting /\ rows'[x].key = rows[x].key
  BY <1>4, WaitKept DEF Next
<1>6. TodoInv'
  BY <1>1, ResumeFields DEF TodoInv
<1>7. LeftInv'
  <2>1. \A s \in Nat : Over(s)' => Over(s)
    BY <1>3, ResumeFields DEF Over
  <2>2. run'.step \notin Working /\ run'.tipped = run.tipped
    BY ResumeFields DEF Working
  <2> QED BY <1>5, <2>1, <2>2 DEF LInv, LeftInv, COLLECTING_SOCIAL, COLLECTING_TIPPED, Working
<1>8. PlaceInv'
  <2>1. run.end # "full"
    BY <1>1 DEF LInv, PlaceInv
  <2> QED BY <1>2, <1>3, <2>1, ResumeFields DEF PlaceInv
<1> QED BY <1>6, <1>7, <1>8 DEF LInv

\* A discard goes back to the furthest stage that ran, and what it makes wait
\* that stage collects again.
LEMMA LeftDiscard ==
  ASSUME ~({"crash", "discard"} \subseteq Ops), QInv, LInv, Discard
  PROVE  LInv'
<1>1. Discardable /\ run' = Rewound /\ "discard" \in Ops /\ "crash" \notin Ops
  BY DiscardFields
<1>2. /\ LastRan \in Nat /\ run.stage \in Nat /\ LastRan <= run.stage
      /\ \A y \in run.ran : y <= LastRan
      /\ run.step # "down"
  BY <1>1, RewoundFields DEF LInv, PlaceInv, Stage, SEEDING, SCHEDULING, RunRow
<1>3. /\ run'.step = "ready" /\ run'.stage = LastRan /\ run'.ran \subseteq run.ran
      /\ run'.end = "none" /\ run'.due = {} /\ run'.todo = {} /\ run'.iter = run.iter
      /\ run'.tipped = run.tipped
  BY <1>1, <1>2, RewoundFields
<1>4. TodoInv'
  BY <1>3 DEF TodoInv
<1>5. LeftInv'
  <2>1. ASSUME NEW x \in Waiting', LastRan > COLLECTING_SOCIAL
        PROVE  /\ rows'[x].key = rows[x].key /\ x \in Owned
               /\ \/ x \in Waiting
                  \/ LastRan = COLLECTING_TIPPED /\ rows[x].key \notin Social
    <3>1. x \in Row /\ rows'[x] # NoRow /\ rows'[x].iter = run.iter /\ run.iter # Null
          /\ rows'[x].status \in {"PENDING", "IN_PROGRESS"}
      BY <1>1, <1>3, RewoundFields DEF Waiting, Owned, Present, NoRow
    <3>2. CASE x \in Again /\ SameRow(x)
      BY <2>1, <3>2 DEF Again, CollectedBy, SameRow, Identity, COLLECTING_SOCIAL,
                        COLLECTING_TIPPED
    <3>3. CASE rows'[x] = rows[x]
      BY <3>1, <3>3 DEF Waiting, Owned, Present
    <3> QED BY <3>1, <3>2, <3>3, DiscardedRow
  <2>2. ASSUME Over(COLLECTING_SOCIAL)' PROVE \A r \in Waiting' : rows'[r].key \notin Social
    <3>1. LastRan > COLLECTING_SOCIAL /\ Over(COLLECTING_SOCIAL)
      BY <1>2, <1>3, <2>2 DEF Over, COLLECTING_SOCIAL
    <3> QED BY <2>1, <3>1 DEF LInv, LeftInv
  <2>3. ASSUME Over(COLLECTING_TIPPED)'
        PROVE \A r \in Waiting' : \/ rows'[r].key \in History
                                  \/ rows'[r].key \in Live /\ run'.tipped
    <3>1. LastRan > COLLECTING_SOCIAL /\ Over(COLLECTING_TIPPED) /\ LastRan # COLLECTING_TIPPED
      BY <1>2, <1>3, <2>3 DEF Over, COLLECTING_SOCIAL, COLLECTING_TIPPED
    <3> QED BY <1>3, <2>1, <3>1 DEF LInv, LeftInv
  <2> QED BY <1>3, <2>2, <2>3 DEF LeftInv, Working
<1>6. PlaceInv'
  BY <1>1, <1>2, <1>3 DEF PlaceInv
<1> QED BY <1>4, <1>5, <1>6 DEF LInv

LEMMA LeftNew == QInv /\ LInv /\ NewIteration => LInv'
<1> SUFFICES ASSUME QInv, LInv, NewIteration PROVE LInv'
  OBVIOUS
<1>1. /\ run'.iter = run.iter + 1 /\ run'.stage = SEEDING /\ run'.step = "ready"
      /\ run'.todo = {} /\ run'.due = {} /\ run'.ran = {} /\ run'.at = Null
      /\ run'.end = "none" /\ UNCHANGED rows
  BY DEF NewIteration, Fresh
<1>2. Waiting' = {}
  <2>1. \A x \in Present : rows[x].iter # run'.iter
    BY <1>1, RowTimes
  <2> QED BY <1>1, <2>1 DEF Waiting, Owned, Present
<1> QED BY <1>1, <1>2 DEF LInv, TodoInv, LeftInv, PlaceInv

\* Beginning the stage at hand, or the next one.
LEMMA LeftBegin == QInv /\ LInv /\ BeginStage => LInv'
<1> SUFFICES ASSUME QInv, LInv, BeginStage PROVE LInv'
  OBVIOUS
<1>1. /\ run \in RunRow /\ run.step \in {"ready", "ended"} /\ UNCHANGED rows
      /\ run.stage \in Nat
  BY DEF BeginStage, QInv, TypeOK, RunRow, Stage, SEEDING, SCHEDULING
<1>2. PICK s, step, due, todo :
        /\ s \in Nat /\ Begin(s, step, due, todo)
        /\ s = IF run.step = "ready" THEN run.stage ELSE run.stage + 1
        /\ \/ s = SEEDING /\ step = "proposing"
           \/ /\ s \in {COLLECTING_SOCIAL, COLLECTING_TIPPED} /\ step = "draining"
              /\ due = {} /\ todo = {}
           \/ /\ s = TIPPING /\ step = "proposing" /\ due = {} /\ todo \subseteq SocialTips
           \/ /\ s = SCHEDULING /\ step = "proposing" /\ due = {} /\ todo \subseteq Revisits
  BY <1>1 DEF BeginStage, SEEDING, COLLECTING_SOCIAL, TIPPING, COLLECTING_TIPPED, SCHEDULING
<1>3. /\ run'.step = step /\ run'.stage = s /\ run'.due = due /\ run'.todo = todo
      /\ run'.iter = run.iter /\ run'.ran = run.ran /\ run'.at = run.at
      /\ run'.end = run.end /\ run'.pass = 1 /\ run'.tipped = run.tipped
  BY <1>1, <1>2 DEF Begin, RunRow
<1>4. step \in Working /\ step # "ended"
  BY <1>2 DEF Working
<1>5. Waiting' = Waiting
  BY <1>1, <1>3 DEF Waiting, Owned, Present
<1>6. TodoInv'
  <2>1. \A p \in Revisits : p.origin \in FollowOns
    BY DEF Revisits, Proposals, FollowOns
  <2>2. \A p \in SocialTips : p.key \notin Social
    BY KeysAssumption DEF SocialTips, Proposals
  <2> QED BY <1>2, <1>3, <2>1, <2>2 DEF TodoInv, SEEDING, COLLECTING_SOCIAL, TIPPING,
                                      COLLECTING_TIPPED, SCHEDULING
<1>7. LeftInv'
  <2>1. \A q \in Nat : Over(q)' => Over(q)
    BY <1>1, <1>2, <1>3, <1>4 DEF Over
  <2>2. ~(run'.stage = COLLECTING_TIPPED /\ (run'.step = "proposing" \/ run'.pass = 2))
    BY <1>2, <1>3 DEF SEEDING, COLLECTING_SOCIAL, TIPPING, COLLECTING_TIPPED, SCHEDULING
  <2>3. Over(COLLECTING_SOCIAL)' => Over(COLLECTING_SOCIAL)
    BY <2>1 DEF COLLECTING_SOCIAL
  <2>4. Over(COLLECTING_TIPPED)' => Over(COLLECTING_TIPPED)
    BY <2>1 DEF COLLECTING_TIPPED
  <2> QED BY <1>1, <1>3, <1>5, <2>2, <2>3, <2>4 DEF LInv, LeftInv
<1>8. PlaceInv'
  <2>1. run.stage <= s
    BY <1>1, <1>2
  <2>2. \A q \in run.ran : q \in Nat
    BY <1>1 DEF RunRow, Stage, SEEDING, SCHEDULING
  <2>3. run.at \in Nat
    BY <1>1 DEF RunRow, Stage, SEEDING, SCHEDULING, Null
  <2>4. run.end # "full"
    BY <1>1 DEF LInv, PlaceInv
  <2> QED BY <1>1, <1>2, <1>3, <1>4, <2>1, <2>2, <2>3, <2>4 DEF LInv, PlaceInv, Working
<1> QED BY <1>6, <1>7, <1>8 DEF LInv

LEMMA LeftAdopt == QInv /\ LInv /\ Adopt => LInv'
<1> SUFFICES ASSUME QInv, LInv, Adopt PROVE LInv'
  OBVIOUS
<1>1. PICK r \in run.due :
        \/ /\ rows' = [rows EXCEPT ![r].iter = run.iter]
           /\ run'.iter = run.iter /\ run'.stage = run.stage
           /\ run'.step = "proposing" /\ run'.ran = run.ran /\ run'.todo = run.todo
           /\ run'.due = run.due \ {r} /\ run'.at = run.at /\ run'.end = run.end
           /\ run'.tipped = run.tipped
        \/ UNCHANGED rows /\ run' = [Close("failed") EXCEPT !.ran = Ended.ran]
  BY AdoptFields
<1>2. /\ run.stage = SEEDING /\ run.step = "proposing" /\ run \in RunRow
      /\ run.end # "full" /\ run.stage <= run.stage
  BY DEF LInv, TodoInv, PlaceInv, Adopt, QInv, TypeOK, SEEDING
<1>3. /\ run'.stage = SEEDING /\ run'.end # "full" /\ run'.at = run.at
      /\ run'.ran \subseteq run.ran \cup {run.stage} /\ run'.todo \subseteq run.todo
      /\ run'.step \notin {"dead", "down"}
  BY <1>1, <1>2, ClosedFields
<1>4. TodoInv'
  BY <1>3 DEF TodoInv, SEEDING, COLLECTING_SOCIAL, TIPPING, COLLECTING_TIPPED, SCHEDULING
<1>5. LeftInv'
  BY <1>3 DEF LeftInv, Over, SEEDING, COLLECTING_SOCIAL, COLLECTING_TIPPED
<1>6. PlaceInv'
  BY <1>2, <1>3 DEF LInv, PlaceInv
<1> QED BY <1>4, <1>5, <1>6 DEF LInv

LEMMA LeftPropose == QInv /\ LInv /\ Propose => LInv'
<1> SUFFICES ASSUME QInv, LInv, Propose PROVE LInv'
  OBVIOUS
<1>1. /\ run.step = "proposing" /\ run.iter # Null /\ run \in RunRow /\ run.due = {}
      /\ run.end # "full" /\ TypeOK /\ last + 1 \in Row
  BY ProposeFields DEF QInv, TypeOK, LInv, PlaceInv
<1>2. PICK p \in run.todo :
        /\ IF Admitted(p) THEN rows' = [rows EXCEPT ![last + 1] = NewRow(p)]
                          ELSE UNCHANGED rows
        /\ p \in Proposal /\ run'.iter = run.iter
        /\ run'.stage = run.stage /\ run'.step = "proposing" /\ run'.ran = run.ran
        /\ run'.todo = run.todo \ {p} /\ run'.due = run.due /\ run'.at = run.at
        /\ run'.end = run.end /\ run'.tipped = run.tipped /\ run'.pass = run.pass
        /\ run'.added = (run.added \/ (Admitted(p) /\ (run.stage = SEEDING
                                                      \/ p.key \notin Live)))
  BY ProposeFields
<1>3. TodoInv'
  BY <1>1, <1>2 DEF LInv, TodoInv
<1>4. PlaceInv'
  <2>1. /\ run'.step = "proposing" /\ run'.stage = run.stage /\ run'.ran = run.ran
        /\ run'.at = run.at /\ run'.end = run.end
    BY <1>2
  <2> QED BY <1>1, <2>1 DEF LInv, PlaceInv
<1>5. LeftInv'
  <2>1. ASSUME NEW x \in Waiting'
        PROVE  \/ x \in Waiting /\ rows'[x].key = rows[x].key
               \/ rows'[x].key = p.key /\ p.origin \notin FollowOns /\ Admitted(p)
    <3>1. x \in Row /\ rows'[x].iter = run.iter
      BY <1>2 DEF Waiting, Owned, Present
    <3>2. CASE x = last + 1 /\ Admitted(p)
      <4>1. rows'[x] = NewRow(p)
        BY <1>1, <1>2, <3>2 DEF TypeOK
      <4> QED BY <1>1, <1>2, <3>1, <3>2, <4>1, NewRowFields
    <3>3. CASE ~(x = last + 1 /\ Admitted(p))
      <4>1. rows'[x] = rows[x]
        BY <1>1, <1>2, <3>1, <3>3 DEF TypeOK
      <4> QED BY <1>2, <4>1 DEF Waiting, Owned, Present
    <3> QED BY <3>2, <3>3
  <2>2. /\ run.stage \in {SEEDING, TIPPING, COLLECTING_TIPPED, SCHEDULING}
        /\ run.stage = SCHEDULING => p.origin \in FollowOns
        /\ run.stage \in {TIPPING, COLLECTING_TIPPED} => p.key \notin Social
        /\ run.stage = COLLECTING_TIPPED => (p.key \in History \/ run.tipped)
    BY <1>1 DEF LInv, TodoInv, RunRow, Stage, SEEDING, COLLECTING_SOCIAL, TIPPING,
                COLLECTING_TIPPED, SCHEDULING
  <2>3. \A q : Over(q)' <=> Over(q)
    BY <1>1, <1>2 DEF Over
  <2>4. ASSUME Over(COLLECTING_SOCIAL) PROVE \A r \in Waiting' : rows'[r].key \notin Social
    <3>1. run.stage \in {TIPPING, COLLECTING_TIPPED, SCHEDULING}
      BY <1>1, <2>2, <2>4 DEF Over, SEEDING, COLLECTING_SOCIAL
    <3> QED BY <2>1, <2>2, <2>4, <3>1 DEF LInv, LeftInv
  <2>5. ASSUME Over(COLLECTING_TIPPED)
        PROVE \A r \in Waiting' : \/ rows'[r].key \in History
                                  \/ rows'[r].key \in Live /\ run'.tipped
    <3>1. run.stage = SCHEDULING
      BY <1>1, <2>2, <2>5 DEF Over, SEEDING, TIPPING, COLLECTING_TIPPED
    <3> QED BY <1>2, <2>1, <2>2, <2>5, <3>1 DEF LInv, LeftInv
  <2>6. ASSUME run.stage = COLLECTING_TIPPED
        PROVE  \A r \in Waiting' : /\ rows'[r].key \in Live => run'.tipped
                                   /\ rows'[r].key \in Booking => run'.added
    <3>1. run.step \in Working
      BY <1>1 DEF Working
    <3>2. \A r \in Waiting : /\ rows[r].key \in Live => run.tipped
                             /\ rows[r].key \in Booking => run.added
      BY <1>1, <2>6, <3>1 DEF LInv, LeftInv
    <3> QED BY <1>2, <2>1, <2>2, <2>6, <3>2, KeysAssumption
  <2> QED BY <1>2, <2>3, <2>4, <2>5, <2>6 DEF LeftInv
<1> QED BY <1>3, <1>4, <1>5 DEF LInv
\* Collecting a query adds nothing that waits.
LEMMA LeftWork ==
  QInv /\ LInv /\ (Claim \/ Call \/ StoreRaw \/ WriteSignals \/ RefuseBudget
                   \/ CompleteQuery \/ FailQuery \/ SkipQuery) => LInv'
<1> DEFINE Work == Claim \/ Call \/ StoreRaw \/ WriteSignals \/ RefuseBudget
                   \/ CompleteQuery \/ FailQuery \/ SkipQuery
<1> SUFFICES ASSUME QInv, LInv, Work PROVE LInv'
  OBVIOUS
<1>1. /\ run.step \in Holding \cup {"draining"} /\ run \in RunRow
  BY DEF QInv, TypeOK, Holding, Claim, Call, StoreRaw, WriteSignals, RefuseBudget,
         CompleteQuery, FailQuery, SkipQuery
<1>2. PICK st, r :
        /\ st \in Holding \cup {"draining"}
        /\ \/ run' = [run EXCEPT !.step = st]
           \/ run' = [run EXCEPT !.step = st, !.row = r]
  BY DEF Holding, Claim, Call, StoreRaw, WriteSignals, RefuseBudget,
         CompleteQuery, FailQuery, SkipQuery, EndQuery
<1>3. /\ run'.step = st /\ run'.stage = run.stage /\ run'.due = run.due
      /\ run'.todo = run.todo /\ run'.iter = run.iter /\ run'.ran = run.ran
      /\ run'.at = run.at /\ run'.end = run.end /\ run'.pass = run.pass
      /\ run'.tipped = run.tipped
  BY <1>1, <1>2 DEF RunRow
<1>4. /\ run.step \in Working /\ run.step # "closed"
      /\ run'.step \notin {"ended", "proposing", "dead", "down", "closed"}
      /\ run.due = {} /\ run.todo = {} /\ run'.due = {} /\ run'.todo = {}
  BY <1>1, <1>2, <1>3 DEF Holding, Working, QInv, RunInv
<1>5. ~NewIteration /\ ~Adopt /\ ~Propose /\ ~Discard
  BY <1>1 DEF NewIteration, Adopt, Propose, Discard, Discardable, Holding
<1>6. \A x \in Waiting' : x \in Waiting /\ rows'[x].key = rows[x].key
  BY <1>5, WaitKept DEF Next
<1>7. LeftInv'
  BY <1>3, <1>4, <1>6, LeftSame DEF LInv
<1>8. TodoInv'
  BY <1>4 DEF TodoInv
<1>9. PlaceInv'
  <2>1. run.end # "full"
    BY <1>4 DEF LInv, PlaceInv
  <2> QED BY <1>3, <1>4, <2>1 DEF LInv, PlaceInv
<1> QED BY <1>7, <1>8, <1>9 DEF LInv

\* The end of a stage: what waits meets what is asked after it.
LEMMA LeftEnded ==
  ASSUME QInv, LInv, run' = Ended, UNCHANGED rows,
         run.step \in {"proposing", "draining"},
         run.stage = COLLECTING_SOCIAL => \A r \in Waiting : rows[r].key \notin Social,
         run.stage = COLLECTING_TIPPED =>
           \A r \in Waiting : \/ rows[r].key \in History
                              \/ rows[r].key \in Live /\ run.tipped
  PROVE  LInv'
<1>1. /\ run'.step = "ended" /\ run'.stage = run.stage /\ run'.due = run.due
      /\ run'.todo = run.todo /\ run'.iter = run.iter /\ run'.at = run.at
      /\ run'.end = run.end /\ run'.tipped = run.tipped
      /\ run'.ran = run.ran \cup {run.stage} /\ run.stage \in Nat
  BY EndedFields DEF QInv, TypeOK, RunRow, Ended, Stage, SEEDING, SCHEDULING
<1>2. TodoInv'
  BY <1>1 DEF LInv, TodoInv
<1>3. PlaceInv'
  <2>1. run.end # "full"
    BY DEF LInv, PlaceInv
  <2>2. run.stage <= run.stage
    BY <1>1
  <2> QED BY <1>1, <2>1, <2>2 DEF LInv, PlaceInv
<1>4. LeftInv'
  <2>1. Waiting' = Waiting
    BY <1>1 DEF Waiting, Owned, Present
  <2>2. run'.step \notin Working
    BY <1>1 DEF Working
  <2>3. \A s : Over(s)' <=> Over(s) \/ run.stage = s
    BY <1>1 DEF Over
  <2> QED BY <1>1, <2>1, <2>2, <2>3, Zenon DEF LInv, LeftInv
<1> QED BY <1>2, <1>3, <1>4 DEF LInv

LEMMA LeftEndProposals == QInv /\ LInv /\ EndProposals => LInv'
<1> SUFFICES ASSUME QInv, LInv, EndProposals PROVE LInv'
  OBVIOUS
<1>1. /\ run.step = "proposing" /\ run.due = {} /\ run.todo = {} /\ run \in RunRow
      /\ UNCHANGED rows /\ run.stage \in Nat /\ run.end # "full" /\ run.step \in Working
  BY DEF EndProposals, QInv, TypeOK, RunRow, Stage, SEEDING, SCHEDULING, LInv, PlaceInv,
         Working
<1>2. run.stage # COLLECTING_SOCIAL
  BY <1>1 DEF LInv, TodoInv
<1>3. ASSUME run.stage = COLLECTING_TIPPED
      PROVE  \A r \in Waiting : /\ rows[r].key \in Live => run.tipped
                                /\ rows[r].key \in Booking => run.added
                                /\ rows[r].key \notin Social
  <2>1. Over(COLLECTING_SOCIAL)
    BY <1>3 DEF Over, COLLECTING_SOCIAL, COLLECTING_TIPPED
  <2> QED BY <1>1, <1>3, <2>1 DEF LInv, LeftInv
<1>4. \A r \in Waiting : rows[r].key \in Social \cup Live \cup Booking \cup History
  BY DEF QInv, RowInv, RowOK, TypeOK, QueryRow, Waiting, Owned, Present, Key
<1>5. CASE run' = Ended /\ ~(run.stage = COLLECTING_TIPPED /\ run.added)
  <2>1. run.stage = COLLECTING_TIPPED =>
          \A r \in Waiting : \/ rows[r].key \in History
                             \/ rows[r].key \in Live /\ run.tipped
    BY <1>3, <1>4, <1>5
  <2> QED BY <1>1, <1>2, <1>5, <2>1, LeftEnded
<1>6. CASE \E how \in {"full", "failed"} :
             /\ run' = [Close(how) EXCEPT !.ran = Ended.ran]
             /\ how = "full" => run.stage = SCHEDULING
  <2>1. PICK how \in {"full", "failed"} :
             /\ run' = [Close(how) EXCEPT !.ran = Ended.ran]
             /\ how = "full" => run.stage = SCHEDULING
    BY <1>6
  <2>2. /\ run'.stage = run.stage /\ run'.step = "closed" /\ run'.due = {} /\ run'.todo = {}
        /\ run'.iter = run.iter /\ run'.at = run.at /\ run'.end = how
        /\ run'.tipped = run.tipped /\ run'.ran = run.ran \cup {run.stage}
    BY <1>1, <2>1, ClosedFields, ZenonT(30)
  <2>3. Waiting' = Waiting
    BY <1>1, <2>2 DEF Waiting, Owned, Present
  <2>4. LeftInv'
    BY <2>2, <2>3, <1>1, LeftSame DEF LInv, Working
  <2>5. TodoInv'
    BY <2>2 DEF TodoInv
  <2>6. run.stage <= run.stage
    BY <1>1
  <2>7. PlaceInv'
    BY <2>1, <2>2, <2>6 DEF LInv, PlaceInv
  <2> QED BY <2>4, <2>5, <2>7 DEF LInv
<1>7. CASE \E st \in {"draining", "proposing"}, todo \in SUBSET Proposal :
             /\ run' = [run EXCEPT !.step = st, !.pass = 2, !.todo = todo]
             /\ \/ run.stage = COLLECTING_TIPPED /\ st = "draining" /\ todo = {}
                \/ /\ run.stage = SCHEDULING /\ st = "proposing"
                   /\ \A p \in todo : p.origin \in FollowOns
  <2>1. PICK st \in {"draining", "proposing"}, todo \in SUBSET Proposal :
             /\ run' = [run EXCEPT !.step = st, !.pass = 2, !.todo = todo]
             /\ \/ run.stage = COLLECTING_TIPPED /\ st = "draining" /\ todo = {}
                \/ /\ run.stage = SCHEDULING /\ st = "proposing"
                   /\ \A p \in todo : p.origin \in FollowOns
    BY <1>7
  <2>2. /\ run'.stage = run.stage /\ run'.step = st /\ run'.due = {} /\ run'.todo = todo
        /\ run'.iter = run.iter /\ run'.at = run.at /\ run'.end = run.end /\ run'.pass = 2
        /\ run'.tipped = run.tipped /\ run'.ran = run.ran
    BY <1>1, <2>1 DEF RunRow
  <2>3. Waiting' = Waiting
    BY <1>1, <2>2 DEF Waiting, Owned, Present
  <2>4. LeftInv'
    <3>1. \A s : Over(s)' <=> Over(s)
      BY <1>1, <2>1, <2>2 DEF Over
    <3>2. ~(run'.stage = COLLECTING_TIPPED /\ run'.step = "proposing")
      BY <2>1, <2>2 DEF COLLECTING_TIPPED, SCHEDULING
    <3> QED BY <1>1, <1>3, <2>2, <2>3, <3>1, <3>2 DEF LInv, LeftInv
  <2>5. TodoInv'
    BY <2>1, <2>2 DEF TodoInv, COLLECTING_SOCIAL, TIPPING, COLLECTING_TIPPED, SCHEDULING
  <2>6. PlaceInv'
    BY <1>1, <2>1, <2>2 DEF LInv, PlaceInv
  <2> QED BY <2>4, <2>5, <2>6 DEF LInv
<1>8. ASSUME run.stage = COLLECTING_TIPPED,
             run' = [run EXCEPT !.step = "draining", !.pass = 2]
      PROVE  \E st \in {"draining", "proposing"}, todo \in SUBSET Proposal :
             /\ run' = [run EXCEPT !.step = st, !.pass = 2, !.todo = todo]
             /\ \/ run.stage = COLLECTING_TIPPED /\ st = "draining" /\ todo = {}
                \/ /\ run.stage = SCHEDULING /\ st = "proposing"
                   /\ \A p \in todo : p.origin \in FollowOns
  <2>1. run' = [run EXCEPT !.step = "draining", !.pass = 2, !.todo = {}]
    BY <1>1, <1>8 DEF RunRow
  <2> QED BY <1>8, <2>1
<1>9. ASSUME run.stage = SCHEDULING,
             run' = [run EXCEPT !.pass = 2, !.todo = CarriedForward]
      PROVE  \E st \in {"draining", "proposing"}, todo \in SUBSET Proposal :
             /\ run' = [run EXCEPT !.step = st, !.pass = 2, !.todo = todo]
             /\ \/ run.stage = COLLECTING_TIPPED /\ st = "draining" /\ todo = {}
                \/ /\ run.stage = SCHEDULING /\ st = "proposing"
                   /\ \A p \in todo : p.origin \in FollowOns
  <2>1. CarriedForward \in SUBSET Proposal
    BY CarriedType DEF QInv
  <2>2. \A p \in CarriedForward : p.origin \in FollowOns
    BY DEF CarriedForward, FollowOns
  <2>3. run' = [run EXCEPT !.step = "proposing", !.pass = 2, !.todo = CarriedForward]
    BY <1>1, <1>9, <2>1 DEF RunRow
  <2> QED BY <1>9, <2>1, <2>2, <2>3
<1> QED BY <1>5, <1>6, <1>7, <1>8, <1>9, EndProposalsRun

\* A drained pass leaves none of its queries waiting.
LEMMA LeftEndPass == QInv /\ LInv /\ EndPass => LInv'
<1> SUFFICES ASSUME QInv, LInv, EndPass PROVE LInv'
  OBVIOUS
<1>1. /\ run.step = "draining" /\ Claimable = {} /\ run \in RunRow /\ UNCHANGED rows
      /\ run.stage \in {COLLECTING_SOCIAL, COLLECTING_TIPPED} /\ run.due = {}
      /\ run.end # "full" /\ run.stage \in Nat /\ run.pass \in {1, 2}
      /\ run.step \in Working
  BY DEF EndPass, QInv, RunInv, TypeOK, LInv, PlaceInv, RunRow, Stage, SEEDING, SCHEDULING,
         Working
<1>2. \A r \in Waiting : rows[r].key \notin PassKeys
  <2>1. \A r \in Owned : rows[r].status # "IN_PROGRESS"
    BY <1>1 DEF QInv, HeldInv, Holding
  <2> QED BY <1>1, <2>1 DEF Waiting, Claimable
<1>3. \A r \in Waiting : rows[r].key \in Social \cup Live \cup Booking \cup History
  BY DEF QInv, RowInv, RowOK, TypeOK, QueryRow, Waiting, Owned, Present, Key
<1>4. run.stage = COLLECTING_SOCIAL => \A r \in Waiting : rows[r].key \notin Social
  BY <1>2 DEF PassKeys
<1>5. ASSUME run.stage = COLLECTING_TIPPED
      PROVE  \A r \in Waiting : /\ rows[r].key \notin Social \cup Booking
                                /\ run.pass = 1 => rows[r].key \notin Live
                                /\ run.pass = 2 /\ rows[r].key \in Live => run.tipped
  <2>1. Over(COLLECTING_SOCIAL)
    BY <1>5 DEF Over, COLLECTING_SOCIAL, COLLECTING_TIPPED
  <2>2. \A r \in Waiting : rows[r].key \notin Social
    BY <2>1 DEF LInv, LeftInv
  <2>3. PassKeys = IF run.pass = 1 THEN Live \cup Booking ELSE History \cup Booking
    BY <1>5 DEF PassKeys, COLLECTING_SOCIAL, COLLECTING_TIPPED
  <2>4. run.pass = 2 => \A r \in Waiting : rows[r].key \in Live => run.tipped
    BY <1>1, <1>5 DEF LInv, LeftInv
  <2> QED BY <1>1, <1>2, <2>2, <2>3, <2>4
<1>6. CASE run' = Ended /\ (run.stage = COLLECTING_SOCIAL \/ run.pass = 2)
  <2>1. run.stage = COLLECTING_TIPPED =>
          \A r \in Waiting : \/ rows[r].key \in History
                             \/ rows[r].key \in Live /\ run.tipped
    BY <1>3, <1>5, <1>6 DEF COLLECTING_SOCIAL, COLLECTING_TIPPED
  <2> QED BY <1>1, <1>4, <1>6, <2>1, LeftEnded
<1>7. CASE /\ run.stage = COLLECTING_TIPPED /\ run.pass = 1
           /\ run'.iter = run.iter /\ run'.stage = run.stage /\ run'.pass = 1
           /\ run'.step = "proposing" /\ run'.ran = run.ran /\ run'.at = run.at
           /\ run'.due = run.due /\ run'.end = run.end
           /\ run'.todo \subseteq FlightTips \cup Proposals(History, PRIO_FLIGHT_HISTORY, "TIP")
           /\ run'.tipped = (run.tipped \/ FlightTips # {})
  <2>1. TodoInv'
    <3>1. \A p \in SocialTips : p.key \notin Social
      BY KeysAssumption DEF SocialTips, Proposals
    <3>2. FlightTips \subseteq SocialTips
      BY DEF FlightTips
    <3>3. \A p \in Proposals(History, PRIO_FLIGHT_HISTORY, "TIP") :
            p.key \in History /\ p.key \notin Social
      BY KeysAssumption DEF Proposals
    <3>4. \A p \in run'.todo : p.key \notin Social /\ (p.key \in History \/ run'.tipped)
      BY <1>7, <3>1, <3>2, <3>3
    <3> QED BY <1>1, <1>7, <3>4 DEF TodoInv, COLLECTING_SOCIAL, COLLECTING_TIPPED, SCHEDULING
  <2>2. LeftInv'
    <3>1. Waiting' = Waiting
      BY <1>1, <1>7 DEF Waiting, Owned, Present
    <3>2. \A r \in Waiting' : rows'[r].key \notin Social \cup Booking \cup Live
      BY <1>1, <1>5, <1>7, <3>1
    <3>3. ~Over(COLLECTING_TIPPED)'
      BY <1>7 DEF Over, COLLECTING_TIPPED
    <3> QED BY <3>2, <3>3 DEF LeftInv
  <2>3. PlaceInv'
    <3>1. run.end # "full" /\ run'.step = "proposing" /\ run'.ran = run.ran
          /\ run'.stage = run.stage /\ run'.at = run.at /\ run'.end = run.end
      BY <1>1, <1>7
    <3> QED BY <3>1 DEF LInv, PlaceInv
  <2> QED BY <2>1, <2>2, <2>3 DEF LInv
<1> QED BY <1>6, <1>7, EndPassRun

LEMMA LeftStep ==
  ASSUME ~({"crash", "discard"} \subseteq Ops), QInv, LInv, [Next]_vars
  PROVE  LInv'
<1>1. CASE UNCHANGED vars
  BY <1>1 DEF vars, LInv, TodoInv, LeftInv, PlaceInv, Over, Waiting, Owned, Present
<1> QED BY <1>1, LeftNew, LeftBegin, LeftAdopt, LeftPropose, LeftEndProposals, LeftWork,
           LeftEndPass, LeftIdleStep, LeftResume, LeftDiscard DEF Next

\* A full iteration leaves nothing of its own waiting (NothingLeft), where not
\* both crashes and discards interfere: after a discard of a later stage than
\* the one a crash interrupted, a resume goes on from the wrong place.
THEOREM NothingLeftEither ==
  ASSUME ~({"crash", "discard"} \subseteq Ops)
  PROVE  Spec => []NothingLeft
<1>1. Init => LInv
  BY DEF Init, Fresh, LInv, TodoInv, LeftInv, PlaceInv, Over, Waiting, Owned, Present, NoRow,
         SEEDING, COLLECTING_SOCIAL, COLLECTING_TIPPED, SCHEDULING
<1>2. QInv /\ LInv /\ [Next]_vars => LInv'
  BY LeftStep
<1>3. QInv /\ LInv => NothingLeft
  <2> SUFFICES ASSUME QInv, LInv, run.end = "full"
               PROVE  \A r \in Waiting : \/ rows[r].key \in History
                                         \/ rows[r].key \in Live /\ run.tipped
    BY DEF NothingLeft, Waiting
  <2>1. run.stage = SCHEDULING \/ run.iter = Null
    BY DEF LInv, PlaceInv
  <2>2. CASE run.stage = SCHEDULING
    BY <2>2 DEF LInv, LeftInv, Over, COLLECTING_TIPPED, SCHEDULING
  <2>3. CASE run.iter = Null
    BY <2>3 DEF QInv, RunInv, Waiting, Owned, Present, NoRow
  <2> QED BY <2>1, <2>2, <2>3
<1> QED BY <1>1, <1>2, <1>3, QInvHolds, PTL DEF Spec

=============================================================================
