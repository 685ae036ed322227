--------------------------- MODULE AnalysisProofs ---------------------------
(***************************************************************************)
(* What holds of the scoring and the alerts of an iteration for every city, *)
(* track, evidence, mission and course of collection.                      *)
(*                                                                         *)
(* The first theorems rest on what scoring makes of a loss (JudgedLoss)    *)
(* and on what it must have counted before it names a band (JudgedCounts), *)
(* the last two on the arithmetic: what a score is made of is a number     *)
(* (ContributionIsNat), and a band that alerts has two reports behind it   *)
(* (JudgedTold).                                                           *)
(***************************************************************************)
EXTENDS Analysis, Sums

\* None stands for the absence of a row: it has no columns.
NoneIsNoRow == "score" \notin DOMAIN None

-----------------------------------------------------------------------------
(* What scoring makes of its inputs.                                       *)

\* A row as scoring leaves it, whatever its flags are.
LEMMA JudgedFields ==
  ASSUME NEW score, NEW band, NEW capped, NEW failed, NEW gaps, NEW stale, NEW shares,
         NEW j, j = [score |-> score, band |-> band, capped |-> capped,
                     failed |-> failed, gaps |-> gaps, stale |-> stale,
                     shares |-> shares]
  PROVE  /\ j.score = score /\ j.band = band /\ j.capped = capped /\ j.failed = failed
         /\ j.gaps = gaps /\ j.stale = stale /\ j.shares = shares
  OBVIOUS

\* Nothing is counted of evidence that contributes nothing: no band is named.
LEMMA NothingCounted ==
  ASSUME NEW rows0, NEW t, NEW baseline, NEW contributions,
         contributions = [k \in Kind |-> Contribution(rows0, t, k, baseline)],
         {s \in rows0 : contributions[scoring_kind(s)] > 0} = {},
         NEW score, NEW anchored
  PROVE  _band_for(score, 0, anchored, independent_reports(rows0, contributions)) = "NONE"
<1> DEFINE Counted(k) == IF contributions[k] > 0 THEN Grouped(rows0, k) ELSE {}
           posts == Counted("social")
           airframes == {Airframe(s) : s \in UNION {Counted(k) : k \in FlightKind}}
           measured == {k \in {"lodging", "car"} : contributions[k] > 0}
<1>1. ASSUME NEW k PROVE Counted(k) = {}
  BY DEF Grouped
<1>2. posts = {} /\ airframes = {}
  BY <1>1
<1>3. measured = {}
  <2>1. ASSUME NEW k \in {"lodging", "car"}, contributions[k] > 0 PROVE FALSE
    <3>1. k \in Kind /\ Grouped(rows0, k) = {}
      BY <1>1, <2>1 DEF Kind, MissionKind
    <3>2. contributions[k] = 0
      BY <3>1 DEF Contribution
    <3> QED BY <2>1, <3>2
  <2> QED BY <2>1
<1>4. {s.publisher : s \in KnownPublisher(posts)} = {} /\ {Claim(s) : s \in posts} = {}
  BY <1>2 DEF KnownPublisher
<1>5. Min({0, 0}) = 0
  BY DEF Min
<1> HIDE DEF posts, airframes, measured
<1>6. independent_reports(rows0, contributions)
        = Min({Cardinality({s.publisher : s \in KnownPublisher(posts)}),
               Cardinality({Claim(s) : s \in posts})})
            + Cardinality(airframes) + Cardinality(measured)
  BY Zenon DEF independent_reports, posts, airframes, measured
<1>7. Cardinality({}) = 0
  BY FS_EmptySet
<1>8. Min({Cardinality({s.publisher : s \in KnownPublisher(posts)}),
           Cardinality({Claim(s) : s \in posts})}) = Min({0, 0})
  BY <1>4, <1>7, Zenon
<1>9. Cardinality(airframes) = 0 /\ Cardinality(measured) = 0
  BY <1>2, <1>3, <1>7, Zenon
<1>10. independent_reports(rows0, contributions) = 0
  BY <1>5, <1>6, <1>8, <1>9
<1>11. ~(0 >= Cfg.highTypes) /\ ~(0 >= Cfg.mediumTypes) /\ ~(0 >= Cfg.lowReports)
  BY CfgAssumption
<1>12. _band_for(score, 0, anchored, 0) = "NONE"
  BY <1>11, Zenon DEF _band_for
<1> QED BY <1>10, <1>12, Zenon
\* What was lost is on the row, and keeps the band below HIGH.
LEMMA JudgedLoss ==
  ASSUME NEW eligible, NEW t, NEW contributions, NEW unreliable, NEW collected,
         NEW j, j = Judged(eligible, t, contributions, unreliable, collected)
  PROVE  /\ j.failed = unreliable
         /\ j.gaps = Families(unreliable) \ Families(collected)
         /\ unreliable # {} => j.band # "HIGH"
         /\ j.shares \subseteq {s.id : s \in eligible}
<1> DEFINE contributing == {s \in eligible : contributions[scoring_kind(s)] > 0}
           types == Cardinality({KIND_FAMILY[scoring_kind(s)] : s \in contributing})
           score == Score(contributions)
           band == _band_for(score, types, has_strong_anchor(t, contributions),
                             independent_reports(eligible, contributions))
           capped == unreliable # {} /\ band = "HIGH"
           shown == IF capped THEN "MEDIUM" ELSE band
           gaps == Families(unreliable) \ Families(collected)
           newest == {s \in contributing : \A o \in contributing : o.made <= s.made}
           stale == contributing # {} /\ \A s \in newest : s.made # 0
           shares == {s.id : s \in contributing}
<1>1. j = [score |-> score, band |-> shown, capped |-> capped, failed |-> unreliable,
           gaps |-> gaps, stale |-> stale, shares |-> shares]
  BY Zenon DEF Judged
<1>2. unreliable # {} => shown # "HIGH"
  OBVIOUS
<1>3. shares \subseteq {s.id : s \in eligible}
  OBVIOUS
<1> HIDE DEF score, shown, capped, gaps, stale, shares
<1>4. j.band = shown /\ j.failed = unreliable /\ j.gaps = gaps /\ j.shares = shares
  BY <1>1, JudgedFields
<1> QED BY <1>2, <1>3, <1>4 DEF gaps

\* A band that alerts counted something, and a row not said to be stale counted
\* some evidence of this iteration's own, which it then links to.
LEMMA JudgedCounts ==
  ASSUME NEW rows0, NEW t, NEW baseline, NEW unreliable, NEW collected, NEW contributions,
         contributions = [k \in Kind |-> Contribution(rows0, t, k, baseline)],
         NEW j, j = Judged(rows0, t, contributions, unreliable, collected)
  PROVE  j.band \in ALERT_BANDS /\ ~j.stale
           => \E s \in rows0 : s.made = 0 /\ s.id \in j.shares
<1> DEFINE contributing == {s \in rows0 : contributions[scoring_kind(s)] > 0}
           types == Cardinality({KIND_FAMILY[scoring_kind(s)] : s \in contributing})
           score == Score(contributions)
           anchored == has_strong_anchor(t, contributions)
           band == _band_for(score, types, anchored,
                             independent_reports(rows0, contributions))
           capped == unreliable # {} /\ band = "HIGH"
           shown == IF capped THEN "MEDIUM" ELSE band
           gaps == Families(unreliable) \ Families(collected)
           newest == {s \in contributing : \A o \in contributing : o.made <= s.made}
           stale == contributing # {} /\ \A s \in newest : s.made # 0
           shares == {s.id : s \in contributing}
<1>1. j = [score |-> score, band |-> shown, capped |-> capped, failed |-> unreliable,
           gaps |-> gaps, stale |-> stale, shares |-> shares]
  BY Zenon DEF Judged
<1>2. ASSUME contributing = {} PROVE shown = "NONE"
  <2>1. {KIND_FAMILY[scoring_kind(s)] : s \in contributing} = {}
    BY <1>2
  <2>2. types = 0
    BY <2>1, FS_EmptySet, Zenon
  <2> HIDE DEF score, anchored
  <2>3. band = "NONE"
    BY <1>2, <2>2, NothingCounted, ZenonT(30)
  <2> QED BY <2>3
<1>3. ASSUME shown \in ALERT_BANDS, ~stale
      PROVE  \E s \in rows0 : s.made = 0 /\ s.id \in shares
  <2>1. contributing # {}
    BY <1>2, <1>3, Zenon DEF ALERT_BANDS
  <2>2. PICK s \in newest : s.made = 0
    BY <2>1, <1>3
  <2> QED BY <2>2
<1> HIDE DEF score, shown, capped, gaps, stale, shares
<1>4. j.band = shown /\ j.shares = shares /\ j.stale = stale
  BY <1>1, JudgedFields
<1> QED BY <1>3, <1>4, Zenon

-----------------------------------------------------------------------------
(* The shape of the state.                                                 *)

Columns == {"score", "band", "capped", "failed", "gaps", "stale", "decision"}
Task == [todo : SUBSET Pair, pair : Pair \cup {None},
         linking : SUBSET {s.id : s \in Pool},
         step : {"next", "link", "insert", "decide"}, model : BOOLEAN]
Point == [next : {"CORRELATING", "ALERTING"}, ran : SUBSET {"CORRELATING", "ALERTING"},
          stamp : {"none", "CORRELATING", "ALERTING"}, torn : BOOLEAN]

ShapeInv ==
  /\ DOMAIN rows = Pair /\ DOMAIN alerts = Pair
  /\ \A p \in Written : DOMAIN rows[p] = Columns
  /\ signals \subseteq Pool /\ world \in World
  /\ task \in Task /\ point \in Point
  /\ stage \in {"CORRELATING", "ALERTING", "open", "done", "failed"}
  /\ upsets \in Nat /\ discards \in Nat

LEMMA TaskFields ==
  ASSUME NEW todo \in SUBSET Pair, NEW model \in BOOLEAN,
         NEW i, i = [todo |-> todo, pair |-> None, linking |-> {}, step |-> "next",
                     model |-> model]
  PROVE  i \in Task /\ i.todo = todo /\ i.step = "next" /\ i.pair = None
  BY DEF Task

\* What a stage starts with.
LEMMA Fresh ==
  ASSUME NEW todo \in SUBSET Pair, NEW i, i = [Idle EXCEPT !.todo = todo]
  PROVE  i \in Task /\ i.todo = todo /\ i.step = "next" /\ i.pair = None
<1>1. ASSUME NEW model \in BOOLEAN, NEW k,
             k = [todo |-> {}, pair |-> None, linking |-> {}, step |-> "next",
                  model |-> model]
      PROVE  [k EXCEPT !.todo = todo]
               = [todo |-> todo, pair |-> None, linking |-> {}, step |-> "next",
                  model |-> model]
  BY <1>1
<1>2. FALSE \in BOOLEAN
  OBVIOUS
<1>3. i = [todo |-> todo, pair |-> None, linking |-> {}, step |-> "next",
           model |-> FALSE]
  BY <1>1, <1>2, Zenon DEF Idle
<1> QED BY <1>2, <1>3, TaskFields, Zenon

LEMMA IdleIsIdle ==
  Idle \in Task /\ Idle.todo = {} /\ Idle.step = "next" /\ Idle.pair = None
<1>1. FALSE \in BOOLEAN /\ {} \in SUBSET Pair
  OBVIOUS
<1> QED BY <1>1, TaskFields, Zenon DEF Idle

\* A stage that starts is recorded as run, whatever becomes of it.
LEMMA BeginKeeps ==
  ASSUME ShapeInv, NEW s \in {"CORRELATING", "ALERTING"}, Begin(s)
  PROVE  /\ task' \in Task /\ point' \in Point /\ stage' = s /\ task'.step = "next"
         /\ task'.todo = IF s = "CORRELATING" THEN Pair ELSE Written
         /\ point'.ran = point.ran \cup {s} /\ point'.stamp = point.stamp
<1>1. point' \in Point /\ point'.ran = point.ran \cup {s} /\ point'.stamp = point.stamp
  BY DEF Begin, ShapeInv, Point
<1> DEFINE todo == IF s = "CORRELATING" THEN Pair ELSE Written
<1>2. todo \in SUBSET Pair /\ task' = [Idle EXCEPT !.todo = todo]
  BY DEF Begin, Written
<1> HIDE DEF todo
<1>3. task' \in Task /\ task'.todo = todo /\ task'.step = "next"
  BY <1>2, Fresh
<1> QED BY <1>1, <1>3 DEF Begin, todo

\* An upserted row has every column, and what scoring says of it.
\* A discard that dies half-way: what it took, and what it left of the pointer.
LEMMA TornDiscard ==
  ASSUME ShapeInv, DiscardTorn
  PROVE  /\ UNCHANGED <<task, signals, world, receipts>>
         /\ stage \in {"open", "done", "failed"} /\ stage' \in {"open", stage}
         /\ DOMAIN rows' = Pair /\ DOMAIN alerts' = Pair
         /\ \A p \in Pair : rows'[p] = rows[p] \/ rows'[p] = None
         /\ \A p \in Pair : alerts'[p] = alerts[p] \/ alerts'[p] = None
         /\ "ALERTING" \in point.ran => rows' = rows /\ \A p \in Pair : alerts'[p] = None
         /\ "ALERTING" \notin point.ran => alerts' = alerts
         /\ links' \subseteq links
         /\ point' \in Point /\ point'.ran = point.ran /\ point'.torn
         /\ stage' = "open" => point'.stamp # "none"
         /\ upsets < MaxUpsets /\ upsets' = upsets + 1
         /\ discards < MaxDiscards /\ discards' = discards + 1
<1>1. PICK all \in BOOLEAN, opened \in BOOLEAN :
        /\ Deleted(all)
        /\ stage' = IF opened THEN "open" ELSE stage
        /\ LET next == IF opened THEN last_completed_stage ELSE point.next
           IN  point' = [point EXCEPT !.next = next, !.torn = TRUE,
                           !.stamp = IF stage' = "open" THEN Stamped(next) ELSE @]
  BY DEF DiscardTorn
<1>2. DOMAIN rows = Pair /\ DOMAIN alerts = Pair /\ point \in Point
  BY DEF ShapeInv
<1>3. last_completed_stage \in {"CORRELATING", "ALERTING"}
      /\ ("ALERTING" \in point.ran <=> last_completed_stage = "ALERTING")
  BY DEF last_completed_stage
<1>4. /\ DOMAIN rows' = Pair /\ DOMAIN alerts' = Pair /\ links' \subseteq links
      /\ \A p \in Pair : rows'[p] = rows[p] \/ rows'[p] = None
      /\ \A p \in Pair : alerts'[p] = alerts[p] \/ alerts'[p] = None
      /\ "ALERTING" \in point.ran => rows' = rows /\ \A p \in Pair : alerts'[p] = None
      /\ "ALERTING" \notin point.ran => alerts' = alerts
  BY <1>1, <1>2, <1>3 DEF Deleted
<1> DEFINE next == IF opened THEN last_completed_stage ELSE point.next
           stamp == IF stage' = "open" THEN Stamped(next) ELSE point.stamp
<1>5. next \in {"CORRELATING", "ALERTING"}
  BY <1>2, <1>3 DEF Point
<1>6. stamp \in {"none", "CORRELATING", "ALERTING"} /\ (stage' = "open" => stamp # "none")
  BY <1>2, <1>5 DEF Stamped, Point
<1>7. point' = [point EXCEPT !.next = next, !.torn = TRUE, !.stamp = stamp]
  BY <1>1, Zenon
<1> HIDE DEF next, stamp
<1>8. ASSUME NEW torn \in BOOLEAN, NEW q,
             q = [point EXCEPT !.next = next, !.torn = torn, !.stamp = stamp]
      PROVE  q \in Point /\ q.ran = point.ran /\ q.stamp = stamp /\ q.torn = torn
  BY <1>2, <1>5, <1>6, <1>8 DEF Point
<1>9. TRUE \in BOOLEAN
  OBVIOUS
<1>10. point' \in Point /\ point'.ran = point.ran /\ point'.stamp = stamp
       /\ point'.torn = TRUE
  BY <1>7, <1>8, <1>9, Zenon
<1>11. stage \in {"open", "done", "failed"} /\ stage' \in {"open", stage}
  BY <1>1 DEF DiscardTorn, Discardable
<1> QED BY <1>4, <1>6, <1>10, <1>11 DEF DiscardTorn, Discardable

\* Nothing else tears, and what is torn stays so.
LEMMA TornStays ==
  ASSUME ShapeInv, [Next]_vars
  PROVE  point.torn \/ DiscardTorn => point'.torn
<1>1. point \in Point
  BY DEF ShapeInv
<1>2. CASE UNCHANGED point
  BY <1>2, TornDiscard
<1>3. ASSUME NEW s \in {"CORRELATING", "ALERTING"}, Begin(s) PROVE point'.torn = point.torn
  BY <1>1, <1>3 DEF Begin, Point
<1>4. CASE EndCorrelating \/ Resume \/ Abandon
  <2>1. PICK s \in {"CORRELATING", "ALERTING"} : Begin(s)
    BY <1>1, <1>4 DEF EndCorrelating, Resume, Abandon, resume_point, Point
  <2> QED BY <1>3, <2>1, TornDiscard
<1>5. CASE Crash
  BY <1>1, <1>5, TornDiscard DEF Crash, Point
<1>6. CASE discard_last
  BY <1>1, <1>6, TornDiscard DEF discard_last, Point
<1>7. CASE DiscardTorn
  BY <1>7, TornDiscard
<1> QED BY <1>2, <1>4, <1>5, <1>6, <1>7
        DEF Next, vars, SkipQuiet, upsert_correlation, link_correlation_signal, RefuseAlert,
            SkipWritten, _summarise, insert_alert, DecideAlerted, EndAlerting, NoModel, Age

LEMMA UpsertedRow ==
  ASSUME NoneIsNoRow, ShapeInv, NEW p \in Pair, NEW r, Upsert(p, r)
  PROVE  /\ DOMAIN rows' = Pair /\ \A q \in Pair \ {p} : rows'[q] = rows[q]
         /\ rows'[p] # None /\ DOMAIN rows'[p] = Columns
         /\ rows'[p].score = r.score /\ rows'[p].band = r.band
         /\ rows'[p].failed = r.failed /\ rows'[p].gaps = r.gaps
         /\ rows'[p].stale = r.stale
<1> DEFINE decision == IF rows[p] = None THEN "none" ELSE rows[p].decision
<1> HIDE DEF decision
<1>1. rows' = [rows EXCEPT ![p] =
        [score |-> r.score, band |-> r.band, capped |-> r.capped, failed |-> r.failed,
         gaps |-> r.gaps, stale |-> r.stale, decision |-> decision]]
  BY DEF Upsert, Upserted, decision
<1>2. DOMAIN rows = Pair
  BY DEF ShapeInv
<1>3. rows'[p] =
        [score |-> r.score, band |-> r.band, capped |-> r.capped, failed |-> r.failed,
         gaps |-> r.gaps, stale |-> r.stale, decision |-> decision]
  BY <1>1, <1>2
<1>4. DOMAIN rows'[p] = Columns
  BY <1>3 DEF Columns
<1>5. rows'[p] # None
  BY <1>4 DEF Columns, NoneIsNoRow
<1>6. DOMAIN rows' = Pair /\ \A q \in Pair \ {p} : rows'[q] = rows[q]
  BY <1>1, <1>2
<1> QED BY <1>3, <1>4, <1>5, <1>6

\* A decision changes nothing else.
LEMMA DecidedRow ==
  ASSUME NoneIsNoRow, ShapeInv, NEW p \in Written, NEW d, set_alert_decision(p, d)
  PROVE  /\ DOMAIN rows' = Pair /\ \A q \in Pair \ {p} : rows'[q] = rows[q]
         /\ rows'[p] # None /\ DOMAIN rows'[p] = Columns /\ rows'[p].decision = d
         /\ rows'[p].score = rows[p].score /\ rows'[p].band = rows[p].band
         /\ rows'[p].failed = rows[p].failed /\ rows'[p].gaps = rows[p].gaps
         /\ rows'[p].stale = rows[p].stale
         /\ Written' = Written
<1>1. DOMAIN rows = Pair /\ p \in Pair /\ DOMAIN rows[p] = Columns
  BY DEF ShapeInv, Written
<1>2. rows' = [rows EXCEPT ![p] = [rows[p] EXCEPT !.decision = d]]
  BY <1>1 DEF set_alert_decision
<1>3. rows'[p] = [rows[p] EXCEPT !.decision = d]
  BY <1>1, <1>2
<1>4. DOMAIN rows' = Pair /\ \A q \in Pair \ {p} : rows'[q] = rows[q]
  BY <1>1, <1>2
<1>5. DOMAIN rows'[p] = Columns
  BY <1>1, <1>3
<1>6. rows'[p] # None
  BY <1>5 DEF Columns, NoneIsNoRow
<1>7. /\ rows'[p].decision = d
      /\ rows'[p].score = rows[p].score /\ rows'[p].band = rows[p].band
      /\ rows'[p].failed = rows[p].failed /\ rows'[p].gaps = rows[p].gaps
      /\ rows'[p].stale = rows[p].stale
  BY <1>1, <1>3 DEF Columns
<1>8. Written' = Written
  BY <1>4, <1>6 DEF Written
<1> QED BY <1>4, <1>5, <1>6, <1>7, <1>8

\* What upsert_correlation makes of a city on a track.
Scoring(p) == correlate(Confirmed(p[1]), p[2], Unreliable(p[1]),
                        collected_source_types(p[1]), Baselines(world.history))

LEMMA ScoredAs ==
  ASSUME NEW p \in Pair
  PROVE  /\ Scoring(p).failed = Unreliable(p[1])
         /\ Scoring(p).gaps = Families(Unreliable(p[1]))
                                \ Families(collected_source_types(p[1]))
         /\ Unreliable(p[1]) # {} => Scoring(p).band # "HIGH"
         /\ Scoring(p).shares \subseteq {s.id : s \in signals}
         /\ Scoring(p).band \in ALERT_BANDS /\ ~Scoring(p).stale
              => \E s \in signals : s.made = 0 /\ s.id \in Scoring(p).shares
<1> DEFINE eligible == Eligible(Confirmed(p[1]), p[2])
           baseline == Baselines(world.history)
           contributions == [k \in Kind |-> Contribution(eligible, p[2], k, baseline)]
           unreliable == Unreliable(p[1])
           collected == collected_source_types(p[1])
<1>1. Scoring(p) = Judged(eligible, p[2], contributions, unreliable, collected)
  BY Zenon DEF Scoring, correlate
<1>2. eligible \subseteq signals
  BY DEF Eligible, Confirmed
<1> HIDE DEF eligible, baseline, unreliable, collected
<1>3. contributions = [k \in Kind |-> Contribution(eligible, p[2], k, baseline)]
  OBVIOUS
<1> HIDE DEF contributions
<1>4. /\ Scoring(p).failed = unreliable
      /\ Scoring(p).gaps = Families(unreliable) \ Families(collected)
      /\ unreliable # {} => Scoring(p).band # "HIGH"
      /\ Scoring(p).shares \subseteq {s.id : s \in eligible}
  BY <1>1, JudgedLoss
<1>5. Scoring(p).band \in ALERT_BANDS /\ ~Scoring(p).stale
        => \E s \in eligible : s.made = 0 /\ s.id \in Scoring(p).shares
  BY <1>1, <1>3, JudgedCounts
<1>6. Scoring(p).shares \subseteq {s.id : s \in signals}
  BY <1>2, <1>4
<1>7. Scoring(p).band \in ALERT_BANDS /\ ~Scoring(p).stale
        => \E s \in signals : s.made = 0 /\ s.id \in Scoring(p).shares
  BY <1>2, <1>5
<1> QED BY <1>4, <1>6, <1>7, Zenon DEF unreliable, collected

LEMMA UpsertScores ==
  ASSUME NEW p \in Pair, upsert_correlation(p)
  PROVE  Upsert(p, Scoring(p))
BY Zenon DEF upsert_correlation, Scoring

\* The abandonment leaves a course of collection that may have happened.
LEMMA AbandonedWorld ==
  ASSUME ShapeInv, Abandon
  PROVE  world' \in World
<1> DEFINE Dropped(q) == IF q.status = "PENDING" THEN [q EXCEPT !.status = "INTERRUPTED"]
                                                 ELSE q
           queries == {Dropped(q) : q \in world.queries}
           Query == [city : City, source : Source,
                     status : {"PENDING", "COMPLETE"} \cup UNRELIABLE_QUERY_STATUSES]
<1>1. world' = [world EXCEPT !.queries = queries]
  BY DEF Abandon
<1>2. world.queries \subseteq Query
  BY DEF ShapeInv, World
<1>3. ASSUME NEW q \in Query PROVE Dropped(q) \in Query
  BY DEF UNRELIABLE_QUERY_STATUSES
<1>4. queries \in SUBSET Query
  BY <1>2, <1>3
<1> HIDE DEF queries
<1> QED BY <1>1, <1>4 DEF ShapeInv, World

LEMMA AgedWorld ==
  ASSUME ShapeInv, Age
  PROVE  /\ world' \in World /\ world'.queries = world.queries
         /\ world'.refused = world.refused /\ world'.uncovered = world.uncovered
         /\ world'.skipped = world.skipped
<1> DEFINE history == {h \in world.history : \E g \in world.history : g.id < h.id}
<1>1. world' = [world EXCEPT !.history = history]
  BY DEF Age
<1>2. history \subseteq world.history
  OBVIOUS
<1> HIDE DEF history
<1> QED BY <1>1, <1>2 DEF ShapeInv, World

LEMMA ShapeInit ==
  ASSUME Init
  PROVE  ShapeInv
<1>1. task \in Task
  BY Fresh DEF Init
<1>2. point \in Point
  BY DEF Init, Point
<1>3. Written = {}
  BY DEF Init, Written
<1>4. world \in World
  BY WorldsAssumption DEF Init
<1> QED BY <1>1, <1>2, <1>3, <1>4 DEF Init, ShapeInv

Answered(p) == IF Alertable(p) THEN alerts[p] # None
                               ELSE rows[p].decision \in {"BAND_NONE", "BELOW_FLOOR"}

\* Where a stage stands: the correlation it has in hand, the ones it has left;
\* an alert has its correlation, and is there only while its stage is on record.
PhaseInv ==
  /\ task.step = "link" => stage = "CORRELATING"
  /\ task.step \in {"insert", "decide"} => stage = "ALERTING" /\ Alertable(task.pair)
  /\ task.step # "next" => task.pair \in Written \ task.todo
  /\ task.step = "decide" => alerts[task.pair] # None
  /\ stage = "ALERTING" => "ALERTING" \in point.ran /\ task.todo \subseteq Written
  /\ \A p \in Pair : alerts[p] # None => p \in Written /\ "ALERTING" \in point.ran

LEMMA ShapeKept ==
  ASSUME NoneIsNoRow, ShapeInv, PhaseInv, Next
  PROVE  ShapeInv'
<1> USE DEF ShapeInv
<1>1. CASE \E p \in Pair : SkipQuiet(p)
  BY <1>1 DEF SkipQuiet, Task, Written
<1>2. ASSUME NEW p \in Pair, upsert_correlation(p) PROVE ShapeInv'
  <2>1. /\ DOMAIN rows' = Pair /\ \A q \in Pair \ {p} : rows'[q] = rows[q]
        /\ DOMAIN rows'[p] = Columns
    BY <1>2, UpsertScores, UpsertedRow
  <2>2. Scoring(p).shares \in SUBSET {s.id : s \in Pool}
    BY <1>2, ScoredAs
  <2> DEFINE shares == Scoring(p).shares
  <2>3. task' = [task EXCEPT !.todo = @ \ {p}, !.pair = p, !.linking = shares,
                             !.step = "link"]
    BY <1>2, UpsertScores DEF Upsert
  <2> HIDE DEF shares
  <2>4. task' \in Task
    BY <2>2, <2>3 DEF Task, shares
  <2>5. \A q \in Written' : DOMAIN rows'[q] = Columns
    BY <2>1 DEF Written
  <2> QED BY <1>2, <2>1, <2>4, <2>5 DEF upsert_correlation
<1>3. CASE link_correlation_signal
  <2>1. CASE task.linking = {}
    BY <1>3, <2>1, ZenonT(30) DEF link_correlation_signal, Task, Written
  <2>2. ASSUME task.linking # {}, NEW id, task' = [task EXCEPT !.linking = @ \ {id}]
        PROVE  task' \in Task
    BY <2>2 DEF Task
  <2>3. CASE task.linking # {}
    BY <1>3, <2>2, <2>3 DEF link_correlation_signal, Written
  <2> QED BY <2>1, <2>3
<1>4. CASE EndCorrelating
  BY <1>4, BeginKeeps DEF EndCorrelating, Written
<1>5. ASSUME NEW p \in Pair, RefuseAlert(p), p \in Written PROVE ShapeInv'
  <2>1. PICK d : set_alert_decision(p, d)
    BY <1>5 DEF RefuseAlert
  <2>2. /\ DOMAIN rows' = Pair /\ \A q \in Pair \ {p} : rows'[q] = rows[q]
        /\ DOMAIN rows'[p] = Columns
    BY <1>5, <2>1, DecidedRow
  <2>3. \A q \in Written' : DOMAIN rows'[q] = Columns
    BY <2>2 DEF Written
  <2> QED BY <1>5, <2>2, <2>3 DEF RefuseAlert, Task
<1>6. CASE \E p \in Pair : SkipWritten(p)
  BY <1>6 DEF SkipWritten, Task, Written
<1>7. ASSUME NEW p \in Pair, _summarise(p) PROVE ShapeInv'
  <2>1. PICK answer \in {"failed", "empty", "prose"} :
          task' = [task EXCEPT !.todo = @ \ {p}, !.pair = p, !.step = "insert",
                               !.model = answer = "prose"]
    BY <1>7 DEF _summarise
  <2> DEFINE prose == answer = "prose"
  <2>2. prose \in BOOLEAN /\ task' = [task EXCEPT !.todo = @ \ {p}, !.pair = p,
                                                  !.step = "insert", !.model = prose]
    BY <2>1
  <2> HIDE DEF prose
  <2>3. task' \in Task
    BY <2>2 DEF Task
  <2> QED BY <1>7, <2>3 DEF _summarise, Written
<1>8. CASE insert_alert
  BY <1>8 DEF insert_alert, Task, Written
<1>9. ASSUME DecideAlerted, task.pair \in Written PROVE ShapeInv'
  <2>1. /\ DOMAIN rows' = Pair /\ \A q \in Pair \ {task.pair} : rows'[q] = rows[q]
        /\ DOMAIN rows'[task.pair] = Columns
    BY <1>9, DecidedRow DEF DecideAlerted
  <2>2. \A q \in Written' : DOMAIN rows'[q] = Columns
    BY <2>1 DEF Written
  <2>3. ASSUME NEW model \in BOOLEAN
        PROVE  [task EXCEPT !.step = "next", !.pair = None, !.model = model] \in Task
    BY DEF Task
  <2>4. FALSE \in BOOLEAN
    OBVIOUS
  <2>5. task' \in Task
    BY <1>9, <2>3, <2>4, Zenon DEF DecideAlerted
  <2> QED BY <1>9, <2>1, <2>2, <2>5 DEF DecideAlerted
<1>10. CASE EndAlerting \/ NoModel
  BY <1>10, IdleIsIdle DEF EndAlerting, NoModel, Written
<1>11. CASE Crash
  <2>1. (IF stage = "open" THEN point.next ELSE stage) \in {"CORRELATING", "ALERTING", "none"}
    BY <1>11 DEF Crash, Point
  <2> DEFINE last == Stamped(IF stage = "open" THEN point.next ELSE stage)
  <2>2. last \in {"CORRELATING", "ALERTING", "none"}
    BY <2>1 DEF Stamped, Point
  <2>3. point' = [point EXCEPT !.stamp = last]
    BY <1>11, Zenon DEF Crash
  <2> HIDE DEF last
  <2>4. point' \in Point
    BY <2>2, <2>3 DEF Point
  <2> QED BY <1>11, <2>4, IdleIsIdle DEF Crash, Written
<1>12. CASE Age
  BY <1>12, AgedWorld DEF Age, Written
<1>13. CASE Resume
  <2>1. PICK s \in {"CORRELATING", "ALERTING"} : Begin(s) /\ signals' \in {signals, Pool}
    BY <1>13 DEF Resume, resume_point, Point
  <2> QED BY <1>13, <2>1, BeginKeeps DEF Resume, Written
<1>14. CASE Abandon
  BY <1>14, AbandonedWorld, BeginKeeps DEF Abandon, Written
<1>15. CASE discard_last
  <2>1. point' \in Point
    BY <1>15 DEF discard_last, Discardable, Deleted, last_completed_stage, Point
  <2>2. DOMAIN alerts' = Pair /\ DOMAIN rows' = Pair
    BY <1>15 DEF discard_last, Discardable, Deleted
  <2>3. \A p \in Written' : DOMAIN rows'[p] = Columns
    BY <1>15 DEF discard_last, Deleted, Written
  <2> QED BY <1>15, <2>1, <2>2, <2>3 DEF discard_last, Discardable, Deleted
<1>18. CASE DiscardTorn
  <2>1. \A p \in Written' : p \in Written /\ rows'[p] = rows[p]
    BY <1>18, TornDiscard DEF Written
  <2> QED BY <1>18, <2>1, TornDiscard
<1>16. \A p \in Pair : RefuseAlert(p) => p \in Written
  BY DEF PhaseInv, RefuseAlert, Considers, Running
<1>17. DecideAlerted => task.pair \in Written
  BY DEF PhaseInv, DecideAlerted, Running
<1> QED BY <1>1, <1>2, <1>3, <1>4, <1>5, <1>6, <1>7, <1>8, <1>9, <1>10, <1>11, <1>12,
           <1>13, <1>14, <1>15, <1>16, <1>17, <1>18, Zenon DEF Next

LEMMA PhaseInit ==
  ASSUME Init
  PROVE  PhaseInv
<1>1. task.step = "next"
  BY Fresh DEF Init
<1> QED BY <1>1 DEF Init, PhaseInv

\* The new alert is no absence.
LEMMA AlertWritten ==
  ASSUME NoneIsNoRow, ShapeInv, PhaseInv, insert_alert
  PROVE  /\ task.pair \in Pair /\ task'.step = "decide" /\ task'.pair = task.pair
         /\ task'.todo = task.todo
         /\ alerts'[task.pair] # None
         /\ \A q \in Pair \ {task.pair} : alerts'[q] = alerts[q]
         /\ alerts'[task.pair].gaps = rows[task.pair].gaps
         /\ alerts'[task.pair].partial
              = {st \in rows[task.pair].failed :
                   SOURCE_TYPE_FAMILY[st] \notin rows[task.pair].gaps}
         /\ alerts'[task.pair].stale = rows[task.pair].stale
<1> DEFINE r == rows[task.pair]
<1>1. task.pair \in Pair /\ DOMAIN alerts = Pair
  BY DEF PhaseInv, ShapeInv, insert_alert, Running, Written
<1> DEFINE partial == {st \in r.failed : SOURCE_TYPE_FAMILY[st] \notin r.gaps}
<1>2. _caveat(r).gaps = r.gaps /\ _caveat(r).partial = partial
  BY DEF _caveat
<1> HIDE DEF partial
<1>3. alerts' = [alerts EXCEPT ![task.pair] =
        [score |-> r.score, band |-> r.band, gaps |-> r.gaps, partial |-> partial,
         capped |-> r.capped, stale |-> r.stale, model |-> task.model]]
  BY <1>2, Zenon DEF insert_alert
<1>4. alerts'[task.pair] =
        [score |-> r.score, band |-> r.band, gaps |-> r.gaps, partial |-> partial,
         capped |-> r.capped, stale |-> r.stale, model |-> task.model]
  BY <1>1, <1>3
<1>5. "score" \in DOMAIN alerts'[task.pair]
  BY <1>4
<1>6. alerts'[task.pair] # None
  BY <1>5, Zenon DEF NoneIsNoRow
<1>7. task'.step = "decide" /\ task'.pair = task.pair /\ task'.todo = task.todo
  BY DEF insert_alert, ShapeInv, Task
<1> QED BY <1>1, <1>3, <1>4, <1>6, <1>7 DEF partial

LEMMA PhaseKept ==
  ASSUME NoneIsNoRow, ShapeInv, PhaseInv, Next
  PROVE  PhaseInv'
<1> USE DEF PhaseInv
<1>1. task \in Task /\ point \in Point
  BY DEF ShapeInv
<1>2. ASSUME NEW p \in Pair, SkipQuiet(p) PROVE PhaseInv'
  BY <1>1, <1>2 DEF SkipQuiet, Running, Task, Written
<1>3. ASSUME NEW p \in Pair, upsert_correlation(p) PROVE PhaseInv'
  <2>1. /\ rows'[p] # None /\ \A q \in Pair \ {p} : rows'[q] = rows[q]
    BY <1>3, UpsertScores, UpsertedRow
  <2>2. task'.step = "link" /\ task'.pair = p /\ task'.todo = task.todo \ {p}
    BY <1>1, <1>3, UpsertScores DEF Upsert, Task
  <2>3. Written' = Written \cup {p}
    BY <2>1 DEF Written
  <2> QED BY <1>3, <2>2, <2>3 DEF upsert_correlation, Running
<1>4. CASE link_correlation_signal
  BY <1>1, <1>4, ZenonT(30) DEF link_correlation_signal, Running, Task, Written
<1>5. CASE EndCorrelating
  <2>1. /\ stage' = "ALERTING" /\ task'.step = "next" /\ task'.todo = Written
        /\ point'.ran = point.ran \cup {"ALERTING"}
    BY <1>5, BeginKeeps DEF EndCorrelating
  <2> QED BY <1>5, <2>1 DEF EndCorrelating, Written
<1>6. ASSUME NEW p \in Pair, RefuseAlert(p) PROVE PhaseInv'
  <2>1. p \in Written /\ task.step = "next" /\ stage = "ALERTING"
    BY <1>6 DEF RefuseAlert, Considers, Running
  <2>2. PICK d : set_alert_decision(p, d)
    BY <1>6 DEF RefuseAlert
  <2>3. Written' = Written
    BY <2>1, <2>2, DecidedRow
  <2>4. task'.step = "next" /\ task'.todo \subseteq task.todo
    BY <1>1, <1>6, <2>1 DEF RefuseAlert, Task
  <2> QED BY <1>6, <2>1, <2>3, <2>4 DEF RefuseAlert
<1>7. ASSUME NEW p \in Pair, SkipWritten(p) PROVE PhaseInv'
  BY <1>1, <1>7 DEF SkipWritten, Considers, Running, Task, Written
<1>8. ASSUME NEW p \in Pair, _summarise(p) PROVE PhaseInv'
  <2>1. /\ task'.step = "insert" /\ task'.pair = p /\ task'.todo = task.todo \ {p}
    BY <1>1, <1>8 DEF _summarise, Task
  <2>2. p \in Written /\ Alertable(p) /\ stage = "ALERTING"
    BY <1>8 DEF _summarise, Considers, Running
  <2> QED BY <1>8, <2>1, <2>2 DEF _summarise, Written, Alertable
<1>9. CASE insert_alert
  BY <1>1, <1>9, AlertWritten DEF insert_alert, Running, Written, Alertable
<1>10. CASE DecideAlerted
  <2>1. task.pair \in Written /\ stage = "ALERTING"
    BY <1>10 DEF DecideAlerted, Running
  <2>2. Written' = Written
    BY <1>10, <2>1, DecidedRow DEF DecideAlerted
  <2>3. ASSUME NEW model \in BOOLEAN, NEW k,
               k = [task EXCEPT !.step = "next", !.pair = None, !.model = model]
        PROVE  k.step = "next" /\ k.todo = task.todo
    BY <1>1, <2>3 DEF Task
  <2>4. FALSE \in BOOLEAN
    OBVIOUS
  <2>5. task'.step = "next" /\ task'.todo = task.todo
    BY <1>10, <2>3, <2>4, Zenon DEF DecideAlerted
  <2> QED BY <1>10, <2>1, <2>2, <2>5 DEF DecideAlerted
<1>11. CASE EndAlerting \/ NoModel
  BY <1>11, IdleIsIdle DEF EndAlerting, NoModel, Written
<1>12. CASE Crash
  <2>1. point'.ran = point.ran
    BY <1>1, <1>12 DEF Crash, Point
  <2> QED BY <1>12, <2>1, IdleIsIdle DEF Crash, Written
<1>13. CASE Age
  BY <1>13 DEF Age, Written
<1>14. CASE Resume
  <2>1. PICK s \in {"CORRELATING", "ALERTING"} : Begin(s)
    BY <1>1, <1>14 DEF Resume, resume_point, Point
  <2> QED BY <1>14, <2>1, BeginKeeps DEF Resume, Written
<1>15. CASE Abandon
  BY <1>15, BeginKeeps DEF Abandon, Written
<1>16. CASE discard_last
  <2>1. stage \notin {"CORRELATING", "ALERTING"} /\ task.step = "next" /\ task' = task
    BY <1>1, <1>16 DEF discard_last, Discardable, Task
  <2>2. stage' = "open"
    BY <1>16 DEF discard_last, Discardable, Deleted
  <2>3. CASE "ALERTING" \in point.ran
    BY <1>16, <2>1, <2>2, <2>3 DEF discard_last, Discardable, Deleted, last_completed_stage
  <2>4. CASE "ALERTING" \notin point.ran
    <3>1. \A p \in Pair : alerts[p] = None
      BY <2>4
    <3> QED BY <1>16, <2>1, <2>2, <2>4, <3>1 DEF discard_last, Discardable, Deleted, last_completed_stage
  <2> QED BY <2>3, <2>4
<1>17. CASE DiscardTorn
  <2>1. stage \notin {"CORRELATING", "ALERTING"} /\ task.step = "next" /\ task' = task
        /\ stage' \notin {"CORRELATING", "ALERTING"}
    BY <1>1, <1>17, TornDiscard DEF Task
  <2>2. CASE "ALERTING" \in point.ran
    BY <1>17, <2>1, <2>2, TornDiscard
  <2>3. CASE "ALERTING" \notin point.ran
    BY <1>17, <2>1, <2>3, TornDiscard
  <2> QED BY <2>2, <2>3
<1> QED BY <1>2, <1>3, <1>4, <1>5, <1>6, <1>7, <1>8, <1>9, <1>10, <1>11, <1>12, <1>13,
           <1>14, <1>15, <1>16, <1>17, Zenon DEF Next

-----------------------------------------------------------------------------
(* Every correlation is answered.                                          *)

AnswerInv ==
  /\ stage = "ALERTING" =>
       \A p \in Written \ task.todo :
         Answered(p) \/ (task.step # "next" /\ p = task.pair)
  /\ stage = "done" /\ ~point.torn => \A p \in Written : Answered(p)

\* What is alerted or refused stays so while its row and its alert are there.
LEMMA AnswerStays ==
  ASSUME NEW p \in Pair, Answered(p), rows'[p] = rows[p],
         alerts[p] # None => alerts'[p] # None
  PROVE  Answered(p)'
BY DEF Answered, Alertable

LEMMA AnswerKept ==
  ASSUME NoneIsNoRow, ShapeInv, PhaseInv, AnswerInv, Next
  PROVE  AnswerInv'
<1> USE DEF AnswerInv
<1>1. task \in Task /\ \A p \in Written : p \in Pair
  BY DEF ShapeInv, Written
<1>2. ASSUME NEW p \in Pair, SkipQuiet(p) \/ upsert_correlation(p) PROVE AnswerInv'
  BY <1>2 DEF SkipQuiet, upsert_correlation, Running
<1>3. CASE link_correlation_signal
  BY <1>3 DEF link_correlation_signal, Running
<1>4. CASE EndCorrelating
  <2>1. stage' = "ALERTING" /\ task'.todo = Written /\ Written' = Written
    BY <1>4, BeginKeeps DEF EndCorrelating, Written
  <2> QED BY <2>1
<1>5. ASSUME NEW p \in Pair, RefuseAlert(p) PROVE AnswerInv'
  <2>1. p \in Written /\ task.step = "next" /\ stage = "ALERTING" /\ stage' = stage
    BY <1>5 DEF RefuseAlert, Considers, Running, PhaseInv
  <2>2. PICK d \in {"BELOW_FLOOR", "BAND_NONE"} : set_alert_decision(p, d)
    BY <1>5 DEF RefuseAlert
  <2>3. /\ \A q \in Pair \ {p} : rows'[q] = rows[q]
        /\ rows'[p].decision = d /\ rows'[p].score = rows[p].score
        /\ rows'[p].band = rows[p].band /\ Written' = Written
    BY <2>1, <2>2, DecidedRow
  <2>4. Answered(p)'
    BY <1>5, <2>3 DEF Answered, Alertable, RefuseAlert
  <2>5. task'.todo = task.todo \ {p} /\ alerts' = alerts
    BY <1>1, <1>5 DEF RefuseAlert, Task
  <2>6. ASSUME NEW q \in Written, q \notin task.todo PROVE Answered(q)'
    BY <1>1, <2>1, <2>3, <2>4, <2>5, <2>6, AnswerStays
  <2> QED BY <2>1, <2>3, <2>4, <2>5, <2>6
<1>6. ASSUME NEW p \in Pair, SkipWritten(p) PROVE AnswerInv'
  <2>1. task'.todo = task.todo \ {p} /\ task'.step = task.step /\ task'.pair = task.pair
    BY <1>1, <1>6 DEF SkipWritten, Task
  <2>2. Answered(p)
    BY <1>6 DEF SkipWritten, Answered, HasAlert
  <2> QED BY <1>6, <2>1, <2>2
          DEF SkipWritten, Considers, Running, Written, Answered, Alertable
<1>7. ASSUME NEW p \in Pair, _summarise(p) PROVE AnswerInv'
  <2>1. task'.todo = task.todo \ {p} /\ task'.step = "insert" /\ task'.pair = p
    BY <1>1, <1>7 DEF _summarise, Task
  <2>2. stage = "ALERTING" /\ stage' = stage /\ task.step = "next"
        /\ rows' = rows /\ alerts' = alerts
    BY <1>7 DEF _summarise, Considers, Running
  <2>3. \A q \in Written' \ task'.todo : Answered(q)' \/ q = p
    BY <2>1, <2>2 DEF Answered, Alertable, Written
  <2> QED BY <2>1, <2>2, <2>3
<1>8. CASE insert_alert
  <2>1. /\ stage = "ALERTING" /\ stage' = stage /\ rows' = rows
    BY <1>8 DEF insert_alert, Running
  <2>2. ASSUME NEW q \in Written, Answered(q) PROVE Answered(q)'
    BY <1>1, <1>8, <2>1, <2>2, AlertWritten, AnswerStays
  <2>3. task'.todo = task.todo /\ task'.step # "next" /\ task'.pair = task.pair
    BY <1>8, AlertWritten
  <2> QED BY <2>1, <2>2, <2>3 DEF Written
<1>9. CASE DecideAlerted
  <2>1. /\ task.pair \in Written /\ stage = "ALERTING" /\ stage' = stage /\ alerts' = alerts
        /\ Alertable(task.pair) /\ alerts[task.pair] # None
    BY <1>9 DEF DecideAlerted, Running, PhaseInv
  <2>2. /\ \A q \in Pair \ {task.pair} : rows'[q] = rows[q]
        /\ rows'[task.pair].score = rows[task.pair].score
        /\ rows'[task.pair].band = rows[task.pair].band /\ Written' = Written
    BY <1>9, <2>1, DecidedRow DEF DecideAlerted
  <2>3. ASSUME NEW q \in Written, q = task.pair PROVE Answered(q)'
    <3>1. alerts'[q] # None /\ rows'[q].score = rows[q].score /\ rows'[q].band = rows[q].band
      BY <2>1, <2>2, <2>3
    <3>2. Alertable(q)'
      BY <2>1, <2>3, <3>1 DEF Alertable
    <3> QED BY <3>1, <3>2 DEF Answered
  <2>4. ASSUME NEW q \in Written, Answered(q), q # task.pair PROVE Answered(q)'
    BY <1>1, <2>1, <2>2, <2>4, AnswerStays
  <2>5. task'.todo = task.todo
    <3>1. ASSUME NEW model \in BOOLEAN, NEW k,
                 k = [task EXCEPT !.step = "next", !.pair = None, !.model = model]
          PROVE  k.todo = task.todo
      BY <1>1, <3>1 DEF Task
    <3>2. FALSE \in BOOLEAN
      OBVIOUS
    <3> QED BY <1>9, <3>1, <3>2, Zenon DEF DecideAlerted
  <2> QED BY <2>1, <2>2, <2>3, <2>4, <2>5
<1>10. CASE EndAlerting
  <2>1. stage = "ALERTING" /\ task.step = "next" /\ task.todo = {} /\ stage' = "done"
        /\ rows' = rows /\ alerts' = alerts
    BY <1>10 DEF EndAlerting, Running
  <2> QED BY <2>1 DEF Answered, Alertable, Written
<1>11. CASE NoModel
  BY <1>11 DEF NoModel
<1>12. CASE Crash
  BY <1>12 DEF Crash
<1>13. CASE Age
  BY <1>13 DEF Age
<1>14. CASE Resume
  <2>1. PICK s \in {"CORRELATING", "ALERTING"} : Begin(s)
    BY <1>14 DEF Resume, resume_point, ShapeInv, Point
  <2>2. stage' = s /\ task'.todo = (IF s = "CORRELATING" THEN Pair ELSE Written)
        /\ Written' = Written
    BY <1>14, <2>1, BeginKeeps DEF Resume, Written
  <2> QED BY <2>2
<1>15. CASE Abandon
  BY <1>15, BeginKeeps DEF Abandon
<1>16. CASE discard_last
  BY <1>16 DEF discard_last, Discardable, Deleted
<1>17. CASE DiscardTorn
  BY <1>17, TornDiscard
<1> QED BY <1>2, <1>3, <1>4, <1>5, <1>6, <1>7, <1>8, <1>9, <1>10, <1>11, <1>12, <1>13,
           <1>14, <1>15, <1>16, <1>17, Zenon DEF Next

\* What the steps that change nothing keep.
LEMMA Stutter ==
  ASSUME UNCHANGED vars, ShapeInv, PhaseInv, AnswerInv
  PROVE  ShapeInv' /\ PhaseInv' /\ AnswerInv'
BY DEF vars, ShapeInv, PhaseInv, AnswerInv, Written, Answered, Alertable

LEMMA BaseInvHolds ==
  ASSUME NoneIsNoRow
  PROVE  Spec => [](ShapeInv /\ PhaseInv /\ AnswerInv)
<1>1. Init => ShapeInv /\ PhaseInv /\ AnswerInv
  BY ShapeInit, PhaseInit DEF Init, AnswerInv
<1>2. ShapeInv /\ PhaseInv /\ AnswerInv /\ [Next]_vars
        => (ShapeInv /\ PhaseInv /\ AnswerInv)'
  BY NoneIsNoRow, ShapeKept, PhaseKept, AnswerKept, Stutter
<1> QED BY <1>1, <1>2, PTL DEF Spec

\* A stage that ended has answered for every correlation, whatever crashes,
\* resumptions, re-scorings and discards came before, and however many, if no
\* discard died half-way: nothing qualifies without an alert or is refused
\* without a reason on record.
THEOREM EveryRowHasAnswer ==
  ASSUME NoneIsNoRow
  PROVE  Spec => []EveryRowAnswered
<1>1. AnswerInv => EveryRowAnswered
  BY DEF AnswerInv, EveryRowAnswered, Answered
<1> QED BY <1>1, BaseInvHolds, PTL

-----------------------------------------------------------------------------
(* Nothing that was lost reads as quiet.                                   *)

\* One crash and one stage discarded: the stage an iteration was interrupted at
\* stays on its row for good, so that after more it may be resumed past a stage
\* that was undone, and a city that lost everything has no correlation at all.
UndoneOnce == MaxUpsets = 0 \/ (MaxUpsets = 1 /\ MaxDiscards <= 1)

\* The correlation of a city that lost something tells what, and is below HIGH.
Covered(p) ==
  Unreliable(p[1]) # {} =>
    /\ p \in Written /\ rows[p].band # "HIGH" /\ rows[p].failed = Unreliable(p[1])
    /\ rows[p].gaps = Families(Unreliable(p[1])) \ Families(collected_source_types(p[1]))

\* A row that may alert is said to be stale or links to evidence of this
\* iteration; while it is being linked, some such link may still be to come.
OwnShown(p) ==
  p \in Written /\ rows[p].band \in ALERT_BANDS => rows[p].stale \/ LinkedOwn(p) # {}
OwnDue(p) ==
  p \in Written /\ rows[p].band \in ALERT_BANDS =>
    \/ rows[p].stale
    \/ \E s \in signals : s.made = 0 /\ (<<p, s.id>> \in links \/ s.id \in task.linking)

Ready == \A p \in Pair : Covered(p) /\ OwnShown(p)

\* A stage that relies on the correlations finds every one of them ready, and
\* an iteration is resumed there only if it would.
Prepared ==
  /\ stage \in {"ALERTING", "done", "failed"} => Ready
  /\ stage = "open" /\ resume_point = "ALERTING" => Ready
  /\ stage = "CORRELATING" =>
       \A p \in Pair \ task.todo :
         /\ Covered(p)
         /\ OwnShown(p) \/ (task.step = "link" /\ p = task.pair /\ OwnDue(p))

\* But after a discard that died half-way nothing is known of it.
ReadyInv == point.torn \/ Prepared

\* A city is passed over as quiet only as long as it has no row.
NotQuietInv == \A p \in Written : ~Quiet(p[1])

\* The stamp is the work of a crash, and only a discard takes the record of the
\* stage on it away.
StampInv ==
  /\ upsets <= MaxUpsets /\ discards <= MaxDiscards
  /\ point.stamp # "none" => upsets >= 1
  /\ stage = "open" /\ point.stamp = "none" =>
       "ALERTING" \notin point.ran /\ discards >= 1
  /\ point.stamp = "ALERTING" /\ discards = 0 => "ALERTING" \in point.ran

LEMMA StampInit ==
  ASSUME Init
  PROVE  StampInv
BY ScaleAssumption DEF Init, StampInv

LEMMA StampKept ==
  ASSUME ShapeInv, PhaseInv, StampInv, Next
  PROVE  StampInv'
<1> USE ScaleAssumption DEF StampInv
<1>1. /\ point \in Point /\ upsets \in Nat /\ discards \in Nat
  BY DEF ShapeInv
<1>2. CASE UNCHANGED <<stage, point, upsets, discards>>
  BY <1>2
<1>3. CASE EndCorrelating
  BY <1>1, <1>3, BeginKeeps DEF EndCorrelating
<1>4. CASE EndAlerting \/ NoModel
  BY <1>1, <1>4 DEF EndAlerting, NoModel
<1>5. CASE Crash
  <2>1. point'.ran = point.ran /\ point'.stamp = IF point.stamp # "none" THEN point.stamp
                                ELSE IF stage = "open" THEN point.next ELSE stage
    BY <1>1, <1>5 DEF Crash, Stamped, Point
  <2>2. point'.stamp # "none"
    BY <1>1, <1>5, <2>1 DEF Crash, Point
  <2>3. ASSUME point'.stamp = "ALERTING", discards = 0 PROVE "ALERTING" \in point.ran
    BY <1>1, <1>5, <2>1, <2>3 DEF Crash, PhaseInv
  <2> QED BY <1>1, <1>5, <2>1, <2>2, <2>3 DEF Crash
<1>6. CASE Resume \/ Abandon
  <2>1. PICK s \in {"CORRELATING", "ALERTING"} : Begin(s)
    BY <1>1, <1>6 DEF Resume, Abandon, resume_point, Point
  <2>2. upsets' = upsets /\ discards' = discards
    BY <1>6 DEF Resume, Abandon
  <2> QED BY <1>1, <2>1, <2>2, BeginKeeps
<1>7. CASE discard_last
  <2>1. /\ point'.stamp = point.stamp
        /\ point'.ran = point.ran \ {last_completed_stage}
        /\ "ALERTING" \notin point'.ran /\ discards' = discards + 1 /\ upsets' = upsets
        /\ discards < MaxDiscards
    BY <1>1, <1>7 DEF discard_last, Discardable, Deleted, last_completed_stage, Point
  <2> QED BY <1>1, <2>1
<1>8. CASE DiscardTorn
  BY <1>1, <1>8, TornDiscard
<1> QED BY <1>2, <1>3, <1>4, <1>5, <1>6, <1>7, <1>8
        DEF Next, SkipQuiet, upsert_correlation, link_correlation_signal, RefuseAlert,
            SkipWritten, _summarise, insert_alert, DecideAlerted, Age

\* What was lost goes by the queries, the refusals and the stages skipped.
LEMMA LossSame ==
  ASSUME world'.queries = world.queries, world'.refused = world.refused,
         world'.uncovered = world.uncovered, world'.skipped = world.skipped
  PROVE  \A c : /\ Unreliable(c)' = Unreliable(c)
                /\ collected_source_types(c)' = collected_source_types(c)
BY DEF Unreliable, unreliable_source_types, refused_source_types, collected_source_types

\* What was lost stays lost when the rest is given up.
LEMMA LossGrows ==
  ASSUME ShapeInv, Abandon, NEW c
  PROVE  Unreliable(c) \subseteq Unreliable(c)'
<1> DEFINE Dropped(q) == IF q.status = "PENDING" THEN [q EXCEPT !.status = "INTERRUPTED"]
                                                 ELSE q
           queries == {Dropped(q) : q \in world.queries}
<1>1. world' = [world EXCEPT !.queries = queries]
  BY DEF Abandon
<1>2. ASSUME NEW q \in world.queries, q.status \in UNRELIABLE_QUERY_STATUSES
      PROVE  q \in queries
  BY <1>2 DEF UNRELIABLE_QUERY_STATUSES
<1> HIDE DEF queries
<1>3. /\ world'.queries = queries /\ world'.refused = world.refused
      /\ world'.uncovered = world.uncovered /\ world'.skipped = world.skipped
  BY <1>1 DEF ShapeInv, World
<1>4. unreliable_source_types(c) \subseteq unreliable_source_types(c)'
  BY <1>2, <1>3 DEF unreliable_source_types
<1>5. refused_source_types(c)' = refused_source_types(c)
  BY <1>3 DEF refused_source_types
<1> QED BY <1>3, <1>4, <1>5 DEF Unreliable

\* A city that is not quiet is not quiet again: evidence is never taken away.
LEMMA NeverQuietAgain ==
  ASSUME NEW c, ~Quiet(c), signals \subseteq signals', Unreliable(c) \subseteq Unreliable(c)'
  PROVE  ~Quiet(c)'
BY DEF Quiet, Confirmed

LEMMA NotQuietKept ==
  ASSUME NoneIsNoRow, ShapeInv, PhaseInv, NotQuietInv, Next
  PROVE  NotQuietInv'
<1> USE DEF NotQuietInv
<1>1. ASSUME NEW p \in Pair, upsert_correlation(p) PROVE NotQuietInv'
  <2>1. \A q \in Pair \ {p} : rows'[q] = rows[q]
    BY <1>1, UpsertScores, UpsertedRow
  <2>2. \A q \in Written' : q \in Written \/ q = p
    BY <2>1 DEF Written
  <2>3. ~Quiet(p[1])
    BY <1>1 DEF upsert_correlation
  <2>4. signals' = signals /\ world' = world
    BY <1>1 DEF upsert_correlation
  <2>5. \A q \in Written' : ~Quiet(q[1])
    BY <2>2, <2>3
  <2> QED BY <2>4, <2>5, LossSame, NeverQuietAgain
<1>2. ASSUME Written' \subseteq Written, signals \subseteq signals',
             world'.queries = world.queries, world'.refused = world.refused,
             world'.uncovered = world.uncovered, world'.skipped = world.skipped
      PROVE  NotQuietInv'
  BY <1>2, LossSame, NeverQuietAgain
<1>3. ASSUME NEW p \in Written, NEW d, set_alert_decision(p, d), UNCHANGED <<signals, world>>
      PROVE  NotQuietInv'
  BY <1>2, <1>3, DecidedRow
<1>4. CASE UNCHANGED <<signals, world, rows>>
  BY <1>2, <1>4 DEF Written
<1>5. ASSUME NEW p \in Pair, RefuseAlert(p) PROVE NotQuietInv'
  BY <1>3, <1>5 DEF RefuseAlert, Considers, Running, PhaseInv
<1>6. CASE DecideAlerted
  BY <1>3, <1>6 DEF DecideAlerted, Running, PhaseInv
<1>7. CASE Age
  BY <1>2, <1>7, AgedWorld DEF Age, Written
<1>8. CASE Resume
  <2>1. signals \subseteq signals' /\ world' = world /\ rows' = rows
    BY <1>8 DEF Resume, ShapeInv
  <2> QED BY <1>2, <2>1 DEF Written
<1>9. CASE Abandon
  <2>1. Written' = Written /\ signals' = signals
    BY <1>9 DEF Abandon, Written
  <2> QED BY <1>9, <2>1, LossGrows, NeverQuietAgain
<1>10. CASE discard_last
  <2>1. Written' \subseteq Written
    BY <1>10 DEF discard_last, Deleted, Written
  <2> QED BY <1>2, <1>10, <2>1 DEF discard_last, Discardable, Deleted
<1>11. CASE DiscardTorn
  <2>1. Written' \subseteq Written /\ signals' = signals /\ world' = world
    BY <1>11, TornDiscard DEF Written
  <2> QED BY <1>2, <2>1
<1> QED BY <1>1, <1>4, <1>5, <1>6, <1>7, <1>8, <1>9, <1>10, <1>11
        DEF Next, SkipQuiet, link_correlation_signal, EndCorrelating, SkipWritten,
            _summarise, insert_alert, EndAlerting, NoModel, Crash

\* A row that keeps its verdict, its links and what was lost stays ready.
LEMMA CoveredStays ==
  ASSUME NEW p \in Pair, Covered(p), p \in Written => p \in Written',
         p \in Written => rows'[p].band = rows[p].band /\ rows'[p].failed = rows[p].failed
                          /\ rows'[p].gaps = rows[p].gaps,
         Unreliable(p[1])' = Unreliable(p[1]),
         collected_source_types(p[1])' = collected_source_types(p[1])
  PROVE  Covered(p)'
BY DEF Covered

LEMMA OwnShownStays ==
  ASSUME NEW p \in Pair, OwnShown(p), p \in Written' => p \in Written,
         p \in Written => rows'[p].band = rows[p].band /\ rows'[p].stale = rows[p].stale,
         links \subseteq links', signals \subseteq signals'
  PROVE  OwnShown(p)'
BY DEF OwnShown, LinkedOwn

\* While the verdicts stand, what is ready stays so.
LEMMA VerdictsStand ==
  ASSUME Written' = Written,
         \A p \in Written : /\ rows'[p].band = rows[p].band
                            /\ rows'[p].failed = rows[p].failed
                            /\ rows'[p].gaps = rows[p].gaps
                            /\ rows'[p].stale = rows[p].stale,
         links \subseteq links', signals \subseteq signals',
         world'.queries = world.queries, world'.refused = world.refused,
         world'.uncovered = world.uncovered, world'.skipped = world.skipped
  PROVE  \A p \in Pair : (Covered(p) => Covered(p)') /\ (OwnShown(p) => OwnShown(p)')
BY CoveredStays, OwnShownStays, LossSame

LEMMA PreparedInit ==
  ASSUME Init
  PROVE  Prepared /\ NotQuietInv
<1>1. task.todo = Pair
  BY Fresh DEF Init
<1> QED BY <1>1 DEF Init, Prepared, NotQuietInv, Written

\* A city and track scored anew is as its collection was, and its links follow.
LEMMA ScoredReady ==
  ASSUME NoneIsNoRow, ShapeInv, NEW p \in Pair, upsert_correlation(p)
  PROVE  /\ Covered(p)' /\ OwnDue(p)'
         /\ task'.todo = task.todo \ {p} /\ task'.step = "link" /\ task'.pair = p
<1> DEFINE r == Scoring(p)
<1>1. Upsert(p, r) /\ signals' = signals /\ world' = world
  BY UpsertScores DEF upsert_correlation
<1>2. /\ p \in Written' /\ rows'[p].band = r.band /\ rows'[p].failed = r.failed
      /\ rows'[p].gaps = r.gaps /\ rows'[p].stale = r.stale
  BY <1>1, UpsertedRow DEF Written
<1>3. /\ task'.linking = r.shares /\ task'.todo = task.todo \ {p}
      /\ task'.step = "link" /\ task'.pair = p
  BY <1>1 DEF Upsert, ShapeInv, Task
<1>4. /\ r.failed = Unreliable(p[1])
      /\ r.gaps = Families(Unreliable(p[1])) \ Families(collected_source_types(p[1]))
      /\ Unreliable(p[1]) # {} => r.band # "HIGH"
      /\ r.band \in ALERT_BANDS /\ ~r.stale
           => \E s \in signals : s.made = 0 /\ s.id \in r.shares
  BY ScoredAs
<1> HIDE DEF r
<1>5. /\ Unreliable(p[1])' = Unreliable(p[1])
      /\ collected_source_types(p[1])' = collected_source_types(p[1])
  BY <1>1, LossSame
<1>6. Covered(p)'
  BY <1>2, <1>4, <1>5 DEF Covered
<1>7. OwnDue(p)'
  BY <1>1, <1>2, <1>3, <1>4 DEF OwnDue
<1> QED BY <1>3, <1>6, <1>7

LEMMA LinkedReady ==
  ASSUME ShapeInv, PhaseInv, Prepared, link_correlation_signal
  PROVE  Prepared'
<1>1. /\ stage = "CORRELATING" /\ stage' = stage /\ task.step = "link"
      /\ rows' = rows /\ signals' = signals /\ world' = world
      /\ task \in Task /\ task.pair \in Pair
  BY DEF link_correlation_signal, Running, PhaseInv, ShapeInv, Written
<1>2. links \subseteq links' /\ task'.todo = task.todo
  BY <1>1 DEF link_correlation_signal, Task
<1>3. \A p \in Pair : (Covered(p) => Covered(p)') /\ (OwnShown(p) => OwnShown(p)')
  BY <1>1, <1>2, VerdictsStand DEF Written
<1>4. CASE task.linking = {}
  <2>1. task'.step = "next" /\ links' = links
    BY <1>1, <1>4 DEF link_correlation_signal, Task
  <2>2. OwnDue(task.pair) => OwnShown(task.pair)
    BY <1>4 DEF OwnDue, OwnShown, LinkedOwn
  <2>3. \A p \in Pair \ task.todo : Covered(p) /\ OwnShown(p)
    BY <1>1, <2>2 DEF Prepared
  <2> QED BY <1>1, <1>2, <1>3, <2>3 DEF Prepared
<1>5. CASE task.linking # {}
  <2>1. PICK id : /\ links' = links \cup {<<task.pair, id>>}
                  /\ task' = [task EXCEPT !.linking = @ \ {id}]
    BY <1>1, <1>5 DEF link_correlation_signal
  <2>2. /\ task'.linking = task.linking \ {id} /\ task'.step = "link"
        /\ task'.pair = task.pair
    BY <1>1, <2>1 DEF Task
  <2>3. ASSUME OwnDue(task.pair) PROVE OwnDue(task.pair)'
    <3>1. \A s \in signals : <<task.pair, s.id>> \in links \/ s.id \in task.linking
            => <<task.pair, s.id>> \in links' \/ s.id \in task'.linking
      BY <2>1, <2>2
    <3> DEFINE p == task.pair
    <3>2. p' = p
      BY <2>2
    <3> QED BY <1>1, <2>2, <2>3, <3>1 DEF OwnDue, Written
  <2> QED BY <1>1, <1>2, <1>3, <2>2, <2>3 DEF Prepared
<1> QED BY <1>4, <1>5

LEMMA PreparedKept ==
  ASSUME NoneIsNoRow, UndoneOnce, ShapeInv, PhaseInv, StampInv, NotQuietInv, Prepared, Next,
         ~DiscardTorn
  PROVE  Prepared'
<1>1. task \in Task /\ point \in Point /\ upsets \in Nat /\ discards \in Nat
  BY DEF ShapeInv
<1>2. ASSUME NEW p \in Pair, SkipQuiet(p) PROVE Prepared'
  <2>1. /\ task'.todo = task.todo \ {p} /\ task.step = "next" /\ stage = "CORRELATING"
        /\ stage' = stage
    BY <1>1, <1>2 DEF SkipQuiet, Running, Task
  <2>2. \A q \in Pair : (Covered(q) => Covered(q)') /\ (OwnShown(q) => OwnShown(q)')
    BY <1>2, VerdictsStand DEF SkipQuiet, Written
  <2>3. Unreliable(p[1]) = {} /\ p \notin Written
    BY <1>2 DEF SkipQuiet, Quiet, NotQuietInv
  <2>4. Covered(p) /\ OwnShown(p)
    BY <2>3 DEF Covered, OwnShown
  <2> QED BY <2>1, <2>2, <2>4 DEF Prepared
<1>3. ASSUME NEW p \in Pair, upsert_correlation(p) PROVE Prepared'
  <2>1. /\ stage = "CORRELATING" /\ task.step = "next" /\ stage' = stage
        /\ signals' = signals /\ world' = world /\ links' = links
    BY <1>3 DEF upsert_correlation, Running
  <2>2. /\ Covered(p)' /\ OwnDue(p)'
        /\ task'.todo = task.todo \ {p} /\ task'.step = "link" /\ task'.pair = p
    BY <1>3, ScoredReady
  <2>3. \A q \in Pair \ {p} : rows'[q] = rows[q]
    BY <1>3, UpsertScores, UpsertedRow
  <2>4. ASSUME NEW q \in Pair \ {p}, q \notin task.todo PROVE Covered(q)' /\ OwnShown(q)'
    <3>1. Covered(q) /\ OwnShown(q)
      BY <2>1, <2>4 DEF Prepared
    <3>2. (q \in Written' <=> q \in Written) /\ rows'[q] = rows[q]
      BY <2>3, <2>4 DEF Written
    <3>3. /\ Unreliable(q[1])' = Unreliable(q[1])
          /\ collected_source_types(q[1])' = collected_source_types(q[1])
      BY <2>1, LossSame
    <3>4. Covered(q)'
      BY <3>1, <3>2, <3>3, CoveredStays
    <3> QED BY <2>1, <3>1, <3>2, <3>4, OwnShownStays
  <2> QED BY <2>1, <2>2, <2>4 DEF Prepared
<1>4. CASE link_correlation_signal
  BY <1>4, LinkedReady
<1>5. CASE EndCorrelating
  <2>1. stage' = "ALERTING"
    BY <1>5, BeginKeeps DEF EndCorrelating
  <2>2. Ready
    BY <1>5 DEF EndCorrelating, Running, Prepared, Ready
  <2>3. \A q \in Pair : (Covered(q) => Covered(q)') /\ (OwnShown(q) => OwnShown(q)')
    BY <1>5, VerdictsStand DEF EndCorrelating, Written
  <2> QED BY <2>1, <2>2, <2>3 DEF Prepared, Ready
<1>6. ASSUME NEW p \in Written, NEW d, set_alert_decision(p, d), stage = "ALERTING",
             UNCHANGED <<signals, world, links, stage>>
      PROVE  Prepared'
  <2>1. \A q \in Pair : (Covered(q) => Covered(q)') /\ (OwnShown(q) => OwnShown(q)')
    <3>1. /\ \A q \in Written : /\ rows'[q].band = rows[q].band
                                /\ rows'[q].failed = rows[q].failed
                                /\ rows'[q].gaps = rows[q].gaps
                                /\ rows'[q].stale = rows[q].stale
          /\ Written' = Written
      <4>1. /\ \A q \in Pair \ {p} : rows'[q] = rows[q]
            /\ rows'[p].failed = rows[p].failed /\ rows'[p].gaps = rows[p].gaps
            /\ rows'[p].stale = rows[p].stale /\ rows'[p].band = rows[p].band
            /\ Written' = Written
        BY <1>6, DecidedRow
      <4> QED BY <4>1 DEF Written
    <3> QED BY <1>6, <3>1, VerdictsStand
  <2> QED BY <1>6, <2>1 DEF Prepared, Ready
<1>7. ASSUME NEW p \in Pair, RefuseAlert(p) PROVE Prepared'
  BY <1>6, <1>7 DEF RefuseAlert, Considers, Running, PhaseInv
<1>8. CASE DecideAlerted
  BY <1>6, <1>8 DEF DecideAlerted, Running, PhaseInv
<1>9. ASSUME UNCHANGED <<signals, world, rows, links>>,
             stage = "ALERTING", stage' \in {"ALERTING", "done", "failed"}
      PROVE  Prepared'
  <2>1. \A q \in Pair : (Covered(q) => Covered(q)') /\ (OwnShown(q) => OwnShown(q)')
    BY <1>9, VerdictsStand DEF Written
  <2> QED BY <1>9, <2>1 DEF Prepared, Ready
<1>10. ASSUME NEW p \in Pair, SkipWritten(p) \/ _summarise(p) PROVE Prepared'
  BY <1>9, <1>10 DEF SkipWritten, _summarise, Considers, Running
<1>11. CASE insert_alert \/ EndAlerting \/ NoModel
  BY <1>9, <1>11 DEF insert_alert, EndAlerting, NoModel, Running
<1>12. CASE Crash
  <2>1. /\ point'.stamp = IF point.stamp # "none" THEN point.stamp
                          ELSE IF stage = "open" THEN point.next ELSE stage
        /\ stage' = "open"
    BY <1>1, <1>12 DEF Crash, Stamped, Point
  <2>2. point.stamp = "none"
    BY <1>1, <1>12, ScaleAssumption DEF Crash, StampInv, UndoneOnce
  <2>3. resume_point' = "ALERTING" => Ready
    BY <1>1, <1>12, <2>1, <2>2 DEF Crash, resume_point, Prepared
  <2>4. \A q \in Pair : (Covered(q) => Covered(q)') /\ (OwnShown(q) => OwnShown(q)')
    BY <1>12, VerdictsStand DEF Crash, Written
  <2> QED BY <2>1, <2>3, <2>4 DEF Prepared, Ready
<1>13. CASE Age
  <2>1. stage = "open" /\ stage' = "open" /\ resume_point' = resume_point
    BY <1>13 DEF Age, resume_point
  <2>2. \A q \in Pair : (Covered(q) => Covered(q)') /\ (OwnShown(q) => OwnShown(q)')
    BY <1>13, AgedWorld, VerdictsStand DEF Age, Written
  <2> QED BY <2>1, <2>2 DEF Prepared, Ready
<1>14. ASSUME Begin("CORRELATING") PROVE Prepared'
  <2>1. stage' = "CORRELATING" /\ task'.todo = Pair
    BY <1>14, BeginKeeps
  <2> QED BY <2>1 DEF Prepared
<1>15. CASE Resume
  <2>1. CASE Begin("CORRELATING")
    BY <1>14, <2>1
  <2>2. CASE resume_point = "ALERTING" /\ Begin("ALERTING") /\ signals' = signals
    <3>1. stage' = "ALERTING" /\ Ready
      BY <1>15, <2>2, BeginKeeps DEF Resume, Prepared
    <3>2. \A q \in Pair : (Covered(q) => Covered(q)') /\ (OwnShown(q) => OwnShown(q)')
      BY <1>15, <2>2, VerdictsStand DEF Resume, Written
    <3> QED BY <3>1, <3>2 DEF Prepared, Ready
  <2> QED BY <1>1, <1>15, <2>1, <2>2 DEF Resume, resume_point, Point
<1>16. CASE Abandon
  BY <1>14, <1>16 DEF Abandon
<1>17. CASE discard_last
  <2>1. /\ stage \in {"open", "done", "failed"} /\ stage' = "open"
        /\ discards < MaxDiscards /\ point'.stamp = point.stamp
        /\ point'.next = last_completed_stage
    BY <1>1, <1>17 DEF discard_last, Discardable, Deleted, last_completed_stage, Point
  <2>2. CASE "ALERTING" \in point.ran
    <3>1. rows' = rows /\ links' = links /\ signals' = signals /\ world' = world
      BY <1>17, <2>2 DEF discard_last, Discardable, Deleted, last_completed_stage
    <3>2. \A q \in Pair : (Covered(q) => Covered(q)') /\ (OwnShown(q) => OwnShown(q)')
      BY <3>1, VerdictsStand DEF Written
    <3>3. resume_point' = "ALERTING" => Ready
      BY <1>1, <2>1, <2>2 DEF resume_point, Prepared, StampInv
    <3> QED BY <2>1, <3>2, <3>3 DEF Prepared, Ready
  <2>3. CASE "ALERTING" \notin point.ran
    <3>1. point.stamp # "ALERTING"
      BY <1>1, <2>1, <2>3, ScaleAssumption DEF StampInv, UndoneOnce
    <3>2. resume_point' # "ALERTING"
      BY <1>1, <2>1, <2>3, <3>1 DEF resume_point, last_completed_stage, Point
    <3> QED BY <2>1, <3>2 DEF Prepared
  <2> QED BY <2>2, <2>3
<1> QED BY <1>2, <1>3, <1>4, <1>5, <1>7, <1>8, <1>10, <1>11, <1>12, <1>13, <1>15,
           <1>16, <1>17, Zenon DEF Next

\* Whatever was asked and not answered, or refused, makes its source unreliable.
LEMMA LostIsUnreliable ==
  ASSUME ShapeInv, NEW c \in City
  PROVE  Lost(c) \subseteq Unreliable(c)
<1>1. \A q \in world.queries :
        q.status \in {"PENDING", "COMPLETE"} \cup UNRELIABLE_QUERY_STATUSES
  BY DEF ShapeInv, World
<1>2. ASSUME NEW st \in Lost(c)
      PROVE  st \in unreliable_source_types(c) \/ st \in refused_source_types(c)
  BY <1>1, <1>2 DEF Lost, unreliable_source_types, refused_source_types
<1> QED BY <1>2 DEF Unreliable

LEMMA SkippedIsLost ==
  ASSUME ShapeInv, NEW c, world.uncovered \/ world.skipped # {}
  PROVE  Unreliable(c) # {}
<1>1. CASE world.uncovered
  BY <1>1 DEF Unreliable
<1>2. ASSUME NEW s \in world.skipped PROVE Unreliable(c) # {}
  <2>1. s \in DOMAIN STAGE_SOURCE_TYPES
    BY <1>2 DEF ShapeInv, World
  <2>2. STAGE_SOURCE_TYPES[s] # {}
    BY <2>1 DEF STAGE_SOURCE_TYPES
  <2>3. source_types_for_skipped(world.skipped) # {}
    BY <1>2, <2>2 DEF source_types_for_skipped
  <2> QED BY <2>3 DEF Unreliable
<1> QED BY <1>1, <1>2

LEMMA ReadyInvHolds ==
  ASSUME NoneIsNoRow, UndoneOnce
  PROVE  Spec => [](ShapeInv /\ PhaseInv /\ ReadyInv)
<1> DEFINE Inv == ShapeInv /\ PhaseInv /\ AnswerInv /\ StampInv /\ NotQuietInv /\ ReadyInv
<1>1. Init => Inv
  BY ShapeInit, PhaseInit, StampInit, PreparedInit DEF Init, AnswerInv, ReadyInv
<1>2. Inv /\ Next => Inv'
  <2> SUFFICES ASSUME Inv, Next PROVE Inv'
    OBVIOUS
  <2>1. ShapeInv' /\ PhaseInv' /\ AnswerInv' /\ StampInv' /\ NotQuietInv'
    BY NoneIsNoRow, ShapeKept, PhaseKept, AnswerKept, StampKept, NotQuietKept
  <2>2. ReadyInv'
    BY NoneIsNoRow, UndoneOnce, PreparedKept, TornStays DEF ReadyInv
  <2> QED BY <2>1, <2>2
<1>3. Inv /\ UNCHANGED vars => Inv'
  <2> SUFFICES ASSUME Inv, UNCHANGED vars PROVE Inv'
    OBVIOUS
  <2>1. ShapeInv' /\ PhaseInv' /\ AnswerInv'
    BY Stutter
  <2>2. StampInv'
    BY DEF vars, StampInv
  <2>3. NotQuietInv'
    BY NeverQuietAgain, LossSame DEF vars, NotQuietInv, Written
  <2>4. \A q \in Pair : (Covered(q) => Covered(q)') /\ (OwnShown(q) => OwnShown(q)')
    BY VerdictsStand DEF vars, Written
  <2>5. \A q \in Pair : OwnDue(q) => OwnDue(q)'
    BY DEF vars, OwnDue, Written
  <2>6. ReadyInv'
    BY <2>4, <2>5 DEF vars, ReadyInv, Prepared, Ready, resume_point
  <2> QED BY <2>1, <2>2, <2>3, <2>6
<1>4. Inv => ShapeInv /\ PhaseInv /\ ReadyInv
  OBVIOUS
<1> HIDE DEF Inv
<1> QED BY <1>1, <1>2, <1>3, <1>4, PTL DEF Spec

\* A failure never reads as quiet: for any cities, evidence, mission and course
\* of collection, a city that lost anything is scored on every track, below
\* HIGH, with a gap for each family of which nothing was collected, whatever
\* crashed, resumed, was abandoned or discarded, if no discard died half-way.
THEOREM LossIsSeen ==
  ASSUME NoneIsNoRow, UndoneOnce
  PROVE  Spec => []LossIsNotQuiet
<1>1. ASSUME ShapeInv, ReadyInv PROVE LossIsNotQuiet
  <2> SUFFICES ASSUME NEW p \in Pair, Scored,
                      Lost(p[1]) # {} \/ world.uncovered \/ world.skipped # {}
               PROVE  /\ rows[p] # None /\ rows[p].band # "HIGH"
                      /\ \A st \in Lost(p[1]) :
                           (\A q \in world.queries :
                              q.city = p[1] /\ q.status = "COMPLETE"
                                => SOURCE_TYPE_FAMILY[q.source] # SOURCE_TYPE_FAMILY[st])
                           => SOURCE_TYPE_FAMILY[st] \in rows[p].gaps
    BY DEF LossIsNotQuiet
  <2>1. p[1] \in City
    BY DEF Pair
  <2>2. Lost(p[1]) \subseteq Unreliable(p[1])
    BY <1>1, <2>1, LostIsUnreliable
  <2>3. Unreliable(p[1]) # {}
    BY <1>1, <2>2, SkippedIsLost
  <2>4. Covered(p)
    BY <1>1 DEF Scored, ReadyInv, Prepared, Ready
  <2>5. /\ p \in Written /\ rows[p].band # "HIGH"
        /\ rows[p].gaps = Families(Unreliable(p[1]))
                            \ Families(collected_source_types(p[1]))
    BY <2>3, <2>4 DEF Covered
  <2>6. ASSUME NEW st \in Lost(p[1]),
               \A q \in world.queries :
                 q.city = p[1] /\ q.status = "COMPLETE"
                   => SOURCE_TYPE_FAMILY[q.source] # SOURCE_TYPE_FAMILY[st]
        PROVE  SOURCE_TYPE_FAMILY[st] \in rows[p].gaps
    <3>1. SOURCE_TYPE_FAMILY[st] \in Families(Unreliable(p[1]))
      BY <2>2 DEF Families
    <3>2. SOURCE_TYPE_FAMILY[st] \notin Families(collected_source_types(p[1]))
      BY <2>6 DEF Families, collected_source_types
    <3> QED BY <2>5, <3>1, <3>2
  <2> QED BY <2>5, <2>6 DEF Written
<1> QED BY <1>1, ReadyInvHolds, PTL

\* Every alert is written with the families lost for its city, and either says
\* it has no evidence of this iteration or links to some, until a discard dies
\* half-way.
THEOREM AlertsDisclose ==
  ASSUME NoneIsNoRow, UndoneOnce
  PROVE  Spec => AlertDiscloses
<1> DEFINE Kept == \A p \in Pair : alerts'[p] # None /\ alerts[p] = None /\ ~point.torn
                                     => Disclosed(p, alerts'[p])
<1>1. ASSUME ShapeInv, PhaseInv, ReadyInv, insert_alert PROVE Kept
  <2> SUFFICES ASSUME NEW p \in Pair, alerts'[p] # None, alerts[p] = None, ~point.torn
               PROVE  Disclosed(p, alerts'[p])
    OBVIOUS
  <2>1. p = task.pair /\ stage = "ALERTING" /\ p \in Written /\ Alertable(p)
    BY <1>1, AlertWritten DEF insert_alert, Running, PhaseInv
  <2>2. /\ alerts'[p].gaps = rows[p].gaps
        /\ alerts'[p].partial
             = {st \in rows[p].failed : SOURCE_TYPE_FAMILY[st] \notin rows[p].gaps}
        /\ alerts'[p].stale = rows[p].stale
    BY <1>1, <2>1, AlertWritten
  <2>3. Covered(p) /\ OwnShown(p)
    BY <1>1, <2>1 DEF ReadyInv, Prepared, Ready
  <2>4. ASSUME NEW st \in Lost(p[1])
        PROVE  SOURCE_TYPE_FAMILY[st] \in alerts'[p].gaps \/ st \in alerts'[p].partial
    <3>1. st \in Unreliable(p[1])
      BY <1>1, LostIsUnreliable DEF Pair
    <3>2. st \in rows[p].failed
      BY <2>3, <3>1 DEF Covered
    <3> QED BY <2>2, <3>2
  <2>5. rows[p].stale \/ LinkedOwn(p) # {}
    BY <2>1, <2>3 DEF OwnShown, Alertable
  <2> QED BY <2>2, <2>4, <2>5 DEF Disclosed
<1>2. ASSUME ShapeInv,
             alerts' = alerts \/ discard_last \/ DiscardTorn \/ UNCHANGED vars
      PROVE  Kept
  BY <1>2, TornDiscard DEF discard_last, Deleted, vars
<1>3. ShapeInv /\ PhaseInv /\ ReadyInv /\ [Next]_vars => [Kept]_vars
  BY <1>1, <1>2, Zenon
     DEF Next, SkipQuiet, upsert_correlation, link_correlation_signal, EndCorrelating,
         RefuseAlert, SkipWritten, _summarise, DecideAlerted, EndAlerting, NoModel, Crash,
         Age, Resume, Abandon
<1>4. [][Kept]_vars => AlertDiscloses
  BY DEF AlertDiscloses
<1> HIDE DEF Kept
<1> QED BY <1>3, <1>4, ReadyInvHolds, PTL DEF Spec

-----------------------------------------------------------------------------
(* What a score is made of is a number.                                    *)

LEMMA QuotientIsNat ==
  ASSUME NEW a \in Nat, NEW b \in Nat \ {0}
  PROVE  a \div b \in Nat
  OBVIOUS

LEMMA ProductIsNat ==
  ASSUME NEW a \in Nat, NEW b \in Nat
  PROVE  a * b \in Nat
  OBVIOUS

LEMMA ProductIsPositive ==
  ASSUME NEW a \in Nat \ {0}, NEW b \in Nat \ {0}
  PROVE  a * b \in Nat \ {0}
<1>1. a * b \in Nat
  BY ProductIsNat
<1>2. a >= 1 /\ b >= 1
  OBVIOUS
<1>3. a * b >= 1
  BY <1>2, SMTT(30)
<1> QED BY <1>1, <1>3

LEMMA MinOfNats ==
  ASSUME NEW S \in SUBSET Nat, S # {}
  PROVE  Min(S) \in S /\ \A x \in S : Min(S) <= x
<1>1. \E x \in S : \A y \in S : x <= y
  BY LeastNatural
<1> QED BY <1>1 DEF Min

LEMMA MinOfTwo ==
  ASSUME NEW a \in Nat, NEW b \in Nat
  PROVE  Min({a, b}) = IF a <= b THEN a ELSE b
<1>1. Min({a, b}) \in {a, b} /\ \A x \in {a, b} : Min({a, b}) <= x
  BY MinOfNats
<1> QED BY <1>1

\* A bounded set of numbers has a greatest one.
LEMMA MaxOfBounded ==
  ASSUME NEW bound \in Nat, NEW S \in SUBSET (0..bound), S # {}
  PROVE  Max(S) \in S
<1> DEFINE T == {bound - x : x \in S}
<1>0. \A x \in S : bound - x \in Nat
  OBVIOUS
<1>1. T \in SUBSET Nat /\ T # {}
  BY <1>0
<1>2. PICK n \in T : \A m \in T : n <= m
  BY <1>1, LeastNatural
<1>3. PICK x \in S : n = bound - x
  BY <1>2
<1>4. \A y \in S : x >= y
  <2> SUFFICES ASSUME NEW y \in S PROVE x >= y
    OBVIOUS
  <2>1. n <= bound - y
    BY <1>2
  <2> QED BY <1>3, <2>1
<1>5. \E z \in S : \A y \in S : z >= y
  BY <1>4
<1> QED BY <1>5 DEF Max

LEMMA AddedIsNat ==
  ASSUME NEW S, IsFiniteSet(S), NEW f \in [S -> Nat]
  PROVE  Added(f) \in Nat
BY SumIsNat, Zenon DEF Added

LEMMA NothingAdded ==
  ASSUME NEW f, DOMAIN f = {}, f = [x \in DOMAIN f |-> f[x]]
  PROVE  Added(f) = 0
<1>1. f \in [{} -> {0}]
  OBVIOUS
<1>2. IsFiniteSet({})
  BY FS_EmptySet
<1> QED BY <1>1, <1>2, SumIsZero, Zenon DEF Added

\* What scoring takes in: evidence of the window.
InWindow(rows0) == rows0 \in SUBSET Pool /\ \A s \in rows0 : in_window(s)

LEMMA EvidenceIsFinite ==
  ASSUME NEW rows0, InWindow(rows0), NEW part \in SUBSET rows0
  PROVE  IsFiniteSet(part) /\ InWindow(part)
BY PoolAssumption, FS_Subset DEF InWindow

LEMMA DecayIsNat ==
  ASSUME NEW s \in Pool, in_window(s)
  PROVE  decay_of(s) \in 1..Unit
BY PoolAssumption, ScaleAssumption DEF in_window, Distance, decay_of

LEMMA FreshestIsNat ==
  ASSUME NEW rows0, InWindow(rows0), rows0 # {}
  PROVE  Freshest(rows0) \in 1..Unit
<1> DEFINE S == {decay_of(s) : s \in rows0}
<1>1. \A s \in rows0 : decay_of(s) \in 1..Unit
  BY DecayIsNat DEF InWindow
<1>2. S \in SUBSET (1..Unit) /\ S # {} /\ Unit \in Nat
  BY <1>1, ScaleAssumption
<1>3. S \in SUBSET (0..Unit)
  BY <1>2
<1> HIDE DEF S
<1>4. Max(S) \in S
  BY <1>2, <1>3, MaxOfBounded
<1> QED BY <1>2, <1>4 DEF Freshest, S

LEMMA ImageIsFinite ==
  ASSUME NEW S, IsFiniteSet(S), NEW f
  PROVE  IsFiniteSet({f[x] : x \in S}) /\ Cardinality({f[x] : x \in S}) <= Cardinality(S)
<1> DEFINE T == {f[x] : x \in S}
           g == [x \in S |-> f[x]]
<1>1. g \in Surjection(S, T)
  BY DEF Surjection
<1> QED BY <1>1, FS_Surjection

\* Every distinct value counts for a number, and nothing counts for none.
LEMMA DistinctIsNat ==
  ASSUME NEW rows0, InWindow(rows0), NEW value, DOMAIN value = rows0,
         value = [s \in rows0 |-> value[s]]
  PROVE  Distinct(value) \in Nat /\ (rows0 = {} => Distinct(value) = 0)
<1> DEFINE Holding(v) == {s \in DOMAIN value : value[s] = v}
           values == {value[s] : s \in rows0}
           weights == [v \in values |-> Freshest(Holding(v))]
<1>1. Range(value) = values
  BY DEF Range
<1>2. Distinct(value) = Added(weights)
  BY <1>1, Zenon DEF Distinct
<1>3. IsFiniteSet(values)
  <2>1. IsFiniteSet(rows0)
    BY EvidenceIsFinite
  <2> QED BY <2>1, ImageIsFinite
<1>4. ASSUME NEW v \in values PROVE Freshest(Holding(v)) \in Nat
  <2>1. Holding(v) # {} /\ Holding(v) \in SUBSET rows0
    OBVIOUS
  <2> HIDE DEF Holding
  <2>2. Freshest(Holding(v)) \in 1..Unit
    BY <2>1, EvidenceIsFinite, FreshestIsNat
  <2> QED BY <2>2, ScaleAssumption
<1>5. weights \in [values -> Nat]
  BY <1>4
<1>6. rows0 = {} => DOMAIN weights = {}
  OBVIOUS
<1>7. weights = [v \in DOMAIN weights |-> weights[v]]
  OBVIOUS
<1> HIDE DEF weights, values
<1> QED BY <1>2, <1>3, <1>5, <1>6, <1>7, AddedIsNat, NothingAdded

LEMMA ClampedIsNat ==
  ASSUME NEW n \in Int
  PROVE  Clamped(n) \in 0..Unit
BY ScaleAssumption DEF Clamped, AtLeast0, AtMost

\* Corroboration is a quality, and nothing corroborates nothing.
LEMMA CorroborationIsNat ==
  ASSUME NEW count \in Nat, NEW full \in Nat
  PROVE  /\ corroboration_quality(count, full) \in 0..Unit
         /\ count = 0 => corroboration_quality(count, full) = 0
<1>1. Unit \in Nat \ {0} /\ Cfg.single \in 0..Unit
  BY ScaleAssumption, CfgAssumption
<1>2. CASE count = 0
  BY <1>1, <1>2 DEF corroboration_quality
<1>3. CASE count \in 1..(Unit - 1)
  <2>1. corroboration_quality(count, full) = Clamped((Cfg.single * count) \div Unit)
    BY <1>1, <1>3 DEF corroboration_quality
  <2>2. (Cfg.single * count) \div Unit \in Nat
    BY <1>1, ProductIsNat, QuotientIsNat
  <2>3. Clamped((Cfg.single * count) \div Unit) \in 0..Unit
    BY <2>2, ClampedIsNat
  <2> QED BY <1>3, <2>1, <2>3
<1>4. CASE count >= Unit /\ full <= 1
  <2>1. corroboration_quality(count, full) = Unit
    BY <1>1, <1>4 DEF corroboration_quality
  <2> QED BY <1>1, <1>4, <2>1
<1>5. CASE count >= Unit /\ ~(full <= 1)
  <2> DEFINE extra == AtMost((count - Unit) \div (full - 1), Unit)
             more == ((Unit - Cfg.single) * extra) \div Unit
  <2>1. corroboration_quality(count, full) = Clamped(Cfg.single + more)
    BY <1>1, <1>5 DEF corroboration_quality
  <2>2. (count - Unit) \div (full - 1) \in Nat
    <3>1. count - Unit \in Nat /\ full - 1 \in Nat \ {0}
      BY <1>1, <1>5
    <3> QED BY <3>1, QuotientIsNat
  <2>3. extra \in Nat
    BY <1>1, <2>2 DEF AtMost
  <2> HIDE DEF extra
  <2>4. Unit - Cfg.single \in Nat
    BY <1>1
  <2>5. more \in Nat
    BY <1>1, <2>3, <2>4, ProductIsNat, QuotientIsNat
  <2> HIDE DEF more
  <2>6. Cfg.single + more \in Int
    BY <1>1, <2>5
  <2>7. Clamped(Cfg.single + more) \in 0..Unit
    BY <2>6, ClampedIsNat
  <2> QED BY <1>1, <1>5, <2>1, <2>7
<1> QED BY <1>1, <1>2, <1>3, <1>4, <1>5

\* The salience of a post is that of the most salient: a post without a
\* publisher breaks no silence.
LEMMA SocialIsNat ==
  ASSUME NEW rows0, InWindow(rows0), rows0 # {}
  PROVE  /\ social_quality(rows0) \in Nat
         /\ KnownPublisher(rows0) = {} => social_quality(rows0) = 0
<1> DEFINE known == KnownPublisher(rows0)
           publisher == [s \in known |-> s.publisher]
           claim == [s \in rows0 |-> Claim(s)]
           publishers == Distinct(publisher)
           claims == Distinct(claim)
           breadth == corroboration_quality(Min({publishers, claims}), Cfg.socialFull)
           peak == Max({s.salience : s \in rows0})
<1>1. social_quality(rows0) = (breadth * peak) \div Unit
  BY Zenon DEF social_quality
<1>2. known \in SUBSET rows0
  BY DEF KnownPublisher
<1>3. InWindow(known)
  BY <1>2, EvidenceIsFinite
<1>4. /\ DOMAIN publisher = known /\ publisher = [s \in known |-> publisher[s]]
      /\ DOMAIN claim = rows0 /\ claim = [s \in rows0 |-> claim[s]]
  OBVIOUS
<1> HIDE DEF publisher, claim, known
<1>5. publishers \in Nat /\ claims \in Nat /\ (known = {} => publishers = 0)
  BY <1>3, <1>4, DistinctIsNat
<1> HIDE DEF publishers, claims
<1>6. Min({publishers, claims}) = IF publishers <= claims THEN publishers ELSE claims
  BY <1>5, MinOfTwo
<1>7. Min({publishers, claims}) \in Nat /\ (known = {} => Min({publishers, claims}) = 0)
  BY <1>5, <1>6
<1>8. Cfg.socialFull \in Nat
  BY CfgAssumption
<1>9. breadth \in 0..Unit /\ (known = {} => breadth = 0)
  BY <1>7, <1>8, CorroborationIsNat
<1> HIDE DEF breadth
<1>10. peak \in Nat
  <2> DEFINE S == {s.salience : s \in rows0}
  <2>1. S \in SUBSET (0..Unit) /\ S # {} /\ Unit \in Nat
    BY PoolAssumption, ScaleAssumption DEF InWindow
  <2> HIDE DEF S
  <2>2. Max(S) \in S
    BY <2>1, MaxOfBounded
  <2> QED BY <2>1, <2>2 DEF S
<1> HIDE DEF peak
<1>11. Unit \in Nat \ {0} /\ breadth \in Nat
  BY <1>9, ScaleAssumption
<1>12. (breadth * peak) \div Unit \in Nat
  BY <1>10, <1>11, ProductIsNat, QuotientIsNat
<1>13. known = {} => breadth * peak = 0
  BY <1>9, <1>10
<1>14. known = {} => (breadth * peak) \div Unit = 0
  BY <1>11, <1>13
<1> QED BY <1>1, <1>12, <1>14 DEF known

LEMMA FlightsAreNat ==
  ASSUME NEW rows0, InWindow(rows0), NEW baseline \in Nat
  PROVE  flight_quality(rows0, baseline) \in Nat
<1> DEFINE frame == [s \in rows0 |-> Airframe(s)]
           count == Distinct(frame)
<1>1. DOMAIN frame = rows0 /\ frame = [s \in rows0 |-> frame[s]]
  OBVIOUS
<1>2. flight_quality(rows0, baseline) =
        IF baseline > 0 THEN flight_excess(count, baseline)
                        ELSE corroboration_quality(count, Cfg.flightFull)
  BY Zenon DEF flight_quality
<1> HIDE DEF frame
<1>3. count \in Nat
  BY <1>1, DistinctIsNat
<1> HIDE DEF count
<1>4. Unit \in Nat \ {0} /\ Cfg.flightFull \in Nat /\ Cfg.excessFull \in Nat \ {0}
  BY ScaleAssumption, CfgAssumption
<1>5. corroboration_quality(count, Cfg.flightFull) \in Nat
  <2>1. corroboration_quality(count, Cfg.flightFull) \in 0..Unit
    BY <1>3, <1>4, CorroborationIsNat
  <2> QED BY <1>4, <2>1
<1>6. ASSUME baseline > 0 PROVE flight_excess(count, baseline) \in Nat
  <2> DEFINE above == AtLeast0(2 * count - baseline * Unit)
             full == baseline * Cfg.excessFull
  <2>1. above \in Nat
    BY <1>3, <1>4 DEF AtLeast0
  <2>2. above * 100 \in Nat
    BY <2>1
  <2>3. full \in Nat \ {0}
    BY <1>4, <1>6, ProductIsPositive
  <2> HIDE DEF above, full
  <2>4. (above * 100) \div full \in Nat
    BY <2>2, <2>3, QuotientIsNat
  <2> QED BY <1>4, <2>4 DEF flight_excess, AtMost, above, full
<1> QED BY <1>2, <1>5, <1>6

LEMMA PercentIsNat ==
  ASSUME NEW part \in Int, NEW whole \in Int
  PROVE  Percent(part, whole) \in Nat
<1>1. CASE whole <= 0
  BY <1>1 DEF Percent
<1>2. CASE ~(whole <= 0)
  <2>1. AtLeast0(part) * 100 \in Nat /\ whole \in Nat \ {0}
    BY <1>2 DEF AtLeast0
  <2>2. (AtLeast0(part) * 100) \div whole \in Nat
    BY <2>1, QuotientIsNat
  <2> QED BY <1>2, <2>2 DEF Percent
<1> QED BY <1>1, <1>2

LEMMA ScaledIsNat ==
  ASSUME NEW percent \in Nat, NEW full \in Nat \ {0}
  PROVE  Scaled(percent, full) \in Nat
<1>1. Unit \in Nat
  BY ScaleAssumption
<1>2. (percent * Unit) \div full \in Nat
  BY <1>1, ProductIsNat, QuotientIsNat
<1> QED BY <1>1, <1>2 DEF Scaled, AtMost

LEMMA MeasuredIsNat ==
  ASSUME NEW rows0, InWindow(rows0), rows0 # {}, NEW magnitude \in [rows0 -> Nat]
  PROVE  measurement_decay(magnitude) \in Nat
<1> DEFINE aged == [s \in rows0 |-> magnitude[s] * decay_of(s)]
           total == Added(magnitude)
<1>1. measurement_decay(magnitude) =
        IF total <= 0 THEN Freshest(rows0) ELSE Added(aged) \div total
  <2>1. DOMAIN magnitude = rows0
    OBVIOUS
  <2> QED BY <2>1, Zenon DEF measurement_decay
<1>2. Freshest(rows0) \in Nat
  BY FreshestIsNat, ScaleAssumption
<1>3. aged \in [rows0 -> Nat]
  <2>1. ASSUME NEW s \in rows0 PROVE magnitude[s] * decay_of(s) \in Nat
    <3>1. decay_of(s) \in 1..Unit
      BY DecayIsNat DEF InWindow
    <3>2. decay_of(s) \in Nat /\ magnitude[s] \in Nat
      BY <3>1, ScaleAssumption
    <3> QED BY <3>2, ProductIsNat
  <2> QED BY <2>1
<1>4. IsFiniteSet(rows0)
  BY EvidenceIsFinite
<1> HIDE DEF aged
<1>5. Added(aged) \in Nat /\ total \in Nat
  BY <1>3, <1>4, AddedIsNat
<1> HIDE DEF total
<1>6. ~(total <= 0) => Added(aged) \div total \in Nat
  BY <1>5, QuotientIsNat
<1> QED BY <1>1, <1>2, <1>6

LEMMA LodgingIsNat ==
  ASSUME NEW rows0, InWindow(rows0), rows0 # {}
  PROVE  lodging_quality(rows0) \in Nat
<1> DEFINE priced == {s \in rows0 : s.priceBase > 0 /\ s.priceNear > 0}
           bases == [s \in rows0 |-> s.base]
           lefts == [s \in rows0 |-> s.left]
           prices == [s \in rows0 |-> s.priceBase]
           before == [s \in priced |-> s.priceBase]
           near == [s \in priced |-> s.priceNear]
<1>1. /\ bases \in [rows0 -> Nat] /\ lefts \in [rows0 -> Nat] /\ prices \in [rows0 -> Nat]
      /\ before \in [priced -> Nat] /\ near \in [priced -> Nat]
  BY PoolAssumption DEF InWindow
<1>2. IsFiniteSet(rows0) /\ IsFiniteSet(priced)
  BY EvidenceIsFinite
<1>3. /\ lodging_drop(rows0) = Percent(Added(bases) - Added(lefts), Added(bases))
      /\ price_escalation(rows0) = Percent(Added(near) - Added(before), Added(before))
  BY Zenon DEF lodging_drop, price_escalation
<1>4. lodging_quality(rows0) =
        Max({Scaled(lodging_drop(rows0), Cfg.lodgingFull) * measurement_decay(bases),
             Scaled(price_escalation(rows0), Cfg.priceFull) * measurement_decay(prices)})
          \div Unit
  BY Zenon DEF lodging_quality
<1> HIDE DEF bases, lefts, prices, before, near, priced
<1>5. /\ Added(bases) \in Nat /\ Added(lefts) \in Nat
      /\ Added(near) \in Nat /\ Added(before) \in Nat
  BY <1>1, <1>2, AddedIsNat
<1>6. lodging_drop(rows0) \in Nat
  <2>1. Added(bases) \in Int /\ Added(bases) - Added(lefts) \in Int
    BY <1>5
  <2> QED BY <1>3, <2>1, PercentIsNat
<1>7. price_escalation(rows0) \in Nat
  <2>1. Added(before) \in Int /\ Added(near) - Added(before) \in Int
    BY <1>5
  <2> QED BY <1>3, <2>1, PercentIsNat
<1>8. measurement_decay(bases) \in Nat /\ measurement_decay(prices) \in Nat
  BY <1>1, MeasuredIsNat
<1>9. Cfg.lodgingFull \in Nat \ {0} /\ Cfg.priceFull \in Nat \ {0} /\ Unit \in Nat \ {0}
  BY CfgAssumption, ScaleAssumption
<1> DEFINE a == Scaled(lodging_drop(rows0), Cfg.lodgingFull) * measurement_decay(bases)
           b == Scaled(price_escalation(rows0), Cfg.priceFull) * measurement_decay(prices)
<1>10. a \in Nat /\ b \in Nat
  BY <1>6, <1>7, <1>8, <1>9, ScaledIsNat, ProductIsNat
<1> HIDE DEF a, b
<1>11. Max({a, b}) \in Nat
  <2>1. CASE a >= b
    <3>1. \E x \in {a, b} : \A y \in {a, b} : x >= y
      BY <1>10, <2>1
    <3> QED BY <1>10, <3>1 DEF Max
  <2>2. CASE ~(a >= b)
    <3>1. \E x \in {a, b} : \A y \in {a, b} : x >= y
      BY <1>10, <2>2
    <3> QED BY <1>10, <3>1 DEF Max
  <2> QED BY <2>1, <2>2
<1>12. Max({a, b}) \div Unit \in Nat
  BY <1>9, <1>11, QuotientIsNat
<1> QED BY <1>4, <1>12 DEF a, b

LEMMA CarsAreNat ==
  ASSUME NEW rows0, InWindow(rows0), rows0 # {}
  PROVE  car_quality(rows0) \in Nat
<1> DEFINE seats == [s \in rows0 |-> Seats(s) * s.base]
           lefts == [s \in rows0 |-> Seats(s) * s.left]
           drop == Percent(Added(seats) - Added(lefts), Added(seats))
<1>1. car_quality(rows0) = (Scaled(drop, Cfg.carFull) * measurement_decay(seats)) \div Unit
  BY Zenon DEF car_quality
<1>2. ASSUME NEW s \in rows0 PROVE Seats(s) * s.base \in Nat /\ Seats(s) * s.left \in Nat
  <2>1. s.seats \in Nat /\ s.base \in Nat /\ s.left \in Nat /\ Cfg.onAirport \in Nat
    BY PoolAssumption, CfgAssumption DEF InWindow
  <2>2. s.seats * Cfg.onAirport \in Nat /\ s.seats * 1 \in Nat
    BY <2>1, ProductIsNat
  <2>3. Seats(s) \in Nat
    BY <2>2 DEF Seats
  <2> QED BY <2>1, <2>3, ProductIsNat
<1>3. seats \in [rows0 -> Nat] /\ lefts \in [rows0 -> Nat]
  BY <1>2
<1>4. IsFiniteSet(rows0)
  BY EvidenceIsFinite
<1> HIDE DEF seats, lefts
<1>5. Added(seats) \in Nat /\ Added(lefts) \in Nat
  BY <1>3, <1>4, AddedIsNat
<1>6. drop \in Nat
  <2>1. Added(seats) \in Int /\ Added(seats) - Added(lefts) \in Int
    BY <1>5
  <2> QED BY <2>1, PercentIsNat
<1> HIDE DEF drop
<1>7. Cfg.carFull \in Nat \ {0} /\ Unit \in Nat \ {0}
  BY CfgAssumption, ScaleAssumption
<1>8. Scaled(drop, Cfg.carFull) \in Nat /\ measurement_decay(seats) \in Nat
  BY <1>3, <1>6, <1>7, ScaledIsNat, MeasuredIsNat
<1>9. Scaled(drop, Cfg.carFull) * measurement_decay(seats) \in Nat
  BY <1>8, ProductIsNat
<1> QED BY <1>1, <1>7, <1>9, QuotientIsNat

LEMMA WeightIsNat ==
  ASSUME NEW t \in Track, NEW k \in Kind
  PROVE  kind_weight(t, k) \in Nat
<1>1. Weights[t] \in [MissionKind -> 0..Unit] /\ Unit \in Nat
  BY ScaleAssumption
<1>2. \A m \in MissionKind : Weights[t][m] \in Nat
  BY <1>1
<1>3. CASE k = "flight_AMBIGUOUS"
  <2> DEFINE S == {Weights[t][IF c = "M" THEN "flight_M" ELSE "flight_J"] : c \in Categories[t]}
  <2>1. Categories[t] # {}
    BY ScaleAssumption
  <2>2. S \in SUBSET Nat /\ S # {}
    BY <1>2, <2>1 DEF MissionKind
  <2>3. kind_weight(t, k) = Min(S)
    BY <1>3, Zenon DEF kind_weight, ambiguous_flight_weight
  <2> HIDE DEF S
  <2> QED BY <2>2, <2>3, MinOfNats
<1>4. CASE k # "flight_AMBIGUOUS"
  BY <1>2, <1>4 DEF kind_weight, Kind, FlightKind, MissionKind
<1> QED BY <1>3, <1>4

LEMMA QualityIsNat ==
  ASSUME NEW k \in Kind, NEW rows0, InWindow(rows0), rows0 # {},
         NEW baseline \in [BASELINED_FLIGHT_KINDS -> Nat]
  PROVE  kind_quality(k, rows0, baseline) \in Nat
<1>1. CASE k = "social"
  BY <1>1, SocialIsNat, Zenon DEF kind_quality, FlightKind
<1>2. CASE k \in FlightKind
  <2> DEFINE usual == IF k \in BASELINED_FLIGHT_KINDS THEN baseline[k] ELSE 0
  <2>1. usual \in Nat
    OBVIOUS
  <2>2. kind_quality(k, rows0, baseline) = flight_quality(rows0, usual)
    <3>1. k # "social" /\ k # "lodging" /\ k # "car"
      BY <1>2 DEF FlightKind
    <3> QED BY <1>2, <3>1, Zenon DEF kind_quality
  <2> HIDE DEF usual
  <2> QED BY <2>1, <2>2, FlightsAreNat
<1>3. CASE k = "lodging"
  <2>1. k \notin FlightKind /\ k # "social" /\ k # "car"
    BY <1>3 DEF FlightKind
  <2>2. kind_quality(k, rows0, baseline) = lodging_quality(rows0)
    BY <1>3, <2>1, Zenon DEF kind_quality
  <2> QED BY <2>2, LodgingIsNat
<1>4. CASE k = "car"
  <2>1. k \notin FlightKind /\ k # "social" /\ k # "lodging"
    BY <1>4 DEF FlightKind
  <2>2. kind_quality(k, rows0, baseline) = car_quality(rows0)
    BY <1>4, <2>1, Zenon DEF kind_quality
  <2> QED BY <2>2, CarsAreNat
<1> QED BY <1>1, <1>2, <1>3, <1>4 DEF Kind, MissionKind, FlightKind

\* What a kind adds to the score; what it adds, it adds for rows, and posts
\* add nothing without a publisher.
LEMMA ContributionIsNat ==
  ASSUME NEW rows0, InWindow(rows0), NEW t \in Track, NEW k \in Kind,
         NEW baseline \in [BASELINED_FLIGHT_KINDS -> Nat]
  PROVE  /\ Contribution(rows0, t, k, baseline) \in Nat
         /\ Contribution(rows0, t, k, baseline) > 0
              => /\ Grouped(rows0, k) # {}
                 /\ k = "social" => KnownPublisher(Grouped(rows0, k)) # {}
<1> DEFINE grouped == Grouped(rows0, k)
           quality == kind_quality(k, grouped, baseline)
           weight == kind_weight(t, k)
           half == IF spatially_anchored(grouped) THEN 1 ELSE 2
<1>1. Contribution(rows0, t, k, baseline) =
        IF grouped = {} \/ weight = 0 THEN 0 ELSE (weight * quality) \div half
  BY Zenon DEF Contribution
<1>2. grouped \in SUBSET rows0
  BY DEF Grouped
<1>3. InWindow(grouped)
  BY <1>2, EvidenceIsFinite
<1>4. weight \in Nat
  BY WeightIsNat
<1>5. grouped # {} => quality \in Nat
  BY <1>3, QualityIsNat
<1>6. half \in Nat \ {0}
  OBVIOUS
<1>7. k = "social" /\ grouped # {} /\ KnownPublisher(grouped) = {} => quality = 0
  <2>1. k = "social" => quality = social_quality(grouped)
    BY Zenon DEF kind_quality, FlightKind
  <2> QED BY <1>3, <2>1, SocialIsNat
<1> HIDE DEF grouped, quality, weight, half
<1>8. CASE grouped = {} \/ weight = 0
  BY <1>1, <1>8
<1>9. CASE ~(grouped = {} \/ weight = 0)
  <2>1. (weight * quality) \div half \in Nat
    BY <1>4, <1>5, <1>6, <1>9, ProductIsNat, QuotientIsNat
  <2>2. quality = 0 => (weight * quality) \div half = 0
    BY <1>4, <1>6
  <2> QED BY <1>1, <1>7, <1>9, <2>1, <2>2 DEF grouped
<1> QED BY <1>8, <1>9

LEMMA KindsAreFinite == IsFiniteSet(Kind)
<1>1. IsFiniteSet({"social"})
  BY FS_Singleton
<1>2. IsFiniteSet({"social"} \cup {"flight_M"})
  BY <1>1, FS_AddElement
<1>3. IsFiniteSet({"social"} \cup {"flight_M"} \cup {"flight_J"})
  BY <1>2, FS_AddElement
<1>4. IsFiniteSet({"social"} \cup {"flight_M"} \cup {"flight_J"} \cup {"lodging"})
  BY <1>3, FS_AddElement
<1>5. IsFiniteSet({"social"} \cup {"flight_M"} \cup {"flight_J"} \cup {"lodging"}
                    \cup {"car"})
  BY <1>4, FS_AddElement
<1>6. IsFiniteSet({"social"} \cup {"flight_M"} \cup {"flight_J"} \cup {"lodging"}
                    \cup {"car"} \cup {"flight_AMBIGUOUS"})
  BY <1>5, FS_AddElement
<1>7. Kind = {"social"} \cup {"flight_M"} \cup {"flight_J"} \cup {"lodging"}
               \cup {"car"} \cup {"flight_AMBIGUOUS"}
  BY DEF Kind, MissionKind, FlightKind
<1> QED BY <1>6, <1>7

\* The score is within its scale.
LEMMA ScoreIsBounded ==
  ASSUME NEW contributions \in [Kind -> Nat]
  PROVE  Score(contributions) \in 0..(Unit * Unit)
<1>1. Added(contributions) \in Nat
  BY KindsAreFinite, AddedIsNat
<1>2. Unit * Unit \in Nat
  BY ScaleAssumption, ProductIsNat
<1> DEFINE top == Unit * Unit
<1> HIDE DEF top
<1>3. AtMost(Added(contributions), top) \in 0..top
  BY <1>1, <1>2 DEF AtMost, top
<1> QED BY <1>3 DEF Score, top

-----------------------------------------------------------------------------
(* The baseline is a number: a finite set of samples has one of each rank. *)

Sample == [id : Nat, surged : BOOLEAN, seen : [FlightKind -> Nat]]
Lower(samples, k, h) == {g \in samples : g.seen[k] < h.seen[k]
                                         \/ (g.seen[k] = h.seen[k] /\ g.id < h.id)}
Ranked(samples, k, i) == CHOOSE h \in samples : Cardinality(Lower(samples, k, h)) = i - 1

LEMMA LowerGrows ==
  ASSUME NEW samples \in SUBSET Sample, IsFiniteSet(samples), NEW k \in FlightKind,
         NEW h \in samples, NEW g \in Lower(samples, k, h)
  PROVE  Cardinality(Lower(samples, k, g)) < Cardinality(Lower(samples, k, h))
<1>1. \A s \in samples : s.seen[k] \in Nat /\ s.id \in Nat
  BY DEF Sample
<1>2. g \in samples /\ g \notin Lower(samples, k, g)
  BY <1>1 DEF Lower
<1>3. Lower(samples, k, g) \subseteq Lower(samples, k, h)
  <2> SUFFICES ASSUME NEW f \in Lower(samples, k, g) PROVE f \in Lower(samples, k, h)
    OBVIOUS
  <2>1. /\ f \in samples
        /\ f.seen[k] < g.seen[k] \/ (f.seen[k] = g.seen[k] /\ f.id < g.id)
        /\ g.seen[k] < h.seen[k] \/ (g.seen[k] = h.seen[k] /\ g.id < h.id)
    BY DEF Lower
  <2>2. f.seen[k] < h.seen[k] \/ (f.seen[k] = h.seen[k] /\ f.id < h.id)
    BY <1>1, <1>2, <2>1
  <2> QED BY <2>1, <2>2 DEF Lower
<1>4. Lower(samples, k, h) \in SUBSET samples
  BY DEF Lower
<1>5. IsFiniteSet(Lower(samples, k, h))
  BY <1>4, FS_Subset
<1>6. /\ IsFiniteSet(Lower(samples, k, g))
      /\ Cardinality(Lower(samples, k, g)) <= Cardinality(Lower(samples, k, h))
      /\ Cardinality(Lower(samples, k, g)) = Cardinality(Lower(samples, k, h))
           => Lower(samples, k, g) = Lower(samples, k, h)
  BY <1>3, <1>5, FS_Subset
<1>7. /\ Cardinality(Lower(samples, k, g)) \in Nat
      /\ Cardinality(Lower(samples, k, h)) \in Nat
  BY <1>5, <1>6, FS_CardinalityType
<1> QED BY <1>2, <1>6, <1>7

LEMMA RankIsTaken ==
  ASSUME NEW samples \in SUBSET Sample, OnePerIteration(samples), NEW k \in FlightKind,
         NEW i \in 1..Cardinality(samples)
  PROVE  \E h \in samples : Cardinality(Lower(samples, k, h)) = i - 1
<1> DEFINE n == Cardinality(samples)
           ranks == 0..(n - 1)
           rank == [h \in samples |-> Cardinality(Lower(samples, k, h))]
<1>1. IsFiniteSet(samples)
  BY DEF OnePerIteration
<1>2. n \in Nat
  BY <1>1, FS_CardinalityType
<1>3. ASSUME NEW h \in samples PROVE rank[h] \in ranks
  <2>1. Lower(samples, k, h) \in SUBSET samples
    BY DEF Lower
  <2>2. h \notin Lower(samples, k, h)
    <3>1. h.seen[k] \in Nat /\ h.id \in Nat
      BY DEF Sample
    <3> QED BY <3>1 DEF Lower
  <2>3. /\ IsFiniteSet(Lower(samples, k, h)) /\ Cardinality(Lower(samples, k, h)) <= n
        /\ Cardinality(Lower(samples, k, h)) = n => Lower(samples, k, h) = samples
    BY <1>1, <2>1, FS_Subset
  <2>4. Cardinality(Lower(samples, k, h)) \in Nat
    BY <2>3, FS_CardinalityType
  <2>5. Cardinality(Lower(samples, k, h)) # n
    BY <2>2, <2>3
  <2> HIDE DEF n
  <2> QED BY <1>2, <2>3, <2>4, <2>5
<1>4. ASSUME NEW g \in samples, NEW h \in samples, g # h PROVE rank[g] # rank[h]
  <2>1. g.id # h.id
    BY <1>4 DEF OnePerIteration
  <2>2. g \in Lower(samples, k, h) \/ h \in Lower(samples, k, g)
    <3>1. \A s \in samples : s.seen[k] \in Nat /\ s.id \in Nat
      BY DEF Sample
    <3> QED BY <2>1, <3>1 DEF Lower
  <2>3. rank[g] < rank[h] \/ rank[h] < rank[g]
    BY <1>1, <2>2, LowerGrows
  <2>4. rank[g] \in Nat /\ rank[h] \in Nat
    BY <1>2, <1>3
  <2> QED BY <2>3, <2>4
<1>5. rank \in [samples -> ranks]
  BY <1>3
<1>6. rank \in Injection(samples, ranks)
  BY <1>4, <1>5 DEF Injection, IsInjective
<1> HIDE DEF n, rank
<1>7. IsFiniteSet(ranks) /\ Cardinality(ranks) = n
  <2>1. 0 \in Int /\ n - 1 \in Int
    BY <1>2
  <2>2. Cardinality(ranks) = IF 0 > n - 1 THEN 0 ELSE n - 1 - 0 + 1
    BY <2>1, FS_Interval
  <2>3. IsFiniteSet(ranks)
    BY <2>1, FS_Interval
  <2> QED BY <1>2, <2>2, <2>3
<1> HIDE DEF ranks
<1>8. rank \in Surjection(samples, ranks)
  BY <1>6, <1>7, FS_Injection DEF n
<1> USE DEF ranks
<1>9. i - 1 \in ranks
  BY <1>2 DEF n
<1>10. PICK h \in samples : rank[h] = i - 1
  BY <1>8, <1>9 DEF Surjection
<1> QED BY <1>10 DEF rank

LEMMA RankedIsNat ==
  ASSUME NEW samples \in SUBSET Sample, OnePerIteration(samples), NEW k \in FlightKind,
         NEW i \in 1..Cardinality(samples)
  PROVE  Ranked(samples, k, i).seen[k] \in Nat
<1>1. Ranked(samples, k, i) \in samples
  BY RankIsTaken DEF Ranked
<1> QED BY <1>1 DEF Sample

LEMMA MedianIsNat ==
  ASSUME NEW samples \in SUBSET Sample, OnePerIteration(samples), NEW k \in FlightKind,
         Cardinality(samples) >= 1
  PROVE  Median2(samples, k) \in Nat
<1> DEFINE n == Cardinality(samples)
           low == (n + 1) \div 2
           high == (n + 2) \div 2
<1>1. n \in Nat
  BY FS_CardinalityType DEF OnePerIteration
<1>2. low \in 1..n /\ high \in 1..n
  BY <1>1
<1>3. Median2(samples, k) = Ranked(samples, k, low).seen[k] + Ranked(samples, k, high).seen[k]
  BY Zenon DEF Median2, Ranked, Lower
<1> HIDE DEF low, high
<1>4. Ranked(samples, k, low).seen[k] \in Nat /\ Ranked(samples, k, high).seen[k] \in Nat
  BY <1>2, RankedIsNat
<1> QED BY <1>3, <1>4

LEMMA BaselinesAreNat ==
  ASSUME NEW history \in SUBSET Sample, OnePerIteration(history)
  PROVE  Baselines(history) \in [BASELINED_FLIGHT_KINDS -> Nat]
<1> DEFINE samples == Samples(history)
<1>1. samples \in SUBSET history
  BY DEF Samples
<1>2. samples \in SUBSET Sample /\ OnePerIteration(samples)
  BY <1>1, FS_Subset DEF OnePerIteration
<1>3. Baselines(history) = [k \in BASELINED_FLIGHT_KINDS |->
        IF Cardinality(samples) < Cfg.minSamples THEN 0 ELSE Median2(samples, k)]
  BY Zenon DEF Baselines
<1> HIDE DEF samples
<1>4. ASSUME NEW k \in BASELINED_FLIGHT_KINDS, ~(Cardinality(samples) < Cfg.minSamples)
      PROVE  Median2(samples, k) \in Nat
  <2>1. Cardinality(samples) \in Nat
    BY <1>2, FS_CardinalityType DEF OnePerIteration
  <2>2. Cardinality(samples) >= 1
    BY <1>4, <2>1, CfgAssumption
  <2>3. k \in FlightKind
    BY DEF BASELINED_FLIGHT_KINDS, FlightKind
  <2> QED BY <1>2, <2>2, <2>3, MedianIsNat
<1> QED BY <1>3, <1>4

-----------------------------------------------------------------------------
(* The rows and the alerts keep their types.                               *)

LEMMA BandIsABand ==
  ASSUME NEW score, NEW types, NEW anchored, NEW reports
  PROVE  _band_for(score, types, anchored, reports) \in Bands
BY Zenon DEF _band_for, Bands

LEMMA ContributionsAreNat ==
  ASSUME NEW rows0, InWindow(rows0), NEW t \in Track,
         NEW baseline \in [BASELINED_FLIGHT_KINDS -> Nat]
  PROVE  [k \in Kind |-> Contribution(rows0, t, k, baseline)] \in [Kind -> Nat]
<1>1. \A k \in Kind : Contribution(rows0, t, k, baseline) \in Nat
  BY ContributionIsNat
<1> QED BY <1>1

\* The columns scoring fills in, for evidence of the window.
LEMMA JudgedTypes ==
  ASSUME NEW eligible, NEW t, NEW contributions \in [Kind -> Nat], NEW unreliable,
         NEW collected, NEW j, j = Judged(eligible, t, contributions, unreliable, collected)
  PROVE  /\ j.score \in 0..(Unit * Unit) /\ j.band \in Bands
         /\ j.capped \in BOOLEAN /\ j.stale \in BOOLEAN
<1> DEFINE contributing == {s \in eligible : contributions[scoring_kind(s)] > 0}
           types == Cardinality({KIND_FAMILY[scoring_kind(s)] : s \in contributing})
           score == Score(contributions)
           band == _band_for(score, types, has_strong_anchor(t, contributions),
                             independent_reports(eligible, contributions))
           capped == unreliable # {} /\ band = "HIGH"
           shown == IF capped THEN "MEDIUM" ELSE band
           gaps == Families(unreliable) \ Families(collected)
           newest == {s \in contributing : \A o \in contributing : o.made <= s.made}
           stale == contributing # {} /\ \A s \in newest : s.made # 0
           shares == {s.id : s \in contributing}
<1>1. j = [score |-> score, band |-> shown, capped |-> capped, failed |-> unreliable,
           gaps |-> gaps, stale |-> stale, shares |-> shares]
  BY Zenon DEF Judged
<1>2. capped \in BOOLEAN /\ stale \in BOOLEAN
  OBVIOUS
<1>3. band \in Bands
  BY BandIsABand
<1> HIDE DEF band
<1>4. shown \in Bands
  BY <1>3 DEF Bands
<1>5. score \in 0..(Unit * Unit)
  BY ScoreIsBounded
<1> HIDE DEF score, shown, capped, gaps, stale, shares
<1>6. j.score = score /\ j.band = shown /\ j.capped = capped /\ j.stale = stale
  BY <1>1, JudgedFields
<1> QED BY <1>2, <1>4, <1>5, <1>6, Zenon

LEMMA UnreliableAreSources ==
  ASSUME world \in World, NEW c
  PROVE  Unreliable(c) \subseteq Source /\ Families(Unreliable(c)) \subseteq FAMILIES
<1>1. {"SOCIAL", "FLIGHT_LIVE", "LODGING", "CAR"} \subseteq Source
  BY DEF Source, SOURCE_TYPE_FAMILY
<1>2. source_types_for_skipped(world.skipped) \subseteq Source
  <2>1. world.skipped \subseteq DOMAIN STAGE_SOURCE_TYPES
    BY DEF World
  <2>2. \A s \in DOMAIN STAGE_SOURCE_TYPES : STAGE_SOURCE_TYPES[s] \subseteq Source
    BY <1>1 DEF STAGE_SOURCE_TYPES
  <2> QED BY <2>1, <2>2 DEF source_types_for_skipped
<1>3. unreliable_source_types(c) \subseteq Source
  BY DEF World, unreliable_source_types
<1>4. refused_source_types(c) \subseteq Source
  BY DEF World, refused_source_types
<1>5. Unreliable(c) \subseteq Source
  BY <1>1, <1>2, <1>3, <1>4 DEF Unreliable
<1>6. \A st \in Source : SOURCE_TYPE_FAMILY[st] \in FAMILIES
  BY DEF Source, SOURCE_TYPE_FAMILY, FAMILIES
<1> QED BY <1>5, <1>6 DEF Families

LEMMA EvidenceInWindow ==
  ASSUME signals \subseteq Pool, NEW p \in Pair
  PROVE  InWindow(Eligible(Confirmed(p[1]), p[2]))
BY DEF InWindow, Eligible, Confirmed

\* What the proofs below need of scoring besides ShapeInv.
HistoryInv == OnePerIteration(world.history)

LEMMA BaselinesOfWorld ==
  ASSUME ShapeInv, HistoryInv
  PROVE  Baselines(world.history) \in [BASELINED_FLIGHT_KINDS -> Nat]
<1>1. world.history \in SUBSET Sample
  BY DEF ShapeInv, World, Sample
<1> QED BY <1>1, BaselinesAreNat DEF HistoryInv

LEMMA ScoringTypes ==
  ASSUME ShapeInv, HistoryInv, NEW p \in Pair
  PROVE  /\ Scoring(p).score \in 0..(Unit * Unit) /\ Scoring(p).band \in Bands
         /\ Scoring(p).capped \in BOOLEAN /\ Scoring(p).stale \in BOOLEAN
         /\ Scoring(p).failed \in SUBSET Source /\ Scoring(p).gaps \in SUBSET FAMILIES
<1> DEFINE eligible == Eligible(Confirmed(p[1]), p[2])
           baseline == Baselines(world.history)
           contributions == [k \in Kind |-> Contribution(eligible, p[2], k, baseline)]
<1>1. Scoring(p) = Judged(eligible, p[2], contributions, Unreliable(p[1]),
                          collected_source_types(p[1]))
  BY Zenon DEF Scoring, correlate
<1>2. InWindow(eligible)
  BY EvidenceInWindow DEF ShapeInv
<1>3. baseline \in [BASELINED_FLIGHT_KINDS -> Nat]
  BY BaselinesOfWorld
<1>4. p[2] \in Track
  BY DEF Pair
<1> HIDE DEF eligible, baseline
<1>5. contributions \in [Kind -> Nat]
  BY <1>2, <1>3, <1>4, ContributionsAreNat
<1> HIDE DEF contributions
<1>6. /\ Scoring(p).score \in 0..(Unit * Unit) /\ Scoring(p).band \in Bands
      /\ Scoring(p).capped \in BOOLEAN /\ Scoring(p).stale \in BOOLEAN
  BY <1>1, <1>5, JudgedTypes
<1>7. Scoring(p).failed \in SUBSET Source /\ Scoring(p).gaps \in SUBSET FAMILIES
  <2>1. /\ Scoring(p).failed = Unreliable(p[1])
        /\ Scoring(p).gaps = Families(Unreliable(p[1]))
                               \ Families(collected_source_types(p[1]))
    BY ScoredAs
  <2>2. Unreliable(p[1]) \subseteq Source /\ Families(Unreliable(p[1])) \subseteq FAMILIES
    BY UnreliableAreSources DEF ShapeInv
  <2> QED BY <2>1, <2>2
<1> QED BY <1>6, <1>7

TableInv ==
  /\ \A p \in Written : rows[p] \in Row
  /\ \A p \in Pair : alerts[p] # None => alerts[p] \in Alert
  /\ links \subseteq Pair \X {s.id : s \in Pool} /\ receipts \subseteq Pair
  /\ upsets \in 0..MaxUpsets /\ discards \in 0..MaxDiscards

LEMMA RowMade ==
  ASSUME NEW r, r.score \in 0..(Unit * Unit), r.band \in Bands, r.capped \in BOOLEAN,
         r.failed \in SUBSET Source, r.gaps \in SUBSET FAMILIES, r.stale \in BOOLEAN,
         NEW decision \in {"none", "BAND_NONE", "BELOW_FLOOR", "ALERTED"}
  PROVE  [score |-> r.score, band |-> r.band, capped |-> r.capped, failed |-> r.failed,
          gaps |-> r.gaps, stale |-> r.stale, decision |-> decision] \in Row
BY Zenon DEF Row

LEMMA AlertMade ==
  ASSUME NEW score \in 0..(Unit * Unit), NEW band \in ALERT_BANDS,
         NEW gaps \in SUBSET FAMILIES, NEW partial \in SUBSET Source,
         NEW capped \in BOOLEAN, NEW stale \in BOOLEAN, NEW model \in BOOLEAN
  PROVE  [score |-> score, band |-> band, gaps |-> gaps, partial |-> partial,
          capped |-> capped, stale |-> stale, model |-> model] \in Alert
BY Zenon DEF Alert

LEMMA RowFields ==
  ASSUME NEW r \in Row
  PROVE  /\ r.score \in 0..(Unit * Unit) /\ r.band \in Bands /\ r.capped \in BOOLEAN
         /\ r.failed \in SUBSET Source /\ r.gaps \in SUBSET FAMILIES
         /\ r.stale \in BOOLEAN
         /\ r.decision \in {"none", "BAND_NONE", "BELOW_FLOOR", "ALERTED"}
BY Zenon DEF Row

LEMMA UpsertKeepsRows ==
  ASSUME NoneIsNoRow, ShapeInv, HistoryInv, TableInv, NEW p \in Pair, upsert_correlation(p)
  PROVE  \A q \in Written' : rows'[q] \in Row
<1> DEFINE r == Scoring(p)
           decision == IF rows[p] = None THEN "none" ELSE rows[p].decision
<1>1. decision \in {"none", "BAND_NONE", "BELOW_FLOOR", "ALERTED"}
  <2>1. rows[p] # None => rows[p] \in Row
    BY DEF TableInv, Written
  <2> QED BY <2>1, RowFields
<1>2. rows' = [rows EXCEPT ![p] =
        [score |-> r.score, band |-> r.band, capped |-> r.capped, failed |-> r.failed,
         gaps |-> r.gaps, stale |-> r.stale, decision |-> decision]]
  BY UpsertScores, Zenon DEF Upsert, Upserted
<1> HIDE DEF decision, r
<1>3. [score |-> r.score, band |-> r.band, capped |-> r.capped, failed |-> r.failed,
       gaps |-> r.gaps, stale |-> r.stale, decision |-> decision] \in Row
  <2>1. /\ r.score \in 0..(Unit * Unit) /\ r.band \in Bands
        /\ r.capped \in BOOLEAN /\ r.stale \in BOOLEAN
        /\ r.failed \in SUBSET Source /\ r.gaps \in SUBSET FAMILIES
    BY ScoringTypes DEF r
  <2> QED BY <1>1, <2>1, RowMade, ZenonT(40)
<1> DEFINE made == [score |-> r.score, band |-> r.band, capped |-> r.capped,
                    failed |-> r.failed, gaps |-> r.gaps, stale |-> r.stale,
                    decision |-> decision]
<1> HIDE DEF made
<1>4. made \in Row /\ rows' = [rows EXCEPT ![p] = made] /\ DOMAIN rows = Pair
  BY <1>2, <1>3, Zenon DEF made, ShapeInv
<1>5. rows'[p] \in Row /\ \A q \in Pair \ {p} : rows'[q] = rows[q]
  BY <1>4
<1> QED BY <1>5 DEF TableInv, Written

LEMMA DecisionKeepsRows ==
  ASSUME NoneIsNoRow, ShapeInv, TableInv, NEW p \in Written,
         NEW d \in {"BAND_NONE", "BELOW_FLOOR", "ALERTED"}, set_alert_decision(p, d)
  PROVE  \A q \in Written' : rows'[q] \in Row
<1>1. DOMAIN rows = Pair /\ p \in Pair /\ rows[p] \in Row
  BY DEF ShapeInv, Written, TableInv
<1>2. rows' = [rows EXCEPT ![p] = [rows[p] EXCEPT !.decision = d]]
  BY <1>1 DEF set_alert_decision
<1>3. [rows[p] EXCEPT !.decision = d] \in Row
  BY <1>1 DEF Row
<1> DEFINE made == [rows[p] EXCEPT !.decision = d]
<1> HIDE DEF made
<1>4. made \in Row /\ rows' = [rows EXCEPT ![p] = made]
  BY <1>2, <1>3, Zenon DEF made
<1>5. rows'[p] \in Row /\ \A q \in Pair \ {p} : rows'[q] = rows[q]
  BY <1>1, <1>4
<1> QED BY <1>5 DEF TableInv, Written

LEMMA AlertIsTyped ==
  ASSUME NoneIsNoRow, ShapeInv, PhaseInv, TableInv, insert_alert
  PROVE  \A q \in Pair : alerts'[q] # None => alerts'[q] \in Alert
<1> DEFINE r == rows[task.pair]
           partial == {st \in r.failed : SOURCE_TYPE_FAMILY[st] \notin r.gaps}
<1>1. task.pair \in Written /\ r.band \in ALERT_BANDS /\ task.model \in BOOLEAN
  BY DEF PhaseInv, ShapeInv, Task, insert_alert, Running, Alertable
<1>2. task.pair \in Pair /\ DOMAIN alerts = Pair /\ r \in Row
  BY <1>1 DEF ShapeInv, Written, TableInv
<1>3. _caveat(r).gaps = r.gaps /\ _caveat(r).partial = partial
  BY DEF _caveat
<1>4. partial \in SUBSET Source
  BY <1>2, RowFields
<1> HIDE DEF partial
<1> DEFINE made == [score |-> r.score, band |-> r.band, gaps |-> r.gaps,
                    partial |-> partial, capped |-> r.capped, stale |-> r.stale,
                    model |-> task.model]
<1>5. alerts' = [alerts EXCEPT ![task.pair] = made]
  BY <1>3, Zenon DEF insert_alert
<1> HIDE DEF r
<1>6. made \in Alert
  <2>1. /\ r.score \in 0..(Unit * Unit) /\ r.gaps \in SUBSET FAMILIES
        /\ r.capped \in BOOLEAN /\ r.stale \in BOOLEAN
    BY <1>2, RowFields
  <2> QED BY <1>1, <1>4, <2>1, AlertMade, ZenonT(40)
<1> HIDE DEF made
<1>7. alerts'[task.pair] \in Alert /\ \A q \in Pair \ {task.pair} : alerts'[q] = alerts[q]
  BY <1>2, <1>5, <1>6
<1> QED BY <1>7 DEF TableInv

LEMMA HistoryKept ==
  ASSUME ShapeInv, HistoryInv, Next
  PROVE  HistoryInv'
<1>1. CASE Age
  <2> DEFINE history == {h \in world.history : \E g \in world.history : g.id < h.id}
  <2>1. world' = [world EXCEPT !.history = history]
    BY <1>1 DEF Age
  <2>2. history \in SUBSET world.history
    OBVIOUS
  <2> HIDE DEF history
  <2>3. world'.history = history
    BY <2>1 DEF ShapeInv, World
  <2> QED BY <2>2, <2>3, FS_Subset DEF HistoryInv, OnePerIteration
<1>2. CASE Abandon
  <2> DEFINE queries == {IF q.status = "PENDING" THEN [q EXCEPT !.status = "INTERRUPTED"]
                                                 ELSE q : q \in world.queries}
  <2>1. world' = [world EXCEPT !.queries = queries]
    BY <1>2 DEF Abandon
  <2> HIDE DEF queries
  <2>2. world'.history = world.history
    BY <2>1 DEF ShapeInv, World
  <2> QED BY <2>2 DEF HistoryInv
<1>3. CASE world' = world
  BY <1>3 DEF HistoryInv
<1> QED BY <1>1, <1>2, <1>3
        DEF Next, SkipQuiet, upsert_correlation, link_correlation_signal, EndCorrelating,
            RefuseAlert, SkipWritten, _summarise, insert_alert, DecideAlerted,
            EndAlerting, NoModel, Crash, Resume, discard_last, DiscardTorn

LEMMA TableKept ==
  ASSUME NoneIsNoRow, ShapeInv, PhaseInv, HistoryInv, TableInv, Next
  PROVE  TableInv'
<1> USE DEF TableInv
<1>0. upsets \in Nat /\ discards \in Nat /\ MaxUpsets \in Nat /\ MaxDiscards \in Nat
  BY ScaleAssumption DEF ShapeInv
<1>1. ASSUME NEW p \in Pair, SkipQuiet(p) \/ SkipWritten(p) \/ _summarise(p) PROVE TableInv'
  BY <1>1 DEF SkipQuiet, SkipWritten, _summarise, Written
<1>2. ASSUME NEW p \in Pair, upsert_correlation(p) PROVE TableInv'
  BY <1>2, UpsertKeepsRows DEF upsert_correlation
<1>3. CASE link_correlation_signal
  <2>1. CASE task.linking = {}
    BY <1>3, <2>1 DEF link_correlation_signal, Written
  <2>2. CASE task.linking # {}
    <3> DEFINE id == Min(task.linking)
    <3>1. task.linking \in SUBSET {s.id : s \in Pool} /\ task.pair \in Pair
      BY <1>3 DEF ShapeInv, PhaseInv, Task, Written, link_correlation_signal, Running
    <3>2. task.linking \in SUBSET Nat
      BY <3>1, PoolAssumption
    <3>3. id \in task.linking
      BY <2>2, <3>2, MinOfNats
    <3>4. links' = links \cup {<<task.pair, id>>}
      BY <1>3, <2>2 DEF link_correlation_signal
    <3> HIDE DEF id
    <3>5. links' \subseteq Pair \X {s.id : s \in Pool}
      BY <3>1, <3>3, <3>4
    <3> QED BY <1>3, <3>5 DEF link_correlation_signal, Written
  <2> QED BY <2>1, <2>2
<1>4. ASSUME NEW p \in Pair, RefuseAlert(p) PROVE TableInv'
  <2>1. p \in Written
    BY <1>4 DEF PhaseInv, RefuseAlert, Considers, Running
  <2>2. PICK d \in {"BAND_NONE", "BELOW_FLOOR"} : set_alert_decision(p, d)
    BY <1>4 DEF RefuseAlert
  <2>3. \A q \in Written' : rows'[q] \in Row
    BY <2>1, <2>2, DecisionKeepsRows
  <2> QED BY <1>4, <2>3 DEF RefuseAlert
<1>5. CASE insert_alert
  BY <1>5, AlertIsTyped DEF insert_alert, Written
<1>6. CASE DecideAlerted
  <2>1. task.pair \in Written
    BY <1>6 DEF PhaseInv, DecideAlerted, Running
  <2>2. \A q \in Written' : rows'[q] \in Row
    BY <1>6, <2>1, DecisionKeepsRows DEF DecideAlerted
  <2> QED BY <1>6, <2>2 DEF DecideAlerted
<1>7. CASE EndCorrelating \/ EndAlerting \/ NoModel \/ Age \/ Resume \/ Abandon
  BY <1>7 DEF EndCorrelating, EndAlerting, NoModel, Age, Resume, Abandon, Written
<1>8. CASE Crash
  BY <1>0, <1>8 DEF Crash, Written
<1>9. CASE discard_last
  <2>1. discards' \in 0..MaxDiscards
    BY <1>0, <1>9 DEF discard_last, Discardable, Deleted
  <2>2. /\ \A p \in Written' : rows'[p] \in Row
        /\ \A p \in Pair : alerts'[p] # None => alerts'[p] \in Alert
        /\ links' \subseteq Pair \X {s.id : s \in Pool}
    BY <1>9 DEF discard_last, Deleted, Written
  <2> QED BY <1>9, <2>1, <2>2 DEF discard_last, Discardable, Deleted
<1>10. CASE DiscardTorn
  <2>1. \A p \in Written' : p \in Written /\ rows'[p] = rows[p]
    BY <1>10, TornDiscard DEF Written
  <2> QED BY <1>0, <1>10, <2>1, TornDiscard
<1> QED BY <1>1, <1>2, <1>3, <1>4, <1>5, <1>6, <1>7, <1>8, <1>9, <1>10, Zenon DEF Next

LEMMA HistoryInit ==
  ASSUME Init
  PROVE  HistoryInv
BY WorldsAssumption DEF Init, HistoryInv

LEMMA TableInit ==
  ASSUME Init
  PROVE  TableInv
BY ScaleAssumption DEF Init, TableInv, Written

LEMMA TablesHold ==
  ASSUME NoneIsNoRow
  PROVE  Spec => [](HistoryInv /\ TableInv)
<1>1. Init => HistoryInv /\ TableInv
  BY HistoryInit, TableInit
<1>2. HistoryInv /\ TableInv /\ ShapeInv /\ PhaseInv /\ AnswerInv /\ [Next]_vars
        => (HistoryInv /\ TableInv)'
  <2>1. CASE Next
    BY <2>1, NoneIsNoRow, HistoryKept, TableKept
  <2>2. UNCHANGED vars /\ HistoryInv /\ TableInv => (HistoryInv /\ TableInv)'
    BY DEF vars, HistoryInv, TableInv, Written
  <2> QED BY <2>1, <2>2
<1> QED BY <1>1, <1>2, BaseInvHolds, PTL DEF Spec

\* Every score and every alert's score lies between 0 and 1 whatever the evidence,
\* the weights, the full scales and the history of flights are; an alert has its
\* correlation, and links name signals and correlations that exist.
THEOREM AnalysisTypeCorrect ==
  ASSUME NoneIsNoRow
  PROVE  Spec => []TypeOK
<1>1. ShapeInv /\ PhaseInv /\ AnswerInv /\ HistoryInv /\ TableInv => TypeOK
  <2> SUFFICES ASSUME ShapeInv, PhaseInv, TableInv PROVE TypeOK
    OBVIOUS
  <2>1. \A p \in Pair : rows[p] = None \/ rows[p] \in Row
    BY DEF TableInv, Written
  <2>2. \A p \in Pair : alerts[p] = None \/ (alerts[p] \in Alert /\ rows[p] # None)
    BY DEF TableInv, PhaseInv, Written
  <2>3. /\ point.next \in {"CORRELATING", "ALERTING"}
        /\ point.ran \subseteq {"CORRELATING", "ALERTING"}
        /\ point.stamp \in {"none", "CORRELATING", "ALERTING"} /\ point.torn \in BOOLEAN
    BY DEF ShapeInv, Point
  <2>4. /\ task.todo \subseteq Pair /\ (task.pair = None \/ task.pair \in Pair)
        /\ task.step \in {"next", "link", "insert", "decide"} /\ task.model \in BOOLEAN
    BY DEF ShapeInv, Task
  <2> QED BY <2>1, <2>2, <2>3, <2>4, Zenon DEF TypeOK, ShapeInv, TableInv
<1> QED BY <1>1, BaseInvHolds, TablesHold, PTL

-----------------------------------------------------------------------------
(* One report never alerts.                                                *)

Outlets(evidence) == {s.publisher : s \in Of(evidence, "SOCIAL")} \ {Unknown}
Stories(evidence) == {Claim(s) : s \in Of(evidence, "SOCIAL")}
\* The reports of a body of evidence, as Witnesses counts them.
Reports(evidence) ==
  Min({Cardinality(Outlets(evidence)), Cardinality(Stories(evidence))})
    + Cardinality(Flown(evidence))
    + (IF Of(evidence, "LODGING") = {} THEN 0 ELSE 1)
    + (IF Of(evidence, "CAR") = {} THEN 0 ELSE 1)

LEMMA WitnessesAreTold ==
  ASSUME NEW p
  PROVE  Witnesses(p) = Reports(Attributable(p))
BY Zenon DEF Witnesses, Told, Reports, Outlets, Stories, Flown

LEMMA PartIsSmaller ==
  ASSUME NEW S, IsFiniteSet(S), NEW T \in SUBSET S
  PROVE  /\ Cardinality(T) \in Nat /\ Cardinality(S) \in Nat
         /\ Cardinality(T) <= Cardinality(S)
         /\ T # {} => Cardinality(T) >= 1
<1>1. IsFiniteSet(T) /\ Cardinality(T) <= Cardinality(S)
  BY FS_Subset
<1>2. Cardinality(T) \in Nat /\ Cardinality(S) \in Nat
  BY <1>1, FS_CardinalityType
<1>3. T # {} => Cardinality(T) # 0
  BY <1>1, FS_EmptySet
<1> QED BY <1>1, <1>2, <1>3

LEMMA ToldIsFinite ==
  ASSUME NEW evidence \in SUBSET Pool
  PROVE  /\ IsFiniteSet(Outlets(evidence)) /\ IsFiniteSet(Stories(evidence))
         /\ IsFiniteSet(Flown(evidence))
<1> DEFINE posts == Of(evidence, "SOCIAL")
           flights == Of(evidence, "FLIGHT")
           publisher == [s \in posts |-> s.publisher]
           claim == [s \in posts |-> Claim(s)]
           frame == [s \in flights |-> Airframe(s)]
<1>1. posts \in SUBSET Pool /\ flights \in SUBSET Pool
  BY DEF Of
<1>2. IsFiniteSet(posts) /\ IsFiniteSet(flights)
  BY <1>1, PoolAssumption, FS_Subset
<1>3. /\ {s.publisher : s \in posts} = {publisher[s] : s \in posts}
      /\ Stories(evidence) = {claim[s] : s \in posts}
      /\ Flown(evidence) = {frame[s] : s \in flights}
  BY DEF Stories, Flown
<1> HIDE DEF posts, flights, publisher, claim, frame
<1>4. /\ IsFiniteSet({publisher[s] : s \in posts}) /\ IsFiniteSet({claim[s] : s \in posts})
      /\ IsFiniteSet({frame[s] : s \in flights})
  BY <1>2, ImageIsFinite
<1>5. Outlets(evidence) \in SUBSET {s.publisher : s \in posts}
  BY DEF Outlets, posts
<1>6. IsFiniteSet(Outlets(evidence))
  BY <1>3, <1>4, <1>5, FS_Subset
<1> QED BY <1>3, <1>4, <1>6

\* What is counted of the posts of a body of evidence.
LEMMA FewerGrows ==
  ASSUME NEW S1, NEW S2, IsFiniteSet(S1), IsFiniteSet(S2),
         NEW T1 \in SUBSET S1, NEW T2 \in SUBSET S2
  PROVE  /\ Min({Cardinality(T1), Cardinality(T2)}) \in Nat
         /\ Min({Cardinality(S1), Cardinality(S2)}) \in Nat
         /\ Min({Cardinality(T1), Cardinality(T2)}) <= Min({Cardinality(S1), Cardinality(S2)})
         /\ T1 # {} /\ T2 # {} => Min({Cardinality(T1), Cardinality(T2)}) >= 1
<1> DEFINE a == Cardinality(S1)
           b == Cardinality(S2)
           c == Cardinality(T1)
           d == Cardinality(T2)
<1>1. /\ a \in Nat /\ b \in Nat /\ c \in Nat /\ d \in Nat /\ c <= a /\ d <= b
      /\ T1 # {} => c >= 1
      /\ T2 # {} => d >= 1
  BY PartIsSmaller
<1> HIDE DEF a, b, c, d
<1>2. /\ Min({a, b}) = IF a <= b THEN a ELSE b
      /\ Min({c, d}) = IF c <= d THEN c ELSE d
  BY <1>1, MinOfTwo
<1>3. /\ Min({c, d}) \in Nat /\ Min({a, b}) \in Nat /\ Min({c, d}) <= Min({a, b})
      /\ T1 # {} /\ T2 # {} => Min({c, d}) >= 1
  BY <1>1, <1>2
<1> QED BY <1>3 DEF a, b, c, d

\* More evidence never tells less.
LEMMA ToldGrows ==
  ASSUME NEW more \in SUBSET Pool, NEW evidence \in SUBSET more
  PROVE  Reports(evidence) \in Nat /\ Reports(more) \in Nat /\ Reports(evidence) <= Reports(more)
<1>1. evidence \in SUBSET Pool
  OBVIOUS
<1>2. \A type : Of(evidence, type) \subseteq Of(more, type)
  BY DEF Of
<1>3. /\ Outlets(evidence) \subseteq Outlets(more) /\ Stories(evidence) \subseteq Stories(more)
      /\ Flown(evidence) \subseteq Flown(more)
  BY <1>2 DEF Outlets, Stories, Flown
<1> DEFINE posts(e) == Min({Cardinality(Outlets(e)), Cardinality(Stories(e))})
           planes(e) == Cardinality(Flown(e))
           stays(e) == IF Of(e, "LODGING") = {} THEN 0 ELSE 1
           cars(e) == IF Of(e, "CAR") = {} THEN 0 ELSE 1
<1>4. /\ posts(evidence) \in Nat /\ posts(more) \in Nat /\ posts(evidence) <= posts(more)
  BY <1>3, ToldIsFinite, FewerGrows
<1>5. /\ planes(evidence) \in Nat /\ planes(more) \in Nat
      /\ planes(evidence) <= planes(more)
  BY <1>3, ToldIsFinite, PartIsSmaller
<1>6. /\ stays(evidence) \in Nat /\ stays(more) \in Nat /\ stays(evidence) <= stays(more)
      /\ cars(evidence) \in Nat /\ cars(more) \in Nat /\ cars(evidence) <= cars(more)
  BY <1>2
<1>7. /\ Reports(evidence) = posts(evidence) + planes(evidence) + stays(evidence) + cars(evidence)
      /\ Reports(more) = posts(more) + planes(more) + stays(more) + cars(more)
  BY Zenon DEF Reports
<1> HIDE DEF posts, planes, stays, cars
<1> QED BY <1>4, <1>5, <1>6, <1>7

\* The kind a row is scored as is of the family of the row's type.
LEMMA KindOfType ==
  ASSUME NEW s \in Pool
  PROVE  /\ scoring_kind(s) \in Kind /\ KIND_FAMILY[scoring_kind(s)] = s.type
         /\ s.type = "SOCIAL" <=> scoring_kind(s) = "social"
         /\ s.type = "FLIGHT" <=> scoring_kind(s) \in FlightKind
         /\ s.type = "LODGING" <=> scoring_kind(s) = "lodging"
         /\ s.type = "CAR" <=> scoring_kind(s) = "car"
<1> USE DEF Kind, MissionKind, FlightKind
<1>1. s.type \in {"SOCIAL", "FLIGHT", "LODGING", "CAR"}
  BY PoolAssumption DEF FAMILIES
<1>2. CASE s.type = "SOCIAL"
  <2>1. scoring_kind(s) = "social"
    BY <1>2 DEF scoring_kind
  <2> QED BY <1>2, <2>1 DEF KIND_FAMILY
<1>3. CASE s.type = "FLIGHT"
  <2> DEFINE military == s.type = "FLIGHT" /\ s.certain /\ s.category = "M"
             business == s.type = "FLIGHT" /\ s.certain /\ s.category \in {"J", "T", "H"}
  <2>1. scoring_kind(s) = CASE s.type = "SOCIAL" -> "social"
                            [] s.type = "LODGING" -> "lodging"
                            [] s.type = "CAR" -> "car"
                            [] military -> "flight_M"
                            [] business -> "flight_J"
                            [] OTHER -> "flight_AMBIGUOUS"
    BY Zenon DEF scoring_kind
  <2>2. s.type # "SOCIAL" /\ s.type # "LODGING" /\ s.type # "CAR"
    BY <1>3
  <2> HIDE DEF military, business
  <2>3. scoring_kind(s) \in FlightKind
    BY <2>1, <2>2, Zenon DEF FlightKind
  <2>4. \A k \in FlightKind : KIND_FAMILY[k] = "FLIGHT" /\ k \in Kind
    BY DEF KIND_FAMILY
  <2> QED BY <1>3, <2>3, <2>4
<1>4. CASE s.type = "LODGING"
  <2>1. scoring_kind(s) = "lodging"
    BY <1>4 DEF scoring_kind
  <2> QED BY <1>4, <2>1 DEF KIND_FAMILY
<1>5. CASE s.type = "CAR"
  <2>1. scoring_kind(s) = "car"
    BY <1>5 DEF scoring_kind
  <2> QED BY <1>5, <2>1 DEF KIND_FAMILY
<1> QED BY <1>1, <1>2, <1>3, <1>4, <1>5

\* Two families that contribute are two reports: posts that contribute have a
\* publisher, and the other families count from one row.
LEMMA FamiliesTell ==
  ASSUME NEW rows0, InWindow(rows0), NEW g \in FAMILIES, NEW h \in FAMILIES, g # h,
         Of(rows0, g) # {}, Of(rows0, h) # {},
         "SOCIAL" \in {g, h} => Outlets(rows0) # {}
  PROVE  Reports(rows0) >= 2
<1>0. rows0 \in SUBSET Pool
  BY DEF InWindow
<1> DEFINE posts == Min({Cardinality(Outlets(rows0)), Cardinality(Stories(rows0))})
           planes == Cardinality(Flown(rows0))
           stays == IF Of(rows0, "LODGING") = {} THEN 0 ELSE 1
           cars == IF Of(rows0, "CAR") = {} THEN 0 ELSE 1
<1>1. posts \in Nat /\ ("SOCIAL" \in {g, h} => posts >= 1)
  <2>1. "SOCIAL" \in {g, h} => Outlets(rows0) # {} /\ Stories(rows0) # {}
    BY DEF Stories
  <2>2. posts \in Nat /\ (Outlets(rows0) # {} /\ Stories(rows0) # {} => posts >= 1)
    BY <1>0, ToldIsFinite, FewerGrows
  <2> QED BY <2>1, <2>2
<1>2. planes \in Nat /\ ("FLIGHT" \in {g, h} => planes >= 1)
  <2>1. "FLIGHT" \in {g, h} => Flown(rows0) # {}
    BY DEF Flown
  <2>2. planes \in Nat /\ (Flown(rows0) # {} => planes >= 1)
    BY <1>0, ToldIsFinite, PartIsSmaller
  <2> QED BY <2>1, <2>2
<1>3. /\ stays \in Nat /\ ("LODGING" \in {g, h} => stays = 1)
      /\ cars \in Nat /\ ("CAR" \in {g, h} => cars = 1)
  OBVIOUS
<1>4. Reports(rows0) = posts + planes + stays + cars
  BY Zenon DEF Reports
<1> HIDE DEF posts, planes, stays, cars
<1> QED BY <1>1, <1>2, <1>3, <1>4 DEF FAMILIES

\* independent_reports counts no more than there is to count.
LEMMA ReportsAreTold ==
  ASSUME NEW rows0, InWindow(rows0), NEW t \in Track,
         NEW baseline \in [BASELINED_FLIGHT_KINDS -> Nat], NEW contributions,
         contributions = [k \in Kind |-> Contribution(rows0, t, k, baseline)]
  PROVE  /\ independent_reports(rows0, contributions) \in Nat
         /\ independent_reports(rows0, contributions) <= Reports(rows0)
<1>0. rows0 \in SUBSET Pool /\ \A s \in rows0 : s \in Pool
  BY DEF InWindow
<1> DEFINE Counted(k) == IF contributions[k] > 0 THEN Grouped(rows0, k) ELSE {}
           posts == Counted("social")
           outlets == {s.publisher : s \in KnownPublisher(posts)}
           stories == {Claim(s) : s \in posts}
           airframes == {Airframe(s) : s \in UNION {Counted(k) : k \in FlightKind}}
           measured == {k \in {"lodging", "car"} : contributions[k] > 0}
<1>1. posts \subseteq Of(rows0, "SOCIAL")
  <2> SUFFICES ASSUME NEW s \in posts PROVE s \in Of(rows0, "SOCIAL")
    OBVIOUS
  <2>1. s \in rows0 /\ scoring_kind(s) = "social"
    BY DEF Grouped
  <2> QED BY <1>0, <2>1, KindOfType DEF Of
<1>2. UNION {Counted(k) : k \in FlightKind} \subseteq Of(rows0, "FLIGHT")
  <2> SUFFICES ASSUME NEW k \in FlightKind, NEW s \in Counted(k)
               PROVE  s \in Of(rows0, "FLIGHT")
    OBVIOUS
  <2>1. s \in rows0 /\ scoring_kind(s) = k
    BY DEF Grouped
  <2> QED BY <1>0, <2>1, KindOfType DEF Of
<1>3. "lodging" \in measured => Of(rows0, "LODGING") # {}
  <2> SUFFICES ASSUME contributions["lodging"] > 0 PROVE Of(rows0, "LODGING") # {}
    OBVIOUS
  <2>1. Grouped(rows0, "lodging") # {}
    BY ContributionIsNat DEF Kind, MissionKind
  <2>2. PICK s \in rows0 : scoring_kind(s) = "lodging"
    BY <2>1 DEF Grouped
  <2> QED BY <1>0, <2>2, KindOfType DEF Of
<1>4. "car" \in measured => Of(rows0, "CAR") # {}
  <2> SUFFICES ASSUME contributions["car"] > 0 PROVE Of(rows0, "CAR") # {}
    OBVIOUS
  <2>1. Grouped(rows0, "car") # {}
    BY ContributionIsNat DEF Kind, MissionKind
  <2>2. PICK s \in rows0 : scoring_kind(s) = "car"
    BY <2>1 DEF Grouped
  <2> QED BY <1>0, <2>2, KindOfType DEF Of
<1>5. independent_reports(rows0, contributions)
        = Min({Cardinality(outlets), Cardinality(stories)})
            + Cardinality(airframes) + Cardinality(measured)
  BY Zenon DEF independent_reports
<1>6. outlets \in SUBSET Outlets(rows0) /\ stories \in SUBSET Stories(rows0)
  BY <1>1 DEF Outlets, Stories, KnownPublisher
<1>7. airframes \in SUBSET Flown(rows0)
  BY <1>2 DEF Flown
<1> DEFINE stays == IF Of(rows0, "LODGING") = {} THEN 0 ELSE 1
           cars == IF Of(rows0, "CAR") = {} THEN 0 ELSE 1
<1>8. Cardinality(measured) <= stays + cars /\ Cardinality(measured) \in Nat
  <2>1. measured \in {{}, {"lodging"}, {"car"}, {"lodging", "car"}}
    BY Zenon
  <2>2. /\ Cardinality({}) = 0 /\ Cardinality({"lodging"}) = 1 /\ Cardinality({"car"}) = 1
        /\ IsFiniteSet({"lodging"})
    BY FS_EmptySet, FS_Singleton
  <2>3. Cardinality({"lodging", "car"}) = 2
    <3>1. {"lodging", "car"} = {"lodging"} \cup {"car"} /\ "car" \notin {"lodging"}
      OBVIOUS
    <3>2. Cardinality({"lodging"} \cup {"car"}) = Cardinality({"lodging"}) + 1
      BY <2>2, <3>1, FS_AddElement
    <3> QED BY <2>2, <3>1, <3>2
  <2>4. /\ stays \in {0, 1} /\ ("lodging" \in measured => stays = 1)
        /\ cars \in {0, 1} /\ ("car" \in measured => cars = 1)
    BY <1>3, <1>4
  <2> HIDE DEF measured, stays, cars
  <2>5. CASE measured = {}
    BY <2>2, <2>4, <2>5
  <2>6. CASE measured = {"lodging"}
    BY <2>2, <2>4, <2>6
  <2>7. CASE measured = {"car"}
    BY <2>2, <2>4, <2>7
  <2>8. CASE measured = {"lodging", "car"}
    BY <2>3, <2>4, <2>8
  <2> QED BY <2>1, <2>5, <2>6, <2>7, <2>8
<1> HIDE DEF outlets, stories, airframes, measured, stays, cars
<1> DEFINE a == Min({Cardinality(outlets), Cardinality(stories)})
           b == Min({Cardinality(Outlets(rows0)), Cardinality(Stories(rows0))})
<1>9. a \in Nat /\ b \in Nat /\ a <= b
  BY <1>0, <1>6, ToldIsFinite, FewerGrows
<1>10. /\ Cardinality(airframes) \in Nat /\ Cardinality(Flown(rows0)) \in Nat
       /\ Cardinality(airframes) <= Cardinality(Flown(rows0))
  BY <1>0, <1>7, ToldIsFinite, PartIsSmaller
<1>11. Reports(rows0) = b + Cardinality(Flown(rows0)) + stays + cars
  BY Zenon DEF Reports, stays, cars
<1>12. independent_reports(rows0, contributions)
         = a + Cardinality(airframes) + Cardinality(measured)
  BY <1>5
<1>13. stays \in Nat /\ cars \in Nat
  BY DEF stays, cars
<1> HIDE DEF a, b
<1> QED BY <1>8, <1>9, <1>10, <1>11, <1>12, <1>13

\* A band that alerts was given for two reports: two families of the evidence,
\* or as many reports as LOW asks for.
LEMMA JudgedTold ==
  ASSUME NEW rows0, InWindow(rows0), NEW t \in Track,
         NEW baseline \in [BASELINED_FLIGHT_KINDS -> Nat], NEW contributions,
         contributions = [k \in Kind |-> Contribution(rows0, t, k, baseline)],
         NEW unreliable, NEW collected,
         NEW j, j = Judged(rows0, t, contributions, unreliable, collected),
         j.band \in ALERT_BANDS
  PROVE  Reports(rows0) >= 2
<1>0. rows0 \in SUBSET Pool /\ Reports(rows0) \in Nat
  BY ToldGrows DEF InWindow
<1> DEFINE contributing == {s \in rows0 : contributions[scoring_kind(s)] > 0}
           kind == [s \in contributing |-> KIND_FAMILY[scoring_kind(s)]]
           families == {KIND_FAMILY[scoring_kind(s)] : s \in contributing}
           types == Cardinality(families)
           score == Score(contributions)
           anchored == has_strong_anchor(t, contributions)
           reports == independent_reports(rows0, contributions)
           band == _band_for(score, types, anchored, reports)
           capped == unreliable # {} /\ band = "HIGH"
           shown == IF capped THEN "MEDIUM" ELSE band
           gaps == Families(unreliable) \ Families(collected)
           newest == {s \in contributing : \A o \in contributing : o.made <= s.made}
           stale == contributing # {} /\ \A s \in newest : s.made # 0
           shares == {s.id : s \in contributing}
<1>1. j = [score |-> score, band |-> shown, capped |-> capped, failed |-> unreliable,
           gaps |-> gaps, stale |-> stale, shares |-> shares]
  BY Zenon DEF Judged
<1>2. IsFiniteSet(families) /\ types \in Nat
  <2>1. contributing \in SUBSET Pool
    BY <1>0
  <2>2. IsFiniteSet(contributing)
    BY <2>1, PoolAssumption, FS_Subset
  <2>3. families = {kind[s] : s \in contributing}
    OBVIOUS
  <2> HIDE DEF kind, contributing
  <2>4. IsFiniteSet(families)
    BY <2>2, <2>3, ImageIsFinite
  <2> QED BY <2>4, FS_CardinalityType
<1>3. \A s \in contributing :
        /\ s.type \in families /\ s.type \in FAMILIES /\ Of(rows0, s.type) # {}
        /\ KIND_FAMILY[scoring_kind(s)] = s.type
        /\ s.type = "SOCIAL" => Outlets(rows0) # {}
  <2> SUFFICES ASSUME NEW s \in contributing
               PROVE  /\ s.type \in families /\ s.type \in FAMILIES
                      /\ Of(rows0, s.type) # {}
                      /\ KIND_FAMILY[scoring_kind(s)] = s.type
                      /\ s.type = "SOCIAL" => Outlets(rows0) # {}
    OBVIOUS
  <2>1. s \in rows0 /\ s \in Pool /\ contributions[scoring_kind(s)] > 0
    BY <1>0
  <2>2. scoring_kind(s) \in Kind /\ KIND_FAMILY[scoring_kind(s)] = s.type
    BY <2>1, KindOfType
  <2>3. s.type \in families
    BY <2>2
  <2>4. s.type \in FAMILIES /\ Of(rows0, s.type) # {}
    BY <2>1, PoolAssumption DEF Of
  <2>5. ASSUME s.type = "SOCIAL" PROVE Outlets(rows0) # {}
    <3>1. scoring_kind(s) = "social"
      BY <2>1, <2>5, KindOfType
    <3>2. Contribution(rows0, t, "social", baseline) > 0
      BY <2>1, <2>2, <3>1
    <3>3. KnownPublisher(Grouped(rows0, "social")) # {}
      BY <2>2, <3>1, <3>2, ContributionIsNat
    <3>4. PICK r \in rows0 : scoring_kind(r) = "social" /\ r.publisher # Unknown
      BY <3>3 DEF KnownPublisher, Grouped
    <3>5. r \in Of(rows0, "SOCIAL")
      BY <1>0, <3>4, KindOfType DEF Of
    <3> QED BY <3>4, <3>5 DEF Outlets
  <2> QED BY <2>2, <2>3, <2>4, <2>5
<1>4. \A f \in families : \E s \in contributing : f = s.type
  BY <1>3
<1> HIDE DEF contributing, families, kind, anchored
<1>5. ASSUME types >= 2 PROVE Reports(rows0) >= 2
  <2>1. families # {}
    BY <1>5, FS_EmptySet
  <2>2. PICK g \in families : TRUE
    BY <2>1
  <2>3. families # {g}
    BY <1>5, FS_Singleton
  <2>4. PICK h \in families : h # g
    BY <2>1, <2>2, <2>3
  <2>5. /\ g \in FAMILIES /\ h \in FAMILIES /\ Of(rows0, g) # {} /\ Of(rows0, h) # {}
        /\ "SOCIAL" \in {g, h} => Outlets(rows0) # {}
    <3>1. PICK s \in contributing : g = s.type
      BY <1>4
    <3>2. PICK r \in contributing : h = r.type
      BY <1>4
    <3> QED BY <1>3, <3>1, <3>2
  <2> QED BY <2>4, <2>5, FamiliesTell
<1>6. reports \in Nat /\ reports <= Reports(rows0)
  BY ReportsAreTold
<1>7. shown \in ALERT_BANDS
  <2>1. j.band = shown
    <3> HIDE DEF shown, capped, gaps, stale, shares, score
    <3> QED BY <1>1, JudgedFields
  <2> QED BY <2>1
<1>8. band \in ALERT_BANDS
  BY <1>7 DEF ALERT_BANDS
<1> HIDE DEF types, reports, score
<1>9. types >= Cfg.highTypes \/ types >= Cfg.mediumTypes \/ reports >= Cfg.lowReports
  BY <1>8, Zenon DEF _band_for, ALERT_BANDS
<1>10. /\ Cfg.highTypes \in 2..4 /\ Cfg.mediumTypes \in 2..4
       /\ Cfg.lowReports \in Nat /\ Cfg.lowReports >= 2
  BY CfgAssumption
<1> QED BY <1>0, <1>2, <1>5, <1>6, <1>9, <1>10

LEMMA ScoringTold ==
  ASSUME ShapeInv, HistoryInv, NEW p \in Pair, Scoring(p).band \in ALERT_BANDS
  PROVE  Witnesses(p) >= 2
<1> DEFINE eligible == Eligible(Confirmed(p[1]), p[2])
           baseline == Baselines(world.history)
           contributions == [k \in Kind |-> Contribution(eligible, p[2], k, baseline)]
<1>1. Scoring(p) = Judged(eligible, p[2], contributions, Unreliable(p[1]),
                          collected_source_types(p[1]))
  BY Zenon DEF Scoring, correlate
<1>2. InWindow(eligible)
  BY EvidenceInWindow DEF ShapeInv
<1>3. baseline \in [BASELINED_FLIGHT_KINDS -> Nat]
  BY BaselinesOfWorld
<1>4. p[2] \in Track
  BY DEF Pair
<1>5. eligible = Attributable(p)
  BY Zenon DEF Eligible, Attributable
<1> HIDE DEF eligible, baseline
<1>6. contributions = [k \in Kind |-> Contribution(eligible, p[2], k, baseline)]
  OBVIOUS
<1> HIDE DEF contributions
<1>7. Reports(eligible) >= 2
  BY <1>1, <1>2, <1>3, <1>4, <1>6, JudgedTold
<1> QED BY <1>5, <1>7, WitnessesAreTold

\* A band that alerts has its two reports, and so has an alert: what has been
\* collected is never taken away, and a rescored row is judged anew.
ToldInv ==
  /\ \A p \in Written : rows[p].band \in ALERT_BANDS => Witnesses(p) >= 2
  /\ TwoReports

LEMMA SignalsGrow ==
  ASSUME ShapeInv, [Next]_vars
  PROVE  signals \subseteq signals' /\ signals' \subseteq Pool
  BY DEF ShapeInv, vars, Next, SkipQuiet, upsert_correlation, link_correlation_signal,
         EndCorrelating, RefuseAlert, SkipWritten, _summarise, insert_alert,
         DecideAlerted, EndAlerting, NoModel, Crash, Age, Resume, Abandon, discard_last, DiscardTorn

LEMMA WitnessesStay ==
  ASSUME signals \subseteq signals', signals' \subseteq Pool, NEW p \in Pair,
         Witnesses(p) >= 2
  PROVE  (Witnesses(p) >= 2)'
<1> DEFINE after == {s \in {r \in signals' : r.city = p[1] /\ r.confirmed /\ r.age # Undated
                                            /\ r.age <= Window} :
                       in_window(s) /\ s.track \in {p[2], Unattributed}}
<1>2. Attributable(p) \in SUBSET after /\ after \in SUBSET Pool
  BY DEF Attributable, Confirmed
<1>3. Witnesses(p)' = Reports(after)
  BY Zenon DEF Witnesses, Told, Reports, Outlets, Stories, Flown, Attributable, Confirmed
<1> HIDE DEF after
<1>4. Reports(Attributable(p)) \in Nat /\ Reports(after) \in Nat
      /\ Reports(Attributable(p)) <= Reports(after)
  BY <1>2, ToldGrows
<1>5. Reports(after) >= 2
  BY <1>4, WitnessesAreTold
<1> QED BY <1>3, <1>5

LEMMA ToldKept ==
  ASSUME NoneIsNoRow, ShapeInv, PhaseInv, HistoryInv, ToldInv, Next
  PROVE  ToldInv'
<1> USE DEF ToldInv, TwoReports
<1>1. \A p \in Pair : Witnesses(p) >= 2 => (Witnesses(p) >= 2)'
  BY SignalsGrow, WitnessesStay
<1> DEFINE Enough(p) == (Witnesses(p) >= 2)'
<1>2. \A p \in Pair : Witnesses(p) >= 2 => Enough(p)
  BY <1>1
<1>3. /\ \A p \in Pair : rows[p] # None /\ rows[p].band \in ALERT_BANDS => Enough(p)
      /\ \A p \in Pair : alerts[p] # None => Enough(p)
  BY <1>2 DEF Written
<1>4. SUFFICES /\ \A p \in Pair : rows'[p] # None /\ rows'[p].band \in ALERT_BANDS
                                    => Enough(p)
               /\ \A p \in Pair : alerts'[p] # None => Enough(p)
  BY DEF Written
<1> HIDE DEF Enough
<1>5. ASSUME NEW p \in Pair, upsert_correlation(p)
      PROVE  /\ \A q \in Pair : rows'[q] # None /\ rows'[q].band \in ALERT_BANDS
                                  => Enough(q)
             /\ \A q \in Pair : alerts'[q] # None => Enough(q)
  <2>1. /\ \A q \in Pair \ {p} : rows'[q] = rows[q]
        /\ rows'[p].band = Scoring(p).band
    BY <1>5, UpsertScores, UpsertedRow
  <2>2. Scoring(p).band \in ALERT_BANDS => Enough(p)
    BY <1>2, ScoringTold
  <2>3. alerts' = alerts
    BY <1>5 DEF upsert_correlation
  <2> QED BY <1>3, <2>1, <2>2, <2>3
<1>6. ASSUME NEW p \in Written, NEW d, set_alert_decision(p, d), alerts' = alerts
      PROVE  /\ \A q \in Pair : rows'[q] # None /\ rows'[q].band \in ALERT_BANDS
                                  => Enough(q)
             /\ \A q \in Pair : alerts'[q] # None => Enough(q)
  <2>1. /\ \A q \in Pair \ {p} : rows'[q] = rows[q]
        /\ rows'[p].band = rows[p].band
    BY <1>6, DecidedRow
  <2>2. p \in Pair /\ rows[p] # None
    BY DEF Written
  <2> QED BY <1>3, <1>6, <2>1, <2>2
<1>7. ASSUME NEW p \in Pair, RefuseAlert(p)
      PROVE  p \in Written /\ alerts' = alerts /\ \E d : set_alert_decision(p, d)
  BY <1>7 DEF PhaseInv, RefuseAlert, Considers, Running
<1>8. ASSUME DecideAlerted
      PROVE  /\ task.pair \in Written /\ alerts' = alerts
             /\ \E d : set_alert_decision(task.pair, d)
  BY <1>8 DEF PhaseInv, DecideAlerted, Running
<1>9. ASSUME insert_alert
      PROVE  /\ \A q \in Pair : rows'[q] # None /\ rows'[q].band \in ALERT_BANDS
                                  => Enough(q)
             /\ \A q \in Pair : alerts'[q] # None => Enough(q)
  <2>1. /\ task.pair \in Pair /\ rows' = rows
        /\ \A q \in Pair \ {task.pair} : alerts'[q] = alerts[q]
    BY <1>9, AlertWritten DEF insert_alert
  <2>2. rows[task.pair] # None /\ rows[task.pair].band \in ALERT_BANDS
    BY <1>9 DEF PhaseInv, insert_alert, Running, Alertable, Written
  <2> QED BY <1>3, <2>1, <2>2
<1>10. CASE discard_last \/ DiscardTorn
  <2>1. /\ \A p \in Pair : rows'[p] = rows[p] \/ rows'[p] = None
        /\ \A p \in Pair : alerts'[p] = alerts[p] \/ alerts'[p] = None
    BY <1>10, TornDiscard DEF discard_last, Deleted
  <2> QED BY <1>3, <2>1
<1>11. CASE rows' = rows /\ alerts' = alerts
  BY <1>3, <1>11
<1> QED BY <1>5, <1>6, <1>7, <1>8, <1>9, <1>10, <1>11
        DEF Next, SkipQuiet, link_correlation_signal, EndCorrelating, SkipWritten,
            _summarise, EndAlerting, NoModel, Crash, Age, Resume, Abandon

\* One report never alerts, for every mission, body of evidence and history: not
\* a story under many mastheads, a flight seen live and in history, a listing of
\* many rooms, a CANDIDATE row or one of another track, whatever was scored again,
\* crashed, resumed, abandoned or discarded in between, the discards that died
\* half-way among them.  Aircraft are told apart by the names the code has for
\* them, the first of which is of a flight: see OneAirframeIsOneReport.
THEOREM NoLoneReport ==
  ASSUME NoneIsNoRow
  PROVE  Spec => []TwoReports
<1>1. Init => ToldInv
  BY DEF Init, ToldInv, TwoReports, Written
<1>2. ToldInv /\ HistoryInv /\ TableInv /\ ShapeInv /\ PhaseInv /\ AnswerInv /\ [Next]_vars
        => ToldInv'
  <2>1. CASE Next
    BY <2>1, NoneIsNoRow, ToldKept
  <2>2. ASSUME UNCHANGED vars, ToldInv, ShapeInv PROVE ToldInv'
    <3>1. \A p \in Pair : Witnesses(p) >= 2 => (Witnesses(p) >= 2)'
      BY <2>2, SignalsGrow, WitnessesStay
    <3>2. rows' = rows /\ alerts' = alerts
      BY <2>2 DEF vars
    <3> QED BY <2>2, <3>1, <3>2 DEF ToldInv, TwoReports, Written
  <2> QED BY <2>1, <2>2
<1>3. ToldInv => TwoReports
  BY DEF ToldInv
<1> QED BY <1>1, <1>2, <1>3, BaseInvHolds, TablesHold, PTL DEF Spec

\* An airframe of one name leaves no fewer airframes than names.
LEMMA NamesAreFewer ==
  ASSUME \A s \in Pool, r \in Pool : s.frame = r.frame => Airframe(s) = Airframe(r),
         NEW evidence \in SUBSET Pool
  PROVE  /\ IsFiniteSet(Frames(evidence)) /\ IsFiniteSet(Flown(evidence))
         /\ Cardinality(Flown(evidence)) <= Cardinality(Frames(evidence))
<1> DEFINE flights == Of(evidence, "FLIGHT")
           frame == [s \in flights |-> s.frame]
           frames == {frame[s] : s \in flights}
           name == [x \in frames |-> Airframe(CHOOSE s \in flights : s.frame = x)]
<1>1. flights \in SUBSET Pool /\ IsFiniteSet(flights)
  BY PoolAssumption, FS_Subset DEF Of
<1>2. Frames(evidence) = frames
  BY DEF Frames
<1>3. ASSUME NEW s \in flights PROVE s.frame \in frames /\ name[s.frame] = Airframe(s)
  <2>1. frame[s] = s.frame /\ s.frame \in frames
    OBVIOUS
  <2> DEFINE r == CHOOSE o \in flights : o.frame = s.frame
  <2>2. r \in flights /\ r.frame = s.frame
    OBVIOUS
  <2>3. name[s.frame] = Airframe(r)
    BY <2>1
  <2> HIDE DEF r
  <2> QED BY <1>1, <2>1, <2>2, <2>3
<1>4. ASSUME NEW x \in frames PROVE \E s \in flights : s.frame = x
  OBVIOUS
<1> HIDE DEF frames, name
<1>5. Flown(evidence) = {name[x] : x \in frames}
  BY <1>3, <1>4 DEF Flown
<1> HIDE DEF flights, frame
<1>6. IsFiniteSet(frames)
  BY <1>1, ImageIsFinite DEF frames
<1>7. /\ IsFiniteSet({name[x] : x \in frames})
      /\ Cardinality({name[x] : x \in frames}) <= Cardinality(frames)
  BY <1>6, ImageIsFinite
<1> QED BY <1>2, <1>5, <1>6, <1>7

\* As many reports of as many airframes are told as of as many names.
LEMMA FramesTell ==
  ASSUME \A s \in Pool, r \in Pool : s.frame = r.frame => Airframe(s) = Airframe(r),
         NEW evidence \in SUBSET Pool, Told(evidence, Flown(evidence)) >= 2
  PROVE  Told(evidence, Frames(evidence)) >= 2
<1> DEFINE posts == Min({Cardinality(Outlets(evidence)), Cardinality(Stories(evidence))})
           stays == IF Of(evidence, "LODGING") = {} THEN 0 ELSE 1
           cars == IF Of(evidence, "CAR") = {} THEN 0 ELSE 1
           names == Cardinality(Flown(evidence))
           frames == Cardinality(Frames(evidence))
<1>1. names \in Nat /\ frames \in Nat /\ names <= frames
  BY NamesAreFewer, FS_CardinalityType
<1>2. Outlets(evidence) \in SUBSET Outlets(evidence)
      /\ Stories(evidence) \in SUBSET Stories(evidence)
  OBVIOUS
<1>3. posts \in Nat
  BY <1>2, ToldIsFinite, FewerGrows
<1>4. stays \in Nat /\ cars \in Nat
  OBVIOUS
<1>5. /\ Told(evidence, Flown(evidence)) = posts + names + stays + cars
      /\ Told(evidence, Frames(evidence)) = posts + frames + stays + cars
  BY Zenon DEF Told, Outlets, Stories
<1> HIDE DEF posts, stays, cars, names, frames
<1> QED BY <1>1, <1>3, <1>4, <1>5

\* What scoring.py 689 claims, that one aircraft seen twice is one report, for every
\* body of evidence in which an airframe has one name, as it has when all its rows
\* carry the id of one flight.  Without that it is false (Analysis_legs.cfg).
THEOREM OneAirframeIsOneReport ==
  ASSUME NoneIsNoRow,
         \A s \in Pool, r \in Pool : s.frame = r.frame => Airframe(s) = Airframe(r)
  PROVE  Spec => []OneAircraftIsOneReport
<1>1. TwoReports /\ ShapeInv => OneAircraftIsOneReport
  <2> SUFFICES ASSUME TwoReports, ShapeInv, NEW p \in Pair, alerts[p] # None
               PROVE  Told(Attributable(p), Frames(Attributable(p))) >= 2
    BY DEF OneAircraftIsOneReport
  <2> DEFINE evidence == Attributable(p)
  <2>1. evidence \in SUBSET Pool
    BY DEF Attributable, Confirmed, ShapeInv
  <2>2. Told(evidence, Flown(evidence)) >= 2
    BY DEF TwoReports, Witnesses
  <2> HIDE DEF evidence
  <2>3. Told(evidence, Frames(evidence)) >= 2
    BY <2>1, <2>2, FramesTell
  <2> QED BY <2>3 DEF evidence
<1> QED BY <1>1, NoLoneReport, BaseInvHolds, PTL

=============================================================================
