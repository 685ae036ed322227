------------------------------ MODULE Analysis ------------------------------
(***************************************************************************)
(* What the evidence of one iteration is turned into: CORRELATING scores   *)
(* every city on every track (base/scoring.py, agents/correlation.py) and  *)
(* ALERTING writes the alerts (agents/alerting.py).  Every statement that  *)
(* commits is a step, so a crash may fall between any two of them; the     *)
(* iteration is then resumed at the interrupted stage or at an earlier     *)
(* one, or abandoned and finalised, and a stage may be discarded.          *)
(*                                                                         *)
(* Numbers are integers: a quality of 1.0 is Unit, a weight of 1.0 is      *)
(* Unit, and a score of 1.0 is Unit * Unit.                                *)
(***************************************************************************)
EXTENDS Integers, FiniteSets, Sequences, FiniteSetsExt

CONSTANTS City, Track,
          Unattributed,   \* the track of a signal that names none
          Unknown,        \* the publisher or claim of a row that has none
          None, Undated,        \* the age of a row without observed_at
          Pool,           \* the signals that may have been collected
          Worlds,         \* what else may have happened: queries, refusals...
          Weights,        \* [Track -> [MissionKind -> 0..Unit]]
          Categories,     \* [Track -> SUBSET {"M","J","T","H"}]
          Unit, Window,
          Decay,          \* [0..Window -> 1..Unit], the age weight
          Cfg,            \* the thresholds and full scales of the mission
          MaxUpsets,      \* bound: crashes
          MaxDiscards     \* bound: stages discarded

FAMILIES == {"SOCIAL", "FLIGHT", "LODGING", "CAR"}
MissionKind == {"social", "flight_M", "flight_J", "lodging", "car"}
FlightKind == {"flight_M", "flight_J", "flight_AMBIGUOUS"}
BASELINED_FLIGHT_KINDS == {"flight_J", "flight_AMBIGUOUS"}
Kind == MissionKind \cup FlightKind

ASSUME ScaleAssumption ==
  /\ Unit \in Nat \ {0} /\ Window \in Nat
  /\ Decay \in [0..Window -> 1..Unit]
  /\ Weights \in [Track -> [MissionKind -> 0..Unit]]
  /\ Categories \in [Track -> (SUBSET {"M", "J", "T", "H"}) \ {{}}]
  /\ MaxUpsets \in Nat /\ MaxDiscards \in Nat

\* services/tunables.py holds a mission to two types for MEDIUM and two
\* reports for LOW at least only by its reference values: they are assumed.
\* The full scales are divisors, and their least values there are above zero.
ASSUME CfgAssumption ==
  /\ Cfg.highTypes \in 2..4 /\ Cfg.mediumTypes \in 2..4
  /\ Cfg.lowReports \in Nat /\ Cfg.lowReports >= 2
  /\ Cfg.single \in 0..Unit
  /\ {Cfg.excessFull, Cfg.lodgingFull, Cfg.priceFull, Cfg.carFull} \subseteq Nat \ {0}
  /\ {Cfg.socialFull, Cfg.flightFull, Cfg.onAirport} \subseteq Nat
  /\ Cfg.minSamples \in Nat \ {0}

\* What a row of signals holds, as far as a score is computed from it.
ASSUME PoolAssumption ==
  /\ IsFiniteSet(Pool)
  /\ \A s \in Pool : /\ s.id \in Nat /\ s.type \in FAMILIES
                     /\ s.made \in Int   \* its iteration, counted from this one
                     /\ s.age \in {Undated} \cup Int  \* before the anchor
                     /\ s.salience \in 0..Unit
                     /\ {s.base, s.left, s.priceBase, s.priceNear, s.seats} \subseteq Nat

KIND_FAMILY == [k \in Kind |-> CASE k = "social" -> "SOCIAL"
                                 [] k \in FlightKind -> "FLIGHT"
                                 [] k = "lodging" -> "LODGING"
                                 [] k = "car" -> "CAR"]
SOURCE_TYPE_FAMILY ==
  [SOCIAL |-> "SOCIAL", FLIGHT_COUNT |-> "FLIGHT", FLIGHT_LIVE |-> "FLIGHT",
   FLIGHT_HISTORY |-> "FLIGHT", LODGING |-> "LODGING",
   LODGING_PRICE |-> "LODGING", CAR |-> "CAR"]
Source == DOMAIN SOURCE_TYPE_FAMILY
Families(sources) == {SOURCE_TYPE_FAMILY[st] : st \in sources}

STAGE_SOURCE_TYPES ==
  [COLLECTING_SOCIAL |-> {"SOCIAL"}, TRIAGING |-> {"SOCIAL"},
   TIPPING |-> {"FLIGHT_LIVE", "LODGING", "CAR"},
   COLLECTING_TIPPED |-> {"FLIGHT_LIVE", "LODGING", "CAR"}]
source_types_for_skipped(stages) == UNION {STAGE_SOURCE_TYPES[s] : s \in stages}

\* What may have happened: the status of a query once collecting is over, when
\* nothing is in progress (recovery settles what a crash left so).
UNRELIABLE_QUERY_STATUSES ==
  {"FAILED", "INTERRUPTED", "SKIPPED_BUDGET", "SKIPPED_NO_MAPPING"}
World == [queries : SUBSET [city : City, source : Source,
                            status : {"PENDING", "COMPLETE"} \cup UNRELIABLE_QUERY_STATUSES],
          refused : SUBSET [source : Source, cities : SUBSET City],
          uncovered : BOOLEAN,
          skipped : SUBSET DOMAIN STAGE_SOURCE_TYPES,
          history : SUBSET [id : Nat, surged : BOOLEAN, seen : [FlightKind -> Nat]]]
\* The baseline has a sample for an iteration, and there are finitely many.
OnePerIteration(history) ==
  IsFiniteSet(history) /\ \A g \in history, h \in history : g.id = h.id => g = h
ASSUME WorldsAssumption ==
  Worlds \subseteq World /\ \A w \in Worlds : OnePerIteration(w.history)

AtLeast0(n) == IF n < 0 THEN 0 ELSE n
AtMost(n, top) == IF n > top THEN top ELSE n
Clamped(n) == AtMost(AtLeast0(n), Unit)

-----------------------------------------------------------------------------
(* Kinds and weights.                                                      *)

\* scoring_kind: a live record that cannot prove its category is AMBIGUOUS.
scoring_kind(s) ==
  CASE s.type = "SOCIAL" -> "social"
    [] s.type = "LODGING" -> "lodging"
    [] s.type = "CAR" -> "car"
    [] s.type = "FLIGHT" /\ s.certain /\ s.category = "M" -> "flight_M"
    [] s.type = "FLIGHT" /\ s.certain /\ s.category \in {"J", "T", "H"} -> "flight_J"
    [] OTHER -> "flight_AMBIGUOUS"

\* The lowest weight any category in the track's filter would have earned.
ambiguous_flight_weight(t) ==
  Min({Weights[t][IF c = "M" THEN "flight_M" ELSE "flight_J"] : c \in Categories[t]})
kind_weight(t, k) == IF k = "flight_AMBIGUOUS" THEN ambiguous_flight_weight(t)
                                               ELSE Weights[t][k]
anchor_flight_kind(t) ==
  IF Weights[t]["flight_M"] >= Weights[t]["flight_J"] THEN "flight_M" ELSE "flight_J"
has_strong_anchor(t, contributions) ==
  contributions["social"] > 0 \/ contributions[anchor_flight_kind(t)] > 0

\* An iteration that is opened again reads what was observed after its anchor.
Distance(s) == IF s.age < 0 THEN -s.age ELSE s.age
in_window(s) == s.age # Undated /\ Distance(s) <= Window
Eligible(rows, t) == {s \in rows : in_window(s) /\ s.track \in {t, Unattributed}}
Grouped(rows, k) == {s \in rows : scoring_kind(s) = k}

-----------------------------------------------------------------------------
(* Quality of each kind, 0..Unit.                                          *)

Added(f) == FoldFunction(+, 0, f)
decay_of(s) == Decay[Distance(s)]
Freshest(rows) == Max({decay_of(s) : s \in rows})
\* Every distinct value counts once, at the weight of its freshest row.
Distinct(value) ==
  Added([v \in Range(value) |-> Freshest({s \in DOMAIN value : value[s] = v})])

\* Counts are fractions of an observation (in Units), because age discounts them.
corroboration_quality(count, full) ==
  CASE count <= 0 -> 0
    [] count \in 1..(Unit - 1) -> Clamped((Cfg.single * count) \div Unit)
    [] count >= Unit /\ full <= 1 -> Unit
    [] OTHER -> LET extra == AtMost((count - Unit) \div (full - 1), Unit)
                IN  Clamped(Cfg.single + ((Unit - Cfg.single) * extra) \div Unit)

\* Unknown publishers count for none, unknown claims for one each.
Claim(s) == IF s.claim = Unknown THEN s.id ELSE s.claim
KnownPublisher(rows) == {s \in rows : s.publisher # Unknown}
social_quality(rows) ==
  LET publishers == Distinct([s \in KnownPublisher(rows) |-> s.publisher])
      claims == Distinct([s \in rows |-> Claim(s)])
      breadth == corroboration_quality(Min({publishers, claims}), Cfg.socialFull)
  IN  (breadth * Max({s.salience : s \in rows})) \div Unit

\* Excess over a baseline given as twice the median; 0 stands for no baseline.
flight_excess(count, baseline) ==
  AtMost((AtLeast0(2 * count - baseline * Unit) * 100)
           \div (baseline * Cfg.excessFull), Unit)
\* What a row calls its aircraft: the first name it has.  The first of them is of a
\* flight, one leg; the airframe itself, s.frame, no score reads.
Airframe(s) ==
  CASE s.fr24_id # Unknown -> s.fr24_id
    [] s.fr24_id = Unknown /\ s.registration # Unknown -> s.registration
    [] s.fr24_id = Unknown /\ s.registration = Unknown /\ s.callsign # Unknown -> s.callsign
    [] OTHER -> s.id
flight_quality(rows, baseline) ==
  LET count == Distinct([s \in rows |-> Airframe(s)])
  IN  IF baseline > 0 THEN flight_excess(count, baseline)
                      ELSE corroboration_quality(count, Cfg.flightFull)

Percent(part, whole) == IF whole <= 0 THEN 0 ELSE (AtLeast0(part) * 100) \div whole
Scaled(percent, full) == AtMost((percent * Unit) \div full, Unit)
\* A ratio ages with the rows its denominator is made of.
measurement_decay(magnitude) ==
  LET total == Added(magnitude)
  IN  IF total <= 0 THEN Freshest(DOMAIN magnitude)
      ELSE Added([s \in DOMAIN magnitude |-> magnitude[s] * decay_of(s)]) \div total

lodging_drop(rows) ==
  LET base == Added([s \in rows |-> s.base])
  IN  Percent(base - Added([s \in rows |-> s.left]), base)
\* Only properties priced in both windows count.
price_escalation(rows) ==
  LET priced == {s \in rows : s.priceBase > 0 /\ s.priceNear > 0}
      base == Added([s \in priced |-> s.priceBase])
  IN  Percent(Added([s \in priced |-> s.priceNear]) - base, base)
\* The stronger of two measurements of one thing, each with its own age.
lodging_quality(rows) ==
  LET nights == Scaled(lodging_drop(rows), Cfg.lodgingFull)
                  * measurement_decay([s \in rows |-> s.base])
      prices == Scaled(price_escalation(rows), Cfg.priceFull)
                  * measurement_decay([s \in rows |-> s.priceBase])
  IN  Max({nights, prices}) \div Unit

\* Peer-to-peer and truncated listings are no evidence of scarcity.
Seats(s) == IF s.excluded THEN 0 ELSE s.seats * (IF s.onAirport THEN Cfg.onAirport ELSE 1)
car_quality(rows) ==
  LET seats == [s \in rows |-> Seats(s) * s.base]
      base == Added(seats)
      left == Added([s \in rows |-> Seats(s) * s.left])
  IN  (Scaled(Percent(base - left, base), Cfg.carFull)
         * measurement_decay(seats)) \div Unit

kind_quality(k, rows, baseline) ==
  CASE k = "social" -> social_quality(rows)
    [] k \in FlightKind ->
         flight_quality(rows, IF k \in BASELINED_FLIGHT_KINDS THEN baseline[k] ELSE 0)
    [] k = "lodging" -> lodging_quality(rows)
    [] k = "car" -> car_quality(rows)

\* Rows attributed to the city rather than measured are near by definition.
spatially_anchored(rows) == \E s \in rows : s.near

-----------------------------------------------------------------------------
(* The baseline of a city's ordinary flights.                              *)

\* flight_baseline_samples has a row for every iteration and category, zeros
\* included.  Iterations whose correlation was at MEDIUM or above are left out;
\* what is held to the minimum before they are let in is the number of ROWS.
Sampled(samples) ==
  Cardinality(samples)
    * Cardinality({k \in FlightKind : \E h \in samples : h.seen[k] > 0})
Samples(history) ==
  LET clean == {h \in history : ~h.surged}
  IN  IF Sampled(clean) < Cfg.minSamples /\ Sampled(history) > Sampled(clean)
      THEN history ELSE clean
\* Twice the middle value.
Median2(samples, k) ==
  LET n == Cardinality(samples)
      Below(h) == {g \in samples : g.seen[k] < h.seen[k]
                                   \/ (g.seen[k] = h.seen[k] /\ g.id < h.id)}
      At(i) == (CHOOSE h \in samples : Cardinality(Below(h)) = i - 1).seen[k]
  IN  At((n + 1) \div 2) + At((n + 2) \div 2)
Baselines(history) ==
  LET samples == Samples(history)
  IN  [k \in BASELINED_FLIGHT_KINDS |->
         IF Cardinality(samples) < Cfg.minSamples THEN 0 ELSE Median2(samples, k)]

-----------------------------------------------------------------------------
(* One city on one track.                                                  *)

\* Mutant: one flight counts once per kind it was seen as.
ReportsByKind(rows, contributions) ==
  LET Counted(k) == IF contributions[k] > 0 THEN Grouped(rows, k) ELSE {}
      posts == Counted("social")
  IN  Min({Cardinality({s.publisher : s \in KnownPublisher(posts)}),
           Cardinality({Claim(s) : s \in posts})})
        + Added([k \in FlightKind |-> Cardinality({Airframe(s) : s \in Counted(k)})])
        + Cardinality({k \in {"lodging", "car"} : contributions[k] > 0})

\* One name of an aircraft is one report, a measurement is one report whatever
\* it spans, and social reports are the fewer of publishers and claims.
independent_reports(rows, contributions) ==
  LET Counted(k) == IF contributions[k] > 0 THEN Grouped(rows, k) ELSE {}
      posts == Counted("social")
      airframes == {Airframe(s) : s \in UNION {Counted(k) : k \in FlightKind}}
  IN  Min({Cardinality({s.publisher : s \in KnownPublisher(posts)}),
           Cardinality({Claim(s) : s \in posts})})
        + Cardinality(airframes)
        + Cardinality({k \in {"lodging", "car"} : contributions[k] > 0})

_band_for(score, types, anchored, reports) ==
  CASE score >= Cfg.high /\ types >= Cfg.highTypes -> "HIGH"
    [] ~(score >= Cfg.high /\ types >= Cfg.highTypes)
         /\ score >= Cfg.medium /\ types >= Cfg.mediumTypes /\ anchored -> "MEDIUM"
    [] ~(score >= Cfg.high /\ types >= Cfg.highTypes)
         /\ ~(score >= Cfg.medium /\ types >= Cfg.mediumTypes /\ anchored)
         /\ score >= Cfg.low /\ reports >= Cfg.lowReports -> "LOW"
    [] OTHER -> "NONE"

Contribution(rows, t, k, baseline) ==
  LET grouped == Grouped(rows, k)
      quality == kind_quality(k, grouped, baseline)
  IN  IF grouped = {} \/ kind_weight(t, k) = 0 THEN 0
      ELSE (kind_weight(t, k) * quality) \div (IF spatially_anchored(grouped) THEN 1 ELSE 2)

\* Mutant: the weights are taken to add up to one.
ScoreUncapped(contributions) == Added(contributions)
Score(contributions) == AtMost(Added(contributions), Unit * Unit)

\* Any lost collection keeps the band below HIGH; only a family nothing was
\* collected of is a gap.
Judged(eligible, t, contributions, unreliable, collected) ==
  LET contributing == {s \in eligible : contributions[scoring_kind(s)] > 0}
      types == Cardinality({KIND_FAMILY[scoring_kind(s)] : s \in contributing})
      score == Score(contributions)
      band == _band_for(score, types, has_strong_anchor(t, contributions),
                        independent_reports(eligible, contributions))
      capped == unreliable # {} /\ band = "HIGH"
      newest == {s \in contributing : \A o \in contributing : o.made <= s.made}
  IN  [score |-> score,
       band |-> IF capped THEN "MEDIUM" ELSE band,
       capped |-> capped,
       failed |-> unreliable,
       gaps |-> Families(unreliable) \ Families(collected),
       stale |-> contributing # {} /\ \A s \in newest : s.made # 0,
       shares |-> {s.id : s \in contributing}]
correlate(rows, t, unreliable, collected, baseline) ==
  Judged(Eligible(rows, t), t,
         [k \in Kind |-> Contribution(Eligible(rows, t), t, k, baseline)],
         unreliable, collected)

-----------------------------------------------------------------------------
VARIABLES signals,     \* what has been collected so far
          world,       \* queries, refusals, unjudged posts, skipped stages, history
          rows,        \* correlations, by city and track
          links,       \* correlation_signals
          alerts,      \* alerts, by correlation
          receipts,    \* the correlations some call for a summary is on record for
          stage,       \* the stage that runs, "open", "failed" or "done"
          point,       \* the stage the pointer stands at, the stages with a run on
                       \* record, the stage the iteration was interrupted at, and
                       \* (history) whether a discard died half-way
          task,        \* the running stage's local state
          upsets, discards
vars == <<signals, world, rows, links, alerts, receipts, stage, point, task,
          upsets, discards>>

Pair == City \X Track
Bands == {"NONE", "LOW", "MEDIUM", "HIGH"}
ALERT_BANDS == {"LOW", "MEDIUM", "HIGH"}

Row == [score : 0..(Unit * Unit), band : Bands, capped : BOOLEAN,
        failed : SUBSET Source, gaps : SUBSET FAMILIES, stale : BOOLEAN,
        decision : {"none", "BAND_NONE", "BELOW_FLOOR", "ALERTED"}]
Alert == [score : 0..(Unit * Unit), band : ALERT_BANDS, gaps : SUBSET FAMILIES,
          partial : SUBSET Source, capped : BOOLEAN, stale : BOOLEAN,
          model : BOOLEAN]
Idle == [todo |-> {}, pair |-> None, linking |-> {}, step |-> "next", model |-> FALSE]

\* Types; the score stays within 0 and 1, and an alert has its correlation
\* (correlations.score, alerts.confidence_score).
TypeOK ==
  /\ signals \subseteq Pool
  /\ \A p \in Pair : rows[p] = None \/ rows[p] \in Row
  /\ \A p \in Pair : alerts[p] = None \/ (alerts[p] \in Alert /\ rows[p] # None)
  /\ links \subseteq Pair \X {s.id : s \in Pool}
  /\ receipts \subseteq Pair
  /\ stage \in {"CORRELATING", "ALERTING", "open", "done", "failed"}
  /\ point.next \in {"CORRELATING", "ALERTING"}
  /\ point.ran \subseteq {"CORRELATING", "ALERTING"}
  /\ point.stamp \in {"none", "CORRELATING", "ALERTING"} /\ point.torn \in BOOLEAN
  /\ task.todo \subseteq Pair /\ (task.pair = None \/ task.pair \in Pair)
  /\ task.step \in {"next", "link", "insert", "decide"} /\ task.model \in BOOLEAN
  /\ upsets \in 0..MaxUpsets /\ discards \in 0..MaxDiscards

Written == {p \in Pair : rows[p] # None}
\* start_agent_run leaves the stage's row behind, whatever becomes of the run.
Begin(s) ==
  /\ stage' = s
  /\ task' = [Idle EXCEPT !.todo = IF s = "CORRELATING" THEN Pair ELSE Written]
  /\ point' = [point EXCEPT !.next = s, !.ran = @ \cup {s}]

Init ==
  /\ signals \in SUBSET Pool /\ world \in Worlds
  /\ rows = [p \in Pair |-> None] /\ links = {}
  /\ alerts = [p \in Pair |-> None] /\ receipts = {}
  /\ stage = "CORRELATING" /\ task = [Idle EXCEPT !.todo = Pair]
  /\ point = [next |-> "CORRELATING", ran |-> {"CORRELATING"}, stamp |-> "none",
              torn |-> FALSE]
  /\ upsets = 0 /\ discards = 0

-----------------------------------------------------------------------------
(* CORRELATING.                                                            *)

unreliable_source_types(c) ==
  {q.source : q \in {r \in world.queries :
                       r.city = c /\ r.status \in UNRELIABLE_QUERY_STATUSES}}
collected_source_types(c) ==
  {q.source : q \in {r \in world.queries : r.city = c /\ r.status = "COMPLETE"}}
\* A refusal may precede the city: it then counts for every city.
refused_source_types(c) ==
  {r.source : r \in {d \in world.refused : c \in d.cities}}
\* Mutant: a query that was refused has no row, and nothing else is asked.
UnreliableByStatus(c) ==
  unreliable_source_types(c) \cup (IF world.uncovered THEN {"SOCIAL"} ELSE {})
    \cup source_types_for_skipped(world.skipped)
Unreliable(c) ==
  unreliable_source_types(c) \cup refused_source_types(c)
    \cup (IF world.uncovered THEN {"SOCIAL"} ELSE {})
    \cup source_types_for_skipped(world.skipped)

\* recent_signals_for_city; a CANDIDATE is kept as evidence and never scores.
Confirmed(c) ==
  {s \in signals : s.city = c /\ s.confirmed /\ s.age # Undated /\ s.age <= Window}
Quiet(c) == Confirmed(c) = {} /\ Unreliable(c) = {}

Running(s, step) == stage = s /\ task.step = step

SkipQuiet(p) ==
  /\ Running("CORRELATING", "next") /\ p \in task.todo /\ Quiet(p[1])
  /\ task' = [task EXCEPT !.todo = @ \ {p}]
  /\ UNCHANGED <<signals, world, rows, links, alerts, receipts, stage, point,
                 upsets, discards>>

\* Mutant: the conflict clause leaves a column out.
UpsertedKeepingGaps(p, r) ==
  [score |-> r.score, band |-> r.band, capped |-> r.capped,
   failed |-> IF rows[p] = None THEN r.failed ELSE rows[p].failed,
   gaps |-> IF rows[p] = None THEN r.gaps ELSE rows[p].gaps, stale |-> r.stale,
   decision |-> IF rows[p] = None THEN "none" ELSE rows[p].decision]
\* ON CONFLICT keeps the row and with it the decision made about it.
Upserted(p, r) ==
  [score |-> r.score, band |-> r.band, capped |-> r.capped, failed |-> r.failed,
   gaps |-> r.gaps, stale |-> r.stale,
   decision |-> IF rows[p] = None THEN "none" ELSE rows[p].decision]
Upsert(p, r) ==
  /\ rows' = [rows EXCEPT ![p] = Upserted(p, r)]
  /\ task' = [task EXCEPT !.todo = @ \ {p}, !.pair = p, !.linking = r.shares,
                          !.step = "link"]
upsert_correlation(p) ==
  /\ Running("CORRELATING", "next") /\ p \in task.todo /\ ~Quiet(p[1])
  /\ Upsert(p, correlate(Confirmed(p[1]), p[2], Unreliable(p[1]),
                         collected_source_types(p[1]), Baselines(world.history)))
  /\ UNCHANGED <<signals, world, links, alerts, receipts, stage, point, upsets, discards>>

link_correlation_signal ==
  /\ Running("CORRELATING", "link")
  /\ IF task.linking = {}
     THEN task' = [task EXCEPT !.step = "next", !.pair = None] /\ UNCHANGED links
     ELSE LET id == Min(task.linking)
          IN  /\ links' = links \cup {<<task.pair, id>>}
              /\ task' = [task EXCEPT !.linking = @ \ {id}]
  /\ UNCHANGED <<signals, world, rows, alerts, receipts, stage, point, upsets, discards>>

\* get_correlations is read once, as the next stage starts.
EndCorrelating ==
  /\ Running("CORRELATING", "next") /\ task.todo = {}
  /\ Begin("ALERTING")
  /\ UNCHANGED <<signals, world, rows, links, alerts, receipts, upsets, discards>>

-----------------------------------------------------------------------------
(* ALERTING, the highest score first.                                      *)

Considers(p) ==
  /\ Running("ALERTING", "next") /\ p \in task.todo
  /\ \A o \in task.todo : rows[o].score <= rows[p].score
Alertable(p) == rows[p].band \in ALERT_BANDS /\ rows[p].score >= Cfg.floor

set_alert_decision(p, decision) == rows' = [rows EXCEPT ![p].decision = decision]

RefuseAlert(p) ==
  /\ Considers(p) /\ ~Alertable(p)
  /\ set_alert_decision(p, IF rows[p].band \in ALERT_BANDS THEN "BELOW_FLOOR"
                                                           ELSE "BAND_NONE")
  /\ task' = [task EXCEPT !.todo = @ \ {p}]
  /\ UNCHANGED <<signals, world, links, alerts, receipts, stage, point, upsets, discards>>

\* Mutant: resumption trusts the decision on record.
DecidedAlready(p) == rows[p].decision = "ALERTED"
HasAlert(p) == alerts[p] # None
\* A resumed stage: the alert is there and nothing is decided anew.
SkipWritten(p) ==
  /\ Considers(p) /\ Alertable(p) /\ HasAlert(p)
  /\ task' = [task EXCEPT !.todo = @ \ {p}]
  /\ UNCHANGED <<signals, world, rows, links, alerts, receipts, stage, point,
                 upsets, discards>>

\* The call may fail, answer with nothing usable, or answer; it is recorded
\* when it answered at all.
_summarise(p) ==
  /\ Considers(p) /\ Alertable(p) /\ ~HasAlert(p)
  /\ \E answer \in {"failed", "empty", "prose"} :
       /\ receipts' = IF answer = "failed" THEN receipts ELSE receipts \cup {p}
       /\ task' = [task EXCEPT !.todo = @ \ {p}, !.pair = p, !.step = "insert",
                               !.model = answer = "prose"]
  /\ UNCHANGED <<signals, world, rows, links, alerts, stage, point, upsets, discards>>

\* _caveat: a lost source whose family was otherwise collected is "partial".
_caveat(r) == [gaps |-> r.gaps,
               partial |-> {st \in r.failed : SOURCE_TYPE_FAMILY[st] \notin r.gaps}]
insert_alert ==
  /\ Running("ALERTING", "insert")
  /\ LET r == rows[task.pair]
     IN  alerts' = [alerts EXCEPT ![task.pair] =
           [score |-> r.score, band |-> r.band, gaps |-> _caveat(r).gaps,
            partial |-> _caveat(r).partial, capped |-> r.capped, stale |-> r.stale,
            model |-> task.model]]
  /\ task' = [task EXCEPT !.step = "decide"]
  /\ UNCHANGED <<signals, world, rows, links, receipts, stage, point, upsets, discards>>

DecideAlerted ==
  /\ Running("ALERTING", "decide")
  /\ set_alert_decision(task.pair, "ALERTED")
  /\ task' = [task EXCEPT !.step = "next", !.pair = None, !.model = FALSE]
  /\ UNCHANGED <<signals, world, links, alerts, receipts, stage, point, upsets, discards>>

EndAlerting ==
  /\ Running("ALERTING", "next") /\ task.todo = {}
  /\ stage' = "done" /\ task' = Idle
  /\ UNCHANGED <<signals, world, rows, links, alerts, receipts, point, upsets, discards>>

\* Without a model the stage fails before it looks at a correlation.
NoModel ==
  /\ Running("ALERTING", "next") /\ task.todo = Written
  /\ stage' = "failed" /\ task' = Idle
  /\ UNCHANGED <<signals, world, rows, links, alerts, receipts, point, upsets, discards>>

-----------------------------------------------------------------------------
(* Interruption, and what an operator may do about it.                     *)

\* The next startup stamps an iteration that did not end with the stage in
\* flight, else with the one the pointer names: once, and for good.
Stamped(s) == IF point.stamp # "none" THEN point.stamp ELSE s
Crash ==
  /\ stage \in {"CORRELATING", "ALERTING", "open"} /\ upsets < MaxUpsets
  /\ stage' = "open" /\ task' = Idle /\ upsets' = upsets + 1
  /\ point' = [point EXCEPT !.stamp = Stamped(IF stage = "open" THEN point.next
                                                                ELSE stage)]
  /\ UNCHANGED <<signals, world, rows, links, alerts, receipts, discards>>

\* While nothing runs the oldest sample leaves the baseline's window.
Age ==
  /\ stage = "open" /\ world.history # {}
  /\ world' = [world EXCEPT !.history =
                 {h \in @ : \E g \in @ : g.id < h.id}]
  /\ UNCHANGED <<signals, rows, links, alerts, receipts, stage, point, task,
                 upsets, discards>>

\* resume_point: the stage on the stamp, whatever has been undone since.
resume_point == IF point.stamp # "none" THEN point.stamp ELSE point.next
\* Resumed there, or from an earlier stage, which may collect what there still
\* is to collect.
Resume ==
  /\ stage = "open"
  /\ \/ Begin(resume_point) /\ signals' = signals
     \/ Begin("CORRELATING")
        /\ signals' \in {signals, Pool}
  /\ UNCHANGED <<world, rows, links, alerts, receipts, upsets, discards>>

\* abandon_and_finalise: what is still queued becomes a gap, then both stages run.
Abandon ==
  /\ stage = "open"
  /\ world' = [world EXCEPT !.queries =
                 {IF q.status = "PENDING" THEN [q EXCEPT !.status = "INTERRUPTED"]
                                          ELSE q : q \in @}]
  /\ Begin("CORRELATING")
  /\ UNCHANGED <<signals, rows, links, alerts, receipts, upsets, discards>>

\* last_completed_stage goes by the runs, and not by the pointer.
last_completed_stage == IF "ALERTING" \in point.ran THEN "ALERTING" ELSE "CORRELATING"
Discardable == /\ stage \in {"open", "done", "failed"} /\ point.ran # {}
               /\ discards < MaxDiscards
\* What the furthest stage wrote, and only that; the links go before the rows.
Deleted(all) ==
  IF last_completed_stage = "ALERTING"
  THEN /\ alerts' = [p \in Pair |-> None] /\ UNCHANGED <<rows, links>>
  ELSE /\ rows' = IF all THEN [p \in Pair |-> None] ELSE rows
       /\ links' = {} /\ UNCHANGED alerts
\* Its rows, then the pointer, then the run.
discard_last ==
  /\ Discardable /\ Deleted(TRUE)
  /\ point' = [point EXCEPT !.next = last_completed_stage,
                            !.ran = @ \ {last_completed_stage}]
  /\ stage' = "open" /\ discards' = discards + 1
  /\ UNCHANGED <<signals, world, receipts, task, upsets>>
\* The process dies between two of these statements: the run is still on record,
\* the pointer has moved or has not, and the links are gone with or without rows.
DiscardTorn ==
  /\ Discardable /\ upsets < MaxUpsets
  /\ \E all, opened \in BOOLEAN :
       /\ opened => all
       /\ Deleted(all)
       /\ stage' = IF opened THEN "open" ELSE stage
       /\ LET next == IF opened THEN last_completed_stage ELSE point.next
          IN  point' = [point EXCEPT !.next = next, !.torn = TRUE,
                          !.stamp = IF stage' = "open" THEN Stamped(next) ELSE @]
  /\ discards' = discards + 1 /\ upsets' = upsets + 1
  /\ UNCHANGED <<signals, world, receipts, task>>

Next ==
  \/ \E p \in Pair : SkipQuiet(p) \/ upsert_correlation(p)
  \/ link_correlation_signal \/ EndCorrelating
  \/ \E p \in Pair : RefuseAlert(p) \/ SkipWritten(p) \/ _summarise(p)
  \/ insert_alert \/ DecideAlerted \/ EndAlerting \/ NoModel
  \/ Crash \/ Age \/ Resume \/ Abandon \/ discard_last \/ DiscardTorn

Spec == Init /\ [][Next]_vars

-----------------------------------------------------------------------------
(* What an analyst relies on.                                              *)

\* Reports counted straight from the evidence: what a track gives no weight to
\* is no report.
Attributable(p) == {s \in Confirmed(p[1]) : in_window(s) /\ s.track \in {p[2], Unattributed}}
Of(evidence, type) == {s \in evidence : s.type = type}
Told(evidence, planes) ==
  Min({Cardinality({s.publisher : s \in Of(evidence, "SOCIAL")} \ {Unknown}),
       Cardinality({Claim(s) : s \in Of(evidence, "SOCIAL")})})
    + Cardinality(planes)
    + (IF Of(evidence, "LODGING") = {} THEN 0 ELSE 1)
    + (IF Of(evidence, "CAR") = {} THEN 0 ELSE 1)
Flown(evidence) == {Airframe(s) : s \in Of(evidence, "FLIGHT")}
Frames(evidence) == {s.frame : s \in Of(evidence, "FLIGHT")}
Witnesses(p) == Told(Attributable(p), Flown(Attributable(p)))

\* One report never alerts, whatever repeats it: republished posts, one flight
\* seen live and in history, many listings, a CANDIDATE row or one of another
\* track (independent_reports, _band_for).
TwoReports == \A p \in Pair : alerts[p] # None => Witnesses(p) >= 2

\* What was planned for the city and lost: asked and not answered, or refused.
Lost(c) == {st \in Source :
              \/ \E q \in world.queries : q.city = c /\ q.source = st
                   /\ q.status \notin {"PENDING", "COMPLETE"}
              \/ \E r \in world.refused : r.source = st /\ c \in r.cities}
Scored == stage \in {"ALERTING", "done", "failed"} /\ ~point.torn

\* A failure never reads as quiet: once scored, a city that lost anything has a
\* correlation on every track, never HIGH, with a gap for every family of which
\* nothing was collected (correlation.py: "nothing observed and nothing missing").
\* What a discard that died half-way leaves is not held to it.
LossIsNotQuiet ==
  \A p \in Pair :
    Scored /\ (Lost(p[1]) # {} \/ world.uncovered \/ world.skipped # {}) =>
      /\ rows[p] # None /\ rows[p].band # "HIGH"
      /\ \A st \in Lost(p[1]) :
           (\A q \in world.queries :
              q.city = p[1] /\ q.status = "COMPLETE"
                => SOURCE_TYPE_FAMILY[q.source] # SOURCE_TYPE_FAMILY[st])
           => SOURCE_TYPE_FAMILY[st] \in rows[p].gaps

\* A stage that ended has answered for every correlation: an alert for each
\* that qualifies, a refusal on record for each that does not, across crashes,
\* resumes and discards that end (AlertAgent._execute, set_alert_decision).
EveryRowAnswered ==
  stage = "done" /\ ~point.torn =>
    \A p \in Written :
      IF Alertable(p) THEN alerts[p] # None
                      ELSE rows[p].decision \in {"BAND_NONE", "BELOW_FLOOR"}

\* An alert is written with what is known at that moment: the families lost,
\* and, unless it says that it has no evidence of this iteration, some of this
\* iteration's own behind it (_caveat); but for the links that a discard which died
\* half-way has taken from a row.
LinkedOwn(p) == {s \in signals : <<p, s.id>> \in links /\ s.made = 0}
Disclosed(p, a) ==
  /\ \A st \in Lost(p[1]) : SOURCE_TYPE_FAMILY[st] \in a.gaps \/ st \in a.partial
  /\ a.stale \/ LinkedOwn(p) # {}
AlertDiscloses ==
  [][\A p \in Pair : alerts'[p] # None /\ alerts[p] = None /\ ~point.torn
                        => Disclosed(p, alerts'[p])]_vars

\* scoring.py 689: two aircraft are two observations, one aircraft seen twice is
\* one.  False: what tells aircraft apart is first of all the id of a flight, so
\* one that flies in and out again is two reports (Analysis_legs.cfg).
OneAircraftIsOneReport ==
  \A p \in Pair : alerts[p] # None
    => LET evidence == Attributable(p) IN Told(evidence, Frames(evidence)) >= 2

\* scoring.py 839: it only says so when this iteration contributed nothing.  False
\* of one that is opened again after a later one collected (Analysis_later.cfg).
SaysNothingNew ==
  task.step = "link" /\ rows[task.pair].stale
    => \A s \in signals : s.id \in task.linking => s.made # 0

\* docs/api/API.md: the evidence of an alert is every contributing signal.
\* False: scored again, a signal that counts for nothing keeps its link, and an
\* alert said to rest on other iterations alone lists this one's own evidence.
EvidenceContributes ==
  [][\A p \in Pair : alerts'[p] # None /\ alerts[p] = None /\ alerts'[p].stale
                        => LinkedOwn(p) = {}]_vars

\* docs/behaviors_scoring.md: triage non-coverage feeds data_completeness.
\* False: the city's own social query completed, so SOCIAL counts as collected.
UnjudgedIsAGap ==
  \A p \in Written : Scored /\ world.uncovered => "SOCIAL" \in rows[p].gaps

\* alerting.py: the alert's score is byte-identical to the correlation's.
\* False: an iteration interrupted in ALERTING and resumed from an earlier stage
\* is scored again, and the alert already written is left as it was.
AlertIsItsCorrelation ==
  stage = "done" => \A p \in Written : alerts[p] # None =>
                      alerts[p].score = rows[p].score /\ alerts[p].band = rows[p].band
=============================================================================
