----------------------------- MODULE MCAnalysis -----------------------------
(* Small instances of Analysis: two cities, the evidence a run may find.   *)
EXTENDS Analysis, TLC

CONSTANTS c1, c2, airshow, unknown, undated, leg1, leg2, tail

Base == [id |-> 0, city |-> c1, made |-> 0, type |-> "SOCIAL",
         track |-> airshow, confirmed |-> TRUE, age |-> 0, near |-> TRUE,
         publisher |-> unknown, claim |-> unknown, salience |-> 0,
         category |-> "J", certain |-> TRUE, fr24_id |-> unknown,
         registration |-> unknown, callsign |-> unknown, frame |-> tail,
         base |-> 0, left |-> 0, priceBase |-> 0, priceNear |-> 0,
         seats |-> 1, onAirport |-> FALSE, excluded |-> FALSE]
Post(id, publisher, claim) ==
  [Base EXCEPT !.id = id, !.publisher = publisher, !.claim = claim, !.salience = 10]
Flight(id, category, certain, leg) ==
  [Base EXCEPT !.id = id, !.type = "FLIGHT", !.category = category,
               !.certain = certain, !.fr24_id = leg, !.track = Unattributed]

\* A story and its reprint, one flight seen live and in history, a stay away from
\* every facility, a car that a later iteration looked for, and a CANDIDATE that
\* would corroborate the story.
Evidence ==
  {[Post(1, "wire", "story") EXCEPT !.made = -1],
   Post(2, "daily", "story"),
   [Flight(4, "M", FALSE, leg1) EXCEPT !.registration = tail],
   Flight(5, "M", TRUE, leg1),
   [Base EXCEPT !.id = 6, !.type = "LODGING", !.track = Unattributed,
                !.made = -1, !.base = 4, !.left = 1, !.near = FALSE],
   [Base EXCEPT !.id = 7, !.type = "CAR", !.track = Unattributed,
                !.made = 1, !.age = -1, !.base = 4, !.left = 2, !.seats = 2],
   [Post(3, "blog", "third") EXCEPT !.confirmed = FALSE]}

\* Two outlets of an earlier iteration, and lodging of this one that is scarce
\* until a second property is counted in.
Relisted ==
  {[Post(1, "wire", "story") EXCEPT !.made = -1],
   [Post(2, "daily", "other") EXCEPT !.made = -1],
   [Base EXCEPT !.id = 6, !.type = "LODGING", !.track = Unattributed,
                !.base = 4, !.left = 1],
   [Base EXCEPT !.id = 7, !.type = "LODGING", !.track = Unattributed,
                !.base = 4, !.left = 8]}

\* One airframe, in and out again, and a second sighting of which only the
\* registration is known.
Legs ==
  {[Flight(4, "M", TRUE, leg1) EXCEPT !.registration = tail],
   [Flight(5, "M", TRUE, leg2) EXCEPT !.registration = tail],
   [Flight(6, "J", TRUE, unknown) EXCEPT !.registration = tail]}

Model == (airshow :> [social |-> 5, flight_M |-> 6, flight_J |-> 1,
                      lodging |-> 8, car |-> 4])
Filter == (airshow :> {"M", "J"})
Ages == [a \in 0..2 |-> <<10, 7, 5>>[a + 1]]
Thresholds ==
  [high |-> 55, highTypes |-> 3, medium |-> 40, mediumTypes |-> 2, low |-> 15,
   lowReports |-> 2, floor |-> 25, single |-> 4, socialFull |-> 3,
   flightFull |-> 3, excessFull |-> 100, lodgingFull |-> 30, priceFull |-> 60,
   carFull |-> 40, onAirport |-> 2, minSamples |-> 2]

Asked(c, source, status) == [city |-> c, source |-> source, status |-> status]
Earlier(id, m, j, a, surged) ==
  [id |-> id, surged |-> surged,
   seen |-> [k \in FlightKind |-> CASE k = "flight_M" -> m [] k = "flight_J" -> j
                                    [] OTHER -> a]]
Healthy == [queries |-> {Asked(c1, "SOCIAL", "COMPLETE"), Asked(c1, "LODGING", "COMPLETE")},
            refused |-> {}, uncovered |-> FALSE, skipped |-> {}, history |-> {}]
Calm == {Healthy}
Fortunes ==
  {Healthy,
   [Healthy EXCEPT !.history = {Earlier(1, 0, 0, 1, FALSE), Earlier(2, 0, 0, 1, TRUE)}],
   [Healthy EXCEPT !.queries = @ \cup {Asked(c1, "CAR", "PENDING"),
                                       Asked(c1, "LODGING_PRICE", "FAILED")}],
   [Healthy EXCEPT !.refused = {[source |-> "CAR", cities |-> {c2}]}],
   [Healthy EXCEPT !.queries = @ \cup {Asked(c2, "FLIGHT_LIVE", "SKIPPED_BUDGET")},
                   !.uncovered = TRUE],
   [Healthy EXCEPT !.skipped = {"TIPPING"}]}
=============================================================================
