------------------------------- MODULE Triage -------------------------------
(***************************************************************************)
(* The TRIAGING stage: the social posts an iteration collected are asked   *)
(* about in batches, a model answers, and every answer, and every answer   *)
(* that did not come, becomes a row.  Accepted posts then become signals   *)
(* of the cities that are admitted.  A closed iteration's gaps may be      *)
(* asked about again in a child iteration (re-triage).                     *)
(*                                                                         *)
(* Every write is a step of its own, so a crash may fall between any two.  *)
(* What the model says is nondeterministic; its transport retries and the  *)
(* repetitions of a reply that is not JSON have ended before an answer.    *)
(***************************************************************************)
EXTENDS Integers, FiniteSets, SequencesExt

CONSTANTS Responses,     \* what may have been collected: sequences of payloads
          Publisher,     \* who published the post of a url; Unknown if unresolved
          Claim,         \* what the post of a url says
          Unknown,
          Judgements,    \* the valid answers the model may give for an item
          BatchSize,     \* triage.batch_size
          MaxAge,        \* triage.max_post_age_hours
          Skew,          \* sensitivity.max_future_skew_hours
          MinSalience,   \* triage.min_salience
          ConfirmMin,    \* sensitivity.confirm_min_salience
          SeedCities,    \* the cities of the session
          Expand,        \* sessions.expand_cities
          MinDomains,    \* tipping.min_independent_domains
          MinExpansion,  \* tipping.min_expansion_salience
          MaxExpanded,   \* tipping.max_expanded_cities
          Start,         \* the hour the stage begins
          MaxHours,      \* bound: hours that pass
          MaxUpsets      \* bound: crashes and re-triages

Undated == -1        \* in place of the hour a post was observed at
Dated(item) == item.at # Undated
Urls == DOMAIN Claim
Payload == [kind : {"list", "unparseable", "not a list"},
            items : Seq([kind : {"post"}, url : Urls, at : Nat \cup {Undated}]
                        \cup [kind : {"no url", "no object"}])]

ASSUME UrlsAssumption == IsFiniteSet(Urls) /\ Unknown \notin Urls
ASSUME ResponsesAssumption == \A p \in Responses : p \in Seq(Payload)
ASSUME JudgementsAssumption ==
  \A j \in Judgements :
    j \in [is : {"relevant", "irrelevant"}, cities : {j.cities}, salience : Nat]
ASSUME BoundsAssumption ==
  /\ BatchSize \in Nat \ {0}
  /\ {MinDomains, MaxExpanded, MaxHours, MaxUpsets} \subseteq Nat /\ Start \in Int

VARIABLES payloads,  \* the social payloads the first iteration stored
          iter,      \* the latest iteration
          work,      \* the run of the stage, in memory
          skips,     \* triage_skips
          decisions, \* triage_decisions
          signals,   \* signals
          admitted,  \* cities admitted by a tip
          receipts,  \* one per call; history: what the model said
          notes,     \* per iteration: its degradations
          kept,      \* the payloads retention has not purged
          hour, crashes

vars == <<payloads, iter, work, skips, decisions, signals, admitted, receipts, notes, kept,
          hour, crashes>>
rows == <<skips, decisions, signals, admitted, receipts, notes>>
world == <<payloads, iter, kept, hour, crashes>>

\* What f says, but where g says otherwise.
Over(f, g) ==
  [x \in DOMAIN f \cup DOMAIN g |-> IF x \in DOMAIN g THEN g[x] ELSE f[x]]

\* The elements of a finite set in the order of how many are below each.
InOrder(S, below) ==
  [n \in 1..Cardinality(S) |-> CHOOSE x \in S : Cardinality(below[x]) = n - 1]
Ascending(S) == InOrder(S, [i \in S |-> {j \in S : j < i}])

Raws == DOMAIN payloads
Iterations == 1..(1 + MaxUpsets)
MayUpset == crashes + iter - 1 < MaxUpsets
Uncovered == {"UNDECIDED", "INVALID_OUTPUT", "MODEL_ERROR"}
States == {"ACCEPTED", "REJECTED"} \cup Uncovered
Pcs == {"gather", "skipping", "judging", "recording", "admitting", "locating",
        "accepting", "closed", "interrupted"}
Notes == {"interrupted", "payload lost", "not judged", "inherited", "purged"}

Nothing == [valid |-> <<>>, faults |-> <<>>, missing |-> <<>>, error |-> FALSE,
            truncated |-> FALSE]
Idle(pc) == [pc |-> pc, parent |-> 0, posts |-> <<>>, todo |-> <<>>, size |-> 0,
             at |-> 0, outcome |-> Nothing, receiptOf |-> <<>>, accepted |-> <<>>,
             gaps |-> 0, names |-> {}, entries |-> <<>>, city |-> Unknown,
             signalOf |-> <<>>, asked |-> 0, calls |-> 0]

TypeOK ==
  /\ payloads \in Responses
  /\ iter \in Iterations /\ hour \in Start..(Start + MaxHours) /\ crashes \in 0..MaxUpsets
  /\ work.pc \in Pcs /\ work.parent \in 0..(iter - 1)
  /\ \A i \in DOMAIN skips : skips[i].iter \in 1..iter /\ skips[i].raw \in Raws
  /\ \A i \in DOMAIN decisions :
       /\ decisions[i].iter \in 1..iter /\ decisions[i].url \in Urls
       /\ decisions[i].state \in States
       /\ decisions[i].signal \in 0..Len(signals)
       /\ decisions[i].receipt \in DOMAIN receipts
  /\ \A i \in DOMAIN signals : signals[i].state \in {"CANDIDATE", "CONFIRMED"}
  /\ \A i, j \in DOMAIN signals :   \* idx_sig_dedup
       i # j => signals[i].iter # signals[j].iter \/ signals[i].url # signals[j].url
  /\ Cardinality(admitted) <= MaxExpanded
  /\ notes \in [Iterations -> SUBSET Notes] /\ kept \subseteq Raws

Init ==
  /\ payloads \in Responses
  /\ iter = 1 /\ work = Idle("gather")
  /\ skips = <<>> /\ decisions = <<>> /\ signals = <<>> /\ receipts = <<>>
  /\ admitted = {} /\ notes = [i \in Iterations |-> {}]
  /\ kept = Raws /\ hour = Start /\ crashes = 0

-----------------------------------------------------------------------------
(* What is asked about: the posts that were collected, less those decided, *)
(* stale or unusable.                                                      *)

\* Mutant: a payload is done with as soon as one of its posts is decided.
DecidedPayloads ==
  {u \in Urls : \E i \in DOMAIN decisions, r \in Raws :
     /\ decisions[i].iter = iter /\ decisions[i].raw = r
     /\ \E k \in DOMAIN payloads[r].items :
          payloads[r].items[k].kind = "post" /\ payloads[r].items[k].url = u}

\* Mutant: what was not judged is asked about again.
VerdictUrls == {decisions[i].url : i \in {j \in DOMAIN decisions :
                  decisions[j].iter = iter /\ decisions[j].state \notin Uncovered}}

triaged_urls == {decisions[i].url : i \in {j \in DOMAIN decisions : decisions[j].iter = iter}}

Recorded(skip) == \E i \in DOMAIN skips :
  /\ skips[i].iter = iter /\ skips[i].reason = skip.reason
  /\ IF skip.reason = "stale" THEN skips[i].url = skip.url ELSE skips[i].raw = skip.raw

Skip(r, url, reason) == [iter |-> iter, raw |-> r, url |-> url, reason |-> reason]

\* The places of what was collected, in the order it is read: an item of a payload,
\* or a payload that cannot be read.  Only the first iteration collected anything.
Places ==
  IF iter # 1 THEN {}
  ELSE UNION {IF payloads[r].kind = "list" THEN {r} \X DOMAIN payloads[r].items
              ELSE {<<r, 0>>} : r \in Raws}

Before(p, q) == p[1] < q[1] \/ (p[1] = q[1] /\ p[2] < q[2])
InPlace(S) == InOrder(S, [p \in S |-> {q \in S : Before(q, p)}])

Item(p) == payloads[p[1]].items[p[2]]
Kind(p) == IF p[2] = 0 THEN payloads[p[1]].kind ELSE Item(p).kind

Refusal(p) == Skip(p[1], Unknown, Kind(p))
Structural == {p \in Places : Kind(p) # "post"}

Posts == {p \in Places : Kind(p) = "post" /\ Item(p).url \notin triaged_urls}

\* The freshest copy, a dated one before an undated, then the first.
Fresher(p, q) ==
  Item(p).at > Item(q).at \/ (Item(p).at = Item(q).at /\ Before(p, q))

Representative(url) ==
  LET copies == {p \in Posts : Item(p).url = url}
  IN CHOOSE p \in copies : \A q \in copies : ~Fresher(q, p)

\* Where a url is first met, and the post that stands for it.
Firsts == {p \in Posts : \A q \in Posts : Before(q, p) => Item(q).url # Item(p).url}

Chosen(p) ==
  LET best == Representative(Item(p).url)
  IN [url |-> Item(p).url, raw |-> best[1], at |-> Item(best).at]

Stale(post) == Dated(post) /\ post.at < hour - MaxAge
Aged(p) == Skip(Chosen(p).raw, Item(p).url, "stale")

gather ==
  /\ work.pc = "gather" /\ work.parent = 0
  /\ LET refused == InPlace({p \in Structural : ~Recorded(Refusal(p))})
         stale == InPlace({p \in Firsts : Stale(Chosen(p)) /\ ~Recorded(Aged(p))})
         fresh == InPlace({p \in Firsts : ~Stale(Chosen(p))})
     IN work' = [Idle("skipping") EXCEPT
          !.posts = [n \in DOMAIN fresh |-> Chosen(fresh[n])],
          !.todo = [n \in DOMAIN refused |-> Refusal(refused[n])]
                   \o [n \in DOMAIN stale |-> Aged(stale[n])]]
  /\ UNCHANGED <<rows, world>>

insert_triage_skip ==
  /\ work.pc = "skipping" /\ work.todo # <<>>
  /\ skips' = Append(skips, Head(work.todo))
  /\ work' = [work EXCEPT !.todo = Tail(@)]
  /\ UNCHANGED <<decisions, signals, admitted, receipts, notes, world>>

\* The next batch; after the last one, the cities.
NextBatch(w) ==
  IF w.posts = <<>> THEN [w EXCEPT !.pc = "admitting", !.names =
                            UNION {w.accepted[i].item.cities : i \in DOMAIN w.accepted}]
  ELSE LET n == Min({BatchSize, Len(w.posts)})
       IN [w EXCEPT !.pc = "judging", !.size = n, !.at = 1, !.asked = @ + n,
                    !.outcome = Nothing, !.receiptOf = <<>>]

Lost == \E i \in DOMAIN skips : /\ skips[i].iter = iter
                                /\ skips[i].reason \in {"unparseable", "not a list"}

Note(note, applies) ==
  notes' = IF applies THEN [notes EXCEPT ![iter] = @ \cup {note}] ELSE notes

EndGather ==
  /\ work.pc = "skipping" /\ work.todo = <<>>
  /\ Note("payload lost", Lost)
  /\ work' = NextBatch(work)
  /\ UNCHANGED <<skips, decisions, signals, admitted, receipts, world>>

IsUncovered(i) == decisions[i].state \in Uncovered

uncovered_triage_decisions(parent) ==
  {i \in DOMAIN decisions : decisions[i].iter = parent /\ IsUncovered(i)}

\* The post of a decision: its first copy in the payload it was judged from.
Stored(decision) ==
  LET items == payloads[decision.raw].items
      copies == {k \in DOMAIN items : items[k].kind = "post" /\ items[k].url = decision.url}
  IN [url |-> decision.url, raw |-> decision.raw, at |-> items[Ascending(copies)[1]].at]

\* A re-triage reads its posts from the rows that failed, not from the payloads
\* again; a payload that was purged cannot be asked about.
gather_for_retry ==
  /\ work.pc = "gather" /\ work.parent # 0
  /\ LET gaps == uncovered_triage_decisions(work.parent)
         held == {i \in gaps : decisions[i].raw \in kept}
         order == Ascending(held)
     IN /\ Note("purged", held # gaps)
        /\ work' = NextBatch([work EXCEPT !.posts =
                                [n \in DOMAIN order |-> Stored(decisions[order[n]])]])
  /\ UNCHANGED <<skips, decisions, signals, admitted, receipts, world>>

-----------------------------------------------------------------------------
(* Asking.  A batch is one call; if the reply overran the ceiling, it is   *)
(* asked again in parts of half the size, until a part is one post.        *)

Batch == SubSeq(work.posts, 1, Min({BatchSize, Len(work.posts)}))
Part == SubSeq(Batch, work.at, Min({work.at + work.size - 1, Len(Batch)}))
Asked == {Part[i].url : i \in DOMAIN Part}

\* What a reply may hold for an item that was asked for: nothing, something that
\* breaks the schema, or two or three answers.
Unusable == {[is |-> fault, cities |-> {}, salience |-> 0]
               : fault \in {"none", "broken", "twice", "thrice"}}
Reply == [kind : {"list"}, of : [Asked -> Judgements \cup Unusable]]
         \cup [kind : {"truncated", "failed", "not a list"}, of : {<<>>}]

Valid(answer) == answer.is \in {"relevant", "irrelevant"}

Faults(answer) == CASE answer.is \in {"broken", "twice"} -> 1
                    [] answer.is = "thrice" -> 2
                    [] OTHER -> 0

Missing(reply) == {u \in Asked : reply.kind # "list" \/ reply.of[u].is = "none"}

parse_batch(reply) ==
  LET answered == IF reply.kind = "list" THEN Asked ELSE {}
      faults == SetToSeq({f \in answered \X {1, 2} : f[2] <= Faults(reply.of[f[1]])})
  IN [valid |-> [u \in {v \in answered : Valid(reply.of[v])} |-> reply.of[u]],
      faults |-> [i \in DOMAIN faults |-> faults[i][1]],
      missing |-> SetToSeq(Missing(reply)),
      error |-> reply.kind # "list",
      truncated |-> reply.kind = "truncated"]

Merged(a, b) == [valid |-> Over(a.valid, b.valid), faults |-> a.faults \o b.faults,
                 missing |-> a.missing \o b.missing, error |-> a.error \/ b.error,
                 truncated |-> a.truncated \/ b.truncated]

\* Mutant: what was cut off is sent again as it was.
Unchanged(size) == size

Halved(size) == Max({1, size \div 2})

PostOf(u) == Batch[CHOOSE i \in DOMAIN Batch : Batch[i].url = u]
Row(post, state, receipt, signal) ==
  [iter |-> iter, url |-> post.url, raw |-> post.raw, state |-> state,
   signal |-> signal, receipt |-> receipt]

\* What becomes of a batch: its rows, faults first, and the accepted posts, which
\* wait for their cities.
Settled(w) ==
  LET row(u, state) == Row(PostOf(u), state, w.receiptOf[u], 0)
      lost == IF w.outcome.error THEN "MODEL_ERROR" ELSE "UNDECIDED"
      is(what) == {u \in DOMAIN w.outcome.valid : w.outcome.valid[u].is = what}
      each(s, state) == [i \in DOMAIN s |-> row(s[i], state)]
      yes == SetToSeq(is("relevant"))
  IN [w EXCEPT !.pc = "recording",
        !.todo = each(w.outcome.faults, "INVALID_OUTPUT")
                 \o each(w.outcome.missing, lost)
                 \o each(SetToSeq(is("irrelevant")), "REJECTED"),
        !.accepted = @ \o [i \in DOMAIN yes |->
          [post |-> PostOf(yes[i]), item |-> w.outcome.valid[yes[i]],
           receipt |-> w.receiptOf[yes[i]]]],
        !.gaps = @ + Len(w.outcome.faults) + Len(w.outcome.missing)]

\* Mutant: every decision of a batch refers to the call that came last.
ReceiptOfLast == [u \in {Batch[i].url : i \in DOMAIN Batch} |-> Len(receipts) + 1]

ReceiptOf == Over(work.receiptOf, [u \in Asked |-> Len(receipts) + 1])

judge ==
  /\ work.pc = "judging"
  /\ \E reply \in Reply :
       LET w == [work EXCEPT !.outcome = Merged(@, parse_batch(reply)),
                             !.receiptOf = ReceiptOf, !.calls = @ + 1]
       IN /\ receipts' = Append(receipts, [iter |-> iter, asked |-> Asked, of |-> reply.of])
          /\ work' = IF w.at + w.size <= Len(Batch) THEN [w EXCEPT !.at = @ + w.size]
                     ELSE IF w.outcome.truncated /\ w.size > 1
                     THEN [w EXCEPT !.size = Halved(@), !.at = 1, !.outcome = Nothing,
                                    !.receiptOf = <<>>]
                     ELSE Settled(w)
  /\ UNCHANGED <<skips, decisions, signals, admitted, notes, world>>

insert_triage_decision ==
  /\ work.pc \in {"recording", "accepting"} /\ work.todo # <<>>
  /\ decisions' = Append(decisions, Head(work.todo))
  /\ work' = [work EXCEPT !.todo = Tail(@)]
  /\ UNCHANGED <<skips, signals, admitted, receipts, notes, world>>

EndBatch ==
  /\ work.pc = "recording" /\ work.todo = <<>>
  /\ work' = NextBatch([work EXCEPT !.posts = SubSeq(@, Len(Batch) + 1, Len(@))])
  /\ UNCHANGED <<rows, world>>

-----------------------------------------------------------------------------
(* Locating.  The cities that accepted posts name are admitted on the      *)
(* evidence of the whole run, and each post becomes a signal of its city.  *)

Naming(name) == {i \in DOMAIN work.accepted : name \in work.accepted[i].item.cities}

\* As many known publishers as distinct claims, whichever is fewer.
Independent(evidence) ==
  LET urls == {work.accepted[i].post.url : i \in evidence}
  IN Min({Cardinality({Publisher[u] : u \in urls} \ {Unknown}),
          Cardinality({Claim[u] : u \in urls})})

\* Mutant: a salient post is enough.
MayAdmitOnSalience(name) ==
  \E i \in Naming(name) : work.accepted[i].item.salience >= MinExpansion

MayAdmit(name) ==
  LET evidence == Naming(name)
  IN /\ Expand
     /\ Independent(evidence) >= MinDomains
     /\ \E i \in evidence : work.accepted[i].item.salience >= MinExpansion
     /\ Cardinality(admitted) < MaxExpanded

\* The names are taken as the replies gave them; here, in any order.
admit_city ==
  /\ work.pc = "admitting"
  /\ \E name \in work.names :
       /\ admitted' = IF name \notin SeedCities \cup admitted /\ MayAdmit(name)
                      THEN admitted \cup {name} ELSE admitted
       /\ work' = IF name \in SeedCities \cup admitted'
                  THEN LET order == Ascending(Naming(name)) IN
                       [work EXCEPT !.names = @ \ {name}, !.pc = "locating", !.city = name,
                                    !.entries = [n \in DOMAIN order |->
                                                   work.accepted[order[n]]]]
                  ELSE [work EXCEPT !.names = @ \ {name}]
  /\ UNCHANGED <<skips, decisions, signals, receipts, notes, world>>

classify(e) == IF \/ e.item.salience < ConfirmMin \/ ~Dated(e.post)
                  \/ e.post.at > hour + Skew
               THEN "CANDIDATE" ELSE "CONFIRMED"

\* Mutant: the same post may be a signal of several cities.
SignalExistsInCity(url) == \E i \in DOMAIN signals :
  signals[i].iter = iter /\ signals[i].url = url /\ signals[i].city = work.city

\* idx_sig_dedup does not tell cities apart.
SignalExists(url) == \E i \in DOMAIN signals : signals[i].iter = iter /\ signals[i].url = url

write_signal ==
  /\ work.pc = "locating"
  /\ LET e == Head(work.entries)
         writes == e.item.salience >= MinSalience /\ ~SignalExists(e.post.url)
     IN /\ signals' = IF writes
                      THEN Append(signals, [iter |-> iter, url |-> e.post.url,
                                            city |-> work.city, state |-> classify(e)])
                      ELSE signals
        /\ work' = [work EXCEPT !.entries = Tail(@),
             !.pc = IF Len(work.entries) = 1 THEN "admitting" ELSE @,
             !.signalOf = IF writes THEN Over(@, [u \in {e.post.url} |-> Len(signals) + 1])
                          ELSE @]
  /\ UNCHANGED <<skips, decisions, admitted, receipts, notes, world>>

\* One row per accepted post, after its signals; the last judgement of it counts.
Accepting ==
  /\ work.pc = "admitting" /\ work.names = {}
  /\ LET last == {i \in DOMAIN work.accepted : \A j \in i + 1..Len(work.accepted) :
                    work.accepted[j].post.url # work.accepted[i].post.url}
         order == Ascending(last)
         row(e) == Row(e.post, "ACCEPTED", e.receipt,
                       IF e.post.url \in DOMAIN work.signalOf
                       THEN work.signalOf[e.post.url] ELSE 0)
     IN work' = [work EXCEPT !.pc = "accepting",
                   !.todo = [i \in DOMAIN order |-> row(work.accepted[order[i]])]]
  /\ UNCHANGED <<rows, world>>

EndStage ==
  /\ work.pc = "accepting" /\ work.todo = <<>>
  /\ Note("not judged", work.gaps > 0)
  /\ work' = [work EXCEPT !.pc = "closed"]
  /\ UNCHANGED <<skips, decisions, signals, admitted, receipts, world>>

-----------------------------------------------------------------------------
(* Around the stage.                                                       *)

\* Mutant: the startup that finds the iteration interrupted says nothing of it.
CrashSilently ==
  /\ work.pc \notin {"closed", "interrupted"} /\ MayUpset
  /\ work' = Idle("interrupted") /\ crashes' = crashes + 1
  /\ UNCHANGED <<rows, payloads, iter, kept, hour>>

\* What was in memory is gone; the next startup notes the interruption.
Crash ==
  /\ work.pc \notin {"closed", "interrupted"} /\ MayUpset
  /\ work' = Idle("interrupted") /\ crashes' = crashes + 1
  /\ Note("interrupted", TRUE)
  /\ UNCHANGED <<skips, decisions, signals, admitted, receipts, payloads, iter, kept,
                 hour>>

\* The stage runs again, and not as a re-triage, also if it was one.
Resume ==
  /\ work.pc = "interrupted"
  /\ work' = Idle("gather")
  /\ UNCHANGED <<rows, world>>

\* A child iteration for the gaps of a closed one.
prepare_retry_triage ==
  /\ work.pc = "closed" /\ MayUpset
  /\ \E parent \in 1..iter :
       /\ uncovered_triage_decisions(parent) # {}
       /\ work' = [Idle("gather") EXCEPT !.parent = parent]
  /\ iter' = iter + 1
  /\ notes' = [notes EXCEPT ![iter + 1] = {"inherited"}]
  /\ UNCHANGED <<skips, decisions, signals, admitted, receipts, payloads, kept, hour,
                 crashes>>

\* Retention deletes the oldest payload; its rows stay.
purge_expired_raw ==
  /\ work.pc = "closed" /\ kept # {}
  /\ kept' = kept \ {Min(kept)}
  /\ UNCHANGED <<rows, payloads, work, iter, hour, crashes>>

Tick ==
  /\ hour < Start + MaxHours /\ work.pc # "closed"
  /\ hour' = hour + 1
  /\ UNCHANGED <<rows, payloads, work, iter, kept, crashes>>

Next ==
  \/ gather \/ insert_triage_skip \/ EndGather \/ gather_for_retry
  \/ judge \/ insert_triage_decision \/ EndBatch
  \/ admit_city \/ write_signal \/ Accepting \/ EndStage
  \/ Crash \/ Resume \/ prepare_retry_triage \/ purge_expired_raw \/ Tick

Spec == Init /\ [][Next]_vars

-----------------------------------------------------------------------------
(* Properties.                                                             *)

Closed(i) == i < iter \/ (i = iter /\ work.pc = "closed")
Rows(i, u) == {d \in ToSet(decisions) : d.iter = i /\ d.url = u}
Verdicts(i, u) == {d \in Rows(i, u) : d.state \notin Uncovered}
Written(i, reason, r) ==
  Cardinality({k \in DOMAIN skips : skips[k].iter = i /\ skips[k].reason = reason
                                    /\ skips[k].raw = r})

\* Nothing that was collected is lost without a row: when the stage has ended,
\* every post has a decision or was stale, every unreadable payload was written
\* off, and nothing was written off twice, over any crash (triage.py 257-398).
Accounted ==
  /\ Closed(1) => \A r \in Raws :
       IF payloads[r].kind # "list" THEN Written(1, payloads[r].kind, r) = 1
       ELSE \A k \in DOMAIN payloads[r].items :
              LET u == payloads[r].items[k].url
              IN payloads[r].items[k].kind = "post"
                   => \/ Rows(1, u) # {}
                      \/ \E s \in ToSet(skips) : s.reason = "stale" /\ s.url = u
  /\ \A r \in Raws, reason \in {"no url", "no object", "unparseable", "not a list"} :
       Written(1, reason, r) <= IF payloads[r].kind # "list" THEN 1 ELSE
         Cardinality({k \in DOMAIN payloads[r].items : payloads[r].items[k].kind = reason})

\* A decision is what the call of its receipt said of that post, and said once;
\* what came twice, broken or not at all is no verdict (triage_schema.py 204-281,
\* triage.py 187-223).  Of the iteration that collected the posts.
AsTheModelSaid(d) ==
  /\ d.url \in receipts[d.receipt].asked
  /\ d.state \notin Uncovered =>
       /\ d.url \in DOMAIN receipts[d.receipt].of
       /\ receipts[d.receipt].of[d.url].is
            = IF d.state = "ACCEPTED" THEN "relevant" ELSE "irrelevant"
VerdictIsTheModels == \A d \in ToSet(decisions) : d.iter = 1 => AsTheModelSaid(d)

\* The same of re-triages as well: the receipt whose input contained the post
\* (triage.py 144-147, 177-183).  The code breaks it.
ReceiptHoldsVerdict == \A d \in ToSet(decisions) : AsTheModelSaid(d)

\* A post is judged once in the iteration that collected it: no verdict beside a
\* gap, and no second verdict after a crash (triage.py 263-268).
JudgedOnce ==
  \A u \in Urls : Verdicts(1, u) # {} => Cardinality(Rows(1, u)) = 1

\* A city beyond the session's is admitted only on posts that the model, in one
\* iteration, said name it: of as many known publishers and claims as are asked
\* for, one of them salient (queueing.py 906-940).
Backed(city) == \E i \in 1..iter :
  LET urls == {u \in Urls : \E k \in DOMAIN receipts :
                 /\ receipts[k].iter = i /\ u \in DOMAIN receipts[k].of
                 /\ receipts[k].of[u].is = "relevant"
                 /\ city \in receipts[k].of[u].cities}
  IN /\ Cardinality({Publisher[u] : u \in urls} \ {Unknown}) >= MinDomains
     /\ Cardinality({Claim[u] : u \in urls}) >= MinDomains
Corroborated == \A city \in admitted : Backed(city)

\* An iteration without a degradation has judged every post that it asked for and
\* lost no payload: a gap is never silent (triage.py 227-237, 386-397).
HonestGap ==
  \A i \in 1..iter : Closed(i) /\ notes[i] = {}
    => /\ \A d \in ToSet(decisions) : d.iter = i => d.state \notin Uncovered
       /\ \A r \in Raws : payloads[r].kind = "list"

\* Batches cost at most three calls for each of their posts, however often they are
\* cut off (triage.py 149-184).  Two are not enough for seventeen posts, whose parts
\* are of 17, 8, 4, 2 and 1.
CallsBounded == work.calls <= 3 * work.asked
=============================================================================
