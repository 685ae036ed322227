------------------------------- MODULE Vendor -------------------------------
(***************************************************************************)
(* Buying lodging data from Staying: iterations of several sessions, each  *)
(* on a thread of one process, share a connector, its rate limiter, the    *)
(* ledger of calls and the month's limit.                                  *)
(*                                                                         *)
(* A query is a plan of calls.  A call is a request that is paced, sent,   *)
(* retried and booked; the vendor may answer it at once, or with a job     *)
(* that is polled.  Time is relative: timers count down, and a bucket      *)
(* knows how long ago it was refilled.  The envelope of one iteration and  *)
(* the queue are the subject of Queue; here only the month's limit counts. *)
(***************************************************************************)
EXTENDS Integers, Sequences, FiniteSets, Functions

CONSTANTS Worker,     \* the threads, each running the iteration of one session
          Buckets,    \* of each bucket: ticks of refill a request costs, capacity
          MaxRetries, \* connector.max_retries
          PollMax,    \* staying.job_poll_max_s
          Intervals,  \* what Retry-After may say between two polls
          Monthly,    \* monthly_limit
          HardStop,   \* hard_stop_pct
          Costs,      \* credits a search may turn out to cost
          Credits     \* the balance at the vendor

ASSUME BucketsAssumption ==
  /\ Buckets \in Seq([gap : Nat \ {0}, cap : Nat]) /\ Buckets # <<>>
  /\ \A b \in DOMAIN Buckets : Buckets[b].gap <= Buckets[b].cap
ASSUME TimesAssumption ==
  MaxRetries \in Nat /\ PollMax \in Nat /\ Intervals \subseteq Nat \ {0}
ASSUME MoneyAssumption ==
  {Monthly, HardStop, Credits} \subseteq Nat /\ Costs \subseteq Nat

Bucket == DOMAIN Buckets
Gap(b) == Buckets[b].gap
Cap(b) == Buckets[b].cap

VARIABLES bucket, \* per bucket: tokens in ticks of refill, time since the last
                  \* refill, who holds its lock; history: a meter, see Paced
          work,   \* per thread: its iteration, query, call and request
          cache,  \* the LISTING_SET entry of the location
          money,  \* the month's limit, and the units of api_calls
          vendor, \* external: the credits left, and those it charged for
                  \* answers that no one reads
          served, \* history: the calls of each query the vendor carried out
          booked  \* history: what the latest query of each thread was booked

vars == <<bucket, work, cache, money, vendor, served, booked>>

Kinds == {"LODGING", "LODGING_PRICE"}
Calls == {"account", "search", "near", "base", "base2"}
Pcs == {"idle", "ready", "pacing", "asleep", "sent", "backoff", "polling",
        "balance"}
Outcomes == {"none", "complete", "failed", "skipped"}
NoOne == "no one"
ASSUME WorkerAssumption == NoOne \notin Worker /\ IsFiniteSet(Worker)

\* job: the vendor's answer is a job, in that state; left: time until it is
\* given up; owed: what the vendor charged for it.
WorkRow == [pc : Pcs, kind : Kinds, call : Calls, attempt : 0..MaxRetries + 1,
            at : Bucket, timer : Nat, job : {"none", "running", "done", "partial", "failed"},
            left : 0..PollMax, owed : Nat, balance : Nat, outcome : Outcomes]

TypeOK ==
  /\ bucket \in [Bucket -> [tokens : Nat, age : Nat, lock : Worker \cup {NoOne},
                            meter : Nat]]
  /\ work \in [Worker -> WorkRow]
  /\ cache \in {"none", "empty", "set"}
  /\ money \in [limit : Nat, used : Nat]
  /\ vendor \in [credits : 0..Credits, unread : Nat]
  /\ served \in [Worker -> SUBSET Calls]
  /\ booked \in [Worker -> Int]

NoWork == [pc |-> "idle", kind |-> "LODGING", call |-> "account", attempt |-> 0,
           at |-> 1, timer |-> 0, job |-> "none", left |-> 0, owed |-> 0,
           balance |-> 0, outcome |-> "none"]

Init ==
  /\ bucket = [b \in Bucket |-> [tokens |-> Cap(b), age |-> 0, lock |-> NoOne,
                                 meter |-> 0]]
  /\ work = [w \in Worker |-> NoWork]
  /\ cache = "none"
  /\ money = [limit |-> Monthly, used |-> 0]
  /\ vendor = [credits |-> Credits, unread |-> 0]
  /\ served = [w \in Worker |-> {}]
  /\ booked = [w \in Worker |-> 0]

Least(m, n) == IF m < n THEN m ELSE n
Most(m, n) == IF m < n THEN n ELSE m

-----------------------------------------------------------------------------
(* Pacing.  acquire refills, takes its tokens or sleeps for the deficit    *)
(* with the lock held, and goes on to the next bucket.                     *)

\* Mutant: the bucket fills while it is idle, without an end.
RefilledWithoutCap(b) == bucket[b].tokens + bucket[b].age

Refilled(b) == Least(Cap(b), bucket[b].tokens + bucket[b].age)

\* Mutant: a sleeper that wakes keeps the lock.
GrantedLocked(b, tokens) ==
  [tokens |-> tokens, age |-> 0, lock |-> bucket[b].lock, meter |-> bucket[b].meter + Gap(b)]

Granted(b, tokens) ==
  [tokens |-> tokens, age |-> 0, lock |-> NoOne, meter |-> bucket[b].meter + Gap(b)]

\* Past the last bucket, the request leaves.
Paces(w, b) == IF b = Len(Buckets) THEN [work[w] EXCEPT !.pc = "sent"]
                                   ELSE [work[w] EXCEPT !.pc = "pacing", !.at = b + 1]

\* Mutant: the tokens are taken whether they are there or not.
TakeAtOnce(w, b) ==
  /\ work[w].pc = "pacing" /\ work[w].at = b /\ bucket[b].lock = NoOne
  /\ bucket' = [bucket EXCEPT ![b] = Granted(b, Refilled(b) - Gap(b))]
  /\ work' = [work EXCEPT ![w] = Paces(w, b)]
  /\ UNCHANGED <<cache, money, vendor, served, booked>>

Acquire(w, b) ==
  /\ work[w].pc = "pacing" /\ work[w].at = b /\ bucket[b].lock = NoOne
  /\ \/ /\ Refilled(b) >= Gap(b)
        /\ bucket' = [bucket EXCEPT ![b] = Granted(b, Refilled(b) - Gap(b))]
        /\ work' = [work EXCEPT ![w] = Paces(w, b)]
     \/ /\ Refilled(b) < Gap(b)
        /\ bucket' = [bucket EXCEPT ![b].tokens = Refilled(b), ![b].age = 0,
                                    ![b].lock = w]
        /\ work' = [work EXCEPT ![w].pc = "asleep",
                                ![w].timer = Gap(b) - Refilled(b)]
  /\ UNCHANGED <<cache, money, vendor, served, booked>>

\* The sleep may have lasted longer than was asked for.
Wake(w, b) ==
  /\ work[w].pc = "asleep" /\ work[w].at = b /\ work[w].timer = 0
  /\ bucket' = [bucket EXCEPT ![b] = Granted(b, Most(0, Refilled(b) - Gap(b)))]
  /\ work' = [work EXCEPT ![w] = Paces(w, b)]
  /\ UNCHANGED <<cache, money, vendor, served, booked>>

-----------------------------------------------------------------------------
(* Requests, calls and queries as states of a thread.                      *)

Requesting(row, attempt) ==
  [row EXCEPT !.pc = "pacing", !.at = 1, !.attempt = attempt]
Calling(row, call) ==
  Requesting([row EXCEPT !.call = call, !.job = "none", !.owed = 0], 1)
Ended(row, outcome) == [NoWork EXCEPT !.pc = "ready", !.outcome = outcome]

\* A call that raises: the query FAILED; for the balance, a warning.
Raised(row) == Ended(row, IF row.call = "account" THEN "none" ELSE "failed")

\* Before each poll: give the job up, or sleep once more.
Polls(row, interval) ==
  IF interval > row.left THEN Raised(row)
  ELSE [row EXCEPT !.pc = "polling", !.timer = interval]

\* Mutant: the cost that is stated is not booked.
NoCorrection(cost) == 0

\* What a request costs before its answer is understood, and what is corrected
\* once the answer says how many credits it cost.
FlatUnits(call) == IF call = "account" THEN 0 ELSE 1
Correction(cost) == cost - 1

Book(w, units) ==
  /\ money' = [money EXCEPT !.used = @ + units]
  /\ booked' = [booked EXCEPT ![w] = @ + units]

\* Credits that are left pay for a search; with none left it is refused.
Price == {c \in Costs : c <= vendor.credits}

-----------------------------------------------------------------------------
(* An iteration begins: the configured limits are written again, and the   *)
(* vendor's own balance is asked for.                                      *)

Seed(w) ==
  /\ work[w].pc = "idle"
  /\ money' = [money EXCEPT !.limit = Monthly]
  /\ work' = [work EXCEPT ![w] = Calling(NoWork, "account")]
  /\ UNCHANGED <<bucket, cache, vendor, served, booked>>

\* A re-triage writes the limits and does not ask.
SeedRetry(w) ==
  /\ work[w].pc = "idle"
  /\ money' = [money EXCEPT !.limit = Monthly]
  /\ work' = [work EXCEPT ![w] = Ended(NoWork, "none")]
  /\ UNCHANGED <<bucket, cache, vendor, served, booked>>

Remaining == Most(0, money.limit - money.used)

\* Mutant: the vendor's balance counts whichever is lower.
ReconcileUp(w) ==
  /\ work[w].pc = "balance"
  /\ money' = [money EXCEPT !.limit = money.used + work[w].balance]
  /\ work' = [work EXCEPT ![w] = Ended(@, "none")]
  /\ UNCHANGED <<bucket, cache, vendor, served, booked>>

\* The lower of the two balances counts; the vendor may have charged since.
Reconcile(w) ==
  /\ work[w].pc = "balance"
  /\ money' = IF work[w].balance < Remaining
              THEN [money EXCEPT !.limit = money.used + work[w].balance] ELSE money
  /\ work' = [work EXCEPT ![w] = Ended(@, "none")]
  /\ UNCHANGED <<bucket, cache, vendor, served, booked>>

EndIteration(w) ==
  /\ work[w].pc = "ready"
  /\ work' = [work EXCEPT ![w] = NoWork]
  /\ UNCHANGED <<bucket, cache, money, vendor, served, booked>>

-----------------------------------------------------------------------------
(* One query, from the check of the budget to its last call.               *)

\* Lodging is not among the priorities the rest of the month is reserved for.
CanAfford == /\ money.used + 1 <= money.limit
             /\ money.used * 100 < money.limit * HardStop

FirstCall(kind) == IF kind = "LODGING" /\ cache = "none" THEN "search" ELSE "near"

\* No listing to ask about: the query is skipped before any call.
NothingToAsk(kind) ==
  cache = "empty" \/ (kind = "LODGING_PRICE" /\ cache = "none")

Collect(w, kind) ==
  /\ work[w].pc = "ready" /\ CanAfford
  /\ work' = [work EXCEPT ![w] =
       IF NothingToAsk(kind) THEN Ended(@, "skipped")
       ELSE Calling([NoWork EXCEPT !.kind = kind], FirstCall(kind))]
  /\ served' = [served EXCEPT ![w] = {}]
  /\ booked' = [booked EXCEPT ![w] = 0]
  /\ UNCHANGED <<bucket, cache, money, vendor>>

Refuse(w) ==
  /\ work[w].pc = "ready" /\ ~CanAfford
  /\ work' = [work EXCEPT ![w] = Ended(@, "skipped")]
  /\ UNCHANGED <<bucket, cache, money, vendor, served, booked>>

\* What follows a call that was answered in full: the next call, or the end of
\* the query.  enough: enough listings were measured in both windows.
Following(row, listings, enough) ==
  CASE row.call = "search" /\ listings = "empty" -> Ended(row, "skipped")
    [] row.call = "search" /\ listings = "set" -> Calling(row, "near")
    [] row.call = "near" -> Calling(row, "base")
    [] row.call \in {"base", "base2"} /\ enough -> Ended(row, "complete")
    [] row.call = "base" /\ ~enough /\ row.kind = "LODGING" -> Calling(row, "base2")
    [] OTHER -> Ended(row, "skipped")

\* Mutant: what was skipped is taken for nothing found.
SkippedUnseen(w, end) == FALSE

\* A requested platform was skipped, says the answer.  Prices come per listing,
\* so there a leg that is missing is no reason to raise.
Skipped(w, end) == end = "partial" /\ work[w].kind = "LODGING"

\* The body of an answer is read: the cost is corrected if it is stated, then what
\* it says of the platforms is checked.
Reads(w, cost, end) ==
  /\ \/ /\ Book(w, FlatUnits(work[w].call) + Correction(cost))
        /\ vendor' = [vendor EXCEPT !.credits = @ - cost + work[w].owed]
     \/ /\ Book(w, FlatUnits(work[w].call))
        /\ vendor' = [vendor EXCEPT !.credits = @ - cost + work[w].owed, !.unread = @ + cost]
  /\ IF Skipped(w, end)
     THEN work' = [work EXCEPT ![w] = Raised(@)] /\ UNCHANGED cache
     ELSE \E listings \in {"set", "empty"}, enough \in BOOLEAN :
            /\ work' = [work EXCEPT ![w] = Following(@, listings, enough)]
            /\ cache' = IF work[w].call = "search" THEN listings ELSE cache
  /\ UNCHANGED bucket

-----------------------------------------------------------------------------
(* The answers to a request.                                               *)

InFlight(w) == work[w].pc = "sent"
Creating(w) == InFlight(w) /\ work[w].job = "none" /\ work[w].call # "account"
AwaitsJob(w) == InFlight(w) /\ work[w].job # "none"

\* External: what the vendor carried out, as far as the query needs it.
Carried(w, end) == IF end = "done" \/ (end = "partial" /\ work[w].kind = "LODGING_PRICE")
                   THEN {work[w].call} ELSE {}

\* What a search may be charged that is carried out and never read about.
LostCharge(w) == IF Creating(w) THEN Price \cup {0} ELSE {0}
Unread(w, cost) ==
  vendor' = [vendor EXCEPT !.credits = @ - cost, !.unread = @ + cost + work[w].owed]

Failing(w) == /\ work' = [work EXCEPT ![w] = Raised(@)]
              /\ UNCHANGED <<bucket, cache, served>>

\* A status below 500: 402 and 429 are not repeated either.
Refused(w) == /\ InFlight(w)
              /\ Book(w, FlatUnits(work[w].call))
              /\ Unread(w, 0) /\ Failing(w)

\* A status that may pass, or no answer, which may be lost on its way back.
Repeated(w) ==
  /\ InFlight(w) /\ work[w].attempt <= MaxRetries
  /\ Book(w, FlatUnits(work[w].call))
  /\ work' = [work EXCEPT ![w].pc = "backoff", ![w].timer = work[w].attempt]
  /\ \E c \in LostCharge(w) :
       vendor' = [vendor EXCEPT !.credits = @ - c, !.unread = @ + c]
  /\ UNCHANGED <<bucket, cache, served>>

Exhausted(w) ==
  /\ InFlight(w) /\ work[w].attempt > MaxRetries
  /\ Book(w, FlatUnits(work[w].call))
  /\ \E c \in LostCharge(w) : Unread(w, c)
  /\ Failing(w)

\* A body that is not JSON raises before the call is recorded.
Garbled(w) ==
  /\ InFlight(w)
  /\ \E c \in LostCharge(w) : Unread(w, c)
  /\ UNCHANGED <<money, booked>>
  /\ Failing(w)

\* JSON of another shape, a 202 without job among it: the flat unit is booked,
\* the cost is not.
Malformed(w) ==
  /\ InFlight(w)
  /\ Book(w, FlatUnits(work[w].call))
  /\ \E c \in LostCharge(w) : Unread(w, c)
  /\ Failing(w)

AnswerAccount(w) ==
  /\ InFlight(w) /\ work[w].call = "account"
  /\ Book(w, FlatUnits("account"))
  /\ work' = [work EXCEPT ![w].pc = "balance", ![w].balance = vendor.credits]
  /\ UNCHANGED <<bucket, cache, vendor, served>>

AnswerAtOnce(w) ==
  /\ Creating(w)
  /\ \E c \in Price, end \in {"done", "partial"} :
       /\ Reads(w, c, end)
       /\ served' = [served EXCEPT ![w] = @ \cup Carried(w, end)]

\* 202: the vendor has made a job and charged for it.
AnswerLater(w) ==
  /\ Creating(w)
  /\ Book(w, FlatUnits(work[w].call))
  /\ \E c \in Price, i \in Intervals :
       LET row == [work[w] EXCEPT !.job = "running", !.left = PollMax, !.owed = c]
       IN /\ work' = [work EXCEPT ![w] = Polls(row, i)]
          /\ vendor' = [vendor EXCEPT !.credits = @ - c,
                                      !.unread = IF i > PollMax THEN @ + c ELSE @]
  /\ UNCHANGED <<bucket, cache, served>>

AnswerRunning(w) ==
  /\ AwaitsJob(w) /\ work[w].job = "running"
  /\ Book(w, FlatUnits(work[w].call))
  /\ \E i \in Intervals :
       /\ work' = [work EXCEPT ![w] = Polls(@, i)]
       /\ vendor' = [vendor EXCEPT !.unread = IF i > work[w].left THEN @ + work[w].owed ELSE @]
  /\ UNCHANGED <<bucket, cache, served>>

AnswerDone(w) ==
  /\ AwaitsJob(w) /\ work[w].job \in {"done", "partial"}
  /\ Reads(w, work[w].owed, work[w].job)
  /\ UNCHANGED served

AnswerFailed(w) ==
  /\ AwaitsJob(w) /\ work[w].job = "failed"
  /\ Book(w, FlatUnits(work[w].call))
  /\ Unread(w, 0) /\ Failing(w)

Answer(w) ==
  \/ Refused(w) \/ Repeated(w) \/ Exhausted(w) \/ Garbled(w) \/ Malformed(w)
  \/ AnswerAccount(w) \/ AnswerAtOnce(w) \/ AnswerLater(w)
  \/ AnswerRunning(w) \/ AnswerDone(w) \/ AnswerFailed(w)

\* The pause is over: the request is paced again, as a repetition or as a poll.
Proceed(w) ==
  /\ work[w].pc \in {"backoff", "polling"} /\ work[w].timer = 0
  /\ work' = [work EXCEPT ![w] =
       Requesting(@, IF @.pc = "backoff" THEN @.attempt + 1 ELSE 1)]
  /\ UNCHANGED <<bucket, cache, money, vendor, served, booked>>

-----------------------------------------------------------------------------
(* The environment.                                                        *)

\* The vendor ends a job, in its own time if ever; a failed one may be free.
JobEnds(w) ==
  /\ work[w].job = "running"
  /\ \E end \in {"done", "partial", "failed"}, free \in BOOLEAN :
       /\ free => end = "failed"
       /\ work' = [work EXCEPT ![w].job = end,
                               ![w].owed = IF free THEN 0 ELSE @]
       /\ vendor' = [vendor EXCEPT !.credits = IF free THEN @ + work[w].owed ELSE @]
       /\ served' = [served EXCEPT ![w] = @ \cup Carried(w, end)]
  /\ UNCHANGED <<bucket, cache, money, booked>>

\* The listing set is kept for staying.listing_set_ttl_days.
Expire ==
  /\ cache # "none" /\ cache' = "none"
  /\ UNCHANGED <<bucket, work, money, vendor, served, booked>>

Down(n) == Most(0, n - 1)

\* Older than its capacity, a bucket is full: its age stops counting.
Tick ==
  /\ bucket' = [b \in Bucket |-> [bucket[b] EXCEPT !.age = Least(Cap(b), @ + 1),
                                                   !.meter = Down(@)]]
  /\ work' = [w \in Worker |-> [work[w] EXCEPT !.timer = Down(@), !.left = Down(@)]]
  /\ UNCHANGED <<cache, money, vendor, served, booked>>

-----------------------------------------------------------------------------
Step(w) == \/ \E b \in Bucket : Acquire(w, b) \/ Wake(w, b)
           \/ Answer(w) \/ Proceed(w) \/ Reconcile(w)

Next ==
  \/ \E w \in Worker : \/ Step(w)
                       \/ Seed(w) \/ SeedRetry(w) \/ EndIteration(w)
                       \/ Refuse(w) \/ \E kind \in Kinds : Collect(w, kind)
                       \/ JobEnds(w)
  \/ Expire \/ Tick

Spec == Init /\ [][Next]_vars

\* Time passes, a request is answered or times out, and a thread that can go on
\* again and again, between the others' turns at a bucket, does.  The vendor need
\* not end a job.
Fairness == WF_vars(Tick) /\ \A w \in Worker : SF_vars(Step(w))

FairSpec == Spec /\ Fairness

-----------------------------------------------------------------------------
(* Properties.                                                             *)

\* No more than its capacity passes a bucket at once, and no more than its rate
\* after that, however late a sleeper wakes (ratelimit.py 55-80).  The meter
\* rises with each request by what it costs and falls by one with each tick, so
\* that it stays within the capacity means: in every span of d ticks at most
\* (capacity + d) / gap requests pass.
Paced == \A b \in Bucket : bucket[b].meter <= Cap(b)

Sum(f) == FoldFunction(+, 0, f)
Charged == Credits - vendor.credits

\* The ledger is never below what the vendor charged, except for what no answer
\* told it: repeated, polled and corrected requests included (staying.py
\* 343-368, budget.py 258-291).
LedgerCovers ==
  Charged <= money.used + vendor.unread + Sum([w \in Worker |-> work[w].owed])

\* The month's limit is exceeded by no more than the queries now in flight, or
\* last in flight, of each thread: each was admitted below the limit with a
\* guess of one unit (collection.py 119-124).
OvershootInFlight == money.used < Monthly + Sum(booked) \/ money.used = 0

\* A query is complete only if the vendor carried out its two windows, whatever
\* was repeated, answered late or given up (staying.py 167-217).
CompleteIsServed ==
  \A w \in Worker : work[w].outcome = "complete"
     => /\ "near" \in served[w]
        /\ served[w] \cap {"base", "base2"} # {}

\* Every query ends, also when the vendor never ends its job.
Busy(w) == work[w].pc \notin {"idle", "ready"}
QueryEnds == \A w \in Worker : Busy(w) ~> ~Busy(w)

=============================================================================
