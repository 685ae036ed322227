---------------------------- MODULE VendorProofs ----------------------------
(***************************************************************************)
(* Three facts about Vendor for any number of threads, buckets, retries    *)
(* and polls: what passes a bucket stays within its capacity and its rate, *)
(* however the threads interleave and however late a sleeper wakes; a      *)
(* query is complete only if the vendor carried out its windows; and the   *)
(* ledger covers what the vendor charged, and the month's limit but for    *)
(* the queries in flight.                                                  *)
(*                                                                         *)
(* The pace.  What the meter of a bucket shows is never more than the      *)
(* room its tokens leave: requests move tokens to the meter, a tick adds   *)
(* to the one and takes from the other, up to the capacity and down to     *)
(* zero.  This needs that a sleeper finds its tokens when it wakes, which  *)
(* holds because it keeps the lock: nobody takes them in the meantime.     *)
(*                                                                         *)
(* The windows.  A thread comes to the second window only past the first,  *)
(* and past a window only with an answer the vendor carried out, or with   *)
(* one that says what it left out and then ends the query.                 *)
(*                                                                         *)
(* The ledger.  What the threads owe together lies below what the vendor   *)
(* charged, and that below what is booked, owed or unread.  A step of a    *)
(* thread changes the sum by what its own row changes (Sums).              *)
(***************************************************************************)
EXTENDS Vendor, Sums, SequenceTheorems

Row == [pc : Pcs, kind : Kinds, call : Calls, attempt : Nat, at : Bucket,
        timer : Nat, job : {"none", "running", "done", "partial", "failed"},
        left : Nat, owed : Nat, balance : Int, outcome : Outcomes]

Books == [credits : Int, unread : Int]

\* The types the pace depends on; what the ledger and the vendor add up to is
\* only an integer here.
Typing ==
  /\ bucket \in [Bucket -> [tokens : Nat, age : Nat, lock : Worker \cup {NoOne},
                            meter : Nat]]
  /\ work \in [Worker -> Row]
  /\ vendor \in Books

\* What the meter shows has left the bucket.
MeterInv == \A b \in Bucket : bucket[b].meter + Refilled(b) <= Cap(b)

\* A sleeper holds the lock, and its tokens will be there when its time is up.
Covered(w) ==
  work[w].pc = "asleep"
     => /\ bucket[work[w].at].lock = w
        /\ Refilled(work[w].at) + work[w].timer >= Gap(work[w].at)
SleepInv == \A w \in Worker : Covered(w)

PaceInv == Typing /\ MeterInv /\ SleepInv

LEMMA BucketFacts ==
  /\ 1 \in Bucket
  /\ \A b \in Bucket : /\ b \in Nat /\ Gap(b) \in Nat \ {0} /\ Cap(b) \in Nat
                       /\ Gap(b) <= Cap(b)
                       /\ b # Len(Buckets) => b + 1 \in Bucket
<1>1. Buckets \in Seq([gap : Nat \ {0}, cap : Nat]) /\ Buckets # <<>>
  BY BucketsAssumption
<1>2. Len(Buckets) \in Nat /\ Bucket = 1..Len(Buckets) /\ Len(Buckets) # 0
  BY <1>1 DEF Bucket
<1>3. \A b \in Bucket : Buckets[b] \in [gap : Nat \ {0}, cap : Nat]
  BY <1>1, ElementOfSeq, <1>2
<1>4. \A b \in Bucket : Gap(b) <= Cap(b)
  BY BucketsAssumption DEF Bucket, Gap, Cap
<1>5. 1 \in Bucket /\ \A b \in Bucket : b \in Nat /\ (b # Len(Buckets) => b + 1 \in Bucket)
  BY <1>2
<1>6. \A b \in Bucket : Gap(b) \in Nat \ {0} /\ Cap(b) \in Nat
  BY <1>3 DEF Gap, Cap
<1> QED
  BY <1>4, <1>5, <1>6

LEMMA RefilledTyped ==
  ASSUME Typing, NEW b \in Bucket
  PROVE  Refilled(b) \in Nat /\ Refilled(b) <= Cap(b)
BY BucketFacts DEF Typing, Refilled, Least

-----------------------------------------------------------------------------
(* The states a thread may go to are rows, and none of them sleeps.        *)

LEMMA NoWorkTyped == NoWork \in Row /\ NoWork.pc # "asleep"
BY BucketFacts DEF NoWork, Row, Pcs, Kinds, Calls, Outcomes

LEMMA EndedTyped ==
  ASSUME NEW row, NEW outcome \in Outcomes
  PROVE  Ended(row, outcome) \in Row /\ Ended(row, outcome).pc = "ready"
BY NoWorkTyped DEF Ended, NoWork, Row, Pcs

LEMMA RequestingTyped ==
  ASSUME NEW row \in Row, NEW attempt \in Nat
  PROVE  Requesting(row, attempt) \in Row /\ Requesting(row, attempt).pc = "pacing"
BY BucketFacts DEF Requesting, Row, Pcs

LEMMA CallingTyped ==
  ASSUME NEW row \in Row, NEW call \in Calls
  PROVE  Calling(row, call) \in Row /\ Calling(row, call).pc = "pacing"
<1> DEFINE base == [row EXCEPT !.call = call, !.job = "none", !.owed = 0]
<1>1. base \in Row
  BY DEF Row
<1> QED
  BY <1>1, RequestingTyped DEF Calling

LEMMA RaisedTyped ==
  ASSUME NEW row \in Row
  PROVE  Raised(row) \in Row /\ Raised(row).pc = "ready"
BY EndedTyped DEF Raised, Outcomes

LEMMA PollsTyped ==
  ASSUME NEW row \in Row, NEW interval \in Intervals
  PROVE  Polls(row, interval) \in Row /\ Polls(row, interval).pc # "asleep"
<1>1. interval \in Nat
  BY TimesAssumption
<1>2. CASE interval > row.left
  BY <1>2, RaisedTyped DEF Polls
<1>3. CASE ~(interval > row.left)
  BY <1>1, <1>3 DEF Polls, Row, Pcs
<1> QED
  BY <1>2, <1>3

LEMMA FollowingTyped ==
  ASSUME NEW row \in Row, NEW listings, NEW enough \in BOOLEAN
  PROVE  Following(row, listings, enough) \in Row
         /\ Following(row, listings, enough).pc # "asleep"
<1>1. \A outcome \in Outcomes :
        Ended(row, outcome) \in Row /\ Ended(row, outcome).pc = "ready"
  BY EndedTyped
<1>2. \A call \in Calls : Calling(row, call) \in Row /\ Calling(row, call).pc = "pacing"
  BY CallingTyped
<1>3. {"skipped", "complete"} \subseteq Outcomes /\ {"near", "base", "base2"} \subseteq Calls
  BY DEF Outcomes, Calls
<1> DEFINE result == Following(row, listings, enough)
<1>4. \/ \E outcome \in Outcomes : result = Ended(row, outcome)
      \/ \E call \in Calls : result = Calling(row, call)
  BY <1>3 DEF Following
<1> QED
  BY <1>1, <1>2, <1>4

-----------------------------------------------------------------------------
(* The vendor's books stay integers, whatever it charges for.              *)

LEMMA BooksTyped ==
  ASSUME vendor \in Books, NEW a \in Int, NEW b \in Int
  PROVE  /\ [vendor EXCEPT !.credits = a, !.unread = b] \in Books
         /\ [vendor EXCEPT !.credits = a] \in Books
         /\ [vendor EXCEPT !.unread = b] \in Books
BY DEF Books

-----------------------------------------------------------------------------
(* Steps that do not touch the buckets.                                    *)

\* A thread goes on to a state in which it does not sleep, or sleeps as before.
LEMMA GoingOn ==
  ASSUME PaceInv, UNCHANGED bucket, vendor' \in Books,
         NEW w \in Worker, NEW row \in Row, work' = [work EXCEPT ![w] = row],
         \/ row.pc # "asleep"
         \/ row.pc = work[w].pc /\ row.at = work[w].at /\ row.timer = work[w].timer
  PROVE  PaceInv'
<1>1. Typing'
  BY DEF PaceInv, Typing
<1>2. \A b \in Bucket : Refilled(b)' = Refilled(b)
  BY DEF Refilled
<1>3. MeterInv'
  BY <1>2 DEF PaceInv, MeterInv, Cap, Bucket
<1>4. SleepInv'
  <2> SUFFICES ASSUME NEW v \in Worker, work'[v].pc = "asleep" PROVE Covered(v)'
    BY DEF SleepInv, Covered
  <2>1. work'[v].at = work[v].at /\ work'[v].timer = work[v].timer
        /\ work[v].pc = "asleep"
    BY DEF PaceInv, Typing
  <2>2. Covered(v)
    BY DEF PaceInv, SleepInv
  <2> QED
    BY <2>1, <2>2 DEF Covered, Refilled, Gap
<1> QED
  BY <1>1, <1>3, <1>4 DEF PaceInv

LEMMA PricesTyped == \A c \in Price : c \in Nat
BY MoneyAssumption DEF Price

LEMMA LostChargesTyped == ASSUME NEW w PROVE \A c \in LostCharge(w) : c \in Nat
BY PricesTyped DEF LostCharge

-----------------------------------------------------------------------------
(* Every action keeps the invariant.                                       *)

LEMMA BeginStepKeeps ==
  ASSUME PaceInv, NEW w \in Worker,
         \/ Seed(w) \/ SeedRetry(w) \/ Reconcile(w) \/ EndIteration(w) \/ Refuse(w)
         \/ \E kind \in Kinds : Collect(w, kind)
  PROVE  PaceInv'
<1>1. work \in [Worker -> Row] /\ work[w] \in Row
      /\ vendor \in Books
  BY DEF PaceInv, Typing
<1>2. \A kind \in Kinds : [NoWork EXCEPT !.kind = kind] \in Row
  BY NoWorkTyped DEF Row
<1>3. "account" \in Calls /\ {"none", "skipped"} \subseteq Outcomes
      /\ \A kind : FirstCall(kind) \in Calls
  BY DEF Calls, Outcomes, FirstCall
<1>4. UNCHANGED <<bucket, vendor>>
  BY DEF Seed, SeedRetry, Reconcile, EndIteration, Refuse, Collect
<1>5. \E row \in Row : row.pc # "asleep" /\ work' = [work EXCEPT ![w] = row]
  <2>1. CASE Seed(w)
    BY <1>3, <2>1, NoWorkTyped, CallingTyped DEF Seed
  <2>2. CASE SeedRetry(w)
    BY <1>3, <2>2, EndedTyped DEF SeedRetry
  <2>3. CASE Reconcile(w) \/ Refuse(w)
    BY <1>3, <2>3, EndedTyped DEF Reconcile, Refuse
  <2>4. CASE EndIteration(w)
    BY <2>4, NoWorkTyped DEF EndIteration
  <2>5. ASSUME NEW kind \in Kinds, Collect(w, kind)
        PROVE \E row \in Row : row.pc # "asleep" /\ work' = [work EXCEPT ![w] = row]
    <3>1. CASE NothingToAsk(kind)
      BY <1>3, <2>5, <3>1, EndedTyped DEF Collect
    <3>2. CASE ~NothingToAsk(kind)
      BY <1>2, <1>3, <2>5, <3>2, CallingTyped DEF Collect
    <3> QED
      BY <3>1, <3>2
  <2> QED
    BY <2>1, <2>2, <2>3, <2>4, <2>5
<1> QED
  BY <1>1, <1>4, <1>5, GoingOn

LEMMA ProceedKeeps ==
  ASSUME PaceInv, NEW w \in Worker, Proceed(w) \/ JobEnds(w)
  PROVE  PaceInv'
<1>1. work \in [Worker -> Row] /\ work[w] \in Row
      /\ vendor \in Books
  BY DEF PaceInv, Typing
<1>2. CASE Proceed(w)
  <2> DEFINE n == IF work[w].pc = "backoff" THEN work[w].attempt + 1 ELSE 1
  <2>1. n \in Nat
    BY <1>1 DEF Row
  <2>2. Requesting(work[w], n) \in Row /\ Requesting(work[w], n).pc = "pacing"
    BY <1>1, <2>1, RequestingTyped
  <2>3. work' = [work EXCEPT ![w] = Requesting(work[w], n)] /\ UNCHANGED <<bucket, vendor>>
    BY <1>2 DEF Proceed
  <2> QED
    BY <1>1, <2>2, <2>3, GoingOn
<1>3. CASE JobEnds(w)
  <2>1. PICK end \in {"done", "partial", "failed"}, free \in BOOLEAN :
          /\ work' = [work EXCEPT ![w].job = end, ![w].owed = IF free THEN 0 ELSE @]
          /\ vendor' = [vendor EXCEPT !.credits = IF free THEN @ + work[w].owed ELSE @]
    BY <1>3 DEF JobEnds
  <2> DEFINE row == [work[w] EXCEPT !.job = end, !.owed = IF free THEN 0 ELSE @]
  <2>2. row \in Row /\ row.pc = work[w].pc /\ row.at = work[w].at
        /\ row.timer = work[w].timer
    BY <1>1 DEF Row
  <2>3. work' = [work EXCEPT ![w] = row]
    BY <1>1, <2>1
  <2>4. vendor' \in Books
    BY <1>1, <2>1 DEF Row, Books
  <2>5. UNCHANGED bucket
    BY <1>3 DEF JobEnds
  <2> QED
    BY <2>2, <2>3, <2>4, <2>5, GoingOn
<1> QED
  BY <1>2, <1>3

LEMMA ReadsTyped ==
  ASSUME PaceInv, NEW w \in Worker, NEW cost \in Nat, NEW end, Reads(w, cost, end)
  PROVE  PaceInv'
<1>1. work[w] \in Row /\ vendor \in Books
  BY DEF PaceInv, Typing
<1>2. UNCHANGED bucket
  BY DEF Reads
<1>3. vendor' \in Books
  <2>1. work[w].owed \in Int
    BY <1>1 DEF Row
  <2>2. vendor.credits - cost + work[w].owed \in Int /\ vendor.unread + cost \in Int
    BY <1>1, <2>1 DEF Books
  <2> QED
    BY <1>1, <2>2, BooksTyped, ZenonT(30) DEF Reads
<1>4. \E row \in Row : row.pc # "asleep" /\ work' = [work EXCEPT ![w] = row]
  <2>1. CASE Skipped(w, end)
    BY <1>1, <2>1, RaisedTyped DEF Reads
  <2>2. CASE ~Skipped(w, end)
    BY <1>1, <2>2, FollowingTyped DEF Reads
  <2> QED
    BY <2>1, <2>2
<1> QED
  BY <1>2, <1>3, <1>4, GoingOn

LEMMA AnswerKeeps ==
  ASSUME PaceInv, NEW w \in Worker, Answer(w)
  PROVE  PaceInv'
<1>1. work \in [Worker -> Row] /\ work[w] \in Row
      /\ vendor \in Books
  BY DEF PaceInv, Typing
<1> DEFINE GoesOn == /\ UNCHANGED bucket /\ vendor' \in Books
                     /\ \E row \in Row : row.pc # "asleep"
                                        /\ work' = [work EXCEPT ![w] = row]
<1>2. GoesOn => PaceInv'
  BY GoingOn
<1> HIDE DEF GoesOn
\* The calls that raise.
<1>3. ASSUME Failing(w), \E c \in Nat : Unread(w, c) PROVE GoesOn
  <2>1. vendor' \in Books
    <3>1. PICK c \in Nat : Unread(w, c)
      BY <1>3
    <3>2. work[w].owed \in Int
      BY <1>1 DEF Row
    <3>3. vendor.credits - c \in Int /\ vendor.unread + c + work[w].owed \in Int
      BY <1>1, <3>2 DEF Books
    <3> QED
      BY <1>1, <3>1, <3>3, BooksTyped DEF Unread
  <2>2. work' = [work EXCEPT ![w] = Raised(work[w])] /\ UNCHANGED bucket
    BY <1>3 DEF Failing
  <2> QED
    BY <1>1, <2>1, <2>2, RaisedTyped DEF GoesOn
<1>4. CASE Refused(w) \/ AnswerFailed(w) \/ Exhausted(w) \/ Garbled(w) \/ Malformed(w)
  <2>1. Failing(w) /\ \E c \in Nat : Unread(w, c)
    BY <1>4, LostChargesTyped DEF Refused, AnswerFailed, Exhausted, Garbled, Malformed
  <2> QED
    BY <1>2, <1>3, <2>1
\* The calls that are repeated, or go on.
<1>5. CASE Repeated(w)
  <2> DEFINE row == [work[w] EXCEPT !.pc = "backoff", !.timer = work[w].attempt]
  <2>1. row \in Row /\ row.pc # "asleep"
    BY <1>1 DEF Row, Pcs
  <2>2. work' = [work EXCEPT ![w] = row] /\ UNCHANGED bucket
    BY <1>1, <1>5 DEF Repeated
  <2>3. vendor' \in Books
    <3>1. PICK c \in LostCharge(w) :
            vendor' = [vendor EXCEPT !.credits = @ - c, !.unread = @ + c]
      BY <1>5 DEF Repeated
    <3>2. vendor.credits - c \in Int /\ vendor.unread + c \in Int
      BY <1>1, LostChargesTyped DEF Books
    <3> QED
      BY <1>1, <3>1, <3>2, BooksTyped
  <2> QED
    BY <1>2, <2>1, <2>2, <2>3 DEF GoesOn
<1>6. CASE AnswerAccount(w)
  <2> DEFINE row == [work[w] EXCEPT !.pc = "balance", !.balance = vendor.credits]
  <2>1. row \in Row /\ row.pc # "asleep"
    BY <1>1 DEF Row, Pcs, Books
  <2>2. work' = [work EXCEPT ![w] = row] /\ UNCHANGED <<bucket, vendor>>
    BY <1>1, <1>6 DEF AnswerAccount
  <2> QED
    BY <1>1, <1>2, <2>1, <2>2 DEF GoesOn
<1>7. CASE AnswerAtOnce(w)
  BY <1>7, PricesTyped, ReadsTyped DEF AnswerAtOnce
<1>8. CASE AnswerDone(w)
  BY <1>1, <1>8, ReadsTyped DEF AnswerDone, Row
<1>9. CASE AnswerLater(w)
  <2>1. PICK c \in Price, i \in Intervals :
          /\ work' = [work EXCEPT ![w] = Polls([work[w] EXCEPT !.job = "running",
                                      !.left = PollMax, !.owed = c], i)]
          /\ vendor' = [vendor EXCEPT !.credits = @ - c,
                                      !.unread = IF i > PollMax THEN @ + c ELSE @]
    BY <1>9 DEF AnswerLater
  <2> DEFINE row == [work[w] EXCEPT !.job = "running", !.left = PollMax, !.owed = c]
  <2>2. c \in Nat
    BY PricesTyped
  <2>3. row \in Row
    BY <1>1, <2>2, TimesAssumption DEF Row
  <2>4. Polls(row, i) \in Row /\ Polls(row, i).pc # "asleep"
    BY <2>3, PollsTyped
  <2>5. vendor' \in Books
    <3>1. /\ vendor.credits - c \in Int /\ vendor.unread + c \in Int
          /\ vendor.unread \in Int
      BY <1>1, <2>2 DEF Books
    <3>2. (IF i > PollMax THEN vendor.unread + c ELSE vendor.unread) \in Int
      BY <3>1
    <3> QED
      BY <1>1, <2>1, <3>1, <3>2, BooksTyped
  <2>6. UNCHANGED bucket
    BY <1>9 DEF AnswerLater
  <2> QED
    BY <1>2, <2>1, <2>4, <2>5, <2>6 DEF GoesOn
<1>10. CASE AnswerRunning(w)
  <2>1. PICK i \in Intervals :
          /\ work' = [work EXCEPT ![w] = Polls(work[w], i)]
          /\ vendor' = [vendor EXCEPT !.unread =
                           IF i > work[w].left THEN @ + work[w].owed ELSE @]
    BY <1>10 DEF AnswerRunning
  <2>2. vendor' \in Books
    BY <1>1, <2>1 DEF Row, Books
  <2>3. UNCHANGED bucket
    BY <1>10 DEF AnswerRunning
  <2> QED
    BY <1>1, <1>2, <2>1, <2>2, <2>3, PollsTyped DEF GoesOn
<1> QED
  BY <1>4, <1>5, <1>6, <1>7, <1>8, <1>9, <1>10 DEF Answer

\* Past a bucket a thread does not sleep.
LEMMA PacesTyped ==
  ASSUME NEW w \in Worker, work[w] \in Row, NEW b \in Bucket
  PROVE  Paces(w, b) \in Row /\ Paces(w, b).pc # "asleep"
BY BucketFacts DEF Paces, Row, Pcs

\* A request passes bucket b: what it costs moves from the tokens to the meter.
LEMMA GrantedKeeps ==
  ASSUME PaceInv, NEW w \in Worker, NEW b \in Bucket,
         bucket[b].lock \in {w, NoOne}, Refilled(b) >= Gap(b),
         bucket' = [bucket EXCEPT ![b] = Granted(b, Refilled(b) - Gap(b))],
         work' = [work EXCEPT ![w] = Paces(w, b)], UNCHANGED vendor
  PROVE  PaceInv'
<1>1. work[w] \in Row /\ Paces(w, b) \in Row /\ Paces(w, b).pc # "asleep"
  BY PacesTyped DEF PaceInv, Typing
<1>2. Refilled(b) \in Nat /\ Refilled(b) <= Cap(b) /\ Gap(b) \in Nat /\ Cap(b) \in Nat
  BY RefilledTyped, BucketFacts DEF PaceInv
<1>3. Granted(b, Refilled(b) - Gap(b)) \in
        [tokens : Nat, age : Nat, lock : Worker \cup {NoOne}, meter : Nat]
  BY <1>2 DEF Granted, PaceInv, Typing
<1>4. Typing'
  BY <1>1, <1>3 DEF PaceInv, Typing
<1>5. bucket'[b] = Granted(b, Refilled(b) - Gap(b))
      /\ \A a \in Bucket \ {b} : bucket'[a] = bucket[a]
  BY DEF PaceInv, Typing
<1>6. MeterInv'
  <2> SUFFICES ASSUME NEW a \in Bucket PROVE (bucket[a].meter + Refilled(a) <= Cap(a))'
    BY DEF MeterInv
  <2>1. bucket[a].meter + Refilled(a) <= Cap(a)
    BY DEF PaceInv, MeterInv
  <2>2. CASE a # b
    BY <1>5, <2>1, <2>2 DEF Refilled, Cap
  <2>3. CASE a = b
    <3>1. bucket'[b].meter = bucket[b].meter + Gap(b)
          /\ bucket'[b].tokens + bucket'[b].age = Refilled(b) - Gap(b)
      BY <1>2, <1>5 DEF Granted
    <3>2. (Refilled(b))' = Refilled(b) - Gap(b)
      BY <1>2, <3>1 DEF Refilled, Least, Cap
    <3>3. bucket[b].meter \in Nat
      BY DEF PaceInv, Typing
    <3>4. bucket'[b].meter + (Refilled(b))' = bucket[b].meter + Refilled(b)
      BY <1>2, <3>1, <3>2, <3>3
    <3> QED
      BY <2>1, <2>3, <3>4 DEF Cap
  <2> QED
    BY <2>2, <2>3
<1>7. SleepInv'
  <2> SUFFICES ASSUME NEW v \in Worker, work'[v].pc = "asleep" PROVE Covered(v)'
    BY DEF SleepInv, Covered
  <2>1. v # w /\ work'[v] = work[v] /\ work[v].at \in Bucket
    BY <1>1 DEF PaceInv, Typing, Row
  <2>2. Covered(v)
    BY DEF PaceInv, SleepInv
  <2>3. work[v].at # b
    BY <2>1, <2>2, WorkerAssumption DEF Covered
  <2> QED
    BY <1>5, <2>1, <2>2, <2>3 DEF Covered, Refilled, Gap, Cap
<1> QED
  BY <1>4, <1>6, <1>7 DEF PaceInv

LEMMA PacingKeeps ==
  ASSUME PaceInv, NEW w \in Worker, NEW b \in Bucket, Acquire(w, b) \/ Wake(w, b)
  PROVE  PaceInv'
<1>1. Refilled(b) \in Nat /\ Refilled(b) <= Cap(b) /\ Gap(b) \in Nat
  BY RefilledTyped, BucketFacts DEF PaceInv
<1>2. work[w] \in Row
  BY DEF PaceInv, Typing
<1>3. CASE Acquire(w, b) /\ Refilled(b) >= Gap(b)
  <2>1. /\ bucket' = [bucket EXCEPT ![b] = Granted(b, Refilled(b) - Gap(b))]
        /\ work' = [work EXCEPT ![w] = Paces(w, b)]
        /\ bucket[b].lock = NoOne /\ UNCHANGED vendor
    BY <1>1, <1>3 DEF Acquire
  <2> QED
    BY <1>3, <2>1, GrantedKeeps
\* It goes to sleep for what is missing: the time and the tokens make up the gap.
<1>4. CASE Acquire(w, b) /\ Refilled(b) < Gap(b)
  <2>1. /\ bucket' = [bucket EXCEPT ![b].tokens = Refilled(b), ![b].age = 0,
                                      ![b].lock = w]
        /\ work' = [work EXCEPT ![w].pc = "asleep", ![w].timer = Gap(b) - Refilled(b)]
        /\ work[w].at = b /\ bucket[b].lock = NoOne /\ UNCHANGED vendor
    BY <1>1, <1>4 DEF Acquire
  <2>2. Gap(b) - Refilled(b) \in Nat
    BY <1>1, <1>4
  <2>3. [work[w] EXCEPT !.pc = "asleep", !.timer = Gap(b) - Refilled(b)] \in Row
    BY <1>2, <2>2 DEF Row, Pcs
  <2>4. [bucket[b] EXCEPT !.tokens = Refilled(b), !.age = 0, !.lock = w] \in
          [tokens : Nat, age : Nat, lock : Worker \cup {NoOne}, meter : Nat]
    BY <1>1 DEF PaceInv, Typing
  <2>5. Typing'
    BY <2>1, <2>3, <2>4 DEF PaceInv, Typing
  <2>6. /\ bucket'[b].lock = w /\ bucket'[b].meter = bucket[b].meter
        /\ bucket'[b].tokens = Refilled(b) /\ bucket'[b].age = 0
        /\ \A a \in Bucket \ {b} : bucket'[a] = bucket[a]
    BY <2>1 DEF PaceInv, Typing
  <2>7. \A a \in Bucket : (Refilled(a))' = Refilled(a)
    <3> SUFFICES ASSUME NEW a \in Bucket PROVE (Refilled(a))' = Refilled(a)
      OBVIOUS
    <3>1. CASE a # b
      BY <2>6, <3>1 DEF Refilled, Cap
    <3>2. CASE a = b
      <4>1. Cap(b) \in Nat
        BY BucketFacts
      <4>2. bucket'[b].tokens + bucket'[b].age = Refilled(b)
        BY <1>1, <2>6
      <4>3. (Refilled(b))' = Least(Cap(b), Refilled(b))
        BY <4>2 DEF Refilled, Cap
      <4> QED
        BY <1>1, <3>2, <4>1, <4>3 DEF Least
    <3> QED
      BY <3>1, <3>2
  <2>8. MeterInv'
    BY <2>6, <2>7 DEF PaceInv, MeterInv, Cap, Bucket
  <2>9. SleepInv'
    <3> SUFFICES ASSUME NEW v \in Worker, work'[v].pc = "asleep" PROVE Covered(v)'
      BY DEF SleepInv, Covered
    <3>1. CASE v = w
      <4>1. work'[w].at = b /\ work'[w].timer = Gap(b) - Refilled(b)
        BY <2>1 DEF PaceInv, Typing, Row
      <4>2. (Refilled(b))' + work'[w].timer = Gap(b)
        BY <1>1, <2>7, <4>1
      <4>3. work[w].at = b /\ (Refilled(work[w].at))' = (Refilled(b))'
        BY <2>1, <4>1 DEF Refilled, Cap
      <4> QED
        BY <1>1, <2>6, <3>1, <4>1, <4>2 DEF Covered, Refilled, Gap, Cap
    <3>2. CASE v # w
      <4>1. work'[v] = work[v] /\ work[v].at \in Bucket
        BY <2>1, <3>2 DEF PaceInv, Typing, Row
      <4>2. Covered(v)
        BY DEF PaceInv, SleepInv
      <4>3. work[v].at # b
        BY <2>1, <4>1, <4>2, WorkerAssumption DEF Covered
      <4> QED
        BY <2>6, <4>1, <4>2, <4>3 DEF Covered, Refilled, Gap, Cap
    <3> QED
      BY <3>1, <3>2
  <2> QED
    BY <2>5, <2>8, <2>9 DEF PaceInv
\* Its time is up, so that its tokens are there.
<1>5. CASE Wake(w, b)
  <2>1. /\ work[w].pc = "asleep" /\ work[w].at = b /\ work[w].timer = 0
        /\ work' = [work EXCEPT ![w] = Paces(w, b)] /\ UNCHANGED vendor
    BY <1>5 DEF Wake
  <2>2. bucket[b].lock = w /\ Refilled(b) + 0 >= Gap(b)
    BY <2>1 DEF PaceInv, SleepInv, Covered
  <2>3. Most(0, Refilled(b) - Gap(b)) = Refilled(b) - Gap(b) /\ Refilled(b) >= Gap(b)
    BY <1>1, <2>2 DEF Most
  <2>4. bucket' = [bucket EXCEPT ![b] = Granted(b, Refilled(b) - Gap(b))]
    BY <1>5, <2>3 DEF Wake
  <2> QED
    BY <2>1, <2>2, <2>3, <2>4, GrantedKeeps
<1> QED
  BY <1>1, <1>3, <1>4, <1>5 DEF Acquire

\* A tick refills what it takes from the meter and from the time to sleep.
LEMMA TickKeeps == ASSUME PaceInv, Tick PROVE PaceInv'
<1>1. /\ bucket' = [b \in Bucket |-> [bucket[b] EXCEPT !.age = Least(Cap(b), @ + 1),
                                                       !.meter = Down(@)]]
      /\ work' = [w \in Worker |-> [work[w] EXCEPT !.timer = Down(@), !.left = Down(@)]]
      /\ UNCHANGED vendor
  BY DEF Tick
<1>2. \A n \in Nat : Down(n) \in Nat
  BY DEF Down, Most
<1>3. \A b \in Bucket :
        /\ bucket[b] \in [tokens : Nat, age : Nat, lock : Worker \cup {NoOne}, meter : Nat]
        /\ bucket'[b] = [bucket[b] EXCEPT !.age = Least(Cap(b), @ + 1), !.meter = Down(@)]
        /\ Cap(b) \in Nat /\ Gap(b) \in Nat /\ Gap(b) <= Cap(b)
  BY <1>1, BucketFacts DEF PaceInv, Typing
<1>4. \A b \in Bucket :
        /\ bucket'[b].tokens = bucket[b].tokens /\ bucket'[b].lock = bucket[b].lock
        /\ bucket'[b].age = Least(Cap(b), bucket[b].age + 1)
        /\ bucket'[b].meter = Down(bucket[b].meter)
  BY <1>3
<1>5. \A w \in Worker :
        /\ work'[w] \in Row /\ work'[w].pc = work[w].pc /\ work'[w].at = work[w].at
        /\ work'[w].timer = Down(work[w].timer)
  BY <1>1, <1>2, ZenonT(30) DEF PaceInv, Typing, Row
<1>6. Typing'
  <2>1. ASSUME NEW b \in Bucket
        PROVE  bucket'[b] \in
                 [tokens : Nat, age : Nat, lock : Worker \cup {NoOne}, meter : Nat]
    <3>1. bucket[b].age \in Nat /\ bucket[b].meter \in Nat /\ Cap(b) \in Nat
      BY <1>3
    <3>2. Least(Cap(b), bucket[b].age + 1) \in Nat /\ Down(bucket[b].meter) \in Nat
      BY <1>2, <3>1 DEF Least
    <3> QED
      BY <1>3, <3>2
  <2> QED
    BY <1>1, <1>5, <2>1 DEF PaceInv, Typing
<1>7. \A b \in Bucket : (Refilled(b))' = Least(Cap(b), Refilled(b) + 1)
  <2> SUFFICES ASSUME NEW b \in Bucket
               PROVE  (Refilled(b))' = Least(Cap(b), Refilled(b) + 1)
    OBVIOUS
  <2>1. (Refilled(b))' = Least(Cap(b), bucket[b].tokens + Least(Cap(b), bucket[b].age + 1))
    BY <1>4 DEF Refilled, Cap
  <2>2. bucket[b].tokens \in Nat /\ bucket[b].age \in Nat /\ Cap(b) \in Nat
    BY <1>3
  <2> QED
    BY <2>1, <2>2 DEF Refilled, Least
<1>8. MeterInv'
  <2> SUFFICES ASSUME NEW b \in Bucket PROVE (bucket[b].meter + Refilled(b) <= Cap(b))'
    BY DEF MeterInv
  <2>1. bucket[b].meter \in Nat /\ Refilled(b) \in Nat /\ Refilled(b) <= Cap(b)
        /\ Cap(b) \in Nat /\ bucket[b].meter + Refilled(b) <= Cap(b)
    BY <1>3, RefilledTyped DEF PaceInv, MeterInv
  <2>2. bucket'[b].meter + (Refilled(b))' <= Cap(b)
    BY <1>4, <1>7, <2>1 DEF Least, Down, Most
  <2> QED
    BY <2>2 DEF Cap
<1>9. SleepInv'
  <2> SUFFICES ASSUME NEW w \in Worker, work'[w].pc = "asleep" PROVE Covered(w)'
    BY DEF SleepInv, Covered
  <2> DEFINE b == work[w].at
  <2>1. b \in Bucket /\ work[w].timer \in Nat
    BY DEF PaceInv, Typing, Row
  <2>2. bucket[b].lock = w /\ Refilled(b) + work[w].timer >= Gap(b)
    BY <1>5 DEF PaceInv, SleepInv, Covered
  <2>3. Refilled(b) \in Nat /\ Refilled(b) <= Cap(b)
    BY <2>1, RefilledTyped DEF PaceInv
  <2>4. (Refilled(b))' + work'[w].timer >= Gap(b)
    <3>1. (Refilled(b))' = Least(Cap(b), Refilled(b) + 1) /\ work'[w].timer = Down(work[w].timer)
      BY <1>5, <1>7, <2>1
    <3>2. Cap(b) \in Nat /\ Gap(b) \in Nat /\ Gap(b) <= Cap(b)
      BY <1>3, <2>1
    <3> QED
      BY <2>1, <2>2, <2>3, <3>1, <3>2 DEF Least, Down, Most
  <2> QED
    BY <1>4, <1>5, <2>1, <2>2, <2>4 DEF Covered, Refilled, Gap, Cap
<1> QED
  BY <1>6, <1>8, <1>9 DEF PaceInv

-----------------------------------------------------------------------------
LEMMA PaceInit == Init => PaceInv
<1> SUFFICES ASSUME Init PROVE PaceInv
  OBVIOUS
<1>1. \A b \in Bucket : [tokens |-> Cap(b), age |-> 0, lock |-> NoOne, meter |-> 0] \in
        [tokens : Nat, age : Nat, lock : Worker \cup {NoOne}, meter : Nat]
  BY BucketFacts
<1>2. Credits \in Int
  BY MoneyAssumption
<1>3. Typing
  BY <1>1, <1>2, NoWorkTyped DEF Init, Typing, Books
<1>4. \A b \in Bucket : Refilled(b) = Cap(b) /\ bucket[b].meter = 0
  <2> SUFFICES ASSUME NEW b \in Bucket PROVE Refilled(b) = Cap(b) /\ bucket[b].meter = 0
    OBVIOUS
  <2>1. bucket[b] = [tokens |-> Cap(b), age |-> 0, lock |-> NoOne, meter |-> 0]
        /\ Cap(b) \in Nat
    BY BucketFacts DEF Init
  <2> QED
    BY <2>1 DEF Refilled, Least
<1>5. MeterInv
  BY <1>4, BucketFacts DEF MeterInv
<1>6. SleepInv
  <2>1. \A w \in Worker : work[w] = NoWork
    BY DEF Init
  <2> QED
    BY <2>1, NoWorkTyped DEF SleepInv, Covered
<1> QED
  BY <1>3, <1>5, <1>6 DEF PaceInv

LEMMA PaceStep == PaceInv /\ [Next]_vars => PaceInv'
<1> SUFFICES ASSUME PaceInv, [Next]_vars PROVE PaceInv'
  OBVIOUS
<1>1. CASE UNCHANGED <<bucket, work, vendor>>
  BY <1>1 DEF PaceInv, Typing, MeterInv, SleepInv, Covered, Refilled, Gap, Cap, Bucket
<1>2. CASE Tick
  BY <1>2, TickKeeps
<1>3. ASSUME NEW w \in Worker, Step(w) PROVE PaceInv'
  BY <1>3, PacingKeeps, AnswerKeeps, ProceedKeeps, BeginStepKeeps DEF Step
<1>4. ASSUME NEW w \in Worker,
             \/ Seed(w) \/ SeedRetry(w) \/ EndIteration(w) \/ Refuse(w) \/ JobEnds(w)
             \/ \E kind \in Kinds : Collect(w, kind)
      PROVE PaceInv'
  BY <1>4, BeginStepKeeps, ProceedKeeps
<1>5. CASE Expire \/ UNCHANGED vars
  BY <1>1, <1>5 DEF Expire, vars
<1> QED
  BY <1>2, <1>3, <1>4, <1>5 DEF Next

\* No more than its capacity passes a bucket at once, and no more than its rate
\* after that, for any number of threads that share it and of buckets a request
\* passes, and however late a sleeper wakes (ratelimit.py 55-80).
THEOREM PaceIsKept == Spec => []Paced
<1>1. PaceInv => Paced
  <2> SUFFICES ASSUME PaceInv, NEW b \in Bucket PROVE bucket[b].meter <= Cap(b)
    BY DEF Paced
  <2>1. bucket[b].meter \in Nat /\ bucket[b].meter + Refilled(b) <= Cap(b)
    BY DEF PaceInv, Typing, MeterInv
  <2>2. Refilled(b) \in Nat /\ Cap(b) \in Nat
    BY RefilledTyped, BucketFacts DEF PaceInv
  <2> QED
    BY <2>1, <2>2
<1> QED
  BY <1>1, PaceInit, PaceStep, PTL DEF Spec

-----------------------------------------------------------------------------
(* What a query that is complete was served.                               *)

\* A thread whose call follows the first window was served that window, and one
\* whose job has ended well was served its call.
ServedOf(row, calls) ==
  /\ row.pc \in {"idle", "ready"} \/ row.outcome = "none"
  /\ row.outcome = "complete" => "near" \in calls /\ calls \cap {"base", "base2"} # {}
  /\ row.call \in {"base", "base2"} => "near" \in calls
  /\ row.job = "done" \/ (row.job = "partial" /\ row.kind = "LODGING_PRICE")
       => row.call \in calls
ServedInv == /\ Typing /\ served \in [Worker -> SUBSET Calls]
             /\ \A w \in Worker : ServedOf(work[w], served[w])

LEMMA ServedStart ==
  ASSUME NEW row, NEW calls, NEW outcome \in {"none", "failed", "skipped"}
  PROVE  ServedOf(Ended(row, outcome), calls) /\ ServedOf(NoWork, calls)
BY NoWorkTyped, EndedTyped DEF ServedOf, Ended, NoWork

LEMMA ServedRaised == ASSUME NEW row, NEW calls PROVE ServedOf(Raised(row), calls)
BY ServedStart DEF Raised

LEMMA ServedCalling ==
  ASSUME NEW row \in Row, NEW call \in Calls, NEW calls, row.outcome = "none",
         call \in {"base", "base2"} => "near" \in calls
  PROVE  ServedOf(Calling(row, call), calls)
BY DEF ServedOf, Calling, Requesting, Row

\* A thread changes its own row and adds to what it was served.
LEMMA ServedGoingOn ==
  ASSUME ServedInv, Typing', NEW w \in Worker, NEW row \in Row,
         work' = [work EXCEPT ![w] = row], NEW calls \in SUBSET Calls,
         served' = [served EXCEPT ![w] = calls], ServedOf(row, calls)
  PROVE  ServedInv'
<1>1. served' \in [Worker -> SUBSET Calls]
  BY DEF ServedInv
<1>2. ASSUME NEW v \in Worker PROVE ServedOf(work'[v], served'[v])
  <2>1. CASE v = w
    BY <2>1 DEF ServedInv, Typing
  <2>2. CASE v # w
    <3>1. work'[v] = work[v] /\ served'[v] = served[v]
      BY <2>2 DEF ServedInv, Typing
    <3> QED
      BY <3>1 DEF ServedInv
  <2> QED
    BY <2>1, <2>2
<1> QED
  BY <1>1, <1>2 DEF ServedInv

LEMMA ServedFollowing ==
  ASSUME NEW row \in Row, NEW calls, row.outcome = "none", ServedOf(row, calls),
         row.call \in calls, NEW listings, NEW enough \in BOOLEAN
  PROVE  ServedOf(Following(row, listings, enough), calls)
<1>1. \A outcome \in {"none", "failed", "skipped"} : ServedOf(Ended(row, outcome), calls)
  BY ServedStart
<1>2. \A call \in Calls : (call \in {"base", "base2"} => "near" \in calls)
                          => ServedOf(Calling(row, call), calls)
  BY ServedCalling
<1>3. row.call \in {"base", "base2"} => ServedOf(Ended(row, "complete"), calls)
  BY DEF ServedOf, Ended, NoWork
<1> DEFINE result == Following(row, listings, enough)
<1>4. \/ result = Ended(row, "skipped") \/ result = Calling(row, "near")
      \/ row.call = "near" /\ result = Calling(row, "base")
      \/ row.call \in {"base", "base2"} /\ result = Ended(row, "complete")
      \/ row.call = "base" /\ result = Calling(row, "base2")
  BY DEF Following
<1>5. {"near", "base", "base2"} \subseteq Calls
  BY DEF Calls
<1> HIDE DEF result
<1>6. ServedOf(result, calls)
  BY <1>1, <1>2, <1>3, <1>4, <1>5 DEF ServedOf
<1> QED
  BY <1>6 DEF result

\* A thread goes on with the same call; a job it now knows of has not ended.
LEMMA ServedSameCall ==
  ASSUME NEW row, NEW next, NEW calls, ServedOf(row, calls),
         row.pc \notin {"idle", "ready"}, next.outcome = row.outcome,
         next.call = row.call, next.kind = row.kind,
         next.job = row.job \/ next.job = "running"
  PROVE  ServedOf(next, calls)
BY DEF ServedOf

LEMMA ServedBegin ==
  ASSUME ServedInv, Typing', NEW w \in Worker,
         \/ Seed(w) \/ SeedRetry(w) \/ Reconcile(w) \/ EndIteration(w) \/ Refuse(w)
  PROVE  ServedInv'
<1>1. work \in [Worker -> Row] /\ served \in [Worker -> SUBSET Calls]
  BY DEF ServedInv, Typing
<1>2. served' = [served EXCEPT ![w] = served[w]] /\ served[w] \in SUBSET Calls
  BY <1>1 DEF Seed, SeedRetry, Reconcile, EndIteration, Refuse
<1>3. "account" \in Calls /\ NoWork \in Row /\ NoWork.outcome = "none"
  BY NoWorkTyped DEF Calls, NoWork
<1>4. \E row \in Row : ServedOf(row, served[w]) /\ work' = [work EXCEPT ![w] = row]
  <2>1. CASE Seed(w)
    BY <1>3, <2>1, CallingTyped, ServedCalling DEF Seed
  <2>2. CASE SeedRetry(w) \/ Reconcile(w) \/ Refuse(w)
    BY <2>2, EndedTyped, ServedStart DEF SeedRetry, Reconcile, Refuse, Outcomes
  <2>3. CASE EndIteration(w)
    BY <1>3, <2>3, ServedStart DEF EndIteration
  <2> QED
    BY <2>1, <2>2, <2>3
<1> QED
  BY <1>2, <1>4, ServedGoingOn

LEMMA ServedCollect ==
  ASSUME ServedInv, Typing', NEW w \in Worker, NEW kind \in Kinds, Collect(w, kind)
  PROVE  ServedInv'
<1> DEFINE fresh == [NoWork EXCEPT !.kind = kind]
<1>1. fresh \in Row /\ fresh.outcome = "none"
  BY NoWorkTyped DEF Row, NoWork
<1>2. FirstCall(kind) \in Calls /\ FirstCall(kind) \notin {"base", "base2"}
  BY DEF Calls, FirstCall
<1>3. served' = [served EXCEPT ![w] = {}] /\ {} \in SUBSET Calls
  BY DEF Collect
<1>4. \E row \in Row : ServedOf(row, {}) /\ work' = [work EXCEPT ![w] = row]
  <2>1. CASE NothingToAsk(kind)
    BY <2>1, EndedTyped, ServedStart DEF Collect, Outcomes
  <2>2. CASE ~NothingToAsk(kind)
    <3>1. work' = [work EXCEPT ![w] = Calling(fresh, FirstCall(kind))]
      BY <2>2 DEF Collect
    <3> QED
      BY <1>1, <1>2, <3>1, CallingTyped, ServedCalling
  <2> QED
    BY <2>1, <2>2
<1> QED
  BY <1>3, <1>4, ServedGoingOn

LEMMA ServedPacing ==
  ASSUME ServedInv, Typing', NEW w \in Worker,
         \/ \E b \in Bucket : Acquire(w, b) \/ Wake(w, b)
         \/ Proceed(w) \/ Repeated(w) \/ AnswerAccount(w)
  PROVE  ServedInv'
<1>1. work[w] \in Row /\ served[w] \in SUBSET Calls /\ ServedOf(work[w], served[w])
  BY DEF ServedInv, Typing
<1>2. served' = [served EXCEPT ![w] = served[w]]
  BY DEF ServedInv, Acquire, Wake, Proceed, Repeated, AnswerAccount
<1>3. work[w].pc \notin {"idle", "ready"}
  BY DEF Acquire, Wake, Proceed, Repeated, AnswerAccount, InFlight
<1> DEFINE SameCall(row) == /\ row.outcome = work[w].outcome /\ row.call = work[w].call
                            /\ row.kind = work[w].kind /\ row.job = work[w].job
       GoesOn == \E row : SameCall(row) /\ work' = [work EXCEPT ![w] = row]
<1>4. GoesOn
  <2>1. ASSUME NEW b \in Bucket PROVE SameCall(Paces(w, b))
    BY <1>1 DEF Paces, Row
  <2>2. ASSUME NEW b \in Bucket, Wake(w, b) PROVE GoesOn
    BY <2>1, <2>2 DEF Wake
  <2>3. ASSUME NEW b \in Bucket, Acquire(w, b) PROVE GoesOn
    <3>1. CASE work' = [work EXCEPT ![w] = Paces(w, b)]
      BY <2>1, <3>1
    <3> DEFINE row == [work[w] EXCEPT !.pc = "asleep", !.timer = Gap(b) - Refilled(b)]
    <3>2. CASE work' = [work EXCEPT ![w] = row]
      <4>1. SameCall(row)
        BY <1>1 DEF Row
      <4> QED
        BY <3>2, <4>1
    <3> QED
      BY <2>3, <3>1, <3>2, ZenonT(30) DEF Acquire, ServedInv, Typing
  <2>4. CASE Proceed(w)
    <3>1. \A n : SameCall(Requesting(work[w], n))
      BY <1>1 DEF Requesting, Row
    <3> QED
      BY <2>4, <3>1 DEF Proceed
  <2>5. CASE Repeated(w)
    <3> DEFINE row == [work[w] EXCEPT !.pc = "backoff", !.timer = work[w].attempt]
    <3>1. SameCall(row) /\ work' = [work EXCEPT ![w] = row]
      BY <1>1, <2>5 DEF Repeated, Row, ServedInv, Typing
    <3> QED
      BY <3>1
  <2>6. CASE AnswerAccount(w)
    <3> DEFINE row == [work[w] EXCEPT !.pc = "balance", !.balance = vendor.credits]
    <3>1. SameCall(row) /\ work' = [work EXCEPT ![w] = row]
      BY <1>1, <2>6 DEF AnswerAccount, Row, ServedInv, Typing
    <3> QED
      BY <3>1
  <2> QED
    BY <2>2, <2>3, <2>4, <2>5, <2>6
<1>5. PICK row : SameCall(row) /\ work' = [work EXCEPT ![w] = row]
  BY <1>4
<1>6. ServedOf(row, served[w])
  BY <1>1, <1>3, <1>5, ServedSameCall
<1>7. row \in Row
  <2>1. row = work'[w] /\ work' \in [Worker -> Row]
    BY <1>5 DEF ServedInv, Typing
  <2> QED
    BY <2>1
<1> QED
  BY <1>1, <1>2, <1>5, <1>6, <1>7, ServedGoingOn

LEMMA ServedPolls ==
  ASSUME ServedInv, Typing', NEW w \in Worker, AnswerLater(w) \/ AnswerRunning(w)
  PROVE  ServedInv'
<1>1. work[w] \in Row /\ served[w] \in SUBSET Calls /\ ServedOf(work[w], served[w])
  BY DEF ServedInv, Typing
<1>2. served' = [served EXCEPT ![w] = served[w]]
  BY DEF ServedInv, AnswerLater, AnswerRunning
<1>3. work'[w] \in Row /\ work' = [work EXCEPT ![w] = work'[w]]
  BY DEF ServedInv, Typing, AnswerLater, AnswerRunning
<1>4. work[w].pc \notin {"idle", "ready"}
  BY DEF AnswerLater, AnswerRunning, Creating, AwaitsJob, InFlight
<1>5. ASSUME NEW row \in Row, ServedOf(row, served[w]),
             row.pc \notin {"idle", "ready"}, NEW i \in Intervals
      PROVE  ServedOf(Polls(row, i), served[w])
  <2>1. CASE i > row.left
    BY <2>1, ServedRaised DEF Polls
  <2>2. CASE ~(i > row.left)
    <3> DEFINE next == [row EXCEPT !.pc = "polling", !.timer = i]
    <3>1. /\ next.outcome = row.outcome /\ next.call = row.call
          /\ next.kind = row.kind /\ next.job = row.job
      BY DEF Row
    <3>2. ServedOf(next, served[w])
      BY <1>5, <3>1, ServedSameCall
    <3> QED
      BY <2>2, <3>2 DEF Polls
  <2> QED
    BY <2>1, <2>2
<1>6. ServedOf(work'[w], served[w])
  <2>1. CASE AnswerRunning(w)
    BY <1>1, <1>4, <1>5, <2>1 DEF AnswerRunning, ServedInv, Typing
  <2>2. CASE AnswerLater(w)
    <3>1. PICK c \in Price, i \in Intervals :
            work' = [work EXCEPT ![w] = Polls([work[w] EXCEPT !.job = "running",
                                        !.left = PollMax, !.owed = c], i)]
      BY <2>2 DEF AnswerLater
    <3> DEFINE row == [work[w] EXCEPT !.job = "running", !.left = PollMax, !.owed = c]
    <3>2. row \in Row /\ row.pc = work[w].pc /\ row.outcome = work[w].outcome
          /\ row.call = work[w].call /\ row.kind = work[w].kind /\ row.job = "running"
      BY <1>1, PricesTyped, TimesAssumption DEF Row
    <3>3. ServedOf(row, served[w])
      BY <1>1, <1>4, <3>2, ServedSameCall
    <3> QED
      BY <1>4, <1>5, <3>1, <3>2, <3>3 DEF ServedInv, Typing
  <2> QED
    BY <2>1, <2>2
<1> QED
  BY <1>1, <1>2, <1>3, <1>6, ServedGoingOn

LEMMA ServedFailing ==
  ASSUME ServedInv, Typing', NEW w \in Worker,
         \/ Refused(w) \/ AnswerFailed(w) \/ Exhausted(w) \/ Garbled(w) \/ Malformed(w)
  PROVE  ServedInv'
<1>1. Failing(w)
  BY DEF Refused, AnswerFailed, Exhausted, Garbled, Malformed
<1>2. work[w] \in Row /\ served[w] \in SUBSET Calls
  BY DEF ServedInv, Typing
<1>3. work' = [work EXCEPT ![w] = Raised(work[w])] /\ served' = [served EXCEPT ![w] = served[w]]
  BY <1>1 DEF Failing, ServedInv
<1> QED
  BY <1>2, <1>3, RaisedTyped, ServedRaised, ServedGoingOn

\* An answer that is read belongs to a call that was carried out, unless it is
\* one that says what was skipped.
LEMMA ServedReads ==
  ASSUME ServedInv, Typing', NEW w \in Worker, NEW cost, NEW end, Reads(w, cost, end),
         NEW calls \in SUBSET Calls, served' = [served EXCEPT ![w] = calls],
         served[w] \subseteq calls, ~Skipped(w, end) => work[w].call \in calls,
         work[w].pc = "sent"
  PROVE  ServedInv'
<1>1. work[w] \in Row /\ ServedOf(work[w], served[w])
  BY DEF ServedInv, Typing
<1>2. ServedOf(work[w], calls) /\ work[w].outcome = "none"
  BY <1>1 DEF ServedOf
<1>3. CASE Skipped(w, end)
  BY <1>1, <1>3, RaisedTyped, ServedRaised, ServedGoingOn DEF Reads
<1>4. CASE ~Skipped(w, end)
  <2>1. PICK listings \in {"set", "empty"}, enough \in BOOLEAN :
          work' = [work EXCEPT ![w] = Following(work[w], listings, enough)]
    BY <1>4 DEF Reads
  <2>2. ServedOf(Following(work[w], listings, enough), calls)
    BY <1>1, <1>2, <1>4, ServedFollowing
  <2> QED
    BY <1>1, <2>1, <2>2, FollowingTyped, ServedGoingOn
<1> QED
  BY <1>3, <1>4

LEMMA ServedAnswered ==
  ASSUME ServedInv, Typing', NEW w \in Worker, AnswerAtOnce(w) \/ AnswerDone(w)
  PROVE  ServedInv'
<1>1. work[w] \in Row /\ served[w] \in SUBSET Calls /\ ServedOf(work[w], served[w])
  BY DEF ServedInv, Typing
<1>2. work[w].pc = "sent" /\ work[w].call \in Calls /\ work[w].kind \in Kinds
  BY <1>1 DEF AnswerAtOnce, AnswerDone, Creating, AwaitsJob, InFlight, Row
<1>3. CASE AnswerAtOnce(w)
  <2>1. PICK c \in Price, end \in {"done", "partial"} :
          /\ Reads(w, c, end)
          /\ served' = [served EXCEPT ![w] = @ \cup Carried(w, end)]
    BY <1>3 DEF AnswerAtOnce
  <2> DEFINE calls == served[w] \cup Carried(w, end)
  <2>2. calls \in SUBSET Calls /\ served[w] \subseteq calls
    BY <1>1, <1>2 DEF Carried
  <2>3. ~Skipped(w, end) => work[w].call \in calls
    BY <1>2 DEF Carried, Skipped, Kinds
  <2> HIDE DEF calls
  <2>4. served' = [served EXCEPT ![w] = calls]
    BY <2>1 DEF calls
  <2> QED
    BY <1>2, <2>1, <2>2, <2>3, <2>4, ServedReads
<1>4. CASE AnswerDone(w)
  <2>1. Reads(w, work[w].owed, work[w].job) /\ served' = [served EXCEPT ![w] = served[w]]
    BY <1>4 DEF AnswerDone, ServedInv
  <2>2. ~Skipped(w, work[w].job) => work[w].call \in served[w]
    BY <1>1, <1>2, <1>4 DEF AnswerDone, Skipped, ServedOf, Kinds
  <2> QED
    BY <1>1, <1>2, <2>1, <2>2, ServedReads
<1> QED
  BY <1>3, <1>4

LEMMA ServedJobEnds ==
  ASSUME ServedInv, Typing', NEW w \in Worker, JobEnds(w)
  PROVE  ServedInv'
<1>1. work[w] \in Row /\ served[w] \in SUBSET Calls /\ ServedOf(work[w], served[w])
  BY DEF ServedInv, Typing
<1>2. PICK end \in {"done", "partial", "failed"}, free \in BOOLEAN :
        /\ work' = [work EXCEPT ![w].job = end, ![w].owed = IF free THEN 0 ELSE @]
        /\ served' = [served EXCEPT ![w] = @ \cup Carried(w, end)]
  BY DEF JobEnds
<1> DEFINE row == [work[w] EXCEPT !.job = end, !.owed = IF free THEN 0 ELSE @]
           calls == served[w] \cup Carried(w, end)
<1>3. /\ row \in Row /\ row.pc = work[w].pc /\ row.outcome = work[w].outcome
      /\ row.call = work[w].call /\ row.kind = work[w].kind /\ row.job = end
  BY <1>1 DEF Row
<1>4. work' = [work EXCEPT ![w] = row] /\ served' = [served EXCEPT ![w] = calls]
  BY <1>2 DEF ServedInv, Typing
<1>5. calls \in SUBSET Calls
  BY <1>1 DEF Carried, Row
<1>6. ServedOf(row, calls)
  BY <1>1, <1>3 DEF ServedOf, Carried
<1> QED
  BY <1>3, <1>4, <1>5, <1>6, ServedGoingOn

LEMMA ServedStep == ServedInv /\ PaceInv /\ [Next]_vars => ServedInv'
<1> SUFFICES ASSUME ServedInv, PaceInv, [Next]_vars PROVE ServedInv'
  OBVIOUS
<1>1. Typing'
  BY PaceStep DEF PaceInv
<1>2. CASE Expire \/ UNCHANGED vars
  BY <1>1, <1>2 DEF Expire, vars, ServedInv
<1>3. CASE Tick
  <2>1. \A w \in Worker :
          /\ work'[w].outcome = work[w].outcome /\ work'[w].call = work[w].call
          /\ work'[w].kind = work[w].kind /\ work'[w].job = work[w].job
          /\ work'[w].pc = work[w].pc /\ served'[w] = served[w]
    BY <1>3 DEF Tick, ServedInv, Typing, Row
  <2>2. UNCHANGED served
    BY <1>3 DEF Tick
  <2> QED
    BY <1>1, <2>1, <2>2 DEF ServedInv, ServedOf
<1>4. ASSUME NEW w \in Worker, Step(w) PROVE ServedInv'
  BY <1>1, <1>4, ServedPacing, ServedBegin, ServedFailing, ServedPolls, ServedAnswered
  DEF Step, Answer
<1>5. ASSUME NEW w \in Worker,
             \/ Seed(w) \/ SeedRetry(w) \/ EndIteration(w) \/ Refuse(w) \/ JobEnds(w)
             \/ \E kind \in Kinds : Collect(w, kind)
      PROVE ServedInv'
  BY <1>1, <1>5, ServedBegin, ServedCollect, ServedJobEnds
<1> QED
  BY <1>2, <1>3, <1>4, <1>5 DEF Next

LEMMA ServedInit == Init => ServedInv
<1> SUFFICES ASSUME Init PROVE ServedInv
  OBVIOUS
<1>1. Typing /\ \A w \in Worker : work[w] = NoWork
  BY PaceInit DEF PaceInv, Init
<1>2. \A w \in Worker : ServedOf(work[w], served[w])
  BY <1>1, ServedStart DEF NoWork
<1> QED
  BY <1>1, <1>2 DEF Init, ServedInv

\* A query is complete only if the vendor carried out its two windows, whatever
\* was repeated, answered late or given up, for any number of threads, retries
\* and polls (staying.py 167-217).
THEOREM CompleteWasServed == Spec => []CompleteIsServed
<1>1. ServedInv => CompleteIsServed
  BY DEF ServedInv, ServedOf, CompleteIsServed
<1> QED
  BY <1>1, PaceInit, PaceStep, ServedInit, ServedStep, PTL DEF Spec

-----------------------------------------------------------------------------
(* The ledger.                                                             *)

OwedOf == [w \in Worker |-> work[w].owed]
Owed == Sum(OwedOf)

\* Only a job is owed for, and a thread that has done with a call has done with
\* its job; a search is not sent before the month's limit allowed one.
LedgerRow(row) ==
  /\ row.attempt <= MaxRetries + 1 /\ row.left <= PollMax /\ row.balance \in Nat
  /\ row.job = "none" => row.owed = 0
  /\ row.pc \in {"idle", "ready", "balance"} => row.job = "none"
  /\ row.job # "none" => row.call # "account"
  /\ row.pc = "backoff" => row.attempt <= MaxRetries
  /\ row.call # "account" => Monthly > 0

Caches == {"none", "empty", "set"}
Money == [limit : 0..Monthly, used : Nat]

LedgerInv ==
  /\ cache \in Caches /\ money \in Money
  /\ vendor \in [credits : 0..Credits, unread : Nat]
  /\ booked \in [Worker -> Nat]
  /\ \A w \in Worker : LedgerRow(work[w])
  /\ Owed <= Charged /\ LedgerCovers
  /\ OvershootInFlight

LEMMA SumMoves ==
  ASSUME NEW f \in [Worker -> Int], NEW g \in [Worker -> Int], NEW w \in Worker,
         \A v \in Worker : v # w => g[v] = f[v]
  PROVE  Sum(f) \in Int /\ Sum(g) \in Int /\ Sum(g) = Sum(f) + g[w] - f[w]
<1>1. IsFiniteSet(Worker)
  BY WorkerAssumption
<1>2. FoldFunction(+, 0, f) \in Int /\ FoldFunction(+, 0, g) \in Int
  BY <1>1, SumIsInt
<1>3. FoldFunction(+, 0, g) = FoldFunction(+, 0, f) + g[w] - f[w]
  BY <1>1, SumChanges, ZenonT(40)
<1> QED
  BY <1>2, <1>3 DEF Sum

LEMMA SumOfNats == ASSUME NEW f \in [Worker -> Nat] PROVE Sum(f) \in Nat
<1>1. IsFiniteSet(Worker)
  BY WorkerAssumption
<1>2. FoldFunction(+, 0, f) \in Nat
  BY <1>1, SumIsNat
<1> QED
  BY <1>2 DEF Sum

LEMMA SumOfZeros == ASSUME NEW f \in [Worker -> {0}] PROVE Sum(f) = 0
<1>1. IsFiniteSet(Worker)
  BY WorkerAssumption
<1>2. FoldFunction(+, 0, f) = 0
  BY <1>1, SumIsZero
<1> QED
  BY <1>2 DEF Sum

LEMMA OwedTyped == ASSUME Typing PROVE OwedOf \in [Worker -> Nat] /\ Owed \in Nat
<1>1. OwedOf \in [Worker -> Nat]
  BY DEF OwedOf, Typing, Row
<1> QED
  BY <1>1, SumOfNats DEF Owed

LEMMA OwedMoves ==
  ASSUME Typing, NEW w \in Worker, NEW row \in Row, work' = [work EXCEPT ![w] = row]
  PROVE  Owed' = Owed + row.owed - work[w].owed /\ Owed' \in Nat
<1> DEFINE f == OwedOf
           g == [v \in Worker |-> work'[v].owed]
<1>1. f \in [Worker -> Int] /\ g \in [Worker -> Nat] /\ g \in [Worker -> Int]
  BY DEF OwedOf, Typing, Row
<1>2. \A v \in Worker : v # w => g[v] = f[v]
  BY DEF OwedOf, Typing
<1>3. f[w] = work[w].owed /\ g[w] = row.owed
  BY DEF OwedOf, Typing
<1>4. Owed' = Sum(g) /\ Owed = Sum(f)
  BY DEF Owed, OwedOf
<1> HIDE DEF f, g
<1>5. Sum(g) = Sum(f) + g[w] - f[w] /\ Sum(g) \in Nat
  BY <1>1, <1>2, SumMoves, SumOfNats
<1> QED
  BY <1>3, <1>4, <1>5

\* The step of a thread: u units are booked, the vendor charges c, of which n
\* are for an answer that no one reads.
Moves(w, row, u, c, n) ==
  /\ work' = [work EXCEPT ![w] = row]
  /\ cache' \in Caches
  /\ money' \in Money /\ money'.used = money.used + u
  /\ booked' = [booked EXCEPT ![w] = booked[w] + u]
  /\ vendor'.credits = vendor.credits - c /\ vendor'.unread = vendor.unread + n

LEMMA LedgerMoves ==
  ASSUME LedgerInv, Typing, Typing', NEW w \in Worker, NEW row \in Row, LedgerRow(row),
         NEW u \in Nat, NEW c \in Int, NEW n \in Nat, Moves(w, row, u, c, n),
         u > 0 => Monthly > 0, c <= vendor.credits,
         row.owed - work[w].owed <= c, c <= u + n + row.owed - work[w].owed
  PROVE  LedgerInv'
<1>1. /\ vendor.credits \in 0..Credits /\ vendor.unread \in Nat
      /\ money.used \in Nat /\ row.owed \in Nat /\ work[w].owed \in Nat
      /\ Credits \in Nat /\ Monthly \in Nat
  BY MoneyAssumption DEF LedgerInv, Money, Row, Typing
<1>2. Owed \in Nat /\ Owed' \in Nat
  BY OwedTyped, OwedMoves DEF Moves
<1>3. Owed' = Owed + row.owed - work[w].owed
  BY OwedMoves DEF Moves
<1>4. Charged = Credits - vendor.credits /\ Charged' = Credits - vendor.credits + c
  BY <1>1 DEF Charged, Moves
<1>5. Owed <= Charged /\ Charged <= money.used + vendor.unread + Owed
  BY DEF LedgerInv, LedgerCovers, Owed, OwedOf
<1>6. Owed' <= Charged' /\ Charged' <= money'.used + vendor'.unread + Owed'
  BY <1>1, <1>2, <1>3, <1>4, <1>5 DEF Moves
<1>7. LedgerCovers'
  BY <1>6 DEF LedgerCovers, Owed, OwedOf
<1>8. vendor' \in [credits : 0..Credits, unread : Nat]
  <2>1. vendor' \in Books
    BY DEF Typing
  <2>2. vendor'.credits \in 0..Credits /\ vendor'.unread \in Nat
    BY <1>1, <1>2, <1>4, <1>6 DEF Moves
  <2> QED
    BY <2>1, <2>2 DEF Books
<1>9. booked' \in [Worker -> Nat]
  BY DEF LedgerInv, Moves
<1>10. OvershootInFlight'
  <2>1. booked \in [Worker -> Int] /\ booked' \in [Worker -> Int]
        /\ booked'[w] = booked[w] + u
        /\ booked[w] \in Int /\ \A v \in Worker : v # w => booked'[v] = booked[v]
    BY DEF LedgerInv, Moves
  <2>2. Sum(booked') = Sum(booked) + u /\ Sum(booked) \in Int
    BY <2>1, SumMoves
  <2>3. Sum(booked) \in Nat
    BY SumOfNats DEF LedgerInv
  <2>4. money.used < Monthly + Sum(booked) \/ money.used = 0
    BY DEF LedgerInv, OvershootInFlight
  <2>5. money'.used = money.used + u
    BY DEF Moves
  <2>6. money'.used < Monthly + Sum(booked') \/ money'.used = 0
    BY <1>1, <2>2, <2>3, <2>4, <2>5
  <2> QED
    BY <2>6 DEF OvershootInFlight
<1>11. \A v \in Worker : LedgerRow(work'[v])
  BY DEF LedgerInv, Typing, Moves
<1>12. cache' \in Caches /\ money' \in Money
  BY DEF Moves
<1> QED
  BY <1>6, <1>7, <1>8, <1>9, <1>10, <1>11, <1>12 DEF LedgerInv, LedgerRow

\* A step that books nothing and is charged nothing.
LEMMA LedgerStill ==
  ASSUME LedgerInv, Typing, Typing', NEW w \in Worker, NEW row \in Row, LedgerRow(row),
         work' = [work EXCEPT ![w] = row], row.owed = work[w].owed,
         money' \in Money, money'.used = money.used, UNCHANGED <<cache, vendor, booked>>
  PROVE  LedgerInv'
<1>1. /\ vendor.credits \in 0..Credits /\ vendor.unread \in Nat
      /\ money.used \in Nat /\ work[w].owed \in Nat /\ booked[w] \in Nat
      /\ cache \in Caches /\ booked \in [Worker -> Nat] /\ Credits \in Nat
  BY MoneyAssumption DEF LedgerInv, Money, Row, Typing
<1>2. Moves(w, row, 0, 0, 0)
  BY <1>1 DEF Moves
<1> QED
  BY <1>1, <1>2, LedgerMoves

-----------------------------------------------------------------------------
(* What the states a thread may go to owe.                                 *)

LEMMA NaturalLimits == MaxRetries \in Nat /\ PollMax \in Nat /\ Monthly \in Nat
BY TimesAssumption, MoneyAssumption

LEMMA LedgerNoWork == LedgerRow(NoWork) /\ NoWork.owed = 0
BY NaturalLimits DEF LedgerRow, NoWork

LEMMA LedgerEnded ==
  ASSUME NEW row, NEW outcome
  PROVE  LedgerRow(Ended(row, outcome)) /\ Ended(row, outcome).owed = 0
BY NaturalLimits DEF LedgerRow, Ended, NoWork

LEMMA LedgerRaised ==
  ASSUME NEW row PROVE LedgerRow(Raised(row)) /\ Raised(row).owed = 0
BY LedgerEnded DEF Raised

LEMMA LedgerRequesting ==
  ASSUME NEW row \in Row, LedgerRow(row), NEW n \in Nat, n <= MaxRetries + 1
  PROVE  LedgerRow(Requesting(row, n)) /\ Requesting(row, n).owed = row.owed
<1> DEFINE next == [row EXCEPT !.pc = "pacing", !.at = 1, !.attempt = n]
<1>1. /\ next.attempt = n /\ next.pc = "pacing" /\ next.left = row.left
      /\ next.balance = row.balance /\ next.job = row.job /\ next.owed = row.owed
      /\ next.call = row.call
  BY DEF Row
<1> HIDE DEF next
<1>2. LedgerRow(next)
  BY <1>1 DEF LedgerRow
<1> QED
  BY <1>1, <1>2 DEF Requesting, next

LEMMA LedgerCalling ==
  ASSUME NEW row \in Row, LedgerRow(row), NEW call \in Calls,
         call # "account" => Monthly > 0
  PROVE  LedgerRow(Calling(row, call)) /\ Calling(row, call).owed = 0
<1> DEFINE base == [row EXCEPT !.call = call, !.job = "none", !.owed = 0]
<1>1. base \in Row
  BY DEF Row
<1>2. /\ base.attempt = row.attempt /\ base.pc = row.pc /\ base.left = row.left
      /\ base.balance = row.balance /\ base.job = "none" /\ base.owed = 0
      /\ base.call = call
  BY DEF Row
<1> HIDE DEF base
<1>3. LedgerRow(base)
  BY <1>2 DEF LedgerRow
<1>4. LedgerRow(Requesting(base, 1)) /\ Requesting(base, 1).owed = 0
  BY <1>1, <1>2, <1>3, NaturalLimits, LedgerRequesting
<1> QED
  BY <1>4 DEF Calling, base

LEMMA LedgerPolls ==
  ASSUME NEW row \in Row, LedgerRow(row), NEW i \in Intervals
  PROVE  /\ LedgerRow(Polls(row, i))
         /\ Polls(row, i).owed = IF i > row.left THEN 0 ELSE row.owed
<1>1. CASE i > row.left
  BY <1>1, LedgerRaised DEF Polls
<1>2. CASE ~(i > row.left)
  <2> DEFINE next == [row EXCEPT !.pc = "polling", !.timer = i]
  <2>1. /\ next.attempt = row.attempt /\ next.pc = "polling" /\ next.left = row.left
        /\ next.balance = row.balance /\ next.job = row.job /\ next.owed = row.owed
        /\ next.call = row.call
    BY DEF Row
  <2> HIDE DEF next
  <2>2. LedgerRow(next)
    BY <2>1 DEF LedgerRow
  <2> QED
    BY <1>2, <2>1, <2>2 DEF Polls, next
<1> QED
  BY <1>1, <1>2

LEMMA LedgerFollowing ==
  ASSUME NEW row \in Row, LedgerRow(row), row.call # "account", NEW listings,
         NEW enough \in BOOLEAN
  PROVE  /\ LedgerRow(Following(row, listings, enough))
         /\ Following(row, listings, enough).owed = 0
<1>1. \A outcome : LedgerRow(Ended(row, outcome)) /\ Ended(row, outcome).owed = 0
  BY LedgerEnded
<1>2. \A call \in Calls : LedgerRow(Calling(row, call)) /\ Calling(row, call).owed = 0
  BY LedgerCalling DEF LedgerRow
<1> DEFINE result == Following(row, listings, enough)
<1>3. \/ \E outcome : result = Ended(row, outcome)
      \/ \E call \in {"near", "base", "base2"} : result = Calling(row, call)
  BY DEF Following
<1>4. {"near", "base", "base2"} \subseteq Calls
  BY DEF Calls
<1> HIDE DEF result
<1>5. LedgerRow(result) /\ result.owed = 0
  BY <1>1, <1>2, <1>3, <1>4
<1> QED
  BY <1>5 DEF result

-----------------------------------------------------------------------------
(* Every action keeps the ledger.                                          *)

LEMMA ReconcileLimit ==
  ASSUME LedgerInv, Typing, NEW w \in Worker, Reconcile(w)
  PROVE  money' \in Money /\ money'.used = money.used
<1>1. /\ work[w].balance \in Nat /\ money.limit \in 0..Monthly /\ money.used \in Nat
      /\ Monthly \in Nat /\ money \in Money
  BY MoneyAssumption DEF LedgerInv, LedgerRow, Money
<1>2. CASE work[w].balance < Remaining
  <2> DEFINE limit == money.used + work[w].balance
  <2>1. limit \in 0..Monthly
    BY <1>1, <1>2 DEF Remaining, Most
  <2>2. money' = [money EXCEPT !.limit = limit]
    BY <1>2 DEF Reconcile
  <2> HIDE DEF limit
  <2> QED
    BY <1>1, <2>1, <2>2 DEF Money
<1>3. CASE ~(work[w].balance < Remaining)
  BY <1>1, <1>3 DEF Reconcile
<1> QED
  BY <1>2, <1>3

LEMMA LedgerBegin ==
  ASSUME LedgerInv, Typing, Typing', NEW w \in Worker,
         \/ Seed(w) \/ SeedRetry(w) \/ Reconcile(w) \/ EndIteration(w) \/ Refuse(w)
  PROVE  LedgerInv'
<1>1. /\ work \in [Worker -> Row] /\ work[w] \in Row /\ money \in Money
      /\ Monthly \in Nat /\ LedgerRow(work[w])
  BY MoneyAssumption DEF LedgerInv, Typing
<1>2. work[w].owed = 0
  <2>1. work[w].pc \in {"idle", "ready", "balance"}
    BY DEF Seed, SeedRetry, Reconcile, EndIteration, Refuse
  <2> QED
    BY <1>1, <2>1 DEF LedgerRow
<1>3. UNCHANGED <<cache, vendor, booked>>
  BY DEF Seed, SeedRetry, Reconcile, EndIteration, Refuse
<1>4. money' \in Money /\ money'.used = money.used
  <2>1. CASE Seed(w) \/ SeedRetry(w)
    BY <1>1, <2>1 DEF Seed, SeedRetry, Money
  <2>2. CASE Reconcile(w)
    BY <2>2, ReconcileLimit
  <2>3. CASE EndIteration(w) \/ Refuse(w)
    BY <1>1, <2>3 DEF EndIteration, Refuse
  <2> QED
    BY <2>1, <2>2, <2>3
<1>5. \E row \in Row : LedgerRow(row) /\ row.owed = 0 /\ work' = [work EXCEPT ![w] = row]
  <2>1. CASE Seed(w)
    <3>1. "account" \in Calls /\ NoWork \in Row
      BY NoWorkTyped DEF Calls
    <3>2. Calling(NoWork, "account") \in Row /\ LedgerRow(Calling(NoWork, "account"))
          /\ Calling(NoWork, "account").owed = 0
      BY <3>1, CallingTyped, LedgerNoWork, LedgerCalling
    <3> QED
      BY <2>1, <3>2 DEF Seed
  <2>2. CASE SeedRetry(w) \/ Reconcile(w) \/ Refuse(w)
    BY <2>2, EndedTyped, LedgerEnded DEF SeedRetry, Reconcile, Refuse, Outcomes
  <2>3. CASE EndIteration(w)
    BY <2>3, NoWorkTyped, LedgerNoWork DEF EndIteration
  <2> QED
    BY <2>1, <2>2, <2>3
<1> QED
  BY <1>2, <1>3, <1>4, <1>5, LedgerStill

\* A query is admitted below the month's limit, and its account starts anew.
LEMMA LedgerCollect ==
  ASSUME LedgerInv, Typing, Typing', NEW w \in Worker, NEW kind \in Kinds, Collect(w, kind)
  PROVE  LedgerInv'
<1>1. /\ work \in [Worker -> Row] /\ work[w] \in Row /\ money \in Money
      /\ Monthly \in Nat /\ LedgerRow(work[w]) /\ booked \in [Worker -> Nat]
  BY MoneyAssumption DEF LedgerInv, Typing
<1>2. work[w].owed = 0
  BY <1>1 DEF Collect, LedgerRow
<1>3. UNCHANGED <<cache, money, vendor>> /\ booked' = [booked EXCEPT ![w] = 0]
  BY DEF Collect
<1>4. money.used < Monthly /\ Monthly > 0
  BY <1>1 DEF Collect, CanAfford, Money
<1>5. PICK row \in Row : LedgerRow(row) /\ row.owed = 0 /\ work' = [work EXCEPT ![w] = row]
  <2>1. CASE NothingToAsk(kind)
    BY <2>1, EndedTyped, LedgerEnded DEF Collect, Outcomes
  <2>2. CASE ~NothingToAsk(kind)
    <3> DEFINE fresh == [NoWork EXCEPT !.kind = kind]
    <3>1. fresh \in Row /\ LedgerRow(fresh)
      BY NoWorkTyped, NaturalLimits DEF Row, NoWork, LedgerRow
    <3>2. FirstCall(kind) \in Calls
      BY DEF Calls, FirstCall
    <3>3. work' = [work EXCEPT ![w] = Calling(fresh, FirstCall(kind))]
      BY <2>2 DEF Collect
    <3> QED
      BY <1>4, <3>1, <3>2, <3>3, CallingTyped, LedgerCalling
  <2> QED
    BY <2>1, <2>2
<1>6. Owed' = Owed
  <2>1. Owed' = Owed + row.owed - work[w].owed /\ Owed \in Nat
    BY <1>5, OwedMoves, OwedTyped
  <2> QED
    BY <1>2, <1>5, <2>1
<1>7. LedgerCovers' /\ (Owed <= Charged)'
  BY <1>3, <1>6 DEF LedgerInv, LedgerCovers, Owed, OwedOf, Charged
<1>8. booked' \in [Worker -> Nat]
  BY <1>1, <1>3
<1>9. OvershootInFlight'
  <2>1. Sum(booked') \in Nat
    BY <1>8, SumOfNats
  <2>2. money.used \in Nat
    BY <1>1 DEF Money
  <2>3. money'.used < Monthly + Sum(booked')
    BY <1>1, <1>3, <1>4, <2>1, <2>2
  <2> QED
    BY <2>3 DEF OvershootInFlight
<1>10. \A v \in Worker : LedgerRow(work'[v])
  BY <1>1, <1>5 DEF LedgerInv
<1> QED
  BY <1>3, <1>7, <1>8, <1>9, <1>10 DEF LedgerInv, LedgerRow

LEMMA LedgerPacing ==
  ASSUME LedgerInv, Typing, Typing', NEW w \in Worker,
         (\E b \in Bucket : Acquire(w, b) \/ Wake(w, b)) \/ Proceed(w)
  PROVE  LedgerInv'
<1>1. /\ work \in [Worker -> Row] /\ work[w] \in Row /\ money \in Money
      /\ LedgerRow(work[w])
  BY DEF LedgerInv, Typing
<1>2. UNCHANGED <<cache, money, vendor, booked>>
  BY DEF Acquire, Wake, Proceed
<1> DEFINE Same(row) == /\ row.attempt = work[w].attempt /\ row.left = work[w].left
                        /\ row.balance = work[w].balance /\ row.job = work[w].job
                        /\ row.owed = work[w].owed /\ row.call = work[w].call
                        /\ row.pc \in {"pacing", "sent", "asleep"}
           GoesOn == \E row : /\ LedgerRow(row) /\ row.owed = work[w].owed
                              /\ work' = [work EXCEPT ![w] = row]
<1>3. ASSUME NEW row, Same(row) PROVE LedgerRow(row) /\ row.owed = work[w].owed
  BY <1>1, <1>3 DEF LedgerRow
<1>4. ASSUME NEW b \in Bucket PROVE Same(Paces(w, b))
  BY <1>1 DEF Paces, Row
<1>5. ASSUME NEW b \in Bucket, Wake(w, b) PROVE GoesOn
  <2>1. LedgerRow(Paces(w, b)) /\ Paces(w, b).owed = work[w].owed
    BY <1>3, <1>4
  <2>2. work' = [work EXCEPT ![w] = Paces(w, b)]
    BY <1>5 DEF Wake
  <2> QED
    BY <2>1, <2>2
<1>6. ASSUME NEW b \in Bucket, Acquire(w, b) PROVE GoesOn
  <2>1. CASE work' = [work EXCEPT ![w] = Paces(w, b)]
    <3>1. LedgerRow(Paces(w, b)) /\ Paces(w, b).owed = work[w].owed
      BY <1>3, <1>4
    <3> QED
      BY <2>1, <3>1
  <2> DEFINE row == [work[w] EXCEPT !.pc = "asleep", !.timer = Gap(b) - Refilled(b)]
  <2>2. CASE work' = [work EXCEPT ![w] = row]
    <3>1. Same(row)
      BY <1>1 DEF Row
    <3>2. LedgerRow(row) /\ row.owed = work[w].owed
      BY <1>3, <3>1
    <3> QED
      BY <2>2, <3>2
  <2> HIDE DEF GoesOn
  <2> QED
    BY <1>1, <1>6, <2>1, <2>2, ZenonT(60) DEF Acquire
<1>7. ASSUME Proceed(w) PROVE GoesOn
  <2> DEFINE n == IF work[w].pc = "backoff" THEN work[w].attempt + 1 ELSE 1
  <2>1. n \in Nat /\ n <= MaxRetries + 1
    BY <1>1, NaturalLimits DEF Row, LedgerRow
  <2> HIDE DEF n
  <2>2. LedgerRow(Requesting(work[w], n)) /\ Requesting(work[w], n).owed = work[w].owed
    BY <1>1, <2>1, LedgerRequesting
  <2>3. work' = [work EXCEPT ![w] = Requesting(work[w], n)]
    BY <1>7 DEF Proceed, n
  <2> QED
    BY <2>2, <2>3
<1>8. GoesOn
  <2> HIDE DEF GoesOn
  <2> QED
    BY <1>5, <1>6, <1>7
<1>9. PICK row : LedgerRow(row) /\ row.owed = work[w].owed /\ work' = [work EXCEPT ![w] = row]
  BY <1>8
<1>10. row \in Row
  <2>1. row = work'[w] /\ work' \in [Worker -> Row]
    BY <1>1, <1>9 DEF Typing
  <2> QED
    BY <2>1
<1>11. money' \in Money /\ money'.used = money.used
  BY <1>1, <1>2
<1> QED
  BY <1>2, <1>9, <1>10, <1>11, LedgerStill

LEMMA BookMoves ==
  ASSUME LedgerInv, NEW w \in Worker, NEW u \in Nat, Book(w, u)
  PROVE  /\ money' \in Money /\ money'.used = money.used + u
         /\ booked' = [booked EXCEPT ![w] = booked[w] + u]
<1>1. money \in Money /\ booked \in [Worker -> Nat]
  BY DEF LedgerInv
<1> QED
  BY <1>1 DEF Book, Money

LEMMA ChargesPaid ==
  ASSUME LedgerInv, NEW w \in Worker
  PROVE  /\ \A c \in Price : c \in Nat /\ c <= vendor.credits
         /\ \A c \in LostCharge(w) : c \in Nat /\ c <= vendor.credits
<1>1. vendor.credits \in Nat
  BY MoneyAssumption DEF LedgerInv
<1>2. \A c \in Price : c \in Nat /\ c <= vendor.credits
  BY PricesTyped DEF Price
<1> QED
  BY <1>1, <1>2 DEF LostCharge

\* An answer that ends the query in an error: what it cost is in the ledger, or
\* no one read it.
LEMMA LedgerFailing ==
  ASSUME LedgerInv, Typing, Typing', NEW w \in Worker, Failing(w),
         NEW u \in {0, 1}, u > 0 => Monthly > 0,
         (UNCHANGED <<money, booked>> /\ u = 0) \/ Book(w, u),
         NEW c \in Nat, c <= vendor.credits, Unread(w, c)
  PROVE  LedgerInv'
<1>1. /\ work \in [Worker -> Row] /\ work[w] \in Row /\ money \in Money
      /\ booked \in [Worker -> Nat] /\ cache \in Caches
      /\ vendor \in [credits : 0..Credits, unread : Nat] /\ u \in Nat
  BY DEF LedgerInv, Typing
<1>2. work[w].owed \in Nat /\ vendor.credits \in Int /\ vendor.unread \in Nat
  BY <1>1, MoneyAssumption DEF Row
<1>3. /\ vendor'.credits = vendor.credits - c
      /\ vendor'.unread = vendor.unread + (c + work[w].owed)
  BY <1>1, <1>2 DEF Unread
<1>4. /\ money' \in Money /\ money'.used = money.used + u
      /\ booked' = [booked EXCEPT ![w] = booked[w] + u]
  <2>1. CASE Book(w, u)
    BY <1>1, <2>1, BookMoves
  <2>2. CASE UNCHANGED <<money, booked>> /\ u = 0
    <3>1. booked[w] + u = booked[w] /\ money.used + u = money.used
      BY <1>1, <2>2 DEF Money
    <3> QED
      BY <1>1, <2>2, <3>1
  <2> QED
    BY <2>1, <2>2
<1>5. Raised(work[w]) \in Row /\ LedgerRow(Raised(work[w])) /\ Raised(work[w]).owed = 0
  BY <1>1, RaisedTyped, LedgerRaised
<1>6. Moves(w, Raised(work[w]), u, c, c + work[w].owed)
  BY <1>1, <1>3, <1>4 DEF Failing, Moves
<1> QED
  BY <1>1, <1>2, <1>5, <1>6, LedgerMoves

LEMMA FlatUnitsTyped ==
  ASSUME LedgerInv, NEW w \in Worker
  PROVE  /\ FlatUnits(work[w].call) \in {0, 1}
         /\ FlatUnits(work[w].call) > 0 => Monthly > 0
BY DEF FlatUnits, LedgerInv, LedgerRow

LEMMA LedgerFails ==
  ASSUME LedgerInv, Typing, Typing', NEW w \in Worker,
         \/ Refused(w) \/ AnswerFailed(w) \/ Exhausted(w) \/ Garbled(w) \/ Malformed(w)
  PROVE  LedgerInv'
<1>1. Failing(w)
  BY DEF Refused, AnswerFailed, Exhausted, Garbled, Malformed
<1>2. PICK c : c \in Nat /\ c <= vendor.credits /\ Unread(w, c)
  <2>1. 0 \in Nat /\ 0 <= vendor.credits
    BY MoneyAssumption DEF LedgerInv
  <2>2. CASE Refused(w) \/ AnswerFailed(w)
    BY <2>1, <2>2 DEF Refused, AnswerFailed
  <2>3. CASE Exhausted(w) \/ Garbled(w) \/ Malformed(w)
    BY <2>3, ChargesPaid DEF Exhausted, Garbled, Malformed
  <2> QED
    BY <2>2, <2>3
<1>3. CASE Garbled(w)
  <2>1. UNCHANGED <<money, booked>> /\ 0 \in {0, 1} /\ ~(0 > 0)
    BY <1>3 DEF Garbled
  <2> QED
    BY <1>1, <1>2, <2>1, LedgerFailing
<1>4. CASE ~Garbled(w)
  <2>1. Book(w, FlatUnits(work[w].call))
    BY <1>4 DEF Refused, AnswerFailed, Exhausted, Malformed
  <2> QED
    BY <1>1, <1>2, <2>1, FlatUnitsTyped, LedgerFailing
<1> QED
  BY <1>3, <1>4

LEMMA LedgerRepeated ==
  ASSUME LedgerInv, Typing, Typing', NEW w \in Worker, Repeated(w)
  PROVE  LedgerInv'
<1>1. /\ work \in [Worker -> Row] /\ work[w] \in Row /\ LedgerRow(work[w])
      /\ vendor \in [credits : 0..Credits, unread : Nat] /\ cache \in Caches
  BY DEF LedgerInv, Typing
<1> DEFINE u == FlatUnits(work[w].call)
           row == [work[w] EXCEPT !.pc = "backoff", !.timer = work[w].attempt]
<1>2. u \in Nat /\ (u = 0 \/ u = 1) /\ (u > 0 => Monthly > 0)
  BY FlatUnitsTyped
<1>3. /\ money' \in Money /\ money'.used = money.used + u
      /\ booked' = [booked EXCEPT ![w] = booked[w] + u]
  BY <1>2, BookMoves DEF Repeated
<1>4. /\ row \in Row /\ row.attempt = work[w].attempt /\ row.left = work[w].left
      /\ row.balance = work[w].balance /\ row.job = work[w].job /\ row.pc = "backoff"
      /\ row.owed = work[w].owed /\ row.call = work[w].call
  BY <1>1 DEF Row, Pcs
<1>5. work' = [work EXCEPT ![w] = row] /\ work[w].attempt <= MaxRetries /\ UNCHANGED cache
  BY <1>1 DEF Repeated
<1>6. PICK c : /\ c \in Nat /\ c <= vendor.credits
               /\ vendor' = [vendor EXCEPT !.credits = @ - c, !.unread = @ + c]
  BY ChargesPaid DEF Repeated
<1>7. vendor'.credits = vendor.credits - c /\ vendor'.unread = vendor.unread + c
  BY <1>1, <1>6
<1> HIDE DEF u, row
<1>8. LedgerRow(row)
  BY <1>1, <1>4, <1>5 DEF LedgerRow
<1>9. Moves(w, row, u, c, c)
  BY <1>1, <1>3, <1>5, <1>7 DEF Moves
<1>10. /\ row.owed - work[w].owed <= c /\ c <= u + c + row.owed - work[w].owed
  BY <1>1, <1>2, <1>4, <1>6 DEF Row
<1> QED
  BY <1>2, <1>4, <1>6, <1>8, <1>9, <1>10, LedgerMoves

LEMMA LedgerAccount ==
  ASSUME LedgerInv, Typing, Typing', NEW w \in Worker, AnswerAccount(w)
  PROVE  LedgerInv'
<1>1. /\ work \in [Worker -> Row] /\ work[w] \in Row /\ LedgerRow(work[w])
      /\ vendor.credits \in Nat /\ booked \in [Worker -> Nat] /\ money \in Money
  BY MoneyAssumption DEF LedgerInv, Typing
<1>2. work[w].call = "account" /\ work[w].job = "none" /\ UNCHANGED <<cache, vendor>>
  BY <1>1 DEF AnswerAccount, LedgerRow
<1>3. Book(w, 0)
  BY DEF AnswerAccount, FlatUnits
<1>4. money' \in Money /\ money'.used = money.used /\ UNCHANGED booked
  BY <1>1, <1>3 DEF Book, Money
<1> DEFINE row == [work[w] EXCEPT !.pc = "balance", !.balance = vendor.credits]
<1>5. row \in Row
  <2>1. vendor.credits \in Int /\ "balance" \in Pcs
    BY <1>1 DEF Pcs
  <2> QED
    BY <1>1, <2>1 DEF Row
<1>8. /\ row.attempt = work[w].attempt /\ row.left = work[w].left
      /\ row.balance = vendor.credits /\ row.job = work[w].job /\ row.pc = "balance"
      /\ row.owed = work[w].owed /\ row.call = work[w].call
  BY <1>1 DEF Row
<1>6. work' = [work EXCEPT ![w] = row]
  BY <1>1 DEF AnswerAccount
<1> HIDE DEF row
<1>7. LedgerRow(row)
  BY <1>1, <1>2, <1>8 DEF LedgerRow
<1> QED
  BY <1>2, <1>4, <1>5, <1>6, <1>7, <1>8, LedgerStill

\* An answer that is read: its cost is booked, or known to be unread.
LEMMA LedgerReads ==
  ASSUME LedgerInv, Typing, Typing', NEW w \in Worker, NEW cost \in Nat, NEW end,
         Reads(w, cost, end), work[w].call # "account",
         cost - work[w].owed <= vendor.credits, work[w].owed <= cost
  PROVE  LedgerInv'
<1>1. /\ work \in [Worker -> Row] /\ work[w] \in Row /\ LedgerRow(work[w])
      /\ vendor \in [credits : 0..Credits, unread : Nat] /\ cache \in Caches
      /\ Credits \in Nat
  BY MoneyAssumption DEF LedgerInv, Typing
<1>2. work[w].owed \in Nat /\ vendor.credits \in Nat /\ vendor.unread \in Nat
  BY <1>1 DEF Row
<1>3. Monthly > 0 /\ FlatUnits(work[w].call) = 1
  BY <1>1 DEF LedgerRow, FlatUnits
<1>4. cache' \in Caches
  BY <1>1 DEF Reads, Caches
<1>5. PICK row \in Row : LedgerRow(row) /\ row.owed = 0 /\ work' = [work EXCEPT ![w] = row]
  <2>1. CASE Skipped(w, end)
    BY <1>1, <2>1, RaisedTyped, LedgerRaised DEF Reads
  <2>2. CASE ~Skipped(w, end)
    <3>1. PICK listings \in {"set", "empty"}, enough \in BOOLEAN :
            work' = [work EXCEPT ![w] = Following(work[w], listings, enough)]
      BY <2>2 DEF Reads
    <3>2. Following(work[w], listings, enough) \in Row
      BY <1>1, FollowingTyped
    <3>3. LedgerRow(Following(work[w], listings, enough))
          /\ Following(work[w], listings, enough).owed = 0
      BY <1>1, LedgerFollowing
    <3> QED
      BY <3>1, <3>2, <3>3
  <2> QED
    BY <2>1, <2>2
<1> DEFINE c == cost - work[w].owed
<1>6. c \in Int /\ vendor.credits - cost + work[w].owed = vendor.credits - c
      /\ row.owed - work[w].owed <= c /\ c <= vendor.credits /\ c \in Nat
  BY <1>2, <1>5
<1>7. CASE /\ Book(w, FlatUnits(work[w].call) + Correction(cost))
           /\ vendor' = [vendor EXCEPT !.credits = @ - cost + work[w].owed]
  <2>1. FlatUnits(work[w].call) + Correction(cost) = cost
    BY <1>3 DEF Correction
  <2>2. /\ money' \in Money /\ money'.used = money.used + cost
        /\ booked' = [booked EXCEPT ![w] = booked[w] + cost]
    BY <1>7, <2>1, BookMoves
  <2>3. vendor'.credits = vendor.credits - c /\ vendor'.unread = vendor.unread + 0
    BY <1>1, <1>2, <1>6, <1>7
  <2> HIDE DEF c
  <2>4. Moves(w, row, cost, c, 0)
    BY <1>4, <1>5, <2>2, <2>3 DEF Moves
  <2>5. c <= cost + 0 + row.owed - work[w].owed
    BY <1>2, <1>5 DEF c
  <2> QED
    BY <1>3, <1>5, <1>6, <2>4, <2>5, LedgerMoves
<1>8. CASE /\ Book(w, FlatUnits(work[w].call))
           /\ vendor' = [vendor EXCEPT !.credits = @ - cost + work[w].owed, !.unread = @ + cost]
  <2>1. /\ money' \in Money /\ money'.used = money.used + 1
        /\ booked' = [booked EXCEPT ![w] = booked[w] + 1]
    BY <1>3, <1>8, BookMoves
  <2>2. vendor'.credits = vendor.credits - c /\ vendor'.unread = vendor.unread + cost
    BY <1>1, <1>2, <1>6, <1>8
  <2> HIDE DEF c
  <2>3. Moves(w, row, 1, c, cost)
    BY <1>4, <1>5, <2>1, <2>2 DEF Moves
  <2>4. c <= 1 + cost + row.owed - work[w].owed
    BY <1>2, <1>5 DEF c
  <2> QED
    BY <1>3, <1>5, <1>6, <2>3, <2>4, LedgerMoves
<1> QED
  BY <1>7, <1>8 DEF Reads

LEMMA LedgerAnswered ==
  ASSUME LedgerInv, Typing, Typing', NEW w \in Worker, AnswerAtOnce(w) \/ AnswerDone(w)
  PROVE  LedgerInv'
<1>1. work[w] \in Row /\ LedgerRow(work[w]) /\ vendor.credits \in Nat
  BY MoneyAssumption DEF LedgerInv, Typing
<1>2. work[w].owed \in Nat
  BY <1>1 DEF Row
<1>3. CASE AnswerAtOnce(w)
  <2>1. PICK c \in Price, end \in {"done", "partial"} : Reads(w, c, end)
    BY <1>3 DEF AnswerAtOnce
  <2>2. c \in Nat /\ c <= vendor.credits
    BY ChargesPaid
  <2>3. work[w].call # "account" /\ work[w].owed = 0
    BY <1>1, <1>3 DEF AnswerAtOnce, Creating, LedgerRow
  <2>4. c - work[w].owed <= vendor.credits /\ work[w].owed <= c
    BY <2>2, <2>3
  <2> QED
    BY <2>1, <2>2, <2>3, <2>4, LedgerReads
<1>4. CASE AnswerDone(w)
  <2>1. Reads(w, work[w].owed, work[w].job)
    BY <1>4 DEF AnswerDone
  <2>2. work[w].call # "account"
    BY <1>1, <1>4 DEF AnswerDone, AwaitsJob, LedgerRow
  <2>3. work[w].owed - work[w].owed <= vendor.credits /\ work[w].owed <= work[w].owed
    BY <1>1, <1>2
  <2> QED
    BY <1>2, <2>1, <2>2, <2>3, LedgerReads
<1> QED
  BY <1>3, <1>4

LEMMA LedgerLater ==
  ASSUME LedgerInv, Typing, Typing', NEW w \in Worker, AnswerLater(w)
  PROVE  LedgerInv'
<1>1. /\ work \in [Worker -> Row] /\ work[w] \in Row /\ LedgerRow(work[w])
      /\ vendor \in [credits : 0..Credits, unread : Nat] /\ cache \in Caches
      /\ Credits \in Nat /\ UNCHANGED cache
  BY MoneyAssumption DEF LedgerInv, Typing, AnswerLater
<1>2. /\ work[w].call # "account" /\ work[w].job = "none" /\ work[w].owed = 0
      /\ Monthly > 0
  BY <1>1 DEF AnswerLater, Creating, LedgerRow
<1>3. Book(w, 1)
  BY <1>2 DEF AnswerLater, FlatUnits
<1>4. /\ money' \in Money /\ money'.used = money.used + 1
      /\ booked' = [booked EXCEPT ![w] = booked[w] + 1]
  BY <1>3, BookMoves
<1>5. PICK c \in Price, i \in Intervals :
        /\ work' = [work EXCEPT ![w] = Polls([work[w] EXCEPT !.job = "running",
                                    !.left = PollMax, !.owed = c], i)]
        /\ vendor' = [vendor EXCEPT !.credits = @ - c,
                                    !.unread = IF i > PollMax THEN @ + c ELSE @]
  BY DEF AnswerLater
<1> DEFINE row == [work[w] EXCEPT !.job = "running", !.left = PollMax, !.owed = c]
<1>6. c \in Nat /\ c <= vendor.credits
  BY ChargesPaid
<1>7. /\ row \in Row /\ row.attempt = work[w].attempt /\ row.left = PollMax
      /\ row.balance = work[w].balance /\ row.job = "running" /\ row.pc = work[w].pc
      /\ row.owed = c /\ row.call = work[w].call
  BY <1>1, <1>6, TimesAssumption DEF Row
<1>8. work' = [work EXCEPT ![w] = Polls(row, i)]
  BY <1>5
<1> HIDE DEF row
<1>9. work[w].pc = "sent"
  BY DEF AnswerLater, Creating, InFlight
<1>10. LedgerRow(row)
  BY <1>1, <1>2, <1>7, <1>9, NaturalLimits DEF LedgerRow
<1>11. /\ Polls(row, i) \in Row /\ LedgerRow(Polls(row, i))
       /\ Polls(row, i).owed = IF i > PollMax THEN 0 ELSE c
  BY <1>7, <1>10, PollsTyped, LedgerPolls
<1> DEFINE next == Polls(row, i)
           n == IF i > PollMax THEN c ELSE 0
<1>12. /\ vendor'.credits = vendor.credits - c /\ vendor'.unread = vendor.unread + n
       /\ n \in Nat /\ next.owed + n = c
  BY <1>1, <1>5, <1>6, <1>11
<1> HIDE DEF next, n
<1>13. Moves(w, next, 1, c, n)
  BY <1>1, <1>4, <1>8, <1>12 DEF Moves, next
<1>14. next \in Row /\ LedgerRow(next)
  BY <1>11 DEF next
<1>15. next.owed - work[w].owed <= c /\ c <= 1 + n + next.owed - work[w].owed
  BY <1>2, <1>6, <1>12, <1>14 DEF Row
<1> QED
  BY <1>2, <1>6, <1>12, <1>13, <1>14, <1>15, LedgerMoves

LEMMA LedgerRunning ==
  ASSUME LedgerInv, Typing, Typing', NEW w \in Worker, AnswerRunning(w)
  PROVE  LedgerInv'
<1>1. /\ work \in [Worker -> Row] /\ work[w] \in Row /\ LedgerRow(work[w])
      /\ vendor \in [credits : 0..Credits, unread : Nat] /\ cache \in Caches
      /\ Credits \in Nat /\ UNCHANGED cache
  BY MoneyAssumption DEF LedgerInv, Typing, AnswerRunning
<1>2. work[w].call # "account" /\ Monthly > 0 /\ work[w].owed \in Nat
  BY <1>1 DEF AnswerRunning, LedgerRow, Row
<1>3. Book(w, 1)
  BY <1>2 DEF AnswerRunning, FlatUnits
<1>4. /\ money' \in Money /\ money'.used = money.used + 1
      /\ booked' = [booked EXCEPT ![w] = booked[w] + 1]
  BY <1>3, BookMoves
<1>5. PICK i \in Intervals :
        /\ work' = [work EXCEPT ![w] = Polls(work[w], i)]
        /\ vendor' = [vendor EXCEPT !.unread =
                        IF i > work[w].left THEN @ + work[w].owed ELSE @]
  BY <1>1 DEF AnswerRunning
<1>6. /\ Polls(work[w], i) \in Row /\ LedgerRow(Polls(work[w], i))
      /\ Polls(work[w], i).owed = IF i > work[w].left THEN 0 ELSE work[w].owed
  BY <1>1, PollsTyped, LedgerPolls
<1> DEFINE next == Polls(work[w], i)
           n == IF i > work[w].left THEN work[w].owed ELSE 0
<1>7. /\ vendor'.credits = vendor.credits - 0 /\ vendor'.unread = vendor.unread + n
      /\ n \in Nat /\ next.owed + n = work[w].owed /\ 0 <= vendor.credits
  BY <1>1, <1>2, <1>5, <1>6
<1> HIDE DEF next, n
<1>8. Moves(w, next, 1, 0, n)
  BY <1>1, <1>4, <1>5, <1>7 DEF Moves, next
<1>9. next \in Row /\ LedgerRow(next)
  BY <1>6 DEF next
<1>10. next.owed - work[w].owed <= 0 /\ 0 <= 1 + n + next.owed - work[w].owed
  BY <1>2, <1>7, <1>9 DEF Row
<1> QED
  BY <1>2, <1>7, <1>8, <1>9, <1>10, LedgerMoves

\* A failed job may be free: the vendor gives back what it charged for it.
LEMMA LedgerJobEnds ==
  ASSUME LedgerInv, Typing, Typing', NEW w \in Worker, JobEnds(w)
  PROVE  LedgerInv'
<1>1. /\ work \in [Worker -> Row] /\ work[w] \in Row /\ LedgerRow(work[w])
      /\ vendor \in [credits : 0..Credits, unread : Nat] /\ cache \in Caches
      /\ money \in Money /\ booked \in [Worker -> Nat] /\ Credits \in Nat
      /\ work[w].job = "running" /\ UNCHANGED <<cache, money, booked>>
  BY MoneyAssumption DEF LedgerInv, Typing, JobEnds
<1>2. /\ work[w].owed \in Nat /\ vendor.credits \in Nat /\ vendor.unread \in Nat
      /\ money.used \in Nat
  BY <1>1 DEF Row, Money
<1>3. PICK end \in {"done", "partial", "failed"}, free \in BOOLEAN :
        /\ work' = [work EXCEPT ![w].job = end, ![w].owed = IF free THEN 0 ELSE @]
        /\ vendor' = [vendor EXCEPT !.credits = IF free THEN @ + work[w].owed ELSE @]
  BY DEF JobEnds
<1> DEFINE owed == IF free THEN 0 ELSE work[w].owed
           row == [work[w] EXCEPT !.job = end, !.owed = owed]
           c == owed - work[w].owed
<1>4. owed \in Nat /\ owed <= work[w].owed
  BY <1>2
<1>5. /\ row \in Row /\ row.attempt = work[w].attempt /\ row.left = work[w].left
      /\ row.balance = work[w].balance /\ row.job = end /\ row.pc = work[w].pc
      /\ row.owed = owed /\ row.call = work[w].call
  BY <1>1, <1>4 DEF Row
<1>6. work' = [work EXCEPT ![w] = row]
  BY <1>1, <1>3
<1>7. vendor'.credits = vendor.credits - c /\ vendor'.unread = vendor.unread + 0
  BY <1>1, <1>2, <1>3
<1>8. c \in Int /\ c <= vendor.credits
  BY <1>2, <1>4
<1> HIDE DEF row, owed
<1>9. LedgerRow(row)
  BY <1>1, <1>5 DEF LedgerRow
<1>10. Moves(w, row, 0, c, 0)
  BY <1>1, <1>2, <1>6, <1>7 DEF Moves
<1>11. row.owed - work[w].owed <= c /\ c <= 0 + 0 + row.owed - work[w].owed
  BY <1>2, <1>4, <1>5
<1> QED
  BY <1>5, <1>8, <1>9, <1>10, <1>11, LedgerMoves

LEMMA LedgerInit == Init => LedgerInv
<1> SUFFICES ASSUME Init PROVE LedgerInv
  OBVIOUS
<1>1. Credits \in Nat /\ Monthly \in Nat
  BY MoneyAssumption
<1>2. cache \in Caches /\ money \in Money /\ money.used = 0
  BY <1>1 DEF Init, Caches, Money
<1>3. /\ vendor \in [credits : 0..Credits, unread : Nat]
      /\ vendor.credits = Credits /\ vendor.unread = 0
  BY <1>1 DEF Init
<1>4. booked \in [Worker -> Nat]
  BY DEF Init
<1>5. \A w \in Worker : work[w] = NoWork
  BY DEF Init
<1>6. Owed = 0
  <2>1. OwedOf \in [Worker -> {0}]
    BY <1>5, LedgerNoWork DEF OwedOf
  <2> QED
    BY <2>1, SumOfZeros DEF Owed
<1>7. Owed <= Charged /\ Charged <= money.used + vendor.unread + Owed
  BY <1>1, <1>2, <1>3, <1>6 DEF Charged
<1>8. LedgerCovers /\ OvershootInFlight
  BY <1>2, <1>7 DEF LedgerCovers, OvershootInFlight, Owed, OwedOf
<1>9. \A w \in Worker : LedgerRow(work[w])
  BY <1>5, LedgerNoWork
<1> QED
  BY <1>2, <1>3, <1>4, <1>7, <1>8, <1>9 DEF LedgerInv

LEMMA LedgerUnmoved ==
  ASSUME LedgerInv, Typing, UNCHANGED <<money, vendor, booked>>, cache' \in Caches,
         \A w \in Worker : work'[w].owed = work[w].owed /\ LedgerRow(work'[w])
  PROVE  LedgerInv'
<1>1. OwedOf' = OwedOf
  BY DEF OwedOf
<1>2. (Owed <= Charged)' /\ LedgerCovers' /\ OvershootInFlight'
  BY <1>1 DEF LedgerInv, LedgerCovers, OvershootInFlight, Owed, OwedOf, Charged
<1> QED
  BY <1>2 DEF LedgerInv, LedgerRow

LEMMA LedgerTick ==
  ASSUME LedgerInv, Typing, Tick
  PROVE  LedgerInv'
<1>1. ASSUME NEW w \in Worker PROVE work'[w].owed = work[w].owed /\ LedgerRow(work'[w])
  <2>1. work[w] \in Row /\ LedgerRow(work[w])
    BY DEF LedgerInv, Typing
  <2>2. work'[w] = [work[w] EXCEPT !.timer = Down(@), !.left = Down(@)]
    BY DEF Tick
  <2>3. /\ work'[w].attempt = work[w].attempt /\ work'[w].left = Down(work[w].left)
        /\ work'[w].balance = work[w].balance /\ work'[w].job = work[w].job
        /\ work'[w].pc = work[w].pc /\ work'[w].owed = work[w].owed
        /\ work'[w].call = work[w].call
    BY <2>1, <2>2 DEF Row
  <2>4. Down(work[w].left) <= PollMax
    BY <2>1, NaturalLimits DEF Down, Most, Row, LedgerRow
  <2> QED
    BY <2>1, <2>3, <2>4 DEF LedgerRow
<1>2. UNCHANGED <<cache, money, vendor, booked>>
  BY DEF Tick
<1> QED
  BY <1>1, <1>2, LedgerUnmoved DEF LedgerInv

LEMMA LedgerStep == LedgerInv /\ PaceInv /\ [Next]_vars => LedgerInv'
<1> SUFFICES ASSUME LedgerInv, PaceInv, [Next]_vars PROVE LedgerInv'
  OBVIOUS
<1>1. Typing /\ Typing'
  BY PaceStep DEF PaceInv
<1>2. CASE Expire \/ UNCHANGED vars
  <2>1. UNCHANGED <<work, money, vendor, booked>> /\ cache' \in Caches
    BY <1>2 DEF Expire, vars, LedgerInv, Caches
  <2>2. \A w \in Worker : work'[w].owed = work[w].owed /\ LedgerRow(work'[w])
    BY <2>1 DEF LedgerInv
  <2> QED
    BY <1>1, <2>1, <2>2, LedgerUnmoved
<1>3. CASE Tick
  BY <1>1, <1>3, LedgerTick
<1>4. ASSUME NEW w \in Worker, Step(w) PROVE LedgerInv'
  BY <1>1, <1>4, LedgerPacing, LedgerBegin, LedgerFails, LedgerRepeated, LedgerAccount,
     LedgerAnswered, LedgerLater, LedgerRunning DEF Step, Answer
<1>5. ASSUME NEW w \in Worker,
             \/ Seed(w) \/ SeedRetry(w) \/ EndIteration(w) \/ Refuse(w) \/ JobEnds(w)
             \/ \E kind \in Kinds : Collect(w, kind)
      PROVE LedgerInv'
  BY <1>1, <1>5, LedgerBegin, LedgerCollect, LedgerJobEnds
<1> QED
  BY <1>2, <1>3, <1>4, <1>5 DEF Next

\* The ledger is never below what the vendor charged, except for what no answer
\* told it, for any number of threads: calls that are repeated, polled and
\* corrected, and jobs that are given up, included (staying.py 343-368,
\* budget.py 258-291).
THEOREM LedgerIsCovered == Spec => []LedgerCovers
<1>1. LedgerInv => LedgerCovers
  BY DEF LedgerInv
<1> QED
  BY <1>1, LedgerInit, LedgerStep, PaceInit, PaceStep, PTL DEF Spec

\* The month's limit is exceeded by no more than what the queries in flight, or
\* last in flight, of the threads were booked: each was admitted below the limit
\* with a guess of one unit, whatever the others were charged in the meantime
\* (collection.py 119-124).
THEOREM OvershootIsInFlight == Spec => []OvershootInFlight
<1>1. LedgerInv => OvershootInFlight
  BY DEF LedgerInv
<1> QED
  BY <1>1, LedgerInit, LedgerStep, PaceInit, PaceStep, PTL DEF Spec

\* The timers stay within the polls' time and the attempts within the retries,
\* and neither the vendor's balance nor the month's limit falls below zero
\* (ratelimit.py 28-111, http.py 93-210, budget.py 142-291).
THEOREM VendorTypeCorrect == Spec => []TypeOK
<1>1. PaceInv /\ ServedInv /\ LedgerInv => TypeOK
  <2> SUFFICES ASSUME PaceInv, ServedInv, LedgerInv PROVE TypeOK
    OBVIOUS
  <2>1. ASSUME NEW w \in Worker PROVE work[w] \in WorkRow
    <3>1. work[w] \in Row /\ LedgerRow(work[w])
      BY DEF PaceInv, Typing, LedgerInv
    <3>2. /\ work[w].attempt \in 0..MaxRetries + 1 /\ work[w].left \in 0..PollMax
          /\ work[w].balance \in Nat
      BY <3>1, NaturalLimits DEF Row, LedgerRow
    <3> QED
      BY <3>1, <3>2 DEF Row, WorkRow
  <2>2. work \in [Worker -> WorkRow]
    BY <2>1 DEF PaceInv, Typing
  <2>3. money \in [limit : Nat, used : Nat]
    BY NaturalLimits DEF LedgerInv, Money
  <2>4. booked \in [Worker -> Int]
    BY DEF LedgerInv
  <2> QED
    BY <2>2, <2>3, <2>4 DEF TypeOK, PaceInv, Typing, ServedInv, LedgerInv, Caches
<1> QED
  BY <1>1, LedgerInit, LedgerStep, PaceInit, PaceStep, ServedInit, ServedStep, PTL DEF Spec

=============================================================================
