---------------------------- MODULE TriageProofs ----------------------------
(***************************************************************************)
(* What holds of triage for any posts, any answers of the model, any sizes *)
(* of batches and any number of crashes, re-triages and purges: first the  *)
(* types and what each phase of a run holds (Shape), then one inductive    *)
(* invariant for each property, on top of it.                              *)
(***************************************************************************)
EXTENDS Triage, SequenceTheorems, FiniteSetTheorems, TLAPS

-----------------------------------------------------------------------------
(* Lists.                                                                  *)

\* What is listed: every element once.
Lists(s, S) ==
  /\ s \in Seq(S)
  /\ \A x \in S : \E n \in DOMAIN s : s[n] = x
  /\ \A m, n \in DOMAIN s : s[m] = s[n] => m = n

LEMMA RanksGrow ==
  ASSUME NEW S, IsFiniteSet(S), NEW below \in [S -> SUBSET S],
         NEW x \in S, NEW y \in S, x \in below[y], below[x] \subseteq below[y],
         x \notin below[x]
  PROVE  Cardinality(below[x]) < Cardinality(below[y])
<1>1. below[x] \in SUBSET S /\ below[y] \in SUBSET S
  OBVIOUS
<1>2. IsFiniteSet(below[y])
  BY <1>1, FS_Subset
<1>3. /\ IsFiniteSet(below[x])
      /\ Cardinality(below[x]) <= Cardinality(below[y])
      /\ Cardinality(below[y]) = Cardinality(below[x]) => below[y] = below[x]
  BY <1>2, FS_Subset
<1>4. Cardinality(below[x]) \in Nat /\ Cardinality(below[y]) \in Nat
  BY <1>2, <1>3, FS_CardinalityType
<1> QED BY <1>3, <1>4

\* Of a set in a strict order everybody has a rank of his own.
StrictOrder(S, below) ==
  /\ below \in [S -> SUBSET S]
  /\ \A x \in S : x \notin below[x]
  /\ \A x, y \in S : x # y => x \in below[y] \/ y \in below[x]
  /\ \A x, y \in S : x \in below[y] => below[x] \subseteq below[y]

LEMMA RankIsTaken ==
  ASSUME NEW S, IsFiniteSet(S), NEW below, StrictOrder(S, below)
  PROVE  /\ \A x \in S : Cardinality(below[x]) \in 0..(Cardinality(S) - 1)
         /\ \A x, y \in S : Cardinality(below[x]) = Cardinality(below[y]) => x = y
         /\ \A i \in 1..Cardinality(S) : \E x \in S : Cardinality(below[x]) = i - 1
<1> DEFINE n == Cardinality(S)
           ranks == 0..(n - 1)
           rank == [x \in S |-> Cardinality(below[x])]
<1>1. n \in Nat
  BY FS_CardinalityType
<1>2. ASSUME NEW x \in S PROVE rank[x] \in ranks
  <2>1. below[x] \in SUBSET S /\ x \notin below[x]
    BY DEF StrictOrder
  <2>2. /\ IsFiniteSet(below[x]) /\ Cardinality(below[x]) <= n
        /\ n = Cardinality(below[x]) => S = below[x]
    BY <2>1, FS_Subset
  <2>3. Cardinality(below[x]) \in Nat
    BY <2>2, FS_CardinalityType
  <2>4. Cardinality(below[x]) # n
    BY <2>1, <2>2
  <2> HIDE DEF n
  <2> QED BY <1>1, <2>2, <2>3, <2>4
<1>3. ASSUME NEW x \in S, NEW y \in S, x # y PROVE rank[x] # rank[y]
  <2>1. rank[x] < rank[y] \/ rank[y] < rank[x]
    BY <1>3, RanksGrow DEF StrictOrder
  <2>2. rank[x] \in Int /\ rank[y] \in Int
    BY <1>1, <1>2
  <2> QED BY <2>1, <2>2
<1>4. rank \in [S -> ranks]
  BY <1>2
<1>5. rank \in Injection(S, ranks)
  BY <1>3, <1>4 DEF Injection, IsInjective
<1> HIDE DEF n, rank
<1>6. IsFiniteSet(ranks) /\ Cardinality(ranks) = n
  <2>1. 0 \in Int /\ n - 1 \in Int
    BY <1>1
  <2>2. Cardinality(ranks) = IF 0 > n - 1 THEN 0 ELSE n - 1 - 0 + 1
    BY <2>1, FS_Interval
  <2>3. IsFiniteSet(ranks)
    BY <2>1, FS_Interval
  <2> QED BY <1>1, <2>2, <2>3
<1> HIDE DEF ranks
<1>7. rank \in Surjection(S, ranks)
  BY <1>5, <1>6, FS_Injection DEF n
<1>8. ASSUME NEW i \in 1..n PROVE \E x \in S : rank[x] = i - 1
  <2>1. i - 1 \in ranks
    BY <1>1 DEF ranks
  <2> QED BY <2>1, <1>7 DEF Surjection
<1>9. \A x \in S : Cardinality(below[x]) \in 0..(n - 1)
  BY <1>2 DEF rank, ranks
<1>10. \A x, y \in S : Cardinality(below[x]) = Cardinality(below[y]) => x = y
  BY <1>3 DEF rank
<1>11. \A i \in 1..n : \E x \in S : Cardinality(below[x]) = i - 1
  BY <1>8 DEF rank
<1> QED BY <1>9, <1>10, <1>11 DEF n

LEMMA LowestExists ==
  ASSUME NEW S, IsFiniteSet(S), S # {}, NEW below, StrictOrder(S, below)
  PROVE  \E x \in S : below[x] = {}
<1>1. 1 \in 1..Cardinality(S)
  <2>1. Cardinality(S) \in Nat /\ Cardinality(S) # 0
    BY FS_CardinalityType, FS_EmptySet
  <2> QED BY <2>1
<1>2. \A i \in 1..Cardinality(S) : \E x \in S : Cardinality(below[x]) = i - 1
  BY RankIsTaken
<1>3. PICK x \in S : Cardinality(below[x]) = 1 - 1
  BY <1>1, <1>2
<1>4. below[x] \in SUBSET S
  BY DEF StrictOrder
<1>5. IsFiniteSet(below[x])
  BY <1>4, FS_Subset
<1> QED BY <1>3, <1>5, FS_EmptySet

LEMMA InOrderLists ==
  ASSUME NEW S, IsFiniteSet(S), NEW below, StrictOrder(S, below)
  PROVE  Lists(InOrder(S, below), S) /\ Len(InOrder(S, below)) = Cardinality(S)
<1> DEFINE n == Cardinality(S)
           rank(x) == Cardinality(below[x])
           s == InOrder(S, below)
<1>1. n \in Nat
  BY FS_CardinalityType
<1>2. /\ \A x \in S : rank(x) \in 0..(n - 1)
      /\ \A x, y \in S : rank(x) = rank(y) => x = y
      /\ \A i \in 1..n : \E x \in S : rank(x) = i - 1
  BY RankIsTaken
<1> HIDE DEF n, rank
<1>3. s = [i \in 1..n |-> CHOOSE x \in S : rank(x) = i - 1]
  BY DEF InOrder, n, rank
<1> HIDE DEF s
<1>4. ASSUME NEW i \in 1..n PROVE s[i] \in S /\ rank(s[i]) = i - 1
  BY <1>2, <1>3
<1>5. s \in [1..n -> S]
  BY <1>3, <1>4
<1>6. s \in Seq(S) /\ Len(s) = n /\ DOMAIN s = 1..n
  BY <1>1, <1>5
<1>7. ASSUME NEW x \in S PROVE \E i \in 1..n : s[i] = x
  <2>1. rank(x) + 1 \in 1..n /\ rank(x) \in Int
    BY <1>1, <1>2
  <2>2. s[rank(x) + 1] \in S /\ rank(s[rank(x) + 1]) = rank(x)
    BY <2>1, <1>4
  <2> QED BY <1>2, <2>1, <2>2
<1>8. ASSUME NEW i \in 1..n, NEW j \in 1..n, s[i] = s[j] PROVE i = j
  <2>1. rank(s[i]) = i - 1 /\ rank(s[j]) = j - 1
    BY <1>4
  <2> QED BY <2>1, <1>8
<1> QED BY <1>6, <1>7, <1>8 DEF Lists, s, n

LEMMA AscendingLists ==
  ASSUME NEW S \in SUBSET Int, IsFiniteSet(S)
  PROVE  Lists(Ascending(S), S) /\ Len(Ascending(S)) = Cardinality(S)
<1> DEFINE below == [i \in S |-> {j \in S : j < i}]
<1>1. StrictOrder(S, below)
  <2>1. \A i, j \in S : j \in below[i] <=> j < i
    OBVIOUS
  <2>2. below \in [S -> SUBSET S]
    OBVIOUS
  <2>3. \A i \in S : i \in Int
    OBVIOUS
  <2> HIDE DEF below
  <2>4. \A i \in S : i \notin below[i]
    BY <2>1, <2>3
  <2>5. \A i, j \in S : i # j => i \in below[j] \/ j \in below[i]
    BY <2>1, <2>3
  <2>6. \A i, j \in S : i \in below[j] => below[i] \subseteq below[j]
    <3> SUFFICES ASSUME NEW i \in S, NEW j \in S, i \in below[j], NEW k \in below[i]
                 PROVE  k \in below[j]
      OBVIOUS
    <3>1. k \in S
      BY <2>2
    <3> QED BY <2>1, <2>3, <3>1
  <2> QED BY <2>2, <2>4, <2>5, <2>6 DEF StrictOrder
<1> QED BY <1>1, InOrderLists DEF Ascending

LEMMA PlacesOrdered ==
  ASSUME NEW S \in SUBSET (Int \X Int)
  PROVE  StrictOrder(S, [p \in S |-> {q \in S : Before(q, p)}])
<1> DEFINE below == [p \in S |-> {q \in S : Before(q, p)}]
<1>1. StrictOrder(S, below)
  <2>1. \A p, q \in S : q \in below[p] <=> Before(q, p)
    OBVIOUS
  <2>2. below \in [S -> SUBSET S]
    OBVIOUS
  <2>3. \A p \in S : p[1] \in Int /\ p[2] \in Int /\ p = <<p[1], p[2]>>
    OBVIOUS
  <2> HIDE DEF below
  <2>4. \A p \in S : ~Before(p, p)
    BY <2>3 DEF Before
  <2>5. \A p, q \in S : p # q => Before(p, q) \/ Before(q, p)
    BY <2>3 DEF Before
  <2>6. \A p, q, r \in S : Before(p, q) /\ Before(q, r) => Before(p, r)
    BY <2>3 DEF Before
  <2>7. \A p, q \in S : p \in below[q] => below[p] \subseteq below[q]
    BY <2>1, <2>2, <2>6
  <2> QED BY <2>1, <2>2, <2>4, <2>5, <2>7 DEF StrictOrder
<1> QED BY <1>1

LEMMA InPlaceLists ==
  ASSUME NEW S \in SUBSET (Int \X Int), IsFiniteSet(S)
  PROVE  Lists(InPlace(S), S) /\ Len(InPlace(S)) = Cardinality(S)
BY PlacesOrdered, InOrderLists DEF InPlace

LEMMA SetToSeqLists ==
  ASSUME NEW S, IsFiniteSet(S)
  PROVE  Lists(SetToSeq(S), S) /\ Len(SetToSeq(S)) = Cardinality(S)
<1> DEFINE n == Cardinality(S)
           s == SetToSeq(S)
<1>1. n \in Nat /\ ExistsBijection(1..n, S)
  BY FS_CardinalityType
<1> HIDE DEF n
<1>2. \E f \in [1..n -> S] : IsInjective(f)
  BY <1>1 DEF ExistsBijection, Bijection, Injection, IsInjective
<1>3. s \in [1..n -> S] /\ IsInjective(s)
  BY <1>2, Zenon DEF SetToSeq, n
<1> HIDE DEF s
<1>4. s \in Seq(S) /\ Len(s) = n /\ DOMAIN s = 1..n
  BY <1>1, <1>3
<1>5. s \in Injection(1..n, S)
  BY <1>3 DEF Injection
<1>6. IsFiniteSet(1..n) /\ Cardinality(1..n) = n
  BY <1>1, FS_Interval
<1>7. s \in Surjection(1..n, S)
  BY <1>5, <1>6, FS_Injection DEF n
<1> QED BY <1>3, <1>4, <1>7 DEF Lists, Surjection, IsInjective, s, n
\* What is listed at the places of a list.
LEMMA ListedIsSeq ==
  ASSUME NEW S, NEW s, NEW P, Lists(s, P), NEW t, t = [n \in DOMAIN s |-> t[n]],
         \A n \in DOMAIN s : t[n] \in S
  PROVE  t \in Seq(S) /\ Len(t) = Len(s) /\ DOMAIN t = DOMAIN s
<1>1. s \in Seq(P) /\ Len(s) \in Nat /\ DOMAIN s = 1..Len(s)
  BY LenProperties DEF Lists
<1>2. t \in [1..Len(s) -> S]
  BY <1>1
<1> QED BY <1>1, <1>2

LEMMA MinOfTwo ==
  ASSUME NEW a \in Int, NEW b \in Int
  PROVE  Min({a, b}) = IF a <= b THEN a ELSE b
BY DEF Min

LEMMA MaxOfTwo ==
  ASSUME NEW a \in Int, NEW b \in Int
  PROVE  Max({a, b}) = IF a >= b THEN a ELSE b
BY DEF Max

LEMMA ToSetIs == ASSUME NEW s PROVE ToSet(s) = {s[i] : i \in DOMAIN s}
BY DEF ToSet

\* The values of a function at some of the arguments are no more than those.
LEMMA ImageIsFinite ==
  ASSUME NEW S, IsFiniteSet(S), NEW f
  PROVE  IsFiniteSet({f[x] : x \in S})
<1> DEFINE T == {f[x] : x \in S}
           g == [x \in S |-> f[x]]
<1>1. g \in Surjection(S, T)
  BY DEF Surjection
<1> QED BY <1>1, FS_Surjection

-----------------------------------------------------------------------------
(* The types of everything.                                                *)

Partial(S, T) == UNION {[U -> T] : U \in SUBSET S}

LEMMA PartialIs ==
  ASSUME NEW S, NEW T, NEW f, f = [x \in DOMAIN f |-> f[x]], DOMAIN f \subseteq S,
         \A x \in DOMAIN f : f[x] \in T
  PROVE  f \in Partial(S, T)
BY DEF Partial

LEMMA PartialHas ==
  ASSUME NEW S, NEW T, NEW f \in Partial(S, T)
  PROVE  /\ f = [x \in DOMAIN f |-> f[x]] /\ DOMAIN f \subseteq S
         /\ \A x \in DOMAIN f : f[x] \in T
BY DEF Partial

LEMMA OverHas ==
  ASSUME NEW f, NEW g
  PROVE  /\ DOMAIN Over(f, g) = DOMAIN f \cup DOMAIN g
         /\ \A x \in DOMAIN g : Over(f, g)[x] = g[x]
         /\ \A x \in DOMAIN f \ DOMAIN g : Over(f, g)[x] = f[x]
BY DEF Over

LEMMA OverIs ==
  ASSUME NEW S, NEW T, NEW f \in Partial(S, T), NEW g \in Partial(S, T)
  PROVE  Over(f, g) \in Partial(S, T)
<1>1. /\ DOMAIN f \subseteq S /\ DOMAIN g \subseteq S
      /\ \A x \in DOMAIN f : f[x] \in T
      /\ \A x \in DOMAIN g : g[x] \in T
  BY PartialHas
<1>2. Over(f, g) \in [DOMAIN f \cup DOMAIN g -> T]
  BY <1>1 DEF Over
<1> QED BY <1>1, <1>2 DEF Partial

\* A payload holds a post of the url.
Held(r, u) == \E k \in DOMAIN payloads[r].items :
  payloads[r].items[k].kind = "post" /\ payloads[r].items[k].url = u

Reasons == {"stale", "no url", "no object", "unparseable", "not a list"}
Named == UNION {j.cities : j \in Judgements}
Relevant == {j \in Judgements : j.is = "relevant"}

Post == {p \in [url : Urls, raw : Raws, at : Int] : Held(p.raw, p.url)}
SkipRow == [iter : Iterations, raw : Raws, url : Urls \cup {Unknown}, reason : Reasons]
DecisionRow ==
  {d \in [iter : Iterations, url : Urls, raw : Raws, state : States, signal : Nat,
          receipt : Nat] : Held(d.raw, d.url)}
Signal == [iter : Iterations, url : Urls, city : Named \cup {Unknown},
           state : {"CANDIDATE", "CONFIRMED"}]
Receipt == [iter : Iterations, asked : SUBSET Urls,
            of : Partial(Urls, Judgements \cup Unusable)]
Entry == [post : Post, item : Relevant, receipt : Nat]
Outcome == [valid : Partial(Urls, Judgements), faults : Seq(Urls), missing : Seq(Urls),
            error : BOOLEAN, truncated : BOOLEAN]
Work == [pc : Pcs, parent : Nat, posts : Seq(Post), todo : Seq(SkipRow \cup DecisionRow),
         size : Nat, at : Nat, outcome : Outcome, receiptOf : Partial(Urls, Nat),
         accepted : Seq(Entry), gaps : Nat, names : SUBSET Named, entries : Seq(Entry),
         city : Named \cup {Unknown}, signalOf : Partial(Urls, Nat), asked : Nat,
         calls : Nat]

TypeInv ==
  /\ payloads \in Responses
  /\ iter \in Iterations /\ hour \in Start..(Start + MaxHours) /\ crashes \in 0..MaxUpsets
  /\ work \in Work
  /\ skips \in Seq(SkipRow) /\ decisions \in Seq(DecisionRow) /\ signals \in Seq(Signal)
  /\ receipts \in Seq(Receipt)
  /\ notes \in [Iterations -> SUBSET Notes] /\ kept \subseteq Raws

LEMMA JudgementFields ==
  ASSUME NEW j \in Judgements
  PROVE  /\ j.is \in {"relevant", "irrelevant"} /\ j.salience \in Nat
         /\ j = [is |-> j.is, cities |-> j.cities, salience |-> j.salience]
BY JudgementsAssumption

LEMMA NothingIsOutcome ==
  /\ Nothing \in Outcome
  /\ Nothing.valid = <<>> /\ Nothing.faults = <<>> /\ Nothing.missing = <<>>
<1>1. <<>> \in Partial(Urls, Judgements) /\ <<>> \in Seq(Urls)
  <2>1. <<>> \in [{} -> Judgements]
    OBVIOUS
  <2> QED BY <2>1 DEF Partial
<1> QED BY <1>1, Zenon DEF Nothing, Outcome

LEMMA EmptyPartial == ASSUME NEW S, NEW T PROVE <<>> \in Partial(S, T) /\ DOMAIN <<>> = {}
<1>1. <<>> \in [{} -> T]
  OBVIOUS
<1> QED BY <1>1 DEF Partial

LEMMA IdleIs ==
  ASSUME NEW pc
  PROVE  /\ pc \in Pcs => Idle(pc) \in Work
         /\ Idle(pc).pc = pc /\ Idle(pc).parent = 0 /\ Idle(pc).posts = <<>>
         /\ Idle(pc).todo = <<>> /\ Idle(pc).outcome = Nothing /\ Idle(pc).accepted = <<>>
         /\ Idle(pc).gaps = 0 /\ Idle(pc).names = {} /\ Idle(pc).entries = <<>>
         /\ Idle(pc).signalOf = <<>> /\ Idle(pc).receiptOf = <<>>
         /\ Idle(pc).asked = 0 /\ Idle(pc).calls = 0
<1>1. Nothing \in Outcome
  BY NothingIsOutcome
<1>2. <<>> \in Partial(Urls, Nat)
  BY EmptyPartial
<1>3. /\ <<>> \in Seq(Post) /\ <<>> \in Seq(SkipRow \cup DecisionRow) /\ <<>> \in Seq(Entry)
      /\ 0 \in Nat
  OBVIOUS
<1>4. pc \in Pcs => Idle(pc) \in Work
  BY <1>1, <1>2, <1>3, Zenon DEF Idle, Work
<1> QED BY <1>4 DEF Idle

-----------------------------------------------------------------------------
(* A batch and its parts.                                                  *)

UrlsOf(posts, m, n) == {posts[i].url : i \in m..n}

LEMMA BatchIs ==
  ASSUME work.posts \in Seq(Post)
  PROVE  /\ Batch \in Seq(Post)
         /\ Len(Batch) = IF BatchSize <= Len(work.posts) THEN BatchSize ELSE Len(work.posts)
         /\ Len(Batch) \in 0..Len(work.posts) /\ Len(Batch) <= BatchSize
         /\ work.posts # <<>> => Len(Batch) >= 1
         /\ \A i \in 1..Len(Batch) : Batch[i] = work.posts[i]
<1> DEFINE m == Len(work.posts)
           n == IF BatchSize <= m THEN BatchSize ELSE m
<1>1. /\ m \in Nat /\ BatchSize \in Nat \ {0}
      /\ \A i \in 1..m : work.posts[i] \in Post
      /\ work.posts # <<>> => m # 0
  BY BoundsAssumption
<1>2. Min({BatchSize, m}) = n
  BY <1>1, MinOfTwo
<1>3. n \in 0..m /\ n <= BatchSize /\ (m # 0 => n >= 1)
  BY <1>1
<1> HIDE DEF m, n
<1>4. Batch = SubSeq(work.posts, 1, n)
  BY <1>2 DEF Batch, m
<1>5. \A i \in 1..n : work.posts[i] \in Post
  BY <1>1, <1>3
<1>6. /\ SubSeq(work.posts, 1, n) \in Seq(Post)
      /\ Len(SubSeq(work.posts, 1, n)) = IF 1 <= n THEN n - 1 + 1 ELSE 0
      /\ \A i \in 1..(n - 1 + 1) : SubSeq(work.posts, 1, n)[i] = work.posts[1 + i - 1]
  BY <1>1, <1>3, <1>5, SubSeqProperties
<1>7. n \in Nat /\ n - 1 + 1 = n /\ (IF 1 <= n THEN n - 1 + 1 ELSE 0) = n
  BY <1>1, <1>3
<1>8. \A i \in 1..n : 1 + i - 1 = i
  BY <1>7
<1>9. Len(Batch) = n /\ \A i \in 1..n : Batch[i] = work.posts[i]
  BY <1>4, <1>6, <1>7, <1>8
<1>10. m = 0 => work.posts = <<>>
  BY DEF m
<1>11. Batch \in Seq(Post)
  BY <1>4, <1>6
<1>12. Len(Batch) = IF BatchSize <= m THEN BatchSize ELSE m
  BY <1>9 DEF n
<1>13. Len(Batch) \in 0..m /\ Len(Batch) <= BatchSize /\ (work.posts # <<>> => Len(Batch) >= 1)
  BY <1>1, <1>3, <1>9, <1>10
<1> QED BY <1>9, <1>11, <1>12, <1>13 DEF m

\* Where the part that is asked about ends.
PartEnd == IF work.at + work.size - 1 <= Len(Batch) THEN work.at + work.size - 1
           ELSE Len(Batch)

LEMMA AskedIs ==
  ASSUME work.posts \in Seq(Post), work.at \in 1..Len(Batch), work.size \in Nat \ {0}
  PROVE  /\ PartEnd \in work.at..Len(Batch)
         /\ Asked = UrlsOf(work.posts, work.at, PartEnd)
         /\ Asked \in SUBSET Urls /\ IsFiniteSet(Asked)
<1> DEFINE a == work.at
           e == PartEnd
           n == Len(Batch)
<1>1. /\ n \in Nat /\ Batch \in Seq(Post) /\ n <= Len(work.posts) /\ Len(work.posts) \in Nat
      /\ \A i \in 1..n : Batch[i] = work.posts[i]
  BY BatchIs
<1>2. a \in 1..n /\ e \in a..n /\ Min({a + work.size - 1, n}) = e
  <2>1. a \in Int /\ n \in Int /\ a + work.size - 1 \in Int /\ a <= a + work.size - 1
    BY <1>1
  <2>2. Min({a + work.size - 1, n}) = IF a + work.size - 1 <= n THEN a + work.size - 1 ELSE n
    BY <2>1, MinOfTwo
  <2>3. e = IF a + work.size - 1 <= n THEN a + work.size - 1 ELSE n
    BY DEF PartEnd
  <2> HIDE DEF e, a, n
  <2> QED BY <2>1, <2>2, <2>3 DEF a, n
<1> HIDE DEF e, a, n
<1>3. Part = SubSeq(Batch, a, e)
  BY <1>2 DEF Part, a, n
<1>4. \A i \in a..e : Batch[i] \in Post /\ Batch[i] = work.posts[i]
  BY <1>1, <1>2 DEF n
<1>5. /\ Part \in Seq(Post)
      /\ Len(Part) = IF a <= e THEN e - a + 1 ELSE 0
      /\ \A i \in 1..(e - a + 1) : Part[i] = Batch[a + i - 1]
  BY <1>1, <1>2, <1>3, <1>4, SubSeqProperties
<1>6. Len(Part) = e - a + 1 /\ DOMAIN Part = 1..(e - a + 1)
  BY <1>1, <1>2, <1>5
<1>7. \A i \in DOMAIN Part : a + i - 1 \in a..e /\ Part[i] = work.posts[a + i - 1]
  <2> TAKE i \in DOMAIN Part
  <2>1. i \in 1..(e - a + 1) /\ a \in Int /\ e \in Int
    BY <1>1, <1>2, <1>6
  <2>2. a + i - 1 \in a..e
    BY <2>1
  <2>3. Part[i] = Batch[a + i - 1]
    BY <1>5, <2>1
  <2> QED BY <1>4, <2>2, <2>3
<1>8. \A j \in a..e : j - a + 1 \in DOMAIN Part /\ Part[j - a + 1] = work.posts[j]
  <2> TAKE j \in a..e
  <2>1. j \in Int /\ a \in Int /\ e \in Int
    BY <1>1, <1>2
  <2>2. j - a + 1 \in DOMAIN Part /\ a + (j - a + 1) - 1 = j
    BY <2>1, <1>6
  <2> QED BY <2>2, <1>7
<1>9. Asked = UrlsOf(work.posts, a, e)
  BY <1>7, <1>8 DEF Asked, UrlsOf
<1>10. Asked \in SUBSET Urls
  BY <1>5 DEF Asked, Post
<1>11. IsFiniteSet(Asked)
  BY <1>10, UrlsAssumption, FS_Subset
<1> QED BY <1>2, <1>9, <1>10, <1>11 DEF a, e, n

\* What is made of one reply: of every post asked about one thing.
Parsed(p, said, asked) ==
  /\ p \in Outcome
  /\ DOMAIN p.valid \cup ToSet(p.faults) \cup ToSet(p.missing) = asked
  /\ DOMAIN p.valid \cap ToSet(p.faults) = {} /\ DOMAIN p.valid \cap ToSet(p.missing) = {}
  /\ ToSet(p.faults) \cap ToSet(p.missing) = {}
  /\ \A u \in DOMAIN p.valid : u \in DOMAIN said /\ said[u] = p.valid[u]

LEMMA ReplyIs ==
  ASSUME Asked \in SUBSET Urls, NEW reply \in Reply
  PROVE  /\ reply.of \in Partial(Urls, Judgements \cup Unusable)
         /\ reply.kind = "list" =>
              /\ DOMAIN reply.of = Asked
              /\ \A u \in Asked : reply.of[u] \in Judgements \cup Unusable
         /\ reply.kind # "list" => reply.of = <<>>
<1>1. CASE reply \in [kind : {"list"}, of : [Asked -> Judgements \cup Unusable]]
  BY <1>1 DEF Partial
<1>2. CASE reply \in [kind : {"truncated", "failed", "not a list"}, of : {<<>>}]
  <2>1. <<>> \in Partial(Urls, Judgements \cup Unusable)
    BY EmptyPartial
  <2>2. reply.of = <<>> /\ reply.kind # "list"
    BY <1>2
  <2> QED BY <2>1, <2>2
<1> QED BY <1>1, <1>2 DEF Reply

LEMMA ListsRange ==
  ASSUME NEW s, NEW S, Lists(s, S)
  PROVE  ToSet(s) = S /\ DOMAIN s = 1..Len(s) /\ Len(s) \in Nat
<1>1. s \in Seq(S)
  BY DEF Lists
<1>2. DOMAIN s = 1..Len(s) /\ Len(s) \in Nat /\ \A i \in DOMAIN s : s[i] \in S
  BY <1>1
<1> QED BY <1>2 DEF Lists, ToSet

LEMMA ParseBatchIs ==
  ASSUME Asked \in SUBSET Urls, IsFiniteSet(Asked), NEW reply \in Reply
  PROVE  Parsed(parse_batch(reply), reply.of, Asked)
<1> DEFINE answered == IF reply.kind = "list" THEN Asked ELSE {}
           pairs == {f \in answered \X {1, 2} : f[2] <= Faults(reply.of[f[1]])}
           faults == SetToSeq(pairs)
           v == [u \in {v \in answered : Valid(reply.of[v])} |-> reply.of[u]]
           f == [i \in DOMAIN faults |-> faults[i][1]]
           m == SetToSeq(Missing(reply))
           e == reply.kind # "list"
           t == reply.kind = "truncated"
           p == parse_batch(reply)
<1>1. p = [valid |-> v, faults |-> f, missing |-> m, error |-> e, truncated |-> t]
  BY Zenon DEF parse_batch
<1>2. e \in BOOLEAN /\ t \in BOOLEAN
  OBVIOUS
<1>3. \A u \in answered :
        reply.of[u] \in Judgements \cup Unusable /\ u \in DOMAIN reply.of
  BY ReplyIs
<1>4. \A a \in Judgements : Valid(a) /\ Faults(a) = 0 /\ a.is # "none"
  BY JudgementFields DEF Valid, Faults
<1>5. \A a \in Unusable : ~Valid(a) /\ (Faults(a) = 0 <=> a.is = "none") /\ Faults(a) \in 0..2
  BY DEF Unusable, Valid, Faults
<1>6. v \in Partial(Urls, Judgements) /\ \A u \in DOMAIN v : u \in answered /\ v[u] = reply.of[u]
  <2>1. v \in [DOMAIN v -> Judgements] /\ DOMAIN v \in SUBSET Urls
    BY <1>3, <1>5
  <2> QED BY <2>1 DEF Partial
<1>7. DOMAIN v = {u \in answered : reply.of[u] \in Judgements}
  BY <1>3, <1>4, <1>5
<1>8. IsFiniteSet(pairs)
  <2>1. IsFiniteSet({1, 2})
    <3>1. IsFiniteSet({1} \cup {2})
      BY FS_Singleton, FS_Union
    <3>2. {1, 2} = {1} \cup {2}
      OBVIOUS
    <3> QED BY <3>1, <3>2, Zenon
  <2>2. IsFiniteSet(answered)
    BY FS_EmptySet
  <2>3. IsFiniteSet(answered \X {1, 2})
    BY <2>1, <2>2, FS_Product
  <2>4. pairs \in SUBSET (answered \X {1, 2})
    OBVIOUS
  <2> QED BY <2>3, <2>4, FS_Subset
<1>9. Lists(faults, pairs)
  BY <1>8, SetToSeqLists
<1>10. ToSet(faults) = pairs /\ DOMAIN faults = 1..Len(faults) /\ Len(faults) \in Nat
  BY <1>9, ListsRange
<1>11. \A u \in answered : Faults(reply.of[u]) \in 0..2
  BY <1>3, <1>4, <1>5
<1>12. \A u : u \in {q[1] : q \in pairs} <=> u \in answered /\ Faults(reply.of[u]) # 0
  <2> TAKE u
  <2>1. ASSUME NEW q \in pairs PROVE q[1] \in answered /\ Faults(reply.of[q[1]]) # 0
    BY <1>11
  <2>2. ASSUME u \in answered, Faults(reply.of[u]) # 0 PROVE u \in {q[1] : q \in pairs}
    <3>1. 1 <= Faults(reply.of[u])
      BY <2>2, <1>11
    <3>2. <<u, 1>> \in pairs
      BY <2>2, <3>1
    <3> QED BY <3>2
  <2> QED BY <2>1, <2>2
<1> HIDE DEF faults
<1>13. ToSet(f) = {q[1] : q \in pairs}
  <2>1. pairs = {faults[i] : i \in DOMAIN faults}
    BY <1>10 DEF ToSet
  <2> HIDE DEF pairs
  <2> QED BY <2>1 DEF ToSet
<1>14. f \in Seq(Urls)
  <2>1. \A i \in DOMAIN faults : faults[i] \in pairs
    BY <1>10 DEF ToSet
  <2>2. \A i \in DOMAIN faults : f[i] \in Urls
    BY <2>1
  <2> HIDE DEF pairs
  <2>3. f \in [1..Len(faults) -> Urls]
    BY <1>10, <2>2
  <2> HIDE DEF f
  <2> QED BY <2>3, <1>10
<1> HIDE DEF pairs, f
<1>15. Missing(reply) \in SUBSET Asked
  BY DEF Missing
<1>16. Lists(m, Missing(reply)) /\ ToSet(m) = Missing(reply)
  <2>1. IsFiniteSet(Missing(reply))
    BY <1>15, FS_Subset
  <2> QED BY <2>1, SetToSeqLists, ListsRange
<1> HIDE DEF m
<1>17. m \in Seq(Urls)
  <2>1. m \in Seq(Missing(reply)) /\ Missing(reply) \subseteq Urls
    BY <1>15, <1>16 DEF Lists
  <2> QED BY <2>1, SeqMonotonic
<1> HIDE DEF v, e, t, p
<1>18. /\ p \in Outcome /\ p.valid = v /\ p.faults = f /\ p.missing = m
  BY <1>1, <1>2, <1>6, <1>14, <1>17, Zenon DEF Outcome
<1>19. DOMAIN v \cup ToSet(f) \cup ToSet(m) = Asked
  BY <1>3, <1>4, <1>5, <1>7, <1>12, <1>13, <1>16 DEF Missing
<1>20. DOMAIN v \cap ToSet(f) = {}
  BY <1>4, <1>7, <1>12, <1>13
<1>21. DOMAIN v \cap ToSet(m) = {}
  BY <1>4, <1>7, <1>16 DEF Missing
<1>22. ToSet(f) \cap ToSet(m) = {}
  BY <1>3, <1>4, <1>5, <1>12, <1>13, <1>16 DEF Missing
<1>23. \A u \in DOMAIN v : u \in DOMAIN reply.of /\ reply.of[u] = v[u]
  BY <1>3, <1>6
<1> QED BY <1>18, <1>19, <1>20, <1>21, <1>22, <1>23 DEF Parsed, p

-----------------------------------------------------------------------------
(* What a run knows of the posts of a batch when it has asked about the    *)
(* first m of them: of every post its receipt, and one outcome.  Of posts  *)
(* that are all different the outcomes are what those receipts say.        *)

\* Some call of the iteration said so.
Heard(rc, it, u, j) ==
  \E k \in DOMAIN rc : rc[k].iter = it /\ u \in DOMAIN rc[k].of /\ rc[k].of[u] = j

Different(posts) == \A i, j \in DOMAIN posts : posts[i].url = posts[j].url => i = j

Told(posts, m, it, rc, o, ro) ==
  /\ DOMAIN ro = UrlsOf(posts, 1, m)
  /\ DOMAIN o.valid \cup ToSet(o.faults) \cup ToSet(o.missing) = UrlsOf(posts, 1, m)
  /\ \A u \in DOMAIN ro : ro[u] \in DOMAIN rc /\ u \in rc[ro[u]].asked
  /\ \A u \in DOMAIN o.valid : Heard(rc, it, u, o.valid[u])
  /\ it = 1 =>
       /\ DOMAIN o.valid \cap ToSet(o.faults) = {} /\ DOMAIN o.valid \cap ToSet(o.missing) = {}
       /\ ToSet(o.faults) \cap ToSet(o.missing) = {}
       /\ \A u \in DOMAIN o.valid : /\ u \in DOMAIN rc[ro[u]].of
                                    /\ rc[ro[u]].of[u] = o.valid[u]

LEMMA ToldOfNone ==
  ASSUME NEW posts, NEW it, NEW rc
  PROVE  Told(posts, 0, it, rc, Nothing, <<>>)
<1>1. UrlsOf(posts, 1, 0) = {}
  BY DEF UrlsOf
<1>2. ToSet(<<>>) = {} /\ DOMAIN <<>> = {}
  BY DEF ToSet
<1>3. Nothing.valid = <<>> /\ Nothing.faults = <<>> /\ Nothing.missing = <<>>
  BY NothingIsOutcome
<1> HIDE DEF Nothing
<1> QED BY <1>1, <1>2, <1>3 DEF Told

LEMMA MergedIs ==
  ASSUME NEW a \in Outcome, NEW b \in Outcome
  PROVE  /\ Merged(a, b) \in Outcome
         /\ Merged(a, b).valid = Over(a.valid, b.valid)
         /\ ToSet(Merged(a, b).faults) = ToSet(a.faults) \cup ToSet(b.faults)
         /\ ToSet(Merged(a, b).missing) = ToSet(a.missing) \cup ToSet(b.missing)
<1> DEFINE v == Over(a.valid, b.valid)
           f == a.faults \o b.faults
           m == a.missing \o b.missing
           e == a.error \/ b.error
           t == a.truncated \/ b.truncated
           c == Merged(a, b)
<1>1. c = [valid |-> v, faults |-> f, missing |-> m, error |-> e, truncated |-> t]
  BY Zenon DEF Merged
<1>2. e \in BOOLEAN /\ t \in BOOLEAN
  OBVIOUS
<1>3. v \in Partial(Urls, Judgements)
  BY OverIs DEF Outcome
<1>4. /\ a.faults \in Seq(Urls) /\ b.faults \in Seq(Urls)
      /\ a.missing \in Seq(Urls) /\ b.missing \in Seq(Urls)
  BY DEF Outcome
<1>5. f \in Seq(Urls) /\ Range(f) = Range(a.faults) \cup Range(b.faults)
  BY <1>4, ConcatProperties, RangeConcatenation
<1>6. m \in Seq(Urls) /\ Range(m) = Range(a.missing) \cup Range(b.missing)
  BY <1>4, ConcatProperties, RangeConcatenation
<1> HIDE DEF v, f, m, e, t, c
<1>7. c \in Outcome /\ c.valid = v /\ c.faults = f /\ c.missing = m
  BY <1>1, <1>2, <1>3, <1>5, <1>6, Zenon DEF Outcome
<1> QED BY <1>5, <1>6, <1>7 DEF ToSet, Range, c, v

LEMMA HeardLater ==
  ASSUME NEW rc \in Seq(Receipt), NEW x \in Receipt, NEW it, NEW u, NEW j,
         Heard(rc, it, u, j)
  PROVE  Heard(Append(rc, x), it, u, j)
<1>1. DOMAIN rc \subseteq DOMAIN Append(rc, x) /\ \A k \in DOMAIN rc : Append(rc, x)[k] = rc[k]
  BY AppendProperties, LenProperties
<1> QED BY <1>1 DEF Heard

LEMMA ToldMore ==
  ASSUME NEW posts \in Seq(Post), NEW m \in Nat, NEW n \in 0..Len(posts), m <= n,
         NEW it, it = 1 => Different(posts),
         NEW rc \in Seq(Receipt), NEW x \in Receipt, x.iter = it,
         NEW o \in Outcome, NEW ro \in Partial(Urls, Nat),
         Told(posts, m, it, rc, o, ro),
         NEW p, NEW asked \in SUBSET Urls, asked = UrlsOf(posts, m + 1, n),
         x.asked = asked, Parsed(p, x.of, asked)
  PROVE  Told(posts, n, it, Append(rc, x), Merged(o, p),
              Over(ro, [u \in asked |-> Len(rc) + 1]))
<1> DEFINE rc1 == Append(rc, x)
           k == Len(rc) + 1
           o1 == Merged(o, p)
           r == [u \in asked |-> k]
           ro1 == Over(ro, r)
           S == UrlsOf(posts, 1, m)
           S1 == UrlsOf(posts, 1, n)
<1>1. /\ DOMAIN rc \subseteq DOMAIN rc1 /\ k \in DOMAIN rc1 /\ rc1[k] = x /\ k \in Nat
      /\ \A i \in DOMAIN rc : rc1[i] = rc[i]
  BY AppendProperties, LenProperties
<1>2. p \in Outcome
  BY DEF Parsed
<1>3. /\ o1.valid = Over(o.valid, p.valid)
      /\ ToSet(o1.faults) = ToSet(o.faults) \cup ToSet(p.faults)
      /\ ToSet(o1.missing) = ToSet(o.missing) \cup ToSet(p.missing)
  BY <1>2, MergedIs
<1>5. /\ DOMAIN o1.valid = DOMAIN o.valid \cup DOMAIN p.valid
      /\ \A u \in DOMAIN p.valid : o1.valid[u] = p.valid[u]
      /\ \A u \in DOMAIN o.valid \ DOMAIN p.valid : o1.valid[u] = o.valid[u]
  <2> DEFINE f == o.valid
             g == p.valid
  <2> HIDE DEF f, g, o1
  <2>1. /\ DOMAIN Over(f, g) = DOMAIN f \cup DOMAIN g
        /\ \A u \in DOMAIN g : Over(f, g)[u] = g[u]
        /\ \A u \in DOMAIN f \ DOMAIN g : Over(f, g)[u] = f[u]
    BY OverHas
  <2> QED BY <1>3, <2>1 DEF f, g
<1>7. /\ DOMAIN ro1 = DOMAIN ro \cup asked
      /\ \A u \in asked : ro1[u] = k
      /\ \A u \in DOMAIN ro \ asked : ro1[u] = ro[u]
  <2>1. DOMAIN r = asked /\ \A u \in asked : r[u] = k
    OBVIOUS
  <2> HIDE DEF r, k
  <2>2. /\ DOMAIN Over(ro, r) = DOMAIN ro \cup DOMAIN r
        /\ \A u \in DOMAIN r : Over(ro, r)[u] = r[u]
        /\ \A u \in DOMAIN ro \ DOMAIN r : Over(ro, r)[u] = ro[u]
    BY OverHas
  <2> QED BY <2>1, <2>2
<1>8. S1 = S \cup asked
  <2>1. 1..n = (1..m) \cup (m + 1..n)
    OBVIOUS
  <2> QED BY <2>1 DEF UrlsOf
<1>9. it = 1 => S \cap asked = {}
  <2>1. SUFFICES ASSUME it = 1, NEW i \in 1..m, NEW j \in m + 1..n,
                        posts[i].url = posts[j].url
                 PROVE  FALSE
    BY DEF UrlsOf
  <2>2. DOMAIN posts = 1..Len(posts) /\ Len(posts) \in Nat
    OBVIOUS
  <2>3. i \in DOMAIN posts /\ j \in DOMAIN posts /\ i # j
    BY <2>2
  <2> QED BY <2>1, <2>3 DEF Different
<1> HIDE DEF rc1, k, o1, r, ro1, S, S1
<1>10. DOMAIN ro1 = S1
  BY <1>7, <1>8 DEF Told, S
<1>11. DOMAIN o1.valid \cup ToSet(o1.faults) \cup ToSet(o1.missing) = S1
  BY <1>3, <1>5, <1>8 DEF Told, Parsed, S
<1>12. ASSUME NEW u \in DOMAIN ro1 PROVE ro1[u] \in DOMAIN rc1 /\ u \in rc1[ro1[u]].asked
  <2>1. CASE u \in asked
    BY <2>1, <1>1, <1>7
  <2>2. CASE u \notin asked
    BY <2>2, <1>1, <1>7 DEF Told
  <2> QED BY <2>1, <2>2
<1>13. ASSUME NEW u \in DOMAIN o1.valid PROVE Heard(rc1, it, u, o1.valid[u])
  <2>1. CASE u \in DOMAIN p.valid
    BY <2>1, <1>1, <1>5 DEF Heard, Parsed
  <2>2. CASE u \notin DOMAIN p.valid
    <3>1. Heard(rc, it, u, o.valid[u]) /\ o1.valid[u] = o.valid[u]
      BY <2>2, <1>5 DEF Told
    <3> QED BY <3>1, HeardLater DEF rc1
  <2> QED BY <2>1, <2>2
<1>14. ASSUME it = 1
       PROVE  /\ DOMAIN o1.valid \cap ToSet(o1.faults) = {}
              /\ DOMAIN o1.valid \cap ToSet(o1.missing) = {}
              /\ ToSet(o1.faults) \cap ToSet(o1.missing) = {}
  <2>1. /\ DOMAIN o.valid \subseteq S /\ ToSet(o.faults) \subseteq S
        /\ ToSet(o.missing) \subseteq S
    BY DEF Told, S
  <2>2. /\ DOMAIN p.valid \subseteq asked /\ ToSet(p.faults) \subseteq asked
        /\ ToSet(p.missing) \subseteq asked
    BY DEF Parsed
  <2> QED BY <2>1, <2>2, <1>3, <1>5, <1>9, <1>14 DEF Told, Parsed
<1>15. ASSUME it = 1, NEW u \in DOMAIN o1.valid
       PROVE  u \in DOMAIN rc1[ro1[u]].of /\ rc1[ro1[u]].of[u] = o1.valid[u]
  <2>1. CASE u \in DOMAIN p.valid
    <3>1. u \in asked
      BY <2>1 DEF Parsed
    <3> QED BY <2>1, <3>1, <1>1, <1>5, <1>7 DEF Parsed
  <2>2. CASE u \notin DOMAIN p.valid
    <3>1. u \in DOMAIN o.valid /\ u \in S /\ u \in DOMAIN ro
      BY <2>2, <1>5 DEF Told, S
    <3>2. u \notin asked
      BY <3>1, <1>9, <1>15
    <3>3. ro1[u] = ro[u] /\ ro[u] \in DOMAIN rc /\ rc1[ro[u]] = rc[ro[u]]
      BY <3>1, <3>2, <1>1, <1>7 DEF Told
    <3> QED BY <2>2, <3>1, <3>3, <1>5, <1>15 DEF Told
  <2> QED BY <2>1, <2>2
<1> QED BY <1>10, <1>11, <1>12, <1>13, <1>14, <1>15
        DEF Told, rc1, k, o1, r, ro1, S1

-----------------------------------------------------------------------------
(* Lists as the sets of what they list.                                    *)

LEMMA ToSetIn ==
  ASSUME NEW S, NEW s \in Seq(S)
  PROVE  ToSet(s) \subseteq S /\ \A i \in DOMAIN s : s[i] \in ToSet(s)
<1>1. \A i \in DOMAIN s : s[i] \in S
  OBVIOUS
<1> QED BY <1>1 DEF ToSet

LEMMA ToSetOfEmpty == ToSet(<<>>) = {}
BY DEF ToSet

LEMMA ToSetOfAppend ==
  ASSUME NEW S, NEW s \in Seq(S), NEW x \in S
  PROVE  Append(s, x) \in Seq(S) /\ ToSet(Append(s, x)) = ToSet(s) \cup {x}
<1>1. /\ Append(s, x) \in Seq(S) /\ Len(Append(s, x)) = Len(s) + 1
      /\ \A i \in 1..Len(s) : Append(s, x)[i] = s[i]
      /\ Append(s, x)[Len(s) + 1] = x
  BY AppendProperties
<1>2. DOMAIN s = 1..Len(s) /\ Len(s) \in Nat /\ DOMAIN Append(s, x) = 1..(Len(s) + 1)
  BY <1>1, LenProperties
<1>3. 1..(Len(s) + 1) = 1..Len(s) \cup {Len(s) + 1}
  BY <1>2
<1> DEFINE t == Append(s, x)
           n == Len(s)
<1>4. DOMAIN s = 1..n /\ DOMAIN t = 1..n \cup {n + 1} /\ t[n + 1] = x
      /\ \A i \in 1..n : t[i] = s[i]
  BY <1>1, <1>2, <1>3
<1> HIDE DEF t, n
<1>5. ToSet(t) = ToSet(s) \cup {x}
  BY <1>4 DEF ToSet
<1> QED BY <1>1, <1>5 DEF t

LEMMA ToSetOfTail ==
  ASSUME NEW S, NEW s \in Seq(S), s # <<>>
  PROVE  /\ Head(s) \in S /\ Tail(s) \in Seq(S)
         /\ ToSet(s) = {Head(s)} \cup ToSet(Tail(s))
<1>1. /\ Head(s) \in S /\ Tail(s) \in Seq(S) /\ Len(Tail(s)) = Len(s) - 1
      /\ \A i \in 1..Len(Tail(s)) : Tail(s)[i] = s[i + 1]
  BY HeadTailProperties
<1>2. Head(s) = s[1] /\ Len(s) \in Nat \ {0} /\ DOMAIN s = 1..Len(s)
  OBVIOUS
<1> DEFINE t == Tail(s)
           n == Len(s)
           h == Head(s)
<1>3. DOMAIN t = 1..(n - 1) /\ \A i \in 1..(n - 1) : t[i] = s[i + 1]
  BY <1>1
<1>4. h = s[1] /\ n \in Nat \ {0} /\ DOMAIN s = 1..n
  BY <1>2
<1> HIDE DEF t, n, h
<1>5. ASSUME NEW i \in DOMAIN s PROVE s[i] = h \/ \E j \in DOMAIN t : t[j] = s[i]
  <2>1. CASE i = 1
    BY <2>1, <1>4
  <2>2. CASE i # 1
    <3>1. i - 1 \in 1..(n - 1) /\ i - 1 + 1 = i
      BY <2>2, <1>4
    <3> QED BY <3>1, <1>3
  <2> QED BY <2>1, <2>2
<1>6. ASSUME NEW j \in DOMAIN t PROVE \E i \in DOMAIN s : t[j] = s[i]
  <2>1. j + 1 \in 1..n /\ t[j] = s[j + 1]
    BY <1>3, <1>4
  <2> QED BY <2>1, <1>4
<1>7. 1 \in DOMAIN s
  BY <1>4
<1>8. ToSet(s) = {h} \cup ToSet(t)
  BY <1>4, <1>5, <1>6, <1>7 DEF ToSet
<1> QED BY <1>1, <1>8 DEF t, h

LEMMA ToSetOfConcat ==
  ASSUME NEW S, NEW s \in Seq(S), NEW t \in Seq(S)
  PROVE  s \o t \in Seq(S) /\ ToSet(s \o t) = ToSet(s) \cup ToSet(t)
<1>1. s \o t \in Seq(S)
  BY ConcatProperties
<1>2. Range(s \o t) = Range(s) \cup Range(t)
  BY RangeConcatenation
<1> QED BY <1>1, <1>2 DEF ToSet, Range

LEMMA LatestExists ==
  ASSUME NEW S \in SUBSET Int, IsFiniteSet(S), S # {}
  PROVE  \E i \in S : \A j \in S : j <= i
<1> DEFINE below == [i \in S |-> {j \in S : j > i}]
<1>1. StrictOrder(S, below)
  <2>1. \A i, j \in S : j \in below[i] <=> j > i
    OBVIOUS
  <2>2. below \in [S -> SUBSET S]
    OBVIOUS
  <2>3. \A i \in S : i \in Int
    OBVIOUS
  <2> HIDE DEF below
  <2>4. \A i \in S : i \notin below[i]
    BY <2>1, <2>3
  <2>5. \A i, j \in S : i # j => i \in below[j] \/ j \in below[i]
    BY <2>1, <2>3
  <2>6. \A i, j \in S : i \in below[j] => below[i] \subseteq below[j]
    <3> SUFFICES ASSUME NEW i \in S, NEW j \in S, i \in below[j], NEW k \in below[i]
                 PROVE  k \in below[j]
      OBVIOUS
    <3>1. k \in S
      BY <2>2
    <3> QED BY <2>1, <2>3, <3>1
  <2> QED BY <2>2, <2>4, <2>5, <2>6 DEF StrictOrder
<1> HIDE DEF below
<1>4. PICK i \in S : below[i] = {}
  BY <1>1, LowestExists
<1>5. \A j \in S : ~(j > i)
  BY <1>4 DEF below
<1> QED BY <1>5

-----------------------------------------------------------------------------
(* What becomes of a batch.                                                *)

LEMMA PostOfIs ==
  ASSUME work.posts \in Seq(Post), NEW u \in UrlsOf(work.posts, 1, Len(Batch))
  PROVE  PostOf(u) \in Post /\ PostOf(u).url = u
         /\ \E i \in 1..Len(Batch) : PostOf(u) = work.posts[i]
<1>1. /\ Batch \in Seq(Post) /\ DOMAIN Batch = 1..Len(Batch)
      /\ \A i \in 1..Len(Batch) : Batch[i] = work.posts[i] /\ Batch[i] \in Post
  BY BatchIs
<1>2. \E i \in DOMAIN Batch : Batch[i].url = u
  BY <1>1 DEF UrlsOf
<1> DEFINE i == CHOOSE i \in DOMAIN Batch : Batch[i].url = u
<1>3. i \in DOMAIN Batch /\ Batch[i].url = u
  BY <1>2
<1>4. PostOf(u) = Batch[i]
  BY DEF PostOf
<1> QED BY <1>1, <1>3, <1>4

Fate(u, state, ro) == Row(PostOf(u), state, ro[u], 0)

LEMMA FateIs ==
  ASSUME work.posts \in Seq(Post), iter \in Iterations,
         NEW u \in UrlsOf(work.posts, 1, Len(Batch)),
         NEW state \in States, NEW ro, ro[u] \in Nat
  PROVE  /\ Fate(u, state, ro) \in DecisionRow
         /\ Fate(u, state, ro).url = u /\ Fate(u, state, ro).iter = iter
         /\ Fate(u, state, ro).state = state /\ Fate(u, state, ro).signal = 0
         /\ Fate(u, state, ro).receipt = ro[u]
<1>1. PostOf(u) \in Post /\ PostOf(u).url = u
  BY PostOfIs
<1> QED BY <1>1 DEF Fate, Row, DecisionRow, Post

Fates(s, state, ro) == [i \in DOMAIN s |-> Fate(s[i], state, ro)]

LEMMA FatesAre ==
  ASSUME work.posts \in Seq(Post), iter \in Iterations,
         NEW s \in Seq(Urls), ToSet(s) \subseteq UrlsOf(work.posts, 1, Len(Batch)),
         NEW state \in States, NEW ro, \A u \in ToSet(s) : ro[u] \in Nat
  PROVE  /\ Fates(s, state, ro) \in Seq(DecisionRow)
         /\ ToSet(Fates(s, state, ro)) = {Fate(u, state, ro) : u \in ToSet(s)}
<1> DEFINE t == Fates(s, state, ro)
<1>1. DOMAIN s = 1..Len(s) /\ Len(s) \in Nat /\ \A i \in DOMAIN s : s[i] \in ToSet(s)
  BY ToSetIn
<1>2. \A i \in DOMAIN s : Fate(s[i], state, ro) \in DecisionRow
  BY <1>1, FateIs
<1>3. t \in [1..Len(s) -> DecisionRow]
  BY <1>1, <1>2 DEF Fates
<1>4. t \in Seq(DecisionRow)
  BY <1>1, <1>3
<1>5. ToSet(t) = {Fate(u, state, ro) : u \in ToSet(s)}
  BY DEF ToSet, Fates
<1> QED BY <1>4, <1>5

Judged(o, is) == {u \in DOMAIN o.valid : o.valid[u].is = is}
Acceptance(u, o, ro) == [post |-> PostOf(u), item |-> o.valid[u], receipt |-> ro[u]]

\* The state of a post that no answer came for.
Loss(o) == IF o.error THEN "MODEL_ERROR" ELSE "UNDECIDED"

SettledRows(o, ro) ==
  {Fate(u, "INVALID_OUTPUT", ro) : u \in ToSet(o.faults)}
  \cup {Fate(u, Loss(o), ro) : u \in ToSet(o.missing)}
  \cup {Fate(u, "REJECTED", ro) : u \in Judged(o, "irrelevant")}

Acceptances(o, ro) == {Acceptance(u, o, ro) : u \in Judged(o, "relevant")}

Accepts(s, o, ro) == [i \in DOMAIN s |-> Acceptance(s[i], o, ro)]

Acceptable(s, o, ro) == \A u \in ToSet(s) : o.valid[u] \in Relevant /\ ro[u] \in Nat

LEMMA AcceptsAre ==
  ASSUME work.posts \in Seq(Post), NEW o, NEW ro, NEW s \in Seq(Urls),
         ToSet(s) \subseteq UrlsOf(work.posts, 1, Len(Batch)), Acceptable(s, o, ro)
  PROVE  /\ Accepts(s, o, ro) \in Seq(Entry)
         /\ ToSet(Accepts(s, o, ro)) = {Acceptance(u, o, ro) : u \in ToSet(s)}
<1> DEFINE t == Accepts(s, o, ro)
<1>1. DOMAIN s = 1..Len(s) /\ Len(s) \in Nat /\ \A i \in DOMAIN s : s[i] \in ToSet(s)
  BY ToSetIn
<1>2. ASSUME NEW i \in DOMAIN s PROVE Acceptance(s[i], o, ro) \in Entry
  <2>1. PostOf(s[i]) \in Post
    BY <1>1, PostOfIs
  <2>2. o.valid[s[i]] \in Relevant /\ ro[s[i]] \in Nat
    BY <1>1 DEF Acceptable
  <2> QED BY <2>1, <2>2 DEF Entry, Acceptance
<1>3. t \in [1..Len(s) -> Entry]
  BY <1>1, <1>2 DEF Accepts
<1>4. t \in Seq(Entry)
  BY <1>1, <1>3
<1>5. ToSet(t) = {Acceptance(u, o, ro) : u \in ToSet(s)}
  BY DEF ToSet, Accepts
<1> QED BY <1>4, <1>5

LEMMA GapsCount ==
  ASSUME NEW s \in Seq(Urls), NEW t \in Seq(Urls), NEW n \in Nat
  PROVE  /\ n + Len(s) + Len(t) \in Nat /\ n <= n + Len(s) + Len(t)
         /\ ToSet(s) \cup ToSet(t) # {} => n + Len(s) + Len(t) > 0
<1>1. Len(s) \in Nat /\ Len(t) \in Nat /\ DOMAIN s = 1..Len(s) /\ DOMAIN t = 1..Len(t)
  OBVIOUS
<1>2. ToSet(s) # {} => Len(s) > 0
  BY <1>1 DEF ToSet
<1>3. ToSet(t) # {} => Len(t) > 0
  BY <1>1 DEF ToSet
<1> QED BY <1>1, <1>2, <1>3

LEMMA SettledIs ==
  ASSUME work.posts \in Seq(Post), iter \in Iterations, NEW w \in Work, NEW rc,
         Told(work.posts, Len(Batch), iter, rc, w.outcome, w.receiptOf)
  PROVE  LET s == Settled(w) IN
         /\ s = [w EXCEPT !.pc = "recording", !.todo = s.todo, !.accepted = s.accepted,
                          !.gaps = s.gaps]
         /\ s.todo \in Seq(DecisionRow) /\ s.accepted \in Seq(Entry)
         /\ ToSet(s.todo) = SettledRows(w.outcome, w.receiptOf)
         /\ ToSet(s.accepted) = ToSet(w.accepted) \cup Acceptances(w.outcome, w.receiptOf)
         /\ s.gaps \in Nat /\ w.gaps <= s.gaps
         /\ ToSet(w.outcome.faults) \cup ToSet(w.outcome.missing) # {} => s.gaps > 0
<1> DEFINE o == w.outcome
           ro == w.receiptOf
           batch == UrlsOf(work.posts, 1, Len(Batch))
           row(u, state) == Row(PostOf(u), state, ro[u], 0)
           lost == Loss(o)
           is(what) == {u \in DOMAIN o.valid : o.valid[u].is = what}
           each(l, state) == [i \in DOMAIN l |-> row(l[i], state)]
           yes == SetToSeq(is("relevant"))
           no == SetToSeq(is("irrelevant"))
           acc == [i \in DOMAIN yes |-> [post |-> PostOf(yes[i]), item |-> o.valid[yes[i]],
                                         receipt |-> ro[yes[i]]]]
           todo == each(o.faults, "INVALID_OUTPUT") \o each(o.missing, lost)
                   \o each(no, "REJECTED")
           gaps == w.gaps + Len(o.faults) + Len(o.missing)
           s == Settled(w)
<1>1. s = [w EXCEPT !.pc = "recording", !.todo = todo, !.accepted = w.accepted \o acc,
                    !.gaps = gaps]
  BY Zenon DEF Settled, Loss
<1>2. /\ o \in Outcome /\ o.faults \in Seq(Urls) /\ o.missing \in Seq(Urls)
      /\ o.valid \in Partial(Urls, Judgements) /\ ro \in Partial(Urls, Nat)
      /\ w.gaps \in Nat /\ w.accepted \in Seq(Entry)
  BY DEF Work, Outcome
<1>3. /\ DOMAIN o.valid \subseteq batch /\ ToSet(o.faults) \subseteq batch
      /\ ToSet(o.missing) \subseteq batch /\ DOMAIN ro = batch
  BY DEF Told
<1>4. \A u \in DOMAIN o.valid : o.valid[u] \in Judgements
  BY <1>2, PartialHas
<1>5. \A u \in batch : ro[u] \in Nat
  BY <1>2, <1>3, PartialHas
<1>6. DOMAIN o.valid \subseteq Urls
  BY <1>2, PartialHas
<1>7. lost \in States /\ {"INVALID_OUTPUT", "REJECTED"} \subseteq States
  BY DEF Loss, States, Uncovered
<1>8. ASSUME NEW what PROVE /\ SetToSeq(is(what)) \in Seq(Urls)
                            /\ ToSet(SetToSeq(is(what))) = is(what)
  <2>1. is(what) \in SUBSET Urls
    BY <1>6
  <2> HIDE DEF is
  <2>2. IsFiniteSet(is(what))
    BY <2>1, UrlsAssumption, FS_Subset
  <2>3. Lists(SetToSeq(is(what)), is(what))
    BY <2>2, SetToSeqLists
  <2>4. SetToSeq(is(what)) \in Seq(is(what))
    BY <2>3 DEF Lists
  <2> QED BY <2>1, <2>3, <2>4, ListsRange, SeqMonotonic
<1>9. /\ yes \in Seq(Urls) /\ ToSet(yes) = is("relevant")
      /\ no \in Seq(Urls) /\ ToSet(no) = is("irrelevant")
  BY <1>8
<1>10. is("relevant") \subseteq batch /\ is("irrelevant") \subseteq batch
  BY <1>3
<1> HIDE DEF yes, no
<1>11. ASSUME NEW l \in Seq(Urls), ToSet(l) \subseteq batch, NEW state \in States
       PROVE  /\ each(l, state) \in Seq(DecisionRow)
              /\ ToSet(each(l, state)) = {Fate(u, state, ro) : u \in ToSet(l)}
  <2>1. each(l, state) = Fates(l, state, ro)
    BY Zenon DEF Fates, Fate
  <2>2. \A u \in ToSet(l) : ro[u] \in Nat
    BY <1>5, <1>11
  <2> HIDE DEF each
  <2> QED BY <2>1, <2>2, <1>11, FatesAre
<1>12. /\ each(o.faults, "INVALID_OUTPUT") \in Seq(DecisionRow)
       /\ ToSet(each(o.faults, "INVALID_OUTPUT"))
            = {Fate(u, "INVALID_OUTPUT", ro) : u \in ToSet(o.faults)}
  <2> HIDE DEF each
  <2> QED BY <1>2, <1>3, <1>7, <1>11
<1>13. /\ each(o.missing, lost) \in Seq(DecisionRow)
       /\ ToSet(each(o.missing, lost)) = {Fate(u, lost, ro) : u \in ToSet(o.missing)}
  <2> HIDE DEF each, lost
  <2> QED BY <1>2, <1>3, <1>7, <1>11
<1>14. /\ each(no, "REJECTED") \in Seq(DecisionRow)
       /\ ToSet(each(no, "REJECTED")) = {Fate(u, "REJECTED", ro) : u \in is("irrelevant")}
  <2> HIDE DEF each, is
  <2> QED BY <1>7, <1>9, <1>10, <1>11
<1>15. todo \in Seq(DecisionRow) /\ ToSet(todo) = SettledRows(o, ro)
  <2> DEFINE a == each(o.faults, "INVALID_OUTPUT")
             b == each(o.missing, lost)
             c == each(no, "REJECTED")
  <2>1. a \in Seq(DecisionRow) /\ b \in Seq(DecisionRow) /\ c \in Seq(DecisionRow)
    BY <1>12, <1>13, <1>14
  <2>2. ToSet(a) \cup ToSet(b) \cup ToSet(c) = SettledRows(o, ro)
    BY <1>12, <1>13, <1>14, Zenon DEF SettledRows, Judged
  <2> HIDE DEF a, b, c
  <2>3. a \o b \in Seq(DecisionRow) /\ ToSet(a \o b) = ToSet(a) \cup ToSet(b)
    BY <2>1, ToSetOfConcat
  <2> DEFINE ab == a \o b
  <2>4. ab \in Seq(DecisionRow) /\ ToSet(ab) = ToSet(a) \cup ToSet(b) /\ todo = ab \o c
    BY <2>3 DEF a, b, c
  <2> HIDE DEF ab, todo
  <2>5. ab \o c \in Seq(DecisionRow) /\ ToSet(ab \o c) = ToSet(ab) \cup ToSet(c)
    BY <2>1, <2>4, ToSetOfConcat
  <2> QED BY <2>2, <2>4, <2>5
<1>16. acc \in Seq(Entry) /\ ToSet(acc) = Acceptances(o, ro)
  <2>1. acc = Accepts(yes, o, ro)
    BY Zenon DEF Accepts, Acceptance
  <2>2. Acceptable(yes, o, ro)
    BY <1>3, <1>4, <1>5, <1>9 DEF Relevant, Acceptable
  <2> HIDE DEF acc, o, ro
  <2>3. ToSet(yes) \subseteq batch
    BY <1>9, <1>10
  <2>4. /\ Accepts(yes, o, ro) \in Seq(Entry)
        /\ ToSet(Accepts(yes, o, ro)) = {Acceptance(u, o, ro) : u \in ToSet(yes)}
    BY <1>9, <2>2, <2>3, AcceptsAre
  <2>5. {Acceptance(u, o, ro) : u \in ToSet(yes)} = Acceptances(o, ro)
    BY <1>9, Zenon DEF Acceptances, Judged
  <2> QED BY <2>1, <2>4, <2>5
<1>17. /\ gaps \in Nat /\ w.gaps <= gaps
       /\ ToSet(o.faults) \cup ToSet(o.missing) # {} => gaps > 0
  BY <1>2, GapsCount
<1> HIDE DEF s, todo, acc, gaps, o, ro
<1>18. /\ s.todo = todo /\ s.accepted = w.accepted \o acc /\ s.gaps = gaps
       /\ s = [w EXCEPT !.pc = "recording", !.todo = s.todo, !.accepted = s.accepted,
                        !.gaps = s.gaps]
  BY <1>1 DEF Work
<1>19. w.accepted \o acc \in Seq(Entry) /\ ToSet(w.accepted \o acc) = ToSet(w.accepted) \cup ToSet(acc)
  BY <1>2, <1>16, ToSetOfConcat
<1>20. /\ s = [w EXCEPT !.pc = "recording", !.todo = s.todo, !.accepted = s.accepted,
                        !.gaps = s.gaps]
       /\ s.todo \in Seq(DecisionRow) /\ s.accepted \in Seq(Entry)
       /\ ToSet(s.todo) = SettledRows(o, ro)
       /\ ToSet(s.accepted) = ToSet(w.accepted) \cup Acceptances(o, ro)
       /\ s.gaps \in Nat /\ w.gaps <= s.gaps
       /\ ToSet(o.faults) \cup ToSet(o.missing) # {} => s.gaps > 0
  BY <1>15, <1>16, <1>17, <1>18, <1>19
<1> QED BY <1>20, Zenon DEF s, o, ro

-----------------------------------------------------------------------------
(* What is gathered.                                                       *)

LEMMA PayloadsAre ==
  ASSUME payloads \in Responses
  PROVE  /\ payloads \in Seq(Payload) /\ Raws = 1..Len(payloads) /\ Len(payloads) \in Nat
         /\ IsFiniteSet(Raws)
         /\ \A r \in Raws :
              /\ payloads[r].kind \in {"list", "unparseable", "not a list"}
              /\ DOMAIN payloads[r].items = 1..Len(payloads[r].items)
              /\ Len(payloads[r].items) \in Nat
              /\ \A k \in DOMAIN payloads[r].items :
                   /\ payloads[r].items[k].kind \in {"post", "no url", "no object"}
                   /\ payloads[r].items[k].kind = "post" =>
                        /\ payloads[r].items[k].url \in Urls
                        /\ payloads[r].items[k].at \in Int
<1>1. payloads \in Seq(Payload)
  BY ResponsesAssumption
<1>2. Raws = 1..Len(payloads) /\ Len(payloads) \in Nat
  BY <1>1 DEF Raws
<1>3. IsFiniteSet(Raws)
  BY <1>2, FS_Interval
<1> DEFINE items == [kind : {"post"}, url : Urls, at : Nat \cup {Undated}]
                  \cup [kind : {"no url", "no object"}]
<1>4. ASSUME NEW r \in Raws
      PROVE  /\ payloads[r].kind \in {"list", "unparseable", "not a list"}
             /\ payloads[r].items \in Seq(items)
  <2>1. payloads[r] \in Payload
    BY <1>1, <1>2
  <2> QED BY <2>1 DEF Payload
<1>5. \A x \in items : /\ x.kind \in {"post", "no url", "no object"}
                       /\ x.kind = "post" => x.url \in Urls /\ x.at \in Int
  <2>1. \A x \in [kind : {"post"}, url : Urls, at : Nat \cup {Undated}] :
          x.kind = "post" /\ x.url \in Urls /\ x.at \in Nat \cup {Undated}
    OBVIOUS
  <2>2. \A x \in [kind : {"no url", "no object"}] : x.kind \in {"no url", "no object"}
    OBVIOUS
  <2>3. Nat \cup {Undated} \subseteq Int
    BY DEF Undated
  <2> QED BY <2>1, <2>2, <2>3
<1> HIDE DEF items
<1>6. \A r \in Raws : /\ DOMAIN payloads[r].items = 1..Len(payloads[r].items)
                      /\ Len(payloads[r].items) \in Nat
                      /\ \A k \in DOMAIN payloads[r].items : payloads[r].items[k] \in items
  <2> SUFFICES ASSUME NEW r \in Raws, NEW s, s = payloads[r].items
               PROVE  /\ DOMAIN s = 1..Len(s) /\ Len(s) \in Nat
                      /\ \A k \in DOMAIN s : s[k] \in items
    OBVIOUS
  <2>1. s \in Seq(items)
    BY <1>4
  <2> QED BY <2>1, LenProperties, ElementOfSeq
<1> QED BY <1>1, <1>2, <1>3, <1>4, <1>5, <1>6

LEMMA PlacesAre ==
  ASSUME payloads \in Responses
  PROVE  /\ IsFiniteSet(Places) /\ Places \in SUBSET (Int \X Int)
         /\ \A p \in Places :
              /\ p[1] \in Raws /\ iter = 1
              /\ \/ p[2] = 0 /\ payloads[p[1]].kind # "list"
                 \/ p[2] \in DOMAIN payloads[p[1]].items /\ p[2] # 0
                      /\ payloads[p[1]].kind = "list"
<1> DEFINE in == [r \in Raws |-> IF payloads[r].kind = "list"
                                THEN {r} \X DOMAIN payloads[r].items ELSE {<<r, 0>>}]
<1>1. /\ Raws = 1..Len(payloads) /\ Len(payloads) \in Nat /\ IsFiniteSet(Raws)
      /\ \A r \in Raws : /\ DOMAIN payloads[r].items = 1..Len(payloads[r].items)
                         /\ Len(payloads[r].items) \in Nat
  BY PayloadsAre
<1>2. ASSUME NEW r \in Raws PROVE IsFiniteSet(in[r])
  <2>1. CASE payloads[r].kind = "list"
    <3>1. IsFiniteSet(DOMAIN payloads[r].items) /\ IsFiniteSet({r})
      <4> DEFINE n == Len(payloads[r].items)
      <4>1. DOMAIN payloads[r].items = 1..n /\ n \in Int /\ 1 \in Int
        BY <1>1
      <4> HIDE DEF n
      <4>2. IsFiniteSet(1..n)
        BY <4>1, FS_Interval
      <4>3. IsFiniteSet({r})
        BY FS_Singleton
      <4> QED BY <4>1, <4>2, <4>3
    <3>2. IsFiniteSet({r} \X DOMAIN payloads[r].items)
      BY <3>1, FS_Product
    <3> QED BY <2>1, <3>2
  <2>2. CASE payloads[r].kind # "list"
    BY <2>2, FS_Singleton
  <2> QED BY <2>1, <2>2
<1>3. Places = IF iter # 1 THEN {} ELSE UNION {in[r] : r \in Raws}
  BY DEF Places
<1>4. ASSUME NEW r \in Raws, NEW p \in in[r]
      PROVE  /\ p[1] = r /\ p \in Int \X Int
             /\ \/ p[2] = 0 /\ payloads[r].kind # "list"
                \/ p[2] \in DOMAIN payloads[r].items /\ p[2] # 0 /\ payloads[r].kind = "list"
  <2>1. CASE payloads[r].kind = "list"
    BY <2>1, <1>1
  <2>2. CASE payloads[r].kind # "list"
    BY <2>2, <1>1
  <2> QED BY <2>1, <2>2
<1> HIDE DEF in
<1>5. IsFiniteSet(UNION {in[r] : r \in Raws})
  <2>1. IsFiniteSet({in[r] : r \in Raws})
    BY <1>1, ImageIsFinite
  <2>2. \A T \in {in[r] : r \in Raws} : IsFiniteSet(T)
    BY <1>2
  <2> QED BY <2>1, <2>2, FS_UNION
<1> QED BY <1>3, <1>4, <1>5, FS_EmptySet

LEMMA PostsAre ==
  ASSUME payloads \in Responses
  PROVE  /\ IsFiniteSet(Posts) /\ Posts \in SUBSET (Int \X Int)
         /\ \A p \in Posts :
              /\ p[1] \in Raws /\ p[2] \in DOMAIN payloads[p[1]].items
              /\ Item(p).kind = "post" /\ Item(p).url \in Urls /\ Item(p).at \in Int
              /\ Held(p[1], Item(p).url) /\ Item(p).url \notin triaged_urls /\ iter = 1
<1>1. /\ IsFiniteSet(Places) /\ Places \in SUBSET (Int \X Int)
      /\ \A p \in Places :
           /\ p[1] \in Raws /\ iter = 1
           /\ \/ p[2] = 0 /\ payloads[p[1]].kind # "list"
              \/ p[2] \in DOMAIN payloads[p[1]].items /\ p[2] # 0
                   /\ payloads[p[1]].kind = "list"
  BY PlacesAre
<1>2. Posts \in SUBSET Places
  BY DEF Posts
<1>3. IsFiniteSet(Posts)
  BY <1>1, <1>2, FS_Subset
<1>4. ASSUME NEW p \in Posts
      PROVE  /\ p[1] \in Raws /\ p[2] \in DOMAIN payloads[p[1]].items
             /\ Item(p).kind = "post" /\ Item(p).url \in Urls /\ Item(p).at \in Int
             /\ Held(p[1], Item(p).url) /\ Item(p).url \notin triaged_urls /\ iter = 1
  <2>1. Kind(p) = "post" /\ Item(p).url \notin triaged_urls /\ p \in Places
    BY DEF Posts
  <2>2. p[1] \in Raws /\ iter = 1
    BY <1>1, <2>1
  <2>3. p[2] # 0
    <3>1. payloads[p[1]].kind # "post"
      BY <2>2, PayloadsAre
    <3> QED BY <2>1, <3>1 DEF Kind
  <2>4. p[2] \in DOMAIN payloads[p[1]].items /\ Item(p).kind = "post"
    BY <1>1, <2>1, <2>3 DEF Kind
  <2>5. Item(p).url \in Urls /\ Item(p).at \in Int
    <3>1. \A r \in Raws : \A k \in DOMAIN payloads[r].items :
            payloads[r].items[k].kind = "post" =>
              payloads[r].items[k].url \in Urls /\ payloads[r].items[k].at \in Int
      BY PayloadsAre
    <3> QED BY <2>2, <2>4, <3>1 DEF Item
  <2> QED BY <2>1, <2>2, <2>4, <2>5 DEF Held, Item
<1> QED BY <1>1, <1>2, <1>3, <1>4

LEMMA RepresentativeIs ==
  ASSUME payloads \in Responses, NEW p \in Posts
  PROVE  LET q == Representative(Item(p).url) IN q \in Posts /\ Item(q).url = Item(p).url
<1> DEFINE u == Item(p).url
           copies == {q \in Posts : Item(q).url = u}
           below == [x \in copies |-> {y \in copies : Fresher(y, x)}]
<1>1. /\ IsFiniteSet(copies) /\ copies # {}
      /\ \A x \in copies : /\ Item(x).at \in Int /\ x[1] \in Int /\ x[2] \in Int
                           /\ x = <<x[1], x[2]>>
  <2>1. /\ IsFiniteSet(Posts) /\ Posts \in SUBSET (Int \X Int)
        /\ \A q \in Posts : Item(q).at \in Int
    BY PostsAre
  <2>2. copies \in SUBSET Posts /\ p \in copies
    OBVIOUS
  <2>3. IsFiniteSet(copies)
    BY <2>1, <2>2, FS_Subset
  <2>4. \A x \in Posts : x[1] \in Int /\ x[2] \in Int /\ x = <<x[1], x[2]>>
    BY <2>1
  <2> HIDE DEF copies
  <2> QED BY <2>1, <2>2, <2>3, <2>4
<1> HIDE DEF copies
<1>2. \A x, y \in copies : y \in below[x] <=> Fresher(y, x)
  OBVIOUS
<1>3. below \in [copies -> SUBSET copies]
  OBVIOUS
<1> HIDE DEF below
<1>4. \A x \in copies : ~Fresher(x, x)
  BY <1>1 DEF Fresher, Before
<1>5. \A x, y \in copies : x # y => Fresher(x, y) \/ Fresher(y, x)
  BY <1>1 DEF Fresher, Before
<1>6. \A x, y, z \in copies : Fresher(x, y) /\ Fresher(y, z) => Fresher(x, z)
  BY <1>1 DEF Fresher, Before
<1>7. \A x, y \in copies : x \in below[y] => below[x] \subseteq below[y]
  <2> SUFFICES ASSUME NEW x \in copies, NEW y \in copies, x \in below[y], NEW z \in below[x]
               PROVE  z \in below[y]
    OBVIOUS
  <2>1. z \in copies
    BY <1>3
  <2> QED BY <2>1, <1>2, <1>6
<1>8. StrictOrder(copies, below)
  BY <1>2, <1>3, <1>4, <1>5, <1>7 DEF StrictOrder
<1>9. \E x \in copies : below[x] = {}
  BY <1>1, <1>8, LowestExists
<1>10. \E x \in copies : \A y \in copies : ~Fresher(y, x)
  BY <1>2, <1>9
<1> DEFINE q == Representative(u)
<1>11. q = CHOOSE x \in copies : \A y \in copies : ~Fresher(y, x)
  BY Zenon DEF Representative, copies
<1> HIDE DEF q
<1>12. q \in copies
  BY <1>10, <1>11
<1> QED BY <1>12 DEF q, copies

\* Of every url one place is the first.
LEMMA FirstsDiffer ==
  ASSUME payloads \in Responses, NEW p \in Firsts, NEW q \in Firsts,
         Item(p).url = Item(q).url
  PROVE  p = q
<1>1. p \in Posts /\ q \in Posts
  BY DEF Firsts
<1>2. /\ p[1] \in Int /\ p[2] \in Int /\ p = <<p[1], p[2]>>
      /\ q[1] \in Int /\ q[2] \in Int /\ q = <<q[1], q[2]>>
  <2>1. Posts \in SUBSET (Int \X Int)
    BY PostsAre
  <2> QED BY <1>1, <2>1
<1>3. ~Before(p, q) /\ ~Before(q, p)
  BY <1>1 DEF Firsts
<1> QED BY <1>2, <1>3 DEF Before

LEMMA ChosenIs ==
  ASSUME payloads \in Responses, NEW p \in Posts
  PROVE  /\ Chosen(p) \in Post /\ Chosen(p).url = Item(p).url
         /\ Chosen(p).url \notin triaged_urls
<1> DEFINE q == Representative(Item(p).url)
<1>1. q \in Posts /\ Item(q).url = Item(p).url
  BY RepresentativeIs
<1>2. /\ q[1] \in Raws /\ Item(q).at \in Int /\ Item(q).url \in Urls
      /\ Held(q[1], Item(q).url) /\ Item(q).url \notin triaged_urls
  BY <1>1, PostsAre
<1> HIDE DEF q
<1>3. Chosen(p) = [url |-> Item(p).url, raw |-> q[1], at |-> Item(q).at]
  BY DEF Chosen, q
<1> QED BY <1>1, <1>2, <1>3 DEF Post

Refused == {p \in Structural : ~Recorded(Refusal(p))}
Outdated == {p \in Firsts : Stale(Chosen(p)) /\ ~Recorded(Aged(p))}
Fresh == {p \in Firsts : ~Stale(Chosen(p))}
Gathered == [n \in DOMAIN InPlace(Fresh) |-> Chosen(InPlace(Fresh)[n])]
Refusals == [n \in DOMAIN InPlace(Refused) |-> Refusal(InPlace(Refused)[n])]
AgedOut == [n \in DOMAIN InPlace(Outdated) |-> Aged(InPlace(Outdated)[n])]

LEMMA GatheredAre ==
  ASSUME payloads \in Responses
  PROVE  /\ Gathered \in Seq(Post) /\ Different(Gathered)
         /\ ToSet(Gathered) = {Chosen(p) : p \in Fresh}
         /\ \A x \in ToSet(Gathered) : x.url \notin triaged_urls /\ iter = 1
<1> DEFINE s == InPlace(Fresh)
           t == Gathered
<1>1. IsFiniteSet(Posts) /\ Posts \in SUBSET (Int \X Int) /\ \A p \in Posts : iter = 1
  BY PostsAre
<1>2. Fresh \in SUBSET Posts /\ Fresh \in SUBSET Firsts
  BY DEF Fresh, Firsts
<1>3. Fresh \in SUBSET (Int \X Int) /\ IsFiniteSet(Fresh)
  BY <1>1, <1>2, FS_Subset
<1>4. Lists(s, Fresh)
  BY <1>3, InPlaceLists
<1> HIDE DEF s
<1>5. DOMAIN s = 1..Len(s) /\ Len(s) \in Nat /\ ToSet(s) = Fresh
  BY <1>4, ListsRange
<1>6. \A n \in DOMAIN s : s[n] \in Fresh
  BY <1>5 DEF ToSet
<1>7. t = [n \in DOMAIN s |-> Chosen(s[n])]
  BY DEF Gathered, s
<1>8. \A n \in DOMAIN s : /\ t[n] \in Post /\ t[n].url = Item(s[n]).url
                          /\ t[n].url \notin triaged_urls /\ iter = 1
  BY <1>1, <1>2, <1>6, <1>7, ChosenIs
<1>9. t \in [1..Len(s) -> Post]
  BY <1>5, <1>7, <1>8
<1>10. t \in Seq(Post) /\ DOMAIN t = DOMAIN s
  BY <1>5, <1>9
<1>11. ToSet(t) = {Chosen(p) : p \in Fresh}
  <2>1. Fresh = {s[n] : n \in DOMAIN s}
    BY <1>5 DEF ToSet
  <2> QED BY <1>7, <1>10, <2>1 DEF ToSet
<1>12. Different(t)
  <2> SUFFICES ASSUME NEW i \in DOMAIN s, NEW j \in DOMAIN s, t[i].url = t[j].url
               PROVE  i = j
    BY <1>10 DEF Different
  <2>1. s[i] \in Firsts /\ s[j] \in Firsts /\ Item(s[i]).url = Item(s[j]).url
    BY <1>2, <1>6, <1>8
  <2>2. s[i] = s[j]
    BY <2>1, FirstsDiffer
  <2> QED BY <2>2, <1>4 DEF Lists
<1>13. \A x \in ToSet(t) : x.url \notin triaged_urls /\ iter = 1
  BY <1>8, <1>10 DEF ToSet
<1> QED BY <1>10, <1>11, <1>12, <1>13

\* Of a place that holds no post, the row says why.
LEMMA RefusalIs ==
  ASSUME payloads \in Responses, iter \in Iterations, NEW p \in Structural
  PROVE  /\ Refusal(p) \in SkipRow /\ Refusal(p).iter = iter /\ iter = 1
         /\ Refusal(p).raw = p[1] /\ Refusal(p).reason = Kind(p)
<1>1. p \in Places /\ Kind(p) # "post"
  BY DEF Structural
<1>2. /\ p[1] \in Raws /\ iter = 1
      /\ \/ p[2] = 0 /\ payloads[p[1]].kind # "list"
         \/ p[2] \in DOMAIN payloads[p[1]].items /\ p[2] # 0
              /\ payloads[p[1]].kind = "list"
  BY <1>1, PlacesAre
<1>3. Kind(p) \in Reasons
  <2>1. CASE p[2] = 0 /\ payloads[p[1]].kind # "list"
    <3>1. payloads[p[1]].kind \in {"list", "unparseable", "not a list"}
      BY <1>2, PayloadsAre
    <3> QED BY <2>1, <3>1 DEF Kind, Reasons
  <2>2. CASE p[2] \in DOMAIN payloads[p[1]].items /\ p[2] # 0
    <3>1. \A r \in Raws : \A k \in DOMAIN payloads[r].items :
            payloads[r].items[k].kind \in {"post", "no url", "no object"}
      BY PayloadsAre
    <3>2. payloads[p[1]].items[p[2]].kind \in {"post", "no url", "no object"}
      BY <1>2, <2>2, <3>1
    <3> QED BY <1>1, <2>2, <3>2 DEF Kind, Item, Reasons
  <2> QED BY <1>2, <2>1, <2>2
<1> QED BY <1>2, <1>3 DEF Refusal, Skip, SkipRow

LEMMA AgedIs ==
  ASSUME payloads \in Responses, iter \in Iterations, NEW p \in Posts
  PROVE  /\ Aged(p) \in SkipRow /\ Aged(p).iter = iter /\ iter = 1
         /\ Aged(p).reason = "stale" /\ Aged(p).url = Item(p).url
<1>1. Chosen(p).raw \in Raws
  BY ChosenIs DEF Post
<1>2. Item(p).url \in Urls /\ iter = 1
  BY PostsAre
<1> QED BY <1>1, <1>2 DEF Aged, Skip, SkipRow, Reasons

LEMMA SkipsAre ==
  ASSUME payloads \in Responses, iter \in Iterations
  PROVE  /\ Refusals \o AgedOut \in Seq(SkipRow)
         /\ ToSet(Refusals \o AgedOut)
              = {Refusal(p) : p \in Refused} \cup {Aged(p) : p \in Outdated}
<1>1. Refusals \in Seq(SkipRow) /\ ToSet(Refusals) = {Refusal(p) : p \in Refused}
  <2> DEFINE s == InPlace(Refused)
             t == Refusals
  <2>1. IsFiniteSet(Places) /\ Places \in SUBSET (Int \X Int)
    BY PlacesAre
  <2>2. Refused \in SUBSET Places /\ Refused \in SUBSET Structural
    BY DEF Refused, Structural
  <2>3. Refused \in SUBSET (Int \X Int) /\ IsFiniteSet(Refused)
    BY <2>1, <2>2, FS_Subset
  <2>4. Lists(s, Refused)
    BY <2>3, InPlaceLists
  <2> HIDE DEF s
  <2>5. DOMAIN s = 1..Len(s) /\ Len(s) \in Nat /\ ToSet(s) = Refused
    BY <2>4, ListsRange
  <2>6. \A n \in DOMAIN s : s[n] \in Refused
    BY <2>5 DEF ToSet
  <2>7. t = [n \in DOMAIN s |-> Refusal(s[n])]
    BY DEF Refusals, s
  <2>8. \A n \in DOMAIN s : t[n] \in SkipRow
    BY <2>2, <2>6, <2>7, RefusalIs
  <2>9. t \in [1..Len(s) -> SkipRow]
    BY <2>5, <2>7, <2>8
  <2>10. t \in Seq(SkipRow) /\ DOMAIN t = DOMAIN s
    BY <2>5, <2>9
  <2>11. Refused = {s[n] : n \in DOMAIN s}
    BY <2>5 DEF ToSet
  <2> QED BY <2>7, <2>10, <2>11 DEF ToSet
<1>2. AgedOut \in Seq(SkipRow) /\ ToSet(AgedOut) = {Aged(p) : p \in Outdated}
  <2> DEFINE s == InPlace(Outdated)
             t == AgedOut
  <2>1. IsFiniteSet(Posts) /\ Posts \in SUBSET (Int \X Int)
    BY PostsAre
  <2>2. Outdated \in SUBSET Posts
    BY DEF Outdated, Firsts
  <2>3. Outdated \in SUBSET (Int \X Int) /\ IsFiniteSet(Outdated)
    BY <2>1, <2>2, FS_Subset
  <2>4. Lists(s, Outdated)
    BY <2>3, InPlaceLists
  <2> HIDE DEF s
  <2>5. DOMAIN s = 1..Len(s) /\ Len(s) \in Nat /\ ToSet(s) = Outdated
    BY <2>4, ListsRange
  <2>6. \A n \in DOMAIN s : s[n] \in Outdated
    BY <2>5 DEF ToSet
  <2>7. t = [n \in DOMAIN s |-> Aged(s[n])]
    BY DEF AgedOut, s
  <2>8. \A n \in DOMAIN s : t[n] \in SkipRow
    BY <2>2, <2>6, <2>7, AgedIs
  <2>9. t \in [1..Len(s) -> SkipRow]
    BY <2>5, <2>7, <2>8
  <2>10. t \in Seq(SkipRow) /\ DOMAIN t = DOMAIN s
    BY <2>5, <2>9
  <2>11. Outdated = {s[n] : n \in DOMAIN s}
    BY <2>5 DEF ToSet
  <2> QED BY <2>7, <2>10, <2>11 DEF ToSet
<1> DEFINE a == Refusals
           b == AgedOut
<1>3. a \in Seq(SkipRow) /\ b \in Seq(SkipRow)
  BY <1>1, <1>2
<1> HIDE DEF a, b
<1>4. a \o b \in Seq(SkipRow) /\ ToSet(a \o b) = ToSet(a) \cup ToSet(b)
  BY <1>3, ToSetOfConcat
<1>5. a \o b \in Seq(SkipRow)
      /\ ToSet(a \o b) = {Refusal(p) : p \in Refused} \cup {Aged(p) : p \in Outdated}
  BY <1>1, <1>2, <1>4 DEF a, b
<1> QED BY <1>5 DEF a, b

\* What a re-triage reads of a decision is a post of its payload.
LEMMA StoredIs ==
  ASSUME payloads \in Responses, NEW d \in DecisionRow
  PROVE  Stored(d) \in Post /\ Stored(d).url = d.url
<1> DEFINE items == payloads[d.raw].items
           copies == {k \in DOMAIN items : items[k].kind = "post" /\ items[k].url = d.url}
           n == Len(items)
           k == Ascending(copies)[1]
<1>1. d.raw \in Raws /\ d.url \in Urls /\ Held(d.raw, d.url)
  BY DEF DecisionRow
<1>2. /\ DOMAIN items = 1..n /\ n \in Nat
      /\ \A i \in DOMAIN items : items[i].kind = "post" => items[i].at \in Int
  BY <1>1, PayloadsAre
<1>3. copies # {}
  BY <1>1 DEF Held
<1> HIDE DEF items, n
<1>4. copies \in SUBSET (1..n) /\ copies \in SUBSET Int
  BY <1>2
<1>5. IsFiniteSet(1..n)
  BY <1>2, FS_Interval
<1>6. IsFiniteSet(copies)
  BY <1>4, <1>5, FS_Subset
<1> HIDE DEF copies
<1>7. Lists(Ascending(copies), copies)
  BY <1>4, <1>6, AscendingLists
<1>8. /\ DOMAIN Ascending(copies) = 1..Len(Ascending(copies))
      /\ ToSet(Ascending(copies)) = copies /\ Len(Ascending(copies)) \in Nat
  BY <1>7, ListsRange
<1>9. 1 \in DOMAIN Ascending(copies)
  BY <1>3, <1>8 DEF ToSet
<1>10. k \in copies
  BY <1>8, <1>9 DEF ToSet
<1> HIDE DEF k
<1>11. items[k].at \in Int
  BY <1>2, <1>10 DEF copies
<1>12. Stored(d) = [url |-> d.url, raw |-> d.raw, at |-> items[k].at]
  BY DEF Stored, items, copies, k
<1> QED BY <1>1, <1>11, <1>12 DEF Post

\* The posts of a re-triage.
Retried(held) == [n \in DOMAIN Ascending(held) |-> Stored(decisions[Ascending(held)[n]])]

LEMMA RetriedAre ==
  ASSUME payloads \in Responses, decisions \in Seq(DecisionRow),
         NEW held \in SUBSET (DOMAIN decisions)
  PROVE  Retried(held) \in Seq(Post)
<1> DEFINE s == Ascending(held)
<1>1. DOMAIN decisions = 1..Len(decisions) /\ Len(decisions) \in Nat
  OBVIOUS
<1>2. held \in SUBSET Int /\ IsFiniteSet(1..Len(decisions))
  BY <1>1, FS_Interval
<1>3. IsFiniteSet(held)
  BY <1>1, <1>2, FS_Subset
<1>4. Lists(s, held)
  BY <1>2, <1>3, AscendingLists
<1> HIDE DEF s
<1>5. DOMAIN s = 1..Len(s) /\ Len(s) \in Nat /\ ToSet(s) = held
  BY <1>4, ListsRange
<1>6. \A n \in DOMAIN s : s[n] \in held
  BY <1>5 DEF ToSet
<1>7. \A n \in DOMAIN s : Stored(decisions[s[n]]) \in Post
  BY <1>1, <1>6, StoredIs
<1>8. Retried(held) \in [1..Len(s) -> Post]
  BY <1>5, <1>7 DEF Retried, s
<1> QED BY <1>5, <1>8

-----------------------------------------------------------------------------
(* What a run of the stage holds.                                          *)

BatchLen(posts) == IF BatchSize <= Len(posts) THEN BatchSize ELSE Len(posts)
CitiesOf(accepted) == UNION {e.item.cities : e \in ToSet(accepted)}

LEMMA CitiesAre ==
  ASSUME NEW accepted \in Seq(Entry)
  PROVE  /\ CitiesOf(accepted) = UNION {accepted[i].item.cities : i \in DOMAIN accepted}
         /\ CitiesOf(accepted) \in SUBSET Named
<1>1. ToSet(accepted) \subseteq Entry
  BY ToSetIn
<1>2. CitiesOf(accepted) = UNION {accepted[i].item.cities : i \in DOMAIN accepted}
  BY DEF CitiesOf, ToSet
<1>3. \A e \in Entry : e.item \in Judgements
  BY DEF Entry, Relevant
<1> QED BY <1>1, <1>2, <1>3 DEF CitiesOf, Named

LEMMA NextBatchIs ==
  ASSUME NEW w \in Work
  PROVE  /\ NextBatch(w) \in Work
         /\ w.posts = <<>> =>
              NextBatch(w) = [w EXCEPT !.pc = "admitting", !.names = CitiesOf(w.accepted)]
         /\ w.posts # <<>> =>
              /\ BatchLen(w.posts) \in Nat \ {0}
              /\ NextBatch(w) =
                   [w EXCEPT !.pc = "judging", !.size = BatchLen(w.posts), !.at = 1,
                             !.asked = @ + BatchLen(w.posts), !.outcome = Nothing,
                             !.receiptOf = <<>>]
<1>1. w.posts \in Seq(Post) /\ w.accepted \in Seq(Entry)
  BY DEF Work
<1>2. /\ CitiesOf(w.accepted) = UNION {w.accepted[i].item.cities : i \in DOMAIN w.accepted}
      /\ CitiesOf(w.accepted) \in SUBSET Named
  BY <1>1, CitiesAre
<1>3. CASE w.posts = <<>>
  <2>1. NextBatch(w) = [w EXCEPT !.pc = "admitting", !.names = CitiesOf(w.accepted)]
    BY <1>2, <1>3, Zenon DEF NextBatch
  <2>2. "admitting" \in Pcs
    BY DEF Pcs
  <2>3. NextBatch(w) \in Work
    BY <1>2, <2>1, <2>2 DEF Work
  <2> QED BY <1>3, <2>1, <2>3
<1>4. CASE w.posts # <<>>
  <2> DEFINE n == BatchLen(w.posts)
  <2>1. Len(w.posts) \in Nat \ {0} /\ BatchSize \in Nat \ {0}
    BY <1>1, <1>4, BoundsAssumption
  <2>2. n \in Nat \ {0} /\ Min({BatchSize, Len(w.posts)}) = n
    BY <2>1, MinOfTwo DEF BatchLen
  <2> HIDE DEF n
  <2>3. NextBatch(w) = [w EXCEPT !.pc = "judging", !.size = n, !.at = 1, !.asked = @ + n,
                                 !.outcome = Nothing, !.receiptOf = <<>>]
    BY <1>4, <2>2, Zenon DEF NextBatch
  <2>4. "judging" \in Pcs /\ 1 \in Nat /\ w.asked + n \in Nat
    BY <2>2 DEF Pcs, Work
  <2>5. Nothing \in Outcome /\ <<>> \in Partial(Urls, Nat)
    BY NothingIsOutcome, EmptyPartial
  <2> DEFINE k == w.asked + n
             nothing == Nothing
             empty == <<>>
  <2> HIDE DEF k, nothing, empty
  <2>6. /\ "judging" \in Pcs /\ 1 \in Nat /\ k \in Nat /\ n \in Nat
        /\ nothing \in Outcome /\ empty \in Partial(Urls, Nat)
    BY <2>2, <2>4, <2>5 DEF k, nothing, empty
  <2>7. [w EXCEPT !.pc = "judging", !.size = n, !.at = 1, !.asked = k, !.outcome = nothing,
                  !.receiptOf = empty] \in Work
    BY <2>6 DEF Work
  <2>8. NextBatch(w) \in Work
    BY <2>3, <2>7, Zenon DEF k, nothing, empty
  <2> QED BY <1>4, <2>2, <2>3, <2>8 DEF n
<1> QED BY <1>3, <1>4

\* No row is of an iteration to come, and what it refers to is there.
Settles(d) == d.iter <= iter /\ d.signal <= Len(signals) /\ d.receipt \in DOMAIN receipts

RefInv ==
  /\ work.parent < iter
  /\ \A s \in ToSet(skips) : s.iter <= iter
  /\ \A d \in ToSet(decisions) : Settles(d)
  /\ \A e \in ToSet(work.accepted) : e.receipt \in DOMAIN receipts
  /\ ToSet(work.entries) \subseteq ToSet(work.accepted)
  /\ \A u \in DOMAIN work.signalOf : work.signalOf[u] <= Len(signals)

\* What there is to do is of the phase, and of the iteration.
TodoInv ==
  /\ work.pc = "skipping" => work.todo \in Seq(SkipRow)
  /\ work.pc # "skipping" => /\ work.todo \in Seq(DecisionRow)
                             /\ \A d \in ToSet(work.todo) : Settles(d)
  /\ work.pc \notin {"skipping", "recording", "accepting"} => work.todo = <<>>
  /\ \A d \in ToSet(work.todo) : d.iter = iter

\* A batch that is asked about is there, and all that was asked so far is answered.
AskInv ==
  work.pc = "judging" =>
    /\ work.size \in Nat \ {0} /\ work.at \in 1..BatchLen(work.posts)
    /\ Told(work.posts, work.at - 1, iter, receipts, work.outcome, work.receiptOf)

PhaseInv ==
  /\ work.pc \in {"gather", "interrupted"} =>
       work = [Idle(work.pc) EXCEPT !.parent = work.parent]
  /\ work.pc = "skipping" => work.accepted = <<>>
  /\ work.pc \in {"judging", "recording"} => work.posts # <<>>
  /\ work.pc \in {"admitting", "locating", "accepting", "closed"} => work.posts = <<>>
  /\ work.names \subseteq CitiesOf(work.accepted)
  /\ work.pc = "locating" => work.entries # <<>>
  /\ iter = 1 => Different(work.posts)

Shape == TypeInv /\ RefInv /\ TodoInv /\ AskInv /\ PhaseInv

\* What is collected changes no more, and with it the types.
LEMMA TypesStay ==
  ASSUME payloads' = payloads
  PROVE  /\ Post' = Post /\ SkipRow' = SkipRow /\ DecisionRow' = DecisionRow
         /\ Entry' = Entry /\ Work' = Work /\ Raws' = Raws
<1>1. Raws' = Raws
  BY DEF Raws
<1>2. Post' = Post /\ DecisionRow' = DecisionRow /\ SkipRow' = SkipRow
  BY <1>1 DEF Post, DecisionRow, SkipRow, Held
<1>3. Entry' = Entry
  BY <1>2 DEF Entry
<1>4. Work' = Work
  BY <1>2, <1>3 DEF Work
<1> QED BY <1>1, <1>2, <1>3, <1>4

LEMMA RecordFields ==
  ASSUME NEW w \in Work
  PROVE  /\ w.pc \in Pcs /\ w.parent \in Nat /\ w.posts \in Seq(Post)
         /\ w.todo \in Seq(SkipRow \cup DecisionRow) /\ w.size \in Nat /\ w.at \in Nat
         /\ w.outcome \in Outcome /\ w.receiptOf \in Partial(Urls, Nat)
         /\ w.accepted \in Seq(Entry) /\ w.gaps \in Nat /\ w.names \in SUBSET Named
         /\ w.entries \in Seq(Entry) /\ w.city \in Named \cup {Unknown}
         /\ w.signalOf \in Partial(Urls, Nat) /\ w.asked \in Nat /\ w.calls \in Nat
BY DEF Work

LEMMA OfNothing ==
  /\ CitiesOf(<<>>) = {} /\ ToSet(<<>>) = {} /\ Different(<<>>) /\ DOMAIN <<>> = {}
BY DEF CitiesOf, ToSet, Different

LEMMA NotAChild ==
  ASSUME NEW w \in Work, w.parent = 0
  PROVE  w = [w EXCEPT !.parent = 0]
BY DEF Work

\* A run that starts, or one that is over.
LEMMA ShapeOfIdle ==
  ASSUME TypeInv', work.parent' < iter',
         \A s \in ToSet(skips)' : s.iter <= iter', \A d \in ToSet(decisions)' : Settles(d)',
         work.pc' \in {"gather", "interrupted"},
         work' = [Idle(work.pc') EXCEPT !.parent = work.parent']
  PROVE  Shape'
<1> DEFINE w == work'
<1>1. w \in Work' /\ w = [Idle(w.pc) EXCEPT !.parent = w.parent]
  BY DEF TypeInv
<1>2. /\ w.posts = <<>> /\ w.todo = <<>> /\ w.accepted = <<>> /\ w.entries = <<>>
      /\ w.names = {} /\ w.signalOf = <<>>
  <2> DEFINE pc == w.pc
             parent == w.parent
  <2>1. w = [Idle(pc) EXCEPT !.parent = parent]
    BY <1>1
  <2> HIDE DEF pc, parent, w
  <2> QED BY <2>1 DEF Idle
<1>3. CitiesOf(<<>>) = {} /\ ToSet(<<>>) = {} /\ Different(<<>>) /\ DOMAIN <<>> = {}
  BY OfNothing
<1>4. RefInv'
  BY <1>2, <1>3 DEF RefInv
<1>5. TodoInv'
  <2>1. <<>> \in Seq(SkipRow)' /\ <<>> \in Seq(DecisionRow)'
    OBVIOUS
  <2> QED BY <2>1, <1>2, <1>3 DEF TodoInv
<1>6. AskInv'
  BY DEF AskInv
<1>7. PhaseInv'
  BY <1>1, <1>2, <1>3 DEF PhaseInv
<1> QED BY <1>4, <1>5, <1>6, <1>7 DEF Shape

LEMMA ShapeInit == ASSUME Init PROVE Shape
<1>1. /\ Idle("gather") \in Work /\ Idle("gather").pc = "gather"
      /\ Idle("gather").parent = 0 /\ Idle("gather").posts = <<>>
      /\ Idle("gather").todo = <<>> /\ Idle("gather").accepted = <<>>
      /\ Idle("gather").names = {} /\ Idle("gather").entries = <<>>
      /\ Idle("gather").signalOf = <<>>
  BY IdleIs DEF Pcs
<1>2. work = Idle("gather") /\ skips = <<>> /\ decisions = <<>> /\ signals = <<>>
      /\ receipts = <<>> /\ iter = 1
  BY DEF Init
<1>3. 1 \in Iterations /\ Start \in Start..(Start + MaxHours) /\ 0 \in 0..MaxUpsets
  BY BoundsAssumption DEF Iterations
<1>4. TypeInv
  <2>1. notes \in [Iterations -> SUBSET Notes] /\ kept \subseteq Raws
    BY DEF Init
  <2>2. /\ skips \in Seq(SkipRow) /\ decisions \in Seq(DecisionRow)
        /\ signals \in Seq(Signal) /\ receipts \in Seq(Receipt)
    BY <1>2
  <2> QED BY <1>1, <1>2, <1>3, <2>1, <2>2 DEF TypeInv, Init
<1>5. CitiesOf(<<>>) = {} /\ ToSet(<<>>) = {} /\ Different(<<>>) /\ DOMAIN <<>> = {}
  BY OfNothing
<1>6. RefInv
  BY <1>1, <1>2, <1>5 DEF RefInv
<1>7. TodoInv
  <2>1. <<>> \in Seq(SkipRow) /\ <<>> \in Seq(DecisionRow)
    OBVIOUS
  <2> QED BY <2>1, <1>1, <1>2, <1>5 DEF TodoInv
<1>8. AskInv
  BY <1>1, <1>2 DEF AskInv
<1>9. work = [Idle(work.pc) EXCEPT !.parent = work.parent]
  <2>1. work.pc = "gather" /\ work.parent = 0
    BY <1>1, <1>2
  <2>2. Idle("gather") = [Idle("gather") EXCEPT !.parent = 0]
    BY <1>1, NotAChild
  <2> QED BY <1>2, <2>1, <2>2
<1>10. PhaseInv
  BY <1>1, <1>2, <1>5, <1>9 DEF PhaseInv
<1> QED BY <1>4, <1>6, <1>7, <1>8, <1>10 DEF Shape

LEMMA NoteKeepsType ==
  ASSUME TypeInv, NEW note \in Notes, NEW applies, Note(note, applies)
  PROVE  notes' \in [Iterations -> SUBSET Notes]
BY DEF TypeInv, Note

LEMMA ShapeCrash ==
  ASSUME Shape, Crash
  PROVE  Shape'
<1>1. /\ work' = Idle("interrupted") /\ crashes' = crashes + 1 /\ MayUpset
      /\ UNCHANGED <<skips, decisions, signals, admitted, receipts, payloads, iter, kept,
                     hour>>
  BY DEF Crash
<1>2. /\ Idle("interrupted") \in Work /\ Idle("interrupted").pc = "interrupted"
      /\ Idle("interrupted").parent = 0
  BY IdleIs DEF Pcs
<1>3. notes' \in [Iterations -> SUBSET Notes]
  BY NoteKeepsType DEF Crash, Shape, Notes
<1>4. crashes' \in 0..MaxUpsets
  BY <1>1, BoundsAssumption DEF Shape, TypeInv, MayUpset, Iterations
<1>5. /\ SkipRow' = SkipRow /\ DecisionRow' = DecisionRow /\ Work' = Work /\ Raws' = Raws
  BY <1>1, TypesStay
<1>6. TypeInv'
  BY <1>1, <1>2, <1>3, <1>4, <1>5 DEF Shape, TypeInv
<1>7. iter \in Iterations /\ 0 < iter
  BY BoundsAssumption DEF Shape, TypeInv, Iterations
<1>8. work'.parent < iter'
  BY <1>1, <1>2, <1>7
<1>9. work' = [Idle(work'.pc) EXCEPT !.parent = work'.parent]
  <2>1. work'.pc = "interrupted" /\ work'.parent = 0
    BY <1>1, <1>2
  <2>2. Idle("interrupted") = [Idle("interrupted") EXCEPT !.parent = 0]
    BY <1>2, NotAChild
  <2> QED BY <1>1, <2>1, <2>2
<1>10. \A s \in ToSet(skips)' : s.iter <= iter'
  BY <1>1 DEF Shape, RefInv
<1>11. \A d \in ToSet(decisions)' : Settles(d)'
  BY <1>1 DEF Shape, RefInv, Settles
<1> QED BY <1>1, <1>2, <1>6, <1>8, <1>9, <1>10, <1>11, ShapeOfIdle

LEMMA ShapeResume ==
  ASSUME Shape, Resume
  PROVE  Shape'
<1>1. work' = Idle("gather") /\ UNCHANGED <<rows, world>>
  BY DEF Resume
<1>2. /\ Idle("gather") \in Work /\ Idle("gather").pc = "gather"
      /\ Idle("gather").parent = 0
  BY IdleIs DEF Pcs
<1>3. /\ SkipRow' = SkipRow /\ DecisionRow' = DecisionRow /\ Work' = Work /\ Raws' = Raws
  BY <1>1, TypesStay DEF world
<1>4. TypeInv'
  BY <1>1, <1>2, <1>3 DEF Shape, TypeInv, rows, world
<1>5. iter' = iter /\ iter \in Iterations /\ 0 < iter
  BY <1>1, BoundsAssumption DEF Shape, TypeInv, Iterations, world
<1>6. work' = [Idle(work'.pc) EXCEPT !.parent = work'.parent]
  <2>1. work'.pc = "gather" /\ work'.parent = 0
    BY <1>1, <1>2
  <2>2. Idle("gather") = [Idle("gather") EXCEPT !.parent = 0]
    BY <1>2, NotAChild
  <2> QED BY <1>1, <2>1, <2>2
<1>7. /\ \A s \in ToSet(skips)' : s.iter <= iter'
      /\ \A d \in ToSet(decisions)' : Settles(d)'
  BY <1>1 DEF Shape, RefInv, Settles, rows, world
<1> QED BY <1>1, <1>2, <1>4, <1>5, <1>6, <1>7, ShapeOfIdle

LEMMA ShapeRetry ==
  ASSUME Shape, prepare_retry_triage
  PROVE  Shape'
<1>1. PICK parent \in 1..iter : work' = [Idle("gather") EXCEPT !.parent = parent]
  BY DEF prepare_retry_triage
<1>2. /\ iter' = iter + 1 /\ MayUpset
      /\ notes' = [notes EXCEPT ![iter + 1] = {"inherited"}]
      /\ UNCHANGED <<skips, decisions, signals, admitted, receipts, payloads, kept, hour,
                     crashes>>
  BY DEF prepare_retry_triage
<1>3. /\ Idle("gather") \in Work /\ Idle("gather").pc = "gather"
  BY IdleIs DEF Pcs
<1>4. iter \in 1..(1 + MaxUpsets) /\ crashes \in 0..MaxUpsets /\ MaxUpsets \in Nat
  BY BoundsAssumption DEF Shape, TypeInv, Iterations
<1>5. iter' \in Iterations /\ parent \in Nat /\ parent < iter' /\ iter < iter' /\ iter' \in Int
  BY <1>2, <1>4 DEF Iterations, MayUpset
<1>6. notes' \in [Iterations -> SUBSET Notes]
  BY <1>2 DEF Shape, TypeInv, Notes
<1>7. /\ SkipRow' = SkipRow /\ DecisionRow' = DecisionRow /\ Work' = Work /\ Raws' = Raws
  BY <1>2, TypesStay
<1>8. work' \in Work /\ work'.pc = "gather" /\ work'.parent = parent
  <2> DEFINE i == Idle("gather")
  <2>1. i \in Work /\ i.pc = "gather" /\ work' = [i EXCEPT !.parent = parent]
    BY <1>1, <1>3
  <2> HIDE DEF i
  <2> QED BY <1>5, <2>1 DEF Work
<1>9. TypeInv'
  BY <1>2, <1>5, <1>6, <1>7, <1>8 DEF Shape, TypeInv
<1>10. ASSUME NEW s \in ToSet(skips)' PROVE s.iter <= iter'
  <2>1. ToSet(skips)' = ToSet(skips) /\ ToSet(skips) \subseteq SkipRow
    BY <1>2, ToSetIn DEF Shape, TypeInv
  <2>2. s.iter \in Int /\ s.iter <= iter
    BY <2>1 DEF SkipRow, Iterations, Shape, RefInv
  <2> QED BY <2>2, <1>4, <1>5
<1>11. ASSUME NEW d \in ToSet(decisions)' PROVE Settles(d)'
  <2>1. ToSet(decisions)' = ToSet(decisions) /\ ToSet(decisions) \subseteq DecisionRow
    BY <1>2, ToSetIn DEF Shape, TypeInv
  <2>2. d.iter \in Int /\ Settles(d)
    BY <2>1 DEF DecisionRow, Iterations, Shape, RefInv
  <2> QED BY <2>2, <1>2, <1>4, <1>5 DEF Settles
<1> QED BY <1>1, <1>5, <1>8, <1>9, <1>10, <1>11, ShapeOfIdle

\* A run that goes on to its next batch, or to the cities.
LEMMA ShapeOfBatch ==
  ASSUME Shape, TypeInv', NEW w \in Work, w.todo = <<>>, w.parent = work.parent,
         w.accepted = work.accepted, w.entries = work.entries, w.signalOf = work.signalOf,
         w.names \subseteq CitiesOf(w.accepted), iter = 1 => Different(w.posts),
         work' = NextBatch(w),
         UNCHANGED <<payloads, iter, skips, decisions, signals, receipts>>
  PROVE  Shape'
<1>1. /\ w.posts = <<>> =>
           work' = [w EXCEPT !.pc = "admitting", !.names = CitiesOf(w.accepted)]
      /\ w.posts # <<>> =>
           /\ BatchLen(w.posts) \in Nat \ {0}
           /\ work' = [w EXCEPT !.pc = "judging", !.size = BatchLen(w.posts), !.at = 1,
                                !.asked = @ + BatchLen(w.posts), !.outcome = Nothing,
                                !.receiptOf = <<>>]
  BY NextBatchIs
<1>2. /\ work'.parent = w.parent /\ work'.posts = w.posts /\ work'.todo = <<>>
      /\ work'.accepted = w.accepted /\ work'.entries = w.entries
      /\ work'.signalOf = w.signalOf
  BY <1>1 DEF Work
<1>3. w.posts = <<>> => work'.pc = "admitting" /\ work'.names = CitiesOf(w.accepted)
  BY <1>1 DEF Work
<1>4. w.posts # <<>> =>
        /\ BatchLen(w.posts) \in Nat \ {0} /\ work'.pc = "judging"
        /\ work'.names = w.names /\ work'.size = BatchLen(w.posts) /\ work'.at = 1
        /\ work'.outcome = Nothing /\ work'.receiptOf = <<>>
  BY <1>1 DEF Work
<1>5. ToSet(<<>>) = {}
  BY OfNothing
<1>6. RefInv'
  BY <1>2 DEF Shape, RefInv, Settles
<1>7. TodoInv'
  <2>1. work'.pc \in {"admitting", "judging"}
    BY <1>3, <1>4
  <2>2. <<>> \in Seq(DecisionRow)'
    OBVIOUS
  <2> QED BY <2>1, <2>2, <1>2, <1>5 DEF TodoInv
<1>8. AskInv'
  <2> SUFFICES ASSUME work'.pc = "judging"
               PROVE  /\ work'.size \in Nat \ {0} /\ work'.at \in 1..BatchLen(work'.posts)
                      /\ Told(work'.posts, work'.at - 1, iter', receipts', work'.outcome,
                              work'.receiptOf)
    BY DEF AskInv
  <2>1. w.posts # <<>>
    BY <1>3
  <2>2. /\ work'.size \in Nat \ {0} /\ work'.at \in 1..BatchLen(work'.posts)
        /\ work'.at - 1 = 0
    BY <2>1, <1>2, <1>4
  <2>3. Told(work'.posts, 0, iter', receipts', Nothing, <<>>)
    BY ToldOfNone
  <2> QED BY <2>1, <2>2, <2>3, <1>4
<1>9. PhaseInv'
  BY <1>2, <1>3, <1>4 DEF PhaseInv
<1> QED BY <1>6, <1>7, <1>8, <1>9 DEF Shape

LEMMA ShapeEndGather ==
  ASSUME Shape, EndGather
  PROVE  Shape'
<1>1. /\ work.pc = "skipping" /\ work.todo = <<>> /\ work' = NextBatch(work)
      /\ Note("payload lost", Lost)
      /\ UNCHANGED <<skips, decisions, signals, admitted, receipts, world>>
  BY DEF EndGather
<1>2. work \in Work /\ work.names \subseteq CitiesOf(work.accepted)
      /\ (iter = 1 => Different(work.posts))
  BY DEF Shape, TypeInv, PhaseInv
<1>3. NextBatch(work) \in Work
  BY <1>2, NextBatchIs
<1>4. notes' \in [Iterations -> SUBSET Notes]
  BY <1>1, NoteKeepsType DEF Shape, Notes
<1>5. /\ SkipRow' = SkipRow /\ DecisionRow' = DecisionRow /\ Work' = Work /\ Raws' = Raws
  BY <1>1, TypesStay DEF world
<1>6. TypeInv'
  BY <1>1, <1>3, <1>4, <1>5 DEF Shape, TypeInv, world
<1> QED BY <1>1, <1>2, <1>6, ShapeOfBatch DEF world

LEMMA ShapeGatherForRetry ==
  ASSUME Shape, gather_for_retry
  PROVE  Shape'
<1> DEFINE gaps == uncovered_triage_decisions(work.parent)
           held == {i \in gaps : decisions[i].raw \in kept}
           w == [work EXCEPT !.posts = Retried(held)]
<1>1. /\ work.pc = "gather" /\ work.parent # 0 /\ work' = NextBatch(w)
      /\ Note("purged", held # gaps)
      /\ UNCHANGED <<skips, decisions, signals, admitted, receipts, world>>
  BY Zenon DEF gather_for_retry, Retried
<1>2. work \in Work /\ payloads \in Responses /\ decisions \in Seq(DecisionRow)
  BY DEF Shape, TypeInv
<1>3. held \in SUBSET (DOMAIN decisions)
  BY DEF uncovered_triage_decisions
<1>4. Retried(held) \in Seq(Post)
  BY <1>2, <1>3, RetriedAre
<1> HIDE DEF held
<1>5. w \in Work
  BY <1>2, <1>4 DEF Work
<1>6. NextBatch(w) \in Work
  BY <1>5, NextBatchIs
<1>7. notes' \in [Iterations -> SUBSET Notes]
  <2> DEFINE b == held # gaps
  <2>1. Note("purged", b) /\ "purged" \in Notes /\ TypeInv
    BY <1>1 DEF Notes, Shape
  <2> HIDE DEF b
  <2> QED BY <2>1, NoteKeepsType
<1>8. /\ SkipRow' = SkipRow /\ DecisionRow' = DecisionRow /\ Work' = Work /\ Raws' = Raws
  BY <1>1, TypesStay DEF world
<1>9. TypeInv'
  BY <1>1, <1>6, <1>7, <1>8 DEF Shape, TypeInv, world
<1>10. iter # 1
  BY <1>1, <1>2 DEF Shape, RefInv, Work
<1>11. /\ w.todo = work.todo /\ w.parent = work.parent /\ w.accepted = work.accepted
       /\ w.entries = work.entries /\ w.signalOf = work.signalOf /\ w.names = work.names
  BY <1>2 DEF Work
<1>12. work.todo = <<>> /\ work.names \subseteq CitiesOf(work.accepted)
  BY <1>1 DEF Shape, TodoInv, PhaseInv
<1> HIDE DEF w
<1>13. UNCHANGED <<payloads, iter, skips, decisions, signals, receipts>>
  BY <1>1 DEF world
<1> QED BY <1>1, <1>5, <1>9, <1>10, <1>11, <1>12, <1>13, ShapeOfBatch

LEMMA ShapeEndBatch ==
  ASSUME Shape, EndBatch
  PROVE  Shape'
<1> DEFINE rest == SubSeq(work.posts, Len(Batch) + 1, Len(work.posts))
           w == [work EXCEPT !.posts = rest]
<1>1. /\ work.pc = "recording" /\ work.todo = <<>> /\ work' = NextBatch(w)
      /\ UNCHANGED <<rows, world>>
  BY Zenon DEF EndBatch
<1>2. work \in Work /\ work.posts \in Seq(Post)
  BY DEF Shape, TypeInv, Work
<1>3. rest \in Seq(Post) /\ (Different(work.posts) => Different(rest))
  <2> DEFINE n == Len(Batch)
             m == Len(work.posts)
  <2>1. n \in 0..m /\ m \in Nat
    BY <1>2, BatchIs
  <2>2. \A i \in 1..m : work.posts[i] \in Post
    BY <1>2
  <2> HIDE DEF n
  <2>3. \A i \in (n + 1)..m : work.posts[i] \in Post
    BY <2>1, <2>2
  <2>4. /\ rest \in Seq(Post)
        /\ Len(rest) = IF n + 1 <= m THEN m - (n + 1) + 1 ELSE 0
        /\ \A i \in 1..(m - (n + 1) + 1) : rest[i] = work.posts[n + 1 + i - 1]
    <3> HIDE DEF m
    <3>1. n + 1 \in Int /\ m \in Int
      BY <2>1
    <3>2. \A i \in (n + 1)..m : work.posts[i] \in Post
      BY <2>3
    <3>3. rest = SubSeq(work.posts, n + 1, m)
      BY DEF n, m
    <3> HIDE DEF rest
    <3> QED BY <1>2, <3>1, <3>2, <3>3, SubSeqProperties
  <2> HIDE DEF rest, m
  <2>5. DOMAIN rest = 1..(m - n) /\ \A i \in 1..(m - n) : rest[i] = work.posts[n + i]
    <3>1. Len(rest) = m - n /\ DOMAIN rest = 1..Len(rest)
      BY <2>1, <2>4, LenProperties
    <3>2. m - (n + 1) + 1 = m - n /\ \A i \in 1..(m - n) : n + 1 + i - 1 = n + i
      BY <2>1
    <3> QED BY <2>4, <3>1, <3>2
  <2>6. DOMAIN work.posts = 1..m
    BY <1>2 DEF m
  <2>7. ASSUME Different(work.posts), NEW i \in DOMAIN rest, NEW j \in DOMAIN rest,
               rest[i].url = rest[j].url
        PROVE  i = j
    <3>1. n + i \in 1..m /\ n + j \in 1..m /\ i \in Int /\ j \in Int /\ n \in Int
      BY <2>1, <2>5
    <3>2. n + i = n + j
      BY <2>5, <2>6, <2>7, <3>1 DEF Different
    <3> QED BY <3>1, <3>2
  <2> QED BY <2>4, <2>7 DEF Different
<1> HIDE DEF rest
<1>4. w \in Work
  BY <1>2, <1>3 DEF Work
<1>5. NextBatch(w) \in Work
  BY <1>4, NextBatchIs
<1>6. /\ SkipRow' = SkipRow /\ DecisionRow' = DecisionRow /\ Work' = Work /\ Raws' = Raws
  BY <1>1, TypesStay DEF world
<1>7. TypeInv'
  BY <1>1, <1>5, <1>6 DEF Shape, TypeInv, rows, world
<1>8. /\ w.todo = work.todo /\ w.parent = work.parent /\ w.accepted = work.accepted
      /\ w.entries = work.entries /\ w.signalOf = work.signalOf /\ w.names = work.names
      /\ w.posts = rest
  BY <1>2 DEF Work
<1>9. /\ work.names \subseteq CitiesOf(work.accepted)
      /\ (iter = 1 => Different(work.posts))
  BY DEF Shape, PhaseInv
<1> HIDE DEF w
<1>10. UNCHANGED <<payloads, iter, skips, decisions, signals, receipts>>
  BY <1>1 DEF rows, world
<1>11. iter = 1 => Different(w.posts)
  BY <1>3, <1>8, <1>9
<1> QED BY <1>1, <1>4, <1>7, <1>8, <1>9, <1>10, <1>11, ShapeOfBatch

LEMMA GatherIs ==
  ASSUME Shape, gather
  PROVE  /\ work' = [Idle("skipping") EXCEPT !.posts = Gathered,
                                             !.todo = Refusals \o AgedOut]
         /\ work' \in Work /\ UNCHANGED <<rows, world>>
         /\ work'.pc = "skipping" /\ work'.parent = 0 /\ work'.posts = Gathered
         /\ work'.todo = Refusals \o AgedOut /\ work'.accepted = <<>>
         /\ work'.entries = <<>> /\ work'.names = {} /\ work'.signalOf = <<>>
         /\ work'.gaps = 0 /\ work'.asked = 0 /\ work'.calls = 0
<1> DEFINE todo == Refusals \o AgedOut
           i == Idle("skipping")
<1>1. work' = [i EXCEPT !.posts = Gathered, !.todo = todo] /\ UNCHANGED <<rows, world>>
  BY Zenon DEF gather, Gathered, Refusals, AgedOut, Fresh, Refused, Outdated
<1>2. payloads \in Responses /\ iter \in Iterations
  BY DEF Shape, TypeInv
<1>3. Gathered \in Seq(Post)
  BY <1>2, GatheredAre
<1>4. todo \in Seq(SkipRow)
  BY <1>2, SkipsAre
<1> HIDE DEF todo
<1>5. todo \in Seq(SkipRow \cup DecisionRow)
  BY <1>4, SeqMonotonic
<1>6. /\ i \in Work /\ i.pc = "skipping" /\ i.parent = 0 /\ i.accepted = <<>>
      /\ i.entries = <<>> /\ i.names = {} /\ i.signalOf = <<>>
      /\ i.gaps = 0 /\ i.asked = 0 /\ i.calls = 0
  BY IdleIs DEF Pcs
<1> HIDE DEF i
<1>7. work' \in Work
  BY <1>1, <1>3, <1>5, <1>6 DEF Work
<1>8. /\ work'.pc = i.pc /\ work'.parent = i.parent /\ work'.posts = Gathered
      /\ work'.todo = todo /\ work'.accepted = i.accepted
      /\ work'.entries = i.entries /\ work'.names = i.names /\ work'.signalOf = i.signalOf
      /\ work'.gaps = i.gaps /\ work'.asked = i.asked /\ work'.calls = i.calls
  BY <1>1, <1>6 DEF Work
<1>9. /\ work' = [Idle("skipping") EXCEPT !.posts = Gathered, !.todo = Refusals \o AgedOut]
      /\ work'.todo = Refusals \o AgedOut
  BY <1>1, <1>8 DEF i, todo
<1> QED BY <1>1, <1>6, <1>7, <1>8, <1>9

LEMMA ShapeGather ==
  ASSUME Shape, gather
  PROVE  Shape'
<1>1. /\ work' \in Work /\ UNCHANGED <<rows, world>>
      /\ work'.pc = "skipping" /\ work'.parent = 0 /\ work'.posts = Gathered
      /\ work'.todo = Refusals \o AgedOut /\ work'.accepted = <<>>
      /\ work'.entries = <<>> /\ work'.names = {} /\ work'.signalOf = <<>>
  BY GatherIs
<1>2. /\ SkipRow' = SkipRow /\ DecisionRow' = DecisionRow /\ Work' = Work /\ Raws' = Raws
  BY <1>1, TypesStay DEF world
<1>3. TypeInv'
  BY <1>1, <1>2 DEF Shape, TypeInv, rows, world
<1>4. payloads \in Responses /\ iter \in Iterations /\ iter > 0
  BY BoundsAssumption DEF Shape, TypeInv, Iterations
<1>5. ToSet(<<>>) = {} /\ DOMAIN <<>> = {}
  BY OfNothing
<1>6. RefInv'
  BY <1>1, <1>4, <1>5 DEF Shape, RefInv, Settles, rows, world
<1>7. TodoInv'
  <2> DEFINE todo == Refusals \o AgedOut
  <2>1. /\ todo \in Seq(SkipRow)
        /\ ToSet(todo) = {Refusal(p) : p \in Refused} \cup {Aged(p) : p \in Outdated}
    BY <1>4, SkipsAre
  <2>2. Refused \subseteq Structural /\ Outdated \subseteq Posts
    BY DEF Refused, Outdated, Firsts
  <2>3. \A p \in Refused : Refusal(p).iter = iter
    BY <1>4, <2>2, RefusalIs
  <2>4. \A p \in Outdated : Aged(p).iter = iter
    BY <1>4, <2>2, AgedIs
  <2>5. \A d \in ToSet(todo) : d.iter = iter
    BY <2>1, <2>3, <2>4
  <2>6. work'.todo = todo /\ iter' = iter /\ Seq(SkipRow)' = Seq(SkipRow)
    BY <1>1, <1>2 DEF world
  <2> HIDE DEF todo
  <2> QED BY <1>1, <2>1, <2>5, <2>6 DEF TodoInv
<1>8. AskInv'
  BY <1>1 DEF AskInv
<1>9. PhaseInv'
  <2>1. Different(Gathered)
    BY <1>4, GatheredAre
  <2> QED BY <2>1, <1>1 DEF PhaseInv
<1> QED BY <1>3, <1>6, <1>7, <1>8, <1>9 DEF Shape

LEMMA ShapeSkip ==
  ASSUME Shape, insert_triage_skip
  PROVE  Shape'
<1> DEFINE h == Head(work.todo)
           t == Tail(work.todo)
<1>1. /\ work.pc = "skipping" /\ work.todo # <<>> /\ skips' = Append(skips, h)
      /\ work' = [work EXCEPT !.todo = t]
      /\ UNCHANGED <<decisions, signals, admitted, receipts, notes, world>>
  BY DEF insert_triage_skip
<1>2. work \in Work /\ work.todo \in Seq(SkipRow) /\ skips \in Seq(SkipRow)
  BY <1>1 DEF Shape, TypeInv, TodoInv
<1>3. /\ h \in SkipRow /\ t \in Seq(SkipRow)
      /\ ToSet(work.todo) = {h} \cup ToSet(t)
  BY <1>1, <1>2, ToSetOfTail
<1> HIDE DEF h, t
<1>4. t \in Seq(SkipRow \cup DecisionRow)
  BY <1>3, SeqMonotonic
<1>5. skips' \in Seq(SkipRow) /\ ToSet(skips') = ToSet(skips) \cup {h}
  BY <1>1, <1>2, <1>3, ToSetOfAppend
<1>6. work' \in Work
  BY <1>1, <1>2, <1>4 DEF Work
<1>7. /\ work'.pc = work.pc /\ work'.parent = work.parent /\ work'.posts = work.posts
      /\ work'.todo = t /\ work'.accepted = work.accepted /\ work'.entries = work.entries
      /\ work'.names = work.names /\ work'.signalOf = work.signalOf
  BY <1>1, <1>2 DEF Work
<1>8. /\ SkipRow' = SkipRow /\ DecisionRow' = DecisionRow /\ Work' = Work /\ Raws' = Raws
  BY <1>1, TypesStay DEF world
<1>9. TypeInv'
  BY <1>1, <1>5, <1>6, <1>8 DEF Shape, TypeInv, world
<1>10. iter \in Int /\ iter' = iter /\ h.iter = iter
  BY <1>1, <1>3 DEF Shape, TypeInv, TodoInv, world, Iterations
<1>11. RefInv'
  <2>1. \A s \in ToSet(skips') : s.iter <= iter
    BY <1>5, <1>10 DEF Shape, RefInv
  <2> QED BY <2>1, <1>1, <1>7, <1>10 DEF Shape, RefInv, Settles
<1>12. TodoInv'
  <2>1. \A d \in ToSet(t) : d.iter = iter
    BY <1>3 DEF Shape, TodoInv
  <2>2. Seq(SkipRow)' = Seq(SkipRow)
    BY <1>8
  <2> QED BY <2>1, <2>2, <1>1, <1>3, <1>7, <1>10 DEF TodoInv
<1>13. AskInv'
  BY <1>1, <1>7 DEF AskInv
<1>14. PhaseInv'
  BY <1>1, <1>7, <1>10 DEF Shape, PhaseInv
<1> QED BY <1>9, <1>11, <1>12, <1>13, <1>14 DEF Shape

LEMMA ShapeAround ==
  ASSUME Shape, \/ purge_expired_raw \/ Tick \/ UNCHANGED vars
  PROVE  Shape'
<1>1. /\ UNCHANGED <<rows, payloads, work, iter, crashes>>
      /\ hour' \in Start..(Start + MaxHours) /\ kept' \subseteq Raws
  BY BoundsAssumption
     DEF purge_expired_raw, Tick, vars, rows, Shape, TypeInv
<1>2. UNCHANGED <<skips, decisions, signals, receipts, notes, payloads, work, iter>>
  BY <1>1 DEF rows
<1>3. /\ SkipRow' = SkipRow /\ DecisionRow' = DecisionRow /\ Work' = Work /\ Raws' = Raws
  BY <1>1, TypesStay
<1>4. TypeInv'
  BY <1>1, <1>2, <1>3 DEF Shape, TypeInv
<1>5. RefInv'
  BY <1>2 DEF Shape, RefInv, Settles
<1>6. TodoInv'
  <2>1. Seq(SkipRow)' = Seq(SkipRow) /\ Seq(DecisionRow)' = Seq(DecisionRow)
    BY <1>3
  <2> QED BY <2>1, <1>2 DEF Shape, TodoInv, Settles
<1>7. AskInv'
  BY <1>2 DEF Shape, AskInv
<1>8. PhaseInv'
  BY <1>2 DEF Shape, PhaseInv
<1> QED BY <1>4, <1>5, <1>6, <1>7, <1>8 DEF Shape

LEMMA ShapeDecision ==
  ASSUME Shape, insert_triage_decision
  PROVE  Shape'
<1> DEFINE h == Head(work.todo)
           t == Tail(work.todo)
<1>1. /\ work.pc \in {"recording", "accepting"} /\ work.todo # <<>>
      /\ decisions' = Append(decisions, h) /\ work' = [work EXCEPT !.todo = t]
      /\ UNCHANGED <<skips, signals, admitted, receipts, notes, world>>
  BY DEF insert_triage_decision
<1>2. work \in Work /\ work.todo \in Seq(DecisionRow) /\ decisions \in Seq(DecisionRow)
  BY <1>1 DEF Shape, TypeInv, TodoInv
<1>3. /\ h \in DecisionRow /\ t \in Seq(DecisionRow)
      /\ ToSet(work.todo) = {h} \cup ToSet(t)
  BY <1>1, <1>2, ToSetOfTail
<1> HIDE DEF h, t
<1>4. t \in Seq(SkipRow \cup DecisionRow)
  BY <1>3, SeqMonotonic
<1>5. decisions' \in Seq(DecisionRow) /\ ToSet(decisions') = ToSet(decisions) \cup {h}
  BY <1>1, <1>2, <1>3, ToSetOfAppend
<1>6. work' \in Work
  BY <1>1, <1>2, <1>4 DEF Work
<1>7. /\ work'.pc = work.pc /\ work'.parent = work.parent /\ work'.posts = work.posts
      /\ work'.todo = t /\ work'.accepted = work.accepted /\ work'.entries = work.entries
      /\ work'.names = work.names /\ work'.signalOf = work.signalOf
  BY <1>1, <1>2 DEF Work
<1>8. /\ SkipRow' = SkipRow /\ DecisionRow' = DecisionRow /\ Work' = Work /\ Raws' = Raws
  BY <1>1, TypesStay DEF world
<1>9. TypeInv'
  BY <1>1, <1>5, <1>6, <1>8 DEF Shape, TypeInv, world
<1>10. Settles(h) /\ h.iter = iter /\ iter' = iter /\ (\A d : Settles(d)' <=> Settles(d))
  BY <1>1, <1>3 DEF Shape, TodoInv, world, Settles
<1>11. RefInv'
  <2>1. \A d \in ToSet(decisions') : Settles(d)
    BY <1>5, <1>10 DEF Shape, RefInv
  <2> QED BY <2>1, <1>1, <1>7, <1>10 DEF Shape, RefInv
<1>12. TodoInv'
  <2>1. \A d \in ToSet(t) : d.iter = iter /\ Settles(d)
    BY <1>1, <1>3 DEF Shape, TodoInv
  <2>2. Seq(DecisionRow)' = Seq(DecisionRow)
    BY <1>8
  <2> QED BY <2>1, <2>2, <1>1, <1>3, <1>7, <1>10 DEF TodoInv
<1>13. AskInv'
  BY <1>1, <1>7 DEF AskInv
<1>14. PhaseInv'
  BY <1>1, <1>7, <1>10 DEF Shape, PhaseInv
<1> QED BY <1>9, <1>11, <1>12, <1>13, <1>14 DEF Shape

LEMMA ShapeEndStage ==
  ASSUME Shape, EndStage
  PROVE  Shape'
<1>1. /\ work.pc = "accepting" /\ work.todo = <<>> /\ work' = [work EXCEPT !.pc = "closed"]
      /\ Note("not judged", work.gaps > 0)
      /\ UNCHANGED <<skips, decisions, signals, admitted, receipts, world>>
  BY DEF EndStage
<1>2. work \in Work /\ "closed" \in Pcs /\ "not judged" \in Notes
  BY DEF Shape, TypeInv, Pcs, Notes
<1>3. work' \in Work
  BY <1>1, <1>2 DEF Work
<1>4. /\ work'.pc = "closed" /\ work'.parent = work.parent /\ work'.posts = work.posts
      /\ work'.todo = <<>> /\ work'.accepted = work.accepted /\ work'.entries = work.entries
      /\ work'.names = work.names /\ work'.signalOf = work.signalOf
  BY <1>1, <1>2 DEF Work
<1>5. notes' \in [Iterations -> SUBSET Notes]
  <2> DEFINE b == work.gaps > 0
  <2>1. Note("not judged", b) /\ TypeInv
    BY <1>1 DEF Shape
  <2> HIDE DEF b
  <2> QED BY <2>1, <1>2, NoteKeepsType
<1>6. /\ SkipRow' = SkipRow /\ DecisionRow' = DecisionRow /\ Work' = Work /\ Raws' = Raws
  BY <1>1, TypesStay DEF world
<1>7. TypeInv'
  BY <1>1, <1>3, <1>5, <1>6 DEF Shape, TypeInv, world
<1>8. RefInv'
  BY <1>1, <1>4 DEF Shape, RefInv, Settles, world
<1>9. TodoInv'
  <2>1. ToSet(<<>>) = {} /\ <<>> \in Seq(DecisionRow)'
    BY OfNothing
  <2> QED BY <2>1, <1>4 DEF TodoInv
<1>10. AskInv'
  BY <1>4 DEF AskInv
<1>11. PhaseInv'
  BY <1>1, <1>4 DEF Shape, PhaseInv, world
<1> QED BY <1>7, <1>8, <1>9, <1>10, <1>11 DEF Shape

-----------------------------------------------------------------------------
(* Asking.                                                                 *)

LEMMA HalvedIs == ASSUME NEW n \in Nat \ {0, 1} PROVE Halved(n) \in 1..(n - 1)
<1>1. n \div 2 \in 1..(n - 1)
  OBVIOUS
<1>2. Max({1, n \div 2}) = IF 1 >= n \div 2 THEN 1 ELSE n \div 2
  BY <1>1, MaxOfTwo
<1> QED BY <1>1, <1>2 DEF Halved

\* The run and the calls as a reply leaves them.
Answered(reply) ==
  [work EXCEPT !.outcome = Merged(@, parse_batch(reply)), !.receiptOf = ReceiptOf,
               !.calls = @ + 1]
Call(reply) == [iter |-> iter, asked |-> Asked, of |-> reply.of]

LEMMA AnsweredIs ==
  ASSUME Shape, work.pc = "judging", NEW reply \in Reply
  PROVE  LET w == Answered(reply) IN
         /\ w \in Work /\ w.outcome = Merged(work.outcome, parse_batch(reply))
         /\ w = [work EXCEPT !.outcome = w.outcome, !.receiptOf = w.receiptOf,
                             !.calls = work.calls + 1]
         /\ Call(reply) \in Receipt
         /\ PartEnd \in work.at..Len(Batch) /\ Len(Batch) = BatchLen(work.posts)
         /\ Told(work.posts, PartEnd, iter, Append(receipts, Call(reply)), w.outcome,
                 w.receiptOf)
<1> DEFINE w == Answered(reply)
           p == parse_batch(reply)
           x == Call(reply)
           o == Merged(work.outcome, p)
           ro == ReceiptOf
<1>1. /\ work \in Work /\ work.posts \in Seq(Post) /\ work.outcome \in Outcome
      /\ work.receiptOf \in Partial(Urls, Nat) /\ receipts \in Seq(Receipt)
      /\ iter \in Iterations
  BY DEF Shape, TypeInv, Work
<1>2. Len(Batch) = BatchLen(work.posts) /\ Len(Batch) \in 0..Len(work.posts)
  BY <1>1, BatchIs DEF BatchLen
<1>3. /\ work.size \in Nat \ {0} /\ work.at \in 1..Len(Batch)
      /\ Told(work.posts, work.at - 1, iter, receipts, work.outcome, work.receiptOf)
  BY <1>2 DEF Shape, AskInv
<1>4. /\ PartEnd \in work.at..Len(Batch)
      /\ Asked = UrlsOf(work.posts, work.at, PartEnd)
      /\ Asked \in SUBSET Urls /\ IsFiniteSet(Asked)
  BY <1>1, <1>3, AskedIs
<1>5. Parsed(p, reply.of, Asked)
  BY <1>4, ParseBatchIs
<1>6. x \in Receipt /\ x.iter = iter /\ x.asked = Asked /\ x.of = reply.of
  <2>1. reply.of \in Partial(Urls, Judgements \cup Unusable)
    BY <1>4, ReplyIs
  <2> QED BY <2>1, <1>1, <1>4 DEF Call, Receipt
<1>7. o \in Outcome
  BY <1>1, <1>5, MergedIs DEF Parsed
<1>8. ro = Over(work.receiptOf, [u \in Asked |-> Len(receipts) + 1])
  BY DEF ReceiptOf
<1>9. ro \in Partial(Urls, Nat)
  <2> DEFINE r == [u \in Asked |-> Len(receipts) + 1]
  <2>1. Len(receipts) + 1 \in Nat
    BY <1>1
  <2>2. r \in [Asked -> Nat]
    BY <2>1
  <2>3. r \in Partial(Urls, Nat)
    BY <2>2, <1>4 DEF Partial
  <2> HIDE DEF r
  <2>4. Over(work.receiptOf, r) \in Partial(Urls, Nat)
    BY <2>3, <1>1, OverIs
  <2> QED BY <2>4, <1>8 DEF r
<1>10. Told(work.posts, PartEnd, iter, Append(receipts, x), o, ro)
  <2> DEFINE m == work.at - 1
             n == PartEnd
             it == iter
             posts == work.posts
             asked == Asked
  <2>1. m \in Nat /\ n \in 0..Len(posts) /\ m <= n /\ m + 1 = work.at
    BY <1>2, <1>3, <1>4
  <2>2. it = 1 => Different(posts)
    BY DEF Shape, PhaseInv
  <2>3. asked = UrlsOf(posts, m + 1, n) /\ asked \in SUBSET Urls
    BY <2>1, <1>4
  <2>4. Told(posts, m, it, receipts, work.outcome, work.receiptOf)
    BY <1>3
  <2>5. posts \in Seq(Post) /\ x.iter = it /\ x.asked = asked /\ Parsed(p, x.of, asked)
    BY <1>1, <1>5, <1>6
  <2> HIDE DEF m, n, it, posts, asked, p, x
  <2>6. Told(posts, n, it, Append(receipts, x), Merged(work.outcome, p),
             Over(work.receiptOf, [u \in asked |-> Len(receipts) + 1]))
    BY <1>1, <1>6, <2>1, <2>2, <2>3, <2>4, <2>5, ToldMore
  <2> QED BY <2>6, <1>8 DEF n, it, posts, asked
<1> HIDE DEF o, ro, x, p
<1>11. w = [work EXCEPT !.outcome = o, !.receiptOf = ro, !.calls = work.calls + 1]
  BY DEF Answered, o, ro, p
<1>12. w \in Work /\ w.outcome = o /\ w.receiptOf = ro
  <2>1. work.calls + 1 \in Nat
    BY <1>1 DEF Work
  <2> HIDE DEF w
  <2> QED BY <2>1, <1>1, <1>7, <1>9, <1>11 DEF Work
<1> HIDE DEF w
<1>13. /\ w \in Work /\ w.outcome = Merged(work.outcome, parse_batch(reply))
       /\ w = [work EXCEPT !.outcome = w.outcome, !.receiptOf = w.receiptOf,
                           !.calls = work.calls + 1]
       /\ Call(reply) \in Receipt
       /\ Told(work.posts, PartEnd, iter, Append(receipts, Call(reply)), w.outcome,
               w.receiptOf)
  BY <1>6, <1>10, <1>11, <1>12 DEF o, p, x
<1> QED BY <1>2, <1>4, <1>13 DEF w

LEMMA JudgeIs ==
  ASSUME Shape, judge
  PROVE  /\ work.pc = "judging"
         /\ UNCHANGED <<skips, decisions, signals, admitted, notes, world>>
         /\ \E reply \in Reply : LET w == Answered(reply) IN
              /\ receipts' = Append(receipts, Call(reply))
              /\ \/ /\ w.at + w.size <= Len(Batch) /\ work' = [w EXCEPT !.at = @ + w.size]
                 \/ /\ w.size > 1
                    /\ work' = [w EXCEPT !.size = Halved(@), !.at = 1, !.outcome = Nothing,
                                         !.receiptOf = <<>>]
                 \/ ~(w.at + w.size <= Len(Batch)) /\ work' = Settled(w)
BY Zenon DEF judge, Answered, Call

\* The rows of a batch refer to calls that were made.
LEMMA RowsSettle ==
  ASSUME Shape, NEW rc, NEW o \in Outcome, NEW ro \in Partial(Urls, Nat),
         Told(work.posts, Len(Batch), iter, rc, o, ro)
  PROVE  /\ \A d \in SettledRows(o, ro) :
              d.iter = iter /\ d.signal = 0 /\ d.receipt \in DOMAIN rc
         /\ \A e \in Acceptances(o, ro) : e.receipt \in DOMAIN rc
<1> DEFINE batch == UrlsOf(work.posts, 1, Len(Batch))
<1>1. work.posts \in Seq(Post) /\ iter \in Iterations
  BY DEF Shape, TypeInv, Work
<1>2. DOMAIN ro = batch /\ \A u \in batch : ro[u] \in DOMAIN rc
  BY DEF Told
<1>3. \A u \in batch : ro[u] \in Nat
  BY <1>2, PartialHas
<1>4. ASSUME NEW u \in batch, NEW state \in States
      PROVE  /\ Fate(u, state, ro).iter = iter /\ Fate(u, state, ro).signal = 0
             /\ Fate(u, state, ro).receipt \in DOMAIN rc
  <2>1. ro[u] \in Nat /\ ro[u] \in DOMAIN rc
    BY <1>2, <1>3
  <2> HIDE DEF batch
  <2>2. u \in UrlsOf(work.posts, 1, Len(Batch))
    BY DEF batch
  <2> QED BY <1>1, <2>1, <2>2, FateIs
<1>5. /\ ToSet(o.faults) \subseteq batch /\ ToSet(o.missing) \subseteq batch
      /\ Judged(o, "irrelevant") \subseteq batch /\ Judged(o, "relevant") \subseteq batch
  BY DEF Told, Judged
<1>6. {"INVALID_OUTPUT", "REJECTED", Loss(o)} \subseteq States
  BY DEF Loss, States, Uncovered
<1> HIDE DEF batch
<1>7. \A d \in SettledRows(o, ro) :
        d.iter = iter /\ d.signal = 0 /\ d.receipt \in DOMAIN rc
  <2> SUFFICES ASSUME NEW d \in SettledRows(o, ro)
               PROVE  \E u \in batch, state \in States : d = Fate(u, state, ro)
    BY <1>4
  <2> QED BY <1>5, <1>6 DEF SettledRows
<1>8. \A e \in Acceptances(o, ro) : e.receipt \in DOMAIN rc
  BY <1>2, <1>5 DEF Acceptances, Acceptance
<1> QED BY <1>7, <1>8

LEMMA ShapeJudge ==
  ASSUME Shape, judge
  PROVE  Shape'
<1>1. /\ work.pc = "judging"
      /\ UNCHANGED <<skips, decisions, signals, admitted, notes, world>>
  BY JudgeIs
<1>2. PICK reply \in Reply : LET w == Answered(reply) IN
        /\ receipts' = Append(receipts, Call(reply))
        /\ \/ /\ w.at + w.size <= Len(Batch) /\ work' = [w EXCEPT !.at = @ + w.size]
           \/ /\ w.size > 1
              /\ work' = [w EXCEPT !.size = Halved(@), !.at = 1, !.outcome = Nothing,
                                   !.receiptOf = <<>>]
           \/ ~(w.at + w.size <= Len(Batch)) /\ work' = Settled(w)
  BY JudgeIs
<1> DEFINE w == Answered(reply)
           x == Call(reply)
           rc == receipts'
           n == Len(Batch)
<1>3. /\ w \in Work /\ x \in Receipt
      /\ w = [work EXCEPT !.outcome = w.outcome, !.receiptOf = w.receiptOf,
                          !.calls = work.calls + 1]
      /\ PartEnd \in work.at..n /\ n = BatchLen(work.posts)
      /\ Told(work.posts, PartEnd, iter, rc, w.outcome, w.receiptOf)
  BY <1>1, <1>2, AnsweredIs
<1>4. rc = Append(receipts, x)
  BY <1>2
<1>5. \/ /\ w.at + w.size <= n /\ work' = [w EXCEPT !.at = @ + w.size]
      \/ /\ w.size > 1
         /\ work' = [w EXCEPT !.size = Halved(@), !.at = 1, !.outcome = Nothing,
                              !.receiptOf = <<>>]
      \/ ~(w.at + w.size <= n) /\ work' = Settled(w)
  BY <1>2
<1> HIDE DEF w, x
<1>6. work \in Work /\ receipts \in Seq(Receipt) /\ iter \in Iterations
  BY DEF Shape, TypeInv
<1>7. /\ rc \in Seq(Receipt) /\ DOMAIN receipts \subseteq DOMAIN rc
  BY <1>3, <1>4, <1>6, AppendProperties, LenProperties
<1> HIDE DEF rc, n
<1>8. /\ w.pc = "judging" /\ w.parent = work.parent /\ w.posts = work.posts
      /\ w.todo = <<>> /\ w.accepted = work.accepted /\ w.entries = work.entries
      /\ w.names = work.names /\ w.signalOf = work.signalOf /\ w.size = work.size
      /\ w.at = work.at
  <2>1. work.todo = <<>>
    BY <1>1 DEF Shape, TodoInv
  <2> QED BY <2>1, <1>1, <1>3, <1>6 DEF Work
<1>9. /\ w.outcome \in Outcome /\ w.receiptOf \in Partial(Urls, Nat) /\ w.gaps \in Nat
      /\ w.accepted \in Seq(Entry)
  BY <1>3, RecordFields
<1>10. w.size \in Nat \ {0} /\ w.at \in 1..n /\ n \in Nat
  <2>1. n = Len(Batch) /\ Len(Batch) \in 0..Len(work.posts)
    BY <1>6, BatchIs DEF n, Work
  <2>2. Len(work.posts) \in Nat
    BY <1>6 DEF Work
  <2> QED BY <1>1, <1>3, <1>8, <2>1, <2>2 DEF Shape, AskInv
<1>11. PartEnd = IF w.at + w.size - 1 <= n THEN w.at + w.size - 1 ELSE n
  BY <1>8 DEF PartEnd, n
<1>12. /\ SkipRow' = SkipRow /\ DecisionRow' = DecisionRow /\ Work' = Work /\ Raws' = Raws
  BY <1>1, TypesStay DEF world
<1>13. CASE /\ w.at + w.size <= n /\ work' = [w EXCEPT !.at = @ + w.size]
  <2>1. w.at + w.size \in Nat /\ w.at + w.size \in 1..n /\ PartEnd = w.at + w.size - 1
    BY <1>10, <1>11, <1>13
  <2>2. work' \in Work
    BY <1>3, <1>13, <2>1 DEF Work
  <2>3. /\ work'.pc = w.pc /\ work'.parent = w.parent /\ work'.posts = w.posts
        /\ work'.todo = w.todo /\ work'.accepted = w.accepted /\ work'.entries = w.entries
        /\ work'.names = w.names /\ work'.signalOf = w.signalOf /\ work'.size = w.size
        /\ work'.at = w.at + w.size /\ work'.outcome = w.outcome
        /\ work'.receiptOf = w.receiptOf
    BY <1>3, <1>13 DEF Work
  <2>4. TypeInv'
    BY <1>1, <1>7, <1>12, <2>2 DEF Shape, TypeInv, world, rc
  <2>5. RefInv'
    BY <1>1, <1>7, <1>8, <2>3 DEF Shape, RefInv, Settles, world, rc
  <2>6. TodoInv'
    <3>1. ToSet(<<>>) = {} /\ <<>> \in Seq(DecisionRow)'
      BY OfNothing
    <3> QED BY <3>1, <1>8, <2>3 DEF TodoInv
  <2>7. AskInv'
    <3>1. Told(work'.posts, work'.at - 1, iter', rc, work'.outcome, work'.receiptOf)
      <4>1. work'.at - 1 = PartEnd
        BY <1>10, <2>1, <2>3
      <4>2. /\ work'.posts = work.posts /\ work'.outcome = w.outcome
            /\ work'.receiptOf = w.receiptOf /\ iter' = iter
        BY <1>1, <1>8, <2>3 DEF world
      <4> QED BY <4>1, <4>2, <1>3
    <3>2. work'.size \in Nat \ {0} /\ work'.at \in 1..BatchLen(work'.posts)
      BY <1>3, <1>8, <1>10, <2>1, <2>3
    <3> QED BY <3>1, <3>2 DEF AskInv, rc
  <2>8. PhaseInv'
    BY <1>1, <1>8, <2>3 DEF Shape, PhaseInv, world
  <2> QED BY <2>4, <2>5, <2>6, <2>7, <2>8 DEF Shape
<1>14. CASE /\ w.size > 1
            /\ work' = [w EXCEPT !.size = Halved(@), !.at = 1, !.outcome = Nothing,
                                 !.receiptOf = <<>>]
  <2>1. Halved(w.size) \in Nat \ {0}
    <3>1. w.size \in Nat \ {0, 1}
      BY <1>10, <1>14
    <3>2. Halved(w.size) \in 1..(w.size - 1)
      BY <3>1, HalvedIs
    <3> QED BY <3>1, <3>2
  <2>2. Nothing \in Outcome /\ <<>> \in Partial(Urls, Nat) /\ 1 \in Nat
    BY NothingIsOutcome, EmptyPartial
  <2>3. work' \in Work
    BY <1>3, <1>14, <2>1, <2>2 DEF Work
  <2>4. /\ work'.pc = w.pc /\ work'.parent = w.parent /\ work'.posts = w.posts
        /\ work'.todo = w.todo /\ work'.accepted = w.accepted /\ work'.entries = w.entries
        /\ work'.names = w.names /\ work'.signalOf = w.signalOf
        /\ work'.size = Halved(w.size) /\ work'.at = 1 /\ work'.outcome = Nothing
        /\ work'.receiptOf = <<>>
    BY <1>3, <1>14 DEF Work
  <2>5. TypeInv'
    BY <1>1, <1>7, <1>12, <2>3 DEF Shape, TypeInv, world, rc
  <2>6. RefInv'
    BY <1>1, <1>7, <1>8, <2>4 DEF Shape, RefInv, Settles, world, rc
  <2>7. TodoInv'
    <3>1. ToSet(<<>>) = {} /\ <<>> \in Seq(DecisionRow)'
      BY OfNothing
    <3> QED BY <3>1, <1>8, <2>4 DEF TodoInv
  <2>8. AskInv'
    <3>1. Told(work'.posts, 0, iter', rc, Nothing, <<>>)
      BY ToldOfNone
    <3>2. /\ work'.size \in Nat \ {0} /\ work'.at \in 1..BatchLen(work'.posts)
          /\ work'.at - 1 = 0
      BY <1>3, <1>8, <1>10, <2>1, <2>4
    <3> QED BY <3>1, <3>2, <2>4 DEF AskInv, rc
  <2>9. PhaseInv'
    BY <1>1, <1>8, <2>4 DEF Shape, PhaseInv, world
  <2> QED BY <2>5, <2>6, <2>7, <2>8, <2>9 DEF Shape
<1>15. CASE ~(w.at + w.size <= n) /\ work' = Settled(w)
  <2> DEFINE s == Settled(w)
  <2>1. PartEnd = n
    BY <1>10, <1>11, <1>15
  <2>2. Told(work.posts, Len(Batch), iter, rc, w.outcome, w.receiptOf)
    BY <1>3, <2>1 DEF n
  <2>3. /\ s = [w EXCEPT !.pc = "recording", !.todo = s.todo, !.accepted = s.accepted,
                         !.gaps = s.gaps]
        /\ s.todo \in Seq(DecisionRow) /\ s.accepted \in Seq(Entry)
        /\ ToSet(s.todo) = SettledRows(w.outcome, w.receiptOf)
        /\ ToSet(s.accepted) = ToSet(w.accepted) \cup Acceptances(w.outcome, w.receiptOf)
        /\ s.gaps \in Nat
    <3>1. work.posts \in Seq(Post)
      BY <1>6, RecordFields
    <3> QED BY <3>1, <1>3, <1>6, <2>2, SettledIs
  <2>4. /\ \A d \in SettledRows(w.outcome, w.receiptOf) :
              d.iter = iter /\ d.signal = 0 /\ d.receipt \in DOMAIN rc
        /\ \A e \in Acceptances(w.outcome, w.receiptOf) : e.receipt \in DOMAIN rc
    BY <1>9, <2>2, RowsSettle
  <2> HIDE DEF s
  <2>5. s.todo \in Seq(SkipRow \cup DecisionRow) /\ "recording" \in Pcs
    BY <2>3, SeqMonotonic DEF Pcs
  <2>6. s \in Work
    BY <1>3, <2>3, <2>5 DEF Work
  <2>7. /\ s.pc = "recording" /\ s.parent = w.parent /\ s.posts = w.posts
        /\ s.entries = w.entries /\ s.names = w.names /\ s.signalOf = w.signalOf
    BY <1>3, <2>3 DEF Work
  <2>8. work' = s
    BY <1>15 DEF s
  <2>9. TypeInv'
    BY <1>1, <1>7, <1>12, <2>6, <2>8 DEF Shape, TypeInv, world, rc
  <2>10. RefInv'
    <3>1. \A e \in ToSet(s.accepted) : e.receipt \in DOMAIN rc
      BY <1>7, <1>8, <2>3, <2>4 DEF Shape, RefInv
    <3>2. ToSet(s.entries) \subseteq ToSet(s.accepted)
      BY <1>8, <2>3, <2>7 DEF Shape, RefInv
    <3> QED BY <3>1, <3>2, <1>1, <1>7, <1>8, <2>7, <2>8
            DEF Shape, RefInv, Settles, world, rc
  <2>11. TodoInv'
    <3>1. iter \in Int /\ Len(signals) \in Nat
      BY <1>6 DEF Iterations, Shape, TypeInv
    <3>2. \A d \in ToSet(s.todo) : /\ d.iter = iter /\ d.iter <= iter
                                   /\ d.signal <= Len(signals) /\ d.receipt \in DOMAIN rc
      BY <3>1, <2>3, <2>4
    <3>3. \A d \in ToSet(s.todo) : Settles(d)' /\ d.iter = iter'
      BY <3>2, <1>1 DEF Settles, world, rc
    <3>4. Seq(DecisionRow)' = Seq(DecisionRow)
      BY <1>12
    <3> QED BY <3>3, <3>4, <2>3, <2>7, <2>8 DEF TodoInv
  <2>12. AskInv'
    BY <2>7, <2>8 DEF AskInv
  <2>13. PhaseInv'
    <3>1. CitiesOf(w.accepted) \subseteq CitiesOf(s.accepted)
      BY <2>3 DEF CitiesOf
    <3> QED BY <3>1, <1>1, <1>8, <2>7, <2>8 DEF Shape, PhaseInv, world
  <2> QED BY <2>9, <2>10, <2>11, <2>12, <2>13 DEF Shape
<1> QED BY <1>5, <1>13, <1>14, <1>15

-----------------------------------------------------------------------------
(* Locating.                                                               *)

Acceptedly(e) == Row(e.post, "ACCEPTED", e.receipt,
                     IF e.post.url \in DOMAIN work.signalOf
                     THEN work.signalOf[e.post.url] ELSE 0)

LEMMA AcceptedlyIs ==
  ASSUME Shape, NEW e \in ToSet(work.accepted)
  PROVE  /\ Acceptedly(e) \in DecisionRow /\ Settles(Acceptedly(e))
         /\ Acceptedly(e).url = e.post.url /\ Acceptedly(e).iter = iter
         /\ Acceptedly(e).state = "ACCEPTED" /\ Acceptedly(e).receipt = e.receipt
<1> DEFINE signal == IF e.post.url \in DOMAIN work.signalOf
                     THEN work.signalOf[e.post.url] ELSE 0
<1>1. /\ e \in Entry /\ e.post \in Post /\ e.receipt \in Nat /\ e.receipt \in DOMAIN receipts
      /\ iter \in Iterations /\ iter \in Int /\ Len(signals) \in Nat
  <2>1. ToSet(work.accepted) \subseteq Entry
    BY RecordFields, ToSetIn DEF Shape, TypeInv
  <2> QED BY <2>1 DEF Entry, Shape, RefInv, TypeInv, Iterations
<1>2. signal \in Nat /\ signal <= Len(signals)
  <2>1. \A u \in DOMAIN work.signalOf : work.signalOf[u] \in Nat
    BY RecordFields, PartialHas DEF Shape, TypeInv
  <2> QED BY <2>1, <1>1 DEF Shape, RefInv
<1> HIDE DEF signal
<1>3. Acceptedly(e) = [iter |-> iter, url |-> e.post.url, raw |-> e.post.raw,
                       state |-> "ACCEPTED", signal |-> signal, receipt |-> e.receipt]
  BY DEF Acceptedly, Row, signal
<1>4. "ACCEPTED" \in States
  BY DEF States
<1>5. Acceptedly(e) \in DecisionRow
  BY <1>1, <1>2, <1>3, <1>4 DEF DecisionRow, Post
<1>6. Settles(Acceptedly(e))
  BY <1>1, <1>2, <1>3 DEF Settles
<1> QED BY <1>3, <1>5, <1>6

\* Of several judgements of a post the last.
Final == {i \in DOMAIN work.accepted : \A j \in i + 1..Len(work.accepted) :
            work.accepted[j].post.url # work.accepted[i].post.url}

AcceptedRows == [i \in DOMAIN Ascending(Final) |->
                   Acceptedly(work.accepted[Ascending(Final)[i]])]

LEMMA AcceptedRowsAre ==
  ASSUME Shape
  PROVE  /\ AcceptedRows \in Seq(DecisionRow)
         /\ ToSet(AcceptedRows) = {Acceptedly(work.accepted[i]) : i \in Final}
         /\ \A i \in Final : work.accepted[i] \in ToSet(work.accepted)
<1> DEFINE a == work.accepted
           s == Ascending(Final)
           t == AcceptedRows
<1>1. a \in Seq(Entry)
  BY RecordFields DEF Shape, TypeInv
<1> HIDE DEF a
<1>2. DOMAIN a = 1..Len(a) /\ Len(a) \in Nat /\ \A i \in DOMAIN a : a[i] \in ToSet(a)
  BY <1>1, ToSetIn
<1>3. Final \in SUBSET (1..Len(a)) /\ Final \in SUBSET Int
  BY <1>2 DEF Final, a
<1>4. IsFiniteSet(Final)
  <2>1. IsFiniteSet(1..Len(a))
    BY <1>2, FS_Interval
  <2> QED BY <2>1, <1>3, FS_Subset
<1>5. Lists(s, Final)
  BY <1>3, <1>4, AscendingLists
<1> HIDE DEF s
<1>6. DOMAIN s = 1..Len(s) /\ Len(s) \in Nat /\ ToSet(s) = Final
  BY <1>5, ListsRange
<1>7. \A n \in DOMAIN s : s[n] \in Final
  BY <1>6 DEF ToSet
<1>8. \A i \in Final : a[i] \in ToSet(a)
  BY <1>2, <1>3
<1>9. \A i \in Final : Acceptedly(a[i]) \in DecisionRow
  BY <1>8, AcceptedlyIs DEF a
<1>10. t = [n \in DOMAIN s |-> Acceptedly(a[s[n]])]
  BY DEF AcceptedRows, s, a
<1>11. \A n \in DOMAIN s : t[n] \in DecisionRow
  BY <1>7, <1>9, <1>10
<1>12. t \in [1..Len(s) -> DecisionRow]
  BY <1>6, <1>10, <1>11
<1>13. t \in Seq(DecisionRow) /\ DOMAIN t = DOMAIN s
  BY <1>6, <1>12
<1>14. Final = {s[n] : n \in DOMAIN s}
  BY <1>6 DEF ToSet
<1>15. ToSet(t) = {Acceptedly(a[i]) : i \in Final}
  BY <1>10, <1>13, <1>14 DEF ToSet
<1> QED BY <1>8, <1>13, <1>15 DEF a

LEMMA ShapeAccepting ==
  ASSUME Shape, Accepting
  PROVE  /\ Shape' /\ work.pc = "admitting" /\ work.posts = <<>>
         /\ work' = [work EXCEPT !.pc = "accepting", !.todo = AcceptedRows]
         /\ UNCHANGED <<rows, world>>
<1>1. /\ work.pc = "admitting"
      /\ work' = [work EXCEPT !.pc = "accepting", !.todo = AcceptedRows]
      /\ UNCHANGED <<rows, world>>
  BY Zenon DEF Accepting, AcceptedRows, Acceptedly, Final
<1>2. /\ AcceptedRows \in Seq(DecisionRow)
      /\ ToSet(AcceptedRows) = {Acceptedly(work.accepted[i]) : i \in Final}
      /\ \A i \in Final : work.accepted[i] \in ToSet(work.accepted)
  BY AcceptedRowsAre
<1>3. work \in Work /\ "accepting" \in Pcs /\ AcceptedRows \in Seq(SkipRow \cup DecisionRow)
  BY <1>2, SeqMonotonic DEF Shape, TypeInv, Pcs
<1>4. work' \in Work
  BY <1>1, <1>3 DEF Work
<1>5. /\ work'.pc = "accepting" /\ work'.parent = work.parent /\ work'.posts = work.posts
      /\ work'.todo = AcceptedRows /\ work'.accepted = work.accepted
      /\ work'.entries = work.entries /\ work'.names = work.names
      /\ work'.signalOf = work.signalOf
  BY <1>1, <1>3 DEF Work
<1>6. work.posts = <<>>
  BY <1>1 DEF Shape, PhaseInv
<1>7. /\ SkipRow' = SkipRow /\ DecisionRow' = DecisionRow /\ Work' = Work /\ Raws' = Raws
  BY <1>1, TypesStay DEF world
<1>8. TypeInv'
  BY <1>1, <1>4, <1>7 DEF Shape, TypeInv, rows, world
<1>9. RefInv'
  BY <1>1, <1>5 DEF Shape, RefInv, Settles, rows, world
<1>10. TodoInv'
  <2>1. \A d \in ToSet(AcceptedRows) : d.iter = iter /\ Settles(d)
    BY <1>2, AcceptedlyIs
  <2>2. \A d \in ToSet(AcceptedRows) : d.iter = iter' /\ Settles(d)'
    BY <2>1, <1>1 DEF Settles, rows, world
  <2>3. Seq(DecisionRow)' = Seq(DecisionRow)
    BY <1>7
  <2> QED BY <2>2, <2>3, <1>2, <1>5 DEF TodoInv
<1>11. AskInv'
  BY <1>5 DEF AskInv
<1>12. PhaseInv'
  BY <1>1, <1>5, <1>6 DEF Shape, PhaseInv, world
<1> QED BY <1>1, <1>6, <1>8, <1>9, <1>10, <1>11, <1>12 DEF Shape

\* The posts that name a city.
EntriesOf(name) == [n \in DOMAIN Ascending(Naming(name)) |->
                      work.accepted[Ascending(Naming(name))[n]]]

LEMMA EntriesAre ==
  ASSUME Shape, NEW name \in work.names
  PROVE  /\ EntriesOf(name) \in Seq(Entry) /\ EntriesOf(name) # <<>>
         /\ ToSet(EntriesOf(name)) \subseteq ToSet(work.accepted)
         /\ Naming(name) \in SUBSET (DOMAIN work.accepted) /\ Naming(name) # {}
<1> DEFINE a == work.accepted
           N == Naming(name)
           s == Ascending(N)
           t == EntriesOf(name)
<1>1. a \in Seq(Entry)
  BY RecordFields DEF Shape, TypeInv
<1>2. name \in CitiesOf(a)
  BY DEF Shape, PhaseInv
<1> HIDE DEF a
<1>3. /\ DOMAIN a = 1..Len(a) /\ Len(a) \in Nat
      /\ \A i \in DOMAIN a : a[i] \in ToSet(a) /\ a[i] \in Entry
  BY <1>1, ToSetIn, ElementOfSeq, LenProperties
<1>4. N = {i \in DOMAIN a : name \in a[i].item.cities}
  BY DEF Naming, a
<1>5. N # {}
  <2>1. PICK e \in ToSet(a) : name \in e.item.cities
    BY <1>2 DEF CitiesOf
  <2> QED BY <2>1, <1>4 DEF ToSet
<1>6. N \in SUBSET (1..Len(a)) /\ N \in SUBSET Int /\ N \in SUBSET (DOMAIN a)
  BY <1>3, <1>4
<1> HIDE DEF N
<1>7. IsFiniteSet(N)
  <2>1. IsFiniteSet(1..Len(a))
    BY <1>3, FS_Interval
  <2> QED BY <2>1, <1>6, FS_Subset
<1>8. Lists(s, N)
  BY <1>6, <1>7, AscendingLists
<1> HIDE DEF s
<1>9. DOMAIN s = 1..Len(s) /\ Len(s) \in Nat /\ ToSet(s) = N
  BY <1>8, ListsRange
<1>10. \A n \in DOMAIN s : s[n] \in N
  BY <1>9 DEF ToSet
<1>11. t = [n \in DOMAIN s |-> a[s[n]]]
  BY DEF EntriesOf, s, a, N
<1>12. \A n \in DOMAIN s : t[n] \in Entry /\ t[n] \in ToSet(a)
  BY <1>3, <1>6, <1>10, <1>11
<1>13. t \in [1..Len(s) -> Entry]
  BY <1>9, <1>11, <1>12
<1>14. t \in Seq(Entry) /\ DOMAIN t = DOMAIN s
  BY <1>9, <1>13
<1>15. ToSet(t) \subseteq ToSet(a)
  BY <1>12, <1>14 DEF ToSet
<1>16. t # <<>>
  <2>1. DOMAIN s # {}
    BY <1>5, <1>9 DEF ToSet
  <2> QED BY <2>1, <1>14
<1> QED BY <1>5, <1>6, <1>14, <1>15, <1>16 DEF N, a

LEMMA AdmitIs ==
  ASSUME Shape, admit_city
  PROVE  /\ work.pc = "admitting" /\ UNCHANGED <<skips, decisions, signals, receipts, notes, world>>
         /\ \E name \in work.names :
              /\ \/ admitted' = admitted
                 \/ admitted' = admitted \cup {name} /\ MayAdmit(name) /\ name \notin admitted
              /\ \/ work' = [work EXCEPT !.names = @ \ {name}]
                 \/ work' = [work EXCEPT !.names = @ \ {name}, !.pc = "locating", !.city = name,
                                         !.entries = EntriesOf(name)]
<1>1. /\ work.pc = "admitting" /\ UNCHANGED <<skips, decisions, signals, receipts, notes, world>>
      /\ \E name \in work.names :
           /\ admitted' = IF name \notin SeedCities \cup admitted /\ MayAdmit(name)
                          THEN admitted \cup {name} ELSE admitted
           /\ work' = IF name \in SeedCities \cup admitted'
                      THEN [work EXCEPT !.names = @ \ {name}, !.pc = "locating",
                                        !.city = name, !.entries = EntriesOf(name)]
                      ELSE [work EXCEPT !.names = @ \ {name}]
  BY Zenon DEF admit_city, EntriesOf
<1> QED BY <1>1, Zenon

LEMMA ShapeAdmit ==
  ASSUME Shape, admit_city
  PROVE  Shape'
<1>1. /\ work.pc = "admitting" /\ UNCHANGED <<skips, decisions, signals, receipts, notes, world>>
  BY AdmitIs
<1>2. PICK name \in work.names :
        \/ work' = [work EXCEPT !.names = @ \ {name}]
        \/ work' = [work EXCEPT !.names = @ \ {name}, !.pc = "locating", !.city = name,
                                !.entries = EntriesOf(name)]
  BY AdmitIs
<1>3. /\ EntriesOf(name) \in Seq(Entry) /\ EntriesOf(name) # <<>>
      /\ ToSet(EntriesOf(name)) \subseteq ToSet(work.accepted)
  BY EntriesAre
<1>4. /\ work \in Work /\ "locating" \in Pcs /\ work.names \in SUBSET Named
      /\ work.todo = <<>> /\ work.posts = <<>>
  BY <1>1, RecordFields DEF Shape, TypeInv, Pcs, TodoInv, PhaseInv
<1> DEFINE names == work.names \ {name}
           entries == EntriesOf(name)
<1>5. names \in SUBSET Named /\ names \subseteq work.names /\ name \in Named \cup {Unknown}
  BY <1>4
<1> HIDE DEF names, entries
<1>6. /\ work' \in Work /\ work'.parent = work.parent /\ work'.posts = <<>>
      /\ work'.todo = <<>> /\ work'.accepted = work.accepted
      /\ work'.names \subseteq work.names /\ work'.signalOf = work.signalOf
      /\ \/ work'.pc = "admitting" /\ work'.entries = work.entries
         \/ work'.pc = "locating" /\ work'.entries = EntriesOf(name)
  <2>1. CASE work' = [work EXCEPT !.names = names]
    <3>1. work' \in Work
      BY <1>4, <1>5, <2>1 DEF Work
    <3>2. /\ work'.pc = work.pc /\ work'.parent = work.parent /\ work'.posts = work.posts
          /\ work'.todo = work.todo /\ work'.accepted = work.accepted
          /\ work'.names = names /\ work'.signalOf = work.signalOf
          /\ work'.entries = work.entries
      BY <1>4, <2>1 DEF Work
    <3> QED BY <1>1, <1>4, <1>5, <3>1, <3>2
  <2>2. CASE work' = [work EXCEPT !.names = names, !.pc = "locating", !.city = name,
                                  !.entries = entries]
    <3>1. entries \in Seq(Entry)
      BY <1>3 DEF entries
    <3>2. work' \in Work
      BY <1>4, <1>5, <2>2, <3>1 DEF Work
    <3>3. /\ work'.pc = "locating" /\ work'.parent = work.parent
          /\ work'.posts = work.posts
          /\ work'.todo = work.todo /\ work'.accepted = work.accepted
          /\ work'.names = names /\ work'.signalOf = work.signalOf
          /\ work'.entries = entries
      BY <1>4, <2>2 DEF Work
    <3> QED BY <1>1, <1>4, <1>5, <3>2, <3>3 DEF entries
  <2> QED BY <1>2, <2>1, <2>2 DEF names, entries
<1>7. /\ SkipRow' = SkipRow /\ DecisionRow' = DecisionRow /\ Work' = Work /\ Raws' = Raws
  BY <1>1, TypesStay DEF world
<1>8. TypeInv'
  BY <1>1, <1>6, <1>7 DEF Shape, TypeInv, world
<1>9. RefInv'
  BY <1>1, <1>3, <1>6 DEF Shape, RefInv, Settles, world
<1>10. TodoInv'
  <2>1. ToSet(<<>>) = {} /\ <<>> \in Seq(DecisionRow)'
    BY OfNothing
  <2> QED BY <2>1, <1>6 DEF TodoInv
<1>11. AskInv'
  BY <1>6 DEF AskInv
<1>12. PhaseInv'
  <2>1. Different(<<>>)
    BY OfNothing
  <2> QED BY <2>1, <1>1, <1>3, <1>6 DEF Shape, PhaseInv, world
<1> QED BY <1>8, <1>9, <1>10, <1>11, <1>12 DEF Shape

\* The first of the entries becomes a signal, or not.
WrittenSignal(e) ==
  [iter |-> iter, url |-> e.post.url, city |-> work.city, state |-> classify(e)]

LEMMA WriteIs ==
  ASSUME Shape, write_signal
  PROVE  LET e == Head(work.entries) IN
         /\ work.pc = "locating" /\ UNCHANGED <<skips, decisions, admitted, receipts, notes, world>>
         /\ e \in ToSet(work.accepted) /\ e \in Entry
         /\ work' \in Work /\ work'.pc \in {"locating", "admitting"}
         /\ work'.pc = "locating" => work'.entries # <<>>
         /\ ToSet(work'.entries) \subseteq ToSet(work.entries)
         /\ work'.parent = work.parent /\ work'.posts = work.posts /\ work'.todo = work.todo
         /\ work'.accepted = work.accepted /\ work'.names = work.names
         /\ work'.gaps = work.gaps /\ work'.asked = work.asked /\ work'.calls = work.calls
         /\ \/ signals' = signals /\ work'.signalOf = work.signalOf
            \/ /\ signals' = Append(signals, WrittenSignal(e)) /\ ~SignalExists(e.post.url)
               /\ work'.signalOf = Over(work.signalOf, [u \in {e.post.url} |-> Len(signals) + 1])
<1> DEFINE e == Head(work.entries)
           t == Tail(work.entries)
           pc == IF Len(work.entries) = 1 THEN "admitting" ELSE work.pc
           signalOf == Over(work.signalOf, [u \in {e.post.url} |-> Len(signals) + 1])
           writes == e.item.salience >= MinSalience /\ ~SignalExists(e.post.url)
<1>1. /\ work.pc = "locating" /\ UNCHANGED <<skips, decisions, admitted, receipts, notes, world>>
      /\ signals' = IF writes THEN Append(signals, WrittenSignal(e)) ELSE signals
      /\ work' = [work EXCEPT !.entries = t, !.pc = pc,
                              !.signalOf = IF writes THEN signalOf ELSE work.signalOf]
  BY Zenon DEF write_signal, WrittenSignal
<1>2. work \in Work /\ work.entries \in Seq(Entry) /\ work.entries # <<>>
      /\ work.signalOf \in Partial(Urls, Nat) /\ Len(signals) + 1 \in Nat
  BY <1>1, RecordFields DEF Shape, TypeInv, PhaseInv
<1>3. /\ e \in Entry /\ t \in Seq(Entry) /\ ToSet(work.entries) = {e} \cup ToSet(t)
      /\ Len(t) = Len(work.entries) - 1
  BY <1>2, ToSetOfTail, HeadTailProperties
<1>4. e \in ToSet(work.accepted)
  BY <1>3 DEF Shape, RefInv
<1> HIDE DEF e, t
<1>5. pc \in {"locating", "admitting"} /\ pc \in Pcs /\ (pc = "locating" => t # <<>>)
  <2>1. Len(work.entries) \in Nat
    BY <1>2
  <2>2. t = <<>> => Len(t) = 0
    OBVIOUS
  <2>3. t = <<>> => Len(work.entries) = 1
    BY <2>1, <2>2, <1>3
  <2> QED BY <2>3, <1>1 DEF Pcs
<1> HIDE DEF pc
<1>6. signalOf \in Partial(Urls, Nat)
  <2> DEFINE g == [u \in {e.post.url} |-> Len(signals) + 1]
  <2>1. e.post.url \in Urls
    BY <1>3 DEF Entry, Post
  <2>2. g \in [{e.post.url} -> Nat]
    BY <1>2
  <2>3. g \in Partial(Urls, Nat)
    BY <2>1, <2>2 DEF Partial
  <2>4. signalOf = Over(work.signalOf, g)
    OBVIOUS
  <2> HIDE DEF g, signalOf
  <2> QED BY <2>3, <2>4, <1>2, OverIs
<1> HIDE DEF signalOf
<1>7. CASE writes
  <2>1. /\ signals' = Append(signals, WrittenSignal(e)) /\ ~SignalExists(e.post.url)
        /\ work' = [work EXCEPT !.entries = t, !.pc = pc, !.signalOf = signalOf]
    BY <1>1, <1>7
  <2>2. work' \in Work
    BY <1>2, <1>3, <1>5, <1>6, <2>1 DEF Work
  <2>3. /\ work'.pc = pc /\ work'.entries = t /\ work'.parent = work.parent
        /\ work'.posts = work.posts /\ work'.todo = work.todo
        /\ work'.accepted = work.accepted /\ work'.names = work.names
        /\ work'.signalOf = signalOf
        /\ work'.gaps = work.gaps /\ work'.asked = work.asked /\ work'.calls = work.calls
    BY <1>2, <2>1 DEF Work
  <2> QED BY <1>1, <1>3, <1>4, <1>5, <2>1, <2>2, <2>3 DEF e, signalOf
<1>8. CASE ~writes
  <2>1. /\ signals' = signals
        /\ work' = [work EXCEPT !.entries = t, !.pc = pc, !.signalOf = work.signalOf]
    BY <1>1, <1>8
  <2>2. work' \in Work
    BY <1>2, <1>3, <1>5, <2>1 DEF Work
  <2>3. /\ work'.pc = pc /\ work'.entries = t /\ work'.parent = work.parent
        /\ work'.posts = work.posts /\ work'.todo = work.todo
        /\ work'.accepted = work.accepted /\ work'.names = work.names
        /\ work'.signalOf = work.signalOf
        /\ work'.gaps = work.gaps /\ work'.asked = work.asked /\ work'.calls = work.calls
    BY <1>2, <2>1 DEF Work
  <2> QED BY <1>1, <1>3, <1>4, <1>5, <2>1, <2>2, <2>3 DEF e
<1> QED BY <1>7, <1>8

LEMMA ShapeWrite ==
  ASSUME Shape, write_signal
  PROVE  Shape'
<1> DEFINE e == Head(work.entries)
<1>1. /\ work.pc = "locating" /\ UNCHANGED <<skips, decisions, admitted, receipts, notes, world>>
      /\ e \in ToSet(work.accepted) /\ e \in Entry
      /\ work' \in Work /\ work'.pc \in {"locating", "admitting"}
      /\ work'.pc = "locating" => work'.entries # <<>>
      /\ ToSet(work'.entries) \subseteq ToSet(work.entries)
      /\ work'.parent = work.parent /\ work'.posts = work.posts /\ work'.todo = work.todo
      /\ work'.accepted = work.accepted /\ work'.names = work.names
      /\ \/ signals' = signals /\ work'.signalOf = work.signalOf
         \/ /\ signals' = Append(signals, WrittenSignal(e))
            /\ work'.signalOf = Over(work.signalOf, [u \in {e.post.url} |-> Len(signals) + 1])
  BY WriteIs
<1> HIDE DEF e
<1>2. work \in Work /\ signals \in Seq(Signal) /\ work.todo = <<>> /\ work.posts = <<>>
      /\ iter \in Iterations /\ work.signalOf \in Partial(Urls, Nat)
  BY <1>1, RecordFields DEF Shape, TypeInv, TodoInv, PhaseInv
<1>3. /\ signals' \in Seq(Signal) /\ Len(signals) \in Nat /\ Len(signals') \in Nat
      /\ Len(signals) <= Len(signals')
      /\ \A u \in DOMAIN work'.signalOf : work'.signalOf[u] <= Len(signals')
  <2>1. \A u \in DOMAIN work.signalOf : /\ work.signalOf[u] \in Nat
                                        /\ work.signalOf[u] <= Len(signals)
    BY <1>2, PartialHas DEF Shape, RefInv
  <2>2. CASE signals' = signals /\ work'.signalOf = work.signalOf
    BY <2>1, <2>2, <1>2
  <2>3. CASE /\ signals' = Append(signals, WrittenSignal(e))
             /\ work'.signalOf = Over(work.signalOf, [u \in {e.post.url} |-> Len(signals) + 1])
    <3> DEFINE g == [u \in {e.post.url} |-> Len(signals) + 1]
    <3>1. WrittenSignal(e) \in Signal
      <4>1. e.post.url \in Urls /\ work.city \in Named \cup {Unknown}
        BY <1>1, <1>2, RecordFields DEF Entry, Post
      <4>2. classify(e) \in {"CANDIDATE", "CONFIRMED"}
        BY DEF classify
      <4> QED BY <4>1, <4>2, <1>2 DEF WrittenSignal, Signal
    <3>2. signals' \in Seq(Signal) /\ Len(signals') = Len(signals) + 1 /\ Len(signals) \in Nat
      BY <2>3, <3>1, <1>2, AppendProperties
    <3>3. DOMAIN g = {e.post.url} /\ \A u \in DOMAIN g : g[u] = Len(signals) + 1
      OBVIOUS
    <3>4. work'.signalOf = Over(work.signalOf, g)
      BY <2>3
    <3> HIDE DEF g
    <3>5. /\ DOMAIN Over(work.signalOf, g) = DOMAIN work.signalOf \cup DOMAIN g
          /\ \A x \in DOMAIN g : Over(work.signalOf, g)[x] = g[x]
          /\ \A x \in DOMAIN work.signalOf \ DOMAIN g :
               Over(work.signalOf, g)[x] = work.signalOf[x]
      BY OverHas
    <3>6. \A u \in DOMAIN work'.signalOf : work'.signalOf[u] <= Len(signals')
      BY <2>1, <3>2, <3>3, <3>4, <3>5
    <3> QED BY <3>2, <3>6
  <2> QED BY <1>1, <2>2, <2>3
<1>4. /\ SkipRow' = SkipRow /\ DecisionRow' = DecisionRow /\ Work' = Work /\ Raws' = Raws
  BY <1>1, TypesStay DEF world
<1>5. TypeInv'
  BY <1>1, <1>3, <1>4 DEF Shape, TypeInv, world
<1>6. RefInv'
  <2>1. \A d \in ToSet(decisions) : d.signal \in Nat
    <3>1. ToSet(decisions) \subseteq DecisionRow
      BY ToSetIn DEF Shape, TypeInv
    <3> QED BY <3>1 DEF DecisionRow
  <2>2. \A d \in ToSet(decisions) : Settles(d)'
    BY <2>1, <1>1, <1>3 DEF Shape, RefInv, Settles, world
  <2> QED BY <2>2, <1>1, <1>3 DEF Shape, RefInv, world
<1>7. TodoInv'
  <2>1. ToSet(<<>>) = {} /\ <<>> \in Seq(DecisionRow)'
    BY OfNothing
  <2> QED BY <2>1, <1>1, <1>2 DEF TodoInv
<1>8. AskInv'
  BY <1>1 DEF AskInv
<1>9. PhaseInv'
  BY <1>1, <1>2 DEF Shape, PhaseInv, world
<1> QED BY <1>5, <1>6, <1>7, <1>8, <1>9 DEF Shape

LEMMA ShapeStep == ASSUME Shape, [Next]_vars PROVE Shape'
BY ShapeGather, ShapeSkip, ShapeEndGather, ShapeGatherForRetry, ShapeJudge, ShapeDecision,
   ShapeEndBatch, ShapeAdmit, ShapeWrite, ShapeAccepting, ShapeEndStage, ShapeCrash,
   ShapeResume, ShapeRetry, ShapeAround DEF Next

LEMMA ShapeHolds == Spec => []Shape
<1>1. Init => Shape
  BY ShapeInit
<1>2. Shape /\ [Next]_vars => Shape'
  BY ShapeStep
<1> QED BY <1>1, <1>2, PTL DEF Spec

-----------------------------------------------------------------------------
(* What a step does to a run.                                              *)

\* What a reply decides: nothing yet, or the whole batch.
LEMMA JudgeGives ==
  ASSUME Shape, judge
  PROVE  /\ work.pc = "judging" /\ work.todo = <<>> /\ iter' = iter
         /\ UNCHANGED <<skips, decisions, signals, admitted, notes, payloads>>
         /\ \E x \in Receipt : receipts' = Append(receipts, x)
         /\ work'.posts = work.posts
         /\ \/ /\ work'.pc = "judging" /\ work'.todo = <<>>
               /\ work'.accepted = work.accepted /\ work'.gaps = work.gaps
            \/ /\ work'.pc = "recording" /\ work'.todo \in Seq(DecisionRow)
               /\ \E o \in Outcome, ro \in Partial(Urls, Nat) :
                    /\ Told(work.posts, Len(Batch), iter, receipts', o, ro)
                    /\ ToSet(work'.todo) = SettledRows(o, ro)
                    /\ ToSet(work'.accepted) = ToSet(work.accepted) \cup Acceptances(o, ro)
                    /\ work'.gaps \in Nat /\ work.gaps <= work'.gaps
                    /\ ToSet(o.faults) \cup ToSet(o.missing) # {} => work'.gaps > 0
<1>1. /\ work.pc = "judging"
      /\ UNCHANGED <<skips, decisions, signals, admitted, notes, world>>
  BY JudgeIs
<1>2. PICK reply \in Reply : LET w == Answered(reply) IN
        /\ receipts' = Append(receipts, Call(reply))
        /\ \/ /\ w.at + w.size <= Len(Batch) /\ work' = [w EXCEPT !.at = @ + w.size]
           \/ /\ w.size > 1
              /\ work' = [w EXCEPT !.size = Halved(@), !.at = 1, !.outcome = Nothing,
                                   !.receiptOf = <<>>]
           \/ ~(w.at + w.size <= Len(Batch)) /\ work' = Settled(w)
  BY JudgeIs
<1> DEFINE w == Answered(reply)
           x == Call(reply)
           rc == receipts'
           n == Len(Batch)
<1>3. /\ w \in Work /\ x \in Receipt
      /\ w = [work EXCEPT !.outcome = w.outcome, !.receiptOf = w.receiptOf,
                          !.calls = work.calls + 1]
      /\ PartEnd \in work.at..n /\ n = BatchLen(work.posts)
      /\ Told(work.posts, PartEnd, iter, rc, w.outcome, w.receiptOf)
  BY <1>1, <1>2, AnsweredIs
<1>4. rc = Append(receipts, x)
  BY <1>2
<1>5. \/ /\ w.at + w.size <= n /\ work' = [w EXCEPT !.at = @ + w.size]
      \/ /\ w.size > 1
         /\ work' = [w EXCEPT !.size = Halved(@), !.at = 1, !.outcome = Nothing,
                              !.receiptOf = <<>>]
      \/ ~(w.at + w.size <= n) /\ work' = Settled(w)
  BY <1>2
<1> HIDE DEF w, x, rc, n
<1>6. work \in Work /\ iter \in Iterations /\ work.posts \in Seq(Post) /\ work.todo = <<>>
  BY <1>1, RecordFields DEF Shape, TypeInv, TodoInv
<1>7. /\ w.pc = "judging" /\ w.posts = work.posts /\ w.todo = <<>>
      /\ w.accepted = work.accepted /\ w.gaps = work.gaps
      /\ w.size = work.size /\ w.at = work.at
      /\ w.outcome \in Outcome /\ w.receiptOf \in Partial(Urls, Nat)
  <2>1. /\ w.pc = work.pc /\ w.posts = work.posts /\ w.todo = work.todo
        /\ w.accepted = work.accepted /\ w.gaps = work.gaps
        /\ w.size = work.size /\ w.at = work.at
    BY <1>3, <1>6 DEF Work
  <2> QED BY <2>1, <1>1, <1>3, <1>6, RecordFields
<1>8. \E y \in Receipt : receipts' = Append(receipts, y)
  BY <1>3, <1>4 DEF rc
<1>9. UNCHANGED <<skips, decisions, signals, admitted, notes, payloads>> /\ iter' = iter
  BY <1>1 DEF world
<1>10. CASE \/ w.at + w.size <= n /\ work' = [w EXCEPT !.at = @ + w.size]
            \/ work' = [w EXCEPT !.size = Halved(@), !.at = 1, !.outcome = Nothing,
                                 !.receiptOf = <<>>]
  <2>1. /\ work'.pc = w.pc /\ work'.posts = w.posts /\ work'.todo = w.todo
        /\ work'.accepted = w.accepted /\ work'.gaps = w.gaps
    BY <1>3, <1>10 DEF Work
  <2> QED BY <2>1, <1>1, <1>6, <1>7, <1>8, <1>9
<1>11. CASE ~(w.at + w.size <= n) /\ work' = Settled(w)
  <2> DEFINE s == Settled(w)
  <2>1. PartEnd = n
    <3>1. PartEnd = IF w.at + w.size - 1 <= n THEN w.at + w.size - 1 ELSE n
      BY <1>7 DEF PartEnd, n
    <3>2. n = Len(Batch) /\ Len(Batch) \in 0..Len(work.posts) /\ Len(work.posts) \in Nat
      BY <1>6, BatchIs DEF n
    <3>3. w.size \in Nat /\ w.at \in Nat
      BY <1>3, RecordFields
    <3> QED BY <3>1, <3>2, <3>3, <1>11
  <2>2. Told(work.posts, Len(Batch), iter, rc, w.outcome, w.receiptOf)
    BY <1>3, <2>1 DEF n
  <2>3. /\ s = [w EXCEPT !.pc = "recording", !.todo = s.todo, !.accepted = s.accepted,
                         !.gaps = s.gaps]
        /\ s.todo \in Seq(DecisionRow)
        /\ ToSet(s.todo) = SettledRows(w.outcome, w.receiptOf)
        /\ ToSet(s.accepted) = ToSet(w.accepted) \cup Acceptances(w.outcome, w.receiptOf)
        /\ s.gaps \in Nat /\ w.gaps <= s.gaps
        /\ ToSet(w.outcome.faults) \cup ToSet(w.outcome.missing) # {} => s.gaps > 0
    BY <1>3, <1>6, <2>2, SettledIs
  <2> HIDE DEF s
  <2>4. s.pc = "recording" /\ s.posts = w.posts
    BY <1>3, <2>3 DEF Work
  <2>5. work' = s
    BY <1>11 DEF s
  <2> QED BY <2>2, <2>3, <2>4, <2>5, <1>1, <1>6, <1>7, <1>8, <1>9 DEF rc
<1> QED BY <1>5, <1>10, <1>11

\* A run that starts, or one that is over, holds nothing.
LEMMA IdleGives ==
  ASSUME Shape, \/ Crash \/ Resume \/ prepare_retry_triage
  PROVE  /\ work'.pc \in {"gather", "interrupted"} /\ work'.posts = <<>>
         /\ work'.todo = <<>> /\ work'.accepted = <<>> /\ work'.gaps = 0
         /\ work'.names = {} /\ work'.asked = 0 /\ work'.calls = 0
         /\ UNCHANGED <<skips, decisions, signals, admitted, receipts, payloads>>
         /\ iter' = iter \/ iter' = iter + 1
<1> DEFINE Empty(w) == /\ w.posts = <<>> /\ w.todo = <<>> /\ w.accepted = <<>> /\ w.gaps = 0
                       /\ w.names = {} /\ w.asked = 0 /\ w.calls = 0
<1>1. ASSUME NEW pc PROVE Empty(Idle(pc)) /\ Idle(pc).pc = pc
  BY IdleIs
<1>2. ASSUME NEW parent
      PROVE  /\ Empty([Idle("gather") EXCEPT !.parent = parent])
             /\ [Idle("gather") EXCEPT !.parent = parent].pc = "gather"
  BY DEF Idle
<1> HIDE DEF Empty
<1>3. CASE Crash
  <2>1. /\ work' = Idle("interrupted") /\ iter' = iter
        /\ UNCHANGED <<skips, decisions, signals, admitted, receipts, payloads>>
    BY <1>3 DEF Crash
  <2>2. Empty(work') /\ work'.pc = "interrupted"
    BY <1>1, <2>1
  <2> QED BY <2>1, <2>2 DEF Empty
<1>4. CASE Resume
  <2>1. /\ work' = Idle("gather") /\ iter' = iter
        /\ UNCHANGED <<skips, decisions, signals, admitted, receipts, payloads>>
    BY <1>4 DEF Resume, rows, world
  <2>2. Empty(work') /\ work'.pc = "gather"
    BY <1>1, <2>1
  <2> QED BY <2>1, <2>2 DEF Empty
<1>5. CASE prepare_retry_triage
  <2>1. PICK parent : work' = [Idle("gather") EXCEPT !.parent = parent]
    BY <1>5 DEF prepare_retry_triage
  <2>2. /\ iter' = iter + 1
        /\ UNCHANGED <<skips, decisions, signals, admitted, receipts, payloads>>
    BY <1>5 DEF prepare_retry_triage
  <2>3. Empty(work') /\ work'.pc = "gather"
    BY <1>2, <2>1
  <2> QED BY <2>2, <2>3 DEF Empty
<1> QED BY <1>3, <1>4, <1>5

\* A row is written, and with it the list of those to do is shorter.
LEMMA RowGives ==
  ASSUME Shape, insert_triage_skip \/ insert_triage_decision
  PROVE  /\ work'.pc = work.pc /\ work'.posts = work.posts /\ work'.todo = Tail(work.todo)
         /\ work'.accepted = work.accepted /\ work'.gaps = work.gaps
         /\ work'.names = work.names /\ work'.asked = work.asked /\ work'.calls = work.calls
         /\ UNCHANGED <<signals, admitted, receipts, notes, payloads, iter>>
         /\ work.todo # <<>>
         /\ \/ /\ insert_triage_skip /\ work.pc = "skipping" /\ decisions' = decisions
               /\ skips' = Append(skips, Head(work.todo)) /\ Head(work.todo) \in SkipRow
               /\ Tail(work.todo) \in Seq(SkipRow)
               /\ ToSet(skips') = ToSet(skips) \cup {Head(work.todo)}
               /\ ToSet(work.todo) = {Head(work.todo)} \cup ToSet(Tail(work.todo))
            \/ /\ insert_triage_decision /\ work.pc \in {"recording", "accepting"}
               /\ skips' = skips
               /\ ToSet(decisions') = ToSet(decisions) \cup {Head(work.todo)}
               /\ ToSet(work.todo) = {Head(work.todo)} \cup ToSet(Tail(work.todo))
<1> DEFINE h == Head(work.todo)
           t == Tail(work.todo)
<1>1. /\ work.todo # <<>> /\ work' = [work EXCEPT !.todo = t]
      /\ UNCHANGED <<signals, admitted, receipts, notes, payloads, iter>>
  BY DEF insert_triage_skip, insert_triage_decision, world
<1>2. work \in Work /\ skips \in Seq(SkipRow) /\ decisions \in Seq(DecisionRow)
  BY DEF Shape, TypeInv
<1>3. /\ work'.pc = work.pc /\ work'.posts = work.posts /\ work'.todo = t
      /\ work'.accepted = work.accepted /\ work'.gaps = work.gaps
      /\ work'.names = work.names /\ work'.asked = work.asked /\ work'.calls = work.calls
  BY <1>1, <1>2 DEF Work
<1>4. CASE insert_triage_skip
  <2>1. work.pc = "skipping" /\ skips' = Append(skips, h) /\ decisions' = decisions
    BY <1>4 DEF insert_triage_skip
  <2>2. work.todo \in Seq(SkipRow)
    BY <2>1 DEF Shape, TodoInv
  <2>3. h \in SkipRow /\ t \in Seq(SkipRow) /\ ToSet(work.todo) = {h} \cup ToSet(t)
    BY <2>2, <1>1, ToSetOfTail
  <2> HIDE DEF h, t
  <2>4. ToSet(skips') = ToSet(skips) \cup {h}
    BY <2>1, <2>3, <1>2, ToSetOfAppend
  <2> QED BY <2>1, <2>3, <2>4, <1>1, <1>3, <1>4 DEF h, t
<1>5. CASE insert_triage_decision
  <2>1. /\ work.pc \in {"recording", "accepting"} /\ decisions' = Append(decisions, h)
        /\ skips' = skips
    BY <1>5 DEF insert_triage_decision
  <2>2. work.todo \in Seq(DecisionRow)
    BY <2>1 DEF Shape, TodoInv
  <2>3. h \in DecisionRow /\ ToSet(work.todo) = {h} \cup ToSet(t)
    BY <2>2, <1>1, ToSetOfTail
  <2> HIDE DEF h, t
  <2>4. ToSet(decisions') = ToSet(decisions) \cup {h}
    BY <2>1, <2>3, <1>2, ToSetOfAppend
  <2> QED BY <2>1, <2>3, <2>4, <1>1, <1>3, <1>5 DEF h, t
<1> QED BY <1>4, <1>5

LEMMA BatchGives ==
  ASSUME Shape, \/ EndGather \/ gather_for_retry \/ EndBatch
  PROVE  /\ work'.pc \in {"judging", "admitting"} /\ work'.todo = <<>>
         /\ work'.accepted = work.accepted /\ work'.gaps = work.gaps
         /\ UNCHANGED <<skips, decisions, signals, admitted, receipts, payloads, iter>>
         /\ work.todo = <<>>
         /\ \/ EndGather /\ work.pc = "skipping" /\ work'.posts = work.posts
            \/ gather_for_retry /\ work.pc = "gather" /\ iter # 1
            \/ /\ EndBatch /\ work.pc = "recording" /\ notes' = notes
               /\ work'.posts = SubSeq(work.posts, Len(Batch) + 1, Len(work.posts))
<1> DEFINE Same(w) == /\ w \in Work /\ w.todo = <<>> /\ w.accepted = work.accepted
                      /\ w.gaps = work.gaps /\ work' = NextBatch(w)
<1>1. work \in Work
  BY DEF Shape, TypeInv
<1>2. ASSUME NEW w, Same(w)
      PROVE  /\ work'.pc \in {"judging", "admitting"} /\ work'.todo = <<>>
             /\ work'.accepted = work.accepted /\ work'.gaps = work.gaps
             /\ work'.posts = w.posts
  <2>1. w \in Work /\ work' = NextBatch(w)
    BY <1>2
  <2>2. \/ work' = [w EXCEPT !.pc = "admitting", !.names = CitiesOf(w.accepted)]
        \/ work' = [w EXCEPT !.pc = "judging", !.size = BatchLen(w.posts), !.at = 1,
                             !.asked = @ + BatchLen(w.posts), !.outcome = Nothing,
                             !.receiptOf = <<>>]
    BY <2>1, NextBatchIs
  <2>3. /\ work'.pc \in {"judging", "admitting"} /\ work'.todo = w.todo
        /\ work'.accepted = w.accepted /\ work'.gaps = w.gaps /\ work'.posts = w.posts
    BY <2>1, <2>2 DEF Work
  <2> QED BY <2>3, <1>2
<1>3. CASE EndGather
  <2>1. /\ work.todo = <<>> /\ work' = NextBatch(work) /\ work.pc = "skipping"
        /\ UNCHANGED <<skips, decisions, signals, admitted, receipts, payloads, iter>>
    BY <1>3 DEF EndGather, world
  <2>2. Same(work)
    BY <1>1, <2>1
  <2> HIDE DEF Same
  <2> QED BY <1>2, <1>3, <2>1, <2>2
<1>4. CASE gather_for_retry
  <2> DEFINE gaps == uncovered_triage_decisions(work.parent)
             held == {i \in gaps : decisions[i].raw \in kept}
             w == [work EXCEPT !.posts = Retried(held)]
  <2>1. /\ work.pc = "gather" /\ work.parent # 0 /\ work' = NextBatch(w)
        /\ UNCHANGED <<skips, decisions, signals, admitted, receipts, payloads, iter>>
    BY <1>4, Zenon DEF gather_for_retry, Retried, world
  <2>2. Retried(held) \in Seq(Post)
    <3>1. held \in SUBSET (DOMAIN decisions)
      BY DEF uncovered_triage_decisions
    <3> QED BY <3>1, RetriedAre DEF Shape, TypeInv
  <2>3. work.todo = <<>> /\ iter # 1
    <3>1. work.parent \in Nat
      BY <1>1, RecordFields
    <3> QED BY <3>1, <2>1 DEF Shape, TodoInv, RefInv
  <2> HIDE DEF held
  <2>4. w \in Work /\ w.todo = work.todo /\ w.accepted = work.accepted /\ w.gaps = work.gaps
    BY <1>1, <2>2 DEF Work
  <2> HIDE DEF w
  <2>5. Same(w)
    BY <2>1, <2>3, <2>4
  <2> HIDE DEF Same
  <2>6. /\ work'.pc \in {"judging", "admitting"} /\ work'.todo = <<>>
        /\ work'.accepted = work.accepted /\ work'.gaps = work.gaps
    BY <1>2, <2>5
  <2> QED BY <1>4, <2>1, <2>3, <2>6
<1>5. CASE EndBatch
  <2> DEFINE rest == SubSeq(work.posts, Len(Batch) + 1, Len(work.posts))
             w == [work EXCEPT !.posts = rest]
  <2>1. /\ work.pc = "recording" /\ work.todo = <<>> /\ work' = NextBatch(w) /\ notes' = notes
        /\ UNCHANGED <<skips, decisions, signals, admitted, receipts, payloads, iter>>
    BY <1>5, Zenon DEF EndBatch, rows, world
  <2>2. rest \in Seq(Post)
    <3>1. work.posts \in Seq(Post)
      BY <1>1, RecordFields
    <3>2. Len(Batch) \in 0..Len(work.posts) /\ Len(work.posts) \in Nat
      BY <3>1, BatchIs
    <3>3. \A i \in (Len(Batch) + 1)..Len(work.posts) : work.posts[i] \in Post
      BY <3>1, <3>2
    <3> QED BY <3>1, <3>2, <3>3, SubSeqProperties
  <2> HIDE DEF rest
  <2>3. /\ w \in Work /\ w.todo = work.todo /\ w.accepted = work.accepted
        /\ w.gaps = work.gaps /\ w.posts = rest
    BY <1>1, <2>2 DEF Work
  <2> HIDE DEF w
  <2>4. Same(w)
    BY <2>1, <2>3
  <2> HIDE DEF Same
  <2>5. /\ work'.pc \in {"judging", "admitting"} /\ work'.todo = <<>>
        /\ work'.accepted = work.accepted /\ work'.gaps = work.gaps /\ work'.posts = w.posts
    BY <1>2, <2>4
  <2> QED BY <1>5, <2>1, <2>3, <2>5 DEF rest
<1> QED BY <1>3, <1>4, <1>5

\* The cities and the signals change nothing of what was decided.
LEMMA PlaceGives ==
  ASSUME Shape, admit_city \/ write_signal
  PROVE  /\ work.pc \in {"admitting", "locating"} /\ work'.pc \in {"admitting", "locating"}
         /\ work.todo = <<>> /\ work'.todo = <<>> /\ work.posts = <<>> /\ work'.posts = <<>>
         /\ work'.accepted = work.accepted /\ work'.gaps = work.gaps
         /\ work'.asked = work.asked /\ work'.calls = work.calls
         /\ UNCHANGED <<skips, decisions, receipts, notes, payloads, iter>>
<1>1. CASE admit_city
  <2>1. /\ work.pc = "admitting"
        /\ UNCHANGED <<skips, decisions, receipts, notes, payloads, iter>>
    BY <1>1, AdmitIs DEF world
  <2>2. PICK name \in work.names :
          \/ work' = [work EXCEPT !.names = @ \ {name}]
          \/ work' = [work EXCEPT !.names = @ \ {name}, !.pc = "locating", !.city = name,
                                  !.entries = EntriesOf(name)]
    BY <1>1, AdmitIs
  <2>3. work \in Work /\ work.todo = <<>> /\ work.posts = <<>>
    BY <2>1 DEF Shape, TypeInv, TodoInv, PhaseInv
  <2>4. /\ work'.todo = work.todo /\ work'.posts = work.posts
        /\ work'.accepted = work.accepted /\ work'.gaps = work.gaps
        /\ work'.asked = work.asked /\ work'.calls = work.calls
        /\ work'.pc \in {work.pc, "locating"}
    BY <2>2, <2>3 DEF Work
  <2> QED BY <2>1, <2>3, <2>4
<1>2. CASE write_signal
  <2>1. /\ work.pc = "locating" /\ UNCHANGED <<skips, decisions, receipts, notes, payloads, iter>>
        /\ work'.pc \in {"locating", "admitting"}
        /\ work'.posts = work.posts /\ work'.todo = work.todo
        /\ work'.accepted = work.accepted /\ work'.gaps = work.gaps
        /\ work'.asked = work.asked /\ work'.calls = work.calls
    BY <1>2, WriteIs DEF world
  <2>2. work.todo = <<>> /\ work.posts = <<>>
    BY <2>1 DEF Shape, TodoInv, PhaseInv
  <2> QED BY <2>1, <2>2
<1> QED BY <1>1, <1>2

LEMMA CloseGives ==
  ASSUME Shape, EndStage
  PROVE  /\ work.pc = "accepting" /\ work'.pc = "closed" /\ work.todo = <<>>
         /\ work'.todo = <<>> /\ work'.posts = <<>> /\ work'.accepted = work.accepted
         /\ work'.gaps = work.gaps
         /\ work'.asked = work.asked /\ work'.calls = work.calls
         /\ UNCHANGED <<skips, decisions, signals, admitted, receipts, payloads, iter>>
         /\ Note("not judged", work.gaps > 0)
<1>1. /\ work.pc = "accepting" /\ work.todo = <<>> /\ work' = [work EXCEPT !.pc = "closed"]
      /\ Note("not judged", work.gaps > 0)
      /\ UNCHANGED <<skips, decisions, signals, admitted, receipts, payloads, iter>>
  BY DEF EndStage, world
<1>2. work \in Work /\ work.posts = <<>>
  BY <1>1 DEF Shape, TypeInv, PhaseInv
<1>3. /\ work'.pc = "closed" /\ work'.todo = work.todo /\ work'.posts = work.posts
      /\ work'.accepted = work.accepted /\ work'.gaps = work.gaps
      /\ work'.asked = work.asked /\ work'.calls = work.calls
  BY <1>1, <1>2 DEF Work
<1> QED BY <1>1, <1>2, <1>3

LEMMA AcceptingGives ==
  ASSUME Shape, Accepting
  PROVE  /\ work.pc = "admitting" /\ work'.pc = "accepting" /\ work.todo = <<>>
         /\ work'.todo = AcceptedRows /\ work.posts = <<>> /\ work'.posts = <<>>
         /\ work'.accepted = work.accepted /\ work'.gaps = work.gaps
         /\ work'.asked = work.asked /\ work'.calls = work.calls
         /\ UNCHANGED <<skips, decisions, signals, admitted, receipts, notes, payloads, iter>>
<1>1. /\ work.pc = "admitting" /\ work.posts = <<>>
      /\ work' = [work EXCEPT !.pc = "accepting", !.todo = AcceptedRows]
      /\ UNCHANGED <<rows, world>>
  BY ShapeAccepting
<1>2. work \in Work /\ work.todo = <<>>
  BY <1>1 DEF Shape, TypeInv, TodoInv
<1>3. /\ work'.pc = "accepting" /\ work'.posts = work.posts /\ work'.todo = AcceptedRows
      /\ work'.accepted = work.accepted /\ work'.gaps = work.gaps
      /\ work'.asked = work.asked /\ work'.calls = work.calls
  BY <1>1, <1>2 DEF Work
<1> QED BY <1>1, <1>2, <1>3 DEF rows, world

LEMMA AroundGives ==
  ASSUME \/ purge_expired_raw \/ Tick \/ UNCHANGED vars
  PROVE  UNCHANGED <<rows, payloads, work, iter>>
BY DEF purge_expired_raw, Tick, vars, rows

-----------------------------------------------------------------------------
(* Cities are admitted on what was said.                                   *)

\* How many values there are, but for one.
Count(f, U, x) == Cardinality({f[u] : u \in U} \ {x})

LEMMA CountsGrow ==
  ASSUME NEW U, IsFiniteSet(U), NEW V \in SUBSET U, NEW f, NEW x
  PROVE  Count(f, V, x) \in Nat /\ Count(f, U, x) \in Nat /\ Count(f, V, x) <= Count(f, U, x)
<1> DEFINE all == {f[u] : u \in U}
           few == {f[u] : u \in V} \ {x}
           many == {f[u] : u \in U} \ {x}
<1>1. IsFiniteSet(all)
  BY ImageIsFinite
<1>2. many \in SUBSET all /\ few \in SUBSET many
  OBVIOUS
<1> HIDE DEF all, few, many
<1>3. IsFiniteSet(many)
  BY <1>1, <1>2, FS_Subset
<1>4. IsFiniteSet(few) /\ Cardinality(few) <= Cardinality(many)
  BY <1>2, <1>3, FS_Subset
<1>5. Cardinality(few) \in Nat /\ Cardinality(many) \in Nat
  BY <1>3, <1>4, FS_CardinalityType
<1> QED BY <1>4, <1>5 DEF few, many, Count

\* The posts that, in an iteration, were said to name a city.
SaidToName(rc, i, city) ==
  {u \in Urls : \E k \in DOMAIN rc :
     /\ rc[k].iter = i /\ u \in DOMAIN rc[k].of
     /\ rc[k].of[u].is = "relevant" /\ city \in rc[k].of[u].cities}

Corroborates(urls) ==
  /\ Cardinality({Publisher[u] : u \in urls} \ {Unknown}) >= MinDomains
  /\ Cardinality({Claim[u] : u \in urls}) >= MinDomains

\* More posts corroborate no less.
LEMMA CorroboratesMore ==
  ASSUME NEW U \in SUBSET Urls, NEW V \in SUBSET U, Corroborates(V)
  PROVE  Corroborates(U)
<1>1. MinDomains \in Nat /\ IsFiniteSet(U)
  BY UrlsAssumption, BoundsAssumption, FS_Subset
<1> DEFINE x == CHOOSE x : x \notin {Claim[u] : u \in U}
<1>2. /\ Count(Publisher, V, Unknown) \in Nat /\ Count(Publisher, U, Unknown) \in Nat
      /\ Count(Publisher, V, Unknown) <= Count(Publisher, U, Unknown)
  BY <1>1, CountsGrow
<1>3. x \notin {Claim[u] : u \in U}
  BY NoSetContainsEverything
<1> HIDE DEF x
<1>4. /\ Count(Claim, V, x) \in Nat /\ Count(Claim, U, x) \in Nat
      /\ Count(Claim, V, x) <= Count(Claim, U, x)
  BY <1>1, CountsGrow
<1>5. /\ {Claim[u] : u \in V} \ {x} = {Claim[u] : u \in V}
      /\ {Claim[u] : u \in U} \ {x} = {Claim[u] : u \in U}
  BY <1>3
<1>6. /\ Count(Claim, V, x) = Cardinality({Claim[u] : u \in V})
      /\ Count(Claim, U, x) = Cardinality({Claim[u] : u \in U})
  BY <1>5, Zenon DEF Count
<1>7. Count(Publisher, V, Unknown) >= MinDomains /\ Count(Claim, V, x) >= MinDomains
  BY <1>6 DEF Corroborates, Count
<1>8. Count(Publisher, U, Unknown) >= MinDomains /\ Count(Claim, U, x) >= MinDomains
  BY <1>1, <1>2, <1>4, <1>7
<1> QED BY <1>6, <1>8 DEF Corroborates, Count

LEMMA BackedIs ==
  ASSUME NEW city
  PROVE  Backed(city) <=> \E i \in 1..iter : Corroborates(SaidToName(receipts, i, city))
BY Zenon DEF Backed, Corroborates, SaidToName

HeardInv ==
  /\ \A e \in ToSet(work.accepted) : Heard(receipts, iter, e.post.url, e.item)
  /\ \A city \in admitted :
       \E i \in 1..iter : Corroborates(SaidToName(receipts, i, city))

\* What is admitted on is what was said.
LEMMA EvidenceWasSaid ==
  ASSUME Shape, HeardInv, NEW name \in work.names, MayAdmit(name)
  PROVE  Corroborates(SaidToName(receipts, iter, name))
<1> DEFINE evidence == Naming(name)
           V == {work.accepted[i].post.url : i \in evidence}
           U == SaidToName(receipts, iter, name)
<1>1. work.accepted \in Seq(Entry)
  BY RecordFields DEF Shape, TypeInv
<1>2. ASSUME NEW i \in evidence PROVE work.accepted[i].post.url \in U
  <2> DEFINE e == work.accepted[i]
  <2>1. i \in DOMAIN work.accepted /\ name \in e.item.cities
    BY DEF Naming
  <2>2. e \in Entry /\ e \in ToSet(work.accepted)
    BY <1>1, <2>1, ToSetIn, ElementOfSeq
  <2>3. e.post.url \in Urls /\ e.item.is = "relevant"
    BY <2>2 DEF Entry, Post, Relevant
  <2>4. PICK k \in DOMAIN receipts : /\ receipts[k].iter = iter
                                     /\ e.post.url \in DOMAIN receipts[k].of
                                     /\ receipts[k].of[e.post.url] = e.item
    BY <2>2 DEF HeardInv, Heard
  <2> QED BY <2>1, <2>3, <2>4 DEF SaidToName
<1>3. V \in SUBSET U /\ U \in SUBSET Urls
  BY <1>2 DEF SaidToName
<1>4. IsFiniteSet(V)
  <2>1. V \in SUBSET Urls
    BY <1>3
  <2> HIDE DEF V
  <2> QED BY <2>1, UrlsAssumption, FS_Subset
<1>5. Corroborates(V)
  <2> DEFINE p == Cardinality({Publisher[u] : u \in V} \ {Unknown})
             c == Cardinality({Claim[u] : u \in V})
  <2>1. p \in Nat
    <3>1. V \in SUBSET V
      OBVIOUS
    <3> HIDE DEF V
    <3>2. Count(Publisher, V, Unknown) \in Nat
      BY <1>4, <3>1, CountsGrow
    <3> QED BY <3>2 DEF Count
  <2>2. c \in Nat
    <3> HIDE DEF V
    <3>1. IsFiniteSet({Claim[u] : u \in V})
      BY <1>4, ImageIsFinite
    <3> QED BY <3>1, FS_CardinalityType
  <2>3. Min({p, c}) >= MinDomains /\ MinDomains \in Nat
    BY BoundsAssumption, Zenon DEF MayAdmit, Independent
  <2>4. Corroborates(V) <=> p >= MinDomains /\ c >= MinDomains
    BY DEF Corroborates
  <2> HIDE DEF p, c, V
  <2>5. Min({p, c}) = IF p <= c THEN p ELSE c
    BY <2>1, <2>2, MinOfTwo
  <2> QED BY <2>1, <2>2, <2>3, <2>4, <2>5
<1> HIDE DEF U, V
<1>6. Corroborates(U)
  BY <1>3, <1>5, CorroboratesMore
<1> QED BY <1>6 DEF U

LEMMA SaidStays ==
  ASSUME NEW rc \in Seq(Receipt), NEW x \in Receipt, NEW i, NEW city,
         Corroborates(SaidToName(rc, i, city))
  PROVE  Corroborates(SaidToName(Append(rc, x), i, city))
<1>1. DOMAIN rc \subseteq DOMAIN Append(rc, x) /\ \A k \in DOMAIN rc : Append(rc, x)[k] = rc[k]
  BY AppendProperties, LenProperties
<1>2. /\ SaidToName(rc, i, city) \in SUBSET SaidToName(Append(rc, x), i, city)
      /\ SaidToName(Append(rc, x), i, city) \in SUBSET Urls
  BY <1>1 DEF SaidToName
<1> QED BY <1>2, CorroboratesMore

LEMMA HeardStep ==
  ASSUME Shape, HeardInv, [Next]_vars
  PROVE  HeardInv'
<1>1. iter \in Nat /\ receipts \in Seq(Receipt) /\ iter' \in 1..(1 + MaxUpsets)
  <2>1. Shape'
    BY ShapeStep
  <2> QED BY <2>1, BoundsAssumption DEF Shape, TypeInv, Iterations
<1>2. ASSUME receipts' = receipts, admitted' = admitted, iter' = iter \/ iter' = iter + 1,
             work'.accepted = <<>> \/ (work'.accepted = work.accepted /\ iter' = iter)
      PROVE  HeardInv'
  <2>1. \A e \in ToSet(work'.accepted) : Heard(receipts', iter', e.post.url, e.item)
    BY <1>2, ToSetOfEmpty DEF HeardInv
  <2>2. 1..iter \subseteq 1..iter'
    BY <1>1, <1>2
  <2>3. \A city \in admitted' :
          \E i \in 1..iter' : Corroborates(SaidToName(receipts', i, city))
    BY <1>2, <2>2 DEF HeardInv
  <2> QED BY <2>1, <2>3 DEF HeardInv
<1>3. CASE gather
  BY <1>2, <1>3, GatherIs DEF rows, world
<1>4. CASE insert_triage_skip \/ insert_triage_decision
  BY <1>2, <1>4, RowGives
<1>5. CASE EndGather \/ gather_for_retry \/ EndBatch
  BY <1>2, <1>5, BatchGives
<1>6. CASE judge
  <2>1. iter' = iter /\ admitted' = admitted
    BY <1>6, JudgeGives
  <2>2. PICK x \in Receipt : receipts' = Append(receipts, x)
    BY <1>6, JudgeGives
  <2>3. \A city \in admitted' :
          \E i \in 1..iter' : Corroborates(SaidToName(receipts', i, city))
    BY <1>1, <2>1, <2>2, SaidStays DEF HeardInv
  <2>4. ASSUME NEW e \in ToSet(work.accepted) PROVE Heard(receipts', iter', e.post.url, e.item)
    BY <1>1, <2>1, <2>2, HeardLater DEF HeardInv
  <2>5. ASSUME NEW e \in ToSet(work'.accepted) PROVE Heard(receipts', iter', e.post.url, e.item)
    <3>1. CASE e \in ToSet(work.accepted)
      BY <2>4, <3>1
    <3>2. CASE e \notin ToSet(work.accepted)
      <4>1. PICK o \in Outcome, ro \in Partial(Urls, Nat) :
              /\ Told(work.posts, Len(Batch), iter, receipts', o, ro)
              /\ ToSet(work'.accepted) = ToSet(work.accepted) \cup Acceptances(o, ro)
        BY <1>6, <3>2, <2>5, JudgeGives
      <4>2. e \in Acceptances(o, ro)
        BY <3>2, <4>1, <2>5
      <4>3. PICK u \in Judged(o, "relevant") : e = Acceptance(u, o, ro)
        BY <4>2 DEF Acceptances
      <4>4. u \in DOMAIN o.valid /\ e.item = o.valid[u] /\ e.post = PostOf(u)
        BY <4>3 DEF Judged, Acceptance
      <4>5. u \in UrlsOf(work.posts, 1, Len(Batch)) /\ Heard(receipts', iter, u, o.valid[u])
        BY <4>1, <4>4 DEF Told
      <4>6. e.post.url = u
        <5>1. work.posts \in Seq(Post)
          BY RecordFields DEF Shape, TypeInv
        <5> QED BY <4>4, <4>5, <5>1, PostOfIs
      <4> QED BY <2>1, <4>4, <4>5, <4>6
    <3> QED BY <3>1, <3>2
  <2> QED BY <2>3, <2>5 DEF HeardInv
<1>7. CASE admit_city
  <2>1. work'.accepted = work.accepted /\ receipts' = receipts /\ iter' = iter
    BY <1>7, PlaceGives
  <2>2. PICK name \in work.names :
          \/ admitted' = admitted
          \/ admitted' = admitted \cup {name} /\ MayAdmit(name)
    BY <1>7, AdmitIs
  <2>3. MayAdmit(name) => Corroborates(SaidToName(receipts, iter, name))
    BY EvidenceWasSaid
  <2>4. iter \in 1..iter
    BY <1>1, BoundsAssumption DEF Shape, TypeInv, Iterations
  <2> QED BY <2>1, <2>2, <2>3, <2>4 DEF HeardInv
<1>8. CASE write_signal
  BY <1>2, <1>8, WriteIs DEF world
<1>9. CASE Accepting
  BY <1>2, <1>9, AcceptingGives
<1>10. CASE EndStage
  BY <1>2, <1>10, CloseGives
<1>11. CASE Crash \/ Resume \/ prepare_retry_triage
  BY <1>2, <1>11, IdleGives
<1>12. CASE purge_expired_raw \/ Tick \/ UNCHANGED vars
  BY <1>2, <1>12, AroundGives DEF rows
<1> QED BY <1>3, <1>4, <1>5, <1>6, <1>7, <1>8, <1>9, <1>10, <1>11, <1>12 DEF Next

\* No post is a signal twice, and no more cities are admitted than may be.
PlaceInv ==
  /\ \A i, j \in DOMAIN signals :
       i # j => signals[i].iter # signals[j].iter \/ signals[i].url # signals[j].url
  /\ IsFiniteSet(admitted) /\ Cardinality(admitted) <= MaxExpanded

LEMMA PlaceStep ==
  ASSUME Shape, PlaceInv, [Next]_vars
  PROVE  PlaceInv'
<1>1. ASSUME signals' = signals, admitted' = admitted PROVE PlaceInv'
  BY <1>1 DEF PlaceInv
<1>2. CASE admit_city
  <2>1. signals' = signals
    BY <1>2, AdmitIs
  <2>2. PICK name \in work.names :
          \/ admitted' = admitted
          \/ admitted' = admitted \cup {name} /\ MayAdmit(name) /\ name \notin admitted
    BY <1>2, AdmitIs
  <2>3. ASSUME admitted' = admitted \cup {name}, MayAdmit(name), name \notin admitted
        PROVE  IsFiniteSet(admitted') /\ Cardinality(admitted') <= MaxExpanded
    <3>1. IsFiniteSet(admitted) /\ Cardinality(admitted) < MaxExpanded
      BY <2>3 DEF PlaceInv, MayAdmit
    <3>2. Cardinality(admitted) \in Nat /\ MaxExpanded \in Nat
      BY <3>1, FS_CardinalityType, BoundsAssumption
    <3>3. /\ IsFiniteSet(admitted \cup {name})
          /\ Cardinality(admitted \cup {name}) = Cardinality(admitted) + 1
      BY <2>3, <3>1, FS_AddElement
    <3> QED BY <2>3, <3>1, <3>2, <3>3
  <2> QED BY <2>1, <2>2, <2>3 DEF PlaceInv
<1>3. CASE write_signal
  <2> DEFINE e == Head(work.entries)
  <2>1. /\ admitted' = admitted
        /\ \/ signals' = signals
           \/ signals' = Append(signals, WrittenSignal(e)) /\ ~SignalExists(e.post.url)
    BY <1>3, WriteIs
  <2> HIDE DEF e
  <2>2. ASSUME signals' = Append(signals, WrittenSignal(e)), ~SignalExists(e.post.url),
               NEW i \in DOMAIN signals', NEW j \in DOMAIN signals', i # j
        PROVE  signals'[i].iter # signals'[j].iter \/ signals'[i].url # signals'[j].url
    <3> DEFINE n == Len(signals)
               x == WrittenSignal(e)
    <3>1. signals \in Seq(Signal) /\ n \in Nat /\ DOMAIN signals = 1..n
      BY DEF Shape, TypeInv
    <3>2. x.iter = iter /\ x.url = e.post.url
      BY DEF WrittenSignal
    <3> HIDE DEF x
    <3>3. /\ DOMAIN signals' = 1..(n + 1) /\ signals'[n + 1] = x
          /\ \A k \in 1..n : signals'[k] = signals[k]
      BY <2>2, <3>1 DEF x
    <3>4. \A k \in 1..n : signals[k].iter # x.iter \/ signals[k].url # x.url
      BY <2>2, <3>1, <3>2 DEF SignalExists
    <3>5. CASE i = n + 1 \/ j = n + 1
      BY <2>2, <3>1, <3>3, <3>4, <3>5
    <3>6. CASE i # n + 1 /\ j # n + 1
      BY <2>2, <3>1, <3>3, <3>6 DEF PlaceInv
    <3> QED BY <3>5, <3>6
  <2> QED BY <2>1, <2>2 DEF PlaceInv
<1>4. CASE gather
  BY <1>1, <1>4, GatherIs DEF rows
<1>5. CASE insert_triage_skip \/ insert_triage_decision
  BY <1>1, <1>5, RowGives
<1>6. CASE EndGather \/ gather_for_retry \/ EndBatch
  BY <1>1, <1>6, BatchGives
<1>7. CASE judge
  BY <1>1, <1>7, JudgeGives
<1>8. CASE Accepting
  BY <1>1, <1>8, AcceptingGives
<1>9. CASE EndStage
  BY <1>1, <1>9, CloseGives
<1>10. CASE Crash \/ Resume \/ prepare_retry_triage
  BY <1>1, <1>10, IdleGives
<1>11. CASE purge_expired_raw \/ Tick \/ UNCHANGED vars
  BY <1>1, <1>11, AroundGives DEF rows
<1> QED BY <1>2, <1>3, <1>4, <1>5, <1>6, <1>7, <1>8, <1>9, <1>10, <1>11 DEF Next

LEMMA TypeHolds == ASSUME Shape, PlaceInv PROVE TypeOK
<1>1. /\ work \in Work /\ skips \in Seq(SkipRow) /\ decisions \in Seq(DecisionRow)
      /\ signals \in Seq(Signal) /\ iter \in Nat /\ Len(signals) \in Nat
      /\ Iterations \subseteq Nat \ {0}
  BY BoundsAssumption DEF Shape, TypeInv, Iterations
<1>2. work.pc \in Pcs /\ work.parent \in 0..(iter - 1)
  <2>1. work.parent \in Nat /\ work.pc \in Pcs
    BY <1>1, RecordFields
  <2> QED BY <2>1, <1>1 DEF Shape, RefInv
<1>3. ASSUME NEW i \in DOMAIN skips PROVE skips[i].iter \in 1..iter /\ skips[i].raw \in Raws
  <2>1. skips[i] \in SkipRow /\ skips[i] \in ToSet(skips)
    BY <1>1, ToSetIn, ElementOfSeq, LenProperties
  <2>2. skips[i].iter \in Iterations /\ skips[i].raw \in Raws
    BY <2>1 DEF SkipRow
  <2>3. skips[i].iter <= iter
    BY <2>1 DEF Shape, RefInv
  <2>4. skips[i].iter \in Nat \ {0} /\ iter \in Nat
    BY <2>2, <1>1
  <2>5. skips[i].iter \in 1..iter
    BY <2>3, <2>4
  <2> QED BY <2>2, <2>5
<1>4. ASSUME NEW i \in DOMAIN decisions
      PROVE  /\ decisions[i].iter \in 1..iter /\ decisions[i].url \in Urls
             /\ decisions[i].state \in States
             /\ decisions[i].signal \in 0..Len(signals)
             /\ decisions[i].receipt \in DOMAIN receipts
  <2>1. decisions[i] \in DecisionRow /\ Settles(decisions[i])
    BY <1>1, ToSetIn, ElementOfSeq, LenProperties DEF Shape, RefInv
  <2>2. /\ decisions[i].iter \in Iterations /\ decisions[i].url \in Urls
        /\ decisions[i].state \in States /\ decisions[i].signal \in Nat
    BY <2>1 DEF DecisionRow
  <2>3. /\ decisions[i].iter <= iter /\ decisions[i].signal <= Len(signals)
        /\ decisions[i].receipt \in DOMAIN receipts
    BY <2>1 DEF Settles
  <2>4. decisions[i].iter \in Nat \ {0} /\ iter \in Nat
    BY <2>2, <1>1
  <2>5. decisions[i].iter \in 1..iter /\ decisions[i].signal \in 0..Len(signals)
    BY <2>2, <2>3, <2>4, <1>1
  <2> QED BY <2>2, <2>3, <2>5
<1>5. \A i \in DOMAIN signals : signals[i].state \in {"CANDIDATE", "CONFIRMED"}
  <2>1. \A i \in DOMAIN signals : signals[i] \in Signal
    BY <1>1
  <2> QED BY <2>1 DEF Signal
<1> QED BY <1>2, <1>3, <1>4, <1>5 DEF TypeOK, Shape, TypeInv, PlaceInv

\* What the stage writes is always of its kind (TypeOK): no row is of an iteration to
\* come, what it refers to was written before it, no post is a signal twice in an
\* iteration (idx_sig_dedup), and no more cities are admitted than the mission allows
\* (queueing.py 906-940).
THEOREM TriageTypeCorrect == Spec => []TypeOK
<1>1. Init => PlaceInv
  <2> SUFFICES ASSUME Init PROVE PlaceInv
    OBVIOUS
  <2>1. admitted = {} /\ signals = <<>>
    BY DEF Init
  <2>2. IsFiniteSet({}) /\ Cardinality({}) = 0 /\ MaxExpanded \in Nat
    BY FS_EmptySet, BoundsAssumption
  <2> QED BY <2>1, <2>2 DEF PlaceInv
<1>2. Shape /\ PlaceInv /\ [Next]_vars => PlaceInv'
  BY PlaceStep
<1>3. Shape /\ PlaceInv => TypeOK
  BY TypeHolds
<1> QED BY <1>1, <1>2, <1>3, ShapeHolds, PTL DEF Spec

\* No city beyond the session's is admitted but on posts that the model, in one
\* iteration, said name it, of as many known publishers and distinct claims as the
\* mission asks for (Corroborated; queueing.py 906-940, triage.py 588-639).
THEOREM AdmittedOnEvidence == Spec => []Corroborated
<1>1. Init => HeardInv
  BY IdleIs, ToSetOfEmpty DEF Init, HeardInv
<1>2. Shape /\ HeardInv /\ [Next]_vars => HeardInv'
  BY HeardStep
<1>3. HeardInv => Corroborated
  BY BackedIs DEF HeardInv, Corroborated
<1> QED BY <1>1, <1>2, <1>3, ShapeHolds, PTL DEF Spec

-----------------------------------------------------------------------------
(* The iteration that collected the posts.                                 *)

\* The rows of the first iteration, those that are about to be written included.
Todo == IF work.pc = "skipping" THEN {} ELSE ToSet(work.todo)
Said == {d \in ToSet(decisions) \cup Todo : d.iter = 1}
AcceptedNow == ToSet(work.accepted)

\* The posts that nothing was decided of yet.
Pending ==
  UrlsOf(work.posts, IF work.pc = "recording" THEN Len(Batch) + 1 ELSE 1, Len(work.posts))

OneRow == \A d, e \in Said : d.url = e.url => d = e

OneAcceptance == iter = 1 =>
  \A a, b \in AcceptedNow : a.post.url = b.post.url => a = b

PendingFree == iter = 1 =>
  \A u \in Pending : /\ \A d \in Said : d.url # u
                     /\ \A a \in AcceptedNow : a.post.url # u

\* Until the accepted posts get their rows, they have none.
RowsToCome == iter = 1 /\ work.pc \notin {"accepting", "closed"} =>
  \A a \in AcceptedNow, d \in Said : d.url # a.post.url

RowsTrue == \A d \in Said : d.receipt \in DOMAIN receipts /\ AsTheModelSaid(d)

AcceptedTrue == iter = 1 =>
  \A a \in AcceptedNow :
    /\ a.receipt \in DOMAIN receipts /\ a.post.url \in receipts[a.receipt].asked
    /\ a.post.url \in DOMAIN receipts[a.receipt].of
    /\ receipts[a.receipt].of[a.post.url] = a.item

FirstInv == /\ OneRow /\ OneAcceptance /\ PendingFree /\ RowsToCome
            /\ RowsTrue /\ AcceptedTrue

\* A step that decides nothing.
LEMMA NothingDecided ==
  ASSUME FirstInv, receipts' = receipts, Said' \subseteq Said, PendingFree',
         \/ work'.accepted = <<>>
         \/ /\ work'.accepted = work.accepted /\ iter' = iter
            /\ work.pc \in {"accepting", "closed"} => work'.pc \in {"accepting", "closed"}
  PROVE  FirstInv'
<1>1. CASE work'.accepted = <<>>
  <2>1. AcceptedNow' = {}
    BY <1>1, ToSetOfEmpty DEF AcceptedNow
  <2> QED BY <2>1 DEF FirstInv, OneRow, OneAcceptance, RowsToCome, RowsTrue, AcceptedTrue,
                      AsTheModelSaid
<1>2. CASE /\ work'.accepted = work.accepted /\ iter' = iter
           /\ work.pc \in {"accepting", "closed"} => work'.pc \in {"accepting", "closed"}
  <2>1. AcceptedNow' = AcceptedNow
    BY <1>2 DEF AcceptedNow
  <2> QED BY <2>1, <1>2 DEF FirstInv, OneRow, OneAcceptance, RowsToCome, RowsTrue,
                            AcceptedTrue, AsTheModelSaid
<1> QED BY <1>1, <1>2

LEMMA SaidOf ==
  ASSUME Shape
  PROVE  /\ ToSet(decisions) \subseteq DecisionRow /\ AcceptedNow \subseteq Entry
         /\ Said \subseteq DecisionRow
         /\ work.todo = <<>> => Said = {d \in ToSet(decisions) : d.iter = 1}
<1>1. ToSet(decisions) \subseteq DecisionRow
  BY ToSetIn DEF Shape, TypeInv
<1>2. AcceptedNow \subseteq Entry
  BY RecordFields, ToSetIn DEF Shape, TypeInv, AcceptedNow
<1>3. Todo \subseteq DecisionRow
  <2>1. work.pc # "skipping" => work.todo \in Seq(DecisionRow)
    BY DEF Shape, TodoInv
  <2> QED BY <2>1, ToSetIn DEF Todo
<1>4. work.todo = <<>> => Todo = {}
  BY ToSetOfEmpty DEF Todo
<1> QED BY <1>1, <1>2, <1>3, <1>4 DEF Said

LEMMA SameStep ==
  ASSUME FirstInv, UNCHANGED <<decisions, receipts, iter>>,
         work'.accepted = work.accepted,
         work.todo = <<>>, work'.todo = <<>>,
         work.pc \in {"accepting", "closed"} => work'.pc \in {"accepting", "closed"},
         iter = 1 => Pending' \subseteq Pending
  PROVE  FirstInv'
<1>1. Todo = {} /\ Todo' = {}
  BY ToSetOfEmpty DEF Todo
<1>2. Said' = Said
  BY <1>1 DEF Said
<1>3. PendingFree'
  BY <1>2 DEF FirstInv, PendingFree, AcceptedNow
<1> QED BY <1>2, <1>3, NothingDecided

LEMMA GatherDecidesNothing ==
  ASSUME Shape, FirstInv, gather
  PROVE  FirstInv'
<1>1. /\ work'.pc = "skipping" /\ work'.posts = Gathered /\ work'.accepted = <<>>
      /\ UNCHANGED <<decisions, receipts, iter>> /\ work.pc = "gather"
  BY GatherIs DEF rows, world, gather
<1>2. Said' = Said
  <2>1. Todo' = {}
    BY <1>1 DEF Todo
  <2>2. work.todo = <<>>
    BY <1>1 DEF Shape, TodoInv
  <2>3. Todo = {}
    BY <2>2, ToSetOfEmpty DEF Todo
  <2> QED BY <2>1, <2>3, <1>1 DEF Said
<1>3. PendingFree'
  <2>1. /\ Gathered \in Seq(Post)
        /\ \A x \in ToSet(Gathered) : x.url \notin triaged_urls /\ iter = 1
    BY GatheredAre DEF Shape, TypeInv
  <2>2. Pending' = UrlsOf(Gathered, 1, Len(Gathered))
    BY <1>1 DEF Pending
  <2>3. \A u \in Pending' : u \notin triaged_urls
    <3>1. DOMAIN Gathered = 1..Len(Gathered)
      BY <2>1, LenProperties
    <3> QED BY <2>1, <2>2, <3>1 DEF UrlsOf, ToSet
  <2>4. iter = 1 => \A d \in Said : d.url \in triaged_urls
    <3>1. work.todo = <<>>
      BY <1>1 DEF Shape, TodoInv
    <3>2. Said = {d \in ToSet(decisions) : d.iter = 1}
      BY <3>1, SaidOf
    <3> QED BY <3>2 DEF triaged_urls, ToSet
  <2>5. AcceptedNow' = {}
    BY <1>1, ToSetOfEmpty DEF AcceptedNow
  <2> QED BY <1>1, <1>2, <2>3, <2>4, <2>5 DEF PendingFree
<1> QED BY <1>1, <1>2, <1>3, NothingDecided

\* A post of the batch is not among the rest.
LEMMA BatchAndRest ==
  ASSUME NEW posts \in Seq(Post), NEW n \in 0..Len(posts)
  PROVE  /\ UrlsOf(posts, 1, n) \subseteq UrlsOf(posts, 1, Len(posts))
         /\ UrlsOf(posts, n + 1, Len(posts)) \subseteq UrlsOf(posts, 1, Len(posts))
         /\ Different(posts) =>
              UrlsOf(posts, 1, n) \cap UrlsOf(posts, n + 1, Len(posts)) = {}
<1>1. Len(posts) \in Nat /\ DOMAIN posts = 1..Len(posts)
  OBVIOUS
<1>2. 1..n \subseteq 1..Len(posts) /\ (n + 1)..Len(posts) \subseteq 1..Len(posts)
  BY <1>1
<1>3. ASSUME Different(posts), NEW i \in 1..n, NEW j \in (n + 1)..Len(posts)
      PROVE  posts[i].url # posts[j].url
  <2>1. i # j
    BY <1>1
  <2> QED BY <2>1, <1>1, <1>2, <1>3 DEF Different
<1> QED BY <1>2, <1>3 DEF UrlsOf

LEMMA BatchDecidesNothing ==
  ASSUME Shape, FirstInv, \/ EndGather \/ gather_for_retry \/ EndBatch
  PROVE  FirstInv'
<1>1. /\ work'.pc \in {"judging", "admitting"} /\ work'.todo = <<>> /\ work.todo = <<>>
      /\ work'.accepted = work.accepted
      /\ UNCHANGED <<decisions, receipts, iter>>
      /\ \/ work.pc = "skipping" /\ work'.posts = work.posts
         \/ work.pc = "gather" /\ iter # 1
         \/ /\ work.pc = "recording"
            /\ work'.posts = SubSeq(work.posts, Len(Batch) + 1, Len(work.posts))
  BY BatchGives
<1>2. ASSUME work.pc = "recording",
             work'.posts = SubSeq(work.posts, Len(Batch) + 1, Len(work.posts))
      PROVE  Pending' \subseteq Pending
  <2> DEFINE posts == work.posts
             n == Len(Batch)
             m == Len(posts)
             rest == SubSeq(posts, n + 1, m)
  <2>1. posts \in Seq(Post) /\ n \in 0..m /\ m \in Nat
    BY RecordFields, BatchIs DEF Shape, TypeInv
  <2>2. /\ Len(rest) = IF n + 1 <= m THEN m - (n + 1) + 1 ELSE 0
        /\ \A i \in 1..(m - (n + 1) + 1) : rest[i] = posts[n + 1 + i - 1]
    <3>1. \A i \in (n + 1)..m : posts[i] \in Post
      BY <2>1
    <3>2. n + 1 \in Int /\ m \in Int
      BY <2>1
    <3> HIDE DEF n, m, posts
    <3> QED BY <2>1, <3>1, <3>2, SubSeqProperties
  <2>3. Pending' = UrlsOf(rest, 1, Len(rest))
    BY <1>1, <1>2 DEF Pending
  <2>4. Pending = UrlsOf(posts, n + 1, m)
    BY <1>2 DEF Pending
  <2> HIDE DEF n, m, posts, rest
  <2>5. ASSUME NEW i \in 1..Len(rest)
        PROVE  n + 1 + i - 1 \in (n + 1)..m /\ rest[i] = posts[n + 1 + i - 1]
    <3>1. i \in 1..(m - (n + 1) + 1)
      BY <2>1, <2>2
    <3> QED BY <3>1, <2>1, <2>2
  <2> QED BY <2>3, <2>4, <2>5 DEF UrlsOf
<1>3. iter = 1 => Pending' \subseteq Pending
  <2>1. ASSUME work.pc = "skipping", work'.posts = work.posts PROVE Pending' = Pending
    BY <1>1, <2>1 DEF Pending
  <2> QED BY <1>1, <1>2, <2>1
<1>4. work.pc \notin {"accepting", "closed"}
  BY <1>1
<1> QED BY <1>1, <1>3, <1>4, SameStep

LEMMA IdleDecidesNothing ==
  ASSUME Shape, FirstInv, \/ Crash \/ Resume \/ prepare_retry_triage
  PROVE  FirstInv'
<1>1. /\ work'.pc \in {"gather", "interrupted"} /\ work'.posts = <<>>
      /\ work'.todo = <<>> /\ work'.accepted = <<>>
      /\ UNCHANGED <<decisions, receipts>>
  BY IdleGives
<1>2. Said' \subseteq Said
  <2>1. Todo' = {}
    BY <1>1, ToSetOfEmpty DEF Todo
  <2> QED BY <2>1, <1>1 DEF Said
<1>3. Pending' = {}
  <2>1. Pending' = UrlsOf(<<>>, 1, Len(<<>>)) /\ Len(<<>>) = 0
    BY <1>1 DEF Pending
  <2> QED BY <2>1 DEF UrlsOf
<1>4. PendingFree'
  BY <1>3 DEF PendingFree
<1> QED BY <1>1, <1>2, <1>4, NothingDecided

LEMMA RowDecidesNothing ==
  ASSUME Shape, FirstInv, insert_triage_skip \/ insert_triage_decision
  PROVE  FirstInv'
<1>1. /\ work'.pc = work.pc /\ work'.posts = work.posts /\ work'.todo = Tail(work.todo)
      /\ work'.accepted = work.accepted /\ UNCHANGED <<receipts, iter>>
      /\ \/ work.pc = "skipping" /\ decisions' = decisions
         \/ /\ work.pc \in {"recording", "accepting"}
            /\ ToSet(decisions') = ToSet(decisions) \cup {Head(work.todo)}
            /\ ToSet(work.todo) = {Head(work.todo)} \cup ToSet(Tail(work.todo))
  BY RowGives
<1>2. Said' = Said
  BY <1>1 DEF Said, Todo
<1>3. Pending' = Pending
  BY <1>1 DEF Pending, Batch
<1>4. PendingFree'
  BY <1>1, <1>2, <1>3 DEF FirstInv, PendingFree, AcceptedNow
<1> QED BY <1>1, <1>2, <1>4, NothingDecided

SaidBy(rc, d) ==
  /\ d.url \in rc[d.receipt].asked
  /\ d.state \notin Uncovered =>
       /\ d.url \in DOMAIN rc[d.receipt].of
       /\ rc[d.receipt].of[d.url].is = IF d.state = "ACCEPTED" THEN "relevant" ELSE "irrelevant"

AcceptedBy(rc, a) ==
  /\ a.receipt \in DOMAIN rc /\ a.post.url \in rc[a.receipt].asked
  /\ a.post.url \in DOMAIN rc[a.receipt].of
  /\ rc[a.receipt].of[a.post.url] = a.item

\* A row of a batch and where it comes from.
LEMMA RowComesFrom ==
  ASSUME Shape, NEW o \in Outcome, NEW ro \in Partial(Urls, Nat), NEW rc,
         Told(work.posts, Len(Batch), iter, rc, o, ro), NEW d \in SettledRows(o, ro)
  PROVE  /\ d.iter = iter /\ d.url \in UrlsOf(work.posts, 1, Len(Batch))
         /\ d.receipt = ro[d.url] /\ d = Fate(d.url, d.state, ro)
         /\ \/ d.url \in ToSet(o.faults) /\ d.state = "INVALID_OUTPUT"
            \/ d.url \in ToSet(o.missing) /\ d.state = Loss(o)
            \/ d.url \in Judged(o, "irrelevant") /\ d.state = "REJECTED"
<1>1. work.posts \in Seq(Post) /\ iter \in Iterations
  BY RecordFields DEF Shape, TypeInv
<1>2. ASSUME NEW u \in UrlsOf(work.posts, 1, Len(Batch)), NEW state \in States,
             d = Fate(u, state, ro)
      PROVE  d.iter = iter /\ d.url = u /\ d.receipt = ro[u] /\ d.state = state
  <2>1. ro[u] \in Nat
    BY PartialHas DEF Told
  <2> QED BY <1>1, <1>2, <2>1, FateIs
<1>3. /\ ToSet(o.faults) \subseteq UrlsOf(work.posts, 1, Len(Batch))
      /\ ToSet(o.missing) \subseteq UrlsOf(work.posts, 1, Len(Batch))
      /\ Judged(o, "irrelevant") \subseteq UrlsOf(work.posts, 1, Len(Batch))
  BY DEF Told, Judged
<1>4. "INVALID_OUTPUT" \in States /\ "REJECTED" \in States /\ Loss(o) \in States
  BY DEF Loss, States, Uncovered
<1>5. \/ \E u \in ToSet(o.faults) : d = Fate(u, "INVALID_OUTPUT", ro)
      \/ \E u \in ToSet(o.missing) : d = Fate(u, Loss(o), ro)
      \/ \E u \in Judged(o, "irrelevant") : d = Fate(u, "REJECTED", ro)
  BY DEF SettledRows
<1>6. CASE \E u \in ToSet(o.faults) : d = Fate(u, "INVALID_OUTPUT", ro)
  <2>1. PICK u \in ToSet(o.faults) : d = Fate(u, "INVALID_OUTPUT", ro)
    BY <1>6
  <2>2. d.iter = iter /\ d.url = u /\ d.receipt = ro[u] /\ d.state = "INVALID_OUTPUT"
    BY <1>2, <1>3, <1>4, <2>1
  <2> QED BY <1>3, <2>1, <2>2
<1>7. CASE \E u \in ToSet(o.missing) : d = Fate(u, Loss(o), ro)
  <2>1. PICK u \in ToSet(o.missing) : d = Fate(u, Loss(o), ro)
    BY <1>7
  <2>2. d.iter = iter /\ d.url = u /\ d.receipt = ro[u] /\ d.state = Loss(o)
    BY <1>2, <1>3, <1>4, <2>1
  <2> QED BY <1>3, <2>1, <2>2
<1>8. CASE \E u \in Judged(o, "irrelevant") : d = Fate(u, "REJECTED", ro)
  <2>1. PICK u \in Judged(o, "irrelevant") : d = Fate(u, "REJECTED", ro)
    BY <1>8
  <2>2. d.iter = iter /\ d.url = u /\ d.receipt = ro[u] /\ d.state = "REJECTED"
    BY <1>2, <1>3, <1>4, <2>1
  <2> QED BY <1>3, <2>1, <2>2
<1> QED BY <1>5, <1>6, <1>7, <1>8

LEMMA SettledFirst ==
  ASSUME Shape, iter = 1, NEW o \in Outcome, NEW ro \in Partial(Urls, Nat), NEW rc,
         Told(work.posts, Len(Batch), iter, rc, o, ro)
  PROVE  LET rows1 == SettledRows(o, ro)
             accs == Acceptances(o, ro)
             batch == UrlsOf(work.posts, 1, Len(Batch))
         IN /\ \A d \in rows1 : d.iter = 1 /\ d.url \in batch
            /\ \A d, e \in rows1 : d.url = e.url => d = e
            /\ \A a \in accs : a.post.url \in batch
            /\ \A a, b \in accs : a.post.url = b.post.url => a = b
            /\ \A a \in accs, d \in rows1 : d.url # a.post.url
            /\ \A d \in rows1 : d.receipt \in DOMAIN rc /\ SaidBy(rc, d)
            /\ \A a \in accs : AcceptedBy(rc, a)
<1> DEFINE rows1 == SettledRows(o, ro)
           accs == Acceptances(o, ro)
           batch == UrlsOf(work.posts, 1, Len(Batch))
<1>1. work.posts \in Seq(Post)
  BY RecordFields DEF Shape, TypeInv
<1>2. \A d \in rows1 :
        /\ d.iter = 1 /\ d.url \in batch
        /\ d.receipt = ro[d.url] /\ d = Fate(d.url, d.state, ro)
        /\ \/ d.url \in ToSet(o.faults) /\ d.state = "INVALID_OUTPUT"
           \/ d.url \in ToSet(o.missing) /\ d.state = Loss(o)
           \/ d.url \in Judged(o, "irrelevant") /\ d.state = "REJECTED"
  BY RowComesFrom
<1>3. \A a \in accs : \E u \in Judged(o, "relevant") :
        /\ a = Acceptance(u, o, ro) /\ a.post.url = u /\ u \in batch
        /\ a.item = o.valid[u] /\ a.receipt = ro[u]
  <2> SUFFICES ASSUME NEW u \in Judged(o, "relevant")
               PROVE  LET a == Acceptance(u, o, ro) IN
                      /\ a.post.url = u /\ u \in batch
                      /\ a.item = o.valid[u] /\ a.receipt = ro[u]
    BY DEF Acceptances
  <2>1. u \in batch
    BY DEF Judged, Told
  <2>2. PostOf(u).url = u
    BY <1>1, <2>1, PostOfIs
  <2> QED BY <2>1, <2>2 DEF Acceptance
<1>4. /\ DOMAIN o.valid \cap ToSet(o.faults) = {} /\ DOMAIN o.valid \cap ToSet(o.missing) = {}
      /\ ToSet(o.faults) \cap ToSet(o.missing) = {}
      /\ \A u \in DOMAIN o.valid : u \in DOMAIN rc[ro[u]].of /\ rc[ro[u]].of[u] = o.valid[u]
      /\ \A u \in batch : ro[u] \in DOMAIN rc /\ u \in rc[ro[u]].asked
  BY DEF Told
<1>5. /\ Judged(o, "relevant") \subseteq DOMAIN o.valid
      /\ Judged(o, "irrelevant") \subseteq DOMAIN o.valid
      /\ \A u \in Judged(o, "irrelevant") : o.valid[u].is = "irrelevant"
      /\ Judged(o, "relevant") \cap Judged(o, "irrelevant") = {}
  BY DEF Judged
<1> HIDE DEF rows1, accs, batch
<1>6. \A d, e \in rows1 : d.url = e.url => d = e
  <2> SUFFICES ASSUME NEW d \in rows1, NEW e \in rows1, d.url = e.url
               PROVE  d.state = e.state
    BY <1>2
  <2> QED BY <1>2, <1>4, <1>5
<1>7. \A a, b \in accs : a.post.url = b.post.url => a = b
  BY <1>3
<1>8. \A a \in accs, d \in rows1 : d.url # a.post.url
  BY <1>2, <1>3, <1>4, <1>5
<1>9. ASSUME NEW d \in rows1 PROVE d.receipt \in DOMAIN rc /\ SaidBy(rc, d)
  <2>1. d.receipt \in DOMAIN rc /\ d.url \in rc[d.receipt].asked
    BY <1>2, <1>4
  <2>2. d.state \notin Uncovered => d.url \in Judged(o, "irrelevant") /\ d.state = "REJECTED"
    BY <1>2 DEF Uncovered, Loss
  <2>3. ASSUME d.url \in Judged(o, "irrelevant")
        PROVE  d.url \in DOMAIN rc[d.receipt].of /\ rc[d.receipt].of[d.url].is = "irrelevant"
    BY <2>3, <1>2, <1>4, <1>5
  <2> QED BY <2>1, <2>2, <2>3 DEF SaidBy
<1>10. \A a \in accs : AcceptedBy(rc, a)
  BY <1>3, <1>4, <1>5 DEF AcceptedBy
<1>11. /\ \A d \in rows1 : d.iter = 1 /\ d.url \in batch
       /\ \A a \in accs : a.post.url \in batch
  BY <1>2, <1>3
<1> QED BY <1>6, <1>7, <1>8, <1>9, <1>10, <1>11 DEF rows1, accs, batch

\* What a reply says stays said.
LEMMA SaidByStays ==
  ASSUME NEW rc \in Seq(Receipt), NEW x \in Receipt
  PROVE  /\ \A d : d.receipt \in DOMAIN rc /\ SaidBy(rc, d) =>
                     d.receipt \in DOMAIN Append(rc, x) /\ SaidBy(Append(rc, x), d)
         /\ \A a : AcceptedBy(rc, a) => AcceptedBy(Append(rc, x), a)
<1>1. DOMAIN rc \subseteq DOMAIN Append(rc, x) /\ \A k \in DOMAIN rc : Append(rc, x)[k] = rc[k]
  BY AppendProperties, LenProperties
<1> QED BY <1>1 DEF SaidBy, AcceptedBy

LEMMA JudgeDecidesOnce ==
  ASSUME Shape, FirstInv, judge
  PROVE  FirstInv'
<1>1. /\ work.pc = "judging" /\ work.todo = <<>> /\ iter' = iter
      /\ decisions' = decisions /\ work'.posts = work.posts
      /\ \/ /\ work'.pc = "judging" /\ work'.todo = <<>> /\ work'.accepted = work.accepted
         \/ /\ work'.pc = "recording"
            /\ \E o \in Outcome, ro \in Partial(Urls, Nat) :
                 /\ Told(work.posts, Len(Batch), iter, receipts', o, ro)
                 /\ ToSet(work'.todo) = SettledRows(o, ro)
                 /\ ToSet(work'.accepted) = ToSet(work.accepted) \cup Acceptances(o, ro)
  BY JudgeGives
<1>2. PICK x \in Receipt : receipts' = Append(receipts, x)
  BY JudgeGives
<1>3. /\ work.posts \in Seq(Post) /\ receipts \in Seq(Receipt)
      /\ iter = 1 => Different(work.posts)
  BY RecordFields DEF Shape, TypeInv, PhaseInv
<1> DEFINE posts == work.posts
           n == Len(Batch)
           batch == UrlsOf(posts, 1, n)
<1>4. /\ batch \subseteq Pending /\ Pending = UrlsOf(posts, 1, Len(posts))
      /\ UrlsOf(posts, n + 1, Len(posts)) \subseteq Pending
      /\ iter = 1 => batch \cap UrlsOf(posts, n + 1, Len(posts)) = {}
  <2>1. n \in 0..Len(posts)
    BY <1>3, BatchIs
  <2>2. Pending = UrlsOf(posts, 1, Len(posts))
    BY <1>1 DEF Pending
  <2> HIDE DEF n, posts
  <2> QED BY <2>1, <2>2, <1>3, BatchAndRest DEF posts
<1>5. /\ \A d \in Said : d.receipt \in DOMAIN receipts' /\ SaidBy(receipts', d)
      /\ iter = 1 => \A a \in AcceptedNow : AcceptedBy(receipts', a)
  <2>1. \A d \in Said : d.receipt \in DOMAIN receipts /\ SaidBy(receipts, d)
    BY DEF FirstInv, RowsTrue, AsTheModelSaid, SaidBy
  <2>2. iter = 1 => \A a \in AcceptedNow : AcceptedBy(receipts, a)
    BY DEF FirstInv, AcceptedTrue, AcceptedBy
  <2> QED BY <2>1, <2>2, <1>2, <1>3, SaidByStays
<1>6. Said = {d \in ToSet(decisions) : d.iter = 1}
  BY <1>1, SaidOf
<1>7. CASE work'.pc = "judging" /\ work'.todo = <<>> /\ work'.accepted = work.accepted
  <2>1. Said' = Said /\ AcceptedNow' = AcceptedNow
    BY <1>1, <1>6, <1>7, ToSetOfEmpty DEF Said, Todo, AcceptedNow
  <2>2. Pending' = Pending
    BY <1>1, <1>7 DEF Pending
  <2>3. RowsTrue' /\ AcceptedTrue'
    BY <1>1, <1>5, <2>1 DEF RowsTrue, AsTheModelSaid, SaidBy, AcceptedTrue, AcceptedBy
  <2> QED BY <1>1, <2>1, <2>2, <2>3
          DEF FirstInv, OneRow, OneAcceptance, PendingFree, RowsToCome
<1>8. CASE /\ work'.pc = "recording"
           /\ \E o \in Outcome, ro \in Partial(Urls, Nat) :
                /\ Told(work.posts, Len(Batch), iter, receipts', o, ro)
                /\ ToSet(work'.todo) = SettledRows(o, ro)
                /\ ToSet(work'.accepted) = ToSet(work.accepted) \cup Acceptances(o, ro)
  <2>1. PICK o \in Outcome, ro \in Partial(Urls, Nat) :
          /\ Told(work.posts, Len(Batch), iter, receipts', o, ro)
          /\ ToSet(work'.todo) = SettledRows(o, ro)
          /\ ToSet(work'.accepted) = ToSet(work.accepted) \cup Acceptances(o, ro)
    BY <1>8
  <2> DEFINE new == SettledRows(o, ro)
             accs == Acceptances(o, ro)
  <2>2. \A d \in new : d.iter = iter
    BY <2>1, RowComesFrom
  <2>3. AcceptedNow' = AcceptedNow \cup accs
    BY <2>1 DEF AcceptedNow
  <2>4. Said' = Said \cup {d \in new : d.iter = 1}
    <3>1. Todo' = new
      BY <1>8, <2>1 DEF Todo
    <3> QED BY <3>1, <1>1, <1>6 DEF Said
  <2> HIDE DEF new, accs
  <2>5. CASE iter # 1
    <3>1. Said' = Said
      BY <2>2, <2>4, <2>5
    <3>2. RowsTrue'
      BY <3>1, <1>5 DEF RowsTrue, AsTheModelSaid, SaidBy
    <3> QED BY <3>1, <3>2, <2>5, <1>1
            DEF FirstInv, OneRow, OneAcceptance, PendingFree, RowsToCome, AcceptedTrue
  <2>6. CASE iter = 1
    <3>1. /\ \A d \in new : d.iter = 1 /\ d.url \in batch
          /\ \A d, e \in new : d.url = e.url => d = e
          /\ \A a \in accs : a.post.url \in batch
          /\ \A a, b \in accs : a.post.url = b.post.url => a = b
          /\ \A a \in accs, d \in new : d.url # a.post.url
          /\ \A d \in new : d.receipt \in DOMAIN receipts' /\ SaidBy(receipts', d)
          /\ \A a \in accs : AcceptedBy(receipts', a)
      BY <2>1, <2>6, SettledFirst DEF new, accs
    <3>2. Said' = Said \cup new
      BY <2>4, <3>1
    <3>3. \A u \in Pending : (\A d \in Said : d.url # u)
                             /\ \A a \in AcceptedNow : a.post.url # u
      BY <2>6 DEF FirstInv, PendingFree
    <3> HIDE DEF batch
    <3>4. \A u \in batch : (\A d \in Said : d.url # u) /\ \A a \in AcceptedNow : a.post.url # u
      BY <1>4, <3>3
    <3>5. OneRow'
      BY <3>1, <3>2, <3>4 DEF FirstInv, OneRow
    <3>6. OneAcceptance'
      BY <2>3, <2>6, <3>1, <3>4 DEF FirstInv, OneAcceptance
    <3>7. RowsToCome'
      <4>1. \A a \in AcceptedNow, d \in Said : d.url # a.post.url
        BY <1>1, <2>6 DEF FirstInv, RowsToCome
      <4> QED BY <4>1, <2>3, <3>1, <3>2, <3>4 DEF RowsToCome
    <3>8. PendingFree'
      <4>1. Batch' = Batch
        BY <1>1 DEF Batch
      <4>2. Pending' = UrlsOf(posts, n + 1, Len(posts))
        BY <1>1, <1>8, <4>1 DEF Pending
      <4>3. Pending' \subseteq Pending /\ batch \cap Pending' = {}
        BY <1>4, <2>6, <4>2
      <4> QED BY <4>3, <2>3, <3>1, <3>2, <3>3 DEF PendingFree
    <3>9. RowsTrue' /\ AcceptedTrue'
      <4>1. RowsTrue'
        BY <1>5, <3>1, <3>2 DEF RowsTrue, AsTheModelSaid, SaidBy
      <4>2. AcceptedTrue'
        BY <1>5, <2>3, <2>6, <3>1 DEF AcceptedTrue, AcceptedBy
      <4> QED BY <4>1, <4>2
    <3> QED BY <3>5, <3>6, <3>7, <3>8, <3>9 DEF FirstInv
  <2> QED BY <2>5, <2>6
<1> QED BY <1>1, <1>7, <1>8

LEMMA AcceptingDecidesOnce ==
  ASSUME Shape, FirstInv, Accepting
  PROVE  FirstInv'
<1>1. /\ work.pc = "admitting" /\ work'.pc = "accepting" /\ work.todo = <<>>
      /\ work'.todo = AcceptedRows /\ work'.posts = <<>>
      /\ work'.accepted = work.accepted /\ UNCHANGED <<decisions, receipts, iter>>
  BY AcceptingGives
<1>2. /\ ToSet(AcceptedRows) = {Acceptedly(work.accepted[i]) : i \in Final}
      /\ \A i \in Final : work.accepted[i] \in AcceptedNow
  BY AcceptedRowsAre DEF AcceptedNow
<1>3. \A e \in AcceptedNow :
        /\ Acceptedly(e).url = e.post.url /\ Acceptedly(e).iter = iter
        /\ Acceptedly(e).state = "ACCEPTED" /\ Acceptedly(e).receipt = e.receipt
  BY AcceptedlyIs DEF AcceptedNow
<1>4. \A d \in ToSet(AcceptedRows) : \E e \in AcceptedNow :
        /\ d = Acceptedly(e) /\ d.url = e.post.url /\ d.iter = iter
        /\ d.state = "ACCEPTED" /\ d.receipt = e.receipt
  BY <1>2, <1>3
<1>5. AcceptedNow' = AcceptedNow
  BY <1>1 DEF AcceptedNow
<1>6. Said' = Said \cup {d \in ToSet(AcceptedRows) : d.iter = 1}
  <2>1. Todo' = ToSet(AcceptedRows)
    BY <1>1 DEF Todo
  <2>2. Said = {d \in ToSet(decisions) : d.iter = 1}
    BY <1>1, SaidOf
  <2> QED BY <2>1, <2>2, <1>1 DEF Said
<1>7. Pending' = {}
  <2>1. Pending' = UrlsOf(<<>>, 1, Len(<<>>)) /\ Len(<<>>) = 0
    BY <1>1 DEF Pending
  <2> QED BY <2>1 DEF UrlsOf
<1>8. PendingFree'
  BY <1>7 DEF PendingFree
<1>9. RowsToCome'
  BY <1>1 DEF RowsToCome
<1>10. CASE iter # 1
  <2>1. Said' = Said
    BY <1>4, <1>6, <1>10
  <2> QED BY <2>1, <1>1, <1>8, <1>9, <1>10
          DEF FirstInv, OneRow, OneAcceptance, RowsTrue, AsTheModelSaid, AcceptedTrue
<1>11. CASE iter = 1
  <2> DEFINE new == ToSet(AcceptedRows)
  <2>1. Said' \subseteq Said \cup new
    BY <1>6
  <2>2. \A d \in new : \E e \in AcceptedNow :
          /\ d = Acceptedly(e) /\ d.url = e.post.url
          /\ d.state = "ACCEPTED" /\ d.receipt = e.receipt
    BY <1>4
  <2> HIDE DEF new
  <2>3. /\ \A a, b \in AcceptedNow : a.post.url = b.post.url => a = b
        /\ \A a \in AcceptedNow, d \in Said : d.url # a.post.url
        /\ \A a \in AcceptedNow : AcceptedBy(receipts, a)
        /\ \A a \in AcceptedNow : a.item.is = "relevant"
    <3>1. \A a \in AcceptedNow : a.item.is = "relevant"
      BY SaidOf DEF Entry, Relevant
    <3> QED BY <3>1, <1>1, <1>11
            DEF FirstInv, OneAcceptance, RowsToCome, AcceptedTrue, AcceptedBy
  <2>4. OneRow'
    <3>1. \A d, e \in new : d.url = e.url => d = e
      BY <2>2, <2>3
    <3>2. \A d \in Said, e \in new : d.url # e.url
      BY <2>2, <2>3
    <3> QED BY <2>1, <3>1, <3>2 DEF FirstInv, OneRow
  <2>5. RowsTrue'
    <3>1. \A d \in new : d.receipt \in DOMAIN receipts /\ SaidBy(receipts, d)
      BY <2>2, <2>3 DEF AcceptedBy, SaidBy
    <3>2. \A d \in Said : d.receipt \in DOMAIN receipts /\ SaidBy(receipts, d)
      BY DEF FirstInv, RowsTrue, AsTheModelSaid, SaidBy
    <3> QED BY <1>1, <2>1, <3>1, <3>2 DEF RowsTrue, AsTheModelSaid, SaidBy
  <2>6. OneAcceptance' /\ AcceptedTrue'
    BY <1>1, <1>5 DEF FirstInv, OneAcceptance, AcceptedTrue
  <2> QED BY <2>4, <2>5, <2>6, <1>8, <1>9 DEF FirstInv
<1> QED BY <1>10, <1>11

LEMMA FirstStep ==
  ASSUME Shape, FirstInv, [Next]_vars
  PROVE  FirstInv'
<1>1. CASE admit_city \/ write_signal
  <2>1. /\ work.pc \in {"admitting", "locating"} /\ work'.pc \in {"admitting", "locating"}
        /\ work.todo = <<>> /\ work'.todo = <<>> /\ work.posts = <<>> /\ work'.posts = <<>>
        /\ work'.accepted = work.accepted /\ UNCHANGED <<decisions, receipts, iter>>
    BY <1>1, PlaceGives
  <2>2. Pending' = Pending
    BY <2>1 DEF Pending
  <2> QED BY <2>1, <2>2, SameStep
<1>2. CASE EndStage
  <2>1. /\ work.pc = "accepting" /\ work'.pc = "closed" /\ work.todo = <<>>
        /\ work'.todo = <<>> /\ work'.posts = <<>>
        /\ work'.accepted = work.accepted /\ UNCHANGED <<decisions, receipts, iter>>
    BY <1>2, CloseGives
  <2>2. work.posts = <<>>
    BY <2>1 DEF Shape, PhaseInv
  <2>3. Pending' = Pending
    BY <2>1, <2>2 DEF Pending
  <2> QED BY <2>1, <2>3, SameStep
<1>3. CASE purge_expired_raw \/ Tick \/ UNCHANGED vars
  <2>1. UNCHANGED <<decisions, receipts, work, iter>>
    BY <1>3, AroundGives DEF rows
  <2>2. Said' = Said /\ Pending' = Pending /\ AcceptedNow' = AcceptedNow
    BY <2>1 DEF Said, Todo, Pending, Batch, AcceptedNow
  <2> QED BY <2>1, <2>2 DEF FirstInv, OneRow, OneAcceptance, PendingFree, RowsToCome,
                            RowsTrue, AsTheModelSaid, AcceptedTrue
<1> QED BY <1>1, <1>2, <1>3, GatherDecidesNothing, RowDecidesNothing, BatchDecidesNothing,
           JudgeDecidesOnce, AcceptingDecidesOnce, IdleDecidesNothing DEF Next

LEMMA FirstInit == ASSUME Init PROVE FirstInv
<1>1. work = Idle("gather") /\ decisions = <<>> /\ receipts = <<>>
  BY DEF Init
<1>2. work.todo = <<>> /\ work.accepted = <<>> /\ work.posts = <<>> /\ work.pc = "gather"
  BY <1>1, IdleIs
<1>3. Said = {} /\ AcceptedNow = {}
  BY <1>1, <1>2, ToSetOfEmpty DEF Said, Todo, AcceptedNow
<1> QED BY <1>3 DEF FirstInv, OneRow, OneAcceptance, PendingFree, RowsToCome, RowsTrue,
                    AcceptedTrue

LEMMA FirstHolds == Spec => []FirstInv
<1>1. Init => FirstInv
  BY FirstInit
<1>2. Shape /\ FirstInv /\ [Next]_vars => FirstInv'
  BY FirstStep
<1> QED BY <1>1, <1>2, ShapeHolds, PTL DEF Spec

\* Every row of the iteration that collected the posts is what the call of its receipt
\* said of its post, however the batch was cut, merged or answered
\* (VerdictIsTheModels; triage.py 139-223, triage_schema.py 204-281).
THEOREM VerdictsAreTheModels == Spec => []VerdictIsTheModels
<1>1. FirstInv => VerdictIsTheModels
  BY DEF FirstInv, RowsTrue, Said, VerdictIsTheModels
<1> QED BY <1>1, FirstHolds, PTL

\* A post of that iteration is never judged twice, nor judged beside a gap, over any
\* number of crashes: what has a row is not asked about again, and what is asked about
\* is asked about once (JudgedOnce; triage.py 257-268, 335-376).
THEOREM NoSecondVerdict == Spec => []JudgedOnce
<1>1. ASSUME FirstInv, NEW u \in Urls, Verdicts(1, u) # {}
      PROVE  Cardinality(Rows(1, u)) = 1
  <2>1. PICK d : d \in Rows(1, u)
    BY <1>1 DEF Verdicts
  <2>2. Rows(1, u) = {d}
    BY <1>1, <2>1 DEF FirstInv, OneRow, Said, Rows
  <2> QED BY <2>2, FS_Singleton
<1>2. FirstInv => JudgedOnce
  BY <1>1 DEF JudgedOnce
<1> QED BY <1>2, FirstHolds, PTL

-----------------------------------------------------------------------------
(* A gap is never silent.                                                  *)

\* What was written off, what is about to be included.
Off == {s \in ToSet(skips) \cup (IF work.pc = "skipping" THEN ToSet(work.todo) ELSE {})
          : s.iter = 1}
WrittenOff(r) == \E s \in Off : s.raw = r /\ s.reason = payloads[r].kind

\* The first iteration still has to say that it judged not everything.
GapToSay == iter = 1 /\ work.pc # "closed" /\ work.gaps > 0

\* ... or that it lost a payload.
LossToSay(r) ==
  iter = 1 /\ (work.pc = "gather" \/ (work.pc = "skipping" /\ WrittenOff(r)))

GapInv ==
  /\ \A i \in 2..iter : "inherited" \in notes[i]
  /\ \A d \in Said : d.state \in Uncovered => notes[1] # {} \/ GapToSay
  /\ \A r \in Raws : payloads[r].kind # "list" => notes[1] # {} \/ LossToSay(r)

\* Of what was noted nothing is taken back.
Noted == \A i \in 1..iter : notes[i] \subseteq notes'[i]

LEMMA NoteAdds ==
  ASSUME Shape, NEW note, NEW applies, Note(note, applies)
  PROVE  Noted /\ (applies => notes'[iter] # {}) /\ 1 \in 1..iter
<1>1. /\ notes \in [Iterations -> SUBSET Notes] /\ iter \in Iterations
      /\ iter \in Int /\ 1..iter \subseteq Iterations /\ 1 \in 1..iter
  BY BoundsAssumption DEF Shape, TypeInv, Iterations
<1>2. notes' = IF applies THEN [notes EXCEPT ![iter] = @ \cup {note}] ELSE notes
  BY DEF Note
<1>3. CASE applies
  BY <1>1, <1>2, <1>3 DEF Noted
<1>4. CASE ~applies
  BY <1>1, <1>2, <1>4 DEF Noted
<1> QED BY <1>3, <1>4

\* What is noted is enough, until it has to be said.
LEMMA GapsStay ==
  ASSUME GapInv, iter' = iter, payloads' = payloads, 1 \in 1..iter, Noted,
         \A d \in Said' : d.state \in Uncovered => d \in Said \/ GapToSay',
         GapToSay => notes'[1] # {} \/ GapToSay',
         \A r \in Raws : payloads[r].kind # "list" /\ LossToSay(r)
                           => notes'[1] # {} \/ LossToSay(r)'
  PROVE  GapInv'
<1>1. /\ notes[1] # {} => notes'[1] # {}
      /\ \A i \in 2..iter : "inherited" \in notes'[i]
  BY DEF Noted, GapInv
<1>2. \A d \in Said' : d.state \in Uncovered => notes'[1] # {} \/ GapToSay'
  BY <1>1 DEF GapInv
<1>3. Raws' = Raws
  BY DEF Raws
<1>4. \A r \in Raws : payloads[r].kind # "list" => notes'[1] # {} \/ LossToSay(r)'
  BY <1>1 DEF GapInv
<1> HIDE DEF LossToSay
<1>5. Uncovered' = Uncovered
  BY DEF Uncovered
<1> QED BY <1>1, <1>2, <1>3, <1>4, <1>5 DEF GapInv

LEMMA NothingNoted ==
  ASSUME Shape, notes' = notes
  PROVE  Noted /\ 1 \in 1..iter
BY BoundsAssumption DEF Shape, TypeInv, Iterations, Noted

LEMMA IdleHasNoGap ==
  ASSUME Shape, work.pc \in {"gather", "interrupted"}
  PROVE  work.gaps = 0 /\ work.todo = <<>> /\ ~GapToSay
<1> DEFINE pc == work.pc
           parent == work.parent
<1>1. work = [Idle(pc) EXCEPT !.parent = parent]
  BY DEF Shape, PhaseInv
<1> HIDE DEF pc, parent
<1>2. work.gaps = 0 /\ work.todo = <<>>
  BY <1>1 DEF Idle
<1> QED BY <1>2 DEF GapToSay

LEMMA GapsOfBatch ==
  ASSUME Shape, GapInv, \/ EndGather \/ gather_for_retry \/ EndBatch
  PROVE  GapInv'
<1>1. /\ work'.pc \in {"judging", "admitting"} /\ work'.todo = <<>> /\ work.todo = <<>>
      /\ work'.gaps = work.gaps /\ UNCHANGED <<skips, decisions, payloads, iter>>
      /\ \/ EndGather /\ work.pc = "skipping"
         \/ gather_for_retry /\ work.pc = "gather" /\ iter # 1
         \/ EndBatch /\ work.pc = "recording" /\ notes' = notes
  BY BatchGives
<1>2. Noted /\ 1 \in 1..iter /\ (EndGather /\ Lost => notes'[iter] # {})
  <2>1. ASSUME EndGather PROVE Noted /\ 1 \in 1..iter /\ (Lost => notes'[iter] # {})
    BY <2>1, NoteAdds DEF EndGather
  <2>2. ASSUME gather_for_retry PROVE Noted /\ 1 \in 1..iter
    BY <2>2, NoteAdds DEF gather_for_retry
  <2> QED BY <1>1, <2>1, <2>2, NothingNoted
<1>3. Said' = Said
  <2>1. Todo = {} /\ Todo' = {}
    BY <1>1, ToSetOfEmpty DEF Todo
  <2> QED BY <2>1, <1>1 DEF Said
<1>4. GapToSay => GapToSay'
  BY <1>1 DEF GapToSay
<1>5. ASSUME NEW r \in Raws, payloads[r].kind # "list", LossToSay(r)
      PROVE  notes'[1] # {}
  <2>1. iter = 1 /\ work.pc = "skipping" /\ EndGather /\ WrittenOff(r)
    BY <1>1, <1>5 DEF LossToSay
  <2>2. PICK s \in Off : s.raw = r /\ s.reason = payloads[r].kind
    BY <2>1 DEF WrittenOff
  <2>3. s \in ToSet(skips) /\ s.iter = 1
    BY <1>1, <2>2, ToSetOfEmpty DEF Off
  <2>4. s.reason \in {"unparseable", "not a list"}
    BY <1>5, <2>2, PayloadsAre DEF Shape, TypeInv
  <2>5. Lost
    BY <2>1, <2>3, <2>4 DEF Lost, ToSet
  <2> QED BY <1>2, <2>1, <2>5
<1> QED BY <1>1, <1>2, <1>3, <1>4, <1>5, GapsStay

LEMMA GapsOfRow ==
  ASSUME Shape, GapInv, insert_triage_skip \/ insert_triage_decision
  PROVE  GapInv'
<1>1. /\ work'.pc = work.pc /\ work'.todo = Tail(work.todo) /\ work'.gaps = work.gaps
      /\ UNCHANGED <<notes, payloads, iter>>
      /\ \/ /\ work.pc = "skipping" /\ decisions' = decisions
            /\ ToSet(skips') = ToSet(skips) \cup {Head(work.todo)}
            /\ ToSet(work.todo) = {Head(work.todo)} \cup ToSet(Tail(work.todo))
         \/ /\ work.pc \in {"recording", "accepting"} /\ skips' = skips
            /\ ToSet(decisions') = ToSet(decisions) \cup {Head(work.todo)}
            /\ ToSet(work.todo) = {Head(work.todo)} \cup ToSet(Tail(work.todo))
  BY RowGives
<1>2. Said' = Said
  BY <1>1 DEF Said, Todo
<1>3. Noted /\ 1 \in 1..iter
  BY <1>1, NothingNoted
<1>4. GapToSay => GapToSay'
  BY <1>1 DEF GapToSay
<1>5. ASSUME NEW r \in Raws, payloads[r].kind # "list", LossToSay(r)
      PROVE  LossToSay(r)'
  <2>1. Off' = Off
    BY <1>1 DEF Off
  <2> QED BY <1>1, <1>5, <2>1 DEF LossToSay, WrittenOff
<1> QED BY <1>1, <1>2, <1>3, <1>4, <1>5, GapsStay

LEMMA GapsOfJudge ==
  ASSUME Shape, GapInv, judge
  PROVE  GapInv'
<1>1. /\ work.pc = "judging" /\ work.todo = <<>> /\ iter' = iter
      /\ UNCHANGED <<decisions, notes, payloads>>
      /\ \/ /\ work'.pc = "judging" /\ work'.todo = <<>> /\ work'.gaps = work.gaps
         \/ /\ work'.pc = "recording"
            /\ \E o \in Outcome, ro \in Partial(Urls, Nat) :
                 /\ Told(work.posts, Len(Batch), iter, receipts', o, ro)
                 /\ ToSet(work'.todo) = SettledRows(o, ro)
                 /\ work'.gaps \in Nat /\ work.gaps <= work'.gaps
                 /\ ToSet(o.faults) \cup ToSet(o.missing) # {} => work'.gaps > 0
  BY JudgeGives
<1>2. Noted /\ 1 \in 1..iter
  BY <1>1, NothingNoted
<1>3. Said = {d \in ToSet(decisions) : d.iter = 1}
  BY <1>1, SaidOf
<1>4. work.gaps \in Nat
  BY RecordFields DEF Shape, TypeInv
<1>5. GapToSay => GapToSay'
  BY <1>1, <1>4 DEF GapToSay
<1>6. ASSUME NEW d \in Said', d.state \in Uncovered PROVE d \in Said \/ GapToSay'
  <2>1. CASE work'.pc = "judging" /\ work'.todo = <<>>
    <3>1. Todo' = {}
      BY <2>1, ToSetOfEmpty DEF Todo
    <3> QED BY <3>1, <1>1, <1>3, <1>6 DEF Said
  <2>2. CASE /\ work'.pc = "recording"
             /\ \E o \in Outcome, ro \in Partial(Urls, Nat) :
                  /\ Told(work.posts, Len(Batch), iter, receipts', o, ro)
                  /\ ToSet(work'.todo) = SettledRows(o, ro)
                  /\ work'.gaps \in Nat /\ work.gaps <= work'.gaps
                  /\ ToSet(o.faults) \cup ToSet(o.missing) # {} => work'.gaps > 0
    <3>1. PICK o \in Outcome, ro \in Partial(Urls, Nat) :
            /\ Told(work.posts, Len(Batch), iter, receipts', o, ro)
            /\ ToSet(work'.todo) = SettledRows(o, ro)
            /\ ToSet(o.faults) \cup ToSet(o.missing) # {} => work'.gaps > 0
      BY <2>2
    <3>2. CASE d \in SettledRows(o, ro)
      <4>1. /\ d.iter = iter
            /\ \/ d.url \in ToSet(o.faults)
               \/ d.url \in ToSet(o.missing)
               \/ d.state = "REJECTED"
        BY <3>1, <3>2, RowComesFrom
      <4>2. d.state # "REJECTED"
        BY <1>6 DEF Uncovered
      <4>3. d.iter = 1
        BY <1>6 DEF Said
      <4> QED BY <4>1, <4>2, <4>3, <3>1, <2>2, <1>1 DEF GapToSay
    <3>3. CASE d \notin SettledRows(o, ro)
      BY <3>1, <3>3, <2>2, <1>1, <1>3, <1>6 DEF Said, Todo
    <3> QED BY <3>2, <3>3
  <2> QED BY <1>1, <2>1, <2>2
<1>7. \A r \in Raws : ~LossToSay(r)
  BY <1>1 DEF LossToSay
<1> QED BY <1>1, <1>2, <1>5, <1>6, <1>7, GapsStay

LEMMA GapsOfCities ==
  ASSUME Shape, GapInv, admit_city \/ write_signal \/ Accepting \/ EndStage
  PROVE  GapInv'
<1>1. /\ work.pc \in {"admitting", "locating", "accepting"} /\ work.todo = <<>>
      /\ work'.pc # "skipping" /\ work'.gaps = work.gaps
      /\ UNCHANGED <<decisions, payloads, iter>>
      /\ \/ work'.todo = <<>> /\ work'.pc # "closed" /\ notes' = notes
         \/ work'.todo = AcceptedRows /\ work'.pc # "closed" /\ notes' = notes
         \/ work'.todo = <<>> /\ EndStage /\ Note("not judged", work.gaps > 0)
  <2>1. CASE admit_city \/ write_signal
    <3>1. /\ work.pc \in {"admitting", "locating"} /\ work'.pc \in {"admitting", "locating"}
          /\ work.todo = <<>> /\ work'.todo = <<>> /\ work'.gaps = work.gaps
          /\ UNCHANGED <<decisions, notes, payloads, iter>>
      BY <2>1, PlaceGives
    <3> QED BY <3>1
  <2>2. CASE Accepting
    <3>1. /\ work.pc = "admitting" /\ work'.pc = "accepting" /\ work.todo = <<>>
          /\ work'.todo = AcceptedRows /\ work'.gaps = work.gaps
          /\ UNCHANGED <<decisions, notes, payloads, iter>>
      BY <2>2, AcceptingGives
    <3> QED BY <3>1
  <2>3. CASE EndStage
    <3>1. /\ work.pc = "accepting" /\ work'.pc = "closed" /\ work.todo = <<>>
          /\ work'.todo = <<>> /\ work'.gaps = work.gaps
          /\ UNCHANGED <<decisions, payloads, iter>>
          /\ Note("not judged", work.gaps > 0)
      BY <2>3, CloseGives
    <3> QED BY <3>1, <2>3
  <2> QED BY <2>1, <2>2, <2>3
<1>2. Noted /\ 1 \in 1..iter /\ (GapToSay => notes'[1] # {} \/ GapToSay')
  <2>1. CASE work'.pc # "closed" /\ notes' = notes
    BY <2>1, <1>1, NothingNoted DEF GapToSay
  <2>2. CASE Note("not judged", work.gaps > 0)
    <3>1. Noted /\ 1 \in 1..iter /\ (work.gaps > 0 => notes'[iter] # {})
      BY <2>2, NoteAdds
    <3> QED BY <3>1 DEF GapToSay
  <2> QED BY <1>1, <2>1, <2>2
<1>3. \A d \in Said' : d.state \in Uncovered => d \in Said
  <2>1. Said = {d \in ToSet(decisions) : d.iter = 1}
    BY <1>1, SaidOf
  <2>2. CASE work'.todo = <<>>
    <3>1. Todo' = {}
      BY <2>2, ToSetOfEmpty DEF Todo
    <3> QED BY <3>1, <2>1, <1>1 DEF Said
  <2>3. CASE work'.todo = AcceptedRows
    <3>1. \A d \in ToSet(AcceptedRows) : d.state = "ACCEPTED"
      BY AcceptedRowsAre, AcceptedlyIs
    <3>2. Todo' = ToSet(AcceptedRows)
      BY <2>3, <1>1 DEF Todo
    <3> QED BY <3>1, <3>2, <2>1, <1>1 DEF Said, Uncovered
  <2> QED BY <1>1, <2>2, <2>3
<1>4. \A r \in Raws : ~LossToSay(r)
  BY <1>1 DEF LossToSay
<1> QED BY <1>1, <1>2, <1>3, <1>4, GapsStay

LEMMA GapsOfCrash ==
  ASSUME Shape, GapInv, Crash
  PROVE  GapInv'
<1>1. /\ work'.todo = <<>> /\ iter' = iter /\ UNCHANGED <<decisions, payloads>>
      /\ Note("interrupted", TRUE)
  BY IdleGives DEF Crash
<1>2. Noted /\ 1 \in 1..iter /\ notes'[iter] # {}
  BY <1>1, NoteAdds
<1>3. Said' \subseteq Said
  <2>1. Todo' = {}
    BY <1>1, ToSetOfEmpty DEF Todo
  <2> QED BY <2>1, <1>1 DEF Said
<1>4. iter = 1 => notes'[1] # {}
  BY <1>2
<1> QED BY <1>1, <1>2, <1>3, <1>4, GapsStay DEF GapToSay, LossToSay

LEMMA GapsOfResume ==
  ASSUME Shape, GapInv, Resume
  PROVE  GapInv'
<1>1. /\ work.pc = "interrupted" /\ work'.todo = <<>> /\ iter' = iter
      /\ UNCHANGED <<decisions, payloads, notes>>
  BY IdleGives DEF Resume, rows, world
<1>2. Noted /\ 1 \in 1..iter /\ ~GapToSay
  BY <1>1, NothingNoted, IdleHasNoGap
<1>3. Said' \subseteq Said
  <2>1. Todo' = {}
    BY <1>1, ToSetOfEmpty DEF Todo
  <2> QED BY <2>1, <1>1 DEF Said
<1>4. \A r \in Raws : ~LossToSay(r)
  BY <1>1 DEF LossToSay
<1> QED BY <1>1, <1>2, <1>3, <1>4, GapsStay

LEMMA GapsOfRetry ==
  ASSUME Shape, GapInv, prepare_retry_triage
  PROVE  GapInv'
<1>1. /\ work.pc = "closed" /\ work'.todo = <<>> /\ iter' = iter + 1 /\ MayUpset
      /\ notes' = [notes EXCEPT ![iter + 1] = {"inherited"}]
      /\ UNCHANGED <<decisions, payloads>>
  BY IdleGives DEF prepare_retry_triage
<1>2. /\ iter \in Nat /\ iter >= 1 /\ iter + 1 \in Iterations /\ 1 # iter + 1
      /\ notes \in [Iterations -> SUBSET Notes]
  BY <1>1, BoundsAssumption DEF Shape, TypeInv, Iterations, MayUpset
<1>3. notes'[1] = notes[1]
  BY <1>1, <1>2
<1>4. \A i \in 2..iter' : "inherited" \in notes'[i]
  <2> SUFFICES ASSUME NEW i \in 2..(iter + 1) PROVE "inherited" \in notes'[i]
    BY <1>1
  <2>1. CASE i = iter + 1
    BY <2>1, <1>1, <1>2
  <2>2. CASE i # iter + 1
    <3>1. i \in 2..iter
      BY <2>2, <1>2
    <3> QED BY <3>1, <2>2, <1>1, <1>2 DEF GapInv
  <2> QED BY <2>1, <2>2
<1>5. Said' \subseteq Said
  <2>1. Todo' = {}
    BY <1>1, ToSetOfEmpty DEF Todo
  <2> QED BY <2>1, <1>1 DEF Said
<1>6. ~GapToSay /\ \A r \in Raws : ~LossToSay(r)
  BY <1>1 DEF GapToSay, LossToSay
<1>7. \A d \in Said' : d.state \in Uncovered => notes'[1] # {}
  BY <1>3, <1>5, <1>6 DEF GapInv
<1>8. \A r \in Raws : payloads[r].kind # "list" => notes'[1] # {}
  BY <1>3, <1>6 DEF GapInv
<1>9. Raws' = Raws /\ Uncovered' = Uncovered
  BY <1>1 DEF Raws, Uncovered
<1> QED BY <1>1, <1>4, <1>7, <1>8, <1>9 DEF GapInv

LEMMA GapsOfGather ==
  ASSUME Shape, GapInv, gather
  PROVE  GapInv'
<1>1. /\ work'.pc = "skipping" /\ work'.todo = Refusals \o AgedOut /\ work.pc = "gather"
      /\ UNCHANGED <<rows, world>>
  BY GatherIs DEF gather
<1>2. UNCHANGED <<decisions, skips, notes, payloads, iter>>
  BY <1>1 DEF rows, world
<1>3. Noted /\ 1 \in 1..iter /\ ~GapToSay /\ work.todo = <<>>
  BY <1>1, <1>2, NothingNoted, IdleHasNoGap
<1>4. Said' = Said
  <2>1. Todo = {} /\ Todo' = {}
    BY <1>1, <1>3, ToSetOfEmpty DEF Todo
  <2> QED BY <2>1, <1>2 DEF Said
<1>5. payloads \in Responses /\ iter \in Iterations
  BY DEF Shape, TypeInv
<1>6. ToSet(Refusals \o AgedOut) = {Refusal(p) : p \in Refused} \cup {Aged(p) : p \in Outdated}
  BY <1>5, SkipsAre
<1>7. ASSUME NEW r \in Raws, payloads[r].kind # "list", LossToSay(r)
      PROVE  LossToSay(r)'
  <2> DEFINE p == <<r, 0>>
  <2>1. iter = 1
    BY <1>7 DEF LossToSay
  <2>2. p[1] = r /\ p[2] = 0 /\ p \in Places
    BY <2>1, <1>7 DEF Places
  <2> HIDE DEF p
  <2>3. Kind(p) = payloads[r].kind
    BY <2>2 DEF Kind
  <2>4. p \in Structural
    <3>1. payloads[r].kind # "post"
      BY <1>5, PayloadsAre
    <3> QED BY <2>2, <2>3, <3>1 DEF Structural
  <2>5. Refusal(p).iter = 1 /\ Refusal(p).raw = r /\ Refusal(p).reason = payloads[r].kind
    BY <1>5, <2>1, <2>2, <2>3, <2>4, RefusalIs
  <2>6. payloads[r].kind # "stale"
    BY <1>5, <1>7, PayloadsAre
  <2>7. \E s \in Off' : s.raw = r /\ s.reason = payloads[r].kind
    <3>1. CASE Recorded(Refusal(p))
      <4>1. PICK i \in DOMAIN skips : /\ skips[i].iter = iter /\ skips[i].raw = r
                                      /\ skips[i].reason = payloads[r].kind
        BY <3>1, <2>5, <2>6 DEF Recorded
      <4>2. skips[i] \in ToSet(skips)
        BY DEF ToSet
      <4> QED BY <4>1, <4>2, <2>1, <1>2 DEF Off
    <3>2. CASE ~Recorded(Refusal(p))
      <4>1. p \in Refused
        BY <3>2, <2>4 DEF Refused
      <4>2. Refusal(p) \in ToSet(work'.todo)
        BY <4>1, <1>1, <1>6
      <4> QED BY <4>2, <2>5, <1>1 DEF Off
    <3> QED BY <3>1, <3>2
  <2> QED BY <2>1, <2>7, <1>1, <1>2 DEF LossToSay, WrittenOff
<1> QED BY <1>2, <1>3, <1>4, <1>7, GapsStay

LEMMA GapStep ==
  ASSUME Shape, GapInv, [Next]_vars
  PROVE  GapInv'
<1>1. CASE purge_expired_raw \/ Tick \/ UNCHANGED vars
  <2>1. UNCHANGED <<decisions, skips, notes, payloads, work, iter>>
    BY <1>1, AroundGives DEF rows
  <2>2. Said' = Said /\ Off' = Off
    BY <2>1 DEF Said, Todo, Off
  <2>3. Noted /\ 1 \in 1..iter
    BY <2>1, NothingNoted
  <2>4. GapToSay => GapToSay'
    BY <2>1 DEF GapToSay
  <2>5. \A r \in Raws : LossToSay(r) => LossToSay(r)'
    BY <2>1, <2>2 DEF LossToSay, WrittenOff
  <2> QED BY <2>1, <2>2, <2>3, <2>4, <2>5, GapsStay
<1> QED BY <1>1, GapsOfGather, GapsOfRow, GapsOfBatch, GapsOfJudge, GapsOfCities, GapsOfCrash,
           GapsOfResume, GapsOfRetry DEF Next

\* An iteration that closes without a degradation lost no payload and judged every post
\* that it asked about: a failed call, a broken or a missing answer, a payload that
\* could not be read and a crash are all noted, and a re-triage says that it inherits
\* (HonestGap; triage.py 227-237, 386-397).
THEOREM GapsAreNoted == Spec => []HonestGap
<1>1. Init => GapInv
  <2> SUFFICES ASSUME Init PROVE GapInv
    OBVIOUS
  <2>1. work.pc = "gather" /\ work.todo = <<>> /\ decisions = <<>> /\ iter = 1
    BY IdleIs DEF Init
  <2>2. Said = {}
    BY <2>1, ToSetOfEmpty DEF Said, Todo
  <2> QED BY <2>1, <2>2 DEF GapInv, LossToSay
<1>2. Shape /\ GapInv /\ [Next]_vars => GapInv'
  BY GapStep
<1>3. Shape /\ GapInv => HonestGap
  <2> SUFFICES ASSUME Shape, GapInv, NEW i \in 1..iter, Closed(i), notes[i] = {}
               PROVE  /\ \A d \in ToSet(decisions) : d.iter = i => d.state \notin Uncovered
                      /\ \A r \in Raws : payloads[r].kind = "list"
    BY DEF HonestGap
  <2>1. iter \in Nat
    BY DEF Shape, TypeInv, Iterations
  <2>2. i = 1
    <3>1. i \notin 2..iter
      BY DEF GapInv
    <3> QED BY <3>1, <2>1
  <2>3. ~GapToSay /\ \A r \in Raws : ~LossToSay(r)
    BY <2>1, <2>2 DEF Closed, GapToSay, LossToSay
  <2> QED BY <2>2, <2>3 DEF GapInv, Said
<1> QED BY <1>1, <1>2, <1>3, ShapeHolds, PTL DEF Spec

-----------------------------------------------------------------------------
(* What a batch costs.                                                     *)

\* How many calls a batch of n posts has cost when the parts are of a size and the next
\* one begins at a post: j were asked about at this size.
Within(n, size, at, calls, base) ==
  \E j \in Nat : /\ at = 1 + j * size
                 /\ \A m \in Nat : n <= m * size => calls <= base + 2 * m - 2 + j

LEMMA WithinStarts ==
  ASSUME NEW n \in Nat \ {0}, NEW calls \in Nat, NEW base \in Int, calls <= base
  PROVE  Within(n, n, 1, calls, base)
<1>1. \A m \in Nat : n <= m * n => m >= 1
  <2> SUFFICES ASSUME NEW m \in Nat, n <= m * n, m = 0 PROVE FALSE
    OBVIOUS
  <2>1. m * n = 0
    BY SMT
  <2> QED BY <2>1
<1>2. 1 = 1 + 0 * n
  OBVIOUS
<1>3. \A m \in Nat : m >= 1 => calls <= base + 2 * m - 2 + 0
  OBVIOUS
<1> QED BY <1>1, <1>2, <1>3 DEF Within

LEMMA WithinGrows ==
  ASSUME NEW n \in Nat \ {0}, NEW size \in Nat \ {0}, NEW at \in Nat, NEW calls \in Nat,
         NEW base \in Int, Within(n, size, at, calls, base)
  PROVE  Within(n, size, at + size, calls + 1, base)
<1>1. PICK j \in Nat : /\ at = 1 + j * size
                       /\ \A m \in Nat : n <= m * size => calls <= base + 2 * m - 2 + j
  BY DEF Within
<1>2. (j + 1) * size = j * size + size /\ j * size \in Nat
  BY SMT
<1>3. at + size = 1 + (j + 1) * size
  BY <1>1, <1>2
<1>4. \A m \in Nat : n <= m * size => calls + 1 <= base + 2 * m - 2 + (j + 1)
  <2> SUFFICES ASSUME NEW m \in Nat, n <= m * size
               PROVE  calls + 1 <= base + 2 * m - 2 + (j + 1)
    OBVIOUS
  <2>1. calls <= base + 2 * m - 2 + j
    BY <1>1
  <2> QED BY <2>1
<1> QED BY <1>3, <1>4 DEF Within

LEMMA LastPart ==
  ASSUME NEW n \in Nat \ {0}, NEW size \in Nat \ {0}, NEW at \in 1..n, NEW calls \in Nat,
         NEW base \in Int, Within(n, size, at, calls, base)
  PROVE  /\ \E j \in 0..(n - 1) :
              /\ j * size \in Nat /\ j * size < n
              /\ at + size > n => calls <= base + 3 * j
         /\ calls <= base + 3 * n
<1>1. PICK j \in Nat : /\ at = 1 + j * size
                       /\ \A m \in Nat : n <= m * size => calls <= base + 2 * m - 2 + j
  BY DEF Within
<1>2. /\ (j + 1) * size = j * size + size /\ j * size \in Nat /\ j <= j * size
      /\ n <= n * size
  BY SMT
<1>3. j * size < n /\ j \in 0..(n - 1)
  <2> DEFINE p == j * size
  <2>1. p \in Nat /\ j <= p /\ at = 1 + p
    BY <1>1, <1>2
  <2> HIDE DEF p
  <2>2. p < n /\ j \in 0..(n - 1)
    BY <2>1
  <2> QED BY <2>2 DEF p
<1>4. ASSUME at + size > n PROVE calls <= base + 3 * j
  <2>1. n <= (j + 1) * size
    <3> DEFINE p == j * size
               q == (j + 1) * size
    <3>1. p \in Nat /\ q = p + size /\ at = 1 + p
      BY <1>1, <1>2
    <3> HIDE DEF p, q
    <3>2. n <= q
      BY <3>1, <1>4
    <3> QED BY <3>2 DEF q
  <2>2. calls <= base + 2 * (j + 1) - 2 + j
    <3> DEFINE k == j + 1
    <3>1. k \in Nat /\ n <= k * size
      BY <2>1
    <3>2. \A m \in Nat : n <= m * size => calls <= base + 2 * m - 2 + j
      BY <1>1
    <3> HIDE DEF k
    <3>3. calls <= base + 2 * k - 2 + j
      BY <3>1, <3>2
    <3> QED BY <3>3 DEF k
  <2> QED BY <2>2
<1>5. calls <= base + 3 * n
  <2>1. calls <= base + 2 * n - 2 + j
    BY <1>1, <1>2
  <2> QED BY <2>1, <1>3
<1> QED BY <1>2, <1>3, <1>4, <1>5

LEMMA WithinHalved ==
  ASSUME NEW n \in Nat \ {0}, NEW size \in 2..n, NEW at \in 1..n, NEW calls \in Nat,
         NEW base \in Int, Within(n, size, at, calls, base), at + size > n,
         NEW half \in Nat \ {0}, 2 * half <= size
  PROVE  Within(n, half, 1, calls + 1, base)
<1>1. PICK j \in 0..(n - 1) : /\ j * size \in Nat /\ j * size < n
                              /\ calls <= base + 3 * j
  <2>1. size \in Nat \ {0}
    OBVIOUS
  <2>2. \E j \in 0..(n - 1) : /\ j * size \in Nat /\ j * size < n
                              /\ at + size > n => calls <= base + 3 * j
    BY <2>1, LastPart
  <2> QED BY <2>2
<1>2. ASSUME NEW m \in Nat, n <= m * half PROVE 3 * (j + 1) <= 2 * m
  <2>1. m >= 2
    <3>1. CASE m = 0
      <4>1. m * half = 0
        BY <3>1, SMT
      <4> QED BY <4>1, <1>2
    <3>2. CASE m = 1
      <4>1. m * half = half
        BY <3>2, SMT
      <4>2. n <= half
        BY <4>1, <1>2
      <4> QED BY <4>2
    <3> QED BY <3>1, <3>2
  <2>2. 2 * j < m
    <3> SUFFICES ASSUME m <= 2 * j PROVE FALSE
      OBVIOUS
    <3> DEFINE p == m * half
               q == (2 * j) * half
               r == j * (2 * half)
               t == j * size
    <3>1. p <= q
      BY SMT
    <3>2. q = r
      BY SMT
    <3>3. r <= t
      <4> DEFINE d == 2 * half
      <4>1. d \in Nat /\ d <= size /\ j \in Nat /\ size \in Nat
        OBVIOUS
      <4> HIDE DEF d
      <4>2. j * d <= j * size
        BY <4>1, SMT
      <4> QED BY <4>2 DEF d
    <3>4. p \in Nat /\ q \in Nat /\ r \in Nat /\ t \in Nat
      BY SMT
    <3> HIDE DEF p, q, r, t
    <3>5. n <= p /\ t < n
      BY <1>1, <1>2 DEF p, t
    <3> QED BY <3>1, <3>2, <3>3, <3>4, <3>5
  <2> QED BY <2>1, <2>2
<1>3. \A m \in Nat : n <= m * half => calls + 1 <= base + 2 * m - 2 + 0
  <2> SUFFICES ASSUME NEW m \in Nat, n <= m * half PROVE calls + 1 <= base + 2 * m - 2 + 0
    OBVIOUS
  <2>1. 3 * (j + 1) <= 2 * m
    BY <1>2
  <2> QED BY <2>1, <1>1
<1>4. 1 = 1 + 0 * half
  OBVIOUS
<1> QED BY <1>3, <1>4 DEF Within

\* What the calls of the batches before, and of this one, come to.
CallInv ==
  /\ work.pc = "judging" =>
       /\ work.size \in 1..BatchLen(work.posts)
       /\ Within(BatchLen(work.posts), work.size, work.at, work.calls,
                 3 * (work.asked - BatchLen(work.posts)))
  /\ work.pc # "judging" => CallsBounded

LEMMA HalvedTwice ==
  ASSUME NEW size \in Nat \ {0, 1}
  PROVE  Halved(size) \in 1..(size - 1) /\ 2 * Halved(size) <= size
<1>1. size \div 2 \in Nat \ {0} /\ 2 * (size \div 2) <= size
  OBVIOUS
<1>2. Max({1, size \div 2}) = IF 1 >= size \div 2 THEN 1 ELSE size \div 2
  BY <1>1, MaxOfTwo
<1>3. 2 * Halved(size) <= size
  BY <1>1, <1>2 DEF Halved
<1> QED BY <1>3, HalvedIs

LEMMA CallsOfBatch ==
  ASSUME NEW w \in Work, w.calls <= 3 * w.asked, work' = NextBatch(w),
         UNCHANGED payloads
  PROVE  CallInv'
<1>1. /\ w.calls \in Nat /\ w.asked \in Nat
  BY RecordFields
<1>2. CASE w.posts = <<>>
  <2>1. work' = [w EXCEPT !.pc = "admitting", !.names = CitiesOf(w.accepted)]
    BY <1>2, NextBatchIs
  <2>2. work'.pc = "admitting" /\ work'.calls = w.calls /\ work'.asked = w.asked
    BY <2>1 DEF Work
  <2> QED BY <2>2 DEF CallInv, CallsBounded
<1>3. CASE w.posts # <<>>
  <2> DEFINE n == BatchLen(w.posts)
  <2>1. /\ n \in Nat \ {0}
        /\ work' = [w EXCEPT !.pc = "judging", !.size = n, !.at = 1, !.asked = @ + n,
                             !.outcome = Nothing, !.receiptOf = <<>>]
    BY <1>3, NextBatchIs
  <2> HIDE DEF n
  <2>2. /\ work'.pc = "judging" /\ work'.calls = w.calls /\ work'.asked = w.asked + n
        /\ work'.size = n /\ work'.at = 1 /\ work'.posts = w.posts
    BY <2>1 DEF Work
  <2>3. BatchLen(work'.posts) = n
    BY <2>2 DEF n
  <2>4. 3 * (work'.asked - n) = 3 * w.asked /\ 3 * w.asked \in Int
    BY <1>1, <2>1, <2>2
  <2>5. Within(n, n, 1, w.calls, 3 * w.asked)
    BY <1>1, <2>1, <2>4, WithinStarts
  <2>6. BatchLen(work'.posts) = BatchLen(work.posts)'
    BY DEF BatchLen
  <2>7. n \in 1..n
    BY <2>1
  <2>8. Within(n, work'.size, work'.at, work'.calls, 3 * (work'.asked - n))
    BY <2>2, <2>4, <2>5
  <2> QED BY <2>2, <2>3, <2>6, <2>7, <2>8 DEF CallInv, Within
<1> QED BY <1>2, <1>3

LEMMA CallsOfJudge ==
  ASSUME Shape, CallInv, judge
  PROVE  CallInv'
<1>1. /\ work.pc = "judging" /\ UNCHANGED payloads
      /\ \E reply \in Reply : LET w == Answered(reply) IN
           \/ /\ w.at + w.size <= Len(Batch) /\ work' = [w EXCEPT !.at = @ + w.size]
           \/ /\ ~(w.at + w.size <= Len(Batch))
              /\ \/ /\ w.size > 1
                    /\ work' = [w EXCEPT !.size = Halved(@), !.at = 1, !.outcome = Nothing,
                                         !.receiptOf = <<>>]
                 \/ work' = Settled(w)
  BY Zenon DEF judge, Answered, world
<1>2. PICK reply \in Reply : LET w == Answered(reply) IN
        \/ /\ w.at + w.size <= Len(Batch) /\ work' = [w EXCEPT !.at = @ + w.size]
        \/ /\ ~(w.at + w.size <= Len(Batch))
           /\ \/ /\ w.size > 1
                 /\ work' = [w EXCEPT !.size = Halved(@), !.at = 1, !.outcome = Nothing,
                                      !.receiptOf = <<>>]
              \/ work' = Settled(w)
  BY <1>1
<1> DEFINE w == Answered(reply)
           n == Len(Batch)
           b == 3 * (work.asked - n)
<1>3. /\ w \in Work
      /\ w = [work EXCEPT !.outcome = w.outcome, !.receiptOf = w.receiptOf,
                          !.calls = work.calls + 1]
      /\ PartEnd \in work.at..n /\ n = BatchLen(work.posts)
      /\ Told(work.posts, PartEnd, iter, Append(receipts, Call(reply)), w.outcome, w.receiptOf)
  BY <1>1, <1>2, AnsweredIs
<1>4. \/ w.at + w.size <= n /\ work' = [w EXCEPT !.at = @ + w.size]
      \/ /\ ~(w.at + w.size <= n) /\ w.size > 1
         /\ work' = [w EXCEPT !.size = Halved(@), !.at = 1, !.outcome = Nothing,
                              !.receiptOf = <<>>]
      \/ ~(w.at + w.size <= n) /\ work' = Settled(w)
  BY <1>2
<1> HIDE DEF w
<1>5. /\ work \in Work /\ iter \in Iterations /\ work.posts \in Seq(Post)
      /\ work.calls \in Nat /\ work.asked \in Nat
  BY RecordFields DEF Shape, TypeInv
<1>6. /\ w.pc = "judging" /\ w.posts = work.posts /\ w.size = work.size /\ w.at = work.at
      /\ w.asked = work.asked /\ w.calls = work.calls + 1
  BY <1>1, <1>3, <1>5 DEF Work
<1>7. /\ work.size \in 1..n /\ work.at \in 1..n /\ n \in Nat \ {0} /\ b \in Int
      /\ Within(n, work.size, work.at, work.calls, b)
  <2>1. work.size \in 1..n /\ work.at \in 1..n /\ Within(n, work.size, work.at, work.calls, b)
    BY <1>1, <1>3 DEF CallInv, Shape, AskInv
  <2>2. n \in 0..Len(work.posts) /\ Len(work.posts) \in Nat
    BY <1>5, BatchIs
  <2> HIDE DEF n
  <2>3. n \in Nat \ {0} /\ b \in Int
    BY <2>1, <2>2, <1>5
  <2> QED BY <2>1, <2>3
<1>8. ASSUME \/ /\ work'.pc = "judging" /\ work'.posts = work.posts
                /\ work'.asked = work.asked
                /\ work'.size \in 1..n /\ Within(n, work'.size, work'.at, work'.calls, b)
             \/ work'.pc # "judging" /\ work'.calls <= 3 * work'.asked
      PROVE  CallInv'
  <2>1. work'.posts = work.posts => BatchLen(work.posts)' = n
    BY <1>3 DEF BatchLen
  <2> QED BY <2>1, <1>8 DEF CallInv, CallsBounded, Within
<1> HIDE DEF n, b
<1>9. CASE w.at + w.size <= n /\ work' = [w EXCEPT !.at = @ + w.size]
  <2>1. /\ work'.pc = "judging" /\ work'.posts = work.posts /\ work'.asked = work.asked
        /\ work'.size = work.size /\ work'.at = work.at + work.size
        /\ work'.calls = work.calls + 1
    BY <1>3, <1>6, <1>9 DEF Work
  <2>2. Within(n, work.size, work.at + work.size, work.calls + 1, b)
    BY <1>5, <1>7, WithinGrows
  <2> QED BY <1>7, <1>8, <2>1, <2>2
<1>10. CASE /\ ~(w.at + w.size <= n) /\ w.size > 1
            /\ work' = [w EXCEPT !.size = Halved(@), !.at = 1, !.outcome = Nothing,
                                 !.receiptOf = <<>>]
  <2> DEFINE half == Halved(w.size)
  <2>1. half \in Nat \ {0} /\ half \in 1..n /\ 2 * half <= work.size /\ work.size \in 2..n
    BY <1>6, <1>7, <1>10, HalvedTwice
  <2>2. /\ work'.pc = "judging" /\ work'.posts = work.posts /\ work'.asked = work.asked
        /\ work'.size = half /\ work'.at = 1 /\ work'.calls = work.calls + 1
    BY <1>3, <1>6, <1>10 DEF Work
  <2> HIDE DEF half
  <2>3. work.at + work.size > n
    BY <1>6, <1>7, <1>10
  <2>4. Within(n, half, 1, work.calls + 1, b)
    BY <1>5, <1>7, <2>1, <2>3, WithinHalved
  <2> QED BY <1>8, <2>1, <2>2, <2>4
<1>11. CASE ~(w.at + w.size <= n) /\ work' = Settled(w)
  <2>1. work.at + work.size > n
    BY <1>6, <1>7, <1>11
  <2>2. work'.pc = "recording" /\ work'.calls = w.calls /\ work'.asked = w.asked
    <3>1. PartEnd = n
      <4>1. PartEnd = IF work.at + work.size - 1 <= n THEN work.at + work.size - 1 ELSE n
        BY DEF PartEnd, n
      <4> QED BY <4>1, <2>1, <1>7
    <3>2. Told(work.posts, Len(Batch), iter, Append(receipts, Call(reply)), w.outcome,
               w.receiptOf)
      BY <1>3, <3>1 DEF n
    <3> DEFINE s == Settled(w)
    <3>3. s = [w EXCEPT !.pc = "recording", !.todo = s.todo, !.accepted = s.accepted,
                        !.gaps = s.gaps]
      BY <1>3, <1>5, <3>2, SettledIs
    <3> HIDE DEF s
    <3>4. s.pc = "recording" /\ s.calls = w.calls /\ s.asked = w.asked
      BY <3>3, <1>3 DEF Work
    <3> QED BY <3>4, <1>11 DEF s
  <2>3. PICK j \in 0..(n - 1) : work.calls <= b + 3 * j
    <3>1. work.size \in Nat \ {0}
      BY <1>7
    <3>2. \E j \in 0..(n - 1) : /\ j * work.size \in Nat /\ j * work.size < n
                                /\ work.at + work.size > n => work.calls <= b + 3 * j
      BY <3>1, <1>5, <1>7, LastPart
    <3> QED BY <3>2, <2>1
  <2>4. work.calls + 1 <= 3 * work.asked
    <3>1. /\ j \in Int /\ j <= n - 1 /\ work.calls <= b + 3 * j
          /\ n \in Int /\ work.asked \in Int /\ work.calls \in Int
      BY <2>3, <1>5, <1>7
    <3>2. b = 3 * work.asked - 3 * n
      BY <3>1 DEF b
    <3> HIDE DEF b, n
    <3> QED BY <3>1, <3>2
  <2> QED BY <1>6, <1>8, <2>2, <2>4
<1> QED BY <1>4, <1>9, <1>10, <1>11

LEMMA CallsStep ==
  ASSUME Shape, CallInv, [Next]_vars
  PROVE  CallInv'
<1>1. work \in Work /\ work.calls \in Nat /\ work.asked \in Nat
  BY RecordFields DEF Shape, TypeInv
<1>2. ASSUME work.pc # "judging", work'.pc # "judging",
             work'.calls = work.calls, work'.asked = work.asked
      PROVE  CallInv'
  BY <1>2 DEF CallInv, CallsBounded
<1>3. ASSUME work'.pc # "judging", work'.calls = 0, work'.asked = 0
      PROVE  CallInv'
  BY <1>3 DEF CallInv, CallsBounded
<1>4. CASE EndGather
  <2>1. work.pc # "judging" /\ work' = NextBatch(work) /\ UNCHANGED payloads
    BY <1>4 DEF EndGather, world
  <2> QED BY <2>1, <1>1, CallsOfBatch DEF CallInv, CallsBounded
<1>5. CASE gather_for_retry
  <2> DEFINE gaps == uncovered_triage_decisions(work.parent)
             held == {i \in gaps : decisions[i].raw \in kept}
             w == [work EXCEPT !.posts = Retried(held)]
  <2>1. work.pc # "judging" /\ work' = NextBatch(w) /\ UNCHANGED payloads
    <3>1. work.pc = "gather" /\ work' = NextBatch(w) /\ UNCHANGED world
      BY <1>5, Zenon DEF gather_for_retry, Retried
    <3> QED BY <3>1 DEF world
  <2>2. Retried(held) \in Seq(Post)
    <3>1. held \in SUBSET (DOMAIN decisions)
      BY DEF uncovered_triage_decisions
    <3> QED BY <3>1, RetriedAre DEF Shape, TypeInv
  <2> HIDE DEF held
  <2>3. w \in Work /\ w.calls = work.calls /\ w.asked = work.asked
    BY <1>1, <2>2 DEF Work
  <2> HIDE DEF w
  <2> QED BY <2>1, <2>3, CallsOfBatch DEF CallInv, CallsBounded
<1>6. CASE EndBatch
  <2> DEFINE rest == SubSeq(work.posts, Len(Batch) + 1, Len(work.posts))
             w == [work EXCEPT !.posts = rest]
  <2>1. work.pc # "judging" /\ work' = NextBatch(w) /\ UNCHANGED payloads
    <3>1. work.pc = "recording" /\ work' = NextBatch(w) /\ UNCHANGED world
      BY <1>6, Zenon DEF EndBatch
    <3> QED BY <3>1 DEF world
  <2>2. rest \in Seq(Post)
    <3>1. work.posts \in Seq(Post)
      BY <1>1, RecordFields
    <3>2. Len(Batch) \in 0..Len(work.posts) /\ Len(work.posts) \in Nat
      BY <3>1, BatchIs
    <3>3. \A i \in (Len(Batch) + 1)..Len(work.posts) : work.posts[i] \in Post
      BY <3>1, <3>2
    <3> QED BY <3>1, <3>2, <3>3, SubSeqProperties
  <2> HIDE DEF rest
  <2>3. w \in Work /\ w.calls = work.calls /\ w.asked = work.asked
    BY <1>1, <2>2 DEF Work
  <2> HIDE DEF w
  <2> QED BY <2>1, <2>3, CallsOfBatch DEF CallInv, CallsBounded
<1>7. CASE gather
  BY <1>3, <1>7, GatherIs
<1>8. CASE insert_triage_skip \/ insert_triage_decision
  BY <1>2, <1>8, RowGives
<1>9. CASE admit_city \/ write_signal
  BY <1>2, <1>9, PlaceGives
<1>10. CASE Accepting
  BY <1>2, <1>10, AcceptingGives
<1>11. CASE EndStage
  BY <1>2, <1>11, CloseGives
<1>12. CASE Crash \/ Resume \/ prepare_retry_triage
  BY <1>3, <1>12, IdleGives
<1>13. CASE purge_expired_raw \/ Tick \/ UNCHANGED vars
  BY <1>13, AroundGives DEF CallInv, CallsBounded, Within, BatchLen
<1> QED BY <1>4, <1>5, <1>6, <1>7, <1>8, <1>9, <1>10, <1>11, <1>12, <1>13, CallsOfJudge DEF Next

\* Whatever the size of a batch and however often its parts are cut off and halved, it
\* costs no more than three calls for each of its posts (CallsBounded; triage.py
\* 149-184).
THEOREM CutsAreCheap == Spec => []CallsBounded
<1>1. Init => CallInv
  BY IdleIs DEF Init, CallInv, CallsBounded
<1>2. Shape /\ CallInv /\ [Next]_vars => CallInv'
  BY CallsStep
<1>3. Shape /\ CallInv => CallsBounded
  <2> SUFFICES ASSUME Shape, CallInv, work.pc = "judging" PROVE CallsBounded
    BY DEF CallInv
  <2> DEFINE n == BatchLen(work.posts)
             b == 3 * (work.asked - n)
  <2>1. work.posts \in Seq(Post) /\ work.calls \in Nat /\ work.asked \in Nat
    BY RecordFields DEF Shape, TypeInv
  <2>2. work.size \in 1..n /\ work.at \in 1..n /\ Within(n, work.size, work.at, work.calls, b)
    BY DEF CallInv, Shape, AskInv
  <2>3. n \in Nat
    BY <2>1, BoundsAssumption DEF BatchLen
  <2> HIDE DEF n
  <2>4. n \in Nat \ {0} /\ work.size \in Nat \ {0} /\ b \in Int
    BY <2>1, <2>2, <2>3
  <2>5. work.calls <= b + 3 * n
    BY <2>1, <2>2, <2>4, LastPart
  <2> QED BY <2>1, <2>3, <2>5 DEF CallsBounded
<1> QED BY <1>1, <1>2, <1>3, ShapeHolds, PTL DEF Spec

-----------------------------------------------------------------------------
(* Nothing that was collected is lost without a row.                       *)

IsCollected(u) ==
  \E r \in Raws : /\ payloads[r].kind = "list"
                  /\ \E k \in DOMAIN payloads[r].items :
                       payloads[r].items[k].kind = "post" /\ payloads[r].items[k].url = u

\* A post has a row, or is about to be written one, ...
HasRow(u) == \/ \E d \in Said : d.url = u
             \/ \E s \in Off : s.reason = "stale" /\ s.url = u

\* ... or is yet to be seen, to be asked about, or to be located.
Unseen == iter = 1 /\ work.pc \in {"gather", "interrupted"}
InHand(u) == iter = 1 /\ \/ u \in Pending
                         \/ /\ work.pc \notin {"accepting", "closed"}
                            /\ \E a \in AcceptedNow : a.post.url = u

CoverInv ==
  /\ \A u \in Urls : IsCollected(u) => HasRow(u) \/ Unseen \/ InHand(u)
  /\ \A r \in Raws : payloads[r].kind # "list" => WrittenOff(r) \/ Unseen

LEMMA CoverStays ==
  ASSUME CoverInv, payloads' = payloads, Said \subseteq Said', Off \subseteq Off',
         Unseen => Unseen',
         \A u \in Urls : InHand(u) => HasRow(u)' \/ Unseen' \/ InHand(u)'
  PROVE  CoverInv'
<1>1. Raws' = Raws
  BY DEF Raws
<1>2. \A u \in Urls : IsCollected(u)' = IsCollected(u)
  BY <1>1 DEF IsCollected
<1>3. \A u \in Urls : HasRow(u) => HasRow(u)'
  BY DEF HasRow
<1>4. \A r \in Raws : WrittenOff(r) => WrittenOff(r)'
  BY DEF WrittenOff
<1>5. \A u \in Urls : IsCollected(u)' => HasRow(u)' \/ Unseen' \/ InHand(u)'
  BY <1>2, <1>3 DEF CoverInv
<1>6. \A r \in Raws : payloads[r].kind # "list" => WrittenOff(r)' \/ Unseen'
  BY <1>4 DEF CoverInv
<1> HIDE DEF Unseen
<1> QED BY <1>1, <1>5, <1>6 DEF CoverInv

\* A run that starts again, or is over: it held nothing that was to be seen, or will
\* see it again.
LEMMA OffOf ==
  ASSUME Shape
  PROVE  /\ iter # 1 => Said = {d \in ToSet(decisions) : d.iter = 1}
         /\ iter # 1 => Off = {s \in ToSet(skips) : s.iter = 1}
         /\ work.todo = <<>> => Said = {d \in ToSet(decisions) : d.iter = 1}
         /\ work.todo = <<>> => Off = {s \in ToSet(skips) : s.iter = 1}
         /\ work.pc # "skipping" => Off = {s \in ToSet(skips) : s.iter = 1}
<1>1. \A d \in ToSet(work.todo) : d.iter = iter
  BY DEF Shape, TodoInv
<1>2. work.todo = <<>> => ToSet(work.todo) = {}
  BY ToSetOfEmpty
<1> QED BY <1>1, <1>2 DEF Said, Todo, Off

LEMMA CoverOfIdle ==
  ASSUME Shape, CoverInv, \/ Crash \/ Resume \/ prepare_retry_triage
  PROVE  CoverInv'
<1>1. /\ work'.pc \in {"gather", "interrupted"} /\ work'.todo = <<>>
      /\ work'.accepted = <<>> /\ UNCHANGED <<skips, decisions, payloads>>
  BY IdleGives
<1>2. /\ Said' = {d \in ToSet(decisions) : d.iter = 1}
      /\ Off' = {s \in ToSet(skips) : s.iter = 1}
  <2>1. Todo' = {} /\ work'.pc # "skipping"
    BY <1>1, ToSetOfEmpty DEF Todo
  <2> QED BY <2>1, <1>1 DEF Said, Off
<1>3. CASE iter = 1 /\ iter' = 1
  <2>1. Unseen'
    BY <1>1, <1>3 DEF Unseen
  <2> QED BY <2>1 DEF CoverInv
<1>4. CASE iter # 1
  BY <1>1, <1>2, <1>4, OffOf, CoverStays DEF Unseen, InHand
<1>5. CASE iter = 1 /\ iter' # 1
  <2>1. work.pc = "closed"
    BY <1>5 DEF Crash, Resume, prepare_retry_triage, world
  <2>2. work.todo = <<>> /\ work.posts = <<>>
    BY <2>1 DEF Shape, TodoInv, PhaseInv
  <2>3. Pending = {}
    <3>1. Pending = UrlsOf(<<>>, 1, Len(<<>>)) /\ Len(<<>>) = 0
      BY <2>1, <2>2 DEF Pending
    <3> QED BY <3>1 DEF UrlsOf
  <2>4. ~Unseen /\ \A u \in Urls : ~InHand(u)
    BY <2>1, <2>3 DEF Unseen, InHand
  <2> QED BY <1>1, <1>2, <2>2, <2>4, OffOf, CoverStays
<1> QED BY <1>3, <1>4, <1>5

LEMMA CoverOfRow ==
  ASSUME Shape, CoverInv, insert_triage_skip \/ insert_triage_decision
  PROVE  CoverInv'
<1>1. /\ work'.pc = work.pc /\ work'.posts = work.posts /\ work'.todo = Tail(work.todo)
      /\ work'.accepted = work.accepted /\ UNCHANGED <<payloads, iter>>
      /\ \/ /\ work.pc = "skipping" /\ decisions' = decisions
            /\ ToSet(skips') = ToSet(skips) \cup {Head(work.todo)}
            /\ ToSet(work.todo) = {Head(work.todo)} \cup ToSet(Tail(work.todo))
         \/ /\ work.pc \in {"recording", "accepting"} /\ skips' = skips
            /\ ToSet(decisions') = ToSet(decisions) \cup {Head(work.todo)}
            /\ ToSet(work.todo) = {Head(work.todo)} \cup ToSet(Tail(work.todo))
  BY RowGives
<1>2. Said' = Said /\ Off' = Off
  BY <1>1 DEF Said, Todo, Off
<1>3. Pending' = Pending /\ AcceptedNow' = AcceptedNow
  BY <1>1 DEF Pending, Batch, AcceptedNow
<1> QED BY <1>1, <1>2, <1>3, CoverStays DEF Unseen, InHand

LEMMA CoverOfCities ==
  ASSUME Shape, CoverInv, admit_city \/ write_signal \/ EndStage
  PROVE  CoverInv'
<1>1. /\ work.pc \in {"admitting", "locating", "accepting"} /\ work.todo = <<>>
      /\ work'.pc \in {"admitting", "locating", "closed"}
      /\ work'.pc = "closed" => work.pc = "accepting"
      /\ work'.todo = <<>> /\ work'.accepted = work.accepted
      /\ UNCHANGED <<skips, decisions, payloads, iter>>
  <2>1. CASE admit_city \/ write_signal
    <3>1. /\ work.pc \in {"admitting", "locating"} /\ work'.pc \in {"admitting", "locating"}
          /\ work.todo = <<>> /\ work'.todo = <<>> /\ work'.accepted = work.accepted
          /\ UNCHANGED <<skips, decisions, payloads, iter>>
      BY <2>1, PlaceGives
    <3> QED BY <3>1
  <2>2. CASE EndStage
    <3>1. /\ work.pc = "accepting" /\ work'.pc = "closed" /\ work.todo = <<>>
          /\ work'.todo = <<>> /\ work'.accepted = work.accepted
          /\ UNCHANGED <<skips, decisions, payloads, iter>>
      BY <2>2, CloseGives
    <3> QED BY <3>1
  <2> QED BY <2>1, <2>2
<1>2. work.posts = <<>>
  BY <1>1 DEF Shape, PhaseInv
<1>3. Pending = {}
  <2>1. Pending = UrlsOf(<<>>, 1, Len(<<>>)) /\ Len(<<>>) = 0
    BY <1>1, <1>2 DEF Pending
  <2> QED BY <2>1 DEF UrlsOf
<1>4. Said' = Said /\ Off' = Off /\ AcceptedNow' = AcceptedNow
  <2>1. Todo = {} /\ Todo' = {}
    BY <1>1, ToSetOfEmpty DEF Todo
  <2> QED BY <2>1, <1>1 DEF Said, Off, AcceptedNow
<1> QED BY <1>1, <1>3, <1>4, CoverStays DEF Unseen, InHand

LEMMA CoverOfAccepting ==
  ASSUME Shape, CoverInv, Accepting
  PROVE  CoverInv'
<1>1. /\ work.pc = "admitting" /\ work'.pc = "accepting" /\ work.todo = <<>>
      /\ work'.todo = AcceptedRows /\ work.posts = <<>>
      /\ work'.accepted = work.accepted /\ UNCHANGED <<skips, decisions, payloads, iter>>
  BY AcceptingGives
<1>2. /\ ToSet(AcceptedRows) = {Acceptedly(work.accepted[i]) : i \in Final}
      /\ \A i \in Final : work.accepted[i] \in AcceptedNow
  BY AcceptedRowsAre DEF AcceptedNow
<1>3. Said \subseteq Said' /\ Off \subseteq Off' /\ ToSet(AcceptedRows) \subseteq Todo'
  <2>1. Said = {d \in ToSet(decisions) : d.iter = 1}
    BY <1>1, SaidOf
  <2> QED BY <2>1, <1>1 DEF Said, Todo, Off
<1>4. Pending = {}
  <2>1. Pending = UrlsOf(<<>>, 1, Len(<<>>)) /\ Len(<<>>) = 0
    BY <1>1 DEF Pending
  <2> QED BY <2>1 DEF UrlsOf
<1>5. ASSUME NEW u \in Urls, InHand(u) PROVE HasRow(u)'
  <2> DEFINE a == work.accepted
             same == {i \in DOMAIN a : a[i].post.url = u}
  <2>1. iter = 1 /\ \E e \in AcceptedNow : e.post.url = u
    BY <1>4, <1>5 DEF InHand
  <2>2. a \in Seq(Entry)
    BY RecordFields DEF Shape, TypeInv
  <2>3. /\ same \in SUBSET Int /\ IsFiniteSet(same) /\ same # {}
        /\ DOMAIN a = 1..Len(a) /\ Len(a) \in Nat
    <3>1. DOMAIN a = 1..Len(a) /\ Len(a) \in Nat
      BY <2>2
    <3>2. IsFiniteSet(1..Len(a))
      BY <3>1, FS_Interval
    <3>3. same \in SUBSET (1..Len(a))
      BY <3>1
    <3>4. IsFiniteSet(same)
      BY <3>2, <3>3, FS_Subset
    <3>5. same # {}
      BY <2>1 DEF AcceptedNow, ToSet
    <3> QED BY <3>1, <3>3, <3>4, <3>5
  <2>4. PICK i \in same : \A j \in same : j <= i
    <3> HIDE DEF same
    <3> QED BY <2>3, LatestExists
  <2>5. i \in Final
    <3>1. i \in DOMAIN a /\ a[i].post.url = u
      BY <2>4
    <3>2. ASSUME NEW j \in i + 1..Len(a), a[j].post.url = u PROVE FALSE
      <4>1. j \in DOMAIN a /\ j > i
        BY <2>3, <3>1
      <4>2. j \in same
        BY <4>1, <3>2
      <4> QED BY <4>1, <4>2, <2>3, <2>4
    <3> QED BY <3>1, <3>2 DEF Final
  <2>6. Acceptedly(a[i]) \in ToSet(AcceptedRows) /\ a[i] \in ToSet(work.accepted)
    BY <1>2, <2>5 DEF AcceptedNow
  <2>7. Acceptedly(a[i]).url = a[i].post.url /\ Acceptedly(a[i]).iter = iter
    BY <2>6, AcceptedlyIs
  <2>8. Acceptedly(a[i]) \in Said' /\ Acceptedly(a[i]).url = u
    BY <1>3, <2>1, <2>4, <2>6, <2>7 DEF Said
  <2> QED BY <2>8 DEF HasRow
<1>6. ~Unseen
  BY <1>1 DEF Unseen
<1> QED BY <1>1, <1>3, <1>5, <1>6, CoverStays

LEMMA CoverOfBatch ==
  ASSUME Shape, CoverInv, \/ EndGather \/ gather_for_retry \/ EndBatch
  PROVE  CoverInv'
<1>1. /\ work'.pc \in {"judging", "admitting"} /\ work'.todo = <<>> /\ work.todo = <<>>
      /\ work'.accepted = work.accepted
      /\ UNCHANGED <<skips, decisions, payloads, iter>>
      /\ \/ work.pc = "skipping" /\ work'.posts = work.posts
         \/ work.pc = "gather" /\ iter # 1
         \/ /\ work.pc = "recording"
            /\ work'.posts = SubSeq(work.posts, Len(Batch) + 1, Len(work.posts))
  BY BatchGives
<1>2. Said' = Said /\ Off' = Off /\ AcceptedNow' = AcceptedNow
  <2>1. Todo = {} /\ Todo' = {} /\ ToSet(work.todo) = {}
    BY <1>1, ToSetOfEmpty DEF Todo
  <2> QED BY <2>1, <1>1 DEF Said, Off, AcceptedNow
<1>3. ASSUME work.pc = "recording",
             work'.posts = SubSeq(work.posts, Len(Batch) + 1, Len(work.posts))
      PROVE  Pending \subseteq Pending'
  <2> DEFINE posts == work.posts
             n == Len(Batch)
             m == Len(posts)
             rest == SubSeq(posts, n + 1, m)
  <2>1. posts \in Seq(Post) /\ n \in 0..m /\ m \in Nat
    BY RecordFields, BatchIs DEF Shape, TypeInv
  <2>2. /\ Len(rest) = IF n + 1 <= m THEN m - (n + 1) + 1 ELSE 0
        /\ \A i \in 1..(m - (n + 1) + 1) : rest[i] = posts[n + 1 + i - 1]
    <3>1. \A i \in (n + 1)..m : posts[i] \in Post
      BY <2>1
    <3>2. n + 1 \in Int /\ m \in Int
      BY <2>1
    <3> HIDE DEF n, m, posts
    <3> QED BY <2>1, <3>1, <3>2, SubSeqProperties
  <2>3. Pending' = UrlsOf(rest, 1, Len(rest))
    BY <1>1, <1>3 DEF Pending
  <2>4. Pending = UrlsOf(posts, n + 1, m)
    BY <1>3 DEF Pending
  <2> HIDE DEF n, m, posts, rest
  <2>5. ASSUME NEW i \in (n + 1)..m
        PROVE  i - n \in 1..Len(rest) /\ rest[i - n] = posts[i]
    <3>1. i - n \in 1..(m - (n + 1) + 1) /\ n + 1 + (i - n) - 1 = i
      BY <2>1
    <3>2. i - n \in 1..Len(rest)
      BY <3>1, <2>1, <2>2
    <3> QED BY <3>1, <3>2, <2>2
  <2> QED BY <2>3, <2>4, <2>5 DEF UrlsOf
<1>4. ASSUME NEW u \in Urls, InHand(u) PROVE InHand(u)'
  <2>1. ASSUME work.pc = "skipping", work'.posts = work.posts PROVE Pending' = Pending
    BY <1>1, <2>1 DEF Pending
  <2> QED BY <1>1, <1>2, <1>3, <1>4, <2>1 DEF InHand
<1>5. CASE iter = 1 /\ work.pc = "gather"
  BY <1>1, <1>5
<1>6. CASE ~Unseen
  BY <1>1, <1>2, <1>4, <1>6, CoverStays
<1> QED BY <1>1, <1>5, <1>6 DEF Unseen

LEMMA CoverOfJudge ==
  ASSUME Shape, CoverInv, judge
  PROVE  CoverInv'
<1>1. /\ work.pc = "judging" /\ work.todo = <<>> /\ iter' = iter
      /\ UNCHANGED <<skips, decisions, payloads>> /\ work'.posts = work.posts
      /\ \/ /\ work'.pc = "judging" /\ work'.todo = <<>> /\ work'.accepted = work.accepted
         \/ /\ work'.pc = "recording"
            /\ \E o \in Outcome, ro \in Partial(Urls, Nat) :
                 /\ Told(work.posts, Len(Batch), iter, receipts', o, ro)
                 /\ ToSet(work'.todo) = SettledRows(o, ro)
                 /\ ToSet(work'.accepted) = ToSet(work.accepted) \cup Acceptances(o, ro)
  BY JudgeGives
<1>2. Said = {d \in ToSet(decisions) : d.iter = 1} /\ ~Unseen
  BY <1>1, SaidOf DEF Unseen
<1>3. Said \subseteq Said' /\ Off \subseteq Off'
  BY <1>1, <1>2 DEF Said, Off
<1>4. CASE work'.pc = "judging" /\ work'.todo = <<>> /\ work'.accepted = work.accepted
  <2>1. Pending' = Pending /\ AcceptedNow' = AcceptedNow
    BY <1>1, <1>4 DEF Pending, AcceptedNow
  <2> QED BY <1>1, <1>2, <1>3, <1>4, <2>1, CoverStays DEF InHand
<1>5. CASE /\ work'.pc = "recording"
           /\ \E o \in Outcome, ro \in Partial(Urls, Nat) :
                /\ Told(work.posts, Len(Batch), iter, receipts', o, ro)
                /\ ToSet(work'.todo) = SettledRows(o, ro)
                /\ ToSet(work'.accepted) = ToSet(work.accepted) \cup Acceptances(o, ro)
  <2>1. PICK o \in Outcome, ro \in Partial(Urls, Nat) :
          /\ Told(work.posts, Len(Batch), iter, receipts', o, ro)
          /\ ToSet(work'.todo) = SettledRows(o, ro)
          /\ ToSet(work'.accepted) = ToSet(work.accepted) \cup Acceptances(o, ro)
    BY <1>5
  <2> DEFINE posts == work.posts
             n == Len(Batch)
             m == Len(posts)
             batch == UrlsOf(posts, 1, n)
             rest == UrlsOf(posts, n + 1, m)
  <2>2. posts \in Seq(Post) /\ n \in 0..m /\ m \in Nat
    BY RecordFields, BatchIs DEF Shape, TypeInv
  <2>3. Pending = UrlsOf(posts, 1, m) /\ Pending' = rest
    <3>1. Batch' = Batch
      BY <1>1 DEF Batch
    <3> QED BY <3>1, <1>1, <1>5 DEF Pending
  <2>4. Pending \subseteq batch \cup rest
    <3>1. 1..m \subseteq 1..n \cup (n + 1)..m
      <4> HIDE DEF n, m
      <4> QED BY <2>2
    <3> QED BY <3>1, <2>3 DEF UrlsOf
  <2>5. AcceptedNow \subseteq AcceptedNow' /\ Acceptances(o, ro) \subseteq AcceptedNow'
    BY <2>1 DEF AcceptedNow
  <2>6. ASSUME NEW u \in batch, iter = 1 PROVE HasRow(u)' \/ InHand(u)'
    <3>1. u \in ToSet(o.faults) \/ u \in ToSet(o.missing) \/ u \in DOMAIN o.valid
      BY <2>1 DEF Told
    <3>2. iter \in Iterations /\ ro[u] \in Nat
      BY <2>1, PartialHas DEF Told, Shape, TypeInv
    <3>3. ASSUME NEW state \in States, Fate(u, state, ro) \in SettledRows(o, ro)
          PROVE  HasRow(u)'
      <4>1. Fate(u, state, ro).url = u /\ Fate(u, state, ro).iter = iter
        BY <2>2, <3>2, FateIs
      <4>2. Fate(u, state, ro) \in Said'
        BY <1>5, <2>1, <2>6, <3>3, <4>1 DEF Said, Todo
      <4> QED BY <4>1, <4>2 DEF HasRow
    <3>4. "INVALID_OUTPUT" \in States /\ "REJECTED" \in States /\ Loss(o) \in States
      BY DEF Loss, States, Uncovered
    <3>5. CASE u \in ToSet(o.faults)
      BY <3>3, <3>4, <3>5 DEF SettledRows
    <3>6. CASE u \in ToSet(o.missing)
      BY <3>3, <3>4, <3>6 DEF SettledRows
    <3>7. CASE u \in DOMAIN o.valid
      <4>1. o.valid[u] \in Judgements
        BY <3>7, PartialHas DEF Outcome
      <4>2. o.valid[u].is \in {"relevant", "irrelevant"}
        BY <4>1, JudgementFields
      <4>3. CASE o.valid[u].is = "irrelevant"
        BY <3>3, <3>4, <3>7, <4>3 DEF SettledRows, Judged
      <4>4. CASE o.valid[u].is = "relevant"
        <5>1. Acceptance(u, o, ro) \in Acceptances(o, ro)
          BY <3>7, <4>4 DEF Acceptances, Judged
        <5>2. Acceptance(u, o, ro).post.url = u
          BY <2>2, PostOfIs DEF Acceptance
        <5> QED BY <5>1, <5>2, <2>5, <2>6, <1>1, <1>5 DEF InHand
      <4> QED BY <4>2, <4>3, <4>4
    <3> QED BY <3>1, <3>5, <3>6, <3>7
  <2>7. ASSUME NEW u \in Urls, InHand(u) PROVE HasRow(u)' \/ InHand(u)'
    BY <1>1, <1>5, <2>3, <2>4, <2>5, <2>6, <2>7 DEF InHand
  <2> QED BY <1>1, <1>2, <1>3, <2>7, CoverStays
<1> QED BY <1>1, <1>4, <1>5

LEMMA FirstExists ==
  ASSUME payloads \in Responses, NEW p \in Posts
  PROVE  \E q \in Firsts : q \in Posts /\ Item(q).url = Item(p).url
<1> DEFINE copies == {q \in Posts : Item(q).url = Item(p).url}
           below == [x \in copies |-> {y \in copies : Before(y, x)}]
<1>1. IsFiniteSet(Posts) /\ Posts \in SUBSET (Int \X Int)
  BY PostsAre
<1>2. copies \in SUBSET Posts /\ p \in copies
  OBVIOUS
<1>3. IsFiniteSet(copies) /\ copies \in SUBSET (Int \X Int) /\ copies # {}
  BY <1>1, <1>2, FS_Subset
<1>4. \A x, y \in copies : y \in below[x] <=> Before(y, x)
  OBVIOUS
<1>5. StrictOrder(copies, below)
  <2> HIDE DEF copies
  <2> QED BY <1>3, PlacesOrdered
<1>6. PICK q \in copies : below[q] = {}
  <2> HIDE DEF copies, below
  <2> QED BY <1>3, <1>5, LowestExists
<1>7. q \in Posts /\ Item(q).url = Item(p).url
  BY <1>6
<1>8. \A x \in Posts : Before(x, q) => Item(x).url # Item(q).url
  <2> SUFFICES ASSUME NEW x \in Posts, Before(x, q), Item(x).url = Item(q).url PROVE FALSE
    OBVIOUS
  <2>1. x \in copies
    BY <1>7
  <2> HIDE DEF copies, below
  <2> QED BY <2>1, <1>4, <1>6
<1> QED BY <1>7, <1>8 DEF Firsts

LEMMA CoverOfGather ==
  ASSUME Shape, CoverInv, gather
  PROVE  CoverInv'
<1>1. /\ work'.pc = "skipping" /\ work'.todo = Refusals \o AgedOut /\ work'.posts = Gathered
      /\ work.pc = "gather" /\ UNCHANGED <<rows, world>>
  BY GatherIs DEF gather
<1>2. UNCHANGED <<decisions, skips, notes, payloads, iter>>
  BY <1>1 DEF rows, world
<1>3. work.todo = <<>> /\ work.posts = <<>> /\ work.accepted = <<>>
  <2> DEFINE parent == work.parent
  <2>1. work = [Idle("gather") EXCEPT !.parent = parent]
    BY <1>1 DEF Shape, PhaseInv
  <2> HIDE DEF parent
  <2> QED BY <2>1 DEF Idle
<1>4. /\ Said = {d \in ToSet(decisions) : d.iter = 1} /\ Off = {s \in ToSet(skips) : s.iter = 1}
      /\ Said' = Said /\ Off' = Off \cup {s \in ToSet(Refusals \o AgedOut) : s.iter = 1}
  <2>1. Said = {d \in ToSet(decisions) : d.iter = 1} /\ Off = {s \in ToSet(skips) : s.iter = 1}
    BY <1>3, OffOf
  <2>2. Todo' = {}
    BY <1>1 DEF Todo
  <2> QED BY <2>1, <2>2, <1>1, <1>2 DEF Said, Off
<1>5. payloads \in Responses /\ iter \in Iterations
  BY DEF Shape, TypeInv
<1>6. ToSet(Refusals \o AgedOut) = {Refusal(p) : p \in Refused} \cup {Aged(p) : p \in Outdated}
  BY <1>5, SkipsAre
<1>7. CASE iter # 1
  <2>1. ~Unseen /\ \A u \in Urls : ~InHand(u)
    BY <1>7 DEF Unseen, InHand
  <2> QED BY <1>2, <1>4, <2>1, CoverStays
<1>8. CASE iter = 1
  <2>1. ASSUME NEW r \in Raws, payloads[r].kind # "list"
        PROVE  WrittenOff(r)'
    <3> DEFINE p == <<r, 0>>
    <3>1. p[1] = r /\ p[2] = 0 /\ p \in Places
      BY <1>8, <2>1 DEF Places
    <3> HIDE DEF p
    <3>2. Kind(p) = payloads[r].kind
      BY <3>1 DEF Kind
    <3>3. p \in Structural
      <4>1. payloads[r].kind # "post"
        BY <1>5, PayloadsAre
      <4> QED BY <3>1, <3>2, <4>1 DEF Structural
    <3>4. Refusal(p).iter = 1 /\ Refusal(p).raw = r /\ Refusal(p).reason = payloads[r].kind
      BY <1>5, <1>8, <3>1, <3>2, <3>3, RefusalIs
    <3>5. payloads[r].kind # "stale"
      BY <1>5, <2>1, PayloadsAre
    <3>6. CASE Recorded(Refusal(p))
      <4>1. PICK i \in DOMAIN skips : /\ skips[i].iter = iter /\ skips[i].raw = r
                                      /\ skips[i].reason = payloads[r].kind
        BY <3>6, <3>4, <3>5 DEF Recorded
      <4>2. skips[i] \in ToSet(skips)
        BY DEF ToSet
      <4>3. skips[i] \in Off'
        BY <4>1, <4>2, <1>8, <1>4
      <4> QED BY <4>1, <4>3, <1>2 DEF WrittenOff
    <3>7. CASE ~Recorded(Refusal(p))
      <4>1. p \in Refused
        BY <3>7, <3>3 DEF Refused
      <4>2. Refusal(p) \in Off'
        BY <4>1, <1>4, <1>6, <3>4
      <4> QED BY <4>2, <3>4, <1>2 DEF WrittenOff
    <3> QED BY <3>6, <3>7
  <2>2. ASSUME NEW u \in Urls, IsCollected(u)
        PROVE  HasRow(u)' \/ InHand(u)'
    <3>0. PICK r \in Raws :
            /\ payloads[r].kind = "list"
            /\ \E k \in DOMAIN payloads[r].items :
                 payloads[r].items[k].kind = "post" /\ payloads[r].items[k].url = u
      BY <2>2 DEF IsCollected
    <3>1. PICK k \in DOMAIN payloads[r].items :
            /\ payloads[r].kind = "list"
            /\ payloads[r].items[k].kind = "post" /\ payloads[r].items[k].url = u
      BY <3>0
    <3> DEFINE p == <<r, k>>
    <3>2. p \in Places /\ p[1] = r /\ p[2] = k
      <4>1. p \in {r} \X DOMAIN payloads[r].items
        OBVIOUS
      <4> QED BY <4>1, <1>8, <3>1 DEF Places
    <3> HIDE DEF p
    <3>3. k # 0
      <4>1. DOMAIN payloads[r].items = 1..Len(payloads[r].items)
        BY <1>5, PayloadsAre
      <4> QED BY <4>1
    <3>4. Item(p).url = u /\ Kind(p) = "post"
      BY <3>1, <3>2, <3>3 DEF Item, Kind
    <3>5. CASE u \in triaged_urls
      <4>1. PICK i \in DOMAIN decisions : decisions[i].iter = iter /\ decisions[i].url = u
        BY <3>5 DEF triaged_urls
      <4>2. decisions[i] \in Said
        BY <4>1, <1>4, <1>8 DEF ToSet
      <4> QED BY <4>1, <4>2, <1>4 DEF HasRow
    <3>6. CASE u \notin triaged_urls
      <4>1. p \in Posts
        BY <3>2, <3>4, <3>6 DEF Posts
      <4>2. PICK q \in Firsts : q \in Posts /\ Item(q).url = u
        BY <1>5, <3>4, <4>1, FirstExists
      <4>3. CASE Stale(Chosen(q)) /\ Recorded(Aged(q))
        <5>1. Aged(q).reason = "stale" /\ Aged(q).url = u /\ Aged(q).iter = iter
          BY <1>5, <4>2, AgedIs
        <5>2. PICK i \in DOMAIN skips : /\ skips[i].iter = iter /\ skips[i].reason = "stale"
                                        /\ skips[i].url = u
          BY <4>3, <5>1 DEF Recorded
        <5>3. skips[i] \in Off'
          BY <5>2, <1>4, <1>8 DEF ToSet
        <5> QED BY <5>2, <5>3 DEF HasRow
      <4>4. CASE Stale(Chosen(q)) /\ ~Recorded(Aged(q))
        <5>1. q \in Outdated
          BY <4>2, <4>4 DEF Outdated
        <5>2. Aged(q).reason = "stale" /\ Aged(q).url = u /\ Aged(q).iter = 1
          BY <1>5, <1>8, <4>2, AgedIs
        <5>3. Aged(q) \in Off'
          BY <5>1, <5>2, <1>4, <1>6
        <5> QED BY <5>2, <5>3 DEF HasRow
      <4>5. CASE ~Stale(Chosen(q))
        <5>1. q \in Fresh
          BY <4>2, <4>5 DEF Fresh
        <5>2. Gathered \in Seq(Post) /\ ToSet(Gathered) = {Chosen(x) : x \in Fresh}
          BY <1>5, GatheredAre
        <5>3. Chosen(q) \in ToSet(Gathered) /\ Chosen(q).url = u
          BY <1>5, <4>2, <5>1, <5>2, ChosenIs
        <5>4. u \in UrlsOf(Gathered, 1, Len(Gathered))
          <6>1. DOMAIN Gathered = 1..Len(Gathered)
            BY <5>2, LenProperties
          <6> QED BY <5>3, <6>1 DEF UrlsOf, ToSet
        <5>5. u \in Pending'
          BY <5>4, <1>1 DEF Pending
        <5> QED BY <5>5, <1>2, <1>8 DEF InHand
      <4> QED BY <4>3, <4>4, <4>5
    <3> QED BY <3>5, <3>6
  <2>3. Raws' = Raws /\ \A u \in Urls : IsCollected(u)' = IsCollected(u)
    BY <1>2 DEF Raws, IsCollected
  <2> QED BY <1>2, <2>1, <2>2, <2>3 DEF CoverInv
<1> QED BY <1>7, <1>8

LEMMA CoverStep ==
  ASSUME Shape, CoverInv, [Next]_vars
  PROVE  CoverInv'
<1>1. CASE purge_expired_raw \/ Tick \/ UNCHANGED vars
  <2>1. UNCHANGED <<decisions, skips, payloads, work, iter>>
    BY <1>1, AroundGives DEF rows
  <2>2. Said' = Said /\ Off' = Off /\ Pending' = Pending /\ AcceptedNow' = AcceptedNow
    BY <2>1 DEF Said, Todo, Off, Pending, Batch, AcceptedNow
  <2> QED BY <2>1, <2>2, CoverStays DEF Unseen, InHand
<1> QED BY <1>1, CoverOfGather, CoverOfRow, CoverOfBatch, CoverOfJudge, CoverOfCities,
           CoverOfAccepting, CoverOfIdle DEF Next

-----------------------------------------------------------------------------
(* Nothing is written off twice.                                           *)

Structures == {"no url", "no object", "unparseable", "not a list"}

\* Where a payload may be written off: once as a whole, or at each of its items.
Slots(r, reason) == IF payloads[r].kind # "list" THEN {0}
                    ELSE {k \in DOMAIN payloads[r].items : payloads[r].items[k].kind = reason}

AllSkips == skips \o (IF work.pc = "skipping" THEN work.todo ELSE <<>>)

Marks(s, reason, r) ==
  {k \in DOMAIN s : s[k].iter = 1 /\ s[k].reason = reason /\ s[k].raw = r}

OnceInv == \A r \in Raws, reason \in Structures :
             Cardinality(Marks(AllSkips, reason, r)) <= Cardinality(Slots(r, reason))

LEMMA ConcatIs ==
  ASSUME NEW S, NEW s \in Seq(S), NEW t \in Seq(S)
  PROVE  /\ s \o t \in Seq(S) /\ Len(s \o t) = Len(s) + Len(t)
         /\ DOMAIN (s \o t) = 1..(Len(s) + Len(t)) /\ DOMAIN s = 1..Len(s)
         /\ DOMAIN t = 1..Len(t) /\ Len(s) \in Nat /\ Len(t) \in Nat
         /\ \A i \in 1..Len(s) : (s \o t)[i] = s[i]
         /\ \A i \in Len(s) + 1..Len(s) + Len(t) : (s \o t)[i] = t[i - Len(s)]
<1>1. /\ s \o t \in Seq(S) /\ Len(s \o t) = Len(s) + Len(t)
      /\ \A i \in 1..Len(s) + Len(t) :
           (s \o t)[i] = IF i <= Len(s) THEN s[i] ELSE t[i - Len(s)]
  BY ConcatProperties
<1>2. Len(s) \in Nat /\ Len(t) \in Nat /\ DOMAIN s = 1..Len(s) /\ DOMAIN t = 1..Len(t)
  OBVIOUS
<1>3. DOMAIN (s \o t) = 1..(Len(s) + Len(t))
  BY <1>1, LenProperties
<1> DEFINE st == s \o t
<1> HIDE DEF st
<1>4. \A i \in 1..Len(s) + Len(t) : st[i] = IF i <= Len(s) THEN s[i] ELSE t[i - Len(s)]
  BY <1>1 DEF st
<1>5. /\ \A i \in 1..Len(s) : st[i] = s[i]
      /\ \A i \in Len(s) + 1..Len(s) + Len(t) : st[i] = t[i - Len(s)]
  BY <1>2, <1>4
<1> QED BY <1>1, <1>2, <1>3, <1>5 DEF st

LEMMA ConcatNothing ==
  ASSUME NEW S, NEW s \in Seq(S)
  PROVE  s \o <<>> = s
BY ConcatEmptySeq

\* What is written of what there was to write is the same altogether.
LEMMA ConcatTail ==
  ASSUME NEW S, NEW s \in Seq(S), NEW t \in Seq(S), t # <<>>
  PROVE  Append(s, Head(t)) \o Tail(t) = s \o t
<1>1. /\ Head(t) \in S /\ Tail(t) \in Seq(S) /\ t = <<Head(t)>> \o Tail(t)
  <2>1. Head(t) \in S /\ Tail(t) \in Seq(S)
    BY HeadTailProperties
  <2>2. t = <<Head(t)>> \o Tail(t)
    BY ConcatProperties, HeadTailProperties
  <2> QED BY <2>1, <2>2
<1>2. Append(s, Head(t)) = s \o <<Head(t)>>
  BY <1>1, AppendIsConcat
<1>3. (s \o <<Head(t)>>) \o Tail(t) = s \o (<<Head(t)>> \o Tail(t))
  <2>1. <<Head(t)>> \in Seq(S)
    BY <1>1
  <2> QED BY <2>1, <1>1, ConcatAssociative
<1> QED BY <1>1, <1>2, <1>3

LEMMA MarksAre ==
  ASSUME NEW s \in Seq(SkipRow), NEW t \in Seq(SkipRow), NEW reason, NEW r
  PROVE  /\ IsFiniteSet(Marks(s, reason, r)) /\ IsFiniteSet(Marks(s \o t, reason, r))
         /\ Marks(s, reason, r) \subseteq Marks(s \o t, reason, r)
         /\ Cardinality(Marks(s, reason, r)) \in Nat
         /\ Cardinality(Marks(s, reason, r)) <= Cardinality(Marks(s \o t, reason, r))
         /\ Marks(t, reason, r) = {} => Marks(s \o t, reason, r) = Marks(s, reason, r)
         /\ Marks(s, reason, r) = {} =>
              Cardinality(Marks(s \o t, reason, r)) <= Cardinality(Marks(t, reason, r))
<1> DEFINE st == s \o t
           m == Len(s)
           n == Len(t)
<1>1. /\ DOMAIN st = 1..(m + n) /\ DOMAIN s = 1..m /\ DOMAIN t = 1..n
      /\ m \in Nat /\ n \in Nat
      /\ \A i \in 1..m : st[i] = s[i]
      /\ \A i \in m + 1..m + n : st[i] = t[i - m]
  BY ConcatIs
<1> HIDE DEF st, m, n
<1> DEFINE S == Marks(s, reason, r)
           T == Marks(t, reason, r)
           ST == Marks(st, reason, r)
<1>2. /\ S = {k \in 1..m : s[k].iter = 1 /\ s[k].reason = reason /\ s[k].raw = r}
      /\ T = {k \in 1..n : t[k].iter = 1 /\ t[k].reason = reason /\ t[k].raw = r}
      /\ ST = {k \in 1..(m + n) : st[k].iter = 1 /\ st[k].reason = reason /\ st[k].raw = r}
  BY <1>1 DEF Marks
<1> HIDE DEF S, T, ST
<1>3. IsFiniteSet(S) /\ IsFiniteSet(T) /\ IsFiniteSet(ST)
  <2>1. IsFiniteSet(1..m) /\ IsFiniteSet(1..n) /\ IsFiniteSet(1..(m + n))
    BY <1>1, FS_Interval
  <2>2. S \in SUBSET (1..m) /\ T \in SUBSET (1..n) /\ ST \in SUBSET (1..(m + n))
    BY <1>2
  <2> QED BY <2>1, <2>2, FS_Subset
<1>4. S \subseteq ST
  BY <1>1, <1>2
<1>5. Cardinality(S) \in Nat /\ Cardinality(S) <= Cardinality(ST)
  BY <1>3, <1>4, FS_Subset, FS_CardinalityType
<1>6. \A k \in ST : k \in S \/ (k - m \in T /\ k \in Int)
  <2> SUFFICES ASSUME NEW k \in ST, k \notin S PROVE k - m \in T /\ k \in Int
    OBVIOUS
  <2>1. k \in 1..(m + n) /\ st[k].iter = 1 /\ st[k].reason = reason /\ st[k].raw = r
    BY <1>2
  <2>2. k \notin 1..m
    BY <1>1, <1>2, <2>1
  <2>3. k \in m + 1..m + n /\ k - m \in 1..n /\ k \in Int
    BY <1>1, <2>1, <2>2
  <2>4. st[k] = t[k - m]
    BY <1>1, <2>3
  <2> QED BY <1>2, <2>1, <2>3, <2>4
<1>7. T = {} => ST = S
  BY <1>4, <1>6
<1>8. ASSUME S = {} PROVE Cardinality(ST) <= Cardinality(T)
  <2> DEFINE f == [k \in ST |-> k - m]
  <2>1. \A k \in ST : k - m \in T /\ k \in Int
    BY <1>6, <1>8
  <2>2. f \in [ST -> T]
    BY <2>1
  <2>3. \A k, l \in ST : f[k] = f[l] => k = l
    BY <1>1, <2>1
  <2>4. f \in Injection(ST, T)
    BY <2>2, <2>3 DEF Injection, IsInjective
  <2> HIDE DEF f
  <2> QED BY <1>3, <2>4, FS_Injection
<1> QED BY <1>3, <1>4, <1>5, <1>7, <1>8 DEF S, T, ST, st

LEMMA MarksOfNone ==
  ASSUME NEW t, NEW reason, NEW r,
         \A x \in ToSet(t) : ~(x.iter = 1 /\ x.reason = reason /\ x.raw = r)
  PROVE  Marks(t, reason, r) = {}
BY DEF Marks, ToSet

LEMMA SlotsAreFinite ==
  ASSUME payloads \in Responses, NEW r \in Raws, NEW reason
  PROVE  IsFiniteSet(Slots(r, reason)) /\ Cardinality(Slots(r, reason)) \in Nat
<1>1. DOMAIN payloads[r].items = 1..Len(payloads[r].items) /\ Len(payloads[r].items) \in Nat
  BY PayloadsAre
<1>2. IsFiniteSet(1..Len(payloads[r].items)) /\ IsFiniteSet({0})
  <2> DEFINE n == Len(payloads[r].items)
  <2>1. n \in Int /\ 1 \in Int
    BY <1>1
  <2> HIDE DEF n
  <2>2. IsFiniteSet(1..n)
    BY <2>1, FS_Interval
  <2>3. IsFiniteSet({0})
    BY FS_Singleton
  <2> QED BY <2>2, <2>3 DEF n
<1>3. CASE payloads[r].kind # "list"
  <2>1. Slots(r, reason) = {0}
    BY <1>3 DEF Slots
  <2> QED BY <2>1, <1>2, FS_CardinalityType
<1>4. CASE payloads[r].kind = "list"
  <2>1. Slots(r, reason) \in SUBSET (1..Len(payloads[r].items))
    BY <1>1, <1>4 DEF Slots
  <2>2. IsFiniteSet(Slots(r, reason))
    BY <2>1, <1>2, FS_Subset
  <2> QED BY <2>2, FS_CardinalityType
<1> QED BY <1>3, <1>4

\* What is refused is refused once at each place.
LEMMA RefusalsFit ==
  ASSUME payloads \in Responses, iter \in Iterations, NEW r \in Raws, NEW reason \in Structures
  PROVE  Cardinality(Marks(Refusals \o AgedOut, reason, r)) <= Cardinality(Slots(r, reason))
<1> DEFINE s == InPlace(Refused)
           M == Marks(Refusals, reason, r)
           S == Slots(r, reason)
           f == [n \in M |-> s[n][2]]
<1>1. /\ IsFiniteSet(Places) /\ Places \in SUBSET (Int \X Int)
      /\ \A p \in Places :
           \/ p[2] = 0 /\ payloads[p[1]].kind # "list"
           \/ p[2] \in DOMAIN payloads[p[1]].items /\ p[2] # 0
                /\ payloads[p[1]].kind = "list"
  BY PlacesAre
<1>2. Refused \in SUBSET Places /\ Refused \in SUBSET Structural
  BY DEF Refused, Structural
<1>3. Refused \in SUBSET (Int \X Int) /\ IsFiniteSet(Refused)
  BY <1>1, <1>2, FS_Subset
<1>4. Lists(s, Refused)
  BY <1>3, InPlaceLists
<1> HIDE DEF s
<1>5. /\ DOMAIN s = 1..Len(s) /\ Len(s) \in Nat /\ ToSet(s) = Refused
      /\ \A m, n \in DOMAIN s : s[m] = s[n] => m = n
  BY <1>4, ListsRange DEF Lists
<1>6. \A n \in DOMAIN s : s[n] \in Refused
  BY <1>5 DEF ToSet
<1>7. Refusals = [n \in DOMAIN s |-> Refusal(s[n])]
  BY DEF Refusals, s
<1>8. \A n \in DOMAIN s : Refusal(s[n]) \in SkipRow /\ Refusal(s[n]).raw = s[n][1]
                          /\ Refusal(s[n]).reason = Kind(s[n])
  BY <1>2, <1>6, RefusalIs
<1>9. Refusals \in Seq(SkipRow)
  <2>1. \A n \in DOMAIN s : Refusals[n] \in SkipRow
    BY <1>7, <1>8
  <2>2. Refusals \in [1..Len(s) -> SkipRow]
    BY <2>1, <1>5, <1>7
  <2> QED BY <2>2, <1>5
<1>10. M = {n \in DOMAIN s : Refusal(s[n]).iter = 1 /\ Kind(s[n]) = reason /\ s[n][1] = r}
  <2>1. DOMAIN Refusals = DOMAIN s /\ \A n \in DOMAIN s : Refusals[n] = Refusal(s[n])
    BY <1>7
  <2> QED BY <2>1, <1>8 DEF Marks
<1> HIDE DEF M, S
<1>11. \A n \in M : /\ n \in DOMAIN s /\ Kind(s[n]) = reason /\ s[n][1] = r
                    /\ s[n] \in Places /\ s[n] = <<s[n][1], s[n][2]>>
  <2>1. \A p \in Refused : p \in Places /\ p = <<p[1], p[2]>>
    BY <1>2, <1>3
  <2> QED BY <2>1, <1>6, <1>10
<1>12. \A n \in M : s[n][2] \in S
  <2> SUFFICES ASSUME NEW n \in M PROVE s[n][2] \in S
    OBVIOUS
  <2> DEFINE p == s[n]
  <2>1. p[1] = r /\ Kind(p) = reason /\ p \in Places
    BY <1>11
  <2> HIDE DEF p
  <2>2. \/ p[2] = 0 /\ payloads[r].kind # "list"
        \/ p[2] \in DOMAIN payloads[r].items /\ p[2] # 0 /\ payloads[r].kind = "list"
    BY <1>1, <2>1
  <2>3. p[2] \in S
    BY <2>1, <2>2 DEF S, Slots, Kind, Item
  <2> QED BY <2>3 DEF p
<1>13. \A m, n \in M : s[m][2] = s[n][2] => m = n
  BY <1>5, <1>11
<1>14. f \in Injection(M, S)
  <2>1. f \in [M -> S]
    BY <1>12
  <2>2. \A m, n \in M : f[m] = f[n] => m = n
    BY <1>13
  <2> QED BY <2>1, <2>2 DEF Injection, IsInjective
<1> HIDE DEF f
<1>15. Cardinality(M) <= Cardinality(S)
  <2>1. IsFiniteSet(S)
    BY SlotsAreFinite DEF S
  <2> QED BY <2>1, <1>14, FS_Injection
<1>16. AgedOut \in Seq(SkipRow) /\ Marks(AgedOut, reason, r) = {}
  <2> DEFINE a == InPlace(Outdated)
  <2>1. IsFiniteSet(Posts) /\ Posts \in SUBSET (Int \X Int)
    BY PostsAre
  <2>2. Outdated \in SUBSET Posts
    BY DEF Outdated, Firsts
  <2>3. Outdated \in SUBSET (Int \X Int) /\ IsFiniteSet(Outdated)
    BY <2>1, <2>2, FS_Subset
  <2>4. Lists(a, Outdated)
    BY <2>3, InPlaceLists
  <2> HIDE DEF a
  <2>5. DOMAIN a = 1..Len(a) /\ Len(a) \in Nat /\ ToSet(a) = Outdated
    BY <2>4, ListsRange
  <2>6. \A n \in DOMAIN a : a[n] \in Posts
    BY <2>2, <2>5 DEF ToSet
  <2>7. \A n \in DOMAIN a : Aged(a[n]) \in SkipRow /\ Aged(a[n]).reason = "stale"
    BY <2>6, AgedIs
  <2>8. AgedOut = [n \in DOMAIN a |-> Aged(a[n])]
    BY DEF AgedOut, a
  <2>9. AgedOut \in [1..Len(a) -> SkipRow] /\ \A n \in DOMAIN AgedOut : AgedOut[n].reason = "stale"
    BY <2>5, <2>7, <2>8
  <2>10. AgedOut \in Seq(SkipRow)
    BY <2>5, <2>9
  <2>11. reason # "stale"
    BY DEF Structures
  <2> QED BY <2>9, <2>10, <2>11 DEF Marks
<1>17. Marks(Refusals \o AgedOut, reason, r) = M
  BY <1>9, <1>16, MarksAre DEF M
<1> QED BY <1>15, <1>17 DEF S

LEMMA OnceOfGather ==
  ASSUME Shape, OnceInv, gather
  PROVE  OnceInv'
<1> DEFINE t == Refusals \o AgedOut
<1>1. /\ work'.pc = "skipping" /\ work'.todo = t /\ work.pc = "gather"
      /\ UNCHANGED <<rows, world>>
  BY GatherIs DEF gather
<1>2. UNCHANGED <<skips, payloads>>
  BY <1>1 DEF rows, world
<1>3. /\ payloads \in Responses /\ iter \in Iterations
      /\ skips \in Seq(SkipRow)
  BY DEF Shape, TypeInv
<1>4. t \in Seq(SkipRow) /\ ToSet(t) = {Refusal(p) : p \in Refused} \cup {Aged(p) : p \in Outdated}
  BY <1>3, SkipsAre
<1>5. AllSkips = skips
  BY <1>1, <1>3, ConcatNothing DEF AllSkips
<1>6. AllSkips' = skips \o t
  BY <1>1, <1>2 DEF AllSkips
<1>7. ASSUME NEW r \in Raws, NEW reason \in Structures
      PROVE  Cardinality(Marks(skips \o t, reason, r)) <= Cardinality(Slots(r, reason))
  <2>1. Cardinality(Marks(skips, reason, r)) <= Cardinality(Slots(r, reason))
    BY <1>5 DEF OnceInv
  <2>2. CASE Marks(skips, reason, r) = {}
    <3>1. Cardinality(Marks(skips \o t, reason, r)) <= Cardinality(Marks(t, reason, r))
      BY <1>3, <1>4, <2>2, MarksAre
    <3>2. Cardinality(Marks(t, reason, r)) <= Cardinality(Slots(r, reason))
      BY <1>3, RefusalsFit
    <3>3. /\ Cardinality(Marks(skips \o t, reason, r)) \in Nat
          /\ Cardinality(Marks(t, reason, r)) \in Nat
          /\ Cardinality(Slots(r, reason)) \in Nat
      <4>1. IsFiniteSet(Marks(skips \o t, reason, r)) /\ IsFiniteSet(Marks(t, reason, r))
        BY <1>3, <1>4, MarksAre
      <4> QED BY <4>1, <1>3, FS_CardinalityType, SlotsAreFinite
    <3> QED BY <3>1, <3>2, <3>3
  <2>3. CASE Marks(skips, reason, r) # {}
    <3>1. PICK i \in DOMAIN skips : /\ skips[i].iter = 1 /\ skips[i].reason = reason
                                    /\ skips[i].raw = r
      BY <2>3 DEF Marks
    <3>2. reason # "stale"
      BY DEF Structures
    <3>3. \A x \in ToSet(t) : ~(x.iter = 1 /\ x.reason = reason /\ x.raw = r)
      <4>1. ASSUME NEW p \in Refused
            PROVE  ~(Refusal(p).iter = 1 /\ Refusal(p).reason = reason /\ Refusal(p).raw = r)
        <5>1. p \in Structural /\ ~Recorded(Refusal(p))
          BY DEF Refused
        <5>2. iter = 1
          BY <1>3, <5>1, RefusalIs
        <5> QED BY <3>1, <3>2, <5>1, <5>2 DEF Recorded
      <4>2. ASSUME NEW p \in Outdated PROVE Aged(p).reason = "stale"
        BY DEF Aged, Skip
      <4> QED BY <1>4, <3>2, <4>1, <4>2
    <3>4. Marks(t, reason, r) = {}
      BY <3>3, MarksOfNone
    <3>5. skips \in Seq(SkipRow) /\ t \in Seq(SkipRow)
      BY <1>3, <1>4
    <3> HIDE DEF t
    <3>6. Marks(t, reason, r) = {} => Marks(skips \o t, reason, r) = Marks(skips, reason, r)
      BY <3>5, MarksAre
    <3> QED BY <2>1, <3>4, <3>6
  <2> QED BY <2>2, <2>3
<1>8. Raws' = Raws /\ \A r \in Raws, reason \in Structures : Slots(r, reason)' = Slots(r, reason)
  BY <1>2 DEF Raws, Slots
<1>9. Structures' = Structures
  BY DEF Structures
<1> HIDE DEF t
<1>10. \A r \in Raws, reason \in Structures :
         Marks(AllSkips, reason, r)' = Marks(skips \o t, reason, r)
  BY <1>6 DEF Marks
<1> QED BY <1>7, <1>8, <1>9, <1>10 DEF OnceInv

LEMMA OnceStep ==
  ASSUME Shape, OnceInv, [Next]_vars
  PROVE  OnceInv'
<1>1. skips \in Seq(SkipRow) /\ payloads \in Responses
  BY DEF Shape, TypeInv
<1>2. ASSUME AllSkips' = AllSkips, payloads' = payloads PROVE OnceInv'
  <2>1. Raws' = Raws /\ \A r \in Raws, reason \in Structures : Slots(r, reason)' = Slots(r, reason)
    BY <1>2 DEF Raws, Slots
  <2>2. \A r \in Raws, reason \in Structures :
          Marks(AllSkips, reason, r)' = Marks(AllSkips, reason, r)
    BY <1>2 DEF Marks
  <2>3. Structures' = Structures
    BY DEF Structures
  <2> QED BY <2>1, <2>2, <2>3 DEF OnceInv
<1>3. ASSUME work'.pc # "skipping", UNCHANGED <<skips, payloads>> PROVE OnceInv'
  <2>1. AllSkips' = skips
    BY <1>1, <1>3, ConcatNothing DEF AllSkips
  <2>2. ASSUME NEW r \in Raws, NEW reason \in Structures
        PROVE  Cardinality(Marks(skips, reason, r)) <= Cardinality(Slots(r, reason))
    <3> DEFINE t == IF work.pc = "skipping" THEN work.todo ELSE <<>>
    <3>1. t \in Seq(SkipRow) /\ AllSkips = skips \o t
      BY DEF Shape, TodoInv, AllSkips
    <3> HIDE DEF t
    <3>2. /\ Cardinality(Marks(skips, reason, r)) \in Nat
          /\ Cardinality(Marks(skips, reason, r)) <= Cardinality(Marks(skips \o t, reason, r))
          /\ IsFiniteSet(Marks(skips \o t, reason, r))
      BY <1>1, <3>1, MarksAre
    <3>3. Cardinality(Marks(skips \o t, reason, r)) <= Cardinality(Slots(r, reason))
      BY <3>1 DEF OnceInv
    <3>4. /\ Cardinality(Marks(skips \o t, reason, r)) \in Nat
          /\ Cardinality(Slots(r, reason)) \in Nat
      BY <1>1, <3>2, FS_CardinalityType, SlotsAreFinite
    <3> QED BY <3>2, <3>3, <3>4
  <2>3. Raws' = Raws /\ \A r \in Raws, reason \in Structures : Slots(r, reason)' = Slots(r, reason)
    BY <1>3 DEF Raws, Slots
  <2>4. \A r \in Raws, reason \in Structures :
          Marks(AllSkips, reason, r)' = Marks(skips, reason, r)
    BY <2>1 DEF Marks
  <2>5. Structures' = Structures
    BY DEF Structures
  <2> QED BY <2>2, <2>3, <2>4, <2>5 DEF OnceInv
<1>4. CASE insert_triage_skip
  <2>1. /\ work'.pc = work.pc /\ work'.todo = Tail(work.todo) /\ payloads' = payloads
        /\ work.todo # <<>>
    BY <1>4, RowGives
  <2>2. work.pc = "skipping" /\ skips' = Append(skips, Head(work.todo))
    BY <1>4 DEF insert_triage_skip
  <2>3. work.todo \in Seq(SkipRow)
    BY <2>2 DEF Shape, TodoInv
  <2>4. AllSkips' = AllSkips
    BY <1>1, <2>1, <2>2, <2>3, ConcatTail DEF AllSkips
  <2> QED BY <1>2, <2>1, <2>4
<1>5. CASE insert_triage_decision
  <2>1. work'.pc = work.pc /\ payloads' = payloads
    BY <1>5, RowGives
  <2>2. work.pc # "skipping" /\ skips' = skips
    BY <1>5 DEF insert_triage_decision
  <2> QED BY <1>3, <2>1, <2>2
<1>6. CASE EndGather \/ gather_for_retry \/ EndBatch
  <2>1. work'.pc \in {"judging", "admitting"} /\ UNCHANGED <<skips, payloads>>
    BY <1>6, BatchGives
  <2> QED BY <1>3, <2>1
<1>7. CASE judge
  <2>1. /\ UNCHANGED <<skips, payloads>>
        /\ work'.pc = "judging" \/ work'.pc = "recording"
    BY <1>7, JudgeGives
  <2> QED BY <1>3, <2>1
<1>8. CASE admit_city \/ write_signal
  BY <1>3, <1>8, PlaceGives
<1>9. CASE Accepting
  BY <1>3, <1>9, AcceptingGives
<1>10. CASE EndStage
  BY <1>3, <1>10, CloseGives
<1>11. CASE Crash \/ Resume \/ prepare_retry_triage
  <2>1. work'.pc \in {"gather", "interrupted"} /\ UNCHANGED <<skips, payloads>>
    BY <1>11, IdleGives
  <2> QED BY <1>3, <2>1
<1>12. CASE purge_expired_raw \/ Tick \/ UNCHANGED vars
  <2>1. UNCHANGED <<skips, payloads, work>>
    BY <1>12, AroundGives DEF rows
  <2> QED BY <1>2, <2>1 DEF AllSkips
<1> QED BY <1>4, <1>5, <1>6, <1>7, <1>8, <1>9, <1>10, <1>11, <1>12, OnceOfGather DEF Next

LEMMA WrittenIs ==
  ASSUME NEW reason, NEW r
  PROVE  Written(1, reason, r) = Cardinality(Marks(skips, reason, r))
BY DEF Written, Marks

\* When the stage has ended, whatever crashed on the way, every post that was collected
\* has a decision or was stale, every payload that could not be read was written off,
\* and nothing was written off twice (Accounted; triage.py 257-398).
THEOREM NothingIsLost == Spec => []Accounted
<1>1. Init => CoverInv /\ OnceInv
  <2> SUFFICES ASSUME Init PROVE CoverInv /\ OnceInv
    OBVIOUS
  <2>1. work.pc = "gather" /\ iter = 1 /\ skips = <<>> /\ payloads \in Responses
    BY IdleIs DEF Init
  <2>2. CoverInv
    BY <2>1 DEF CoverInv, Unseen
  <2>3. OnceInv
    <3> SUFFICES ASSUME NEW r \in Raws, NEW reason \in Structures
                 PROVE  Cardinality(Marks(AllSkips, reason, r)) <= Cardinality(Slots(r, reason))
      BY DEF OnceInv
    <3>1. <<>> \in Seq(SkipRow)
      OBVIOUS
    <3>2. AllSkips = <<>>
      BY <2>1, <3>1, ConcatNothing DEF AllSkips
    <3>3. Marks(AllSkips, reason, r) = {}
      BY <3>2 DEF Marks
    <3>4. Cardinality({}) = 0 /\ Cardinality(Slots(r, reason)) \in Nat
      BY <2>1, FS_EmptySet, SlotsAreFinite
    <3> QED BY <3>3, <3>4
  <2> QED BY <2>2, <2>3
<1>2. Shape /\ CoverInv /\ OnceInv /\ [Next]_vars => CoverInv' /\ OnceInv'
  BY CoverStep, OnceStep
<1>3. Shape /\ CoverInv /\ OnceInv => Accounted
  <2> SUFFICES ASSUME Shape, CoverInv, OnceInv PROVE Accounted
    OBVIOUS
  <2>1. skips \in Seq(SkipRow) /\ payloads \in Responses /\ iter \in Nat
    BY DEF Shape, TypeInv, Iterations
  <2>2. ASSUME NEW r \in Raws, NEW reason \in Structures
        PROVE  /\ Written(1, reason, r) <= Cardinality(Slots(r, reason))
               /\ Written(1, reason, r) \in Nat
               /\ IsFiniteSet(Marks(skips, reason, r))
    <3> DEFINE t == IF work.pc = "skipping" THEN work.todo ELSE <<>>
    <3>1. t \in Seq(SkipRow) /\ AllSkips = skips \o t
      BY DEF Shape, TodoInv, AllSkips
    <3> HIDE DEF t
    <3>2. /\ Cardinality(Marks(skips, reason, r)) \in Nat
          /\ Cardinality(Marks(skips, reason, r)) <= Cardinality(Marks(skips \o t, reason, r))
          /\ IsFiniteSet(Marks(skips, reason, r)) /\ IsFiniteSet(Marks(skips \o t, reason, r))
      BY <2>1, <3>1, MarksAre
    <3>3. Cardinality(Marks(skips \o t, reason, r)) <= Cardinality(Slots(r, reason))
      BY <3>1 DEF OnceInv
    <3>4. /\ Cardinality(Marks(skips \o t, reason, r)) \in Nat
          /\ Cardinality(Slots(r, reason)) \in Nat
      BY <2>1, <3>2, FS_CardinalityType, SlotsAreFinite
    <3> QED BY <3>2, <3>3, <3>4, WrittenIs
  <2>3. \A r \in Raws, reason \in Structures :
          Cardinality(Slots(r, reason)) =
            IF payloads[r].kind # "list" THEN 1 ELSE
            Cardinality({k \in DOMAIN payloads[r].items : payloads[r].items[k].kind = reason})
    <3>1. Cardinality({0}) = 1
      BY FS_Singleton
    <3> QED BY <3>1 DEF Slots
  <2>4. ASSUME Closed(1)
        PROVE  /\ ~Unseen /\ \A u \in Urls : ~InHand(u)
               /\ Said = {d \in ToSet(decisions) : d.iter = 1}
               /\ Off = {s \in ToSet(skips) : s.iter = 1}
    <3>1. CASE iter # 1
      BY <3>1, OffOf DEF Unseen, InHand
    <3>2. CASE iter = 1
      <4>1. work.pc = "closed"
        BY <2>4, <3>2 DEF Closed
      <4>2. work.todo = <<>> /\ work.posts = <<>>
        BY <4>1 DEF Shape, TodoInv, PhaseInv
      <4>3. Pending = {}
        <5>1. Pending = UrlsOf(<<>>, 1, Len(<<>>)) /\ Len(<<>>) = 0
          BY <4>1, <4>2 DEF Pending
        <5> QED BY <5>1 DEF UrlsOf
      <4> QED BY <4>1, <4>2, <4>3, OffOf DEF Unseen, InHand
    <3> QED BY <3>1, <3>2
  <2>5. ASSUME Closed(1), NEW r \in Raws, payloads[r].kind # "list"
        PROVE  Written(1, payloads[r].kind, r) = 1
    <3> DEFINE reason == payloads[r].kind
    <3>1. reason \in Structures
      BY <2>1, <2>5, PayloadsAre DEF Structures
    <3>2. PICK s \in ToSet(skips) : s.iter = 1 /\ s.raw = r /\ s.reason = reason
      BY <2>4, <2>5 DEF CoverInv, WrittenOff
    <3> HIDE DEF reason
    <3>3. Marks(skips, reason, r) # {}
      BY <3>2, MarksOfNone DEF Marks, ToSet
    <3>4. /\ Written(1, reason, r) <= Cardinality(Slots(r, reason))
          /\ Written(1, reason, r) \in Nat /\ IsFiniteSet(Marks(skips, reason, r))
      BY <2>2, <3>1
    <3>5. Cardinality(Slots(r, reason)) = 1
      BY <2>3, <2>5, <3>1
    <3>6. Written(1, reason, r) # 0
      BY <3>3, <3>4, WrittenIs, FS_EmptySet
    <3> QED BY <3>4, <3>5, <3>6 DEF reason
  <2>6. ASSUME Closed(1), NEW r \in Raws, payloads[r].kind = "list",
               NEW k \in DOMAIN payloads[r].items, payloads[r].items[k].kind = "post"
        PROVE  LET u == payloads[r].items[k].url IN
               Rows(1, u) # {} \/ \E s \in ToSet(skips) : s.reason = "stale" /\ s.url = u
    <3> DEFINE u == payloads[r].items[k].url
    <3>1. u \in Urls
      BY <2>1, <2>6, PayloadsAre
    <3>2. IsCollected(u)
      BY <2>6 DEF IsCollected
    <3> HIDE DEF u
    <3>3. HasRow(u)
      BY <2>4, <2>6, <3>1, <3>2 DEF CoverInv
    <3>4. Rows(1, u) # {} \/ \E s \in ToSet(skips) : s.reason = "stale" /\ s.url = u
      BY <2>4, <2>6, <3>3 DEF HasRow, Rows
    <3> QED BY <3>4 DEF u
  <2> QED BY <2>2, <2>3, <2>5, <2>6 DEF Accounted, Structures
<1>4. Spec => [](CoverInv /\ OnceInv)
  <2>1. Init => CoverInv /\ OnceInv
    BY <1>1
  <2> QED BY <2>1, <1>2, ShapeHolds, PTL DEF Spec
<1> QED BY <1>3, <1>4, ShapeHolds, PTL

=============================================================================
