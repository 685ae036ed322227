---------------------------- MODULE ReplayProofs ----------------------------
(***************************************************************************)
(* What the replay protection does keep, whatever is repeated, lost or     *)
(* overtaken: no client is told of a run it did not ask for.  For any      *)
(* number of handlers, keys, requests, runs, hours and crashes.            *)
(***************************************************************************)
EXTENDS Replay, TLAPS

\* The bounds and the time an answer is kept are numbers.
Numbers == MaxRuns \in Nat /\ TTL \in Nat /\ MaxTime \in Nat \ {0} /\ MaxCrashes \in Nat

\* Iteration i exists and was made by request b under key k.
Names(i, k, b) ==
  /\ i \in Iteration
  /\ iterations[i].state # "none"
  /\ iterations[i].key = k
  /\ iterations[i].body = b

\* A handler past its start carries the iteration its own request made.
HandlersNameTheirRun ==
  \A h \in Handler :
    /\ handlers[h].pc # "idle" => handlers[h].key \in Key /\ handlers[h].body \in Body
    /\ handlers[h].pc \in {"wait", "record"} =>
         Names(handlers[h].iter, handlers[h].key, handlers[h].body)

\* So does a stored row: what is recorded is what the handler carries.
RowsNameTheirRun ==
  \A k \in Key : stored[k].iter # None => Names(stored[k].iter, k, stored[k].body)

IInv == TypeOK /\ HandlersNameTheirRun /\ RowsNameTheirRun /\ AnswersNameTheirRun

-----------------------------------------------------------------------------

\* Rows of iterations are never given to another request: only a number that
\* no iteration has is used for a new one.
LEMMA NamesStay ==
  ASSUME Numbers, TypeOK, [Next]_vars, NEW i, NEW k, NEW b, Names(i, k, b)
  PROVE  /\ i \in Iteration /\ iterations'[i].state # "none"
         /\ iterations'[i].key = k /\ iterations'[i].body = b
<1> USE DEF Names
<1> DEFINE Stays == /\ i \in Iteration /\ iterations'[i].state # "none"
                    /\ iterations'[i].key = k /\ iterations'[i].body = b
<1>1. ASSUME NEW h \in Handler, Start(h)
      PROVE  Stays
  <2>1. PICK j \in Iteration :
          /\ \A m \in Iteration : m \in Made <=> m < j
          /\ iterations' = [iterations EXCEPT ![j] =
               [state |-> IF ModeOf[handlers[h].body] = "manual" THEN "pending" ELSE "running",
                key |-> handlers[h].key, body |-> handlers[h].body, at |-> now]]
    BY <1>1 DEF Start
  <2>2. j \notin Made
    BY <2>1 DEF Numbers, Iteration
  <2>3. i # j
    BY <2>2 DEF Made
  <2> QED BY <2>1, <2>3 DEF TypeOK
<1>2. ASSUME NEW j \in Iteration, Close(j)
      PROVE  Stays
  BY <1>2 DEF Close, TypeOK
<1>3. CASE Crash
  BY <1>3 DEF Crash, TypeOK
<1>4. CASE UNCHANGED iterations
  BY <1>4
<1> QED
  BY <1>1, <1>2, <1>3, <1>4
  DEF Next, vars, Receive, Lookup, Refuse, EndWait, Record, Answered, Tick

LEMMA InitIInv == ASSUME Numbers PROVE Init => IInv
  BY DEF Numbers, Init, IInv, TypeOK, HandlersNameTheirRun, RowsNameTheirRun,
         AnswersNameTheirRun, Missing, NoRow, Idle, None

\* An answer is sent by a handler that carries the iteration, or is a row's.
LEMMA AnswersStay ==
  ASSUME Numbers, IInv, [Next]_vars
  PROVE  AnswersNameTheirRun'
<1> DEFINE Kept(i, k, b) == /\ i \in Iteration /\ iterations'[i].state # "none"
                            /\ iterations'[i].key = k /\ iterations'[i].body = b
<1>a. ASSUME NEW i, NEW k, NEW b, Names(i, k, b)
      PROVE  Kept(i, k, b)
  BY <1>a, NamesStay DEF IInv
<1>1. \A a \in answers : Kept(a.iter, a.key, a.body)
  BY <1>a DEF IInv, TypeOK, AnswersNameTheirRun, Names
<1>2. ASSUME NEW i, NEW k, NEW b, NEW replayed, Kept(i, k, b),
             answers' = answers \cup {[key |-> k, body |-> b, iter |-> i,
                                        replayed |-> replayed]}
      PROVE  AnswersNameTheirRun'
  BY <1>1, <1>2 DEF AnswersNameTheirRun
<1>3. ASSUME NEW h \in Handler, Lookup(h)
      PROVE  AnswersNameTheirRun'
  <2> DEFINE r == stored[handlers[h].key].iter
             k == handlers[h].key
             b == handlers[h].body
  <2>1. CASE InForce(k) /\ stored[k].body = b
    <3>1. k \in Key /\ r # None
      BY <1>3, <2>1 DEF Lookup, IInv, HandlersNameTheirRun, InForce
    <3>2. Names(r, k, b)
      BY <3>1, <2>1 DEF IInv, RowsNameTheirRun
    <3>3. Kept(r, k, b)
      BY <3>2, <1>a
    <3>4. answers' = answers \cup {[key |-> k, body |-> b, iter |-> r, replayed |-> TRUE]}
      BY <1>3, <2>1 DEF Lookup, Answered
    <3> QED BY <3>3, <3>4, <1>2
  <2>2. CASE ~(InForce(k) /\ stored[k].body = b)
    BY <1>3, <2>2, <1>1 DEF Lookup, AnswersNameTheirRun
  <2> QED BY <2>1, <2>2
<1>4. ASSUME NEW h \in Handler, Record(h)
      PROVE  AnswersNameTheirRun'
  <2>1. Kept(handlers[h].iter, handlers[h].key, handlers[h].body)
    BY <1>4, <1>a DEF Record, IInv, HandlersNameTheirRun
  <2> QED BY <1>4, <2>1, <1>2 DEF Record, Answered
<1>5. CASE UNCHANGED answers
  BY <1>5, <1>1 DEF AnswersNameTheirRun
<1> QED
  BY <1>3, <1>4, <1>5
  DEF Next, vars, Receive, Refuse, Start, EndWait, Close, Crash, Tick

\* The row of a handler.
HandlerRow == [pc : {"idle", "lookup", "start", "wait", "record"},
               key : Key \cup {"none"}, body : Body \cup {"none"}, iter : 0..MaxRuns]

LEMMA TypeStays ==
  ASSUME Numbers, IInv, [Next]_vars
  PROVE  TypeOK'
<1> USE DEF Numbers, None
<1>0. /\ handlers \in [Handler -> HandlerRow] /\ Idle \in HandlerRow
      /\ TypeOK
  BY DEF IInv, TypeOK, HandlerRow, Idle
<1>1. ASSUME NEW h \in Handler, NEW k \in Key, NEW b \in Body, Receive(h, k, b)
      PROVE  TypeOK'
  BY <1>0, <1>1 DEF Receive, TypeOK
<1>2. ASSUME NEW h \in Handler, handlers[h].pc # "idle"
      PROVE  handlers[h].key \in Key /\ handlers[h].body \in Body
  BY <1>2 DEF IInv, HandlersNameTheirRun
<1>3. ASSUME NEW h \in Handler, NEW i \in Iteration, NEW replayed \in BOOLEAN,
             handlers[h].pc # "idle", Answered(h, i, replayed)
      PROVE  /\ answers' \subseteq [key : Key, body : Body, iter : Iteration,
                                     replayed : BOOLEAN]
             /\ handlers' \in [Handler -> HandlerRow]
  BY <1>0, <1>2, <1>3 DEF Answered, TypeOK
<1>4. ASSUME NEW h \in Handler, Lookup(h)
      PROVE  TypeOK'
  <2>1. /\ UNCHANGED <<iterations, stored, now, crashes>>
        /\ handlers[h].pc = "lookup"
    BY <1>4 DEF Lookup
  <2>2. CASE InForce(handlers[h].key) /\ stored[handlers[h].key].body = handlers[h].body
    <3>1. stored[handlers[h].key].iter \in Iteration
      BY <2>1, <2>2, <1>2 DEF InForce, IInv, RowsNameTheirRun, Names
    <3>2. Answered(h, stored[handlers[h].key].iter, TRUE)
      BY <1>4, <2>2 DEF Lookup
    <3> QED BY <1>0, <2>1, <3>1, <3>2, <1>3 DEF TypeOK, HandlerRow
  <2>3. CASE ~(InForce(handlers[h].key) /\ stored[handlers[h].key].body = handlers[h].body)
    <3>1. /\ UNCHANGED answers
          /\ \/ handlers' = [handlers EXCEPT ![h] = Idle]
             \/ handlers' = [handlers EXCEPT ![h].pc = "start"]
      BY <1>4, <2>3 DEF Lookup
    <3>2. handlers' \in [Handler -> HandlerRow]
      BY <1>0, <3>1 DEF HandlerRow
    <3> QED BY <1>0, <2>1, <3>1, <3>2 DEF TypeOK, HandlerRow
  <2> QED BY <2>2, <2>3
<1>5. ASSUME NEW h \in Handler, Start(h)
      PROVE  TypeOK'
  <2>1. PICK i \in Iteration :
          /\ iterations' = [iterations EXCEPT ![i] =
               [state |-> IF ModeOf[handlers[h].body] = "manual" THEN "pending" ELSE "running",
                key |-> handlers[h].key, body |-> handlers[h].body, at |-> now]]
          /\ handlers' = [handlers EXCEPT ![h].iter = i,
               ![h].pc = IF ModeOf[handlers[h].body] = "wait" THEN "wait" ELSE "record"]
    BY <1>5 DEF Start
  <2>2. handlers[h].key \in Key /\ handlers[h].body \in Body
    BY <1>5, <1>2 DEF Start
  <2>3. handlers' \in [Handler -> HandlerRow]
    <3>1. PICK pc \in {"wait", "record"} :
            handlers' = [handlers EXCEPT ![h].iter = i, ![h].pc = pc]
      BY <2>1
    <3>2. i \in 0..MaxRuns
      BY DEF Iteration
    <3> QED BY <1>0, <3>1, <3>2, ZenonT(30) DEF HandlerRow
  <2>4. iterations' \in [Iteration -> [state : {"none", "pending", "running",
                                                "interrupted", "closed"},
                                       key : Key \cup {"none"}, body : Body \cup {"none"},
                                       at : 0..MaxTime]]
    BY <1>0, <2>1, <2>2 DEF TypeOK
  <2> QED BY <1>0, <1>5, <2>3, <2>4 DEF Start, TypeOK, HandlerRow
<1>6. ASSUME NEW h \in Handler, Record(h)
      PROVE  TypeOK'
  <2>1. /\ handlers[h].key \in Key /\ handlers[h].body \in Body
        /\ handlers[h].iter \in Iteration
    BY <1>6 DEF Record, IInv, HandlersNameTheirRun, Names
  <2>2. stored' \in [Key -> [body : Body \cup {"none"}, iter : 0..MaxRuns, until : Nat]]
    BY <1>0, <1>6, <2>1 DEF Record, TypeOK, Iteration
  <2> QED BY <1>0, <1>3, <1>6, <2>1, <2>2 DEF Record, TypeOK, HandlerRow
<1>7. ASSUME NEW h \in Handler, Refuse(h) \/ EndWait(h)
      PROVE  TypeOK'
  <2>1. CASE Refuse(h)
    BY <1>0, <2>1 DEF Refuse, TypeOK, HandlerRow
  <2>2. CASE EndWait(h)
    <3>1. handlers' \in [Handler -> HandlerRow]
      BY <1>0, <2>2 DEF EndWait, HandlerRow
    <3> QED BY <1>0, <2>2, <3>1 DEF EndWait, TypeOK, HandlerRow
  <2> QED BY <1>7, <2>1, <2>2
<1>8. ASSUME NEW i \in Iteration, Close(i)
      PROVE  TypeOK'
  BY <1>0, <1>8 DEF Close, TypeOK
<1>9. CASE Crash
  <2>1. handlers' \in [Handler -> HandlerRow]
    BY <1>0, <1>9 DEF Crash
  <2>2. iterations' \in [Iteration -> [state : {"none", "pending", "running",
                                                "interrupted", "closed"},
                                       key : Key \cup {"none"}, body : Body \cup {"none"},
                                       at : 0..MaxTime]]
    BY <1>0, <1>9 DEF Crash, TypeOK
  <2>3. crashes' \in 0..MaxCrashes
    BY <1>0, <1>9 DEF Crash, TypeOK
  <2> QED BY <1>0, <1>9, <2>1, <2>2, <2>3 DEF Crash, TypeOK, HandlerRow
<1>10. CASE Tick
  BY <1>0, <1>10 DEF Tick, TypeOK
<1>11. CASE UNCHANGED vars
  BY <1>0, <1>11 DEF vars, TypeOK
<1> QED BY <1>1, <1>4, <1>5, <1>6, <1>7, <1>8, <1>9, <1>10, <1>11 DEF Next

\* What a handler carries changes only when it takes a request in and when it
\* starts the run that it then carries.
LEMMA HandlersStay ==
  ASSUME Numbers, IInv, [Next]_vars
  PROVE  HandlersNameTheirRun'
<1> SUFFICES ASSUME NEW g \in Handler
             PROVE  /\ handlers[g].pc' # "idle" =>
                         handlers[g].key' \in Key /\ handlers[g].body' \in Body
                    /\ handlers[g].pc' \in {"wait", "record"} =>
                         Names(handlers[g].iter, handlers[g].key, handlers[g].body)'
  BY DEF HandlersNameTheirRun
<1> DEFINE Good == /\ handlers[g].pc' # "idle" =>
                         handlers[g].key' \in Key /\ handlers[g].body' \in Body
                   /\ handlers[g].pc' \in {"wait", "record"} =>
                         Names(handlers[g].iter, handlers[g].key, handlers[g].body)'
<1>0. /\ handlers[g].pc # "idle" => handlers[g].key \in Key /\ handlers[g].body \in Body
      /\ handlers[g].pc \in {"wait", "record"} =>
           Names(handlers[g].iter, handlers[g].key, handlers[g].body)
  BY DEF IInv, HandlersNameTheirRun
<1>a. ASSUME NEW i, NEW k, NEW b, Names(i, k, b)
      PROVE  /\ i \in Iteration /\ iterations'[i].state # "none"
             /\ iterations'[i].key = k /\ iterations'[i].body = b
  BY <1>a, NamesStay DEF IInv, Names
<1>1. CASE handlers'[g] = handlers[g]
  BY <1>0, <1>1, <1>a DEF Names
<1>2. CASE handlers'[g].pc = "idle"
  BY <1>2
<1>3. ASSUME NEW k \in Key, NEW b \in Body, Receive(g, k, b)
      PROVE  Good
  BY <1>3 DEF Receive, IInv, TypeOK
<1>4. CASE Lookup(g)
  BY <1>4, <1>0 DEF Lookup, Answered, Idle, IInv, TypeOK
<1>5. CASE Start(g)
  BY <1>5, <1>0 DEF Start, Names, IInv, TypeOK
<1>6. CASE EndWait(g)
  BY <1>6, <1>0, <1>a DEF EndWait, Names, IInv, TypeOK
<1>7. CASE Refuse(g) \/ Record(g) \/ Crash
  BY <1>7, <1>2 DEF Refuse, Record, Answered, Crash, Idle, IInv, TypeOK
<1>8. ASSUME NEW h \in Handler, h # g,
             \/ \E k \in Key, b \in Body : Receive(h, k, b)
             \/ Lookup(h) \/ Refuse(h) \/ Start(h) \/ EndWait(h) \/ Record(h)
      PROVE  handlers'[g] = handlers[g]
  BY <1>8 DEF Receive, Lookup, Refuse, Start, EndWait, Record, Answered, IInv, TypeOK
<1>9. CASE UNCHANGED handlers
  BY <1>9, <1>1
<1> QED
  BY <1>1, <1>3, <1>4, <1>5, <1>6, <1>7, <1>8, <1>9 DEF Next, vars, Close, Tick

\* A row is written from a handler, and its iteration keeps its request.
LEMMA RowsStay ==
  ASSUME Numbers, IInv, [Next]_vars
  PROVE  RowsNameTheirRun'
<1> SUFFICES ASSUME NEW k \in Key, stored'[k].iter # None
             PROVE  Names(stored[k].iter, k, stored[k].body)'
  BY DEF RowsNameTheirRun
<1>a. ASSUME NEW i, NEW b, Names(i, k, b)
      PROVE  /\ i \in Iteration /\ iterations'[i].state # "none"
             /\ iterations'[i].key = k /\ iterations'[i].body = b
  BY <1>a, NamesStay DEF IInv, Names
<1>1. CASE stored'[k] = stored[k]
  BY <1>1, <1>a DEF IInv, RowsNameTheirRun, Names
<1>2. ASSUME NEW h \in Handler, Record(h), handlers[h].key = k
      PROVE  Names(stored[k].iter, k, stored[k].body)'
  <2>1. Names(handlers[h].iter, k, handlers[h].body)
    BY <1>2 DEF Record, IInv, HandlersNameTheirRun
  <2>2. /\ stored'[k].iter = handlers[h].iter
        /\ stored'[k].body = handlers[h].body
    BY <1>2 DEF Record, IInv, TypeOK
  <2> QED BY <2>1, <2>2, <1>a DEF Names
<1>3. ASSUME NEW h \in Handler, Record(h), handlers[h].key # k
      PROVE  stored'[k] = stored[k]
  BY <1>3 DEF Record, IInv, TypeOK
<1> QED
  BY <1>1, <1>2, <1>3
  DEF Next, vars, Receive, Lookup, Refuse, Start, EndWait, Close, Crash, Tick

\* Every answer names an iteration that its key and its very request started.
THEOREM NoStrangersRun ==
  ASSUME Numbers PROVE Spec => []AnswersNameTheirRun
<1>1. Init => IInv
  BY InitIInv
<1>2. IInv /\ [Next]_vars => IInv'
  BY TypeStays, HandlersStay, RowsStay, AnswersStay DEF IInv
<1>3. IInv => AnswersNameTheirRun
  BY DEF IInv
<1> QED BY <1>1, <1>2, <1>3, PTL DEF Spec
=============================================================================
