------------------------------- MODULE Replay -------------------------------
(***************************************************************************)
(* The replay protection of the two requests that spend money: the trigger *)
(* of an iteration and the re-triage of a closed one (api/routes.py,       *)
(* api/contract.py, idempotency_keys).  A handler looks the key up, starts *)
(* the run and records the key in three separate steps; handlers run       *)
(* concurrently, answers are lost, clients repeat themselves, and the      *)
(* process may die between any two steps.  One session.                    *)
(***************************************************************************)
EXTENDS Integers, FiniteSets

CONSTANTS Handler,     \* requests the server works on at a time
          Key, Body,   \* what a client sends; the fingerprint is the body
          MaxRuns,     \* bound: iterations of the session
          TTL,         \* hours an answer is kept
          MaxTime,     \* bound: hours
          MaxCrashes   \* bound: crashes

CONSTANT ModeOf        \* [Body -> {"manual", "auto", "wait", "retriage"}]

None == 0
Iteration == 1..MaxRuns

VARIABLES iterations,  \* by number: its state, and the request that made it
          stored,      \* the idempotency_keys rows, by key
          handlers,    \* what each handler is doing
          answers,     \* every answer sent: key, body, iteration, replayed
          now, crashes
vars == <<iterations, stored, handlers, answers, now, crashes>>

NoRow == [body |-> "none", iter |-> None, until |-> 0]
Idle == [pc |-> "idle", key |-> "none", body |-> "none", iter |-> None]
Missing == [state |-> "none", key |-> "none", body |-> "none", at |-> 0]

Init ==
  /\ iterations = [i \in Iteration |-> Missing]
  /\ stored = [k \in Key |-> NoRow]
  /\ handlers = [h \in Handler |-> Idle]
  /\ answers = {} /\ now = 1 /\ crashes = 0

Made == {i \in Iteration : iterations[i].state # "none"}
Open == {i \in Made : iterations[i].state # "closed"}

\* find_idempotency_key: an expired row is as good as none.
InForce(k) == stored[k].iter # None /\ stored[k].until > now

Answered(h, i, replayed) ==
  /\ answers' = answers \cup {[key |-> handlers[h].key, body |-> handlers[h].body,
                               iter |-> i, replayed |-> replayed]}
  /\ handlers' = [handlers EXCEPT ![h] = Idle]

Receive(h, k, b) ==
  /\ handlers[h].pc = "idle"
  /\ handlers' = [handlers EXCEPT ![h] = [pc |-> "lookup", key |-> k, body |-> b,
                                          iter |-> None]]
  /\ UNCHANGED <<iterations, stored, answers, now, crashes>>

\* A key that stands for another request is refused (contract.replay).
Lookup(h) ==
  /\ handlers[h].pc = "lookup"
  /\ LET row == stored[handlers[h].key]
     IN  \/ /\ InForce(handlers[h].key) /\ row.body = handlers[h].body
            /\ Answered(h, row.iter, TRUE)
         \/ /\ InForce(handlers[h].key) /\ row.body # handlers[h].body
            /\ handlers' = [handlers EXCEPT ![h] = Idle] /\ UNCHANGED answers
         \/ /\ ~InForce(handlers[h].key)
            /\ handlers' = [handlers EXCEPT ![h].pc = "start"] /\ UNCHANGED answers
  /\ UNCHANGED <<iterations, stored, now, crashes>>

\* A session that is busy or has an iteration open refuses; a re-triage needs a
\* closed parent.  The iteration exists from here on.
Refused(b) == \/ Open # {}
              \/ ModeOf[b] = "retriage" /\ Made = {}
Refuse(h) ==
  /\ handlers[h].pc = "start" /\ Refused(handlers[h].body)
  /\ handlers' = [handlers EXCEPT ![h] = Idle]
  /\ UNCHANGED <<iterations, stored, answers, now, crashes>>

Start(h) ==
  /\ handlers[h].pc = "start" /\ ~Refused(handlers[h].body)
  /\ \E i \in Iteration :
       /\ \A j \in Iteration : j \in Made <=> j < i
       /\ iterations' = [iterations EXCEPT ![i] =
            [state |-> IF ModeOf[handlers[h].body] = "manual" THEN "pending" ELSE "running",
             key |-> handlers[h].key, body |-> handlers[h].body, at |-> now]]
       /\ handlers' = [handlers EXCEPT ![h].iter = i,
            ![h].pc = IF ModeOf[handlers[h].body] = "wait" THEN "wait" ELSE "record"]
  /\ UNCHANGED <<stored, answers, now, crashes>>

\* run_and_wait: to the end of the run, or until the timeout.
EndWait(h) ==
  /\ handlers[h].pc = "wait"
  /\ handlers' = [handlers EXCEPT ![h].pc = "record"]
  /\ UNCHANGED <<iterations, stored, answers, now, crashes>>

\* record_idempotency_key is INSERT OR REPLACE: whatever the key stood for.
Record(h) ==
  /\ handlers[h].pc = "record"
  /\ stored' = [stored EXCEPT ![handlers[h].key] =
                  [body |-> handlers[h].body, iter |-> handlers[h].iter,
                   until |-> now + TTL]]
  /\ Answered(h, handlers[h].iter, FALSE)
  /\ UNCHANGED <<iterations, now, crashes>>

\* A run ends; an operator runs, resumes or abandons one that waits for it.
Close(i) ==
  /\ i \in Open
  /\ iterations' = [iterations EXCEPT ![i].state = "closed"]
  /\ UNCHANGED <<stored, handlers, answers, now, crashes>>

\* The process dies with its handlers and its runs, and starts again.
Crash ==
  /\ crashes < MaxCrashes /\ crashes' = crashes + 1
  /\ handlers' = [h \in Handler |-> Idle]
  /\ iterations' = [i \in Iteration |->
       IF iterations[i].state = "running" THEN [iterations[i] EXCEPT !.state = "interrupted"]
                                          ELSE iterations[i]]
  /\ UNCHANGED <<stored, answers, now>>

Tick ==
  /\ now < MaxTime /\ now' = now + 1
  /\ UNCHANGED <<iterations, stored, handlers, answers, crashes>>

Next ==
  \/ \E h \in Handler, k \in Key, b \in Body : Receive(h, k, b)
  \/ \E h \in Handler : Lookup(h) \/ Refuse(h) \/ Start(h) \/ EndWait(h) \/ Record(h)
  \/ \E i \in Iteration : Close(i)
  \/ Crash \/ Tick

Spec == Init /\ [][Next]_vars

-----------------------------------------------------------------------------

TypeOK ==
  /\ iterations \in [Iteration -> [state : {"none", "pending", "running",
                                            "interrupted", "closed"},
                                   key : Key \cup {"none"}, body : Body \cup {"none"},
                                   at : 0..MaxTime]]
  /\ stored \in [Key -> [body : Body \cup {"none"}, iter : 0..MaxRuns, until : Nat]]
  /\ handlers \in [Handler -> [pc : {"idle", "lookup", "start", "wait", "record"},
                               key : Key \cup {"none"}, body : Body \cup {"none"},
                               iter : 0..MaxRuns]]
  /\ answers \subseteq [key : Key, body : Body, iter : Iteration, replayed : BOOLEAN]
  /\ now \in 1..MaxTime /\ crashes \in 0..MaxCrashes

\* Whatever is lost, repeated, overtaken or replaced, an answer names an
\* iteration that this key and this very request started: a client is never
\* told of a run it did not ask for (contract.replay).
AnswersNameTheirRun ==
  \A a \in answers : /\ iterations[a.iter].state # "none"
                     /\ iterations[a.iter].key = a.key
                     /\ iterations[a.iter].body = a.body

\* routes.py, trigger_iteration: "With a key the retry replays the first
\* response and starts nothing."  False: a second handler looks the key up, or
\* the process dies, before the first has recorded what it started.
OneRunPerKey ==
  \A i, j \in Made :
    (/\ iterations[i].key = iterations[j].key
     /\ iterations[i].body = iterations[j].body
     /\ iterations[i].at <= iterations[j].at
     /\ iterations[j].at < iterations[i].at + TTL) => i >= j
=============================================================================
