------------------------------ MODULE Session ------------------------------
(***************************************************************************)
(* What a session promises to whoever asks it to run iterations, with no   *)
(* word of slots, epochs, processes or restarts: every iteration that is   *)
(* asked for waits, is run at most once, alone, and is then over.  RunSlot *)
(* implements this (RunSlot!ServesAsSession).                              *)
(***************************************************************************)
CONSTANT Iteration

VARIABLE status     \* how far each iteration has come

Init == status = [i \in Iteration |-> "absent"]

\* A request is given a row of its own.
Ask(i) ==
  /\ status[i] = "absent"
  /\ status' = [status EXCEPT ![i] = "waiting"]

\* One session runs one iteration at a time.
Run(i) ==
  /\ status[i] = "waiting"
  /\ \A j \in Iteration : status[j] # "running"
  /\ status' = [status EXCEPT ![i] = "running"]

\* It ended, failed, was refused, or its process is gone.
Leave(i) ==
  /\ status[i] \in {"waiting", "running"}
  /\ status' = [status EXCEPT ![i] = "over"]

Next == \E i \in Iteration : Ask(i) \/ Run(i) \/ Leave(i)

Spec == Init /\ [][Next]_status
=============================================================================
