--------------------------- MODULE OrderedDataflow ---------------------------
(***************************************************************************)
(* What a compiled program promises about its asynchronous execution: the  *)
(* tasks run concurrently, but a task starts only after every task that    *)
(* the program puts before it has finished, and every task finishes.       *)
(***************************************************************************)
VARIABLES before,   \* before[t]: the tasks that must finish before t starts
          status    \* status[t]: "waiting", "running" or "finished"

vars == <<before, status>>

Tasks == DOMAIN status

Init == \A t \in Tasks : status[t] = "waiting"

Start(t) ==
  /\ status[t] = "waiting"
  /\ \A u \in before[t] : status[u] = "finished"
  /\ status' = [status EXCEPT ![t] = "running"]
  /\ UNCHANGED before

Finish(t) ==
  /\ status[t] = "running"
  /\ status' = [status EXCEPT ![t] = "finished"]
  /\ UNCHANGED before

Next == \E t \in Tasks : Start(t) \/ Finish(t)

Spec == Init /\ [][Next]_vars /\ WF_vars(Next)
=============================================================================
