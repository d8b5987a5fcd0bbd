------------------------------ MODULE CulledRun ------------------------------
(***************************************************************************)
(* The program that semaphore culling leaves, running.  A task waits for   *)
(* the semaphores it still requires and for the initialisation of the one  *)
(* it acquires; everything culled is left to the units.  The units are     *)
(* external and are given the least they must do for the culls to be       *)
(* right, as the two passes count on it:                                   *)
(*  - tasks are handed to the units in program order, and a unit holds at  *)
(*    most queue tasks that are not finished (SemOptimizeQueue);           *)
(*  - a unit starts and finishes its tasks in order and holds at most pipe *)
(*    tasks that have started and not finished (SemOptimize).              *)
(***************************************************************************)
EXTENDS SemCulling

CONSTANT MaxTasks     \* bound on the tasks of a program, to state fairness

VARIABLES
  issued,   \* tasks handed out so far
  status    \* "waiting", "running" or "finished" of each task

runVars == <<vars, issued, status>>

RunInit ==
  /\ Init
  /\ issued = 0
  /\ status = [t \in Tasks |-> "waiting"]

Compile == Next /\ UNCHANGED <<issued, status>>

Earlier(t) == {e \in Tasks : e < t /\ unit[e] = unit[t] /\ unit[t] # NoUnit}
Unfinished(S) == {t \in S : status[t] # "finished"}
Running(S) == {t \in S : status[t] = "running"}

Issue ==
  /\ phase = "done" /\ issued < prog.tasks
  /\ unit[issued + 1] # NoUnit =>
       Cardinality(Unfinished(Earlier(issued + 1))) < prog.unit[unit[issued + 1]].queue
  /\ issued' = issued + 1
  /\ UNCHANGED <<vars, status>>

(* A semaphore completes when its consumer gives its credit back. *)
Completed(s) == s \in requires /\ status[Sem(s).consumer] = "finished"

(* Mutant: the fabric does not wait for the chains. *)
InitialisedAtOnce(s) == TRUE

Initialised(s) == \A c \in Chains(s) : Completed(c)

(* What a require waits for: the credit of the producer, or, for a          *)
(* broadcast semaphore, that the semaphore is there.                        *)
Filled(s) ==
  IF Sem(s).mode = "RW" THEN s \in acquires /\ status[Sem(s).producer] = "finished"
  ELSE Initialised(s)

Start(t) ==
  /\ t <= issued /\ status[t] = "waiting"
  /\ \A e \in Earlier(t) : status[e] # "waiting"
  /\ unit[t] # NoUnit => Cardinality(Running(Earlier(t))) < prog.unit[unit[t]].pipe
  /\ \A s \in AcquiredBy(t) : Initialised(s)
  /\ \A s \in requires : Sem(s).consumer = t => Filled(s)
  /\ status' = [status EXCEPT ![t] = "running"]
  /\ UNCHANGED <<vars, issued>>

Finish(t) ==
  /\ status[t] = "running"
  /\ \A e \in Earlier(t) : status[e] = "finished"
  /\ status' = [status EXCEPT ![t] = "finished"]
  /\ UNCHANGED <<vars, issued>>

RunTask(t) == t \in Tasks /\ (Start(t) \/ Finish(t))

RunNext == Compile \/ Issue \/ \E t \in Tasks : RunTask(t)

(* The compiler runs to its end; tasks are handed out as soon as there is   *)
(* room, and every unit works on by itself.                                 *)
RunSpec ==
  /\ RunInit /\ [][RunNext]_runVars
  /\ WF_runVars(Compile) /\ WF_runVars(Issue)
  /\ \A t \in 1 .. MaxTasks : WF_runVars(RunTask(t))

-----------------------------------------------------------------------------
(* What the lowered program orders is a dataflow, and the culled program    *)
(* still runs in its order, although it has lost the waits that said so.    *)
Dataflow == INSTANCE OrderedDataflow WITH
              before <- [t \in Tasks |->
                           {u \in Tasks : \E s \in Sems : <<u, t>> \in Orders(s)}],
              status <- status

RunsInOrder == Dataflow!Init /\ [][Dataflow!Next]_(Dataflow!vars)

(* If every chain that is left has both its semaphores, all tasks finish:   *)
(* no cull leaves half a handshake behind, and what is left of the waits    *)
(* does not tangle with the queues.                                         *)
RunsEnd ==
  (phase = "done" /\ \A a \in requires : Chains(a) \subseteq requires)
    ~> (\A t \in Tasks : status[t] = "finished")
=============================================================================
