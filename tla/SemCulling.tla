------------------------------ MODULE SemCulling ------------------------------
(***************************************************************************)
(* The passes --eaac-schedule, --eaac-sem-optimize and                     *)
(* --eaac-sem-optimize-queue: every task gets a hardware unit, then the    *)
(* semaphores whose waits follow from the order in which units work are    *)
(* culled, one require after another, each check reading what the culls    *)
(* before it have left (src/lib/eaac/Transforms/Schedule.cpp,              *)
(* SemOptimize.cpp, SemOptimizeQueue.cpp and SemAllocOp::cullSemaphore).   *)
(*                                                                         *)
(* A program is what these passes read of the IR: the kind of each task in *)
(* program order, the units of the eaac.schedule, and the semaphores, each *)
(* with its mode, the task that acquires it (none in R mode), the one that *)
(* requires it and the semaphores its sem_alloc chains from.               *)
(***************************************************************************)
EXTENDS Integers, FiniteSets, FiniteSetsExt

CONSTANTS Programs     \* the lowered programs the passes may be given

Kinds == {"matmul", "add", "dma"}
UnitTypes == {"gemm", "risc"}

Target(sem) == IF sem.mode = "RW" THEN sem.producer ELSE sem.consumer

(* What LowerAsyncToSemaphore leaves: a semaphore has one consumer, a task  *)
(* acquires at most one, and waits only for earlier tasks.                  *)
WellFormed(p) ==
  /\ p.tasks \in Nat /\ p.sems \in Nat /\ p.units \in Nat
  /\ p.kind \in [1 .. p.tasks -> Kinds]
  /\ p.unit \in [1 .. p.units -> [type : UnitTypes, pipe : Nat, queue : Nat]]
  /\ p.sem \in [1 .. p.sems -> [mode : {"RW", "R"}, producer : 0 .. p.tasks,
                                consumer : 1 .. p.tasks, chains : SUBSET (1 .. p.sems)]]
  /\ \A s \in 1 .. p.sems :
       /\ p.sem[s].mode = "RW" => p.sem[s].producer \in 1 .. p.sem[s].consumer - 1
       /\ \A c \in p.sem[s].chains : p.sem[c].consumer < Target(p.sem[s])
       /\ \A r \in 1 .. p.sems :
            p.sem[r].mode = "RW" /\ p.sem[s].mode = "RW"
              /\ p.sem[r].producer = p.sem[s].producer => r = s

ASSUME ProgramsAssumption == \A p \in Programs : WellFormed(p)

VARIABLES
  prog,      \* the lowered program
  phase,     \* "schedule", "optimize", "queue" or "done"; "no_unit" and "asserted" are crashes
  unit,      \* hw_unit of each task, 0 for none
  visiting,  \* the unit processImplicitSerialization is at
  todo,      \* the tasks of that unit elliminateImplicit has still to visit
  pending,   \* requireOps of the task being visited
  acquires,  \* the semaphores whose sem_acquire is still there
  requires,  \* the semaphores whose sem_require is still there
  allocs,    \* the semaphores whose sem_alloc is still there
  work       \* the work list of processQueueSerialization, by required semaphore

irState == <<acquires, requires, allocs>>
vars == <<prog, phase, unit, visiting, todo, pending, irState, work>>

Tasks == 1 .. prog.tasks
Units == 1 .. prog.units
Sems == 1 .. prog.sems
Sem(s) == prog.sem[s]
Chains(s) == Sem(s).chains

NoUnit == 0

Init ==
  /\ prog \in Programs
  /\ phase = "schedule"
  /\ unit = [t \in Tasks |-> NoUnit]
  /\ visiting = 0 /\ todo = {} /\ pending = {}
  /\ acquires = {s \in Sems : Sem(s).mode = "RW"}
  /\ requires = Sems /\ allocs = Sems
  /\ work = {}

-----------------------------------------------------------------------------
(* checkSchedule: the units an operation can run on; a dma operation does   *)
(* not implement the interface.                                             *)
Compatible(t) ==
  {u \in Units : \/ prog.kind[t] = "matmul" /\ prog.unit[u].type = "gemm"
                 \/ prog.kind[t] = "add" /\ prog.unit[u].type = "risc"}

Schedule ==
  /\ phase = "schedule"
  /\ \A t \in Tasks : prog.kind[t] # "dma" => Compatible(t) # {}
  /\ unit' = [t \in Tasks |-> IF Compatible(t) = {} THEN NoUnit ELSE Max(Compatible(t))]
  /\ phase' = "optimize"
  /\ UNCHANGED <<prog, visiting, todo, pending, irState, work>>

(* The symbol name of a null unit. *)
ScheduleFails ==
  /\ phase = "schedule"
  /\ \E t \in Tasks : prog.kind[t] # "dma" /\ Compatible(t) = {}
  /\ phase' = "no_unit"
  /\ UNCHANGED <<prog, unit, visiting, todo, pending, irState, work>>

-----------------------------------------------------------------------------
(* findDistance, for i before j on one unit. *)
Distance(i, j) == Cardinality({t \in Tasks : i < t /\ t <= j /\ unit[t] = unit[i]})

(* Mutant: off by one. *)
FarBeyond(i, j, u) == unit[i] = u /\ unit[j] = u /\ Distance(i, j) > prog.unit[u].pipe

(* On unit u, i is out of the pipeline before j enters it. *)
Far(i, j, u) == unit[i] = u /\ unit[j] = u /\ Distance(i, j) >= prog.unit[u].pipe

(* The semaphores whose alloc chains from s. *)
ChainedTo(s) == {a \in allocs : s \in Chains(a)}

(* The walk over the units, and over the tasks of one in pointer order. *)
NextUnit ==
  /\ phase = "optimize" /\ todo = {} /\ pending = {} /\ visiting < prog.units
  /\ visiting' = visiting + 1
  /\ todo' = {t \in Tasks : unit[t] = visiting + 1}
  /\ UNCHANGED <<prog, phase, unit, pending, irState, work>>

VisitTask ==
  /\ phase = "optimize" /\ pending = {}
  /\ \E t \in todo :
       /\ todo' = todo \ {t}
       /\ pending' = {s \in requires : Sem(s).consumer = t}
  /\ UNCHANGED <<prog, phase, unit, visiting, irState, work>>

(* The wait itself; a broadcast semaphore has no producer. *)
WaitImplied(s) == s \in acquires => Far(Sem(s).producer, Sem(s).consumer, visiting)

(* checkChain looks for the require at one end of a chain and the acquire   *)
(* or require at the other.                                                 *)
ChainEndsThere(s) == Chains(s) \cup ChainedTo(s) \subseteq requires

(* Mutant: what chains from the semaphore is not checked. *)
ChainsImpliedAbove(s) ==
  \A c \in Chains(s) : Far(Sem(c).consumer, Target(Sem(s)), visiting)

ChainsImplied(s) ==
  /\ \A c \in Chains(s) : Far(Sem(c).consumer, Target(Sem(s)), visiting)
  /\ \A a \in ChainedTo(s) : Far(Sem(s).consumer, Target(Sem(a)), visiting)

(* Mutant: the require stays behind. *)
CullSemaphoreHalf(s) ==
  /\ acquires' = acquires \ {s}
  /\ allocs' = IF ChainedTo(s) = {} THEN allocs \ {s} ELSE allocs
  /\ UNCHANGED requires

(* The users of the semaphore are erased, allocs that chain from it apart;  *)
(* its own alloc only if that leaves no user.                               *)
CullSemaphore(s) ==
  /\ acquires' = acquires \ {s}
  /\ requires' = requires \ {s}
  /\ allocs' = IF ChainedTo(s) = {} THEN allocs \ {s} ELSE allocs

CullRequired(s) ==
  /\ s \in pending /\ phase = "optimize"
  /\ WaitImplied(s) /\ ChainEndsThere(s) /\ ChainsImplied(s)
  /\ CullSemaphore(s)
  /\ pending' = pending \ {s}
  /\ UNCHANGED <<prog, phase, unit, visiting, todo, work>>

KeepRequired(s) ==
  /\ s \in pending /\ phase = "optimize"
  /\ WaitImplied(s) => ChainEndsThere(s) /\ ~ ChainsImplied(s)
  /\ pending' = pending \ {s}
  /\ UNCHANGED <<prog, phase, unit, visiting, todo, irState, work>>

(* The assertions of checkChain. *)
CheckFails(s) ==
  /\ s \in pending /\ phase = "optimize"
  /\ WaitImplied(s) /\ ~ ChainEndsThere(s)
  /\ phase' = "asserted"
  /\ UNCHANGED <<prog, unit, visiting, todo, pending, irState, work>>

-----------------------------------------------------------------------------
(* Mutant: culled semaphores are collected with the others. *)
CrossUnitAll(s) ==
  /\ Sem(s).mode = "RW"
  /\ unit[Sem(s).consumer] # NoUnit /\ unit[Sem(s).producer] # NoUnit

(* The requires that wait for another unit. *)
CrossUnit(s) ==
  /\ s \in requires /\ s \in acquires
  /\ unit[Sem(s).consumer] # NoUnit /\ unit[Sem(s).producer] # NoUnit
  /\ unit[Sem(s).consumer] # unit[Sem(s).producer]

CollectWork ==
  /\ phase = "optimize" /\ todo = {} /\ pending = {} /\ visiting = prog.units
  /\ phase' = "queue"
  /\ work' = {s \in Sems : CrossUnit(s)}
  /\ UNCHANGED <<prog, unit, visiting, todo, pending, irState>>

(* In the order of the walk over the consumers. *)
FirstWork(s) == s \in work /\ \A r \in work : Sem(s).consumer <= Sem(r).consumer

(* Mutant: the consumer's own operation is counted. *)
QueuedBehindOne(i, j) ==
  Cardinality({t \in Tasks : i <= t /\ t < j /\ unit[t] = unit[i]})

(* The operations that the unit of i has been given after i and before j,   *)
(* up to the last instance of its kind of work before j.                    *)
QueuedBehind(i, j) ==
  Cardinality({t \in Tasks : i < t /\ t < j /\ unit[t] = unit[i]})

OutOfQueue(i, j) == QueuedBehind(i, j) >= prog.unit[unit[i]].queue

(* findSemAlloc *)
AcquiredBy(t) == {r \in acquires : Sem(r).producer = t}

CullQueued(s) ==
  /\ phase = "queue" /\ FirstWork(s)
  /\ OutOfQueue(Sem(s).producer, Sem(s).consumer)
  /\ \E r \in AcquiredBy(Sem(s).producer) :
       Chains(r) = {} /\ ChainedTo(r) = {} /\ CullSemaphore(r)
  /\ work' = work \ {s}
  /\ UNCHANGED <<prog, phase, unit, visiting, todo, pending>>

KeepQueued(s) ==
  /\ phase = "queue" /\ FirstWork(s)
  /\ OutOfQueue(Sem(s).producer, Sem(s).consumer) =>
       \E r \in AcquiredBy(Sem(s).producer) : Chains(r) # {} \/ ChainedTo(r) # {}
  /\ work' = work \ {s}
  /\ UNCHANGED <<prog, phase, unit, visiting, todo, pending, irState>>

(* The consumer's number is compared with what lies past the end of the     *)
(* table: if they happen to agree the item is passed over.                  *)
PassOver(s) ==
  /\ phase = "queue" /\ FirstWork(s)
  /\ work' = work \ {s}
  /\ UNCHANGED <<prog, phase, unit, visiting, todo, pending, irState>>

Done ==
  /\ phase = "queue" /\ work = {}
  /\ phase' = "done"
  /\ UNCHANGED <<prog, unit, visiting, todo, pending, irState, work>>

Next ==
  \/ Schedule \/ ScheduleFails \/ NextUnit \/ VisitTask \/ CollectWork \/ Done
  \/ \E s \in Sems :
       \/ CullRequired(s) \/ KeepRequired(s) \/ CheckFails(s)
       \/ CullQueued(s) \/ KeepQueued(s) \/ PassOver(s)

(* The passes are loops over finite lists. *)
Spec == Init /\ [][Next]_vars /\ WF_vars(Next)

-----------------------------------------------------------------------------
TypeOK ==
  /\ WellFormed(prog)
  /\ phase \in {"schedule", "optimize", "queue", "done", "no_unit", "asserted"}
  /\ unit \in [Tasks -> {NoUnit} \cup Units]
  /\ visiting \in 0 .. prog.units
  /\ todo \in SUBSET Tasks
  /\ pending \in SUBSET requires
  /\ acquires \in SUBSET Sems /\ requires \in SUBSET Sems /\ allocs \in SUBSET Sems
  /\ acquires = {s \in requires : Sem(s).mode = "RW"}
  /\ requires \subseteq allocs
  /\ work \in SUBSET acquires

(* The pairs of tasks a semaphore keeps in order: its producer and its      *)
(* consumer, and the end of each one it chains from and its own beginning.  *)
Orders(s) ==
  (IF Sem(s).mode = "RW" THEN {<<Sem(s).producer, Sem(s).consumer>>} ELSE {})
    \cup {<<Sem(c).consumer, Target(Sem(s))>> : c \in Chains(s)}

(* The tasks the unit of i is given before j, i itself included. *)
GivenBefore(i, j) == {t \in Tasks : i <= t /\ t < j /\ unit[t] = unit[i]}

(* j enters the pipeline of i's unit only once i has left it. *)
PipeKeeps(i, j) ==
  /\ unit[i] # NoUnit /\ unit[j] = unit[i]
  /\ Cardinality(GivenBefore(i, j)) >= prog.unit[unit[i]].pipe

(* So many tasks are queued at i's unit before j that the queue has lost i. *)
QueueKeeps(i, j) ==
  /\ unit[i] # NoUnit /\ unit[j] \notin {unit[i], NoUnit}
  /\ Cardinality(GivenBefore(i, j)) > prog.unit[unit[i]].queue

Implied(i, j) == PipeKeeps(i, j) \/ QueueKeeps(i, j)

(* Whatever is culled, in whatever order: a pair of tasks the lowered       *)
(* program kept in order is still kept in order by the semaphores that are  *)
(* left, or by the units.  A chain counts as lost as soon as either of its  *)
(* semaphores is culled.                                                    *)
OrderPreserved ==
  \A s \in Sems : \A e \in Orders(s) :
    \/ Implied(e[1], e[2])
    \/ s \in requires /\ \A c \in Chains(s) : <<Sem(c).consumer, Target(Sem(s))>> = e => c \in requires

(* The order in which the tasks of a unit are visited makes no difference:  *)
(* when the pass ends normally every semaphore whose orders are all implied *)
(* by one unit has been culled, whichever way the chains between such       *)
(* semaphores were cut.                                                     *)
NothingImpliedIsKept ==
  phase \in {"queue", "done"} =>
    \A s \in requires :
      ~ /\ unit[Sem(s).consumer] # NoUnit
        /\ \A e \in Orders(s) : PipeKeeps(e[1], e[2])
        /\ \A a \in Sems : s \in Chains(a) => PipeKeeps(Sem(s).consumer, Target(Sem(a)))

(* The work list is made before anything is culled and used while it is:    *)
(* the semaphore an item's producer acquires is still there, and is the one *)
(* its consumer waits for.                                                  *)
WorkIsCurrent ==
  \A s \in work : AcquiredBy(Sem(s).producer) = {s} /\ s \in requires

-----------------------------------------------------------------------------
(* Ops.td: an alloc waits for the completion of the semaphores it chains    *)
(* from, so something completes them.                                       *)
AwaitedSemaphoresComplete ==
  phase = "done" => \A a \in requires : Chains(a) \subseteq requires
=============================================================================
