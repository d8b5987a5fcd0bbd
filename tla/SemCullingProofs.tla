-------------------------- MODULE SemCullingProofs --------------------------
(***************************************************************************)
(* Machine-checked proofs that semaphore culling loses no order, for every *)
(* set of well-formed programs, whatever the numbers of tasks, semaphores  *)
(* and units and the depths of their pipelines and queues.                 *)
(***************************************************************************)
EXTENDS CulledRun, Extrema, FiniteSetTheorems, TLAPS

(* Where the passes stand. *)
Progress ==
  /\ phase = "schedule" => requires = Sems /\ allocs = Sems
  /\ pending # {} \/ todo # {} => visiting # 0
  /\ phase \in {"schedule", "queue", "done"} => pending = {} /\ todo = {}
  /\ phase \in {"schedule", "optimize"} => work = {}

(* The work list holds only waits across units. *)
WorkCrosses ==
  \A s \in work : /\ unit[Sem(s).consumer] # NoUnit /\ unit[Sem(s).producer] # NoUnit
                  /\ unit[Sem(s).consumer] # unit[Sem(s).producer]

IInv == TypeOK /\ Progress /\ WorkCrosses /\ OrderPreserved

-----------------------------------------------------------------------------
(* What the code counts and what the units do, compared. *)

LEMMA GivenBeforeFinite ==
  ASSUME TypeOK, NEW i \in Tasks, NEW j \in Tasks
  PROVE  /\ IsFiniteSet({t \in Tasks : i < t /\ t < j /\ unit[t] = unit[i]})
         /\ Cardinality({t \in Tasks : i < t /\ t < j /\ unit[t] = unit[i]}) \in Nat
<1>1. IsFiniteSet(Tasks)
  BY FS_Interval DEF Tasks, TypeOK, WellFormed
<1> QED BY <1>1, FS_Subset, FS_CardinalityType

LEMMA GivenBeforeCounted ==
  ASSUME TypeOK, NEW i \in Tasks, NEW j \in Tasks, i < j
  PROVE  Cardinality(GivenBefore(i, j)) = QueuedBehind(i, j) + 1
<1> DEFINE X == {t \in Tasks : i < t /\ t < j /\ unit[t] = unit[i]}
<1>1. IsFiniteSet(X)
  BY GivenBeforeFinite
<1>2. GivenBefore(i, j) = X \cup {i} /\ i \notin X
  BY DEF GivenBefore, Tasks, TypeOK, WellFormed
<1>3. QED BY <1>1, <1>2, FS_AddElement DEF QueuedBehind

LEMMA DistanceCounted ==
  ASSUME TypeOK, NEW i \in Tasks, NEW j \in Tasks, i < j, unit[i] = unit[j]
  PROVE  Distance(i, j) = Cardinality(GivenBefore(i, j))
<1> DEFINE X == {t \in Tasks : i < t /\ t < j /\ unit[t] = unit[i]}
<1>1. IsFiniteSet(X)
  BY GivenBeforeFinite
<1>2. GivenBefore(i, j) = X \cup {i} /\ i \notin X
  BY DEF GivenBefore, Tasks, TypeOK, WellFormed
<1>3. {t \in Tasks : i < t /\ t <= j /\ unit[t] = unit[i]} = X \cup {j} /\ j \notin X
  BY DEF Tasks, TypeOK, WellFormed
<1>4. Distance(i, j) = Cardinality(X \cup {j})
  BY <1>3 DEF Distance
<1>5. Cardinality(X \cup {j}) = Cardinality(X) + 1
  BY <1>1, <1>3, FS_AddElement
<1>6. Cardinality(X \cup {i}) = Cardinality(X) + 1
  BY <1>1, <1>2, FS_AddElement
<1>7. QED BY <1>2, <1>4, <1>5, <1>6

(* The check of the first pass is right about the pipeline. *)
LEMMA FarIsKept ==
  ASSUME TypeOK, NEW i \in Tasks, NEW j \in Tasks, i < j, visiting # 0, Far(i, j, visiting)
  PROVE  Implied(i, j)
<1>1. PipeKeeps(i, j)
  BY DistanceCounted DEF Far, PipeKeeps, NoUnit
<1>2. QED BY <1>1 DEF Implied

(* The check of the second one is right about the queue. *)
LEMMA OutOfQueueIsKept ==
  ASSUME TypeOK, NEW i \in Tasks, NEW j \in Tasks, i < j, OutOfQueue(i, j),
         unit[i] # NoUnit, unit[j] # NoUnit, unit[j] # unit[i]
  PROVE  Implied(i, j)
<1>1. QueuedBehind(i, j) \in Nat
  BY GivenBeforeFinite DEF QueuedBehind
<1>2. unit[i] \in Units /\ prog.unit[unit[i]].queue \in Nat
  BY DEF TypeOK, WellFormed, Units, Tasks, NoUnit
<1>3. Cardinality(GivenBefore(i, j)) > prog.unit[unit[i]].queue
  BY <1>1, <1>2, GivenBeforeCounted DEF OutOfQueue
<1>4. QED BY <1>3 DEF QueueKeeps, Implied

(* What a semaphore orders comes in program order. *)
LEMMA OrdersForward ==
  ASSUME TypeOK, NEW s \in Sems
  PROVE  /\ Sem(s).consumer \in Tasks
         /\ Sem(s).mode \in {"RW", "R"}
         /\ Sem(s).mode = "RW" => Sem(s).producer \in Tasks /\ Sem(s).producer < Sem(s).consumer
         /\ Target(Sem(s)) \in Tasks
         /\ Chains(s) \subseteq Sems
         /\ \A c \in Chains(s) : Sem(c).consumer \in Tasks /\ Sem(c).consumer < Target(Sem(s))
<1>1. prog.sem \in [1 .. prog.sems -> [mode : {"RW", "R"}, producer : 0 .. prog.tasks,
                                       consumer : 1 .. prog.tasks,
                                       chains : SUBSET (1 .. prog.sems)]]
  BY DEF TypeOK, WellFormed
<1>2. /\ Sem(s).consumer \in 1 .. prog.tasks /\ Sem(s).mode \in {"RW", "R"}
      /\ Sem(s).producer \in 0 .. prog.tasks /\ Chains(s) \subseteq 1 .. prog.sems
  BY <1>1 DEF Sem, Sems, Chains
<1>3. Sem(s).mode = "RW" => Sem(s).producer \in 1 .. Sem(s).consumer - 1
  BY DEF TypeOK, WellFormed, Sem, Sems
<1>4. \A c \in Chains(s) : Sem(c).consumer \in 1 .. prog.tasks /\ Sem(c).consumer < Target(Sem(s))
  BY <1>1, <1>2 DEF TypeOK, WellFormed, Sem, Sems, Chains
<1>5. prog.tasks \in Nat
  BY DEF TypeOK, WellFormed
<1>6. Sem(s).mode = "RW" => Sem(s).producer \in 1 .. prog.tasks /\ Sem(s).producer < Sem(s).consumer
  BY <1>2, <1>3, <1>5
<1>7. QED BY <1>2, <1>4, <1>6 DEF Tasks, Sems, Target

-----------------------------------------------------------------------------
(* What one cull needs and does, for both passes: the ends of the           *)
(* semaphore's wait and of every chain that is still there are implied.     *)
CullAllowed(s) ==
  /\ s \in requires
  /\ Sem(s).mode = "RW" => Implied(Sem(s).producer, Sem(s).consumer)
  /\ \A c \in Chains(s) : Implied(Sem(c).consumer, Target(Sem(s)))
  /\ \A a \in ChainedTo(s) : Implied(Sem(s).consumer, Target(Sem(a)))

LEMMA ImpliedUnchanged ==
  ASSUME UNCHANGED <<prog, unit>>
  PROVE  /\ \A i, j : Implied(i, j)' <=> Implied(i, j)
         /\ Sems' = Sems
         /\ \A s : Orders(s)' = Orders(s)
         /\ \A s : Chains(s)' = Chains(s)
         /\ \A s : Sem(s)' = Sem(s)
BY DEF Implied, PipeKeeps, QueueKeeps, GivenBefore, Tasks, Orders, Sem, Sems, Chains

(* A cull that is allowed loses no order. *)
LEMMA CullPreservesOrder ==
  ASSUME IInv, UNCHANGED <<prog, unit>>, NEW s \in Sems, CullAllowed(s), CullSemaphore(s)
  PROVE  OrderPreserved'
<1> SUFFICES ASSUME NEW r \in Sems, NEW e \in Orders(r), ~ Implied(e[1], e[2])
             PROVE  /\ r \in requires'
                    /\ \A c \in Chains(r) :
                         <<Sem(c).consumer, Target(Sem(r))>> = e => c \in requires'
  BY ImpliedUnchanged DEF OrderPreserved
<1>1. /\ r \in requires
      /\ \A c \in Chains(r) : <<Sem(c).consumer, Target(Sem(r))>> = e => c \in requires
  BY DEF IInv, OrderPreserved
<1>2. r # s
  BY DEF CullAllowed, Orders
<1>3. r \in allocs
  BY <1>1 DEF IInv, TypeOK
<1>4. ASSUME NEW c \in Chains(r), <<Sem(c).consumer, Target(Sem(r))>> = e
      PROVE  c # s
  BY <1>3, <1>4 DEF CullAllowed, ChainedTo
<1>5. QED BY <1>1, <1>2, <1>4 DEF CullSemaphore

LEMMA CullPreservesTypes ==
  ASSUME TypeOK, UNCHANGED <<prog, unit>>, NEW s \in Sems, s \in requires, CullSemaphore(s)
  PROVE  /\ acquires' \in SUBSET Sems' /\ requires' \in SUBSET Sems' /\ allocs' \in SUBSET Sems'
         /\ acquires' = {r \in requires' : Sem(r)'.mode = "RW"}
         /\ requires' \subseteq allocs'
         /\ requires' = requires \ {s} /\ acquires' = acquires \ {s}
BY DEF TypeOK, CullSemaphore, Sem, Sems

-----------------------------------------------------------------------------
LEMMA InitIInv == Init => IInv
<1> SUFFICES ASSUME Init PROVE IInv
  OBVIOUS
<1>1. WellFormed(prog)
  BY ProgramsAssumption DEF Init
<1>2. TypeOK
  BY <1>1 DEF Init, TypeOK, WellFormed, Sems, Sem, Tasks, Units, NoUnit
<1>3. OrderPreserved
  <2>1. \A s \in Sems : Chains(s) \subseteq Sems
    BY <1>2, OrdersForward
  <2>2. QED BY <2>1 DEF Init, OrderPreserved
<1>4. Progress /\ WorkCrosses
  BY DEF Init, Progress, WorkCrosses
<1>5. QED BY <1>2, <1>3, <1>4 DEF IInv

(* A require of the first pass may be culled. *)
LEMMA RequiredAllowed ==
  ASSUME IInv, NEW s \in Sems, CullRequired(s)
  PROVE  CullAllowed(s)
<1>1. TypeOK /\ visiting # 0 /\ s \in requires
  BY DEF IInv, CullRequired, Progress, TypeOK
<1>2. Sem(s).mode = "RW" => Implied(Sem(s).producer, Sem(s).consumer)
  <2>1. Sem(s).mode = "RW" => s \in acquires
    BY <1>1 DEF TypeOK
  <2>2. QED BY <1>1, <2>1, OrdersForward, FarIsKept DEF CullRequired, WaitImplied
<1>3. \A c \in Chains(s) : Implied(Sem(c).consumer, Target(Sem(s)))
  BY <1>1, OrdersForward, FarIsKept DEF CullRequired, ChainsImplied
<1>4. \A a \in ChainedTo(s) : Implied(Sem(s).consumer, Target(Sem(a)))
  <2> SUFFICES ASSUME NEW a \in ChainedTo(s) PROVE Implied(Sem(s).consumer, Target(Sem(a)))
    OBVIOUS
  <2>1. a \in Sems /\ s \in Chains(a)
    BY <1>1 DEF ChainedTo, TypeOK
  <2>2. Far(Sem(s).consumer, Target(Sem(a)), visiting)
    BY DEF CullRequired, ChainsImplied
  <2>3. QED BY <1>1, <2>1, <2>2, OrdersForward, FarIsKept
<1>5. QED BY <1>1, <1>2, <1>3, <1>4 DEF CullAllowed

(* The semaphore the second pass finds through the producer is the one the  *)
(* consumer of the item waits for.                                          *)
LEMMA WorkFound ==
  ASSUME TypeOK, NEW s \in work
  PROVE  AcquiredBy(Sem(s).producer) = {s} /\ s \in requires /\ s \in Sems
<1>1. s \in acquires /\ s \in requires /\ s \in Sems /\ Sem(s).mode = "RW"
  BY DEF TypeOK
<1>2. \A r \in acquires : r \in Sems /\ Sem(r).mode = "RW"
  BY DEF TypeOK
<1>3. \A r \in acquires : Sem(r).producer = Sem(s).producer => r = s
  BY <1>1, <1>2 DEF TypeOK, WellFormed, Sem, Sems
<1>4. QED BY <1>1, <1>3 DEF AcquiredBy

LEMMA QueuedAllowed ==
  ASSUME IInv, NEW s \in Sems, CullQueued(s)
  PROVE  CullAllowed(s) /\ CullSemaphore(s)
<1>1. TypeOK /\ s \in work
  BY DEF IInv, CullQueued, FirstWork
<1>2. Chains(s) = {} /\ ChainedTo(s) = {} /\ CullSemaphore(s)
  BY <1>1, WorkFound DEF CullQueued
<1>3. Implied(Sem(s).producer, Sem(s).consumer)
  <2>1. Sem(s).mode = "RW"
    BY <1>1 DEF TypeOK
  <2>2. /\ unit[Sem(s).consumer] # NoUnit /\ unit[Sem(s).producer] # NoUnit
        /\ unit[Sem(s).consumer] # unit[Sem(s).producer]
    BY <1>1 DEF IInv, WorkCrosses
  <2>3. QED BY <1>1, <2>1, <2>2, OrdersForward, OutOfQueueIsKept DEF CullQueued
<1>4. QED BY <1>1, <1>2, <1>3, WorkFound DEF CullAllowed

-----------------------------------------------------------------------------
(* Steps that leave the semaphores and the units alone keep the order.      *)
LEMMA OrderUnchanged ==
  ASSUME OrderPreserved, UNCHANGED <<prog, unit, requires>>
  PROVE  OrderPreserved'
BY ImpliedUnchanged DEF OrderPreserved

LEMMA WellFormedUnchanged ==
  ASSUME TypeOK, UNCHANGED prog
  PROVE  WellFormed(prog)' /\ Tasks' = Tasks /\ Sems' = Sems /\ Units' = Units
         /\ \A s : Sem(s)' = Sem(s)
BY DEF TypeOK, Tasks, Sems, Units, Sem

LEMMA ScheduleStep == IInv /\ Schedule => IInv'
<1> SUFFICES ASSUME IInv, Schedule PROVE IInv'
  OBVIOUS
<1>1. TypeOK /\ requires = Sems /\ allocs = Sems
  BY DEF IInv, Progress, Schedule
<1>2. \A t \in Tasks : Compatible(t) # {} => Max(Compatible(t)) \in Units
  <2> SUFFICES ASSUME NEW t \in Tasks, Compatible(t) # {} PROVE Max(Compatible(t)) \in Units
    OBVIOUS
  <2>1. prog.units \in Nat /\ Compatible(t) \in SUBSET (1 .. prog.units)
    BY <1>1 DEF TypeOK, WellFormed, Compatible, Units
  <2>2. QED BY <2>1, MaxIsGreatest DEF Units
<1>3. TypeOK'
  BY <1>1, <1>2, WellFormedUnchanged DEF TypeOK, Schedule, irState, NoUnit
<1>4. \A s \in Sems' : s \in requires' /\ Chains(s)' \subseteq requires'
  BY <1>1, OrdersForward DEF Schedule, irState, Sems, Chains, Sem
<1>5. OrderPreserved'
  BY <1>4 DEF OrderPreserved
<1>6. Progress' /\ WorkCrosses'
  <2>1. work = {}
    BY DEF IInv, Progress, Schedule
  <2> QED BY <2>1, <1>1 DEF IInv, Progress, Schedule, WorkCrosses, irState
<1>7. QED BY <1>3, <1>5, <1>6 DEF IInv

(* The steps that only move the passes on. *)
LEMMA MovingSteps ==
  ASSUME IInv,
         \/ ScheduleFails \/ NextUnit \/ VisitTask \/ CollectWork \/ Done
         \/ \E s \in Sems : KeepRequired(s) \/ CheckFails(s) \/ KeepQueued(s) \/ PassOver(s)
         \/ UNCHANGED vars
  PROVE  IInv'
<1>1. TypeOK /\ UNCHANGED <<prog, unit, acquires, requires, allocs>>
  BY DEF IInv, ScheduleFails, NextUnit, VisitTask, CollectWork, Done, KeepRequired,
         CheckFails, KeepQueued, PassOver, irState, vars
<1>2. OrderPreserved'
  BY <1>1, OrderUnchanged DEF IInv
<1>3. WellFormed(prog)' /\ Tasks' = Tasks /\ Sems' = Sems /\ Units' = Units
      /\ \A s : Sem(s)' = Sem(s)
  BY <1>1, WellFormedUnchanged
<1>4. prog.units \in Nat
  BY <1>1 DEF TypeOK, WellFormed
<1>5. phase' \in {"schedule", "optimize", "queue", "done", "no_unit", "asserted"}
      /\ visiting' \in 0 .. prog.units
      /\ todo' \in SUBSET Tasks /\ pending' \in SUBSET requires
      /\ work' \in SUBSET acquires
  <2>1. CASE NextUnit
    BY <2>1, <1>1, <1>4 DEF NextUnit, TypeOK
  <2>2. CASE VisitTask
    BY <2>2, <1>1 DEF VisitTask, TypeOK
  <2>3. CASE CollectWork
    BY <2>3, <1>1 DEF CollectWork, CrossUnit, TypeOK
  <2>4. CASE ScheduleFails \/ Done \/ UNCHANGED vars
    BY <2>4, <1>1 DEF ScheduleFails, Done, vars, TypeOK
  <2>5. CASE \E s \in Sems : KeepRequired(s) \/ CheckFails(s) \/ KeepQueued(s) \/ PassOver(s)
    BY <2>5, <1>1 DEF KeepRequired, CheckFails, KeepQueued, PassOver, TypeOK
  <2>6. QED BY <2>1, <2>2, <2>3, <2>4, <2>5
<1>6. TypeOK'
  BY <1>1, <1>3, <1>5 DEF TypeOK
<1>7. Progress'
  <2>1. CASE NextUnit
    BY <2>1, <1>1 DEF NextUnit, IInv, Progress, TypeOK
  <2>2. CASE VisitTask
    BY <2>2 DEF VisitTask, IInv, Progress
  <2>3. CASE CollectWork
    BY <2>3 DEF CollectWork, IInv, Progress
  <2>4. CASE ScheduleFails \/ Done \/ UNCHANGED vars
    BY <2>4, <1>1, <1>3 DEF ScheduleFails, Done, vars, IInv, Progress
  <2>5. CASE \E s \in Sems : KeepRequired(s) \/ CheckFails(s) \/ KeepQueued(s) \/ PassOver(s)
    BY <2>5 DEF KeepRequired, CheckFails, KeepQueued, PassOver, IInv, Progress
  <2>6. QED BY <2>1, <2>2, <2>3, <2>4, <2>5
<1>8. WorkCrosses'
  <2>1. CASE CollectWork
    BY <2>1, <1>1, <1>3 DEF CollectWork, CrossUnit, WorkCrosses, IInv
  <2>2. CASE ~ CollectWork
    <3>1. work' \subseteq work
      BY <2>2 DEF ScheduleFails, NextUnit, VisitTask, Done, KeepRequired,
             CheckFails, KeepQueued, PassOver, irState, vars
    <3>2. QED BY <3>1, <1>1, <1>3 DEF WorkCrosses, IInv
  <2>3. QED BY <2>1, <2>2
<1>9. QED BY <1>2, <1>6, <1>7, <1>8 DEF IInv

(* The two steps that cull. *)
LEMMA CullingSteps ==
  ASSUME IInv, NEW s \in Sems, CullRequired(s) \/ CullQueued(s)
  PROVE  IInv'
<1>1. TypeOK /\ UNCHANGED <<prog, unit, visiting, todo>> /\ phase' = phase
      /\ phase \in {"optimize", "queue"}
  BY DEF IInv, CullRequired, CullQueued
<1>2. CullAllowed(s) /\ CullSemaphore(s)
  BY RequiredAllowed, QueuedAllowed DEF CullRequired
<1>3. OrderPreserved'
  BY <1>1, <1>2, CullPreservesOrder
<1>4. /\ acquires' \in SUBSET Sems' /\ requires' \in SUBSET Sems' /\ allocs' \in SUBSET Sems'
      /\ acquires' = {r \in requires' : Sem(r)'.mode = "RW"}
      /\ requires' \subseteq allocs'
      /\ requires' = requires \ {s} /\ acquires' = acquires \ {s}
  BY <1>1, <1>2, CullPreservesTypes DEF CullAllowed
<1>5. pending' \in SUBSET requires' /\ work' \in SUBSET acquires'
  <2>1. CASE CullRequired(s)
    BY <2>1, <1>1, <1>4 DEF CullRequired, IInv, Progress, TypeOK
  <2>2. CASE CullQueued(s)
    BY <2>2, <1>1, <1>4 DEF CullQueued, IInv, Progress, TypeOK
  <2>3. QED BY <2>1, <2>2
<1>6. TypeOK'
  BY <1>1, <1>4, <1>5, WellFormedUnchanged DEF TypeOK
<1>7. Progress'
  BY <1>1 DEF IInv, Progress, CullRequired, CullQueued
<1>8. WorkCrosses'
  <2>1. work' \subseteq work
    BY DEF CullRequired, CullQueued
  <2>2. QED BY <2>1, <1>1, WellFormedUnchanged DEF IInv, WorkCrosses
<1>9. QED BY <1>3, <1>6, <1>7, <1>8 DEF IInv

LEMMA NextIInv == IInv /\ [Next]_vars => IInv'
BY ScheduleStep, MovingSteps, CullingSteps DEF Next

THEOREM CullingInvariant == Spec => []IInv
<1>1. QED BY InitIInv, NextIInv, PTL DEF Spec

-----------------------------------------------------------------------------
(* Type correctness. *)
THEOREM CullingTypeCorrect == Spec => []TypeOK
<1>1. IInv => TypeOK
  BY DEF IInv
<1>2. QED BY <1>1, CullingInvariant, PTL

(* Whatever is culled, every order of the lowered program is still kept, by *)
(* a semaphore that is left or by the units.                                *)
THEOREM CullingPreservesOrder == Spec => []OrderPreserved
<1>1. IInv => OrderPreserved
  BY DEF IInv
<1>2. QED BY <1>1, CullingInvariant, PTL

(* An item of the work list never loses the semaphore it is about to        *)
(* another item.                                                            *)
THEOREM WorkStaysCurrent == Spec => []WorkIsCurrent
<1>1. IInv => WorkIsCurrent
  BY WorkFound DEF IInv, WorkIsCurrent
<1>2. QED BY <1>1, CullingInvariant, PTL
-----------------------------------------------------------------------------
(* Nothing that the pipelines imply is left.  What the walk has still to    *)
(* visit is all there is to cull.                                           *)
Dispensable(s) ==
  /\ unit[Sem(s).consumer] # NoUnit
  /\ \A e \in Orders(s) : PipeKeeps(e[1], e[2])
  /\ \A a \in Sems : s \in Chains(a) => PipeKeeps(Sem(s).consumer, Target(Sem(a)))

Unvisited(s) ==
  \/ unit[Sem(s).consumer] > visiting
  \/ unit[Sem(s).consumer] = visiting /\ (Sem(s).consumer \in todo \/ s \in pending)

VisitInv ==
  /\ phase = "schedule" => visiting = 0
  /\ \A t \in todo : unit[t] = visiting
  /\ \A s \in pending : unit[Sem(s).consumer] = visiting
  /\ phase = "optimize" => \A s \in requires : Dispensable(s) => Unvisited(s)
  /\ phase \in {"queue", "done"} => \A s \in requires : ~ Dispensable(s)

LEMMA DispensableUnchanged ==
  ASSUME UNCHANGED <<prog, unit>>
  PROVE  \A s : Dispensable(s)' <=> Dispensable(s)
BY ImpliedUnchanged DEF Dispensable, PipeKeeps, GivenBefore, Tasks

(* What the pipeline keeps in order passes the check of the first pass.     *)
LEMMA KeptIsFar ==
  ASSUME TypeOK, NEW i \in Tasks, NEW j \in Tasks, i < j, PipeKeeps(i, j),
         unit[i] = visiting \/ unit[j] = visiting
  PROVE  Far(i, j, visiting) /\ unit[i] = visiting /\ unit[j] = visiting
BY DistanceCounted DEF Far, PipeKeeps

(* The first pass does not keep what the pipelines imply. *)
LEMMA DispensableIsCulled ==
  ASSUME IInv, NEW s \in requires, Dispensable(s), unit[Sem(s).consumer] = visiting
  PROVE  WaitImplied(s) /\ ChainsImplied(s)
<1>1. TypeOK /\ s \in Sems
  BY DEF IInv, TypeOK
<1>2. Sem(s).mode = "RW" =>
        /\ Far(Sem(s).producer, Sem(s).consumer, visiting) /\ unit[Sem(s).producer] = visiting
  <2> SUFFICES ASSUME Sem(s).mode = "RW"
               PROVE  Far(Sem(s).producer, Sem(s).consumer, visiting)
                      /\ unit[Sem(s).producer] = visiting
    OBVIOUS
  <2>1. <<Sem(s).producer, Sem(s).consumer>> \in Orders(s)
    BY DEF Orders
  <2>2. PipeKeeps(Sem(s).producer, Sem(s).consumer)
    BY <2>1 DEF Dispensable
  <2>3. QED BY <1>1, <2>2, OrdersForward, KeptIsFar
<1>3. WaitImplied(s)
  BY <1>1, <1>2 DEF WaitImplied, TypeOK
<1>4. unit[Target(Sem(s))] = visiting
  BY <1>1, <1>2 DEF Target
<1>5. ASSUME NEW c \in Chains(s) PROVE Far(Sem(c).consumer, Target(Sem(s)), visiting)
  <2>1. <<Sem(c).consumer, Target(Sem(s))>> \in Orders(s)
    BY DEF Orders
  <2>2. PipeKeeps(Sem(c).consumer, Target(Sem(s)))
    BY <2>1 DEF Dispensable
  <2>3. QED BY <1>1, <1>4, <2>2, OrdersForward, KeptIsFar
<1>6. ASSUME NEW a \in ChainedTo(s) PROVE Far(Sem(s).consumer, Target(Sem(a)), visiting)
  <2>1. a \in Sems /\ s \in Chains(a)
    BY <1>1 DEF ChainedTo, TypeOK
  <2>2. PipeKeeps(Sem(s).consumer, Target(Sem(a)))
    BY <2>1 DEF Dispensable
  <2>3. QED BY <1>1, <2>1, <2>2, OrdersForward, KeptIsFar
<1>7. QED BY <1>3, <1>5, <1>6 DEF ChainsImplied

LEMMA InitVisit == Init => VisitInv
BY DEF Init, VisitInv

(* The steps of the walk. *)
LEMMA WalkKeepsVisit ==
  ASSUME IInv, VisitInv,
         Schedule \/ ScheduleFails \/ NextUnit \/ VisitTask \/ CollectWork \/ Done
  PROVE  VisitInv'
<1>1. TypeOK /\ prog' = prog /\ requires' = requires /\ \A s : Sem(s)' = Sem(s)
  BY DEF IInv, Schedule, ScheduleFails, NextUnit, VisitTask, CollectWork, Done, irState, Sem
<1>2. \A s \in requires : /\ s \in Sems /\ Sem(s).consumer \in Tasks
                          /\ unit[Sem(s).consumer] \in 0 .. prog.units
  BY <1>1, OrdersForward DEF TypeOK, NoUnit, Units, WellFormed
<1>3. prog.units \in Nat /\ visiting \in 0 .. prog.units
  BY <1>1 DEF TypeOK, WellFormed
<1>4. CASE Schedule
  <2>1. TypeOK'
    BY <1>4, ScheduleStep DEF IInv
  <2>2. \A s \in requires' : s \in Sems' /\ Sem(s)'.consumer \in Tasks'
    BY <1>1, <1>2 DEF Sems, Tasks
  <2>3. \A s \in requires' : unit'[Sem(s)'.consumer] \in 0 .. prog.units
    <3>1. unit' \in [Tasks' -> {NoUnit} \cup Units']
      BY <2>1 DEF TypeOK
    <3>2. Units' = 1 .. prog.units
      BY <1>1 DEF Units
    <3>3. QED BY <1>3, <2>2, <3>1, <3>2 DEF NoUnit
  <2>4. visiting' = 0 /\ todo' = {} /\ pending' = {} /\ phase' = "optimize"
    BY <1>4 DEF Schedule, VisitInv, IInv, Progress
  <2>5. \A s \in requires' : Dispensable(s)' => Unvisited(s)'
    BY <1>3, <2>3, <2>4 DEF Dispensable, Unvisited, NoUnit
  <2>6. QED BY <2>4, <2>5 DEF VisitInv
<1>5. CASE ScheduleFails
  BY <1>1, <1>5 DEF ScheduleFails, VisitInv, IInv, Progress
<1>6. ASSUME NextUnit \/ VisitTask \/ CollectWork \/ Done
      PROVE  unit' = unit /\ \A s : Dispensable(s)' <=> Dispensable(s)
  BY <1>1, <1>6, DispensableUnchanged DEF NextUnit, VisitTask, CollectWork, Done
<1>7. CASE NextUnit
  BY <1>1, <1>2, <1>3, <1>6, <1>7 DEF NextUnit, VisitInv, Unvisited
<1>8. CASE VisitTask
  BY <1>1, <1>2, <1>6, <1>8 DEF VisitTask, VisitInv, Unvisited
<1>9. CASE CollectWork
  BY <1>1, <1>2, <1>3, <1>6, <1>9 DEF CollectWork, VisitInv, Unvisited
<1>10. CASE Done
  BY <1>1, <1>6, <1>10 DEF Done, VisitInv, IInv, Progress
<1>11. QED BY <1>4, <1>5, <1>7, <1>8, <1>9, <1>10

(* The steps at one semaphore. *)
LEMMA CheckKeepsVisit ==
  ASSUME IInv, VisitInv, NEW s \in Sems,
         \/ CullRequired(s) \/ KeepRequired(s) \/ CheckFails(s)
         \/ CullQueued(s) \/ KeepQueued(s) \/ PassOver(s)
  PROVE  VisitInv'
<1>1. UNCHANGED <<prog, unit, visiting, todo>> /\ \A r : Sem(r)' = Sem(r)
  BY DEF CullRequired, KeepRequired, CheckFails, CullQueued, KeepQueued, PassOver, Sem
<1>2. \A r : Dispensable(r)' <=> Dispensable(r)
  BY <1>1, DispensableUnchanged
<1>3. requires' \subseteq requires /\ pending' \subseteq pending
  BY DEF CullRequired, KeepRequired, CheckFails, CullQueued, KeepQueued, PassOver, irState,
         CullSemaphore
<1>4. CASE CullRequired(s) \/ KeepRequired(s)
  <2>1. phase' = phase /\ phase = "optimize" /\ s \in pending /\ pending' = pending \ {s}
    BY <1>4 DEF CullRequired, KeepRequired
  <2>2. s \in requires' => ~ Dispensable(s)
    <3>1. CASE CullRequired(s)
      BY <3>1 DEF CullRequired, CullSemaphore
    <3>2. CASE KeepRequired(s)
      BY <2>1, <3>2, DispensableIsCulled DEF KeepRequired, VisitInv, IInv, TypeOK
    <3>3. QED BY <1>4, <3>1, <3>2
  <2>3. QED BY <1>1, <1>2, <1>3, <2>1, <2>2 DEF VisitInv, Unvisited
<1>5. CASE CheckFails(s)
  BY <1>1, <1>5 DEF CheckFails, VisitInv
<1>6. CASE CullQueued(s) \/ KeepQueued(s) \/ PassOver(s)
  <2>1. phase' = phase /\ phase = "queue" /\ pending' = pending
    BY <1>6 DEF CullQueued, KeepQueued, PassOver
  <2>2. QED BY <1>1, <1>2, <1>3, <2>1 DEF VisitInv
<1>7. QED BY <1>4, <1>5, <1>6

(* Whichever way a unit's tasks are visited, the pass ends with no          *)
(* semaphore left whose orders the pipelines imply.                         *)
THEOREM NothingImpliedStays == Spec => []NothingImpliedIsKept
<1>1. IInv /\ VisitInv /\ [Next]_vars => VisitInv'
  <2> SUFFICES ASSUME IInv, VisitInv, [Next]_vars PROVE VisitInv'
    OBVIOUS
  <2>1. CASE UNCHANGED vars
    BY <2>1, DispensableUnchanged DEF vars, irState, VisitInv, Unvisited, Sem
  <2>2. CASE Next
    BY <2>2, WalkKeepsVisit, CheckKeepsVisit DEF Next
  <2>3. QED BY <2>1, <2>2
<1>2. VisitInv => NothingImpliedIsKept
  BY DEF VisitInv, NothingImpliedIsKept, Dispensable
<1>3. QED BY <1>1, <1>2, InitVisit, CullingInvariant, PTL DEF Spec

-----------------------------------------------------------------------------
(* The culled program, running: tasks finish in order on a unit, and the    *)
(* queue of the unit never held more than fits when a task was handed out.  *)
FinishedInOrder ==
  \A t \in Tasks : status[t] = "finished" => \A e \in Earlier(t) : status[e] = "finished"

QueuesFit ==
  \A t \in Tasks : t <= issued /\ unit[t] # NoUnit =>
    Cardinality(Unfinished(Earlier(t))) < prog.unit[unit[t]].queue

RunInv ==
  /\ issued \in Nat
  /\ issued > 0 => phase = "done"
  /\ status \in [Tasks -> {"waiting", "running", "finished"}]
  /\ \A t \in Tasks : status[t] # "waiting" => t <= issued
  /\ FinishedInOrder /\ QueuesFit

LEMMA TasksFinite ==
  ASSUME TypeOK
  PROVE  /\ prog.tasks \in Nat /\ Tasks = 1 .. prog.tasks
         /\ \A S \in SUBSET Tasks : IsFiniteSet(S) /\ Cardinality(S) \in Nat
<1>1. prog.tasks \in Nat /\ Tasks = 1 .. prog.tasks
  BY DEF TypeOK, WellFormed, Tasks
<1>2. IsFiniteSet(Tasks)
  BY <1>1, FS_Interval
<1>3. QED BY <1>1, <1>2, FS_Subset, FS_CardinalityType

(* A task that has not finished holds up all that its unit was given after. *)
LEMMA UnfinishedBehind ==
  ASSUME TypeOK, RunInv, NEW i \in Tasks, NEW j \in Tasks, unit[i] # NoUnit,
         status[i] # "finished"
  PROVE  \A x \in GivenBefore(i, j) : x \in Tasks /\ status[x] # "finished"
<1> SUFFICES ASSUME NEW x \in GivenBefore(i, j) PROVE x \in Tasks /\ status[x] # "finished"
  OBVIOUS
<1>1. x \in Tasks /\ i <= x /\ unit[x] = unit[i]
  BY DEF GivenBefore
<1>2. x = i \/ i \in Earlier(x)
  BY <1>1, TasksFinite DEF Earlier
<1>3. QED BY <1>1, <1>2 DEF RunInv, FinishedInOrder

(* What the pipeline keeps in order, a start waits for. *)
LEMMA PipelineWaits ==
  ASSUME TypeOK, RunInv, NEW i \in Tasks, NEW j \in Tasks, i < j, PipeKeeps(i, j), Start(j)
  PROVE  status[i] = "finished"
<1> SUFFICES ASSUME status[i] # "finished" PROVE FALSE
  OBVIOUS
<1>1. /\ unit[j] \in Units /\ unit[i] = unit[j] /\ unit[i] # NoUnit
      /\ prog.unit[unit[j]].pipe \in Nat
  BY DEF PipeKeeps, TypeOK, WellFormed, Units, NoUnit
<1>2. GivenBefore(i, j) \subseteq Running(Earlier(j))
  <2> SUFFICES ASSUME NEW x \in GivenBefore(i, j) PROVE x \in Running(Earlier(j))
    OBVIOUS
  <2>1. x \in Earlier(j)
    BY <1>1 DEF GivenBefore, Earlier
  <2>2. status[x] # "waiting"
    BY <2>1 DEF Start
  <2>3. x \in Tasks /\ status[x] # "finished"
    BY <1>1, UnfinishedBehind
  <2>4. QED BY <2>1, <2>2, <2>3 DEF RunInv, Running
<1>3. Running(Earlier(j)) \in SUBSET Tasks /\ GivenBefore(i, j) \in SUBSET Tasks
  BY DEF Running, Earlier, GivenBefore
<1>4. Cardinality(GivenBefore(i, j)) <= Cardinality(Running(Earlier(j)))
  BY <1>2, <1>3, TasksFinite, FS_Subset
<1>5. Cardinality(Running(Earlier(j))) < prog.unit[unit[j]].pipe
  BY <1>1 DEF Start
<1>6. Cardinality(GivenBefore(i, j)) >= prog.unit[unit[j]].pipe
  BY <1>1 DEF PipeKeeps
<1>7. QED BY <1>1, <1>3, <1>4, <1>5, <1>6, TasksFinite

(* What the queue keeps in order has finished when the other task is handed *)
(* out: the last task given to the unit before it found room in the queue.  *)
LEMMA QueueWaits ==
  ASSUME TypeOK, RunInv, NEW i \in Tasks, NEW j \in Tasks, i < j, QueueKeeps(i, j), Start(j)
  PROVE  status[i] = "finished"
<1> SUFFICES ASSUME status[i] # "finished" PROVE FALSE
  OBVIOUS
<1> DEFINE G == GivenBefore(i, j)
<1>1. unit[i] \in Units /\ unit[i] # NoUnit /\ prog.unit[unit[i]].queue \in Nat
  BY DEF QueueKeeps, TypeOK, WellFormed, Units, NoUnit
<1>2. i \in G /\ G \in SUBSET (1 .. prog.tasks) /\ G \in SUBSET Tasks
  BY TasksFinite DEF GivenBefore
<1>3. PICK m \in G : \A x \in G : x <= m
  BY <1>2, TasksFinite, MaxIsGreatest
<1>4. m \in Tasks /\ unit[m] = unit[i] /\ m <= issued
  <2>1. j <= issued
    BY DEF Start
  <2>2. QED BY <1>3, <2>1, TasksFinite DEF GivenBefore, RunInv
<1>5. Cardinality(Unfinished(Earlier(m))) < prog.unit[unit[i]].queue
  BY <1>1, <1>4 DEF RunInv, QueuesFit
<1>6. G \ {m} \subseteq Unfinished(Earlier(m))
  <2> SUFFICES ASSUME NEW x \in G, x # m PROVE x \in Unfinished(Earlier(m))
    OBVIOUS
  <2>1. x \in Tasks /\ unit[x] = unit[i] /\ x < m
    BY <1>2, <1>3, TasksFinite DEF GivenBefore
  <2>2. status[x] # "finished"
    BY <1>1, UnfinishedBehind
  <2>3. QED BY <1>1, <1>4, <2>1, <2>2 DEF Unfinished, Earlier
<1>7. Unfinished(Earlier(m)) \in SUBSET Tasks
  BY DEF Unfinished, Earlier
<1>8. Cardinality(G \ {m}) <= Cardinality(Unfinished(Earlier(m)))
  BY <1>6, <1>7, TasksFinite, FS_Subset
<1>9. Cardinality(G \ {m}) = Cardinality(G) - 1 /\ Cardinality(G) \in Nat
  BY <1>2, <1>3, TasksFinite, FS_RemoveElement
<1>10. Cardinality(G) > prog.unit[unit[i]].queue
  BY DEF QueueKeeps
<1>11. Cardinality(Unfinished(Earlier(m))) \in Nat
  BY <1>7, TasksFinite
<1>12. QED BY <1>1, <1>5, <1>8, <1>9, <1>10, <1>11

(* Every order of the lowered program is waited for: by a semaphore that is *)
(* left, or by the units.                                                   *)
LEMMA StartsInOrder ==
  ASSUME IInv, RunInv, NEW s \in Sems, NEW i, NEW j \in Tasks, <<i, j>> \in Orders(s), Start(j)
  PROVE  status[i] = "finished"
<1>1. TypeOK
  BY DEF IInv
<1>2. i \in Tasks /\ i < j
  BY <1>1, OrdersForward DEF Orders
<1>3. CASE Implied(i, j)
  BY <1>1, <1>2, <1>3, PipelineWaits, QueueWaits DEF Implied
<1>4. CASE ~ Implied(i, j)
  <2>1. /\ s \in requires
        /\ \A c \in Chains(s) : <<Sem(c).consumer, Target(Sem(s))>> = <<i, j>> => c \in requires
    <3>1. PICK e \in Orders(s) : e = <<i, j>>
      OBVIOUS
    <3>2. ~ Implied(e[1], e[2])
      BY <1>4, <3>1
    <3>3. QED BY <3>1, <3>2 DEF IInv, OrderPreserved
  <2>2. CASE Sem(s).mode = "RW" /\ <<i, j>> = <<Sem(s).producer, Sem(s).consumer>>
    <3>1. Filled(s)
      BY <2>1, <2>2 DEF Start
    <3>2. QED BY <2>2, <3>1 DEF Filled
  <2>3. ASSUME NEW c \in Chains(s), <<i, j>> = <<Sem(c).consumer, Target(Sem(s))>>
        PROVE  status[i] = "finished"
    <3>1. Initialised(s)
      <4>1. CASE Sem(s).mode = "RW"
        <5>1. s \in acquires /\ j = Sem(s).producer
          BY <1>1, <2>1, <2>3, <4>1 DEF TypeOK, Target
        <5>2. s \in AcquiredBy(j)
          BY <5>1 DEF AcquiredBy
        <5>3. QED BY <5>2 DEF Start
      <4>2. CASE Sem(s).mode # "RW"
        <5>1. j = Sem(s).consumer
          BY <2>3, <4>2 DEF Target
        <5>2. Filled(s)
          BY <2>1, <5>1 DEF Start
        <5>3. QED BY <4>2, <5>2 DEF Filled
      <4>3. QED BY <4>1, <4>2
    <3>2. QED BY <2>3, <3>1 DEF Initialised, Completed
  <2>4. QED BY <2>2, <2>3 DEF Orders
<1>5. QED BY <1>3, <1>4

-----------------------------------------------------------------------------
LEMMA InitRun ==
  ASSUME RunInit
  PROVE  RunInv
<1>1. TypeOK
  BY InitIInv DEF IInv, RunInit
<1>2. issued = 0 /\ status = [t \in Tasks |-> "waiting"]
  BY DEF RunInit
<1>3. prog.tasks \in Nat /\ Tasks = 1 .. prog.tasks
  BY <1>1, TasksFinite
<1>4. QED BY <1>2, <1>3 DEF RunInv, FinishedInOrder, QueuesFit

(* Nothing is handed out before the passes are done, and then they are over. *)
LEMMA CompileKeepsRun ==
  ASSUME IInv, RunInv, Compile
  PROVE  RunInv' /\ prog' = prog
<1>1. TypeOK /\ phase # "done" /\ prog' = prog /\ issued' = issued /\ status' = status
  BY DEF IInv, Compile, Next, Schedule, ScheduleFails, NextUnit, VisitTask, CollectWork, Done,
         CullRequired, KeepRequired, CheckFails, CullQueued, KeepQueued, PassOver
<1>2. issued = 0 /\ Tasks' = Tasks
  BY <1>1 DEF RunInv, Tasks
<1>3. \A t \in Tasks : t \in Nat /\ t > 0 /\ status[t] = "waiting"
  BY <1>1, <1>2, TasksFinite DEF RunInv
<1>4. QED BY <1>1, <1>2, <1>3 DEF RunInv, FinishedInOrder, QueuesFit

(* A task that is handed out finds room in the queue. *)
LEMMA IssueKeepsRun ==
  ASSUME IInv, RunInv, Issue
  PROVE  RunInv'
<1>1. TypeOK /\ issued' = issued + 1 /\ UNCHANGED <<vars, status>> /\ issued \in Nat
  BY DEF IInv, Issue, RunInv
<1>2. prog' = prog /\ unit' = unit /\ phase' = phase /\ phase = "done"
  BY <1>1 DEF vars, Issue
<1>3. Tasks' = Tasks /\ \A t : Earlier(t)' = Earlier(t)
      /\ \A S : Unfinished(S)' = {x \in S : status[x] # "finished"}
  BY <1>1, <1>2 DEF Tasks, Earlier, Unfinished
<1>4. QueuesFit'
  <2> SUFFICES ASSUME NEW t \in Tasks, t <= issued + 1, unit[t] # NoUnit
               PROVE  Cardinality(Unfinished(Earlier(t))) < prog.unit[unit[t]].queue
    BY <1>1, <1>2 DEF QueuesFit, Tasks, Earlier, Unfinished
  <2>1. CASE t <= issued
    BY <2>1 DEF RunInv, QueuesFit
  <2>2. CASE t = issued + 1
    BY <2>2 DEF Issue
  <2>3. QED BY <1>1, <2>1, <2>2, TasksFinite
<1>5. FinishedInOrder'
  BY <1>1, <1>3 DEF RunInv, FinishedInOrder
<1>6. \A t \in Tasks' : status'[t] # "waiting" => t <= issued'
  BY <1>1, <1>3, TasksFinite DEF RunInv
<1>7. QED BY <1>1, <1>2, <1>3, <1>4, <1>5, <1>6 DEF RunInv

(* A task that starts or finishes makes no queue longer, and finishes after *)
(* the ones before it on its unit.                                          *)
LEMMA TaskKeepsRun ==
  ASSUME IInv, RunInv, NEW t \in Tasks, Start(t) \/ Finish(t)
  PROVE  RunInv'
<1>1. TypeOK /\ UNCHANGED <<vars, issued>>
  BY DEF IInv, Start, Finish
<1>2. prog' = prog /\ unit' = unit /\ phase' = phase /\ Tasks' = Tasks
      /\ \A x : Earlier(x)' = Earlier(x)
  BY <1>1 DEF vars, Tasks, Earlier
<1>3. \A x \in Tasks : status[x] = "finished" => status'[x] = "finished"
  BY DEF Start, Finish, RunInv
<1>4. status' \in [Tasks -> {"waiting", "running", "finished"}]
      /\ \A x \in Tasks : status'[x] # "waiting" => x <= issued
  BY DEF Start, Finish, RunInv
<1>5. FinishedInOrder'
  <2> SUFFICES ASSUME NEW x \in Tasks, status'[x] = "finished", NEW e \in Earlier(x)
               PROVE  status'[e] = "finished"
    BY <1>2 DEF FinishedInOrder
  <2>1. e \in Tasks
    BY DEF Earlier
  <2>2. CASE status[x] = "finished"
    BY <1>3, <2>1, <2>2 DEF RunInv, FinishedInOrder
  <2>3. CASE status[x] # "finished"
    <3>1. x = t /\ Finish(t)
      BY <2>3 DEF Start, Finish, RunInv
    <3>2. QED BY <1>3, <2>1, <3>1 DEF Finish
  <2>4. QED BY <2>2, <2>3
<1>6. QueuesFit'
  <2> SUFFICES ASSUME NEW x \in Tasks, x <= issued, unit[x] # NoUnit
               PROVE  Cardinality(Unfinished(Earlier(x))') < prog.unit[unit[x]].queue
    BY <1>1, <1>2 DEF QueuesFit, Unfinished
  <2>1. Unfinished(Earlier(x))' \subseteq Unfinished(Earlier(x))
        /\ Unfinished(Earlier(x)) \in SUBSET Tasks
    BY <1>2, <1>3 DEF Unfinished, Earlier
  <2>2. Cardinality(Unfinished(Earlier(x))') <= Cardinality(Unfinished(Earlier(x)))
        /\ Cardinality(Unfinished(Earlier(x))) \in Nat
        /\ Cardinality(Unfinished(Earlier(x))') \in Nat
    BY <1>1, <2>1, TasksFinite, FS_Subset
  <2>3. Cardinality(Unfinished(Earlier(x))) < prog.unit[unit[x]].queue
    BY DEF RunInv, QueuesFit
  <2>4. unit[x] \in Units /\ prog.unit[unit[x]].queue \in Nat
    BY <1>1 DEF TypeOK, WellFormed, Units, NoUnit
  <2>5. QED BY <2>2, <2>3, <2>4
<1>7. QED BY <1>1, <1>2, <1>4, <1>5, <1>6 DEF RunInv

LEMMA NextRun == IInv /\ RunInv /\ [RunNext]_runVars => IInv' /\ RunInv'
<1> SUFFICES ASSUME IInv, RunInv, [RunNext]_runVars PROVE IInv' /\ RunInv'
  OBVIOUS
<1>1. [Next]_vars
  BY DEF RunNext, runVars, Compile, Issue, RunTask, Start, Finish
<1>2. IInv'
  BY <1>1, NextIInv
<1>3. CASE UNCHANGED runVars
  <2>1. UNCHANGED <<prog, phase, unit, issued, status>>
    BY <1>3 DEF runVars, vars
  <2>2. FinishedInOrder' /\ QueuesFit'
    BY <2>1 DEF RunInv, FinishedInOrder, QueuesFit, Tasks, Earlier, Unfinished
  <2>3. QED BY <1>2, <2>1, <2>2 DEF RunInv, Tasks
<1>4. CASE RunNext
  <2>1. RunInv'
    BY <1>4, CompileKeepsRun, IssueKeepsRun, TaskKeepsRun DEF RunNext, RunTask
  <2>2. QED BY <1>2, <2>1
<1>5. QED BY <1>3, <1>4

LEMMA RunInvariant == RunSpec => [](IInv /\ RunInv)
<1>1. RunInit => IInv /\ RunInv
  BY InitIInv, InitRun DEF RunInit
<1>2. QED BY <1>1, NextRun, PTL DEF RunSpec

(* For every program and whatever has been culled, every step of the units  *)
(* is a step or a stutter of OrderedDataflow: a task starts only after what *)
(* the lowered program made it wait for.                                    *)
THEOREM CulledProgramRunsInOrder == RunSpec => RunsInOrder
<1>1. RunInit => Dataflow!Init
  BY DEF RunInit, Dataflow!Init, Dataflow!Tasks
<1>2. IInv /\ RunInv /\ [RunNext]_runVars => [Dataflow!Next]_(Dataflow!vars)
  <2> SUFFICES ASSUME IInv, RunInv, [RunNext]_runVars PROVE [Dataflow!Next]_(Dataflow!vars)
    OBVIOUS
  <2> DEFINE Before(t) == {u \in Tasks : \E s \in Sems : <<u, t>> \in Orders(s)}
  <2>1. prog' = prog => UNCHANGED [t \in Tasks |-> Before(t)]
    BY DEF Tasks, Sems, Orders, Sem, Chains
  <2>2. CASE UNCHANGED runVars \/ Compile \/ Issue
    <3>1. prog' = prog /\ status' = status
      BY <2>2, CompileKeepsRun DEF runVars, vars, Compile, Issue
    <3>2. QED BY <2>1, <3>1 DEF Dataflow!vars
  <2>3. ASSUME NEW t \in Tasks, Start(t)
        PROVE  Dataflow!Next
    <3>1. t \in Dataflow!Tasks
      BY DEF Dataflow!Tasks, RunInv
    <3>2. prog' = prog
      BY <2>3 DEF Start, vars
    <3>3. \A u \in Before(t) : status[u] = "finished"
      BY <2>3, StartsInOrder
    <3>4. Dataflow!Start(t)
      BY <2>1, <2>3, <3>2, <3>3 DEF Dataflow!Start, Start
    <3>5. QED BY <3>1, <3>4 DEF Dataflow!Next
  <2>4. ASSUME NEW t \in Tasks, Finish(t)
        PROVE  Dataflow!Next
    <3>1. t \in Dataflow!Tasks
      BY DEF Dataflow!Tasks, RunInv
    <3>2. prog' = prog
      BY <2>4 DEF Finish, vars
    <3>3. Dataflow!Finish(t)
      BY <2>1, <2>4, <3>2 DEF Dataflow!Finish, Finish
    <3>4. QED BY <3>1, <3>3 DEF Dataflow!Next
  <2>5. QED BY <2>2, <2>3, <2>4 DEF RunNext, RunTask
<1>3. QED BY <1>1, <1>2, RunInvariant, PTL DEF RunSpec, RunsInOrder
=============================================================================
