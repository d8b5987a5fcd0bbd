---------------------------- MODULE SemHandshake ----------------------------
(***************************************************************************)
(* The run-time semaphore protocol of a compiled program.                  *)
(*                                                                         *)
(* Every task is the payload of one eaac.execute.  The functional units    *)
(* run concurrently, each its own tasks in program order; on the RISC-V    *)
(* core that order is the order of the calls in the synthesized main       *)
(* (SplitLLVMFromEAAC.cpp).  A RISC-V kernel takes and returns credits     *)
(* with the loads and atomic adds RiscvKernelToLLVM.cpp emits: a wait loop *)
(* that reads the counter, then a separate atomic add.  The DMA and GEMM   *)
(* units are hardware with the same contract; taking a credit in two steps *)
(* only adds behaviours to theirs.                                         *)
(*                                                                         *)
(* A semaphore is a tenant of a hardware slot.  The fabric initialises it  *)
(* once every semaphore its sem_alloc chains from has completed (Ops.td,   *)
(* SemAllocOp), and a port access that carries the tag of another          *)
(* generation is rejected (Passes.td, AssignSemaphoreAddresses).           *)
(*                                                                         *)
(* A compiled program, as the fabric sees it:                              *)
(*   tasks, sems        numbers of tasks and semaphores, in program order  *)
(*   unit[t]            the functional unit of t                           *)
(*   out[t]             the semaphore t acquires, or NoSem                 *)
(*   ins[t]             the semaphores t requires, in body order           *)
(*   addr[s], tag[s]    the hardware slot and generation of s              *)
(*   size[s]            sizeBytes: initial count and step of s             *)
(*   full[s]            event mode R: a broadcast copy that starts full    *)
(*   chains[s]          chains_from of its sem_alloc                       *)
(*   writer[s], buf[s]  the task whose data s guards, and where it lies    *)
(***************************************************************************)
EXTENDS Integers, FiniteSets, Sequences

CONSTANTS Programs,     \* the compiled programs
          Slots,        \* hardware semaphore addresses
          CountMod      \* 2^w for the w bits of a counter

NoSem  == 0
NoTask == 0

Tasks(p) == 1 .. p.tasks
Sems(p)  == 1 .. p.sems

Requires(p, t, s)  == \E k \in DOMAIN p.ins[t] : p.ins[t][k] = s
Consumers(p, s)    == {t \in Tasks(p) : Requires(p, t, s)}
Producers(p, s)    == {t \in Tasks(p) : p.out[t] = s}
Buffers(p)         == {p.buf[s] : s \in Sems(p)}

(* Buffers t reads and writes under its semaphores. *)
Reads(p, t)  == {p.buf[p.ins[t][k]] : k \in DOMAIN p.ins[t]}
Writes(p, t) == {p.buf[s] : s \in {r \in Sems(p) : p.writer[r] = t}}

Conflict(p, t, u) ==
  \/ Writes(p, t) \cap (Reads(p, u) \cup Writes(p, u)) # {}
  \/ Reads(p, t) \cap Writes(p, u) # {}

(* The first task whose progress depends on s being initialised. *)
FirstUse(p, s) == IF p.full[s] THEN CHOOSE t \in Consumers(p, s) : TRUE
                               ELSE p.writer[s]

(* r is the tenant of the slot of s just before s. *)
Precedes(p, r, s) ==
  /\ r < s /\ p.addr[r] = p.addr[s]
  /\ \A q \in r + 1 .. s - 1 : p.addr[q] # p.addr[s]

(* What t waits for itself, one wait at a time: its unit to finish the      *)
(* tasks before it, the announcement of the data it requires, and the       *)
(* semaphores that the one it acquires, or a copy it requires, chains from. *)
Awaits(p, t) ==
  LET Needed == {s \in Sems(p) : FirstUse(p, s) = t}
  IN {u \in Tasks(p) : u < t /\ p.unit[u] = p.unit[t]}
       \cup {p.writer[s] : s \in {r \in Sems(p) : Requires(p, t, r) /\ ~ p.full[r]}}
       \cup UNION {Consumers(p, r) : r \in UNION {p.chains[s] : s \in Needed}}

(* The tasks all those waits put before t, directly or through others: the  *)
(* least set that has what t awaits and what each of its members awaits.    *)
Before ==
  [p \in Programs |->
     LET waits == [t \in Tasks(p) |-> Awaits(p, t)]
     IN [t \in Tasks(p) |->
           {u \in Tasks(p) : \A S \in SUBSET Tasks(p) :
              waits[t] \subseteq S /\ (\A v \in S : waits[v] \subseteq S) => u \in S}]]

(* The waits put every two tasks that touch the same data in their program  *)
(* order.  The compiler does not always leave such a program: see           *)
(* MemoryReusedInOrder and EveryReaderAwaited of TokenLowering.             *)
ConflictsOrdered(p) ==
  \A t, u \in Tasks(p) : u < t /\ Conflict(p, u, t) => u \in Before[p][t]

(* No tag comes round again on a slot. *)
TagsNeverWrap(p) ==
  \A r, s \in Sems(p) : r # s /\ p.addr[r] = p.addr[s] => p.tag[r] # p.tag[s]

(* What the passes up to AssignSemaphoreAddresses leave the fabric with.   *)
WellFormed(p) ==
  /\ p.tasks \in Nat /\ p.sems \in Nat
  /\ \A t \in Tasks(p) :
       /\ p.out[t] \in Sems(p) \cup {NoSem} /\ p.ins[t] \in Seq(Sems(p))
       \* InsertRequire: one require per token
       /\ \A k, l \in DOMAIN p.ins[t] : p.ins[t][k] = p.ins[t][l] => k = l
  \* LowerAsyncToSemaphore, CorrectBroadcast: one producer, one consumer
  /\ \A s \in Sems(p) :
       /\ Cardinality(Consumers(p, s)) = 1
       /\ Producers(p, s) = IF p.full[s] THEN {} ELSE {p.writer[s]}
       /\ \A t \in Consumers(p, s) : p.writer[s] < t
       /\ p.writer[s] \in Tasks(p) /\ p.size[s] \in 1 .. CountMod - 1
       /\ p.addr[s] \in Slots /\ p.chains[s] \subseteq Sems(p)
  \* broadcast copies chain from the semaphore that brought the data
  /\ \A s \in Sems(p) : p.full[s] =>
       \E r \in p.chains[s] :
         p.buf[r] = p.buf[s] /\ p.writer[r] = p.writer[s] /\ ~ p.full[r]
  \* chains follow program order
  /\ \A s \in Sems(p) : \A r \in p.chains[s] :
       \A t \in Consumers(p, r) : t < FirstUse(p, s)
  \* AssignSemaphoreAddresses: each tenant of a slot waits for the one before
  /\ \A s, r \in Sems(p) : Precedes(p, r, s) => r \in p.chains[s]

ASSUME ProgramsAssumption == \A p \in Programs : WellFormed(p)
ASSUME CountModAssumption == CountMod \in Nat \ {0}

VARIABLES
  prog,
  stage,      \* stage[t]: where t is in its kernel
  pos,        \* pos[t]: which of its requires t is at
  tenant,     \* tenant[a]: the semaphore initialised in slot a, or NoSem
  empty,      \* empty[a], full[a]: the two counters of slot a
  full,
  completed,  \* semaphores whose consumer has returned its credit
  content     \* content[b]: the task whose data buffer b holds, or NoTask

counters == <<tenant, empty, full, completed>>
vars == <<prog, stage, pos, counters, content>>

(* The blocks of a lowered kernel in control-flow order: the acquire loop   *)
(* and add, one loop and add per require, the payload, then the releases    *)
(* that were inserted before the terminator, acquire first.                 *)
Stages == {"waitEmpty", "takeEmpty", "waitFull", "takeFull", "ready",
           "running", "signal", "return", "done"}

AfterAcquire(p, t) == IF p.ins[t] = << >> THEN "ready" ELSE "waitFull"
FirstStage(p, t)   == IF p.out[t] = NoSem THEN AfterAcquire(p, t) ELSE "waitEmpty"
AfterSignal(p, t)  == IF p.ins[t] = << >> THEN "done" ELSE "return"
AfterPayload(p, t) == IF p.out[t] = NoSem THEN AfterSignal(p, t) ELSE "signal"

Init ==
  /\ prog \in Programs
  /\ stage = [t \in Tasks(prog) |-> FirstStage(prog, t)]
  /\ pos = [t \in Tasks(prog) |-> 1]
  /\ tenant = [a \in Slots |-> NoSem]
  /\ empty = [a \in Slots |-> 0]
  /\ full = [a \in Slots |-> 0]
  /\ completed = {}
  /\ content = [b \in Buffers(prog) |-> NoTask]

-----------------------------------------------------------------------------
(* The fabric.                                                             *)

(* SemAlloc: (re)initialise the slot of s once its chains have completed.  *)
InitSem(s) ==
  /\ s \notin completed /\ \A a \in Slots : tenant[a] # s
  /\ prog.chains[s] \subseteq completed
  /\ LET a == prog.addr[s] IN
       /\ tenant' = [tenant EXCEPT ![a] = s]
       /\ empty' = [empty EXCEPT ![a] = IF prog.full[s] THEN 0 ELSE prog.size[s]]
       /\ full' = [full EXCEPT ![a] = IF prog.full[s] THEN prog.size[s] ELSE 0]
  /\ UNCHANGED <<prog, stage, pos, completed, content>>

(* Mutant: the tag is not compared. *)
AcceptedAny(s) == tenant[prog.addr[s]] # NoSem

(* An access to the slot of s with the tag of s reaches a counter only if   *)
(* the slot's present tenant carries that tag.                              *)
Accepted(s) ==
  /\ tenant[prog.addr[s]] # NoSem
  /\ prog.tag[tenant[prog.addr[s]]] = prog.tag[s]

LoadCount(counter, s) == IF Accepted(s) THEN counter[prog.addr[s]] ELSE 0

AtomicAdd(counter, s, d) ==
  IF Accepted(s) THEN [counter EXCEPT ![prog.addr[s]] = (@ + d) % CountMod]
                 ELSE counter

-----------------------------------------------------------------------------
(* The tasks.                                                              *)

(* A unit starts a task when it has finished its earlier ones. *)
IsCalled(t) == \A u \in Tasks(prog) : u < t /\ prog.unit[u] = prog.unit[t] => stage[u] = "done"

Goto(t, there) == stage' = [stage EXCEPT ![t] = there]

Req(t) == prog.ins[t][pos[t]]

(* Mutant: the acquire does not wait. *)
WaitEmptyAny(t) ==
  /\ stage[t] = "waitEmpty" /\ IsCalled(t)
  /\ Goto(t, "takeEmpty")
  /\ UNCHANGED <<prog, pos, counters, content>>

(* ConvertEAACAcquire: leave the loop when empty >= step (unsigned). *)
WaitEmpty(t) ==
  /\ stage[t] = "waitEmpty" /\ IsCalled(t)
  /\ LoadCount(empty, prog.out[t]) >= prog.size[prog.out[t]]
  /\ Goto(t, "takeEmpty")
  /\ UNCHANGED <<prog, pos, counters, content>>

(* Mutant: the acquire's add takes nothing. *)
TakeEmptyNothing(t) ==
  /\ stage[t] = "takeEmpty"
  /\ Goto(t, AfterAcquire(prog, t))
  /\ UNCHANGED <<prog, pos, counters, content>>

TakeEmpty(t) ==
  /\ stage[t] = "takeEmpty"
  /\ empty' = AtomicAdd(empty, prog.out[t], -prog.size[prog.out[t]])
  /\ Goto(t, AfterAcquire(prog, t))
  /\ UNCHANGED <<prog, pos, tenant, full, completed, content>>

(* Mutant: the loop of a require polls the empty counter. *)
WaitFullOnEmpty(t) ==
  /\ stage[t] = "waitFull" /\ IsCalled(t)
  /\ LoadCount(empty, Req(t)) >= prog.size[Req(t)]
  /\ Goto(t, "takeFull")
  /\ UNCHANGED <<prog, pos, counters, content>>

(* ConvertEAACRequire, on the consumer ports of the same slot. *)
WaitFull(t) ==
  /\ stage[t] = "waitFull" /\ IsCalled(t)
  /\ LoadCount(full, Req(t)) >= prog.size[Req(t)]
  /\ Goto(t, "takeFull")
  /\ UNCHANGED <<prog, pos, counters, content>>

(* Mutant: the list of requires is walked off its end. *)
TakeFullPastEnd(t) ==
  /\ stage[t] = "takeFull"
  /\ full' = AtomicAdd(full, Req(t), -prog.size[Req(t)])
  /\ pos' = [pos EXCEPT ![t] = @ + 1]
  /\ Goto(t, IF pos[t] < Len(prog.ins[t]) THEN "waitFull" ELSE "ready")
  /\ UNCHANGED <<prog, tenant, empty, completed, content>>

TakeFull(t) ==
  /\ stage[t] = "takeFull"
  /\ full' = AtomicAdd(full, Req(t), -prog.size[Req(t)])
  /\ IF pos[t] < Len(prog.ins[t])
       THEN pos' = [pos EXCEPT ![t] = @ + 1] /\ Goto(t, "waitFull")
       ELSE pos' = [pos EXCEPT ![t] = 1] /\ Goto(t, "ready")
  /\ UNCHANGED <<prog, tenant, empty, completed, content>>

(* The payload; while it runs, what it writes is in no defined state. *)
BeginPayload(t) ==
  /\ stage[t] = "ready" /\ IsCalled(t)
  /\ content' = [b \in Buffers(prog) |->
                   IF b \in Writes(prog, t) THEN NoTask ELSE content[b]]
  /\ Goto(t, "running")
  /\ UNCHANGED <<prog, pos, counters>>

EndPayload(t) ==
  /\ stage[t] = "running"
  /\ content' = [b \in Buffers(prog) |->
                   IF b \in Writes(prog, t) THEN t ELSE content[b]]
  /\ Goto(t, AfterPayload(prog, t))
  /\ UNCHANGED <<prog, pos, counters>>

(* The release of the acquire: the data is announced as full. *)
Signal(t) ==
  /\ stage[t] = "signal"
  /\ full' = AtomicAdd(full, prog.out[t], prog.size[prog.out[t]])
  /\ Goto(t, AfterSignal(prog, t))
  /\ UNCHANGED <<prog, pos, tenant, empty, completed, content>>

(* Mutant: only the last require gives its credit back. *)
ReturnLast(t) ==
  /\ stage[t] = "return"
  /\ empty' = AtomicAdd(empty, prog.ins[t][Len(prog.ins[t])], prog.size[Req(t)])
  /\ completed' = completed \cup {prog.ins[t][Len(prog.ins[t])]}
  /\ Goto(t, "done")
  /\ UNCHANGED <<prog, pos, tenant, full, content>>

(* The release of each require: the credit returns, which completes the    *)
(* semaphore for the allocations chained from it.                          *)
Return(t) ==
  /\ stage[t] = "return"
  /\ empty' = AtomicAdd(empty, Req(t), prog.size[Req(t)])
  /\ completed' = IF Accepted(Req(t)) THEN completed \cup {tenant[prog.addr[Req(t)]]}
                                      ELSE completed
  /\ IF pos[t] < Len(prog.ins[t])
       THEN pos' = [pos EXCEPT ![t] = @ + 1] /\ UNCHANGED stage
       ELSE Goto(t, "done") /\ UNCHANGED pos
  /\ UNCHANGED <<prog, tenant, full, content>>

Step(t) ==
  \/ WaitEmpty(t) \/ TakeEmpty(t) \/ WaitFull(t) \/ TakeFull(t)
  \/ BeginPayload(t) \/ EndPayload(t) \/ Signal(t) \/ Return(t)

Next ==
  \/ \E s \in Sems(prog) : InitSem(s)
  \/ \E t \in Tasks(prog) : Step(t)

(* The fabric keeps issuing instructions and every unit keeps running.     *)
Fairness ==
  /\ WF_vars(\E s \in Sems(prog) : InitSem(s))
  /\ \A t \in UNION {Tasks(p) : p \in Programs} : WF_vars(t \in Tasks(prog) /\ Step(t))

Spec == Init /\ [][Next]_vars /\ Fairness

-----------------------------------------------------------------------------
(* t is between the add that takes the credit of s and the add that gives it *)
(* back on the other counter.                                               *)
HoldsOut(t, s) ==
  /\ prog.out[t] = s
  /\ stage[t] \in {"waitFull", "takeFull", "ready", "running", "signal"}

HoldsIn(t, s) ==
  \E k \in DOMAIN prog.ins[t] :
    /\ prog.ins[t][k] = s
    /\ \/ stage[t] \in {"waitFull", "takeFull"} /\ k < pos[t]
       \/ stage[t] \in {"ready", "running", "signal"}
       \/ stage[t] = "return" /\ k >= pos[t]

Holders(s) == {t \in Tasks(prog) : HoldsOut(t, s) \/ HoldsIn(t, s)}

TypeOK ==
  /\ stage \in [Tasks(prog) -> Stages]
  /\ pos \in [Tasks(prog) -> Nat \ {0}]
  /\ \A t \in Tasks(prog) : pos[t] <= Len(prog.ins[t]) \/ pos[t] = 1
  /\ tenant \in [Slots -> Sems(prog) \cup {NoSem}]
  /\ empty \in [Slots -> 0 .. CountMod - 1]
  /\ full \in [Slots -> 0 .. CountMod - 1]
  /\ completed \in SUBSET Sems(prog)
  /\ content \in [Buffers(prog) -> Tasks(prog) \cup {NoTask}]

(* The credit of the tenant of a slot is in exactly one place: its empty    *)
(* counter, its full counter, or the one unit between its take and its      *)
(* release.  No interleaving of the separate load and add of two kernels    *)
(* duplicates it, loses it or drives a counter below zero, and a slot is    *)
(* never initialised again while a unit still holds a credit of it.         *)
CreditsConserved ==
  /\ \A a \in Slots : tenant[a] # NoSem =>
       empty[a] + full[a] + Cardinality(Holders(tenant[a])) * prog.size[tenant[a]]
         = prog.size[tenant[a]]
  /\ \A s \in Sems(prog) : Holders(s) # {} => tenant[prog.addr[s]] = s

(* The last task before t, in program order, that writes b. *)
LastWriter(b, t) ==
  CHOOSE w \in Tasks(prog) :
    /\ w < t /\ b \in Writes(prog, w)
    /\ \A v \in Tasks(prog) : v < t /\ b \in Writes(prog, v) => v <= w

(* While a payload runs, every buffer it was required to wait for holds     *)
(* what it would hold had the tasks run one after the other: the data of    *)
(* the last task before it that writes the buffer, written in full, and not *)
(* yet overwritten through another semaphore guarding the same memory.  The *)
(* program must order its conflicts; it may do so through any chain of      *)
(* units, requires and semaphore chains.                                    *)
InputsIntact ==
  \A t \in Tasks(prog) : stage[t] = "running" /\ ConflictsOrdered(prog) =>
    \A b \in Reads(prog, t) \ Writes(prog, t) : content[b] = LastWriter(b, t)

(* eaac_program.fbs: the fused address of a dependency identifies the       *)
(* specific tenant of a slot the dependency targets.  Between the load and  *)
(* the add of an acquire, the credit a task is about to take is one of its  *)
(* own semaphore, however early it began to poll the slot of an earlier     *)
(* tenant -- as long as no tag comes round on a slot.                       *)
DependencyNamesItsTenant ==
  \A t \in Tasks(prog) :
    stage[t] = "takeEmpty" /\ TagsNeverWrap(prog)
      => tenant[prog.addr[prog.out[t]]] = prog.out[t]

(* Every task returns and every semaphore ends with its whole credit back   *)
(* on the empty counter or handed on to the next tenant of its slot: no     *)
(* cycle of waits through chains, units and counters.                       *)
EveryCreditComesHome ==
  <>[](/\ \A t \in Tasks(prog) : stage[t] = "done"
       /\ completed = Sems(prog)
       /\ \A a \in Slots : tenant[a] # NoSem => empty[a] = prog.size[tenant[a]])

-----------------------------------------------------------------------------
(* The protocol implements the order its waits add up to: it compares       *)
(* counters of recycled slots and knows nothing of tasks, yet no task       *)
(* starts before every task that units, requires and chains put before it,  *)
(* however indirectly, has finished; and all of them finish.                *)
Dataflow == INSTANCE OrderedDataflow WITH
              before <- Before[prog],
              status <- [t \in Tasks(prog) |->
                           CASE stage[t] = "running" -> "running"
                             [] stage[t] \in {"signal", "return", "done"} -> "finished"
                             [] OTHER -> "waiting"]

ImplementsDataflow == Dataflow!Spec
=============================================================================
