---------------------------- MODULE EmittedProgram ----------------------------
(***************************************************************************)
(* The back end: what a function with assigned semaphores becomes.         *)
(*                                                                         *)
(* A task with an operation no hardware unit supports is turned, pass by   *)
(* pass, into a kernel without arguments that a synthesized main calls on  *)
(* the RISC-V core (LegalizeForEaacHw.cpp, RiscvKernelToFunction.cpp,      *)
(* RiscvKernelToLLVM.cpp, LowerEaacMemrefToLLVM.cpp,                       *)
(* SplitLLVMFromEAAC.cpp).  The other tasks are written to a flatbuffer    *)
(* (EAACToFlatbuffer.cpp) for the fabric.  The two images meet at the      *)
(* semaphores only: each computes hardware addresses from eaac.sem_addr    *)
(* and eaac.sem_gen in its own way.                                        *)
(*                                                                         *)
(* Besides what SemAddresses reads of it, a program has its operations in  *)
(* program order, body, and for each task whether it is unsupported, the   *)
(* semaphores it acquires and requires, each with the memref it guards,    *)
(* and the values its payload works on.  The operation numbers of          *)
(* SemAddresses are positions in body.                                     *)
(***************************************************************************)
EXTENDS SemAddresses, Sequences, SequencesExt

CONSTANT RiscvSemBase     \* DLTI riscv_sem_base

Tasks(p) == DOMAIN p.tasks

(* Values an operation may use. *)
SemValue(s) == <<"sem", s>>
MemValue(m) == <<"mem", m>>
ConstValue(c) == <<"const", c>>

Kind(v) == v[1]
Id(v) == v[2]

At(p, op, id) == {i \in DOMAIN p.body : p.body[i] = [op |-> op, id |-> id]}

Guarded(p, t) == {p.tasks[t].waits[j].mem : j \in DOMAIN p.tasks[t].waits}
Worked(p, t) == {Id(v) : v \in {u \in Range(p.tasks[t].payload) : Kind(u) = "mem"}}

Values == {"sem", "mem", "const"} \X Nat

TaskType ==
  [unsupported : BOOLEAN, payload : Seq(Values),
   waits : Seq([side : {"acquire", "require"}, sem : Nat, mem : Nat])]

OpNames == {"sem_alloc", "sem_dealloc", "execute", "alloc", "dealloc"}

(* SSA form, and what LowerAsyncToSemaphore leaves: a semaphore in use has  *)
(* its sem_dealloc, if any, after its last user, and lost it only with its  *)
(* users; a memref lives from its alloc to its dealloc.                     *)
WellFormedBody(p) ==
  /\ p.body \in Seq([op : OpNames, id : Nat]) /\ p.tasks \in Seq(TaskType)
  /\ \A i \in DOMAIN p.body :
       /\ p.body[i].op = "sem_alloc" => p.body[i].id \in Sems(p)
       /\ p.body[i].op = "execute" => p.body[i].id \in Tasks(p)
  /\ \A s \in Sems(p) : At(p, "sem_alloc", s) = {p.alloc[s]}
  /\ \A s \in Sems(p) :
       At(p, "sem_dealloc", s) = IF p.dealloc[s] = NoOp THEN {} ELSE {p.dealloc[s]}
  /\ \A t, u \in Tasks(p) : t < u =>
       \A i \in At(p, "execute", t), j \in At(p, "execute", u) : i < j
  /\ \A t \in Tasks(p) : \E i \in DOMAIN p.body :
       /\ At(p, "execute", t) = {i}
       /\ \A j \in DOMAIN p.tasks[t].waits :
            LET s == p.tasks[t].waits[j].sem
            IN s \in Sems(p) /\ p.alloc[s] < i /\ i < p.dealloc[s]
       /\ \A m \in Guarded(p, t) \cup Worked(p, t) :
            /\ \E a \in At(p, "alloc", m) : a < i
            /\ \A d \in At(p, "dealloc", m) : i < d
  /\ \A t \in Tasks(p) : \A v \in Range(p.tasks[t].payload) :
       Kind(v) = "mem" \/ (Kind(v) = "const" /\ p.tasks[t].unsupported)

ASSUME BodiesAssumption == \A p \in Programs : WellFormedBody(p)
ASSUME BaseAssumption == RiscvSemBase \in Nat

VARIABLES
  kernel,      \* for each task, the kernel it has become
  counter,     \* counter of LegalizeForEaacHw
  main,        \* the kernels the synthesized main calls
  pos,         \* where the flatbuffer walk is in body
  stream,      \* Function.ops of the flatbuffer
  order,       \* BufferTable::order
  maxSemAddr   \* Program.num_semaphores

riscvState == <<kernel, counter, main>>
fbState == <<pos, stream, order, maxSemAddr>>
imageVars == <<vars, riscvState, fbState>>

NoSym == -1

ImageInit ==
  /\ Init
  /\ kernel = [t \in Tasks(prog) |->
       [form |-> "execute", sym |-> NoSym, call |-> << >>, params |-> << >>,
        inner |-> << >>, implParams |-> << >>, ports |-> << >>]]
  /\ counter = 0 /\ main = << >>
  /\ pos = 1 /\ stream = << >> /\ order = << >> /\ maxSemAddr = 0

(* Semaphore address assignment, which the passes below come after. *)
AssignAddresses == Next /\ UNCHANGED <<riscvState, fbState>>

-----------------------------------------------------------------------------
(* Hardware addresses of semaphores.                                       *)

(* Bits[n]: shifts until n is zero. *)
Bits[n \in Nat] == IF n = 0 THEN 0 ELSE 1 + Bits[n \div 2]

(* computeGenWidth, in EAACToFlatbuffer.cpp and again in                    *)
(* RiscvKernelToLLVM.cpp.                                                   *)
GenWidth == IF NumGenerations <= 1 THEN 0 ELSE Bits[NumGenerations - 1]
RiscvGenWidthOfCount == Bits[NumGenerations]     \* a mutant
RiscvGenWidth == IF NumGenerations <= 1 THEN 0 ELSE Bits[NumGenerations - 1]

Scale == 2 ^ GenWidth
RiscvScale == 2 ^ RiscvGenWidth

(* The tags fit in the bits computeGenWidth reserves for them. *)
ASSUME ScaleAssumption == Scale \in Nat /\ NumGenerations <= Scale

Word == 65536     \* uint16_t

(* Mutant: the tag overlaps the address. *)
FuseOverlapping(a, g) == (a + (g % Scale)) % Word

(* fuseSemAddr *)
Fuse(a, g) == ((a % Word) * Scale + (g % Scale)) % Word

(* getSemFusedAddress *)
Fused(s) == Fuse(addr[s], gen[s])

(* The port of a semaphore in the core's address space, less the constant   *)
(* 0x80000000 it starts at.                                                 *)
PortAddress(s, port) == RiscvSemBase + (addr[s] * 4 + port) * RiscvScale + gen[s]

(* ConvertEAACAcquire and ConvertEAACRequire: the ports of the producer's   *)
(* and the consumer's counters.                                             *)
Ports(w) ==
  IF w.side = "acquire"
    THEN [full |-> PortAddress(w.sem, 0), empty |-> PortAddress(w.sem, 1)]
    ELSE [full |-> PortAddress(w.sem, 2), empty |-> PortAddress(w.sem, 3)]

-----------------------------------------------------------------------------
(* The RISC-V side.  The passes run one after the other; within a pass the  *)
(* rewrite driver takes the kernels in any order.                           *)

Unsupported == {t \in Tasks(prog) : prog.tasks[t].unsupported}

(* What a kernel is, from one rewrite to the next. *)
Forms == <<"execute", "riscv_execute", "riscv_kernel", "wrapped", "lowered", "fixed",
           "placed", "no_const", "no_memref", "llvm", "marker">>

Rank(form) == CHOOSE i \in DOMAIN Forms : Forms[i] = form

(* Mutant: a pass starts as soon as one kernel is ready for it. *)
ReachedBySome(form) ==
  phase = "done" /\ \E t \in Unsupported : Rank(kernel[t].form) >= Rank(form)

(* The passes that make kernels of this form have run to their end. *)
Reached(form) ==
  phase = "done" /\ \A t \in Unsupported : Rank(kernel[t].form) >= Rank(form)

(* Rewrite the kernel of t from one form into the next. *)
Rewrite(t, from, k) ==
  /\ t \in Unsupported /\ kernel[t].form = from
  /\ kernel' = [kernel EXCEPT ![t] = k]
  /\ UNCHANGED <<vars, counter, main, fbState>>

(* Mutant: the counter stays. *)
LegalizeUncounted(t) ==
  /\ phase = "done" /\ t \in Unsupported /\ kernel[t].form = "execute"
  /\ \A u \in Unsupported : u < t => kernel[u].form # "execute"
  /\ kernel' = [kernel EXCEPT ![t].form = "riscv_execute", ![t].sym = counter]
  /\ UNCHANGED <<vars, counter, main, fbState>>

(* UnsupportedOpToRiscvExecute, in the order of the walk; one unsupported   *)
(* operation takes the whole task along.                                    *)
Legalize(t) ==
  /\ phase = "done" /\ t \in Unsupported /\ kernel[t].form = "execute"
  /\ \A u \in Unsupported : u < t => kernel[u].form # "execute"
  /\ kernel' = [kernel EXCEPT ![t].form = "riscv_execute", ![t].sym = counter]
  /\ counter' = counter + 1
  /\ UNCHANGED <<vars, main, fbState>>

(* Mutant: as many operands are dropped, but from the end. *)
KeptFront(seq, dead) == SubSeq(seq, 1, Len(seq) - Cardinality(dead))

(* The n-th of a set of numbers. *)
Nth(S, n) == CHOOSE i \in S : Cardinality({k \in S : k <= i}) = n

(* Operands or arguments without the positions that are dead. *)
Kept(seq, dead) ==
  LET live == DOMAIN seq \ dead
  IN [j \in 1 .. Cardinality(live) |-> seq[Nth(live, j)]]

(* A table in order of first mention. *)
Distinct(seq) == Kept(seq, {i \in DOMAIN seq : \E j \in 1 .. i - 1 : seq[j] = seq[i]})

(* What the body of the task uses from outside, in the order of the walk.   *)
Captured(t) ==
  LET task == prog.tasks[t]
      operands == [i \in 1 .. 2 * Len(task.waits) |->
                     LET w == task.waits[(i + 1) \div 2]
                     IN IF i % 2 = 1 THEN SemValue(w.sem) ELSE MemValue(w.mem)]
  IN Distinct(operands \o task.payload)

(* CreateRiscVFunctions: block arguments are named after the positions of   *)
(* the captured values.                                                     *)
Outline(t) ==
  /\ Reached("riscv_execute")
  /\ Rewrite(t, "riscv_execute",
       [kernel[t] EXCEPT !.form = "riscv_kernel", !.call = Captured(t),
                         !.params = [i \in DOMAIN Captured(t) |-> i]])

Arg(a) == <<"arg", a>>

(* ReplaceMLIRFunctionCall: the kernel becomes the implementation, and a    *)
(* wrapper under its name passes every argument on.                         *)
Wrap(t) ==
  /\ Reached("riscv_kernel")
  /\ Rewrite(t, "riscv_kernel",
       [kernel[t] EXCEPT !.form = "wrapped", !.implParams = kernel[t].params,
                         !.inner = [i \in DOMAIN kernel[t].params |-> Arg(kernel[t].params[i])]])

(* ConvertEAACAcquire, ConvertEAACRequire: constants take the place of the  *)
(* semaphore arguments.                                                     *)
LowerSync(t) ==
  /\ Reached("wrapped")
  /\ Rewrite(t, "wrapped",
       [kernel[t] EXCEPT !.form = "lowered",
                         !.ports = [j \in DOMAIN prog.tasks[t].waits |->
                                      Ports(prog.tasks[t].waits[j])]])

ParamKind(t, a) == Kind(Captured(t)[a])

(* FixFunctionSignature: the call, the wrapper, its call and the            *)
(* implementation lose the semaphores at the same positions.                *)
FixSignature(t) ==
  /\ Reached("lowered")
  /\ LET k == kernel[t]
         dead == {i \in DOMAIN k.implParams : ParamKind(t, k.implParams[i]) = "sem"}
     IN Rewrite(t, "lowered",
          [k EXCEPT !.form = "fixed", !.call = Kept(@, dead), !.params = Kept(@, dead),
                    !.inner = Kept(@, dead), !.implParams = Kept(@, dead)])

(* EaacMemSpaceCastToLLVM: a memref passed on by the wrapper becomes the    *)
(* address in its type.                                                     *)
LowerMemref(t) ==
  /\ Reached("fixed")
  /\ Rewrite(t, "fixed",
       [kernel[t] EXCEPT !.form = "placed",
          !.inner = [i \in DOMAIN @ |->
             IF ParamKind(t, Id(@[i])) = "mem" THEN Captured(t)[Id(@[i])] ELSE @[i]]])

(* CopyConstants: constants at the call become constants of the wrapper.    *)
CopyConstants(t) ==
  /\ Reached("placed")
  /\ LET k == kernel[t]
         const == {i \in DOMAIN k.params : Kind(k.call[i]) = "const"}
         Copied(v) == IF \E i \in const : v = Arg(k.params[i])
                        THEN k.call[CHOOSE i \in const : v = Arg(k.params[i])] ELSE v
     IN Rewrite(t, "placed",
          [k EXCEPT !.form = "no_const", !.call = Kept(@, const), !.params = Kept(@, const),
                    !.inner = [i \in DOMAIN @ |-> Copied(@[i])]])

(* RemoveMemrefArgs: memrefs the wrapper no longer uses. *)
RemoveMemrefArgs(t) ==
  /\ Reached("placed")
  /\ LET k == kernel[t]
         unused == {i \in DOMAIN k.params : /\ ParamKind(t, k.params[i]) = "mem"
                                            /\ Arg(k.params[i]) \notin Range(k.inner)}
     IN Rewrite(t, "no_const",
          [k EXCEPT !.form = "no_memref", !.call = Kept(@, unused), !.params = Kept(@, unused)])

(* RewriteFuncToLLVM: no arguments and no operands, whatever is left.       *)
RewriteFuncToLLVM(t) ==
  /\ Reached("placed")
  /\ Rewrite(t, "no_memref", [kernel[t] EXCEPT !.form = "llvm", !.call = << >>])

(* The rest of SplitLLVMFromEAAC: the calls in the order of the walk.       *)
Collect ==
  /\ Reached("llvm") /\ \E t \in Unsupported : kernel[t].form = "llvm"
  /\ LET called == {t \in Tasks(prog) : kernel[t].form = "llvm"}
     IN main' = [i \in 1 .. Cardinality(called) |-> kernel[Nth(called, i)].sym]
  /\ kernel' = [t \in Tasks(prog) |->
       IF kernel[t].form = "llvm" THEN [kernel[t] EXCEPT !.form = "marker"] ELSE kernel[t]]
  /\ UNCHANGED <<vars, counter, fbState>>

-----------------------------------------------------------------------------
(* The flatbuffer: a walk over the function that is left.                  *)

Emitting(op) == Reached("marker") /\ pos \in DOMAIN prog.body /\ prog.body[pos].op = op
Here == prog.body[pos].id

EmitSemAlloc ==
  /\ Emitting("sem_alloc")
  /\ stream' = Append(stream, [cmd |-> "SemAlloc", sem |-> Fused(Here),
                               chains |-> {Fused(c) : c \in chains[Here]}])
  /\ maxSemAddr' = Later(maxSemAddr, (addr[Here] % Word) + 1) % Word
  /\ pos' = pos + 1
  /\ UNCHANGED <<vars, riscvState, order>>

(* Mutant: a new table for every operation. *)
AssignedAfresh(table, mems) == Distinct(mems)

(* getOrAssign for each memref in turn; ids are positions in the table.     *)
Assigned(table, mems) == Distinct(table \o mems)
BufId(table, m) == CHOOSE i \in DOMAIN table : table[i] = m

(* What a task acquires, or requires. *)
Waits(t, side) ==
  LET waits == prog.tasks[t].waits
  IN Kept(waits, {j \in DOMAIN waits : waits[j].side # side})

ExecuteMems(t) ==
  LET task == prog.tasks[t]
  IN [j \in DOMAIN task.waits |-> task.waits[j].mem]
       \o [i \in DOMAIN task.payload |-> Id(task.payload[i])]

(* serializeExecute; a marker is no eaac.execute and is passed over.        *)
EmitExecute ==
  /\ Emitting("execute") /\ kernel[Here].form = "execute"
  /\ LET task == prog.tasks[Here]
         table == Assigned(order, ExecuteMems(Here))
         Deps(side) ==
           LET mine == Waits(Here, side)
           IN [j \in DOMAIN mine |->
                 [sem |-> Fused(mine[j].sem), buf |-> BufId(table, mine[j].mem)]]
     IN /\ order' = table
        /\ stream' = Append(stream, [cmd |-> "Execute",
                        acquires |-> Deps("acquire"), requires |-> Deps("require"),
                        payload |-> [i \in DOMAIN task.payload |->
                                       BufId(table, Id(task.payload[i]))]])
  /\ pos' = pos + 1
  /\ UNCHANGED <<vars, riscvState, maxSemAddr>>

EmitMemory(op, cmd) ==
  /\ Emitting(op)
  /\ order' = Assigned(order, <<Here>>)
  /\ stream' = Append(stream, [cmd |-> cmd, buf |-> BufId(order', Here)])
  /\ pos' = pos + 1
  /\ UNCHANGED <<vars, riscvState, maxSemAddr>>

(* A sem_dealloc, or the marker of a kernel. *)
PassOver ==
  /\ Emitting("sem_dealloc") \/ (Emitting("execute") /\ kernel[Here].form = "marker")
  /\ pos' = pos + 1
  /\ UNCHANGED <<vars, riscvState, stream, order, maxSemAddr>>

RiscvStep ==
  \/ \E t \in Tasks(prog) :
       \/ Legalize(t) \/ Outline(t) \/ Wrap(t) \/ LowerSync(t) \/ FixSignature(t)
       \/ LowerMemref(t) \/ CopyConstants(t) \/ RemoveMemrefArgs(t) \/ RewriteFuncToLLVM(t)
  \/ Collect

EmitStep ==
  EmitSemAlloc \/ EmitExecute \/ EmitMemory("alloc", "MemAlloc")
    \/ EmitMemory("dealloc", "MemDealloc") \/ PassOver

ImageNext == AssignAddresses \/ RiscvStep \/ EmitStep

(* The passes and the translation run one after the other to their end.     *)
ImageSpec == ImageInit /\ [][ImageNext]_imageVars /\ WF_imageVars(ImageNext)

-----------------------------------------------------------------------------
ImageTypeOK ==
  /\ TypeOK
  /\ \A t \in Tasks(prog) :
       LET k == kernel[t] IN
         /\ k.form \in Range(Forms) /\ (t \notin Unsupported => k.form = "execute")
         /\ k.form \notin {"llvm", "marker"} => Len(k.call) = Len(k.params)
         /\ Len(k.inner) = Len(k.implParams)
         /\ k.sym \in NoSym .. counter - 1
  /\ \A t, u \in Tasks(prog) : kernel[t].sym = kernel[u].sym => t = u \/ kernel[t].sym = NoSym
  /\ pos \in 1 .. Len(prog.body) + 1
  /\ \A i, j \in DOMAIN order : order[i] = order[j] => i = j
  /\ maxSemAddr \in 0 .. NumPairs

(* Two semaphores have the same fused address only if the first is          *)
(* deallocated before the second is allocated, provided addresses and tags  *)
(* fit in the 16 bits together: an access by the fabric to a semaphore in   *)
(* use can mean no other.                                                   *)
FitsWord == NumPairs * Scale <= Word

TenantsApart ==
  FitsWord =>
    \A s, t \in Placed : s < t /\ Fused(s) = Fused(t) => end[s] <= prog.alloc[t]

(* The fabric, reading the stream up to position i: a fused address means   *)
(* the semaphore initialised under it last.                                 *)
AllocsBefore(i) == {j \in 1 .. i - 1 : stream[j].cmd = "SemAlloc"}
NamedAt(i, f) ==
  LET same == {j \in AllocsBefore(i) : stream[j].sem = f}
      last == CHOOSE j \in same : \A k \in same : k <= j
  IN IF same = {} THEN NoSem ELSE Cardinality(AllocsBefore(last)) + 1

(* The task the Execute at position i of the stream was made from.          *)
Supported == Tasks(prog) \ Unsupported
TaskAt(i) ==
  LET n == Cardinality({j \in 1 .. i : stream[j].cmd = "Execute"})
  IN CHOOSE t \in Supported : Cardinality({u \in Supported : u <= t}) = n

(* The fabric finds, behind every fused address of the stream, the          *)
(* semaphore the program means there: each dependency of an Execute is the  *)
(* one its task acquires or requires, in order, and the chains of a         *)
(* SemAlloc are those its semaphore was given, although slots are recycled  *)
(* and no deallocation is ever announced.  Addresses and tags fit in 16     *)
(* bits together; chain targets that lost their sem_dealloc are not         *)
(* reserved, and are excepted.                                              *)
Means(i, deps, waits) ==
  /\ Len(deps) = Len(waits)
  /\ \A j \in DOMAIN waits : NamedAt(i, deps[j].sem) = waits[j].sem

StreamNamesTenants ==
  FitsWord => \A i \in DOMAIN stream :
    \/ /\ stream[i].cmd = "Execute"
       /\ Means(i, stream[i].acquires, Waits(TaskAt(i), "acquire"))
       /\ Means(i, stream[i].requires, Waits(TaskAt(i), "require"))
    \/ LET s == Cardinality(AllocsBefore(i)) + 1
           sure == {c \in chains[s] : prog.dealloc[c] # NoOp}
       IN /\ stream[i].cmd = "SemAlloc" /\ stream[i].sem = Fused(s)
          /\ sure \subseteq {NamedAt(i, f) : f \in stream[i].chains}
    \/ stream[i].cmd \in {"MemAlloc", "MemDealloc"}

(* Every buffer id of the stream means the memref of the program it stands  *)
(* for, which has been announced by a MemAlloc before and by no MemDealloc: *)
(* the table filled on first mention, across kernels that vanish from the   *)
(* stream, keeps ids and memrefs together.                                  *)
BuffersAllocated ==
  \A i \in DOMAIN stream : stream[i].cmd = "Execute" =>
    LET task == prog.tasks[TaskAt(i)]
        Live(b) == /\ \E j \in 1 .. i - 1 : stream[j] = [cmd |-> "MemAlloc", buf |-> b]
                   /\ ~ \E j \in 1 .. i - 1 : stream[j] = [cmd |-> "MemDealloc", buf |-> b]
        deps == stream[i].acquires \o stream[i].requires
        waits == Waits(TaskAt(i), "acquire") \o Waits(TaskAt(i), "require")
        Names(b, m) == Live(b) /\ b \in DOMAIN order /\ order[b] = m
    IN /\ \A j \in DOMAIN deps : Names(deps[j].buf, waits[j].mem)
       /\ \A j \in DOMAIN stream[i].payload :
            Names(stream[i].payload[j], Id(task.payload[j]))

(* What argument a of the implementation of t's kernel is when it runs.     *)
BoundTo(values, params, a) ==
  IF \E i \in DOMAIN values : params[i] = a
    THEN values[CHOOSE i \in DOMAIN values : params[i] = a] ELSE <<"none", 0>>

Resolved(t, a) ==
  LET k == kernel[t]
      v == BoundTo(k.inner, k.implParams, a)
  IN IF k.form = "riscv_kernel" THEN BoundTo(k.call, k.params, a)
     ELSE IF Kind(v) = "arg" THEN BoundTo(k.call, k.params, Id(v)) ELSE v

(* Through six rewrites of the call, the wrapper and the implementation,    *)
(* each dropping operands by position, the body of a kernel keeps getting   *)
(* the memrefs and constants its task worked on, and its semaphores until   *)
(* their ports are known.                                                   *)
KernelsSeeTheirData ==
  \A t \in Unsupported : kernel[t].form \notin {"execute", "riscv_execute"} =>
    \A a \in DOMAIN Captured(t) :
      \/ Resolved(t, a) = Captured(t)[a]
      \/ ParamKind(t, a) = "sem" /\ kernel[t].ports # << >>

(* What a port address means to the fabric. *)
PortMeans(p, s, port) ==
  LET offset == p - RiscvSemBase
  IN /\ (offset \div Scale) % 4 = port
     /\ ((offset \div Scale) \div 4) * Scale + (offset % Scale) = Fused(s)

(* The two images agree on semaphores: as long as fused addresses fit in 16  *)
(* bits, every port a kernel polls is the right counter -- full or empty,   *)
(* producer's or consumer's side -- of the slot and tag that the stream     *)
(* initialises for its semaphore.                                           *)
PortsMeetStream ==
  FitsWord => \A t \in Unsupported : \A j \in DOMAIN kernel[t].ports :
    LET w == prog.tasks[t].waits[j]
        side == IF w.side = "acquire" THEN 0 ELSE 2
    IN /\ PortMeans(kernel[t].ports[j].full, w.sem, side)
       /\ PortMeans(kernel[t].ports[j].empty, w.sem, side + 1)

(* The kernels of main are those of the unsupported tasks, in program order. *)
MainInOrder ==
  \A i \in DOMAIN main : \E t \in Unsupported :
    /\ Cardinality({u \in Unsupported : u <= t}) = i
    /\ kernel[t].sym = main[i] /\ kernel[t].form = "marker"

(* No task is lost between the two images: each one ends up in the stream   *)
(* or in main, there in program order, whichever order the kernels were     *)
(* rewritten in.                                                            *)
EveryTaskDelivered ==
  (phase = "done") ~>
    /\ Cardinality({i \in DOMAIN stream : stream[i].cmd = "Execute"}) = Cardinality(Supported)
    /\ Len(main) = Cardinality(Unsupported) /\ MainInOrder
    /\ pos > Len(prog.body)
=============================================================================
