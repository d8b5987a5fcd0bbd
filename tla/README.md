# TLA+ models of the EAAC compiler

The EAAC compiler lowers tensor programs to asynchronous tasks for an accelerator with a
DMA unit, GEMM units and a RISC-V core. Tasks synchronise through hardware semaphore pairs
that the compiler creates, chains, culls and places in a small bank of slots. What makes a
compiled program correct is not visible in any one pass: that the waits the passes leave
behind order every two tasks that touch the same memory, that a slot is never given to a new
semaphore while the old one is at work, and that no cycle of waits stops the machine. These
modules state that and check it.

## The system

Order of the pipeline (`justfile`), with what each part keeps and does:

| part | state | operations | hard behaviour | what makes it correct |
|---|---|---|---|---|
| InsertLoadStore, LowerCopyToDma | none | local rewrites | none | - |
| LocalStaging (+ MemRefLivenessAnalysis, minimalloc) | per tier: unhandled, active, handled intervals, buffers with offsets | place, expire, spill, reload, staging chains | spills that trigger spills, same id for a buffer and its reload, reuse guard against truncation | live buffers of a tier never overlap; every use reads a placed copy; failure is reported |
| EncodeDependencies, FindAsyncDependency, InsertRequire | async tokens | wrap, connect, pair tokens with memrefs | several readers and writers of one buffer | every true dependence has a token |
| CorrectBroadcast | token graph | thread the later readers of a token through chain executes | survivor chosen by operation number | one consumer per token |
| FindAliasDependency | token graph, offsets | one chain edge per reuse of memory | window, last-accessor and one-edge-per-writer pruning | no task overwrites memory still to be read |
| LowerAsyncToSemaphore | token to semaphore map | create semaphores, attach chains, insert deallocs | chains silently dropped | each token edge becomes a credit, each chain edge an initialisation order |
| Schedule | unit of each task | assign | an operation no unit takes | every operation of the interface has a unit |
| SemOptimize, SemOptimizeQueue | the semaphore graph | cull semaphores implied by program order of a unit | culls change what later checks see; erase while iterating | every culled wait is implied, no remaining wait is left without its producer |
| AssignSemaphoreAddresses | live intervals, active list, last tenants, tags | linear scan | interval extension, recycling order, tag wrap, exhaustion | slots are shared only in sequence, and the sequence is enforced |
| RISC-V legalisation, outlining, lowering and split | kernels, wrappers, main | turn tasks into functions, drop operands, emit wait loops and atomic adds; order the calls | six rewrites that drop operands by position; load and add are two steps, concurrent with the other units | a kernel keeps its data and polls the right counters; the handshake below |
| EAACToFlatbuffer | buffer table, the stream | fuse addresses and tags, serialise | 16-bit fused address, deallocations not announced | the fabric can tell which tenant and which buffer a command means |
| fabric (external) | slots: tenant tag, empty and full counters | initialise after chains, reject foreign tags | everything above meets here | the dataflow order of the program |

The passes run one after the other in one thread and interact through the IR; the
concurrency is in the compiled program, between the units and the fabric.

## Modules

| module | of | composes or implements |
|---|---|---|
| TierStaging | LocalStaging.cpp, MemRefLivenessAnalysis.cpp | runs the code it emits |
| TokenLowering | FindAsyncDependency, InsertRequire, CorrectBroadcast, FindAliasDependency, LowerAsyncToSemaphore | - |
| SemCulling | Schedule, SemOptimize, SemOptimizeQueue, `SemAllocOp::cullSemaphore` | - |
| CulledRun | the units the culls rely on | SemCulling, implements OrderedDataflow |
| SemAddresses | AssignSemaphoreAddresses.cpp | implements SlotTenancy |
| EmittedProgram | LegalizeForEaacHw, RiscvKernelToFunction, RiscvKernelToLLVM, LowerEaacMemrefToLLVM, SplitLLVMFromEAAC, EAACToFlatbuffer | runs after SemAddresses, on its addresses |
| SemHandshake | the loops and atomic operations of RiscvKernelToLLVM, with the fabric | implements OrderedDataflow |
| SlotTenancy, OrderedDataflow | abstract: what addresses and what a program promise | - |
| MC... | programs and bounds for TLC | - |
| Extrema | facts about the least, the greatest and the n-th member of a finite set | - |
| ...Proofs | theorems about the module of that name | EmittedProgramProofs also has those about SemAddresses |
| StagedCodeProofs | theorems about the operands of the code TierStaging emits | rests on TierStagingProofs |
| StagedDataProofs | the theorem about the data that code works on | rests on StagedCodeProofs |

`SlotTenancy` is what an address allocator promises: tenants arrive in order, one is admitted
to a slot only when all earlier tenants of that slot have left, and none is turned away while
a slot is vacant.

`SemAddresses` models AssignSemaphoreAddresses.cpp in full. A program is what the pass reads of
the IR: the operation numbers of the allocs and deallocs and the chains. `VisitAlloc` and
`VisitDeallocs` are the two walks of `buildIntervals` (`chainedEnd` is the map
`chainedSemIntervalEnd`); the iteration of `allocate` for one interval is one of `AssignFresh`,
`AssignRecycled` and `OutOfAddresses`, each with the expiry at the top of the loop
(`StillActive`); `Assign` is the common branch, with `TakeGeneration` and the chaining of the
previous tenant; `Annotate` ends the function. The stable sort at the end of `buildIntervals` is
the identity because the allocs are visited in the order of their numbers. Semaphores without a
dealloc are possible inputs: `SemAllocOp::cullSemaphore` erases the uses of a semaphore and
keeps its alloc while others chain from it.

`TokenLowering` models the five passes between local staging and scheduling, from memory accesses
to semaphores, one action per pass because each runs to its end before the next: dependency
lists (`CollectDeps`), the require that pairs a token with the memref its producer writes, the
copied tokens of CorrectBroadcast (`Survivor`, `Threaded`), the alias pairs with the window, the
transitivity check and the deduplication (`AliasPairs`, `KeptPairs`), the map from tokens to
semaphores, the chains, and the deallocs (`InsertSemDeallocs`, `freedAfter`), which go behind the
first user in the use list that is inside an execute. That list has the newest use first: the acquire
came with the alloc, the requires were converted after it in program order, so it is a task that
requires the semaphore (`NewestUser`). A token is the pair of its producer and, for the artificial execute of
a broadcast, the consumer it stands before. Every case in which the code drops an edge is a case
here: an accessor without a require, a marked task without an acquire, a mark without a
semaphore. `DirectWaits` reads off the lowered program what a task waits for at run time, by the
rules of `SemHandshake`. A program is the memrefs each task reads and writes and the memory of
each memref; a task is around one operation and writes at most one memref, so the last-writer-wins
map of InsertRequire has one entry per token. Op-times are abstracted to the order of tasks and of
allocations, and `alias_check_length` is counted in allocations.

`OrderedDataflow` is what a compiled program promises: given which tasks come before which, a task
starts only when all those before it have finished, and every task finishes.

`SemHandshake` models the compiled program running. A task is the payload of one `eaac.execute`.
It goes through the blocks that ConvertEAACAcquire and ConvertEAACRequire emit: a wait loop on
the empty counter and an atomic subtraction (`WaitEmpty`, `TakeEmpty`), the same on the full
counter for every require (`WaitFull`, `TakeFull`), the payload, then the additions inserted
before the terminator: the data is announced full (`Signal`), the required credits are given back
(`Return`). The acquire comes first because LowerAsyncToSemaphore inserts it at the start of the
body. Between the load of a counter and the add any other unit may run. Units run their own
tasks in program order (`IsCalled`); on the RISC-V core that is the order of the calls in the
synthesised `main`. The DMA and GEMM units are hardware and follow the same contract.

What a program may be is `WellFormed`: a semaphore has one producer and one consumer, chains follow
the program's order, a broadcast copy chains from the original, and each tenant of a slot from the
one before. It does not say that memory is reused in order, because the passes do not leave a chain
for every reuse: FindAliasDependency omits pairs that are ordered already, keeps one pair per writer
and drops pairs outside its window. What the waits left add up to is `Before`: a task waits for
the tasks before it on its unit, for the writers of what it requires, and for the consumers of the
semaphores that what it needs is chained from (`Awaits`), and for all those wait for. The protocol
implements `OrderedDataflow` for that order, whatever it is. `InputsIntact` is about programs in which
it orders every two tasks that touch the same data (`ConflictsOrdered`). That the lowering leaves such
programs is the business of `DataArrives` and `MemoryReusedInOrder` of `TokenLowering`, within the
limits named there; finding 2 is a program where it does not, unless two readers happen to share a unit.

External, modelled from the way the code uses it: the fabric initialises a slot for a semaphore
when every semaphore its alloc chains from has completed, and answers an access only if the tag
in the address is the tag of the slot's tenant (`InitSem`, `Accepted`). A semaphore completes
when its consumer returns its credit. Counters are `CountMod`-bounded and adds wrap.

`SemCulling` models the two culling passes after the assignment of units. `Schedule` gives every
operation that implements the interface the last compatible unit, and `ScheduleFails` is the
null unit it uses when there is none. `NextUnit` and `VisitTask` are the walk of
`processImplicitSerialization`: over the units in order, over the tasks of a unit in the order of
a map keyed by pointers, that is any order. For each required semaphore one of `CullRequired`,
`KeepRequired` and `CheckFails` happens; the last is an assertion of `checkChain`. `CollectWork`
makes the list of the queue pass, and each item is culled, kept, or passed over because its
number agrees with what lies past the end of the table (`PassOver`). `CullSemaphore` is
`cullSemaphore`: acquire, require and dealloc go, the alloc only if no other alloc chains from
it. The loop that erases users while it walks the use list is undefined; the model takes the
outcome in which the walk goes on. The order of the requires within a task is left open.

`CulledRun` runs what is left. It gives the units the least that the passes count on: tasks are
handed out in program order, a unit holds at most `queue` unfinished and `pipe` started tasks,
and starts and finishes them in order. A task waits for the semaphores it still requires.

`TierStaging` models local staging with its recursion: `StartTier` is the loop of `allocate`, a
frame of `stack` a call of `processTier`, `Take` one interval with its expiry, `Place` the
solver's answer, `Spill` all of `handleSpill` up to its call into the next tier, `Return` what
comes after, `GiveUp` the error, `SpillOfNothing` the null memref of a stage, `EmitChain` one
chain of `emitStagingChains`. `placed` holds the intervals of `active` and `handled` in the order
they were placed, and `handled` says which of them expired. `sortedIntervals` uses an unstable
sort, so intervals that start together enter a tier in any order (`Queues`). `taken` records the
starts of the intervals each tier took: a tier that took them in order is one expiry is right
about. An interval carries the memref it stands for, so that the copies
inserted by spills and stages, and the renaming of later uses, can be followed in `code`; a copy
carries the operation it stands before (`at`), for the properties only. When
the pass has ended the code is run once over the contents of the tiers (`Execute`); the
properties about data speak of that run.

`EmittedProgram` models the back end. It extends `SemAddresses`: a program is also its body, its
tasks with the semaphores and memrefs they wait on, and which of them no unit supports. First
the addresses are assigned, then the kernel of each unsupported task goes through the rewrites
of six passes (`Legalize` to `RewriteFuncToLLVM`; within a pass in any order, since the rewrite
driver decides), `Collect` synthesises main, and the walk of the translation emits one command
per operation that is left (`EmitSemAlloc`, `EmitExecute`, `EmitMemory`, `PassOver`).

`MCSemAddresses`, `MCSemHandshake`, `MCTokenLowering`, `MCSemCulling`, `MCCulledRun`,
`MCTierStaging` and `MCEmittedProgram` enumerate programs for TLC.

### What is external

- The fabric (`SemHandshake`): see above.
- minimalloc (`TierStaging`): offsets already given are fixed, so its answer is any aligned offset
  clear of the buffers whose padded lifespans meet the new one, or that there is none. What it
  makes of a lifespan that truncation has left empty is not documented: both answers are allowed.
  The irreducible infeasible subset the pass asks for is that of the buffers already placed, which
  are feasible together, so all of them come back.
- Run-time memory (`TierStaging`): constants are in memory from their get_global on; alloc and
  dealloc change nothing.
- Units and queues (`CulledRun`): see above.
- The rest of MLIR: the generic lowering of a kernel's body, file input and output.

### What is abstracted

- `TierStaging`: one function at a time. Home tiers exist on the target.
- `EmittedProgram`: scalar operands are constants; the port offset `0x80000000` is left out of
  both sides; event modes, counts, shapes and the bytes of constants are data the walk copies. The
  kind of operation an Execute carries is such data too; a task here is around one operation, so the
  payload NONE of an execute without any does not arise.
- `SemHandshake`: programs as the lowering and the address assignment leave them, before anything is
  culled; `CulledRun` runs culled ones.
- `SemCulling`: one consumer per semaphore, at most one acquire per task, as the lowering leaves it.

## Runs

| run | question | result |
|---|---|---|
| staging | is no address reused inside the guard; does the emitted code read what was written and work in tier 0; is exactly what must be evicted evicted; does the recursion end? | holds: `ReadsIntact` and `UsesCovered` while no reload had to evict, `ComputesInTierZero` while no buffer was evicted from its home, `ReuseRespectsGuard` and `ReadsIntact` where the tiers took their intervals in order; `ReadsIntact` besides while no error was emitted and what is staged is only read |
| staging_swap | does a reload copy find the data of its spill? | not when the reload evicts another buffer |
| staging_residents | is there an address gap between tenants of one address in every tier? | not in a tier spills come into after its own intervals |
| waits | does the semaphore graph cover every read, pair up credits, stay acyclic and order the reuse of memory; is every semaphore allocated and freed around its uses? | holds, within the limits `MemoryReusedInOrder` names |
| waits_three_readers | does a new buffer wait for every reader of the older one? | not with three readers |
| culling | is every culled wait implied by the units; is nothing implied by one unit kept; are the items of the queue pass current? | holds |
| culling_orphans | can every awaited semaphore complete? | not one that was culled and is chained from |
| culled_run | do tasks still run in dataflow order, and do all finish? | holds; all finish when no chain was orphaned |
| address_chains | do expiry, recycling, chain extension, chaining and tags keep tenants of a slot apart; is a function that fits assigned; does the scan implement `SlotTenancy`? | holds |
| address_exhausted | is a slot reused when addresses run out, as the header says? | no |
| image | do the flatbuffer and the kernels name the right semaphores, buffers and counters, and is every task in one of the two images? | holds |
| handshake | are credits conserved; does every task find what a sequential run would have left, when the waits order the conflicts; do tasks run in the order the waits add up to, and all finish? | holds |

Findings.

1. The reuse branch of the address assignment is unreachable: the victim is sought in a list
   purged one step before of everything that would qualify, so exhaustion is always an error
   (`address_exhausted`).
2. A buffer laid over one with three readers waits for the first and the third, because both
   copied tokens chain from the original and only the last reader in program order is chained
   from (`waits_three_readers`).
3. A spill is held until the use it is reloaded for, exclusive. When the reload evicts another
   buffer, that one is spilled from the same operation on, may get the same address, and its copy
   comes first: the reload reads the wrong buffer. Two buffers used in turn over one slot show it
   (`staging_swap`).
4. The tiers are scanned bottom up, and expiry forgets what ended before the interval at hand. A
   spill comes into a tier whose own intervals, later constants included, were taken before, so
   what it overlaps may be forgotten, and it is placed over a constant or a staged buffer that is
   still to be read (`staging_residents`; with two tiers and with three).
5. A semaphore that is culled while another chains from it keeps its alloc and loses everything
   that would complete it; the alloc that chains from it waits for ever (`culling_orphans`).

Limits the code has and no document denies; the properties name them as conditions or the model
as ends of a run:

- a semaphore stripped of its dealloc by culling is not reserved for the allocs that chain from it
  (`ChainTargetsReserved`, `StreamNamesTenants`);
- no semaphore pairs at all ends in the assertion (`VictimAlwaysExists` assumes one pair);
- tags wrap per address: with as many tenants as generations, or a single generation, two
  tenants cannot be told apart (`TagsTellTenantsApart` speaks of nearer ones,
  `DependencyNamesItsTenant` of programs with more generations than tenants);
- a buffer laid over two older ones waits for the last accessor of one of them, because one edge per
  writer is kept (`MemoryReusedInOrder`);
- with a reuse guard, spilling frees nothing: the truncated lifespan is padded again
  (`SpillingMakesRoom` is stated for guard 0);
- eviction goes one victim at a time and moves nothing: with buffers of two sizes the places already
  given can leave holes that no eviction the pass makes joins, which ends in an error; and the
  operands of one operation may be too many for tier 0 together, which ends in an error or has them
  evicted for each other without end, as the solver takes an empty lifespan (`SpillingMakesRoom` is
  stated for buffers of one size and operations that fit);
- a spill that finds no room deeper has an error emitted on its operation, but `handleSpill` drops
  the result of the call (the comment at line 753 says callers must not) and the pass succeeds
  (`Return`), with a reload that copies from nowhere (`ReadsIntact` names `errors = {}`);
- a staged buffer is copied in for each use and never copied back, so what an operation writes to it
  is lost, and a home below the last tier has a stage in tiers that do not exist
  (`ResidentsAreConstants`);
- a spill evicted once more, deeper down, is never brought back (`FreshEvictionsOnly`);
- a buffer evicted from its own home tier leaves its consumers on the reload in that tier: the chains
  look for the buffer itself to point the consumer at the tier-0 stage "in place of the resident"
  (comment at line 1020), and the eviction has renamed it (`ResidentsStay`, the condition of
  `ComputesInTierZero`; two buffers of home 1 that share its only slot, with a third tier below);
- a stage has no memref when the scan places it; evicting it, or for it, ends in a call on a null
  value (`SpillOfNothing`);
- a chain whose require an earlier cull erased trips the assertion of `checkChain` (`CheckFails`),
  and an operation no unit takes gives a null unit (`ScheduleFails`).

Bounds. `address_chains` has 4 semaphores over 2 slots and 2 tags, so that slots are recycled
twice, tags wrap, and a chain can reach past the natural end of its target while another
semaphore looks for a slot; operation numbers matter to the pass only through comparisons and a
difference of one, so the enumeration takes all interleavings of the allocs and deallocs with no
gaps between them.

`handshake` has five graphs of 4 to 6 tasks: a buffer written twice and a broadcast joined into the
buffer that was read, where the order of the reuse follows from the requires alone and nothing is
chained; two loads with a third behind a chain from the only reader of the first; a broadcast to two
readers with the one chain FindAliasDependency keeps for the writer that follows, from the copy of the
second; and the same with three readers, where only a shared unit keeps the second before the
writer (`InputsIntact` speaks of 502 of the 610 placements of that graph, the other properties of
all). Each is run on every distribution of its tasks over 3 units and with every placement of its
semaphores in 4 slots that the results of `SemAddresses` allow; sizes are 1 and 2 and counters have
two bits, so a lost or duplicated credit shows as a wrapped or excessive count. `NumGenerations` is
4 there, so that no tag comes round.

`waits` has 5 tasks and 4 memrefs: enough for a memref with two readers of which the second
holds a copied token, a join of two tokens, a memref over two cells, memory reused twice in a
row, a reuse that is already ordered by tokens and one that is not, and a pair outside a window
of one allocation. `waits_three_readers` needs six tasks and has one program.

`staging_residents` has the two smallest functions that show its finding. `staging` has 3 buffers
and 3 operations with one operand (4 where tier 0 is tight, 2 where
operations have up to two operands), one or two slots in tier 0, guards up to 2, a buffer of
double size with and without alignment, a constant that lives in the second or third tier, and
deallocs at the end or not at all: every branch of expiry, eviction, reload and staging happens,
reloads that evict in turn included. `MaxMemrefs` bounds the memrefs eviction creates; no function
here needs as many.

`culling` has 4 tasks and up to 4 reads, one reuse of memory, and two units with pipelines of one
or two and queues of one; `culled_run` up to 3 reads. Four tasks leave two between a producer and
its consumer, enough for both depths to be reached exactly and missed by one. `image` has
two families of functions, over 2 slots and 2 tags. The small ones are all graphs of 4 tasks and up to
3 edges with up to 2 kernels, so that kernels disappear anywhere between the commands; the variants put
all deallocs last, share one memref, or chain the last semaphore from the first. In those no fused
address is used twice. The long ones have 6 semaphores and up to one kernel: a pipeline, which fills
both slots, and separate transfers, which need one. There slots and tags come round, so a fused
address is initialised again for a later semaphore and only its place in the stream tells which one
a dependency or a chain means. A chain from the first semaphore to the last reserves its slot in one
variant; in another the first has lost its users and its dealloc to culling, so that its slot goes to
others and the chain may name a later tenant, which is the case `StreamNamesTenants` excepts.
`WidthsAreLeast` checks the recursive width computation up to 300 generations.

Deadlock checking is off in every run because the passes and the programs end; that they do not
stop early is stated as liveness (`FittingProgramsAreAssigned`, `EveryCreditComesHome`,
`Terminates`, `RunsEnd`, `EveryTaskDelivered`).

Fairness. The passes are loops in one thread: weak fairness of the next step (`SemAddresses`,
`TierStaging`, `EmittedProgram`, `SemCulling`). For running programs, weak fairness of each
task's step, because units run independently and a wait loop polls for ever, and of the fabric's
initialisation of some semaphore (`SemHandshake`); in `CulledRun` of the compiler, of handing
out tasks and of each task.

## Proofs

The first half of `EmittedProgramProofs` is about `SemAddresses`. It proves for every set of programs,
every pair count (0 included) and every positive generation count:

- `TypeCorrect`: the type invariant;
- `AddressesNeverOverlap`, `ReuseIsChained`, `ChainTargetsKeepTheirAddress`: the safety
  properties the runs check (`NoLiveOverlap`, `TenantsChained`, `ChainTargetsReserved`);
- `VictimAlwaysExists`: with at least one pair the assertion that a victim exists (line 308) holds;
- `TagsTellTenants`: tenants of one address fewer than `num_semaphore_generations` apart have
  different tags;
- `ScanImplementsTenancy`: the scan implements `SlotTenancy`.

The assumptions are the named ones of the module: programs are well formed (what SSA form and
the walk order give), pairs are natural, generations positive.

`NoLiveOverlap` is not inductive: that a slot looks free says nothing of its old tenants unless
the active list holds every placed semaphore that has not ended. The invariant `IInv` adds what
the scan keeps: `BuildInv` (what the first walk has recorded in the chained ends so far),
`EndsSettled` (after the walks every interval with a dealloc ends no earlier than its dealloc and
than any alloc chaining from it), `ActiveIsComplete` (a placed semaphore outside the active list
ended by the alloc of the last placed one), `LastTenant` (`lastSem` and `lastEnd` of a slot are
those of its latest tenant, and slots not yet issued have none), and `Unplaced` (semaphores the
scan has not reached are untouched). TLC checked each part before it was proved. The refinement
is then a step simulation: the walks map to `Settle` and stuttering, the assignments to `Admit`,
exhaustion to `TurnAway`. For the tags the invariant is `TagsCount`: a tag is the number of
earlier tenants of the address, modulo the generations; two numbers closer than the modulus
have different remainders.

`TokenLoweringProofs` proves, for every set of well-formed programs (one writer per memref, before
its readers; memrefs that share memory used one after the other), whatever their size:

- `EveryCreditPairsUp`: `CreditsPairUp`, one consumer per semaphore, filled by an acquire or
  from the start, never both;
- `WaitsAreAcyclic`: `WaitsFollowProgramOrder`, no cycle through requires and chains;
- `SemaphoresStayInScope`: `SemaphoresInScope`, every semaphore is allocated before and freed after
  its uses, the order `SemAddresses` takes for granted;
- `LoweringTypeCorrect`: `TypeOK`, tokens, marks and chains name only what exists.

Its invariant says what each pass leaves for the next: before broadcast correction tokens are
results of earlier tasks (`PlainTokens`); after it a token has one consumer (`OneConsumer`) and a
copy comes after a consumer of its original (`CopiesFollow`), because the survivor is the minimum
of the consumers; marks come from a last accessor before the writer (`MarksFollow`, which needs
that overlapping memrefs are used in order and that a token has one consumer); the last three parts
(`SemsMatch`, `ChainsMatch`, `DeallocsMatch`) tie semaphores, chains and deallocs to the tokens.
The type theorem adds three parts (`TInv`): a variable is untouched until its pass (`Untouched`),
every token names a task that writes a memref (`ProducersWrite`), and the survivor of a broadcast
keeps the original token, so the semaphore a copy chains from exists (`OriginalsKept`).
Two more theorems are about the closure of the waits:

- `DataAlwaysArrives`: `DataArrives`, a task waits for the writer of whatever it reads;
- `MemoryIsReusedInOrder`: `MemoryReusedInOrder`.

The closure is stated as the least set closed under the waits (`Reachable`), which is what the work
list of `transitivelyOrdered` computes and needs no induction to reason about. Their invariant `DInv`
adds that the dependencies of a task are still those found for it, whichever copies carry them, and
that it requires each with the memref its producer writes (`DepsKnown`); and that the tokens the last
accessor of a kept pair requires with the older memref are marks of the first writer of the newer one
(`MarksKnown`). What a pair that is not kept was ordered by is in the closure of the dependencies,
and every dependency is a wait. Of two readers the earlier one is awaited because the later one holds
a copy, whose semaphore chains from the original.

`SemCullingProofs` proves, for all programs, units, visiting orders and depths:

- `CullingTypeCorrect`: `TypeOK`, which says that an acquire is left exactly where its require is
  and no require without its alloc;
- `CullingPreservesOrder`: `OrderPreserved`;
- `WorkStaysCurrent`: `WorkIsCurrent`;
- `NothingImpliedStays`: `NothingImpliedIsKept`, the other direction: not only is nothing culled that
  the units do not imply, nothing they imply is left;
- `CulledProgramRunsInOrder`: `RunsInOrder`, about the units of `CulledRun` that run what is left.

`OrderPreserved` is inductive only with `Progress` (nothing is culled before the schedule is made,
and the lists of one pass are empty in the other) and `WorkCrosses` (the items of the queue pass
wait across units). The argument is `CullAllowed`: what a cull removes
is, for every order the semaphore kept, implied by a unit, since the distance the pass counts is
the number of tasks given to the unit in between (`DistanceCounted`, `GivenBeforeCounted`).
`NothingImpliedIsKept` speaks of the end of a walk, so `VisitInv` says of every point of it that what
the pipelines imply and is still required has still to be visited: a visit that keeps a semaphore
has found it too near (`KeptIsFar`). `RunInv` is the units' part of a run: the tasks of a unit finish
in order, and a queue had room whenever a task was handed out. With `OrderPreserved` an order of the
lowered program is one of a semaphore, which the acquire waits for, or of a pipeline or queue, and
then the later task cannot start before the earlier one is done (`PipelineWaits`, `QueueWaits`).

`EmittedProgramProofs` proves, for all programs, widths and bases:

- `FusedAddressesTellTenantsApart`: `TenantsApart`, from `AddressesNeverOverlap`'s invariant carried
  over to the composition (`ImageKeepsAddresses`: every step of it is a step or a stutter of
  `SemAddresses`) and from the packing of address and tag being one to one (`PackingIsUnique`);
- `CorePollsTheStreamsCounters`: `PortsMeetStream`. Its invariant `PortsInv` says that the ports of a
  kernel, once computed, are those of the final addresses, which no later step changes;
- `KernelsKeepTheirData`: `KernelsSeeTheirData`. `KernelInv` gives each form its shape: before `fixed`
  the call, the parameters, the inner call and the parameters of the implementation list all
  captured values in their order; from then on those that are no semaphore; `placed` has the
  memrefs resolved at the inner call, `no_const` the constants too, and only then does the wrapper
  lose parameters, which nobody reads any more. The rewrites drop by position, so what is shown at
  each is that the lists have the same positions to drop.

It also proves, for every interleaving of the rewrites:

- `ImageTypeCorrect`: `ImageTypeOK`;
- `StreamBuffersAreAllocated`: `BuffersAllocated`;
- `StreamMeansTheProgram`: `StreamNamesTenants`.

`StreamInv` ties the stream to the function: the i-th command is that of the i-th operation that
yields one (`Upto` maps positions to commands), with the ids the final table gives it, because the
table only grows at its end. The properties count commands, the program numbers operations;
bijections between the two (`TaskAtIs`, `AllocsBeforeIs`) show that the n-th Execute is the n-th
supported task and the n-th SemAlloc the n-th semaphore. What is left is that the last semaphore
initialised under a fused address is the one meant: a later one with the same address and tag
would have been admitted only after this one's dealloc (`EndsAtDeallocs` and the invariant of the
address assignment), and the Execute that names it comes before that dealloc. A chain target is
either reserved to its own dealloc, which comes after the chain, or was the last tenant of the slot.
`StreamNamesTenants` keeps its premise that addresses and tags fit in 16 bits together: beyond it
the fabric's addresses collide, and the code does not look.

`TenantsApart`, `PortsMeetStream` and `StreamNamesTenants` assume `ScaleAssumption`, that the tags
fit in the bits reserved for them: it is a fact about the recursive width computation, whose proof
needs induction over data, and TLC checks it in the run and `WidthsAreLeast` beyond it.

`SemHandshakeProofs` proves, for all programs, units, placements, sizes and interleavings:

- `HandshakeTypeCorrect`: `TypeOK`, with nothing assumed about tags;
- `HandshakeNamesItsTenant`: `DependencyNamesItsTenant`;
- `CreditsStayConserved`: `CreditsConserved` on programs on which no tag comes round (`TagsNeverWrap`,
  the condition named above as a limit; TLC's programs all satisfy it);
- `InputsStayIntact`: `InputsIntact` on those programs, which has the condition `ConflictsOrdered`;
- `HandshakeKeepsDataflowOrder`: on those programs every step is a step or a stutter of
  `OrderedDataflow`, for the order the waits add up to.

The invariant `HInv` has three parts. `CreditInv` ties the counters of a slot to where its tasks are
in their code: `CountersFollow` says what the counters of a tenant hold, given who has taken and
returned its credit; `TenantsInTurn` and `CompletedInTurn` that the tenants of a slot come in the
order of the program, each after the ones before it have completed; `TakenInTurn` that only credits
of initialised semaphores are taken, and only filled ones by a consumer. `Poised` makes the gap
between the load and the add of a kernel harmless: the task that is about to add still has
the tenant it loaded from before it, because nobody but that task can take this credit and the slot
is not initialised again before it has gone round. `UnitsInOrder` says that a task has begun
its payload only when its unit was done with the tasks before it.

From these two follows the order. When a task is through its waits, everything it awaits has finished
(`AwaitedIsFinished`): the counters it found say who must have given the credits, the initialised
slots whose credits must have come home. So the finished tasks are closed under `Awaits`, and as `Before`
is the least closed set, all of it has finished, with no induction along the waits
(`BeforeIsFinished`). Nothing is assumed here of the memory the tasks share. The third part,
`ContentHeld`, says that a buffer holds what its last writer wrote from when that one has finished
until the next one begins; it is kept where the waits order the conflicts (`ConflictIsFinished`,
`WritersApart`).

`TierStagingProofs` proves for every set of well-formed functions, every target, guard and alignment and
every answer of the solver:

- `StagingTypeCorrect`: `TypeOK`;
- `ReuseKeepsTheGuard`: `ReuseRespectsGuard`, which no unit test of the pass comes near: buffers are
  placed, evicted, spilled and reloaded by two functions that call each other;
- `NothingSpillsNeedlessly`: `NoNeedlessSpills`, that the scan evicts nothing, reports nothing and
  makes no memref as long as no more buffers are live than tier 0 has places;
- `EvictingMakesRoom`: `SpillingMakesRoom`, that when they are not, but the operands of every
  operation fit tier 0 and all the buffers fit tier 1, each eviction finds a victim, the spill finds
  room and the scan reports no error.

`ScanInv` is the shape of the scan: intervals are sound (they stand for a buffer that exists and
their uses lie inside their lifetime, also after `computeSpill` cut them), the calls in progress are
of one tier after the other, and all but the last are placing an interval. `CodeInv` is that of the
code (`CodeOk`): what it names exists, every memref has a definition, every operation of the function
is there, so `DefPos` and `TimePos`, which stand for the insertion points, find something.

`ReuseRespectsGuard` is not inductive: that two placed intervals are apart says nothing about the
next one, since the solver sees only what is active. `GuardInv` adds what the history of a tier
means: what expired has ended a guard before a start that was taken (`Dated`); what a call is placing
is the interval taken last (`Latest`), so that in order its start comes after all of those and the
solver need not see what expired; and, in order, of two intervals that share an address the one
placed first ends a guard before the other starts (`Clear`). Eviction is the hard case: it moves the
end of a placed interval back to the start of the one being placed. The victim was still active then,
so nothing placed since it can lie at its address, and one whose truncation has left it without a life
is in `excluded` of the call and not evicted again. A call is in progress for a tier while others run
on deeper tiers only, so nothing is taken from the tier in between. In a tier that spills came into
out of order a start taken says nothing of the next one, which is finding 4.

`NoNeedlessSpills` looks at the end of the scan; `FitInv` says how it got there. While everything
fits, every interval of tier 0 is that of a whole buffer (`Whole`), the tier takes and places them in
the order of their definitions (`InLine`), and the deeper tiers have nothing to do. What is in the way
of a new buffer has not ended a guard before its definition, so each place taken is that of another
buffer still held at that operation; the new one is held there too, so fewer places are taken than
the tier has (`FitsHere`, a counting argument over the buffers held).

`SpillingMakesRoom` is about two tiers that work for each other. `SwapInv` says where a buffer is: at
any time it is in one hand only (`OneHand`), the queue of tier 0, a place there that lasts beyond the
start being placed, or the reload the call of tier 0 has put aside. What was evicted for the interval
being placed has ended where that one starts (`CutForThis`), and what tier 1 holds of a buffer has
ended by the time the buffer is back (`BackBy`), so no buffer is held twice in either tier. Room is
then a matter of counting (`PlaceLeft`): with fewer buffers in the way than places, of one size, one
offset is free. Tier 1 has a place for every buffer. In tier 0, if all places are taken, one of them
is held by a buffer that the operation at the start being placed does not touch, as its operands fit
together: this one is a victim (`RoomOrVictim`), and its eviction leaves one fewer in the way.

`StagedCodeProofs` proves, for the same functions, targets and answers, what the emitted code works on:

- `OperandsInTierZero`: `ComputesInTierZero`;
- `UsesStayCovered`: `UsesCovered`.

Both are statements about the end of the pass that no step of the scan preserves by itself, because an
operand is in turn with a buffer, with a reload that waits in a call, with one that is queued, with the
interval being placed and with a place in tier 0. `Pieces` is all of these of a tier, and nearly
every step leaves the pieces it found (`KeepsPieces`, `KeepsZero`): an interval changes hands or gets
an offset. The exceptions are the eviction, which cuts one piece and makes one or two
(`SpillMakes`), and an interval that is dropped because no place was found. For the latter `Lost`
says that tier 0 has lost an interval or is bound to: with a guard a truncated buffer is still in the
way of the interval it was truncated for, so that once no offset is free the call cannot succeed whatever
it evicts (`Stuck`). `Lost` is never taken back (`LostStays`), and a pass that lost something fails and
emits nothing. `CoverInv` then says of each operand of the code as rewritten so far: of a buffer whose
home is tier 0, a piece of tier 0 is or will be its place; of a resident, a chain is still to be emitted
for this use, or it is on the stage in tier 0 that the chain brought (`HomeCovered`); and when only fresh
buffers evict, the piece counts this very use (`UseCovered`). A fresh buffer starts at its definition,
which is no use of the victim, so each use of the victim is before the cut and stays, or after it and is
renamed to the reload (`UsesSplit`, `SpillFollows`). `Homes` says where the pieces come from, so that a
reload is never of a resident unless one was evicted from its home.

That the memref of a placed piece is annotated for tier 0 (`MarkedZero`) is harder than it looks, because
`allocSuccess` annotates the first active buffer with the id, and a spill and a reload keep the id of
the buffer they continue. It needs that no two pieces of one buffer are in each other's way in tier 0
(`NoTwins`): a piece waits or is placed only when the one before it has ended, which holds because
tier 0 takes its intervals in order (`InTurn`) and because, where an eviction happens at all and
nothing is lost, there is no guard that would keep the piece before it active (`SpillUnguarded`).

`StagedDataProofs` proves, for the same functions, targets and answers, what all of this is for:

- `DataSurvives`: `ReadsIntact`, that every operation of the emitted code finds the last values the
  function wrote to its operands, under the conditions the property names (no reload evicted another
  buffer, no error was emitted, every tier took its intervals in order, what is staged is only read).

Nothing about the contents of the memories is inductive without knowing which places are safe at each
point of the run, and that was decided long before, by a scan that did not visit the tiers in the order of
the run. So the proof has two invariants, one of the scan and one of the run. `Tidy` is that of the scan.
`Sole`: no memref is of two intervals and no stage is there twice, in all hands of all tiers. `Labelled`:
which buffer and which id an interval has. `Seated`: a placed interval fits its tier and is the one
`memMap` knows. `Drained`: the tiers below the one being scanned have nothing waiting. `Shaped`: a
copy is of one memref to a later one of the same buffer, and an operation works on memrefs of the
buffers it worked on. While the conditions hold (`Orderly`; they are never met again once broken,
`OrderlyBack`), `Neat` says that places and code agree. Of the places (`NeatPlaces`): the pieces of one
buffer follow each other in time (`PartsApart`), a memref is marked with its own place (`Marked`), and
residents and stages stay what they were (`Kept`). Of the code (`NeatCode`): it is in the order of the
operations the copies stand for, and copies for one operation in the order of what they make (`Sorted`);
a spill copies what ends there in tier 0, a reload what ends there in tier 1, and a chain goes from the
resident or a stage to the next stage (`CopiesFit`); a memref is defined before it is needed
(`DefsFirst`).

`RunInv` is that of the run: what has been defined and is needed yet holds, in all its cells, the last
value that the function wrote to its buffer before the operation that comes next. That an operation or a
copy overwrites none of it follows from `Neat`: what is needed yet has a place that lasts to the operation
that needs it (`WantedLive`), what is being written has a place that has begun, and two placed intervals
of a tier that share an address do not share a time, by `Clear` above. Only a copy reads what ends at the
very operation it stands for; what such a copy has yet to read is in another tier than what the copies
before it write (`LeavesApart`), which is where the order of the copies for one operation counts. A
stage may take the cells of another one of the same buffer and operation, which hold the same value.

`Extrema` has the facts about minima, maxima and the n-th member of a set that the proofs cite.

Every safety invariant that the runs check is thus stated by a theorem. Model-checked only: the liveness
properties, the liveness half of `ImplementsDataflow` and everything else that rests on fairness, because
the prover does not reason about ENABLED.

## Not modelled

- InsertLoadStore, LowerCopyToDma, EncodeDependencies: local rewrites without state, whose result
  is where the models start. MemoryAlloc and CollectAllocDealloc: the earlier single-tier allocator,
  which local staging replaced in the pipeline.
- Of LowerAsyncToSemaphore, the two rewrites that only rename operations. `SemAddresses` takes every
  placement of the deallocs after their allocs as input, those of `InsertSemDeallocs` among them.
- The dialect's declarations, parsers and effects, the transform operations and the drivers, the
  test harness.

What would come next: programs that `TokenLowering` produces as the input of `SemCulling`,
`SemAddresses` and `SemHandshake`, in place of enumerated ones; several functions
in one staging problem, where `memMap` keys by printed names meet.
