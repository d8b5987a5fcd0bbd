---------------------------- MODULE SemAddresses ----------------------------
(***************************************************************************)
(* The pass --assign-semaphore-addresses                                   *)
(* (src/lib/eaac/Transforms/AssignSemaphoreAddresses.cpp): a linear scan    *)
(* over the live intervals of the semaphores of one function that gives    *)
(* every sem_alloc a hardware address and a generation tag, and chains     *)
(* each tenant of an address to the tenant before it.                      *)
(*                                                                         *)
(* A program is what the pass reads of the IR.  Its semaphores are         *)
(* numbered 1 .. sems in walk order; alloc and dealloc are the numbers     *)
(* numberOperations gives their sem_alloc and sem_dealloc; chains is the   *)
(* chains_from list of each sem_alloc.                                     *)
(***************************************************************************)
EXTENDS Integers, FiniteSets

CONSTANTS
  Programs,        \* the functions the pass may be given
  NumPairs,        \* DLTI num_semaphore_pairs
  NumGenerations   \* DLTI num_semaphore_generations

NoOp   == -1       \* no sem_dealloc: SemOptimize erased it with the uses
NoSem  == 0        \* a null Value in lastSem
NoAddr == -1       \* SemInterval::address before assignment

Sems(p) == 1 .. p.sems

(* SSA form and the walk order give: increasing alloc numbers, a dealloc    *)
(* after its alloc, chain operands defined before the alloc that uses them. *)
WellFormed(p) ==
  /\ p.sems \in Nat
  /\ p.alloc \in [Sems(p) -> Nat]
  /\ p.dealloc \in [Sems(p) -> Nat \cup {NoOp}]
  /\ p.chains \in [Sems(p) -> SUBSET Sems(p)]
  /\ \A s, t \in Sems(p) : s < t => p.alloc[s] < p.alloc[t]
  /\ \A s \in Sems(p) : p.dealloc[s] # NoOp => p.alloc[s] < p.dealloc[s]
  /\ \A s, t \in Sems(p) : p.dealloc[s] # p.alloc[t]
  /\ \A s \in Sems(p) : \A t \in p.chains[s] : t < s

ASSUME ProgramsAssumption == \A p \in Programs : WellFormed(p)
ASSUME PairsAssumption == NumPairs \in Nat
ASSUME GenerationsAssumption == NumGenerations \in Nat \ {0}

Addrs == 0 .. NumPairs - 1

VARIABLES
  prog,        \* the function being processed
  phase,       \* "build", "scan", "done", "failed" (error) or "aborted" (assert)
  cur,         \* index of the semaphore the current loop looks at
  chainedEnd,  \* chainedSemIntervalEnd; NoOp when absent
  end,         \* SemInterval::end
  active,      \* intervals not expired when last looked at
  hwm,         \* addresses issued so far
  lastEnd,     \* end of the last tenant of each address
  lastSem,     \* last tenant of each address
  nextGen,     \* nextGeneration counter of each address
  addr, gen,   \* SemInterval::address, SemInterval::generation
  reused,      \* SemInterval::reused
  chains       \* chains_from of each sem_alloc as rewritten by the pass

intervals == <<chainedEnd, end>>
scanState == <<active, hwm, lastEnd, lastSem, nextGen, addr, gen, reused, chains>>
vars == <<prog, phase, cur, intervals, scanState>>

-----------------------------------------------------------------------------
Init ==
  /\ prog \in Programs
  /\ phase = "build" /\ cur = 1
  /\ chainedEnd = [s \in Sems(prog) |-> NoOp]
  /\ end = [s \in Sems(prog) |-> NoOp]
  /\ active = {} /\ hwm = 0
  /\ lastEnd = [a \in Addrs |-> -1]
  /\ lastSem = [a \in Addrs |-> NoSem]
  /\ nextGen = [a \in Addrs |-> 0]
  /\ addr = [s \in Sems(prog) |-> NoAddr]
  /\ gen = [s \in Sems(prog) |-> 0]
  /\ reused = [s \in Sems(prog) |-> FALSE]
  /\ chains = prog.chains

Later(x, y) == IF x < y THEN y ELSE x

(* buildIntervals, the sem_alloc loop: open the interval of cur and keep    *)
(* every predecessor it chains from reserved until this alloc has fired.    *)
VisitAlloc ==
  /\ phase = "build" /\ cur \in Sems(prog)
  /\ end' = [end EXCEPT ![cur] = prog.alloc[cur]]
  /\ chainedEnd' = [s \in Sems(prog) |->
                      IF s \in prog.chains[cur]
                        THEN Later(chainedEnd[s], prog.alloc[cur] + 1)
                        ELSE chainedEnd[s]]
  /\ cur' = cur + 1
  /\ UNCHANGED <<prog, phase, scanState>>

(* Mutant: the chain extension is forgotten. *)
ClosedEndNatural(s) == prog.dealloc[s]

(* The end a sem_dealloc gives its interval. *)
ClosedEnd(s) == Later(prog.dealloc[s], chainedEnd[s])

(* buildIntervals, the sem_dealloc walk; the sort after it changes nothing  *)
(* because the walk order is the order of the alloc numbers.                *)
VisitDeallocs ==
  /\ phase = "build" /\ cur = prog.sems + 1
  /\ end' = [s \in Sems(prog) |->
               IF prog.dealloc[s] = NoOp THEN end[s] ELSE ClosedEnd(s)]
  /\ phase' = "scan" /\ cur' = 1
  /\ UNCHANGED <<prog, chainedEnd, scanState>>

-----------------------------------------------------------------------------
(* Mutants: intervals expire one operation too early, or too late. *)
StillActiveEarly == {s \in active : end[s] > prog.alloc[cur] + 1}
StillActiveLate  == {s \in active : end[s] + 1 >= prog.alloc[cur]}

(* The active intervals that survive expiry at the alloc of cur. *)
StillActive == {s \in active : end[s] > prog.alloc[cur]}

Free == {a \in Addrs : \A s \in StillActive : addr[s] # a}

(* Free address whose last tenant ended first, ties to the lowest index. *)
LeastRecentlyUsed(a) ==
  /\ a \in Free
  /\ \A b \in Free : \/ lastEnd[a] < lastEnd[b]
                     \/ lastEnd[a] = lastEnd[b] /\ a <= b

(* Mutants: the tag never wraps; one counter serves all addresses. *)
TakeGenerationUnwrapped(a) ==
  /\ gen' = [gen EXCEPT ![cur] = nextGen[a]]
  /\ nextGen' = [nextGen EXCEPT ![a] = @ + 1]
TakeGenerationShared(a) ==
  /\ gen' = [gen EXCEPT ![cur] = nextGen[a] % NumGenerations]
  /\ nextGen' = [b \in Addrs |-> nextGen[b] + 1]

(* takeGeneration *)
TakeGeneration(a) ==
  /\ gen' = [gen EXCEPT ![cur] = nextGen[a] % NumGenerations]
  /\ nextGen' = [nextGen EXCEPT ![a] = @ + 1]

(* Mutant: only a tenant that is still live is waited for. *)
ChainToLiveTenant(a) ==
  IF lastSem[a] \notin StillActive
    THEN UNCHANGED <<chains, reused>>
    ELSE /\ chains' = [chains EXCEPT ![cur] = @ \cup {lastSem[a]}]
         /\ reused' = [reused EXCEPT ![cur] = TRUE]

(* Make cur wait for the completion of the previous tenant of a, if any. *)
ChainToLastTenant(a) ==
  IF lastSem[a] = NoSem
    THEN UNCHANGED <<chains, reused>>
    ELSE /\ chains' = [chains EXCEPT ![cur] = @ \cup {lastSem[a]}]
         /\ reused' = [reused EXCEPT ![cur] = TRUE]

Assign(a) ==
  /\ addr' = [addr EXCEPT ![cur] = a]
  /\ TakeGeneration(a)
  /\ ChainToLastTenant(a)
  /\ lastEnd' = [lastEnd EXCEPT ![a] = end[cur]]
  /\ lastSem' = [lastSem EXCEPT ![a] = cur]
  /\ active' = StillActive \cup {cur}
  /\ cur' = cur + 1
  /\ UNCHANGED <<prog, phase, intervals>>

(* A never-issued address is preferred. *)
AssignFresh ==
  /\ phase = "scan" /\ cur \in Sems(prog)
  /\ hwm < NumPairs
  /\ Assign(hwm)
  /\ hwm' = hwm + 1

AssignRecycled ==
  /\ phase = "scan" /\ cur \in Sems(prog)
  /\ hwm >= NumPairs
  /\ \E a \in Addrs : LeastRecentlyUsed(a) /\ Assign(a)
  /\ UNCHANGED hwm

(* No free address.  The victim is sought in the list that was just purged  *)
(* of every interval ending at or before this alloc, so the check           *)
(* victim->end > cur.start never fails and the eviction below it never      *)
(* runs; with no active interval at all the assertion fires instead.        *)
OutOfAddresses ==
  /\ phase = "scan" /\ cur \in Sems(prog)
  /\ hwm >= NumPairs /\ Free = {}
  /\ phase' = IF StillActive = {} THEN "aborted" ELSE "failed"
  /\ active' = StillActive
  /\ UNCHANGED <<prog, cur, intervals, hwm, lastEnd, lastSem, nextGen,
                 addr, gen, reused, chains>>

(* annotateIR *)
Annotate ==
  /\ phase = "scan" /\ cur = prog.sems + 1
  /\ phase' = "done"
  /\ UNCHANGED <<prog, cur, intervals, scanState>>

Next ==
  \/ VisitAlloc
  \/ VisitDeallocs
  \/ AssignFresh
  \/ AssignRecycled
  \/ OutOfAddresses
  \/ Annotate

(* The pass is a sequential loop: it runs until it returns. *)
Spec == Init /\ [][Next]_vars /\ WF_vars(Next)

-----------------------------------------------------------------------------
(* The semaphores the scan has given an address. *)
Placed == IF phase = "build" THEN {} ELSE 1 .. cur - 1

Tenants(a) == {s \in Placed : addr[s] = a}

(* s is the tenant of its address just before t. *)
Precedes(s, t) ==
  /\ s \in Placed /\ t \in Placed
  /\ s < t /\ addr[s] = addr[t]
  /\ \A u \in Placed : s < u /\ u < t => addr[u] # addr[t]

TypeOK ==
  /\ WellFormed(prog)
  /\ phase \in {"build", "scan", "done", "failed", "aborted"}
  /\ cur \in 1 .. prog.sems + 1
  /\ chainedEnd \in [Sems(prog) -> Nat \cup {NoOp}]
  /\ end \in [Sems(prog) -> Nat \cup {NoOp}]
  /\ active \in SUBSET Sems(prog)
  /\ hwm \in 0 .. NumPairs
  /\ lastEnd \in [Addrs -> Nat \cup {-1}]
  /\ lastSem \in [Addrs -> Sems(prog) \cup {NoSem}]
  /\ nextGen \in [Addrs -> Nat]
  /\ addr \in [Sems(prog) -> Addrs \cup {NoAddr}]
  /\ gen \in [Sems(prog) -> 0 .. NumGenerations - 1]
  /\ reused \in [Sems(prog) -> BOOLEAN]
  /\ chains \in [Sems(prog) -> SUBSET Sems(prog)]

(* Two semaphores share an address only if the first is deallocated before  *)
(* the second is allocated: active, hwm and lastEnd together never hand out *)
(* an address whose counters are still in use.                              *)
NoLiveOverlap ==
  \A s, t \in Placed : s < t /\ addr[s] = addr[t] => end[s] <= prog.alloc[t]

(* A semaphore another one chains from keeps its address to itself until    *)
(* the chaining sem_alloc has fired, however early its own sem_dealloc is.  *)
(* Only semaphores that still have a sem_dealloc are covered.               *)
ChainTargetsReserved ==
  \A s \in Placed : \A t \in prog.chains[s] :
    prog.dealloc[t] # NoOp =>
      \A u \in Placed : t < u /\ u <= s => addr[u] # addr[t]

(* The chains the pass adds line the tenants of every address up: each one  *)
(* waits for the tenant just before it and for nobody else, is marked       *)
(* reused exactly then, and keeps the chains it had.                        *)
TenantsChained ==
  \A t \in Placed :
    /\ chains[t] = prog.chains[t] \cup {s \in Placed : Precedes(s, t)}
    /\ reused[t] = \E s \in Placed : Precedes(s, t)

(* A signal left over from a tenant of an address is told from those of the *)
(* next NumGenerations - 1 tenants by its tag, whatever the order in which  *)
(* the addresses were recycled.                                             *)
TagsTellTenantsApart ==
  \A s, t \in Placed :
    /\ s < t /\ addr[s] = addr[t]
    /\ Cardinality({u \in Tenants(addr[t]) : s < u /\ u <= t}) < NumGenerations
    => gen[s] # gen[t]

(* At the alloc of s, how many earlier semaphores are still held. *)
Held(s) == {t \in Sems(prog) : t < s /\ end[t] > prog.alloc[s]}

(* A function in which no more semaphores than there are addresses are ever *)
(* held at once is always given addresses: preferring fresh addresses and   *)
(* recycling the least recently used one never wastes a slot.               *)
FittingProgramsAreAssigned ==
  (phase = "scan" /\ \A s \in Sems(prog) : Cardinality(Held(s)) < NumPairs)
    ~> phase = "done"

-----------------------------------------------------------------------------
(* The scan implements the abstract tenancy of slots: earlier intervals are *)
(* compared through active, hwm and lastEnd only, yet no tenant is admitted *)
(* to a held slot and none is turned away while some slot is vacant.        *)
Tenancy == INSTANCE SlotTenancy WITH
             Slots <- Addrs,
             first <- prog.alloc,
             last <- end,
             home <- [s \in Placed |-> addr[s]],
             turnedAway <- phase \in {"failed", "aborted"}

ImplementsTenancy == Tenancy!Spec

-----------------------------------------------------------------------------
(* The file header says that when addresses run out the soonest-finishing   *)
(* one is reused and marked in the IR.                                      *)
ExhaustionReusesAnAddress == phase # "failed"
=============================================================================
