--------------------------- MODULE TokenLowering ---------------------------
(***************************************************************************)
(* From memory accesses to semaphores: the passes that find which tasks    *)
(* must wait for which, one action each, in the order of the pipeline      *)
(*   FindAsyncDependency.cpp, InsertRequire.cpp, CorrectBroadcast.cpp,     *)
(*   FindAliasDependency.cpp, LowerAsyncToSemaphore.cpp (three stages).    *)
(*                                                                         *)
(* A task is an async.execute around one operation; tasks are numbered in  *)
(* program order.  A program, after local staging:                         *)
(*   tasks, memrefs     numbers of tasks and of allocated memrefs, the     *)
(*                      memrefs in the order of their memref.alloc         *)
(*   reads[t]           the memrefs t reads                                *)
(*   writes[t]          the memref t writes, or NoMemref                   *)
(*   cells[m]           the memory {tier, [offset, offset + size)} of m    *)
(*   window             DLTI alias_check_length, in allocations, or NoWindow*)
(*                                                                         *)
(* A token is <<T, 0>>, the result of task T, or <<T, t>>, the result of   *)
(* the artificial execute CorrectBroadcast puts before consumer t.  After  *)
(* the lowering a token with a require stands for its semaphore.           *)
(***************************************************************************)
EXTENDS Integers, FiniteSets, FiniteSetsExt

CONSTANT Programs

NoMemref == 0
NoWindow == -1
NoToken  == <<0, 0>>

Tasks(p)     == 1 .. p.tasks
Memrefs(p)   == 1 .. p.memrefs
Touches(p, t) == p.reads[t] \cup ({p.writes[t]} \ {NoMemref})
Accessors(p, m) == {t \in Tasks(p) : m \in Touches(p, t)}
Readers(p, m)   == {t \in Tasks(p) : m \in p.reads[t]}
Writers(p, m)   == {t \in Tasks(p) : p.writes[t] = m}
Overlap(p, a, b) == p.cells[a] \cap p.cells[b] # {}

(* Bufferisation and LocalStaging: one writer, which comes before every     *)
(* reader, and memrefs that share memory are not live at the same time.     *)
WellFormed(p) ==
  /\ p.tasks \in Nat /\ p.memrefs \in Nat /\ p.window \in Nat \cup {NoWindow}
  /\ \A t \in Tasks(p) :
       p.reads[t] \subseteq Memrefs(p) /\ p.writes[t] \in Memrefs(p) \cup {NoMemref}
  /\ \A m \in Memrefs(p) :
       \E w \in Tasks(p) : Writers(p, m) = {w} /\ \A t \in Readers(p, m) : w < t
  /\ \A a, b \in Memrefs(p) : a < b /\ Overlap(p, a, b) =>
       \A t \in Accessors(p, a), u \in Accessors(p, b) : t < u

ASSUME ProgramsAssumption == \A p \in Programs : WellFormed(p)

VARIABLES
  prog,
  next,       \* the pass that runs next
  deps,       \* deps[t]: the tokens of the dependency list of t
  requires,   \* requires[t]: its eaac.require ops, as <<token, memref>>
  copies,     \* tokens of the executes CorrectBroadcast added
  marks,      \* marks[t]: predecessors of the non-broadcast eaac.chain ops in t
  sems,       \* tokens that have a semaphore
  acquire,    \* acquire[t]: the semaphore of the sem_acquire in t, or NoToken
  startsFull, \* semaphores with swapped counts and event mode R
  chains,     \* chains[s]: chains_from of the sem_alloc of s
  freedAfter  \* freedAfter[s]: the task the sem_dealloc of s is placed after

graph == <<deps, requires, copies>>
lowered == <<sems, acquire, startsFull, chains, freedAfter>>
vars == <<prog, next, graph, marks, lowered>>

Init ==
  /\ prog \in Programs
  /\ next = "FindAsyncDependency"
  /\ deps = [t \in Tasks(prog) |-> {}]
  /\ requires = [t \in Tasks(prog) |-> {}]
  /\ copies = {}
  /\ marks = [t \in Tasks(prog) |-> {}]
  /\ sems = {} /\ startsFull = {}
  /\ acquire = [t \in Tasks(prog) |-> NoToken]
  /\ chains = [s \in {} |-> {}] /\ freedAfter = [s \in {} |-> 0]

-----------------------------------------------------------------------------
(* A task depends on the writer of every memref it touches. *)
CollectDepsFirst(t) ==          \* a mutant: stops at the first dependency
  LET Found == (UNION {Writers(prog, m) : m \in Touches(prog, t)}) \ {t}
  IN {w \in Found : \A v \in Found : w <= v}

CollectDeps(t) == (UNION {Writers(prog, m) : m \in Touches(prog, t)}) \ {t}

FindAsyncDependency ==
  /\ next = "FindAsyncDependency"
  /\ deps' = [t \in Tasks(prog) |-> {<<w, 0>> : w \in CollectDeps(t)}]
  /\ next' = "InsertRequire"
  /\ UNCHANGED <<prog, requires, copies, marks, lowered>>

(* Every token of a task is paired with the memref its producer writes. *)
InsertRequire ==
  /\ next = "InsertRequire"
  /\ requires' = [t \in Tasks(prog) |->
                    {<<k, prog.writes[k[1]]>> : k \in deps[t]}]
  /\ next' = "CorrectBroadcast"
  /\ UNCHANGED <<prog, deps, copies, marks, lowered>>

(* The first consumer keeps a token; every other one gets a token of its    *)
(* own from an execute that chains from the original token.                 *)
SurvivorLatest(k) == Max({t \in Tasks(prog) : k \in deps[t]})      \* a mutant

Survivor(k) == Min({t \in Tasks(prog) : k \in deps[t]})

ThreadedSwapped(k, t) ==        \* a mutant: consumer and producer swapped
  IF t = Survivor(k) THEN k ELSE <<t, k[1]>>

ThreadedNot(k, t) == k          \* a mutant: a broadcast token is left shared

Threaded(k, t) == IF t = Survivor(k) THEN k ELSE <<k[1], t>>

CorrectBroadcast ==
  /\ next = "CorrectBroadcast"
  /\ deps' = [t \in Tasks(prog) |-> {Threaded(k, t) : k \in deps[t]}]
  /\ requires' = [t \in Tasks(prog) |-> {<<Threaded(r[1], t), r[2]>> : r \in requires[t]}]
  /\ copies' = UNION {deps'[t] \ deps[t] : t \in Tasks(prog)}
  /\ next' = "FindAliasDependency"
  /\ UNCHANGED <<prog, marks, lowered>>

-----------------------------------------------------------------------------
(* What u reaches over the edges of a graph on the tasks: the least set that *)
(* has the successors of u and those of each of its own members.            *)
Reachable(edges, u) ==
  {t \in Tasks(prog) : \A S \in SUBSET Tasks(prog) :
     edges[u] \subseteq S /\ (\A v \in S : edges[v] \subseteq S) => t \in S}

Producers == [v \in Tasks(prog) |-> {k[1] : k \in deps[v]}]

(* transitivelyOrdered: u reaches t over the dependency lists.  The execute *)
(* behind a copy depends on the original token.                             *)
Ordered(t, u) == t = u \/ t \in Reachable(Producers, u)

LastAccessorFirst(m) == Min(Accessors(prog, m))     \* a mutant

LastAccessor(m) == Max(Accessors(prog, m))
FirstWriter(m) == Min(Writers(prog, m))

InWindow(a, b) == prog.window = NoWindow \/ b - a <= prog.window

(* collectAliasPairs, before the deduplication *)
AliasPairs ==
  {pair \in Memrefs(prog) \X Memrefs(prog) :
     LET a == pair[1]
         b == pair[2]
     IN /\ a < b /\ InWindow(a, b) /\ Overlap(prog, a, b)
        /\ ~Ordered(LastAccessor(a), FirstWriter(b))}

(* One pair is kept for every writer: the first of those with the latest    *)
(* last accessor.                                                           *)
KeptPairs ==
  {pair \in AliasPairs :
     \A other \in AliasPairs :
       FirstWriter(other[2]) = FirstWriter(pair[2]) =>
         \/ LastAccessor(other[1]) < LastAccessor(pair[1])
         \/ LastAccessor(other[1]) = LastAccessor(pair[1]) /\ other[1] >= pair[1]}

(* The writer is marked with the token the last accessor requires for the   *)
(* old memref; an accessor without such a require drops the edge.           *)
FindAliasDependency ==
  /\ next = "FindAliasDependency"
  /\ marks' = [t \in Tasks(prog) |->
                 UNION {{r[1] : r \in {q \in requires[LastAccessor(pair[1])] : q[2] = pair[1]}}
                          : pair \in {q \in KeptPairs : FirstWriter(q[2]) = t}}]
  /\ next' = "BuildTokenToSemMap"
  /\ UNCHANGED <<prog, graph, lowered>>

-----------------------------------------------------------------------------
Tokens(t) == {r[1] : r \in requires[t]}

Consumers(s) == {t \in Tasks(prog) : s \in Tokens(t)}

(* A semaphore for every token that some task requires, acquired by the     *)
(* execute that produces it.                                                *)
BuildTokenToSemMap ==
  /\ next = "BuildTokenToSemMap"
  /\ sems' = UNION {{r[1] : r \in requires[t]} : t \in Tasks(prog)}
  /\ acquire' = [t \in Tasks(prog) |-> IF <<t, 0>> \in sems' THEN <<t, 0>> ELSE NoToken]
  /\ chains' = [s \in sems' |-> {}]
  /\ next' = "ChainSem"
  /\ UNCHANGED <<prog, graph, marks, startsFull, freedAfter>>

(* The marks of a task are appended to the chains of the semaphore it       *)
(* acquires, and lost if it acquires none; a copy starts full and chains    *)
(* from the semaphore of the original token.                                *)
ChainSem ==
  /\ next = "ChainSem"
  /\ chains' = [s \in sems |->
                  IF s \in copies THEN {<<s[1], 0>>} ELSE marks[s[1]] \cap sems]
  /\ startsFull' = copies
  /\ next' = "InsertSemDeallocs"
  /\ UNCHANGED <<prog, graph, marks, sems, acquire, freedAfter>>

(* Mutant: the use list is read from its other end. *)
NewestUserOldest(s) == IF s \in startsFull THEN Min(Consumers(s)) ELSE s[1]

(* The first user in the use list that is inside an execute.  The list is   *)
(* headed by the newest use; the sem_acquire came first, the sem_requires   *)
(* were converted after it and in program order; chaining sem_allocs are    *)
(* inside no execute.                                                       *)
NewestUser(s) == Max(Consumers(s))

InsertSemDeallocs ==
  /\ next = "InsertSemDeallocs"
  /\ freedAfter' = [s \in sems |-> NewestUser(s)]
  /\ next' = "done"
  /\ UNCHANGED <<prog, graph, marks, sems, acquire, startsFull, chains>>

Next ==
  \/ FindAsyncDependency
  \/ InsertRequire
  \/ CorrectBroadcast
  \/ FindAliasDependency
  \/ BuildTokenToSemMap
  \/ ChainSem
  \/ InsertSemDeallocs

Spec == Init /\ [][Next]_vars

-----------------------------------------------------------------------------
(* What the lowered program waits for at run time (SemHandshake): a task    *)
(* takes the credit of every token it requires, filled by the producer, or  *)
(* there from the start; and the semaphores it acquires and the copies it   *)
(* requires exist only when the consumers of the semaphores they chain from *)
(* have returned their credits.                                             *)
DirectWaits(u) ==
  LET Needed == (Tokens(u) \cap startsFull) \cup ({acquire[u]} \cap sems)
  IN {k[1] : k \in Tokens(u) \ startsFull}
       \cup UNION {Consumers(s) : s \in UNION {chains[q] : q \in Needed}}

Awaited ==
  LET Waits == [v \in Tasks(prog) |-> DirectWaits(v)]
  IN [u \in Tasks(prog) |-> Reachable(Waits, u)]

Lowered == next = "done"

TypeOK ==
  /\ WellFormed(prog)
  /\ next \in {"FindAsyncDependency", "InsertRequire", "CorrectBroadcast",
               "FindAliasDependency", "BuildTokenToSemMap", "ChainSem", "InsertSemDeallocs", "done"}
  /\ DOMAIN deps = Tasks(prog) /\ DOMAIN requires = Tasks(prog)
  /\ DOMAIN marks = Tasks(prog) /\ DOMAIN acquire = Tasks(prog)
  /\ \A t \in Tasks(prog) :
       /\ deps[t] \subseteq {<<w, c>> : w \in 1 .. t - 1, c \in {0, t}}
       /\ requires[t] \subseteq deps[t] \X Memrefs(prog)
       /\ marks[t] \subseteq UNION {Tokens(u) : u \in 1 .. t - 1}
       /\ acquire[t] \in {NoToken, <<t, 0>>}
  /\ copies \subseteq UNION {deps[t] : t \in Tasks(prog)}
  /\ startsFull \subseteq sems
  /\ DOMAIN chains = sems /\ \A s \in sems : chains[s] \subseteq sems
  /\ DOMAIN freedAfter = IF Lowered THEN sems ELSE {}

(* Every memref a task reads was written by a task it waits for, and the    *)
(* task holds a require that pairs a token of that writer with the memref:  *)
(* the waits that survive broadcast correction and lowering cover every     *)
(* true dependence FindAsyncDependency had found.                           *)
DataArrives ==
  Lowered =>
    \A u \in Tasks(prog) : \A m \in prog.reads[u] :
      \E w \in Awaited[u] :
        /\ Writers(prog, m) = {w}
        /\ \E k \in Tokens(u) : k[1] = w /\ <<k, m>> \in requires[u]

(* One credit per semaphore, and both ends of it in the program: a single   *)
(* task requires the semaphore, so that its size is taken and returned      *)
(* once; and it is filled either by the one sem_acquire in its producer or  *)
(* by its initial count, never both, never neither.  A copy exists only     *)
(* behind the original token it replaces.                                   *)
CreditsPairUp ==
  Lowered =>
    \A s \in sems :
      /\ Cardinality(Consumers(s)) = 1
      /\ (acquire[s[1]] = s) # (s \in startsFull)
      /\ s \in startsFull => <<s[1], 0>> \in chains[s] \ startsFull

(* No cycle of waits: across requires, alias chains and broadcast chains    *)
(* every task waits only for tasks before it in program order, so a machine *)
(* that starts tasks in program order never stops.                          *)
WaitsFollowProgramOrder ==
  Lowered => \A u \in Tasks(prog) : DirectWaits(u) \subseteq 1 .. u - 1

(* What address assignment takes for granted: the sem_alloc of a semaphore  *)
(* comes before every task that acquires or requires it and before the      *)
(* sem_allocs that chain from it, its sem_dealloc after the last of those   *)
(* tasks -- although the dealloc is placed after whichever user heads the   *)
(* use list, and copies are allocated far behind the token they copy.       *)
AllocatedBefore(s) == IF s \in startsFull THEN s[2] ELSE s[1]

SemaphoresInScope ==
  Lowered =>
    \A s \in sems :
      /\ \A t \in Tasks(prog) : s \in Tokens(t) \/ s = acquire[t] =>
           AllocatedBefore(s) <= t /\ t <= freedAfter[s]
      /\ \A c \in chains[s] : AllocatedBefore(c) < AllocatedBefore(s)

(* Memory is overwritten only after its last use: the writer of a memref    *)
(* waits for every task that touched the older memref in the same memory.   *)
(* It is promised where the passes do promise it: the new memref is         *)
(* consumed (otherwise the chain has nothing to attach to), the old one has *)
(* one or two readers, both are inside the window, and the new memref       *)
(* overlaps no other older one (FindAliasDependency keeps one edge per      *)
(* writer).  EveryReaderAwaited drops the bound on the readers.             *)
OlderOverlaps(b) == {a \in 1 .. b - 1 : Overlap(prog, a, b) /\ InWindow(a, b)}

Consumed(m) == Readers(prog, m) # {}

MemoryReusedInOrder ==
  Lowered =>
    \A b \in Memrefs(prog) : \A a \in OlderOverlaps(b) :
      Consumed(b) /\ Cardinality(Readers(prog, a)) \in {1, 2} /\ OlderOverlaps(b) = {a}
        => \A w \in Writers(prog, b) : Accessors(prog, a) \subseteq Awaited[w]

(* Passes.td:143-155: the pass makes alias pairs into a semaphore chain     *)
(* because otherwise a task on the new buffer can race against the last     *)
(* reader of the old one.  In execution any reader may be the last, so the  *)
(* writer must wait for each of them.                                       *)
EveryReaderAwaited ==
  Lowered =>
    \A b \in Memrefs(prog) : \A a \in OlderOverlaps(b) :
      Consumed(b) /\ OlderOverlaps(b) = {a}
        => \A w \in Writers(prog, b) : Readers(prog, a) \subseteq Awaited[w]
=============================================================================
