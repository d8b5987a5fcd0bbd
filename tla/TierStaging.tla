----------------------------- MODULE TierStaging -----------------------------
(***************************************************************************)
(* The pass --eaac-local-staging (src/lib/eaac/Transforms/LocalStaging.cpp) *)
(* with the liveness analysis it reads: a linear scan over the memrefs of  *)
(* a function that gives each one a tier and an offset, spills to the next *)
(* tier what does not fit, brings it back before its next use, and stages  *)
(* memrefs whose home is a lower tier for each of their uses.  Tiers call  *)
(* each other recursively, so the call stack is part of the state.  After  *)
(* the pass the emitted code is run once, in order, to see what it reads.  *)
(*                                                                         *)
(* A program is what the pass reads of the IR and of the target: ops is    *)
(* the function, one record per operation, whose operation numbers are the *)
(* positions in ops; size and home (eaac.home_tier) describe the buffers,  *)
(* numbered in the order of their definitions; caps, guard and align are   *)
(* tier_capacities, reuse_guard and bus_size.                              *)
(***************************************************************************)
EXTENDS Integers, Sequences, FiniteSets, TLC, SequencesExt, FiniteSetsExt

CONSTANTS
  Programs,     \* the functions the pass may be given
  MaxMemrefs    \* bound on the memrefs of the rewritten function

Bufs(p) == DOMAIN p.size
Times(p) == DOMAIN p.ops

Touched(op) == op.reads \cup op.writes

DefTime(p, b) ==
  CHOOSE t \in Times(p) : p.ops[t].kind \in {"alloc", "global"} /\ b \in p.ops[t].writes

Operations(B) ==
  [kind : {"alloc", "global", "exec", "dealloc"}, reads : SUBSET B, writes : SUBSET B]

(* SSA form: one definition per buffer, in order, before everything else    *)
(* that touches it; a dealloc has no results and nothing touches a buffer   *)
(* after it.  A target has at least one tier.                               *)
WellFormed(p) ==
  /\ p.size \in Seq(Nat) /\ p.home \in [Bufs(p) -> Nat]
  /\ p.ops \in Seq(Operations(Bufs(p)))
  /\ p.guard \in Nat /\ p.align \in Nat \ {0}
  /\ IsFiniteSet(DOMAIN p.caps) /\ DOMAIN p.caps # {}
  /\ p.caps \in [0 .. Cardinality(DOMAIN p.caps) - 1 -> Nat]
  /\ \A b \in Bufs(p) :
       \E d \in Times(p) :
         /\ p.ops[d].kind \in {"alloc", "global"} /\ p.ops[d].writes = {b}
         /\ \A t \in Times(p) :
              /\ b \in Touched(p.ops[t]) => t >= d
              /\ b \in p.ops[t].writes /\ p.ops[t].kind \in {"alloc", "global"} => t = d
  /\ \A b, c \in Bufs(p) : b < c => DefTime(p, b) < DefTime(p, c)
  /\ \A s \in Times(p) : p.ops[s].kind = "dealloc" => p.ops[s].writes = {}
  /\ \A s, t \in Times(p) :
       p.ops[s].kind = "dealloc" /\ s < t => Touched(p.ops[s]) \cap Touched(p.ops[t]) = {}

ASSUME ProgramsAssumption == \A p \in Programs : WellFormed(p)

VARIABLES
  prog,       \* the function and its target
  plan,       \* the staging chains to emit, as (resident, use) pairs
  phase,      \* "alloc", "emit", "run", "failed" (signalPassFailure) or "crashed" (null memref)
  level,      \* the tier the loop of allocate visits next
  unhandled,  \* MemoryTier::unhandled of each tier
  placed,     \* the intervals of MemoryTier::active and ::handled, in order of
              \* placement; each one stands for its Buffer as well
  handled,    \* MemoryTier::handled: the positions in placed of those that expired
  stack,      \* the calls of processTier in progress
  errors,     \* intervals an error was emitted for
  allPlaced,  \* allPlaced of allocate
  memMap,     \* interval id -> offset
  memrefs,    \* the memref values of the function and their eaac.tier, eaac.offset
  code,       \* the function as rewritten so far
  evictedFor, \* history: of each eviction the tier, the memref it made room for and
              \* the victim's
  taken,      \* history: the starts of the intervals taken from each tier, in order
  pc, mem     \* run of the emitted code: next operation, contents of the tiers

tiersState == <<unhandled, placed, handled>>
outState == <<errors, allPlaced, memMap, memrefs, code, evictedFor>>
vars == <<prog, plan, taken, phase, level, tiersState, stack, outState, pc, mem>>

Tiers == DOMAIN prog.caps
Bottom == Cardinality(Tiers) - 1

-----------------------------------------------------------------------------
(* MemRefLivenessAnalysis *)
UsesOf(p, b) == {t \in Times(p) : p.ops[t].kind = "exec" /\ b \in Touched(p.ops[t])}

(* Mutant: the end is past the operation after the last one. *)
EndOfLate(p, b) == 2 + Max({t \in Times(p) : b \in Touched(p.ops[t])})

EndOf(p, b) == 1 + Max({t \in Times(p) : b \in Touched(p.ops[t])})

(* Constants live in the bottom tier unless a directive says otherwise. *)
HomeOf(p, b) ==
  IF p.home[b] = 0 /\ p.ops[DefTime(p, b)].kind = "global"
    THEN Cardinality(DOMAIN p.caps) - 1 ELSE p.home[b]

NoMem == 0        \* a null Value
NoOffset == -1

IdOf(b) == [buf |-> b, stage |-> -1, use |-> 0]

BufInterval(p, b) ==
  [id |-> IdOf(b), start |-> DefTime(p, b), end |-> EndOf(p, b), size |-> p.size[b],
   uses |-> UsesOf(p, b), home |-> HomeOf(p, b), mem |-> b, offset |-> NoOffset]

(* makeStagingChain: the stage in tier k of the chain for the use at t. *)
Stage(p, b, t, k) ==
  [id |-> [buf |-> b, stage |-> k, use |-> t], start |-> t, end |-> t + 1,
   size |-> p.size[b], uses |-> {}, home |-> k, mem |-> NoMem, offset |-> NoOffset]

(* planStagingChains: a chain for every use of a resident. *)
Chains(p) == {c \in Bufs(p) \X Times(p) : HomeOf(p, c[1]) > 0 /\ c[2] \in UsesOf(p, c[1])}

Intervals(p) ==
  {BufInterval(p, b) : b \in Bufs(p)}
    \cup UNION {{Stage(p, b, t, k) : t \in UsesOf(p, b), k \in 0 .. HomeOf(p, b) - 1} : b \in Bufs(p)}

(* MemoryTier::addUnhandled: before the first interval that starts no earlier. *)
AddUnhandled(queue, iv) ==
  LET earlier == {i \in DOMAIN queue : queue[i].start < iv.start}
  IN InsertAt(queue, Cardinality(earlier) + 1, iv)

(* The tier an interval enters: homes below the last tier are clamped. *)
EntryTier(p, iv) ==
  LET last == Cardinality(DOMAIN p.caps) - 1 IN IF iv.home > last THEN last ELSE iv.home

(* sortedIntervals and addUnhandled: in order of start; the sort is not      *)
(* stable, so intervals that start together come in any order.              *)
Queues(S) ==
  {q \in [1 .. Cardinality(S) -> S] :
     \A i, j \in DOMAIN q : i < j => q[i] # q[j] /\ q[i].start <= q[j].start}

FirstQueues(p) ==
  LET Entering(k) == {iv \in Intervals(p) : EntryTier(p, iv) = k}
      Levels == DOMAIN p.caps
  IN {f \in [Levels -> UNION {Queues(Entering(k)) : k \in Levels}] :
        \A k \in Levels : f[k] \in Queues(Entering(k))}

Unplaced(b) == [buf |-> b, tier |-> -1, offset |-> NoOffset]

Init ==
  /\ prog \in Programs /\ plan = Chains(prog)
  /\ phase = "alloc" /\ level = Bottom /\ stack = << >>
  /\ unhandled \in FirstQueues(prog)
  /\ placed = [k \in Tiers |-> << >>] /\ handled = [k \in Tiers |-> {}]
  /\ errors = {} /\ allPlaced = TRUE /\ memMap = << >>
  /\ memrefs = [b \in Bufs(prog) |-> Unplaced(b)]
  /\ code = [t \in Times(prog) |-> [kind |-> prog.ops[t].kind, time |-> t, at |-> t,
                                    reads |-> prog.ops[t].reads,
                                    writes |-> prog.ops[t].writes]]
  /\ evictedFor = {} /\ taken = [k \in Tiers |-> << >>]
  /\ pc = 1
  /\ mem = [c \in UNION {{k} \X (0 .. prog.caps[k] - 1) : k \in Tiers} |-> <<0, 0>>]

-----------------------------------------------------------------------------
(* A call of processTier: the interval allocateAtTier is placing, if any,   *)
(* the victims spilled for it, and the reload handleSpill still has to      *)
(* queue when the call it made to the next tier returns.                    *)
NoInterval == [id |-> 0]
Frame(k) == [tier |-> k, cur |-> NoInterval, excluded |-> {}, reload |-> NoInterval, ok |-> TRUE]

Top == stack[Len(stack)]
Tier == Top.tier
Cur == Top.cur
SetTop(frame) == [stack EXCEPT ![Len(stack)] = frame]

(* MemoryTier::active, as positions in placed. *)
Active(k) == DOMAIN placed[k] \ handled[k]

(* The first active interval of a tier with an id. *)
First(k, id) == Min({j \in Active(k) : placed[k][j].id = id})

Calling == phase = "alloc" /\ stack # << >>
Idle == Calling /\ Cur = NoInterval
Placing == Calling /\ Cur # NoInterval

(* The loop of allocate, bottom tier first. *)
StartTier ==
  /\ phase = "alloc" /\ stack = << >> /\ level >= 0
  /\ stack' = <<Frame(level)>>
  /\ level' = level - 1
  /\ UNCHANGED <<prog, plan, taken, phase, tiersState, outState, pc, mem>>

(* Mutant: the guard is forgotten on expiry. *)
ExpiredNoGuard(iv, now) == iv.end <= now

(* expireTierIntervals *)
Expired(iv, now) == iv.end + prog.guard <= now

(* Take the next interval of the tier; one without a lifetime is skipped,   *)
(* after it has expired others.                                             *)
Take ==
  /\ Idle /\ unhandled[Tier] # << >>
  /\ LET iv == Head(unhandled[Tier])
         dead == {j \in Active(Tier) : Expired(placed[Tier][j], iv.start)}
     IN /\ unhandled' = [unhandled EXCEPT ![Tier] = Tail(@)]
        /\ handled' = [handled EXCEPT ![Tier] = @ \cup dead]
        /\ stack' = IF iv.start >= iv.end THEN stack
                    ELSE SetTop([Top EXCEPT !.cur = iv, !.excluded = {}])
        /\ taken' = [taken EXCEPT ![Tier] = Append(@, iv.start)]
  /\ UNCHANGED <<prog, plan, phase, level, placed, outState, pc, mem>>

-----------------------------------------------------------------------------
(* The solver, minimalloc: offsets once given are fixed, so a solution is   *)
(* an aligned offset for the new buffer clear of every buffer whose padded  *)
(* lifespan meets its own.  What it makes of a lifespan that truncation has *)
(* left empty is not documented, so both answers are allowed.               *)
Apart(a, iv, o) == o + iv.size <= a.offset \/ a.offset + a.size <= o
Meets(a, iv) == a.start < iv.end + prog.guard /\ iv.start < a.end + prog.guard
Empty(a) == a.start >= a.end + prog.guard

Offsets(iv) == {o \in 0 .. prog.caps[Tier] - iv.size : o % prog.align = 0}
Residents(k) == {placed[k][j] : j \in Active(k)}
Room ==
  {o \in Offsets(Cur) : \A a \in Residents(Tier) :
     ~ Empty(a) /\ Meets(a, Cur) => Apart(a, Cur, o)}
SureRoom ==
  {o \in Room : \A a \in Residents(Tier) : Empty(a) => Apart(a, Cur, o)}

(* allocSuccess: the first active interval with this id is annotated, which *)
(* is the new one if there is no other.                                     *)
Annotated(k, o) ==
  LET same == {j \in Active(k) : placed[k][j].id = Cur.id}
      m == IF same = {} THEN Cur.mem ELSE placed[k][First(k, Cur.id)].mem
  IN IF m = NoMem THEN memrefs
     ELSE [memrefs EXCEPT ![m] = [buf |-> @.buf, tier |-> k, offset |-> o]]

Place ==
  /\ Placing
  /\ \E o \in Room :
       /\ placed' = [placed EXCEPT ![Tier] = Append(@, [Cur EXCEPT !.offset = o])]
       /\ memrefs' = Annotated(Tier, o)
       /\ memMap' = [x \in DOMAIN memMap \cup {Cur.id} |-> IF x = Cur.id THEN o ELSE memMap[x]]
  /\ stack' = SetTop([Top EXCEPT !.cur = NoInterval])
  /\ UNCHANGED <<prog, plan, taken, phase, level, unhandled, handled, errors, allPlaced,
                 code, evictedFor, pc, mem>>

-----------------------------------------------------------------------------
(* selectSpillVictim.  The infeasible subset it asks for is that of the     *)
(* buffers already placed, which are feasible together, so all of them      *)
(* come back; the one needed last is taken, ties in hash order.             *)
(* Mutant: a buffer that only waits for its dealloc is no victim. *)
DistancesToUses(a) == {u - Cur.start : u \in {v \in a.uses : v > Cur.start}}

Distances(a) == {u - Cur.start : u \in {v \in a.uses \cup {a.end} : v > Cur.start}}

Victims ==
  LET able == {a \in Residents(Tier) :
                 a.id \notin Top.excluded /\ Distances(a) # {}}
  IN {a.id : a \in {x \in able : \A y \in able : Min(Distances(y)) <= Min(Distances(x))}}

CanSpill == SureRoom = {} /\ Tier < Bottom /\ Victims # {}

(* Mutant: the reload starts where the spill does. *)
NextUseNow(a) == Cur.start

(* computeSpill: where the reload starts. *)
NextUse(a) ==
  LET later == {u \in a.uses : u > Cur.start}
  IN IF later = {} THEN a.end - 1 ELSE Min(later)

(* Mutant: the uses are not truncated with the interval. *)
UsesBeforeAll(uses, t) == uses

(* computeSpill: what a truncated buffer keeps of its uses. *)
UsesBefore(uses, t) == {u \in uses : u < t}

(* IR rewrites.  A copy has no number of its own; at, kept for the          *)
(* properties, is that of the operation of the function it stands before.   *)
DefPos(ops, m) == CHOOSE i \in DOMAIN ops : ops[i].kind # "exec" /\ m \in ops[i].writes
TimePos(ops, t) == CHOOSE i \in DOMAIN ops : ops[i].time = t
Copy(t, from, to) ==
  [kind |-> "copy", time |-> 0, at |-> t, reads |-> {from}, writes |-> {to}]
CopyBefore(ops, i, from, to) == InsertAt(ops, i, Copy(ops[i].at, from, to))

Renamed(S, old, new) == IF old \in S THEN (S \ {old}) \cup {new} ELSE S

(* Mutant: the uses after a reload stay on the old memref. *)
ReplacedNot(ops, times, old, new) == ops

Replaced(ops, times, old, new) ==
  [i \in DOMAIN ops |->
     IF ops[i].time \in times
       THEN [ops[i] EXCEPT !.reads = Renamed(@, old, new), !.writes = Renamed(@, old, new)]
       ELSE ops[i]]

(* handleSpill up to the call of processTier for the next tier.  The reload *)
(* is emitted and queued only if the buffer has a use left to reload for.   *)
(* (The \E over singletons make TLC compute each version of the code once.)  *)
Spill ==
  /\ Placing /\ CanSpill /\ Len(memrefs) < MaxMemrefs
  /\ \E v \in Victims :
     LET i == First(Tier, v)
         a == placed[Tier][i]
         next == NextUse(a)
         uses == {u \in a.uses : u >= next}
         reloads == next < a.end /\ uses # {}
         spillMem == Len(memrefs) + 1
         reloadMem == Len(memrefs) + 2
     IN
     /\ a.mem # NoMem /\ Cur.mem # NoMem
     /\ placed' = [placed EXCEPT ![Tier][i].end = Cur.start,
                                 ![Tier][i].uses = UsesBefore(@, Cur.start)]
     /\ unhandled' = [unhandled EXCEPT ![Tier + 1] =
          AddUnhandled(@, [a EXCEPT !.start = Cur.start, !.end = next, !.uses = {},
                                    !.home = 0, !.mem = spillMem, !.offset = NoOffset])]
     /\ stack' = Append(
          SetTop([Top EXCEPT !.excluded = @ \cup {v},
                    !.reload = IF ~ reloads THEN NoInterval
                               ELSE [a EXCEPT !.start = next, !.uses = uses, !.home = 0,
                                              !.mem = reloadMem, !.offset = NoOffset]]),
          Frame(Tier + 1))
     /\ memrefs' = memrefs \o [j \in 1 .. (IF reloads THEN 2 ELSE 1) |-> Unplaced(v.buf)]
     /\ \E spilled \in {CopyBefore(code, DefPos(code, Cur.mem), a.mem, spillMem)} :
          IF reloads
            THEN \E reloaded \in {CopyBefore(spilled, TimePos(spilled, Min(uses)),
                                            spillMem, reloadMem)} :
                   code' = Replaced(reloaded, uses, a.mem, reloadMem)
            ELSE code' = spilled
     /\ evictedFor' = evictedFor \cup {<<Tier, Cur.mem, a.mem>>}
  /\ UNCHANGED <<prog, plan, taken, phase, level, handled, errors, allPlaced, memMap, pc, mem>>

(* handleSpill takes the type of the victim's memref and the defining op of *)
(* the memref being placed; a stage has neither yet.                        *)
SpillOfNothing ==
  /\ Placing /\ CanSpill
  /\ \E v \in Victims :
       placed[Tier][First(Tier, v)].mem = NoMem \/ Cur.mem = NoMem
  /\ phase' = "crashed"
  /\ UNCHANGED <<prog, plan, taken, level, tiersState, stack, outState, pc, mem>>

(* No room and nothing left to spill: the error is emitted here. *)
GiveUp ==
  /\ Placing /\ SureRoom = {} /\ (Tier = Bottom \/ Victims = {})
  /\ errors' = errors \cup {Cur.id}
  /\ stack' = SetTop([Top EXCEPT !.cur = NoInterval, !.ok = FALSE])
  /\ UNCHANGED <<prog, plan, taken, phase, level, tiersState, allPlaced, memMap, memrefs,
                 code, evictedFor, pc, mem>>

(* processTier returns.  Its result reaches allocate from the outermost     *)
(* call only; handleSpill drops it and queues its reload.                   *)
Return ==
  /\ Idle /\ unhandled[Tier] = << >>
  /\ IF Len(stack) = 1
       THEN /\ stack' = << >>
            /\ allPlaced' = (allPlaced /\ Top.ok)
            /\ UNCHANGED unhandled
       ELSE LET caller == stack[Len(stack) - 1]
            IN /\ stack' = Append(SubSeq(stack, 1, Len(stack) - 2),
                                  [caller EXCEPT !.reload = NoInterval])
               /\ unhandled' = IF caller.reload = NoInterval THEN unhandled
                               ELSE [unhandled EXCEPT ![caller.tier] =
                                       AddUnhandled(@, caller.reload)]
               /\ UNCHANGED allPlaced
  /\ UNCHANGED <<prog, plan, taken, phase, level, placed, handled, errors, memMap, memrefs,
                 code, evictedFor, pc, mem>>

-----------------------------------------------------------------------------
(* The stage of a chain in every tier above the home of its resident, each  *)
(* filled from the one below by a copy right before the use.  The offset is *)
(* that of the stage's id in memMap.                                        *)
StageMemrefs(b, t) ==
  LET home == HomeOf(prog, b)
  IN [i \in 1 .. home |->
        LET id == Stage(prog, b, t, home - i).id
        IN [buf |-> b, tier |-> home - i,
            offset |-> IF id \in DOMAIN memMap THEN memMap[id] ELSE 0]]

StageCopies(b, t, n) ==
  [i \in 1 .. HomeOf(prog, b) |-> Copy(t, IF i = 1 THEN b ELSE n + i - 1, n + i)]

WithStages(b, t) ==
  LET pos == TimePos(code, t)
  IN SubSeq(code, 1, pos - 1) \o StageCopies(b, t, Len(memrefs)) \o SubSeq(code, pos, Len(code))

(* Mutant: the consumer is left on the resident. *)
StagedUnread(b, t) == WithStages(b, t)

(* The consumer is pointed at the last stage. *)
Staged(b, t) == Replaced(WithStages(b, t), {t}, b, Len(memrefs) + HomeOf(prog, b))

(* The end of the scan; the pass fails if a call it made failed. *)
Scanned ==
  /\ phase = "alloc" /\ stack = << >> /\ level < 0
  /\ phase' = IF allPlaced THEN "emit" ELSE "failed"
  /\ UNCHANGED <<prog, plan, taken, level, tiersState, stack, outState, pc, mem>>

(* emitStagingChains: the next chain, in the order of residents and uses. *)
EmitChain ==
  /\ phase = "emit"
  /\ \E c \in plan :
       /\ \A d \in plan : c[1] < d[1] \/ (c[1] = d[1] /\ c[2] <= d[2])
       /\ memrefs' = memrefs \o StageMemrefs(c[1], c[2])
       /\ code' = Staged(c[1], c[2])
       /\ plan' = plan \ {c}
  /\ UNCHANGED <<prog, taken, phase, level, tiersState, stack, errors, allPlaced, memMap,
                 evictedFor, pc, mem>>

(* The end of the pass. *)
Finish ==
  /\ phase = "emit" /\ plan = {}
  /\ phase' = "run"
  /\ UNCHANGED <<prog, plan, taken, level, tiersState, stack, outState, pc, mem>>

-----------------------------------------------------------------------------
(* The emitted code, run in order.  What an operation writes to a buffer is *)
(* named by the buffer and the operation; a constant is there from its      *)
(* get_global on, an alloc puts nothing in memory.                          *)
Cells(m) ==
  IF memrefs[m].tier = -1 THEN {}
  ELSE {<<memrefs[m].tier, memrefs[m].offset + i>> : i \in 0 .. prog.size[memrefs[m].buf] - 1}

Shift(c, from, to) ==
  <<memrefs[from].tier, memrefs[from].offset + (c[2] - memrefs[to].offset)>>

Executed(op) ==
  CASE op.kind = "copy" ->
         LET from == CHOOSE m \in op.reads : TRUE
             to == CHOOSE m \in op.writes : TRUE
         IN [c \in DOMAIN mem |->
               IF c \in Cells(to) /\ Cells(from) # {} THEN mem[Shift(c, from, to)] ELSE mem[c]]
    [] op.kind \in {"exec", "global"} ->
         [c \in DOMAIN mem |->
            LET hit == {m \in op.writes : c \in Cells(m)}
            IN IF hit = {} THEN mem[c]
               ELSE <<memrefs[CHOOSE m \in hit : TRUE].buf, op.time>>]
    [] OTHER -> mem

Execute ==
  /\ phase = "run" /\ pc \in DOMAIN code
  /\ mem' = Executed(code[pc])
  /\ pc' = pc + 1
  /\ UNCHANGED <<prog, plan, taken, phase, level, tiersState, stack, outState>>

Next ==
  \/ StartTier \/ Take \/ Place \/ Spill \/ SpillOfNothing \/ GiveUp
  \/ Return \/ Scanned \/ EmitChain \/ Finish \/ Execute

(* The pass and the code it emits are sequential: each runs to its end. *)
Spec == Init /\ [][Next]_vars /\ WF_vars(Next)

-----------------------------------------------------------------------------
TypeOK ==
  /\ WellFormed(prog)
  /\ phase \in {"alloc", "emit", "run", "failed", "crashed"}
  /\ level \in -1 .. Bottom
  /\ \A k \in Tiers : handled[k] \subseteq DOMAIN placed[k]
  /\ \A k \in Tiers : \A iv \in Range(unhandled[k]) \cup Range(placed[k]) :
       /\ iv.id.buf \in Bufs(prog) /\ iv.size = prog.size[iv.id.buf]
       /\ iv.mem \in 0 .. Len(memrefs)
       /\ iv.uses \subseteq {u \in Times(prog) : iv.start <= u /\ u < iv.end}
  /\ \A i \in DOMAIN stack :
       /\ stack[i].tier \in Tiers
       /\ i > 1 => stack[i].tier = stack[i - 1].tier + 1
       /\ i < Len(stack) => stack[i].cur # NoInterval
  /\ \A m \in DOMAIN memrefs : memrefs[m].buf \in Bufs(prog)
  /\ \A i \in DOMAIN code : Touched(code[i]) \subseteq DOMAIN memrefs
  /\ pc \in 1 .. Len(code) + 1

(* Two buffers a tier was given that share an address live a guard apart,   *)
(* with the lifetimes truncation left them.                                 *)
Separate(k) ==
  \A i, j \in DOMAIN placed[k] :
    LET a == placed[k][i]
        b == placed[k][j]
    IN i < j /\ a.start < a.end /\ b.start < b.end /\ ~ Apart(a, b, b.offset)
         => a.end + prog.guard <= b.start \/ b.end + prog.guard <= a.start

(* The tier took its intervals in order of their starts.  What is spilled   *)
(* into a tier whose own intervals were scanned before may come out of it.  *)
InOrder(k) == \A i, j \in DOMAIN taken[k] : i < j => taken[k][i] <= taken[k][j]

(* No address of a tier is given to a buffer before the guard after the     *)
(* last tenant's death is over: expiry never forgets a buffer that a later  *)
(* placement, of a fresh, spilled or reloaded interval, could collide with, *)
(* as long as the tier takes its intervals in order.                        *)
ReuseRespectsGuard == \A k \in Tiers : InOrder(k) => Separate(k)

(* The operations the function has written b with before operation t. *)
Written(b, t) ==
  {s \in Times(prog) : s < t /\ prog.ops[s].kind # "alloc" /\ b \in prog.ops[s].writes}

Holds(m, t) ==
  LET b == memrefs[m].buf
  IN Written(b, t) # {} =>
       /\ memrefs[m].tier # -1
       /\ \A c \in Cells(m) : mem[c] = <<b, Max(Written(b, t))>>

Running(kind) == phase = "run" /\ pc \in DOMAIN code /\ code[pc].kind = kind

(* Evictions were made in tier 0 only, for buffers seen for the first time. *)
FreshEvictionsOnly == \A e \in evictedFor : e[1] = 0 /\ e[2] \in Bufs(prog)

(* What is staged for each use is only read, and lives in a tier there is.  *)
ResidentsAreConstants ==
  \A b \in Bufs(prog) :
    HomeOf(prog, b) > 0 =>
      /\ HomeOf(prog, b) <= Bottom
      /\ \A t \in UsesOf(prog, b) : b \notin prog.ops[t].writes

(* Wherever the data of a buffer has been moved to, the operation that uses *)
(* it finds what was last written to it: as long as no reload had to evict  *)
(* another buffer, every spill found a place and every tier took its        *)
(* intervals in order, spills, reloads, stages and reused addresses are     *)
(* invisible to the program.                                                *)
ReadsIntact ==
  /\ Running("exec")
  /\ FreshEvictionsOnly /\ errors = {} /\ ResidentsAreConstants
  /\ \A k \in Tiers : InOrder(k)
  => \A m \in code[pc].reads : Holds(m, code[pc].time)

(* As long as no reload had to evict another buffer, the memref an          *)
(* operation works on is one the scan holds a place for at that operation:  *)
(* truncated and reloaded intervals together cover every use of a buffer    *)
(* that is not staged, and the uses are renamed to follow them.             *)
UsesCovered ==
  Running("exec") /\ FreshEvictionsOnly =>
    \A m \in Touched(code[pc]) :
      \/ m > Cardinality(Bufs(prog)) /\ HomeOf(prog, memrefs[m].buf) > 0
      \/ \E k \in Tiers : \E a \in Range(placed[k]) :
           a.mem = m /\ a.start <= code[pc].time /\ code[pc].time < a.end

(* No buffer was evicted from the tier that is its home.                    *)
ResidentsStay ==
  \A e \in evictedFor : e[3] \in Bufs(prog) => HomeOf(prog, e[3]) = 0

(* Tier 0 is the memory arithmetic works on: every operand of an operation  *)
(* has been moved there, whatever its home and whatever was spilled, unless *)
(* a buffer was evicted from its home: then its uses are on the reload      *)
(* there, and emitStagingChains, which looks for the buffer itself, does    *)
(* not point them at the stages.                                            *)
ComputesInTierZero ==
  Running("exec") /\ ResidentsStay => \A m \in Touched(code[pc]) : memrefs[m].tier = 0

(* Buffers that hold a place at t, counting the guard. *)
Held(t) ==
  {b \in Bufs(prog) : /\ DefTime(prog, b) <= t
                      /\ \E u \in Times(prog) : b \in Touched(prog.ops[u]) /\ t <= u + prog.guard}

(* Buffers of one size that fit in tier 0 together. *)
AllFit ==
  /\ \A b \in Bufs(prog) : prog.size[b] = 1 /\ HomeOf(prog, b) = 0
  /\ prog.align = 1
  /\ \A t \in Times(prog) : Cardinality(Held(t)) <= prog.caps[0]

(* They are all placed there and nothing is copied, in whatever order they  *)
(* come and go.                                                             *)
NoNeedlessSpills == AllFit => errors = {} /\ Len(memrefs) = Cardinality(Bufs(prog))

(* No guard, buffers of one size, room in tier 0 for what one operation     *)
(* touches and in the next tier for every buffer.                           *)
RoomBelow ==
  /\ prog.guard = 0 /\ prog.align = 1
  /\ \A b \in Bufs(prog) : HomeOf(prog, b) = 0 /\ prog.size[b] = 1
  /\ \A t \in Times(prog) : Cardinality(Touched(prog.ops[t])) <= prog.caps[0]
  /\ Bottom > 0 /\ Cardinality(Bufs(prog)) <= prog.caps[1]

(* Evicting one buffer after another then always makes room in tier 0.      *)
SpillingMakesRoom == RoomBelow => errors = {}

(* The mutual recursion of processTier and handleSpill ends: a buffer is    *)
(* never evicted and reloaded at the same operation over and over.          *)
Terminates == <>(phase \in {"failed", "crashed"} \/ (phase = "run" /\ pc > Len(code)))

-----------------------------------------------------------------------------
(* What the comments promise and the pass does not do.                      *)

(* Line 548, the spill buffer always covers its buffer until the next use,  *)
(* and line 654, the reload is a copy of it placed at that use: the copy    *)
(* finds the data there, although its source's lifetime ends at the use.    *)
CopiesReadIntact ==
  Running("copy") => \A m \in code[pc].reads : Holds(m, code[pc].at)

(* Line 84: an address gap between a buffer that just died and the next one *)
(* placed at the same offset, for every tier and every buffer.              *)
AddressGap == \A k \in Tiers : Separate(k)
=============================================================================
