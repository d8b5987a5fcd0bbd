-------------------------- MODULE MCEmittedProgram --------------------------
(***************************************************************************)
(* Two families of functions, each with any two tasks at most being        *)
(* unsupported; a kernel also uses a constant, twice.  Every edge has a    *)
(* semaphore and a memref, allocated before its producer and deallocated   *)
(* after its consumer.                                                     *)
(*                                                                         *)
(* The small ones are all dataflow graphs over NumTasks tasks with up to   *)
(* MaxEdges edges.  In the variants all deallocs are at the end, all edges *)
(* share one memref, as operations in place do, or the last semaphore      *)
(* chains from the first.                                                  *)
(*                                                                         *)
(* The long ones have NumLong semaphores, enough for slots and tags to     *)
(* come round: a pipeline, in which two semaphores are in use at a time,   *)
(* and separate transfers, in which one is.  In the variants the last      *)
(* semaphore chains from the first, which reserves the slot of that one    *)
(* throughout, and again when the first has lost its users and its         *)
(* sem_dealloc to culling, which reserves nothing.                         *)
(***************************************************************************)
EXTENDS EmittedProgram

CONSTANTS NumTasks, MaxEdges, NumLong

Edges == {e \in (1 .. NumTasks) \X (1 .. NumTasks) : e[1] < e[2]}

EdgeSeq(g) == SetToSortSeq(g, LAMBDA e, f : e[1] < f[1] \/ (e[1] = f[1] /\ e[2] < f[2]))

Ops(op, ids) == [i \in DOMAIN ids |-> [op |-> op, id |-> ids[i]]]

(* The edges, by their position, that a task writes or reads. *)
Out(es, t) == SelectSeq([i \in DOMAIN es |-> i], LAMBDA i : es[i][1] = t)
In(es, t) == SelectSeq([i \in DOMAIN es |-> i], LAMBDA i : es[i][2] = t)

(* Those whose semaphore is still used. *)
Used(v, ids) == SelectSeq(ids, LAMBDA i : v # "lost" \/ i # 1)

Mem(v, i) == IF v = "shared" THEN 1 ELSE i

Task(es, v, t, unsupported) ==
  LET Sides(side, ids) == [i \in DOMAIN ids |->
                              [side |-> side, sem |-> ids[i], mem |-> Mem(v, ids[i])]]
      touched == Out(es, t) \o In(es, t)
  IN [unsupported |-> unsupported,
      waits |-> Sides("acquire", Used(v, Out(es, t))) \o Sides("require", Used(v, In(es, t))),
      payload |-> [i \in DOMAIN touched |-> MemValue(Mem(v, touched[i]))] \o
                  IF unsupported THEN <<ConstValue(1), ConstValue(1)>> ELSE << >>]

Body(es, n, v) ==
  LET all == [i \in DOMAIN es |-> i]
      Before(t) == Ops("sem_alloc", Out(es, t)) \o
                  IF v = "shared" THEN << >> ELSE Ops("alloc", Out(es, t))
      After(t) == IF v = "late" THEN << >>
                 ELSE Ops("sem_dealloc", Used(v, In(es, t))) \o
                      IF v = "shared" THEN << >> ELSE Ops("dealloc", In(es, t))
      tasks == FlattenSeq([t \in 1 .. n |-> Before(t) \o Ops("execute", <<t>>) \o After(t)])
  IN CASE v = "shared" -> Ops("alloc", <<1>>) \o tasks \o Ops("dealloc", <<1>>)
       [] v = "late" -> tasks \o Ops("sem_dealloc", all) \o Ops("dealloc", all)
       [] OTHER -> tasks

(* Where an operation is, or NoOp. *)
Position(body, op, id) ==
  IF [op |-> op, id |-> id] \in Range(body)
    THEN CHOOSE i \in DOMAIN body : body[i] = [op |-> op, id |-> id] ELSE NoOp

Function(g, n, v, unsupported) ==
  LET es == EdgeSeq(g)
      body == Body(es, n, v)
  IN [sems |-> Len(es),
      alloc |-> [s \in DOMAIN es |-> Position(body, "sem_alloc", s)],
      dealloc |-> [s \in DOMAIN es |-> Position(body, "sem_dealloc", s)],
      chains |-> [s \in DOMAIN es |->
                    IF v \in {"chained", "lost"} /\ s = Len(es) /\ s > 1 THEN {1} ELSE {}],
      body |-> body,
      tasks |-> [t \in 1 .. n |-> Task(es, v, t, t \in unsupported)]]

Graphs == UNION {kSubset(n, Edges) : n \in 1 .. MaxEdges}

Pipeline == {<<i, i + 1>> : i \in 1 .. NumLong}
Transfers == {<<2 * i - 1, 2 * i>> : i \in 1 .. NumLong}

UpTo(k, n) == UNION {kSubset(j, 1 .. n) : j \in 0 .. k}

MCPrograms ==
  {Function(g, NumTasks, v, u) :
     g \in Graphs, v \in {"plain", "late", "shared", "chained"}, u \in UpTo(2, NumTasks)}
  \cup
  {Function(Pipeline, NumLong + 1, v, u) : v \in {"plain", "lost"}, u \in UpTo(1, NumLong + 1)}
  \cup
  {Function(Transfers, 2 * NumLong, v, u) :
     v \in {"plain", "chained", "lost"}, u \in UpTo(1, 2 * NumLong)}

(* The widths computeGenWidth finds are the least that fit. *)
ASSUME WidthsAreLeast ==
  \A n \in 1 .. 300 : n <= 2 ^ Bits[n - 1] /\ (n > 1 => 2 ^ (Bits[n - 1] - 1) < n)
=============================================================================
