---------------------------- MODULE MCSemCulling ----------------------------
(***************************************************************************)
(* Every dataflow graph over NumTasks tasks that the lowering may leave:   *)
(* the first reader of a task's result requires the semaphore the task     *)
(* acquires, each later reader a broadcast semaphore chained from it, and  *)
(* a task may chain from one earlier semaphore whose memory it reuses.     *)
(***************************************************************************)
EXTENDS SemCulling, SequencesExt

CONSTANTS NumTasks, MaxReads

Pairs == {e \in (1 .. NumTasks) \X (1 .. NumTasks) : e[1] < e[2]}

Graphs == UNION {kSubset(n, Pairs) : n \in 1 .. MaxReads}

Readers(g, w) == {r \in 1 .. NumTasks : <<w, r>> \in g}

(* The reads in a fixed order; the semaphore of a read is its position. *)
ReadSeq(g) == SetToSortSeq(g, LAMBDA e, f : e[1] < f[1] \/ (e[1] = f[1] /\ e[2] < f[2]))

IsFirst(g, e) == e[2] = Min(Readers(g, e[1]))

Lowered(g, reuse) ==
  LET reads == ReadSeq(g)
      SemOf(e) == CHOOSE i \in DOMAIN reads : reads[i] = e
  IN [i \in DOMAIN reads |->
        LET w == reads[i][1]
        IN IF IsFirst(g, reads[i])
             THEN [mode |-> "RW", producer |-> w, consumer |-> reads[i][2],
                   chains |-> IF reuse[w] = 0 THEN {} ELSE {reuse[w]}]
             ELSE [mode |-> "R", producer |-> 0, consumer |-> reads[i][2],
                   chains |-> {SemOf(<<w, Min(Readers(g, w))>>)}]]

(* What each task may reuse: nothing, or what an earlier task was last to   *)
(* read, by any one of its semaphores; at most one task reuses.             *)
Reuses(g) ==
  LET reads == ReadSeq(g)
      none == [w \in 1 .. NumTasks |-> 0]
  IN {none} \cup
       {[none EXCEPT ![w] = c] : <<w, c>> \in
          {x \in (1 .. NumTasks) \X DOMAIN reads :
             Readers(g, x[1]) # {} /\ reads[x[2]][2] < x[1]}}

Program(g, reuse, kind, gemm, risc) ==
  [tasks |-> NumTasks, sems |-> Cardinality(g), units |-> 2,
   kind |-> kind, unit |-> <<gemm, risc>>, sem |-> Lowered(g, reuse)]

Unit(type, pipe, queue) == [type |-> type, pipe |-> pipe, queue |-> queue]

AllKinds == [1 .. NumTasks -> Kinds]

(* On units of every small depth; and, for single edges, with no unit for   *)
(* additions.                                                               *)
MCPrograms ==
  UNION {{Program(g, reuse, kind, Unit("gemm", pipe, 1), Unit("risc", 1, 1)) :
            reuse \in Reuses(g), kind \in AllKinds, pipe \in 1 .. 2} : g \in Graphs}
  \cup
  UNION {{Program(g, reuse, kind, Unit("gemm", 1, 1), Unit("gemm", 1, 1)) :
            reuse \in Reuses(g), kind \in AllKinds} : g \in kSubset(1, Pairs)}
=============================================================================
