--------------------------- MODULE MCSemAddresses ---------------------------
(***************************************************************************)
(* Every function with a fixed number of semaphores, up to the gaps other  *)
(* operations leave between the ones the pass looks at: all interleavings  *)
(* of their sem_allocs and sem_deallocs, any of the deallocs missing, and  *)
(* every choice of at most MaxChains chain operands per sem_alloc.         *)
(***************************************************************************)
EXTENDS SemAddresses, FiniteSetsExt, Functions, Sequences

CONSTANTS NumSems, MaxChains

AllocOrders ==
  LET Points == 0 .. 2 * NumSems - 1
      Nth(S, k) == CHOOSE x \in S : Cardinality({y \in S : y <= x}) = k
  IN {[s \in 1 .. NumSems |-> Nth(S, s)] : S \in kSubset(NumSems, Points)}

(* Deallocs at points no alloc uses, after their own alloc, none twice, and *)
(* no unused point below a used one.                                        *)
DeallocsFor(a) ==
  LET Taken == Range(a)
      Open == (0 .. 2 * NumSems - 1) \ Taken
      First[s \in 0 .. NumSems] ==
        IF s = 0 THEN {<< >>}
        ELSE UNION {{Append(d, k) : k \in {NoOp} \cup {o \in Open \ Range(d) : o > a[s]}}
                      : d \in First[s - 1]}
      Used(d) == Taken \cup (Range(d) \ {NoOp})
  IN {d \in First[NumSems] : Used(d) = 0 .. Cardinality(Used(d)) - 1}

ChainChoices ==
  {c \in [1 .. NumSems -> {C \in SUBSET (1 .. NumSems - 1) : Cardinality(C) <= MaxChains}] :
     \A s \in 1 .. NumSems : \A t \in c[s] : t < s}

Layouts == UNION {{<<a, d>> : d \in DeallocsFor(a)} : a \in AllocOrders}

MCPrograms ==
  {[sems |-> NumSems, alloc |-> l[1], dealloc |-> l[2], chains |-> c]
     : l \in Layouts, c \in ChainChoices}
=============================================================================
