--------------------------- MODULE MCTierStaging ---------------------------
(***************************************************************************)
(* Small functions: every order in which NumBufs buffers are allocated and *)
(* used by a number of operations, each reading and rewriting its          *)
(* operands, with the deallocs at the end of the function or none, on      *)
(* small targets.                                                          *)
(***************************************************************************)
EXTENDS TierStaging

CONSTANTS
  NumBufs,    \* buffers of a function
  NumExecs,   \* operations of a function whose operations have one operand
  NumPairs    \* operations of a function whose operations have one or two

Alloc(b) == [kind |-> "alloc", reads |-> {}, writes |-> {b}]
Global(b) == [kind |-> "global", reads |-> {}, writes |-> {b}]
Exec(S) == [kind |-> "exec", reads |-> S, writes |-> S]
Dealloc(b) == [kind |-> "dealloc", reads |-> {b}, writes |-> {}]

Defined(ops) == {i \in DOMAIN ops : ops[i].kind = "alloc"}

(* Every buffer is used at least once. *)
AllBodies(execs, operands) ==
  LET Extensions(ops) ==
        LET n == Cardinality(Defined(ops))
        IN {Append(ops, Alloc(b)) : b \in {n + 1} \cap (1 .. NumBufs)}
             \cup IF Len(ops) - n < execs
                    THEN {Append(ops, Exec(S)) :
                            S \in {S \in SUBSET (1 .. n) : Cardinality(S) \in 1 .. operands}}
                    ELSE {}
      Bodies[l \in Nat] ==
        IF l = 0 THEN {<< >>} ELSE UNION {Extensions(ops) : ops \in Bodies[l - 1]}
  IN {ops \in Bodies[NumBufs + execs] :
        \A b \in 1 .. NumBufs : \E i \in DOMAIN ops : b \in ops[i].reads}

Bodies == AllBodies(NumExecs, 1)
PairBodies == AllBodies(NumPairs, 2)

Deallocs == [b \in 1 .. NumBufs |-> Dealloc(b)]
WholeFunctions == Bodies \cup {ops \o Deallocs : ops \in Bodies}

AllHome(tier) == [b \in 1 .. NumBufs |-> tier]
Unit == AllHome(1)
LastDouble == [Unit EXCEPT ![NumBufs] = 2]

Program(ops, size, home, caps, guard, align) ==
  [ops |-> ops, size |-> size, home |-> home, caps |-> caps, guard |-> guard, align |-> align]

Target(c0, c1) == 0 :> c0 @@ 1 :> c1

(* Two tiers, the second with room for everything. *)
SpillPrograms ==
  {Program(ops, Unit, AllHome(0), Target(c, NumBufs), g, 1) :
      ops \in WholeFunctions, c \in 1 .. 2, g \in 0 .. 2}
    \cup {Program(ops, LastDouble, AllHome(0), Target(2, NumBufs + 1), g, a) :
            ops \in Bodies, g \in {0, 1}, a \in 1 .. 2}

(* An operation more, and little room: buffers in use are swapped out. *)
TightPrograms ==
  {Program(ops, Unit, AllHome(0), Target(c, NumBufs), 0, 1) :
      ops \in AllBodies(NumExecs + 1, 1), c \in {1, NumBufs - 1}}

(* Buffer g is a constant: nothing writes it but its definition. *)
WithConstant(ops, g) ==
  [i \in DOMAIN ops |->
     IF ops[i] = Alloc(g) THEN Global(g)
     ELSE [ops[i] EXCEPT !.writes = IF ops[i].kind = "exec" THEN @ \ {g} ELSE @]]

(* Operations on two buffers, one of which may be a constant that lives in  *)
(* the bottom tier, of two or three; tier 0 has room for what one operation *)
(* needs.                                                                   *)
OperandPrograms ==
  {Program(WithConstant(ops, g), Unit, AllHome(0), caps, 0, 1) :
     ops \in PairBodies, g \in 1 .. NumBufs,
     caps \in {Target(2, NumBufs), Target(2, 2) @@ 2 :> 1}}

MCPrograms == SpillPrograms \cup TightPrograms \cup OperandPrograms

(* Buffers 2 and 3 take turns in tier 0 while constant 1 is in use below;   *)
(* with two tiers another constant is fetched later, with three constant 1  *)
(* is staged through the tier that buffer 2 is spilled to.                  *)
ReadOnly(b) == [kind |-> "exec", reads |-> {b}, writes |-> {}]

ResidentPrograms ==
  {Program(<<Global(1), Alloc(2), Exec({2}), Alloc(3), Exec({3}), Exec({2}), ReadOnly(1),
             Global(4), ReadOnly(4)>>,
           Unit, AllHome(0), Target(1, 4), 0, 1),
   Program(<<Global(1), Alloc(2), Exec({2}), Alloc(3), Exec({3}), ReadOnly(1), Exec({2}),
             ReadOnly(1), Global(4), ReadOnly(4)>>,
           Unit, AllHome(0), Target(1, 2) @@ 2 :> 2, 0, 1)}
=============================================================================
