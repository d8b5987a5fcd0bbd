-------------------------- MODULE MCTokenLowering --------------------------
(***************************************************************************)
(* Programs for TLC.  In the enumerated ones the first four of five tasks  *)
(* each write a memref, named after the task, and the last only reads, as  *)
(* a store does; every task reads up to two earlier memrefs, and every     *)
(* memref takes one of three memories or two of them at once, wherever     *)
(* the lifetimes allow it.  The shaped one is the smallest in which an     *)
(* older memref has three readers.                                         *)
(***************************************************************************)
EXTENDS TokenLowering, TLC

Upto2(S) == {R \in SUBSET S : Cardinality(R) <= 2}

Reads == {<< {}, r2, r3, r4, r5 >> :
            r2 \in Upto2({1}), r3 \in Upto2(1 .. 2), r4 \in Upto2(1 .. 3),
            r5 \in Upto2(1 .. 4) \ {{}}}

Cell == {{1}, {2}, {3}, {1, 2}}

(* The memories are interchangeable, so the first memref may fix its own. *)
Places == {{1}, {1, 2}} \X Cell \X Cell \X Cell

Candidates(ws) ==
  [tasks : {5}, memrefs : {4}, reads : Reads, writes : {<<1, 2, 3, 4, NoMemref>>},
   cells : Places, window : ws]

MCPrograms ==
  UNION {{[p EXCEPT !.window = w] : w \in {NoWindow, 1}} :
           p \in {q \in Candidates({NoWindow}) : WellFormed(q)}}

(* 1 writes, 2 to 4 read; 5 writes over it, 6 reads. *)
ThreeReaders ==
  [tasks |-> 6, memrefs |-> 2,
   reads |-> << {}, {1}, {1}, {1}, {}, {2} >>,
   writes |-> <<1, NoMemref, NoMemref, NoMemref, 2, NoMemref>>,
   cells |-> << {1}, {1} >>, window |-> NoWindow]

MCThreeReaders == {ThreeReaders}
=============================================================================
