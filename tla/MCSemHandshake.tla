--------------------------- MODULE MCSemHandshake ---------------------------
(***************************************************************************)
(* Small dataflow graphs, each with every distribution of its tasks over   *)
(* NumUnits functional units and every placement of its semaphores in the  *)
(* Slots that the address assignment may produce.                          *)
(***************************************************************************)
EXTENDS SemHandshake, FiniteSetsExt

CONSTANTS NumUnits, NumGenerations

(* A buffer is reused: task 3 writes where task 1 wrote.  It requires the   *)
(* result of the reader in between, so FindAliasDependency adds no chain.   *)
Reuse ==
  [tasks |-> 4, sems |-> 3,
   out |-> <<1, 2, 3, NoSem>>, ins |-> << << >>, <<1>>, <<2>>, <<3>> >>,
   writer |-> <<1, 2, 3>>, buf |-> <<"x", "y", "x">>, size |-> <<2, 1, 1>>,
   full |-> <<FALSE, FALSE, FALSE>>, chains |-> << {}, {}, {} >>]

(* The data of task 1 is broadcast to tasks 2 and 3, whose results task 4   *)
(* joins into the buffer they read; nothing is chained here either.         *)
Diamond ==
  [tasks |-> 5, sems |-> 5,
   out |-> <<1, 2, 4, 5, NoSem>>, ins |-> << << >>, <<1>>, <<3>>, <<4, 2>>, <<5>> >>,
   writer |-> <<1, 2, 1, 3, 4>>, buf |-> <<"x", "y", "x", "z", "x">>,
   size |-> <<2, 1, 2, 2, 1>>, full |-> [s \in 1 .. 5 |-> s = 3],
   chains |-> << {}, {}, {1}, {}, {} >>]

(* Two loads feed task 3; task 4 loads again into the first buffer, behind  *)
(* a chain from its only reader.                                            *)
Join ==
  [tasks |-> 5, sems |-> 4,
   out |-> <<1, 2, 3, 4, NoSem>>, ins |-> << << >>, << >>, <<1, 2>>, << >>, <<3, 4>> >>,
   writer |-> <<1, 2, 3, 4>>, buf |-> <<"x", "y", "z", "x">>, size |-> <<2, 1, 2, 1>>,
   full |-> [s \in 1 .. 4 |-> FALSE], chains |-> << {}, {}, {}, {1} >>]

(* Tasks 2 and 3 read what task 1 wrote and task 4 writes over it, behind   *)
(* the one chain kept for it: from the copy of task 3, which exists when    *)
(* task 2 has returned.                                                     *)
TwoReaders ==
  [tasks |-> 5, sems |-> 3,
   out |-> <<1, NoSem, NoSem, 3, NoSem>>, ins |-> << << >>, <<1>>, <<2>>, << >>, <<3>> >>,
   writer |-> <<1, 1, 4>>, buf |-> <<"x", "x", "x">>, size |-> <<2, 2, 1>>,
   full |-> [s \in 1 .. 3 |-> s = 2], chains |-> << {}, {1}, {2} >>]

(* The same with three readers.  The chain is from the copy of the last of  *)
(* them, and only a unit it shares keeps the second before the writer.      *)
ThreeReaders ==
  [tasks |-> 6, sems |-> 4,
   out |-> <<1, NoSem, NoSem, NoSem, 4, NoSem>>,
   ins |-> << << >>, <<1>>, <<2>>, <<3>>, << >>, <<4>> >>,
   writer |-> <<1, 1, 1, 5>>, buf |-> <<"x", "x", "x", "x">>, size |-> <<2, 2, 2, 1>>,
   full |-> [s \in 1 .. 4 |-> s \in {2, 3}], chains |-> << {}, {1}, {1}, {3} >>]

(* Distributions over units, up to renaming the units. *)
UnitChoices(g) ==
  {u \in [1 .. g.tasks -> 1 .. NumUnits] :
     \A t \in 1 .. g.tasks : u[t] = 1 \/ \E v \in 1 .. t - 1 : u[v] = u[t] - 1}

(* NoLiveOverlap and ChainTargetsReserved of SemAddresses; addresses are    *)
(* first issued in increasing order.                                        *)
AddressChoices(g) ==
  {a \in [1 .. g.sems -> Slots] :
     /\ \A s \in 1 .. g.sems : a[s] = 1 \/ \E r \in 1 .. s - 1 : a[r] = a[s] - 1
     /\ \A r, s \in 1 .. g.sems : r < s /\ a[r] = a[s] =>
          /\ \A t \in Consumers(g, r) : t < FirstUse(g, s)
          /\ \A w \in s .. g.sems : r \notin g.chains[w]}

(* TenantsChained and TagsTellTenantsApart of SemAddresses. *)
Placed(g, u, a) ==
  LET Earlier(s) == {r \in 1 .. s - 1 : a[r] = a[s]}
  IN [tasks |-> g.tasks, sems |-> g.sems, out |-> g.out, ins |-> g.ins,
      writer |-> g.writer, buf |-> g.buf, size |-> g.size, full |-> g.full,
      unit |-> u, addr |-> a,
      tag |-> [s \in 1 .. g.sems |-> Cardinality(Earlier(s)) % NumGenerations],
      chains |-> [s \in 1 .. g.sems |->
                    g.chains[s] \cup IF Earlier(s) = {} THEN {} ELSE {Max(Earlier(s))}]]

Placements(g) == {Placed(g, u, a) : u \in UnitChoices(g), a \in AddressChoices(g)}

MCPrograms == UNION {Placements(g) : g \in {Reuse, Diamond, Join, TwoReaders, ThreeReaders}}
=============================================================================
