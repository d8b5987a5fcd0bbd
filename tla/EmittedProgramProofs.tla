------------------------- MODULE EmittedProgramProofs -------------------------
(***************************************************************************)
(* Machine-checked proofs about the back end: the addresses both images    *)
(* are made of and what every command of the stream means when the fabric  *)
(* reads it, for every program, number of addresses and of generations.    *)
(***************************************************************************)
EXTENDS EmittedProgram, Extrema, FiniteSetTheorems, TLAPS

-----------------------------------------------------------------------------
(* The linear scan that gives the pairs their addresses.                    *)

(* Multiplication by a natural number is monotone. *)
LEMMA TimesMonotone ==
  ASSUME NEW n \in Nat, NEW x \in Nat, NEW y \in Nat, x <= y
  PROVE  x * n <= y * n
<1>1. PICK d \in Nat : y = x + d BY SMT
<1>2. y * n = x * n + d * n BY <1>1, SMT
<1>3. d * n \in Nat /\ x * n \in Nat BY SMT
<1>4. QED BY <1>2, <1>3, SMT

(* An address and a tag can be read back from their packing. *)
LEMMA PackingIsUnique ==
  ASSUME NEW n \in Nat, NEW a \in Nat, NEW b \in Nat,
         NEW g \in 0 .. n - 1, NEW h \in 0 .. n - 1, a * n + g = b * n + h
  PROVE  a = b /\ g = h
<1>1. /\ a * n \in Nat /\ b * n \in Nat /\ (a + 1) * n = a * n + n
      /\ (b + 1) * n = b * n + n
  BY SMT
<1>2. ~ a < b
  <2>1. a < b => (a + 1) * n <= b * n BY TimesMonotone
  <2>2. QED BY <1>1, <2>1, SMT
<1>3. ~ b < a
  <2>1. b < a => (b + 1) * n <= a * n BY TimesMonotone
  <2>2. QED BY <1>1, <2>1, SMT
<1>4. a = b BY <1>2, <1>3
<1>5. QED BY <1>1, <1>4, SMT

(* A tag taken modulo NumGenerations is one of the tags. *)
LEMMA TagInRange ==
  ASSUME NEW n \in Nat
  PROVE  n % NumGenerations \in 0 .. NumGenerations - 1
BY GenerationsAssumption, SMT

(* Every assignment of an address keeps the state well typed. *)
LEMMA AssignKeepsTypes ==
  ASSUME TypeOK, cur \in Sems(prog), NEW a \in Addrs, Assign(a)
  PROVE  /\ chainedEnd' = chainedEnd /\ end' = end
         /\ prog' = prog /\ phase' = phase /\ cur' = cur + 1
         /\ active' \in SUBSET Sems(prog)
         /\ lastEnd' \in [Addrs -> Nat \cup {-1}]
         /\ lastSem' \in [Addrs -> Sems(prog) \cup {NoSem}]
         /\ nextGen' \in [Addrs -> Nat]
         /\ addr' \in [Sems(prog) -> Addrs \cup {NoAddr}]
         /\ gen' \in [Sems(prog) -> 0 .. NumGenerations - 1]
         /\ reused' \in [Sems(prog) -> BOOLEAN]
         /\ chains' \in [Sems(prog) -> SUBSET Sems(prog)]
<1> USE DEF TypeOK
<1>1. /\ chainedEnd' = chainedEnd /\ end' = end
      /\ prog' = prog /\ phase' = phase /\ cur' = cur + 1
  BY DEF Assign, intervals
<1>2. active' \in SUBSET Sems(prog)
  BY DEF Assign, StillActive
<1>3. lastEnd' \in [Addrs -> Nat \cup {-1}]
  BY DEF Assign, NoOp
<1>4. lastSem' \in [Addrs -> Sems(prog) \cup {NoSem}]
  BY DEF Assign
<1>5. nextGen' \in [Addrs -> Nat]
  BY DEF Assign, TakeGeneration
<1>6. addr' \in [Sems(prog) -> Addrs \cup {NoAddr}]
  BY DEF Assign
<1>7. gen' \in [Sems(prog) -> 0 .. NumGenerations - 1]
  <2>1. nextGen[a] % NumGenerations \in 0 .. NumGenerations - 1
    BY TagInRange
  <2>2. QED BY <2>1 DEF Assign, TakeGeneration
<1>8. reused' \in [Sems(prog) -> BOOLEAN]
  BY Zenon DEF Assign, ChainToLastTenant
<1>9. chains' \in [Sems(prog) -> SUBSET Sems(prog)]
  <2>1. CASE lastSem[a] = NoSem
    BY <2>1 DEF Assign, ChainToLastTenant
  <2>2. CASE lastSem[a] # NoSem
    <3>1. lastSem[a] \in Sems(prog) BY <2>2
    <3>2. chains[cur] \cup {lastSem[a]} \in SUBSET Sems(prog) BY <3>1
    <3>3. chains' = [chains EXCEPT ![cur] = @ \cup {lastSem[a]}]
      BY <2>2 DEF Assign, ChainToLastTenant
    <3>4. QED BY <3>2, <3>3
  <2>3. QED BY <2>1, <2>2
<1>10. QED BY <1>1, <1>2, <1>3, <1>4, <1>5, <1>6, <1>7, <1>8, <1>9

(* The pass starts well typed. *)
LEMMA InitTypes == Init => TypeOK
<1> SUFFICES ASSUME Init PROVE TypeOK
  OBVIOUS
<1>1. WellFormed(prog)
  BY ProgramsAssumption DEF Init
<1>2. /\ cur \in 1 .. prog.sems + 1
      /\ chains \in [Sems(prog) -> SUBSET Sems(prog)]
  BY <1>1 DEF Init, WellFormed, Sems
<1>3. gen \in [Sems(prog) -> 0 .. NumGenerations - 1]
  BY GenerationsAssumption DEF Init
<1>4. hwm \in 0 .. NumPairs
  BY PairsAssumption DEF Init
<1>5. /\ chainedEnd \in [Sems(prog) -> Nat \cup {NoOp}]
      /\ end \in [Sems(prog) -> Nat \cup {NoOp}]
      /\ lastEnd \in [Addrs -> Nat \cup {-1}]
      /\ lastSem \in [Addrs -> Sems(prog) \cup {NoSem}]
      /\ nextGen \in [Addrs -> Nat]
      /\ addr \in [Sems(prog) -> Addrs \cup {NoAddr}]
  BY DEF Init
<1>6. reused \in [Sems(prog) -> BOOLEAN]
  BY Zenon DEF Init
<1>7. QED
  BY <1>1, <1>2, <1>3, <1>4, <1>5, <1>6 DEF Init, TypeOK

(* Every step keeps the state well typed. *)
LEMMA NextTypes == TypeOK /\ [Next]_vars => TypeOK'
<1> SUFFICES ASSUME TypeOK, [Next]_vars PROVE TypeOK'
  OBVIOUS
<1>1. CASE VisitAlloc
  <2>1. prog.alloc \in [Sems(prog) -> Nat] /\ prog.sems \in Nat
    BY DEF TypeOK, WellFormed
  <2>2. end' \in [Sems(prog) -> Nat \cup {NoOp}]
    <3>1. prog.alloc[cur] \in Nat BY <1>1, <2>1 DEF VisitAlloc
    <3>2. QED BY <1>1, <3>1 DEF VisitAlloc, TypeOK
  <2>3. chainedEnd' \in [Sems(prog) -> Nat \cup {NoOp}]
    <3>1. \A s \in Sems(prog) :
            Later(chainedEnd[s], prog.alloc[cur] + 1) \in Nat \cup {NoOp}
      BY <1>1, <2>1 DEF VisitAlloc, TypeOK, Later, NoOp
    <3>2. QED BY <1>1, <3>1 DEF VisitAlloc, TypeOK
  <2>4. cur' \in 1 .. prog.sems + 1
    BY <1>1, <2>1 DEF VisitAlloc, Sems
  <2>5. QED BY <1>1, <2>2, <2>3, <2>4 DEF VisitAlloc, scanState, TypeOK
<1>2. CASE VisitDeallocs
  <2>1. prog.dealloc \in [Sems(prog) -> Nat \cup {NoOp}] /\ prog.sems \in Nat
    BY DEF TypeOK, WellFormed
  <2>2. end' \in [Sems(prog) -> Nat \cup {NoOp}]
    BY <1>2, <2>1 DEF VisitDeallocs, TypeOK, ClosedEnd, Later, NoOp
  <2>3. cur' \in 1 .. prog.sems + 1
    BY <1>2, <2>1 DEF VisitDeallocs
  <2>4. QED BY <1>2, <2>2, <2>3 DEF VisitDeallocs, scanState, TypeOK
<1>3. CASE AssignFresh
  <2>1. hwm \in Addrs /\ hwm' \in 0 .. NumPairs
    BY <1>3, PairsAssumption DEF AssignFresh, TypeOK, Addrs
  <2>2. cur + 1 \in 1 .. prog.sems + 1
    BY <1>3 DEF AssignFresh, TypeOK, Sems, WellFormed
  <2>3. QED BY <1>3, <2>1, <2>2, AssignKeepsTypes DEF AssignFresh, TypeOK
<1>4. CASE AssignRecycled
  <2>1. PICK a \in Addrs : LeastRecentlyUsed(a) /\ Assign(a)
    BY <1>4 DEF AssignRecycled
  <2>2. cur + 1 \in 1 .. prog.sems + 1
    BY <1>4 DEF AssignRecycled, TypeOK, Sems, WellFormed
  <2>3. QED BY <1>4, <2>1, <2>2, AssignKeepsTypes DEF AssignRecycled, TypeOK
<1>5. CASE OutOfAddresses
  BY <1>5 DEF OutOfAddresses, TypeOK, intervals, StillActive
<1>6. CASE Annotate
  BY <1>6 DEF Annotate, TypeOK, intervals, scanState
<1>7. CASE UNCHANGED vars
  BY <1>7 DEF vars, TypeOK, intervals, scanState
<1>8. QED
  BY <1>1, <1>2, <1>3, <1>4, <1>5, <1>6, <1>7 DEF Next

(* Type correctness of the pass. *)
THEOREM TypeCorrect == Spec => []TypeOK
BY InitTypes, NextTypes, PTL DEF Spec

-----------------------------------------------------------------------------
(* The inductive invariant behind the safety properties.                   *)

(* While intervals are built nothing is assigned, and every chain of the   *)
(* allocs visited so far has reserved its target.                          *)
BuildInv ==
  phase = "build" =>
    /\ active = {} /\ hwm = 0 /\ chains = prog.chains
    /\ \A a \in Addrs : lastSem[a] = NoSem
    /\ \A s \in Sems(prog) : reused[s] = FALSE
    /\ \A s \in Sems(prog) : s < cur =>
         /\ end[s] = prog.alloc[s]
         /\ \A t \in prog.chains[s] : chainedEnd[t] > prog.alloc[s]

(* Afterwards every interval is closed, beyond the allocs chained to it.    *)
EndsSettled ==
  phase # "build" =>
    \A s \in Sems(prog) :
      /\ end[s] \in Nat
      /\ \A t \in prog.chains[s] :
           prog.dealloc[t] # NoOp => end[t] > prog.alloc[s]

(* A placed semaphore missing from active has expired for good. *)
ActiveIsComplete ==
  /\ active \subseteq Placed
  /\ \A s \in Placed \ active : \A u \in Sems(prog) : cur <= u => end[s] <= prog.alloc[u]

(* Placed semaphores hold issued addresses, and lastSem is the last tenant. *)
LastTenant ==
  /\ \A s \in Placed : addr[s] \in Addrs /\ addr[s] < hwm
  /\ \A a \in Addrs :
       IF lastSem[a] = NoSem
         THEN \A s \in Placed : addr[s] # a
         ELSE /\ lastSem[a] \in Placed /\ addr[lastSem[a]] = a
              /\ \A s \in Placed : addr[s] = a => s <= lastSem[a]

Unplaced ==
  \A s \in Sems(prog) \ Placed : chains[s] = prog.chains[s] /\ reused[s] = FALSE

IInv ==
  /\ BuildInv /\ EndsSettled /\ ActiveIsComplete /\ LastTenant
  /\ NoLiveOverlap /\ TenantsChained /\ Unplaced

LEMMA ProgramFacts ==
  ASSUME TypeOK
  PROVE  /\ prog.sems \in Nat
         /\ prog.alloc \in [Sems(prog) -> Nat]
         /\ prog.dealloc \in [Sems(prog) -> Nat \cup {NoOp}]
         /\ prog.chains \in [Sems(prog) -> SUBSET Sems(prog)]
         /\ \A s, t \in Sems(prog) : s < t => prog.alloc[s] < prog.alloc[t]
         /\ \A s \in Sems(prog) : \A t \in prog.chains[s] : t < s
         /\ cur \in Nat \ {0}
         /\ Placed \subseteq Sems(prog)
BY DEF TypeOK, WellFormed, Sems, Placed

(* An address no active interval holds is vacant at the alloc of cur: every *)
(* earlier tenant, active or long expired, has been deallocated.            *)
LEMMA FreeIsVacant ==
  ASSUME TypeOK, IInv, phase = "scan", cur \in Sems(prog),
         NEW a \in Addrs, \A s \in StillActive : addr[s] # a
  PROVE  \A s \in Placed : addr[s] = a => end[s] <= prog.alloc[cur]
<1> SUFFICES ASSUME NEW s \in Placed, addr[s] = a
             PROVE  end[s] <= prog.alloc[cur]
  OBVIOUS
<1>1. CASE s \in active
  <2>1. s \notin StillActive OBVIOUS
  <2>2. end[s] \in Nat /\ prog.alloc[cur] \in Nat
    BY ProgramFacts DEF IInv, EndsSettled
  <2>3. QED BY <1>1, <2>1, <2>2 DEF StillActive
<1>2. CASE s \notin active
  BY <1>2, ProgramFacts DEF IInv, ActiveIsComplete
<1>3. QED BY <1>1, <1>2

(* A never-issued address is held by nobody. *)
LEMMA FreshIsFree ==
  ASSUME TypeOK, IInv, hwm \in Addrs
  PROVE  \A s \in StillActive : addr[s] # hwm
<1>1. \A s \in StillActive : s \in Placed
  BY DEF IInv, ActiveIsComplete, StillActive
<1>2. \A s \in Placed : addr[s] \in Addrs /\ addr[s] < hwm
  BY DEF IInv, LastTenant
<1>3. QED BY <1>1, <1>2 DEF Addrs

(* Giving cur a vacant address keeps the inductive invariant. *)
LEMMA AssignKeepsInv ==
  ASSUME TypeOK, IInv, phase = "scan", cur \in Sems(prog),
         NEW a \in Addrs, Assign(a), \A s \in StillActive : addr[s] # a,
         hwm \in Nat, hwm' \in Nat, hwm <= hwm', a < hwm'
  PROVE  IInv'
<1> DEFINE P == Placed
<1>1. /\ prog' = prog /\ phase' = "scan" /\ cur' = cur + 1
      /\ end' = end /\ chainedEnd' = chainedEnd
      /\ active' = StillActive \cup {cur}
  BY DEF Assign, intervals
<1>2. /\ P = 1 .. cur - 1 /\ Placed' = P \cup {cur} /\ cur \notin P
      /\ \A s \in P : s < cur /\ s \in Nat
      /\ P \subseteq Sems(prog) /\ cur \in Nat /\ cur # NoSem
  BY <1>1, ProgramFacts DEF Placed, NoSem
<1>3. /\ addr'[cur] = a
      /\ \A s \in Sems(prog) : s # cur => addr'[s] = addr[s]
      /\ lastSem'[a] = cur
      /\ \A b \in Addrs : b # a => lastSem'[b] = lastSem[b]
  BY DEF Assign, TypeOK
<1>4. \A s \in P : addr[s] = a => end[s] <= prog.alloc[cur]
  BY FreeIsVacant
<1>5. BuildInv' /\ EndsSettled'
  BY <1>1 DEF IInv, BuildInv, EndsSettled
<1>6. ActiveIsComplete'
  <2>1. active' \subseteq Placed'
    BY <1>1, <1>2 DEF IInv, ActiveIsComplete, StillActive
  <2>2. ASSUME NEW s \in Placed' \ active', NEW u \in Sems(prog), cur + 1 <= u
        PROVE  end[s] <= prog.alloc[u]
    <3>1. s \in P /\ s \notin StillActive
      BY <1>1, <1>2, <2>2
    <3>2. u \in Nat /\ cur < u
      BY <1>2, <2>2 DEF Sems
    <3>3. /\ end[s] \in Nat /\ prog.alloc[u] \in Nat /\ prog.alloc[cur] \in Nat
          /\ prog.alloc[cur] < prog.alloc[u]
      BY <1>2, <3>1, <3>2, ProgramFacts DEF IInv, EndsSettled
    <3>4. end[s] <= prog.alloc[cur]
      <4>1. CASE s \in active BY <3>1, <3>3, <4>1 DEF StillActive
      <4>2. CASE s \notin active BY <1>2, <3>1, <4>2 DEF IInv, ActiveIsComplete
      <4>3. QED BY <4>1, <4>2
    <3>5. QED BY <3>3, <3>4
  <2>3. QED BY <1>1, <2>1, <2>2 DEF ActiveIsComplete
<1>7. LastTenant'
  <2>1. ASSUME NEW s \in Placed' PROVE addr'[s] \in Addrs /\ addr'[s] < hwm'
    <3>1. CASE s = cur BY <1>3, <3>1
    <3>2. CASE s # cur
      <4>1. s \in P /\ addr'[s] = addr[s] BY <1>2, <1>3, <2>1, <3>2
      <4>2. addr[s] \in Addrs /\ addr[s] < hwm BY <4>1 DEF IInv, LastTenant
      <4>3. QED BY <4>1, <4>2 DEF Addrs
    <3>3. QED BY <3>1, <3>2
  <2>2. ASSUME NEW b \in Addrs
        PROVE  IF lastSem'[b] = NoSem
                 THEN \A s \in Placed' : addr'[s] # b
                 ELSE /\ lastSem'[b] \in Placed' /\ addr'[lastSem'[b]] = b
                      /\ \A s \in Placed' : addr'[s] = b => s <= lastSem'[b]
    <3>1. CASE b = a BY <1>2, <1>3, <3>1
    <3>2. CASE b # a
      <4>1. lastSem'[b] = lastSem[b] BY <1>3, <3>2
      <4>2. \A s \in Placed' : addr'[s] = b => s \in P /\ addr[s] = b
        BY <1>2, <1>3, <3>2
      <4>3. CASE lastSem[b] = NoSem
        BY <4>1, <4>2, <4>3 DEF IInv, LastTenant
      <4>4. CASE lastSem[b] # NoSem
        <5>1. /\ lastSem[b] \in P /\ addr[lastSem[b]] = b
              /\ \A s \in P : addr[s] = b => s <= lastSem[b]
          BY <4>4 DEF IInv, LastTenant
        <5>2. lastSem[b] # cur /\ lastSem[b] \in Sems(prog) BY <1>2, <5>1
        <5>3. QED BY <1>2, <1>3, <4>1, <4>2, <4>4, <5>1, <5>2
      <4>5. QED BY <4>3, <4>4
    <3>3. QED BY <3>1, <3>2
  <2>3. QED BY <2>1, <2>2 DEF LastTenant, Addrs
<1>8. NoLiveOverlap'
  <2>1. ASSUME NEW s \in Placed', NEW t \in Placed', s < t, addr'[s] = addr'[t]
        PROVE  end[s] <= prog.alloc[t]
    <3>1. s \in P /\ addr'[s] = addr[s] BY <1>2, <1>3, <2>1
    <3>2. CASE t = cur BY <1>3, <1>4, <2>1, <3>1, <3>2
    <3>3. CASE t # cur
      <4>1. t \in P /\ addr'[t] = addr[t] BY <1>2, <1>3, <3>3
      <4>2. QED BY <2>1, <3>1, <4>1 DEF IInv, NoLiveOverlap
    <3>4. QED BY <3>2, <3>3
  <2>2. QED BY <1>1, <2>1 DEF NoLiveOverlap
<1>9. Unplaced'
  <2>1. ASSUME NEW t \in Sems(prog) \ Placed'
        PROVE  chains'[t] = prog.chains[t] /\ reused'[t] = FALSE
    <3>1. t # cur /\ t \notin P BY <1>2, <2>1
    <3>2. chains'[t] = chains[t] /\ reused'[t] = reused[t]
      BY <2>1, <3>1 DEF Assign, ChainToLastTenant, TypeOK
    <3>3. QED BY <3>1, <3>2 DEF IInv, Unplaced
  <2>2. QED BY <1>1, <2>1 DEF Unplaced
<1>10. TenantsChained'
  <2>1. ASSUME NEW t \in P
        PROVE  /\ chains'[t] = prog.chains[t] \cup {s \in Placed' : Precedes(s, t)'}
               /\ reused'[t] = \E s \in Placed' : Precedes(s, t)'
    <3>1. t # cur /\ t \in Sems(prog) /\ addr'[t] = addr[t] BY <1>2, <1>3
    <3>2. chains'[t] = chains[t] /\ reused'[t] = reused[t]
      BY <3>1 DEF Assign, ChainToLastTenant, TypeOK
    <3>3. \A s \in Placed' : Precedes(s, t)' <=> s \in P /\ Precedes(s, t)
      BY <1>2, <1>3, <3>1 DEF Precedes
    <3>4. {s \in Placed' : Precedes(s, t)'} = {s \in P : Precedes(s, t)}
      BY <1>2, <3>3
    <3>5. /\ chains[t] = prog.chains[t] \cup {s \in P : Precedes(s, t)}
          /\ reused[t] = \E s \in P : Precedes(s, t)
      BY DEF IInv, TenantsChained
    <3>6. (\E s \in Placed' : Precedes(s, t)') <=> \E s \in P : Precedes(s, t)
      BY <1>2, <3>3
    <3>7. reused'[t] \in BOOLEAN /\ reused[t] \in BOOLEAN
      BY <3>1, <3>2, Zenon DEF TypeOK
    <3>8. QED BY <3>2, <3>4, <3>5, <3>6, <3>7
  <2>2. ASSUME NEW c \in Sems(prog), c = cur
        PROVE  /\ chains'[c] = prog.chains[c] \cup {s \in Placed' : Precedes(s, c)'}
               /\ reused'[c] = \E s \in Placed' : Precedes(s, c)'
    <3>1. \A s \in Placed' : Precedes(s, c)' <=>
            /\ s \in P /\ addr[s] = a
            /\ \A u \in P : s < u => addr[u] # a
      BY <1>2, <1>3, <2>2 DEF Precedes
    <3>2. chains[c] = prog.chains[c] /\ reused[c] = FALSE
      BY <1>2, <2>2 DEF IInv, Unplaced
    <3>3. CASE lastSem[a] = NoSem
      <4>1. \A s \in P : addr[s] # a BY <3>3 DEF IInv, LastTenant
      <4>2. chains' = chains /\ reused' = reused
        BY <3>3 DEF Assign, ChainToLastTenant
      <4>3. \A s \in Placed' : ~Precedes(s, c)' BY <3>1, <4>1
      <4>4. QED BY <3>2, <4>2, <4>3
    <3>4. CASE lastSem[a] # NoSem
      <4>1. /\ lastSem[a] \in P /\ addr[lastSem[a]] = a
            /\ \A s \in P : addr[s] = a => s <= lastSem[a]
        BY <3>4 DEF IInv, LastTenant
      <4>2. chains'[c] = chains[c] \cup {lastSem[a]} /\ reused'[c] = TRUE
        BY <2>2, <3>4 DEF Assign, ChainToLastTenant, TypeOK
      <4>3. \A s \in Placed' : Precedes(s, c)' <=> s = lastSem[a]
        BY <1>2, <3>1, <4>1
      <4>4. lastSem[a] \in Placed' BY <1>2, <4>1
      <4>5. {s \in Placed' : Precedes(s, c)'} = {lastSem[a]}
        BY <4>3, <4>4
      <4>6. \E s \in Placed' : Precedes(s, c)' BY <4>3, <4>4
      <4>7. QED BY <3>2, <4>2, <4>5, <4>6
    <3>5. QED BY <3>3, <3>4
  <2>3. \A t \in Placed' :
          /\ chains'[t] = prog.chains[t] \cup {s \in Placed' : Precedes(s, t)'}
          /\ reused'[t] = \E s \in Placed' : Precedes(s, t)'
    BY <1>2, <2>1, <2>2
  <2>4. QED BY <1>1, <2>3 DEF TenantsChained
<1>11. QED BY <1>5, <1>6, <1>7, <1>8, <1>9, <1>10 DEF IInv

LEMMA InitInv == Init => IInv
<1> SUFFICES ASSUME Init PROVE IInv
  OBVIOUS
<1>1. Placed = {} BY DEF Init, Placed
<1>2. BuildInv
  BY DEF Init, BuildInv, Sems
<1>3. EndsSettled BY DEF Init, EndsSettled
<1>4. ActiveIsComplete /\ LastTenant
  BY <1>1 DEF Init, ActiveIsComplete, LastTenant
<1>5. NoLiveOverlap /\ TenantsChained
  BY <1>1 DEF NoLiveOverlap, TenantsChained
<1>6. Unplaced BY DEF Init, Unplaced
<1>7. QED BY <1>2, <1>3, <1>4, <1>5, <1>6 DEF IInv

LEMMA NextInv == TypeOK /\ IInv /\ [Next]_vars => IInv'
<1> SUFFICES ASSUME TypeOK, IInv, [Next]_vars PROVE IInv'
  OBVIOUS
<1>1. CASE VisitAlloc
  <2>1. phase = "build" /\ phase' = "build" /\ prog' = prog /\ UNCHANGED scanState
    BY <1>1 DEF VisitAlloc
  <2>2. Placed = {} /\ Placed' = {} BY <2>1 DEF Placed
  <2>3. BuildInv'
    <3>1. ASSUME NEW s \in Sems(prog), s < cur + 1
          PROVE  /\ end'[s] = prog.alloc[s]
                 /\ \A t \in prog.chains[s] : chainedEnd'[t] > prog.alloc[s]
      <4>1. /\ s \in Nat /\ prog.alloc[s] \in Nat /\ cur \in Sems(prog)
            /\ prog.alloc[cur] \in Nat
        BY <1>1, ProgramFacts DEF Sems, VisitAlloc
      <4>2. CASE s = cur
        <5>1. \A t \in prog.chains[s] : t \in Sems(prog) BY ProgramFacts
        <5>2. \A t \in Sems(prog) : chainedEnd[t] \in Nat \cup {NoOp}
          BY DEF TypeOK
        <5>3. \A t \in prog.chains[s] :
                chainedEnd'[t] = Later(chainedEnd[t], prog.alloc[cur] + 1)
          BY <1>1, <4>2, <5>1 DEF VisitAlloc
        <5>4. ASSUME NEW t \in prog.chains[s] PROVE chainedEnd'[t] > prog.alloc[s]
          <6>1. chainedEnd[t] \in Int BY <5>1, <5>2 DEF NoOp
          <6>2. chainedEnd'[t] = Later(chainedEnd[t], prog.alloc[s] + 1)
            BY <4>2, <5>3
          <6>3. QED BY <4>1, <6>1, <6>2 DEF Later
        <5>5. QED BY <1>1, <4>1, <4>2, <5>4 DEF VisitAlloc, TypeOK
      <4>3. CASE s # cur
        <5>1. /\ s < cur /\ end'[s] = end[s]
          BY <1>1, <3>1, <4>1, <4>3, ProgramFacts DEF VisitAlloc, TypeOK
        <5>2. /\ end[s] = prog.alloc[s]
              /\ \A t \in prog.chains[s] : chainedEnd[t] > prog.alloc[s]
          BY <2>1, <5>1 DEF IInv, BuildInv
        <5>3. ASSUME NEW t \in prog.chains[s] PROVE chainedEnd'[t] > prog.alloc[s]
          <6>1. t \in Sems(prog) /\ chainedEnd[t] \in Nat \cup {NoOp}
            BY ProgramFacts DEF TypeOK
          <6>2. chainedEnd[t] \in Int /\ chainedEnd[t] > prog.alloc[s]
            BY <5>2, <6>1 DEF NoOp
          <6>3. chainedEnd'[t] \in {chainedEnd[t], Later(chainedEnd[t], prog.alloc[cur] + 1)}
            BY <1>1, <6>1 DEF VisitAlloc
          <6>4. QED BY <4>1, <6>2, <6>3 DEF Later
        <5>4. QED BY <5>1, <5>2, <5>3
      <4>4. QED BY <4>2, <4>3
    <3>2. cur' = cur + 1 BY <1>1 DEF VisitAlloc
    <3>3. QED BY <2>1, <3>1, <3>2 DEF BuildInv, IInv, scanState
  <2>4. EndsSettled' BY <2>1 DEF EndsSettled
  <2>5. ActiveIsComplete' /\ LastTenant'
    BY <2>1, <2>2 DEF IInv, BuildInv, ActiveIsComplete, LastTenant, scanState
  <2>6. NoLiveOverlap' /\ TenantsChained'
    BY <2>2 DEF NoLiveOverlap, TenantsChained
  <2>7. Unplaced' BY <2>1, <2>2 DEF IInv, Unplaced, scanState
  <2>8. QED BY <2>3, <2>4, <2>5, <2>6, <2>7 DEF IInv
<1>2. CASE VisitDeallocs
  <2>1. /\ phase = "build" /\ phase' = "scan" /\ prog' = prog /\ cur' = 1
        /\ UNCHANGED scanState /\ cur = prog.sems + 1
    BY <1>2 DEF VisitDeallocs
  <2>2. Placed = {} /\ Placed' = {} BY <2>1 DEF Placed
  <2>3. BuildInv' BY <2>1 DEF BuildInv
  <2>4. EndsSettled'
    <3>1. \A s \in Sems(prog) : s < cur BY <2>1, ProgramFacts DEF Sems
    <3>2. ASSUME NEW s \in Sems(prog)
          PROVE  /\ end'[s] \in Nat
                 /\ \A t \in prog.chains[s] :
                      prog.dealloc[t] # NoOp => end'[t] > prog.alloc[s]
      <4>1. end[s] = prog.alloc[s] /\ prog.alloc[s] \in Nat
        BY <2>1, <3>1, ProgramFacts DEF IInv, BuildInv
      <4>2. prog.dealloc[s] \in Nat \cup {NoOp} /\ chainedEnd[s] \in Nat \cup {NoOp}
        BY ProgramFacts DEF TypeOK
      <4>3. end'[s] \in Nat
        BY <1>2, <4>1, <4>2 DEF VisitDeallocs, ClosedEnd, Later, NoOp
      <4>4. ASSUME NEW t \in prog.chains[s], prog.dealloc[t] # NoOp
            PROVE  end'[t] > prog.alloc[s]
        <5>1. t \in Sems(prog) BY ProgramFacts
        <5>2. end'[t] = Later(prog.dealloc[t], chainedEnd[t])
          BY <1>2, <4>4, <5>1 DEF VisitDeallocs, ClosedEnd
        <5>3. chainedEnd[t] > prog.alloc[s]
          BY <2>1, <3>1 DEF IInv, BuildInv
        <5>4. prog.dealloc[t] \in Nat \cup {NoOp} /\ chainedEnd[t] \in Nat \cup {NoOp}
          BY <5>1, ProgramFacts DEF TypeOK
        <5>5. QED BY <4>1, <5>2, <5>3, <5>4 DEF Later, NoOp
      <4>5. QED BY <4>3, <4>4
    <3>3. QED BY <2>1, <3>2 DEF EndsSettled
  <2>5. ActiveIsComplete' /\ LastTenant'
    BY <2>1, <2>2 DEF IInv, BuildInv, ActiveIsComplete, LastTenant, scanState
  <2>6. NoLiveOverlap' /\ TenantsChained'
    BY <2>2 DEF NoLiveOverlap, TenantsChained
  <2>7. Unplaced' BY <2>1, <2>2 DEF IInv, Unplaced, scanState
  <2>8. QED BY <2>3, <2>4, <2>5, <2>6, <2>7 DEF IInv
<1>3. CASE AssignFresh
  <2>1. /\ hwm \in Addrs /\ hwm \in Nat /\ hwm' = hwm + 1
        /\ phase = "scan" /\ cur \in Sems(prog) /\ Assign(hwm)
    BY <1>3, PairsAssumption DEF AssignFresh, TypeOK, Addrs
  <2>2. \A s \in StillActive : addr[s] # hwm BY <2>1, FreshIsFree
  <2>3. hwm' \in Nat /\ hwm <= hwm' /\ hwm < hwm' BY <2>1
  <2>4. \A a \in Addrs : a = hwm => IInv'
    BY <2>1, <2>2, <2>3, AssignKeepsInv
  <2>5. QED BY <2>1, <2>4
<1>4. CASE AssignRecycled
  <2>1. PICK a \in Addrs : LeastRecentlyUsed(a) /\ Assign(a)
    BY <1>4 DEF AssignRecycled
  <2>2. \A s \in StillActive : addr[s] # a
    BY <2>1 DEF LeastRecentlyUsed, Free
  <2>3. /\ phase = "scan" /\ cur \in Sems(prog) /\ hwm' = hwm
        /\ hwm \in Nat /\ a < hwm
    BY <1>4, PairsAssumption DEF AssignRecycled, TypeOK, Addrs
  <2>4. hwm' \in Nat /\ hwm <= hwm' /\ a < hwm' BY <2>3
  <2>5. QED BY <2>1, <2>2, <2>3, <2>4, AssignKeepsInv
<1>5. CASE OutOfAddresses
  <2>1. /\ phase = "scan" /\ phase' \in {"failed", "aborted"}
        /\ active' = StillActive /\ cur \in Sems(prog)
        /\ UNCHANGED <<prog, cur, chainedEnd, end, hwm, lastEnd, lastSem, nextGen,
                       addr, gen, reused, chains>>
    BY <1>5 DEF OutOfAddresses, intervals
  <2>2. Placed' = Placed BY <2>1 DEF Placed
  <2>3. BuildInv' /\ EndsSettled' BY <2>1 DEF IInv, BuildInv, EndsSettled
  <2>4. ActiveIsComplete'
    <3>1. active' \subseteq Placed'
      BY <2>1, <2>2 DEF IInv, ActiveIsComplete, StillActive
    <3>2. ASSUME NEW s \in Placed \ StillActive, NEW u \in Sems(prog), cur <= u
          PROVE  end[s] <= prog.alloc[u]
      <4>1. CASE s \notin active BY <3>2, <4>1 DEF IInv, ActiveIsComplete
      <4>2. CASE s \in active
        <5>1. /\ end[s] \in Nat /\ prog.alloc[u] \in Nat /\ prog.alloc[cur] \in Nat
              /\ prog.alloc[cur] <= prog.alloc[u]
          <6>1. u \in Nat /\ cur \in Nat BY ProgramFacts DEF Sems
          <6>2. cur < u \/ cur = u BY <3>2, <6>1
          <6>3. QED BY <2>1, <6>2, ProgramFacts DEF IInv, EndsSettled
        <5>2. end[s] <= prog.alloc[cur] BY <3>2, <4>2, <5>1 DEF StillActive
        <5>3. QED BY <5>1, <5>2
      <4>3. QED BY <4>1, <4>2
    <3>3. QED BY <2>1, <2>2, <3>1, <3>2 DEF ActiveIsComplete
  <2>5. LastTenant' BY <2>1, <2>2 DEF IInv, LastTenant
  <2>6. NoLiveOverlap' BY <2>1, <2>2 DEF IInv, NoLiveOverlap
  <2>7. \A s, t : Precedes(s, t)' <=> Precedes(s, t)
    BY <2>1, <2>2 DEF Precedes
  <2>8. TenantsChained' BY <2>1, <2>2, <2>7 DEF IInv, TenantsChained
  <2>9. Unplaced' BY <2>1, <2>2 DEF IInv, Unplaced
  <2>10. QED BY <2>3, <2>4, <2>5, <2>6, <2>8, <2>9 DEF IInv
<1>6. CASE Annotate
  <2>1. /\ phase = "scan" /\ phase' = "done"
        /\ UNCHANGED <<prog, cur, chainedEnd, end, active, hwm, lastEnd, lastSem,
                       nextGen, addr, gen, reused, chains>>
    BY <1>6 DEF Annotate, intervals, scanState
  <2>2. Placed' = Placed BY <2>1 DEF Placed
  <2>3. BuildInv' /\ EndsSettled' BY <2>1 DEF IInv, BuildInv, EndsSettled
  <2>4. ActiveIsComplete' /\ LastTenant'
    BY <2>1, <2>2 DEF IInv, ActiveIsComplete, LastTenant
  <2>5. NoLiveOverlap' BY <2>1, <2>2 DEF IInv, NoLiveOverlap
  <2>6. \A s, t : Precedes(s, t)' <=> Precedes(s, t)
    BY <2>1, <2>2 DEF Precedes
  <2>7. TenantsChained' BY <2>1, <2>2, <2>6 DEF IInv, TenantsChained
  <2>8. Unplaced' BY <2>1, <2>2 DEF IInv, Unplaced
  <2>9. QED BY <2>3, <2>4, <2>5, <2>7, <2>8 DEF IInv
<1>7. CASE UNCHANGED vars
  <2>1. UNCHANGED <<prog, phase, cur, chainedEnd, end, active, hwm, lastEnd, lastSem,
                    nextGen, addr, gen, reused, chains>>
    BY <1>7 DEF vars, intervals, scanState
  <2>2. Placed' = Placed BY <2>1 DEF Placed
  <2>3. \A s, t : Precedes(s, t)' <=> Precedes(s, t)
    BY <2>1, <2>2 DEF Precedes
  <2>4. BuildInv' /\ EndsSettled' BY <2>1 DEF IInv, BuildInv, EndsSettled
  <2>5. ActiveIsComplete' /\ LastTenant'
    BY <2>1, <2>2 DEF IInv, ActiveIsComplete, LastTenant
  <2>6. NoLiveOverlap' /\ Unplaced' BY <2>1, <2>2 DEF IInv, NoLiveOverlap, Unplaced
  <2>7. TenantsChained' BY <2>1, <2>2, <2>3 DEF IInv, TenantsChained
  <2>8. QED BY <2>4, <2>5, <2>6, <2>7 DEF IInv
<1>8. QED
  BY <1>1, <1>2, <1>3, <1>4, <1>5, <1>6, <1>7 DEF Next

(* The invariant holds of every run of the pass. *)
THEOREM Invariance == Spec => []IInv
<1>1. TypeOK /\ IInv /\ [Next]_vars => IInv' BY NextInv
<1>2. QED BY <1>1, InitInv, TypeCorrect, PTL DEF Spec

(* No address is given to a semaphore while another one still holds it.    *)
THEOREM AddressesNeverOverlap == Spec => []NoLiveOverlap
<1>1. IInv => NoLiveOverlap BY DEF IInv
<1>2. QED BY <1>1, Invariance, PTL

(* Every tenant of an address waits for its immediate predecessor.         *)
THEOREM ReuseIsChained == Spec => []TenantsChained
<1>1. IInv => TenantsChained BY DEF IInv
<1>2. QED BY <1>1, Invariance, PTL

(* A chain target that keeps its sem_dealloc keeps its address until the   *)
(* last sem_alloc chained to it.                                           *)
THEOREM ChainTargetsKeepTheirAddress == Spec => []ChainTargetsReserved
<1>1. TypeOK /\ IInv => ChainTargetsReserved
  <2> SUFFICES ASSUME TypeOK, IInv,
                      NEW s \in Placed, NEW t \in prog.chains[s],
                      prog.dealloc[t] # NoOp,
                      NEW u \in Placed, t < u, u <= s, addr[u] = addr[t]
               PROVE  FALSE
    BY DEF ChainTargetsReserved
  <2>1. /\ s \in Sems(prog) /\ u \in Sems(prog) /\ t \in Sems(prog)
        /\ s \in Nat /\ u \in Nat /\ t \in Nat
    BY ProgramFacts DEF Sems
  <2>2. phase # "build" /\ t \in Placed
    <3>1. phase # "build" /\ Placed = 1 .. cur - 1 BY DEF Placed
    <3>2. u <= cur - 1 /\ 1 <= t BY <2>1, <3>1, ProgramFacts DEF Sems
    <3>3. QED BY <2>1, <3>1, <3>2, ProgramFacts
  <2>3. end[t] <= prog.alloc[u]
    BY <2>2 DEF IInv, NoLiveOverlap
  <2>4. end[t] > prog.alloc[s] /\ end[t] \in Nat
    BY <2>1, <2>2 DEF IInv, EndsSettled
  <2>5. prog.alloc[u] <= prog.alloc[s] /\ prog.alloc[u] \in Nat /\ prog.alloc[s] \in Nat
    <3>1. u = s \/ u < s BY <2>1
    <3>2. QED BY <2>1, <3>1, ProgramFacts
  <2>6. QED BY <2>3, <2>4, <2>5
<1>2. QED BY <1>1, Invariance, TypeCorrect, PTL

(* The assertion at line 308: whenever no address is free some interval is  *)
(* active to be the victim -- an address is only ever withheld by an        *)
(* interval that expiry has left in the list.                               *)
VictimExists == phase # "aborted"

(* With at least one address the assertion at line 308 never fires.        *)
THEOREM VictimAlwaysExists ==
  ASSUME NumPairs > 0
  PROVE  Spec => []VictimExists
<1>1. Init => VictimExists BY DEF Init, VictimExists
<1>2. VictimExists /\ [Next]_vars => VictimExists'
  <2> SUFFICES ASSUME VictimExists, [Next]_vars PROVE VictimExists'
    OBVIOUS
  <2>1. CASE OutOfAddresses
    <3>1. 0 \in Addrs BY PairsAssumption DEF Addrs
    <3>2. 0 \notin Free BY <2>1 DEF OutOfAddresses
    <3>3. StillActive # {} BY <3>1, <3>2 DEF Free
    <3>4. QED BY <2>1, <3>3 DEF OutOfAddresses, VictimExists
  <2>2. CASE ~OutOfAddresses
    BY <2>2 DEF Next, vars, VictimExists, VisitAlloc, VisitDeallocs, AssignFresh,
                AssignRecycled, Assign, Annotate
  <2>3. QED BY <2>1, <2>2
<1>3. QED BY <1>1, <1>2, PTL DEF Spec

(* The scan implements the abstract tenancy of slots.                      *)
THEOREM ScanImplementsTenancy == Spec => ImplementsTenancy
<1>1. Init => Tenancy!Init
  BY DEF Init, Tenancy!Init, Tenancy!Admitted, Placed
<1>2. TypeOK /\ IInv /\ [Next]_vars => [Tenancy!Next]_(Tenancy!vars)
  <2> SUFFICES ASSUME TypeOK, IInv, [Next]_vars
               PROVE  [Tenancy!Next]_(Tenancy!vars)
    OBVIOUS
  <2> DEFINE Home == [s \in Placed |-> addr[s]]
  <2>1. DOMAIN Home = Placed /\ DOMAIN prog.alloc = Sems(prog)
    BY ProgramFacts
  <2>2. ASSUME NEW a \in Addrs, \A s \in StillActive : addr[s] # a,
               Assign(a), phase = "scan", cur \in Sems(prog)
        PROVE  Tenancy!Admit(cur, a)
    <3>1. /\ Placed = 1 .. cur - 1 /\ Placed' = 1 .. cur
          /\ cur \in Nat /\ phase' = "scan" /\ prog' = prog /\ end' = end
      BY <2>2, ProgramFacts DEF Placed, Assign, intervals
    <3>2. \A t \in Placed : addr[t] = a => end[t] <= prog.alloc[cur]
      BY <2>2, FreeIsVacant
    <3>3. [s \in Placed' |-> addr'[s]]
            = [t \in 1 .. cur |-> IF t = cur THEN a ELSE Home[t]]
      <4>1. \A t \in 1 .. cur : addr'[t] = IF t = cur THEN a ELSE Home[t]
        BY <2>2, <3>1, ProgramFacts DEF Assign, TypeOK
      <4>2. QED BY <3>1, <4>1
    <3>4. QED
      BY <2>1, <2>2, <3>1, <3>2, <3>3
         DEF Tenancy!Admit, Tenancy!Admitted, Tenancy!Vacant
  <2>3. CASE VisitAlloc
    BY <2>3 DEF VisitAlloc, scanState, Placed, Tenancy!Next, Tenancy!Settle,
                Tenancy!Admitted
  <2>4. CASE VisitDeallocs
    BY <2>4 DEF VisitDeallocs, scanState, Placed, Tenancy!Next, Tenancy!Settle,
                Tenancy!Admitted
  <2>5. CASE AssignFresh
    <3>1. hwm \in Addrs
      BY <2>5, PairsAssumption DEF AssignFresh, TypeOK, Addrs
    <3>2. PICK a \in Addrs : a = hwm BY <3>1
    <3>3. Tenancy!Admit(cur, a)
      BY <2>2, <2>5, <3>1, <3>2, FreshIsFree DEF AssignFresh
    <3>4. QED BY <2>1, <2>5, <3>3
                 DEF AssignFresh, Tenancy!Next, Tenancy!Tenants
  <2>6. CASE AssignRecycled
    <3>1. PICK a \in Addrs : LeastRecentlyUsed(a) /\ Assign(a)
      BY <2>6 DEF AssignRecycled
    <3>2. Tenancy!Admit(cur, a)
      BY <2>2, <2>6, <3>1 DEF AssignRecycled, LeastRecentlyUsed, Free
    <3>3. QED BY <2>1, <2>6, <3>1, <3>2
                 DEF AssignRecycled, Tenancy!Next, Tenancy!Tenants
  <2>7. CASE OutOfAddresses
    <3>1. Placed = 1 .. cur - 1 /\ Placed' = Placed
      BY <2>7 DEF OutOfAddresses, Placed
    <3>2. \A a \in Addrs : \E s \in Placed : addr[s] = a /\ end[s] > prog.alloc[cur]
      BY <2>7 DEF OutOfAddresses, Free, StillActive, IInv, ActiveIsComplete
    <3>3. \A s \in Placed : end[s] \in Nat /\ prog.alloc[cur] \in Nat
      BY <2>7, ProgramFacts DEF OutOfAddresses, IInv, EndsSettled
    <3>4. \A a \in Addrs : ~Tenancy!Vacant(a, prog.alloc[cur])
      BY <2>1, <3>2, <3>3 DEF Tenancy!Vacant, Tenancy!Admitted
    <3>5. Tenancy!TurnAway(cur)
      BY <2>1, <2>7, <3>1, <3>4
         DEF OutOfAddresses, intervals, Tenancy!TurnAway, Tenancy!Admitted
    <3>6. QED BY <2>1, <2>7, <3>5 DEF OutOfAddresses, Tenancy!Next, Tenancy!Tenants
  <2>8. CASE Annotate
    BY <2>8 DEF Annotate, intervals, scanState, Placed, Tenancy!vars
  <2>9. CASE UNCHANGED vars
    BY <2>9 DEF vars, intervals, scanState, Placed, Tenancy!vars
  <2>10. QED
    BY <2>3, <2>4, <2>5, <2>6, <2>7, <2>8, <2>9 DEF Next
<1>3. QED
  BY <1>1, <1>2, Invariance, TypeCorrect, PTL
     DEF Spec, ImplementsTenancy, Tenancy!Spec

-----------------------------------------------------------------------------
(* Tags count the tenants of an address. *)

Before(s) == {u \in Placed : addr[u] = addr[s] /\ u < s}

(* nextGeneration has counted every tenant of its address, and each tenant  *)
(* was tagged with the number of those before it.                           *)
TagsCount ==
  /\ \A a \in Addrs : nextGen[a] = Cardinality(Tenants(a))
  /\ \A s \in Placed : gen[s] = Cardinality(Before(s)) % NumGenerations

LEMMA TenantsFinite ==
  ASSUME TypeOK
  PROVE  /\ IsFiniteSet(Placed)
         /\ \A a : IsFiniteSet(Tenants(a)) /\ Cardinality(Tenants(a)) \in Nat
<1>1. IsFiniteSet(Placed)
  <2>1. cur \in Nat BY ProgramFacts
  <2>2. IsFiniteSet(1 .. cur - 1) BY <2>1, FS_Interval
  <2>3. QED BY <2>2, FS_EmptySet DEF Placed
<1>2. \A a : Tenants(a) \in SUBSET Placed BY DEF Tenants
<1>3. QED BY <1>1, <1>2, FS_Subset, FS_CardinalityType

LEMMA InitTags == Init => TagsCount
<1> SUFFICES ASSUME Init PROVE TagsCount
  OBVIOUS
<1>1. Placed = {} BY DEF Init, Placed
<1>2. \A a : Tenants(a) = {} BY <1>1 DEF Tenants
<1>3. \A a \in Addrs : nextGen[a] = 0 BY DEF Init
<1>4. QED BY <1>1, <1>2, <1>3, FS_EmptySet DEF TagsCount

(* A new tenant is counted, and is told from those before it.               *)
LEMMA AssignKeepsTags ==
  ASSUME TypeOK, TagsCount, phase = "scan", cur \in Sems(prog),
         NEW a \in Addrs, Assign(a)
  PROVE  TagsCount'
<1>0. PICK c \in Sems(prog) : c = cur
  OBVIOUS
<1>1. /\ Placed = 1 .. c - 1 /\ Placed' = 1 .. c /\ c \in Nat
      /\ Placed' = Placed \cup {c} /\ c \notin Placed
  <2>1. cur \in Nat \ {0} BY ProgramFacts
  <2>2. cur' = cur + 1 /\ phase' = "scan" BY DEF Assign
  <2>3. cur' - 1 = cur BY <2>1, <2>2
  <2>4. Placed = 1 .. cur - 1 /\ Placed' = 1 .. cur BY <2>2, <2>3 DEF Placed
  <2>5. QED BY <1>0, <2>1, <2>4
<1>2. /\ addr'[c] = a /\ \A s \in Placed : addr'[s] = addr[s]
      /\ gen'[c] = nextGen[a] % NumGenerations
      /\ \A s \in Placed : gen'[s] = gen[s]
      /\ nextGen'[a] = nextGen[a] + 1
      /\ \A b \in Addrs : b # a => nextGen'[b] = nextGen[b]
  BY <1>0, <1>1, ProgramFacts DEF Assign, TakeGeneration, TypeOK
<1>3. Tenants(a)' = Tenants(a) \cup {c} /\ c \notin Tenants(a)
  BY <1>1, <1>2 DEF Tenants
<1>4. \A b \in Addrs : b # a => Tenants(b)' = Tenants(b)
  BY <1>1, <1>2 DEF Tenants
<1>5. Before(c)' = Tenants(a)
  <2>1. \A u \in Placed' : u < c <=> u \in Placed BY <1>1
  <2>2. QED BY <1>1, <1>2, <2>1 DEF Before, Tenants
<1>6. \A s \in Placed : Before(s)' = Before(s)
  <2>1. \A s \in Placed : ~ c < s BY <1>1
  <2>2. QED BY <1>1, <1>2, <2>1 DEF Before
<1>7. \A b \in Addrs : nextGen'[b] = Cardinality(Tenants(b)')
  <2>1. Cardinality(Tenants(a)') = Cardinality(Tenants(a)) + 1
    BY <1>3, TenantsFinite, FS_AddElement
  <2>2. QED BY <1>2, <1>4, <2>1 DEF TagsCount
<1>8. \A s \in Placed' : gen'[s] = Cardinality(Before(s)') % NumGenerations
  <2>1. gen'[c] = Cardinality(Before(c)') % NumGenerations
    BY <1>2, <1>5 DEF TagsCount
  <2>2. \A s \in Placed : gen'[s] = Cardinality(Before(s)') % NumGenerations
    BY <1>2, <1>6 DEF TagsCount
  <2>3. QED BY <1>1, <2>1, <2>2
<1>9. QED BY <1>7, <1>8 DEF TagsCount

LEMMA NextTags == TypeOK /\ TagsCount /\ [Next]_vars => TagsCount'
<1> SUFFICES ASSUME TypeOK, TagsCount, [Next]_vars PROVE TagsCount'
  OBVIOUS
<1>1. ASSUME Placed' = Placed, UNCHANGED <<addr, gen, nextGen>> PROVE TagsCount'
  <2>1. \A a : Tenants(a)' = Tenants(a) BY <1>1 DEF Tenants
  <2>2. \A s : Before(s)' = Before(s) BY <1>1 DEF Before
  <2>3. QED BY <1>1, <2>1, <2>2 DEF TagsCount
<1>2. CASE VisitAlloc
  BY <1>1, <1>2 DEF VisitAlloc, scanState, Placed
<1>3. CASE VisitDeallocs
  BY <1>1, <1>3 DEF VisitDeallocs, scanState, Placed
<1>4. CASE AssignFresh
  <2>1. hwm \in Addrs
    BY <1>4, PairsAssumption DEF AssignFresh, TypeOK, Addrs
  <2>2. QED BY <1>4, <2>1, AssignKeepsTags DEF AssignFresh
<1>5. CASE AssignRecycled
  BY <1>5, AssignKeepsTags DEF AssignRecycled
<1>6. CASE OutOfAddresses
  BY <1>1, <1>6 DEF OutOfAddresses, Placed
<1>7. CASE Annotate
  BY <1>1, <1>7 DEF Annotate, scanState, Placed
<1>8. CASE UNCHANGED vars
  BY <1>1, <1>8 DEF vars, scanState, Placed
<1>9. QED
  BY <1>2, <1>3, <1>4, <1>5, <1>6, <1>7, <1>8 DEF Next

(* Numbers less than n apart differ modulo n.                               *)
LEMMA CloseNumbersDiffer ==
  ASSUME NEW n \in Nat \ {0}, NEW x \in Nat, NEW d \in 1 .. n - 1
  PROVE  x % n # (x + d) % n
<1> SUFFICES ASSUME x % n = (x + d) % n PROVE FALSE
  OBVIOUS
<1>1. \A m \in Nat : /\ m \div n \in Nat /\ m % n \in 0 .. n - 1
                     /\ (m \div n) * n + (m % n) = m
  BY SMT
<1> DEFINE p == x \div n
           q == (x + d) \div n
           r == x % n
<1>2. /\ p \in Nat /\ q \in Nat /\ r \in Nat
      /\ p * n + r = x /\ q * n + r = x + d
  <2>1. x + d \in Nat OBVIOUS
  <2>2. QED BY <1>1, <2>1
<1> HIDE DEF p, q, r
<1>3. q * n = p * n + d /\ p * n \in Nat /\ q * n \in Nat /\ n \in Nat
  BY <1>2, SMT
<1>4. CASE q <= p
  <2>1. q * n <= p * n BY <1>2, <1>3, <1>4, TimesMonotone
  <2>2. QED BY <1>3, <2>1, SMT
<1>5. CASE p + 1 <= q
  <2>1. (p + 1) * n <= q * n BY <1>2, <1>3, <1>5, TimesMonotone
  <2>2. (p + 1) * n = p * n + n BY <1>2, <1>3, SMT
  <2>3. QED BY <1>3, <2>1, <2>2, SMT
<1>6. QED BY <1>2, <1>4, <1>5, SMT

(* Fewer than NumGenerations tenants apart, tags differ.                    *)
THEOREM TagsTellTenants == Spec => []TagsTellTenantsApart
<1>1. TypeOK /\ IInv /\ TagsCount => TagsTellTenantsApart
  <2> SUFFICES ASSUME TypeOK, IInv, TagsCount, NEW s \in Placed, NEW t \in Placed,
                      s < t, addr[s] = addr[t],
                      Cardinality({u \in Tenants(addr[t]) : s < u /\ u <= t}) < NumGenerations
               PROVE  gen[s] # gen[t]
    BY DEF TagsTellTenantsApart
  <2> DEFINE D == {u \in Tenants(addr[t]) : s < u /\ u <= t}
             E == {u \in Tenants(addr[t]) : s <= u /\ u < t}
  <2>1. s \in Nat /\ t \in Nat /\ \A u \in Placed : u \in Nat
    BY ProgramFacts DEF Placed
  <2>2. /\ IsFiniteSet(D) /\ IsFiniteSet(E) /\ IsFiniteSet(Before(s))
        /\ IsFiniteSet(Before(t)) /\ IsFiniteSet(D \cap E)
    <3>1. /\ D \in SUBSET Placed /\ E \in SUBSET Placed /\ Before(s) \in SUBSET Placed
          /\ Before(t) \in SUBSET Placed /\ D \cap E \in SUBSET Placed
      BY DEF Tenants, Before
    <3>2. QED BY <3>1, TenantsFinite, FS_Subset
  <2>3. Before(t) = Before(s) \cup E /\ Before(s) \cap E = {}
    <3>1. \A u \in Placed : u < t <=> (u < s \/ (s <= u /\ u < t))
      BY <2>1
    <3>2. \A u \in Placed : ~ (u < s /\ s <= u)
      BY <2>1
    <3>3. QED BY <3>1, <3>2 DEF Before, Tenants
  <2>4. Cardinality(Before(t)) = Cardinality(Before(s)) + Cardinality(E)
    <3> HIDE DEF E
    <3>1. Cardinality(Before(s) \cup E)
            = Cardinality(Before(s)) + Cardinality(E) - Cardinality(Before(s) \cap E)
      BY <2>2, FS_Union
    <3>2. Cardinality(Before(s)) \in Nat /\ Cardinality(E) \in Nat
      BY <2>2, FS_CardinalityType
    <3>3. Cardinality(Before(s) \cap E) = 0
      BY <2>3, FS_EmptySet, Zenon
    <3>4. Before(t) = Before(s) \cup E
      BY <2>3
    <3> HIDE DEF Before
    <3>5. QED BY <3>1, <3>2, <3>3, <3>4
  <2>5. Cardinality(D) = Cardinality(E)
    <3>1. /\ D = (D \cap E) \cup {t} /\ t \notin D \cap E
          /\ E = (D \cap E) \cup {s} /\ s \notin D \cap E
      <4>1. \A u \in Placed : /\ (s < u /\ u <= t) <=> ((s < u /\ u < t) \/ u = t)
                              /\ (s <= u /\ u < t) <=> ((s < u /\ u < t) \/ u = s)
        BY <2>1
      <4>2. D \cap E = {u \in Tenants(addr[t]) : s < u /\ u < t}
        BY <2>1, <4>1 DEF Tenants
      <4>3. s \in Tenants(addr[t]) /\ t \in Tenants(addr[t]) BY DEF Tenants
      <4>4. ~ s < s /\ ~ t < t BY <2>1
      <4>5. QED BY <4>1, <4>2, <4>3, <4>4 DEF Tenants
    <3>2. /\ Cardinality((D \cap E) \cup {t}) = Cardinality(D \cap E) + 1
          /\ Cardinality((D \cap E) \cup {s}) = Cardinality(D \cap E) + 1
      BY <2>2, <3>1, FS_AddElement
    <3>3. QED BY <3>1, <3>2
  <2>6. Cardinality(E) \in 1 .. NumGenerations - 1
    <3>1. s \in E BY <2>1 DEF Tenants
    <3>2. Cardinality(E) # 0 /\ Cardinality(E) \in Nat
      BY <2>2, <3>1, FS_EmptySet, FS_CardinalityType
    <3>3. QED BY <2>5, <3>2, GenerationsAssumption
  <2>7. Cardinality(Before(s)) \in Nat BY <2>2, FS_CardinalityType
  <2> HIDE DEF D, E
  <2>8. Cardinality(Before(s)) % NumGenerations # Cardinality(Before(t)) % NumGenerations
    BY <2>4, <2>6, <2>7, CloseNumbersDiffer, GenerationsAssumption
  <2>9. QED BY <2>8 DEF TagsCount
<1>2. QED
  BY <1>1, InitTags, NextTags, Invariance, TypeCorrect, PTL DEF Spec

-----------------------------------------------------------------------------
(* The images and the stream that are made of them.                         *)

(* The passes and the translation never touch what the address assignment  *)
(* left; before it ends none of them runs.                                 *)
LEMMA ImageStep == [ImageNext]_imageVars => [Next]_vars
<1> SUFFICES ASSUME [ImageNext]_imageVars PROVE [Next]_vars
  OBVIOUS
<1>1. CASE AssignAddresses
  BY <1>1 DEF AssignAddresses
<1>2. CASE RiscvStep
  BY <1>2 DEF RiscvStep, Legalize, Outline, Wrap, LowerSync, FixSignature, LowerMemref,
              CopyConstants, RemoveMemrefArgs, RewriteFuncToLLVM, Rewrite, Collect
<1>3. CASE EmitStep
  BY <1>3 DEF EmitStep, EmitSemAlloc, EmitExecute, EmitMemory, PassOver
<1>4. CASE UNCHANGED imageVars
  BY <1>4 DEF imageVars
<1>5. QED BY <1>1, <1>2, <1>3, <1>4 DEF ImageNext

(* The invariant of the address assignment holds of the whole back end. *)
THEOREM ImageKeepsAddresses == ImageSpec => [](TypeOK /\ IInv)
<1>1. ImageInit => TypeOK /\ IInv
  BY InitTypes, InitInv DEF ImageInit
<1>2. TypeOK /\ IInv /\ [ImageNext]_imageVars => (TypeOK /\ IInv)'
  BY ImageStep, NextTypes, NextInv
<1>3. QED BY <1>1, <1>2, PTL DEF ImageSpec

-----------------------------------------------------------------------------
(* Where addresses and tags fit in 16 bits together, fusing loses nothing. *)
LEMMA FuseIsPacking ==
  ASSUME FitsWord, NEW a \in Addrs, NEW g \in 0 .. NumGenerations - 1
  PROVE  /\ Scale \in Nat /\ g \in 0 .. Scale - 1
         /\ a * Scale + g \in Nat
         /\ Fuse(a, g) = a * Scale + g
<1>1. /\ Scale \in Nat /\ Scale >= 1 /\ g \in 0 .. Scale - 1
      /\ a \in Nat /\ a + 1 <= NumPairs /\ NumPairs \in Nat
  BY ScaleAssumption, GenerationsAssumption, PairsAssumption DEF Addrs
<1>2. NumPairs * Scale <= Word /\ Word = 65536
  BY DEF FitsWord, Word
<1>3. (a + 1) * Scale <= NumPairs * Scale
  BY <1>1, TimesMonotone
<1>4. /\ a * Scale \in Nat /\ (a + 1) * Scale = a * Scale + Scale
      /\ NumPairs * Scale \in Nat
  BY <1>1, SMT
<1>5. a <= a * Scale
  <2>1. PICK m \in Nat : Scale = 1 + m BY <1>1, SMT
  <2>2. a * Scale = a + a * m BY <1>1, <2>1, SMT
  <2>3. a * m \in Nat BY <1>1, <2>1, SMT
  <2>4. QED BY <1>1, <2>2, <2>3, SMT
<1>6. a < Word /\ a * Scale + g < Word
  BY <1>1, <1>2, <1>3, <1>4, <1>5, SMT
<1>7. a % Word = a
  BY <1>1, <1>2, <1>6, SMT
<1>8. g % Scale = g
  BY <1>1, SMT
<1>9. (a * Scale + g) % Word = a * Scale + g
  <2>1. \A x \in Nat : x < Word => x % Word = x BY <1>2, SMT
  <2>2. a * Scale + g \in Nat BY <1>1, <1>4, SMT
  <2>3. QED BY <1>6, <2>1, <2>2, Zenon
<1>10. a * Scale + g \in Nat
  BY <1>1, <1>4, SMT
<1>11. Fuse(a, g) = a * Scale + g
  BY <1>7, <1>8, <1>9, Zenon DEF Fuse
<1>12. QED BY <1>1, <1>10, <1>11

(* What the fabric is told tells any two semaphores in use apart. *)
THEOREM FusedAddressesTellTenantsApart == ImageSpec => []TenantsApart
<1>1. TypeOK /\ IInv => TenantsApart
  <2> SUFFICES ASSUME TypeOK, IInv, FitsWord, NEW s \in Placed, NEW t \in Placed,
                      s < t, Fused(s) = Fused(t)
               PROVE  end[s] <= prog.alloc[t]
    BY DEF TenantsApart
  <2>1. /\ addr[s] \in Addrs /\ addr[t] \in Addrs
        /\ gen[s] \in 0 .. NumGenerations - 1 /\ gen[t] \in 0 .. NumGenerations - 1
    BY ProgramFacts DEF IInv, LastTenant, TypeOK, Placed, Sems
  <2>2. addr[s] * Scale + gen[s] = addr[t] * Scale + gen[t]
    BY <2>1, FuseIsPacking DEF Fused
  <2>3. addr[s] = addr[t]
    <3>1. /\ Scale \in Nat /\ gen[s] \in 0 .. Scale - 1 /\ gen[t] \in 0 .. Scale - 1
      BY <2>1, FuseIsPacking
    <3>2. addr[s] \in Nat /\ addr[t] \in Nat
      BY <2>1 DEF Addrs
    <3>3. QED BY <2>2, <3>1, <3>2, PackingIsUnique
  <2>4. QED BY <2>3 DEF IInv, NoLiveOverlap
<1>2. QED BY <1>1, ImageKeepsAddresses, PTL

-----------------------------------------------------------------------------
(* The kernels, one rewrite after the other. *)

(* The ports of the semaphores a task waits for. *)
TaskPorts(t) == [j \in DOMAIN prog.tasks[t].waits |-> Ports(prog.tasks[t].waits[j])]

(* They are fixed by the addresses. *)
LEMMA PortsFollowAddresses ==
  ASSUME UNCHANGED <<prog, addr, gen>>, NEW t
  PROVE  TaskPorts(t)' = TaskPorts(t)
<1>1. prog' = prog /\ addr' = addr /\ gen' = gen
  OBVIOUS
<1>2. \A w : Ports(w)' = Ports(w)
  BY <1>1, SMT DEF Ports, PortAddress
<1>3. QED BY <1>1, <1>2, SMT DEF TaskPorts

KernelFields == {"form", "sym", "call", "params", "inner", "implParams", "ports"}

(* A kernel has no ports before the addresses are final, and then those of *)
(* the semaphores its task waits for, whatever else is rewritten.          *)
PortsInv ==
  /\ prog \in Programs
  /\ phase = "done" => cur = prog.sems + 1
  /\ DOMAIN kernel = Tasks(prog)
  /\ \A t \in Tasks(prog) :
       /\ DOMAIN kernel[t] = KernelFields
       /\ kernel[t].ports # << >> =>
            phase = "done" /\ kernel[t].ports = TaskPorts(t)

(* At the start no kernel has a port.                                       *)
LEMMA InitPorts == ImageInit => PortsInv
BY DEF ImageInit, Init, PortsInv, KernelFields

(* Once assigned, addresses stay. *)
LEMMA DoneIsFinal ==
  ASSUME phase = "done", cur = prog.sems + 1, [Next]_vars
  PROVE  UNCHANGED vars
BY DEF Next, VisitAlloc, VisitDeallocs, AssignFresh, AssignRecycled, OutOfAddresses,
       Annotate

(* Before the end of the assignment there are no ports. *)
LEMMA AssignKeepsPorts ==
  ASSUME TypeOK, PortsInv, [Next]_vars, UNCHANGED kernel
  PROVE  PortsInv'
<1>1. CASE phase = "done"
  <2>1. UNCHANGED vars BY <1>1, DoneIsFinal DEF PortsInv
  <2>2. UNCHANGED <<prog, phase, cur, addr, gen>> BY <2>1 DEF vars, scanState
  <2>3. QED BY <2>2, PortsFollowAddresses DEF PortsInv, Tasks
<1>2. CASE phase # "done"
  <2>1. prog' = prog
    BY DEF Next, VisitAlloc, VisitDeallocs, AssignFresh, AssignRecycled, OutOfAddresses,
           Annotate, Assign, vars
  <2>2. phase' = "done" => cur' = prog'.sems + 1
    BY <1>2 DEF Next, VisitAlloc, VisitDeallocs, AssignFresh, AssignRecycled,
           OutOfAddresses, Annotate, Assign, vars
  <2>3. \A t \in Tasks(prog) : kernel[t].ports = << >>
    BY <1>2 DEF PortsInv
  <2>4. QED BY <2>1, <2>2, <2>3 DEF PortsInv, Tasks
<1>3. QED BY <1>1, <1>2

(* A rewrite that leaves the ports alone, or puts in those of the task.     *)
LEMMA RewriteKeepsPorts ==
  ASSUME PortsInv, NEW t \in Tasks(prog), NEW from, NEW k, Rewrite(t, from, k),
         DOMAIN k = KernelFields,
         k.ports = kernel[t].ports \/ (phase = "done" /\ k.ports = TaskPorts(t))
  PROVE  PortsInv'
<1>1. /\ UNCHANGED <<prog, phase, cur, addr, gen>>
      /\ kernel' = [kernel EXCEPT ![t] = k]
  BY DEF Rewrite, vars, scanState
<1>2. DOMAIN kernel' = Tasks(prog) BY <1>1 DEF PortsInv
<1>3. kernel'[t] = k /\ \A u \in Tasks(prog) : u # t => kernel'[u] = kernel[u]
  BY <1>1 DEF PortsInv
<1>4. \A u \in Tasks(prog) : TaskPorts(u)' = TaskPorts(u)
  BY <1>1, PortsFollowAddresses
<1>5. QED BY <1>1, <1>2, <1>3, <1>4 DEF PortsInv, Tasks

(* No pass but ConvertEAACAcquire and ConvertEAACRequire decides on ports.  *)
LEMMA StepKeepsPorts ==
  ASSUME TypeOK, PortsInv, [ImageNext]_imageVars
  PROVE  PortsInv'
<1>1. CASE AssignAddresses
  BY <1>1, AssignKeepsPorts DEF AssignAddresses, riscvState
<1>2. ASSUME NEW t \in Tasks(prog), Legalize(t) PROVE PortsInv'
  <2>1. /\ UNCHANGED <<prog, phase, cur, addr, gen>>
        /\ kernel' = [kernel EXCEPT ![t] =
                        [kernel[t] EXCEPT !.form = "riscv_execute", !.sym = counter]]
    BY <1>2, Zenon DEF Legalize, vars, scanState
  <2>2. QED BY <2>1, PortsFollowAddresses DEF PortsInv, Tasks, KernelFields
<1>3. ASSUME NEW t \in Tasks(prog), Outline(t) PROVE PortsInv'
  BY <1>3, RewriteKeepsPorts DEF Outline, PortsInv, KernelFields
<1>4. ASSUME NEW t \in Tasks(prog), Wrap(t) PROVE PortsInv'
  BY <1>4, RewriteKeepsPorts DEF Wrap, PortsInv, KernelFields
<1>5. ASSUME NEW t \in Tasks(prog), LowerSync(t) PROVE PortsInv'
  BY <1>5, RewriteKeepsPorts DEF LowerSync, PortsInv, KernelFields, TaskPorts, Reached
<1>6. ASSUME NEW t \in Tasks(prog), FixSignature(t) PROVE PortsInv'
  BY <1>6, RewriteKeepsPorts DEF FixSignature, PortsInv, KernelFields
<1>7. ASSUME NEW t \in Tasks(prog), LowerMemref(t) PROVE PortsInv'
  BY <1>7, RewriteKeepsPorts DEF LowerMemref, PortsInv, KernelFields
<1>8. ASSUME NEW t \in Tasks(prog), CopyConstants(t) PROVE PortsInv'
  BY <1>8, RewriteKeepsPorts DEF CopyConstants, PortsInv, KernelFields
<1>9. ASSUME NEW t \in Tasks(prog), RemoveMemrefArgs(t) PROVE PortsInv'
  BY <1>9, RewriteKeepsPorts DEF RemoveMemrefArgs, PortsInv, KernelFields
<1>10. ASSUME NEW t \in Tasks(prog), RewriteFuncToLLVM(t) PROVE PortsInv'
  BY <1>10, RewriteKeepsPorts DEF RewriteFuncToLLVM, PortsInv, KernelFields
<1>11. CASE Collect
  <2>1. /\ UNCHANGED <<prog, phase, cur, addr, gen>>
        /\ kernel' = [t \in Tasks(prog) |->
             IF kernel[t].form = "llvm" THEN [kernel[t] EXCEPT !.form = "marker"]
                                        ELSE kernel[t]]
    BY <1>11 DEF Collect, vars, scanState
  <2>2. QED BY <2>1, PortsFollowAddresses DEF PortsInv, Tasks, KernelFields
<1>12. CASE EmitStep
  BY <1>12, AssignKeepsPorts, ImageStep
  DEF EmitStep, EmitSemAlloc, EmitExecute, EmitMemory, PassOver, riscvState
<1>13. CASE UNCHANGED imageVars
  BY <1>13, AssignKeepsPorts DEF imageVars, riscvState
<1>14. QED
  BY <1>1, <1>2, <1>3, <1>4, <1>5, <1>6, <1>7, <1>8, <1>9, <1>10, <1>11, <1>12, <1>13
  DEF ImageNext, RiscvStep

(* Division takes apart what multiplication and addition packed. *)
LEMMA Unpacking ==
  ASSUME NEW n \in Nat \ {0}, NEW x \in Nat, NEW g \in 0 .. n - 1
  PROVE  (x * n + g) \div n = x /\ (x * n + g) % n = g
<1>1. x * n + g \in Nat
  <2>1. x * n \in Nat BY SMT
  <2>2. QED BY <2>1, SMT
<1>2. \A m \in Nat : /\ m \div n \in Nat /\ m % n \in 0 .. n - 1
                     /\ (m \div n) * n + (m % n) = m
  BY SMT
<1>3. DEFINE m == x * n + g
<1>4. /\ m \div n \in Nat /\ m % n \in 0 .. n - 1
      /\ (m \div n) * n + (m % n) = x * n + g
  BY <1>1, <1>2
<1>5. m \div n = x /\ m % n = g
  <2> HIDE DEF m
  <2>1. n \in Nat BY SMT
  <2>2. QED BY <1>4, <2>1, PackingIsUnique
<1>6. QED BY <1>5

(* A port says which counter of which slot and tag it is. *)
LEMMA PortNamesItsCounter ==
  ASSUME FitsWord, NEW s, addr[s] \in Addrs, gen[s] \in 0 .. NumGenerations - 1,
         NEW port \in 0 .. 3
  PROVE  PortMeans(PortAddress(s, port), s, port)
<1>1. RiscvScale = Scale
  BY DEF RiscvScale, Scale, RiscvGenWidth, GenWidth
<1>2. DEFINE x == addr[s] * 4 + port
<1>3. /\ addr[s] \in Nat /\ x \in Nat /\ x % 4 = port /\ x \div 4 = addr[s]
  <2>1. addr[s] \in Nat BY PairsAssumption DEF Addrs
  <2>2. \A a \in Nat : /\ a * 4 + port \in Nat
                       /\ (a * 4 + port) % 4 = port /\ (a * 4 + port) \div 4 = a
    BY SMT
  <2>3. QED BY <2>1, <2>2
<1>4. /\ Scale \in Nat \ {0} /\ gen[s] \in 0 .. Scale - 1
      /\ Fused(s) = addr[s] * Scale + gen[s]
  BY FuseIsPacking DEF Fused
<1> HIDE DEF x
<1>5. PortAddress(s, port) - RiscvSemBase = x * Scale + gen[s]
  <2>1. x * Scale \in Nat BY <1>3, <1>4, SMT
  <2>2. PortAddress(s, port) = RiscvSemBase + x * Scale + gen[s]
    BY <1>1 DEF PortAddress, x
  <2>3. QED BY <1>4, <2>1, <2>2, BaseAssumption, SMT
<1>6. /\ (x * Scale + gen[s]) \div Scale = x
      /\ (x * Scale + gen[s]) % Scale = gen[s]
  BY <1>3, <1>4, Unpacking
<1>7. QED BY <1>3, <1>4, <1>5, <1>6, Zenon DEF PortMeans

(* Whatever the order of the rewrites, the core polls the counters of the   *)
(* slots and tags the stream initialises.                                   *)
THEOREM CorePollsTheStreamsCounters == ImageSpec => []PortsMeetStream
<1>1. TypeOK /\ IInv /\ PortsInv => PortsMeetStream
  <2> SUFFICES ASSUME TypeOK, IInv, PortsInv, FitsWord,
                      NEW t \in Unsupported, NEW j \in DOMAIN kernel[t].ports
               PROVE  LET w == prog.tasks[t].waits[j]
                          side == IF w.side = "acquire" THEN 0 ELSE 2
                      IN /\ PortMeans(kernel[t].ports[j].full, w.sem, side)
                         /\ PortMeans(kernel[t].ports[j].empty, w.sem, side + 1)
    BY DEF PortsMeetStream
  <2>1. t \in Tasks(prog) BY DEF Unsupported
  <2>2. kernel[t].ports # << >> BY SMT
  <2>3. phase = "done" /\ cur = prog.sems + 1 /\ kernel[t].ports = TaskPorts(t)
    BY <2>1, <2>2 DEF PortsInv
  <2>4. j \in DOMAIN prog.tasks[t].waits /\ kernel[t].ports[j] = Ports(prog.tasks[t].waits[j])
    BY <2>3 DEF TaskPorts
  <2> DEFINE w == prog.tasks[t].waits[j]
  <2>5. w.sem \in Sems(prog)
    <3>1. WellFormedBody(prog) BY BodiesAssumption DEF PortsInv
    <3>2. QED BY <2>1, <2>4, <3>1 DEF WellFormedBody
  <2>6. w.sem \in Placed
    BY <2>3, <2>5, ProgramFacts DEF Placed, Sems
  <2>7. addr[w.sem] \in Addrs /\ gen[w.sem] \in 0 .. NumGenerations - 1
    BY <2>5, <2>6 DEF IInv, LastTenant, TypeOK
  <2>8. \A port \in 0 .. 3 : PortMeans(PortAddress(w.sem, port), w.sem, port)
    BY <2>7, PortNamesItsCounter
  <2> DEFINE side == IF w.side = "acquire" THEN 0 ELSE 2
  <2> SUFFICES PortMeans(Ports(w).full, w.sem, side) /\ PortMeans(Ports(w).empty, w.sem, side + 1)
    BY <2>4, Zenon
  <2> HIDE DEF w
  <2>9. CASE w.side = "acquire"
    <3>1. /\ Ports(w).full = PortAddress(w.sem, 0)
          /\ Ports(w).empty = PortAddress(w.sem, 1)
      BY <2>9 DEF Ports
    <3>2. PortMeans(Ports(w).full, w.sem, 0) /\ PortMeans(Ports(w).empty, w.sem, 0 + 1)
      BY <2>8, <3>1
    <3>3. QED BY <3>2, <2>9
  <2>10. CASE w.side # "acquire"
    <3>1. /\ Ports(w).full = PortAddress(w.sem, 2)
          /\ Ports(w).empty = PortAddress(w.sem, 3)
      BY <2>10 DEF Ports
    <3>2. PortMeans(Ports(w).full, w.sem, 2) /\ PortMeans(Ports(w).empty, w.sem, 2 + 1)
      BY <2>8, <3>1
    <3>3. QED BY <3>2, <2>10
  <2>11. QED BY <2>9, <2>10
<1>2. ImageInit => TypeOK /\ IInv /\ PortsInv
  BY InitTypes, InitInv, InitPorts DEF ImageInit
<1>3. TypeOK /\ IInv /\ PortsInv /\ [ImageNext]_imageVars => (TypeOK /\ IInv /\ PortsInv)'
  BY ImageStep, NextTypes, NextInv, StepKeepsPorts
<1>4. QED BY <1>1, <1>2, <1>3, PTL DEF ImageSpec

-----------------------------------------------------------------------------
(* What is left when positions are dropped. *)

(* The members of a set of positions, numbered. *)
LEMMA NthMember ==
  ASSUME NEW n \in Nat, NEW S \in SUBSET (1 .. n)
  PROVE  /\ Cardinality(S) \in Nat
         /\ \A c \in 1 .. Cardinality(S) : Nth(S, c) \in S
         /\ \A c \in 1 .. Cardinality(S) : Cardinality(UpTo(S, Nth(S, c))) = c
         /\ \A i \in S : /\ Cardinality(UpTo(S, i)) \in 1 .. Cardinality(S)
                         /\ Nth(S, Cardinality(UpTo(S, i))) = i
<1>1. Cardinality(S) \in Nat /\ \A i \in S : Cardinality(UpTo(S, i)) \in 1 .. Cardinality(S)
  BY CountsRise
<1>2. ASSUME NEW c \in 1 .. Cardinality(S)
      PROVE  Nth(S, c) \in S /\ Cardinality(UpTo(S, Nth(S, c))) = c
  <2>1. \E i \in S : Cardinality(UpTo(S, i)) = c
    BY CountReached
  <2>2. QED BY <2>1 DEF Nth, UpTo
<1>3. ASSUME NEW i \in S
      PROVE  Nth(S, Cardinality(UpTo(S, i))) = i
  <2>1. PICK c \in 1 .. Cardinality(S) : c = Cardinality(UpTo(S, i))
    BY <1>1
  <2>2. PICK j \in S : j = Nth(S, c) /\ Cardinality(UpTo(S, j)) = c
    BY <1>2
  <2>3. i \in Nat /\ j \in Nat
    OBVIOUS
  <2>4. ~ i < j /\ ~ j < i
    <3>1. \A x, y \in S : x < y => Cardinality(UpTo(S, x)) < Cardinality(UpTo(S, y))
      BY CountsRise
    <3>2. c \in Nat /\ Cardinality(UpTo(S, i)) = c /\ Cardinality(UpTo(S, j)) = c
      BY <1>1, <2>1, <2>2
    <3>3. ~ c < c
      BY <3>2
    <3>4. QED BY <3>1, <3>2, <3>3
  <2>5. QED BY <2>1, <2>2, <2>3, <2>4
<1>4. QED BY <1>1, <1>2, <1>3

(* Where the elements of a sequence stand after the dead positions are gone. *)
Place(n, dead) == [j \in 1 .. Cardinality((1 .. n) \ dead) |-> Nth((1 .. n) \ dead, j)]

(* Every place that is not dead is kept, once, and no other.                *)
LEMMA Places ==
  ASSUME NEW n \in Nat, NEW dead
  PROVE  \E m \in Nat :
           /\ DOMAIN Place(n, dead) = 1 .. m
           /\ \A j \in 1 .. m : Place(n, dead)[j] \in (1 .. n) \ dead
           /\ \A i \in (1 .. n) \ dead : \E j \in 1 .. m : Place(n, dead)[j] = i
           /\ \A i, j \in 1 .. m : Place(n, dead)[i] = Place(n, dead)[j] => i = j
<1>1. PICK S \in SUBSET (1 .. n) : S = (1 .. n) \ dead
  OBVIOUS
<1>2. PICK m \in Nat : m = Cardinality(S)
  BY NthMember
<1>3. Place(n, dead) = [j \in 1 .. m |-> Nth(S, j)]
  BY <1>1, <1>2 DEF Place
<1>4. /\ \A j \in 1 .. m : Nth(S, j) \in S /\ Cardinality(UpTo(S, Nth(S, j))) = j
      /\ \A i \in S : Cardinality(UpTo(S, i)) \in 1 .. m /\ Nth(S, Cardinality(UpTo(S, i))) = i
  BY <1>2, NthMember
<1>5. \A i \in S : \E j \in 1 .. m : Nth(S, j) = i
  BY <1>4
<1>6. \A i, j \in 1 .. m : Nth(S, i) = Nth(S, j) => i = j
  BY <1>4
<1>7. DOMAIN Place(n, dead) = 1 .. m /\ \A j \in 1 .. m : Place(n, dead)[j] = Nth(S, j)
  BY <1>3
<1>8. \A j \in 1 .. m : Place(n, dead)[j] \in (1 .. n) \ dead
  BY <1>1, <1>4, <1>7
<1>9. \A i \in (1 .. n) \ dead : \E j \in 1 .. m : Place(n, dead)[j] = i
  BY <1>1, <1>5, <1>7
<1>10. \A i, j \in 1 .. m : Place(n, dead)[i] = Place(n, dead)[j] => i = j
  BY <1>6, <1>7
<1>11. DOMAIN Place(n, dead) = 1 .. m
  BY <1>7
<1>12. QED BY <1>8, <1>9, <1>10, <1>11, Zenon

(* Sequences of one length lose the same positions. *)
LEMMA KeptPlaces ==
  ASSUME NEW n \in Nat, NEW seq, DOMAIN seq = 1 .. n, NEW dead
  PROVE  Kept(seq, dead) = [j \in DOMAIN Place(n, dead) |-> seq[Place(n, dead)[j]]]
<1>1. PICK m : m = Cardinality((1 .. n) \ dead)
  OBVIOUS
<1>2. Place(n, dead) = [j \in 1 .. m |-> Nth((1 .. n) \ dead, j)]
  BY <1>1 DEF Place
<1>3. Kept(seq, dead) = [j \in 1 .. m |-> seq[Nth((1 .. n) \ dead, j)]]
  BY <1>1 DEF Kept
<1>4. QED BY <1>2, <1>3

(* What is kept was there.                                                  *)
LEMMA KeptTyped ==
  ASSUME NEW V, NEW seq \in Seq(V), NEW dead
  PROVE  /\ Kept(seq, dead) \in Seq(V)
         /\ \A j \in DOMAIN Kept(seq, dead) : \E i \in DOMAIN seq : Kept(seq, dead)[j] = seq[i]
<1>1. PICK n \in Nat : n = Len(seq) /\ DOMAIN seq = 1 .. n
  OBVIOUS
<1>2. PICK m \in Nat :
        /\ DOMAIN Place(n, dead) = 1 .. m
        /\ \A j \in 1 .. m : Place(n, dead)[j] \in (1 .. n) \ dead
  BY Places
<1>3. Kept(seq, dead) = [j \in 1 .. m |-> seq[Place(n, dead)[j]]]
  BY <1>1, <1>2, KeptPlaces
<1>4. \A j \in 1 .. m : Place(n, dead)[j] \in DOMAIN seq /\ seq[Place(n, dead)[j]] \in V
  BY <1>1, <1>2
<1>5. Kept(seq, dead) \in [1 .. m -> V]
  BY <1>3, <1>4
<1>6. Kept(seq, dead) \in Seq(V)
  BY <1>5
<1>7. QED BY <1>3, <1>4, <1>6

-----------------------------------------------------------------------------
(* What a task captures. *)
LEMMA ConcatSeqs ==
  ASSUME NEW V, NEW s \in Seq(V), NEW t \in Seq(V)
  PROVE  /\ s \o t \in Seq(V) /\ Len(s \o t) = Len(s) + Len(t)
         /\ \A i \in DOMAIN (s \o t) :
              \/ i \in DOMAIN s /\ (s \o t)[i] = s[i]
              \/ i - Len(s) \in DOMAIN t /\ (s \o t)[i] = t[i - Len(s)]
OBVIOUS

(* The shape of a sequence.                                                 *)
LEMMA SeqFacts ==
  ASSUME NEW V, NEW s \in Seq(V)
  PROVE  Len(s) \in Nat /\ DOMAIN s = 1 .. Len(s) /\ \A i \in DOMAIN s : s[i] \in V
OBVIOUS

(* What a program tells of a task.                                          *)
LEMMA TaskTyped ==
  ASSUME prog \in Programs, NEW t \in Tasks(prog)
  PROVE  /\ prog.tasks[t] \in TaskType
         /\ prog.tasks[t].payload \in Seq(Values)
         /\ Len(prog.tasks[t].waits) \in Nat
         /\ DOMAIN prog.tasks[t].waits = 1 .. Len(prog.tasks[t].waits)
         /\ \A j \in DOMAIN prog.tasks[t].waits :
              prog.tasks[t].waits[j] \in [side : {"acquire", "require"}, sem : Nat, mem : Nat]
<1>1. WellFormedBody(prog)
  BY BodiesAssumption
<1>2. prog.tasks \in Seq(TaskType)
  BY <1>1 DEF WellFormedBody
<1>3. prog.tasks[t] \in TaskType
  BY <1>2 DEF Tasks
<1>4. /\ prog.tasks[t].payload \in Seq(Values)
      /\ prog.tasks[t].waits \in Seq([side : {"acquire", "require"}, sem : Nat, mem : Nat])
  BY <1>3 DEF TaskType
<1>5. QED BY <1>3, <1>4, SeqFacts

(* A task captures semaphores only if it waits for some.                    *)
LEMMA CapturedTyped ==
  ASSUME prog \in Programs, NEW t \in Tasks(prog)
  PROVE  /\ Captured(t) \in Seq(Values)
         /\ prog.tasks[t].waits = << >> => \A a \in DOMAIN Captured(t) : ParamKind(t, a) # "sem"
<1>1. PICK L \in Nat : L = Len(prog.tasks[t].waits) /\ DOMAIN prog.tasks[t].waits = 1 .. L
  BY TaskTyped
<1>2. PICK ops :
        ops = [i \in 1 .. 2 * L |->
                 IF i % 2 = 1 THEN SemValue(prog.tasks[t].waits[(i + 1) \div 2].sem)
                 ELSE MemValue(prog.tasks[t].waits[(i + 1) \div 2].mem)]
  OBVIOUS
<1>3. Captured(t) = Distinct(ops \o prog.tasks[t].payload)
  BY <1>1, <1>2 DEF Captured
<1>4. ops \in Seq(Values) /\ Len(ops) = 2 * L
  <2>1. \A i \in 1 .. 2 * L : (i + 1) \div 2 \in 1 .. L
    BY SMT
  <2>2. \A j \in 1 .. L : /\ SemValue(prog.tasks[t].waits[j].sem) \in Values
                          /\ MemValue(prog.tasks[t].waits[j].mem) \in Values
    BY <1>1, TaskTyped DEF SemValue, MemValue, Values
  <2>3. 2 * L \in Nat /\ ops \in [1 .. 2 * L -> Values]
    BY <1>2, <2>1, <2>2
  <2>4. QED BY <2>3
<1>5. PICK all \in Seq(Values) : all = ops \o prog.tasks[t].payload
  BY <1>4, TaskTyped, ConcatSeqs
<1>6. /\ Captured(t) \in Seq(Values)
      /\ \A j \in DOMAIN Captured(t) : \E i \in DOMAIN all : Captured(t)[j] = all[i]
  <2>1. PICK dead : Distinct(all) = Kept(all, dead)
    BY DEF Distinct
  <2>2. all \in Seq(Values)
    OBVIOUS
  <2>3. /\ Kept(all, dead) \in Seq(Values)
        /\ \A j \in DOMAIN Kept(all, dead) : \E i \in DOMAIN all : Kept(all, dead)[j] = all[i]
    BY ONLY <2>2, KeptTyped
  <2>4. Captured(t) = Kept(all, dead)
    BY <1>3, <1>5, <2>1
  <2>5. QED BY <2>3, <2>4
<1>7. ASSUME prog.tasks[t].waits = << >>, NEW a \in DOMAIN Captured(t)
      PROVE  ParamKind(t, a) # "sem"
  <2>1. L = 0 /\ Len(ops) = 0
    BY <1>1, <1>4, <1>7
  <2>2. PICK i \in DOMAIN all : Captured(t)[a] = all[i]
    BY <1>6
  <2>3. \E j \in DOMAIN prog.tasks[t].payload : all[i] = prog.tasks[t].payload[j]
    <3>1. DOMAIN ops = {}
      BY <1>4, <2>1
    <3>2. QED BY <1>4, <1>5, <3>1, TaskTyped, ConcatSeqs
  <2>4. WellFormedBody(prog)
    BY BodiesAssumption
  <2>5. \A v \in Range(prog.tasks[t].payload) : Kind(v) # "sem"
    BY <2>4 DEF WellFormedBody
  <2>6. all[i] \in Range(prog.tasks[t].payload)
    BY <2>3 DEF Range
  <2>7. QED BY <2>2, <2>5, <2>6 DEF ParamKind
<1>8. QED BY <1>6, <1>7

-----------------------------------------------------------------------------
(* What the kernels of the tasks look like, form by form.                   *)

(* All positions of what a task captures, those of its semaphores, and the  *)
(* others.                                                                  *)
Plain(t) == [a \in DOMAIN Captured(t) |-> a]
SemArgs(t) == {a \in DOMAIN Captured(t) : ParamKind(t, a) = "sem"}
Data(t) == Kept(Plain(t), SemArgs(t))

(* What a task captures depends on the program alone.                       *)
LEMMA CapturedStays ==
  ASSUME prog' = prog, NEW t
  PROVE  /\ Captured(t)' = Captured(t) /\ Plain(t)' = Plain(t)
         /\ SemArgs(t)' = SemArgs(t) /\ Data(t)' = Data(t)
<1>1. Captured(t)' = Captured(t)
  BY DEF Captured
<1>2. Plain(t)' = Plain(t)
  BY <1>1 DEF Plain
<1>3. SemArgs(t)' = SemArgs(t)
  BY <1>1 DEF SemArgs, ParamKind
<1>4. Data(t)' = Data(t)
  BY <1>2, <1>3 DEF Data
<1>5. QED BY <1>1, <1>2, <1>3, <1>4

(* The data of a task: positions of its captured values, in order.          *)
LEMMA DataPlaces ==
  ASSUME prog \in Programs, NEW t \in Tasks(prog)
  PROVE  \E n, m \in Nat :
           /\ DOMAIN Captured(t) = 1 .. n
           /\ Data(t) = Place(n, SemArgs(t)) /\ DOMAIN Data(t) = 1 .. m
           /\ \A j \in 1 .. m : Data(t)[j] \in (1 .. n) \ SemArgs(t)
           /\ \A a \in (1 .. n) \ SemArgs(t) : \E j \in 1 .. m : Data(t)[j] = a
           /\ \A i, j \in 1 .. m : Data(t)[i] = Data(t)[j] => i = j
<1>1. PICK n \in Nat : DOMAIN Captured(t) = 1 .. n
  BY CapturedTyped, SeqFacts
<1>2. PICK m \in Nat :
        /\ DOMAIN Place(n, SemArgs(t)) = 1 .. m
        /\ \A j \in 1 .. m : Place(n, SemArgs(t))[j] \in (1 .. n) \ SemArgs(t)
        /\ \A a \in (1 .. n) \ SemArgs(t) : \E j \in 1 .. m : Place(n, SemArgs(t))[j] = a
        /\ \A i, j \in 1 .. m : Place(n, SemArgs(t))[i] = Place(n, SemArgs(t))[j] => i = j
  BY Places
<1>3. Data(t) = Place(n, SemArgs(t))
  <2>1. DOMAIN Plain(t) = 1 .. n /\ \A a \in 1 .. n : Plain(t)[a] = a
    BY <1>1 DEF Plain
  <2>2. Data(t) = [j \in DOMAIN Place(n, SemArgs(t)) |-> Plain(t)[Place(n, SemArgs(t))[j]]]
    BY <2>1, KeptPlaces DEF Data
  <2>3. Data(t) = [j \in 1 .. m |-> Place(n, SemArgs(t))[j]]
    BY <1>2, <2>1, <2>2
  <2>4. Place(n, SemArgs(t)) = [j \in 1 .. m |-> Place(n, SemArgs(t))[j]]
    BY <1>2 DEF Place
  <2>5. QED BY <2>3, <2>4, Zenon
<1>4. /\ DOMAIN Data(t) = 1 .. m
      /\ \A j \in 1 .. m : Data(t)[j] \in (1 .. n) \ SemArgs(t)
      /\ \A a \in (1 .. n) \ SemArgs(t) : \E j \in 1 .. m : Data(t)[j] = a
      /\ \A i, j \in 1 .. m : Data(t)[i] = Data(t)[j] => i = j
  BY <1>2, <1>3, Zenon
<1>5. QED BY <1>1, <1>3, <1>4, Zenon

(* What a position of the data stands for. *)
Datum(t, j) == Captured(t)[Data(t)[j]]

Outlined == {"riscv_kernel", "wrapped", "lowered"}
Shortened == {"fixed", "placed"}
Bare == {"no_const", "no_memref", "llvm", "marker"}

(* A sequence of n elements. *)
Listed(s, n) == s = [j \in 1 .. n |-> s[j]]

(* The contents of the kernel of t, in a form.                              *)
Shape(t, k) ==
  /\ k.form \in {"execute", "riscv_execute"} =>
       k.call = << >> /\ k.params = << >> /\ k.inner = << >> /\ k.implParams = << >>
  /\ k.form = "riscv_kernel" => k.inner = << >> /\ k.implParams = << >>
  /\ k.form \in Outlined => k.call = Captured(t) /\ k.params = Plain(t)
  /\ k.form \in {"wrapped", "lowered"} =>
       k.implParams = Plain(t) /\ k.inner = [a \in DOMAIN Captured(t) |-> Arg(a)]
  /\ k.form \in Shortened =>
       k.params = Data(t) /\ k.call = [j \in DOMAIN Data(t) |-> Datum(t, j)]
  /\ k.form \in Shortened \cup Bare => k.implParams = Data(t)
  /\ k.form = "fixed" => k.inner = [j \in DOMAIN Data(t) |-> Arg(Data(t)[j])]
  /\ k.form = "placed" =>
       k.inner = [j \in DOMAIN Data(t) |->
                    IF Kind(Datum(t, j)) = "mem" THEN Datum(t, j) ELSE Arg(Data(t)[j])]
  /\ k.form \in Bare => k.inner = [j \in DOMAIN Data(t) |-> Datum(t, j)]
  /\ k.form \in {"no_const", "no_memref"} =>
       \E n \in Nat : Listed(k.call, n) /\ Listed(k.params, n)
  /\ k.form \in {"lowered"} \cup Shortened \cup Bare =>
       k.ports # << >> \/ prog.tasks[t].waits = << >>

FormNames == {"execute", "riscv_execute"} \cup Outlined \cup Shortened \cup Bare

KernelInv ==
  /\ counter \in Nat
  /\ \A t \in Tasks(prog) :
       /\ kernel[t].form \in FormNames
       /\ t \notin Unsupported => kernel[t].form = "execute"
       /\ Shape(t, kernel[t])
       /\ kernel[t].sym \in NoSym .. counter - 1
  /\ \A t, u \in Tasks(prog) : kernel[t].sym = kernel[u].sym => t = u \/ kernel[t].sym = NoSym

(* A kernel in shape stays in shape while it is not rewritten.              *)
LEMMA ShapeStays ==
  ASSUME prog' = prog, NEW t, Shape(t, kernel'[t])
  PROVE  Shape(t, kernel[t])'
BY CapturedStays DEF Shape, Datum

(* At the start every kernel is still an eaac.execute.                      *)
LEMMA InitKernels == ImageInit => KernelInv
<1> SUFFICES ASSUME ImageInit PROVE KernelInv
  OBVIOUS
<1>1. /\ counter = 0
      /\ \A t \in Tasks(prog) :
           /\ kernel[t].form = "execute" /\ kernel[t].sym = NoSym
           /\ kernel[t].call = << >> /\ kernel[t].params = << >>
           /\ kernel[t].inner = << >> /\ kernel[t].implParams = << >>
  BY DEF ImageInit
<1>2. \A t \in Tasks(prog) : Shape(t, kernel[t])
  BY <1>1 DEF Shape, Outlined, Shortened, Bare
<1>3. QED BY <1>1, <1>2 DEF KernelInv, FormNames, NoSym

(* A step that leaves the kernels, or rewrites one of them in shape. *)
LEMMA SameKernels ==
  ASSUME KernelInv, prog' = prog, kernel' = kernel, counter' = counter
  PROVE  KernelInv'
<1>1. \A t \in Tasks(prog) : Shape(t, kernel[t])'
  BY ShapeStays DEF KernelInv
<1>2. Unsupported' = Unsupported /\ Tasks(prog)' = Tasks(prog)
  BY DEF Unsupported, Tasks
<1>3. QED BY <1>1, <1>2 DEF KernelInv

(* One kernel is rewritten in shape, with its symbol or a new one.          *)
LEMMA OneKernel ==
  ASSUME KernelInv, PortsInv, prog' = prog, NEW t \in Unsupported, NEW k,
         kernel' = [kernel EXCEPT ![t] = k], Shape(t, k), k.form \in FormNames,
         \/ counter' = counter /\ k.sym = kernel[t].sym
         \/ counter' = counter + 1 /\ k.sym = counter
  PROVE  KernelInv'
<1>1. Unsupported' = Unsupported /\ Tasks(prog)' = Tasks(prog) /\ t \in Tasks(prog)
  BY DEF Unsupported, Tasks
<1>2. kernel'[t] = k /\ \A u \in Tasks(prog) : u # t => kernel'[u] = kernel[u]
  BY <1>1 DEF PortsInv
<1>3. \A u \in Tasks(prog) : Shape(u, kernel'[u])
  BY <1>2 DEF KernelInv
<1>4. \A u \in Tasks(prog) : Shape(u, kernel[u])'
  BY <1>3, ShapeStays
<1>5. \A u \in Tasks(prog) : /\ kernel'[u].form \in FormNames
                             /\ u \notin Unsupported => kernel'[u].form = "execute"
  BY <1>1, <1>2 DEF KernelInv
<1>6. counter' \in Nat /\ \A u \in Tasks(prog) : kernel'[u].sym \in NoSym .. counter' - 1
  BY <1>1, <1>2 DEF KernelInv, NoSym
<1>7. \A u, v \in Tasks(prog) :
        kernel'[u].sym = kernel'[v].sym => u = v \/ kernel'[u].sym = NoSym
  BY <1>1, <1>2 DEF KernelInv, NoSym
<1>8. QED BY <1>1, <1>4, <1>5, <1>6, <1>7 DEF KernelInv

-----------------------------------------------------------------------------
(* Each rewrite, given the kernel in shape, leaves it in shape.             *)

(* Only the empty sequence has no elements.                                 *)
LEMMA EmptySeqIs ==
  ASSUME NEW V, NEW s \in Seq(V), Len(s) = 0
  PROVE  s = << >>
OBVIOUS

(* What every rewrite does.                                                 *)
LEMMA RewriteIs ==
  ASSUME PortsInv, NEW t \in Tasks(prog), NEW from, NEW k, Rewrite(t, from, k)
  PROVE  /\ prog' = prog /\ counter' = counter /\ t \in Unsupported
         /\ kernel[t].form = from /\ kernel' = [kernel EXCEPT ![t] = k]
         /\ DOMAIN kernel[t] = KernelFields
BY DEF Rewrite, vars, PortsInv

(* Legalisation gives a kernel a symbol no other has.                       *)
LEMMA LegalizeShapes ==
  ASSUME PortsInv, KernelInv, NEW t \in Tasks(prog), Legalize(t)
  PROVE  KernelInv'
<1>1. /\ prog' = prog /\ t \in Unsupported /\ kernel[t].form = "execute"
      /\ counter' = counter + 1 /\ Shape(t, kernel[t]) /\ DOMAIN kernel[t] = KernelFields
  BY DEF Legalize, vars, KernelInv, PortsInv
<1>2. PICK k : k = [kernel[t] EXCEPT !.form = "riscv_execute", !.sym = counter]
  OBVIOUS
<1>3. kernel' = [kernel EXCEPT ![t] = k]
  BY <1>2, Zenon DEF Legalize
<1>4. /\ k.form = "riscv_execute" /\ k.sym = counter
      /\ k.call = kernel[t].call /\ k.params = kernel[t].params
      /\ k.inner = kernel[t].inner /\ k.implParams = kernel[t].implParams
  BY <1>1, <1>2 DEF KernelFields
<1>5. Shape(t, k)
  BY <1>1, <1>4 DEF Shape, Outlined, Shortened, Bare
<1>6. k.form \in FormNames
  BY <1>4 DEF FormNames
<1>7. QED BY <1>1, <1>3, <1>4, <1>5, <1>6, OneKernel

(* Outlining passes everything captured, position by position.              *)
LEMMA OutlineShapes ==
  ASSUME PortsInv, KernelInv, NEW t \in Tasks(prog), Outline(t)
  PROVE  KernelInv'
<1>1. PICK k : /\ k = [kernel[t] EXCEPT !.form = "riscv_kernel", !.call = Captured(t),
                                        !.params = [i \in DOMAIN Captured(t) |-> i]]
               /\ Rewrite(t, "riscv_execute", k)
  BY DEF Outline
<1>2. /\ prog' = prog /\ counter' = counter /\ t \in Unsupported
      /\ kernel[t].form = "riscv_execute" /\ kernel' = [kernel EXCEPT ![t] = k]
      /\ DOMAIN kernel[t] = KernelFields
  BY <1>1, RewriteIs
<1>3. /\ k.form = "riscv_kernel" /\ k.sym = kernel[t].sym
      /\ k.call = Captured(t) /\ k.params = Plain(t)
      /\ k.inner = kernel[t].inner /\ k.implParams = kernel[t].implParams
  BY <1>1, <1>2 DEF KernelFields, Plain
<1>4. Shape(t, kernel[t])
  BY DEF KernelInv
<1>5. Shape(t, k)
  BY <1>2, <1>3, <1>4 DEF Shape, Outlined, Shortened, Bare
<1>6. k.form \in FormNames
  BY <1>3 DEF FormNames, Outlined
<1>7. QED BY <1>2, <1>3, <1>5, <1>6, OneKernel

(* The wrapper passes every argument on.                                    *)
LEMMA WrapShapes ==
  ASSUME PortsInv, KernelInv, NEW t \in Tasks(prog), Wrap(t)
  PROVE  KernelInv'
<1>1. PICK k :
        /\ k = [kernel[t] EXCEPT !.form = "wrapped", !.implParams = kernel[t].params,
                  !.inner = [i \in DOMAIN kernel[t].params |-> Arg(kernel[t].params[i])]]
        /\ Rewrite(t, "riscv_kernel", k)
  BY DEF Wrap
<1>2. /\ prog' = prog /\ counter' = counter /\ t \in Unsupported
      /\ kernel[t].form = "riscv_kernel" /\ kernel' = [kernel EXCEPT ![t] = k]
      /\ DOMAIN kernel[t] = KernelFields
  BY <1>1, RewriteIs
<1>3. kernel[t].call = Captured(t) /\ kernel[t].params = Plain(t)
  BY <1>2 DEF KernelInv, Shape, Outlined
<1>4. /\ k.form = "wrapped" /\ k.sym = kernel[t].sym
      /\ k.call = kernel[t].call /\ k.params = kernel[t].params
      /\ k.implParams = kernel[t].params
      /\ k.inner = [i \in DOMAIN kernel[t].params |-> Arg(kernel[t].params[i])]
  BY <1>1, <1>2 DEF KernelFields
<1>5. k.inner = [a \in DOMAIN Captured(t) |-> Arg(a)]
  BY <1>3, <1>4 DEF Plain
<1>6. Shape(t, k)
  BY <1>3, <1>4, <1>5 DEF Shape, Outlined, Shortened, Bare
<1>7. k.form \in FormNames
  BY <1>4 DEF FormNames, Outlined
<1>8. QED BY <1>2, <1>4, <1>6, <1>7, OneKernel

(* A kernel that waits gets ports.                                          *)
LEMMA LowerSyncShapes ==
  ASSUME PortsInv, KernelInv, NEW t \in Tasks(prog), LowerSync(t)
  PROVE  KernelInv'
<1>1. PICK k :
        /\ k = [kernel[t] EXCEPT !.form = "lowered",
                  !.ports = [j \in DOMAIN prog.tasks[t].waits |->
                               Ports(prog.tasks[t].waits[j])]]
        /\ Rewrite(t, "wrapped", k)
  BY DEF LowerSync
<1>2. /\ prog' = prog /\ counter' = counter /\ t \in Unsupported
      /\ kernel[t].form = "wrapped" /\ kernel' = [kernel EXCEPT ![t] = k]
      /\ DOMAIN kernel[t] = KernelFields
  BY <1>1, RewriteIs
<1>3. Shape(t, kernel[t])
  BY DEF KernelInv
<1>4. /\ k.form = "lowered" /\ k.sym = kernel[t].sym
      /\ k.call = kernel[t].call /\ k.params = kernel[t].params
      /\ k.implParams = kernel[t].implParams /\ k.inner = kernel[t].inner
      /\ DOMAIN k.ports = DOMAIN prog.tasks[t].waits
  BY <1>1, <1>2 DEF KernelFields
<1>5. k.ports # << >> \/ prog.tasks[t].waits = << >>
  <2>1. PICK L \in Nat : DOMAIN prog.tasks[t].waits = 1 .. L /\ L = Len(prog.tasks[t].waits)
    BY TaskTyped, PortsInv DEF PortsInv
  <2>2. CASE L = 0
    <3>1. prog.tasks[t].waits = << >>
      <4>1. prog.tasks[t].waits \in Seq([side : {"acquire", "require"}, sem : Nat, mem : Nat])
        BY TaskTyped DEF PortsInv, TaskType
      <4>2. QED BY ONLY <2>1, <2>2, <4>1, EmptySeqIs
    <3>2. QED BY <3>1
  <2>3. CASE L # 0
    <3>1. 1 \in DOMAIN k.ports
      BY <1>4, <2>1, <2>3
    <3>2. QED BY <3>1
  <2>4. QED BY <2>2, <2>3
<1>6. Shape(t, k)
  BY <1>2, <1>3, <1>4, <1>5 DEF Shape, Outlined, Shortened, Bare
<1>7. k.form \in FormNames
  BY <1>4 DEF FormNames, Outlined
<1>8. QED BY <1>2, <1>4, <1>6, <1>7, OneKernel

(* Call, wrapper and implementation lose the same positions.                *)
LEMMA FixSignatureShapes ==
  ASSUME PortsInv, KernelInv, NEW t \in Tasks(prog), FixSignature(t)
  PROVE  KernelInv'
<1>1. PICK dead, k :
        /\ dead = {i \in DOMAIN kernel[t].implParams :
                     ParamKind(t, kernel[t].implParams[i]) = "sem"}
        /\ k = [kernel[t] EXCEPT !.form = "fixed",
                  !.call = Kept(kernel[t].call, dead), !.params = Kept(kernel[t].params, dead),
                  !.inner = Kept(kernel[t].inner, dead),
                  !.implParams = Kept(kernel[t].implParams, dead)]
        /\ Rewrite(t, "lowered", k)
  BY DEF FixSignature
<1>2. /\ prog' = prog /\ counter' = counter /\ t \in Unsupported
      /\ kernel[t].form = "lowered" /\ kernel' = [kernel EXCEPT ![t] = k]
      /\ DOMAIN kernel[t] = KernelFields
  BY <1>1, RewriteIs
<1>3. /\ kernel[t].call = Captured(t) /\ kernel[t].params = Plain(t)
      /\ kernel[t].implParams = Plain(t)
      /\ kernel[t].inner = [a \in DOMAIN Captured(t) |-> Arg(a)]
      /\ kernel[t].ports # << >> \/ prog.tasks[t].waits = << >>
  BY <1>2 DEF KernelInv, Shape, Outlined
<1>4. dead = SemArgs(t)
  BY <1>1, <1>3 DEF Plain, SemArgs
<1>5. /\ k.form = "fixed" /\ k.sym = kernel[t].sym /\ k.ports = kernel[t].ports
      /\ k.call = Kept(Captured(t), SemArgs(t)) /\ k.params = Data(t)
      /\ k.implParams = Data(t)
      /\ k.inner = Kept([a \in DOMAIN Captured(t) |-> Arg(a)], SemArgs(t))
  BY <1>1, <1>2, <1>3, <1>4 DEF KernelFields, Data
<1>6. PICK n, m \in Nat :
        /\ DOMAIN Captured(t) = 1 .. n
        /\ Data(t) = Place(n, SemArgs(t)) /\ DOMAIN Data(t) = 1 .. m
        /\ \A j \in 1 .. m : Data(t)[j] \in (1 .. n) \ SemArgs(t)
  BY DataPlaces DEF PortsInv
<1>7. k.call = [j \in DOMAIN Data(t) |-> Datum(t, j)]
  BY <1>5, <1>6, KeptPlaces DEF Datum
<1>8. k.inner = [j \in DOMAIN Data(t) |-> Arg(Data(t)[j])]
  <2>1. PICK args : args = [a \in DOMAIN Captured(t) |-> Arg(a)]
    OBVIOUS
  <2>2. DOMAIN args = 1 .. n /\ \A a \in 1 .. n : args[a] = Arg(a)
    BY <1>6, <2>1
  <2>3. Kept(args, SemArgs(t)) = [j \in DOMAIN Data(t) |-> args[Data(t)[j]]]
    BY <1>6, <2>2, KeptPlaces
  <2>4. QED BY <1>5, <1>6, <2>1, <2>2, <2>3
<1>9. Shape(t, k)
  BY <1>3, <1>5, <1>7, <1>8 DEF Shape, Outlined, Shortened, Bare
<1>10. k.form \in FormNames
  BY <1>5 DEF FormNames, Shortened
<1>11. QED BY <1>2, <1>5, <1>9, <1>10, OneKernel

(* Addresses take the place of the memrefs passed on.                       *)
LEMMA LowerMemrefShapes ==
  ASSUME PortsInv, KernelInv, NEW t \in Tasks(prog), LowerMemref(t)
  PROVE  KernelInv'
<1>1. PICK k :
        /\ k = [kernel[t] EXCEPT !.form = "placed",
                  !.inner = [i \in DOMAIN kernel[t].inner |->
                     IF ParamKind(t, Id(kernel[t].inner[i])) = "mem"
                       THEN Captured(t)[Id(kernel[t].inner[i])] ELSE kernel[t].inner[i]]]
        /\ Rewrite(t, "fixed", k)
  BY DEF LowerMemref
<1>2. /\ prog' = prog /\ counter' = counter /\ t \in Unsupported
      /\ kernel[t].form = "fixed" /\ kernel' = [kernel EXCEPT ![t] = k]
      /\ DOMAIN kernel[t] = KernelFields
  BY <1>1, RewriteIs
<1>3. /\ kernel[t].params = Data(t) /\ kernel[t].call = [j \in DOMAIN Data(t) |-> Datum(t, j)]
      /\ kernel[t].implParams = Data(t)
      /\ kernel[t].inner = [j \in DOMAIN Data(t) |-> Arg(Data(t)[j])]
      /\ kernel[t].ports # << >> \/ prog.tasks[t].waits = << >>
  BY <1>2 DEF KernelInv, Shape, Shortened
<1>4. /\ k.form = "placed" /\ k.sym = kernel[t].sym /\ k.ports = kernel[t].ports
      /\ k.call = kernel[t].call /\ k.params = kernel[t].params
      /\ k.implParams = kernel[t].implParams
      /\ k.inner = [i \in DOMAIN kernel[t].inner |->
                     IF ParamKind(t, Id(kernel[t].inner[i])) = "mem"
                       THEN Captured(t)[Id(kernel[t].inner[i])] ELSE kernel[t].inner[i]]
  BY <1>1, <1>2 DEF KernelFields
<1>5. k.inner = [j \in DOMAIN Data(t) |->
                   IF Kind(Datum(t, j)) = "mem" THEN Datum(t, j) ELSE Arg(Data(t)[j])]
  <2>1. \A a : Id(Arg(a)) = a
    BY DEF Id, Arg
  <2>2. DOMAIN kernel[t].inner = DOMAIN Data(t)
    BY <1>3
  <2>3. \A j \in DOMAIN Data(t) :
          /\ kernel[t].inner[j] = Arg(Data(t)[j])
          /\ ParamKind(t, Id(kernel[t].inner[j])) = Kind(Datum(t, j))
          /\ Captured(t)[Id(kernel[t].inner[j])] = Datum(t, j)
    BY <1>3, <2>1 DEF ParamKind, Datum
  <2>4. QED BY <1>4, <2>2, <2>3
<1>6. Shape(t, k)
  BY <1>3, <1>4, <1>5 DEF Shape, Outlined, Shortened, Bare
<1>7. k.form \in FormNames
  BY <1>4 DEF FormNames, Shortened
<1>8. QED BY <1>2, <1>4, <1>6, <1>7, OneKernel

(* What is left once the semaphores are gone is a memref or a constant.     *)
LEMMA DatumKind ==
  ASSUME prog \in Programs, NEW t \in Tasks(prog), NEW j \in DOMAIN Data(t)
  PROVE  Kind(Datum(t, j)) \in {"mem", "const"}
<1>1. PICK n, m \in Nat :
        /\ DOMAIN Captured(t) = 1 .. n /\ DOMAIN Data(t) = 1 .. m
        /\ \A i \in 1 .. m : Data(t)[i] \in (1 .. n) \ SemArgs(t)
  BY DataPlaces
<1>2. Data(t)[j] \in DOMAIN Captured(t) /\ Data(t)[j] \notin SemArgs(t)
  BY <1>1
<1>3. Datum(t, j) \in Values
  BY <1>2, CapturedTyped, SeqFacts DEF Datum
<1>4. Kind(Datum(t, j)) # "sem"
  BY <1>2 DEF SemArgs, ParamKind, Datum
<1>5. QED BY <1>3, <1>4 DEF Values, Kind

(* Constants take the place of the arguments they were passed as.           *)
LEMMA CopyConstantsShapes ==
  ASSUME PortsInv, KernelInv, NEW t \in Tasks(prog), CopyConstants(t)
  PROVE  KernelInv'
<1>1. PICK const, copied, k :
        /\ const = {i \in DOMAIN kernel[t].params : Kind(kernel[t].call[i]) = "const"}
        /\ copied = [j \in DOMAIN kernel[t].inner |->
             IF \E i \in const : kernel[t].inner[j] = Arg(kernel[t].params[i])
               THEN kernel[t].call[CHOOSE i \in const :
                                     kernel[t].inner[j] = Arg(kernel[t].params[i])]
               ELSE kernel[t].inner[j]]
        /\ k = [kernel[t] EXCEPT !.form = "no_const", !.call = Kept(kernel[t].call, const),
                  !.params = Kept(kernel[t].params, const), !.inner = copied]
        /\ Rewrite(t, "placed", k)
  BY DEF CopyConstants
<1>2. /\ prog' = prog /\ counter' = counter /\ t \in Unsupported
      /\ kernel[t].form = "placed" /\ kernel' = [kernel EXCEPT ![t] = k]
      /\ DOMAIN kernel[t] = KernelFields
  <2>1. Rewrite(t, "placed", k)
    BY <1>1
  <2>2. QED BY ONLY <2>1, PortsInv, t \in Tasks(prog), RewriteIs
<1>3. /\ kernel[t].params = Data(t) /\ kernel[t].call = [j \in DOMAIN Data(t) |-> Datum(t, j)]
      /\ kernel[t].implParams = Data(t)
      /\ kernel[t].inner = [j \in DOMAIN Data(t) |->
            IF Kind(Datum(t, j)) = "mem" THEN Datum(t, j) ELSE Arg(Data(t)[j])]
      /\ kernel[t].ports # << >> \/ prog.tasks[t].waits = << >>
  BY <1>2 DEF KernelInv, Shape, Shortened
<1>4. /\ k.form = "no_const" /\ k.sym = kernel[t].sym /\ k.ports = kernel[t].ports
      /\ k.implParams = kernel[t].implParams /\ k.inner = copied
      /\ k.call = Kept(kernel[t].call, const) /\ k.params = Kept(kernel[t].params, const)
  BY <1>1, <1>2 DEF KernelFields
<1>5. PICK m \in Nat :
        /\ DOMAIN Data(t) = 1 .. m
        /\ \A i, j \in 1 .. m : Data(t)[i] = Data(t)[j] => i = j
  BY DataPlaces DEF PortsInv
<1>6. copied = [j \in DOMAIN Data(t) |-> Datum(t, j)]
  <2>1. const = {i \in DOMAIN Data(t) : Kind(Datum(t, i)) = "const"}
    BY <1>1, <1>3
  <2>2. \A x, y : Arg(x) = Arg(y) => x = y
    BY DEF Arg
  <2>3. \A x : Kind(Arg(x)) = "arg"
    BY DEF Kind, Arg
  <2>4. ASSUME NEW j \in DOMAIN Data(t)
        PROVE  copied[j] = Datum(t, j)
    <3>1. copied[j] = IF \E i \in const : kernel[t].inner[j] = Arg(Data(t)[i])
                        THEN kernel[t].call[CHOOSE i \in const :
                                              kernel[t].inner[j] = Arg(Data(t)[i])]
                        ELSE kernel[t].inner[j]
      BY <1>1, <1>3
    <3>2. CASE Kind(Datum(t, j)) = "mem"
      <4>1. kernel[t].inner[j] = Datum(t, j)
        BY <1>3, <3>2
      <4>2. ~ \E i \in const : kernel[t].inner[j] = Arg(Data(t)[i])
        BY <2>3, <3>2, <4>1
      <4>3. QED BY <3>1, <4>1, <4>2
    <3>3. CASE Kind(Datum(t, j)) = "const"
      <4>1. kernel[t].inner[j] = Arg(Data(t)[j]) /\ j \in const
        BY <1>3, <2>1, <3>3
      <4>2. \A i \in const : kernel[t].inner[j] = Arg(Data(t)[i]) => i = j
        BY <1>5, <2>1, <2>2, <4>1
      <4>3. (CHOOSE i \in const : kernel[t].inner[j] = Arg(Data(t)[i])) = j
        BY <4>1, <4>2
      <4>4. QED BY <1>3, <3>1, <4>1, <4>3
    <3>4. QED BY <3>2, <3>3, DatumKind DEF PortsInv
  <2>5. QED BY <1>1, <1>3, <2>4
<1>7. \E n \in Nat : Listed(k.call, n) /\ Listed(k.params, n)
  <2>1. DOMAIN kernel[t].call = 1 .. m /\ DOMAIN kernel[t].params = 1 .. m
    BY <1>3, <1>5
  <2>2. PICK n \in Nat : DOMAIN Place(m, const) = 1 .. n
    BY Places
  <2>3. Listed(k.call, n)
    BY <1>4, <2>1, <2>2, KeptPlaces DEF Listed
  <2>4. Listed(k.params, n)
    BY <1>4, <2>1, <2>2, KeptPlaces DEF Listed
  <2>5. QED BY <2>3, <2>4
<1>8. Shape(t, k)
  BY <1>3, <1>4, <1>6, <1>7 DEF Shape, Outlined, Shortened, Bare
<1>9. k.form \in FormNames
  BY <1>4 DEF FormNames, Bare
<1>10. QED BY <1>2, <1>4, <1>8, <1>9, OneKernel

(* Arguments of the wrapper alone are dropped.                              *)
LEMMA RemoveMemrefArgsShapes ==
  ASSUME PortsInv, KernelInv, NEW t \in Tasks(prog), RemoveMemrefArgs(t)
  PROVE  KernelInv'
<1>1. PICK unused, k :
        /\ k = [kernel[t] EXCEPT !.form = "no_memref", !.call = Kept(kernel[t].call, unused),
                  !.params = Kept(kernel[t].params, unused)]
        /\ Rewrite(t, "no_const", k)
  BY DEF RemoveMemrefArgs
<1>2. /\ prog' = prog /\ counter' = counter /\ t \in Unsupported
      /\ kernel[t].form = "no_const" /\ kernel' = [kernel EXCEPT ![t] = k]
      /\ DOMAIN kernel[t] = KernelFields
  BY <1>1, RewriteIs
<1>3. /\ kernel[t].implParams = Data(t)
      /\ kernel[t].inner = [j \in DOMAIN Data(t) |-> Datum(t, j)]
      /\ kernel[t].ports # << >> \/ prog.tasks[t].waits = << >>
      /\ \E n \in Nat : Listed(kernel[t].call, n) /\ Listed(kernel[t].params, n)
  BY <1>2 DEF KernelInv, Shape, Bare
<1>4. /\ k.form = "no_memref" /\ k.sym = kernel[t].sym /\ k.ports = kernel[t].ports
      /\ k.implParams = kernel[t].implParams /\ k.inner = kernel[t].inner
      /\ k.call = Kept(kernel[t].call, unused) /\ k.params = Kept(kernel[t].params, unused)
  BY <1>1, <1>2 DEF KernelFields
<1>5. \E n \in Nat : Listed(k.call, n) /\ Listed(k.params, n)
  <2>1. PICK m \in Nat : DOMAIN kernel[t].call = 1 .. m /\ DOMAIN kernel[t].params = 1 .. m
    BY <1>3 DEF Listed
  <2>2. PICK n \in Nat : DOMAIN Place(m, unused) = 1 .. n
    BY Places
  <2>3. Listed(k.call, n)
    BY <1>4, <2>1, <2>2, KeptPlaces DEF Listed
  <2>4. Listed(k.params, n)
    BY <1>4, <2>1, <2>2, KeptPlaces DEF Listed
  <2>5. QED BY <2>3, <2>4
<1>6. Shape(t, k)
  BY <1>3, <1>4, <1>5 DEF Shape, Outlined, Shortened, Bare
<1>7. k.form \in FormNames
  BY <1>4 DEF FormNames, Bare
<1>8. QED BY <1>2, <1>4, <1>6, <1>7, OneKernel

(* By the time all operands are dropped, none is needed.                    *)
LEMMA RewriteFuncToLLVMShapes ==
  ASSUME PortsInv, KernelInv, NEW t \in Tasks(prog), RewriteFuncToLLVM(t)
  PROVE  KernelInv'
<1>1. PICK k :
        /\ k = [kernel[t] EXCEPT !.form = "llvm", !.call = << >>]
        /\ Rewrite(t, "no_memref", k)
  BY DEF RewriteFuncToLLVM
<1>2. /\ prog' = prog /\ counter' = counter /\ t \in Unsupported
      /\ kernel[t].form = "no_memref" /\ kernel' = [kernel EXCEPT ![t] = k]
      /\ DOMAIN kernel[t] = KernelFields
  BY <1>1, RewriteIs
<1>3. Shape(t, kernel[t])
  BY DEF KernelInv
<1>4. /\ k.form = "llvm" /\ k.sym = kernel[t].sym /\ k.ports = kernel[t].ports
      /\ k.implParams = kernel[t].implParams /\ k.inner = kernel[t].inner
  BY <1>1, <1>2 DEF KernelFields
<1>5. Shape(t, k)
  BY <1>2, <1>3, <1>4 DEF Shape, Outlined, Shortened, Bare
<1>6. k.form \in FormNames
  BY <1>4 DEF FormNames, Bare
<1>7. QED BY <1>2, <1>4, <1>5, <1>6, OneKernel

(* Main is made of the kernels that are done.                               *)
LEMMA CollectShapes ==
  ASSUME PortsInv, KernelInv, Collect
  PROVE  KernelInv'
<1>1. /\ prog' = prog /\ counter' = counter
      /\ kernel' = [t \in Tasks(prog) |->
           IF kernel[t].form = "llvm" THEN [kernel[t] EXCEPT !.form = "marker"] ELSE kernel[t]]
  BY DEF Collect, vars
<1>2. Unsupported' = Unsupported /\ Tasks(prog)' = Tasks(prog)
  BY <1>1 DEF Unsupported, Tasks
<1>3. ASSUME NEW t \in Tasks(prog)
      PROVE  /\ Shape(t, kernel'[t]) /\ kernel'[t].form \in FormNames
             /\ t \notin Unsupported => kernel'[t].form = "execute"
             /\ kernel'[t].sym = kernel[t].sym
  <2>1. CASE kernel[t].form = "llvm"
    <3>1. kernel'[t] = [kernel[t] EXCEPT !.form = "marker"] /\ DOMAIN kernel[t] = KernelFields
      BY <1>1, <2>1 DEF PortsInv
    <3>2. /\ kernel'[t].form = "marker" /\ kernel'[t].sym = kernel[t].sym
          /\ kernel'[t].implParams = kernel[t].implParams /\ kernel'[t].inner = kernel[t].inner
          /\ kernel'[t].ports = kernel[t].ports
      BY <3>1 DEF KernelFields
    <3>3. Shape(t, kernel[t]) /\ t \in Unsupported
      BY <2>1 DEF KernelInv
    <3>4. Shape(t, kernel'[t])
      BY <2>1, <3>2, <3>3 DEF Shape, Outlined, Shortened, Bare
    <3>5. kernel'[t].form \in FormNames
      BY <3>2 DEF FormNames, Bare
    <3>6. QED BY <3>2, <3>3, <3>4, <3>5
  <2>2. CASE kernel[t].form # "llvm"
    <3>1. kernel'[t] = kernel[t]
      BY <1>1, <2>2
    <3>2. QED BY <3>1 DEF KernelInv
  <2>3. QED BY <2>1, <2>2
<1>4. \A t \in Tasks(prog) : Shape(t, kernel[t])'
  BY <1>1, <1>3, ShapeStays
<1>5. /\ \A t \in Tasks(prog) : kernel'[t].sym \in NoSym .. counter' - 1
      /\ \A t, u \in Tasks(prog) : kernel'[t].sym = kernel'[u].sym => t = u \/ kernel'[t].sym = NoSym
  BY <1>1, <1>3 DEF KernelInv
<1>6. QED BY <1>1, <1>2, <1>3, <1>4, <1>5 DEF KernelInv

(* Whatever is rewritten next, every kernel stays in shape.                 *)
LEMMA StepKeepsKernels ==
  ASSUME PortsInv, KernelInv, [ImageNext]_imageVars
  PROVE  KernelInv'
<1>1. CASE AssignAddresses
  <2>1. prog' = prog /\ kernel' = kernel /\ counter' = counter
    BY <1>1 DEF AssignAddresses, riscvState, Next, VisitAlloc, VisitDeallocs, AssignFresh,
                AssignRecycled, OutOfAddresses, Annotate, Assign
  <2>2. QED BY <2>1, SameKernels
<1>2. CASE RiscvStep
  BY <1>2, LegalizeShapes, OutlineShapes, WrapShapes, LowerSyncShapes, FixSignatureShapes,
     LowerMemrefShapes, CopyConstantsShapes, RemoveMemrefArgsShapes, RewriteFuncToLLVMShapes,
     CollectShapes DEF RiscvStep
<1>3. CASE EmitStep
  <2>1. prog' = prog /\ kernel' = kernel /\ counter' = counter
    BY <1>3 DEF EmitStep, EmitSemAlloc, EmitExecute, EmitMemory, PassOver, riscvState, vars
  <2>2. QED BY <2>1, SameKernels
<1>4. CASE UNCHANGED imageVars
  <2>1. prog' = prog /\ kernel' = kernel /\ counter' = counter
    BY <1>4 DEF imageVars, riscvState, vars
  <2>2. QED BY <2>1, SameKernels
<1>5. QED BY <1>1, <1>2, <1>3, <1>4 DEF ImageNext

(* A kernel in shape resolves every position of what its task captured.     *)
LEMMA InShapeResolves ==
  ASSUME prog \in Programs, NEW t \in Tasks(prog), NEW a \in DOMAIN Captured(t),
         Shape(t, kernel[t]), kernel[t].form \in FormNames \ {"execute", "riscv_execute"}
  PROVE  \/ Resolved(t, a) = Captured(t)[a]
         \/ ParamKind(t, a) = "sem" /\ kernel[t].ports # << >>
<1>1. PICK k : k = kernel[t]
  OBVIOUS
<1>2. PICK n, m \in Nat :
        /\ DOMAIN Captured(t) = 1 .. n /\ DOMAIN Data(t) = 1 .. m
        /\ \A j \in 1 .. m : Data(t)[j] \in (1 .. n) \ SemArgs(t)
        /\ \A b \in (1 .. n) \ SemArgs(t) : \E j \in 1 .. m : Data(t)[j] = b
        /\ \A i, j \in 1 .. m : Data(t)[i] = Data(t)[j] => i = j
  BY DataPlaces, Zenon
<1>3. BoundTo(Captured(t), Plain(t), a) = Captured(t)[a]
  <2>1. \A i \in DOMAIN Captured(t) : Plain(t)[i] = i
    BY DEF Plain
  <2>2. (CHOOSE i \in DOMAIN Captured(t) : Plain(t)[i] = a) = a
    BY <2>1
  <2>3. QED BY <2>1, <2>2 DEF BoundTo
<1>4. \A x : Kind(Arg(x)) = "arg" /\ Id(Arg(x)) = x
  BY DEF Kind, Arg, Id
<1>5. CASE k.form = "riscv_kernel"
  BY <1>1, <1>3, <1>5 DEF Resolved, Shape, Outlined
<1>6. CASE k.form \in {"wrapped", "lowered"}
  <2>1. /\ k.call = Captured(t) /\ k.params = Plain(t) /\ k.implParams = Plain(t)
        /\ k.inner = [b \in DOMAIN Captured(t) |-> Arg(b)]
    BY <1>1, <1>6 DEF Shape, Outlined
  <2>2. BoundTo(k.inner, k.implParams, a) = Arg(a)
    <3>1. \A i \in DOMAIN Captured(t) : Plain(t)[i] = i
      BY DEF Plain
    <3>2. (CHOOSE i \in DOMAIN k.inner : Plain(t)[i] = a) = a
      BY <2>1, <3>1
    <3>3. QED BY <2>1, <3>1, <3>2 DEF BoundTo
  <2>3. QED BY <1>1, <1>3, <1>4, <1>6, <2>1, <2>2 DEF Resolved
<1>7. CASE k.form \in Shortened \cup Bare
  <2>1. CASE a \in SemArgs(t)
    <3>1. ParamKind(t, a) = "sem"
      BY <2>1 DEF SemArgs
    <3>2. prog.tasks[t].waits # << >>
      BY <3>1, CapturedTyped
    <3>3. QED BY <1>1, <1>7, <3>1, <3>2 DEF Shape
  <2>2. CASE a \notin SemArgs(t)
    <3>1. PICK j \in 1 .. m : Data(t)[j] = a
      BY <1>2, <2>2
    <3>2. Datum(t, j) = Captured(t)[a] /\ Kind(Datum(t, j)) \in {"mem", "const"}
      BY <1>2, <3>1, DatumKind DEF Datum
    <3>3. k.implParams = Data(t) /\ DOMAIN k.inner = 1 .. m
      BY <1>1, <1>2, <1>7 DEF Shape, Shortened, Bare
    <3>4. \A f : DOMAIN f = 1 .. m => BoundTo(f, Data(t), a) = f[j]
      <4>1. \A i \in 1 .. m : Data(t)[i] = a => i = j
        BY <1>2, <3>1
      <4>2. (CHOOSE i \in 1 .. m : Data(t)[i] = a) = j
        BY <3>1, <4>1
      <4>3. QED BY <3>1, <4>2 DEF BoundTo
    <3>5. k.inner[j] \in {Datum(t, j), Arg(Data(t)[j])}
      <4>1. j \in DOMAIN Data(t)
        BY <1>2
      <4>2. CASE k.form = "fixed"
        <5>1. k.inner = [i \in DOMAIN Data(t) |-> Arg(Data(t)[i])]
          BY <1>1, <4>2 DEF Shape
        <5>2. QED BY <4>1, <5>1
      <4>3. CASE k.form = "placed"
        <5>1. k.inner = [i \in DOMAIN Data(t) |->
                IF Kind(Datum(t, i)) = "mem" THEN Datum(t, i) ELSE Arg(Data(t)[i])]
          BY <1>1, <4>3 DEF Shape
        <5>2. QED BY <4>1, <5>1
      <4>4. CASE k.form \in Bare
        <5>1. k.inner = [i \in DOMAIN Data(t) |-> Datum(t, i)]
          BY <1>1, <4>4 DEF Shape
        <5>2. QED BY <4>1, <5>1
      <4>5. QED BY <1>7, <4>2, <4>3, <4>4 DEF Shortened
    <3>6. CASE k.inner[j] = Datum(t, j)
      BY <1>1, <1>5, <1>7, <3>2, <3>3, <3>4, <3>6 DEF Resolved, Shortened, Bare
    <3>7. CASE k.inner[j] # Datum(t, j)
      <4>1. k.inner[j] = Arg(a) /\ k.form \in Shortened
        <5>1. k.form \in Bare => k.inner = [i \in DOMAIN Data(t) |-> Datum(t, i)]
          BY <1>1 DEF Shape
        <5>2. j \in DOMAIN Data(t)
          BY <1>2
        <5>3. k.form \notin Bare
          BY <3>7, <5>1, <5>2
        <5>4. QED BY <1>7, <3>1, <3>5, <3>7, <5>3
      <4>2. k.params = Data(t) /\ k.call = [i \in DOMAIN Data(t) |-> Datum(t, i)]
        BY <1>1, <4>1 DEF Shape
      <4>3. BoundTo(k.call, k.params, a) = Datum(t, j)
        BY <1>2, <3>4, <4>2
      <4>4. QED BY <1>1, <1>4, <3>2, <3>3, <3>4, <4>1, <4>3 DEF Resolved, Shortened
    <3>8. QED BY <3>6, <3>7
  <2>3. QED BY <2>1, <2>2
<1>8. QED BY <1>1, <1>5, <1>6, <1>7 DEF FormNames, Outlined

(* The invariant behind the kernels holds throughout.                       *)
LEMMA KernelInvariance == ImageSpec => [](TypeOK /\ IInv /\ PortsInv /\ KernelInv)
<1>1. ImageInit => TypeOK /\ IInv /\ PortsInv /\ KernelInv
  BY InitTypes, InitInv, InitPorts, InitKernels DEF ImageInit
<1>2. TypeOK /\ IInv /\ PortsInv /\ KernelInv /\ [ImageNext]_imageVars
        => (TypeOK /\ IInv /\ PortsInv /\ KernelInv)'
  BY ImageStep, NextTypes, NextInv, StepKeepsPorts, StepKeepsKernels
<1>3. QED BY <1>1, <1>2, PTL DEF ImageSpec

(* Every kernel works on the memrefs and constants of its task, in every    *)
(* form and whatever the order of the rewrites.                             *)
THEOREM KernelsKeepTheirData == ImageSpec => []KernelsSeeTheirData
<1>1. PortsInv /\ KernelInv => KernelsSeeTheirData
  BY InShapeResolves DEF KernelsSeeTheirData, PortsInv, KernelInv, Unsupported
<1>2. QED BY <1>1, KernelInvariance, PTL

-----------------------------------------------------------------------------
(* The stream.  The invariant, StreamInv, ties the i-th command to the      *)
(* operation it was made from: commands are counted, and the operations     *)
(* that make one are numbered by Upto.                                      *)

(* The buffer table.                                                        *)

Injective(s) == \A i, j \in DOMAIN s : s[i] = s[j] => i = j

(* A table of first mentions names every value once, and keeps a prefix     *)
(* that does already.                                                       *)
LEMMA DistinctIs ==
  ASSUME NEW V, NEW seq \in Seq(V)
  PROVE  /\ Distinct(seq) \in Seq(V) /\ Injective(Distinct(seq))
         /\ \A i \in DOMAIN seq : \E j \in DOMAIN Distinct(seq) : Distinct(seq)[j] = seq[i]
         /\ \A k \in Nat :
              (/\ k <= Len(seq)
               /\ \A i, j \in 1 .. k : seq[i] = seq[j] => i = j)
              => \A i \in 1 .. k : i \in DOMAIN Distinct(seq) /\ Distinct(seq)[i] = seq[i]
<1>1. PICK n \in Nat : n = Len(seq) /\ DOMAIN seq = 1 .. n
  BY SeqFacts
<1>2. PICK dead : dead = {i \in DOMAIN seq : \E j \in 1 .. i - 1 : seq[j] = seq[i]}
  OBVIOUS
<1>3. Distinct(seq) = Kept(seq, dead)
  BY <1>2 DEF Distinct
<1>4. PICK place : place = Place(n, dead)
  OBVIOUS
<1>5. PICK m \in Nat :
        /\ DOMAIN place = 1 .. m
        /\ \A j \in 1 .. m : place[j] \in (1 .. n) \ dead
        /\ \A i \in (1 .. n) \ dead : \E j \in 1 .. m : place[j] = i
        /\ \A i, j \in 1 .. m : place[i] = place[j] => i = j
  BY <1>4, Places
<1>6. PICK d : d = Distinct(seq)
  OBVIOUS
<1>7. d = [j \in 1 .. m |-> seq[place[j]]]
  BY <1>1, <1>3, <1>4, <1>5, <1>6, KeptPlaces
<1>8. DOMAIN d = 1 .. m /\ \A j \in 1 .. m : d[j] = seq[place[j]]
  BY <1>7
<1>9. Distinct(seq) \in Seq(V)
  <2>1. seq \in Seq(V)
    OBVIOUS
  <2>2. Kept(seq, dead) \in Seq(V)
    BY ONLY <2>1, KeptTyped
  <2>3. QED BY <1>3, <2>2
<1>10. \A i \in 1 .. n : i \in dead <=> \E j \in 1 .. i - 1 : seq[j] = seq[i]
  BY <1>1, <1>2
<1>11. Injective(d)
  <2>1. SUFFICES ASSUME NEW i \in 1 .. m, NEW j \in 1 .. m, d[i] = d[j], i # j
                 PROVE  FALSE
    BY <1>8 DEF Injective
  <2>2. PICK x, y \in (1 .. n) \ dead : x = place[i] /\ y = place[j]
    BY <1>5
  <2>3. seq[x] = seq[y] /\ x # y /\ x \in 1 .. n /\ y \in 1 .. n
    BY <1>5, <1>8, <2>1, <2>2
  <2>4. x \in 1 .. y - 1 \/ y \in 1 .. x - 1
    BY <2>3
  <2>5. QED BY <1>10, <2>2, <2>3, <2>4
<1>12. ASSUME NEW i \in DOMAIN seq
       PROVE  \E j \in DOMAIN d : d[j] = seq[i]
  <2>1. PICK S : S = {j \in 1 .. n : seq[j] = seq[i]}
    OBVIOUS
  <2>2. S \in SUBSET Nat /\ S # {}
    BY <1>1, <2>1
  <2>3. PICK f \in S : \A j \in S : f <= j
    BY <2>2, MinIsLeast
  <2>4. f \in 1 .. n /\ seq[f] = seq[i]
    BY <2>1, <2>3
  <2>5. \A j \in 1 .. f - 1 : seq[j] # seq[f]
    <3>1. SUFFICES ASSUME NEW j \in 1 .. f - 1, seq[j] = seq[f] PROVE FALSE
      OBVIOUS
    <3>2. j \in S /\ j < f
      BY <2>1, <2>4, <3>1
    <3>3. QED BY <2>3, <2>4, <3>2
  <2>6. f \in (1 .. n) \ dead
    BY <1>10, <2>4, <2>5
  <2>7. QED BY <1>5, <1>8, <2>4, <2>6
<1>13. ASSUME NEW k \in Nat, k <= Len(seq),
              \A i, j \in 1 .. k : seq[i] = seq[j] => i = j,
              NEW i \in 1 .. k
       PROVE  i \in DOMAIN d /\ d[i] = seq[i]
  <2>1. PICK S \in SUBSET (1 .. n) : S = (1 .. n) \ dead
    OBVIOUS
  <2>2. \A x \in 1 .. k : x \in S
    <3>1. SUFFICES ASSUME NEW x \in 1 .. k PROVE x \in S
      OBVIOUS
    <3>2. x \in 1 .. n
      BY <1>1, <1>13
    <3>3. \A y \in 1 .. x - 1 : y \in 1 .. k /\ y # x
      OBVIOUS
    <3>4. x \notin dead
      BY <1>10, <1>13, <3>2, <3>3
    <3>5. QED BY <2>1, <3>2, <3>4
  <2>3. UpTo(S, i) = 1 .. i
    <3>1. \A x \in S : x \in 1 .. n
      BY <2>1
    <3>2. \A x \in 1 .. i : x \in S /\ x <= i
      BY <2>2
    <3>3. \A x \in S : x <= i => x \in 1 .. i
      BY <3>1
    <3>4. QED BY <3>2, <3>3 DEF UpTo
  <2>4. Cardinality(1 .. i) = i
    BY FS_Interval
  <2>5. i \in S
    BY <2>2
  <2>6. i \in 1 .. Cardinality(S) /\ Nth(S, i) = i
    <3>1. \A x \in S : /\ Cardinality(UpTo(S, x)) \in 1 .. Cardinality(S)
                       /\ Nth(S, Cardinality(UpTo(S, x))) = x
      BY NthMember
    <3>2. Cardinality(UpTo(S, i)) = i
      BY <2>3, <2>4
    <3>3. /\ Cardinality(UpTo(S, i)) \in 1 .. Cardinality(S)
          /\ Nth(S, Cardinality(UpTo(S, i))) = i
      BY <2>5, <3>1
    <3>4. QED BY <3>2, <3>3
  <2>7. place = [j \in 1 .. Cardinality(S) |-> Nth(S, j)]
    BY <1>4, <2>1 DEF Place
  <2>8. i \in DOMAIN place /\ place[i] = i
    BY <2>6, <2>7
  <2>9. QED BY <1>5, <1>8, <2>8
<1>14. QED BY <1>6, <1>9, <1>11, <1>12, <1>13

(* A table keeps its entries, and gains one for every memref.               *)
LEMMA AssignedExtends ==
  ASSUME NEW table \in Seq(Nat), Injective(table), NEW mems \in Seq(Nat)
  PROVE  /\ Assigned(table, mems) \in Seq(Nat) /\ Injective(Assigned(table, mems))
         /\ \A i \in DOMAIN table : /\ i \in DOMAIN Assigned(table, mems)
                                    /\ Assigned(table, mems)[i] = table[i]
         /\ \A j \in DOMAIN mems :
              LET b == BufId(Assigned(table, mems), mems[j])
              IN b \in DOMAIN Assigned(table, mems) /\ Assigned(table, mems)[b] = mems[j]
<1>1. PICK k \in Nat, l \in Nat : /\ k = Len(table) /\ DOMAIN table = 1 .. k
                                  /\ l = Len(mems) /\ DOMAIN mems = 1 .. l
  BY SeqFacts
<1>2. PICK all \in Seq(Nat) : all = table \o mems
  BY ConcatSeqs
<1>3. /\ Len(all) = k + l /\ DOMAIN all = 1 .. k + l
      /\ \A i \in 1 .. k : all[i] = table[i]
      /\ \A j \in 1 .. l : all[k + j] = mems[j]
  BY <1>1, <1>2
<1>4. PICK d : d = Distinct(all)
  OBVIOUS
<1>5. Assigned(table, mems) = d
  BY <1>2, <1>4 DEF Assigned
<1>6. /\ d \in Seq(Nat) /\ Injective(d)
      /\ \A i \in DOMAIN all : \E j \in DOMAIN d : d[j] = all[i]
      /\ \A x \in Nat :
           (x <= Len(all) /\ \A i, j \in 1 .. x : all[i] = all[j] => i = j)
           => \A i \in 1 .. x : i \in DOMAIN d /\ d[i] = all[i]
  BY ONLY <1>4, all \in Seq(Nat), DistinctIs
<1>7. \A i \in 1 .. k : i \in DOMAIN d /\ d[i] = table[i]
  <2>1. k <= Len(all)
    BY <1>3
  <2>2. \A i, j \in 1 .. k : table[i] = table[j] => i = j
    BY <1>1 DEF Injective
  <2>3. \A i, j \in 1 .. k : all[i] = all[j] => i = j
    BY <1>3, <2>2
  <2>4. QED BY <1>3, <1>6, <2>1, <2>3
<1>8. ASSUME NEW j \in 1 .. l
      PROVE  BufId(d, mems[j]) \in DOMAIN d /\ d[BufId(d, mems[j])] = mems[j]
  <2>1. k + j \in DOMAIN all
    BY <1>3
  <2>2. \E i \in DOMAIN d : d[i] = mems[j]
    BY <1>3, <1>6, <2>1
  <2>3. QED BY <2>2 DEF BufId
<1>9. QED BY <1>1, <1>5, <1>6, <1>7, <1>8

-----------------------------------------------------------------------------
(* The walk: which operations become commands, and where.                   *)

Commands ==
  {q \in DOMAIN prog.body : /\ prog.body[q].op # "sem_dealloc"
                            /\ prog.body[q].op = "execute" => prog.body[q].id \notin Unsupported}

(* The commands made of the operations up to i: the place of the last one.  *)
Upto(i) == Cardinality(UpTo(Commands, i))

(* The operations of a program.                                             *)
LEMMA BodyFacts ==
  ASSUME prog \in Programs
  PROVE  /\ Len(prog.body) \in Nat /\ DOMAIN prog.body = 1 .. Len(prog.body)
         /\ \A q \in DOMAIN prog.body : prog.body[q].op \in OpNames /\ prog.body[q].id \in Nat
         /\ Commands \in SUBSET (1 .. Len(prog.body))
<1>1. WellFormedBody(prog)
  BY BodiesAssumption
<1>2. prog.body \in Seq([op : OpNames, id : Nat])
  BY <1>1 DEF WellFormedBody
<1>3. /\ Len(prog.body) \in Nat /\ DOMAIN prog.body = 1 .. Len(prog.body)
      /\ \A q \in DOMAIN prog.body : prog.body[q] \in [op : OpNames, id : Nat]
  BY ONLY <1>2, SeqFacts
<1>4. QED BY <1>3 DEF Commands

(* Later operations make later commands.                                    *)
LEMMA CommandsCounted ==
  ASSUME prog \in Programs
  PROVE  /\ \A i : Upto(i) \in Nat
         /\ Upto(0) = 0
         /\ \A q \in Commands : q \in Nat /\ q >= 1 /\ q <= Len(prog.body) /\ Upto(q) >= 1
         /\ \A q, r \in Commands : q < r => Upto(q) < Upto(r)
<1>1. PICK n \in Nat : n = Len(prog.body) /\ Commands \in SUBSET (1 .. n)
  BY BodyFacts
<1>2. \A i : Upto(i) \in Nat
  BY <1>1, UpToFinite DEF Upto
<1>3. Upto(0) = 0
  <2>1. UpTo(Commands, 0) = {}
    <3>1. \A k \in Commands : k \in 1 .. n /\ ~ k <= 0
      BY <1>1
    <3>2. QED BY <3>1 DEF UpTo
  <2>2. QED BY <2>1, FS_EmptySet DEF Upto
<1>4. \A q \in Commands : q \in 1 .. n /\ Upto(q) >= 1
  <2>1. \A q \in Commands : Cardinality(UpTo(Commands, q)) \in 1 .. Cardinality(Commands)
    BY <1>1, CountsRise
  <2>2. QED BY <1>1, <2>1 DEF Upto
<1>5. \A q, r \in Commands : q < r => Upto(q) < Upto(r)
  BY <1>1, CountsRise DEF Upto
<1>6. QED BY <1>1, <1>2, <1>3, <1>4, <1>5

(* An operation adds one command, or none.                                  *)
LEMMA NextCommand ==
  ASSUME prog \in Programs, NEW q \in DOMAIN prog.body
  PROVE  /\ q \in Commands => Upto(q) = Upto(q - 1) + 1
         /\ q \notin Commands => Upto(q) = Upto(q - 1)
<1>1. PICK n \in Nat : n = Len(prog.body) /\ Commands \in SUBSET (1 .. n) /\ q \in 1 .. n
  BY BodyFacts
<1>2. \A k \in Commands : k \in Nat /\ (k <= q <=> (k <= q - 1 \/ k = q))
  BY <1>1
<1>3. ASSUME q \in Commands PROVE Upto(q) = Upto(q - 1) + 1
  <2>1. UpTo(Commands, q) = UpTo(Commands, q - 1) \cup {q}
    BY <1>2, <1>3 DEF UpTo
  <2>2. ~ q <= q - 1
    BY <1>1
  <2>3. q \notin UpTo(Commands, q - 1)
    BY <2>2 DEF UpTo
  <2>4. IsFiniteSet(UpTo(Commands, q - 1))
    BY <1>1, UpToFinite
  <2>5. QED BY <2>1, <2>3, <2>4, FS_AddElement DEF Upto
<1>4. ASSUME q \notin Commands PROVE Upto(q) = Upto(q - 1)
  <2>1. \A k \in Commands : k # q
    BY <1>4
  <2>2. UpTo(Commands, q) = UpTo(Commands, q - 1)
    BY <1>2, <2>1 DEF UpTo
  <2>3. QED BY <2>2 DEF Upto
<1>5. QED BY <1>3, <1>4

(* Every place up to that of a position is the place of one command.        *)
LEMMA CommandAt ==
  ASSUME prog \in Programs, NEW p \in Nat, NEW c \in 1 .. Upto(p)
  PROVE  \E q \in Commands : q <= p /\ Upto(q) = c
<1>1. PICK n \in Nat : Commands \in SUBSET (1 .. n) /\ n = Len(prog.body)
  BY BodyFacts
<1>2. PICK S \in SUBSET (1 .. n) : S = UpTo(Commands, p)
  <2>1. UpTo(Commands, p) \subseteq Commands
    BY DEF UpTo
  <2>2. QED BY <1>1, <2>1
<1>3. PICK q \in S : Cardinality(UpTo(S, q)) = c
  BY <1>2, CountReached DEF Upto
<1>4. q \in Commands /\ q <= p
  BY <1>2, <1>3 DEF UpTo
<1>5. UpTo(S, q) = UpTo(Commands, q)
  <2>1. \A k \in Commands : k \in Nat
    BY <1>1
  <2>2. \A k \in Commands : k <= q => k <= p
    BY <1>4, <2>1
  <2>3. QED BY <1>2, <2>2 DEF UpTo
<1>6. QED BY <1>3, <1>4, <1>5 DEF Upto

-----------------------------------------------------------------------------
(* What the commands say.                                                   *)
Buffer(b, m) == b \in DOMAIN order /\ order[b] = m

DepsMean(deps, waits) ==
  /\ deps = [j \in DOMAIN waits |-> deps[j]]
  /\ \A j \in DOMAIN waits : deps[j].sem = Fused(waits[j].sem) /\ Buffer(deps[j].buf, waits[j].mem)

SemCommand(c, s) ==
  c.cmd = "SemAlloc" /\ c.sem = Fused(s) /\ c.chains = {Fused(x) : x \in chains[s]}

TaskCommand(c, t) ==
  /\ c.cmd = "Execute"
  /\ DepsMean(c.acquires, Waits(t, "acquire")) /\ DepsMean(c.requires, Waits(t, "require"))
  /\ DOMAIN c.payload = DOMAIN prog.tasks[t].payload
  /\ \A j \in DOMAIN prog.tasks[t].payload : Buffer(c.payload[j], Id(prog.tasks[t].payload[j]))

MemCommand(c, cmd, m) == \E b : c = [cmd |-> cmd, buf |-> b] /\ Buffer(b, m)

Says(c, q) ==
  LET id == prog.body[q].id
  IN /\ prog.body[q].op = "sem_alloc" => SemCommand(c, id)
     /\ prog.body[q].op = "execute" => TaskCommand(c, id)
     /\ prog.body[q].op = "alloc" => MemCommand(c, "MemAlloc", id)
     /\ prog.body[q].op = "dealloc" => MemCommand(c, "MemDealloc", id)

(* The stream has the command of every operation that makes one, up to the  *)
(* walk's position, and the walk starts when the kernels are gone.          *)
StreamInv ==
  /\ pos \in 1 .. Len(prog.body) + 1
  /\ pos > 1 => phase = "done" /\ \A t \in Unsupported : kernel[t].form = "marker"
  /\ order \in Seq(Nat) /\ Injective(order)
  /\ maxSemAddr \in 0 .. NumPairs
  /\ \E V : stream \in Seq(V)
  /\ Len(stream) = Upto(pos - 1)
  /\ \A q \in Commands : q < pos => Says(stream[Upto(q)], q)

OrderGrows == \A b \in DOMAIN order : b \in DOMAIN order' /\ order'[b] = order[b]

(* What a command says stays true: tables only grow.                        *)
LEMMA SaysStays ==
  ASSUME UNCHANGED <<prog, addr, gen, chains>>, OrderGrows, NEW c, NEW q, Says(c, q)
  PROVE  Says(c, q)'
<1>1. \A b, m : Buffer(b, m) => Buffer(b, m)'
  BY DEF OrderGrows, Buffer
<1>2. \A s : Fused(s)' = Fused(s)
  BY DEF Fused
<1>3. \A deps, waits : DepsMean(deps, waits) => DepsMean(deps, waits)'
  BY <1>1, <1>2 DEF DepsMean
<1>4. \A t, side : Waits(t, side)' = Waits(t, side)
  BY DEF Waits
<1>5. \A s : SemCommand(c, s) => SemCommand(c, s)'
  BY <1>2 DEF SemCommand
<1>6. \A t : TaskCommand(c, t) => TaskCommand(c, t)'
  BY <1>1, <1>3, <1>4 DEF TaskCommand
<1>7. \A cmd, m : MemCommand(c, cmd, m) => MemCommand(c, cmd, m)'
  BY <1>1 DEF MemCommand
<1>8. QED BY <1>5, <1>6, <1>7 DEF Says

(* Which operations make commands depends on the program alone.             *)
LEMMA CommandsStay ==
  ASSUME prog' = prog
  PROVE  /\ Unsupported' = Unsupported /\ Commands' = Commands /\ Tasks(prog)' = Tasks(prog)
         /\ \A i : Upto(i)' = Upto(i)
<1>1. Unsupported' = Unsupported /\ Tasks(prog)' = Tasks(prog)
  BY DEF Unsupported, Tasks
<1>2. Commands' = Commands
  BY <1>1 DEF Commands
<1>3. QED BY <1>1, <1>2 DEF Upto

(* At the start there is nothing in the stream.                             *)
LEMMA InitStream == ImageInit => StreamInv
<1> SUFFICES ASSUME ImageInit PROVE StreamInv
  OBVIOUS
<1>1. prog \in Programs /\ pos = 1 /\ stream = << >> /\ order = << >> /\ maxSemAddr = 0
  BY DEF ImageInit, Init
<1>2. pos \in 1 .. Len(prog.body) + 1 /\ \A q \in Commands : ~ q < pos
  BY <1>1, BodyFacts
<1>3. Len(stream) = Upto(pos - 1)
  BY <1>1, CommandsCounted
<1>4. order \in Seq(Nat) /\ Injective(order) /\ stream \in Seq(Nat)
  BY <1>1 DEF Injective
<1>5. maxSemAddr \in 0 .. NumPairs
  BY <1>1, PairsAssumption
<1>6. QED BY <1>1, <1>2, <1>3, <1>4, <1>5 DEF StreamInv

(* A step outside the walk. *)
LEMMA NotWalking ==
  ASSUME PortsInv, StreamInv, UNCHANGED <<fbState, prog>>,
         \/ pos = 1
         \/ UNCHANGED <<phase, addr, gen, chains>> /\ \A t \in Unsupported : kernel'[t].form = "marker"
  PROVE  StreamInv'
<1>1. UNCHANGED <<pos, stream, order, maxSemAddr, prog>>
  BY DEF fbState
<1>2. OrderGrows
  BY <1>1 DEF OrderGrows
<1>3. ASSUME NEW q \in Commands, q < pos
      PROVE  Says(stream[Upto(q)], q)'
  <2>1. pos # 1
    BY <1>3, CommandsCounted DEF PortsInv
  <2>2. PICK c : c = stream[Upto(q)]
    OBVIOUS
  <2>3. Says(c, q)
    BY <1>3, <2>2 DEF StreamInv
  <2>4. Says(c, q)'
    BY <1>1, <1>2, <2>1, <2>3, SaysStays
  <2>5. (stream[Upto(q)])' = c
    BY <1>1, <2>2, CommandsStay
  <2>6. QED BY <2>4, <2>5 DEF Says, SemCommand, TaskCommand, MemCommand
<1>4. QED BY <1>1, <1>3, CommandsStay DEF StreamInv

(* While addresses are assigned, the walk has not started.                  *)
LEMMA AssignKeepsStream ==
  ASSUME PortsInv, StreamInv, [Next]_vars, UNCHANGED <<riscvState, fbState>>
  PROVE  StreamInv'
<1>1. prog' = prog /\ kernel' = kernel
  BY DEF Next, VisitAlloc, VisitDeallocs, AssignFresh, AssignRecycled, OutOfAddresses,
         Annotate, Assign, vars, riscvState
<1>2. CASE phase = "done"
  <2>1. UNCHANGED vars
    BY <1>2, DoneIsFinal DEF PortsInv
  <2>2. UNCHANGED <<phase, addr, gen, chains>>
    BY <2>1 DEF vars, scanState
  <2>3. pos = 1 \/ \A t \in Unsupported : kernel'[t].form = "marker"
    <3>1. pos \in Nat /\ pos >= 1
      BY BodyFacts DEF StreamInv, PortsInv
    <3>2. QED BY <1>1, <3>1 DEF StreamInv
  <2>4. QED BY <1>1, <2>2, <2>3, NotWalking
<1>3. CASE phase # "done"
  <2>1. pos \in Nat /\ pos >= 1 /\ ~ pos > 1
    BY <1>3, BodyFacts DEF StreamInv, PortsInv
  <2>2. pos = 1
    BY <2>1
  <2>3. QED BY <1>1, <2>2, NotWalking
<1>4. QED BY <1>2, <1>3

(* While kernels are rewritten, the walk has not started.                   *)
LEMMA RiscvKeepsStream ==
  ASSUME PortsInv, StreamInv, RiscvStep
  PROVE  StreamInv'
<1>1. prog' = prog /\ UNCHANGED fbState
  BY DEF RiscvStep, Legalize, Outline, Wrap, LowerSync, FixSignature, LowerMemref,
         CopyConstants, RemoveMemrefArgs, RewriteFuncToLLVM, Rewrite, Collect, vars
<1>2. \E t \in Unsupported : kernel[t].form # "marker"
  BY DEF RiscvStep, Legalize, Outline, Wrap, LowerSync, FixSignature, LowerMemref,
         CopyConstants, RemoveMemrefArgs, RewriteFuncToLLVM, Rewrite, Collect
<1>3. pos \in Nat /\ pos >= 1 /\ ~ pos > 1
  BY <1>2, BodyFacts DEF StreamInv, PortsInv
<1>4. pos = 1
  BY <1>3
<1>5. QED BY <1>1, <1>4, NotWalking

-----------------------------------------------------------------------------
(* The walk starts when the kernels are markers. *)
LEMMA MarkersWhenReached ==
  ASSUME KernelInv, Reached("marker")
  PROVE  phase = "done" /\ \A t \in Unsupported : kernel[t].form = "marker"
<1>1. Rank("marker") = 11
  BY DEF Rank, Forms
<1>2. \A f \in FormNames : f # "marker" => Rank(f) \in 1 .. 10
  BY DEF Rank, Forms, FormNames, Outlined, Shortened, Bare
<1>3. QED BY <1>1, <1>2 DEF Reached, KernelInv, Unsupported

(* Appending adds one element at the end.                                   *)
LEMMA Appended ==
  ASSUME NEW V, NEW s \in Seq(V), NEW c, NEW n \in Nat, n = Len(s)
  PROVE  /\ Append(s, c) \in Seq(V \cup {c}) /\ Len(Append(s, c)) = n + 1
         /\ Append(s, c)[n + 1] = c /\ \A i \in 1 .. n : Append(s, c)[i] = s[i]
<1>1. PICK W : W = V \cup {c}
  OBVIOUS
<1>2. s \in Seq(W) /\ c \in W
  BY <1>1
<1>3. QED BY <1>1, <1>2

(* A step of the walk over an operation that makes a command. *)
LEMMA CommandKeepsStream ==
  ASSUME PortsInv, KernelInv, StreamInv, UNCHANGED <<vars, riscvState>>,
         Reached("marker"), NEW q \in Commands, q = pos, NEW c, stream' = Append(stream, c),
         pos' = pos + 1, order' \in Seq(Nat), Injective(order'), OrderGrows,
         maxSemAddr' \in 0 .. NumPairs, Says(c, q)'
  PROVE  StreamInv'
<1>1. prog \in Programs /\ UNCHANGED <<prog, phase, addr, gen, chains, kernel>>
  BY DEF vars, scanState, riscvState, PortsInv
<1>2. q \in 1 .. Len(prog.body) /\ q \in DOMAIN prog.body /\ Len(prog.body) \in Nat
  BY <1>1, BodyFacts
<1>3. Upto(q) = Upto(q - 1) + 1 /\ Upto(q - 1) \in Nat
  BY <1>1, <1>2, NextCommand, CommandsCounted
<1>4. PICK V : stream \in Seq(V)
  BY DEF StreamInv
<1>5. PICK n \in Nat : n = Len(stream) /\ n = Upto(q - 1)
  BY <1>3 DEF StreamInv
<1>6. /\ stream' \in Seq(V \cup {c}) /\ Len(stream') = n + 1
      /\ stream'[n + 1] = c /\ \A i \in 1 .. n : stream'[i] = stream[i]
  <2>1. stream \in Seq(V) /\ n \in Nat /\ n = Len(stream)
    BY <1>4, <1>5
  <2>2. /\ Append(stream, c) \in Seq(V \cup {c}) /\ Len(Append(stream, c)) = n + 1
        /\ Append(stream, c)[n + 1] = c /\ \A i \in 1 .. n : Append(stream, c)[i] = stream[i]
    BY ONLY <2>1, Appended
  <2>3. QED BY <2>2
<1>7. ASSUME NEW r \in Commands, r < q
      PROVE  \E d : stream'[Upto(r)] = d /\ Says(d, r)'
  <2>1. PICK d : d = stream[Upto(r)]
    OBVIOUS
  <2>2. Says(d, r)
    BY <1>7, <2>1 DEF StreamInv
  <2>3. Says(d, r)'
    BY <1>1, <2>2, SaysStays
  <2>4. Upto(r) \in 1 .. n
    <3>1. Upto(r) \in Nat /\ Upto(r) >= 1 /\ Upto(r) < Upto(q)
      BY <1>1, <1>7, CommandsCounted
    <3>2. QED BY <1>3, <1>5, <3>1
  <2>5. stream'[Upto(r)] = d
    BY <1>6, <2>1, <2>4
  <2>6. QED BY <2>3, <2>5
<1>8. stream'[Upto(q)] = c
  BY <1>3, <1>5, <1>6
<1>9. ASSUME NEW r \in Commands, r < pos'
      PROVE  Says(stream[Upto(r)], r)'
  <2>1. r \in Nat /\ (r < q \/ r = q)
    BY <1>1, <1>2, <1>9, CommandsCounted
  <2>2. PICK d : stream'[Upto(r)] = d /\ Says(d, r)'
    BY <1>7, <1>8, <2>1
  <2>3. (stream[Upto(r)])' = d
    BY <1>1, <2>2, CommandsStay
  <2>4. QED BY <2>2, <2>3 DEF Says, SemCommand, TaskCommand, MemCommand
<1>10. pos' \in 1 .. Len(prog'.body) + 1 /\ Len(stream') = Upto(pos' - 1)
  BY <1>1, <1>2, <1>3, <1>5, <1>6
<1>11. (phase = "done")' /\ \A t \in Unsupported' : kernel'[t].form = "marker"
  BY <1>1, MarkersWhenReached, CommandsStay
<1>12. QED BY <1>1, <1>6, <1>9, <1>10, <1>11, CommandsStay DEF StreamInv

(* Where the walk is when it looks at an operation.                         *)
LEMMA EmittingFacts ==
  ASSUME PortsInv, KernelInv, NEW op, Emitting(op)
  PROVE  /\ prog \in Programs /\ Reached("marker") /\ phase = "done"
         /\ \A t \in Unsupported : kernel[t].form = "marker"
         /\ pos \in DOMAIN prog.body /\ pos \in 1 .. Len(prog.body) /\ prog.body[pos].op = op
         /\ Here \in Nat
         /\ op = "sem_alloc" => Here \in Sems(prog)
         /\ op = "execute" => Here \in Tasks(prog)
<1>1. prog \in Programs /\ WellFormedBody(prog)
  BY BodiesAssumption DEF PortsInv
<1>2. Reached("marker") /\ pos \in DOMAIN prog.body /\ prog.body[pos].op = op
  BY DEF Emitting
<1>3. /\ op = "sem_alloc" => Here \in Sems(prog)
      /\ op = "execute" => Here \in Tasks(prog)
  BY <1>1, <1>2 DEF WellFormedBody, Here
<1>4. Here \in Nat /\ pos \in 1 .. Len(prog.body)
  BY <1>1, <1>2, BodyFacts DEF Here
<1>5. QED BY <1>1, <1>2, <1>3, <1>4, MarkersWhenReached

(* The table after a command that mentions some memrefs. *)
LEMMA TableGrows ==
  ASSUME order \in Seq(Nat), Injective(order), NEW mems \in Seq(Nat),
         order' = Assigned(order, mems)
  PROVE  /\ order' \in Seq(Nat) /\ Injective(order') /\ OrderGrows
         /\ \A j \in DOMAIN mems :
              BufId(order', mems[j]) \in DOMAIN order' /\ order'[BufId(order', mems[j])] = mems[j]
<1>1. PICK table, next : table = order /\ next = order'
  OBVIOUS
<1>2. table \in Seq(Nat) /\ Injective(table) /\ next = Assigned(table, mems)
  BY <1>1
<1>3. mems \in Seq(Nat)
  OBVIOUS
<1>4. /\ next \in Seq(Nat) /\ Injective(next)
      /\ \A i \in DOMAIN table : i \in DOMAIN next /\ next[i] = table[i]
      /\ \A j \in DOMAIN mems :
           BufId(next, mems[j]) \in DOMAIN next /\ next[BufId(next, mems[j])] = mems[j]
  BY ONLY <1>2, <1>3, AssignedExtends
<1>5. QED BY <1>1, <1>4 DEF OrderGrows, Injective

(* The walk changes no address.                                             *)
LEMMA FusedStay ==
  ASSUME UNCHANGED vars
  PROVE  /\ UNCHANGED <<prog, addr, gen, chains>>
         /\ \A s : Fused(s)' = Fused(s)
         /\ \A t, side : Waits(t, side)' = Waits(t, side)
<1>1. UNCHANGED <<prog, addr, gen, chains>>
  BY DEF vars, scanState
<1>2. \A s : Fused(s)' = Fused(s)
  BY <1>1 DEF Fused
<1>3. \A t, side : Waits(t, side)' = Waits(t, side)
  BY <1>1 DEF Waits
<1>4. QED BY <1>1, <1>2, <1>3

(* A SemAlloc is that of its semaphore.                                     *)
LEMMA EmitSemAllocKeepsStream ==
  ASSUME TypeOK, IInv, PortsInv, KernelInv, StreamInv, EmitSemAlloc
  PROVE  StreamInv'
<1>1. PICK q, s : q = pos /\ s = Here
  OBVIOUS
<1>2. /\ prog \in Programs /\ Reached("marker") /\ phase = "done"
      /\ q \in DOMAIN prog.body /\ prog.body[q].op = "sem_alloc" /\ s \in Sems(prog)
      /\ prog.body[q].id = s
  BY <1>1, EmittingFacts DEF EmitSemAlloc, Here
<1>3. q \in Commands
  BY <1>2 DEF Commands
<1>4. /\ UNCHANGED <<vars, riscvState, order>> /\ pos' = pos + 1
      /\ maxSemAddr' = Later(maxSemAddr, (addr[s] % Word) + 1) % Word
  BY <1>1 DEF EmitSemAlloc
<1>5. PICK c : /\ c = [cmd |-> "SemAlloc", sem |-> Fused(s), chains |-> {Fused(x) : x \in chains[s]}]
               /\ stream' = Append(stream, c)
  BY <1>1 DEF EmitSemAlloc
<1>6. Says(c, q)'
  <2>1. SemCommand(c, s)
    BY <1>5 DEF SemCommand
  <2>2. SemCommand(c, s)'
    BY <1>4, <2>1, FusedStay DEF SemCommand
  <2>3. prog' = prog
    BY <1>4, FusedStay
  <2>4. QED BY <1>2, <2>2, <2>3 DEF Says
<1>7. /\ order' \in Seq(Nat) /\ Injective(order') /\ OrderGrows
  BY <1>4 DEF StreamInv, OrderGrows, Injective
<1>8. maxSemAddr' \in 0 .. NumPairs
  <2>1. cur = prog.sems + 1 /\ prog.sems \in Nat
    BY <1>2, ProgramFacts DEF PortsInv
  <2>2. s \in Placed
    BY <1>2, <2>1 DEF Placed, Sems
  <2>3. addr[s] \in 0 .. NumPairs - 1 /\ NumPairs \in Nat
    BY <2>2, PairsAssumption DEF IInv, LastTenant, TypeOK, Addrs
  <2>4. \A x \in Nat : x % Word \in Nat /\ x % Word <= x
    BY DEF Word
  <2>5. (addr[s] % Word) + 1 \in 0 .. NumPairs
    BY <2>3, <2>4
  <2>6. Later(maxSemAddr, (addr[s] % Word) + 1) \in 0 .. NumPairs
    BY <2>5 DEF Later, StreamInv
  <2>7. QED BY <1>4, <2>3, <2>4, <2>6
<1>9. QED BY <1>1, <1>2, <1>3, <1>4, <1>5, <1>6, <1>7, <1>8, CommandKeepsStream

(* A MemAlloc or MemDealloc is that of its memref.                          *)
LEMMA EmitMemoryKeepsStream ==
  ASSUME PortsInv, KernelInv, StreamInv,
         NEW op, NEW cmd, <<op, cmd>> \in {<<"alloc", "MemAlloc">>, <<"dealloc", "MemDealloc">>},
         EmitMemory(op, cmd)
  PROVE  StreamInv'
<1>1. PICK q, m : q = pos /\ m = Here
  OBVIOUS
<1>2. /\ prog \in Programs /\ Reached("marker") /\ m \in Nat
      /\ q \in DOMAIN prog.body /\ prog.body[q].op = op /\ prog.body[q].id = m
  BY <1>1, EmittingFacts DEF EmitMemory, Here
<1>3. q \in Commands
  BY <1>2 DEF Commands
<1>4. /\ UNCHANGED <<vars, riscvState, maxSemAddr>> /\ pos' = pos + 1
      /\ order' = Assigned(order, <<m>>)
  BY <1>1 DEF EmitMemory
<1>5. PICK c : c = [cmd |-> cmd, buf |-> BufId(order', m)] /\ stream' = Append(stream, c)
  BY <1>1 DEF EmitMemory
<1>6. /\ order' \in Seq(Nat) /\ Injective(order') /\ OrderGrows
      /\ BufId(order', m) \in DOMAIN order' /\ order'[BufId(order', m)] = m
  <2>1. PICK mems : mems = <<m>>
    OBVIOUS
  <2>2. mems \in Seq(Nat) /\ order' = Assigned(order, mems)
    BY <1>2, <1>4, <2>1
  <2>3. /\ order' \in Seq(Nat) /\ Injective(order') /\ OrderGrows
        /\ \A j \in DOMAIN mems :
             BufId(order', mems[j]) \in DOMAIN order' /\ order'[BufId(order', mems[j])] = mems[j]
    BY <2>2, TableGrows DEF StreamInv
  <2>4. 1 \in DOMAIN mems /\ mems[1] = m
    BY <2>1
  <2>5. QED BY <2>3, <2>4
<1>7. Says(c, q)'
  <2>1. MemCommand(c, cmd, m)'
    BY <1>5, <1>6 DEF MemCommand, Buffer
  <2>2. prog' = prog
    BY <1>4, FusedStay
  <2>3. QED BY <1>2, <2>1, <2>2 DEF Says
<1>8. maxSemAddr' \in 0 .. NumPairs
  BY <1>4 DEF StreamInv
<1>9. QED BY <1>1, <1>2, <1>3, <1>4, <1>5, <1>6, <1>7, <1>8, CommandKeepsStream

(* A sem_dealloc, or the marker of a kernel, leaves no command.             *)
LEMMA PassOverKeepsStream ==
  ASSUME PortsInv, KernelInv, StreamInv, PassOver
  PROVE  StreamInv'
<1>1. PICK q : q = pos
  OBVIOUS
<1>2. /\ prog \in Programs /\ phase = "done" /\ q \in 1 .. Len(prog.body)
      /\ \A t \in Unsupported : kernel[t].form = "marker"
  BY <1>1, EmittingFacts DEF PassOver
<1>3. q \notin Commands
  <2>1. CASE Emitting("sem_dealloc")
    BY <1>1, <2>1 DEF Emitting, Commands
  <2>2. CASE Emitting("execute") /\ kernel[Here].form = "marker"
    <3>1. Here \in Tasks(prog)
      BY <2>2, EmittingFacts
    <3>2. Here \in Unsupported
      BY <2>2, <3>1 DEF KernelInv
    <3>3. QED BY <1>1, <2>2, <3>2 DEF Emitting, Commands, Here
  <2>3. QED BY <2>1, <2>2 DEF PassOver
<1>4. /\ UNCHANGED <<vars, riscvState, stream, order, maxSemAddr>> /\ pos' = q + 1
  BY <1>1 DEF PassOver
<1>5. UNCHANGED <<prog, phase, addr, gen, chains, kernel>>
  BY <1>4 DEF vars, scanState, riscvState
<1>6. OrderGrows /\ Injective(order')
  BY <1>4 DEF OrderGrows, Injective, StreamInv
<1>7. ASSUME NEW r \in Commands, r < pos'
      PROVE  Says(stream[Upto(r)], r)'
  <2>1. r \in Nat /\ r < q
    <3>1. r \in Nat /\ r # q
      BY <1>2, <1>3, CommandsCounted
    <3>2. QED BY <1>2, <1>4, <1>7, <3>1
  <2>2. PICK d : d = stream[Upto(r)]
    OBVIOUS
  <2>3. Says(d, r)
    BY <1>1, <2>1, <2>2 DEF StreamInv
  <2>4. Says(d, r)'
    BY <1>5, <1>6, <2>3, SaysStays
  <2>5. (stream[Upto(r)])' = d
    BY <1>4, <1>5, <2>2, CommandsStay
  <2>6. QED BY <2>4, <2>5 DEF Says, SemCommand, TaskCommand, MemCommand
<1>8. pos' \in 1 .. Len(prog'.body) + 1 /\ Len(stream') = Upto(pos' - 1)
  <2>1. Len(prog.body) \in Nat /\ q \in DOMAIN prog.body
    BY <1>2, BodyFacts
  <2>2. Upto(q) = Upto(q - 1)
    BY <1>2, <1>3, <2>1, NextCommand
  <2>3. pos' - 1 = q
    BY <1>2, <1>4
  <2>4. Len(stream) = Upto(q - 1)
    BY <1>1 DEF StreamInv
  <2>5. QED BY <1>2, <1>4, <1>5, <2>1, <2>2, <2>3, <2>4
<1>9. QED BY <1>2, <1>4, <1>5, <1>6, <1>7, <1>8, CommandsStay DEF StreamInv

WaitType == [side : {"acquire", "require"}, sem : Nat, mem : Nat]

(* Both sequences are found again after one is appended to the other.       *)
LEMMA ConcatHasBoth ==
  ASSUME NEW V, NEW s \in Seq(V), NEW t \in Seq(V)
  PROVE  /\ \A i \in DOMAIN s : i \in DOMAIN (s \o t) /\ (s \o t)[i] = s[i]
         /\ \A j \in DOMAIN t : Len(s) + j \in DOMAIN (s \o t) /\ (s \o t)[Len(s) + j] = t[j]
OBVIOUS

(* What a task waits for on one side is among its waits. *)
LEMMA WaitsTyped ==
  ASSUME prog \in Programs, NEW t \in Tasks(prog), NEW side
  PROVE  /\ prog.tasks[t].waits \in Seq(WaitType)
         /\ Waits(t, side) \in Seq(WaitType)
         /\ \A j \in DOMAIN Waits(t, side) :
              \E i \in DOMAIN prog.tasks[t].waits : Waits(t, side)[j] = prog.tasks[t].waits[i]
<1>1. PICK waits : waits = prog.tasks[t].waits
  OBVIOUS
<1>2. waits \in Seq(WaitType)
  BY <1>1, TaskTyped DEF TaskType, WaitType
<1>3. PICK dead : Waits(t, side) = Kept(waits, dead)
  BY <1>1 DEF Waits
<1>4. /\ Kept(waits, dead) \in Seq(WaitType)
      /\ \A j \in DOMAIN Kept(waits, dead) : \E i \in DOMAIN waits : Kept(waits, dead)[j] = waits[i]
  BY ONLY <1>2, KeptTyped
<1>5. QED BY <1>1, <1>2, <1>3, <1>4

(* The memrefs a task mentions. *)
LEMMA MentionedMems ==
  ASSUME prog \in Programs, NEW t \in Tasks(prog)
  PROVE  /\ ExecuteMems(t) \in Seq(Nat)
         /\ \A i \in DOMAIN prog.tasks[t].waits :
              \E j \in DOMAIN ExecuteMems(t) : ExecuteMems(t)[j] = prog.tasks[t].waits[i].mem
         /\ \A i \in DOMAIN prog.tasks[t].payload :
              \E j \in DOMAIN ExecuteMems(t) :
                ExecuteMems(t)[j] = Id(prog.tasks[t].payload[i])
<1>1. PICK waits, payload : waits = prog.tasks[t].waits /\ payload = prog.tasks[t].payload
  OBVIOUS
<1>2. waits \in Seq(WaitType) /\ payload \in Seq(Values)
  BY <1>1, WaitsTyped, TaskTyped
<1>3. PICK s1, s2 : /\ s1 = [j \in DOMAIN waits |-> waits[j].mem]
                    /\ s2 = [i \in DOMAIN payload |-> Id(payload[i])]
  OBVIOUS
<1>4. ExecuteMems(t) = s1 \o s2
  BY <1>1, <1>3 DEF ExecuteMems
<1>5. s1 \in Seq(Nat)
  <2>1. /\ Len(waits) \in Nat /\ DOMAIN waits = 1 .. Len(waits)
        /\ \A j \in DOMAIN waits : waits[j] \in WaitType
    BY ONLY <1>2, SeqFacts
  <2>2. \A j \in DOMAIN waits : waits[j].mem \in Nat
    BY <2>1 DEF WaitType
  <2>3. s1 \in [1 .. Len(waits) -> Nat]
    BY <1>3, <2>1, <2>2
  <2>4. QED BY <2>1, <2>3
<1>6. s2 \in Seq(Nat)
  <2>1. /\ Len(payload) \in Nat /\ DOMAIN payload = 1 .. Len(payload)
        /\ \A j \in DOMAIN payload : payload[j] \in Values
    BY ONLY <1>2, SeqFacts
  <2>2. \A j \in DOMAIN payload : Id(payload[j]) \in Nat
    BY <2>1 DEF Values, Id
  <2>3. s2 \in [1 .. Len(payload) -> Nat]
    BY <1>3, <2>1, <2>2
  <2>4. QED BY <2>1, <2>3
<1>7. s1 \o s2 \in Seq(Nat)
  BY <1>5, <1>6, ConcatSeqs
<1>8. /\ \A i \in DOMAIN s1 : i \in DOMAIN (s1 \o s2) /\ (s1 \o s2)[i] = s1[i]
      /\ \A j \in DOMAIN s2 : Len(s1) + j \in DOMAIN (s1 \o s2) /\ (s1 \o s2)[Len(s1) + j] = s2[j]
  BY ONLY <1>5, <1>6, ConcatHasBoth
<1>9. /\ DOMAIN s1 = DOMAIN waits /\ \A i \in DOMAIN waits : s1[i] = waits[i].mem
      /\ DOMAIN s2 = DOMAIN payload /\ \A i \in DOMAIN payload : s2[i] = Id(payload[i])
  BY <1>3
<1>10. QED BY <1>1, <1>4, <1>7, <1>8, <1>9

(* The dependencies of an Execute mean the waits of the task. *)
LEMMA DepsOfWaits ==
  ASSUME UNCHANGED <<prog, addr, gen>>, prog \in Programs, NEW t \in Tasks(prog), NEW side,
         \A i \in DOMAIN prog.tasks[t].waits :
           LET m == prog.tasks[t].waits[i].mem
           IN BufId(order', m) \in DOMAIN order' /\ order'[BufId(order', m)] = m
  PROVE  \E deps, waits :
           /\ waits = Waits(t, side)
           /\ deps = [j \in DOMAIN waits |->
                        [sem |-> Fused(waits[j].sem), buf |-> BufId(order', waits[j].mem)]]
           /\ DepsMean(deps, waits)'
<1>1. PICK waits : waits = Waits(t, side)
  OBVIOUS
<1>2. PICK table : table = order'
  OBVIOUS
<1>3. PICK deps : deps = [j \in DOMAIN waits |->
                        [sem |-> Fused(waits[j].sem), buf |-> BufId(table, waits[j].mem)]]
  OBVIOUS
<1>4. \A j \in DOMAIN waits : /\ BufId(table, waits[j].mem) \in DOMAIN table
                              /\ table[BufId(table, waits[j].mem)] = waits[j].mem
  <2>1. SUFFICES ASSUME NEW j \in DOMAIN waits
                 PROVE  /\ BufId(table, waits[j].mem) \in DOMAIN table
                        /\ table[BufId(table, waits[j].mem)] = waits[j].mem
    OBVIOUS
  <2>2. PICK i \in DOMAIN prog.tasks[t].waits : waits[j] = prog.tasks[t].waits[i]
    BY <1>1, WaitsTyped
  <2>3. QED BY <1>2, <2>2
<1>5. /\ \A j \in DOMAIN waits : /\ deps[j].sem = Fused(waits[j].sem)
                                 /\ deps[j].buf = BufId(table, waits[j].mem)
      /\ deps = [j \in DOMAIN waits |-> deps[j]]
  BY <1>3
<1>6. \A s : Fused(s)' = Fused(s)
  BY DEF Fused
<1>7. DepsMean(deps, waits)'
  BY <1>2, <1>4, <1>5, <1>6 DEF DepsMean, Buffer
<1>8. QED BY <1>1, <1>2, <1>3, <1>7

(* An Execute is that of its task.                                          *)
LEMMA EmitExecuteKeepsStream ==
  ASSUME PortsInv, KernelInv, StreamInv, EmitExecute
  PROVE  StreamInv'
<1>1. PICK q, t : q = pos /\ t = Here
  OBVIOUS
<1>2. /\ prog \in Programs /\ Reached("marker") /\ t \in Tasks(prog)
      /\ \A u \in Unsupported : kernel[u].form = "marker"
      /\ q \in DOMAIN prog.body /\ prog.body[q].op = "execute" /\ prog.body[q].id = t
  BY <1>1, EmittingFacts DEF EmitExecute, Here
<1>3. q \in Commands
  <2>1. kernel[t].form = "execute"
    BY <1>1 DEF EmitExecute
  <2>2. t \notin Unsupported
    BY <1>2, <2>1
  <2>3. QED BY <1>2, <2>2 DEF Commands
<1>4. /\ UNCHANGED <<vars, riscvState, maxSemAddr>> /\ pos' = pos + 1
      /\ order' = Assigned(order, ExecuteMems(t))
  BY <1>1 DEF EmitExecute
<1>5. UNCHANGED <<prog, addr, gen>>
  BY <1>4, FusedStay
<1>6. /\ order' \in Seq(Nat) /\ Injective(order') /\ OrderGrows
      /\ \A j \in DOMAIN ExecuteMems(t) :
           /\ BufId(order', ExecuteMems(t)[j]) \in DOMAIN order'
           /\ order'[BufId(order', ExecuteMems(t)[j])] = ExecuteMems(t)[j]
  <2>1. PICK mems : mems = ExecuteMems(t)
    OBVIOUS
  <2>2. mems \in Seq(Nat) /\ order' = Assigned(order, mems)
    BY <1>2, <1>4, <2>1, MentionedMems
  <2>3. /\ order' \in Seq(Nat) /\ Injective(order') /\ OrderGrows
        /\ \A j \in DOMAIN mems :
             BufId(order', mems[j]) \in DOMAIN order' /\ order'[BufId(order', mems[j])] = mems[j]
    BY <2>2, TableGrows DEF StreamInv
  <2>4. QED BY <2>1, <2>3
<1>7. \A i \in DOMAIN prog.tasks[t].waits :
        LET m == prog.tasks[t].waits[i].mem
        IN BufId(order', m) \in DOMAIN order' /\ order'[BufId(order', m)] = m
  <2>1. SUFFICES ASSUME NEW i \in DOMAIN prog.tasks[t].waits
                 PROVE  LET m == prog.tasks[t].waits[i].mem
                        IN BufId(order', m) \in DOMAIN order' /\ order'[BufId(order', m)] = m
    OBVIOUS
  <2>2. PICK j \in DOMAIN ExecuteMems(t) : ExecuteMems(t)[j] = prog.tasks[t].waits[i].mem
    BY <1>2, MentionedMems
  <2>3. QED BY <1>6, <2>2
<1>8. PICK acquires, acqWaits :
        /\ acqWaits = Waits(t, "acquire")
        /\ acquires = [j \in DOMAIN acqWaits |->
                         [sem |-> Fused(acqWaits[j].sem), buf |-> BufId(order', acqWaits[j].mem)]]
        /\ DepsMean(acquires, acqWaits)'
  BY <1>2, <1>5, <1>7, DepsOfWaits
<1>9. PICK requires, reqWaits :
        /\ reqWaits = Waits(t, "require")
        /\ requires = [j \in DOMAIN reqWaits |->
                         [sem |-> Fused(reqWaits[j].sem), buf |-> BufId(order', reqWaits[j].mem)]]
        /\ DepsMean(requires, reqWaits)'
  BY <1>2, <1>5, <1>7, DepsOfWaits
<1>10. PICK work, payload :
        /\ work = prog.tasks[t].payload
        /\ payload = [i \in DOMAIN work |-> BufId(order', Id(work[i]))]
  OBVIOUS
<1>11. \A i \in DOMAIN work : Buffer(payload[i], Id(work[i]))'
  <2>1. SUFFICES ASSUME NEW i \in DOMAIN work PROVE Buffer(payload[i], Id(work[i]))'
    OBVIOUS
  <2>2. PICK j \in DOMAIN ExecuteMems(t) : ExecuteMems(t)[j] = Id(work[i])
    BY <1>2, <1>10, MentionedMems
  <2>3. payload[i] \in DOMAIN order' /\ order'[payload[i]] = Id(work[i])
    BY <1>6, <1>10, <2>2
  <2>4. QED BY <2>3 DEF Buffer
<1>12. PICK c : /\ c = [cmd |-> "Execute", acquires |-> acquires, requires |-> requires,
                        payload |-> payload]
                /\ stream' = Append(stream, c)
  BY <1>1, <1>4, <1>8, <1>9, <1>10 DEF EmitExecute
<1>13. Says(c, q)'
  <2>1. /\ c.cmd = "Execute" /\ c.acquires = acquires /\ c.requires = requires
        /\ c.payload = payload /\ DOMAIN payload = DOMAIN work
    BY <1>10, <1>12
  <2>2. Waits(t, "acquire")' = acqWaits /\ Waits(t, "require")' = reqWaits /\ prog' = prog
    BY <1>4, <1>8, <1>9, FusedStay
  <2>3. TaskCommand(c, t)'
    BY <1>8, <1>9, <1>10, <1>11, <2>1, <2>2 DEF TaskCommand
  <2>4. QED BY <1>2, <2>2, <2>3 DEF Says
<1>14. maxSemAddr' \in 0 .. NumPairs
  BY <1>4 DEF StreamInv
<1>15. QED BY <1>1, <1>2, <1>3, <1>4, <1>6, <1>12, <1>13, <1>14, CommandKeepsStream

(* Whatever the next step, the stream says what the program does.           *)
LEMMA StepKeepsStream ==
  ASSUME TypeOK, IInv, PortsInv, KernelInv, StreamInv, [ImageNext]_imageVars
  PROVE  StreamInv'
<1>1. CASE AssignAddresses
  BY <1>1, AssignKeepsStream DEF AssignAddresses
<1>2. CASE RiscvStep
  BY <1>2, RiscvKeepsStream
<1>3. CASE EmitSemAlloc
  BY <1>3, EmitSemAllocKeepsStream
<1>4. CASE EmitExecute
  BY <1>4, EmitExecuteKeepsStream
<1>5. CASE EmitMemory("alloc", "MemAlloc")
  BY <1>5, EmitMemoryKeepsStream
<1>6. CASE EmitMemory("dealloc", "MemDealloc")
  BY <1>6, EmitMemoryKeepsStream
<1>7. CASE PassOver
  BY <1>7, PassOverKeepsStream
<1>8. CASE UNCHANGED imageVars
  BY <1>8, AssignKeepsStream DEF imageVars
<1>9. QED
  BY <1>1, <1>2, <1>3, <1>4, <1>5, <1>6, <1>7, <1>8 DEF ImageNext, EmitStep

(* The invariant behind the stream holds throughout.                        *)
LEMMA StreamInvariance ==
  ImageSpec => [](TypeOK /\ IInv /\ PortsInv /\ KernelInv /\ StreamInv)
<1>1. ImageInit => TypeOK /\ IInv /\ PortsInv /\ KernelInv /\ StreamInv
  BY InitTypes, InitInv, InitPorts, InitKernels, InitStream DEF ImageInit
<1>2. TypeOK /\ IInv /\ PortsInv /\ KernelInv /\ StreamInv /\ [ImageNext]_imageVars
        => (TypeOK /\ IInv /\ PortsInv /\ KernelInv /\ StreamInv)'
  BY ImageStep, NextTypes, NextInv, StepKeepsPorts, StepKeepsKernels, StepKeepsStream
<1>3. QED BY <1>1, <1>2, PTL DEF ImageSpec

(* Sets that answer to each other one by one have as many members. *)
LEMMA AsMany ==
  ASSUME NEW n \in Nat, NEW A \in SUBSET (1 .. n), NEW B, NEW f \in [A -> B],
         \A x, y \in A : f[x] = f[y] => x = y,
         \A z \in B : \E x \in A : f[x] = z
  PROVE  Cardinality(B) = Cardinality(A)
<1>1. IsFiniteSet(A)
  BY UpToFinite
<1>2. f \in Bijection(A, B)
  BY DEF Bijection, Injection, Surjection, IsInjective
<1>3. ExistsBijection(A, B)
  BY <1>2 DEF ExistsBijection
<1>4. QED BY <1>1, <1>3, FS_Bijection

(* Every command of the stream is that of an operation. *)
LEMMA CommandOf ==
  ASSUME PortsInv, StreamInv, NEW i \in DOMAIN stream
  PROVE  i \in Nat /\ \E q \in Commands : q < pos /\ Upto(q) = i
<1>1. PICK p \in Nat : p = pos - 1
  BY BodyFacts DEF StreamInv, PortsInv
<1>2. PICK V : stream \in Seq(V)
  BY DEF StreamInv
<1>3. PICK s \in Seq(V) : s = stream
  BY <1>2
<1>4. Len(s) = Upto(p)
  BY <1>1, <1>3 DEF StreamInv
<1>5. Len(s) \in Nat /\ DOMAIN s = 1 .. Len(s)
  OBVIOUS
<1>6. i \in 1 .. Upto(p)
  BY <1>3, <1>4, <1>5
<1>7. PICK q \in Commands : q <= p /\ Upto(q) = i
  BY <1>6, CommandAt DEF PortsInv
<1>8. q \in Nat /\ pos \in Nat
  BY CommandsCounted, BodyFacts DEF PortsInv, StreamInv
<1>9. QED BY <1>1, <1>5, <1>6, <1>7, <1>8

(* The places of the commands walked past. *)
LEMMA PlacedCommand ==
  ASSUME PortsInv, StreamInv, NEW q \in Commands, q < pos
  PROVE  /\ q \in Nat /\ q \in DOMAIN prog.body /\ Upto(q) \in DOMAIN stream /\ Upto(q) \in Nat
         /\ Upto(q) >= 1
         /\ Says(stream[Upto(q)], q)
         /\ \A r \in Commands : (r < q <=> Upto(r) < Upto(q)) /\ (r = q <=> Upto(r) = Upto(q))
         /\ stream[Upto(q)].cmd = "SemAlloc" <=> prog.body[q].op = "sem_alloc"
         /\ stream[Upto(q)].cmd = "Execute" <=> prog.body[q].op = "execute"
         /\ stream[Upto(q)].cmd = "MemAlloc" <=> prog.body[q].op = "alloc"
         /\ stream[Upto(q)].cmd = "MemDealloc" <=> prog.body[q].op = "dealloc"
<1>1. q \in Nat /\ q \in DOMAIN prog.body
  BY CommandsCounted DEF PortsInv, Commands
<1>2. /\ \A i : Upto(i) \in Nat
      /\ \A p \in Commands : p \in Nat /\ Upto(p) >= 1
      /\ \A p, r \in Commands : p < r => Upto(p) < Upto(r)
  BY CommandsCounted DEF PortsInv
<1>3. \A r \in Commands : (r < q <=> Upto(r) < Upto(q)) /\ (r = q <=> Upto(r) = Upto(q))
  <2>1. SUFFICES ASSUME NEW r \in Commands
                 PROVE  (r < q <=> Upto(r) < Upto(q)) /\ (r = q <=> Upto(r) = Upto(q))
    OBVIOUS
  <2>2. /\ r \in Nat /\ q \in Nat /\ Upto(r) \in Nat /\ Upto(q) \in Nat
        /\ r < q => Upto(r) < Upto(q)
        /\ q < r => Upto(q) < Upto(r)
    BY <1>2
  <2>3. QED BY <2>2
<1>4. Upto(q) \in DOMAIN stream
  <2>1. PICK p \in Nat : p = pos - 1
    BY BodyFacts DEF StreamInv, PortsInv
  <2>2. PICK V : stream \in Seq(V)
    BY DEF StreamInv
  <2>3. PICK s \in Seq(V) : s = stream
    BY <2>2
  <2>4. Len(s) = Upto(p) /\ DOMAIN s = 1 .. Len(s)
    BY <2>1, <2>3 DEF StreamInv
  <2>5. Upto(q) <= Upto(p)
    <3>1. pos \in Nat /\ q <= p
      BY <1>1, <2>1, BodyFacts DEF StreamInv, PortsInv
    <3>2. PICK n \in Nat : Commands \in SUBSET (1 .. n)
      BY BodyFacts DEF PortsInv
    <3>3. UpTo(Commands, q) \subseteq UpTo(Commands, p)
      <4>1. \A k \in Commands : k \in Nat /\ (k <= q => k <= p)
        BY <1>1, <1>2, <3>1
      <4>2. QED BY <4>1 DEF UpTo
    <3>4. IsFiniteSet(UpTo(Commands, p))
      BY <3>2, UpToFinite
    <3>5. QED BY <3>3, <3>4, FS_Subset DEF Upto
  <2>6. QED BY <1>2, <2>3, <2>4, <2>5
<1>5. Says(stream[Upto(q)], q)
  BY DEF StreamInv
<1>6. prog.body[q].op \in {"sem_alloc", "execute", "alloc", "dealloc"}
  BY <1>1, BodyFacts DEF PortsInv, Commands, OpNames
<1>7. /\ stream[Upto(q)].cmd = "SemAlloc" <=> prog.body[q].op = "sem_alloc"
      /\ stream[Upto(q)].cmd = "Execute" <=> prog.body[q].op = "execute"
      /\ stream[Upto(q)].cmd = "MemAlloc" <=> prog.body[q].op = "alloc"
      /\ stream[Upto(q)].cmd = "MemDealloc" <=> prog.body[q].op = "dealloc"
  <2>1. PICK c : c = stream[Upto(q)]
    OBVIOUS
  <2>2. PICK op : op = prog.body[q].op
    OBVIOUS
  <2>3. \A cmd, m : MemCommand(c, cmd, m) => c.cmd = cmd
    BY DEF MemCommand
  <2>4. op = "execute" => c.cmd = "Execute"
    BY <1>5, <2>1, <2>2 DEF Says, TaskCommand
  <2>5. op = "alloc" => c.cmd = "MemAlloc"
    BY <1>5, <2>1, <2>2, <2>3 DEF Says
  <2>6. op = "dealloc" => c.cmd = "MemDealloc"
    BY <1>5, <2>1, <2>2, <2>3 DEF Says
  <2>7. op = "sem_alloc" => c.cmd = "SemAlloc"
    BY <1>5, <2>1, <2>2 DEF Says, SemCommand
  <2>8. QED BY <1>6, <2>1, <2>2, <2>4, <2>5, <2>6, <2>7
<1>8. QED BY <1>1, <1>2, <1>3, <1>4, <1>5, <1>7

-----------------------------------------------------------------------------
(* Where the tasks stand in the program. *)
LEMMA ExecutePlaces ==
  ASSUME prog \in Programs
  PROVE  /\ \A t \in Tasks(prog) : \E i \in DOMAIN prog.body : At(prog, "execute", t) = {i}
         /\ \A q \in DOMAIN prog.body : prog.body[q].op = "execute" =>
              prog.body[q].id \in Tasks(prog) /\ At(prog, "execute", prog.body[q].id) = {q}
         /\ \A t, u \in Tasks(prog) : t < u =>
              \A i \in At(prog, "execute", t), j \in At(prog, "execute", u) : i < j
         /\ \E n \in Nat : Tasks(prog) = 1 .. n
<1>1. WellFormedBody(prog)
  BY BodiesAssumption
<1>2. /\ \A t \in Tasks(prog) : \E i \in DOMAIN prog.body : At(prog, "execute", t) = {i}
      /\ \A t, u \in Tasks(prog) : t < u =>
           \A i \in At(prog, "execute", t), j \in At(prog, "execute", u) : i < j
      /\ \A q \in DOMAIN prog.body : prog.body[q].op = "execute" => prog.body[q].id \in Tasks(prog)
      /\ prog.body \in Seq([op : OpNames, id : Nat]) /\ prog.tasks \in Seq(TaskType)
  BY <1>1 DEF WellFormedBody
<1>3. ASSUME NEW q \in DOMAIN prog.body, prog.body[q].op = "execute"
      PROVE  At(prog, "execute", prog.body[q].id) = {q}
  <2>1. prog.body[q] \in [op : OpNames, id : Nat]
    <3>1. prog.body \in Seq([op : OpNames, id : Nat])
      BY <1>2
    <3>2. \A i \in DOMAIN prog.body : prog.body[i] \in [op : OpNames, id : Nat]
      BY ONLY <3>1, SeqFacts
    <3>3. QED BY <3>2
  <2>2. prog.body[q] = [op |-> "execute", id |-> prog.body[q].id]
    <3>1. \A r \in [op : OpNames, id : Nat] : r = [op |-> r.op, id |-> r.id]
      OBVIOUS
    <3>2. QED BY <1>3, <2>1, <3>1
  <2>3. q \in At(prog, "execute", prog.body[q].id)
    BY <2>2 DEF At
  <2>4. QED BY <1>2, <1>3, <2>3
<1>4. \E n \in Nat : Tasks(prog) = 1 .. n
  BY <1>2 DEF Tasks
<1>5. QED BY <1>2, <1>3, <1>4

(* The task counted by an Execute is the one it was made from. *)
LEMMA TaskAtIs ==
  ASSUME PortsInv, StreamInv, NEW q \in Commands, q < pos, prog.body[q].op = "execute"
  PROVE  TaskAt(Upto(q)) = prog.body[q].id /\ prog.body[q].id \in Supported
<1>1. PICK t : t = prog.body[q].id
  OBVIOUS
<1>2. prog \in Programs /\ q \in DOMAIN prog.body
  BY PlacedCommand DEF PortsInv
<1>3. t \in Tasks(prog) /\ At(prog, "execute", t) = {q}
  BY <1>1, <1>2, ExecutePlaces
<1>4. t \in Supported
  BY <1>1, <1>3 DEF Commands, Supported
<1>5. PICK n \in Nat : Tasks(prog) = 1 .. n
  BY <1>2, ExecutePlaces
<1>6. Supported \in SUBSET (1 .. n)
  BY <1>5 DEF Supported
<1>7. PICK at : at = [u \in Supported |-> CHOOSE i \in DOMAIN prog.body :
                                            At(prog, "execute", u) = {i}]
  OBVIOUS
<1>8. ASSUME NEW u \in Supported
      PROVE  /\ at[u] \in Commands /\ At(prog, "execute", u) = {at[u]}
             /\ prog.body[at[u]].op = "execute" /\ prog.body[at[u]].id = u
  <2>1. u \in Tasks(prog) /\ u \notin Unsupported
    BY DEF Supported
  <2>2. at[u] \in DOMAIN prog.body /\ At(prog, "execute", u) = {at[u]}
    BY <1>2, <1>7, <2>1, ExecutePlaces
  <2>3. prog.body[at[u]] = [op |-> "execute", id |-> u]
    BY <2>2 DEF At
  <2>4. QED BY <2>1, <2>2, <2>3 DEF Commands
<1>9. PICK U, J : /\ U = {u \in Supported : u <= t}
                  /\ J = {j \in 1 .. Upto(q) : stream[j].cmd = "Execute"}
  OBVIOUS
<1>10. PICK f : f = [u \in U |-> Upto(at[u])]
  OBVIOUS
<1>11. \A u, v \in Supported : u < v => at[u] < at[v]
  <2>1. SUFFICES ASSUME NEW u \in Supported, NEW v \in Supported, u < v PROVE at[u] < at[v]
    OBVIOUS
  <2>2. u \in Tasks(prog) /\ v \in Tasks(prog)
    BY DEF Supported
  <2>3. at[u] \in At(prog, "execute", u) /\ at[v] \in At(prog, "execute", v)
    BY <1>8
  <2>4. QED BY <1>2, <2>1, <2>2, <2>3, ExecutePlaces
<1>12. at[t] = q
  BY <1>3, <1>4, <1>8
<1>13. \A u \in Supported : u \in Nat /\ at[u] \in Nat
  BY <1>2, <1>6, <1>8, CommandsCounted
<1>14. q \in Nat /\ t \in Nat /\ pos \in Nat
  BY <1>2, <1>4, <1>13, PlacedCommand, BodyFacts DEF StreamInv
<1>15. \A u \in U : u \in Supported /\ at[u] <= q /\ at[u] < pos
  <2>1. SUFFICES ASSUME NEW u \in U PROVE u \in Supported /\ at[u] <= q /\ at[u] < pos
    OBVIOUS
  <2>2. u \in Supported /\ u <= t /\ u \in Nat /\ at[u] \in Nat
    BY <1>9, <1>13
  <2>3. u < t \/ u = t
    BY <1>14, <2>2
  <2>4. at[u] <= q
    BY <1>4, <1>11, <1>12, <1>14, <2>2, <2>3
  <2>5. QED BY <1>14, <2>2, <2>4
<1>16. f \in [U -> J]
  <2>1. SUFFICES ASSUME NEW u \in U PROVE Upto(at[u]) \in J
    BY <1>10
  <2>2. u \in Supported /\ at[u] <= q /\ at[u] < pos
    BY <1>15
  <2>3. at[u] \in Commands /\ prog.body[at[u]].op = "execute"
    BY <1>8, <2>2
  <2>4. stream[Upto(at[u])].cmd = "Execute" /\ Upto(at[u]) \in Nat /\ Upto(at[u]) >= 1
    BY <2>2, <2>3, PlacedCommand
  <2>5. Upto(at[u]) <= Upto(q) /\ Upto(q) \in Nat
    <3>1. /\ \A r \in Commands : (r < q <=> Upto(r) < Upto(q)) /\ (r = q <=> Upto(r) = Upto(q))
          /\ Upto(q) \in Nat
      BY PlacedCommand
    <3>2. at[u] < q \/ at[u] = q
      BY <1>13, <1>14, <2>2
    <3>3. QED BY <2>3, <2>4, <3>1, <3>2
  <2>6. QED BY <1>9, <2>4, <2>5
<1>17. \A u, v \in U : f[u] = f[v] => u = v
  <2>1. SUFFICES ASSUME NEW u \in U, NEW v \in U, Upto(at[u]) = Upto(at[v]) PROVE u = v
    BY <1>10
  <2>2. u \in Supported /\ at[u] < pos /\ v \in Supported
    BY <1>15
  <2>3. at[u] \in Commands /\ at[v] \in Commands
    BY <1>8, <2>2
  <2>4. at[u] = at[v]
    BY <2>1, <2>2, <2>3, PlacedCommand
  <2>5. QED BY <1>8, <2>2, <2>4
<1>18. \A j \in J : \E u \in U : f[u] = j
  <2>1. SUFFICES ASSUME NEW j \in J PROVE \E u \in U : Upto(at[u]) = j
    BY <1>10
  <2>2. j \in 1 .. Upto(q) /\ stream[j].cmd = "Execute"
    BY <1>9
  <2>3. PICK r \in Commands : r <= q /\ Upto(r) = j
    BY <1>2, <1>14, <2>2, CommandAt
  <2>4. r \in Nat /\ r < pos
    BY <1>2, <1>14, <2>3, CommandsCounted
  <2>5. prog.body[r].op = "execute" /\ r \in DOMAIN prog.body
    BY <2>2, <2>3, <2>4, PlacedCommand
  <2>6. PICK u : u = prog.body[r].id
    OBVIOUS
  <2>7. u \in Tasks(prog) /\ At(prog, "execute", u) = {r}
    BY <1>2, <2>5, <2>6, ExecutePlaces
  <2>8. u \in Supported
    BY <2>5, <2>6, <2>7 DEF Commands, Supported
  <2>9. at[u] = r
    BY <1>8, <2>7, <2>8
  <2>10. u <= t
    <3>1. u \in Nat /\ ~ t < u
      <4>1. t < u => at[t] < at[u]
        BY <1>4, <1>11, <2>8
      <4>2. ~ q < r
        BY <1>14, <2>3, <2>4
      <4>3. QED BY <1>12, <1>13, <2>8, <2>9, <4>1, <4>2
    <3>2. QED BY <1>14, <3>1
  <2>11. QED BY <1>9, <2>3, <2>8, <2>9, <2>10
<1>19. Cardinality(J) = Cardinality(U)
  <2>1. U \in SUBSET (1 .. n)
    BY <1>6, <1>9
  <2>2. QED BY <1>16, <1>17, <1>18, <2>1, AsMany
<1>20. U = UpTo(Supported, t)
  BY <1>9 DEF UpTo
<1>21. TaskAt(Upto(q)) = CHOOSE u \in Supported : Cardinality(UpTo(Supported, u)) = Cardinality(U)
  BY <1>9, <1>19 DEF TaskAt, UpTo
<1>22. \A u \in Supported : Cardinality(UpTo(Supported, u)) = Cardinality(U) => u = t
  <2>1. \A x, y \in Supported : x < y =>
          Cardinality(UpTo(Supported, x)) < Cardinality(UpTo(Supported, y))
    BY <1>6, CountsRise
  <2>2. \A x \in Supported : Cardinality(UpTo(Supported, x)) \in Nat
    BY <1>6, UpToFinite
  <2>3. SUFFICES ASSUME NEW u \in Supported,
                        Cardinality(UpTo(Supported, u)) = Cardinality(UpTo(Supported, t))
                 PROVE  u = t
    BY <1>20
  <2>4. ~ u < t /\ ~ t < u
    BY <1>4, <2>1, <2>2, <2>3
  <2>5. QED BY <1>13, <1>14, <2>4
<1>23. QED BY <1>1, <1>4, <1>20, <1>21, <1>22

(* A sequence is the function of its elements.                              *)
LEMMA SeqIsTable ==
  ASSUME NEW V, NEW s \in Seq(V)
  PROVE  s = [j \in DOMAIN s |-> s[j]]
OBVIOUS

(* A function of the first n numbers is a sequence of n elements.           *)
LEMMA TableIsSeq ==
  ASSUME NEW n \in Nat, NEW f, f = [j \in 1 .. n |-> f[j]]
  PROVE  Len(f) = n /\ DOMAIN f = 1 .. n /\ \E V : f \in Seq(V)
<1>1. PICK V : V = {f[j] : j \in 1 .. n}
  OBVIOUS
<1>2. f \in [1 .. n -> V]
  BY <1>1
<1>3. f \in Seq(V)
  BY <1>2
<1>4. DOMAIN f = 1 .. n
  OBVIOUS
<1>5. Len(f) = n
  BY <1>3, <1>4
<1>6. QED BY <1>3, <1>4, <1>5

(* The elements of two sequences, one appended to the other.                *)
LEMMA TablesAppended ==
  ASSUME NEW n \in Nat, NEW f, f = [j \in 1 .. n |-> f[j]],
         NEW m \in Nat, NEW g, g = [j \in 1 .. m |-> g[j]]
  PROVE  /\ DOMAIN (f \o g) = 1 .. n + m
         /\ \A i \in 1 .. n + m : (f \o g)[i] = IF i <= n THEN f[i] ELSE g[i - n]
<1>1. PICK V : V = {f[j] : j \in 1 .. n} \cup {g[j] : j \in 1 .. m}
  OBVIOUS
<1>2. f \in [1 .. n -> V] /\ g \in [1 .. m -> V]
  BY <1>1
<1>3. f \in Seq(V) /\ g \in Seq(V) /\ Len(f) = n /\ Len(g) = m
  BY <1>2
<1>4. QED BY <1>3

-----------------------------------------------------------------------------
(* The memrefs of a task are announced when its Execute comes.              *)
LEMMA MemLive ==
  ASSUME PortsInv, StreamInv, NEW q \in Commands, q < pos, prog.body[q].op = "execute",
         NEW m \in Guarded(prog, prog.body[q].id) \cup Worked(prog, prog.body[q].id),
         NEW b, Buffer(b, m)
  PROVE  /\ \E j \in 1 .. Upto(q) - 1 : stream[j] = [cmd |-> "MemAlloc", buf |-> b]
         /\ ~ \E j \in 1 .. Upto(q) - 1 : stream[j] = [cmd |-> "MemDealloc", buf |-> b]
<1>1. PICK t : t = prog.body[q].id
  OBVIOUS
<1>2. prog \in Programs /\ q \in DOMAIN prog.body /\ q \in Nat /\ pos \in Nat
  BY PlacedCommand, BodyFacts DEF PortsInv, StreamInv
<1>3. t \in Tasks(prog) /\ At(prog, "execute", t) = {q}
  BY <1>1, <1>2, ExecutePlaces
<1>4. /\ \E a \in At(prog, "alloc", m) : a < q
      /\ \A d \in At(prog, "dealloc", m) : q < d
  <2>1. WellFormedBody(prog)
    BY <1>2, BodiesAssumption
  <2>2. PICK i \in DOMAIN prog.body :
          /\ At(prog, "execute", t) = {i}
          /\ \A x \in Guarded(prog, t) \cup Worked(prog, t) :
               /\ \E a \in At(prog, "alloc", x) : a < i
               /\ \A d \in At(prog, "dealloc", x) : i < d
    BY <1>3, <2>1 DEF WellFormedBody
  <2>3. i = q
    BY <1>3, <2>2
  <2>4. QED BY <1>1, <2>2, <2>3
<1>5. Injective(order)
  BY DEF StreamInv
<1>6. \E j \in 1 .. Upto(q) - 1 : stream[j] = [cmd |-> "MemAlloc", buf |-> b]
  <2>1. PICK a \in At(prog, "alloc", m) : a < q
    BY <1>4
  <2>2. a \in DOMAIN prog.body /\ prog.body[a].op = "alloc" /\ prog.body[a].id = m
    BY DEF At
  <2>3. a \in Commands /\ a \in Nat /\ a < pos
    <3>1. a \in Commands
      BY <2>2 DEF Commands
    <3>2. QED BY <1>2, <2>1, <3>1, CommandsCounted
  <2>4. /\ Says(stream[Upto(a)], a) /\ Upto(a) \in Nat /\ Upto(a) >= 1
        /\ Upto(q) \in Nat /\ Upto(a) < Upto(q)
    BY <2>1, <2>3, PlacedCommand
  <2>5. PICK c : c = stream[Upto(a)]
    OBVIOUS
  <2>6. MemCommand(c, "MemAlloc", m)
    BY <2>2, <2>4, <2>5 DEF Says
  <2>7. PICK x : c = [cmd |-> "MemAlloc", buf |-> x] /\ Buffer(x, m)
    BY <2>6 DEF MemCommand
  <2>8. x = b
    BY <1>5, <2>7 DEF Buffer, Injective
  <2>9. Upto(a) \in 1 .. Upto(q) - 1
    BY <2>4
  <2>10. stream[Upto(a)] = [cmd |-> "MemAlloc", buf |-> b]
    BY <2>5, <2>7, <2>8
  <2>11. QED BY <2>9, <2>10
<1>7. ASSUME NEW j \in 1 .. Upto(q) - 1, stream[j] = [cmd |-> "MemDealloc", buf |-> b]
      PROVE  FALSE
  <2>1. j \in 1 .. Upto(q) /\ j < Upto(q) /\ stream[j].cmd = "MemDealloc" /\ stream[j].buf = b
    <3>1. Upto(q) \in Nat
      BY PlacedCommand
    <3>2. QED BY <1>7, <3>1
  <2>2. PICK d \in Commands : d <= q /\ Upto(d) = j
    BY <1>2, <2>1, CommandAt
  <2>3. d \in Nat /\ d < pos
    BY <1>2, <2>2, CommandsCounted
  <2>4. d \in DOMAIN prog.body /\ prog.body[d].op = "dealloc" /\ Says(stream[j], d)
    BY <2>1, <2>2, <2>3, PlacedCommand
  <2>5. MemCommand(stream[j], "MemDealloc", prog.body[d].id)
    BY <2>4 DEF Says
  <2>6. PICK x : stream[j] = [cmd |-> "MemDealloc", buf |-> x] /\ Buffer(x, prog.body[d].id)
    BY <2>5 DEF MemCommand
  <2>7. x = b
    BY <2>1, <2>6
  <2>8. prog.body[d].id = m
    BY <2>6, <2>7 DEF Buffer
  <2>9. d \in At(prog, "dealloc", m)
    <3>1. prog.body \in Seq([op : OpNames, id : Nat])
      BY <1>2, BodiesAssumption DEF WellFormedBody
    <3>2. \A i \in DOMAIN prog.body : prog.body[i] \in [op : OpNames, id : Nat]
      BY ONLY <3>1, SeqFacts
    <3>3. prog.body[d] \in [op : OpNames, id : Nat]
      BY <2>4, <3>2
    <3>4. \A r \in [op : OpNames, id : Nat] : r = [op |-> r.op, id |-> r.id]
      OBVIOUS
    <3>5. prog.body[d] = [op |-> "dealloc", id |-> m]
      BY <2>4, <2>8, <3>3, <3>4
    <3>6. QED BY <2>4, <3>5 DEF At
  <2>10. q < d
    BY <1>4, <2>9
  <2>11. QED BY <1>2, <2>2, <2>3, <2>10
<1>8. QED BY <1>6, <1>7

(* A buffer id of the stream at position i means a memref that is live there. *)
NamesLive(i, b, m) ==
  /\ \E j \in 1 .. i - 1 : stream[j] = [cmd |-> "MemAlloc", buf |-> b]
  /\ ~ \E j \in 1 .. i - 1 : stream[j] = [cmd |-> "MemDealloc", buf |-> b]
  /\ b \in DOMAIN order /\ order[b] = m

(* The buffers of one Execute. *)
LEMMA ExecuteBuffers ==
  ASSUME PortsInv, StreamInv, NEW at \in DOMAIN stream, stream[at].cmd = "Execute"
  PROVE  LET deps == stream[at].acquires \o stream[at].requires
             waits == Waits(TaskAt(at), "acquire") \o Waits(TaskAt(at), "require")
         IN /\ \A j \in DOMAIN deps : NamesLive(at, deps[j].buf, waits[j].mem)
            /\ \A j \in DOMAIN stream[at].payload :
                 NamesLive(at, stream[at].payload[j], Id(prog.tasks[TaskAt(at)].payload[j]))
<1>1. PICK q \in Commands : q < pos /\ Upto(q) = at
  BY CommandOf
<1>2. PICK t, c : t = prog.body[q].id /\ c = stream[Upto(q)]
  OBVIOUS
<1>3. prog.body[q].op = "execute"
  BY <1>1, PlacedCommand
<1>4. TaskAt(at) = t
  BY <1>1, <1>2, <1>3, TaskAtIs
<1>5. PICK a, r : a = c.acquires /\ r = c.requires
  OBVIOUS
<1>6. PICK wa, wr : wa = Waits(t, "acquire") /\ wr = Waits(t, "require")
  OBVIOUS
<1>7. /\ prog \in Programs /\ t \in Tasks(prog) /\ t \notin Unsupported
      /\ TaskCommand(c, t)
  <2>1. Says(c, q) /\ q \in DOMAIN prog.body
    BY <1>1, <1>2, PlacedCommand
  <2>2. TaskCommand(c, t)
    BY <1>2, <1>3, <2>1 DEF Says
  <2>3. t \notin Unsupported
    BY <1>2, <1>3 DEF Commands
  <2>4. QED BY <1>2, <1>3, <2>1, <2>2, <2>3, ExecutePlaces DEF PortsInv
<1>8. ASSUME NEW m \in Guarded(prog, t) \cup Worked(prog, t), NEW b, Buffer(b, m)
      PROVE  NamesLive(at, b, m)
  BY <1>1, <1>2, <1>8, <1>3, MemLive DEF Buffer, NamesLive
<1>9. ASSUME NEW side, NEW deps, DepsMean(deps, Waits(t, side))
      PROVE  /\ \A j \in DOMAIN Waits(t, side) : NamesLive(at, deps[j].buf, Waits(t, side)[j].mem)
             /\ \E n \in Nat : DOMAIN Waits(t, side) = 1 .. n
  <2>1. PICK waits : waits = Waits(t, side)
    OBVIOUS
  <2>2. /\ waits \in Seq(WaitType)
        /\ \A j \in DOMAIN waits : \E i \in DOMAIN prog.tasks[t].waits :
             waits[j] = prog.tasks[t].waits[i]
    BY <1>7, <2>1, WaitsTyped
  <2>3. \A j \in DOMAIN waits : waits[j].mem \in Guarded(prog, t)
    BY <2>2 DEF Guarded
  <2>4. \A j \in DOMAIN waits : Buffer(deps[j].buf, waits[j].mem)
    BY <1>9, <2>1 DEF DepsMean
  <2>5. \A j \in DOMAIN waits : NamesLive(at, deps[j].buf, waits[j].mem)
    BY <1>8, <2>3, <2>4
  <2>6. Len(waits) \in Nat /\ DOMAIN waits = 1 .. Len(waits)
    BY ONLY <2>2, SeqFacts
  <2>7. QED BY <2>1, <2>5, <2>6
<1>10. DepsMean(a, wa) /\ DepsMean(r, wr)
  BY <1>7, <1>5, <1>6 DEF TaskCommand
<1>11. PICK n, m \in Nat : DOMAIN wa = 1 .. n /\ DOMAIN wr = 1 .. m
  BY <1>9, <1>10, <1>6
<1>12. /\ a = [j \in 1 .. n |-> a[j]] /\ r = [j \in 1 .. m |-> r[j]]
      /\ wa = [j \in 1 .. n |-> wa[j]] /\ wr = [j \in 1 .. m |-> wr[j]]
  <2>1. a = [j \in 1 .. n |-> a[j]] /\ r = [j \in 1 .. m |-> r[j]]
    BY <1>10, <1>11 DEF DepsMean
  <2>2. wa \in Seq(WaitType) /\ wr \in Seq(WaitType)
    BY <1>7, <1>6, WaitsTyped
  <2>3. wa = [j \in DOMAIN wa |-> wa[j]] /\ wr = [j \in DOMAIN wr |-> wr[j]]
    BY ONLY <2>2, SeqIsTable
  <2>4. QED BY <1>11, <2>1, <2>3
<1>13. /\ DOMAIN (a \o r) = 1 .. n + m
       /\ \A i \in 1 .. n + m : (a \o r)[i] = IF i <= n THEN a[i] ELSE r[i - n]
       /\ \A i \in 1 .. n + m : (wa \o wr)[i] = IF i <= n THEN wa[i] ELSE wr[i - n]
  <2>1. n \in Nat /\ m \in Nat
    OBVIOUS
  <2>2. /\ DOMAIN (a \o r) = 1 .. n + m
        /\ \A i \in 1 .. n + m : (a \o r)[i] = IF i <= n THEN a[i] ELSE r[i - n]
    BY ONLY <1>12, <2>1, TablesAppended
  <2>3. \A i \in 1 .. n + m : (wa \o wr)[i] = IF i <= n THEN wa[i] ELSE wr[i - n]
    BY ONLY <1>12, <2>1, TablesAppended
  <2>4. QED BY <2>2, <2>3
<1>14. \A j \in DOMAIN (a \o r) : NamesLive(at, (a \o r)[j].buf, (wa \o wr)[j].mem)
  <2>1. SUFFICES ASSUME NEW j \in 1 .. n + m
                 PROVE  NamesLive(at, (a \o r)[j].buf, (wa \o wr)[j].mem)
    BY <1>13
  <2>2. CASE j <= n
    <3>1. j \in DOMAIN wa
      BY <1>11, <2>2
    <3>2. NamesLive(at, a[j].buf, wa[j].mem)
      BY <1>9, <1>10, <1>6, <3>1
    <3>3. (a \o r)[j] = a[j] /\ (wa \o wr)[j] = wa[j]
      BY <1>13, <2>2
    <3>4. QED BY <3>2, <3>3
  <2>3. CASE ~ j <= n
    <3>1. j - n \in DOMAIN wr
      BY <1>11, <2>3
    <3>2. NamesLive(at, r[j - n].buf, wr[j - n].mem)
      BY <1>9, <1>10, <1>6, <3>1
    <3>3. (a \o r)[j] = r[j - n] /\ (wa \o wr)[j] = wr[j - n]
      BY <1>13, <2>3
    <3>4. QED BY <3>2, <3>3
  <2>4. QED BY <2>2, <2>3
<1>15. \A j \in DOMAIN c.payload : NamesLive(at, c.payload[j], Id(prog.tasks[t].payload[j]))
  <2>1. SUFFICES ASSUME NEW j \in DOMAIN prog.tasks[t].payload
                 PROVE  NamesLive(at, c.payload[j], Id(prog.tasks[t].payload[j]))
    BY <1>7 DEF TaskCommand
  <2>2. Buffer(c.payload[j], Id(prog.tasks[t].payload[j]))
    BY <1>7 DEF TaskCommand
  <2>3. Id(prog.tasks[t].payload[j]) \in Worked(prog, t)
    <3>1. WellFormedBody(prog)
      BY <1>7, BodiesAssumption
    <3>2. prog.tasks[t].payload[j] \in Range(prog.tasks[t].payload)
      BY DEF Range
    <3>3. ~ prog.tasks[t].unsupported
      BY <1>7 DEF Unsupported
    <3>4. \A v \in Range(prog.tasks[t].payload) :
            Kind(v) = "mem" \/ (Kind(v) = "const" /\ prog.tasks[t].unsupported)
      BY <1>7, <3>1 DEF WellFormedBody
    <3>5. Kind(prog.tasks[t].payload[j]) = "mem"
      BY <3>2, <3>3, <3>4
    <3>6. QED BY <3>2, <3>5 DEF Worked
  <2>4. QED BY <1>8, <2>2, <2>3
<1>16. QED BY <1>1, <1>2, <1>14, <1>15, <1>4, <1>5, <1>6

(* Whatever the order of the rewrites and of the operations, a buffer id of *)
(* an Execute is the memref of its task, live at that point.                *)
THEOREM StreamBuffersAreAllocated == ImageSpec => []BuffersAllocated
<1>1. PortsInv /\ StreamInv => BuffersAllocated
  <2> SUFFICES ASSUME PortsInv, StreamInv, NEW i \in DOMAIN stream, stream[i].cmd = "Execute"
               PROVE  LET deps == stream[i].acquires \o stream[i].requires
                          waits == Waits(TaskAt(i), "acquire") \o Waits(TaskAt(i), "require")
                      IN /\ \A j \in DOMAIN deps : NamesLive(i, deps[j].buf, waits[j].mem)
                         /\ \A j \in DOMAIN stream[i].payload :
                              NamesLive(i, stream[i].payload[j],
                                        Id(prog.tasks[TaskAt(i)].payload[j]))
    BY Zenon DEF BuffersAllocated, NamesLive
  <2>1. QED BY ExecuteBuffers
<1>2. QED BY <1>1, StreamInvariance, PTL

(* The length of a sequence listed by position.                             *)
LEMMA ListedLen ==
  ASSUME NEW n \in Nat, NEW s, Listed(s, n)
  PROVE  Len(s) = n
BY TableIsSeq DEF Listed

(* A kernel's call has an operand for every parameter, until it loses both. *)
LEMMA ShapesMatch ==
  ASSUME prog \in Programs, NEW t \in Tasks(prog), NEW k, Shape(t, k), k.form \in FormNames
  PROVE  /\ k.form \notin {"llvm", "marker"} => Len(k.call) = Len(k.params)
         /\ Len(k.inner) = Len(k.implParams)
<1>1. PICK n, m \in Nat :
        /\ DOMAIN Captured(t) = 1 .. n /\ DOMAIN Data(t) = 1 .. m
        /\ Data(t) = Place(n, SemArgs(t))
  BY DataPlaces, Zenon
<1>2. /\ Listed(Captured(t), n) /\ Listed(Plain(t), n) /\ Listed(Data(t), m)
      /\ Listed([a \in DOMAIN Captured(t) |-> Arg(a)], n)
      /\ Listed([j \in DOMAIN Data(t) |-> Datum(t, j)], m)
      /\ Listed([j \in DOMAIN Data(t) |-> Arg(Data(t)[j])], m)
      /\ Listed([j \in DOMAIN Data(t) |->
                   IF Kind(Datum(t, j)) = "mem" THEN Datum(t, j) ELSE Arg(Data(t)[j])], m)
  <2>1. Captured(t) \in Seq(Values)
    BY CapturedTyped
  <2>2. Captured(t) = [a \in DOMAIN Captured(t) |-> Captured(t)[a]]
    BY ONLY <2>1, SeqIsTable
  <2>3. Listed(Captured(t), n)
    BY <1>1, <2>2 DEF Listed
  <2>4. Listed(Plain(t), n)
    BY <1>1 DEF Listed, Plain
  <2>5. Listed(Data(t), m)
    <3>1. Data(t) = [j \in DOMAIN Data(t) |-> Data(t)[j]]
      BY <1>1 DEF Place
    <3>2. QED BY <1>1, <3>1 DEF Listed
  <2>6. Listed([a \in DOMAIN Captured(t) |-> Arg(a)], n)
    BY <1>1 DEF Listed
  <2>7. /\ Listed([j \in DOMAIN Data(t) |-> Datum(t, j)], m)
        /\ Listed([j \in DOMAIN Data(t) |-> Arg(Data(t)[j])], m)
    BY <1>1 DEF Listed
  <2>8. Listed([j \in DOMAIN Data(t) |->
                   IF Kind(Datum(t, j)) = "mem" THEN Datum(t, j) ELSE Arg(Data(t)[j])], m)
    BY <1>1 DEF Listed
  <2>9. QED BY <2>3, <2>4, <2>5, <2>6, <2>7, <2>8
<1>3. Len(<< >>) = 0
  OBVIOUS
<1>4. k.form \in {"execute", "riscv_execute"} =>
        Len(k.call) = Len(k.params) /\ Len(k.inner) = Len(k.implParams)
  BY DEF Shape
<1>5. k.form \in Outlined => Len(k.call) = Len(k.params)
  <2>1. k.form \in Outlined => k.call = Captured(t) /\ k.params = Plain(t)
    BY DEF Shape
  <2>2. Len(Captured(t)) = n /\ Len(Plain(t)) = n
    BY <1>2, ListedLen
  <2>3. QED BY <2>1, <2>2
<1>6. k.form = "riscv_kernel" => Len(k.inner) = Len(k.implParams)
  BY DEF Shape
<1>7. k.form \in {"wrapped", "lowered"} => Len(k.inner) = Len(k.implParams)
  <2>1. k.form \in {"wrapped", "lowered"} =>
          k.implParams = Plain(t) /\ k.inner = [a \in DOMAIN Captured(t) |-> Arg(a)]
    BY DEF Shape
  <2>2. Len(Plain(t)) = n /\ Len([a \in DOMAIN Captured(t) |-> Arg(a)]) = n
    BY <1>2, ListedLen
  <2>3. QED BY <2>1, <2>2
<1>8. Len(Data(t)) = m
  BY <1>2, ListedLen
<1>9. k.form \in Shortened => Len(k.call) = Len(k.params)
  <2>1. k.form \in Shortened =>
          k.params = Data(t) /\ k.call = [j \in DOMAIN Data(t) |-> Datum(t, j)]
    BY DEF Shape
  <2>2. Len([j \in DOMAIN Data(t) |-> Datum(t, j)]) = m
    BY <1>2, ListedLen
  <2>3. QED BY <1>8, <2>1, <2>2
<1>10. k.form \in Shortened \cup Bare => Len(k.inner) = Len(k.implParams)
  <2>1. k.form \in Shortened \cup Bare => Listed(k.inner, m)
    <3>1. k.form = "fixed" => Listed(k.inner, m)
      BY <1>2 DEF Shape
    <3>2. k.form = "placed" => Listed(k.inner, m)
      BY <1>2 DEF Shape
    <3>3. k.form \in Bare => Listed(k.inner, m)
      BY <1>2 DEF Shape
    <3>4. QED BY <3>1, <3>2, <3>3 DEF Shortened
  <2>2. k.form \in Shortened \cup Bare => k.implParams = Data(t)
    BY DEF Shape
  <2>3. QED BY <1>8, <2>1, <2>2, ListedLen
<1>11. k.form \in {"no_const", "no_memref"} => Len(k.call) = Len(k.params)
  <2>1. SUFFICES ASSUME k.form \in {"no_const", "no_memref"}
                 PROVE  Len(k.call) = Len(k.params)
    OBVIOUS
  <2>2. PICK l \in Nat : Listed(k.call, l) /\ Listed(k.params, l)
    BY <2>1 DEF Shape
  <2>3. QED BY <2>2, ListedLen
<1>12. QED
  BY <1>4, <1>5, <1>6, <1>7, <1>9, <1>10, <1>11 DEF FormNames, Outlined, Shortened, Bare

(* Type correctness of the back end. *)
THEOREM ImageTypeCorrect == ImageSpec => []ImageTypeOK
<1>1. TypeOK /\ PortsInv /\ KernelInv /\ StreamInv => ImageTypeOK
  <2> SUFFICES ASSUME TypeOK, PortsInv, KernelInv, StreamInv PROVE ImageTypeOK
    OBVIOUS
  <2>1. ASSUME NEW t \in Tasks(prog)
        PROVE  LET k == kernel[t] IN
                 /\ k.form \in Range(Forms) /\ (t \notin Unsupported => k.form = "execute")
                 /\ k.form \notin {"llvm", "marker"} => Len(k.call) = Len(k.params)
                 /\ Len(k.inner) = Len(k.implParams)
                 /\ k.sym \in NoSym .. counter - 1
    <3>1. PICK k : k = kernel[t]
      OBVIOUS
    <3>2. /\ Shape(t, k) /\ k.form \in FormNames /\ prog \in Programs
          /\ t \notin Unsupported => k.form = "execute"
          /\ k.sym \in NoSym .. counter - 1
      BY <3>1 DEF KernelInv, PortsInv
    <3>3. /\ k.form \notin {"llvm", "marker"} => Len(k.call) = Len(k.params)
          /\ Len(k.inner) = Len(k.implParams)
      BY <3>2, ShapesMatch
    <3>4. FormNames \subseteq Range(Forms)
      BY DEF FormNames, Outlined, Shortened, Bare, Range, Forms
    <3>5. QED BY <3>1, <3>2, <3>3, <3>4
  <2>2. /\ pos \in 1 .. Len(prog.body) + 1 /\ maxSemAddr \in 0 .. NumPairs
        /\ \A i, j \in DOMAIN order : order[i] = order[j] => i = j
    BY DEF StreamInv, Injective
  <2>3. \A t, u \in Tasks(prog) :
          kernel[t].sym = kernel[u].sym => t = u \/ kernel[t].sym = NoSym
    BY DEF KernelInv
  <2>4. QED BY <2>1, <2>2, <2>3 DEF ImageTypeOK
<1>2. QED BY <1>1, StreamInvariance, PTL

-----------------------------------------------------------------------------
(* An interval that is closed by a sem_dealloc does not end before it.      *)
EndsAtDeallocs ==
  phase # "build" =>
    \A s \in Sems(prog) : prog.dealloc[s] # NoOp => end[s] >= prog.dealloc[s]

(* At the start no interval is closed.                                      *)
LEMMA InitEnds == Init => EndsAtDeallocs
BY DEF Init, EndsAtDeallocs

(* Every sem_dealloc closes its interval at its place or later.             *)
LEMMA NextEnds ==
  ASSUME TypeOK, EndsAtDeallocs, [Next]_vars
  PROVE  EndsAtDeallocs'
<1>1. CASE VisitAlloc
  BY <1>1 DEF VisitAlloc, EndsAtDeallocs
<1>2. CASE VisitDeallocs
  <2>1. \A s \in Sems(prog) : prog.dealloc[s] # NoOp =>
          prog.dealloc[s] \in Nat /\ end'[s] = ClosedEnd(s)
    BY <1>2, ProgramFacts DEF VisitDeallocs
  <2>2. \A s \in Sems(prog) : chainedEnd[s] \in Nat \cup {NoOp}
    BY DEF TypeOK
  <2>3. \A s \in Sems(prog) : prog.dealloc[s] # NoOp => end'[s] >= prog.dealloc[s]
    BY <2>1, <2>2 DEF ClosedEnd, Later, NoOp
  <2>4. prog' = prog
    BY <1>2 DEF VisitDeallocs
  <2>5. QED BY <2>3, <2>4 DEF EndsAtDeallocs
<1>3. CASE AssignFresh \/ AssignRecycled \/ OutOfAddresses \/ Annotate \/ UNCHANGED vars
  <2>1. prog' = prog /\ end' = end /\ (phase' # "build" => phase # "build")
    BY <1>3 DEF AssignFresh, AssignRecycled, OutOfAddresses, Annotate, Assign, vars, intervals
  <2>2. QED BY <2>1 DEF EndsAtDeallocs
<1>4. QED BY <1>1, <1>2, <1>3 DEF Next

NamingInv == TypeOK /\ IInv /\ PortsInv /\ KernelInv /\ StreamInv /\ EndsAtDeallocs

(* All of these invariants hold throughout.                                 *)
LEMMA NamingInvariance == ImageSpec => []NamingInv
<1>1. ImageInit => NamingInv
  BY InitTypes, InitInv, InitPorts, InitKernels, InitStream, InitEnds DEF ImageInit, NamingInv
<1>2. NamingInv /\ [ImageNext]_imageVars => NamingInv'
  BY ImageStep, NextTypes, NextInv, StepKeepsPorts, StepKeepsKernels, StepKeepsStream, NextEnds
  DEF NamingInv
<1>3. QED BY <1>1, <1>2, PTL DEF ImageSpec

-----------------------------------------------------------------------------
(* Where the semaphores stand in the program. *)
LEMMA AllocPlaces ==
  ASSUME NamingInv
  PROVE  /\ \A s \in Sems(prog) : /\ prog.alloc[s] \in Commands /\ prog.alloc[s] \in Nat
                                  /\ prog.body[prog.alloc[s]].op = "sem_alloc"
                                  /\ prog.body[prog.alloc[s]].id = s
         /\ \A q \in DOMAIN prog.body : prog.body[q].op = "sem_alloc" =>
              prog.body[q].id \in Sems(prog) /\ q = prog.alloc[prog.body[q].id]
         /\ prog.sems \in Nat /\ Sems(prog) = 1 .. prog.sems
         /\ \A s, t \in Sems(prog) : s < t <=> prog.alloc[s] < prog.alloc[t]
<1>1. prog \in Programs /\ TypeOK
  BY DEF NamingInv, PortsInv
<1>2. WellFormedBody(prog)
  BY <1>1, BodiesAssumption
<1>3. /\ \A s \in Sems(prog) : At(prog, "sem_alloc", s) = {prog.alloc[s]}
      /\ \A q \in DOMAIN prog.body : prog.body[q].op = "sem_alloc" => prog.body[q].id \in Sems(prog)
      /\ prog.body \in Seq([op : OpNames, id : Nat])
  BY <1>2 DEF WellFormedBody
<1>4. ASSUME NEW s \in Sems(prog)
      PROVE  /\ prog.alloc[s] \in Commands /\ prog.alloc[s] \in Nat
             /\ prog.body[prog.alloc[s]].op = "sem_alloc" /\ prog.body[prog.alloc[s]].id = s
  <2>1. prog.alloc[s] \in At(prog, "sem_alloc", s)
    BY <1>3
  <2>2. /\ prog.alloc[s] \in DOMAIN prog.body
        /\ prog.body[prog.alloc[s]] = [op |-> "sem_alloc", id |-> s]
    BY <2>1 DEF At
  <2>3. prog.alloc[s] \in Nat
    BY <1>1, ProgramFacts
  <2>4. QED BY <2>2, <2>3 DEF Commands
<1>5. ASSUME NEW q \in DOMAIN prog.body, prog.body[q].op = "sem_alloc"
      PROVE  prog.body[q].id \in Sems(prog) /\ q = prog.alloc[prog.body[q].id]
  <2>1. prog.body[q].id \in Sems(prog)
    BY <1>3, <1>5
  <2>2. prog.body[q] \in [op : OpNames, id : Nat]
    <3>1. prog.body \in Seq([op : OpNames, id : Nat])
      BY <1>3
    <3>2. \A i \in DOMAIN prog.body : prog.body[i] \in [op : OpNames, id : Nat]
      BY ONLY <3>1, SeqFacts
    <3>3. QED BY <3>2
  <2>3. \A r \in [op : OpNames, id : Nat] : r = [op |-> r.op, id |-> r.id]
    OBVIOUS
  <2>4. prog.body[q] = [op |-> "sem_alloc", id |-> prog.body[q].id]
    BY <1>5, <2>2, <2>3
  <2>5. q \in At(prog, "sem_alloc", prog.body[q].id)
    BY <2>4 DEF At
  <2>6. QED BY <1>3, <2>1, <2>5
<1>6. prog.sems \in Nat /\ Sems(prog) = 1 .. prog.sems
  BY <1>1, ProgramFacts DEF Sems
<1>7. \A s, t \in Sems(prog) : s < t <=> prog.alloc[s] < prog.alloc[t]
  <2>1. SUFFICES ASSUME NEW s \in Sems(prog), NEW t \in Sems(prog)
                 PROVE  s < t <=> prog.alloc[s] < prog.alloc[t]
    OBVIOUS
  <2>2. /\ s < t => prog.alloc[s] < prog.alloc[t]
        /\ t < s => prog.alloc[t] < prog.alloc[s]
    BY <1>1, ProgramFacts
  <2>3. s \in Nat /\ t \in Nat /\ prog.alloc[s] \in Nat /\ prog.alloc[t] \in Nat
    BY <1>4, <1>6
  <2>4. QED BY <2>2, <2>3
<1>8. QED BY <1>4, <1>5, <1>6, <1>7

(* The SemAllocs before a command are those of the semaphores allocated     *)
(* before its operation.                                                    *)
LEMMA AllocsBeforeIs ==
  ASSUME NamingInv, NEW q \in Commands, q < pos
  PROVE  /\ \A x \in Sems(prog) : prog.alloc[x] < q =>
              /\ Upto(prog.alloc[x]) \in AllocsBefore(Upto(q))
              /\ stream[Upto(prog.alloc[x])].sem = Fused(x)
         /\ \A j \in AllocsBefore(Upto(q)) :
              j \in Nat /\ \E x \in Sems(prog) : prog.alloc[x] < q /\ j = Upto(prog.alloc[x])
<1>1. PortsInv /\ StreamInv /\ prog \in Programs
  BY DEF NamingInv, PortsInv
<1>2. pos \in Nat /\ q \in Nat /\ Upto(q) \in Nat
  BY <1>1, PlacedCommand, BodyFacts DEF StreamInv
<1>3. ASSUME NEW x \in Sems(prog), prog.alloc[x] < q
      PROVE  /\ Upto(prog.alloc[x]) \in AllocsBefore(Upto(q))
             /\ stream[Upto(prog.alloc[x])].sem = Fused(x)
  <2>1. PICK a : a = prog.alloc[x]
    OBVIOUS
  <2>2. /\ a \in Commands /\ a \in Nat /\ a < pos
        /\ prog.body[a].op = "sem_alloc" /\ prog.body[a].id = x
    BY <1>2, <1>3, <2>1, AllocPlaces
  <2>3. /\ Upto(a) \in Nat /\ Upto(a) >= 1 /\ stream[Upto(a)].cmd = "SemAlloc"
        /\ Says(stream[Upto(a)], a)
    BY <1>1, <2>2, PlacedCommand
  <2>4. Upto(a) < Upto(q)
    BY <1>1, <1>3, <2>1, <2>2, PlacedCommand
  <2>5. Upto(a) \in AllocsBefore(Upto(q))
    BY <1>2, <2>3, <2>4 DEF AllocsBefore
  <2>6. stream[Upto(a)].sem = Fused(x)
    BY <2>2, <2>3 DEF Says, SemCommand
  <2>7. QED BY <2>1, <2>5, <2>6
<1>4. ASSUME NEW j \in AllocsBefore(Upto(q))
      PROVE  j \in Nat /\ \E x \in Sems(prog) : prog.alloc[x] < q /\ j = Upto(prog.alloc[x])
  <2>1. j \in Nat /\ j \in 1 .. Upto(q) /\ j < Upto(q) /\ stream[j].cmd = "SemAlloc"
    BY <1>2 DEF AllocsBefore
  <2>2. PICK r \in Commands : r <= q /\ Upto(r) = j
    BY <1>1, <1>2, <2>1, CommandAt
  <2>3. r \in Nat /\ r < q /\ r < pos
    <3>1. r \in Nat
      BY <1>1, CommandsCounted
    <3>2. r < q
      BY <1>1, <2>1, <2>2, PlacedCommand
    <3>3. QED BY <1>2, <3>1, <3>2
  <2>4. prog.body[r].op = "sem_alloc" /\ r \in DOMAIN prog.body
    BY <1>1, <2>1, <2>2, <2>3, PlacedCommand
  <2>5. prog.body[r].id \in Sems(prog) /\ r = prog.alloc[prog.body[r].id]
    BY <2>4, AllocPlaces
  <2>6. QED BY <2>1, <2>2, <2>3, <2>5
<1>5. QED BY <1>3, <1>4

(* Before the SemAlloc of a semaphore there is one for each earlier one.    *)
LEMMA SemsCounted ==
  ASSUME NamingInv, NEW s \in Sems(prog), prog.alloc[s] < pos
  PROVE  Cardinality(AllocsBefore(Upto(prog.alloc[s]))) = s - 1
<1>1. PICK q \in Commands : q = prog.alloc[s]
  BY AllocPlaces
<1>2. PICK m \in Nat : m = s - 1
  BY AllocPlaces
<1>3. s \in Nat /\ \A x \in 1 .. m : x \in Sems(prog) /\ x < s
  BY <1>2, AllocPlaces
<1>4. PICK f : f = [x \in 1 .. m |-> Upto(prog.alloc[x])]
  OBVIOUS
<1>5. PICK B : B = AllocsBefore(Upto(q))
  OBVIOUS
<1>6. \A x \in Sems(prog) : x < s <=> prog.alloc[x] < q
  BY <1>1, AllocPlaces
<1>7. /\ \A x \in Sems(prog) : prog.alloc[x] < q => Upto(prog.alloc[x]) \in B
      /\ \A j \in B : \E x \in Sems(prog) : prog.alloc[x] < q /\ j = Upto(prog.alloc[x])
  BY <1>1, <1>5, AllocsBeforeIs
<1>8. f \in [1 .. m -> B]
  BY <1>3, <1>4, <1>6, <1>7
<1>9. \A x, y \in 1 .. m : f[x] = f[y] => x = y
  <2>1. SUFFICES ASSUME NEW x \in 1 .. m, NEW y \in 1 .. m,
                        Upto(prog.alloc[x]) = Upto(prog.alloc[y])
                 PROVE  x = y
    BY <1>4
  <2>2. x \in Sems(prog) /\ y \in Sems(prog) /\ x < s
    BY <1>3
  <2>3. PICK a, b \in Commands : a = prog.alloc[x] /\ b = prog.alloc[y]
    BY <2>2, AllocPlaces
  <2>4. a < q /\ a \in Nat /\ q \in Nat
    BY <1>1, <1>6, <2>2, <2>3, AllocPlaces
  <2>5. a < pos
    <3>1. pos \in Nat /\ q < pos
      BY <1>1, BodyFacts DEF NamingInv, StreamInv, PortsInv
    <3>2. QED BY <2>4, <3>1
  <2>6. a = b
    BY <2>1, <2>3, <2>5, PlacedCommand DEF NamingInv
  <2>7. QED BY <2>2, <2>3, <2>6, AllocPlaces
<1>10. \A j \in B : \E x \in 1 .. m : f[x] = j
  <2>1. SUFFICES ASSUME NEW j \in B PROVE \E x \in 1 .. m : f[x] = j
    OBVIOUS
  <2>2. PICK x \in Sems(prog) : prog.alloc[x] < q /\ j = Upto(prog.alloc[x])
    BY <1>7
  <2>3. x \in 1 .. m
    <3>1. x \in Nat /\ x >= 1 /\ x < s
      BY <1>6, <2>2, AllocPlaces
    <3>2. QED BY <1>2, <1>3, <3>1
  <2>4. QED BY <1>4, <2>2, <2>3
<1>11. Cardinality(B) = Cardinality(1 .. m)
  BY <1>8, <1>9, <1>10, AsMany
<1>12. Cardinality(1 .. m) = m
  BY FS_Interval
<1>13. QED BY <1>1, <1>2, <1>5, <1>11, <1>12

(* The fabric finds the last semaphore that was initialised under a fused   *)
(* address.                                                                 *)
LEMMA NamedIs ==
  ASSUME NamingInv, NEW q \in Commands, q < pos, NEW s \in Sems(prog), prog.alloc[s] < q,
         \A x \in Sems(prog) : prog.alloc[x] < q /\ Fused(x) = Fused(s) => x <= s
  PROVE  NamedAt(Upto(q), Fused(s)) = s
<1>1. PICK B, same : /\ B = AllocsBefore(Upto(q))
                     /\ same = {j \in B : stream[j].sem = Fused(s)}
  OBVIOUS
<1>2. PICK last : last = Upto(prog.alloc[s])
  OBVIOUS
<1>3. /\ pos \in Nat /\ q \in Nat /\ prog.alloc[s] \in Nat /\ prog.alloc[s] < pos
      /\ prog.alloc[s] \in Commands
  <2>1. pos \in Nat /\ q \in Nat
    BY PlacedCommand, BodyFacts DEF NamingInv, StreamInv, PortsInv
  <2>2. QED BY <2>1, AllocPlaces
<1>4. last \in same
  BY <1>1, <1>2, AllocsBeforeIs
<1>5. ASSUME NEW j \in same PROVE j <= last /\ j \in Nat
  <2>1. j \in B /\ stream[j].sem = Fused(s)
    BY <1>1
  <2>2. PICK x \in Sems(prog) : j \in Nat /\ prog.alloc[x] < q /\ j = Upto(prog.alloc[x])
    BY <1>1, <2>1, AllocsBeforeIs
  <2>3. Fused(x) = Fused(s)
    BY <2>1, <2>2, AllocsBeforeIs
  <2>4. x <= s
    BY <2>2, <2>3
  <2>5. x = s \/ x < s
    BY <2>4, AllocPlaces
  <2>6. CASE x < s
    <3>1. prog.alloc[x] < prog.alloc[s] /\ prog.alloc[x] \in Commands
      BY <2>6, AllocPlaces
    <3>2. j < last
      BY <1>2, <1>3, <2>2, <3>1, PlacedCommand DEF NamingInv
    <3>3. last \in Nat
      BY <1>2, <1>3, PlacedCommand DEF NamingInv
    <3>4. QED BY <2>2, <3>2, <3>3
  <2>7. CASE x = s
    BY <1>2, <2>2, <2>7
  <2>8. QED BY <2>5, <2>6, <2>7
<1>6. (CHOOSE j \in same : \A k \in same : k <= j) = last
  <2>1. \A j \in same : (\A k \in same : k <= j) => j = last
    <3>1. SUFFICES ASSUME NEW j \in same, \A k \in same : k <= j PROVE j = last
      OBVIOUS
    <3>2. last <= j /\ j <= last /\ j \in Nat /\ last \in Nat
      BY <1>4, <1>5, <3>1
    <3>3. QED BY <3>2
  <2>2. QED BY <1>4, <1>5, <2>1
<1>7. Cardinality(AllocsBefore(last)) = s - 1
  BY <1>2, <1>3, SemsCounted
<1>8. same # {}
  BY <1>4
<1>9. NamedAt(Upto(q), Fused(s)) = (s - 1) + 1
  BY <1>1, <1>6, <1>7, <1>8 DEF NamedAt
<1>10. QED BY <1>9, AllocPlaces

(* Semaphores of one fused address are tenants of one slot. *)
LEMMA FusedApart ==
  ASSUME NamingInv, FitsWord, phase = "done", NEW s \in Sems(prog), NEW x \in Sems(prog),
         Fused(x) = Fused(s)
  PROVE  /\ s \in Placed /\ x \in Placed /\ addr[x] = addr[s]
         /\ s < x => end[s] <= prog.alloc[x]
<1>1. TypeOK /\ IInv /\ cur = prog.sems + 1
  BY DEF NamingInv, PortsInv
<1>2. s \in Placed /\ x \in Placed
  BY <1>1, AllocPlaces DEF Placed
<1>3. /\ addr[s] \in Addrs /\ addr[x] \in Addrs
      /\ gen[s] \in 0 .. NumGenerations - 1 /\ gen[x] \in 0 .. NumGenerations - 1
  BY <1>1, <1>2 DEF IInv, LastTenant, TypeOK
<1>4. addr[x] * Scale + gen[x] = addr[s] * Scale + gen[s]
  BY <1>3, FuseIsPacking DEF Fused
<1>5. addr[x] = addr[s]
  <2>1. /\ Scale \in Nat /\ gen[s] \in 0 .. Scale - 1 /\ gen[x] \in 0 .. Scale - 1
    BY <1>3, FuseIsPacking
  <2>2. addr[s] \in Nat /\ addr[x] \in Nat
    BY <1>3 DEF Addrs
  <2>3. QED BY <1>4, <2>1, <2>2, PackingIsUnique
<1>6. s < x => end[s] <= prog.alloc[x]
  BY <1>1, <1>2, <1>5 DEF IInv, NoLiveOverlap
<1>7. QED BY <1>2, <1>5, <1>6

(* What the walk has passed tells that the addresses are final. *)
LEMMA WalkedIsDone ==
  ASSUME NamingInv, NEW q \in Commands, q < pos
  PROVE  phase = "done" /\ PortsInv /\ StreamInv /\ prog \in Programs
         /\ pos \in Nat /\ q \in Nat /\ q >= 1
<1>1. PortsInv /\ StreamInv /\ prog \in Programs
  BY DEF NamingInv, PortsInv
<1>2. pos \in Nat /\ q \in Nat /\ q >= 1
  BY <1>1, CommandsCounted, BodyFacts DEF StreamInv
<1>3. pos > 1
  BY <1>2
<1>4. QED BY <1>1, <1>2, <1>3 DEF StreamInv

(* A semaphore in use at an operation is found behind its fused address.    *)
LEMMA LiveIsNamed ==
  ASSUME NamingInv, FitsWord, NEW q \in Commands, q < pos, NEW s \in Sems(prog),
         prog.alloc[s] < q,
         \A x \in Sems(prog) : s < x /\ prog.alloc[x] < q => end[s] > prog.alloc[x]
  PROVE  NamedAt(Upto(q), Fused(s)) = s
<1>1. phase = "done"
  BY WalkedIsDone
<1>2. ASSUME NEW x \in Sems(prog), prog.alloc[x] < q, Fused(x) = Fused(s)
      PROVE  x <= s
  <2>1. ~ s < x
    <3>1. ASSUME s < x PROVE FALSE
      <4>1. end[s] <= prog.alloc[x] /\ end[s] > prog.alloc[x]
        BY <1>1, <1>2, <3>1, FusedApart
      <4>2. end[s] \in Nat /\ prog.alloc[x] \in Nat
        BY <1>1, AllocPlaces DEF NamingInv, IInv, EndsSettled
      <4>3. QED BY <4>1, <4>2
    <3>2. QED BY <3>1
  <2>2. x \in Nat /\ s \in Nat
    BY AllocPlaces
  <2>3. QED BY <2>1, <2>2
<1>3. QED BY <1>2, NamedIs

(* The dependencies of an Execute are what its task waits for: a semaphore  *)
(* is used before its sem_dealloc, and keeps its address till then.         *)
LEMMA DepsAreNamed ==
  ASSUME NamingInv, FitsWord, NEW q \in Commands, q < pos, prog.body[q].op = "execute",
         NEW deps, NEW side, DepsMean(deps, Waits(prog.body[q].id, side))
  PROVE  Means(Upto(q), deps, Waits(prog.body[q].id, side))
<1>1. PICK t, waits : t = prog.body[q].id /\ waits = Waits(t, side)
  OBVIOUS
<1>2. /\ phase = "done" /\ prog \in Programs /\ q \in DOMAIN prog.body
      /\ q \in Nat
  BY WalkedIsDone, PlacedCommand
<1>3. t \in Tasks(prog) /\ At(prog, "execute", t) = {q}
  BY <1>1, <1>2, ExecutePlaces
<1>4. waits \in Seq(WaitType)
  BY <1>1, <1>2, <1>3, WaitsTyped
<1>5. DOMAIN waits = 1 .. Len(waits) /\ Len(waits) \in Nat
  BY ONLY <1>4, SeqFacts
<1>6. DepsMean(deps, waits)
  BY <1>1
<1>7. Len(deps) = Len(waits)
  <2>1. Listed(deps, Len(waits))
    BY <1>5, <1>6 DEF DepsMean, Listed
  <2>2. QED BY <1>5, <2>1, ListedLen
<1>8. ASSUME NEW j \in DOMAIN waits
      PROVE  NamedAt(Upto(q), deps[j].sem) = waits[j].sem
  <2>1. PICK k \in DOMAIN prog.tasks[t].waits : waits[j] = prog.tasks[t].waits[k]
    BY <1>1, <1>2, <1>3, WaitsTyped
  <2>2. PICK s : s = waits[j].sem
    OBVIOUS
  <2>3. s \in Sems(prog) /\ prog.alloc[s] < q /\ q < prog.dealloc[s]
    <3>1. WellFormedBody(prog)
      BY <1>2, BodiesAssumption
    <3>2. PICK i \in DOMAIN prog.body :
            /\ At(prog, "execute", t) = {i}
            /\ \A l \in DOMAIN prog.tasks[t].waits :
                 LET x == prog.tasks[t].waits[l].sem
                 IN x \in Sems(prog) /\ prog.alloc[x] < i /\ i < prog.dealloc[x]
      BY <1>3, <3>1 DEF WellFormedBody
    <3>3. i = q
      BY <1>3, <3>2
    <3>4. QED BY <2>1, <2>2, <3>2, <3>3
  <2>4. end[s] >= prog.dealloc[s] /\ prog.dealloc[s] \in Nat /\ end[s] \in Nat
    <3>1. prog.dealloc[s] \in Nat \cup {NoOp}
      BY <2>3, ProgramFacts DEF NamingInv
    <3>2. prog.dealloc[s] # NoOp
      BY <1>2, <2>3 DEF NoOp
    <3>3. QED BY <1>2, <2>3, <3>1, <3>2 DEF NamingInv, EndsAtDeallocs, IInv, EndsSettled
  <2>5. \A x \in Sems(prog) : s < x /\ prog.alloc[x] < q => end[s] > prog.alloc[x]
    <3>1. \A x \in Sems(prog) : prog.alloc[x] \in Nat
      BY AllocPlaces
    <3>2. QED BY <1>2, <2>3, <2>4, <3>1
  <2>6. NamedAt(Upto(q), Fused(s)) = s
    BY <2>3, <2>5, LiveIsNamed
  <2>7. deps[j].sem = Fused(s)
    BY <1>6, <2>2 DEF DepsMean
  <2>8. QED BY <2>2, <2>6, <2>7
<1>9. QED BY <1>1, <1>7, <1>8 DEF Means

(* The chains of a SemAlloc are those of its semaphore: a chain target is   *)
(* reserved, or was the last tenant before.                                 *)
LEMMA ChainsAreNamed ==
  ASSUME NamingInv, FitsWord, NEW q \in Commands, q < pos, prog.body[q].op = "sem_alloc",
         NEW s, s = prog.body[q].id
  PROVE  /\ Cardinality(AllocsBefore(Upto(q))) + 1 = s
         /\ stream[Upto(q)].sem = Fused(s)
         /\ {c \in chains[s] : prog.dealloc[c] # NoOp}
              \subseteq {NamedAt(Upto(q), f) : f \in stream[Upto(q)].chains}
<1>1. phase = "done" /\ q \in DOMAIN prog.body
  BY WalkedIsDone, PlacedCommand
<1>2. s \in Sems(prog) /\ q = prog.alloc[s]
  BY <1>1, AllocPlaces
<1>3. /\ \A x, y \in Sems(prog) : x < y <=> prog.alloc[x] < prog.alloc[y]
      /\ \A x \in Sems(prog) : x \in Nat /\ prog.alloc[x] \in Nat
  BY AllocPlaces
<1>4. Cardinality(AllocsBefore(Upto(q))) + 1 = s
  <2>1. Cardinality(AllocsBefore(Upto(q))) = s - 1
    BY <1>2, SemsCounted
  <2>2. s \in Nat
    BY <1>2, <1>3
  <2>3. QED BY <2>1, <2>2
<1>5. stream[Upto(q)].sem = Fused(s) /\ stream[Upto(q)].chains = {Fused(x) : x \in chains[s]}
  <2>1. Says(stream[Upto(q)], q)
    BY WalkedIsDone, PlacedCommand
  <2>2. QED BY <2>1 DEF Says, SemCommand
<1>6. TypeOK /\ IInv /\ cur = prog.sems + 1 /\ Placed = Sems(prog)
  BY <1>1, AllocPlaces DEF NamingInv, PortsInv, Placed
<1>7. ASSUME NEW c \in chains[s], prog.dealloc[c] # NoOp
      PROVE  NamedAt(Upto(q), Fused(c)) = c
  <2>1. c \in prog.chains[s] \/ Precedes(c, s)
    BY <1>2, <1>6, <1>7 DEF IInv, TenantsChained
  <2>2. c \in Sems(prog) /\ c < s
    BY <1>2, <1>6, <2>1, ProgramFacts DEF Precedes
  <2>3. prog.alloc[c] < q
    BY <1>2, <1>3, <2>2
  <2>4. ASSUME NEW x \in Sems(prog), prog.alloc[x] < q, Fused(x) = Fused(c)
        PROVE  x <= c
    <3>1. x < s /\ x \in Nat /\ c \in Nat /\ s \in Nat
      BY <1>2, <1>3, <2>2, <2>4
    <3>2. addr[x] = addr[c] /\ (c < x => end[c] <= prog.alloc[x])
      BY <1>1, <2>2, <2>4, FusedApart
    <3>3. ~ c < x
      <4>1. CASE c \in prog.chains[s]
        <5>1. end[c] > prog.alloc[s] /\ end[c] \in Nat
          BY <1>1, <1>2, <1>6, <1>7, <2>2, <4>1 DEF IInv, EndsSettled
        <5>2. prog.alloc[x] \in Nat /\ prog.alloc[s] \in Nat
          BY <1>2, <1>3, <2>4
        <5>3. prog.alloc[x] < prog.alloc[s]
          BY <1>2, <2>4
        <5>4. end[c] > prog.alloc[x]
          BY <5>1, <5>2, <5>3
        <5>5. QED BY <3>2, <5>1, <5>2, <5>4
      <4>2. CASE Precedes(c, s)
        BY <1>6, <2>4, <3>1, <3>2, <4>2 DEF Precedes
      <4>3. QED BY <2>1, <4>1, <4>2
    <3>4. QED BY <3>1, <3>3
  <2>5. QED BY <2>2, <2>3, <2>4, NamedIs
<1>8. QED BY <1>4, <1>5, <1>7

(* For every program, number of addresses and of generations that fit in 16 *)
(* bits together, the fused addresses of the stream name the semaphores the *)
(* program means.                                                           *)
THEOREM StreamMeansTheProgram == ImageSpec => []StreamNamesTenants
<1>1. NamingInv => StreamNamesTenants
  <2> SUFFICES ASSUME NamingInv, FitsWord, NEW i \in DOMAIN stream
               PROVE
    \/ /\ stream[i].cmd = "Execute"
       /\ Means(i, stream[i].acquires, Waits(TaskAt(i), "acquire"))
       /\ Means(i, stream[i].requires, Waits(TaskAt(i), "require"))
    \/ LET s == Cardinality(AllocsBefore(i)) + 1
           sure == {c \in chains[s] : prog.dealloc[c] # NoOp}
       IN /\ stream[i].cmd = "SemAlloc" /\ stream[i].sem = Fused(s)
          /\ sure \subseteq {NamedAt(i, f) : f \in stream[i].chains}
    \/ stream[i].cmd \in {"MemAlloc", "MemDealloc"}
    BY DEF StreamNamesTenants
  <2>1. PICK q \in Commands : q < pos /\ Upto(q) = i
    BY CommandOf DEF NamingInv
  <2>2. /\ PortsInv /\ StreamInv /\ Says(stream[i], q)
        /\ stream[i].cmd = "SemAlloc" <=> prog.body[q].op = "sem_alloc"
        /\ stream[i].cmd = "Execute" <=> prog.body[q].op = "execute"
        /\ stream[i].cmd = "MemAlloc" <=> prog.body[q].op = "alloc"
        /\ stream[i].cmd = "MemDealloc" <=> prog.body[q].op = "dealloc"
    BY <2>1, WalkedIsDone, PlacedCommand
  <2>3. prog.body[q].op \in {"sem_alloc", "execute", "alloc", "dealloc"}
    <3>1. q \in DOMAIN prog.body /\ prog \in Programs
      BY <2>1, <2>2, PlacedCommand DEF PortsInv
    <3>2. prog.body[q].op \in OpNames
      BY <3>1, BodyFacts
    <3>3. QED BY <3>2 DEF Commands, OpNames
  <2>4. CASE prog.body[q].op = "execute"
    <3>1. TaskAt(i) = prog.body[q].id
      BY <2>1, <2>2, <2>4, TaskAtIs
    <3>2. PICK t, c : t = prog.body[q].id /\ c = stream[i]
      OBVIOUS
    <3>3. DepsMean(c.acquires, Waits(t, "acquire")) /\ DepsMean(c.requires, Waits(t, "require"))
      BY <2>2, <2>4, <3>2 DEF Says, TaskCommand
    <3>4. /\ Means(i, c.acquires, Waits(t, "acquire"))
          /\ Means(i, c.requires, Waits(t, "require"))
      BY <2>1, <2>4, <3>2, <3>3, DepsAreNamed
    <3>5. QED BY <2>2, <2>4, <3>1, <3>2, <3>4
  <2>5. CASE prog.body[q].op = "sem_alloc"
    BY <2>1, <2>2, <2>5, ChainsAreNamed
  <2>6. CASE prog.body[q].op \in {"alloc", "dealloc"}
    BY <2>2, <2>6
  <2>7. QED BY <2>3, <2>4, <2>5, <2>6
<1>2. QED BY <1>1, NamingInvariance, PTL
=============================================================================
