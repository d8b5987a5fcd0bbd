------------------------- MODULE SemHandshakeProofs -------------------------
(***************************************************************************)
(* The handshake is right for every compiled program, any number of units, *)
(* tasks, semaphores and slots, and every width of the counters, as long   *)
(* as no tag comes round on a slot: where each credit is (HInv), that none *)
(* is lost or doubled, that tasks start in every order the waits of the    *)
(* program add up to, and that no buffer changes under a running payload   *)
(* when that order covers the conflicts.                                   *)
(***************************************************************************)
EXTENDS SemHandshake, Extrema, FiniteSetTheorems

(* Where tasks are with their credits: t has taken the empty credit of the  *)
(* semaphore it acquires; has announced its data; has taken, and given      *)
(* back, the credit of its k-th require.                                    *)
Took(t) == prog.out[t] # NoSem /\ stage[t] \notin {"waitEmpty", "takeEmpty"}

Signalled(t) == stage[t] \in {"return", "done"}

TookIn(t, k) ==
  \/ stage[t] \in {"waitFull", "takeFull"} /\ k < pos[t]
  \/ stage[t] \in {"ready", "running", "signal", "return", "done"}

ReturnedIn(t, k) == stage[t] = "done" \/ (stage[t] = "return" /\ k < pos[t])

Initialised(s) == s \in completed \/ tenant[prog.addr[s]] = s

Filled(s) == prog.full[s] \/ Signalled(prog.writer[s])

Untaken(s) ==
  \A t \in Tasks(prog) : \A k \in DOMAIN prog.ins[t] : prog.ins[t][k] = s => ~ TookIn(t, k)

-----------------------------------------------------------------------------
(* A kernel is only at code it has, with its position in range. *)
KernelOK ==
  \A t \in Tasks(prog) :
    /\ stage[t] \in {"waitEmpty", "takeEmpty", "signal"} => prog.out[t] # NoSem
    /\ stage[t] \in {"waitFull", "takeFull", "return"} => pos[t] \in DOMAIN prog.ins[t]
    /\ stage[t] \in {"waitEmpty", "takeEmpty", "ready", "running", "signal"} => pos[t] = 1

(* The tenants of a slot come in program order, each when the ones before   *)
(* it have completed.                                                       *)
TenantsInTurn ==
  \A a \in Slots : tenant[a] # NoSem =>
    /\ prog.addr[tenant[a]] = a
    /\ \A r \in Sems(prog) : r < tenant[a] /\ prog.addr[r] = a => r \in completed

CompletedInTurn ==
  \A s \in completed : \A r \in Sems(prog) :
    r < s /\ prog.addr[r] = prog.addr[s] => r \in completed

(* Only credits of initialised semaphores are taken, and only filled ones   *)
(* by their consumers.                                                      *)
TakenInTurn ==
  \A t \in Tasks(prog) :
    /\ Took(t) => Initialised(prog.out[t])
    /\ \A k \in DOMAIN prog.ins[t] :
         TookIn(t, k) => Initialised(prog.ins[t][k]) /\ Filled(prog.ins[t][k])

CompletedWhenReturned ==
  \A t \in Tasks(prog) : \A k \in DOMAIN prog.ins[t] :
    prog.ins[t][k] \in completed <=> ReturnedIn(t, k)

(* A task about to add has the credit it waited for before it. *)
Poised ==
  \A t \in Tasks(prog) :
    /\ stage[t] = "takeEmpty" => tenant[prog.addr[prog.out[t]]] = prog.out[t]
    /\ stage[t] = "takeFull" => tenant[prog.addr[Req(t)]] = Req(t) /\ Filled(Req(t))

(* The counters of a slot say where the credit of its tenant is. *)
CountersFollow ==
  \A s \in Sems(prog) : tenant[prog.addr[s]] = s =>
    /\ empty[prog.addr[s]] =
         IF (~ prog.full[s] /\ ~ Took(prog.writer[s])) \/ s \in completed
           THEN prog.size[s] ELSE 0
    /\ full[prog.addr[s]] = IF Filled(s) /\ Untaken(s) THEN prog.size[s] ELSE 0

ChainsCompleted ==
  \A s \in Sems(prog) : Initialised(s) => prog.chains[s] \subseteq completed

CreditInv ==
  /\ TenantsInTurn /\ CompletedInTurn /\ TakenInTurn /\ CompletedWhenReturned
  /\ Poised /\ CountersFollow /\ ChainsCompleted

Begun(t) == stage[t] \in {"running", "signal", "return", "done"}
Finished(t) == stage[t] \in {"signal", "return", "done"}

(* A unit begins a task when it is done with those before it. *)
UnitsInOrder ==
  \A t, u \in Tasks(prog) :
    u < t /\ prog.unit[u] = prog.unit[t] /\ Begun(t) => stage[u] = "done"

(* A buffer holds what its last writer wrote, once that one has finished    *)
(* and until the next one begins.                                           *)
ContentHeld ==
  \A w \in Tasks(prog) : \A b \in Writes(prog, w) :
    /\ Finished(w)
    /\ \A v \in Tasks(prog) : w < v /\ b \in Writes(prog, v) => ~ Begun(v)
    => content[b] = w

Typed == prog \in Programs /\ TypeOK /\ KernelOK

HInv ==
  /\ Typed /\ UnitsInOrder
  /\ TagsNeverWrap(prog) => CreditInv /\ (ConflictsOrdered(prog) => ContentHeld)

-----------------------------------------------------------------------------
(* What a well-formed program says of tasks and semaphores. *)

(* One require, of one task, names a given semaphore. *)
LEMMA OneRequire ==
  ASSUME NEW p, WellFormed(p), NEW s \in Sems(p)
  PROVE  \E t \in Tasks(p), k \in Nat : 
           /\ k \in DOMAIN p.ins[t] /\ p.ins[t][k] = s
           /\ Consumers(p, s) = {t} /\ p.writer[s] < t
           /\ \A u \in Tasks(p) : \A l \in DOMAIN p.ins[u] :
                p.ins[u][l] = s => u = t /\ l = k
<1>1. IsFiniteSet(Consumers(p, s))
  <2>1. IsFiniteSet(1 .. p.tasks) BY FS_Interval DEF WellFormed
  <2>2. QED BY <2>1, FS_Subset DEF Consumers, Tasks
<1>2. PICK t : Consumers(p, s) = {t}
  BY <1>1, FS_Singleton DEF WellFormed
<1>3. PICK k \in DOMAIN p.ins[t] : p.ins[t][k] = s
  BY <1>2 DEF Consumers, Requires
<1>4. t \in Tasks(p) /\ p.writer[s] < t /\ p.ins[t] \in Seq(Sems(p))
  BY <1>2 DEF Consumers, WellFormed
<1>5. k \in Nat
  BY <1>4
<1>6. ASSUME NEW u \in Tasks(p), NEW l \in DOMAIN p.ins[u], p.ins[u][l] = s
      PROVE  u = t /\ l = k
  <2>1. u \in Consumers(p, s) BY <1>6 DEF Consumers, Requires
  <2>2. u = t BY <2>1, <1>2
  <2>3. QED BY <2>2, <1>3, <1>4, <1>6 DEF WellFormed
<1>7. QED BY <1>2, <1>3, <1>4, <1>5, <1>6

LEMMA SameRequire ==
  ASSUME NEW p, WellFormed(p), NEW t \in Tasks(p), NEW u \in Tasks(p),
         NEW k \in DOMAIN p.ins[t], NEW l \in DOMAIN p.ins[u],
         p.ins[t][k] = p.ins[u][l]
  PROVE  t = u /\ k = l
<1>1. p.ins[t][k] \in Sems(p) BY DEF WellFormed
<1>2. QED BY <1>1, OneRequire

LEMMA RequireFacts ==
  ASSUME NEW p, WellFormed(p), NEW t \in Tasks(p)
  PROVE  /\ p.ins[t] \in Seq(Sems(p)) /\ Len(p.ins[t]) \in Nat
         /\ DOMAIN p.ins[t] = 1 .. Len(p.ins[t])
         /\ p.ins[t] # << >> <=> 1 \in DOMAIN p.ins[t]
         /\ \A k \in DOMAIN p.ins[t] : p.ins[t][k] \in Sems(p) /\ p.writer[p.ins[t][k]] < t
<1>1. p.ins[t] \in Seq(Sems(p))
  BY DEF WellFormed
<1>2. \A k \in DOMAIN p.ins[t] : p.ins[t][k] \in Sems(p) /\ p.writer[p.ins[t][k]] < t
  <2> SUFFICES ASSUME NEW k \in DOMAIN p.ins[t]
               PROVE  p.ins[t][k] \in Sems(p) /\ p.writer[p.ins[t][k]] < t
    OBVIOUS
  <2>1. p.ins[t][k] \in Sems(p) BY <1>1
  <2>2. t \in Consumers(p, p.ins[t][k]) BY DEF Consumers, Requires
  <2>3. QED BY <2>1, <2>2 DEF WellFormed
<1>3. QED BY <1>1, <1>2

LEMMA OwnOut ==
  ASSUME NEW p, WellFormed(p), NEW t \in Tasks(p), p.out[t] # NoSem
  PROVE  p.out[t] \in Sems(p) /\ ~ p.full[p.out[t]] /\ p.writer[p.out[t]] = t
<1>1. p.out[t] \in Sems(p) BY DEF WellFormed
<1>2. t \in Producers(p, p.out[t]) BY DEF Producers
<1>3. QED BY <1>1, <1>2 DEF WellFormed

LEMMA NotFull ==
  ASSUME NEW p, WellFormed(p), NEW s \in Sems(p), ~ p.full[s]
  PROVE  p.writer[s] \in Tasks(p) /\ p.out[p.writer[s]] = s /\ s # NoSem
<1>1. p.writer[s] \in Producers(p, s) BY DEF WellFormed
<1>2. QED BY <1>1 DEF Producers, Sems, NoSem, WellFormed

(* Whoever writes a buffer acquires a semaphore of it; copies of that one  *)
(* chain from it.                                                          *)
LEMMA WriterOut ==
  ASSUME NEW p, WellFormed(p), NEW s \in Sems(p)
  PROVE  /\ p.writer[s] \in Tasks(p)
         /\ p.out[p.writer[s]] \in Sems(p) /\ p.out[p.writer[s]] # NoSem
         /\ p.buf[p.out[p.writer[s]]] = p.buf[s]
         /\ p.full[s] => p.out[p.writer[s]] \in p.chains[s]
         /\ ~ p.full[s] => p.out[p.writer[s]] = s
<1>1. CASE p.full[s]
  <2>1. PICK r \in p.chains[s] : p.buf[r] = p.buf[s] /\ p.writer[r] = p.writer[s] /\ ~ p.full[r]
    BY <1>1 DEF WellFormed
  <2>2. r \in Sems(p) BY DEF WellFormed
  <2>3. QED BY <1>1, <2>1, <2>2, NotFull
<1>2. CASE ~ p.full[s]
  BY <1>2, NotFull
<1>3. QED BY <1>1, <1>2

(* A semaphore whose slot had tenants before chains from the last of them. *)
LEMMA ChainsFromLastTenant ==
  ASSUME NEW p, WellFormed(p), NEW s \in Sems(p), NEW r \in Sems(p),
         r < s, p.addr[r] = p.addr[s]
  PROVE  \E q \in p.chains[s] : q \in Sems(p) /\ r <= q /\ p.addr[q] = p.addr[s]
<1> DEFINE Earlier == {q \in Sems(p) : q < s /\ p.addr[q] = p.addr[s]}
<1>1. p.sems \in Nat /\ Earlier \in SUBSET (1 .. p.sems) /\ r \in Earlier
  BY DEF Sems, WellFormed
<1>2. Max(Earlier) \in Earlier /\ \A q \in Earlier : q <= Max(Earlier)
  <2> HIDE DEF Earlier
  <2>1. QED BY <1>1, MaxIsGreatest
<1>3. PICK m \in Earlier : r <= m /\ \A q \in Earlier : q <= m
  BY <1>1, <1>2
<1>4. Precedes(p, m, s)
  <2>1. \A q \in m + 1 .. s - 1 : q \in Sems(p) /\ q < s /\ ~ (q <= m)
    BY <1>1 DEF Sems
  <2>2. QED BY <1>3, <2>1 DEF Precedes
<1>5. m \in p.chains[s]
  BY <1>4 DEF WellFormed
<1>6. QED BY <1>3, <1>5

(* No tag comes round: the tag tells the tenants of a slot apart. *)
LEMMA AcceptedOwn ==
  ASSUME TypeOK, TenantsInTurn, TagsNeverWrap(prog), NEW s \in Sems(prog),
         prog.addr[s] \in Slots
  PROVE  Accepted(s) <=> tenant[prog.addr[s]] = s
<1>1. s # NoSem BY DEF Sems, NoSem
<1>2. tenant[prog.addr[s]] \in Sems(prog) \cup {NoSem} BY DEF TypeOK
<1>3. tenant[prog.addr[s]] # NoSem => prog.addr[tenant[prog.addr[s]]] = prog.addr[s]
  BY DEF TenantsInTurn
<1>4. QED BY <1>1, <1>2, <1>3 DEF Accepted, TagsNeverWrap

-----------------------------------------------------------------------------
(* Types, and kernels within their code. *)

LEMMA CounterWraps ==
  ASSUME NEW x \in Int
  PROVE  /\ x % CountMod \in 0 .. CountMod - 1
         /\ x \in 0 .. CountMod - 1 => x % CountMod = x
BY CountModAssumption, SMT

LEMMA TakesAll ==
  ASSUME NEW x \in Int
  PROVE  (x + (-x)) % CountMod = 0
<1>1. x + (-x) = 0 /\ 0 \in 0 .. CountMod - 1
  BY CountModAssumption, SMT
<1>2. 0 % CountMod = 0
  BY <1>1, CounterWraps
<1>3. QED BY <1>1, <1>2

LEMMA AddTypes ==
  ASSUME NEW counter \in [Slots -> 0 .. CountMod - 1], NEW s, NEW d \in Int
  PROVE  AtomicAdd(counter, s, d) \in [Slots -> 0 .. CountMod - 1]
<1>1. \A a \in Slots : (counter[a] + d) % CountMod \in 0 .. CountMod - 1
  BY CounterWraps
<1>2. QED BY <1>1 DEF AtomicAdd

LEMMA SemaphoreTypes ==
  ASSUME NEW p, WellFormed(p), NEW s \in Sems(p)
  PROVE  /\ p.size[s] \in Int /\ 0 < p.size[s] /\ -p.size[s] \in Int
         /\ p.size[s] \in 0 .. CountMod - 1
         /\ p.addr[s] \in Slots /\ p.chains[s] \subseteq Sems(p)
<1>1. p.size[s] \in 1 .. CountMod - 1 /\ p.addr[s] \in Slots /\ p.chains[s] \subseteq Sems(p)
  BY DEF WellFormed
<1>2. QED BY <1>1, CountModAssumption

LEMMA InitTypes == Init => Typed
<1> SUFFICES ASSUME Init PROVE Typed
  OBVIOUS
<1>1. prog \in Programs /\ WellFormed(prog)
  BY ProgramsAssumption DEF Init
<1>2. 0 \in 0 .. CountMod - 1
  BY CountModAssumption
<1>3. \A t \in Tasks(prog) : FirstStage(prog, t) \in Stages
  BY DEF FirstStage, AfterAcquire, Stages
<1>4. TypeOK
  BY <1>2, <1>3 DEF Init, TypeOK
<1>5. ASSUME NEW t \in Tasks(prog)
      PROVE  /\ stage[t] \in {"waitEmpty", "takeEmpty", "signal"} => prog.out[t] # NoSem
             /\ stage[t] \in {"waitFull", "takeFull", "return"} => pos[t] \in DOMAIN prog.ins[t]
             /\ stage[t] \in {"waitEmpty", "takeEmpty", "ready", "running", "signal"} => pos[t] = 1
  <2>1. stage[t] = FirstStage(prog, t) /\ pos[t] = 1
    BY DEF Init
  <2>2. prog.ins[t] # << >> => 1 \in DOMAIN prog.ins[t]
    BY <1>1, RequireFacts
  <2>3. QED BY <2>1, <2>2 DEF FirstStage, AfterAcquire
<1>6. QED BY <1>1, <1>4, <1>5 DEF Typed, KernelOK

(* Where a kernel is after a step of its own. *)
LEMMA KernelStep ==
  ASSUME Typed, NEW t \in Tasks(prog), prog' = prog,
         stage' = [stage EXCEPT ![t] = stage'[t]], pos' = [pos EXCEPT ![t] = pos'[t]],
         stage'[t] \in Stages,
         stage'[t] \in {"waitEmpty", "takeEmpty", "signal"} => prog.out[t] # NoSem,
         stage'[t] \in {"waitFull", "takeFull", "return"} => pos'[t] \in DOMAIN prog.ins[t],
         stage'[t] \notin {"waitFull", "takeFull", "return", "done"} => pos'[t] = 1,
         pos'[t] \in DOMAIN prog.ins[t] \cup {1}
  PROVE  /\ stage' \in [Tasks(prog) -> Stages] /\ pos' \in [Tasks(prog) -> Nat \ {0}]
         /\ \A u \in Tasks(prog) : pos'[u] <= Len(prog.ins[u]) \/ pos'[u] = 1
         /\ KernelOK'
<1>1. DOMAIN prog.ins[t] = 1 .. Len(prog.ins[t]) /\ Len(prog.ins[t]) \in Nat
  BY ProgramsAssumption, RequireFacts DEF Typed
<1>2. pos'[t] \in Nat \ {0} /\ (pos'[t] <= Len(prog.ins[t]) \/ pos'[t] = 1)
  BY <1>1
<1>3. \A u \in Tasks(prog) : u # t => stage'[u] = stage[u] /\ pos'[u] = pos[u]
  BY DEF Typed, TypeOK
<1>4. KernelOK'
  BY <1>3 DEF KernelOK, Typed, Stages
<1>5. QED BY <1>2, <1>3, <1>4 DEF Typed, TypeOK

LEMMA StepTypes ==
  ASSUME Typed, NEW t \in Tasks(prog), Step(t)
  PROVE  Typed'
<1> USE DEF Goto, AfterAcquire, AfterPayload, AfterSignal, Stages
<1>1. WellFormed(prog) /\ TypeOK /\ KernelOK
  BY ProgramsAssumption DEF Typed
<1>2. /\ DOMAIN prog.ins[t] = 1 .. Len(prog.ins[t]) /\ Len(prog.ins[t]) \in Nat
      /\ prog.ins[t] # << >> <=> 1 \in DOMAIN prog.ins[t]
      /\ \A k \in DOMAIN prog.ins[t] : prog.ins[t][k] \in Sems(prog)
  BY <1>1, RequireFacts
<1>3. /\ stage[t] \in Stages /\ pos[t] \in DOMAIN prog.ins[t] \cup {1}
      /\ stage = [stage EXCEPT ![t] = stage[t]] /\ pos = [pos EXCEPT ![t] = pos[t]]
  <2>1. pos[t] \in Nat \ {0} /\ (pos[t] <= Len(prog.ins[t]) \/ pos[t] = 1) BY <1>1 DEF TypeOK
  <2>2. QED BY <1>1, <1>2, <2>1 DEF TypeOK
<1>4. \A s \in Sems(prog) : prog.size[s] \in Int /\ -prog.size[s] \in Int
  BY <1>1, SemaphoreTypes
<1>5. /\ stage[t] \in {"waitEmpty", "takeEmpty", "signal"} =>
           prog.out[t] # NoSem /\ prog.out[t] \in Sems(prog)
      /\ stage[t] \in {"waitFull", "takeFull", "return"} =>
           pos[t] \in DOMAIN prog.ins[t] /\ Req(t) \in Sems(prog)
      /\ stage[t] \in {"waitEmpty", "takeEmpty", "ready", "running", "signal"} => pos[t] = 1
  BY <1>1, <1>2, OwnOut DEF KernelOK, Req
<1>6. /\ prog' = prog
      /\ stage' \in [Tasks(prog) -> Stages] /\ pos' \in [Tasks(prog) -> Nat \ {0}]
      /\ \A u \in Tasks(prog) : pos'[u] <= Len(prog.ins[u]) \/ pos'[u] = 1
      /\ KernelOK'
  <2>1. prog' = prog
    BY DEF Step, WaitEmpty, TakeEmpty, WaitFull, TakeFull, BeginPayload, EndPayload, Signal, Return
  <2>2. stage' = [stage EXCEPT ![t] = stage'[t]] /\ pos' = [pos EXCEPT ![t] = pos'[t]]
    BY <1>1, <1>3 DEF TypeOK,
       Step, WaitEmpty, TakeEmpty, WaitFull, TakeFull, BeginPayload, EndPayload, Signal, Return
  <2>3. /\ stage'[t] \in Stages
        /\ stage'[t] \in {"waitEmpty", "takeEmpty", "signal"} => prog.out[t] # NoSem
        /\ stage'[t] \in {"waitFull", "takeFull", "return"} => pos'[t] \in DOMAIN prog.ins[t]
        /\ stage'[t] \notin {"waitFull", "takeFull", "return", "done"} => pos'[t] = 1
        /\ pos'[t] \in DOMAIN prog.ins[t] \cup {1}
    <3>1. CASE WaitEmpty(t)
      BY <3>1, <1>1, <1>3, <1>5 DEF WaitEmpty, TypeOK
    <3>2. CASE TakeEmpty(t)
      BY <3>2, <1>1, <1>2, <1>3, <1>5 DEF TakeEmpty, TypeOK
    <3>3. CASE WaitFull(t)
      BY <3>3, <1>1, <1>3, <1>5 DEF WaitFull, TypeOK
    <3>4. CASE TakeFull(t)
      BY <3>4, <1>1, <1>2, <1>3, <1>5 DEF TakeFull, TypeOK
    <3>5. CASE BeginPayload(t)
      BY <3>5, <1>1, <1>3, <1>5 DEF BeginPayload, TypeOK
    <3>6. CASE EndPayload(t)
      BY <3>6, <1>1, <1>2, <1>3, <1>5 DEF EndPayload, TypeOK, NoSem
    <3>7. CASE Signal(t)
      BY <3>7, <1>1, <1>2, <1>3, <1>5 DEF Signal, TypeOK
    <3>8. CASE Return(t)
      BY <3>8, <1>1, <1>2, <1>3, <1>5 DEF Return, TypeOK
    <3>9. QED BY <3>1, <3>2, <3>3, <3>4, <3>5, <3>6, <3>7, <3>8 DEF Step
  <2>4. QED BY <2>1, <2>2, <2>3, KernelStep
<1>7. /\ tenant' = tenant /\ completed' \in SUBSET Sems(prog)
      /\ empty' \in [Slots -> 0 .. CountMod - 1] /\ full' \in [Slots -> 0 .. CountMod - 1]
  <2> USE DEF TypeOK, counters
  <2>1. CASE TakeEmpty(t)
    BY <2>1, <1>1, <1>4, <1>5, AddTypes DEF TakeEmpty
  <2>2. CASE TakeFull(t)
    BY <2>2, <1>1, <1>4, <1>5, AddTypes DEF TakeFull
  <2>3. CASE Signal(t)
    BY <2>3, <1>1, <1>4, <1>5, AddTypes DEF Signal
  <2>4. CASE Return(t)
    <3>1. empty' \in [Slots -> 0 .. CountMod - 1]
      BY <2>4, <1>1, <1>4, <1>5, AddTypes DEF Return
    <3>2. Accepted(Req(t)) => tenant[prog.addr[Req(t)]] \in Sems(prog)
      BY <2>4, <1>1, <1>5, SemaphoreTypes DEF Return, Accepted
    <3>3. QED BY <2>4, <1>1, <3>1, <3>2 DEF Return
  <2>5. QED BY <1>1, <2>1, <2>2, <2>3, <2>4
              DEF Step, WaitEmpty, WaitFull, BeginPayload, EndPayload
<1>8. content' \in [Buffers(prog) -> Tasks(prog) \cup {NoTask}]
  <2>1. content \in [Buffers(prog) -> Tasks(prog) \cup {NoTask}] BY <1>1 DEF TypeOK
  <2>2. QED BY <2>1 DEF Step, WaitEmpty, TakeEmpty, WaitFull, TakeFull, BeginPayload, EndPayload,
                        Signal, Return
<1>9. QED BY <1>1, <1>6, <1>7, <1>8 DEF Typed, TypeOK

LEMMA InitSemTypes ==
  ASSUME Typed, NEW s \in Sems(prog), InitSem(s)
  PROVE  Typed'
<1>1. prog.addr[s] \in Slots /\ prog.size[s] \in 0 .. CountMod - 1 /\ 0 \in 0 .. CountMod - 1
  BY ProgramsAssumption, SemaphoreTypes, CountModAssumption DEF Typed
<1>2. QED BY <1>1 DEF InitSem, Typed, TypeOK, KernelOK

LEMMA NextTypes == Typed /\ [Next]_vars => Typed'
<1>1. Typed /\ UNCHANGED vars => Typed'
  BY DEF vars, counters, Typed, TypeOK, KernelOK
<1>2. QED BY <1>1, StepTypes, InitSemTypes DEF Next

(* Counters stay within their width, no kernel leaves its code, every slot  *)
(* holds a semaphore of the program or none -- also when tags come round.   *)
THEOREM HandshakeTypeCorrect == Spec => []TypeOK
<1>1. Typed => TypeOK
  BY DEF Typed
<1>2. QED BY <1>1, InitTypes, NextTypes, PTL DEF Spec

-----------------------------------------------------------------------------
(* What CreditInv says of one semaphore. *)

Sane == Typed /\ TagsNeverWrap(prog) /\ CreditInv

(* A completed semaphore was taken and returned by its consumer, so it was  *)
(* filled, and its producer is past its signal.                             *)
LEMMA CompletedWasTaken ==
  ASSUME Sane, NEW s \in completed
  PROVE  /\ s \in Sems(prog) /\ Filled(s) /\ ~ Untaken(s)
         /\ ~ prog.full[s] => Signalled(prog.writer[s])
<1>1. s \in Sems(prog) /\ WellFormed(prog)
  BY ProgramsAssumption DEF Sane, Typed, TypeOK
<1>2. PICK t \in Tasks(prog), k \in Nat : k \in DOMAIN prog.ins[t] /\ prog.ins[t][k] = s
  BY <1>1, OneRequire
<1>3. ReturnedIn(t, k)
  BY <1>2 DEF Sane, CreditInv, CompletedWhenReturned
<1>4. TookIn(t, k)
  BY <1>3 DEF ReturnedIn, TookIn
<1>5. Filled(s) /\ ~ Untaken(s)
  BY <1>2, <1>4 DEF Sane, CreditInv, TakenInTurn, Untaken
<1>6. QED BY <1>1, <1>5 DEF Filled

(* A filled semaphore was acquired, unless it started full, and is          *)
(* initialised.                                                             *)
LEMMA FilledWasAcquired ==
  ASSUME Sane, NEW s \in Sems(prog), Filled(s), ~ prog.full[s]
  PROVE  Took(prog.writer[s]) /\ Initialised(s)
<1>1. prog.writer[s] \in Tasks(prog) /\ prog.out[prog.writer[s]] = s /\ s # NoSem
  BY ProgramsAssumption, NotFull DEF Sane, Typed
<1>2. Took(prog.writer[s])
  BY <1>1 DEF Filled, Signalled, Took
<1>3. QED BY <1>1, <1>2 DEF Sane, CreditInv, TakenInTurn

(* Between the add of an acquire and its release the slot is the task's. *)
LEMMA AcquiredIsTenant ==
  ASSUME Sane, NEW t \in Tasks(prog), Took(t), ~ Signalled(t)
  PROVE  /\ prog.out[t] \in Sems(prog) /\ prog.out[t] \notin completed
         /\ tenant[prog.addr[prog.out[t]]] = prog.out[t]
         /\ ~ Filled(prog.out[t])
<1>1. prog.out[t] \in Sems(prog) /\ ~ prog.full[prog.out[t]] /\ prog.writer[prog.out[t]] = t
  BY ProgramsAssumption, OwnOut DEF Sane, Typed, Took
<1>2. ~ Filled(prog.out[t])
  BY <1>1 DEF Filled
<1>3. prog.out[t] \notin completed
  BY <1>2, CompletedWasTaken
<1>4. QED BY <1>1, <1>2, <1>3 DEF Sane, CreditInv, TakenInTurn, Initialised

(* Between the add of a require and its release too. *)
LEMMA RequiredIsTenant ==
  ASSUME Sane, NEW t \in Tasks(prog), NEW k \in DOMAIN prog.ins[t],
         TookIn(t, k), ~ ReturnedIn(t, k)
  PROVE  /\ prog.ins[t][k] \in Sems(prog) /\ prog.ins[t][k] \notin completed
         /\ tenant[prog.addr[prog.ins[t][k]]] = prog.ins[t][k]
         /\ Filled(prog.ins[t][k])
<1>1. prog.ins[t][k] \in Sems(prog)
  BY ProgramsAssumption, RequireFacts DEF Sane, Typed
<1>2. QED BY <1>1 DEF Sane, CreditInv, CompletedWhenReturned, TakenInTurn, Initialised

-----------------------------------------------------------------------------
(* Each step keeps CreditInv. *)

LEMMA CreditInit == Init => CreditInv
<1> SUFFICES ASSUME Init PROVE CreditInv
  OBVIOUS
<1>1. completed = {} /\ \A s \in Sems(prog) : tenant[prog.addr[s]] # s
  <2>1. WellFormed(prog) BY ProgramsAssumption DEF Init
  <2>2. \A s \in Sems(prog) : prog.addr[s] \in Slots /\ s # NoSem
    BY <2>1, SemaphoreTypes DEF Sems, NoSem
  <2>3. QED BY <2>2 DEF Init
<1>2. \A a \in Slots : tenant[a] = NoSem
  BY DEF Init
<1>3. \A t \in Tasks(prog) : stage[t] = FirstStage(prog, t) /\ pos[t] = 1
  BY DEF Init
<1>4. \A t \in Tasks(prog) :
        ~ Took(t) /\ stage[t] \in {"waitEmpty", "waitFull", "ready"}
  BY <1>3 DEF FirstStage, AfterAcquire, Took
<1>5. ASSUME NEW t \in Tasks(prog), NEW k \in DOMAIN prog.ins[t]
      PROVE  ~ TookIn(t, k) /\ ~ ReturnedIn(t, k)
  <2>1. stage[t] = "ready" => prog.ins[t] = << >>
    BY <1>3 DEF FirstStage, AfterAcquire
  <2>2. prog.ins[t] \in Seq(Sems(prog))
    BY ProgramsAssumption, RequireFacts DEF Init
  <2>3. k \in 1 .. Len(prog.ins[t])
    BY <2>2
  <2>4. QED BY <1>3, <1>4, <2>1, <2>3 DEF TookIn, ReturnedIn
<1>6. TenantsInTurn /\ CompletedInTurn
  BY <1>1, <1>2 DEF TenantsInTurn, CompletedInTurn
<1>7. TakenInTurn /\ CompletedWhenReturned /\ Poised
  BY <1>1, <1>4, <1>5 DEF TakenInTurn, CompletedWhenReturned, Poised
<1>8. CountersFollow /\ ChainsCompleted
  BY <1>1 DEF CountersFollow, ChainsCompleted, Initialised
<1>9. QED BY <1>6, <1>7, <1>8 DEF CreditInv

(* A step that moves no credit: no slot changes, and nobody takes, signals  *)
(* or returns.                                                              *)
LEMMA QuietStep ==
  ASSUME Sane, prog' = prog, counters' = counters, Poised',
         \A t \in Tasks(prog) :
           /\ Took(t)' <=> Took(t)
           /\ \A k \in DOMAIN prog.ins[t] :
                (TookIn(t, k)' <=> TookIn(t, k)) /\ (ReturnedIn(t, k)' <=> ReturnedIn(t, k)),
         \A s \in Sems(prog) : Filled(s)' <=> Filled(s)
  PROVE  CreditInv'
<1> USE DEF counters
<1>1. WellFormed(prog)
  BY ProgramsAssumption DEF Sane, Typed
<1>2. \A s \in Sems(prog) : Initialised(s)' <=> Initialised(s)
  BY DEF Initialised
<1>3. \A s \in Sems(prog) : Untaken(s)' <=> Untaken(s)
  BY DEF Untaken
<1>4. TenantsInTurn' /\ CompletedInTurn'
  BY DEF Sane, CreditInv, TenantsInTurn, CompletedInTurn
<1>5. TakenInTurn'
  <2>1. \A t \in Tasks(prog) : \A k \in DOMAIN prog.ins[t] : prog.ins[t][k] \in Sems(prog)
    BY <1>1, RequireFacts
  <2>2. \A t \in Tasks(prog) : prog.out[t] # NoSem => prog.out[t] \in Sems(prog)
    BY <1>1, OwnOut
  <2>3. QED BY <1>2, <2>1, <2>2 DEF Sane, CreditInv, TakenInTurn, Took, Initialised, Filled, Signalled
<1>6. CompletedWhenReturned'
  BY DEF Sane, CreditInv, CompletedWhenReturned
<1>7. CountersFollow'
  <2>1. \A s \in Sems(prog) : ~ prog.full[s] => prog.writer[s] \in Tasks(prog)
    BY <1>1, NotFull
  <2>2. QED BY <1>3, <2>1 DEF Sane, CreditInv, CountersFollow, Took, Untaken, Filled, Signalled
<1>8. ChainsCompleted'
  BY <1>2 DEF Sane, CreditInv, ChainsCompleted, Initialised
<1>9. QED BY <1>4, <1>5, <1>6, <1>7, <1>8 DEF CreditInv

(* Where one slot is taken over: its last tenant has completed. *)
LEMMA PreviousTenantCompleted ==
  ASSUME Sane, NEW s \in Sems(prog), InitSem(s)
  PROVE  /\ prog.addr[s] \in Slots
         /\ \A r \in Sems(prog) : r < s /\ prog.addr[r] = prog.addr[s] => r \in completed
         /\ tenant[prog.addr[s]] # NoSem => tenant[prog.addr[s]] \in completed
<1>1. WellFormed(prog) /\ prog.addr[s] \in Slots /\ s \in Nat
  BY ProgramsAssumption, SemaphoreTypes DEF Sane, Typed, Sems
<1>2. ASSUME NEW r \in Sems(prog), r < s, prog.addr[r] = prog.addr[s]
      PROVE  r \in completed
  <2>1. PICK q \in prog.chains[s] : q \in Sems(prog) /\ r <= q /\ prog.addr[q] = prog.addr[s]
    BY <1>1, <1>2, ChainsFromLastTenant
  <2>2. q \in completed BY DEF InitSem
  <2>3. r = q \/ r < q BY <2>1 DEF Sems
  <2>4. QED BY <1>2, <2>1, <2>2, <2>3 DEF Sane, CreditInv, CompletedInTurn
<1>3. ASSUME tenant[prog.addr[s]] # NoSem
      PROVE  tenant[prog.addr[s]] \in completed
  <2> DEFINE r == tenant[prog.addr[s]]
  <2>1. /\ r \in Sems(prog) /\ r \in Nat /\ prog.addr[r] = prog.addr[s]
        /\ \A q \in Sems(prog) : q < r /\ prog.addr[q] = prog.addr[s] => q \in completed
    BY <1>1, <1>3 DEF Sane, Typed, TypeOK, CreditInv, TenantsInTurn, Sems
  <2>2. s \notin completed /\ r # s
    BY <1>1 DEF InitSem
  <2>3. r < s
    <3> HIDE DEF r
    <3>1. QED BY <1>1, <2>1, <2>2
  <2>4. QED BY <1>2, <2>1, <2>3
<1>4. QED BY <1>1, <1>2, <1>3

LEMMA InitSemKeepsCredits ==
  ASSUME Sane, NEW s \in Sems(prog), InitSem(s)
  PROVE  CreditInv'
<1> DEFINE a == prog.addr[s]
<1>1. /\ WellFormed(prog) /\ a \in Slots /\ s # NoSem
      /\ tenant \in [Slots -> Sems(prog) \cup {NoSem}]
      /\ empty \in [Slots -> 0 .. CountMod - 1] /\ full \in [Slots -> 0 .. CountMod - 1]
  <2>1. WellFormed(prog) BY ProgramsAssumption DEF Sane, Typed
  <2>2. a \in Slots BY <2>1, SemaphoreTypes
  <2>3. s # NoSem BY DEF Sems, NoSem
  <2>4. QED BY <2>1, <2>2, <2>3 DEF Sane, Typed, TypeOK
<1>2. /\ \A r \in Sems(prog) : r < s /\ prog.addr[r] = a => r \in completed
      /\ tenant[a] # NoSem => tenant[a] \in completed
  BY PreviousTenantCompleted
<1>3. /\ prog' = prog /\ stage' = stage /\ pos' = pos /\ completed' = completed
      /\ s \notin completed /\ prog.chains[s] \subseteq completed
      /\ tenant' = [tenant EXCEPT ![a] = s]
      /\ empty' = [empty EXCEPT ![a] = IF prog.full[s] THEN 0 ELSE prog.size[s]]
      /\ full' = [full EXCEPT ![a] = IF prog.full[s] THEN prog.size[s] ELSE 0]
  BY DEF InitSem
<1>4. tenant[a] # s
  BY <1>1 DEF InitSem
<1>5. ~ Initialised(s)
  BY <1>3, <1>4 DEF Initialised
<1> HIDE DEF a
<1>6. \A q \in Sems(prog) : Initialised(q)' <=> Initialised(q) \/ q = s
  BY <1>1, <1>2, <1>3 DEF Initialised, a, Sems, NoSem
<1>7. TenantsInTurn' /\ CompletedInTurn'
  BY <1>1, <1>2, <1>3 DEF TenantsInTurn, CompletedInTurn, Sane, CreditInv, a
<1>8. TakenInTurn'
  <2>1. ASSUME NEW t \in Tasks(prog), Took(t)
        PROVE  Initialised(prog.out[t])'
    <3>1. prog.out[t] \in Sems(prog) BY <1>1, <2>1, OwnOut DEF Took
    <3>2. Initialised(prog.out[t]) BY <2>1 DEF Sane, CreditInv, TakenInTurn
    <3>3. QED BY <1>3, <1>6, <3>1, <3>2 DEF Initialised
  <2>2. ASSUME NEW t \in Tasks(prog), NEW k \in DOMAIN prog.ins[t], TookIn(t, k)
        PROVE  Initialised(prog.ins[t][k])' /\ Filled(prog.ins[t][k])'
    <3>1. prog.ins[t][k] \in Sems(prog) BY <1>1, RequireFacts
    <3>2. Initialised(prog.ins[t][k]) /\ Filled(prog.ins[t][k])
      BY <2>2 DEF Sane, CreditInv, TakenInTurn
    <3>3. QED BY <1>3, <1>6, <3>1, <3>2 DEF Initialised, Filled, Signalled
  <2>3. QED BY <1>3, <2>1, <2>2 DEF TakenInTurn, Took, TookIn, Initialised, Filled, Signalled
<1>9. CompletedWhenReturned'
  BY <1>3 DEF Sane, CreditInv, CompletedWhenReturned, ReturnedIn
<1>10. Poised'
  <2>1. ASSUME NEW t \in Tasks(prog), stage[t] = "takeEmpty"
        PROVE  tenant'[prog.addr[prog.out[t]]] = prog.out[t]
    <3> DEFINE o == prog.out[t]
    <3>1. o \in Sems(prog) /\ ~ prog.full[o] /\ prog.writer[o] = t
      BY <1>1, <2>1, OwnOut DEF Sane, Typed, KernelOK
    <3>2. tenant[prog.addr[o]] = o
      BY <2>1 DEF Sane, CreditInv, Poised
    <3>3. o \notin completed
      BY <2>1, <3>1, CompletedWasTaken DEF Signalled
    <3>4. prog.addr[o] # a
      BY <1>2, <3>1, <3>2, <3>3 DEF Sems, NoSem
    <3>5. QED BY <1>1, <1>3, <3>2, <3>4
  <2>2. ASSUME NEW t \in Tasks(prog), stage[t] = "takeFull"
        PROVE  tenant'[prog.addr[Req(t)]] = Req(t) /\ Filled(Req(t))
    <3>1. pos[t] \in DOMAIN prog.ins[t] /\ Req(t) \in Sems(prog)
      BY <1>1, <2>2, RequireFacts DEF Sane, Typed, KernelOK, Req
    <3>2. tenant[prog.addr[Req(t)]] = Req(t) /\ Filled(Req(t))
      BY <2>2 DEF Sane, CreditInv, Poised
    <3>3. Req(t) \notin completed
      BY <2>2, <3>1 DEF Sane, CreditInv, CompletedWhenReturned, ReturnedIn, Req
    <3>4. prog.addr[Req(t)] # a
      BY <1>2, <3>1, <3>2, <3>3 DEF Sems, NoSem
    <3>5. QED BY <1>1, <1>3, <3>2, <3>4
  <2>3. prog' = prog /\ stage' = stage /\ pos' = pos
    BY <1>3
  <2>4. \A t \in Tasks(prog) :
          /\ stage'[t] = "takeEmpty" => tenant'[prog.addr[prog.out[t]]] = prog.out[t]
          /\ stage'[t] = "takeFull" => tenant'[prog.addr[Req(t)]] = Req(t) /\ Filled(Req(t))
    BY <1>3, <2>1, <2>2
  <2>5. QED BY ONLY <2>3, <2>4 DEF Poised, Req, Filled, Signalled
<1>11. CountersFollow'
  <2>1. ASSUME NEW q \in Sems(prog), tenant'[prog.addr[q]] = q, q # s
        PROVE  /\ empty'[prog.addr[q]] =
                    IF (~ prog.full[q] /\ ~ Took(prog.writer[q])) \/ q \in completed
                      THEN prog.size[q] ELSE 0
               /\ full'[prog.addr[q]] = IF Filled(q) /\ Untaken(q) THEN prog.size[q] ELSE 0
    <3>1. prog.addr[q] # a /\ tenant[prog.addr[q]] = q
      BY <1>1, <1>3, <2>1
    <3>2. empty'[prog.addr[q]] = empty[prog.addr[q]] /\ full'[prog.addr[q]] = full[prog.addr[q]]
      BY <1>1, <1>3, <3>1
    <3>3. QED BY <3>1, <3>2 DEF Sane, CreditInv, CountersFollow
  <2>2. ~ prog.full[s] => ~ Took(prog.writer[s]) /\ ~ Filled(s)
    <3>1. ~ prog.full[s] => prog.writer[s] \in Tasks(prog) /\ prog.out[prog.writer[s]] = s
      BY <1>1, NotFull
    <3>2. ~ prog.full[s] => ~ Took(prog.writer[s])
      BY <1>5, <3>1 DEF Sane, CreditInv, TakenInTurn
    <3>3. QED BY <1>5, <3>2, FilledWasAcquired
  <2>3. Untaken(s)
    BY <1>5 DEF Untaken, Sane, CreditInv, TakenInTurn
  <2>4. prog.full[s] => Filled(s)
    BY DEF Filled
  <2>5. /\ empty'[a] = IF prog.full[s] THEN 0 ELSE prog.size[s]
        /\ full'[a] = IF prog.full[s] THEN prog.size[s] ELSE 0
    BY <1>1, <1>3
  <2>6. /\ empty'[a] = IF (~ prog.full[s] /\ ~ Took(prog.writer[s])) \/ s \in completed
                         THEN prog.size[s] ELSE 0
        /\ full'[a] = IF Filled(s) /\ Untaken(s) THEN prog.size[s] ELSE 0
    BY <1>3, <2>2, <2>3, <2>4, <2>5
  <2>7. QED BY <1>3, <2>1, <2>6 DEF CountersFollow, Took, Untaken, TookIn, Filled, Signalled, a
<1>12. ChainsCompleted'
  BY <1>3, <1>6 DEF Sane, CreditInv, ChainsCompleted, Initialised
<1>13. QED BY <1>7, <1>8, <1>9, <1>10, <1>11, <1>12 DEF CreditInv

(* The wait loops: what is left behind is a credit to take. *)
LEMMA WaitEmptyKeepsCredits ==
  ASSUME Sane, NEW t \in Tasks(prog), WaitEmpty(t)
  PROVE  CreditInv'
<1>1. /\ WellFormed(prog) /\ TypeOK /\ KernelOK
      /\ prog.out[t] \in Sems(prog) /\ prog.out[t] # NoSem
  <2>1. WellFormed(prog) /\ TypeOK /\ KernelOK
    BY ProgramsAssumption DEF Sane, Typed
  <2>2. QED BY <2>1, OwnOut DEF WaitEmpty, KernelOK
<1>2. /\ prog' = prog /\ pos' = pos /\ counters' = counters
      /\ stage[t] = "waitEmpty" /\ stage' = [stage EXCEPT ![t] = "takeEmpty"]
  BY DEF WaitEmpty, Goto
<1>3. tenant[prog.addr[prog.out[t]]] = prog.out[t]
  <2>1. prog.size[prog.out[t]] \in Int /\ 0 < prog.size[prog.out[t]] /\ prog.addr[prog.out[t]] \in Slots
    BY <1>1, SemaphoreTypes
  <2>2. Accepted(prog.out[t])
    BY <2>1 DEF WaitEmpty, LoadCount
  <2>3. QED BY <1>1, <2>1, <2>2, AcceptedOwn DEF Sane, CreditInv
<1>4. \A u \in Tasks(prog) : u # t => stage'[u] = stage[u]
  BY <1>1, <1>2 DEF TypeOK
<1>5. stage'[t] = "takeEmpty"
  BY <1>1, <1>2 DEF TypeOK
<1>6. \A u \in Tasks(prog) :
        /\ Took(u)' <=> Took(u)
        /\ \A k \in DOMAIN prog.ins[u] :
             (TookIn(u, k)' <=> TookIn(u, k)) /\ (ReturnedIn(u, k)' <=> ReturnedIn(u, k))
  BY <1>2, <1>4, <1>5 DEF Took, TookIn, ReturnedIn
<1>7. \A s \in Sems(prog) : Filled(s)' <=> Filled(s)
  <2>1. \A s \in Sems(prog) : prog.writer[s] \in Tasks(prog) BY <1>1, WriterOut
  <2>2. QED BY <1>2, <1>4, <1>5, <2>1 DEF Filled, Signalled
<1>8. Poised'
  <2>1. \A u \in Tasks(prog) :
          /\ stage'[u] = "takeEmpty" => tenant[prog.addr[prog.out[u]]] = prog.out[u]
          /\ stage'[u] = "takeFull" => tenant[prog.addr[Req(u)]] = Req(u) /\ Filled(Req(u))
    BY <1>3, <1>4, <1>5 DEF Sane, CreditInv, Poised
  <2>2. \A u \in Tasks(prog) : stage'[u] = "takeFull" => Req(u) \in Sems(prog)
    BY <1>1, <1>4, <1>5, RequireFacts DEF KernelOK, Req
  <2>3. prog' = prog /\ pos' = pos /\ tenant' = tenant
    BY <1>2 DEF counters
  <2>4. QED BY ONLY <1>7, <2>1, <2>2, <2>3 DEF Poised, Filled, Signalled, Req
<1>9. QED BY <1>2, <1>6, <1>7, <1>8, QuietStep

LEMMA WaitFullKeepsCredits ==
  ASSUME Sane, NEW t \in Tasks(prog), WaitFull(t)
  PROVE  CreditInv'
<1>1. /\ WellFormed(prog) /\ TypeOK /\ KernelOK
      /\ pos[t] \in DOMAIN prog.ins[t] /\ Req(t) \in Sems(prog)
  <2>1. WellFormed(prog) /\ TypeOK /\ KernelOK
    BY ProgramsAssumption DEF Sane, Typed
  <2>2. QED BY <2>1, RequireFacts DEF WaitFull, KernelOK, Req
<1>2. /\ prog' = prog /\ pos' = pos /\ counters' = counters
      /\ stage[t] = "waitFull" /\ stage' = [stage EXCEPT ![t] = "takeFull"]
  BY DEF WaitFull, Goto
<1>3. tenant[prog.addr[Req(t)]] = Req(t) /\ Filled(Req(t))
  <2>1. prog.size[Req(t)] \in Int /\ 0 < prog.size[Req(t)] /\ prog.addr[Req(t)] \in Slots
    BY <1>1, SemaphoreTypes
  <2>2. Accepted(Req(t)) /\ full[prog.addr[Req(t)]] >= prog.size[Req(t)]
    BY <2>1 DEF WaitFull, LoadCount
  <2>3. tenant[prog.addr[Req(t)]] = Req(t)
    BY <1>1, <2>1, <2>2, AcceptedOwn DEF Sane, CreditInv
  <2>4. QED BY <1>1, <2>1, <2>2, <2>3 DEF Sane, CreditInv, CountersFollow
<1>4. \A u \in Tasks(prog) : u # t => stage'[u] = stage[u]
  BY <1>1, <1>2 DEF TypeOK
<1>5. stage'[t] = "takeFull"
  BY <1>1, <1>2 DEF TypeOK
<1>6. \A u \in Tasks(prog) :
        /\ Took(u)' <=> Took(u)
        /\ \A k \in DOMAIN prog.ins[u] :
             (TookIn(u, k)' <=> TookIn(u, k)) /\ (ReturnedIn(u, k)' <=> ReturnedIn(u, k))
  BY <1>2, <1>4, <1>5 DEF Took, TookIn, ReturnedIn
<1>7. \A s \in Sems(prog) : Filled(s)' <=> Filled(s)
  <2>1. \A s \in Sems(prog) : prog.writer[s] \in Tasks(prog) BY <1>1, WriterOut
  <2>2. QED BY <1>2, <1>4, <1>5, <2>1 DEF Filled, Signalled
<1>8. Poised'
  <2>1. \A u \in Tasks(prog) :
          /\ stage'[u] = "takeEmpty" => tenant[prog.addr[prog.out[u]]] = prog.out[u]
          /\ stage'[u] = "takeFull" => tenant[prog.addr[Req(u)]] = Req(u) /\ Filled(Req(u))
    BY <1>3, <1>4, <1>5 DEF Sane, CreditInv, Poised
  <2>2. \A u \in Tasks(prog) : stage'[u] = "takeFull" => Req(u) \in Sems(prog)
    BY <1>1, <1>4, <1>5, RequireFacts DEF KernelOK, Req
  <2>3. prog' = prog /\ pos' = pos /\ tenant' = tenant
    BY <1>2 DEF counters
  <2>4. QED BY ONLY <1>7, <2>1, <2>2, <2>3 DEF Poised, Filled, Signalled, Req
<1>9. QED BY <1>2, <1>6, <1>7, <1>8, QuietStep

(* The others stay poised while t does not become so. *)
LEMMA OthersStayPoised ==
  ASSUME Sane, NEW t \in Tasks(prog), prog' = prog, tenant' = tenant,
         \A u \in Tasks(prog) : u # t => stage'[u] = stage[u] /\ pos'[u] = pos[u],
         stage'[t] \notin {"takeEmpty", "takeFull"},
         \A s \in Sems(prog) : Filled(s) => Filled(s)'
  PROVE  Poised'
<1>1. WellFormed(prog) /\ KernelOK
  BY ProgramsAssumption DEF Sane, Typed
<1>2. ASSUME NEW u \in Tasks(prog), stage'[u] = "takeEmpty"
      PROVE  tenant[prog.addr[prog.out[u]]] = prog.out[u]
  BY <1>2 DEF Sane, CreditInv, Poised
<1>3. ASSUME NEW u \in Tasks(prog), stage'[u] = "takeFull"
      PROVE  /\ tenant[prog.addr[Req(u)]] = Req(u) /\ Filled(Req(u)) /\ Req(u) \in Sems(prog)
             /\ pos'[u] = pos[u]
  <2>1. u # t /\ stage[u] = "takeFull" /\ pos'[u] = pos[u]
    BY <1>3
  <2>2. Req(u) \in Sems(prog)
    BY <1>1, <2>1, RequireFacts DEF KernelOK, Req
  <2>3. QED BY <2>1, <2>2 DEF Sane, CreditInv, Poised
<1>4. ASSUME NEW u \in Tasks(prog), stage'[u] = "takeFull"
      PROVE  LET r == prog.ins[u][pos'[u]]
             IN  tenant[prog.addr[r]] = r /\ (prog.full[r] \/ stage'[prog.writer[r]] \in {"return", "done"})
  <2>1. Req(u) = prog.ins[u][pos'[u]]
    BY <1>3, <1>4 DEF Req
  <2>2. prog.full[Req(u)] \/ stage'[prog.writer[Req(u)]] \in {"return", "done"}
    BY <1>3, <1>4 DEF Filled, Signalled
  <2>3. QED BY <1>3, <1>4, <2>1, <2>2
<1>5. prog' = prog /\ tenant' = tenant
  OBVIOUS
<1>6. QED BY ONLY <1>2, <1>4, <1>5 DEF Poised, Filled, Signalled, Req

(* The payload moves no credit; a task that announces no data may return    *)
(* at once, which fills nothing.                                            *)
LEMMA BeginPayloadKeepsCredits ==
  ASSUME Sane, NEW t \in Tasks(prog), BeginPayload(t)
  PROVE  CreditInv'
<1>1. /\ WellFormed(prog) /\ TypeOK
      /\ \A s \in Sems(prog) : prog.writer[s] \in Tasks(prog)
  BY ProgramsAssumption, WriterOut DEF Sane, Typed
<1>2. /\ prog' = prog /\ pos' = pos /\ counters' = counters
      /\ stage[t] = "ready" /\ stage' = [stage EXCEPT ![t] = "running"]
  BY DEF BeginPayload, Goto
<1>3. stage'[t] = "running" /\ \A u \in Tasks(prog) : u # t => stage'[u] = stage[u]
  BY <1>1, <1>2 DEF TypeOK
<1>4. \A u \in Tasks(prog) :
        /\ Took(u)' <=> Took(u)
        /\ \A k \in DOMAIN prog.ins[u] :
             (TookIn(u, k)' <=> TookIn(u, k)) /\ (ReturnedIn(u, k)' <=> ReturnedIn(u, k))
  BY <1>2, <1>3 DEF Took, TookIn, ReturnedIn
<1>5. \A s \in Sems(prog) : Filled(s)' <=> Filled(s)
  BY <1>1, <1>2, <1>3 DEF Filled, Signalled
<1>6. Poised'
  BY <1>2, <1>3, <1>5, OthersStayPoised DEF counters
<1>7. QED BY <1>2, <1>4, <1>5, <1>6, QuietStep

LEMMA EndPayloadKeepsCredits ==
  ASSUME Sane, NEW t \in Tasks(prog), EndPayload(t)
  PROVE  CreditInv'
<1>1. /\ WellFormed(prog) /\ TypeOK
      /\ \A s \in Sems(prog) : ~ prog.full[s] => prog.out[prog.writer[s]] = s /\ s # NoSem
      /\ \A s \in Sems(prog) : prog.writer[s] \in Tasks(prog)
  BY ProgramsAssumption, WriterOut, NotFull DEF Sane, Typed
<1>2. /\ prog' = prog /\ pos' = pos /\ counters' = counters
      /\ stage[t] = "running" /\ stage' = [stage EXCEPT ![t] = AfterPayload(prog, t)]
  BY DEF EndPayload, Goto
<1>3. /\ stage'[t] = AfterPayload(prog, t)
      /\ \A u \in Tasks(prog) : u # t => stage'[u] = stage[u]
  BY <1>1, <1>2 DEF TypeOK
<1>4. /\ stage'[t] \in {"signal", "return", "done"}
      /\ stage'[t] \in {"return", "done"} => prog.out[t] = NoSem
      /\ stage'[t] = "done" => prog.ins[t] = << >>
  BY <1>3 DEF AfterPayload, AfterSignal
<1>5. \A u \in Tasks(prog) : Took(u)' <=> Took(u)
  BY <1>2, <1>3, <1>4 DEF Took
<1>6. ASSUME NEW u \in Tasks(prog), NEW k \in DOMAIN prog.ins[u]
      PROVE  (TookIn(u, k)' <=> TookIn(u, k)) /\ (ReturnedIn(u, k)' <=> ReturnedIn(u, k))
  <2>1. CASE u # t
    BY <2>1, <1>2, <1>3 DEF TookIn, ReturnedIn
  <2>2. CASE u = t
    <3>1. stage'[t] # "done" /\ k \in 1 .. Len(prog.ins[t]) /\ pos[t] = 1
      BY <1>1, <1>2, <1>4, <2>2, RequireFacts DEF Sane, Typed, KernelOK
    <3>2. QED BY <1>2, <1>4, <2>2, <3>1 DEF TookIn, ReturnedIn
  <2>3. QED BY <2>1, <2>2
<1>7. \A s \in Sems(prog) : Filled(s)' <=> Filled(s)
  BY <1>1, <1>2, <1>3, <1>4 DEF Filled, Signalled
<1>8. Poised'
  BY <1>2, <1>3, <1>4, <1>7, OthersStayPoised DEF counters
<1>9. QED BY <1>2, <1>5, <1>6, <1>7, <1>8, QuietStep

(* An add on the slot of a tenant changes that counter and no other. *)
LEMMA AddToTenant ==
  ASSUME NEW counter \in [Slots -> 0 .. CountMod - 1], NEW s \in Sems(prog), NEW d \in Int,
         prog.addr[s] \in Slots, tenant[prog.addr[s]] = s
  PROVE  /\ AtomicAdd(counter, s, d)[prog.addr[s]] = (counter[prog.addr[s]] + d) % CountMod
         /\ \A a \in Slots : a # prog.addr[s] => AtomicAdd(counter, s, d)[a] = counter[a]
<1>1. s # NoSem
  BY DEF Sems, NoSem
<1>2. Accepted(s)
  BY <1>1 DEF Accepted
<1>3. QED BY <1>2 DEF AtomicAdd

(* A step on the slot of one tenant leaves the counters of the others. *)
LEMMA OneSlotFollows ==
  ASSUME Sane, NEW s \in Sems(prog), tenant[prog.addr[s]] = s,
         prog' = prog, tenant' = tenant,
         \A a \in Slots : a # prog.addr[s] => empty'[a] = empty[a] /\ full'[a] = full[a],
         \A q \in Sems(prog) : q # s =>
           /\ ~ prog.full[q] => (Took(prog.writer[q])' <=> Took(prog.writer[q]))
           /\ (Filled(q)' <=> Filled(q)) /\ (Untaken(q)' <=> Untaken(q))
           /\ (q \in completed' <=> q \in completed),
         empty'[prog.addr[s]] =
           IF (~ prog.full[s] /\ ~ Took(prog.writer[s])') \/ s \in completed'
             THEN prog.size[s] ELSE 0,
         full'[prog.addr[s]] = IF Filled(s)' /\ Untaken(s)' THEN prog.size[s] ELSE 0
  PROVE  CountersFollow'
<1>1. \A q \in Sems(prog) : prog.addr[q] \in Slots
  BY ProgramsAssumption, SemaphoreTypes DEF Sane, Typed
<1>2. ASSUME NEW q \in Sems(prog), tenant[prog.addr[q]] = q
      PROVE  /\ empty'[prog.addr[q]] =
                  IF (~ prog.full[q] /\ ~ Took(prog.writer[q])') \/ q \in completed'
                    THEN prog.size[q] ELSE 0
             /\ full'[prog.addr[q]] = IF Filled(q)' /\ Untaken(q)' THEN prog.size[q] ELSE 0
  <2>1. CASE q = s
    BY <2>1
  <2>2. CASE q # s
    <3>1. empty'[prog.addr[q]] = empty[prog.addr[q]] /\ full'[prog.addr[q]] = full[prog.addr[q]]
      BY <1>1, <1>2, <2>2
    <3>2. /\ empty[prog.addr[q]] =
               IF (~ prog.full[q] /\ ~ Took(prog.writer[q])) \/ q \in completed
                 THEN prog.size[q] ELSE 0
          /\ full[prog.addr[q]] = IF Filled(q) /\ Untaken(q) THEN prog.size[q] ELSE 0
      BY <1>2 DEF Sane, CreditInv, CountersFollow
    <3>3. QED BY <2>2, <3>1, <3>2
  <2>3. QED BY <2>1, <2>2
<1>3. prog' = prog /\ tenant' = tenant
  OBVIOUS
<1>4. QED BY ONLY <1>2, <1>3 DEF CountersFollow, Took, Filled, Signalled, Untaken, TookIn

LEMMA TakeEmptyKeepsCredits ==
  ASSUME Sane, NEW t \in Tasks(prog), TakeEmpty(t)
  PROVE  CreditInv'
<1>1. /\ WellFormed(prog) /\ TypeOK /\ KernelOK
      /\ \A q \in Sems(prog) : prog.writer[q] \in Tasks(prog)
      /\ \A q \in Sems(prog) : ~ prog.full[q] => prog.out[prog.writer[q]] = q
  BY ProgramsAssumption, NotFull, WriterOut DEF Sane, Typed
<1>2. /\ prog' = prog /\ tenant' = tenant /\ full' = full /\ completed' = completed /\ pos' = pos
      /\ stage[t] = "takeEmpty" /\ stage' = [stage EXCEPT ![t] = AfterAcquire(prog, t)]
      /\ empty' = AtomicAdd(empty, prog.out[t], -prog.size[prog.out[t]])
  BY DEF TakeEmpty, Goto
<1> PICK s \in Sems(prog) : s = prog.out[t]
  BY <1>1, <1>2, OwnOut DEF KernelOK
<1>3. /\ s = prog.out[t] /\ s # NoSem /\ ~ prog.full[s] /\ prog.writer[s] = t
      /\ tenant[prog.addr[s]] = s /\ pos[t] = 1
      /\ prog.size[s] \in Int /\ -prog.size[s] \in Int /\ prog.addr[s] \in Slots
  BY <1>1, <1>2, OwnOut, SemaphoreTypes DEF KernelOK, Sane, CreditInv, Poised
<1>4. /\ stage'[t] \in {"ready", "waitFull"} /\ (stage'[t] = "ready" => prog.ins[t] = << >>)
      /\ \A u \in Tasks(prog) : u # t => stage'[u] = stage[u]
  BY <1>1, <1>2 DEF TypeOK, AfterAcquire
<1>5. /\ Took(t)' /\ ~ Took(t)
      /\ \A u \in Tasks(prog) : u # t => (Took(u)' <=> Took(u))
  BY <1>2, <1>3, <1>4 DEF Took
<1>6. ASSUME NEW u \in Tasks(prog), NEW k \in DOMAIN prog.ins[u]
      PROVE  (TookIn(u, k)' <=> TookIn(u, k)) /\ (ReturnedIn(u, k)' <=> ReturnedIn(u, k))
  <2>1. CASE u # t
    BY <2>1, <1>2, <1>4 DEF TookIn, ReturnedIn
  <2>2. CASE u = t
    <3>1. k \in 1 .. Len(prog.ins[t]) /\ prog.ins[t] # << >>
      BY <1>1, <2>2, RequireFacts
    <3>2. QED BY <1>2, <1>3, <1>4, <2>2, <3>1 DEF TookIn, ReturnedIn
  <2>3. QED BY <2>1, <2>2
<1>7. \A q \in Sems(prog) : (Filled(q)' <=> Filled(q)) /\ (Untaken(q)' <=> Untaken(q))
  <2>1. \A q \in Sems(prog) : Filled(q)' <=> Filled(q)
    BY <1>1, <1>2, <1>4 DEF Filled, Signalled
  <2>2. \A q \in Sems(prog) : Untaken(q)' <=> Untaken(q)
    BY <1>2, <1>6 DEF Untaken
  <2>3. QED BY <2>1, <2>2
<1>8. TenantsInTurn' /\ CompletedInTurn'
  BY <1>2 DEF Sane, CreditInv, TenantsInTurn, CompletedInTurn
<1>9. TakenInTurn'
  <2>1. ASSUME NEW u \in Tasks(prog), Took(u)'
        PROVE  Initialised(prog.out[u])
    BY <1>3, <1>5, <2>1 DEF Sane, CreditInv, TakenInTurn, Initialised
  <2>2. ASSUME NEW u \in Tasks(prog), NEW k \in DOMAIN prog.ins[u], TookIn(u, k)'
        PROVE  /\ Initialised(prog.ins[u][k]) /\ Filled(prog.ins[u][k])
               /\ prog.ins[u][k] \in Sems(prog)
    BY <1>1, <1>6, <2>2, RequireFacts DEF Sane, CreditInv, TakenInTurn
  <2>3. prog' = prog /\ tenant' = tenant /\ completed' = completed
    BY <1>2
  <2>4. QED BY ONLY <1>7, <2>1, <2>2, <2>3
               DEF TakenInTurn, Initialised, Took, TookIn, Filled, Signalled
<1>10. CompletedWhenReturned'
  BY <1>2, <1>6 DEF Sane, CreditInv, CompletedWhenReturned
<1>11. Poised'
  BY <1>2, <1>4, <1>7, OthersStayPoised
<1>12. CountersFollow'
  <2>1. s \notin completed
    BY <1>2, <1>3, CompletedWasTaken DEF Signalled
  <2>2. empty[prog.addr[s]] = prog.size[s]
    BY <1>3, <1>5 DEF Sane, CreditInv, CountersFollow
  <2>3. /\ empty' = AtomicAdd(empty, s, -prog.size[s])
        /\ AtomicAdd(empty, s, -prog.size[s])[prog.addr[s]] =
             (empty[prog.addr[s]] + (-prog.size[s])) % CountMod
        /\ \A a \in Slots : a # prog.addr[s] =>
             AtomicAdd(empty, s, -prog.size[s])[a] = empty[a]
    <3>1. empty \in [Slots -> 0 .. CountMod - 1] BY <1>1 DEF TypeOK
    <3>2. QED BY <1>2, <1>3, <3>1, AddToTenant
  <2>4. /\ empty'[prog.addr[s]] = 0
        /\ \A a \in Slots : a # prog.addr[s] => empty'[a] = empty[a] /\ full'[a] = full[a]
    <3>1. (prog.size[s] + (-prog.size[s])) % CountMod = 0
      BY <1>3, TakesAll
    <3>2. QED BY <1>2, <2>2, <2>3, <3>1
  <2>5. \A q \in Sems(prog) : q # s /\ ~ prog.full[q] =>
          (Took(prog.writer[q])' <=> Took(prog.writer[q]))
    BY <1>1, <1>2, <1>4 DEF Took
  <2>6. full'[prog.addr[s]] = IF Filled(s)' /\ Untaken(s)' THEN prog.size[s] ELSE 0
    BY <1>2, <1>3, <1>7 DEF Sane, CreditInv, CountersFollow
  <2>7. Took(prog.writer[s])'
    BY <1>2, <1>3, <1>5 DEF Took
  <2>8. QED BY <1>2, <1>3, <1>7, <2>1, <2>4, <2>5, <2>6, <2>7, OneSlotFollows
<1>13. ChainsCompleted'
  BY <1>2 DEF Sane, CreditInv, ChainsCompleted, Initialised
<1>14. QED BY <1>8, <1>9, <1>10, <1>11, <1>12, <1>13 DEF CreditInv

LEMMA TakeFullKeepsCredits ==
  ASSUME Sane, NEW t \in Tasks(prog), TakeFull(t)
  PROVE  CreditInv'
<1>1. /\ WellFormed(prog) /\ TypeOK /\ KernelOK
      /\ \A q \in Sems(prog) : prog.writer[q] \in Tasks(prog)
      /\ \A u \in Tasks(prog) : \A k \in DOMAIN prog.ins[u] : prog.ins[u][k] \in Sems(prog)
      /\ stage[t] = "takeFull"
  BY ProgramsAssumption, WriterOut, RequireFacts DEF Sane, Typed, TakeFull
<1> PICK j \in DOMAIN prog.ins[t] : j = pos[t]
  BY <1>1 DEF KernelOK
<1> PICK s \in Sems(prog) : s = prog.ins[t][j]
  BY <1>1
<1>2. /\ prog' = prog /\ tenant' = tenant /\ empty' = empty /\ completed' = completed
      /\ full' = AtomicAdd(full, s, -prog.size[s])
      /\ IF j < Len(prog.ins[t])
           THEN pos' = [pos EXCEPT ![t] = j + 1] /\ stage' = [stage EXCEPT ![t] = "waitFull"]
           ELSE pos' = [pos EXCEPT ![t] = 1] /\ stage' = [stage EXCEPT ![t] = "ready"]
  BY DEF TakeFull, Goto, Req
<1>3. /\ tenant[prog.addr[s]] = s /\ Filled(s)
      /\ prog.size[s] \in Int /\ -prog.size[s] \in Int /\ prog.addr[s] \in Slots
      /\ \A u \in Tasks(prog) : \A k \in DOMAIN prog.ins[u] :
           prog.ins[u][k] = s <=> u = t /\ k = j
  <2>1. Req(t) = s BY DEF Req
  <2>2. tenant[prog.addr[s]] = s /\ Filled(s)
    BY <1>1, <2>1 DEF Sane, CreditInv, Poised
  <2>3. QED BY <1>1, <2>2, SemaphoreTypes, SameRequire
<1>4. /\ stage'[t] = IF j < Len(prog.ins[t]) THEN "waitFull" ELSE "ready"
      /\ pos'[t] = IF j < Len(prog.ins[t]) THEN j + 1 ELSE 1
      /\ \A u \in Tasks(prog) : u # t => stage'[u] = stage[u] /\ pos'[u] = pos[u]
  BY <1>1, <1>2 DEF TypeOK
<1>5. \A u \in Tasks(prog) : Took(u)' <=> Took(u)
  BY <1>1, <1>2, <1>4 DEF Took
<1>6. ASSUME NEW u \in Tasks(prog), NEW k \in DOMAIN prog.ins[u]
      PROVE  /\ TookIn(u, k)' <=> TookIn(u, k) \/ (u = t /\ k = j)
             /\ ReturnedIn(u, k)' <=> ReturnedIn(u, k)
  <2>1. CASE u # t
    BY <2>1, <1>2, <1>4 DEF TookIn, ReturnedIn
  <2>2. CASE u = t
    <3>1. k \in 1 .. Len(prog.ins[t]) /\ j \in 1 .. Len(prog.ins[t]) /\ Len(prog.ins[t]) \in Nat
      BY <1>1, <2>2, RequireFacts
    <3>2. TookIn(t, k) <=> k < j
      BY <1>1 DEF TookIn
    <3>3. TookIn(t, k)' <=> k <= j
      BY <1>4, <3>1 DEF TookIn
    <3>4. ~ ReturnedIn(t, k) /\ ~ ReturnedIn(t, k)'
      BY <1>1, <1>4 DEF ReturnedIn
    <3>5. QED BY <2>2, <3>1, <3>2, <3>3, <3>4
  <2>3. QED BY <2>1, <2>2
<1>7. /\ \A q \in Sems(prog) : Filled(q)' <=> Filled(q)
      /\ \A q \in Sems(prog) : q # s => (Untaken(q)' <=> Untaken(q))
      /\ Untaken(s) /\ ~ Untaken(s)'
  <2>1. \A q \in Sems(prog) : Filled(q)' <=> Filled(q)
    BY <1>1, <1>2, <1>4 DEF Filled, Signalled
  <2>2. \A q \in Sems(prog) : q # s => (Untaken(q)' <=> Untaken(q))
    BY <1>2, <1>6 DEF Untaken
  <2>3. Untaken(s)
    <3>1. j \in Nat
      BY <1>1, RequireFacts
    <3>2. ~ TookIn(t, j)
      BY <1>1, <3>1 DEF TookIn
    <3>3. QED BY <1>3, <3>2 DEF Untaken
  <2>4. ~ Untaken(s)'
    BY <1>2, <1>6 DEF Untaken
  <2>5. QED BY <2>1, <2>2, <2>3, <2>4
<1>8. TenantsInTurn' /\ CompletedInTurn'
  BY <1>2 DEF Sane, CreditInv, TenantsInTurn, CompletedInTurn
<1>9. TakenInTurn'
  <2>1. ASSUME NEW u \in Tasks(prog), Took(u)'
        PROVE  Initialised(prog.out[u])
    BY <1>5, <2>1 DEF Sane, CreditInv, TakenInTurn
  <2>2. ASSUME NEW u \in Tasks(prog), NEW k \in DOMAIN prog.ins[u], TookIn(u, k)'
        PROVE  /\ Initialised(prog.ins[u][k]) /\ Filled(prog.ins[u][k])
               /\ prog.ins[u][k] \in Sems(prog)
    BY <1>1, <1>3, <1>6, <2>2 DEF Sane, CreditInv, TakenInTurn, Initialised
  <2>3. prog' = prog /\ tenant' = tenant /\ completed' = completed
    BY <1>2
  <2>4. QED BY ONLY <1>7, <2>1, <2>2, <2>3
               DEF TakenInTurn, Initialised, Took, TookIn, Filled, Signalled
<1>10. CompletedWhenReturned'
  BY <1>2, <1>6 DEF Sane, CreditInv, CompletedWhenReturned
<1>11. Poised'
  BY <1>2, <1>4, <1>7, OthersStayPoised
<1>12. CountersFollow'
  <2>1. full[prog.addr[s]] = prog.size[s]
    BY <1>3, <1>7 DEF Sane, CreditInv, CountersFollow
  <2>2. /\ AtomicAdd(full, s, -prog.size[s])[prog.addr[s]] =
             (full[prog.addr[s]] + (-prog.size[s])) % CountMod
        /\ \A a \in Slots : a # prog.addr[s] =>
             AtomicAdd(full, s, -prog.size[s])[a] = full[a]
    <3>1. full \in [Slots -> 0 .. CountMod - 1] BY <1>1 DEF TypeOK
    <3>2. QED BY <1>3, <3>1, AddToTenant
  <2>3. /\ full'[prog.addr[s]] = 0
        /\ \A a \in Slots : a # prog.addr[s] => empty'[a] = empty[a] /\ full'[a] = full[a]
    <3>1. (prog.size[s] + (-prog.size[s])) % CountMod = 0
      BY <1>3, TakesAll
    <3>2. QED BY <1>2, <2>1, <2>2, <3>1
  <2>4. \A q \in Sems(prog) : Took(prog.writer[q])' <=> Took(prog.writer[q])
    BY <1>1, <1>2, <1>4 DEF Took
  <2>5. empty'[prog.addr[s]] =
          IF (~ prog.full[s] /\ ~ Took(prog.writer[s])') \/ s \in completed'
            THEN prog.size[s] ELSE 0
    BY <1>2, <1>3, <2>4 DEF Sane, CreditInv, CountersFollow
  <2>6. QED BY <1>2, <1>3, <1>7, <2>3, <2>4, <2>5, OneSlotFollows
<1>13. ChainsCompleted'
  BY <1>2 DEF Sane, CreditInv, ChainsCompleted, Initialised
<1>14. QED BY <1>8, <1>9, <1>10, <1>11, <1>12, <1>13 DEF CreditInv

LEMMA SignalKeepsCredits ==
  ASSUME Sane, NEW t \in Tasks(prog), Signal(t)
  PROVE  CreditInv'
<1>1. /\ WellFormed(prog) /\ TypeOK /\ KernelOK
      /\ \A q \in Sems(prog) : prog.writer[q] \in Tasks(prog)
      /\ \A q \in Sems(prog) : ~ prog.full[q] => prog.out[prog.writer[q]] = q
      /\ stage[t] = "signal" /\ pos[t] = 1 /\ prog.out[t] # NoSem
  BY ProgramsAssumption, WriterOut, NotFull DEF Sane, Typed, KernelOK, Signal
<1> PICK s \in Sems(prog) : s = prog.out[t]
  BY <1>1, OwnOut
<1>2. /\ prog' = prog /\ tenant' = tenant /\ empty' = empty /\ completed' = completed
      /\ pos' = pos /\ stage' = [stage EXCEPT ![t] = AfterSignal(prog, t)]
      /\ full' = AtomicAdd(full, s, prog.size[s])
  BY DEF Signal, Goto
<1>3. /\ s = prog.out[t] /\ s # NoSem /\ ~ prog.full[s] /\ prog.writer[s] = t
      /\ Took(t) /\ ~ Signalled(t)
      /\ prog.size[s] \in Int /\ prog.size[s] \in 0 .. CountMod - 1 /\ prog.addr[s] \in Slots
  BY <1>1, OwnOut, SemaphoreTypes DEF Took, Signalled
<1>4. tenant[prog.addr[s]] = s /\ s \notin completed /\ ~ Filled(s)
  BY <1>3, AcquiredIsTenant
<1>5. /\ stage'[t] \in {"return", "done"} /\ (stage'[t] = "done" => prog.ins[t] = << >>)
      /\ \A u \in Tasks(prog) : u # t => stage'[u] = stage[u]
  BY <1>1, <1>2 DEF TypeOK, AfterSignal
<1>6. \A u \in Tasks(prog) : Took(u)' <=> Took(u)
  BY <1>1, <1>2, <1>5 DEF Took
<1>7. ASSUME NEW u \in Tasks(prog), NEW k \in DOMAIN prog.ins[u]
      PROVE  (TookIn(u, k)' <=> TookIn(u, k)) /\ (ReturnedIn(u, k)' <=> ReturnedIn(u, k))
  <2>1. CASE u # t
    BY <2>1, <1>2, <1>5 DEF TookIn, ReturnedIn
  <2>2. CASE u = t
    <3>1. k \in 1 .. Len(prog.ins[t]) /\ prog.ins[t] # << >>
      BY <1>1, <2>2, RequireFacts
    <3>2. QED BY <1>1, <1>2, <1>5, <2>2, <3>1 DEF TookIn, ReturnedIn
  <2>3. QED BY <2>1, <2>2
<1>8. /\ \A q \in Sems(prog) : q # s => (Filled(q)' <=> Filled(q))
      /\ \A q \in Sems(prog) : Untaken(q)' <=> Untaken(q)
      /\ Filled(s)' /\ Untaken(s)
  <2>1. \A q \in Sems(prog) : q # s => (Filled(q)' <=> Filled(q))
    <3>1. \A q \in Sems(prog) : q # s /\ ~ prog.full[q] => prog.writer[q] # t
      BY <1>1, <1>3
    <3>2. QED BY <1>1, <1>2, <1>5, <3>1 DEF Filled, Signalled
  <2>2. \A q \in Sems(prog) : Untaken(q)' <=> Untaken(q)
    BY <1>2, <1>7 DEF Untaken
  <2>3. Filled(s)'
    BY <1>2, <1>3, <1>5 DEF Filled, Signalled
  <2>4. Untaken(s)
    BY <1>4 DEF Untaken, Sane, CreditInv, TakenInTurn
  <2>5. QED BY <2>1, <2>2, <2>3, <2>4
<1>9. TenantsInTurn' /\ CompletedInTurn'
  BY <1>2 DEF Sane, CreditInv, TenantsInTurn, CompletedInTurn
<1>10. TakenInTurn'
  <2>1. ASSUME NEW u \in Tasks(prog), Took(u)'
        PROVE  Initialised(prog.out[u])
    BY <1>6, <2>1 DEF Sane, CreditInv, TakenInTurn
  <2>2. ASSUME NEW u \in Tasks(prog), NEW k \in DOMAIN prog.ins[u], TookIn(u, k)'
        PROVE  /\ Initialised(prog.ins[u][k]) /\ Filled(prog.ins[u][k])
               /\ prog.ins[u][k] \in Sems(prog)
    BY <1>1, <1>7, <2>2, RequireFacts DEF Sane, CreditInv, TakenInTurn
  <2>3. prog' = prog /\ tenant' = tenant /\ completed' = completed
    BY <1>2
  <2>4. \A q \in Sems(prog) : Filled(q) => Filled(q)'
    BY <1>8
  <2>5. QED BY ONLY <2>1, <2>2, <2>3, <2>4
               DEF TakenInTurn, Initialised, Took, TookIn, Filled, Signalled
<1>11. CompletedWhenReturned'
  BY <1>2, <1>7 DEF Sane, CreditInv, CompletedWhenReturned
<1>12. Poised'
  BY <1>2, <1>5, <1>8, OthersStayPoised
<1>13. CountersFollow'
  <2>1. full[prog.addr[s]] = 0
    BY <1>4 DEF Sane, CreditInv, CountersFollow
  <2>2. /\ AtomicAdd(full, s, prog.size[s])[prog.addr[s]] =
             (full[prog.addr[s]] + prog.size[s]) % CountMod
        /\ \A a \in Slots : a # prog.addr[s] =>
             AtomicAdd(full, s, prog.size[s])[a] = full[a]
    <3>1. full \in [Slots -> 0 .. CountMod - 1] BY <1>1 DEF TypeOK
    <3>2. QED BY <1>3, <1>4, <3>1, AddToTenant
  <2>3. /\ full'[prog.addr[s]] = prog.size[s]
        /\ \A a \in Slots : a # prog.addr[s] => empty'[a] = empty[a] /\ full'[a] = full[a]
    <3>1. (0 + prog.size[s]) % CountMod = prog.size[s]
      BY <1>3, CounterWraps
    <3>2. QED BY <1>2, <2>1, <2>2, <3>1
  <2>4. \A q \in Sems(prog) : Took(prog.writer[q])' <=> Took(prog.writer[q])
    BY <1>1, <1>2, <1>5 DEF Took
  <2>5. empty'[prog.addr[s]] =
          IF (~ prog.full[s] /\ ~ Took(prog.writer[s])') \/ s \in completed'
            THEN prog.size[s] ELSE 0
    BY <1>2, <1>4, <2>4 DEF Sane, CreditInv, CountersFollow
  <2>6. QED BY <1>2, <1>4, <1>8, <2>3, <2>4, <2>5, OneSlotFollows
<1>14. ChainsCompleted'
  BY <1>2 DEF Sane, CreditInv, ChainsCompleted, Initialised
<1>15. QED BY <1>9, <1>10, <1>11, <1>12, <1>13, <1>14 DEF CreditInv

LEMMA ReturnKeepsCredits ==
  ASSUME Sane, NEW t \in Tasks(prog), Return(t)
  PROVE  CreditInv'
<1>1. /\ WellFormed(prog) /\ TypeOK /\ KernelOK
      /\ \A q \in Sems(prog) : prog.writer[q] \in Tasks(prog)
      /\ \A u \in Tasks(prog) : \A k \in DOMAIN prog.ins[u] : prog.ins[u][k] \in Sems(prog)
      /\ stage[t] = "return"
  BY ProgramsAssumption, WriterOut, RequireFacts DEF Sane, Typed, Return
<1> PICK j \in DOMAIN prog.ins[t] : j = pos[t]
  BY <1>1 DEF KernelOK
<1> PICK s \in Sems(prog) : s = prog.ins[t][j]
  BY <1>1
<1>2. /\ Len(prog.ins[t]) \in Nat /\ j \in 1 .. Len(prog.ins[t])
      /\ \A u \in Tasks(prog) : \A k \in DOMAIN prog.ins[u] :
           prog.ins[u][k] = s <=> u = t /\ k = j
      /\ prog.size[s] \in Int /\ prog.size[s] \in 0 .. CountMod - 1 /\ prog.addr[s] \in Slots
  BY <1>1, RequireFacts, SemaphoreTypes, SameRequire
<1>3. tenant[prog.addr[s]] = s /\ s # NoSem /\ s \notin completed /\ Filled(s) /\ ~ Untaken(s)
  <2>1. TookIn(t, j) /\ ~ ReturnedIn(t, j)
    BY <1>1, <1>2 DEF TookIn, ReturnedIn
  <2>2. s # NoSem
    BY DEF Sems, NoSem
  <2>3. QED BY <2>1, <2>2, RequiredIsTenant DEF Untaken
<1>4. /\ prog' = prog /\ tenant' = tenant /\ full' = full
      /\ empty' = AtomicAdd(empty, s, prog.size[s])
      /\ completed' = completed \cup {s}
      /\ IF j < Len(prog.ins[t])
           THEN pos' = [pos EXCEPT ![t] = j + 1] /\ stage' = stage
           ELSE pos' = pos /\ stage' = [stage EXCEPT ![t] = "done"]
  <2>1. Req(t) = s BY DEF Req
  <2>2. Accepted(s) BY <1>3 DEF Accepted
  <2>3. QED BY <1>3, <2>1, <2>2 DEF Return, Goto
<1>5. /\ stage'[t] = IF j < Len(prog.ins[t]) THEN "return" ELSE "done"
      /\ j < Len(prog.ins[t]) => pos'[t] = j + 1
      /\ \A u \in Tasks(prog) : u # t => stage'[u] = stage[u] /\ pos'[u] = pos[u]
  BY <1>1, <1>4 DEF TypeOK
<1>6. \A u \in Tasks(prog) : Took(u)' <=> Took(u)
  BY <1>1, <1>4, <1>5 DEF Took
<1>7. ASSUME NEW u \in Tasks(prog), NEW k \in DOMAIN prog.ins[u]
      PROVE  /\ TookIn(u, k)' <=> TookIn(u, k)
             /\ ReturnedIn(u, k)' <=> ReturnedIn(u, k) \/ (u = t /\ k = j)
  <2>1. CASE u # t
    BY <2>1, <1>4, <1>5 DEF TookIn, ReturnedIn
  <2>2. CASE u = t
    <3>1. k \in 1 .. Len(prog.ins[t])
      BY <1>1, <2>2, RequireFacts
    <3>2. TookIn(t, k) /\ TookIn(t, k)'
      BY <1>1, <1>5 DEF TookIn
    <3>3. ReturnedIn(t, k) <=> k < j
      BY <1>1 DEF ReturnedIn
    <3>4. ReturnedIn(t, k)' <=> k <= j
      BY <1>2, <1>5, <3>1 DEF ReturnedIn
    <3>5. QED BY <1>2, <2>2, <3>1, <3>2, <3>3, <3>4
  <2>3. QED BY <2>1, <2>2
<1>8. /\ \A q \in Sems(prog) : Filled(q)' <=> Filled(q)
      /\ \A q \in Sems(prog) : Untaken(q)' <=> Untaken(q)
  <2>1. \A q \in Sems(prog) : Filled(q)' <=> Filled(q)
    BY <1>1, <1>4, <1>5 DEF Filled, Signalled
  <2>2. \A q \in Sems(prog) : Untaken(q)' <=> Untaken(q)
    BY <1>4, <1>7 DEF Untaken
  <2>3. QED BY <2>1, <2>2
<1>9. \A q \in Sems(prog) : Initialised(q)' <=> Initialised(q)
  BY <1>3, <1>4 DEF Initialised
<1>10. TenantsInTurn' /\ CompletedInTurn'
  <2>1. TenantsInTurn'
    BY <1>4 DEF Sane, CreditInv, TenantsInTurn
  <2>2. \A r \in Sems(prog) : r < s /\ prog.addr[r] = prog.addr[s] => r \in completed
    BY <1>2, <1>3 DEF Sane, CreditInv, TenantsInTurn
  <2>3. CompletedInTurn'
    BY <1>4, <2>2 DEF Sane, CreditInv, CompletedInTurn
  <2>4. QED BY <2>1, <2>3
<1>11. TakenInTurn'
  <2>1. ASSUME NEW u \in Tasks(prog), Took(u)'
        PROVE  Initialised(prog.out[u]) /\ prog.out[u] \in Sems(prog)
    BY <1>1, <1>6, <2>1, OwnOut DEF Sane, CreditInv, TakenInTurn, Took
  <2>2. ASSUME NEW u \in Tasks(prog), NEW k \in DOMAIN prog.ins[u], TookIn(u, k)'
        PROVE  /\ Initialised(prog.ins[u][k]) /\ Filled(prog.ins[u][k])
               /\ prog.ins[u][k] \in Sems(prog)
    BY <1>1, <1>7, <2>2 DEF Sane, CreditInv, TakenInTurn
  <2>3. prog' = prog
    BY <1>4
  <2>4. QED BY ONLY <1>8, <1>9, <2>1, <2>2, <2>3
               DEF TakenInTurn, Initialised, Took, TookIn, Filled, Signalled
<1>12. CompletedWhenReturned'
  <2>1. \A u \in Tasks(prog) : \A k \in DOMAIN prog.ins[u] :
          prog.ins[u][k] \in completed' <=> ReturnedIn(u, k)'
    BY <1>2, <1>4, <1>7 DEF Sane, CreditInv, CompletedWhenReturned
  <2>2. QED BY <1>4, <2>1 DEF CompletedWhenReturned
<1>13. Poised'
  BY <1>4, <1>5, <1>8, OthersStayPoised
<1>14. CountersFollow'
  <2>1. ~ prog.full[s] => Took(prog.writer[s])
    BY <1>3, FilledWasAcquired
  <2>2. empty[prog.addr[s]] = 0
    BY <1>3, <2>1 DEF Sane, CreditInv, CountersFollow
  <2>3. /\ AtomicAdd(empty, s, prog.size[s])[prog.addr[s]] =
             (empty[prog.addr[s]] + prog.size[s]) % CountMod
        /\ \A a \in Slots : a # prog.addr[s] =>
             AtomicAdd(empty, s, prog.size[s])[a] = empty[a]
    <3>1. empty \in [Slots -> 0 .. CountMod - 1] BY <1>1 DEF TypeOK
    <3>2. QED BY <1>2, <1>3, <3>1, AddToTenant
  <2>4. /\ empty'[prog.addr[s]] = prog.size[s]
        /\ \A a \in Slots : a # prog.addr[s] => empty'[a] = empty[a] /\ full'[a] = full[a]
    <3>1. (0 + prog.size[s]) % CountMod = prog.size[s]
      BY <1>2, CounterWraps
    <3>2. QED BY <1>4, <2>2, <2>3, <3>1
  <2>5. \A q \in Sems(prog) : Took(prog.writer[q])' <=> Took(prog.writer[q])
    BY <1>1, <1>4, <1>5 DEF Took
  <2>6. full'[prog.addr[s]] = IF Filled(s)' /\ Untaken(s)' THEN prog.size[s] ELSE 0
    BY <1>3, <1>4, <1>8 DEF Sane, CreditInv, CountersFollow
  <2>7. s \in completed' /\ \A q \in Sems(prog) : q # s => (q \in completed' <=> q \in completed)
    BY <1>4
  <2>8. QED BY <1>3, <1>4, <1>8, <2>4, <2>5, <2>6, <2>7, OneSlotFollows
<1>15. ChainsCompleted'
  <2>1. \A q \in Sems(prog) : Initialised(q)' => prog.chains[q] \subseteq completed'
    BY <1>4, <1>9 DEF Sane, CreditInv, ChainsCompleted
  <2>2. QED BY <1>4, <2>1 DEF ChainsCompleted, Initialised
<1>16. QED BY <1>10, <1>11, <1>12, <1>13, <1>14, <1>15 DEF CreditInv

(* Every step keeps the credits where CreditInv says they are. *)
LEMMA NextKeepsCredits == Sane /\ [Next]_vars => CreditInv'
<1> SUFFICES ASSUME Sane, [Next]_vars PROVE CreditInv'
  OBVIOUS
<1>1. CASE \E s \in Sems(prog) : InitSem(s)
  BY <1>1, InitSemKeepsCredits
<1>2. ASSUME NEW t \in Tasks(prog), Step(t)
      PROVE  CreditInv'
  BY <1>2, WaitEmptyKeepsCredits, TakeEmptyKeepsCredits, WaitFullKeepsCredits,
     TakeFullKeepsCredits, BeginPayloadKeepsCredits, EndPayloadKeepsCredits,
     SignalKeepsCredits, ReturnKeepsCredits DEF Step
<1>3. CASE UNCHANGED vars
  <2>1. /\ prog' = prog /\ stage' = stage /\ pos' = pos
        /\ counters' = counters /\ tenant' = tenant
    BY <1>3 DEF vars, counters
  <2>2. Poised'
    BY <2>1 DEF Sane, CreditInv, Poised, Req, Filled, Signalled
  <2>3. QED BY <2>1, <2>2, QuietStep DEF Took, TookIn, ReturnedIn, Filled, Signalled
<1>4. QED BY <1>1, <1>2, <1>3 DEF Next

-----------------------------------------------------------------------------
(* The order of the tasks.                                                 *)

(* The writer of a filled semaphore has announced its data; the copies of a *)
(* broadcast start full only after the original completed.                  *)
LEMMA FilledByWriter ==
  ASSUME Sane, NEW s \in Sems(prog), Initialised(s), Filled(s)
  PROVE  Signalled(prog.writer[s])
<1>1. CASE prog.full[s]
  <2> PICK r \in Sems(prog) : r = prog.out[prog.writer[s]] /\ r \in prog.chains[s]
                              /\ r # NoSem
    BY <1>1, ProgramsAssumption, WriterOut DEF Sane, Typed
  <2>1. r \in completed
    BY DEF Sane, CreditInv, ChainsCompleted
  <2>2. ~ prog.full[r] /\ prog.writer[r] = prog.writer[s]
    BY ProgramsAssumption, WriterOut, OwnOut DEF Sane, Typed
  <2>3. QED BY <2>1, <2>2, CompletedWasTaken
<1>2. CASE ~ prog.full[s]
  BY <1>2 DEF Filled
<1>3. QED BY <1>1, <1>2

(* What a step of t does to the stages. *)
LEMMA StepMoves ==
  ASSUME Typed, NEW t \in Tasks(prog), Step(t)
  PROVE  /\ prog' = prog /\ stage[t] # "done"
         /\ \A u \in Tasks(prog) : u # t => stage'[u] = stage[u]
         /\ Begun(t)' => Begun(t) \/ (stage[t] = "ready" /\ IsCalled(t))
<1> USE DEF Goto
<1>1. TypeOK
  BY DEF Typed
<1>2. CASE WaitEmpty(t) \/ TakeEmpty(t) \/ WaitFull(t) \/ TakeFull(t)
  <2>1. /\ prog' = prog /\ stage[t] # "done"
        /\ stage'[t] \in {"takeEmpty", "waitFull", "takeFull", "ready"}
        /\ \A u \in Tasks(prog) : u # t => stage'[u] = stage[u]
    BY <1>1, <1>2 DEF TypeOK, WaitEmpty, TakeEmpty, WaitFull, TakeFull, AfterAcquire
  <2>2. QED BY <2>1 DEF Begun
<1>3. CASE Signal(t) \/ Return(t) \/ EndPayload(t)
  <2>1. /\ prog' = prog /\ stage[t] \in {"running", "signal", "return"}
        /\ \A u \in Tasks(prog) : u # t => stage'[u] = stage[u]
    BY <1>1, <1>3 DEF TypeOK, Signal, Return, EndPayload
  <2>2. QED BY <2>1 DEF Begun
<1>4. CASE BeginPayload(t)
  BY <1>1, <1>4 DEF TypeOK, BeginPayload
<1>5. QED BY <1>2, <1>3, <1>4 DEF Step

LEMMA UnitsInit == Init => UnitsInOrder
<1> SUFFICES ASSUME Init, NEW t \in Tasks(prog) PROVE ~ Begun(t)
  BY DEF UnitsInOrder
<1>1. QED BY DEF Init, FirstStage, AfterAcquire, Begun

LEMMA NextKeepsUnits == Typed /\ UnitsInOrder /\ [Next]_vars => UnitsInOrder'
<1> SUFFICES ASSUME Typed, UnitsInOrder, [Next]_vars PROVE UnitsInOrder'
  OBVIOUS
<1>1. CASE UNCHANGED vars \/ \E s \in Sems(prog) : InitSem(s)
  <2>1. prog' = prog /\ stage' = stage
    BY <1>1 DEF vars, InitSem
  <2>2. QED BY <2>1 DEF UnitsInOrder, Begun
<1>2. ASSUME NEW v \in Tasks(prog), Step(v)
      PROVE  UnitsInOrder'
  <2>1. /\ prog' = prog /\ stage[v] # "done"
        /\ \A u \in Tasks(prog) : u # v => stage'[u] = stage[u]
        /\ Begun(v)' => Begun(v) \/ (stage[v] = "ready" /\ IsCalled(v))
    BY <1>2, StepMoves
  <2>2. ASSUME NEW t \in Tasks(prog), NEW u \in Tasks(prog),
               u < t, prog.unit[u] = prog.unit[t], Begun(t)'
        PROVE  stage'[u] = "done"
    <3>1. stage[u] = "done"
      <4>1. CASE t = v
        BY <2>1, <2>2, <4>1 DEF UnitsInOrder, IsCalled
      <4>2. CASE t # v
        BY <2>1, <2>2, <4>2 DEF UnitsInOrder, Begun
      <4>3. QED BY <4>1, <4>2
    <3>2. QED BY <2>1, <3>1
  <2>3. QED BY <2>1, <2>2 DEF UnitsInOrder
<1>3. QED BY <1>1, <1>2 DEF Next

(* A task that runs, has run, or may start next. *)
Due(t) == Begun(t) \/ (stage[t] = "ready" /\ IsCalled(t))

(* Each single wait of such a task is over: its unit is done with earlier   *)
(* tasks, what it requires was announced, and what its own semaphores chain *)
(* from has completed, so its consumers have returned.                      *)
LEMMA AwaitedIsFinished ==
  ASSUME Sane, UnitsInOrder, NEW t \in Tasks(prog), Due(t), NEW u \in Awaits(prog, t)
  PROVE  Finished(u)
<1>1. WellFormed(prog)
  BY ProgramsAssumption DEF Sane, Typed
<1>2. prog.out[t] # NoSem => Took(t)
  BY DEF Due, Begun, Took
<1>3. \A k \in DOMAIN prog.ins[t] : TookIn(t, k)
  BY DEF Due, Begun, TookIn
<1>4. CASE u \in Tasks(prog) /\ u < t /\ prog.unit[u] = prog.unit[t]
  BY <1>4 DEF Due, UnitsInOrder, IsCalled, Finished
<1>5. ASSUME NEW s \in Sems(prog), Requires(prog, t, s), ~ prog.full[s]
      PROVE  Finished(prog.writer[s])
  <2>1. Filled(s)
    BY <1>3, <1>5 DEF Requires, Sane, CreditInv, TakenInTurn
  <2>2. QED BY <1>5, <2>1 DEF Filled, Signalled, Finished
<1>6. ASSUME NEW s \in Sems(prog), FirstUse(prog, s) = t, NEW r \in prog.chains[s],
             NEW c \in Consumers(prog, r)
      PROVE  Finished(c)
  <2>1. Initialised(s)
    <3>1. CASE prog.full[s]
      <4>1. t \in Consumers(prog, s)
        BY <1>1, <1>6, <3>1, OneRequire DEF FirstUse
      <4>2. QED BY <1>3, <4>1 DEF Consumers, Requires, Sane, CreditInv, TakenInTurn
    <3>2. CASE ~ prog.full[s]
      <4>1. prog.out[t] = s /\ s # NoSem
        BY <1>1, <1>6, <3>2, NotFull DEF FirstUse
      <4>2. QED BY <1>2, <4>1 DEF Sane, CreditInv, TakenInTurn
    <3>3. QED BY <3>1, <3>2
  <2>2. r \in completed
    BY <2>1 DEF Sane, CreditInv, ChainsCompleted
  <2>3. PICK k \in DOMAIN prog.ins[c] : prog.ins[c][k] = r
    BY DEF Consumers, Requires
  <2>4. c \in Tasks(prog) /\ ReturnedIn(c, k)
    BY <2>2, <2>3 DEF Consumers, Sane, CreditInv, CompletedWhenReturned
  <2>5. QED BY <2>4 DEF ReturnedIn, Finished
<1>7. \/ u \in Tasks(prog) /\ u < t /\ prog.unit[u] = prog.unit[t]
      \/ \E s \in Sems(prog) : Requires(prog, t, s) /\ ~ prog.full[s] /\ u = prog.writer[s]
      \/ \E s \in Sems(prog) : /\ FirstUse(prog, s) = t
                               /\ \E r \in prog.chains[s] : u \in Consumers(prog, r)
  BY DEF Awaits
<1>8. QED BY <1>4, <1>5, <1>6, <1>7

(* So is every wait behind those: the finished tasks are a set closed under *)
(* single waits.                                                            *)
LEMMA BeforeIsFinished ==
  ASSUME Sane, UnitsInOrder, NEW t \in Tasks(prog), Due(t), NEW u \in Before[prog][t]
  PROVE  u \in Tasks(prog) /\ Finished(u)
<1> DEFINE S == {v \in Tasks(prog) : Finished(v)}
<1>1. prog \in Programs /\ WellFormed(prog)
  BY ProgramsAssumption DEF Sane, Typed
<1>2. /\ u \in Tasks(prog)
      /\ \A V \in SUBSET Tasks(prog) :
           Awaits(prog, t) \subseteq V /\ (\A v \in V : Awaits(prog, v) \subseteq V) => u \in V
  BY <1>1 DEF Before
<1>3. ASSUME NEW v \in Tasks(prog), Due(v)
      PROVE  Awaits(prog, v) \subseteq S
  <2> SUFFICES ASSUME NEW w \in Awaits(prog, v) PROVE w \in Tasks(prog) /\ Finished(w)
    OBVIOUS
  <2>1. Awaits(prog, v) \subseteq Tasks(prog)
    BY <1>1, WriterOut DEF Awaits, Consumers
  <2>2. QED BY <1>3, <2>1, AwaitedIsFinished
<1>4. \A v \in S : Due(v)
  BY DEF Finished, Due, Begun
<1>5. S \in SUBSET Tasks(prog) /\ \A v \in S : Awaits(prog, v) \subseteq S
  BY <1>3, <1>4
<1>6. u \in S
  BY <1>2, <1>3, <1>5
<1>7. QED BY <1>6

LEMMA ConflictIsFinished ==
  ASSUME Sane, UnitsInOrder, ConflictsOrdered(prog), NEW t \in Tasks(prog), Due(t),
         NEW u \in Tasks(prog), u < t, Conflict(prog, u, t)
  PROVE  Finished(u)
<1>1. u \in Before[prog][t]
  BY DEF ConflictsOrdered
<1>2. QED BY <1>1, BeforeIsFinished

-----------------------------------------------------------------------------
(* The data in the buffers.                                                *)

LEMMA ContentInit == Init => ContentHeld
<1> SUFFICES ASSUME Init, NEW t \in Tasks(prog) PROVE ~ Finished(t)
  BY DEF ContentHeld
<1>1. QED BY DEF Init, Finished, FirstStage, AfterAcquire

LEMMA ContentKept ==
  ASSUME ContentHeld, prog' = prog, content' = content,
         \A u \in Tasks(prog) : (Begun(u)' <=> Begun(u)) /\ (Finished(u)' <=> Finished(u))
  PROVE  ContentHeld'
BY DEF ContentHeld, Begun, Finished

(* Two writers of a buffer never overlap: when one has finished, no earlier *)
(* one is still to finish.                                                  *)
LEMMA WritersApart ==
  ASSUME Sane, UnitsInOrder, ConflictsOrdered(prog), NEW w \in Tasks(prog), Finished(w),
         NEW b \in Writes(prog, w), NEW t \in Tasks(prog), t # w, ~ Finished(t),
         t < w \/ b \notin Writes(prog, t)
  PROVE  b \notin Writes(prog, t)
<1> SUFFICES ASSUME t < w, b \in Writes(prog, t) PROVE FALSE
  OBVIOUS
<1>1. Conflict(prog, t, w)
  BY DEF Conflict
<1>2. Due(w)
  BY DEF Finished, Due, Begun
<1>3. QED BY <1>1, <1>2, ConflictIsFinished

LEMMA PayloadKeepsContent ==
  ASSUME Sane, UnitsInOrder, ConflictsOrdered(prog), ContentHeld,
         NEW t \in Tasks(prog), BeginPayload(t) \/ EndPayload(t)
  PROVE  ContentHeld'
<1>1. /\ prog' = prog /\ TypeOK /\ ~ Finished(t) /\ Begun(t)'
      /\ \A u \in Tasks(prog) : u # t => stage'[u] = stage[u]
  BY DEF Sane, Typed, TypeOK, BeginPayload, EndPayload, Goto, AfterPayload, AfterSignal,
         Begun, Finished
<1>2. \A u \in Tasks(prog) : Finished(u)' => Finished(u) \/ (u = t /\ EndPayload(t))
  BY <1>1 DEF Sane, Typed, TypeOK, BeginPayload, Goto, Finished
<1>3. \A u \in Tasks(prog) : Begun(u) => Begun(u)'
  BY <1>1 DEF Begun
<1>4. ASSUME NEW w \in Tasks(prog), NEW b \in Writes(prog, w), Finished(w)',
             \A v \in Tasks(prog) : w < v /\ b \in Writes(prog, v) => ~ Begun(v)'
      PROVE  content'[b] = w
  <2>1. b \in Buffers(prog)
    BY DEF Writes, Buffers
  <2>2. CASE w = t
    <3>1. EndPayload(t)
      BY <1>1, <1>2, <1>4, <2>2
    <3>2. QED BY <2>1, <2>2, <3>1 DEF EndPayload
  <2>3. CASE w # t
    <3>1. Finished(w)
      BY <1>2, <1>4, <2>3
    <3>2. content[b] = w
      BY <1>3, <1>4, <3>1 DEF ContentHeld
    <3>3. t < w \/ w < t
      BY <2>3 DEF Tasks
    <3>4. t < w \/ b \notin Writes(prog, t)
      BY <1>1, <1>4, <3>3
    <3>5. b \notin Writes(prog, t)
      BY <1>1, <2>3, <3>1, <3>4, WritersApart
    <3>6. QED BY <2>1, <3>2, <3>5 DEF BeginPayload, EndPayload
  <2>4. QED BY <2>2, <2>3
<1>5. QED BY ONLY <1>1, <1>4 DEF ContentHeld, Finished, Begun

LEMMA NextKeepsContent ==
  Sane /\ UnitsInOrder /\ ConflictsOrdered(prog) /\ ContentHeld /\ [Next]_vars => ContentHeld'
<1> SUFFICES ASSUME Sane, UnitsInOrder, ConflictsOrdered(prog), ContentHeld, [Next]_vars
             PROVE  ContentHeld'
  OBVIOUS
<1>1. CASE UNCHANGED vars \/ \E s \in Sems(prog) : InitSem(s)
  <2>1. prog' = prog /\ stage' = stage /\ content' = content
    BY <1>1 DEF vars, InitSem
  <2>2. QED BY <2>1, ContentKept DEF Begun, Finished
<1>2. ASSUME NEW t \in Tasks(prog), Step(t)
      PROVE  ContentHeld'
  <2>1. TypeOK
    BY DEF Sane, Typed
  <2>2. CASE WaitEmpty(t) \/ TakeEmpty(t) \/ WaitFull(t) \/ TakeFull(t)
    <3>1. /\ prog' = prog /\ content' = content
          /\ stage[t] \in {"waitEmpty", "takeEmpty", "waitFull", "takeFull"}
          /\ stage'[t] \in {"takeEmpty", "waitFull", "takeFull", "ready"}
          /\ \A u \in Tasks(prog) : u # t => stage'[u] = stage[u]
      BY <2>1, <2>2 DEF TypeOK, WaitEmpty, TakeEmpty, WaitFull, TakeFull, Goto, AfterAcquire
    <3>2. \A u \in Tasks(prog) : (Begun(u)' <=> Begun(u)) /\ (Finished(u)' <=> Finished(u))
      BY <3>1 DEF Begun, Finished
    <3>3. QED BY <3>1, <3>2, ContentKept
  <2>3. CASE Signal(t) \/ Return(t)
    <3>1. /\ prog' = prog /\ content' = content
          /\ stage[t] \in {"signal", "return"} /\ stage'[t] \in {"return", "done"}
          /\ \A u \in Tasks(prog) : u # t => stage'[u] = stage[u]
      BY <2>1, <2>3 DEF TypeOK, Signal, Return, Goto, AfterSignal
    <3>2. \A u \in Tasks(prog) : (Begun(u)' <=> Begun(u)) /\ (Finished(u)' <=> Finished(u))
      BY <3>1 DEF Begun, Finished
    <3>3. QED BY <3>1, <3>2, ContentKept
  <2>4. QED BY <1>2, <2>2, <2>3, PayloadKeepsContent DEF Step
<1>3. QED BY <1>1, <1>2 DEF Next

-----------------------------------------------------------------------------
(* The results.                                                            *)

(* Where the credits are and what the buffers hold, in every state of every *)
(* compiled program on which no tag comes round.                            *)
THEOREM HandshakeInvariant == Spec => []HInv
<1>1. Init => HInv
  BY InitTypes, UnitsInit, CreditInit, ContentInit DEF HInv
<1>2. HInv /\ [Next]_vars => HInv'
  <2> SUFFICES ASSUME HInv, [Next]_vars PROVE HInv'
    OBVIOUS
  <2>1. Typed' /\ UnitsInOrder'
    BY NextTypes, NextKeepsUnits DEF HInv
  <2>2. /\ TagsNeverWrap(prog)' => TagsNeverWrap(prog)
        /\ ConflictsOrdered(prog)' => ConflictsOrdered(prog)
    <3>1. prog' = prog
      BY DEF Next, vars, InitSem, Step, WaitEmpty, TakeEmpty, WaitFull, TakeFull,
             BeginPayload, EndPayload, Signal, Return
    <3>2. QED BY <3>1
  <2>3. QED BY <2>1, <2>2, NextKeepsCredits, NextKeepsContent DEF HInv, Sane
<1>3. QED BY <1>1, <1>2, PTL DEF Spec

(* The credit a task is about to take is one of its own semaphore.          *)
THEOREM HandshakeNamesItsTenant == Spec => []DependencyNamesItsTenant
<1>1. HInv => DependencyNamesItsTenant
  BY DEF HInv, CreditInv, Poised, DependencyNamesItsTenant
<1>2. QED BY <1>1, HandshakeInvariant, PTL

LEMMA HeldByTenants ==
  ASSUME Sane, NEW s \in Sems(prog)
  PROVE  /\ \A t \in Tasks(prog) : HoldsOut(t, s) =>
              t = prog.writer[s] /\ ~ prog.full[s] /\ Took(t) /\ ~ Signalled(t)
         /\ \A t \in Tasks(prog) : HoldsIn(t, s) <=>
              \E k \in DOMAIN prog.ins[t] :
                prog.ins[t][k] = s /\ TookIn(t, k) /\ ~ ReturnedIn(t, k)
<1>1. ASSUME NEW t \in Tasks(prog), HoldsOut(t, s)
      PROVE  t = prog.writer[s] /\ ~ prog.full[s] /\ Took(t) /\ ~ Signalled(t)
  <2>1. s # NoSem
    BY DEF Sems, NoSem
  <2>2. QED BY <1>1, <2>1, ProgramsAssumption, OwnOut DEF HoldsOut, Took, Signalled, Sane, Typed
<1>2. ASSUME NEW t \in Tasks(prog), NEW k \in DOMAIN prog.ins[t]
      PROVE  (\/ stage[t] \in {"waitFull", "takeFull"} /\ k < pos[t]
              \/ stage[t] \in {"ready", "running", "signal"}
              \/ stage[t] = "return" /\ k >= pos[t])
             <=> TookIn(t, k) /\ ~ ReturnedIn(t, k)
  <2>1. DOMAIN prog.ins[t] = 1 .. Len(prog.ins[t]) /\ pos[t] \in Nat
    BY ProgramsAssumption, RequireFacts DEF Sane, Typed, TypeOK
  <2>2. k \in Int /\ (k >= pos[t] <=> ~ (k < pos[t]))
    BY <2>1
  <2>3. QED BY <2>2 DEF TookIn, ReturnedIn
<1>3. QED BY <1>1, <1>2 DEF HoldsIn

LEMMA OneHolder ==
  ASSUME Sane, NEW s \in Sems(prog), tenant[prog.addr[s]] = s
  PROVE  empty[prog.addr[s]] + full[prog.addr[s]] + Cardinality(Holders(s)) * prog.size[s]
           = prog.size[s]
<1>1. WellFormed(prog) /\ prog.size[s] \in Int
  BY ProgramsAssumption, SemaphoreTypes DEF Sane, Typed
<1>2. /\ empty[prog.addr[s]] =
           IF (~ prog.full[s] /\ ~ Took(prog.writer[s])) \/ s \in completed
             THEN prog.size[s] ELSE 0
      /\ full[prog.addr[s]] = IF Filled(s) /\ Untaken(s) THEN prog.size[s] ELSE 0
  BY DEF Sane, CreditInv, CountersFollow
<1>3. \A t \in Tasks(prog), k \in Nat :
        k \in DOMAIN prog.ins[t] /\ prog.ins[t][k] = s =>
          /\ TookIn(t, k) => Filled(s) /\ ~ Untaken(s)
          /\ s \in completed <=> ReturnedIn(t, k)
  BY DEF Sane, CreditInv, TakenInTurn, CompletedWhenReturned, Untaken
<1>4. \A t \in Tasks(prog) : \A k \in DOMAIN prog.ins[t] : k \in Nat
  BY <1>1, RequireFacts
<1>5. \A t \in Tasks(prog) : HoldsIn(t, s) => Filled(s) /\ ~ Untaken(s) /\ s \notin completed
  BY <1>3, <1>4, HeldByTenants
<1>6. \A t \in Tasks(prog) : HoldsOut(t, s) => ~ Filled(s) /\ Took(prog.writer[s])
  BY HeldByTenants DEF Filled
<1>7. Filled(s) /\ ~ prog.full[s] => Took(prog.writer[s])
  BY FilledWasAcquired
<1>8. s \in completed => Filled(s) /\ ~ Untaken(s)
  BY CompletedWasTaken
<1>9. CASE Holders(s) = {}
  <2>1. Cardinality(Holders(s)) = 0
    BY <1>9, FS_EmptySet
  <2>2. ~ prog.full[s] /\ Took(prog.writer[s]) => Filled(s)
    <3> SUFFICES ASSUME ~ prog.full[s], Took(prog.writer[s]), ~ Signalled(prog.writer[s])
                 PROVE  FALSE
      BY DEF Filled
    <3>1. prog.writer[s] \in Tasks(prog) /\ prog.out[prog.writer[s]] = s
      BY <1>1, NotFull
    <3>2. stage[prog.writer[s]] \in Stages
      BY <3>1 DEF Sane, Typed, TypeOK
    <3>3. HoldsOut(prog.writer[s], s)
      BY <3>1, <3>2 DEF HoldsOut, Took, Signalled, Stages
    <3>4. QED BY <1>9, <3>1, <3>3 DEF Holders
  <2>3. Filled(s) /\ s \notin completed => Untaken(s)
    <3> SUFFICES ASSUME s \notin completed,
                        NEW t \in Tasks(prog), NEW k \in DOMAIN prog.ins[t],
                        prog.ins[t][k] = s, TookIn(t, k)
                 PROVE  FALSE
      BY DEF Untaken
    <3>1. ~ ReturnedIn(t, k) BY <1>3, <1>4
    <3>2. HoldsIn(t, s) BY <3>1, HeldByTenants
    <3>3. QED BY <1>9, <3>2 DEF Holders
  <2>4. prog.full[s] => Filled(s)
    BY DEF Filled
  <2>5. \/ empty[prog.addr[s]] = prog.size[s] /\ full[prog.addr[s]] = 0
        \/ empty[prog.addr[s]] = 0 /\ full[prog.addr[s]] = prog.size[s]
    BY <1>2, <1>7, <1>8, <2>2, <2>3, <2>4
  <2>6. QED BY <1>1, <2>1, <2>5
<1>10. ASSUME NEW t \in Holders(s)
       PROVE  /\ Holders(s) = {t}
              /\ empty[prog.addr[s]] = 0 /\ full[prog.addr[s]] = 0
  <2>1. t \in Tasks(prog) /\ (HoldsOut(t, s) \/ HoldsIn(t, s))
    BY DEF Holders
  <2>2. empty[prog.addr[s]] = 0 /\ full[prog.addr[s]] = 0
    BY <1>2, <1>5, <1>6, <1>7, <1>8, <2>1
  <2>3. ASSUME NEW u \in Holders(s) PROVE u = t
    <3>1. u \in Tasks(prog) /\ (HoldsOut(u, s) \/ HoldsIn(u, s))
      BY DEF Holders
    <3>2. HoldsOut(t, s) <=> HoldsOut(u, s)
      BY <1>5, <1>6, <2>1, <3>1
    <3>3. CASE HoldsOut(t, s)
      BY <2>1, <3>1, <3>2, <3>3, HeldByTenants
    <3>4. CASE ~ HoldsOut(t, s)
      <4>1. HoldsIn(t, s) /\ HoldsIn(u, s)
        BY <2>1, <3>1, <3>2, <3>4
      <4>2. QED BY <1>1, <2>1, <3>1, <4>1, SameRequire DEF HoldsIn
    <3>5. QED BY <3>3, <3>4
  <2>4. QED BY <2>2, <2>3
<1>11. CASE Holders(s) # {}
  <2>1. PICK t : t \in Holders(s)
    BY <1>11
  <2>2. Holders(s) = {t} /\ empty[prog.addr[s]] = 0 /\ full[prog.addr[s]] = 0
    BY <1>10, <2>1
  <2>3. Cardinality(Holders(s)) = 1
    BY <2>2, FS_Singleton
  <2>4. QED BY <1>1, <2>2, <2>3
<1>12. QED BY <1>9, <1>11

(* On a program on which no tag comes round, no interleaving of the loads   *)
(* and adds of any number of kernels duplicates or loses a credit.          *)
THEOREM CreditsStayConserved == Spec => [](TagsNeverWrap(prog) => CreditsConserved)
<1>1. Sane => CreditsConserved
  <2> SUFFICES ASSUME Sane PROVE CreditsConserved
    OBVIOUS
  <2>1. ASSUME NEW a \in Slots, tenant[a] # NoSem
        PROVE  empty[a] + full[a] + Cardinality(Holders(tenant[a])) * prog.size[tenant[a]]
                 = prog.size[tenant[a]]
    <3>1. tenant[a] \in Sems(prog) /\ prog.addr[tenant[a]] = a
      BY <2>1 DEF Sane, Typed, TypeOK, CreditInv, TenantsInTurn
    <3>2. QED BY <3>1, OneHolder
  <2>2. ASSUME NEW s \in Sems(prog), Holders(s) # {}
        PROVE  tenant[prog.addr[s]] = s
    <3>1. PICK t \in Tasks(prog) : HoldsOut(t, s) \/ HoldsIn(t, s)
      BY <2>2 DEF Holders
    <3>2. HoldsOut(t, s) => Took(t) /\ ~ Signalled(t) /\ prog.out[t] = s
      BY HeldByTenants DEF HoldsOut
    <3>3. HoldsIn(t, s) => \E k \in DOMAIN prog.ins[t] :
            prog.ins[t][k] = s /\ TookIn(t, k) /\ ~ ReturnedIn(t, k)
      BY HeldByTenants
    <3>4. QED BY <3>1, <3>2, <3>3, AcquiredIsTenant, RequiredIsTenant
  <2>3. QED BY <2>1, <2>2 DEF CreditsConserved
<1>2. HInv => (TagsNeverWrap(prog) => CreditsConserved)
  BY <1>1 DEF HInv, Sane
<1>3. QED BY <1>2, HandshakeInvariant, PTL

(* Nothing a task waited for changes while its payload runs, whatever way   *)
(* the waits of the program order its conflicts.                            *)
THEOREM InputsStayIntact == Spec => [](TagsNeverWrap(prog) => InputsIntact)
<1>1. ASSUME Sane, UnitsInOrder, ConflictsOrdered(prog), ContentHeld,
             NEW t \in Tasks(prog), stage[t] = "running",
             NEW b \in Reads(prog, t) \ Writes(prog, t)
      PROVE  content[b] = LastWriter(b, t)
  <2> DEFINE Earlier == {v \in Tasks(prog) : v < t /\ b \in Writes(prog, v)}
             w == LastWriter(b, t)
  <2>1. WellFormed(prog) /\ Earlier \in SUBSET (1 .. prog.tasks) /\ prog.tasks \in Nat
    BY <1>1, ProgramsAssumption DEF Sane, Typed, WellFormed, Tasks
  <2>2. Earlier # {}
    <3>1. PICK k \in DOMAIN prog.ins[t] : b = prog.buf[prog.ins[t][k]]
      BY <1>1 DEF Reads
    <3>2. prog.ins[t][k] \in Sems(prog) /\ prog.writer[prog.ins[t][k]] < t
      BY <2>1, RequireFacts
    <3>3. prog.writer[prog.ins[t][k]] \in Tasks(prog)
      BY <2>1, <3>2, WriterOut
    <3>4. QED BY <3>1, <3>2, <3>3 DEF Writes
  <2>3. Max(Earlier) \in Earlier /\ \A v \in Earlier : v <= Max(Earlier)
    <3> HIDE DEF Earlier
    <3>1. QED BY <2>1, <2>2, MaxIsGreatest
  <2>4. \E m \in Tasks(prog) :
          /\ m < t /\ b \in Writes(prog, m)
          /\ \A v \in Tasks(prog) : v < t /\ b \in Writes(prog, v) => v <= m
    BY <2>3
  <2>5. /\ w \in Tasks(prog) /\ w < t /\ b \in Writes(prog, w)
        /\ \A v \in Tasks(prog) : v < t /\ b \in Writes(prog, v) => v <= w
    BY <2>4 DEF LastWriter
  <2> HIDE DEF w
  <2>6. Finished(w)
    <3>1. Conflict(prog, w, t) /\ Due(t)
      BY <1>1, <2>5 DEF Conflict, Due, Begun
    <3>2. QED BY <1>1, <2>5, <3>1, ConflictIsFinished
  <2>7. ASSUME NEW v \in Tasks(prog), w < v, b \in Writes(prog, v), Begun(v)
        PROVE  FALSE
    <3>1. t < v
      BY <1>1, <2>5, <2>7 DEF Tasks
    <3>2. Conflict(prog, t, v) /\ Due(v)
      BY <1>1, <2>7 DEF Conflict, Due
    <3>3. Finished(t)
      BY <1>1, <2>7, <3>1, <3>2, ConflictIsFinished
    <3>4. QED BY <1>1, <3>3 DEF Finished
  <2>8. content[b] = w
    BY <1>1, <2>5, <2>6, <2>7 DEF ContentHeld
  <2>9. QED BY <2>8 DEF w
<1>2. HInv => (TagsNeverWrap(prog) => InputsIntact)
  BY <1>1 DEF HInv, Sane, InputsIntact
<1>3. QED BY <1>2, HandshakeInvariant, PTL

-----------------------------------------------------------------------------
(* The order of the dataflow.                                              *)

Status == [t \in Tasks(prog) |->
             CASE stage[t] = "running" -> "running"
               [] stage[t] \in {"signal", "return", "done"} -> "finished"
               [] OTHER -> "waiting"]

LEMMA StatusOf ==
  ASSUME NEW t \in Tasks(prog)
  PROVE  /\ stage[t] = "running" => Status[t] = "running"
         /\ Finished(t) => Status[t] = "finished"
         /\ ~ Begun(t) => Status[t] = "waiting"
BY DEF Status, Finished, Begun

LEMMA TaskStepInOrder ==
  ASSUME Sane, UnitsInOrder, NEW t \in Tasks(prog), Step(t)
  PROVE  /\ Before[prog]' = Before[prog]
         /\ \/ Status' = Status
            \/ /\ Status[t] = "waiting" /\ Status' = [Status EXCEPT ![t] = "running"]
               /\ \A u \in Before[prog][t] : Status[u] = "finished"
            \/ Status[t] = "running" /\ Status' = [Status EXCEPT ![t] = "finished"]
<1> USE DEF Goto
<1>1. /\ TypeOK /\ prog' = prog
  BY DEF Sane, Typed, Step, WaitEmpty, TakeEmpty, WaitFull, TakeFull, BeginPayload, EndPayload,
     Signal, Return
<1>2. CASE WaitEmpty(t) \/ TakeEmpty(t) \/ WaitFull(t) \/ TakeFull(t)
  <2>1. /\ stage[t] \in {"waitEmpty", "takeEmpty", "waitFull", "takeFull"}
        /\ stage'[t] \in {"takeEmpty", "waitFull", "takeFull", "ready"}
        /\ \A u \in Tasks(prog) : u # t => stage'[u] = stage[u]
    BY <1>1, <1>2 DEF TypeOK, WaitEmpty, TakeEmpty, WaitFull, TakeFull, AfterAcquire
  <2>2. Status' = Status
    BY <1>1, <2>1 DEF Status
  <2>3. QED BY <1>1, <2>2
<1>3. CASE Signal(t) \/ Return(t)
  <2>1. /\ stage[t] \in {"signal", "return"} /\ stage'[t] \in {"return", "done"}
        /\ \A u \in Tasks(prog) : u # t => stage'[u] = stage[u]
    BY <1>1, <1>3 DEF TypeOK, Signal, Return, AfterSignal
  <2>2. Status' = Status
    BY <1>1, <2>1 DEF Status
  <2>3. QED BY <1>1, <2>2
<1>4. CASE BeginPayload(t)
  <2>1. /\ stage[t] = "ready" /\ stage'[t] = "running"
        /\ \A u \in Tasks(prog) : u # t => stage'[u] = stage[u]
    BY <1>1, <1>4 DEF TypeOK, BeginPayload
  <2>2. Status[t] = "waiting" /\ Status' = [Status EXCEPT ![t] = "running"]
    BY <1>1, <2>1 DEF Status
  <2>3. \A u \in Before[prog][t] : Status[u] = "finished"
    <3>1. Due(t)
      BY <1>4, <2>1 DEF BeginPayload, Due
    <3>2. QED BY <3>1, BeforeIsFinished, StatusOf
  <2>4. QED BY <1>1, <2>2, <2>3
<1>5. CASE EndPayload(t)
  <2>1. /\ stage[t] = "running" /\ stage'[t] \in {"signal", "return", "done"}
        /\ \A u \in Tasks(prog) : u # t => stage'[u] = stage[u]
    BY <1>1, <1>5 DEF TypeOK, EndPayload, AfterPayload, AfterSignal
  <2>2. Status[t] = "running" /\ Status' = [Status EXCEPT ![t] = "finished"]
    BY <1>1, <2>1 DEF Status
  <2>3. QED BY <1>1, <2>2
<1>6. QED BY <1>2, <1>3, <1>4, <1>5 DEF Step

(* The safety part of ImplementsDataflow: in every run of a compiled        *)
(* program on which no tag comes round, a task starts only after all the    *)
(* tasks that units, requires and chains put before it, at whatever         *)
(* remove.  (That they all finish is checked by TLC.)                       *)
THEOREM HandshakeKeepsDataflowOrder ==
  Spec /\ TagsNeverWrap(prog) => Dataflow!Init /\ [][Dataflow!Next]_(Dataflow!vars)
<1>1. Init => Dataflow!Init
  <2> SUFFICES ASSUME Init, NEW t \in Tasks(prog) PROVE Status[t] = "waiting"
    BY DEF Dataflow!Init, Dataflow!Tasks, Status
  <2>1. ~ Begun(t)
    BY DEF Init, FirstStage, AfterAcquire, Begun
  <2>2. QED BY <2>1, StatusOf
<1>2. Sane /\ UnitsInOrder /\ [Next]_vars => [Dataflow!Next]_(Dataflow!vars)
  <2> SUFFICES ASSUME Sane, UnitsInOrder, [Next]_vars PROVE [Dataflow!Next]_(Dataflow!vars)
    OBVIOUS
  <2>1. CASE UNCHANGED vars \/ \E s \in Sems(prog) : InitSem(s)
    <3>1. prog' = prog /\ stage' = stage
      BY <2>1 DEF vars, InitSem
    <3>2. QED BY <3>1 DEF Dataflow!vars
  <2>2. ASSUME NEW t \in Tasks(prog), Step(t)
        PROVE  [Dataflow!Next]_(Dataflow!vars)
    <3>1. Status' = Status => UNCHANGED Dataflow!vars
      BY <2>2, TaskStepInOrder DEF Dataflow!vars, Status
    <3>2. Status[t] = "waiting" /\ Status' = [Status EXCEPT ![t] = "running"]
            /\ (\A u \in Before[prog][t] : Status[u] = "finished") => Dataflow!Start(t)
      BY <2>2, TaskStepInOrder DEF Dataflow!Start, Status
    <3>3. Status[t] = "running" /\ Status' = [Status EXCEPT ![t] = "finished"] => Dataflow!Finish(t)
      BY <2>2, TaskStepInOrder DEF Dataflow!Finish, Status
    <3>4. t \in Dataflow!Tasks
      BY DEF Dataflow!Tasks
    <3>5. QED BY <2>2, <3>1, <3>2, <3>3, <3>4, TaskStepInOrder DEF Dataflow!Next
  <2>3. QED BY <2>1, <2>2 DEF Next
<1>3. TagsNeverWrap(prog) /\ [Next]_vars => TagsNeverWrap(prog)'
  <2> SUFFICES ASSUME TagsNeverWrap(prog), [Next]_vars PROVE TagsNeverWrap(prog)'
    OBVIOUS
  <2>1. prog' = prog
    BY DEF Next, vars, InitSem, Step, WaitEmpty, TakeEmpty, WaitFull, TakeFull,
           BeginPayload, EndPayload, Signal, Return
  <2>2. QED BY <2>1
<1>4. HInv /\ TagsNeverWrap(prog) => Sane /\ UnitsInOrder
  BY DEF HInv, Sane
<1>5. QED BY <1>1, <1>2, <1>3, <1>4, HandshakeInvariant, PTL DEF Spec
=============================================================================
