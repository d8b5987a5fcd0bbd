------------------------ MODULE TokenLoweringProofs ------------------------
(***************************************************************************)
(* Machine-checked proofs about the semaphore graph TokenLowering leaves,  *)
(* for every set of well-formed programs, whatever their size and their    *)
(* placement in memory.                                                    *)
(***************************************************************************)
EXTENDS TokenLowering, Extrema, FiniteSetTheorems, TLAPS

-----------------------------------------------------------------------------
(* The inductive invariant: what each pass leaves for those that follow.    *)

(* Before broadcast correction every token is the result of an earlier task *)
(* and is required exactly where it is in the dependency list.              *)
PlainTokens ==
  /\ next \in {"FindAsyncDependency", "InsertRequire", "CorrectBroadcast"} => copies = {}
  /\ next \in {"InsertRequire", "CorrectBroadcast"} =>
       \A t \in Tasks(prog) : deps[t] \subseteq {<<w, 0>> : w \in 1 .. t - 1}
  /\ next = "CorrectBroadcast" => \A t \in Tasks(prog) : Tokens(t) = deps[t]

Corrected ==
  next \in {"FindAliasDependency", "BuildTokenToSemMap", "ChainSem", "InsertSemDeallocs", "done"}

(* After it a token has one consumer, later than its producer ...           *)
OneConsumer ==
  Corrected =>
    /\ \A t \in Tasks(prog) : \A k \in Tokens(t) :
         \E w \in 1 .. t - 1 : k = <<w, 0>> \/ k = <<w, t>>
    /\ \A t, u \in Tasks(prog) : \A k \in Tokens(t) : k \in Tokens(u) => t = u

(* ... and a copied token comes after a consumer of the original.           *)
CopiesFollow ==
  Corrected =>
    /\ copies = {k \in UNION {Tokens(t) : t \in Tasks(prog)} : k[2] # 0}
    /\ \A t, u \in Tasks(prog) : \A w \in 1 .. prog.tasks :
         <<w, 0>> \in Tokens(t) /\ <<w, u>> \in Tokens(u) => t < u

(* A marked task comes after the consumers of its marks.                    *)
MarksFollow ==
  next \in {"BuildTokenToSemMap", "ChainSem", "InsertSemDeallocs", "done"} =>
    \A u \in Tasks(prog) : \A k \in marks[u] : Consumers(k) \subseteq 1 .. u - 1

(* The semaphores are the required tokens, acquired by their producers.     *)
SemsMatch ==
  next \in {"ChainSem", "InsertSemDeallocs", "done"} =>
    /\ sems = UNION {Tokens(t) : t \in Tasks(prog)}
    /\ acquire = [t \in Tasks(prog) |-> IF <<t, 0>> \in sems THEN <<t, 0>> ELSE NoToken]

ChainsMatch ==
  next \in {"InsertSemDeallocs", "done"} =>
    /\ startsFull = copies
    /\ chains = [s \in sems |->
                   IF s \in copies THEN {<<s[1], 0>>} ELSE marks[s[1]] \cap sems]

DeallocsMatch == next = "done" => freedAfter = [s \in sems |-> NewestUser(s)]

IInv ==
  /\ prog \in Programs
  /\ PlainTokens
  /\ OneConsumer
  /\ CopiesFollow
  /\ MarksFollow
  /\ SemsMatch
  /\ ChainsMatch
  /\ DeallocsMatch

LEMMA IInvInit == Init => IInv
BY DEF Init, IInv, PlainTokens, OneConsumer, CopiesFollow, MarksFollow, SemsMatch,
       ChainsMatch, DeallocsMatch, Corrected

(* A collected dependency is an earlier task.                               *)
LEMMA DepsAreEarlier ==
  ASSUME prog \in Programs, NEW t \in Tasks(prog)
  PROVE  CollectDeps(t) \subseteq 1 .. t - 1
<1>1. WellFormed(prog)
  BY ProgramsAssumption
<1>2. SUFFICES ASSUME NEW m \in Touches(prog, t), NEW w \in Writers(prog, m), w # t
               PROVE  w \in 1 .. t - 1
  BY DEF CollectDeps
<1>3. w \in 1 .. prog.tasks /\ prog.tasks \in Nat /\ t \in 1 .. prog.tasks /\ prog.writes[w] = m
  BY <1>1 DEF Writers, WellFormed, Tasks
<1>4. CASE m \in prog.reads[t]
  <2>1. m \in Memrefs(prog) /\ t \in Readers(prog, m)
    BY <1>1, <1>4 DEF WellFormed, Readers
  <2>2. w < t
    BY <1>1, <2>1 DEF WellFormed
  <2>3. QED BY <1>3, <2>2
<1>5. CASE m = prog.writes[t] /\ m # NoMemref
  <2>1. m \in Memrefs(prog)
    BY <1>1, <1>5 DEF WellFormed
  <2>2. t \in Writers(prog, m)
    BY <1>5 DEF Writers
  <2>3. QED BY <1>1, <1>2, <2>1, <2>2 DEF WellFormed
<1>6. QED BY <1>4, <1>5 DEF Touches

(* The surviving consumer of a token is the earliest of its consumers.      *)
LEMMA SurvivorIsFirst ==
  ASSUME prog \in Programs, NEW t \in Tasks(prog), NEW k \in deps[t]
  PROVE  /\ Survivor(k) \in Tasks(prog) /\ k \in deps[Survivor(k)]
         /\ Survivor(k) <= t
<1> DEFINE Holders == {u \in Tasks(prog) : k \in deps[u]}
<1>1. Holders \in SUBSET Nat /\ Holders # {}
  BY ProgramsAssumption DEF WellFormed, Tasks
<1>2. Min(Holders) \in Holders /\ \A u \in Holders : Min(Holders) <= u
  BY <1>1, MinIsLeast
<1>3. QED BY <1>2 DEF Survivor

-----------------------------------------------------------------------------
(* Each pass preserves the invariant. *)

LEMMA FindAsyncDependencyStep == IInv /\ FindAsyncDependency => IInv'
<1>1. SUFFICES ASSUME IInv, FindAsyncDependency PROVE IInv'
  OBVIOUS
<1>2. PlainTokens'
  <2>1. copies' = copies /\ prog' = prog /\ next' = "InsertRequire"
    BY <1>1 DEF FindAsyncDependency
  <2>2. copies' = {}
    BY <1>1, <2>1 DEF FindAsyncDependency, IInv, PlainTokens
  <2>3. ASSUME NEW t \in Tasks(prog)
        PROVE  deps'[t] \subseteq {<<w, 0>> : w \in 1 .. t - 1}
    BY <1>1, DepsAreEarlier DEF FindAsyncDependency, IInv
  <2>4. QED BY <2>1, <2>2, <2>3 DEF PlainTokens, Tasks
<1>3. QED BY <1>1, <1>2 DEF FindAsyncDependency, IInv, OneConsumer, CopiesFollow, MarksFollow,
                SemsMatch, ChainsMatch, DeallocsMatch, Corrected

LEMMA InsertRequireStep == IInv /\ InsertRequire => IInv'
<1>1. SUFFICES ASSUME IInv, InsertRequire PROVE IInv'
  OBVIOUS
<1>2. ASSUME NEW t \in Tasks(prog) PROVE Tokens(t)' = deps[t]
  <2>1. requires'[t] = {<<k, prog.writes[k[1]]>> : k \in deps[t]}
    BY <1>1 DEF InsertRequire
  <2>2. \A r \in requires'[t] : r[1] \in deps[t]
    BY <2>1
  <2>3. ASSUME NEW k \in deps[t] PROVE \E r \in requires'[t] : r[1] = k
    <3>1. <<k, prog.writes[k[1]]>> \in requires'[t]
      BY <2>1
    <3>2. QED BY <3>1
  <2>4. QED BY <2>2, <2>3 DEF Tokens
<1>3. PlainTokens'
  BY <1>1, <1>2 DEF InsertRequire, IInv, PlainTokens, Tasks
<1>4. QED BY <1>1, <1>3 DEF InsertRequire, IInv, OneConsumer, CopiesFollow, MarksFollow,
                SemsMatch, ChainsMatch, DeallocsMatch, Corrected

(* A threaded token is the original for the survivor and nobody else.       *)
LEMMA ThreadedTokens ==
  ASSUME prog \in Programs, PlainTokens, next = "CorrectBroadcast",
         NEW t \in Tasks(prog), NEW k \in deps[t]
  PROVE  \E w \in 1 .. t - 1 :
           /\ k = <<w, 0>>
           /\ IF t = Survivor(k) THEN Threaded(k, t) = <<w, 0>>
                                 ELSE Threaded(k, t) = <<w, t>> /\ Survivor(k) < t
<1>1. PICK w \in 1 .. t - 1 : k = <<w, 0>>
  BY DEF PlainTokens
<1>2. Survivor(k) <= t /\ Survivor(k) \in Nat /\ t \in Nat
  BY SurvivorIsFirst, ProgramsAssumption DEF WellFormed, Tasks
<1>3. QED BY <1>1, <1>2 DEF Threaded

LEMMA CorrectBroadcastStep == IInv /\ CorrectBroadcast => IInv'
<1>1. SUFFICES ASSUME IInv, CorrectBroadcast PROVE IInv'
  OBVIOUS
<1>2. /\ prog \in Programs /\ PlainTokens /\ next = "CorrectBroadcast"
      /\ prog' = prog /\ next' = "FindAliasDependency"
  BY <1>1 DEF IInv, CorrectBroadcast
<1>3. ASSUME NEW t \in Tasks(prog)
      PROVE  /\ Tokens(t)' = {Threaded(k, t) : k \in deps[t]}
             /\ deps'[t] = {Threaded(k, t) : k \in deps[t]}
  <2>1. Tokens(t) = deps[t]
    BY <1>2 DEF PlainTokens
  <2>2. requires'[t] = {<<Threaded(r[1], t), r[2]>> : r \in requires[t]}
    BY <1>1 DEF CorrectBroadcast
  <2>3. Tokens(t)' = {Threaded(r[1], t) : r \in requires[t]}
    <3>1. \A q \in requires'[t] : \E r \in requires[t] : q[1] = Threaded(r[1], t)
      BY <2>2
    <3>2. ASSUME NEW r \in requires[t]
          PROVE  \E q \in requires'[t] : q[1] = Threaded(r[1], t)
      <4>1. <<Threaded(r[1], t), r[2]>> \in requires'[t]
        BY <2>2
      <4>2. QED BY <4>1
    <3>3. QED BY <3>1, <3>2 DEF Tokens
  <2>4. {Threaded(r[1], t) : r \in requires[t]} = {Threaded(k, t) : k \in Tokens(t)}
    BY DEF Tokens
  <2>5. QED BY <1>1, <2>1, <2>3, <2>4 DEF CorrectBroadcast
<1>4. ASSUME NEW t \in Tasks(prog), NEW j \in Tokens(t)'
      PROVE  \E w \in 1 .. t - 1 : \E k \in deps[t] :
               /\ k = <<w, 0>>
               /\ IF t = Survivor(k) THEN j = <<w, 0>> ELSE j = <<w, t>> /\ Survivor(k) < t
  BY <1>2, <1>3, ThreadedTokens
<1>5. \A t \in Tasks(prog) : t # 0 /\ t \in Nat
  BY <1>2, ProgramsAssumption DEF WellFormed, Tasks
<1>6. OneConsumer'
  <2>1. ASSUME NEW t \in Tasks(prog), NEW k \in Tokens(t)'
        PROVE  \E w \in 1 .. t - 1 : k = <<w, 0>> \/ k = <<w, t>>
    BY <1>4
  <2>2. ASSUME NEW t \in Tasks(prog), NEW u \in Tasks(prog), NEW j \in Tokens(t)', j \in Tokens(u)'
        PROVE  t = u
    <3>1. PICK w \in 1 .. t - 1 : IF t = Survivor(<<w, 0>>) THEN j = <<w, 0>> ELSE j = <<w, t>>
      BY <1>4
    <3>2. PICK v \in 1 .. u - 1 : IF u = Survivor(<<v, 0>>) THEN j = <<v, 0>> ELSE j = <<v, u>>
      BY <1>4, <2>2
    <3>3. QED BY <1>5, <3>1, <3>2
  <2>3. QED BY <1>2, <2>1, <2>2 DEF OneConsumer, Tasks
<1>7. CopiesFollow'
  <2>1. copies' = {k \in UNION {Tokens(t)' : t \in Tasks(prog)} : k[2] # 0}
    <3>1. ASSUME NEW t \in Tasks(prog), NEW j \in Tokens(t)'
          PROVE  j \notin deps[t] <=> j[2] # 0
      <4>1. deps[t] \subseteq {<<w, 0>> : w \in 1 .. t - 1}
        BY <1>2 DEF PlainTokens
      <4>2. PICK w \in 1 .. t - 1, k \in deps[t] :
               k = <<w, 0>> /\ (j = <<w, 0>> \/ j = <<w, t>>)
        BY <1>4
      <4>3. QED BY <1>5, <4>1, <4>2
    <3>2. copies' = UNION {Tokens(t)' \ deps[t] : t \in Tasks(prog)}
      BY <1>1, <1>3 DEF CorrectBroadcast
    <3>3. QED BY <3>1, <3>2
  <2>2. ASSUME NEW t \in Tasks(prog), NEW u \in Tasks(prog), NEW w \in 1 .. prog.tasks,
               <<w, 0>> \in Tokens(t)', <<w, u>> \in Tokens(u)'
        PROVE  t < u
    <3>1. t = Survivor(<<w, 0>>)
      BY <1>4, <1>5, <2>2
    <3>2. Survivor(<<w, 0>>) < u
      BY <1>4, <1>5, <2>2
    <3>3. QED BY <3>1, <3>2
  <2>3. QED BY <1>2, <2>1, <2>2 DEF CopiesFollow, Tasks
<1>8. QED BY <1>1, <1>2, <1>6, <1>7 DEF IInv, PlainTokens, MarksFollow, SemsMatch, ChainsMatch,
                DeallocsMatch

(* In an alias pair the last accessor of the older memref comes before the  *)
(* first writer of the newer one.                                           *)
LEMMA AliasPairsInOrder ==
  ASSUME prog \in Programs, NEW pair \in AliasPairs
  PROVE  /\ LastAccessor(pair[1]) \in Tasks(prog) /\ FirstWriter(pair[2]) \in Tasks(prog)
         /\ LastAccessor(pair[1]) < FirstWriter(pair[2])
<1> DEFINE a == pair[1]
           b == pair[2]
<1>1. a \in Memrefs(prog) /\ b \in Memrefs(prog) /\ a < b /\ Overlap(prog, a, b)
  BY DEF AliasPairs
<1>2. WellFormed(prog) /\ prog.tasks \in Nat
  BY ProgramsAssumption DEF WellFormed
<1>3. PICK v \in Tasks(prog) : Writers(prog, a) = {v}
  BY <1>1, <1>2 DEF WellFormed
<1>4. PICK w \in Tasks(prog) : Writers(prog, b) = {w}
  BY <1>1, <1>2 DEF WellFormed
<1>5. a # NoMemref /\ b # NoMemref
  BY <1>1, <1>2 DEF Memrefs, NoMemref, WellFormed
<1>6. v \in Accessors(prog, a) /\ w \in Accessors(prog, b)
  BY <1>3, <1>4, <1>5 DEF Writers, Accessors, Touches
<1>7. LastAccessor(a) \in Accessors(prog, a)
  <2>1. Accessors(prog, a) \in SUBSET (1 .. prog.tasks)
    BY DEF Accessors, Tasks
  <2>2. QED BY <1>2, <1>6, <2>1, MaxIsGreatest DEF LastAccessor
<1>8. FirstWriter(b) = w
  <2>1. Writers(prog, b) \in SUBSET Nat /\ Writers(prog, b) # {}
    BY <1>2, <1>4 DEF Tasks
  <2>2. FirstWriter(b) \in Writers(prog, b)
    BY <2>1, MinIsLeast DEF FirstWriter
  <2>3. QED BY <1>4, <2>2
<1>9. \A t \in Accessors(prog, a), u \in Accessors(prog, b) : t < u
  BY <1>1, <1>2 DEF WellFormed
<1>10. QED BY <1>6, <1>7, <1>8, <1>9 DEF Accessors

LEMMA FindAliasDependencyStep == IInv /\ FindAliasDependency => IInv'
<1>1. SUFFICES ASSUME IInv, FindAliasDependency PROVE IInv'
  OBVIOUS
<1>2. /\ prog \in Programs /\ prog' = prog /\ requires' = requires /\ copies' = copies
      /\ next = "FindAliasDependency" /\ next' = "BuildTokenToSemMap"
  BY <1>1 DEF IInv, FindAliasDependency, graph
<1>3. OneConsumer' /\ CopiesFollow'
  BY <1>1, <1>2 DEF IInv, OneConsumer, CopiesFollow, Corrected, Tokens
<1>4. MarksFollow'
  <2>1. ASSUME NEW u \in Tasks(prog), NEW k \in marks'[u], NEW c \in Consumers(k)
        PROVE  c \in 1 .. u - 1
    <3>1. PICK pair \in KeptPairs :
             /\ FirstWriter(pair[2]) = u
             /\ \E r \in requires[LastAccessor(pair[1])] : r[1] = k
      BY <1>1 DEF FindAliasDependency
    <3>2. LastAccessor(pair[1]) \in Tasks(prog) /\ LastAccessor(pair[1]) < u
      BY <1>2, <3>1, AliasPairsInOrder DEF KeptPairs
    <3>3. k \in Tokens(LastAccessor(pair[1])) /\ k \in Tokens(c) /\ c \in Tasks(prog)
      BY <3>1 DEF Tokens, Consumers
    <3>4. c = LastAccessor(pair[1])
      BY <1>1, <1>2, <3>2, <3>3 DEF IInv, OneConsumer, Corrected
    <3>5. QED BY <1>2, <3>2, <3>4, ProgramsAssumption DEF WellFormed, Tasks
  <2>2. \A k : Consumers(k)' = Consumers(k)
    BY <1>2 DEF Consumers, Tokens
  <2>3. QED BY <1>2, <2>1, <2>2 DEF MarksFollow
<1>5. QED BY <1>2, <1>3, <1>4 DEF IInv, PlainTokens, SemsMatch, ChainsMatch, DeallocsMatch

LEMMA BuildTokenToSemMapStep == IInv /\ BuildTokenToSemMap => IInv'
<1>1. SUFFICES ASSUME IInv, BuildTokenToSemMap PROVE IInv'
  OBVIOUS
<1>2. /\ prog' = prog /\ requires' = requires /\ copies' = copies /\ marks' = marks
      /\ next = "BuildTokenToSemMap" /\ next' = "ChainSem"
  BY <1>1 DEF BuildTokenToSemMap, graph
<1>3. OneConsumer' /\ CopiesFollow' /\ MarksFollow'
  BY <1>1, <1>2 DEF IInv, OneConsumer, CopiesFollow, MarksFollow, Corrected, Tokens, Consumers
<1>4. SemsMatch'
  BY <1>1, <1>2 DEF BuildTokenToSemMap, SemsMatch, Tokens
<1>5. QED BY <1>1, <1>2, <1>3, <1>4 DEF IInv, PlainTokens, ChainsMatch, DeallocsMatch

LEMMA ChainSemStep == IInv /\ ChainSem => IInv'
<1>1. SUFFICES ASSUME IInv, ChainSem PROVE IInv'
  OBVIOUS
<1>2. /\ prog' = prog /\ requires' = requires /\ copies' = copies /\ marks' = marks
      /\ sems' = sems /\ acquire' = acquire
      /\ next = "ChainSem" /\ next' = "InsertSemDeallocs"
  BY <1>1 DEF ChainSem, graph
<1>3. OneConsumer' /\ CopiesFollow' /\ MarksFollow'
  BY <1>1, <1>2 DEF IInv, OneConsumer, CopiesFollow, MarksFollow, Corrected, Tokens, Consumers
<1>4. SemsMatch'
  BY <1>1, <1>2 DEF IInv, SemsMatch, Tokens
<1>5. ChainsMatch'
  BY <1>1, <1>2 DEF ChainSem, ChainsMatch
<1>6. QED BY <1>1, <1>2, <1>3, <1>4, <1>5 DEF IInv, PlainTokens, DeallocsMatch

LEMMA InsertSemDeallocsStep == IInv /\ InsertSemDeallocs => IInv'
<1>1. SUFFICES ASSUME IInv, InsertSemDeallocs PROVE IInv'
  OBVIOUS
<1>2. /\ prog' = prog /\ requires' = requires /\ copies' = copies /\ marks' = marks
      /\ sems' = sems /\ acquire' = acquire /\ startsFull' = startsFull /\ chains' = chains
      /\ next = "InsertSemDeallocs" /\ next' = "done"
  BY <1>1 DEF InsertSemDeallocs, graph
<1>3. OneConsumer' /\ CopiesFollow' /\ MarksFollow'
  BY <1>1, <1>2 DEF IInv, OneConsumer, CopiesFollow, MarksFollow, Corrected, Tokens, Consumers
<1>4. SemsMatch' /\ ChainsMatch'
  BY <1>1, <1>2 DEF IInv, SemsMatch, ChainsMatch, Tokens
<1>5. DeallocsMatch'
  BY <1>1, <1>2 DEF InsertSemDeallocs, DeallocsMatch, NewestUser, Consumers, Tokens
<1>6. QED BY <1>1, <1>2, <1>3, <1>4, <1>5 DEF IInv, PlainTokens

LEMMA IInvStutter == IInv /\ UNCHANGED vars => IInv'
BY DEF vars, graph, lowered, IInv, PlainTokens, OneConsumer, CopiesFollow, MarksFollow,
       SemsMatch, ChainsMatch, DeallocsMatch, NewestUser, Corrected, Tokens, Consumers

LEMMA IInvHolds == Spec => []IInv
<1>1. IInv /\ [Next]_vars => IInv'
  BY IInvStutter, FindAsyncDependencyStep, InsertRequireStep, CorrectBroadcastStep,
     FindAliasDependencyStep, BuildTokenToSemMapStep, ChainSemStep, InsertSemDeallocsStep DEF Next
<1>2. QED BY IInvInit, <1>1, PTL DEF Spec

-----------------------------------------------------------------------------
(* Every semaphore of a lowered program has one consumer, and is filled by  *)
(* one acquire or from the start, for every program.                        *)
THEOREM EveryCreditPairsUp == Spec => []CreditsPairUp
<1>1. IInv => CreditsPairUp
  <2>1. SUFFICES ASSUME IInv, next = "done", NEW s \in sems
                 PROVE  /\ Cardinality(Consumers(s)) = 1
                        /\ (acquire[s[1]] = s) # (s \in startsFull)
                        /\ s \in startsFull => <<s[1], 0>> \in chains[s] \ startsFull
    BY DEF CreditsPairUp, Lowered
  <2>2. /\ OneConsumer /\ CopiesFollow /\ SemsMatch /\ ChainsMatch /\ Corrected
        /\ prog.tasks \in Nat
    BY <2>1, ProgramsAssumption DEF IInv, Corrected, WellFormed
  <2>3. PICK t \in Tasks(prog) : s \in Tokens(t)
    BY <2>1, <2>2 DEF SemsMatch
  <2>4. Consumers(s) = {t}
    BY <2>2, <2>3 DEF Consumers, OneConsumer
  <2>5. Cardinality(Consumers(s)) = 1
    BY <2>4, FS_Singleton
  <2>6. PICK w \in 1 .. t - 1 : s = <<w, 0>> \/ s = <<w, t>>
    BY <2>2, <2>3 DEF OneConsumer
  <2>7. w \in Tasks(prog) /\ t \in Nat /\ t # 0
    BY <2>2, <2>6 DEF Tasks
  <2>8. acquire[w] = IF <<w, 0>> \in sems THEN <<w, 0>> ELSE NoToken
    BY <2>1, <2>2, <2>7 DEF SemsMatch
  <2>9. s \in startsFull <=> s[2] # 0
    BY <2>1, <2>2, <2>3 DEF ChainsMatch, CopiesFollow
  <2>10. CASE s = <<w, 0>>
    BY <2>1, <2>5, <2>8, <2>9, <2>10
  <2>11. CASE s = <<w, t>>
    <3>1. chains[s] = {<<w, 0>>}
      BY <2>1, <2>2, <2>7, <2>9, <2>11 DEF ChainsMatch
    <3>2. <<w, 0>> \notin startsFull
      BY <2>1, <2>2 DEF ChainsMatch, CopiesFollow
    <3>3. acquire[s[1]] # s
      BY <2>7, <2>8, <2>11 DEF NoToken
    <3>4. QED BY <2>5, <2>7, <2>9, <2>11, <3>1, <3>2, <3>3
  <2>12. QED BY <2>6, <2>10, <2>11
<1>2. QED BY IInvHolds, <1>1, PTL

LEMMA WaitsAreEarlier == IInv => WaitsFollowProgramOrder
<1>1. SUFFICES ASSUME IInv, next = "done", NEW u \in Tasks(prog), NEW v \in DirectWaits(u)
               PROVE  v \in 1 .. u - 1
  BY DEF WaitsFollowProgramOrder, Lowered
<1>2. /\ OneConsumer /\ CopiesFollow /\ SemsMatch /\ ChainsMatch /\ MarksFollow /\ Corrected
      /\ prog.tasks \in Nat
  BY <1>1, ProgramsAssumption DEF IInv, Corrected, WellFormed
<1>3. CASE \E k \in Tokens(u) \ startsFull : v = k[1]
  BY <1>2, <1>3 DEF OneConsumer
<1>4. ASSUME NEW q \in Tokens(u) \cap startsFull, NEW s \in chains[q], v \in Consumers(s)
      PROVE  v \in 1 .. u - 1
  <2>1. PICK w \in 1 .. u - 1 : q = <<w, 0>> \/ q = <<w, u>>
    BY <1>2 DEF OneConsumer
  <2>2. q \in sems /\ q \in copies /\ q[2] # 0
    BY <1>1, <1>2 DEF SemsMatch, ChainsMatch, CopiesFollow
  <2>3. q = <<w, u>> /\ s = <<w, 0>>
    BY <1>1, <1>2, <2>1, <2>2 DEF ChainsMatch
  <2>4. v \in Tasks(prog) /\ <<w, 0>> \in Tokens(v) /\ w \in 1 .. prog.tasks
    BY <1>2, <1>4, <2>1, <2>3 DEF Consumers, Tasks
  <2>5. v < u
    BY <1>2, <2>3, <2>4 DEF CopiesFollow
  <2>6. QED BY <1>2, <2>4, <2>5 DEF Tasks
<1>5. ASSUME acquire[u] \in sems, NEW s \in chains[acquire[u]], v \in Consumers(s)
      PROVE  v \in 1 .. u - 1
  <2>1. acquire[u] = <<u, 0>> \/ acquire[u] = NoToken
    BY <1>1, <1>2 DEF SemsMatch
  <2>2. acquire[u] # NoToken
    <3>1. \A k \in sems : k[1] # 0
      BY <1>1, <1>2 DEF SemsMatch, OneConsumer, Tasks
    <3>2. QED BY <1>5, <3>1 DEF NoToken
  <2>3. acquire[u] \notin copies
    BY <1>2, <2>1, <2>2 DEF CopiesFollow
  <2>4. s \in marks[u]
    BY <1>1, <1>2, <1>5, <2>1, <2>2, <2>3 DEF ChainsMatch
  <2>5. QED BY <1>1, <1>2, <1>5, <2>4 DEF MarksFollow
<1>6. QED BY <1>1, <1>3, <1>4, <1>5 DEF DirectWaits

(* Every task of a lowered program waits only for earlier tasks, so the     *)
(* waits form no cycle, for every program.                                  *)
THEOREM WaitsAreAcyclic == Spec => []WaitsFollowProgramOrder
BY IInvHolds, WaitsAreEarlier, PTL

(* In every lowered program a semaphore is allocated before its users and   *)
(* the semaphores that chain from it, and deallocated after its users.      *)
THEOREM SemaphoresStayInScope == Spec => []SemaphoresInScope
<1>1. IInv => SemaphoresInScope
  <2>1. SUFFICES ASSUME IInv, next = "done", NEW s \in sems
                 PROVE  /\ \A t \in Tasks(prog) : s \in Tokens(t) \/ s = acquire[t] =>
                             AllocatedBefore(s) <= t /\ t <= freedAfter[s]
                        /\ \A c \in chains[s] : AllocatedBefore(c) < AllocatedBefore(s)
    BY DEF SemaphoresInScope, Lowered
  <2>2. /\ OneConsumer /\ CopiesFollow /\ SemsMatch /\ ChainsMatch /\ MarksFollow /\ Corrected
        /\ DeallocsMatch /\ prog.tasks \in Nat
    BY <2>1, ProgramsAssumption DEF IInv, Corrected, WellFormed
  <2>3. ASSUME NEW q \in sems
        PROVE  \E u \in Tasks(prog) : \E w \in 1 .. u - 1 :
                 /\ q = <<w, 0>> \/ q = <<w, u>>
                 /\ Consumers(q) = {u}
                 /\ AllocatedBefore(q) = IF q = <<w, 0>> THEN w ELSE u
                 /\ q \in copies <=> q # <<w, 0>>
    <3>1. PICK u \in Tasks(prog) : q \in Tokens(u)
      BY <2>1, <2>2 DEF SemsMatch
    <3>2. Consumers(q) = {u}
      BY <2>2, <3>1 DEF Consumers, OneConsumer
    <3>3. PICK w \in 1 .. u - 1 : q = <<w, 0>> \/ q = <<w, u>>
      BY <2>2, <3>1 DEF OneConsumer
    <3>4. u # 0 /\ (q \in startsFull <=> q[2] # 0) /\ startsFull = copies
      BY <2>1, <2>2, <3>1 DEF ChainsMatch, CopiesFollow, Tasks
    <3>5. QED BY <3>1, <3>2, <3>3, <3>4 DEF AllocatedBefore
  <2>4. PICK u \in Tasks(prog) : \E w \in 1 .. u - 1 :
          /\ s = <<w, 0>> \/ s = <<w, u>>
          /\ Consumers(s) = {u}
          /\ AllocatedBefore(s) = IF s = <<w, 0>> THEN w ELSE u
          /\ s \in copies <=> s # <<w, 0>>
    BY <2>3
  <2>5. PICK w \in 1 .. u - 1 :
          /\ s = <<w, 0>> \/ s = <<w, u>>
          /\ Consumers(s) = {u}
          /\ AllocatedBefore(s) = IF s = <<w, 0>> THEN w ELSE u
          /\ s \in copies <=> s # <<w, 0>>
    BY <2>4
  <2>6. freedAfter[s] = u
    <3>1. Max({u}) \in {u}
      BY <2>2, MaxIsGreatest DEF Tasks
    <3>2. QED BY <2>1, <2>2, <2>5, <3>1 DEF DeallocsMatch, NewestUser
  <2>7. u \in Nat /\ w \in Nat /\ w < u
    BY <2>2 DEF Tasks
  <2>8. ASSUME NEW t \in Tasks(prog), s \in Tokens(t)
        PROVE  AllocatedBefore(s) <= t /\ t <= freedAfter[s]
    <3>1. t = u
      BY <2>5, <2>8 DEF Consumers
    <3>2. QED BY <2>5, <2>6, <2>7, <3>1
  <2>9. ASSUME NEW t \in Tasks(prog), s = acquire[t]
        PROVE  AllocatedBefore(s) <= t /\ t <= freedAfter[s]
    <3>1. t = w /\ s = <<w, 0>>
      <4>1. s = <<t, 0>> \/ s = <<0, 0>>
        BY <2>1, <2>2, <2>9 DEF SemsMatch, NoToken
      <4>2. w # 0 /\ u # 0
        BY <2>7
      <4>3. s[1] = w /\ (s[2] = 0 \/ s[2] = u)
        BY <2>5
      <4>4. QED BY <4>1, <4>2, <4>3
    <3>2. QED BY <2>5, <2>6, <2>7, <3>1
  <2>10. ASSUME NEW c \in chains[s] PROVE AllocatedBefore(c) < AllocatedBefore(s)
    <3>1. CASE s \in copies
      <4>1. c = <<w, 0>>
        BY <2>1, <2>2, <2>5, <2>10, <3>1 DEF ChainsMatch
      <4>2. c \notin startsFull
        BY <2>1, <2>2, <4>1 DEF ChainsMatch, CopiesFollow
      <4>3. QED BY <2>5, <2>7, <3>1, <4>1, <4>2 DEF AllocatedBefore
    <3>2. CASE s \notin copies
      <4>1. s = <<w, 0>> /\ w \in Tasks(prog) /\ c \in marks[w] /\ c \in sems
        BY <2>1, <2>2, <2>5, <2>7, <2>10, <3>2 DEF ChainsMatch, Tasks
      <4>2. Consumers(c) \subseteq 1 .. w - 1
        BY <2>1, <2>2, <4>1 DEF MarksFollow
      <4>3. PICK v \in Tasks(prog) : \E x \in 1 .. v - 1 :
              Consumers(c) = {v} /\ AllocatedBefore(c) = IF c = <<x, 0>> THEN x ELSE v
        BY <2>3, <4>1
      <4>4. v \in 1 .. w - 1
        BY <4>2, <4>3
      <4>5. AllocatedBefore(c) < w
        BY <2>7, <4>3, <4>4
      <4>6. QED BY <2>5, <4>1, <4>5
    <3>3. QED BY <3>1, <3>2
  <2>11. QED BY <2>8, <2>9, <2>10
<1>2. QED BY IInvHolds, <1>1, PTL

-----------------------------------------------------------------------------
(* Type correctness rests on what no pass has touched yet, on dependencies   *)
(* being on tasks that write, and on a copied token having its original.    *)
Untouched ==
  /\ next = "FindAsyncDependency" => \A t \in Tasks(prog) : requires[t] = {}
  /\ next \in {"FindAsyncDependency", "InsertRequire", "CorrectBroadcast"} =>
       \A t \in Tasks(prog) : marks[t] = {}
  /\ next \in {"FindAsyncDependency", "InsertRequire", "CorrectBroadcast",
               "FindAliasDependency", "BuildTokenToSemMap"} => startsFull = {}

ProducersWrite ==
  next = "InsertRequire" =>
    \A t \in Tasks(prog) : \A k \in deps[t] : prog.writes[k[1]] \in Memrefs(prog)

OriginalsKept ==
  Corrected => \A k \in copies : \E u \in Tasks(prog) : <<k[1], 0>> \in Tokens(u)

TInv == IInv /\ TypeOK /\ Untouched /\ ProducersWrite /\ OriginalsKept

LEMMA TInvInit == Init => TInv
<1>1. SUFFICES ASSUME Init PROVE TypeOK
  BY IInvInit DEF TInv, Init, Untouched, ProducersWrite, OriginalsKept, Corrected
<1>2. WellFormed(prog)
  BY <1>1, ProgramsAssumption DEF Init
<1>3. QED BY <1>1, <1>2 DEF Init, TypeOK, Lowered, NoToken

LEMMA FindAsyncDependencyTypes == TInv /\ FindAsyncDependency => TInv'
<1>1. SUFFICES ASSUME TInv, FindAsyncDependency PROVE TInv'
  OBVIOUS
<1>2. /\ prog \in Programs /\ prog' = prog /\ requires' = requires /\ copies' = copies
      /\ marks' = marks /\ UNCHANGED lowered
      /\ next = "FindAsyncDependency" /\ next' = "InsertRequire"
  BY <1>1 DEF TInv, IInv, FindAsyncDependency
<1>3. IInv'
  BY <1>1, FindAsyncDependencyStep DEF TInv
<1>4. ASSUME NEW t \in Tasks(prog) PROVE deps'[t] \subseteq {<<w, 0>> : w \in 1 .. t - 1}
  BY <1>1, <1>2, DepsAreEarlier DEF FindAsyncDependency
<1>5. copies = {} /\ \A t \in Tasks(prog) : requires[t] = {} /\ marks[t] = {}
  BY <1>1, <1>2 DEF TInv, IInv, PlainTokens, Untouched
<1>6. TypeOK'
  <2>1. DOMAIN deps' = Tasks(prog)
    BY <1>1 DEF FindAsyncDependency
  <2>2. ASSUME NEW t \in Tasks(prog) PROVE deps'[t] \subseteq {<<w, c>> : w \in 1 .. t - 1, c \in {0, t}}
    BY <1>4
  <2>3. QED BY <1>1, <1>2, <1>5, <2>1, <2>2 DEF TInv, TypeOK, lowered, Lowered
<1>7. ProducersWrite'
  <2>1. ASSUME NEW t \in Tasks(prog), NEW w \in CollectDeps(t)
        PROVE  prog.writes[w] \in Memrefs(prog)
    <3>1. WellFormed(prog)
      BY <1>2, ProgramsAssumption
    <3>2. PICK m \in Touches(prog, t) : w \in Writers(prog, m)
      BY <2>1 DEF CollectDeps
    <3>3. m \in Memrefs(prog)
      BY <3>1, <3>2 DEF Touches, WellFormed
    <3>4. QED BY <3>2, <3>3 DEF Writers
  <2>2. \A t \in Tasks(prog) : deps'[t] = {<<w, 0>> : w \in CollectDeps(t)}
    BY <1>1 DEF FindAsyncDependency
  <2>3. QED BY <1>2, <2>1, <2>2 DEF ProducersWrite
<1>8. Untouched' /\ OriginalsKept'
  BY <1>1, <1>2 DEF TInv, Untouched, OriginalsKept, Corrected, lowered
<1>9. QED BY <1>3, <1>6, <1>7, <1>8 DEF TInv

LEMMA InsertRequireTypes == TInv /\ InsertRequire => TInv'
<1>1. SUFFICES ASSUME TInv, InsertRequire PROVE TInv'
  OBVIOUS
<1>2. /\ prog' = prog /\ deps' = deps /\ copies' = copies
      /\ marks' = marks /\ UNCHANGED lowered
      /\ next = "InsertRequire" /\ next' = "CorrectBroadcast"
  BY <1>1 DEF InsertRequire
<1>3. IInv'
  BY <1>1, InsertRequireStep DEF TInv
<1>4. ASSUME NEW t \in Tasks(prog) PROVE requires'[t] \subseteq deps[t] \X Memrefs(prog)
  <2>1. requires'[t] = {<<k, prog.writes[k[1]]>> : k \in deps[t]}
    BY <1>1 DEF InsertRequire
  <2>2. \A k \in deps[t] : prog.writes[k[1]] \in Memrefs(prog)
    BY <1>1, <1>2 DEF TInv, ProducersWrite
  <2>3. QED BY <2>1, <2>2
<1>5. \A t \in Tasks(prog) : marks[t] = {}
  BY <1>1, <1>2 DEF TInv, Untouched
<1>6. TypeOK'
  <2>1. DOMAIN requires' = Tasks(prog)
    BY <1>1 DEF InsertRequire
  <2>2. QED BY <1>1, <1>2, <1>4, <1>5, <2>1 DEF TInv, TypeOK, lowered, Lowered
<1>7. Untouched' /\ ProducersWrite' /\ OriginalsKept'
  BY <1>1, <1>2 DEF TInv, Untouched, ProducersWrite, OriginalsKept, Corrected, lowered
<1>8. QED BY <1>3, <1>6, <1>7 DEF TInv

LEMMA CorrectBroadcastTypes == TInv /\ CorrectBroadcast => TInv'
<1>1. SUFFICES ASSUME TInv, CorrectBroadcast PROVE TInv'
  OBVIOUS
<1>2. /\ prog \in Programs /\ prog' = prog /\ marks' = marks /\ UNCHANGED lowered
      /\ PlainTokens /\ next = "CorrectBroadcast" /\ next' = "FindAliasDependency"
  BY <1>1 DEF CorrectBroadcast, TInv, IInv
<1>3. IInv'
  BY <1>1, CorrectBroadcastStep DEF TInv
<1>4. ASSUME NEW t \in Tasks(prog)
      PROVE  /\ deps'[t] = {Threaded(k, t) : k \in deps[t]}
             /\ requires'[t] = {<<Threaded(r[1], t), r[2]>> : r \in requires[t]}
  BY <1>1 DEF CorrectBroadcast
<1>5. ASSUME NEW t \in Tasks(prog)
      PROVE  deps'[t] \subseteq {<<w, c>> : w \in 1 .. t - 1, c \in {0, t}}
  BY <1>2, <1>4, ThreadedTokens
<1>6. ASSUME NEW t \in Tasks(prog) PROVE requires'[t] \subseteq deps'[t] \X Memrefs(prog)
  <2>1. requires[t] \subseteq deps[t] \X Memrefs(prog)
    BY <1>1 DEF TInv, TypeOK
  <2>2. QED BY <1>4, <2>1
<1>7. copies' \subseteq UNION {deps'[t] : t \in Tasks(prog)}
  BY <1>1 DEF CorrectBroadcast
<1>8. TypeOK'
  <2>1. DOMAIN deps' = Tasks(prog) /\ DOMAIN requires' = Tasks(prog)
    BY <1>1 DEF CorrectBroadcast
  <2>2. \A t \in Tasks(prog) : marks[t] = {}
    BY <1>1, <1>2 DEF TInv, Untouched
  <2>3. QED BY <1>1, <1>2, <1>5, <1>6, <1>7, <2>1, <2>2 DEF TInv, TypeOK, lowered, Lowered
<1>9. OriginalsKept'
  <2>1. SUFFICES ASSUME NEW j \in copies'
                 PROVE  \E u \in Tasks(prog) : <<j[1], 0>> \in Tokens(u)'
    BY <1>2 DEF OriginalsKept
  <2>2. PICK t \in Tasks(prog) : j \in deps'[t]
    BY <1>7, <2>1
  <2>3. PICK k \in deps[t] : j = Threaded(k, t)
    BY <1>4, <2>2
  <2>4. PICK w \in 1 .. t - 1 : k = <<w, 0>> /\ j[1] = w
    BY <1>2, <2>3, ThreadedTokens
  <2>5. PICK u \in Tasks(prog) : u = Survivor(k) /\ k \in deps[u]
    BY <1>2, SurvivorIsFirst
  <2>6. PICK r \in requires[u] : r[1] = k
    BY <1>2, <2>5 DEF PlainTokens, Tokens
  <2>7. <<k, r[2]>> \in requires'[u]
    BY <1>4, <2>5, <2>6 DEF Threaded
  <2>8. PICK q \in requires'[u] : q[1] = k
    BY <2>7
  <2>9. k \in Tokens(u)'
    BY <2>8 DEF Tokens
  <2>10. QED BY <2>4, <2>9
<1>10. Untouched' /\ ProducersWrite'
  BY <1>1, <1>2 DEF TInv, Untouched, ProducersWrite, lowered
<1>11. QED BY <1>3, <1>8, <1>9, <1>10 DEF TInv

LEMMA FindAliasDependencyTypes == TInv /\ FindAliasDependency => TInv'
<1>1. SUFFICES ASSUME TInv, FindAliasDependency PROVE TInv'
  OBVIOUS
<1>2. /\ prog \in Programs /\ prog' = prog /\ deps' = deps /\ requires' = requires
      /\ copies' = copies /\ UNCHANGED lowered
      /\ next = "FindAliasDependency" /\ next' = "BuildTokenToSemMap"
  BY <1>1 DEF FindAliasDependency, TInv, IInv, graph
<1>3. IInv'
  BY <1>1, FindAliasDependencyStep DEF TInv
<1>4. \A u \in Tasks(prog) : Tokens(u)' = Tokens(u)
  BY <1>2 DEF Tokens
<1>5. ASSUME NEW t \in Tasks(prog), NEW k \in marks'[t]
      PROVE  k \in UNION {Tokens(u) : u \in 1 .. t - 1}
  <2>1. PICK pair \in KeptPairs :
           /\ FirstWriter(pair[2]) = t
           /\ \E r \in requires[LastAccessor(pair[1])] : r[1] = k
    BY <1>1 DEF FindAliasDependency
  <2>2. LastAccessor(pair[1]) \in Tasks(prog) /\ LastAccessor(pair[1]) < t
    BY <1>2, <2>1, AliasPairsInOrder DEF KeptPairs
  <2>3. LastAccessor(pair[1]) \in 1 .. t - 1
    BY <1>2, <2>2, ProgramsAssumption DEF WellFormed, Tasks
  <2>4. QED BY <2>1, <2>3 DEF Tokens
<1>6. TypeOK'
  <2>1. DOMAIN marks' = Tasks(prog)
    BY <1>1 DEF FindAliasDependency
  <2>2. \A t \in Tasks(prog) : marks'[t] \subseteq UNION {Tokens(u)' : u \in 1 .. t - 1}
    <3>1. \A u : Tokens(u)' = Tokens(u)
      BY <1>2 DEF Tokens
    <3>2. QED BY <1>5, <3>1
  <2>3. QED BY <1>1, <1>2, <2>1, <2>2 DEF TInv, TypeOK, lowered, Lowered
<1>7. OriginalsKept'
  BY <1>1, <1>2, <1>4 DEF TInv, OriginalsKept, Corrected
<1>8. Untouched' /\ ProducersWrite'
  BY <1>1, <1>2 DEF TInv, Untouched, ProducersWrite, lowered
<1>9. QED BY <1>3, <1>6, <1>7, <1>8 DEF TInv

(* The passes of LowerAsyncToSemaphore leave the tokens as they are.        *)
LEMMA TokensStay ==
  ASSUME prog' = prog, UNCHANGED graph, marks' = marks,
         TypeOK, OriginalsKept, Corrected
  PROVE  /\ OriginalsKept'
         /\ \A t \in Tasks(prog) :
              marks'[t] \subseteq UNION {Tokens(u)' : u \in 1 .. t - 1}
<1>1. \A u : Tokens(u)' = Tokens(u)
  BY DEF graph, Tokens
<1>2. \A t \in Tasks(prog) : marks[t] \subseteq UNION {Tokens(u) : u \in 1 .. t - 1}
  BY DEF TypeOK
<1>3. QED BY <1>1, <1>2 DEF OriginalsKept, graph

LEMMA LoweringTypes ==
  TInv /\ (BuildTokenToSemMap \/ ChainSem \/ InsertSemDeallocs) => TInv'
<1>1. SUFFICES ASSUME TInv, BuildTokenToSemMap \/ ChainSem \/ InsertSemDeallocs PROVE TInv'
  OBVIOUS
<1>2. /\ prog' = prog /\ UNCHANGED graph /\ marks' = marks
      /\ Corrected /\ next # "InsertRequire" /\ next' # "InsertRequire"
      /\ next # "done"
      /\ next' \in {"ChainSem", "InsertSemDeallocs", "done"}
  BY <1>1 DEF BuildTokenToSemMap, ChainSem, InsertSemDeallocs, Corrected
<1>3. IInv'
  BY <1>1, BuildTokenToSemMapStep, ChainSemStep, InsertSemDeallocsStep DEF TInv
<1>4. /\ OriginalsKept'
      /\ \A t \in Tasks(prog) : marks'[t] \subseteq UNION {Tokens(u)' : u \in 1 .. t - 1}
  BY <1>1, <1>2, TokensStay DEF TInv
<1>5. Untouched' /\ ProducersWrite'
  BY <1>1, <1>2 DEF TInv, Untouched, ProducersWrite
<1>6. DOMAIN freedAfter = {} /\ (\A u : Tokens(u)' = Tokens(u))
  BY <1>1, <1>2 DEF TInv, TypeOK, Lowered, graph, Tokens
<1>7. CASE BuildTokenToSemMap
  <2>1. /\ next' = "ChainSem" /\ chains' = [s \in sems' |-> {}]
        /\ acquire' = [t \in Tasks(prog) |-> IF <<t, 0>> \in sems' THEN <<t, 0>> ELSE NoToken]
    BY <1>7 DEF BuildTokenToSemMap
  <2>2. startsFull' = {} /\ DOMAIN freedAfter' = {}
    BY <1>1, <1>6, <1>7 DEF BuildTokenToSemMap, TInv, Untouched
  <2>3. TypeOK'
    BY <1>1, <1>2, <1>4, <2>1, <2>2 DEF TInv, TypeOK, Lowered, graph
  <2>4. QED BY <1>3, <1>4, <1>5, <2>3 DEF TInv
<1>8. CASE ChainSem
  <2>1. /\ startsFull' = copies /\ sems' = sems /\ acquire' = acquire /\ freedAfter' = freedAfter
        /\ chains' = [s \in sems |->
                        IF s \in copies THEN {<<s[1], 0>>} ELSE marks[s[1]] \cap sems]
        /\ next = "ChainSem" /\ next' = "InsertSemDeallocs"
    BY <1>8 DEF ChainSem
  <2>2. sems = UNION {Tokens(t) : t \in Tasks(prog)}
    BY <1>1, <2>1 DEF TInv, IInv, SemsMatch
  <2>3. copies \subseteq sems
    BY <1>1, <1>2, <2>2 DEF TInv, IInv, CopiesFollow
  <2>4. \A k \in copies : <<k[1], 0>> \in sems
    BY <1>1, <1>2, <2>2 DEF TInv, OriginalsKept
  <2>5. DOMAIN chains' = sems /\ \A s \in sems : chains'[s] \subseteq sems
    BY <2>1, <2>4
  <2>6. TypeOK'
    BY <1>1, <1>2, <1>4, <1>6, <2>1, <2>3, <2>5 DEF TInv, TypeOK, Lowered, graph
  <2>7. QED BY <1>3, <1>4, <1>5, <2>6 DEF TInv
<1>9. CASE InsertSemDeallocs
  <2>1. /\ startsFull' = startsFull /\ sems' = sems /\ acquire' = acquire /\ chains' = chains
        /\ DOMAIN freedAfter' = sems /\ next' = "done"
    BY <1>9 DEF InsertSemDeallocs
  <2>2. TypeOK'
    BY <1>1, <1>2, <1>4, <2>1 DEF TInv, TypeOK, Lowered, graph
  <2>3. QED BY <1>3, <1>4, <1>5, <2>2 DEF TInv
<1>10. QED BY <1>1, <1>7, <1>8, <1>9

LEMMA TInvStep == TInv /\ [Next]_vars => TInv'
<1>1. TInv /\ UNCHANGED vars => TInv'
  <2>1. SUFFICES ASSUME TInv, UNCHANGED vars PROVE TInv'
    OBVIOUS
  <2>2. IInv'
    BY <2>1, IInvStutter DEF TInv
  <2>3. TypeOK'
    BY <2>1 DEF TInv, vars, graph, lowered, TypeOK, Tokens, Lowered
  <2>4. Untouched' /\ ProducersWrite' /\ OriginalsKept'
    BY <2>1 DEF TInv, vars, graph, lowered, Untouched, ProducersWrite, OriginalsKept, Corrected,
           Tokens
  <2>5. QED BY <2>2, <2>3, <2>4 DEF TInv
<1>2. QED BY <1>1, FindAsyncDependencyTypes, InsertRequireTypes, CorrectBroadcastTypes,
             FindAliasDependencyTypes, LoweringTypes DEF Next

(* Every variable of the passes keeps its type; in particular every         *)
(* semaphore chains from semaphores that exist.                             *)
THEOREM LoweringTypeCorrect == Spec => []TypeOK
<1>1. TInv => TypeOK
  BY DEF TInv
<1>2. QED BY TInvInit, TInvStep, <1>1, PTL DEF Spec

-----------------------------------------------------------------------------
(* That data arrives and memory is reused in order rests on what the passes *)
(* know of the dependencies, and on the marks of the alias pairs.           *)
DepsKnown ==
  /\ next # "FindAsyncDependency" =>
       \A t \in Tasks(prog) : {k[1] : k \in deps[t]} = CollectDeps(t)
  /\ next \notin {"FindAsyncDependency", "InsertRequire"} =>
       \A t \in Tasks(prog) : requires[t] = {<<k, prog.writes[k[1]]>> : k \in deps[t]}

MarksKnown ==
  next \in {"BuildTokenToSemMap", "ChainSem", "InsertSemDeallocs", "done"} =>
    \A pair \in KeptPairs : \A r \in requires[LastAccessor(pair[1])] :
      r[2] = pair[1] => r[1] \in marks[FirstWriter(pair[2])]

DInv == TInv /\ DepsKnown /\ MarksKnown

LEMMA DInvInit == Init => DInv
BY TInvInit DEF DInv, DepsKnown, MarksKnown, Init

(* The alias pairs are read from the dependency lists alone. *)
LEMMA PairsStay ==
  ASSUME prog' = prog, deps' = deps
  PROVE  /\ \A m : LastAccessor(m)' = LastAccessor(m) /\ FirstWriter(m)' = FirstWriter(m)
         /\ \A t : CollectDeps(t)' = CollectDeps(t)
         /\ KeptPairs' = KeptPairs
<1>1. \A m : LastAccessor(m)' = LastAccessor(m) /\ FirstWriter(m)' = FirstWriter(m)
  BY DEF LastAccessor, FirstWriter
<1>2. \A t : CollectDeps(t)' = CollectDeps(t)
  BY DEF CollectDeps
<1>3. Producers' = Producers
  BY DEF Producers
<1>4. \A t, u : Ordered(t, u)' <=> Ordered(t, u)
  BY <1>3 DEF Ordered, Reachable
<1>5. AliasPairs' = AliasPairs
  BY <1>1, <1>4 DEF AliasPairs, InWindow
<1>6. KeptPairs' = KeptPairs
  BY <1>1, <1>5 DEF KeptPairs
<1>7. QED BY <1>1, <1>2, <1>6

LEMMA DepsStep ==
  ASSUME DInv, [Next]_vars
  PROVE  DepsKnown' /\ MarksKnown'
<1>1. TInv /\ IInv /\ prog \in Programs
  BY DEF DInv, TInv, IInv
<1>2. CASE FindAsyncDependency
  <2>1. /\ prog' = prog /\ next' = "InsertRequire"
        /\ \A t \in Tasks(prog) : deps'[t] = {<<w, 0>> : w \in CollectDeps(t)}
    BY <1>2 DEF FindAsyncDependency
  <2>2. \A t \in Tasks(prog) : {k[1] : k \in deps'[t]} = CollectDeps(t)
    <3>1. ASSUME NEW t \in Tasks(prog), NEW w \in CollectDeps(t)
          PROVE  \E k \in deps'[t] : k[1] = w
      <4>1. <<w, 0>> \in deps'[t] BY <2>1
      <4>2. QED BY <4>1
    <3>2. \A t \in Tasks(prog) : \A k \in deps'[t] : k[1] \in CollectDeps(t)
      BY <2>1
    <3>3. QED BY <3>1, <3>2
  <2>3. \A t : CollectDeps(t)' = CollectDeps(t)
    BY <2>1 DEF CollectDeps
  <2>4. QED BY <2>1, <2>2, <2>3 DEF DepsKnown, MarksKnown
<1>3. CASE InsertRequire
  <2>1. /\ prog' = prog /\ deps' = deps /\ next = "InsertRequire" /\ next' = "CorrectBroadcast"
        /\ \A t \in Tasks(prog) : requires'[t] = {<<k, prog.writes[k[1]]>> : k \in deps[t]}
    BY <1>3 DEF InsertRequire
  <2>2. \A t \in Tasks(prog) : {k[1] : k \in deps[t]} = CollectDeps(t)
    BY <2>1 DEF DInv, DepsKnown
  <2>3. \A t : CollectDeps(t)' = CollectDeps(t)
    BY <2>1, PairsStay
  <2>4. QED BY <2>1, <2>2, <2>3 DEF DepsKnown, MarksKnown
<1>4. CASE CorrectBroadcast
  <2>1. /\ prog' = prog /\ next = "CorrectBroadcast" /\ next' = "FindAliasDependency"
        /\ \A t \in Tasks(prog) :
             /\ deps'[t] = {Threaded(k, t) : k \in deps[t]}
             /\ requires'[t] = {<<Threaded(r[1], t), r[2]>> : r \in requires[t]}
    BY <1>4 DEF CorrectBroadcast
  <2>2. ASSUME NEW t \in Tasks(prog)
        PROVE  /\ {k[1] : k \in deps[t]} = CollectDeps(t)
               /\ requires[t] = {<<k, prog.writes[k[1]]>> : k \in deps[t]}
               /\ \A k \in deps[t] : Threaded(k, t)[1] = k[1]
    <3>1. ASSUME NEW k \in deps[t] PROVE Threaded(k, t)[1] = k[1]
      BY <1>1, <2>1, ThreadedTokens DEF IInv
    <3>2. QED BY <2>1, <3>1 DEF DInv, DepsKnown
  <2>3. ASSUME NEW t \in Tasks(prog)
        PROVE  {k[1] : k \in deps'[t]} = CollectDeps(t)
    BY <2>1, <2>2
  <2>4. ASSUME NEW t \in Tasks(prog)
        PROVE  requires'[t] = {<<k, prog.writes[k[1]]>> : k \in deps'[t]}
    <3>1. ASSUME NEW r \in requires'[t]
          PROVE  \E k \in deps'[t] : r = <<k, prog.writes[k[1]]>>
      <4>1. PICK q \in requires[t] : r = <<Threaded(q[1], t), q[2]>>
        BY <2>1
      <4>2. PICK k \in deps[t] : q = <<k, prog.writes[k[1]]>>
        BY <2>2
      <4>3. r = <<Threaded(k, t), prog.writes[Threaded(k, t)[1]]>> /\ Threaded(k, t) \in deps'[t]
        BY <2>1, <2>2, <4>1, <4>2
      <4>4. QED BY <4>3
    <3>2. ASSUME NEW j \in deps'[t]
          PROVE  <<j, prog.writes[j[1]]>> \in requires'[t]
      <4>1. PICK k \in deps[t] : j = Threaded(k, t)
        BY <2>1
      <4>2. PICK q \in requires[t] : q = <<k, prog.writes[k[1]]>>
        BY <2>2
      <4>3. <<Threaded(q[1], t), q[2]>> \in requires'[t]
        BY <2>1
      <4>4. q[1] = k /\ q[2] = prog.writes[j[1]]
        BY <2>2, <4>1, <4>2
      <4>5. QED BY <4>1, <4>3, <4>4
    <3>3. QED BY <3>1, <3>2
  <2>5. \A t : CollectDeps(t)' = CollectDeps(t)
    BY <2>1 DEF CollectDeps
  <2>6. QED BY <2>1, <2>3, <2>4, <2>5 DEF DepsKnown, MarksKnown
<1>5. CASE FindAliasDependency
  <2>1. /\ prog' = prog /\ deps' = deps /\ requires' = requires
        /\ next = "FindAliasDependency" /\ next' = "BuildTokenToSemMap"
    BY <1>5 DEF FindAliasDependency, graph
  <2>2. ASSUME NEW pair \in KeptPairs, NEW r \in requires[LastAccessor(pair[1])], r[2] = pair[1]
        PROVE  r[1] \in marks'[FirstWriter(pair[2])]
    <3>1. FirstWriter(pair[2]) \in Tasks(prog)
      BY <1>1, AliasPairsInOrder DEF KeptPairs
    <3>2. QED BY <1>5, <2>2, <3>1 DEF FindAliasDependency
  <2>3. MarksKnown'
    BY <2>1, <2>2, PairsStay DEF MarksKnown
  <2>4. DepsKnown'
    BY <2>1, PairsStay DEF DInv, DepsKnown
  <2>5. QED BY <2>3, <2>4
<1>6. CASE BuildTokenToSemMap \/ ChainSem \/ InsertSemDeallocs \/ UNCHANGED vars
  <2>1. /\ prog' = prog /\ deps' = deps /\ requires' = requires /\ marks' = marks
        /\ \/ next' = next
           \/ /\ next \in {"BuildTokenToSemMap", "ChainSem", "InsertSemDeallocs"}
              /\ next' \in {"ChainSem", "InsertSemDeallocs", "done"}
    BY <1>6 DEF BuildTokenToSemMap, ChainSem, InsertSemDeallocs, vars, graph
  <2>2. QED BY <2>1, PairsStay DEF DInv, DepsKnown, MarksKnown
<1>7. QED BY <1>2, <1>3, <1>4, <1>5, <1>6 DEF Next

LEMMA DInvHolds == Spec => []DInv
<1>1. DInv /\ [Next]_vars => DInv'
  BY TInvStep, DepsStep DEF DInv
<1>2. QED BY DInvInit, <1>1, PTL DEF Spec

-----------------------------------------------------------------------------
(* What DInv says of a lowered program, token by token.                     *)

(* A task holds a token of each of its producers, paired with its memref.   *)
LEMMA TokensKnown ==
  ASSUME DInv, Lowered, NEW t \in Tasks(prog)
  PROVE  /\ \A k \in Tokens(t) : k[1] \in CollectDeps(t)
         /\ \A w \in CollectDeps(t) :
              \E k \in Tokens(t) : k[1] = w /\ <<k, prog.writes[w]>> \in requires[t]
<1>1. /\ {k[1] : k \in deps[t]} = CollectDeps(t)
      /\ requires[t] = {<<k, prog.writes[k[1]]>> : k \in deps[t]}
  BY DEF DInv, DepsKnown, Lowered
<1>2. ASSUME NEW k \in Tokens(t) PROVE k[1] \in CollectDeps(t)
  <2>1. PICK r \in requires[t] : r[1] = k
    BY DEF Tokens
  <2>2. k \in deps[t]
    BY <1>1, <2>1
  <2>3. QED BY <1>1, <2>2
<1>3. ASSUME NEW w \in CollectDeps(t)
      PROVE  \E k \in Tokens(t) : k[1] = w /\ <<k, prog.writes[w]>> \in requires[t]
  <2>1. PICK k \in deps[t] : k[1] = w
    BY <1>1
  <2>2. PICK r \in requires[t] : r = <<k, prog.writes[w]>>
    BY <1>1, <2>1
  <2>3. k \in Tokens(t)
    BY <2>2 DEF Tokens
  <2>4. QED BY <2>1, <2>2, <2>3
<1>4. QED BY <1>2, <1>3

(* A token is the original or the copy for its consumer; a copy is full at  *)
(* the start, chains from its original, and comes after its consumer.       *)
LEMMA TokenShapes ==
  ASSUME DInv, Lowered, NEW t \in Tasks(prog), NEW k \in Tokens(t)
  PROVE  /\ k \in sems /\ k[1] \in Tasks(prog)
         /\ k = <<k[1], 0>> \/ k = <<k[1], t>>
         /\ k \in startsFull <=> k # <<k[1], 0>>
         /\ k \in startsFull => chains[k] = {<<k[1], 0>>}
         /\ \E c \in Tasks(prog) :
              /\ <<k[1], 0>> \in Tokens(c) /\ <<k[1], 0>> \in sems \ startsFull
              /\ k \in startsFull => c < t
<1>1. /\ OneConsumer /\ CopiesFollow /\ SemsMatch /\ ChainsMatch /\ OriginalsKept /\ Corrected
      /\ next = "done" /\ prog.tasks \in Nat
  BY ProgramsAssumption DEF DInv, TInv, IInv, Corrected, WellFormed, Lowered
<1>2. PICK w \in 1 .. t - 1 : k = <<w, 0>> \/ k = <<w, t>>
  BY <1>1 DEF OneConsumer
<1>3. w = k[1] /\ w \in 1 .. prog.tasks /\ t # 0
  BY <1>1, <1>2 DEF Tasks
<1>4. k \in sems /\ (k \in startsFull <=> k[2] # 0)
  BY <1>1 DEF SemsMatch, ChainsMatch, CopiesFollow
<1>5. k \in startsFull => chains[k] = {<<w, 0>>}
  BY <1>1, <1>3, <1>4 DEF ChainsMatch
<1>6. <<w, 0>> \notin startsFull
  BY <1>1 DEF ChainsMatch, CopiesFollow
<1>7. PICK c \in Tasks(prog) : <<w, 0>> \in Tokens(c)
  <2>1. CASE k = <<w, 0>>
    BY <2>1
  <2>2. CASE k \in copies
    BY <1>1, <1>3, <2>2 DEF OriginalsKept
  <2>3. QED BY <1>1, <1>2, <1>3, <1>4, <2>1, <2>2 DEF ChainsMatch
<1>8. k \in startsFull => c < t
  BY <1>1, <1>2, <1>3, <1>4, <1>7 DEF CopiesFollow
<1>9. <<w, 0>> \in sems
  BY <1>1, <1>7 DEF SemsMatch
<1>10. QED
  BY <1>2, <1>3, <1>4, <1>5, <1>6, <1>7, <1>8, <1>9 DEF Tasks

-----------------------------------------------------------------------------
(* Awaited is the least closed set, so a task belongs to it when it belongs *)
(* to every closed one.                                                     *)
Closed(S) == S \in SUBSET Tasks(prog) /\ \A v \in S : DirectWaits(v) \subseteq S

LEMMA AwaitedIsLeast ==
  ASSUME NEW u \in Tasks(prog), NEW t \in Tasks(prog),
         \A S : Closed(S) /\ DirectWaits(u) \subseteq S => t \in S
  PROVE  t \in Awaited[u]
<1> DEFINE Waits == [v \in Tasks(prog) |-> DirectWaits(v)]
<1>1. ASSUME NEW S \in SUBSET Tasks(prog),
             Waits[u] \subseteq S, \A v \in S : Waits[v] \subseteq S
      PROVE  t \in S
  <2>1. DirectWaits(u) \subseteq S /\ \A v \in S : DirectWaits(v) \subseteq S
    BY <1>1
  <2>2. QED BY <2>1 DEF Closed
<1>2. t \in Reachable(Waits, u)
  BY <1>1 DEF Reachable
<1>3. Awaited[u] = Reachable(Waits, u)
  BY DEF Awaited
<1>4. QED BY <1>2, <1>3

(* Whoever awaits a task awaits its producers: through the credit the task  *)
(* takes, or through the consumer of the original its copy chains from.     *)
LEMMA ProducersAwaited ==
  ASSUME DInv, Lowered, NEW S, Closed(S),
         NEW u \in Tasks(prog), DirectWaits(u) \subseteq S, NEW k \in Tokens(u)
  PROVE  /\ k[1] \in S
         /\ k \in startsFull => Consumers(<<k[1], 0>>) \subseteq S
<1>1. CASE k \notin startsFull
  BY <1>1 DEF DirectWaits
<1>2. CASE k \in startsFull
  <2>1. PICK c \in Tasks(prog) :
           /\ <<k[1], 0>> \in Tokens(c) /\ <<k[1], 0>> \in sems \ startsFull
           /\ chains[k] = {<<k[1], 0>>}
    BY <1>2, TokenShapes
  <2>2. Consumers(<<k[1], 0>>) \subseteq DirectWaits(u)
    BY <1>2, <2>1 DEF DirectWaits
  <2>3. c \in S
    BY <2>1, <2>2 DEF Consumers
  <2>4. k[1] \in DirectWaits(c)
    <3>1. <<k[1], 0>> \in Tokens(c) \ startsFull
      BY <2>1
    <3>2. QED BY <3>1 DEF DirectWaits
  <2>5. QED BY <2>2, <2>3, <2>4 DEF Closed
<1>3. QED BY <1>1, <1>2

LEMMA DepsAwaited ==
  ASSUME DInv, Lowered, NEW S, Closed(S),
         NEW u \in Tasks(prog), DirectWaits(u) \subseteq S
  PROVE  CollectDeps(u) \subseteq S
<1>1. SUFFICES ASSUME NEW w \in CollectDeps(u) PROVE w \in S
  OBVIOUS
<1>2. PICK k \in Tokens(u) : k[1] = w
  BY TokensKnown
<1>3. QED BY <1>2, ProducersAwaited

(* A task that reads a memref depends on its one writer.                    *)
LEMMA ReadersDepend ==
  ASSUME prog \in Programs, NEW m \in Memrefs(prog), NEW u \in Readers(prog, m)
  PROVE  \E w \in Tasks(prog) :
           /\ Writers(prog, m) = {w} /\ w < u /\ prog.writes[w] = m
           /\ w \in CollectDeps(u)
<1>1. PICK w \in Tasks(prog) : Writers(prog, m) = {w} /\ \A t \in Readers(prog, m) : w < t
  BY ProgramsAssumption DEF WellFormed
<1>2. w < u /\ prog.writes[w] = m /\ w # u
  BY <1>1, ProgramsAssumption DEF Writers, WellFormed, Tasks, Readers
<1>3. m \in Touches(prog, u)
  BY DEF Readers, Touches
<1>4. w \in CollectDeps(u)
  BY <1>1, <1>2, <1>3 DEF CollectDeps
<1>5. QED BY <1>1, <1>2, <1>4

(* In every lowered program a task waits for the writer of everything it    *)
(* reads, and requires it under a token of that writer.                     *)
THEOREM DataAlwaysArrives == Spec => []DataArrives
<1>1. DInv => DataArrives
  <2>1. SUFFICES ASSUME DInv, Lowered, NEW u \in Tasks(prog), NEW m \in prog.reads[u]
                 PROVE  \E w \in Awaited[u] :
                          /\ Writers(prog, m) = {w}
                          /\ \E k \in Tokens(u) : k[1] = w /\ <<k, m>> \in requires[u]
    BY DEF DataArrives
  <2>2. prog \in Programs
    BY <2>1 DEF DInv, TInv, IInv
  <2>3. m \in Memrefs(prog) /\ u \in Readers(prog, m)
    BY <2>1, <2>2, ProgramsAssumption DEF WellFormed, Readers
  <2>4. PICK w \in Tasks(prog) :
           Writers(prog, m) = {w} /\ prog.writes[w] = m /\ w \in CollectDeps(u)
    BY <2>2, <2>3, ReadersDepend
  <2>5. \E k \in Tokens(u) : k[1] = w /\ <<k, m>> \in requires[u]
    BY <2>1, <2>4, TokensKnown
  <2>6. \A S : Closed(S) /\ DirectWaits(u) \subseteq S => w \in S
    BY <2>1, <2>4, DepsAwaited
  <2>7. w \in Awaited[u]
    BY <2>6, AwaitedIsLeast
  <2>8. QED BY <2>4, <2>5, <2>7
<1>2. QED BY DInvHolds, <1>1, PTL

-----------------------------------------------------------------------------
(* An accessor ordered before u in the dependency graph is in every closed  *)
(* set that has the waits of u.                                             *)
LEMMA OrderedIsAwaited ==
  ASSUME DInv, Lowered, NEW S, Closed(S),
         NEW u \in Tasks(prog), DirectWaits(u) \subseteq S,
         NEW t, t # u, Ordered(t, u)
  PROVE  t \in S
<1>1. \A v \in Tasks(prog) : Producers[v] = CollectDeps(v)
  BY DEF Producers, DInv, DepsKnown, Lowered
<1>2. S \in SUBSET Tasks(prog)
  BY DEF Closed
<1>3. Producers[u] \subseteq S
  BY <1>1, DepsAwaited
<1>4. ASSUME NEW v \in S PROVE Producers[v] \subseteq S
  <2>1. v \in Tasks(prog) /\ DirectWaits(v) \subseteq S
    BY <1>2 DEF Closed
  <2>2. QED BY <1>1, <2>1, DepsAwaited
<1>5. t \in Reachable(Producers, u)
  BY DEF Ordered
<1>6. QED BY <1>2, <1>3, <1>4, <1>5 DEF Reachable

(* The last accessor of a memref that is read is its last reader.           *)
LEMMA LastAccessorReads ==
  ASSUME prog \in Programs, NEW m \in Memrefs(prog), Readers(prog, m) # {}
  PROVE  LastAccessor(m) \in Readers(prog, m)
<1>1. PICK r \in Tasks(prog) : r \in Readers(prog, m)
  BY DEF Readers
<1>2. PICK w \in Tasks(prog) : Writers(prog, m) = {w} /\ w < r
  BY <1>1, ReadersDepend
<1>3. Accessors(prog, m) \in SUBSET (1 .. prog.tasks) /\ prog.tasks \in Nat
  BY ProgramsAssumption DEF Accessors, Tasks, WellFormed
<1>4. r \in Accessors(prog, m)
  BY <1>1 DEF Accessors, Readers, Touches
<1>5. LastAccessor(m) \in Accessors(prog, m) /\ r <= LastAccessor(m)
  BY <1>3, <1>4, MaxIsGreatest DEF LastAccessor
<1>6. LastAccessor(m) # w
  BY <1>2, <1>3, <1>4, <1>5
<1>7. QED BY <1>2, <1>5, <1>6 DEF Accessors, Touches, Readers, Writers

(* Of at most two elements, two that differ from a third are one.           *)
LEMMA AtMostTwo ==
  ASSUME NEW T, IsFiniteSet(T), Cardinality(T) \in {1, 2},
         NEW x \in T, NEW y \in T, NEW z \in T, x # z, y # z
  PROVE  x = y
<1>1. IsFiniteSet(T \ {z}) /\ Cardinality(T \ {z}) = Cardinality(T) - 1
  BY FS_RemoveElement
<1>2. /\ IsFiniteSet((T \ {z}) \ {x})
      /\ Cardinality((T \ {z}) \ {x}) = Cardinality(T \ {z}) - 1
  BY <1>1, FS_RemoveElement
<1>3. Cardinality((T \ {z}) \ {x}) \in Nat
  BY <1>2, FS_CardinalityType
<1>4. Cardinality((T \ {z}) \ {x}) = 0
  BY <1>1, <1>2, <1>3
<1>5. (T \ {z}) \ {x} = {}
  BY <1>2, <1>4, FS_EmptySet
<1>6. QED BY <1>5

(* The writer of a consumed memref waits for the last accessor of the one   *)
(* older memref in its memory: that accessor is ordered before it anyway,   *)
(* or the pair is kept and the semaphore of the writer chains from the      *)
(* token the accessor requires.                                             *)
LEMMA LastAccessorAwaited ==
  ASSUME DInv, Lowered, NEW S, Closed(S),
         NEW b \in Memrefs(prog), NEW a \in OlderOverlaps(b), OlderOverlaps(b) = {a},
         Consumed(b), Readers(prog, a) # {},
         NEW w \in Tasks(prog), Writers(prog, b) = {w}, DirectWaits(w) \subseteq S
  PROVE  LastAccessor(a) \in S
<1> DEFINE la == LastAccessor(a)
<1>1. prog \in Programs /\ WellFormed(prog) /\ next = "done"
  BY ProgramsAssumption DEF DInv, TInv, IInv, Lowered
<1>2. /\ a \in Memrefs(prog) /\ a \in Int /\ b \in Int /\ a < b
      /\ Overlap(prog, a, b) /\ InWindow(a, b)
  BY <1>1 DEF OlderOverlaps, Memrefs, WellFormed
<1>3. la \in Readers(prog, a) /\ la \in Tasks(prog)
  BY <1>1, <1>2, LastAccessorReads DEF Readers
<1>4. prog.writes[w] = b /\ FirstWriter(b) = w
  <2>1. Min({w}) \in {w}
    BY <1>1, MinIsLeast DEF WellFormed, Tasks
  <2>2. QED BY <2>1 DEF FirstWriter, Writers
<1>5. la < w
  <2>1. la \in Accessors(prog, a) /\ w \in Accessors(prog, b)
    BY <1>1, <1>3, <1>4 DEF Accessors, Readers, Touches, Memrefs, NoMemref, WellFormed
  <2>2. QED BY <1>1, <1>2, <2>1 DEF WellFormed
<1>6. CASE Ordered(la, w)
  BY <1>1, <1>3, <1>5, <1>6, OrderedIsAwaited DEF WellFormed, Tasks
<1>7. CASE ~Ordered(la, w)
  <2>1. <<a, b>> \in AliasPairs
    BY <1>2, <1>4, <1>7 DEF AliasPairs
  <2>2. ASSUME NEW other \in AliasPairs, FirstWriter(other[2]) = w
        PROVE  other = <<a, b>>
    <3>1. /\ other = <<other[1], other[2]>>
          /\ other[1] \in Memrefs(prog) /\ other[2] \in Memrefs(prog) /\ other[1] < other[2]
          /\ Overlap(prog, other[1], other[2]) /\ InWindow(other[1], other[2])
      BY DEF AliasPairs
    <3>2. PICK v \in Tasks(prog) : Writers(prog, other[2]) = {v}
      BY <1>1, <3>1 DEF WellFormed
    <3>3. Min({v}) \in {v}
      BY <1>1, MinIsLeast DEF WellFormed, Tasks
    <3>4. other[2] = b
      BY <1>4, <2>2, <3>2, <3>3 DEF FirstWriter, Writers
    <3>5. other[1] \in OlderOverlaps(b)
      BY <1>1, <3>1, <3>4 DEF OlderOverlaps, Memrefs, WellFormed
    <3>6. QED BY <3>1, <3>4, <3>5
  <2>3. <<a, b>> \in KeptPairs
    BY <1>2, <1>4, <2>1, <2>2 DEF KeptPairs
  <2>4. PICK v \in Tasks(prog) : prog.writes[v] = a /\ v \in CollectDeps(la)
    BY <1>1, <1>2, <1>3, ReadersDepend
  <2>5. PICK k \in Tokens(la) : k[1] = v /\ <<k, a>> \in requires[la]
    BY <1>3, <2>4, TokensKnown
  <2>6. k \in marks[w]
    <3>1. \A r \in requires[la] : r[2] = a => r[1] \in marks[w]
      BY <1>1, <1>4, <2>3 DEF DInv, MarksKnown
    <3>2. QED BY <2>5, <3>1
  <2>7. k \in sems
    BY <1>3, TokenShapes
  <2>8. <<w, 0>> \in sems \ startsFull
    <3>1. PICK c \in Tasks(prog) : c \in Readers(prog, b)
      BY DEF Consumed, Readers
    <3>2. w \in CollectDeps(c)
      BY <1>1, <3>1, ReadersDepend
    <3>3. PICK j \in Tokens(c) : j[1] = w
      BY <3>1, <3>2, TokensKnown
    <3>4. QED BY <3>3, TokenShapes
  <2>9. acquire[w] = <<w, 0>> /\ chains[<<w, 0>>] = marks[w] \cap sems
    BY <1>1, <2>8 DEF DInv, TInv, IInv, SemsMatch, ChainsMatch
  <2>10. Consumers(k) \subseteq DirectWaits(w)
    BY <2>6, <2>7, <2>8, <2>9 DEF DirectWaits
  <2>11. QED BY <1>3, <2>5, <2>10 DEF Consumers
<1>8. QED BY <1>6, <1>7

(* The last accessor waits for the producer, and for the other reader: its  *)
(* copy of the token chains from the original, which that reader consumes.  *)
LEMMA AccessorsAwaited ==
  ASSUME DInv, Lowered, NEW S, Closed(S),
         NEW a \in Memrefs(prog), Cardinality(Readers(prog, a)) \in {1, 2},
         LastAccessor(a) \in S, LastAccessor(a) \in Readers(prog, a)
  PROVE  Accessors(prog, a) \subseteq S
<1> DEFINE la == LastAccessor(a)
<1>1. /\ prog \in Programs /\ WellFormed(prog) /\ prog.tasks \in Nat
      /\ OneConsumer /\ CopiesFollow /\ Corrected
  BY ProgramsAssumption DEF DInv, TInv, IInv, Lowered, WellFormed, Corrected
<1>2. PICK v \in Tasks(prog) :
        Writers(prog, a) = {v} /\ prog.writes[v] = a /\ v \in CollectDeps(la)
  BY <1>1, ReadersDepend
<1>3. la \in Tasks(prog) /\ DirectWaits(la) \subseteq S
  BY DEF Readers, Closed
<1>4. PICK k \in Tokens(la) : k[1] = v
  BY <1>2, <1>3, TokensKnown
<1>5. v \in S /\ (k \in startsFull => Consumers(<<v, 0>>) \subseteq S)
  BY <1>3, <1>4, ProducersAwaited
<1>6. ASSUME NEW x \in Readers(prog, a), x # la PROVE x \in S
  <2>1. x \in Tasks(prog) /\ v \in CollectDeps(x) /\ x <= la
    <3>1. x \in Accessors(prog, a) /\ x \in Tasks(prog)
      BY DEF Accessors, Readers, Touches
    <3>2. Accessors(prog, a) \in SUBSET (1 .. prog.tasks)
      BY DEF Accessors, Tasks
    <3>3. x <= la
      BY <1>1, <3>1, <3>2, MaxIsGreatest DEF LastAccessor
    <3>4. v \in CollectDeps(x)
      BY <1>1, <1>2, ReadersDepend
    <3>5. QED BY <3>1, <3>3, <3>4
  <2>2. x < la
    BY <1>1, <1>3, <1>6, <2>1 DEF Tasks
  <2>3. PICK j \in Tokens(x) : j[1] = v
    BY <2>1, TokensKnown
  <2>4. k \in startsFull
    <3>1. SUFFICES ASSUME k = <<v, 0>> PROVE FALSE
      BY <1>3, <1>4, TokenShapes
    <3>2. j = <<v, 0>> \/ j = <<v, x>>
      BY <2>1, <2>3, TokenShapes
    <3>3. CASE j = <<v, 0>>
      BY <1>1, <1>3, <1>4, <1>6, <2>1, <2>3, <3>1, <3>3 DEF OneConsumer
    <3>4. CASE j = <<v, x>>
      <4>1. la < x
        BY <1>1, <1>2, <1>3, <1>4, <2>1, <2>3, <3>1, <3>4 DEF CopiesFollow, Tasks
      <4>2. QED BY <1>1, <1>3, <2>1, <2>2, <4>1 DEF Tasks
    <3>5. QED BY <3>2, <3>3, <3>4
  <2>5. PICK c \in Tasks(prog) : <<v, 0>> \in Tokens(c) /\ c < la
    BY <1>3, <1>4, <2>4, TokenShapes
  <2>6. c \in S
    BY <1>5, <2>4, <2>5 DEF Consumers
  <2>7. c \in Readers(prog, a)
    <3>1. v \in CollectDeps(c)
      <4>1. \A q \in Tokens(c) : q[1] \in CollectDeps(c)
        BY <2>5, TokensKnown
      <4>2. QED BY <2>5, <4>1
    <3>2. PICK m \in Touches(prog, c) : v \in Writers(prog, m) /\ v # c
      BY <3>1 DEF CollectDeps
    <3>3. m = a
      BY <1>2, <3>2 DEF Writers
    <3>4. prog.writes[c] # a
      BY <1>2, <2>5, <3>2 DEF Writers
    <3>5. QED BY <2>5, <3>2, <3>3, <3>4 DEF Touches, Readers
  <2>8. IsFiniteSet(Readers(prog, a))
    <3>1. IsFiniteSet(1 .. prog.tasks)
      BY <1>1, FS_Interval
    <3>2. QED BY <3>1, FS_Subset DEF Readers, Tasks
  <2>9. c # la
    BY <1>1, <1>3, <2>5 DEF Tasks
  <2>10. x = c
    BY <1>6, <2>7, <2>8, <2>9, AtMostTwo
  <2>11. QED BY <2>6, <2>10
<1>7. Accessors(prog, a) \subseteq Readers(prog, a) \cup Writers(prog, a)
  BY DEF Accessors, Readers, Writers, Touches
<1>8. QED BY <1>2, <1>5, <1>6, <1>7

(* In every lowered program the writer of a consumed memref waits for every *)
(* task that touched the one older memref in its memory, if that memref has *)
(* one or two readers.                                                      *)
THEOREM MemoryIsReusedInOrder == Spec => []MemoryReusedInOrder
<1>1. DInv => MemoryReusedInOrder
  <2>1. SUFFICES ASSUME DInv, Lowered,
                        NEW b \in Memrefs(prog), NEW a \in OlderOverlaps(b), Consumed(b),
                        Cardinality(Readers(prog, a)) \in {1, 2}, OlderOverlaps(b) = {a},
                        NEW w \in Writers(prog, b), NEW x \in Accessors(prog, a)
                 PROVE  x \in Awaited[w]
    BY DEF MemoryReusedInOrder
  <2>2. prog \in Programs /\ WellFormed(prog)
    BY <2>1, ProgramsAssumption DEF DInv, TInv, IInv
  <2>3. w \in Tasks(prog) /\ Writers(prog, b) = {w} /\ x \in Tasks(prog)
    BY <2>2 DEF WellFormed, Writers, Accessors
  <2>4. a \in Memrefs(prog)
    BY <2>2 DEF OlderOverlaps, Memrefs, WellFormed
  <2>5. Readers(prog, a) # {}
    BY <2>1, FS_EmptySet
  <2>6. ASSUME NEW S, Closed(S), DirectWaits(w) \subseteq S PROVE x \in S
    <3>1. LastAccessor(a) \in S
      BY <2>1, <2>3, <2>5, <2>6, LastAccessorAwaited
    <3>2. LastAccessor(a) \in Readers(prog, a)
      BY <2>2, <2>4, <2>5, LastAccessorReads
    <3>3. QED BY <2>1, <2>4, <2>6, <3>1, <3>2, AccessorsAwaited
  <2>7. QED BY <2>3, <2>6, AwaitedIsLeast
<1>2. QED BY DInvHolds, <1>1, PTL
=============================================================================
